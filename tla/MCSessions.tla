----------------------------- MODULE MCSessions -----------------------------
(* Sessions with its workers and its tokens taken up to renaming. *)
EXTENDS Sessions, TLC

Symmetry == Permutations(Workers) \cup Permutations(Tokens)
=============================================================================
