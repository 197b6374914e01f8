---------------------------- MODULE MCAuthGuards ----------------------------
(* AuthGuards with its workers and its codes taken up to renaming. *)
EXTENDS AuthGuards, TLC

Symmetry == Permutations(Workers) \cup Permutations(Codes)
=============================================================================
