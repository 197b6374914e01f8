----------------------------- MODULE MCPayments -----------------------------
(***************************************************************************)
(* Instances of Payments for TLC. Payments, orders and workers are         *)
(* interchangeable: no definition names one of them.                       *)
(***************************************************************************)
EXTENDS Payments, TLC

Symmetry == Permutations(Payments) \cup Permutations(OrderIds) \cup Permutations(Workers)
=============================================================================
