------------------------------ MODULE MCOrders ------------------------------
(***************************************************************************)
(* Instances of Orders for TLC. The customers, orders, keys and products   *)
(* are interchangeable: no definition names one of them.                   *)
(***************************************************************************)
EXTENDS Orders, TLC

Symmetry ==
  Permutations(Users) \cup Permutations(Products) \cup Permutations(OrderIds)
    \cup Permutations(Keys) \cup Permutations(Addresses)
=============================================================================
