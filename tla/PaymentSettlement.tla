------------------------- MODULE PaymentSettlement -------------------------
(***************************************************************************)
(* What the shop promises about money, without sessions, leases, retries   *)
(* or reviews: once the shop has seen a payment captured, it decides, once *)
(* and for ever, whether that money bought the order or is owed back; only *)
(* money in the right amount buys an order, and an order is bought once.   *)
(***************************************************************************)
CONSTANTS
  Payments,
  OrderIds,
  NoOrder

VARIABLES
  money,  \* what the provider captured: "none", "exact" or "short"
  fate,   \* what became of the payment: "open", "bought" or "owed"
  buys    \* the order a bought payment paid for

vars == <<money, fate, buys>>

Init ==
  /\ money = [p \in Payments |-> "none"]
  /\ fate = [p \in Payments |-> "open"]
  /\ buys = [p \in Payments |-> NoOrder]

Capture(p) ==
  /\ money[p] = "none"
  /\ \E amount \in {"exact", "short"} : money' = [money EXCEPT ![p] = amount]
  /\ UNCHANGED <<fate, buys>>

Buy(p, o) ==
  /\ money[p] = "exact"
  /\ fate[p] = "open"
  /\ \A q \in Payments : buys[q] # o
  /\ fate' = [fate EXCEPT ![p] = "bought"]
  /\ buys' = [buys EXCEPT ![p] = o]
  /\ UNCHANGED money

Owe(p) ==
  /\ money[p] # "none"
  /\ fate[p] = "open"
  /\ fate' = [fate EXCEPT ![p] = "owed"]
  /\ UNCHANGED <<money, buys>>

Next ==
  \E p \in Payments : Capture(p) \/ Owe(p) \/ \E o \in OrderIds : Buy(p, o)

Spec == Init /\ [][Next]_vars
=============================================================================
