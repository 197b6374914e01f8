--------------------------- MODULE OrderLifecycle ---------------------------
(***************************************************************************)
(* What an order promises its customer and the warehouse, without carts,   *)
(* deadlines, payments or locks: an order is placed once, its goods are    *)
(* set aside when it is placed, and then exactly one of two things happens *)
(* to it, once: it is paid and its goods leave the shop, or it is          *)
(* cancelled and its goods return to the shelf. Money that turns up after  *)
(* a cancellation is noticed but never revives the order.                  *)
(***************************************************************************)
CONSTANT OrderIds

VARIABLES
  phase,   \* the order's place in its life
  goods,   \* where the ordered goods are
  noticed  \* whether money was seen for a cancelled order

vars == <<phase, goods, noticed>>

Phases == {"absent", "waiting", "processing", "shipped", "delivered", "cancelled"}

Init ==
  /\ phase = [o \in OrderIds |-> "absent"]
  /\ goods = [o \in OrderIds |-> "shelf"]
  /\ noticed = [o \in OrderIds |-> FALSE]

Place(o) ==
  /\ phase[o] = "absent"
  /\ phase' = [phase EXCEPT ![o] = "waiting"]
  /\ goods' = [goods EXCEPT ![o] = "reserved"]
  /\ UNCHANGED noticed

Pay(o) ==
  /\ phase[o] = "waiting"
  /\ phase' = [phase EXCEPT ![o] = "processing"]
  /\ goods' = [goods EXCEPT ![o] = "sold"]
  /\ UNCHANGED noticed

\* Cancelling and noticing the money may be one step: a payment that arrives
\* after the deadline cancels the order itself.
Cancel(o) ==
  /\ phase[o] = "waiting"
  /\ phase' = [phase EXCEPT ![o] = "cancelled"]
  /\ goods' = [goods EXCEPT ![o] = "shelf"]
  /\ \E seen \in BOOLEAN : noticed' = [noticed EXCEPT ![o] = seen]

Notice(o) ==
  /\ phase[o] = "cancelled"
  /\ noticed' = [noticed EXCEPT ![o] = TRUE]
  /\ UNCHANGED <<phase, goods>>

Ship(o) ==
  /\ phase[o] = "processing"
  /\ phase' = [phase EXCEPT ![o] = "shipped"]
  /\ UNCHANGED <<goods, noticed>>

Deliver(o) ==
  /\ phase[o] = "shipped"
  /\ phase' = [phase EXCEPT ![o] = "delivered"]
  /\ UNCHANGED <<goods, noticed>>

Next ==
  \E o \in OrderIds : Place(o) \/ Pay(o) \/ Cancel(o) \/ Notice(o) \/ Ship(o) \/ Deliver(o)

Spec == Init /\ [][Next]_vars
=============================================================================
