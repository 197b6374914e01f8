-------------------------- MODULE OrderTransitions --------------------------
(***************************************************************************)
(* What each service of apps/orders does to ONE locked order row and its   *)
(* reservation set, as functions from the row before to the row after.     *)
(* The modules that own an order variable (Orders, Payments) apply them.   *)
(*                                                                         *)
(* A row is a record with at least the fields                              *)
(*    status  - Order.Status                                               *)
(*    lapsed  - "now >= reservation_expires_at", a flag that only rises    *)
(*    late    - late_payment_detected_at is set                            *)
(*    reason  - cancellation_reason, "" when blank                         *)
(*    rsv     - the state of the order's reservation set; the services     *)
(*              change every line of the set in one transaction            *)
(*    told    - the events whose SMS obligations were written with them    *)
(***************************************************************************)

Statuses == {"waiting", "processing", "shipped", "delivered", "cancelled"}

ReservationStates == {"active", "consumed", "released"}

Events == {"order_confirmed", "order_shipped"}

Reasons == {"", "payment_failed", "reservation_expired"}

Waiting(row) == row.status = "waiting"

\* _validate_reservation_set(operation="release"): consumed lines raise.
Releasable(row) == row.rsv # "consumed"

\* Mutant of Cancelled: the reservations are not released.
CancelledOnly(row, why) == [row EXCEPT !.status = "cancelled", !.reason = why]

\* release_active_reservations followed by the status change that every
\* caller of it makes. Stock moves only if the set was still active.
Cancelled(row, why) ==
  [row EXCEPT !.status = "cancelled", !.reason = why, !.rsv = "released"]

\* The lines go back on the shelf exactly when the set stops being active
\* without being consumed.
Restocks(before, after) == before.rsv = "active" /\ after.rsv = "released"

\* expire_unpaid_order, and checkout's _cancel_expired_locked_order.
CanExpire(row) == Waiting(row) /\ row.lapsed /\ Releasable(row)

Expired(row) == Cancelled(row, "reservation_expired")

\* cancel_failed_payment: a cancelled order is left alone, any other order
\* that is not waiting raises.
CanCancelFailed(row) == row.status = "cancelled" \/ (Waiting(row) /\ Releasable(row))

FailedPaymentRow(row) ==
  IF Waiting(row)
  THEN Cancelled(row, IF row.lapsed THEN "reservation_expired" ELSE "payment_failed")
  ELSE row

\* confirm_verified_payment, the outcomes its branches lead to. The three
\* sets of rows below are disjoint; on every other row the service raises.
ConfirmIsLate(row) ==
  \/ row.status = "cancelled"
  \/ Waiting(row) /\ row.lapsed /\ Releasable(row)
  \/ Waiting(row) /\ ~row.lapsed /\ row.rsv = "released"

\* Mutant of ConfirmApplies: the deadline is not compared.
ConfirmAppliesLate(row) == Waiting(row) /\ row.rsv = "active"

ConfirmApplies(row) == Waiting(row) /\ ~row.lapsed /\ row.rsv = "active"

ConfirmAlreadyDone(row) ==
  \/ row.status = "processing" /\ row.rsv = "consumed"
  \/ row.status \in {"shipped", "delivered"}

ConfirmRaises(row) ==
  ~(ConfirmIsLate(row) \/ ConfirmApplies(row) \/ ConfirmAlreadyDone(row))

\* ... and the row it leaves behind when it does not raise.
ConfirmedRow(row) ==
  IF ConfirmApplies(row) THEN [row EXCEPT !.status = "processing", !.rsv = "consumed",
                        !.told = @ \cup {"order_confirmed"}]
  ELSE IF ConfirmIsLate(row) THEN [FailedPaymentRow(row) EXCEPT !.late = TRUE]
  ELSE row

\* Mutant of CanShip: a cancelled order whose money came late is shipped.
CanShipPaidOrCancelled(row) == row.status = "processing" \/ row.late

\* mark_order_shipped and mark_order_delivered.
CanShip(row) == row.status = "processing"

ShippedRow(row) ==
  [row EXCEPT !.status = "shipped", !.told = @ \cup {"order_shipped"}]

CanDeliver(row) == row.status = "shipped"

DeliveredRow(row) == [row EXCEPT !.status = "delivered"]
=============================================================================
