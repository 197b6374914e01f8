------------------------------ MODULE Payments ------------------------------
(***************************************************************************)
(* Payment attempts: apps/payments/services (initialization, verification, *)
(* reconciliation), its sweep and its admin action, driving the orders of  *)
(* apps/orders through a provider that may be slow, silent or late.        *)
(*                                                                         *)
(* A service never calls the provider inside a transaction. It claims the  *)
(* payment row (an operation token with a 30 second lease), calls, and     *)
(* finishes in another transaction; in between anything may happen,        *)
(* another service taking over the row included. Every transaction is one  *)
(* action, and a worker is one running request or task: its name stands    *)
(* for the operation token it drew. Reservation lines are those of Orders: *)
(* an order row has the fields of OrderTransitions.                        *)
(***************************************************************************)
EXTENDS FiniteSets, OrderTransitions

CONSTANTS
  Payments,   \* payment rows; a row also stands for its unique idempotency key
  OrderIds,   \* order rows
  Workers,    \* requests and tasks that run at the same time
  NoPayment,  \* the payment row does not exist
  NoOrder,    \* the order row does not exist
  NoWorker    \* operation_token is NULL

PaymentStatuses ==
  {"pending", "redirect_ready", "verifying", "verified", "failed", "manual_review"}

OpenStatuses == {"pending", "redirect_ready", "verifying", "manual_review"}

Reconcilable == {"pending", "redirect_ready", "verifying"}

RefundReasons == {"none", "late_payment", "duplicate_payment", "amount_mismatch"}

OrderRow ==
  [status : Statuses, lapsed : BOOLEAN, late : BOOLEAN, reason : Reasons,
   rsv : ReservationStates, told : SUBSET Events]

\* session is "provider_session_id is set", leased "the lease of token has
\* not lapsed", due "next_reconciliation_at is set", old "the reconciliation
\* horizon has passed", refund the reason of the payment's one Refund row.
PaymentRow ==
  [order : OrderIds, status : PaymentStatuses, session : BOOLEAN,
   token : Workers \cup {NoWorker}, leased : BOOLEAN, due : BOOLEAN, old : BOOLEAN,
   captured : {"none", "exact", "short"}, applied : BOOLEAN, refund : RefundReasons]

ASSUME NoRowsAssumption ==
  /\ NoPayment \notin Payments
  /\ NoPayment \notin PaymentRow
  /\ NoOrder \notin OrderRow
  /\ NoOrder \notin OrderIds
  /\ NoWorker \notin Workers

\* What the provider knows of an attempt: no session (yet), refused for good,
\* a session nobody paid, or a capture in the right or in another amount.
GatewayStates == {"none", "refused", "open", "exact", "short"}

Captures == {"exact", "short"}

\* What a running worker does: nothing, wait for the provider's answer to one
\* of the three calls, or be between two transactions of its service. since is
\* what the provider knew when the call began.
Calls == {"create", "lookup", "verify"}

Idle == [at |-> "idle", on |-> NoPayment, since |-> "none"]

Work == [at : Calls \cup {"reverify", "expire"}, on : Payments, since : GatewayStates]

VARIABLES
  order,    \* [OrderIds -> OrderRow or NoOrder]
  payment,  \* [Payments -> PaymentRow or NoPayment]
  gateway,  \* [Payments -> GatewayStates]
  worker    \* [Workers -> Work or Idle]

vars == <<order, payment, gateway, worker>>

Started(p) == payment[p] # NoPayment

Open(p) == Started(p) /\ payment[p].status \in OpenStatuses

Rivals(p, o) == {q \in Payments \ {p} : Started(q) /\ payment[q].order = o}

Init ==
  /\ order = [o \in OrderIds |-> NoOrder]
  /\ payment = [p \in Payments |-> NoPayment]
  /\ gateway = [p \in Payments |-> "none"]
  /\ worker = [w \in Workers |-> Idle]

-----------------------------------------------------------------------------
(* What the services write into a payment row.                             *)

Released(row) == [row EXCEPT !.token = NoWorker, !.leased = FALSE]

Claimed(row, w) == [row EXCEPT !.token = w, !.leased = TRUE]

\* Mutant of Busy: a claim whose lease lapsed still excludes everyone.
BusyForEver(row) == row.token # NoWorker

\* A claim another worker may not take over yet.
Busy(row) == row.token # NoWorker /\ row.leased

InReview(row) == [Released(row) EXCEPT !.status = "manual_review", !.due = FALSE]

WithSession(row) ==
  [Released(row) EXCEPT !.status = "redirect_ready", !.session = TRUE, !.due = TRUE]

\* Mutant of BackToReconciliation: no new due time.
BackWithoutDueTime(row) == [Released(row) EXCEPT !.status = "redirect_ready"]

BackToReconciliation(row) ==
  [Released(row) EXCEPT !.status = "redirect_ready", !.due = TRUE]

Failed(row) == [Released(row) EXCEPT !.status = "failed"]

\* _preserve_stale_failed_payment
Preserved(row) == [Released(row) EXCEPT !.due = FALSE]

Verified(row, amount) ==
  [Released(row) EXCEPT !.status = "verified", !.captured = amount, !.due = FALSE]

\* create_refund_obligation: get_or_create, so a first reason stands.
Owing(row, reason) ==
  [row EXCEPT !.refund = IF row.refund = "none" THEN reason ELSE row.refund]

\* Mutant of WritePayment: without payments_one_open_per_order.
WritePaymentUnchecked(p, row) == payment' = [payment EXCEPT ![p] = row]

\* The row is saved unless payments_one_open_per_order refuses it, in which
\* case its transaction rolls back and the caller fails (WorkerLost).
WritePayment(p, row) ==
  /\ row.status \in OpenStatuses => \A q \in Rivals(p, row.order) : ~Open(q)
  /\ payment' = [payment EXCEPT ![p] = row]

WorkerDoes(w, work) == worker' = [worker EXCEPT ![w] = work]

Calling(call, p) == [at |-> call, on |-> p, since |-> gateway[p]]

Before(step, p) == [at |-> step, on |-> p, since |-> "none"]

\* After a late session is recorded the caller lets the order expire.
Lapsing(o) == ~Waiting(order[o]) \/ order[o].lapsed

-----------------------------------------------------------------------------
(* The provider and its customer. External: no adapter is in the           *)
(* repository, only the protocol the services call.                        *)

\* What a call may answer: the truth, an error, or nothing in time. What the
\* provider knows only goes from no to yes, so a no is true of some moment of
\* the call if it was true when the call began, and a yes if it is true when
\* the answer is used; an unpaid session may be paid after "unpaid" was said.
Answers(work) ==
  LET now == gateway[work.on]
      sessionNow == now \in {"open"} \cup Captures
  IN  CASE work.at = "create" ->
             {"ambiguous", "invalid"} \cup (IF sessionNow THEN {"ready"} ELSE {})
               \cup (IF now = "refused" THEN {"rejected"} ELSE {})
        [] work.at = "lookup" ->
             {"ambiguous", "invalid"} \cup (IF sessionNow THEN {"ready"} ELSE {})
               \cup (IF work.since \in {"none", "refused"} THEN {"rejected"} ELSE {})
        [] work.at = "verify" ->
             {"ambiguous", "security"} \cup ({now} \cap Captures)
               \cup (IF work.since \notin Captures THEN {"unpaid"} ELSE {})

AllAnswers == {"ready", "rejected", "ambiguous", "invalid", "security", "unpaid"} \cup Captures

\* A create request reaches the provider, perhaps long after its caller gave
\* up on it, and is accepted or refused.
ProviderDecides(p) ==
  /\ Started(p)
  /\ gateway[p] = "none"
  /\ \E decision \in {"open", "refused"} : gateway' = [gateway EXCEPT ![p] = decision]
  /\ UNCHANGED <<order, payment, worker>>

\* The customer was redirected to a session, which the shop therefore knows.
CustomerPays(p) ==
  /\ Started(p)
  /\ payment[p].session
  /\ gateway[p] = "open"
  /\ \E amount \in Captures : gateway' = [gateway EXCEPT ![p] = amount]
  /\ UNCHANGED <<order, payment, worker>>

-----------------------------------------------------------------------------
(* initialize_payment                                                      *)

\* First transaction: the order waits, its deadline is ahead and no attempt
\* on it is open. (On a lapsed order it changes nothing and the request goes
\* on to expire_unpaid_order, which is ExpireUnpaidOrder.)
InitiatePayment(w, p, o) ==
  /\ worker[w] = Idle
  /\ ~Started(p)
  /\ order[o] # NoOrder
  /\ Waiting(order[o])
  /\ ~order[o].lapsed
  /\ \A q \in Rivals(p, o) : ~Open(q)
  /\ WritePayment(p, [order |-> o, status |-> "pending", session |-> FALSE, token |-> w,
                      leased |-> TRUE, due |-> TRUE, old |-> FALSE, captured |-> "none",
                      applied |-> FALSE, refund |-> "none"])
  /\ WorkerDoes(w, Calling("create", p))
  /\ UNCHANGED <<order, gateway>>

\* What the answer to create_payment makes of the row. "invalid" is a protocol
\* or security error, an unsafe redirect or an identifier already in use;
\* "ambiguous" a transport error or no adapter.
AfterCreate(row, says) ==
  CASE says = "ready"     -> WithSession(row)
    [] says = "rejected"  -> Failed(row)
    [] says = "ambiguous" -> [Released(row) EXCEPT !.due = TRUE]
    [] says = "invalid"   -> InReview(row)

\* Second transaction, dropped when the claim was taken over.
FinishCreate(w, says) ==
  LET p == worker[w].on
      mine == payment[p].token = w
  IN  /\ worker[w].at = "create"
      /\ says \in Answers(worker[w])
      /\ IF mine THEN WritePayment(p, AfterCreate(payment[p], says)) ELSE UNCHANGED payment
      /\ WorkerDoes(w, IF mine /\ says = "ready" /\ Lapsing(payment[p].order)
                       THEN Before("expire", p) ELSE Idle)
      /\ UNCHANGED <<order, gateway>>

\* The expire_unpaid_order that follows, in its own transaction.
ExpireAfterwards(w) ==
  LET o == payment[worker[w].on].order
  IN  /\ worker[w].at = "expire"
      /\ order' = IF CanExpire(order[o]) THEN [order EXCEPT ![o] = Expired(order[o])] ELSE order
      /\ WorkerDoes(w, Idle)
      /\ UNCHANGED <<payment, gateway>>

-----------------------------------------------------------------------------
(* verify_payment                                                          *)

\* The claiming transaction. A failed payment keeps its status while it is
\* verified again; any other one, in manual review too, becomes VERIFYING.
ClaimVerification(w, p) ==
  LET row == Claimed(payment[p], w)
  IN  /\ payment[p].status # "verified"
      /\ ~Busy(payment[p])
      /\ WritePayment(p, IF row.status = "failed" THEN row ELSE [row EXCEPT !.status = "verifying"])
      /\ WorkerDoes(w, Calling("verify", p))
      /\ UNCHANGED <<order, gateway>>

\* The provider's callback, at any time and any number of times; one that
\* finds the payment verified or busy changes nothing.
Callback(w, p) ==
  /\ worker[w] = Idle
  /\ Started(p)
  /\ payment[p].session
  /\ ClaimVerification(w, p)

OtherOpen(p) == \E q \in Rivals(p, payment[p].order) : Open(q)

OtherApplied(p) == \E q \in Rivals(p, payment[p].order) : payment[q].applied

\* _lock_resolution_context: a failed attempt beside a newer open one has no
\* say over the order.
StaleAuthority(p) == payment[p].status = "failed" /\ OtherOpen(p)

\* No money: transport and protocol errors ("ambiguous"), security errors and
\* conflicting transaction identities ("security"), and NOT_PAID, which cancels
\* an order that still waits. Needs the claim.
AfterNoMoney(p, says) ==
  CASE says = "unpaid" -> Failed(payment[p])
    [] StaleAuthority(p) /\ says # "unpaid" -> Preserved(payment[p])
    [] ~StaleAuthority(p) /\ says = "ambiguous" -> BackToReconciliation(payment[p])
    [] ~StaleAuthority(p) /\ says = "security" -> InReview(payment[p])

\* cancel_failed_payment, where the payment has a say and the order waits.
OrderWithoutMoney(p) ==
  LET row == order[payment[p].order]
  IN  IF ~StaleAuthority(p) /\ Waiting(row) THEN FailedPaymentRow(row) ELSE row

\* Mutant of FinishWithoutMoney: the claim is not checked again.
FinishWithoutClaim(w, p, says) ==
  /\ says \in {"ambiguous", "security", "unpaid"}
  /\ WritePayment(p, AfterNoMoney(p, says))
  /\ order' = IF says = "unpaid"
              THEN [order EXCEPT ![payment[p].order] = OrderWithoutMoney(p)] ELSE order

FinishWithoutMoney(w, p, says) ==
  /\ says \in {"ambiguous", "security", "unpaid"}
  /\ IF payment[p].token = w
     THEN /\ WritePayment(p, AfterNoMoney(p, says))
          /\ order' = IF says = "unpaid"
                      THEN [order EXCEPT ![payment[p].order] = OrderWithoutMoney(p)] ELSE order
     ELSE UNCHANGED <<order, payment>>

\* Mutants of AfterMoney: late money is applied; a second payment
\* for a sold order is applied too.
AfterMoneyAppliesLate(p, amount) ==
  LET row == Verified(payment[p], amount)
  IN  IF amount = "short" THEN Owing(row, "amount_mismatch")
      ELSE IF OtherApplied(p) THEN Owing(row, "duplicate_payment")
      ELSE [row EXCEPT !.applied = TRUE]

AfterMoneyAppliesTwice(p, amount) ==
  LET row == Verified(payment[p], amount)
  IN  IF amount = "short" THEN Owing(row, "amount_mismatch")
      ELSE IF ConfirmIsLate(order[payment[p].order]) THEN Owing(row, "late_payment")
      ELSE [row EXCEPT !.applied = TRUE]

\* Captured money counts even when the claim was taken over. It buys the order
\* if it is the first to and the order is still there to be bought, and is
\* owed back otherwise.
AfterMoney(p, amount) ==
  LET row == Verified(payment[p], amount)
  IN  IF amount = "short" THEN Owing(row, "amount_mismatch")
      ELSE IF OtherApplied(p) THEN Owing(row, "duplicate_payment")
      ELSE IF ConfirmIsLate(order[payment[p].order]) THEN Owing(row, "late_payment")
      ELSE [row EXCEPT !.applied = TRUE]

OrderWithMoney(p, amount) ==
  LET row == order[payment[p].order]
  IN  IF amount = "short" THEN OrderWithoutMoney(p)
      ELSE IF OtherApplied(p) THEN row
      ELSE ConfirmedRow(row)

FinishWithMoney(w, p, amount) ==
  /\ amount \in Captures
  /\ amount = "exact" /\ ~OtherApplied(p) => ~ConfirmRaises(order[payment[p].order])
  /\ WritePayment(p, AfterMoney(p, amount))
  /\ order' = [order EXCEPT ![payment[p].order] = OrderWithMoney(p, amount)]

\* The finishing transaction.
FinishVerification(w, says) ==
  LET p == worker[w].on
  IN  /\ worker[w].at = "verify"
      /\ says \in Answers(worker[w])
      /\ FinishWithoutMoney(w, p, says) \/ FinishWithMoney(w, p, says)
      /\ WorkerDoes(w, Idle)
      /\ UNCHANGED gateway

-----------------------------------------------------------------------------
(* reconcile_payment and what makes it run                                 *)

\* request_reconciliation of a payment in review: rearm_manual_review_payment,
\* by a superuser.
Rearm(p) ==
  /\ Started(p)
  /\ payment[p].status = "manual_review"
  /\ WritePayment(p, [Released(payment[p]) EXCEPT
                        !.status = IF payment[p].session THEN "redirect_ready" ELSE "pending",
                        !.due = TRUE])
  /\ UNCHANGED <<order, gateway, worker>>

\* What sweep_reconcilable_payments queues a task for.
Swept(p) == Started(p) /\ payment[p].status \in Reconcilable /\ payment[p].due

\* The first transaction of a reconcile_payment_task. Every payment is swept
\* soon after it is made, tasks are acknowledged late and the broker may deliver
\* one again: a task may run for any payment at any time.
ReconcilePayment(w, p) ==
  /\ worker[w] = Idle
  /\ Started(p)
  /\ payment[p].status \notin {"verified", "manual_review"}
  /\ ~Busy(payment[p])
  /\ \/ /\ payment[p].old
        /\ WritePayment(p, InReview(payment[p]))
        /\ UNCHANGED worker
     \/ /\ ~payment[p].old
        /\ ~payment[p].session
        /\ WritePayment(p, Claimed(payment[p], w))
        /\ WorkerDoes(w, Calling("lookup", p))
     \/ /\ ~payment[p].old
        /\ payment[p].session
        /\ WorkerDoes(w, Before("reverify", p))
        /\ UNCHANGED payment
  /\ UNCHANGED <<order, gateway>>

\* A payment with a session goes on to verify_payment, in a transaction that
\* knows nothing of the one before.
Reverify(w) ==
  LET p == worker[w].on
  IN  /\ worker[w].at = "reverify"
      /\ \/ ClaimVerification(w, p)
         \/ /\ payment[p].status = "verified" \/ Busy(payment[p])
            /\ WorkerDoes(w, Idle)
            /\ UNCHANGED <<order, payment, gateway>>

\* _finish_sessionless_lookup. "invalid" is no registered adapter, a protocol
\* or security error, an incomplete result or an identifier already in use.
AfterLookup(row, says) ==
  CASE says = "ready"     -> WithSession(row)
    [] says = "rejected"  -> [Failed(row) EXCEPT !.due = FALSE]
    [] says = "ambiguous" -> [Released(row) EXCEPT !.due = TRUE]
    [] says = "invalid"   -> InReview(row)

FinishLookup(w, says) ==
  LET p == worker[w].on
      mine == payment[p].token = w
  IN  /\ worker[w].at = "lookup"
      /\ says \in Answers(worker[w])
      /\ IF mine THEN WritePayment(p, AfterLookup(payment[p], says)) ELSE UNCHANGED payment
      /\ WorkerDoes(w, IF mine /\ says = "ready" /\ Lapsing(payment[p].order)
                       THEN Before("expire", p) ELSE Idle)
      /\ UNCHANGED <<order, gateway>>

-----------------------------------------------------------------------------
(* Time, crashes and the orders' own life                                  *)

\* The process dies, is killed by its time limit, or its transaction is rolled
\* back; what it committed, its claim included, stays.
WorkerLost(w) ==
  /\ worker[w] # Idle
  /\ WorkerDoes(w, Idle)
  /\ UNCHANGED <<order, payment, gateway>>

LeaseLapses(p) ==
  /\ Started(p)
  /\ payment[p].leased
  /\ payment' = [payment EXCEPT ![p] = [@ EXCEPT !.leased = FALSE]]
  /\ UNCHANGED <<order, gateway, worker>>

\* The horizon is hours, a reservation minutes.
HorizonPasses(p) ==
  /\ Started(p)
  /\ ~payment[p].old
  /\ Lapsing(payment[p].order)
  /\ payment' = [payment EXCEPT ![p] = [@ EXCEPT !.old = TRUE]]
  /\ UNCHANGED <<order, gateway, worker>>

WriteOrder(o, row) ==
  /\ order' = [order EXCEPT ![o] = row]
  /\ UNCHANGED <<payment, gateway, worker>>

\* create_waiting_order
CreateOrder(o) ==
  /\ order[o] = NoOrder
  /\ WriteOrder(o, [status |-> "waiting", lapsed |-> FALSE, late |-> FALSE, reason |-> "",
                    rsv |-> "active", told |-> {}])

DeadlinePasses(o) ==
  /\ order[o] # NoOrder
  /\ Waiting(order[o])
  /\ ~order[o].lapsed
  /\ WriteOrder(o, [order[o] EXCEPT !.lapsed = TRUE])

ExpireUnpaidOrder(o) ==
  /\ order[o] # NoOrder
  /\ CanExpire(order[o])
  /\ WriteOrder(o, Expired(order[o]))

ShipOrder(o) ==
  /\ order[o] # NoOrder
  /\ CanShip(order[o])
  /\ WriteOrder(o, ShippedRow(order[o]))

-----------------------------------------------------------------------------
WorkerBegins(w) ==
  \E p \in Payments :
    \/ \E o \in OrderIds : InitiatePayment(w, p, o)
    \/ Callback(w, p)
    \/ ReconcilePayment(w, p)

WorkerEnds(w) ==
  \/ \E says \in AllAnswers :
       FinishCreate(w, says) \/ FinishVerification(w, says) \/ FinishLookup(w, says)
  \/ ExpireAfterwards(w)
  \/ Reverify(w)
  \/ WorkerLost(w)

PaymentStep(p) ==
  \/ Rearm(p)
  \/ LeaseLapses(p)
  \/ HorizonPasses(p)
  \/ ProviderDecides(p)
  \/ CustomerPays(p)

OrderStep(o) ==
  CreateOrder(o) \/ DeadlinePasses(o) \/ ExpireUnpaidOrder(o) \/ ShipOrder(o)

Next ==
  \/ \E w \in Workers : WorkerBegins(w) \/ WorkerEnds(w)
  \/ \E p \in Payments : PaymentStep(p)
  \/ \E o \in OrderIds : OrderStep(o)

Spec == Init /\ [][Next]_vars

\* Time passes; a running service ends, if only because the time limit of its
\* task ends it; the sweep keeps queueing tasks for payments that are due, and
\* workers return to the queue, so one of those tasks runs again and again at a
\* moment when nobody holds the lease; callbacks stop coming some day.
FairSpec ==
  /\ Spec
  /\ \A o \in OrderIds : WF_vars(DeadlinePasses(o))
  /\ \A p \in Payments :
       /\ WF_vars(LeaseLapses(p))
       /\ WF_vars(HorizonPasses(p))
       /\ SF_vars(\E w \in Workers : Swept(p) /\ ReconcilePayment(w, p))
       /\ <>[][\A w \in Workers : ~Callback(w, p)]_vars
  /\ \A w \in Workers : WF_vars(WorkerEnds(w))

-----------------------------------------------------------------------------
(* Properties *)

TypeOK ==
  /\ order \in [OrderIds -> OrderRow \cup {NoOrder}]
  /\ payment \in [Payments -> PaymentRow \cup {NoPayment}]
  /\ gateway \in [Payments -> GatewayStates]
  /\ worker \in [Workers -> Work \cup {Idle}]

\* No transaction runs into a check constraint of the payments table: the row
\* a service leaves, from whatever row it found under its lock, has the session,
\* claim and capture its status requires (payments_session_state_fields,
\* _verifying_has_operation, _verified_fields, _failed_fields,
\* _review_has_no_automatic_work, _applied_only_verified).
RowFits(row) ==
  /\ row.status \in {"redirect_ready", "verifying", "verified"} => row.session
  /\ row.status = "verifying" => row.token # NoWorker
  /\ row.status = "manual_review" => row.token = NoWorker /\ ~row.due
  /\ row.status = "verified" <=> row.captured # "none"
  /\ row.applied => row.status = "verified"

NoConstraintTrips == \A p \in Payments : Started(p) => RowFits(payment[p])

\* Every capture the shop has seen is settled exactly one way: it bought the
\* order or it is owed back. Nothing is settled that was not captured, and goods
\* leave the shop exactly against one payment of the right amount.
SettledOneWay(row) ==
  IF row.status = "verified" THEN row.applied <=> row.refund = "none"
  ELSE ~row.applied /\ row.refund = "none"

Sold(o) == order[o] # NoOrder /\ order[o].rsv = "consumed"

AppliedTo(o) == {p \in Payments : Started(p) /\ payment[p].order = o /\ payment[p].applied}

SoldForOnePayment ==
  \A o \in OrderIds :
    /\ Sold(o) <=> AppliedTo(o) # {}
    /\ \A p, q \in AppliedTo(o) : p = q /\ payment[p].captured = "exact"

CapturesSettleOneWay ==
  /\ \A p \in Payments : Started(p) => SettledOneWay(payment[p])
  /\ SoldForOnePayment

\* While an order waits, at most one of its attempts has a session the customer
\* could pay: a failed attempt that comes back to life through a late task or a
\* late answer never makes a second one.
Sessions(o) == {p \in Payments : Started(p) /\ payment[p].order = o /\ payment[p].session}

OnePayableSession ==
  \A o \in OrderIds :
    order[o] # NoOrder /\ Waiting(order[o]) => \A p, q \in Sessions(o) : p = q

\* Work that nobody has claimed stays on the sweep's list until it is resolved
\* or handed to a human: no answer, crash or takeover drops it from there.
UnclaimedWorkIsSwept ==
  \A p \in Payments :
    Started(p) /\ payment[p].status \in {"pending", "redirect_ready"} => Swept(p)

\* What every commit leaves behind, whoever made it.
RowsConsistent == TypeOK /\ NoConstraintTrips /\ UnclaimedWorkIsSwept

\* A worker whose claim was taken over has no say: when it ends, the row is as
\* it was, unless it brings captured money.
StaleWorkersOnlyBringMoney ==
  [][\A w \in Workers :
       LET p == worker[w].on
       IN  worker[w].at \in Calls /\ payment[p].token # w /\ worker'[w] # worker[w] =>
             payment'[p] = payment[p] \/ payment'[p].status = "verified"]_vars

\* Payments implement the promise PaymentSettlement makes.
Money(p) == IF gateway[p] \in Captures THEN gateway[p] ELSE "none"

Fate(p) ==
  IF ~Started(p) THEN "open"
  ELSE IF payment[p].applied THEN "bought"
  ELSE IF payment[p].refund # "none" THEN "owed"
  ELSE "open"

Buys(p) == IF Fate(p) = "bought" THEN payment[p].order ELSE NoOrder

Settlement ==
  INSTANCE PaymentSettlement WITH
    money <- [p \in Payments |-> Money(p)],
    fate <- [p \in Payments |-> Fate(p)],
    buys <- [p \in Payments |-> Buys(p)]

KeepsMoneyPromise == Settlement!Spec

\* No attempt stays in the hands of the machines for ever: while it is due it
\* will be verified, fail, or be handed to a human at the horizon.
DueAttemptsResolve ==
  \A p \in Payments : Swept(p) ~> (Started(p) /\ payment[p].status \notin Reconcilable)

\* docs/architecture.md of a payment in manual review: "it has no operation
\* lease or due reconciliation time until an explicit superuser service action
\* rearms it".
ReviewWaitsForSuperuser ==
  [][\A p \in Payments :
       Started(p) /\ payment[p].status = "manual_review" =>
         payment'[p].status \in {"manual_review", "verified"} \/ Rearm(p)]_vars
=============================================================================
