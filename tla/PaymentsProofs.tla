--------------------------- MODULE PaymentsProofs ---------------------------
(***************************************************************************)
(* What holds of Payments for any numbers of payments, orders and workers: *)
(* rows stay consistent, a capture is settled one way, an order has one    *)
(* payable session and is bought once, workers without a claim only bring  *)
(* money, and Payments implements PaymentSettlement and OrderLifecycle.    *)
(***************************************************************************)
EXTENDS Payments, TLAPS

\* One payment row. Beyond the checked properties: what is verified is claimed by
\* nobody, so no claim is ever finished on it.
RowSound(row) ==
  /\ row \in PaymentRow
  /\ RowFits(row)
  /\ SettledOneWay(row)
  /\ row.status \in {"pending", "redirect_ready"} => row.due
  /\ row.status = "verified" => row.token = NoWorker

\* One order row: its status decides its reservations.
OrderSound(row) ==
  /\ row \in OrderRow
  /\ row.rsv = "active" <=> Waiting(row)
  /\ row.rsv = "released" <=> row.status = "cancelled"

\* A payment and its order: what was captured is what the provider has, goods are
\* sold against the one payment that is applied, money that was not applied never
\* can be, and while the order waits a session belongs to an open attempt.
Linked(p) ==
  LET row == payment[p]
      o == payment[p].order
  IN  /\ order[o] # NoOrder
      /\ row.captured # "none" => row.captured = gateway[p]
      /\ row.applied => row.captured = "exact" /\ order[o].rsv = "consumed"
      /\ row.applied => \A q \in Rivals(p, o) : ~payment[q].applied
      /\ row.captured = "exact" /\ ~row.applied => OtherApplied(p) \/ order[o].status = "cancelled"
      /\ row.session /\ Waiting(order[o]) => Open(p)
      /\ Open(p) => \A q \in Rivals(p, o) : ~Open(q)

\* A worker in a call: it verifies sessions only, and as long as it holds the
\* claim of a create or a lookup the payment has no session.
WorkerSound(w) ==
  LET p == worker[w].on
  IN  /\ worker[w].at # "idle" => Started(p)
      /\ worker[w].at \in {"verify", "reverify"} => payment[p].session
      /\ worker[w].at \in {"create", "lookup"} /\ payment[p].token = w =>
           ~payment[p].session /\ payment[p].status \in {"pending", "failed"}

IInv ==
  /\ TypeOK
  /\ \A p \in Payments : Started(p) => RowSound(payment[p]) /\ Linked(p)
  /\ \A o \in OrderIds : order[o] # NoOrder => OrderSound(order[o])
  /\ \A o \in OrderIds : Sold(o) => AppliedTo(o) # {}
  /\ \A w \in Workers : WorkerSound(w)

\* What a service may make of an order row: a sale or a cancellation stays, and
\* no order waits again.
OrderKeeps(before, after) ==
  /\ OrderSound(after)
  /\ before.rsv = "consumed" => after.rsv = "consumed"
  /\ before.status = "cancelled" => after.status = "cancelled"
  /\ Waiting(after) => Waiting(before)

\* What a transaction may make of attempt p and its order: row and orow.
AttemptKeeps(p, row, orow) ==
  LET o == row.order
  IN  /\ RowSound(row)
      /\ order[o] # NoOrder
      /\ OrderKeeps(order[o], orow)
      /\ Started(p) => /\ payment[p].order = o
                       /\ payment[p].applied => row.applied
                       /\ payment[p].refund # "none" => row.refund # "none"
      /\ row.captured # "none" => row.captured = gateway[p]
      /\ row.applied => row.captured = "exact" /\ orow.rsv = "consumed"
      /\ row.applied => \A q \in Rivals(p, o) : ~payment[q].applied
      /\ row.captured = "exact" /\ ~row.applied =>
           (\E q \in Rivals(p, o) : payment[q].applied) \/ orow.status = "cancelled"
      /\ orow.rsv = "consumed" => row.applied \/ order[o].rsv = "consumed"
      /\ row.session /\ Waiting(orow) => row.status \in OpenStatuses
      /\ row.status \in OpenStatuses => \A q \in Rivals(p, o) : ~Open(q)

\* What worker w may do about the row it leaves.
WorkFits(work, w, row) ==
  /\ work.at \in {"verify", "reverify"} => row.session
  /\ work.at \in {"create", "lookup"} /\ row.token = w =>
       ~row.session /\ row.status \in {"pending", "failed"}

\* No claim of a worker other than w is renewed, and none gets a session.
ClaimsKeep(p, row, w) ==
  Started(p) =>
    /\ payment[p].session => row.session
    /\ \/ row.token \in {NoWorker, w}
       \/ /\ row.token = payment[p].token
          /\ row.session = payment[p].session
          /\ row.status = payment[p].status

\* A transaction on attempt p, by worker w or by none.
AttemptStep(p, row, orow, w) ==
  /\ payment' = [payment EXCEPT ![p] = row]
  /\ order' = [order EXCEPT ![row.order] = orow]
  /\ gateway' = gateway
  /\ AttemptKeeps(p, row, orow)
  /\ ClaimsKeep(p, row, w)
  /\ worker' \in [Workers -> Work \cup {Idle}]
  /\ \A v \in Workers : v # w => worker'[v] = worker[v]
  /\ w \in Workers /\ worker'[w] # Idle => worker'[w].on = p /\ WorkFits(worker'[w], w, row)

\* What any step is.
StepKinds ==
  \/ \E p \in Payments, row \in PaymentRow, orow \in OrderRow, w \in Workers \cup {NoWorker} :
       AttemptStep(p, row, orow, w)
  \/ IInv' /\ payment' = payment /\ gateway' = gateway
  \/ \E p \in Payments : ProviderDecides(p) \/ CustomerPays(p)

-----------------------------------------------------------------------------
(* Kinds of steps                                                          *)

\* A step that writes one attempt and its order keeps the invariant.
LEMMA OneAttemptWritten ==
  ASSUME IInv, NEW p \in Payments, NEW row, NEW orow, NEW w \in Workers \cup {NoWorker},
         AttemptStep(p, row, orow, w)
  PROVE  IInv'
  <1> DEFINE o == row.order
  <1> USE NoRowsAssumption DEF AttemptStep
  <1>1. /\ row \in PaymentRow /\ row # NoPayment /\ o \in OrderIds
        /\ orow \in OrderRow /\ orow # NoOrder
        /\ payment \in [Payments -> PaymentRow \cup {NoPayment}]
        /\ order \in [OrderIds -> OrderRow \cup {NoOrder}]
    BY DEF AttemptKeeps, RowSound, OrderKeeps, OrderSound, IInv, TypeOK, PaymentRow
  <1>2. /\ payment' \in [Payments -> PaymentRow \cup {NoPayment}]
        /\ payment'[p] = row
        /\ \A q \in Payments : q # p => payment'[q] = payment[q]
        /\ order' \in [OrderIds -> OrderRow \cup {NoOrder}]
        /\ order'[o] = orow
        /\ \A k \in OrderIds : k # o => order'[k] = order[k]
    BY <1>1
  <1> HIDE DEF o
  <1>3. TypeOK'
    BY <1>2 DEF IInv, TypeOK
  <1>4. RowSound(row) /\ OrderSound(orow)
    BY DEF AttemptKeeps, OrderKeeps
  <1>5. Linked(p)'
    BY <1>1, <1>2 DEF Linked, AttemptKeeps, Rivals, Started, Open, OtherApplied, o
  <1>6. ASSUME NEW q \in Payments, q # p, Started(q)' PROVE Linked(q)'
    <2>1. Started(q) /\ payment'[q] = payment[q] /\ Linked(q) /\ payment[q] \in PaymentRow
      BY <1>1, <1>2, <1>6 DEF Started, IInv
    <2>2. CASE payment[q].order # o
      <3>1. payment[q].order \in OrderIds /\ order'[payment[q].order] = order[payment[q].order]
        BY <1>2, <2>1, <2>2 DEF PaymentRow
      <3>2. \A s \in Payments :
              (Started(s) /\ payment[s].order = payment[q].order)
                => s # p /\ payment'[s] = payment[s] /\ Started(s)'
        BY <1>2, <2>2 DEF AttemptKeeps, Started, o
      <3>3. \A s \in Payments :
              Started(s)' /\ payment'[s].order = payment[q].order
                => s # p /\ payment'[s] = payment[s] /\ Started(s)
        BY <1>2, <2>2 DEF Started, o
      <3>4. QED
        BY <2>1, <3>1, <3>2, <3>3 DEF Linked, Rivals, Started, Open, OtherApplied
    <2>3. CASE payment[q].order = o
      <3>1. q \in Rivals(p, o)
        BY <1>6, <2>1, <2>3 DEF Rivals
      <3>2. \A s \in Payments : Started(s) /\ payment[s].order = o =>
              Started(s)' /\ payment'[s].order = o /\ (payment[s].applied => payment'[s].applied)
        BY <1>1, <1>2 DEF AttemptKeeps, Started, o
      <3>3. \A s \in Payments : Started(s)' /\ payment'[s].order = o /\ s # p =>
              Started(s) /\ payment'[s] = payment[s]
        BY <1>2 DEF Started
      <3>4. /\ order[o] # NoOrder /\ order'[o] # NoOrder
            /\ order[o].rsv = "consumed" => order'[o].rsv = "consumed"
            /\ order[o].status = "cancelled" => order'[o].status = "cancelled"
            /\ Waiting(order'[o]) => Waiting(order[o])
            /\ row.applied => ~payment[q].applied
            /\ row.status \in OpenStatuses => ~Open(q)
        BY <1>1, <1>2, <3>1 DEF AttemptKeeps, OrderKeeps, o
      <3>5. QED
        BY <1>2, <2>1, <2>3, <3>2, <3>3, <3>4 DEF Linked, Rivals, Started, Open, OtherApplied
    <2>4. QED
      BY <2>2, <2>3
  <1>7. ASSUME NEW k \in OrderIds, Sold(k)' PROVE AppliedTo(k)' # {}
    <2>1. \A s \in AppliedTo(k) : s \in AppliedTo(k)'
      BY <1>1, <1>2 DEF AppliedTo, AttemptKeeps, Started
    <2>2. CASE Sold(k)
      BY <2>1, <2>2 DEF IInv
    <2>3. CASE ~Sold(k)
      <3>1. k = o /\ row.applied
        BY <1>2, <1>7, <2>3 DEF Sold, AttemptKeeps, o
      <3>2. p \in AppliedTo(k)'
        BY <1>1, <1>2, <3>1 DEF AppliedTo, Started, o
      <3>3. QED
        BY <3>2
    <2>4. QED
      BY <2>2, <2>3
  <1>8. ASSUME NEW v \in Workers PROVE WorkerSound(v)'
    <2>1. CASE v # w
      <3>1. worker'[v] = worker[v] /\ WorkerSound(v)
        BY <2>1 DEF IInv
      <3>2. CASE worker[v].at = "idle"
        BY <3>1, <3>2 DEF WorkerSound
      <3>3. CASE worker[v].at # "idle" /\ worker[v].on # p
        <4> PICK q : q = worker[v].on
          OBVIOUS
        <4>1. q \in Payments
          BY <3>3 DEF IInv, TypeOK, Work, Idle
        <4>2. QED
          BY <1>2, <3>1, <3>3, <4>1 DEF WorkerSound, Started
      <3>4. CASE worker[v].at # "idle" /\ worker[v].on = p
        BY <1>1, <1>2, <2>1, <3>1, <3>4 DEF WorkerSound, ClaimsKeep, Started
      <3>5. QED
        BY <3>2, <3>3, <3>4
    <2>2. CASE v = w
      BY <1>1, <1>2, <2>2 DEF WorkerSound, WorkFits, Started, Idle
    <2>3. QED
      BY <2>1, <2>2
  <1>9. QED
    <2>1. \A q \in Payments : Started(q)' => RowSound(payment'[q]) /\ Linked(q)'
      BY <1>2, <1>4, <1>5, <1>6 DEF IInv, Started
    <2>2. \A k \in OrderIds : order'[k] # NoOrder => OrderSound(order'[k])
      BY <1>2, <1>4 DEF IInv
    <2>3. QED
      BY <1>3, <1>7, <1>8, <2>1, <2>2 DEF IInv

\* A step that writes one order keeps the invariant.
LEMMA OneOrderWritten ==
  ASSUME IInv, NEW o \in OrderIds, NEW orow,
         order' = [order EXCEPT ![o] = orow],
         payment' = payment, gateway' = gateway,
         OrderSound(orow),
         order[o] = NoOrder => orow.rsv = "active",
         order[o] # NoOrder =>
           OrderKeeps(order[o], orow) /\ (orow.rsv = "consumed" => order[o].rsv = "consumed"),
         worker' \in [Workers -> Work \cup {Idle}],
         \A v \in Workers : worker'[v] \in {worker[v], Idle}
  PROVE  IInv'
  <1> USE NoRowsAssumption
  <1>1. /\ orow \in OrderRow /\ orow # NoOrder
        /\ order \in [OrderIds -> OrderRow \cup {NoOrder}]
    BY DEF OrderSound, IInv, TypeOK
  <1>2. /\ order' \in [OrderIds -> OrderRow \cup {NoOrder}]
        /\ order'[o] = orow
        /\ \A k \in OrderIds : k # o => order'[k] = order[k]
    BY <1>1
  <1>3. TypeOK'
    BY <1>2 DEF IInv, TypeOK
  <1>4. ASSUME NEW q \in Payments, Started(q)' PROVE RowSound(payment[q]) /\ Linked(q)'
    <2>1. /\ Started(q) /\ RowSound(payment[q]) /\ Linked(q)
          /\ payment[q].order \in OrderIds
      BY <1>4 DEF Started, IInv, RowSound, PaymentRow
    <2>2. QED
      BY <1>1, <1>2, <2>1 DEF Linked, OrderKeeps, Rivals, Started, Open, OtherApplied
  <1>5. ASSUME NEW k \in OrderIds, Sold(k)' PROVE AppliedTo(k)' # {}
    BY <1>2, <1>5 DEF Sold, IInv, AppliedTo, Started
  <1>6. ASSUME NEW v \in Workers PROVE WorkerSound(v)'
    BY DEF IInv, WorkerSound, Started, Idle
  <1>7. QED
    BY <1>2, <1>3, <1>4, <1>5, <1>6 DEF IInv, Started

\* A step of the provider keeps the invariant.
LEMMA GatewayWritten ==
  ASSUME IInv, NEW p \in Payments, ProviderDecides(p) \/ CustomerPays(p)
  PROVE  IInv'
  <1>1. /\ order' = order /\ payment' = payment /\ worker' = worker
        /\ gateway \in [Payments -> GatewayStates]
        /\ gateway[p] \notin Captures
        /\ \E state \in GatewayStates : gateway' = [gateway EXCEPT ![p] = state]
    BY DEF ProviderDecides, CustomerPays, Captures, GatewayStates, IInv, TypeOK
  <1>2. /\ gateway' \in [Payments -> GatewayStates]
        /\ \A q \in Payments : gateway[q] \in Captures => gateway'[q] = gateway[q]
    BY <1>1
  <1>3. TypeOK'
    BY <1>1, <1>2 DEF IInv, TypeOK
  <1>4. ASSUME NEW q \in Payments, Started(q) PROVE Linked(q)'
    <2>1. Linked(q) /\ payment[q].captured \in {"none"} \cup Captures
      BY <1>4 DEF IInv, RowSound, PaymentRow, Captures
    <2>2. payment[q].captured # "none" => gateway'[q] = gateway[q]
      BY <1>2, <2>1 DEF Linked
    <2>3. QED
      BY <1>1, <2>1, <2>2 DEF Linked, Rivals, Started, Open, OtherApplied
  <1>5. QED
    BY <1>1, <1>3, <1>4 DEF IInv, Started, WorkerSound, Sold, AppliedTo

\* A step that changes nothing but what one worker does.
LEMMA OneWorkerMoves ==
  ASSUME IInv, NEW w \in Workers, NEW work \in Work \cup {Idle},
         WorkerDoes(w, work), UNCHANGED <<order, payment, gateway>>,
         work # Idle => /\ work.at \in {"reverify", "expire"}
                        /\ Started(work.on) /\ payment[work.on].session
  PROVE  IInv'
  <1>1. /\ worker' \in [Workers -> Work \cup {Idle}]
        /\ worker'[w] = work /\ \A v \in Workers : v # w => worker'[v] = worker[v]
    BY DEF IInv, TypeOK, WorkerDoes
  <1>2. \A v \in Workers : WorkerSound(v)'
    BY <1>1 DEF IInv, WorkerSound, Started, Idle
  <1>3. QED
    BY <1>1, <1>2 DEF IInv, TypeOK, Started, Linked, Sold, AppliedTo, Rivals, Open, OtherApplied

-----------------------------------------------------------------------------
(* Rows                                                                    *)

\* What the services of apps/orders make of an order row.
LEMMA OrderRowFacts ==
  ASSUME NEW before, OrderSound(before)
  PROVE  /\ OrderKeeps(before, before)
         /\ Waiting(before) => OrderKeeps(before, [before EXCEPT !.lapsed = TRUE])
         /\ CanExpire(before) => OrderKeeps(before, Expired(before))
         /\ OrderKeeps(before, FailedPaymentRow(before))
         /\ ~ConfirmRaises(before) => OrderKeeps(before, ConfirmedRow(before))
         /\ CanShip(before) => OrderKeeps(before, ShippedRow(before))
  <1> USE DEF OrderSound, OrderKeeps, OrderRow, Statuses, Reasons, ReservationStates, Waiting
  <1>1. OrderKeeps(before, before)
    OBVIOUS
  <1>2. Waiting(before) => OrderKeeps(before, [before EXCEPT !.lapsed = TRUE])
    OBVIOUS
  <1>3. CanExpire(before) => OrderKeeps(before, Expired(before))
    BY DEF CanExpire, Expired, Cancelled
  <1>4. OrderKeeps(before, FailedPaymentRow(before))
    BY DEF FailedPaymentRow, Cancelled
  <1>5. ASSUME ~ConfirmRaises(before) PROVE OrderKeeps(before, ConfirmedRow(before))
    <2>1. CASE ConfirmApplies(before)
      <3> DEFINE told == before.told \cup {"order_confirmed"}
      <3>1. told \in SUBSET Events
        BY DEF Events
      <3>2. ConfirmedRow(before) =
              [before EXCEPT !.status = "processing", !.rsv = "consumed", !.told = told]
        BY <2>1 DEF ConfirmedRow
      <3> HIDE DEF told
      <3>3. QED
        BY <2>1, <3>1, <3>2 DEF ConfirmApplies
    <2>2. CASE ~ConfirmApplies(before) /\ ConfirmIsLate(before)
      BY <2>2 DEF ConfirmedRow, ConfirmIsLate, FailedPaymentRow, Cancelled, Releasable
    <2>3. CASE ~ConfirmApplies(before) /\ ~ConfirmIsLate(before)
      BY <2>3 DEF ConfirmedRow
    <2>4. QED
      BY <2>1, <2>2, <2>3
  <1>6. ASSUME CanShip(before) PROVE OrderKeeps(before, ShippedRow(before))
    <2> DEFINE told == before.told \cup {"order_shipped"}
    <2>1. told \in SUBSET Events
      BY DEF Events
    <2>2. ShippedRow(before) = [before EXCEPT !.status = "shipped", !.told = told]
      BY DEF ShippedRow
    <2> HIDE DEF told
    <2>3. QED
      BY <1>6, <2>1, <2>2 DEF CanShip
  <1> HIDE DEF OrderKeeps
  <1>7. QED
    BY <1>1, <1>2, <1>3, <1>4, <1>5, <1>6

\* What the services write into a row nobody has verified is sound.
LEMMA PaymentRowFacts ==
  ASSUME NEW row, RowSound(row), row.status # "verified"
  PROVE  /\ RowSound(InReview(row))
         /\ RowSound(WithSession(row))
         /\ row.session => RowSound(BackToReconciliation(row))
         /\ RowSound(Failed(row))
         /\ RowSound([Failed(row) EXCEPT !.due = FALSE])
         /\ row.status = "failed" => RowSound(Preserved(row))
         /\ row.status \in {"pending", "failed"} => RowSound([Released(row) EXCEPT !.due = TRUE])
         /\ \A w \in Workers :
              /\ row.status # "manual_review" => RowSound(Claimed(row, w))
              /\ row.session => RowSound([Claimed(row, w) EXCEPT !.status = "verifying"])
         /\ row.status = "manual_review" =>
              RowSound([Released(row) EXCEPT
                          !.status = IF row.session THEN "redirect_ready" ELSE "pending",
                          !.due = TRUE])
  <1> USE NoRowsAssumption
      DEF RowSound, PaymentRow, PaymentStatuses, RefundReasons, RowFits, SettledOneWay, Released
  <1>1. RowSound(InReview(row))
    BY DEF InReview
  <1>2. RowSound(WithSession(row))
    BY DEF WithSession
  <1>3. row.session => RowSound(BackToReconciliation(row))
    BY DEF BackToReconciliation
  <1>4. RowSound(Failed(row)) /\ RowSound([Failed(row) EXCEPT !.due = FALSE])
    BY DEF Failed
  <1>5. row.status = "failed" => RowSound(Preserved(row))
    BY DEF Preserved
  <1>6. row.status \in {"pending", "failed"} => RowSound([Released(row) EXCEPT !.due = TRUE])
    OBVIOUS
  <1>7. ASSUME NEW w \in Workers, row.status # "manual_review" PROVE RowSound(Claimed(row, w))
    BY <1>7 DEF Claimed
  <1>8. ASSUME NEW w \in Workers, row.session
        PROVE  RowSound([Claimed(row, w) EXCEPT !.status = "verifying"])
    BY <1>8 DEF Claimed
  <1>9. row.status = "manual_review" =>
          RowSound([Released(row) EXCEPT
                      !.status = IF row.session THEN "redirect_ready" ELSE "pending",
                      !.due = TRUE])
    OBVIOUS
  <1> HIDE DEF RowSound
  <1>10. QED
    BY <1>1, <1>2, <1>3, <1>4, <1>5, <1>6, <1>7, <1>8, <1>9

-----------------------------------------------------------------------------
(* The actions                                                             *)

\* A transaction on attempt p that leaves its order and its money alone.
QuietStep(p, row, w) ==
  /\ Started(p)
  /\ payment' = [payment EXCEPT ![p] = row]
  /\ UNCHANGED <<order, gateway>>
  /\ RowSound(row)
  /\ row.order = payment[p].order
  /\ row.captured = payment[p].captured
  /\ row.applied = payment[p].applied
  /\ row.refund = payment[p].refund
  /\ row.session => row.status \in OpenStatuses
                      \/ (payment[p].session /\ row.status = payment[p].status)
  /\ row.status \in OpenStatuses => \A q \in Rivals(p, row.order) : ~Open(q)
  /\ ClaimsKeep(p, row, w)

\* What worker w does about it, if a worker takes the step.
WorkerStep(p, row, w) ==
  /\ worker' \in [Workers -> Work \cup {Idle}]
  /\ \A v \in Workers : v # w => worker'[v] = worker[v]
  /\ w \in Workers /\ worker'[w] # Idle => worker'[w].on = p /\ WorkFits(worker'[w], w, row)

LEMMA QuietAttempt ==
  ASSUME IInv, NEW p \in Payments, NEW row, NEW w \in Workers \cup {NoWorker},
         QuietStep(p, row, w), WorkerStep(p, row, w)
  PROVE  StepKinds
  <1> DEFINE o == row.order
  <1> USE NoRowsAssumption DEF QuietStep, WorkerStep
  <1>1. /\ row \in PaymentRow /\ o \in OrderIds /\ o = payment[p].order
        /\ RowSound(payment[p]) /\ Linked(p)
    BY DEF RowSound, PaymentRow, IInv
  <1> HIDE DEF o
  <1>2. order[o] # NoOrder /\ OrderSound(order[o])
    BY <1>1 DEF Linked, IInv
  <1>3. OrderKeeps(order[o], order[o]) /\ order[o] \in OrderRow
    BY <1>2, OrderRowFacts DEF OrderSound
  <1>4. order' = [order EXCEPT ![o] = order[o]]
    BY <1>1 DEF IInv, TypeOK
  <1>5. row.session /\ Waiting(order[o]) => row.status \in OpenStatuses
    BY <1>1 DEF Linked, Open
  <1>6. AttemptKeeps(p, row, order[o])
    BY <1>1, <1>2, <1>3, <1>5 DEF AttemptKeeps, Linked, OtherApplied, o
  <1>7. AttemptStep(p, row, order[o], w)
    BY <1>4, <1>6 DEF AttemptStep, o
  <1>8. QED
    BY <1>1, <1>3, <1>7 DEF StepKinds

\* A call that ends changes what its worker does, and only that.
LEMMA WorkerTyped ==
  ASSUME IInv, NEW w \in Workers, NEW work \in Work \cup {Idle}, WorkerDoes(w, work),
         NEW p, NEW row, work # Idle => work.on = p /\ WorkFits(work, w, row)
  PROVE  WorkerStep(p, row, w)
  BY DEF IInv, TypeOK, WorkerDoes, WorkerStep

\* What is known of a worker in a call.
LEMMA InCall ==
  ASSUME IInv, NEW w \in Workers, worker[w].at # "idle"
  PROVE  /\ worker[w] \in Work /\ worker[w] # Idle
         /\ worker[w].on \in Payments
         /\ Started(worker[w].on)
         /\ RowSound(payment[worker[w].on])
         /\ Linked(worker[w].on)
         /\ payment[worker[w].on].order \in OrderIds
         /\ OrderSound(order[payment[worker[w].on].order])
         /\ WorkerSound(w)
  <1> PICK p : p = worker[w].on
    OBVIOUS
  <1>1. worker[w] \in Work /\ worker[w] # Idle /\ p \in Payments /\ Started(p) /\ WorkerSound(w)
    BY DEF IInv, TypeOK, Work, Idle, WorkerSound
  <1>2. RowSound(payment[p]) /\ Linked(p) /\ payment[p].order \in OrderIds
    BY <1>1 DEF IInv, RowSound, PaymentRow
  <1>3. OrderSound(order[payment[p].order])
    BY <1>2 DEF IInv, Linked
  <1>4. QED
    BY <1>1, <1>2, <1>3

\* A new attempt.
LEMMA InitiateKind ==
  ASSUME IInv, NEW w \in Workers, NEW p \in Payments, NEW o \in OrderIds, InitiatePayment(w, p, o)
  PROVE  StepKinds
  <1> DEFINE row == [order |-> o, status |-> "pending", session |-> FALSE, token |-> w,
                     leased |-> TRUE, due |-> TRUE, old |-> FALSE, captured |-> "none",
                     applied |-> FALSE, refund |-> "none"]
  <1>1. row \in PaymentRow
    BY DEF PaymentRow, PaymentStatuses, RefundReasons
  <1>2. RowSound(row)
    BY <1>1, NoRowsAssumption DEF RowSound, RowFits, SettledOneWay
  <1>3. /\ OrderSound(order[o]) /\ order[o] # NoOrder /\ Waiting(order[o])
        /\ ~Started(p) /\ \A q \in Rivals(p, o) : ~Open(q)
        /\ gateway[p] \in GatewayStates
    BY DEF InitiatePayment, IInv, TypeOK
  <1>4. AttemptKeeps(p, row, order[o])
    BY <1>2, <1>3, OrderRowFacts DEF AttemptKeeps, OrderSound, Waiting
  <1>5. /\ payment' = [payment EXCEPT ![p] = row]
        /\ order' = [order EXCEPT ![o] = order[o]]
        /\ gateway' = gateway
    BY DEF InitiatePayment, WritePayment, IInv, TypeOK
  <1>6. Calling("create", p) \in Work /\ WorkerDoes(w, Calling("create", p))
    BY <1>3 DEF Calling, Work, Calls, InitiatePayment
  <1>7. WorkFits(Calling("create", p), w, row) /\ Calling("create", p).on = p
    BY DEF Calling, WorkFits
  <1>8. AttemptStep(p, row, order[o], w)
    <2>1. ClaimsKeep(p, row, w) /\ row.order = o
      BY <1>3 DEF ClaimsKeep
    <2> HIDE DEF row
    <2>2. QED
      BY <1>4, <1>5, <1>6, <1>7, <2>1, WorkerTyped DEF AttemptStep, WorkerStep
  <1>9. order[o] \in OrderRow
    BY <1>3 DEF OrderSound
  <1> HIDE DEF row
  <1>10. QED
    BY <1>1, <1>8, <1>9 DEF StepKinds

\* What a create or a lookup makes of the attempt it still holds.
SessionRows(row) ==
  {WithSession(row), Failed(row), InReview(row), [Failed(row) EXCEPT !.due = FALSE],
   [Released(row) EXCEPT !.due = TRUE]}

LEMMA SessionAnswered ==
  ASSUME IInv, NEW w \in Workers, worker[w].at \in {"create", "lookup"},
         NEW p, p = worker[w].on, payment[p].token = w,
         NEW row \in SessionRows(payment[p]),
         WritePayment(p, row),
         NEW work \in {Idle, Before("expire", p)}, WorkerDoes(w, work),
         UNCHANGED <<order, gateway>>
  PROVE  StepKinds
  <1>1. /\ p \in Payments /\ Started(p) /\ RowSound(payment[p]) /\ WorkerSound(w)
        /\ ~payment[p].session /\ payment[p].status \in {"pending", "failed"}
        /\ payment[p] \in PaymentRow
    BY InCall DEF WorkerSound, RowSound
  <1>2. RowSound(row)
    <2>1. /\ RowSound(WithSession(payment[p])) /\ RowSound(Failed(payment[p]))
          /\ RowSound(InReview(payment[p]))
          /\ RowSound([Failed(payment[p]) EXCEPT !.due = FALSE])
          /\ RowSound([Released(payment[p]) EXCEPT !.due = TRUE])
      BY <1>1, PaymentRowFacts
    <2>2. QED
      BY <2>1 DEF SessionRows
  <1>3. /\ payment' = [payment EXCEPT ![p] = row]
        /\ row.status \in OpenStatuses => \A q \in Rivals(p, row.order) : ~Open(q)
    BY DEF WritePayment
  <1>4. /\ row.order = payment[p].order /\ row.captured = payment[p].captured
        /\ row.applied = payment[p].applied /\ row.refund = payment[p].refund
        /\ row.token = NoWorker
        /\ row.status \in OpenStatuses \/ (row.status = "failed" /\ ~row.session)
    <2> USE <1>1 DEF Released, PaymentRow, OpenStatuses
    <2>1. CASE row = WithSession(payment[p])
      BY <2>1 DEF WithSession
    <2>2. CASE row = InReview(payment[p])
      BY <2>2 DEF InReview
    <2>3. CASE row \in {Failed(payment[p]), [Failed(payment[p]) EXCEPT !.due = FALSE]}
      BY <2>3 DEF Failed
    <2>4. CASE row = [Released(payment[p]) EXCEPT !.due = TRUE]
      BY <2>4
    <2> HIDE <1>1 DEF Released, PaymentRow, OpenStatuses
    <2>5. QED
      BY <2>1, <2>2, <2>3, <2>4 DEF SessionRows
  <1>5. row.session => row.status \in OpenStatuses
    BY <1>4
  <1>6. ClaimsKeep(p, row, w)
    BY <1>1, <1>4 DEF ClaimsKeep
  <1>7. work \in Work \cup {Idle} /\ (work # Idle => work.on = p /\ WorkFits(work, w, row))
    BY <1>1 DEF Before, Work, WorkFits, GatewayStates
  <1>8. QuietStep(p, row, w)
    BY <1>1, <1>2, <1>3, <1>4, <1>5, <1>6 DEF QuietStep
  <1>9. WorkerStep(p, row, w)
    BY <1>7, WorkerTyped
  <1>10. QED
    BY <1>1, <1>8, <1>9, QuietAttempt

LEMMA SessionCallKind ==
  ASSUME IInv, NEW w \in Workers, NEW says \in AllAnswers,
         FinishCreate(w, says) \/ FinishLookup(w, says)
  PROVE  StepKinds
  <1> PICK p : p = worker[w].on
    OBVIOUS
  <1>1. worker[w].at \in {"create", "lookup"} /\ UNCHANGED <<order, gateway>>
    BY DEF FinishCreate, FinishLookup
  <1>2. says \in {"ready", "rejected", "ambiguous", "invalid"}
    BY <1>1 DEF FinishCreate, FinishLookup, Answers
  <1>3. CASE payment[p].token # w
    <2>1. payment' = payment /\ WorkerDoes(w, Idle)
      BY <1>3 DEF FinishCreate, FinishLookup
    <2>2. QED
      BY <1>1, <2>1, OneWorkerMoves DEF StepKinds
  <1>4. CASE payment[p].token = w
    <2>1. \E work \in {Idle, Before("expire", p)} : WorkerDoes(w, work)
      BY DEF FinishCreate, FinishLookup
    <2>2. CASE FinishCreate(w, says)
      <3>1. WritePayment(p, AfterCreate(payment[p], says))
        BY <1>4, <2>2 DEF FinishCreate
      <3>2. AfterCreate(payment[p], says) \in SessionRows(payment[p])
        BY <1>2 DEF AfterCreate, SessionRows
      <3>3. QED
        BY <1>1, <1>4, <2>1, <3>1, <3>2, SessionAnswered
    <2>3. CASE FinishLookup(w, says)
      <3>1. WritePayment(p, AfterLookup(payment[p], says))
        BY <1>4, <2>3 DEF FinishLookup
      <3>2. AfterLookup(payment[p], says) \in SessionRows(payment[p])
        BY <1>2 DEF AfterLookup, SessionRows
      <3>3. QED
        BY <1>1, <1>4, <2>1, <3>1, <3>2, SessionAnswered
    <2>4. QED
      BY <2>2, <2>3
  <1>5. QED
    BY <1>3, <1>4

\* A claim for a verification, by a callback or a reconciliation.
LEMMA ClaimKind ==
  ASSUME IInv, NEW w \in Workers, NEW p \in Payments, Started(p), payment[p].session,
         ClaimVerification(w, p)
  PROVE  StepKinds
  <1> DEFINE claimed == Claimed(payment[p], w)
             row == IF claimed.status = "failed" THEN claimed
                    ELSE [claimed EXCEPT !.status = "verifying"]
  <1>1. RowSound(payment[p]) /\ payment[p] \in PaymentRow /\ payment[p].status # "verified"
        /\ gateway[p] \in GatewayStates
    BY DEF IInv, RowSound, ClaimVerification, TypeOK
  <1>2. claimed.status = payment[p].status
    BY <1>1 DEF Claimed, PaymentRow
  <1>3. RowSound(row)
    BY <1>1, <1>2, PaymentRowFacts
  <1>4. /\ row.order = payment[p].order /\ row.captured = payment[p].captured
        /\ row.applied = payment[p].applied /\ row.refund = payment[p].refund
        /\ row.session = payment[p].session /\ row.token = w
        /\ row.status = payment[p].status \/ row.status \in OpenStatuses
    BY <1>1 DEF Claimed, PaymentRow, OpenStatuses
  <1>5. /\ payment' = [payment EXCEPT ![p] = row]
        /\ row.status \in OpenStatuses => \A q \in Rivals(p, row.order) : ~Open(q)
        /\ WorkerDoes(w, Calling("verify", p))
        /\ UNCHANGED <<order, gateway>>
    BY DEF ClaimVerification, WritePayment
  <1>6. /\ Calling("verify", p) \in Work /\ Calling("verify", p).on = p
        /\ WorkFits(Calling("verify", p), w, row)
    BY <1>1, <1>4 DEF Calling, Work, Calls, WorkFits
  <1>7. ClaimsKeep(p, row, w)
    BY <1>4 DEF ClaimsKeep
  <1> HIDE DEF row
  <1>8. QuietStep(p, row, w)
    BY <1>1, <1>3, <1>4, <1>5, <1>7 DEF QuietStep
  <1>9. WorkerStep(p, row, w)
    BY <1>5, <1>6, WorkerTyped
  <1>10. QED
    BY <1>8, <1>9, QuietAttempt

LEMMA ReconcileKind ==
  ASSUME IInv, NEW w \in Workers, NEW p \in Payments, ReconcilePayment(w, p)
  PROVE  StepKinds
  <1>1. /\ Started(p) /\ RowSound(payment[p]) /\ payment[p] \in PaymentRow /\ Linked(p)
        /\ payment[p].status \notin {"verified", "manual_review"}
        /\ gateway[p] \in GatewayStates /\ worker[w] = Idle
        /\ UNCHANGED <<order, gateway>>
    BY DEF ReconcilePayment, IInv, RowSound, TypeOK
  <1>2. CASE WritePayment(p, InReview(payment[p])) /\ UNCHANGED worker
    <2> DEFINE row == InReview(payment[p])
    <2>1. RowSound(row)
      BY <1>1, PaymentRowFacts
    <2>2. /\ row.order = payment[p].order /\ row.captured = payment[p].captured
          /\ row.applied = payment[p].applied /\ row.refund = payment[p].refund
          /\ row.session = payment[p].session /\ row.token = NoWorker
          /\ row.status \in OpenStatuses
      BY <1>1 DEF InReview, Released, PaymentRow, OpenStatuses
    <2>3. /\ payment' = [payment EXCEPT ![p] = row]
          /\ row.status \in OpenStatuses => \A q \in Rivals(p, row.order) : ~Open(q)
      BY <1>2 DEF WritePayment
    <2>4. ClaimsKeep(p, row, NoWorker)
      BY <2>2 DEF ClaimsKeep
    <2>5. /\ worker' \in [Workers -> Work \cup {Idle}]
          /\ \A v \in Workers : worker'[v] = worker[v]
      BY <1>2 DEF IInv, TypeOK
    <2> HIDE DEF row
    <2>6. QuietStep(p, row, NoWorker)
      BY <1>1, <2>1, <2>2, <2>3, <2>4 DEF QuietStep
    <2>7. WorkerStep(p, row, NoWorker)
      BY <2>5, NoRowsAssumption DEF WorkerStep
    <2>8. QED
      BY <2>6, <2>7, QuietAttempt
  <1>3. CASE /\ ~payment[p].session
             /\ WritePayment(p, Claimed(payment[p], w))
             /\ WorkerDoes(w, Calling("lookup", p))
    <2> DEFINE row == Claimed(payment[p], w)
    <2>1. RowSound(row)
      BY <1>1, PaymentRowFacts
    <2>2. /\ row.order = payment[p].order /\ row.captured = payment[p].captured
          /\ row.applied = payment[p].applied /\ row.refund = payment[p].refund
          /\ row.session = payment[p].session /\ row.token = w
          /\ row.status = payment[p].status
      BY <1>1 DEF Claimed, PaymentRow
    <2>3. /\ payment' = [payment EXCEPT ![p] = row]
          /\ row.status \in OpenStatuses => \A q \in Rivals(p, row.order) : ~Open(q)
      BY <1>3 DEF WritePayment
    <2>4. row.status \in {"pending", "failed"}
      BY <1>1, <1>3, <2>2 DEF RowSound, RowFits, PaymentRow, PaymentStatuses
    <2>5. /\ Calling("lookup", p) \in Work /\ Calling("lookup", p).on = p
          /\ WorkFits(Calling("lookup", p), w, row)
      BY <1>1, <1>3, <2>2, <2>4 DEF Calling, Work, Calls, WorkFits
    <2>6. ClaimsKeep(p, row, w)
      BY <2>2 DEF ClaimsKeep
    <2> HIDE DEF row
    <2>7. QuietStep(p, row, w)
      BY <1>1, <2>1, <2>2, <2>3, <2>6, <1>3 DEF QuietStep
    <2>8. WorkerStep(p, row, w)
      BY <1>3, <2>5, WorkerTyped
    <2>9. QED
      BY <2>7, <2>8, QuietAttempt
  <1>4. CASE /\ payment[p].session
             /\ WorkerDoes(w, Before("reverify", p))
             /\ UNCHANGED payment
    <2>1. /\ Before("reverify", p) \in Work
          /\ Before("reverify", p).at = "reverify" /\ Before("reverify", p).on = p
      BY DEF Before, Work, GatewayStates
    <2>2. QED
      BY <1>1, <1>4, <2>1, OneWorkerMoves DEF StepKinds
  <1>5. QED
    BY <1>2, <1>3, <1>4 DEF ReconcilePayment

\* A verification that brings no money: an order that still waits is cancelled
\* unless another attempt is open on it.
LEMMA OrderWithoutMoneyFacts ==
  ASSUME NEW p \in Payments, OrderSound(order[payment[p].order])
  PROVE  LET before == order[payment[p].order]
             after == OrderWithoutMoney(p)
         IN  /\ OrderKeeps(before, after)
             /\ after.rsv = "consumed" => before.rsv = "consumed"
             /\ Waiting(after) => StaleAuthority(p) /\ Waiting(before)
  <1> PICK before : before = order[payment[p].order]
    OBVIOUS
  <1>1. OrderKeeps(before, before) /\ OrderKeeps(before, FailedPaymentRow(before))
    BY OrderRowFacts
  <1>2. CASE ~StaleAuthority(p) /\ Waiting(before)
    <2>1. OrderWithoutMoney(p) = FailedPaymentRow(before)
      BY <1>2 DEF OrderWithoutMoney
    <2>2. FailedPaymentRow(before).status = "cancelled" /\ FailedPaymentRow(before).rsv = "released"
      BY <1>2 DEF FailedPaymentRow, Cancelled, OrderSound, OrderRow
    <2>3. QED
      BY <1>1, <2>1, <2>2 DEF Waiting
  <1>3. CASE StaleAuthority(p) \/ ~Waiting(before)
    <2>1. OrderWithoutMoney(p) = before
      BY <1>3 DEF OrderWithoutMoney
    <2>2. QED
      BY <1>1, <1>3, <2>1
  <1>4. QED
    BY <1>2, <1>3

LEMMA NoMoneyKind ==
  ASSUME IInv, NEW w \in Workers, worker[w].at = "verify", NEW says,
         NEW p, p = worker[w].on, FinishWithoutMoney(w, p, says),
         WorkerDoes(w, Idle), UNCHANGED gateway
  PROVE  StepKinds
  <1> PICK o : o = payment[p].order
    OBVIOUS
  <1>1. /\ p \in Payments /\ Started(p) /\ RowSound(payment[p]) /\ Linked(p) /\ o \in OrderIds
        /\ OrderSound(order[o]) /\ order[o] \in OrderRow /\ payment[p].session
        /\ payment[p] \in PaymentRow
    BY InCall DEF WorkerSound, OrderSound, RowSound
  <1>2. CASE payment[p].token # w
    BY <1>2, OneWorkerMoves DEF FinishWithoutMoney, StepKinds
  <1>3. CASE payment[p].token = w
    <2> PICK row, orow :
          /\ row = AfterNoMoney(p, says)
          /\ orow = IF says = "unpaid" THEN OrderWithoutMoney(p) ELSE order[o]
      OBVIOUS
    <2>1. /\ payment[p].status # "verified" /\ payment[p].status # "manual_review"
          /\ payment[p].captured = "none" /\ ~payment[p].applied /\ payment[p].refund = "none"
      BY <1>1, <1>3, NoRowsAssumption DEF RowSound, RowFits, SettledOneWay
    <2>2. \/ row = Failed(payment[p]) /\ says = "unpaid"
          \/ row = Preserved(payment[p]) /\ payment[p].status = "failed"
          \/ row = InReview(payment[p])
          \/ row = BackToReconciliation(payment[p])
      <3>1. says \in {"ambiguous", "security", "unpaid"}
        BY DEF FinishWithoutMoney
      <3>2. CASE says = "unpaid"
        BY <3>2 DEF AfterNoMoney
      <3>3. CASE says # "unpaid" /\ StaleAuthority(p)
        <4>1. row = Preserved(payment[p])
          BY <3>1, <3>3 DEF AfterNoMoney
        <4>2. QED
          BY <3>3, <4>1 DEF StaleAuthority
      <3>4. CASE says # "unpaid" /\ ~StaleAuthority(p)
        BY <3>1, <3>4 DEF AfterNoMoney
      <3>5. QED
        BY <3>2, <3>3, <3>4
    <2>3. /\ RowSound(Failed(payment[p])) /\ RowSound(InReview(payment[p]))
          /\ RowSound(BackToReconciliation(payment[p]))
          /\ payment[p].status = "failed" => RowSound(Preserved(payment[p]))
      BY <1>1, <2>1, PaymentRowFacts
    <2>4. RowSound(row)
      BY <2>2, <2>3
    <2>5. /\ row.order = o /\ row.captured = "none" /\ ~row.applied /\ row.refund = "none"
          /\ row.session /\ row.token = NoWorker
          /\ row.status \in OpenStatuses \/ row.status = "failed"
          /\ row.status = "failed" => says = "unpaid" \/ payment[p].status = "failed"
      <3> USE <1>1, <2>1 DEF Released, PaymentRow, OpenStatuses
      <3>1. CASE row = Failed(payment[p]) /\ says = "unpaid"
        BY <3>1 DEF Failed
      <3>2. CASE row = Preserved(payment[p]) /\ payment[p].status = "failed"
        BY <3>2 DEF Preserved
      <3>3. CASE row = InReview(payment[p])
        BY <3>3 DEF InReview
      <3>4. CASE row = BackToReconciliation(payment[p])
        BY <3>4 DEF BackToReconciliation
      <3> HIDE <1>1, <2>1 DEF Released, PaymentRow, OpenStatuses
      <3>5. QED
        BY <2>2, <3>1, <3>2, <3>3, <3>4
    <2>6. /\ OrderKeeps(order[o], orow)
          /\ orow.rsv = "consumed" => order[o].rsv = "consumed"
          /\ says = "unpaid" /\ Waiting(orow) => StaleAuthority(p) /\ Waiting(order[o])
          /\ Waiting(orow) => Waiting(order[o])
      BY <1>1, OrderWithoutMoneyFacts, OrderRowFacts
    <2>7. Waiting(orow) => row.status \in OpenStatuses
      BY <1>1, <2>5, <2>6 DEF Linked, Open, StaleAuthority, OpenStatuses
    <2>8. /\ payment' = [payment EXCEPT ![p] = row]
          /\ row.status \in OpenStatuses => \A q \in Rivals(p, row.order) : ~Open(q)
      BY <1>3 DEF FinishWithoutMoney, WritePayment
    <2>9. order' = [order EXCEPT ![row.order] = orow]
      <3>1. CASE says = "unpaid"
        BY <1>3, <2>5, <3>1 DEF FinishWithoutMoney
      <3>2. CASE says # "unpaid"
        <4>1. order' = order /\ orow = order[o] /\ row.order = o
          BY <1>3, <2>5, <3>2 DEF FinishWithoutMoney
        <4>2. QED
          BY <1>1, <4>1 DEF IInv, TypeOK
      <3>3. QED
        BY <3>1, <3>2
    <2>10. AttemptKeeps(p, row, orow)
      BY <1>1, <2>1, <2>4, <2>5, <2>6, <2>7, <2>8 DEF AttemptKeeps, Linked
    <2>11. ClaimsKeep(p, row, w) /\ WorkerStep(p, row, w)
      BY <2>5, WorkerTyped DEF ClaimsKeep
    <2>12. AttemptStep(p, row, orow, w)
      BY <2>8, <2>9, <2>10, <2>11 DEF AttemptStep, WorkerStep
    <2>13. row \in PaymentRow /\ orow \in OrderRow
      BY <2>4, <2>6 DEF RowSound, OrderKeeps, OrderSound
    <2>14. QED
      BY <1>1, <2>12, <2>13 DEF StepKinds
  <1>4. QED
    BY <1>2, <1>3

\* The rows a capture leads to.
LEMMA VerifiedRow ==
  ASSUME NEW row \in PaymentRow, NEW amount \in {"exact", "short"}
  PROVE  LET after == Verified(row, amount)
         IN  /\ after \in PaymentRow /\ after.order = row.order /\ after.status = "verified"
             /\ after.captured = amount /\ after.token = NoWorker /\ after.refund = row.refund
             /\ after.due = FALSE /\ after.session = row.session /\ after.applied = row.applied
  <1> PICK after : after = Verified(row, amount)
    OBVIOUS
  <1> USE DEF Verified, Released, PaymentRow
  <1>1. after \in PaymentRow
    BY DEF PaymentStatuses
  <1>2. /\ after.order = row.order /\ after.status = "verified" /\ after.captured = amount
        /\ after.token = NoWorker /\ after.refund = row.refund
    OBVIOUS
  <1>3. after.due = FALSE
    OBVIOUS
  <1>4. after.session = row.session
    OBVIOUS
  <1>5. after.applied = row.applied
    OBVIOUS
  <1> HIDE DEF Verified, Released, PaymentRow
  <1>6. QED
    BY <1>1, <1>2, <1>3, <1>4, <1>5

LEMMA OwingRow ==
  ASSUME NEW row \in PaymentRow, NEW reason \in RefundReasons, reason # "none",
         NEW after, after = Owing(row, reason)
  PROVE  /\ after \in PaymentRow /\ after.order = row.order /\ after.status = row.status
         /\ after.captured = row.captured /\ after.token = row.token /\ after.refund # "none"
         /\ after.due = row.due /\ after.session = row.session /\ after.applied = row.applied
  <1> PICK why : why = IF row.refund = "none" THEN reason ELSE row.refund
    OBVIOUS
  <1> USE DEF PaymentRow
  <1>1. why \in RefundReasons /\ why # "none" /\ after = [row EXCEPT !.refund = why]
    BY DEF Owing
  <1>2. after \in PaymentRow /\ after.refund # "none"
    BY <1>1
  <1>3. /\ after.order = row.order /\ after.status = row.status
        /\ after.captured = row.captured /\ after.token = row.token
    BY <1>1
  <1>4. after.due = row.due
    BY <1>1
  <1>5. after.session = row.session
    BY <1>1
  <1>6. after.applied = row.applied
    BY <1>1
  <1> HIDE DEF PaymentRow
  <1>7. QED
    BY <1>2, <1>3, <1>4, <1>5, <1>6

LEMMA AppliedRow ==
  ASSUME NEW row \in PaymentRow, NEW after, after = [row EXCEPT !.applied = TRUE]
  PROVE  /\ after \in PaymentRow /\ after.order = row.order /\ after.status = row.status
         /\ after.captured = row.captured /\ after.token = row.token
         /\ after.refund = row.refund /\ after.applied = TRUE
         /\ after.due = row.due /\ after.session = row.session
  <1> USE DEF PaymentRow
  <1>1. after \in PaymentRow /\ after.applied = TRUE
    OBVIOUS
  <1>2. /\ after.order = row.order /\ after.status = row.status
        /\ after.captured = row.captured /\ after.token = row.token /\ after.refund = row.refund
    OBVIOUS
  <1>3. after.due = row.due
    OBVIOUS
  <1>4. after.session = row.session
    OBVIOUS
  <1> HIDE DEF PaymentRow
  <1>5. QED
    BY <1>1, <1>2, <1>3, <1>4

\* A verification that brings money: it buys the order, or is owed back.
LEMMA MoneyKind ==
  ASSUME IInv, NEW w \in Workers, worker[w].at = "verify", NEW amount,
         NEW p, p = worker[w].on, amount = gateway[p], FinishWithMoney(w, p, amount),
         WorkerDoes(w, Idle), UNCHANGED gateway
  PROVE  StepKinds
  <1> PICK o, row, orow, verified :
        /\ o = payment[p].order
        /\ row = AfterMoney(p, amount)
        /\ orow = OrderWithMoney(p, amount)
        /\ verified = Verified(payment[p], amount)
    OBVIOUS
  <1>1. /\ p \in Payments /\ Started(p) /\ RowSound(payment[p]) /\ Linked(p) /\ o \in OrderIds
        /\ OrderSound(order[o]) /\ order[o] \in OrderRow /\ order[o] # NoOrder
        /\ payment[p].session /\ payment[p] \in PaymentRow
        /\ amount \in {"exact", "short"}
    BY InCall DEF WorkerSound, OrderSound, RowSound, FinishWithMoney, Captures, Linked
  <1>2. /\ verified \in PaymentRow /\ verified.order = o /\ verified.session
        /\ verified.status = "verified" /\ verified.captured = amount
        /\ verified.token = NoWorker /\ ~verified.due
        /\ verified.applied = payment[p].applied /\ verified.refund = payment[p].refund
    <2>1. payment[p] \in PaymentRow /\ amount \in {"exact", "short"}
      BY <1>1
    <2>2. /\ verified \in PaymentRow /\ verified.order = payment[p].order
          /\ verified.status = "verified" /\ verified.captured = amount
          /\ verified.token = NoWorker /\ verified.refund = payment[p].refund
      BY ONLY <2>1, VerifiedRow, verified = Verified(payment[p], amount)
    <2>3. verified.due = FALSE
      BY <2>1, VerifiedRow
    <2>4. verified.session = payment[p].session
      BY <2>1, VerifiedRow
    <2>5. verified.applied = payment[p].applied
      BY <2>1, VerifiedRow
    <2>6. QED
      BY <1>1, <2>2, <2>3, <2>4, <2>5
  <1>3. /\ payment[p].applied <=> (payment[p].status = "verified" /\ payment[p].refund = "none")
        /\ payment[p].applied =>
             amount = "exact" /\ order[o].rsv = "consumed" /\ ~OtherApplied(p)
        /\ payment[p].refund # "none" => payment[p].captured = amount /\ ~payment[p].applied
        /\ payment[p].refund # "none" /\ amount = "exact" =>
             OtherApplied(p) \/ order[o].status = "cancelled"
    BY <1>1 DEF Linked, RowSound, RowFits, SettledOneWay, OtherApplied
  <1>4. CASE amount = "short" \/ OtherApplied(p) \/ ConfirmIsLate(order[o])
    <2> PICK reason \in {"amount_mismatch", "duplicate_payment", "late_payment"} :
          row = Owing(verified, reason)
      BY <1>4 DEF AfterMoney
    <2>1. /\ row \in PaymentRow /\ row.order = o /\ row.session /\ row.status = "verified"
          /\ row.captured = amount /\ row.token = NoWorker /\ ~row.due
          /\ row.applied = payment[p].applied /\ row.refund # "none"
      BY <1>2, OwingRow DEF RefundReasons
    <2>2. ~payment[p].applied
      BY <1>1, <1>3, <1>4 DEF ConfirmIsLate, OrderSound, Waiting
    <2>3. RowSound(row)
      BY <1>1, <2>1, <2>2 DEF RowSound, RowFits, SettledOneWay
    <2>4. /\ OrderKeeps(order[o], orow)
          /\ orow.rsv = "consumed" => order[o].rsv = "consumed"
          /\ ~Waiting(orow)
          /\ amount = "exact" => OtherApplied(p) \/ orow.status = "cancelled"
      <3>1. CASE amount = "short"
        <4>1. orow = OrderWithoutMoney(p)
          BY <3>1 DEF OrderWithMoney
        <4>2. ~Waiting(orow)
          BY <1>1, <4>1, OrderWithoutMoneyFacts DEF Linked, StaleAuthority, Open, OpenStatuses
        <4>3. QED
          BY <1>1, <3>1, <4>1, <4>2, OrderWithoutMoneyFacts
      <3>2. CASE amount = "exact" /\ OtherApplied(p)
        <4>1. orow = order[o]
          BY <3>2 DEF OrderWithMoney
        <4>2. PICK q \in Rivals(p, o) : payment[q].applied
          BY <3>2 DEF OtherApplied
        <4>3. order[o].rsv = "consumed"
          BY <4>2 DEF Rivals, IInv, Linked
        <4>4. QED
          BY <1>1, <3>2, <4>1, <4>3, OrderRowFacts DEF OrderSound
      <3>3. CASE amount = "exact" /\ ~OtherApplied(p)
        <4>1. orow = ConfirmedRow(order[o]) /\ ConfirmIsLate(order[o])
          BY <1>4, <3>3 DEF OrderWithMoney
        <4>2. orow = [FailedPaymentRow(order[o]) EXCEPT !.late = TRUE]
          BY <1>1, <4>1 DEF ConfirmedRow, ConfirmApplies, ConfirmIsLate, OrderSound, Waiting
        <4>3. orow.status = "cancelled" /\ orow.rsv = FailedPaymentRow(order[o]).rsv
          BY <1>1, <4>1, <4>2 DEF FailedPaymentRow, Cancelled, ConfirmIsLate, OrderRow, Waiting
        <4>4. OrderKeeps(order[o], orow)
          BY <1>1, <4>1, OrderRowFacts DEF ConfirmRaises
        <4>5. orow.rsv # "consumed"
          BY <4>3, <4>4 DEF OrderKeeps, OrderSound
        <4>6. QED
          BY <4>3, <4>4, <4>5 DEF Waiting
      <3>4. QED
        BY <1>1, <3>1, <3>2, <3>3
    <2>5. payment' = [payment EXCEPT ![p] = row] /\ order' = [order EXCEPT ![row.order] = orow]
      BY <2>1 DEF FinishWithMoney, WritePayment
    <2>6. AttemptKeeps(p, row, orow)
      BY <1>1, <2>1, <2>2, <2>3, <2>4 DEF AttemptKeeps, OtherApplied, OpenStatuses
    <2>7. ClaimsKeep(p, row, w) /\ WorkerStep(p, row, w)
      BY <2>1, WorkerTyped DEF ClaimsKeep
    <2>8. AttemptStep(p, row, orow, w) /\ orow \in OrderRow
      BY <2>4, <2>5, <2>6, <2>7 DEF AttemptStep, WorkerStep, OrderKeeps, OrderSound
    <2>9. QED
      BY <1>1, <2>1, <2>8 DEF StepKinds
  <1>5. CASE amount = "exact" /\ ~OtherApplied(p) /\ ~ConfirmIsLate(order[o])
    <2>1. row = [verified EXCEPT !.applied = TRUE] /\ orow = ConfirmedRow(order[o])
      BY <1>5 DEF AfterMoney, OrderWithMoney
    <2>2. /\ row \in PaymentRow /\ row.order = o /\ row.session /\ row.status = "verified"
          /\ row.captured = amount /\ row.token = NoWorker /\ ~row.due
          /\ row.applied = TRUE /\ row.refund = payment[p].refund
      <3>1. /\ row \in PaymentRow /\ row.order = verified.order /\ row.status = verified.status
            /\ row.captured = verified.captured /\ row.token = verified.token
            /\ row.refund = verified.refund /\ row.applied = TRUE
            /\ row.due = verified.due /\ row.session = verified.session
        BY <1>2, <2>1, AppliedRow
      <3>2. QED
        BY <1>2, <3>1
    <2>3. payment[p].refund = "none"
      BY <1>3, <1>5 DEF ConfirmIsLate
    <2>4. RowSound(row)
      BY <1>1, <2>2, <2>3 DEF RowSound, RowFits, SettledOneWay
    <2>5. ~ConfirmRaises(order[o])
      BY <1>5 DEF FinishWithMoney
    <2>6. OrderKeeps(order[o], orow) /\ orow.rsv = "consumed"
      <3>1. OrderKeeps(order[o], orow)
        <4>1. OrderKeeps(order[o], ConfirmedRow(order[o]))
          BY <1>1, <2>5, OrderRowFacts
        <4>2. QED
          BY <2>1, <4>1
      <3>2. orow.status \notin {"waiting", "cancelled"}
        BY <1>1, <1>5, <2>1, <2>5
           DEF ConfirmRaises, ConfirmedRow, ConfirmApplies, ConfirmAlreadyDone, OrderRow
      <3>3. QED
        BY <3>1, <3>2 DEF OrderKeeps, OrderSound, OrderRow, ReservationStates, Waiting
    <2>7. payment' = [payment EXCEPT ![p] = row] /\ order' = [order EXCEPT ![row.order] = orow]
      BY <2>2 DEF FinishWithMoney, WritePayment
    <2>8. AttemptKeeps(p, row, orow)
      <3>1. ~Waiting(orow)
        BY <2>6 DEF OrderKeeps, OrderSound
      <3>2. QED
        BY <1>1, <1>5, <2>2, <2>3, <2>4, <2>6, <3>1 DEF AttemptKeeps, OtherApplied, OpenStatuses
    <2>9. ClaimsKeep(p, row, w) /\ WorkerStep(p, row, w)
      BY <2>2, WorkerTyped DEF ClaimsKeep
    <2>10. AttemptStep(p, row, orow, w) /\ orow \in OrderRow
      BY <2>6, <2>7, <2>8, <2>9 DEF AttemptStep, WorkerStep, OrderKeeps, OrderSound
    <2>11. QED
      BY <1>1, <2>2, <2>10 DEF StepKinds
  <1>6. QED
    BY <1>1, <1>4, <1>5

\* Everything else a worker ends with.
LEMMA WorkerEndKind ==
  ASSUME IInv, NEW w \in Workers, WorkerEnds(w)
  PROVE  StepKinds
  <1>1. ASSUME NEW says \in AllAnswers, FinishCreate(w, says) \/ FinishLookup(w, says)
        PROVE  StepKinds
    BY <1>1, SessionCallKind
  <1>2. ASSUME NEW says \in AllAnswers, FinishVerification(w, says) PROVE StepKinds
    <2> PICK p : p = worker[w].on
      OBVIOUS
    <2>1. worker[w].at = "verify" /\ WorkerDoes(w, Idle) /\ UNCHANGED gateway
      BY <1>2 DEF FinishVerification
    <2>2. says \in Captures => says = gateway[p]
      BY <1>2, <2>1 DEF FinishVerification, Answers, Captures
    <2>3. FinishWithoutMoney(w, p, says) \/ FinishWithMoney(w, p, says)
      BY <1>2 DEF FinishVerification
    <2>4. FinishWithMoney(w, p, says) => says = gateway[p]
      BY <2>2 DEF FinishWithMoney
    <2>5. QED
      BY <2>1, <2>3, <2>4, NoMoneyKind, MoneyKind
  <1>3. CASE ExpireAfterwards(w)
    <2> PICK o : o = payment[worker[w].on].order
      OBVIOUS
    <2>1. worker[w].at # "idle" /\ WorkerDoes(w, Idle) /\ UNCHANGED <<payment, gateway>>
      BY <1>3 DEF ExpireAfterwards
    <2>2. o \in OrderIds /\ OrderSound(order[o]) /\ order[o] # NoOrder
      BY <2>1, InCall DEF Linked
    <2>3. /\ worker' \in [Workers -> Work \cup {Idle}]
          /\ \A v \in Workers : worker'[v] \in {worker[v], Idle}
      BY <2>1 DEF WorkerDoes, IInv, TypeOK
    <2>4. CASE CanExpire(order[o])
      <3>1. order' = [order EXCEPT ![o] = Expired(order[o])]
        BY <1>3, <2>4 DEF ExpireAfterwards
      <3>2. OrderKeeps(order[o], Expired(order[o])) /\ Expired(order[o]).rsv = "released"
        BY <2>2, <2>4, OrderRowFacts DEF Expired, Cancelled, OrderSound, OrderRow
      <3>3. OrderSound(Expired(order[o])) /\ Expired(order[o]).rsv # "consumed"
        BY <3>2 DEF OrderKeeps
      <3>4. IInv'
        BY <2>1, <2>2, <2>3, <3>1, <3>2, <3>3, OneOrderWritten
      <3>5. QED
        BY <2>1, <3>4 DEF StepKinds
    <2>5. CASE ~CanExpire(order[o])
      BY <1>3, <2>1, <2>5, OneWorkerMoves DEF ExpireAfterwards, StepKinds
    <2>6. QED
      BY <2>4, <2>5
  <1>4. CASE Reverify(w)
    <2> PICK p : p = worker[w].on
      OBVIOUS
    <2>1. worker[w].at = "reverify"
      BY <1>4 DEF Reverify
    <2>2. p \in Payments /\ Started(p) /\ payment[p].session
      BY <2>1, InCall DEF WorkerSound
    <2>3. CASE ClaimVerification(w, p)
      BY <2>2, <2>3, ClaimKind
    <2>4. CASE WorkerDoes(w, Idle) /\ UNCHANGED <<order, payment, gateway>>
      BY <2>4, OneWorkerMoves DEF StepKinds
    <2>5. QED
      BY <1>4, <2>3, <2>4 DEF Reverify
  <1>5. CASE WorkerLost(w)
    BY <1>5, OneWorkerMoves DEF WorkerLost, StepKinds
  <1>6. QED
    BY <1>1, <1>2, <1>3, <1>4, <1>5 DEF WorkerEnds

\* The steps of a payment no worker takes.
LEMMA PaymentStepKind ==
  ASSUME IInv, NEW p \in Payments, PaymentStep(p)
  PROVE  StepKinds
  <1>1. Started(p) => /\ RowSound(payment[p]) /\ payment[p] \in PaymentRow /\ Linked(p)
                      /\ Open(p) => \A q \in Rivals(p, payment[p].order) : ~Open(q)
    BY DEF IInv, RowSound, Linked
  <1>2. worker' = worker => \A row : WorkerStep(p, row, NoWorker)
    BY NoRowsAssumption DEF IInv, TypeOK, WorkerStep
  <1>3. CASE Rearm(p)
    <2> DEFINE row == [Released(payment[p]) EXCEPT
                         !.status = IF payment[p].session THEN "redirect_ready" ELSE "pending",
                         !.due = TRUE]
    <2>1. /\ Started(p) /\ payment[p].status = "manual_review"
          /\ payment' = [payment EXCEPT ![p] = row]
          /\ row.status \in OpenStatuses => \A q \in Rivals(p, row.order) : ~Open(q)
          /\ UNCHANGED <<order, gateway, worker>>
      BY <1>3 DEF Rearm, WritePayment
    <2>2. /\ row.order = payment[p].order /\ row.captured = payment[p].captured
          /\ row.refund = payment[p].refund /\ row.token = NoWorker /\ row.status \in OpenStatuses
      BY <1>1, <2>1 DEF Released, PaymentRow, OpenStatuses
    <2>3. row.session = payment[p].session /\ row.applied = payment[p].applied
      BY <1>1, <2>1 DEF Released, PaymentRow
    <2>4. RowSound(row)
      BY <1>1, <2>1, PaymentRowFacts
    <2> HIDE DEF row
    <2>5. QuietStep(p, row, NoWorker)
      BY <2>1, <2>2, <2>3, <2>4 DEF QuietStep, ClaimsKeep
    <2>6. QED
      BY <1>2, <2>1, <2>5, QuietAttempt
  <1>4. CASE LeaseLapses(p)
    <2> DEFINE row == [payment[p] EXCEPT !.leased = FALSE]
    <2>1. Started(p) /\ UNCHANGED <<order, gateway, worker>>
      BY <1>4 DEF LeaseLapses
    <2>2. payment' = [payment EXCEPT ![p] = row]
      BY <1>4 DEF LeaseLapses
    <2>3. RowSound(row)
      BY <1>1, <2>1 DEF RowSound, RowFits, SettledOneWay, PaymentRow
    <2>4. /\ row.order = payment[p].order /\ row.captured = payment[p].captured
          /\ row.refund = payment[p].refund /\ row.token = payment[p].token
          /\ row.status = payment[p].status
      BY <1>1, <2>1 DEF PaymentRow
    <2>5. row.session = payment[p].session /\ row.applied = payment[p].applied
      BY <1>1, <2>1 DEF PaymentRow
    <2> HIDE DEF row
    <2>6. QuietStep(p, row, NoWorker)
      BY <1>1, <2>1, <2>2, <2>3, <2>4, <2>5 DEF QuietStep, ClaimsKeep, Linked, Open
    <2>7. QED
      BY <1>2, <2>1, <2>6, QuietAttempt
  <1>5. CASE HorizonPasses(p)
    <2> DEFINE row == [payment[p] EXCEPT !.old = TRUE]
    <2>1. Started(p) /\ UNCHANGED <<order, gateway, worker>>
      BY <1>5 DEF HorizonPasses
    <2>2. payment' = [payment EXCEPT ![p] = row]
      BY <1>5 DEF HorizonPasses
    <2>3. RowSound(row)
      BY <1>1, <2>1 DEF RowSound, RowFits, SettledOneWay, PaymentRow
    <2>4. /\ row.order = payment[p].order /\ row.captured = payment[p].captured
          /\ row.refund = payment[p].refund /\ row.token = payment[p].token
          /\ row.status = payment[p].status
      BY <1>1, <2>1 DEF PaymentRow
    <2>5. row.session = payment[p].session /\ row.applied = payment[p].applied
      BY <1>1, <2>1 DEF PaymentRow
    <2> HIDE DEF row
    <2>6. QuietStep(p, row, NoWorker)
      BY <1>1, <2>1, <2>2, <2>3, <2>4, <2>5 DEF QuietStep, ClaimsKeep, Linked, Open
    <2>7. QED
      BY <1>2, <2>1, <2>6, QuietAttempt
  <1>6. CASE ProviderDecides(p) \/ CustomerPays(p)
    BY <1>6 DEF StepKinds
  <1>7. QED
    BY <1>3, <1>4, <1>5, <1>6 DEF PaymentStep

\* The orders' own life.
LEMMA OrderStepKind ==
  ASSUME IInv, NEW o \in OrderIds, OrderStep(o)
  PROVE  StepKinds
  <1> USE NoRowsAssumption
  <1>1. /\ order[o] # NoOrder => OrderSound(order[o])
        /\ worker' = worker => /\ worker' \in [Workers -> Work \cup {Idle}]
                               /\ \A v \in Workers : worker'[v] \in {worker[v], Idle}
    BY DEF IInv, TypeOK
  <1>2. ASSUME NEW orow, WriteOrder(o, orow), order[o] # NoOrder, OrderKeeps(order[o], orow),
               orow.rsv = "consumed" => order[o].rsv = "consumed"
        PROVE  StepKinds
    <2>1. UNCHANGED <<payment, gateway, worker>> /\ order' = [order EXCEPT ![o] = orow]
      BY <1>2 DEF WriteOrder
    <2>2. IInv'
      BY <1>1, <1>2, <2>1, OneOrderWritten DEF OrderKeeps
    <2>3. QED
      BY <2>1, <2>2 DEF StepKinds
  <1>3. CASE CreateOrder(o)
    <2> DEFINE orow == [status |-> "waiting", lapsed |-> FALSE, late |-> FALSE, reason |-> "",
                        rsv |-> "active", told |-> {}]
    <2>1. OrderSound(orow) /\ orow.rsv = "active"
      BY DEF OrderSound, OrderRow, Statuses, Reasons, ReservationStates, Waiting
    <2>2. /\ order[o] = NoOrder /\ UNCHANGED <<payment, gateway, worker>>
          /\ order' = [order EXCEPT ![o] = orow]
      BY <1>3 DEF CreateOrder, WriteOrder
    <2> HIDE DEF orow
    <2>3. IInv'
      BY <1>1, <2>1, <2>2, OneOrderWritten
    <2>4. QED
      BY <2>2, <2>3 DEF StepKinds
  <1>4. CASE DeadlinePasses(o)
    <2> DEFINE orow == [order[o] EXCEPT !.lapsed = TRUE]
    <2>1. /\ order[o] # NoOrder /\ Waiting(order[o]) /\ WriteOrder(o, orow)
          /\ orow.rsv = order[o].rsv
      BY <1>1, <1>4 DEF DeadlinePasses, OrderSound, OrderRow
    <2>2. OrderKeeps(order[o], orow)
      BY <1>1, <2>1, OrderRowFacts
    <2> HIDE DEF orow
    <2>3. QED
      BY <1>2, <2>1, <2>2
  <1>5. CASE ExpireUnpaidOrder(o)
    <2>1. order[o] # NoOrder /\ CanExpire(order[o]) /\ WriteOrder(o, Expired(order[o]))
      BY <1>5 DEF ExpireUnpaidOrder
    <2>2. OrderKeeps(order[o], Expired(order[o]))
      BY <1>1, <2>1, OrderRowFacts
    <2>3. Expired(order[o]).rsv # "consumed"
      BY <1>1, <2>1 DEF Expired, Cancelled, OrderSound, OrderRow
    <2>4. QED
      BY <1>2, <2>1, <2>2, <2>3
  <1>6. CASE ShipOrder(o)
    <2>1. order[o] # NoOrder /\ CanShip(order[o]) /\ WriteOrder(o, ShippedRow(order[o]))
      BY <1>6 DEF ShipOrder
    <2>2. OrderKeeps(order[o], ShippedRow(order[o]))
      BY <1>1, <2>1, OrderRowFacts
    <2>3. ShippedRow(order[o]).rsv = order[o].rsv
      BY <1>1, <2>1 DEF ShippedRow, OrderSound, OrderRow
    <2>4. QED
      BY <1>2, <2>1, <2>2, <2>3
  <1>7. QED
    BY <1>3, <1>4, <1>5, <1>6 DEF OrderStep

LEMMA NextSplits ==
  ASSUME IInv, Next
  PROVE  StepKinds
  <1>1. ASSUME NEW w \in Workers, WorkerBegins(w) PROVE StepKinds
    BY <1>1, InitiateKind, ClaimKind, ReconcileKind DEF WorkerBegins, Callback
  <1>2. QED
    BY <1>1, WorkerEndKind, PaymentStepKind, OrderStepKind DEF Next

LEMMA InductiveInvariant == Spec => []IInv
  <1>1. Init => IInv
    BY NoRowsAssumption DEF Init, IInv, TypeOK, Started, Sold, WorkerSound, Idle, GatewayStates
  <1>2. ASSUME IInv, [Next]_vars PROVE IInv'
    <2>1. CASE UNCHANGED vars
      BY <1>2, <2>1 DEF vars, IInv, TypeOK, Started, Linked, Sold, AppliedTo, Rivals, Open,
                        OtherApplied, WorkerSound
    <2>2. CASE Next
      BY <1>2, <2>2, NextSplits, OneAttemptWritten, GatewayWritten DEF StepKinds
    <2>3. QED
      BY <1>2, <2>1, <2>2
  <1>3. QED
    BY <1>1, <1>2, PTL DEF Spec

-----------------------------------------------------------------------------
\* No commit runs into a constraint of the payments table, and unclaimed work
\* stays on the sweep's list.
THEOREM RowsStayConsistent == Spec => []RowsConsistent
  <1>1. IInv => RowsConsistent
    BY DEF IInv, RowSound, RowsConsistent, NoConstraintTrips, UnclaimedWorkIsSwept, Swept,
           Reconcilable
  <1>2. QED
    BY <1>1, InductiveInvariant, PTL

\* Every capture is settled one way, and an order is sold exactly against one
\* payment of the right amount.
THEOREM CapturesAreSettledOnce == Spec => []CapturesSettleOneWay
  <1>1. ASSUME IInv, NEW o \in OrderIds
        PROVE  /\ Sold(o) <=> AppliedTo(o) # {}
               /\ \A p, q \in AppliedTo(o) : p = q /\ payment[p].captured = "exact"
    <2>1. \A p \in AppliedTo(o) : /\ p \in Payments /\ Started(p) /\ payment[p].order = o
                                  /\ payment[p].applied /\ Linked(p)
      BY <1>1 DEF AppliedTo, IInv
    <2>2. \A p \in AppliedTo(o) : Sold(o) /\ payment[p].captured = "exact"
      BY <2>1 DEF Linked, Sold
    <2>3. \A p, q \in AppliedTo(o) : p = q
      BY <2>1 DEF Linked, Rivals
    <2>4. QED
      BY <1>1, <2>2, <2>3 DEF IInv
  <1>2. IInv => CapturesSettleOneWay
    BY <1>1 DEF CapturesSettleOneWay, SoldForOnePayment, IInv, RowSound
  <1>3. QED
    BY <1>2, InductiveInvariant, PTL

\* While an order waits, one of its attempts at most has a session to pay.
THEOREM AWaitingOrderHasOneSession == Spec => []OnePayableSession
  <1>1. ASSUME IInv, NEW o \in OrderIds, order[o] # NoOrder, Waiting(order[o]),
               NEW p \in Sessions(o), NEW q \in Sessions(o)
        PROVE  p = q
    <2>1. /\ p \in Payments /\ Started(p) /\ payment[p].order = o /\ Open(p) /\ Linked(p)
          /\ q \in Payments /\ Started(q) /\ payment[q].order = o /\ Open(q)
      BY <1>1 DEF Sessions, IInv, Linked
    <2>2. QED
      BY <2>1 DEF Linked, Rivals
  <1>2. IInv => OnePayableSession
    BY <1>1 DEF OnePayableSession
  <1>3. QED
    BY <1>2, InductiveInvariant, PTL

\* A worker whose claim was taken over leaves the row as it was, or verified.
THEOREM OvertakenWorkersOnlyBringMoney == Spec => StaleWorkersOnlyBringMoney
  <1>1. ASSUME IInv, [Next]_vars, NEW w \in Workers, NEW p, p = worker[w].on,
               worker[w].at \in Calls, payment[p].token # w, worker'[w] # worker[w]
        PROVE  payment'[p] = payment[p] \/ payment'[p].status = "verified"
    <2>1. /\ worker \in [Workers -> Work \cup {Idle}]
          /\ payment \in [Payments -> PaymentRow \cup {NoPayment}]
          /\ worker[w] # Idle /\ p \in Payments /\ payment[p] \in PaymentRow
      BY <1>1, InCall DEF IInv, TypeOK, Calls, Idle, RowSound
    <2>2. WorkerEnds(w)
      <3>1. worker' # worker
        BY <1>1
      <3>2. PICK v \in Workers : WorkerBegins(v) \/ WorkerEnds(v)
        BY <1>1, <3>1 DEF Next, vars, PaymentStep, OrderStep, Rearm, LeaseLapses, HorizonPasses,
             ProviderDecides, CustomerPays, CreateOrder, DeadlinePasses, ExpireUnpaidOrder,
             ShipOrder, WriteOrder
      <3>3. v # w => worker'[w] = worker[w]
        BY <2>1, <3>2 DEF WorkerBegins, WorkerEnds, InitiatePayment, Callback, ClaimVerification,
             ReconcilePayment, FinishCreate, FinishVerification, FinishLookup, ExpireAfterwards,
             Reverify, WorkerLost, WorkerDoes
      <3>4. v = w
        BY <1>1, <3>3
      <3>5. ~WorkerBegins(w)
        BY <2>1 DEF WorkerBegins, InitiatePayment, Callback, ReconcilePayment
      <3>6. QED
        BY <3>2, <3>4, <3>5
    <2>3. CASE payment' = payment
      BY <2>3
    <2>4. CASE payment' # payment
      <3>1. PICK says \in AllAnswers : FinishVerification(w, says)
        BY <1>1, <2>2, <2>4 DEF WorkerEnds, FinishCreate, FinishLookup, ExpireAfterwards, Reverify,
             WorkerLost, Calls
      <3>2. FinishWithMoney(w, p, says)
        BY <1>1, <2>4, <3>1 DEF FinishVerification, FinishWithoutMoney
      <3>3. payment'[p] = AfterMoney(p, says)
        BY <2>1, <3>2 DEF FinishWithMoney, WritePayment
      <3>4. AfterMoney(p, says).status = "verified"
        <4> PICK verified : verified = Verified(payment[p], says)
          OBVIOUS
        <4>1. verified \in PaymentRow /\ verified.status = "verified"
          <5>1. says \in {"exact", "short"}
            BY <3>2 DEF FinishWithMoney, Captures
          <5>2. QED
            BY <2>1, <5>1, VerifiedRow
        <4>2. \A reason \in RefundReasons \ {"none"} : Owing(verified, reason).status = "verified"
          BY <4>1, OwingRow
        <4>3. [verified EXCEPT !.applied = TRUE].status = "verified"
          BY <4>1, AppliedRow
        <4>4. QED
          BY <4>2, <4>3 DEF AfterMoney, RefundReasons
      <3>5. QED
        BY <3>3, <3>4
    <2>5. QED
      BY <2>3, <2>4
  <1>2. IInv /\ [Next]_vars =>
          [\A w \in Workers :
             LET p == worker[w].on
             IN  worker[w].at \in Calls /\ payment[p].token # w /\ worker'[w] # worker[w] =>
                   payment'[p] = payment[p] \/ payment'[p].status = "verified"]_vars
    BY <1>1
  <1>3. QED
    BY <1>2, InductiveInvariant, PTL DEF Spec, StaleWorkersOnlyBringMoney

-----------------------------------------------------------------------------
(* Payments implement PaymentSettlement                                    *)

\* A step that writes one attempt decides the fate of one payment at most.
LEMMA AttemptSettles ==
  ASSUME IInv, NEW p \in Payments, NEW row, NEW orow, NEW w, AttemptStep(p, row, orow, w)
  PROVE  [Settlement!Next]_(Settlement!vars)
  <1> USE NoRowsAssumption
  <1> PICK o : o = row.order
    OBVIOUS
  <1>1. /\ RowSound(row) /\ row \in PaymentRow /\ o \in OrderIds /\ row # NoPayment
        /\ payment \in [Payments -> PaymentRow \cup {NoPayment}]
        /\ gateway' = gateway
    BY DEF AttemptStep, AttemptKeeps, RowSound, PaymentRow, IInv, TypeOK
  <1>2. payment'[p] = row /\ \A q \in Payments : q # p => payment'[q] = payment[q]
    BY <1>1 DEF AttemptStep
  <1>3. \A q \in Payments : Money(q)' = Money(q)
    BY <1>1 DEF Money
  <1>4. \A q \in Payments : q # p => Fate(q)' = Fate(q) /\ Buys(q)' = Buys(q)
    BY <1>2 DEF Fate, Buys, Started
  <1>5. Fate(p)' = IF row.applied THEN "bought" ELSE IF row.refund # "none" THEN "owed" ELSE "open"
    BY <1>1, <1>2 DEF Fate, Started
  <1>6. Buys(p)' = IF row.applied THEN o ELSE NoOrder
    BY <1>2, <1>5 DEF Buys
  <1>7. Started(p) => /\ payment[p].order = o /\ SettledOneWay(payment[p])
                      /\ payment[p].applied => row.applied
                      /\ payment[p].refund # "none" => row.refund # "none"
    BY DEF AttemptStep, AttemptKeeps, IInv, RowSound
  <1>8. SettledOneWay(row) /\ (row.status = "verified" <=> row.captured # "none")
    BY <1>1 DEF RowSound, RowFits
  <1>9. row.captured # "none" => gateway[p] = row.captured /\ gateway[p] \in Captures
    BY <1>1 DEF AttemptStep, AttemptKeeps, PaymentRow, Captures
  <1> DEFINE M == [q \in Payments |-> Money(q)]
             F == [q \in Payments |-> Fate(q)]
             B == [q \in Payments |-> Buys(q)]
  <1>10. M' = M
    BY <1>3
  <1>11. CASE Fate(p) # "open"
    <2>1. Fate(p)' = Fate(p) /\ Buys(p)' = Buys(p)
      BY <1>5, <1>6, <1>7, <1>8, <1>11 DEF Fate, Buys, SettledOneWay
    <2>2. F' = F /\ B' = B
      BY <1>4, <2>1
    <2>3. QED
      BY <1>10, <2>2 DEF Settlement!vars
  <1>12. CASE Fate(p) = "open" /\ row.applied
    <2>1. F' = [F EXCEPT ![p] = "bought"] /\ B' = [B EXCEPT ![p] = o]
      BY <1>4, <1>5, <1>6, <1>12
    <2>2. M[p] = "exact" /\ F[p] = "open"
      <3>1. row.captured = "exact"
        BY <1>12 DEF AttemptStep, AttemptKeeps
      <3>2. QED
        BY <1>9, <1>12, <3>1 DEF Money
    <2>3. ASSUME NEW q \in Payments PROVE B[q] # o
      <3>1. CASE Fate(q) = "bought"
        <4>1. Started(q) /\ payment[q].applied /\ q # p
          BY <1>12, <3>1 DEF Fate
        <4>2. q \notin Rivals(p, o)
          BY <1>12, <4>1 DEF AttemptStep, AttemptKeeps
        <4>3. payment[q].order # o
          BY <4>1, <4>2 DEF Rivals
        <4>4. QED
          BY <3>1, <4>3 DEF Buys
      <3>2. CASE Fate(q) # "bought"
        BY <1>1, <3>2 DEF Buys
      <3>3. QED
        BY <3>1, <3>2
    <2> HIDE DEF M, F, B
    <2>4. Settlement!Buy(p, o)
      BY <1>10, <2>1, <2>2, <2>3 DEF Settlement!Buy, M, F, B
    <2>5. QED
      BY <1>1, <2>4 DEF Settlement!Next
  <1>13. CASE Fate(p) = "open" /\ ~row.applied /\ row.refund # "none"
    <2>1. F' = [F EXCEPT ![p] = "owed"] /\ B' = B
      BY <1>4, <1>5, <1>6, <1>13 DEF Buys
    <2>2. M[p] # "none" /\ F[p] = "open"
      BY <1>8, <1>9, <1>13 DEF Money, SettledOneWay, Captures
    <2> HIDE DEF M, F, B
    <2>3. Settlement!Owe(p)
      BY <1>10, <2>1, <2>2 DEF Settlement!Owe, M, F, B
    <2>4. QED
      BY <2>3 DEF Settlement!Next
  <1>14. CASE Fate(p) = "open" /\ ~row.applied /\ row.refund = "none"
    <2>1. F' = F /\ B' = B
      BY <1>4, <1>5, <1>6, <1>14 DEF Buys
    <2>2. QED
      BY <1>10, <2>1 DEF Settlement!vars
  <1>15. QED
    BY <1>11, <1>12, <1>13, <1>14

\* A step that writes no attempt settles nothing; the customer may pay.
LEMMA ProviderSettles ==
  ASSUME IInv, payment' = payment,
         gateway' = gateway \/ \E p \in Payments : ProviderDecides(p) \/ CustomerPays(p)
  PROVE  [Settlement!Next]_(Settlement!vars)
  <1> DEFINE M == [q \in Payments |-> Money(q)]
             F == [q \in Payments |-> Fate(q)]
             B == [q \in Payments |-> Buys(q)]
  <1>1. F' = F /\ B' = B
    BY DEF Fate, Buys, Started
  <1>2. CASE gateway' = gateway
    BY <1>1, <1>2 DEF Money, Settlement!vars
  <1>3. ASSUME NEW p \in Payments, ProviderDecides(p)
        PROVE  [Settlement!Next]_(Settlement!vars)
    <2>1. M' = M
      BY <1>3 DEF ProviderDecides, Money, Captures, IInv, TypeOK
    <2>2. QED
      BY <1>1, <2>1 DEF Settlement!vars
  <1>4. ASSUME NEW p \in Payments, CustomerPays(p)
        PROVE  [Settlement!Next]_(Settlement!vars)
    <2>1. PICK amount \in {"exact", "short"} : gateway' = [gateway EXCEPT ![p] = amount]
      BY <1>4 DEF CustomerPays, Captures
    <2>2. M[p] = "none" /\ M' = [M EXCEPT ![p] = amount]
      BY <1>4, <2>1 DEF CustomerPays, Money, Captures, IInv, TypeOK
    <2> HIDE DEF M, F, B
    <2>3. Settlement!Capture(p)
      BY <1>1, <2>2 DEF Settlement!Capture, M, F, B
    <2>4. QED
      BY <2>3 DEF Settlement!Next
  <1>5. QED
    BY <1>2, <1>3, <1>4

\* Sessions, claims, retries and reviews come down to what PaymentSettlement says.
THEOREM PaymentsKeepMoneyPromise == Spec => KeepsMoneyPromise
  <1>1. Init => Settlement!Init
    BY DEF Init, Settlement!Init, Money, Fate, Buys, Started, Captures
  <1>2. ASSUME IInv, [Next]_vars PROVE [Settlement!Next]_(Settlement!vars)
    <2>1. CASE UNCHANGED vars
      BY <1>2, <2>1, ProviderSettles DEF vars
    <2>2. CASE Next
      <3>1. CASE \E p \in Payments : ProviderDecides(p) \/ CustomerPays(p)
        BY <1>2, <3>1, ProviderSettles DEF ProviderDecides, CustomerPays
      <3>2. QED
        BY <1>2, <2>2, <3>1, NextSplits, AttemptSettles, ProviderSettles DEF StepKinds
    <2>3. QED
      BY <1>2, <2>1, <2>2
  <1>3. QED
    BY <1>1, <1>2, InductiveInvariant, PTL DEF Spec, KeepsMoneyPromise, Settlement!Spec

-----------------------------------------------------------------------------
(* Payments implement OrderLifecycle: what Orders promises of an order is    *)
(* kept when attempts, their answers and their retries drive it.             *)

Phase(o) == IF order[o] = NoOrder THEN "absent" ELSE order[o].status

Goods(o) ==
  IF order[o] = NoOrder \/ order[o].rsv = "released" THEN "shelf"
  ELSE IF order[o].rsv = "active" THEN "reserved"
  ELSE "sold"

Noticed(o) == order[o] # NoOrder /\ order[o].late

Lifecycle ==
  INSTANCE OrderLifecycle WITH
    phase <- [o \in OrderIds |-> Phase(o)],
    goods <- [o \in OrderIds |-> Goods(o)],
    noticed <- [o \in OrderIds |-> Noticed(o)]

\* Payments keep the promise Orders make of each order.
KeepsOrderPromise == Lifecycle!Spec

\* What a service may make of an order row, in the terms of the promise.
OrderTurns(before, after) ==
  \/ after.status = before.status /\ after.rsv = before.rsv /\ after.late = before.late
  \/ /\ Waiting(before)
     /\ after.status = "processing" /\ after.rsv = "consumed" /\ after.late = before.late
  \/ Waiting(before) /\ after.status = "cancelled" /\ after.rsv = "released"
  \/ /\ before.status = "cancelled"
     /\ after.status = "cancelled" /\ after.rsv = before.rsv /\ after.late
  \/ /\ before.status = "processing"
     /\ after.status = "shipped" /\ after.rsv = before.rsv /\ after.late = before.late

\* The services of apps/orders, each on a row it finds consistent.
LEMMA ServicesTurnOrders ==
  ASSUME NEW before, OrderSound(before)
  PROVE  /\ OrderTurns(before, before)
         /\ OrderTurns(before, [before EXCEPT !.lapsed = TRUE])
         /\ CanExpire(before) => OrderTurns(before, Expired(before))
         /\ OrderTurns(before, FailedPaymentRow(before))
         /\ ~ConfirmRaises(before) => OrderTurns(before, ConfirmedRow(before))
         /\ CanShip(before) => OrderTurns(before, ShippedRow(before))
  <1> USE DEF OrderSound, OrderTurns, OrderRow, Waiting
  <1>1. OrderTurns(before, before) /\ OrderTurns(before, [before EXCEPT !.lapsed = TRUE])
    OBVIOUS
  <1>2. CanExpire(before) => OrderTurns(before, Expired(before))
    BY DEF CanExpire, Expired, Cancelled
  <1>3. OrderTurns(before, FailedPaymentRow(before))
    BY DEF FailedPaymentRow, Cancelled
  <1>4. ASSUME ~ConfirmRaises(before) PROVE OrderTurns(before, ConfirmedRow(before))
    <2>1. CASE ConfirmApplies(before)
      <3> DEFINE told == before.told \cup {"order_confirmed"}
      <3>1. ConfirmedRow(before) =
              [before EXCEPT !.status = "processing", !.rsv = "consumed", !.told = told]
        BY <2>1 DEF ConfirmedRow
      <3> HIDE DEF told
      <3>2. QED
        BY <2>1, <3>1 DEF ConfirmApplies
    <2>2. CASE ~ConfirmApplies(before) /\ ConfirmIsLate(before)
      <3>1. ConfirmedRow(before) = [FailedPaymentRow(before) EXCEPT !.late = TRUE]
        BY <2>2 DEF ConfirmedRow
      <3>2. QED
        BY <2>2, <3>1 DEF FailedPaymentRow, Cancelled, ConfirmIsLate
    <2>3. CASE ~ConfirmApplies(before) /\ ~ConfirmIsLate(before)
      BY <2>3 DEF ConfirmedRow
    <2>4. QED
      BY <2>1, <2>2, <2>3
  <1>5. ASSUME CanShip(before) PROVE OrderTurns(before, ShippedRow(before))
    <2> DEFINE told == before.told \cup {"order_shipped"}
    <2>1. ShippedRow(before) = [before EXCEPT !.status = "shipped", !.told = told]
      BY DEF ShippedRow
    <2> HIDE DEF told
    <2>2. QED
      BY <1>5, <2>1 DEF CanShip
  <1>6. QED
    BY <1>1, <1>2, <1>3, <1>4, <1>5

\* What any step does to the orders: nothing, a new one, or one turn of one.
OneOrderTurns ==
  \E o \in OrderIds, row \in OrderRow :
    /\ order' = [order EXCEPT ![o] = row]
    /\ \/ order[o] = NoOrder /\ row.status = "waiting" /\ row.rsv = "active" /\ ~row.late
       \/ order[o] # NoOrder /\ OrderTurns(order[o], row)

OrdersTurn == order' = order \/ OneOrderTurns

\* The finishing transaction of a verification turns the order it is about.
LEMMA VerificationTurnsOrder ==
  ASSUME IInv, NEW w \in Workers, NEW says, FinishVerification(w, says)
  PROVE  OrdersTurn
  <1> PICK p, o : p = worker[w].on /\ o = payment[p].order
    OBVIOUS
  <1>1. /\ o \in OrderIds /\ order[o] # NoOrder /\ OrderSound(order[o])
    BY InCall DEF FinishVerification, Linked
  <1>2. \A row : /\ order' = [order EXCEPT ![o] = row]
                 /\ OrderSound(row) /\ OrderTurns(order[o], row)
                 => OrdersTurn
    BY <1>1 DEF OrdersTurn, OneOrderTurns, OrderSound
  <1>3. /\ OrderSound(OrderWithoutMoney(p))
        /\ OrderTurns(order[o], OrderWithoutMoney(p))
    BY <1>1, OrderRowFacts, ServicesTurnOrders DEF OrderWithoutMoney, OrderKeeps
  <1>4. CASE FinishWithoutMoney(w, p, says)
    BY <1>2, <1>3, <1>4 DEF FinishWithoutMoney, OrdersTurn
  <1>5. CASE FinishWithMoney(w, p, says)
    <2>1. order' = [order EXCEPT ![o] = OrderWithMoney(p, says)]
      BY <1>5 DEF FinishWithMoney
    <2>2. CASE says = "short"
      BY <1>2, <1>3, <2>1, <2>2 DEF OrderWithMoney
    <2>3. CASE says # "short" /\ OtherApplied(p)
      BY <1>1, <1>2, <2>1, <2>3, ServicesTurnOrders DEF OrderWithMoney
    <2>4. CASE says # "short" /\ ~OtherApplied(p)
      <3>1. OrderWithMoney(p, says) = ConfirmedRow(order[o])
        BY <2>4 DEF OrderWithMoney
      <3>2. ~ConfirmRaises(order[o])
        BY <1>5, <2>4 DEF FinishWithMoney, Captures
      <3>3. OrderSound(ConfirmedRow(order[o])) /\ OrderTurns(order[o], ConfirmedRow(order[o]))
        BY <1>1, <3>2, OrderRowFacts, ServicesTurnOrders DEF OrderKeeps
      <3>4. QED
        BY <1>2, <2>1, <3>1, <3>3
    <2>5. QED
      BY <2>2, <2>3, <2>4
  <1>6. QED
    BY <1>4, <1>5 DEF FinishVerification

\* So does the expiry that follows a late session, and what happens to an order
\* without its payments.
LEMMA OrderStepTurnsOrder ==
  ASSUME IInv, (\E o \in OrderIds : OrderStep(o)) \/ \E w \in Workers : ExpireAfterwards(w)
  PROVE  OrdersTurn
  <1>1. ASSUME NEW o \in OrderIds, order[o] # NoOrder, NEW row,
               order' = [order EXCEPT ![o] = row],
               OrderSound(order[o]) => OrderSound(row) /\ OrderTurns(order[o], row)
        PROVE  OrdersTurn
    BY <1>1 DEF IInv, OrdersTurn, OneOrderTurns, OrderSound
  <1>2. ASSUME NEW w \in Workers, ExpireAfterwards(w) PROVE OrdersTurn
    <2> PICK o : o = payment[worker[w].on].order
      OBVIOUS
    <2>1. o \in OrderIds /\ order[o] # NoOrder
      BY <1>2, InCall DEF ExpireAfterwards, Linked
    <2>2. CASE CanExpire(order[o])
      <3>1. order' = [order EXCEPT ![o] = Expired(order[o])]
        BY <1>2, <2>2 DEF ExpireAfterwards
      <3>2. OrderSound(order[o]) =>
              OrderSound(Expired(order[o])) /\ OrderTurns(order[o], Expired(order[o]))
        BY <2>2, OrderRowFacts, ServicesTurnOrders DEF OrderKeeps
      <3>3. QED
        BY <1>1, <2>1, <3>1, <3>2
    <2>3. CASE ~CanExpire(order[o])
      BY <1>2, <2>3 DEF ExpireAfterwards, OrdersTurn
    <2>4. QED
      BY <2>2, <2>3
  <1>3. ASSUME NEW o \in OrderIds, CreateOrder(o) PROVE OrdersTurn
    <2> PICK row : row = [status |-> "waiting", lapsed |-> FALSE, late |-> FALSE,
                          reason |-> "", rsv |-> "active", told |-> {}]
      OBVIOUS
    <2>1. row \in OrderRow /\ row.status = "waiting" /\ row.rsv = "active" /\ ~row.late
      BY DEF OrderRow, Statuses, Reasons, ReservationStates
    <2>2. order[o] = NoOrder /\ order' = [order EXCEPT ![o] = row]
      BY <1>3 DEF CreateOrder, WriteOrder
    <2>3. QED
      BY <2>1, <2>2 DEF OrdersTurn, OneOrderTurns
  <1>4. ASSUME NEW o \in OrderIds, DeadlinePasses(o) PROVE OrdersTurn
    <2>1. order[o] # NoOrder /\ Waiting(order[o])
          /\ order' = [order EXCEPT ![o] = [order[o] EXCEPT !.lapsed = TRUE]]
      BY <1>4 DEF DeadlinePasses, WriteOrder
    <2>2. OrderSound(order[o]) =>
            /\ OrderSound([order[o] EXCEPT !.lapsed = TRUE])
            /\ OrderTurns(order[o], [order[o] EXCEPT !.lapsed = TRUE])
      BY <2>1, OrderRowFacts, ServicesTurnOrders DEF OrderKeeps
    <2>3. QED
      BY <1>1, <2>1, <2>2
  <1>5. ASSUME NEW o \in OrderIds, ExpireUnpaidOrder(o) PROVE OrdersTurn
    <2>1. order[o] # NoOrder /\ CanExpire(order[o])
          /\ order' = [order EXCEPT ![o] = Expired(order[o])]
      BY <1>5 DEF ExpireUnpaidOrder, WriteOrder
    <2>2. OrderSound(order[o]) =>
            OrderSound(Expired(order[o])) /\ OrderTurns(order[o], Expired(order[o]))
      BY <2>1, OrderRowFacts, ServicesTurnOrders DEF OrderKeeps
    <2>3. QED
      BY <1>1, <2>1, <2>2
  <1>6. ASSUME NEW o \in OrderIds, ShipOrder(o) PROVE OrdersTurn
    <2>1. order[o] # NoOrder /\ CanShip(order[o])
          /\ order' = [order EXCEPT ![o] = ShippedRow(order[o])]
      BY <1>6 DEF ShipOrder, WriteOrder
    <2>2. OrderSound(order[o]) =>
            OrderSound(ShippedRow(order[o])) /\ OrderTurns(order[o], ShippedRow(order[o]))
      BY <2>1, OrderRowFacts, ServicesTurnOrders DEF OrderKeeps
    <2>3. QED
      BY <1>1, <2>1, <2>2
  <1>7. QED
    BY <1>2, <1>3, <1>4, <1>5, <1>6 DEF OrderStep

LEMMA StepTurnsOrders ==
  ASSUME IInv, [Next]_vars
  PROVE  OrdersTurn
  <1>1. CASE UNCHANGED vars
    BY <1>1 DEF vars, OrdersTurn
  <1>2. ASSUME NEW w \in Workers, WorkerBegins(w) PROVE OrdersTurn
    BY <1>2 DEF WorkerBegins, InitiatePayment, Callback, ClaimVerification, ReconcilePayment,
                OrdersTurn
  <1>3. ASSUME NEW w \in Workers, WorkerEnds(w) PROVE OrdersTurn
    <2>1. CASE ExpireAfterwards(w) \/ \E says \in AllAnswers : FinishVerification(w, says)
      BY <2>1, VerificationTurnsOrder, OrderStepTurnsOrder
    <2>2. CASE WorkerLost(w) \/ Reverify(w)
               \/ \E says \in AllAnswers : FinishCreate(w, says) \/ FinishLookup(w, says)
      BY <2>2 DEF WorkerLost, Reverify, ClaimVerification, FinishCreate, FinishLookup, OrdersTurn
    <2>3. QED
      BY <1>3, <2>1, <2>2 DEF WorkerEnds
  <1>4. ASSUME NEW p \in Payments, PaymentStep(p) PROVE OrdersTurn
    BY <1>4 DEF PaymentStep, Rearm, LeaseLapses, HorizonPasses, ProviderDecides, CustomerPays,
                OrdersTurn
  <1>5. QED
    BY <1>1, <1>2, <1>3, <1>4, OrderStepTurnsOrder DEF Next

\* An order promised a customer and the warehouse what OrderLifecycle says, and
\* payments keep that promise whatever workers, crashes, late answers and late
\* money do: it is bought or cancelled once, its goods with it, and money that
\* comes after a cancellation is noticed and revives nothing.
THEOREM PaymentsKeepOrderPromise == Spec => KeepsOrderPromise
  <1> DEFINE ph == [o \in OrderIds |-> Phase(o)]
             go == [o \in OrderIds |-> Goods(o)]
             no == [o \in OrderIds |-> Noticed(o)]
  <1>1. Init => Lifecycle!Init
    BY DEF Init, Lifecycle!Init, Phase, Goods, Noticed
  <1>2. ASSUME IInv, [Next]_vars PROVE [Lifecycle!Next]_(Lifecycle!vars)
    <2>1. CASE order' = order
      BY <2>1 DEF Phase, Goods, Noticed, Lifecycle!vars
    <2>2. CASE OneOrderTurns
      <3> PICK o \in OrderIds, row \in OrderRow :
            /\ order' = [order EXCEPT ![o] = row]
            /\ \/ order[o] = NoOrder /\ row.status = "waiting" /\ row.rsv = "active" /\ ~row.late
               \/ order[o] # NoOrder /\ OrderTurns(order[o], row)
        BY <2>2 DEF OneOrderTurns
      <3>1. /\ order'[o] = row /\ row # NoOrder
            /\ \A other \in OrderIds \ {o} : order'[other] = order[other]
        BY <1>2, NoRowsAssumption DEF IInv, TypeOK
      <3>2. \A other \in OrderIds \ {o} :
              Phase(other)' = Phase(other) /\ Goods(other)' = Goods(other)
                /\ Noticed(other)' = Noticed(other)
        BY <3>1 DEF Phase, Goods, Noticed
      <3>3. /\ ph' = [ph EXCEPT ![o] = Phase(o)']
            /\ go' = [go EXCEPT ![o] = Goods(o)']
            /\ no' = [no EXCEPT ![o] = Noticed(o)']
        BY <3>2
      <3>4. /\ Phase(o)' = Phase(o) => ph' = ph
            /\ Goods(o)' = Goods(o) => go' = go
            /\ Noticed(o)' = Noticed(o) => no' = no
        BY <3>2
      <3>5. /\ Phase(o)' = row.status
            /\ Noticed(o)' = row.late /\ row.late \in BOOLEAN
            /\ row.rsv = "active" => Goods(o)' = "reserved"
            /\ row.rsv = "consumed" => Goods(o)' = "sold"
            /\ row.rsv = "released" => Goods(o)' = "shelf"
        BY <3>1 DEF Phase, Goods, Noticed, OrderRow
      <3>6. CASE order[o] = NoOrder
        <4>1. /\ Phase(o) = "absent" /\ Phase(o)' = "waiting" /\ Goods(o)' = "reserved"
              /\ Noticed(o) = FALSE /\ Noticed(o)' = FALSE
          BY <3>5, <3>6 DEF Phase, Noticed
        <4>2. Lifecycle!Place(o)
          BY <3>3, <3>4, <4>1 DEF Lifecycle!Place
        <4>3. QED
          BY <4>2 DEF Lifecycle!Next
      <3>7. CASE order[o] # NoOrder
        <4>1. /\ Phase(o) = order[o].status
              /\ Noticed(o) = order[o].late /\ order[o].late \in BOOLEAN
          BY <1>2, <3>7 DEF Phase, Noticed, IInv, OrderSound, OrderRow
        <4>2. row.rsv = order[o].rsv => Goods(o)' = Goods(o)
          BY <3>1, <3>7 DEF Goods
        <4>3. CASE row.status = order[o].status /\ row.rsv = order[o].rsv
                     /\ row.late = order[o].late
          <5>1. Phase(o)' = Phase(o) /\ Goods(o)' = Goods(o) /\ Noticed(o)' = Noticed(o)
            BY <3>5, <4>1, <4>2, <4>3
          <5>2. QED
            BY <3>4, <5>1 DEF Lifecycle!vars
        <4>4. CASE /\ Waiting(order[o]) /\ row.status = "processing" /\ row.rsv = "consumed"
                   /\ row.late = order[o].late
          <5>1. /\ Phase(o) = "waiting" /\ Phase(o)' = "processing" /\ Goods(o)' = "sold"
                /\ Noticed(o)' = Noticed(o)
            BY <3>5, <4>1, <4>4 DEF Waiting
          <5>2. Lifecycle!Pay(o)
            BY <3>3, <3>4, <5>1 DEF Lifecycle!Pay
          <5>3. QED
            BY <5>2 DEF Lifecycle!Next
        <4>5. CASE Waiting(order[o]) /\ row.status = "cancelled" /\ row.rsv = "released"
          <5>1. /\ Phase(o) = "waiting" /\ Phase(o)' = "cancelled" /\ Goods(o)' = "shelf"
                /\ Noticed(o)' \in BOOLEAN
            BY <3>5, <4>1, <4>5 DEF Waiting
          <5>2. Lifecycle!Cancel(o)
            BY <3>3, <5>1 DEF Lifecycle!Cancel
          <5>3. QED
            BY <5>2 DEF Lifecycle!Next
        <4>6. CASE /\ order[o].status = "cancelled" /\ row.status = "cancelled"
                   /\ row.rsv = order[o].rsv /\ row.late
          <5>1. /\ Phase(o) = "cancelled" /\ Phase(o)' = Phase(o) /\ Goods(o)' = Goods(o)
                /\ Noticed(o)' = TRUE
            BY <3>5, <4>1, <4>2, <4>6
          <5>2. Lifecycle!Notice(o)
            BY <3>3, <3>4, <5>1 DEF Lifecycle!Notice
          <5>3. QED
            BY <5>2 DEF Lifecycle!Next
        <4>7. CASE /\ order[o].status = "processing" /\ row.status = "shipped"
                   /\ row.rsv = order[o].rsv /\ row.late = order[o].late
          <5>1. /\ Phase(o) = "processing" /\ Phase(o)' = "shipped" /\ Goods(o)' = Goods(o)
                /\ Noticed(o)' = Noticed(o)
            BY <3>5, <4>1, <4>2, <4>7
          <5>2. Lifecycle!Ship(o)
            BY <3>3, <3>4, <5>1 DEF Lifecycle!Ship
          <5>3. QED
            BY <5>2 DEF Lifecycle!Next
        <4>8. QED
          BY <3>7, <4>3, <4>4, <4>5, <4>6, <4>7 DEF OrderTurns
      <3>8. QED
        BY <3>6, <3>7
    <2>3. QED
      BY <1>2, <2>1, <2>2, StepTurnsOrders DEF OrdersTurn
  <1>3. QED
    BY <1>1, <1>2, InductiveInvariant, PTL DEF Spec, KeepsOrderPromise, Lifecycle!Spec
=============================================================================
