--------------------------- MODULE SmsOutboxProofs ---------------------------
(***************************************************************************)
(* What holds of SmsOutbox for any numbers of deliveries and workers and   *)
(* any limits: the lifecycle of a row, review that waits for a human, and  *)
(* the number of messages one delivery may cause. The last one counts the  *)
(* calls that may still be accepted together with the accepted ones.       *)
(***************************************************************************)
EXTENDS SmsOutbox, FiniteSets, TLAPS, FiniteSetTheorems

\* The constraints of the table, and what MaxAttempts has to do with types.
RowSound(row) ==
  /\ row \in DeliveryRow
  /\ row.status \in {"pending", "sending"} <=> row.retry # "none"
  /\ row.status = "sending" <=> row.token # NoWorker
  /\ row.status \in {"sent", "failed"} \/ row.phone

Lifecycle ==
  /\ TypeOK
  /\ \A d \in Deliveries : Created(d) =>
       RowSound(delivery[d]) /\ (delivery[d].status = "sent" => texts[d] > 0)
  /\ \A d \in Deliveries : queued[d] => Created(d)
  /\ \A w \in Workers : worker[w] # Idle => Created(worker[w].on)

InFlight(d) == {w \in Workers : worker[w] = [at |-> "send", on |-> d]}

\* What a human allowed is not spent: before a row is claimed there is still one
\* message to go.
Allowed(d) == rearmed[d] + (IF delivery[d].status = "pending" THEN 0 ELSE 1)

BudgetOf(d) ==
  /\ IsFiniteSet(InFlight(d))
  /\ ~Created(d) => texts[d] = 0
  /\ Created(d) /\ ~delivery[d].idempotent =>
       texts[d] + Cardinality(InFlight(d)) <= Allowed(d)

Budget == \A d \in Deliveries : BudgetOf(d)

IInv == Lifecycle /\ Budget

-----------------------------------------------------------------------------
(* What the services write into a row                                      *)

\* A due row that may be sent is claimed soundly, whoever held it before.
LEMMA ClaimSound ==
  ASSUME NEW row, NEW w \in Workers, RowSound(row), Due(row)
  PROVE  RowSound(Claimed(row, w)) /\ Claimed(row, w).status = "sending"
         /\ Claimed(row, w).idempotent = row.idempotent
  <1>1. (IF row.attempts > MaxAttempts THEN row.attempts ELSE row.attempts + 1)
          \in 0..MaxAttempts + 1
    BY LimitsAssumption DEF RowSound, DeliveryRow
  <1>2. QED
    BY <1>1, NoDeliveryAssumption DEF RowSound, DeliveryRow, Due, Claimed, DeliveryStatuses

LEMMA ReviewSound ==
  ASSUME NEW row, RowSound(row), row.status \in {"pending", "sending"}
  PROVE  RowSound(InReview(row)) /\ InReview(row).status = "manual_review"
         /\ InReview(row).idempotent = row.idempotent
  BY NoDeliveryAssumption DEF RowSound, DeliveryRow, InReview, Left, DeliveryStatuses

\* A call's end tells whether the message was accepted.
LEMMA EndsTyped ==
  ASSUME NEW end \in Ends
  PROVE  end.accepted \in BOOLEAN
  <1>1. CASE end \in [says : {"ambiguous", "broken"}, accepted : BOOLEAN]
    BY <1>1
  <1>2. ASSUME NEW says, end = [says |-> says, accepted |-> TRUE] PROVE end.accepted \in BOOLEAN
    <2>1. end.accepted = TRUE
      BY <1>2
    <2>2. QED
      BY <2>1
  <1>3. ASSUME NEW says, end = [says |-> says, accepted |-> FALSE] PROVE end.accepted \in BOOLEAN
    <2>1. end.accepted = FALSE
      BY <1>3
    <2>2. QED
      BY <2>1
  <1>4. QED
    BY <1>1, <1>2, <1>3 DEF Ends

\* Whatever a call ended with, its row is sound. It is SENT only if the message
\* was accepted, and waits again only if it was not, or the provider knows the
\* request again.
LEMMA AnswerSound ==
  ASSUME NEW row, NEW end \in Ends, RowSound(row), row.status = "sending"
  PROVE  LET after == AfterCall(row, end.says)
         IN  /\ RowSound(after)
             /\ after.idempotent = row.idempotent
             /\ after.status = "sent" => end.accepted
             /\ after.status = "pending" => row.idempotent \/ ~end.accepted
  <1> USE NoDeliveryAssumption DEF RowSound, DeliveryRow, Left, DeliveryStatuses
  <1>1. RowSound(Left(row, "sent", "none")) /\ Left(row, "sent", "none").status = "sent"
        /\ Left(row, "sent", "none").idempotent = row.idempotent
    OBVIOUS
  <1>2. RowSound(Left(row, "failed", "none")) /\ Left(row, "failed", "none").status = "failed"
        /\ Left(row, "failed", "none").idempotent = row.idempotent
    OBVIOUS
  <1>3. RowSound(Left(row, "pending", "later")) /\ Left(row, "pending", "later").status = "pending"
        /\ Left(row, "pending", "later").idempotent = row.idempotent
    OBVIOUS
  <1>4. RowSound(InReview(row)) /\ InReview(row).status = "manual_review"
        /\ InReview(row).idempotent = row.idempotent
    BY ReviewSound
  <1>5. /\ end.says = "accepted" => end.accepted
        /\ end.says = "transport" => ~end.accepted
    BY DEF Ends
  <1> HIDE DEF RowSound, DeliveryRow, Left, DeliveryStatuses
  <1>6. QED
    BY <1>1, <1>2, <1>3, <1>4, <1>5 DEF AfterCall, Retried

-----------------------------------------------------------------------------
(* Lifecycle                                                               *)

\* A step that writes one row, soundly.
LEMMA OneRowWritten ==
  ASSUME Lifecycle, NEW d \in Deliveries, NEW row, RowSound(row),
         delivery' = [delivery EXCEPT ![d] = row],
         queued' \in [Deliveries -> BOOLEAN],
         \A s \in Deliveries : s # d => queued'[s] = queued[s],
         worker' \in [Workers -> [at : {"send", "unserved"}, on : Deliveries] \cup {Idle}],
         \A w \in Workers : worker'[w] \in {worker[w], Idle} \/ worker'[w].on = d,
         texts' \in [Deliveries -> Nat],
         \A s \in Deliveries : s # d => texts'[s] = texts[s],
         row.status = "sent" => texts'[d] > 0,
         rearmed' \in [Deliveries -> 0..MaxRearms]
  PROVE  Lifecycle'
  <1>1. /\ row \in DeliveryRow /\ row # NoDelivery
        /\ delivery \in [Deliveries -> DeliveryRow \cup {NoDelivery}]
    BY NoDeliveryAssumption DEF RowSound, Lifecycle, TypeOK
  <1>2. /\ delivery' \in [Deliveries -> DeliveryRow \cup {NoDelivery}]
        /\ delivery'[d] = row /\ \A s \in Deliveries : s # d => delivery'[s] = delivery[s]
    BY <1>1
  <1>3. TypeOK'
    BY <1>2 DEF TypeOK
  <1>4. \A w \in Workers : worker'[w] # Idle => Created(worker[w].on)'
    <2> SUFFICES ASSUME NEW w \in Workers, worker'[w] # Idle
                 PROVE  Created(worker[w].on)'
      OBVIOUS
    <2>1. worker[w] # Idle => worker[w].on \in Deliveries /\ Created(worker[w].on)
      BY DEF Lifecycle, TypeOK
    <2>2. QED
      BY <1>1, <1>2, <2>1 DEF Created
  <1>5. QED
    BY <1>1, <1>2, <1>3, <1>4 DEF Lifecycle, Created

\* Accepted messages are counted, never forgotten.
LEMMA CountGrows ==
  ASSUME TypeOK, NEW d \in Deliveries, NEW accepted \in BOOLEAN, Count(d, accepted)
  PROVE  /\ texts' \in [Deliveries -> Nat]
         /\ \A s \in Deliveries : s # d => texts'[s] = texts[s]
         /\ accepted \/ texts[d] > 0 => texts'[d] > 0
         /\ ~delivery[d].idempotent => texts'[d] = texts[d] + (IF accepted THEN 1 ELSE 0)
  BY DEF TypeOK, Count

LEMMA LifecycleStep ==
  ASSUME Lifecycle, [Next]_vars
  PROVE  Lifecycle'
  <1> USE NoDeliveryAssumption
  <1>1. /\ delivery \in [Deliveries -> DeliveryRow \cup {NoDelivery}]
        /\ queued \in [Deliveries -> BOOLEAN]
        /\ worker \in [Workers -> [at : {"send", "unserved"}, on : Deliveries] \cup {Idle}]
        /\ texts \in [Deliveries -> Nat]
        /\ rearmed \in [Deliveries -> 0..MaxRearms]
        /\ TypeOK
        /\ \A d \in Deliveries : Created(d) =>
             RowSound(delivery[d]) /\ (delivery[d].status = "sent" => texts[d] > 0)
    BY DEF Lifecycle, TypeOK
  <1>2. CASE UNCHANGED vars
    BY <1>2 DEF vars, Lifecycle, TypeOK, Created
  <1>3. ASSUME NEW d \in Deliveries, CreateDelivery(d) PROVE Lifecycle'
    <2>1. PICK valid \in BOOLEAN, idempotent \in BOOLEAN :
            delivery' = [delivery EXCEPT ![d] =
              [status |-> IF valid THEN "pending" ELSE "failed", token |-> NoWorker,
               retry |-> IF valid THEN "due" ELSE "none", attempts |-> 0,
               idempotent |-> idempotent, phone |-> valid]]
      BY <1>3 DEF CreateDelivery
    <2> DEFINE row == [status |-> IF valid THEN "pending" ELSE "failed", token |-> NoWorker,
                       retry |-> IF valid THEN "due" ELSE "none", attempts |-> 0,
                       idempotent |-> idempotent, phone |-> valid]
    <2>2. RowSound(row) /\ row.status # "sent"
      BY LimitsAssumption DEF RowSound, DeliveryRow, DeliveryStatuses
    <2> HIDE DEF row
    <2>3. delivery' = [delivery EXCEPT ![d] = row]
      BY <2>1 DEF row
    <2>4. /\ queued' \in [Deliveries -> BOOLEAN]
          /\ \A s \in Deliveries : s # d => queued'[s] = queued[s]
          /\ worker' = worker /\ texts' = texts /\ rearmed' = rearmed
      BY <1>1, <1>3 DEF CreateDelivery
    <2>5. QED
      BY <1>1, <2>2, <2>3, <2>4, OneRowWritten
  <1>4. ASSUME NEW d \in Deliveries, Sweep(d) PROVE Lifecycle'
    BY <1>1, <1>4 DEF Sweep, Lifecycle, TypeOK, Created
  <1>5. ASSUME NEW d \in Deliveries, Rearm(d) PROVE Lifecycle'
    <2> DEFINE row == [delivery[d] EXCEPT !.status = "pending", !.retry = "due"]
    <2>0. RowSound(delivery[d]) /\ delivery[d].status = "manual_review"
      BY <1>1, <1>5 DEF Rearm
    <2>1. RowSound(row) /\ row.status # "sent"
      BY <2>0 DEF RowSound, DeliveryRow, DeliveryStatuses
    <2> HIDE DEF row
    <2>2. delivery' = [delivery EXCEPT ![d] = row]
      BY <1>5 DEF Rearm, row
    <2>3. /\ queued' \in [Deliveries -> BOOLEAN]
          /\ \A s \in Deliveries : s # d => queued'[s] = queued[s]
          /\ worker' = worker /\ texts' = texts
      BY <1>1, <1>5 DEF Rearm
    <2>4. rearmed[d] + 1 \in 0..MaxRearms
      BY <1>1, <1>5, LimitsAssumption DEF Rearm
    <2>5. rearmed' \in [Deliveries -> 0..MaxRearms]
      BY <1>1, <1>5, <2>4 DEF Rearm
    <2>6. QED
      BY <1>1, <2>1, <2>2, <2>3, <2>5, OneRowWritten
  <1>6. ASSUME NEW d \in Deliveries, Scrub(d) PROVE Lifecycle'
    <2> DEFINE row == [delivery[d] EXCEPT !.phone = FALSE]
    <2>1. RowSound(row) /\ (row.status = "sent" => texts[d] > 0)
      BY <1>1, <1>6 DEF Scrub, Scrubbable, RowSound, DeliveryRow
    <2> HIDE DEF row
    <2>2. /\ delivery' = [delivery EXCEPT ![d] = row]
          /\ UNCHANGED <<queued, worker, texts, rearmed>>
      BY <1>6 DEF Scrub, row
    <2>3. QED
      BY <1>1, <2>1, <2>2, OneRowWritten
  <1>7. ASSUME NEW d \in Deliveries, TimePasses(d) PROVE Lifecycle'
    <2> DEFINE row == [delivery[d] EXCEPT !.retry = "due"]
    <2>1. RowSound(row) /\ (row.status = "sent" => texts[d] > 0)
      BY <1>1, <1>7 DEF TimePasses, RowSound, DeliveryRow
    <2> HIDE DEF row
    <2>2. /\ delivery' = [delivery EXCEPT ![d] = row]
          /\ UNCHANGED <<queued, worker, texts, rearmed>>
      BY <1>7 DEF TimePasses, row
    <2>3. QED
      BY <1>1, <2>1, <2>2, OneRowWritten
  <1>8. ASSUME NEW w \in Workers, NEW d \in Deliveries, ExecuteDelivery(w, d)
        PROVE  Lifecycle'
    <2>1. /\ Created(d) /\ RowSound(delivery[d])
          /\ queued' \in [Deliveries -> BOOLEAN]
          /\ \A s \in Deliveries : s # d => queued'[s] = queued[s]
          /\ UNCHANGED <<texts, rearmed>>
      BY <1>1, <1>8 DEF ExecuteDelivery, Lifecycle
    <2>2. CASE UNCHANGED <<delivery, worker>>
      BY <1>1, <2>1, <2>2 DEF Lifecycle, TypeOK, Created
    <2>3. CASE /\ Due(delivery[d])
               /\ delivery' = [delivery EXCEPT ![d] = InReview(@)]
               /\ UNCHANGED worker
      <3>1. RowSound(InReview(delivery[d])) /\ InReview(delivery[d]).status # "sent"
        BY <2>1, <2>3, ReviewSound DEF Due
      <3>2. QED
        BY <1>1, <2>1, <2>3, <3>1, OneRowWritten
    <2>4. CASE /\ Due(delivery[d])
               /\ delivery' = [delivery EXCEPT ![d] = Claimed(@, w)]
               /\ \E at \in {"send", "unserved"} :
                    worker' = [worker EXCEPT ![w] = [at |-> at, on |-> d]]
      <3>1. RowSound(Claimed(delivery[d], w)) /\ Claimed(delivery[d], w).status # "sent"
        BY <2>1, <2>4, ClaimSound
      <3>2. /\ worker' \in [Workers -> [at : {"send", "unserved"}, on : Deliveries] \cup {Idle}]
            /\ \A v \in Workers : worker'[v] \in {worker[v], Idle} \/ worker'[v].on = d
        BY <1>1, <2>4
      <3>3. QED
        BY <1>1, <2>1, <2>4, <3>1, <3>2, OneRowWritten
    <2>5. QED
      BY <1>8, <2>2, <2>3, <2>4 DEF ExecuteDelivery
  <1>9. ASSUME NEW w \in Workers, FinishDelivery(w) PROVE Lifecycle'
    <2> DEFINE d == worker[w].on
    <2>1. /\ d \in Deliveries /\ Created(d) /\ RowSound(delivery[d])
          /\ worker' = [worker EXCEPT ![w] = Idle] /\ rearmed' = rearmed
      <3>1. worker[w] # Idle
        BY <1>9 DEF FinishDelivery, Idle
      <3>2. QED
        BY <1>1, <1>9, <3>1 DEF FinishDelivery, Lifecycle
    <2>2. PICK end \in Ends :
            /\ delivery' = IF delivery[d].token = w
                           THEN [delivery EXCEPT ![d] = AfterCall(@, end.says)] ELSE delivery
            /\ Count(d, end.accepted)
      BY <1>9 DEF FinishDelivery
    <2>3. end.accepted \in BOOLEAN
      BY EndsTyped
    <2> HIDE DEF d
    <2> DEFINE row == IF delivery[d].token = w THEN AfterCall(delivery[d], end.says) ELSE delivery[d]
    <2>4. delivery[d].token = w => delivery[d].status = "sending"
      BY <2>1 DEF RowSound
    <2>5. RowSound(row) /\ (row.status = "sent" => texts'[d] > 0)
      BY <1>1, <2>1, <2>2, <2>3, <2>4, AnswerSound, CountGrows
    <2>6. delivery' = [delivery EXCEPT ![d] = row]
      BY <1>1, <2>2
    <2>7. /\ queued' \in [Deliveries -> BOOLEAN]
          /\ \A s \in Deliveries : s # d => queued'[s] = queued[s]
      BY <1>1, <1>9 DEF FinishDelivery, d
    <2>8. /\ texts' \in [Deliveries -> Nat]
          /\ \A s \in Deliveries : s # d => texts'[s] = texts[s]
      BY <1>1, <2>1, <2>2, <2>3, CountGrows
    <2>9. /\ worker' \in [Workers -> [at : {"send", "unserved"}, on : Deliveries] \cup {Idle}]
          /\ \A v \in Workers : worker'[v] \in {worker[v], Idle} \/ worker'[v].on = d
          /\ rearmed' \in [Deliveries -> 0..MaxRearms]
      BY <1>1, <2>1
    <2> HIDE DEF row
    <2>10. QED
      BY <2>1, <2>5, <2>6, <2>7, <2>8, <2>9, OneRowWritten
  <1>10. ASSUME NEW w \in Workers, FinishUnserved(w) PROVE Lifecycle'
    <2> DEFINE d == worker[w].on
               row == IF delivery[d].token = w THEN InReview(delivery[d]) ELSE delivery[d]
    <2>1. /\ d \in Deliveries /\ Created(d) /\ RowSound(delivery[d])
          /\ worker' = [worker EXCEPT ![w] = Idle]
          /\ UNCHANGED <<queued, texts, rearmed>>
      BY <1>1, <1>10 DEF FinishUnserved, Idle, Lifecycle
    <2>2. delivery' = [delivery EXCEPT ![d] = row]
      BY <1>10 DEF FinishUnserved
    <2>3. delivery[d].token = w => delivery[d].status = "sending"
      BY <2>1 DEF RowSound
    <2>4. RowSound(row) /\ (row.status = "sent" => texts[d] > 0)
      BY <1>1, <2>1, <2>3, ReviewSound
    <2> HIDE DEF row, d
    <2>5. QED
      BY <1>1, <2>1, <2>2, <2>4, OneRowWritten
  <1>11. ASSUME NEW w \in Workers, WorkerLost(w) PROVE Lifecycle'
    <2> DEFINE d == worker[w].on
    <2>1. /\ d \in Deliveries /\ Created(d) /\ RowSound(delivery[d])
          /\ worker' = [worker EXCEPT ![w] = Idle]
          /\ \E again \in BOOLEAN : queued' = [queued EXCEPT ![d] = @ \/ again]
          /\ UNCHANGED <<delivery, rearmed>>
      BY <1>1, <1>11 DEF WorkerLost, Lifecycle
    <2>2. PICK b \in BOOLEAN : Count(d, b)
      BY <1>11 DEF WorkerLost
    <2> HIDE DEF d
    <2>3. delivery' = [delivery EXCEPT ![d] = delivery[d]]
      BY <1>1, <2>1
    <2>4. /\ queued' \in [Deliveries -> BOOLEAN]
          /\ \A s \in Deliveries : s # d => queued'[s] = queued[s]
          /\ rearmed' \in [Deliveries -> 0..MaxRearms]
      BY <1>1, <2>1
    <2>5. /\ texts' \in [Deliveries -> Nat]
          /\ \A s \in Deliveries : s # d => texts'[s] = texts[s]
          /\ delivery[d].status = "sent" => texts'[d] > 0
      BY <1>1, <2>1, <2>2, CountGrows
    <2>6. /\ worker' \in [Workers -> [at : {"send", "unserved"}, on : Deliveries] \cup {Idle}]
          /\ \A v \in Workers : worker'[v] \in {worker[v], Idle}
      BY <1>1, <2>1
    <2>7. QED
      BY <2>1, <2>3, <2>4, <2>5, <2>6, OneRowWritten
  <1>12. QED
    BY <1>2, <1>3, <1>4, <1>5, <1>6, <1>7, <1>8, <1>9, <1>10, <1>11 DEF Next

-----------------------------------------------------------------------------
(* Budget                                                                  *)

\* Deliveries have budgets of their own.
LEMMA OneBudgetTouched ==
  ASSUME Budget, NEW d \in Deliveries, BudgetOf(d)',
         \A s \in Deliveries : s # d =>
           /\ delivery'[s] = delivery[s] /\ texts'[s] = texts[s] /\ rearmed'[s] = rearmed[s]
           /\ InFlight(s)' = InFlight(s)
  PROVE  Budget'
  <1> SUFFICES ASSUME NEW s \in Deliveries, s # d PROVE BudgetOf(s)'
    BY DEF Budget
  <1>1. BudgetOf(s)
    BY DEF Budget
  <1>2. (Created(s))' <=> Created(s)
    BY DEF Created
  <1>3. Allowed(s)' = Allowed(s)
    BY DEF Allowed
  <1>4. QED
    BY <1>1, <1>2, <1>3 DEF BudgetOf

\* A call that ends leaves its delivery's set, and no other.
LEMMA CallEnds ==
  ASSUME TypeOK, NEW w \in Workers, worker' = [worker EXCEPT ![w] = Idle],
         NEW d \in Deliveries, IsFiniteSet(InFlight(d)), worker[w].on = d
  PROVE  /\ \A s \in Deliveries : s # d => InFlight(s)' = InFlight(s)
         /\ IsFiniteSet(InFlight(d)')
         /\ Cardinality(InFlight(d)') \in Nat /\ Cardinality(InFlight(d)) \in Nat
         /\ Cardinality(InFlight(d)') <= Cardinality(InFlight(d))
         /\ worker[w].at = "send" => Cardinality(InFlight(d)') = Cardinality(InFlight(d)) - 1
  <1>1. worker \in [Workers -> [at : {"send", "unserved"}, on : Deliveries] \cup {Idle}]
    BY DEF TypeOK
  <1>2. \A s \in Deliveries : Idle # [at |-> "send", on |-> s]
    BY DEF Idle
  <1>3. InFlight(d)' = InFlight(d) \ {w}
    BY <1>1, <1>2 DEF InFlight
  <1>4. \A s \in Deliveries : s # d => InFlight(s)' = InFlight(s)
    BY <1>1, <1>2 DEF InFlight
  <1>5. worker[w].at = "send" => w \in InFlight(d)
    BY <1>1, NoDeliveryAssumption DEF InFlight, Idle
  <1>6. /\ IsFiniteSet(InFlight(d) \ {w})
        /\ Cardinality(InFlight(d) \ {w}) =
             IF w \in InFlight(d) THEN Cardinality(InFlight(d)) - 1 ELSE Cardinality(InFlight(d))
    BY FS_RemoveElement
  <1>7. Cardinality(InFlight(d) \ {w}) \in Nat /\ Cardinality(InFlight(d)) \in Nat
    BY <1>6, FS_CardinalityType
  <1>8. QED
    BY <1>3, <1>4, <1>5, <1>6, <1>7

\* A call that begins joins its delivery's set, and no other.
LEMMA CallStarts ==
  ASSUME TypeOK, NEW w \in Workers, NEW d \in Deliveries, worker[w] = Idle,
         NEW at, worker' = [worker EXCEPT ![w] = [at |-> at, on |-> d]],
         IsFiniteSet(InFlight(d))
  PROVE  /\ \A s \in Deliveries : s # d => InFlight(s)' = InFlight(s)
         /\ IsFiniteSet(InFlight(d)')
         /\ Cardinality(InFlight(d)') \in Nat /\ Cardinality(InFlight(d)) \in Nat
         /\ Cardinality(InFlight(d)') <= Cardinality(InFlight(d)) + 1
  <1>1. worker \in [Workers -> [at : {"send", "unserved"}, on : Deliveries] \cup {Idle}]
    BY DEF TypeOK
  <1>2. \A s \in Deliveries : Idle # [at |-> "send", on |-> s]
    BY DEF Idle
  <1>3. InFlight(d)' = InFlight(d) \cup {w} \/ InFlight(d)' = InFlight(d)
    <2>1. CASE at = "send"
      BY <1>1, <2>1 DEF InFlight
    <2>2. CASE at # "send"
      BY <1>1, <1>2, <2>2 DEF InFlight
    <2>3. QED
      BY <2>1, <2>2
  <1>4. \A s \in Deliveries : s # d => InFlight(s)' = InFlight(s)
    BY <1>1, <1>2 DEF InFlight
  <1>5. /\ IsFiniteSet(InFlight(d) \cup {w})
        /\ Cardinality(InFlight(d) \cup {w}) =
             IF w \in InFlight(d) THEN Cardinality(InFlight(d)) ELSE Cardinality(InFlight(d)) + 1
    BY FS_AddElement
  <1>6. Cardinality(InFlight(d) \cup {w}) \in Nat /\ Cardinality(InFlight(d)) \in Nat
    BY <1>5, FS_CardinalityType
  <1>7. QED
    BY <1>3, <1>4, <1>5, <1>6

LEMMA BudgetStep ==
  ASSUME Lifecycle, Budget, [Next]_vars
  PROVE  Budget'
  <1> USE NoDeliveryAssumption
  <1>1. /\ TypeOK
        /\ delivery \in [Deliveries -> DeliveryRow \cup {NoDelivery}]
        /\ worker \in [Workers -> [at : {"send", "unserved"}, on : Deliveries] \cup {Idle}]
        /\ texts \in [Deliveries -> Nat]
        /\ rearmed \in [Deliveries -> Nat]
        /\ \A d \in Deliveries : Created(d) => RowSound(delivery[d])
    BY LimitsAssumption DEF Lifecycle, TypeOK
  <1>2. \A d \in Deliveries : BudgetOf(d) /\ IsFiniteSet(InFlight(d)) /\ Cardinality(InFlight(d)) \in Nat
    BY FS_CardinalityType DEF Budget, BudgetOf
  <1>3. CASE UNCHANGED vars
    BY <1>2, <1>3 DEF vars, Budget, BudgetOf, InFlight, Created, Allowed
  <1>4. ASSUME NEW d \in Deliveries, CreateDelivery(d) PROVE Budget'
    <2>1. InFlight(d) = {} /\ texts[d] = 0
      <3>1. ~Created(d)
        BY <1>4 DEF CreateDelivery
      <3>2. \A w \in Workers : worker[w] # [at |-> "send", on |-> d]
        BY <3>1 DEF Lifecycle, Idle
      <3>3. QED
        BY <1>2, <3>1, <3>2 DEF InFlight, BudgetOf
    <2>2. /\ \A s \in Deliveries : InFlight(s)' = InFlight(s)
          /\ texts' = texts /\ rearmed' = rearmed
          /\ \A s \in Deliveries : s # d => delivery'[s] = delivery[s]
      BY <1>1, <1>4 DEF CreateDelivery, InFlight
    <2>3. Cardinality(InFlight(d)') = 0 /\ IsFiniteSet(InFlight(d)')
      BY <2>1, <2>2, FS_EmptySet
    <2>4. Allowed(d)' \in Nat
      BY <1>1, <2>2 DEF Allowed
    <2>5. BudgetOf(d)'
      BY <2>1, <2>2, <2>3, <2>4 DEF BudgetOf
    <2>6. QED
      BY <2>2, <2>5, OneBudgetTouched
  <1>5. ASSUME NEW d \in Deliveries, Sweep(d) PROVE Budget'
    BY <1>2, <1>5 DEF Sweep, Budget, BudgetOf, InFlight, Created, Allowed
  <1>6. ASSUME NEW d \in Deliveries, Rearm(d) \/ Scrub(d) \/ TimePasses(d) PROVE Budget'
    <2>1. /\ Created(d) /\ RowSound(delivery[d])
          /\ worker' = worker /\ texts' = texts
      BY <1>1, <1>6 DEF Rearm, Scrub, TimePasses
    <2>2. \A s \in Deliveries : InFlight(s)' = InFlight(s)
      BY <2>1 DEF InFlight
    <2>3. /\ \A s \in Deliveries : s # d => delivery'[s] = delivery[s] /\ rearmed'[s] = rearmed[s]
          /\ delivery'[d].idempotent = delivery[d].idempotent
          /\ delivery'[d] \in DeliveryRow
          /\ \/ delivery'[d].status = delivery[d].status /\ rearmed'[d] = rearmed[d]
             \/ delivery[d].status = "manual_review" /\ rearmed'[d] = rearmed[d] + 1
      <3>1. delivery[d] \in DeliveryRow
        BY <2>1 DEF RowSound
      <3>2. CASE Rearm(d)
        BY <1>1, <3>1, <3>2 DEF Rearm, DeliveryRow, DeliveryStatuses
      <3>3. CASE Scrub(d)
        BY <1>1, <3>1, <3>3 DEF Scrub, DeliveryRow
      <3>4. CASE TimePasses(d)
        BY <1>1, <3>1, <3>4 DEF TimePasses, DeliveryRow
      <3>5. QED
        BY <1>6, <3>2, <3>3, <3>4
    <2>4. Allowed(d)' >= Allowed(d) /\ Allowed(d) \in Nat /\ Allowed(d)' \in Nat
      BY <1>1, <2>3 DEF Allowed
    <2>5. BudgetOf(d)'
      BY <1>1, <1>2, <2>1, <2>2, <2>3, <2>4 DEF BudgetOf, Created
    <2>6. QED
      BY <2>1, <2>2, <2>3, <2>5, OneBudgetTouched
  <1>7. ASSUME NEW w \in Workers, NEW d \in Deliveries, ExecuteDelivery(w, d)
        PROVE  Budget'
    <2>1. /\ Created(d) /\ worker[w] = Idle
          /\ texts' = texts /\ rearmed' = rearmed
      BY <1>7 DEF ExecuteDelivery, Lifecycle
    <2>2. CASE UNCHANGED <<delivery, worker>>
      BY <1>2, <2>1, <2>2 DEF Budget, BudgetOf, InFlight, Created, Allowed
    <2>3. CASE /\ Due(delivery[d])
               /\ delivery' = [delivery EXCEPT ![d] = InReview(@)]
               /\ UNCHANGED worker
      <3>1. \A s \in Deliveries : InFlight(s)' = InFlight(s)
        BY <2>3 DEF InFlight
      <3>2. /\ delivery'[d] = InReview(delivery[d])
            /\ \A s \in Deliveries : s # d => delivery'[s] = delivery[s]
        BY <1>1, <2>3
      <3>3. /\ delivery'[d].idempotent = delivery[d].idempotent
            /\ delivery'[d].status = "manual_review"
            /\ delivery'[d] \in DeliveryRow
        BY <1>1, <2>1, <2>3, <3>2, ReviewSound DEF Due, RowSound
      <3>4. Allowed(d)' >= Allowed(d) /\ Allowed(d) \in Nat /\ Allowed(d)' \in Nat
        BY <1>1, <2>1, <3>3 DEF Allowed
      <3>5. BudgetOf(d)'
        BY <1>1, <1>2, <2>1, <3>1, <3>3, <3>4 DEF BudgetOf, Created
      <3>6. QED
        BY <2>1, <3>1, <3>2, <3>5, OneBudgetTouched
    <2>4. ASSUME NEW found \in BOOLEAN, Due(delivery[d]), SafeToSend(delivery[d], found),
                 delivery' = [delivery EXCEPT ![d] = Claimed(@, w)],
                 NEW at, worker' = [worker EXCEPT ![w] = [at |-> at, on |-> d]]
          PROVE  Budget'
      <3>1. /\ delivery'[d] = Claimed(delivery[d], w)
            /\ \A s \in Deliveries : s # d => delivery'[s] = delivery[s]
        BY <1>1, <2>4
      <3>2. delivery'[d].idempotent = delivery[d].idempotent /\ delivery'[d].status = "sending"
        BY <1>1, <2>1, <2>4, <3>1, ClaimSound
      <3>3. ~delivery[d].idempotent => delivery[d].status = "pending"
        BY <2>4 DEF SafeToSend, Due
      <3>4. ~delivery[d].idempotent => Allowed(d)' = Allowed(d) + 1 /\ Allowed(d) \in Nat
        BY <1>1, <2>1, <3>2, <3>3 DEF Allowed
      <3>5. /\ \A s \in Deliveries : s # d => InFlight(s)' = InFlight(s)
            /\ IsFiniteSet(InFlight(d)')
            /\ Cardinality(InFlight(d)') \in Nat /\ Cardinality(InFlight(d)) \in Nat
            /\ Cardinality(InFlight(d)') <= Cardinality(InFlight(d)) + 1
        BY <1>1, <1>2, <2>1, <2>4, CallStarts
      <3>6. BudgetOf(d) /\ texts[d] \in Nat
        BY <1>1, <1>2
      <3>7. Created(d)'
        BY <1>1, <2>1, <2>4, <3>1, ClaimSound DEF Created, RowSound
      <3>8. BudgetOf(d)'
        BY <2>1, <3>2, <3>4, <3>5, <3>6, <3>7 DEF BudgetOf
      <3>9. QED
        BY <2>1, <3>1, <3>5, <3>8, OneBudgetTouched
    <2>5. QED
      BY <1>7, <2>2, <2>3, <2>4 DEF ExecuteDelivery
  <1>8. ASSUME NEW w \in Workers, FinishDelivery(w) \/ FinishUnserved(w) \/ WorkerLost(w)
        PROVE  Budget'
    <2>1. PICK d \in Deliveries :
            /\ d = worker[w].on /\ Created(d) /\ RowSound(delivery[d])
            /\ worker' = [worker EXCEPT ![w] = Idle] /\ rearmed' = rearmed
      <3>1. worker[w] # Idle
        BY <1>8 DEF FinishDelivery, FinishUnserved, WorkerLost, Idle
      <3>2. QED
        BY <1>1, <1>8, <3>1 DEF FinishDelivery, FinishUnserved, WorkerLost, Lifecycle
    <2>2. /\ \A s \in Deliveries : s # d => InFlight(s)' = InFlight(s)
          /\ IsFiniteSet(InFlight(d)')
          /\ Cardinality(InFlight(d)') \in Nat /\ Cardinality(InFlight(d)) \in Nat
          /\ Cardinality(InFlight(d)') <= Cardinality(InFlight(d))
          /\ worker[w].at = "send" => Cardinality(InFlight(d)') = Cardinality(InFlight(d)) - 1
      BY <1>1, <1>2, <2>1, CallEnds
    <2>3. delivery[d].token = w => delivery[d].status = "sending"
      BY <2>1 DEF RowSound
    <2>4. BudgetOf(d) /\ texts[d] \in Nat /\ rearmed[d] \in Nat
      BY <1>1, <1>2, <2>1
    <2>5. /\ \A s \in Deliveries : s # d => delivery'[s] = delivery[s] /\ texts'[s] = texts[s]
          /\ delivery'[d].idempotent = delivery[d].idempotent
          /\ delivery'[d] # NoDelivery
          /\ texts'[d] \in Nat
          /\ ~delivery[d].idempotent =>
               /\ \/ texts'[d] = texts[d]
                  \/ texts'[d] = texts[d] + 1 /\ worker[w].at = "send"
               /\ \/ delivery'[d].status = delivery[d].status
                  \/ /\ delivery[d].status = "sending"
                     /\ delivery'[d].status = "pending" =>
                          worker[w].at = "send" /\ texts'[d] = texts[d]
      <3>1. CASE FinishDelivery(w)
        <4>1. PICK end \in Ends :
                /\ delivery' = IF delivery[d].token = w
                               THEN [delivery EXCEPT ![d] = AfterCall(@, end.says)] ELSE delivery
                /\ Count(d, end.accepted)
          BY <2>1, <3>1 DEF FinishDelivery
        <4>2. worker[w].at = "send"
          BY <3>1 DEF FinishDelivery
        <4>3. end.accepted \in BOOLEAN
          BY EndsTyped
        <4>4. /\ texts' \in [Deliveries -> Nat]
              /\ \A s \in Deliveries : s # d => texts'[s] = texts[s]
              /\ ~delivery[d].idempotent => texts'[d] = texts[d] + (IF end.accepted THEN 1 ELSE 0)
          BY <1>1, <2>1, <4>1, <4>3, CountGrows
        <4>5. CASE delivery[d].token = w
          <5>1. /\ RowSound(AfterCall(delivery[d], end.says))
                /\ AfterCall(delivery[d], end.says).idempotent = delivery[d].idempotent
                /\ AfterCall(delivery[d], end.says).status = "pending" =>
                     delivery[d].idempotent \/ ~end.accepted
            BY <2>1, <2>3, <4>5, AnswerSound
          <5>2. /\ delivery'[d] = AfterCall(delivery[d], end.says)
                /\ \A s \in Deliveries : s # d => delivery'[s] = delivery[s]
            BY <1>1, <2>1, <4>1, <4>5
          <5>3. AfterCall(delivery[d], end.says) # NoDelivery
            BY <5>1 DEF RowSound
          <5>4. QED
            BY <2>1, <2>3, <2>4, <4>2, <4>4, <4>5, <5>1, <5>2, <5>3
        <4>6. CASE delivery[d].token # w
          <5>1. delivery' = delivery
            BY <4>1, <4>6
          <5>2. QED
            BY <2>1, <2>4, <4>2, <4>4, <5>1 DEF Created
        <4>7. QED
          BY <4>5, <4>6
      <3>2. CASE FinishUnserved(w)
        <4>1. /\ delivery' = [delivery EXCEPT ![d] = IF @.token = w THEN InReview(@) ELSE @]
              /\ texts' = texts
          BY <2>1, <3>2 DEF FinishUnserved
        <4>2. /\ delivery'[d] = IF delivery[d].token = w THEN InReview(delivery[d]) ELSE delivery[d]
              /\ \A s \in Deliveries : s # d => delivery'[s] = delivery[s]
          BY <1>1, <2>1, <4>1
        <4>3. CASE delivery[d].token = w
          <5>1. /\ RowSound(InReview(delivery[d])) /\ InReview(delivery[d]).status = "manual_review"
                /\ InReview(delivery[d]).idempotent = delivery[d].idempotent
            BY <2>1, <2>3, <4>3, ReviewSound
          <5>2. InReview(delivery[d]) # NoDelivery
            BY <5>1 DEF RowSound
          <5>3. QED
            BY <2>3, <2>4, <4>1, <4>2, <4>3, <5>1, <5>2
        <4>4. CASE delivery[d].token # w
          BY <2>1, <2>4, <4>1, <4>2, <4>4 DEF Created
        <4>5. QED
          BY <4>3, <4>4
      <3>3. CASE WorkerLost(w)
        <4>1. PICK b \in BOOLEAN : Count(d, b) /\ (b => worker[w].at = "send")
          BY <2>1, <3>3 DEF WorkerLost
        <4>2. delivery' = delivery
          BY <3>3 DEF WorkerLost
        <4>3. /\ texts' \in [Deliveries -> Nat]
              /\ \A s \in Deliveries : s # d => texts'[s] = texts[s]
              /\ ~delivery[d].idempotent => texts'[d] = texts[d] + (IF b THEN 1 ELSE 0)
          BY <1>1, <2>1, <4>1, CountGrows
        <4>4. QED
          BY <2>1, <2>4, <4>1, <4>2, <4>3 DEF Created
      <3>4. QED
        BY <1>8, <3>1, <3>2, <3>3
    <2>6. ~delivery[d].idempotent => texts'[d] + Cardinality(InFlight(d)') <= Allowed(d)'
      BY <2>1, <2>2, <2>4, <2>5 DEF BudgetOf, Allowed
    <2>7. BudgetOf(d)'
      BY <2>2, <2>5, <2>6 DEF BudgetOf, Created
    <2>8. QED
      BY <2>1, <2>2, <2>5, <2>7, OneBudgetTouched
  <1>9. QED
    BY <1>3, <1>4, <1>5, <1>6, <1>7, <1>8 DEF Next

LEMMA InductiveInvariant == Spec => []IInv
  <1>1. Init => IInv
    <2> SUFFICES ASSUME Init PROVE IInv
      OBVIOUS
    <2>1. Lifecycle
      BY LimitsAssumption, NoDeliveryAssumption DEF Init, Lifecycle, TypeOK, Created
    <2>2. \A d \in Deliveries : InFlight(d) = {}
      BY DEF Init, InFlight, Idle
    <2>3. Budget
      BY <2>2, FS_EmptySet DEF Init, Budget, BudgetOf, Created
    <2>4. QED
      BY <2>1, <2>3 DEF IInv
  <1>2. IInv /\ [Next]_vars => IInv'
    BY LifecycleStep, BudgetStep DEF IInv
  <1>3. QED
    BY <1>1, <1>2, PTL DEF Spec

-----------------------------------------------------------------------------
\* The table's constraints hold of every commit, and SENT means accepted.
THEOREM LifecycleStaysConsistent == Spec => []LifecycleConsistent
  <1>1. IInv => LifecycleConsistent
    BY DEF IInv, Lifecycle, RowSound, LifecycleConsistent
  <1>2. QED
    BY <1>1, InductiveInvariant, PTL

\* Through a provider that cannot recognise a repeated request, the messages a
\* customer gets beyond the first are at most those a human confirmed.
THEOREM MachinesTextOnce == Spec => []NoAutomaticDuplicate
  <1>1. ASSUME IInv, NEW d \in Deliveries, Created(d), ~delivery[d].idempotent
        PROVE  texts[d] <= 1 + rearmed[d]
    <2>1. BudgetOf(d) /\ texts[d] \in Nat /\ rearmed[d] \in Nat
      BY <1>1, LimitsAssumption DEF IInv, Lifecycle, TypeOK, Budget
    <2>2. Cardinality(InFlight(d)) \in Nat
      BY <2>1, FS_CardinalityType DEF BudgetOf
    <2>3. QED
      BY <1>1, <2>1, <2>2 DEF BudgetOf, Allowed
  <1>2. IInv => NoAutomaticDuplicate
    BY <1>1 DEF NoAutomaticDuplicate
  <1>3. QED
    BY <1>2, InductiveInvariant, PTL

\* Nothing but a human's rearming takes a delivery out of manual review.
THEOREM OnlyHumansEndReview == Spec => ReviewWaitsForHuman
  <1> USE NoDeliveryAssumption
  <1>1. ASSUME IInv, [Next]_vars, NEW d \in Deliveries, Created(d),
               delivery[d].status = "manual_review"
        PROVE  delivery'[d] = delivery[d] \/ rearmed'[d] > rearmed[d]
    <2>1. /\ delivery \in [Deliveries -> DeliveryRow \cup {NoDelivery}]
          /\ rearmed \in [Deliveries -> Nat]
          /\ delivery[d].token = NoWorker /\ delivery[d].retry = "none"
      BY <1>1, LimitsAssumption DEF IInv, Lifecycle, TypeOK, RowSound, DeliveryRow
    <2>2. CASE UNCHANGED vars
      BY <2>2 DEF vars
    <2>3. ASSUME NEW s \in Deliveries,
                 CreateDelivery(s) \/ Sweep(s) \/ Scrub(s) \/ TimePasses(s)
          PROVE  delivery'[d] = delivery[d]
      BY <1>1, <2>1, <2>3 DEF CreateDelivery, Sweep, Scrub, Scrubbable, TimePasses
    <2>4. ASSUME NEW s \in Deliveries, Rearm(s)
          PROVE  delivery'[d] = delivery[d] \/ rearmed'[d] > rearmed[d]
      BY <2>1, <2>4 DEF Rearm
    <2>5. ASSUME NEW w \in Workers, NEW s \in Deliveries, ExecuteDelivery(w, s)
          PROVE  delivery'[d] = delivery[d]
      BY <1>1, <2>1, <2>5 DEF ExecuteDelivery, Due
    <2>6. ASSUME NEW w \in Workers, FinishDelivery(w) \/ FinishUnserved(w) \/ WorkerLost(w)
          PROVE  delivery'[d] = delivery[d]
      BY <2>1, <2>6 DEF FinishDelivery, FinishUnserved, WorkerLost
    <2>7. QED
      BY <1>1, <2>2, <2>3, <2>4, <2>5, <2>6 DEF Next
  <1>2. IInv /\ [Next]_vars =>
          [\A d \in Deliveries :
             Created(d) /\ delivery[d].status = "manual_review" =>
               delivery'[d] = delivery[d] \/ rearmed'[d] > rearmed[d]]_vars
    BY <1>1
  <1>3. QED
    BY <1>2, InductiveInvariant, PTL DEF Spec, ReviewWaitsForHuman
=============================================================================
