---------------------------- MODULE RefundsProofs ----------------------------
(***************************************************************************)
(* What holds of Refunds for any numbers of refunds and workers and any    *)
(* limit of attempts: rows stay consistent, money is reported only on      *)
(* evidence, a completed refund is final and an overtaken worker is mute.  *)
(***************************************************************************)
EXTENDS Refunds, TLAPS

\* What is true of a row whose request the provider has treated as did.
RowSound(row, did) ==
  /\ row \in RefundRow
  /\ row.status = "processing" <=> row.token # NoWorker
  /\ row.status = "pending" => row.attempts < MaxAttempts
  /\ row.status = "refunded" <=> row.retry = "none"
  /\ row.leased => row.status = "processing"
  /\ row.status = "refunded" <=> row.evidence # "none"
  /\ row.evidence = "provider" => did = "paid"

\* A review keeps the retry time of its row: without this a retry of a
\* superuser would be processed off the sweep's list. And only rows that exist
\* are queued or being executed.
IInv ==
  /\ TypeOK
  /\ \A r \in Refunds : Owed(r) => RowSound(refund[r], provider[r])
  /\ \A r \in Refunds : queued[r] => Owed(r)
  /\ \A w \in Workers : calling[w] # NoRefund => Owed(calling[w])

-----------------------------------------------------------------------------
(* What the service writes into a row                                      *)

\* Whatever row is claimed, in review or overdue, the result is a sound claim.
LEMMA ClaimSound ==
  ASSUME NEW row, NEW did, NEW after, NEW w \in Workers, RowSound(row, did), Claimable(row),
         did = "paid" => after = "paid"
  PROVE  RowSound(Claimed(row, w), after)
  <1>1. Bump(row.attempts) \in 0..MaxAttempts + 1
    BY MaxAttemptsAssumption DEF RowSound, RefundRow, Bump
  <1>2. QED
    BY <1>1, NoRefundAssumption DEF RowSound, RefundRow, Claimable, Claimed, RefundStatuses

\* Whatever the provider answers, what its worker writes is sound.
LEMMA AnswerSound ==
  ASSUME NEW r \in Refunds, NEW row, NEW w \in Workers, NEW says \in Answers(r),
         RowSound(row, provider[r]), Mine(w, row)
  PROVE  RowSound(AfterCall(row, says), provider[r])
  <1> USE NoRefundAssumption, MaxAttemptsAssumption
      DEF RowSound, RefundRow, Mine, Unclaimed, RefundStatuses
  <1>1. RowSound(InReview(row), provider[r])
    BY DEF InReview
  <1>2. row.attempts < MaxAttempts => RowSound(RetryLater(row), provider[r])
    BY DEF RetryLater
  <1>3. says = "refunded" => RowSound(Refunded(row, "provider"), provider[r])
    BY DEF Refunded, Answers
  <1>4. row.attempts \in Nat
    OBVIOUS
  <1> HIDE DEF RowSound
  <1>5. QED
    BY <1>1, <1>2, <1>3, <1>4 DEF AfterCall

-----------------------------------------------------------------------------
(* The invariant                                                           *)

\* A step that writes at most one row, soundly, keeps the invariant.
LEMMA OneRowWritten ==
  ASSUME IInv, NEW r \in Refunds, NEW row, refund' = [refund EXCEPT ![r] = row],
         RowSound(row, provider'[r]),
         provider' \in [Refunds -> {"unasked", "asked", "paid"}],
         \A s \in Refunds : s # r => provider'[s] = provider[s],
         queued' \in [Refunds -> BOOLEAN],
         \A s \in Refunds : s # r => queued'[s] = queued[s],
         calling' \in [Workers -> Refunds \cup {NoRefund}],
         \A w \in Workers : calling'[w] \in {calling[w], r, NoRefund}
  PROVE  IInv'
  <1>1. /\ row \in RefundRow /\ row # NoRefund
        /\ refund \in [Refunds -> RefundRow \cup {NoRefund}]
    BY NoRefundAssumption DEF RowSound, IInv, TypeOK
  <1>2. /\ refund' \in [Refunds -> RefundRow \cup {NoRefund}]
        /\ refund'[r] = row /\ \A s \in Refunds : s # r => refund'[s] = refund[s]
    BY <1>1
  <1>3. QED
    BY <1>1, <1>2 DEF IInv, TypeOK, Owed

LEMMA ExecuteKeeps ==
  ASSUME IInv, NEW w \in Workers, NEW r \in Refunds, ExecuteRefund(w, r)
  PROVE  IInv'
  <1>1. /\ Owed(r) /\ RowSound(refund[r], provider[r])
        /\ queued' \in [Refunds -> BOOLEAN]
        /\ \A s \in Refunds : s # r => queued'[s] = queued[s]
    BY DEF IInv, TypeOK, ExecuteRefund
  <1>2. CASE Claimable(refund[r])
    <2>1. /\ refund' = [refund EXCEPT ![r] = Claimed(refund[r], w)]
          /\ calling' = [calling EXCEPT ![w] = r]
          /\ provider' = [provider EXCEPT ![r] = IF @ = "unasked" THEN "asked" ELSE @]
      BY <1>2 DEF ExecuteRefund
    <2>2. /\ provider' \in [Refunds -> {"unasked", "asked", "paid"}]
          /\ \A s \in Refunds : s # r => provider'[s] = provider[s]
          /\ provider[r] = "paid" => provider'[r] = "paid"
          /\ calling' \in [Workers -> Refunds \cup {NoRefund}]
          /\ \A v \in Workers : calling'[v] \in {calling[v], r, NoRefund}
      BY <2>1 DEF IInv, TypeOK
    <2>3. RowSound(Claimed(refund[r], w), provider'[r])
      BY <1>1, <1>2, <2>2, ClaimSound
    <2>4. QED
      BY <1>1, <2>1, <2>2, <2>3, OneRowWritten
  <1>3. CASE ~Claimable(refund[r])
    BY <1>1, <1>3 DEF ExecuteRefund, IInv, TypeOK, Owed
  <1>4. QED
    BY <1>2, <1>3

LEMMA FinishKeeps ==
  ASSUME IInv, NEW w \in Workers, FinishRefund(w)
  PROVE  IInv'
  <1> DEFINE r == calling[w]
  <1>1. /\ r \in Refunds /\ Owed(r) /\ RowSound(refund[r], provider[r])
        /\ queued' = queued /\ provider' = provider
        /\ calling' = [calling EXCEPT ![w] = NoRefund]
    BY DEF IInv, TypeOK, FinishRefund
  <1>2. PICK says \in Answers(r) :
          refund' = [refund EXCEPT ![r] =
            IF Mine(w, refund[r]) THEN AfterCall(refund[r], says) ELSE refund[r]]
    BY DEF FinishRefund
  <1> DEFINE row == IF Mine(w, refund[r]) THEN AfterCall(refund[r], says) ELSE refund[r]
  <1>3. RowSound(row, provider'[r])
    BY <1>1, AnswerSound
  <1>4. /\ calling' \in [Workers -> Refunds \cup {NoRefund}]
        /\ \A v \in Workers : calling'[v] \in {calling[v], r, NoRefund}
        /\ queued' \in [Refunds -> BOOLEAN]
        /\ provider' \in [Refunds -> {"unasked", "asked", "paid"}]
    BY <1>1 DEF IInv, TypeOK
  <1> HIDE DEF row, r
  <1>5. refund' = [refund EXCEPT ![r] = row]
    BY <1>2 DEF row
  <1>6. QED
    BY <1>1, <1>3, <1>4, <1>5, OneRowWritten

\* The steps of one refund that no worker takes.
LEMMA OtherStepsKeep ==
  ASSUME IInv, NEW r \in Refunds,
         \/ Owe(r) \/ Sweep(r) \/ RetryReviewed(r) \/ RecordCompletion(r)
         \/ ProviderPays(r) \/ RetryTimeComes(r) \/ LeaseLapses(r)
  PROVE  IInv'
  <1> USE NoRefundAssumption, MaxAttemptsAssumption
  <1>1. /\ refund \in [Refunds -> RefundRow \cup {NoRefund}]
        /\ queued \in [Refunds -> BOOLEAN]
        /\ calling \in [Workers -> Refunds \cup {NoRefund}]
        /\ provider \in [Refunds -> {"unasked", "asked", "paid"}]
        /\ Owed(r) => RowSound(refund[r], provider[r])
    BY DEF IInv, TypeOK
  <1>2. CASE Owe(r)
    <2> DEFINE row == [status |-> "pending", token |-> NoWorker, leased |-> FALSE, retry |-> "due",
                       attempts |-> 0, evidence |-> "none"]
    <2>1. RowSound(row, provider'[r])
      BY DEF RowSound, RefundRow, RefundStatuses
    <2>2. /\ refund' = [refund EXCEPT ![r] = row]
          /\ calling' = calling /\ provider' = provider
          /\ \E delivered \in BOOLEAN : queued' = [queued EXCEPT ![r] = delivered]
      BY <1>2 DEF Owe
    <2> HIDE DEF row
    <2>3. /\ queued' \in [Refunds -> BOOLEAN]
          /\ \A s \in Refunds : s # r => queued'[s] = queued[s]
      BY <1>1, <2>2
    <2>4. QED
      BY <1>1, <2>1, <2>2, <2>3, OneRowWritten
  <1>3. CASE Sweep(r) \/ RetryReviewed(r)
    BY <1>1, <1>3 DEF Sweep, RetryReviewed, IInv, TypeOK, Owed
  <1>4. CASE RecordCompletion(r)
    <2> DEFINE row == Refunded(refund[r], "staff")
    <2>1. RowSound(row, provider'[r])
      BY <1>1, <1>4 DEF RecordCompletion, RowSound, RefundRow, RefundStatuses, Refunded, Unclaimed
    <2>2. /\ refund' = [refund EXCEPT ![r] = row]
          /\ UNCHANGED <<queued, calling, provider>>
      BY <1>4 DEF RecordCompletion
    <2> HIDE DEF row
    <2>3. QED
      BY <1>1, <2>1, <2>2, OneRowWritten
  <1>5. CASE ProviderPays(r)
    BY <1>1, <1>5 DEF ProviderPays, IInv, TypeOK, Owed, RowSound
  <1>6. CASE RetryTimeComes(r)
    <2> DEFINE row == [refund[r] EXCEPT !.retry = "due"]
    <2>1. RowSound(row, provider'[r])
      BY <1>1, <1>6 DEF RetryTimeComes, RowSound, RefundRow
    <2>2. /\ refund' = [refund EXCEPT ![r] = row]
          /\ UNCHANGED <<queued, calling, provider>>
      BY <1>6 DEF RetryTimeComes
    <2> HIDE DEF row
    <2>3. QED
      BY <1>1, <2>1, <2>2, OneRowWritten
  <1>7. CASE LeaseLapses(r)
    <2> DEFINE row == [refund[r] EXCEPT !.leased = FALSE]
    <2>1. RowSound(row, provider'[r])
      BY <1>1, <1>7 DEF LeaseLapses, RowSound, RefundRow
    <2>2. /\ refund' = [refund EXCEPT ![r] = row]
          /\ UNCHANGED <<queued, calling, provider>>
      BY <1>7 DEF LeaseLapses
    <2> HIDE DEF row
    <2>3. QED
      BY <1>1, <2>1, <2>2, OneRowWritten
  <1>8. QED
    BY <1>2, <1>3, <1>4, <1>5, <1>6, <1>7

LEMMA InductiveInvariant == Spec => []IInv
  <1>1. Init => IInv
    BY DEF Init, IInv, TypeOK, Owed
  <1>2. ASSUME IInv, [Next]_vars PROVE IInv'
    <2>1. CASE UNCHANGED vars
      BY <1>2, <2>1 DEF vars, IInv, TypeOK, Owed
    <2>2. ASSUME NEW w \in Workers, WorkerLost(w) PROVE IInv'
      BY <1>2, <2>2 DEF WorkerLost, IInv, TypeOK, Owed
    <2>3. QED
      BY <1>2, <2>1, <2>2, ExecuteKeeps, FinishKeeps, OtherStepsKeep DEF Next
  <1>3. QED
    BY <1>1, <1>2, PTL DEF Spec

-----------------------------------------------------------------------------
\* Every commit leaves a consistent row behind: typed, claimed exactly while it
\* is processed, pending only below the limit, and on the sweep's list until it
\* is resolved.
THEOREM RowsStayConsistent == Spec => []RowsConsistent
  <1>1. IInv => RowsConsistent
    BY DEF IInv, RowSound, RowsConsistent, ClaimMatchesStatus, RetriesAreBounded,
           UnresolvedRefundIsSwept
  <1>2. QED
    BY <1>1, InductiveInvariant, PTL

\* A refunded row holds a reference, and the provider's only if it paid.
THEOREM RefundsRestOnEvidence == Spec => []RefundedOnEvidence
  <1>1. IInv => RefundedOnEvidence
    BY DEF IInv, RowSound, RefundedOnEvidence
  <1>2. QED
    BY <1>1, InductiveInvariant, PTL

\* No redelivered task, overtaken worker or superuser touches a completed refund.
THEOREM CompletedRefundsAreFinal == Spec => RefundIsFinal
  <1>1. ASSUME IInv, [Next]_vars, NEW r \in Refunds, Owed(r), refund[r].status = "refunded"
        PROVE  refund'[r] = refund[r]
    <2>1. refund \in [Refunds -> RefundRow \cup {NoRefund}] /\ RowSound(refund[r], provider[r])
      BY <1>1 DEF IInv, TypeOK
    <2>2. CASE UNCHANGED vars
      BY <2>2 DEF vars
    <2>3. ASSUME NEW w \in Workers, NEW s \in Refunds, ExecuteRefund(w, s)
          PROVE  refund'[r] = refund[r]
      BY <1>1, <2>1, <2>3 DEF ExecuteRefund, Claimable
    <2>4. ASSUME NEW w \in Workers, FinishRefund(w) \/ WorkerLost(w)
          PROVE  refund'[r] = refund[r]
      BY <1>1, <2>1, <2>4 DEF FinishRefund, WorkerLost, Mine
    <2>5. ASSUME NEW s \in Refunds,
                 \/ Owe(s) \/ Sweep(s) \/ RetryReviewed(s) \/ RecordCompletion(s)
                 \/ ProviderPays(s) \/ RetryTimeComes(s) \/ LeaseLapses(s)
          PROVE  refund'[r] = refund[r]
      BY <1>1, <2>1, <2>5 DEF Owe, Sweep, RetryReviewed, RecordCompletion, ProviderPays,
                              RetryTimeComes, LeaseLapses, RowSound
    <2>6. QED
      BY <1>1, <2>2, <2>3, <2>4, <2>5 DEF Next
  <1>2. IInv /\ [Next]_vars =>
          [\A r \in Refunds :
             Owed(r) /\ refund[r].status = "refunded" => refund'[r] = refund[r]]_vars
    BY <1>1
  <1>3. QED
    BY <1>2, InductiveInvariant, PTL DEF Spec, RefundIsFinal

\* The answer to a worker whose claim was taken over is dropped.
THEOREM OvertakenWorkersAreMute == Spec => OvertakenWorkersWriteNothing
  <1>1. ASSUME IInv, [Next]_vars, NEW w \in Workers, calling[w] # NoRefund,
               calling'[w] = NoRefund, refund[calling[w]].token # w
        PROVE  refund'[calling[w]] = refund[calling[w]]
    <2> DEFINE r == calling[w]
    <2>1. /\ refund \in [Refunds -> RefundRow \cup {NoRefund}] /\ r \in Refunds
          /\ calling \in [Workers -> Refunds \cup {NoRefund}]
      BY <1>1 DEF IInv, TypeOK
    <2>2. CASE UNCHANGED vars
      BY <2>2 DEF vars
    <2>3. ASSUME NEW v \in Workers, NEW s \in Refunds, ExecuteRefund(v, s)
          PROVE  refund' = refund
      BY <1>1, <2>1, <2>3, NoRefundAssumption DEF ExecuteRefund
    <2>4. ASSUME NEW v \in Workers, FinishRefund(v)
          PROVE  refund'[r] = refund[r]
      <3>1. v = w
        BY <1>1, <2>1, <2>4 DEF FinishRefund
      <3>2. QED
        BY <1>1, <2>1, <2>4, <3>1 DEF FinishRefund, Mine
    <2>5. ASSUME NEW s \in Refunds,
                 \/ Owe(s) \/ Sweep(s) \/ RetryReviewed(s) \/ RecordCompletion(s)
                 \/ ProviderPays(s) \/ RetryTimeComes(s) \/ LeaseLapses(s)
          PROVE  calling' = calling
      BY <2>5 DEF Owe, Sweep, RetryReviewed, RecordCompletion, ProviderPays, RetryTimeComes,
                  LeaseLapses
    <2>6. ASSUME NEW v \in Workers, WorkerLost(v) PROVE refund' = refund
      BY <2>6 DEF WorkerLost
    <2>7. QED
      BY <1>1, <2>2, <2>3, <2>4, <2>5, <2>6 DEF Next
  <1>2. IInv /\ [Next]_vars =>
          [\A w \in Workers :
             LET r == calling[w]
             IN  r # NoRefund /\ calling'[w] = NoRefund /\ refund[r].token # w =>
                   refund'[r] = refund[r]]_vars
    BY <1>1
  <1>3. QED
    BY <1>2, InductiveInvariant, PTL DEF Spec, OvertakenWorkersWriteNothing
=============================================================================
