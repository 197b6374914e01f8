------------------------------ MODULE Refunds ------------------------------
(***************************************************************************)
(* Executing refunds: apps/payments/services/refunds.py, its task and      *)
(* sweep, and the two superuser actions of RefundAdmin. The obligation is  *)
(* created by Payments (its field refund); here it is a row with a life of *)
(* its own. As in Payments a worker claims the row (a token with a 30      *)
(* second lease), calls the provider outside any transaction and finishes  *)
(* in another one; its name stands for the token it drew.                  *)
(***************************************************************************)
EXTENDS Naturals

CONSTANTS
  Refunds,      \* refund rows; a row also stands for the uuid the provider is given
  Workers,      \* tasks that run at the same time
  MaxAttempts,  \* attempts after which an unclear refund goes to review (5)
  NoRefund,     \* the row does not exist
  NoWorker      \* operation_token is NULL

ASSUME MaxAttemptsAssumption == MaxAttempts \in Nat \ {0}

RefundStatuses == {"pending", "processing", "refunded", "manual_review"}

\* retry is next_retry_at: NULL, ahead, or reached. attempts counts up to one
\* beyond MaxAttempts: the code only compares it with MaxAttempts. evidence is
\* whose reference the row holds: the provider's, or one a superuser entered.
RefundRow ==
  [status : RefundStatuses, token : Workers \cup {NoWorker}, leased : BOOLEAN,
   retry : {"none", "later", "due"}, attempts : 0..MaxAttempts + 1,
   evidence : {"none", "provider", "staff"}]

ASSUME NoRefundAssumption == NoRefund \notin RefundRow \cup Refunds /\ NoWorker \notin Workers

VARIABLES
  refund,    \* [Refunds -> RefundRow or NoRefund]
  queued,    \* [Refunds -> BOOLEAN]: an execute_refund_task is in the broker
  calling,   \* [Workers -> Refunds or NoRefund]: waiting for the provider
  provider   \* [Refunds -> "unasked" | "asked" | "paid"]: what the provider did

vars == <<refund, queued, calling, provider>>

Owed(r) == refund[r] # NoRefund

Init ==
  /\ refund = [r \in Refunds |-> NoRefund]
  /\ queued = [r \in Refunds |-> FALSE]
  /\ calling = [w \in Workers |-> NoRefund]
  /\ provider = [r \in Refunds |-> "unasked"]

-----------------------------------------------------------------------------
(* What the service writes into a row.                                     *)

Unclaimed(row) == [row EXCEPT !.token = NoWorker, !.leased = FALSE]

InReview(row) == [Unclaimed(row) EXCEPT !.status = "manual_review"]

Refunded(row, by) ==
  [Unclaimed(row) EXCEPT !.status = "refunded", !.retry = "none", !.evidence = by]

RetryLater(row) == [Unclaimed(row) EXCEPT !.status = "pending", !.retry = "later"]

Bump(n) == IF n > MaxAttempts THEN n ELSE n + 1

Claimed(row, w) ==
  [row EXCEPT !.status = "processing", !.token = w, !.leased = TRUE,
              !.attempts = Bump(row.attempts)]

-----------------------------------------------------------------------------
\* create_refund_obligation. The task is queued after the commit, which may fail.
Owe(r) ==
  /\ ~Owed(r)
  /\ refund' = [refund EXCEPT ![r] =
       [status |-> "pending", token |-> NoWorker, leased |-> FALSE, retry |-> "due",
        attempts |-> 0, evidence |-> "none"]]
  /\ \E delivered \in BOOLEAN : queued' = [queued EXCEPT ![r] = delivered]
  /\ UNCHANGED <<calling, provider>>

\* sweep_pending_refunds
Sweep(r) ==
  /\ Owed(r)
  /\ refund[r].status \in {"pending", "processing"}
  /\ refund[r].retry = "due"
  /\ ~queued[r]
  /\ queued' = [queued EXCEPT ![r] = TRUE]
  /\ UNCHANGED <<refund, calling, provider>>

\* RefundAdmin.retry_manual_review
RetryReviewed(r) ==
  /\ Owed(r)
  /\ refund[r].status = "manual_review"
  /\ queued' = [queued EXCEPT ![r] = TRUE]
  /\ UNCHANGED <<refund, calling, provider>>

\* Mutant of Claimable: a completed refund may be executed again.
ClaimableAgain(row) == ~(row.status = "processing" /\ row.leased)

\* execute_refund goes on with every row that is not refunded and not under a
\* live claim: rows that wait for a retry and rows in review included.
Claimable(row) == row.status # "refunded" /\ ~(row.status = "processing" /\ row.leased)

\* The first transaction of execute_refund_task; it returns early otherwise.
\* The message may be delivered again: acknowledged late, or one of several.
ExecuteRefund(w, r) ==
  /\ queued[r]
  /\ calling[w] = NoRefund
  /\ \E again \in BOOLEAN : queued' = [queued EXCEPT ![r] = again]
  /\ IF Claimable(refund[r])
     THEN /\ refund' = [refund EXCEPT ![r] = Claimed(refund[r], w)]
          /\ calling' = [calling EXCEPT ![w] = r]
          /\ provider' = [provider EXCEPT ![r] = IF @ = "unasked" THEN "asked" ELSE @]
     ELSE UNCHANGED <<refund, calling, provider>>

-----------------------------------------------------------------------------
(* The provider. External: refund_payment is idempotent for a refund uuid. *)

\* A request it was sent is carried out, perhaps after the caller gave up.
ProviderPays(r) ==
  /\ provider[r] = "asked"
  /\ provider' = [provider EXCEPT ![r] = "paid"]
  /\ UNCHANGED <<refund, queued, calling>>

\* "refunded" is REFUNDED or ALREADY_REFUNDED with a reference, "conflict" one
\* whose reference another refund has; "rejected" covers protocol and security
\* errors and a missing adapter, "ambiguous" transport errors and a success
\* without a reference.
Answers(r) ==
  {"rejected", "ambiguous"} \cup (IF provider[r] = "paid" THEN {"refunded", "conflict"} ELSE {})

\* Mutants of AfterCall: one attempt too many; no limit; no news is good news.
AfterCallOneMore(row, says) ==
  IF says = "refunded" THEN Refunded(row, "provider")
  ELSE IF says \in {"conflict", "rejected"} \/ row.attempts > MaxAttempts THEN InReview(row)
  ELSE RetryLater(row)

AfterCallForEver(row, says) ==
  IF says = "refunded" THEN Refunded(row, "provider")
  ELSE IF says \in {"conflict", "rejected"} THEN InReview(row)
  ELSE RetryLater(row)

AfterCallTrusting(row, says) ==
  IF says \in {"refunded", "ambiguous"} THEN Refunded(row, "provider")
  ELSE InReview(row)

AfterCall(row, says) ==
  IF says = "refunded" THEN Refunded(row, "provider")
  ELSE IF says \in {"conflict", "rejected"} \/ row.attempts >= MaxAttempts THEN InReview(row)
  ELSE RetryLater(row)

\* Mutant of Mine: any worker may finish.
AnyoneMay(w, row) == row.status # "refunded"

Mine(w, row) == row.token = w /\ row.status # "refunded"

\* The second transaction: dropped when the claim was taken over.
FinishRefund(w) ==
  LET r == calling[w]
  IN  /\ r # NoRefund
      /\ \E says \in Answers(r) :
           refund' = [refund EXCEPT ![r] =
             IF Mine(w, refund[r]) THEN AfterCall(refund[r], says) ELSE refund[r]]
      /\ calling' = [calling EXCEPT ![w] = NoRefund]
      /\ UNCHANGED <<queued, provider>>

\* record_manual_refund_completion, confirmed by a superuser.
RecordCompletion(r) ==
  /\ Owed(r)
  /\ refund[r].status = "manual_review"
  /\ refund' = [refund EXCEPT ![r] = Refunded(refund[r], "staff")]
  /\ UNCHANGED <<queued, calling, provider>>

-----------------------------------------------------------------------------
(* Time and crashes                                                        *)

RetryTimeComes(r) ==
  /\ Owed(r)
  /\ refund[r].retry = "later"
  /\ refund' = [refund EXCEPT ![r] = [@ EXCEPT !.retry = "due"]]
  /\ UNCHANGED <<queued, calling, provider>>

LeaseLapses(r) ==
  /\ Owed(r)
  /\ refund[r].leased
  /\ refund' = [refund EXCEPT ![r] = [@ EXCEPT !.leased = FALSE]]
  /\ UNCHANGED <<queued, calling, provider>>

\* A worker dies in its call; its claim stays, its message may come back.
WorkerLost(w) ==
  LET r == calling[w]
  IN  /\ r # NoRefund
      /\ calling' = [calling EXCEPT ![w] = NoRefund]
      /\ \E again \in BOOLEAN : queued' = [queued EXCEPT ![r] = @ \/ again]
      /\ UNCHANGED <<refund, provider>>

Next ==
  \/ \E r \in Refunds :
       \/ Owe(r)
       \/ Sweep(r)
       \/ RetryReviewed(r)
       \/ RecordCompletion(r)
       \/ ProviderPays(r)
       \/ RetryTimeComes(r)
       \/ LeaseLapses(r)
  \/ \E w \in Workers :
       \/ FinishRefund(w)
       \/ WorkerLost(w)
       \/ \E r \in Refunds : ExecuteRefund(w, r)

Spec == Init /\ [][Next]_vars

\* The worker that holds r's claim is still in its call.
BeingExecuted(r) == \E w \in Workers : calling[w] = r /\ refund[r].token = w

\* Time passes, beat sweeps, the broker delivers and calls end. Workers die
\* only finitely often, and in the end calls are answered within their lease:
\* it is 30 seconds, the task's soft time limit 25.
FairSpec ==
  /\ Spec
  /\ \A r \in Refunds :
       /\ WF_vars(Sweep(r)) /\ WF_vars(RetryTimeComes(r)) /\ WF_vars(LeaseLapses(r))
       /\ SF_vars(\E w \in Workers : ExecuteRefund(w, r))
       /\ <>[][~(LeaseLapses(r) /\ BeingExecuted(r))]_vars
  /\ \A w \in Workers : WF_vars(FinishRefund(w)) /\ <>[][~WorkerLost(w)]_vars

-----------------------------------------------------------------------------
(* Properties *)

TypeOK ==
  /\ refund \in [Refunds -> RefundRow \cup {NoRefund}]
  /\ queued \in [Refunds -> BOOLEAN]
  /\ calling \in [Workers -> Refunds \cup {NoRefund}]
  /\ provider \in [Refunds -> {"unasked", "asked", "paid"}]

\* Nobody is told that money was returned on no evidence: a refunded row holds a
\* reference, and the provider's reference only if the provider paid, whatever
\* late, duplicate or unclear answers came before.
RefundedOnEvidence ==
  \A r \in Refunds : Owed(r) =>
    /\ refund[r].status = "refunded" <=> refund[r].evidence # "none"
    /\ refund[r].evidence = "provider" => provider[r] = "paid"

\* payments_refund_processing and the lease: exactly the rows being processed
\* carry a claim, so a row in review or completed cannot be finished by a worker
\* that is still in its call.
ClaimMatchesStatus ==
  \A r \in Refunds : Owed(r) => (refund[r].status = "processing" <=> refund[r].token # NoWorker)

\* An unclear answer never leads to a retry after the last allowed attempt, also
\* when earlier attempts were cut short and never compared with the limit.
RetriesAreBounded ==
  \A r \in Refunds : Owed(r) /\ refund[r].status = "pending" => refund[r].attempts < MaxAttempts

\* No claim, crash, review or staff retry takes an unresolved refund off the
\* sweep's list: it has a retry time whenever it waits or is processed.
UnresolvedRefundIsSwept ==
  \A r \in Refunds :
    Owed(r) /\ refund[r].status \in {"pending", "processing"} => refund[r].retry # "none"

\* What every commit leaves behind, whoever made it.
RowsConsistent ==
  TypeOK /\ ClaimMatchesStatus /\ RetriesAreBounded /\ UnresolvedRefundIsSwept

\* A refund that was completed, by the provider or by hand, is never touched
\* again by a redelivered task or by a worker that was overtaken.
RefundIsFinal ==
  [][\A r \in Refunds :
       Owed(r) /\ refund[r].status = "refunded" => refund'[r] = refund[r]]_vars

\* A worker whose claim was taken over writes nothing when its answer comes.
OvertakenWorkersWriteNothing ==
  [][\A w \in Workers :
       LET r == calling[w]
       IN  r # NoRefund /\ calling'[w] = NoRefund /\ refund[r].token # w =>
             refund'[r] = refund[r]]_vars

\* Every refund the shop owes is returned or handed to a human.
RefundResolves ==
  \A r \in Refunds :
    (Owed(r) /\ refund[r].status \in {"pending", "processing"}) ~>
      (Owed(r) /\ refund[r].status \in {"refunded", "manual_review"})
=============================================================================
