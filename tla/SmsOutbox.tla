----------------------------- MODULE SmsOutbox -----------------------------
(***************************************************************************)
(* The SMS outbox: apps/notifications (services/delivery.py, tasks.py, the *)
(* admin action). Deliveries are obligations an order transition wrote     *)
(* (the field told of an order row); from then on a delivery has a life of *)
(* its own. A task claims it, calls the provider outside any transaction   *)
(* and finishes in another one. A worker's name stands for the token it    *)
(* drew.                                                                   *)
(***************************************************************************)
EXTENDS Naturals

CONSTANTS
  Deliveries,   \* SmsDelivery rows
  Workers,      \* tasks that run at the same time
  MaxAttempts,  \* SMS_MAX_ATTEMPTS
  MaxRearms,    \* bound: how often a human sends one delivery again
  NoDelivery,   \* the row does not exist
  NoWorker      \* operation_token is NULL

ASSUME LimitsAssumption == MaxAttempts \in Nat \ {0} /\ MaxRearms \in Nat

DeliveryStatuses == {"pending", "sending", "sent", "failed", "manual_review"}

\* retry is next_retry_at: NULL, ahead, or reached; of a row being sent it is
\* the end of the claim's lease. idempotent is supports_idempotent_send of the
\* provider the row names, phone "recipient_phone is set". attempts counts up
\* to one beyond MaxAttempts: the code only compares it with MaxAttempts.
DeliveryRow ==
  [status : DeliveryStatuses, token : Workers \cup {NoWorker},
   retry : {"none", "later", "due"}, attempts : 0..MaxAttempts + 1,
   idempotent : BOOLEAN, phone : BOOLEAN]

ASSUME NoDeliveryAssumption ==
  NoDelivery \notin DeliveryRow \cup Deliveries /\ NoWorker \notin Workers

Idle == [at |-> "idle", on |-> NoDelivery]

VARIABLES
  delivery,  \* [Deliveries -> DeliveryRow or NoDelivery]
  queued,    \* [Deliveries -> BOOLEAN]: an execute_sms_delivery_task is in the broker
  worker,    \* [Workers -> Idle or a call on a delivery]
  texts,     \* [Deliveries -> Nat]: history, messages the provider accepted
  rearmed    \* [Deliveries -> Nat]: history, times a human sent it again

vars == <<delivery, queued, worker, texts, rearmed>>

Created(d) == delivery[d] # NoDelivery

Init ==
  /\ delivery = [d \in Deliveries |-> NoDelivery]
  /\ queued = [d \in Deliveries |-> FALSE]
  /\ worker = [w \in Workers |-> Idle]
  /\ texts = [d \in Deliveries |-> 0]
  /\ rearmed = [d \in Deliveries |-> 0]

-----------------------------------------------------------------------------
(* What the services write into a row.                                     *)

Left(row, status, retry) == [row EXCEPT !.status = status, !.token = NoWorker, !.retry = retry]

InReview(row) == Left(row, "manual_review", "none")

\* _schedule_retry
Retried(row) ==
  IF row.attempts >= MaxAttempts THEN InReview(row) ELSE Left(row, "pending", "later")

Claimed(row, w) ==
  [row EXCEPT !.status = "sending", !.token = w, !.retry = "later",
              !.attempts = IF @ > MaxAttempts THEN @ ELSE @ + 1]

-----------------------------------------------------------------------------
\* _create_delivery, after the order's transaction committed. An unusable
\* number fails at once. Publishing the task may fail; nothing else depends on it.
CreateDelivery(d) ==
  /\ ~Created(d)
  /\ \E valid, idempotent \in BOOLEAN :
       delivery' = [delivery EXCEPT ![d] =
         [status |-> IF valid THEN "pending" ELSE "failed", token |-> NoWorker,
          retry |-> IF valid THEN "due" ELSE "none", attempts |-> 0,
          idempotent |-> idempotent, phone |-> valid]]
  /\ \E published \in BOOLEAN : queued' = [queued EXCEPT ![d] = published]
  /\ UNCHANGED <<worker, texts, rearmed>>

\* sweep_due_sms_deliveries
Sweep(d) ==
  /\ Created(d)
  /\ delivery[d].status \in {"pending", "sending"}
  /\ delivery[d].retry = "due"
  /\ ~queued[d]
  /\ queued' = [queued EXCEPT ![d] = TRUE]
  /\ UNCHANGED <<delivery, worker, texts, rearmed>>

\* Mutants of Due: rows in review are sent too; a lapsed lease is not looked at.
DueInReview(row) == row.status \in {"pending", "sending", "manual_review"} /\ row.retry # "later"

DueUnclaimed(row) == row.status = "pending" /\ row.retry = "due"

\* _claim_delivery goes on with rows whose retry time or lease has passed.
Due(row) == row.status \in {"pending", "sending"} /\ row.retry = "due"

\* Mutant of SafeToSend: a stale claim is always taken over.
SafeToSendAnyway(row, found) == TRUE

\* A claim that lapsed may have been accepted: only an idempotent provider that
\* is still registered is asked again.
SafeToSend(row, found) == row.status = "sending" => found /\ row.idempotent

\* The claiming transaction of execute_delivery. found: the provider the row
\* names is registered where this task runs. The message may come again.
ExecuteDelivery(w, d) ==
  /\ queued[d]
  /\ worker[w] = Idle
  /\ \E again \in BOOLEAN : queued' = [queued EXCEPT ![d] = again]
  /\ \/ /\ ~Due(delivery[d])
        /\ UNCHANGED <<delivery, worker>>
     \/ \E found \in BOOLEAN :
          /\ Due(delivery[d])
          /\ ~SafeToSend(delivery[d], found)
          /\ delivery' = [delivery EXCEPT ![d] = InReview(@)]
          /\ UNCHANGED worker
     \/ \E found \in BOOLEAN :
          /\ Due(delivery[d])
          /\ SafeToSend(delivery[d], found)
          /\ delivery' = [delivery EXCEPT ![d] = Claimed(@, w)]
          /\ worker' = [worker EXCEPT ![w] = [at |-> IF found THEN "send" ELSE "unserved", on |-> d]]
  /\ UNCHANGED <<texts, rearmed>>

\* How a call ends: what execute_delivery makes of it, and whether the provider
\* accepted the message, now or later. External: an accepted answer is true, an
\* SmsTransportError is "known to occur before provider acceptance", a rejection
\* final. "conflict" is a reference another delivery has, "broken" a protocol,
\* configuration or unexpected error.
Ends ==
  {[says |-> "accepted", accepted |-> TRUE], [says |-> "conflict", accepted |-> TRUE],
   [says |-> "transport", accepted |-> FALSE], [says |-> "rejected", accepted |-> FALSE]}
    \cup [says : {"ambiguous", "broken"}, accepted : BOOLEAN]

AfterCall(row, says) ==
  IF says = "accepted" THEN Left(row, "sent", "none")
  ELSE IF says = "rejected" THEN Left(row, "failed", "none")
  ELSE IF says = "transport" \/ (says = "ambiguous" /\ row.idempotent) THEN Retried(row)
  ELSE InReview(row)

\* An idempotent provider sends one message per client reference.
Count(d, accepted) ==
  texts' = [texts EXCEPT ![d] =
    IF ~accepted THEN @ ELSE IF delivery[d].idempotent THEN 1 ELSE @ + 1]

\* The finishing transaction, dropped when the claim was taken over. A retry is
\* queued for later by the task itself as well, unless the broker fails.
FinishDelivery(w) ==
  LET d == worker[w].on
      mine == delivery[d].token = w
  IN  /\ worker[w].at = "send"
      /\ \E end \in Ends :
           /\ delivery' = IF mine THEN [delivery EXCEPT ![d] = AfterCall(@, end.says)] ELSE delivery
           /\ Count(d, end.accepted)
      /\ \E published \in BOOLEAN :
           queued' = [queued EXCEPT ![d] = @ \/ (mine /\ published /\ delivery'[d].status = "pending")]
      /\ worker' = [worker EXCEPT ![w] = Idle]
      /\ UNCHANGED rearmed

\* No adapter was found: _move_to_manual_review.
FinishUnserved(w) ==
  LET d == worker[w].on
  IN  /\ worker[w].at = "unserved"
      /\ delivery' = [delivery EXCEPT ![d] = IF @.token = w THEN InReview(@) ELSE @]
      /\ worker' = [worker EXCEPT ![w] = Idle]
      /\ UNCHANGED <<queued, texts, rearmed>>

\* rearm_manual_delivery, by a superuser who confirmed.
Rearm(d) ==
  /\ Created(d)
  /\ delivery[d].status = "manual_review"
  /\ delivery[d].phone
  /\ rearmed[d] < MaxRearms
  /\ delivery' = [delivery EXCEPT ![d] = [@ EXCEPT !.status = "pending", !.retry = "due"]]
  /\ rearmed' = [rearmed EXCEPT ![d] = @ + 1]
  /\ \E published \in BOOLEAN : queued' = [queued EXCEPT ![d] = @ \/ published]
  /\ UNCHANGED <<worker, texts>>

\* Mutant of Scrubbable: any old row.
ScrubbableAny(row) == row.phone

Scrubbable(row) == row.phone /\ row.status \in {"sent", "failed"}

\* scrub_expired_sms_recipients: both of its statuses are final, so what was
\* selected may still be scrubbed when the update runs.
Scrub(d) ==
  /\ Created(d)
  /\ Scrubbable(delivery[d])
  /\ delivery' = [delivery EXCEPT ![d] = [@ EXCEPT !.phone = FALSE]]
  /\ UNCHANGED <<queued, worker, texts, rearmed>>

-----------------------------------------------------------------------------
(* Time and crashes                                                        *)

\* now passes next_retry_at: a retry is due, or a lease has lapsed.
TimePasses(d) ==
  /\ Created(d)
  /\ delivery[d].retry = "later"
  /\ delivery' = [delivery EXCEPT ![d] = [@ EXCEPT !.retry = "due"]]
  /\ UNCHANGED <<queued, worker, texts, rearmed>>

\* A worker dies in its call, which the provider may have accepted or accept yet.
WorkerLost(w) ==
  LET d == worker[w].on
  IN  /\ worker[w] # Idle
      /\ \E accepted \in BOOLEAN : Count(d, accepted /\ worker[w].at = "send")
      /\ worker' = [worker EXCEPT ![w] = Idle]
      /\ \E again \in BOOLEAN : queued' = [queued EXCEPT ![d] = @ \/ again]
      /\ UNCHANGED <<delivery, rearmed>>

Next ==
  \/ \E d \in Deliveries :
       CreateDelivery(d) \/ Sweep(d) \/ Rearm(d) \/ Scrub(d) \/ TimePasses(d)
  \/ \E w \in Workers :
       \/ FinishDelivery(w)
       \/ FinishUnserved(w)
       \/ WorkerLost(w)
       \/ \E d \in Deliveries : ExecuteDelivery(w, d)

Spec == Init /\ [][Next]_vars

BeingSent(d) == \E w \in Workers : worker[w].on = d /\ delivery[d].token = w

\* Time passes, beat sweeps, the broker delivers and calls end. Workers die
\* only finitely often, and in the end calls are answered within their lease:
\* it exceeds the provider's network budget (check notifications.E004).
FairSpec ==
  /\ Spec
  /\ \A d \in Deliveries :
       /\ WF_vars(Sweep(d)) /\ WF_vars(TimePasses(d))
       /\ SF_vars(\E w \in Workers : ExecuteDelivery(w, d))
       /\ <>[][~(TimePasses(d) /\ BeingSent(d))]_vars
  /\ \A w \in Workers :
       /\ WF_vars(FinishDelivery(w) \/ FinishUnserved(w))
       /\ <>[][~WorkerLost(w)]_vars

-----------------------------------------------------------------------------
(* Properties *)

TypeOK ==
  /\ delivery \in [Deliveries -> DeliveryRow \cup {NoDelivery}]
  /\ queued \in [Deliveries -> BOOLEAN]
  /\ worker \in [Workers -> [at : {"send", "unserved"}, on : Deliveries] \cup {Idle}]
  /\ texts \in [Deliveries -> Nat]
  /\ rearmed \in [Deliveries -> 0..MaxRearms]

\* The customer is not texted twice by the machines: through a provider that
\* cannot recognise a repeated request, each message beyond the first takes a
\* human's confirmation, whatever crashed, lapsed or stayed unclear.
NoAutomaticDuplicate ==
  \A d \in Deliveries : Created(d) /\ ~delivery[d].idempotent => texts[d] <= 1 + rearmed[d]

\* notifications_status_lifecycle_consistent and _actionable_phone_required:
\* whatever happened before, unfinished work has a due time, a claim exactly
\* while it is sent, and the number to send it to; what is SENT the provider has
\* accepted.
LifecycleConsistent ==
  /\ TypeOK
  /\ \A d \in Deliveries : Created(d) =>
      /\ delivery[d].status \in {"pending", "sending"} <=> delivery[d].retry # "none"
      /\ delivery[d].status = "sending" <=> delivery[d].token # NoWorker
      /\ delivery[d].status \in {"sent", "failed"} \/ delivery[d].phone
      /\ delivery[d].status = "sent" => texts[d] > 0

\* A delivery leaves manual review through a human only: no task that is still
\* queued and no worker that is still in its call takes it out.
ReviewWaitsForHuman ==
  [][\A d \in Deliveries :
       Created(d) /\ delivery[d].status = "manual_review" =>
         delivery'[d] = delivery[d] \/ rearmed'[d] > rearmed[d]]_vars

\* Every message is sent, refused or handed to a human.
DeliveryResolves ==
  \A d \in Deliveries :
    (Created(d) /\ delivery[d].status \in {"pending", "sending"}) ~>
      (Created(d) /\ delivery[d].status \in {"sent", "failed", "manual_review"})
=============================================================================
