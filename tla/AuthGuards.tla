----------------------------- MODULE AuthGuards -----------------------------
(***************************************************************************)
(* The guards of lib/security_cache.py in front of one phone number and    *)
(* one username: OTPVerificationGuard for each purpose of a one-time code, *)
(* and PasswordLoginGuard. All they know is in the cache, under keys that  *)
(* expire, and the only lock between two requests is a lease of 5 seconds. *)
(*                                                                         *)
(* A code is a token of its own; what a request submits is abstracted to   *)
(* whether it is the stored code. Consecutive cache commands that nobody   *)
(* else's command can tell apart are one step.                             *)
(***************************************************************************)
EXTENDS Integers, FiniteSets

CONSTANTS
  Workers,      \* web workers, each serving one request
  Codes,        \* one-time codes that may be sent
  MaxAttempts,  \* OTP_VERIFICATION_MAX_ATTEMPTS, PASSWORD_LOGIN_MAX_ATTEMPTS
  MaxRequests,  \* bound: verifications and password logins
  MaxFaults,    \* bound: requests that die, leases that lapse under their holder
  NoCode,
  NoWorker

ASSUME GuardsAssumption ==
  /\ IsFiniteSet(Workers)
  /\ MaxAttempts \in Nat \ {0}
  /\ MaxRequests \in Nat /\ MaxFaults \in Nat
  /\ NoCode \notin Codes /\ NoWorker \notin Workers

VARIABLES
  guard,     \* the keys of each guard
  worker,    \* what each worker does
  phone,     \* whose the phone number is
  active,    \* the customer's account and the profile may log in
  requests,  \* how many verifications and logins were begun
  \* History, for the properties only:
  sent,      \* the codes that were sent
  spent,     \* how often a verification of each code succeeded
  faults

vars == <<guard, worker, phone, active, requests, sent, spent, faults>>

Purposes == {"signup", "login", "password-reset", "profile-phone"}
Guards == Purposes \cup {"password"}

\* code, attempts, locked and lease; a password login has no code and no lease.
Keys == [code : Codes \cup {NoCode}, failures : Nat,
         locked : BOOLEAN, lease : Workers \cup {NoWorker}]

Idle == [at |-> "idle"]
Request == [at : {"asked", "leased", "checked", "locking"}, guard : Guards]
Match == [at : {"matched", "consuming", "following"}, guard : Purposes, code : Codes]

Init ==
  /\ guard = [g \in Guards |->
       [code |-> NoCode, failures |-> 0, locked |-> FALSE, lease |-> NoWorker]]
  /\ worker = [w \in Workers |-> Idle]
  /\ phone \in {"nobody", "customer"}
  /\ active = TRUE
  /\ requests = 0
  /\ sent = {}
  /\ spent = [c \in Codes |-> 0]
  /\ faults = 0

At(w, step) == worker[w].at = step
Of(w) == guard[worker[w].guard]
Goes(w, step) == worker' = [worker EXCEPT ![w].at = step]
Ends(w) == worker' = [worker EXCEPT ![w] = Idle]

\* The finally block deletes the lease, whoever holds it by then.
Release(w) == guard' = [guard EXCEPT ![worker[w].guard].lease = NoWorker]

-----------------------------------------------------------------------------
(* Sending a code                                                          *)

\* store_code touches the code alone: failures, lock and lease stay.
StoreCode(p) ==
  /\ \E c \in Codes \ sent :
       /\ guard' = [guard EXCEPT ![p].code = c]
       /\ sent' = sent \cup {c}
  /\ UNCHANGED <<worker, phone, active, requests, spent, faults>>

\* A phone that nobody has.
SendSignupOtp == phone = "nobody" /\ StoreCode("signup")

\* A phone that somebody has, whether or not the account may log in.
SendLoginOtp == phone # "nobody" /\ StoreCode("login")

SendResetOtp == phone # "nobody" /\ StoreCode("password-reset")

\* A profile without a phone, and a phone that is nobody else's.
SendPhoneVerification == phone = "nobody" /\ StoreCode("profile-phone")

-----------------------------------------------------------------------------
(* OTPVerificationGuard.verify                                             *)

\* The first look at the lock; PasswordLoginGuard.ensure_unlocked is the same.
\* verify_phone_verification refuses a profile that has a phone.
Ask(w, g) ==
  /\ worker[w] = Idle
  /\ g = "profile-phone" => phone # "profile"
  /\ requests < MaxRequests
  /\ ~guard[g].locked
  /\ requests' = requests + 1
  /\ worker' = [worker EXCEPT ![w] = [at |-> "asked", guard |-> g]]
  /\ UNCHANGED <<guard, phone, active, sent, spent, faults>>

\* Mutant of TakeLease: the lease is set, not added.
TakeLeaseAnyway(w) ==
  /\ At(w, "asked")
  /\ worker[w].guard \in Purposes
  /\ guard' = [guard EXCEPT ![worker[w].guard].lease = w]
  /\ Goes(w, "leased")
  /\ UNCHANGED <<phone, active, requests, sent, spent, faults>>

\* The lease is added if its key is not there; else the request is throttled.
TakeLease(w) ==
  /\ At(w, "asked")
  /\ worker[w].guard \in Purposes
  /\ IF Of(w).lease = NoWorker
     THEN /\ guard' = [guard EXCEPT ![worker[w].guard].lease = w]
          /\ Goes(w, "leased")
     ELSE /\ Ends(w)
          /\ UNCHANGED guard
  /\ UNCHANGED <<phone, active, requests, sent, spent, faults>>

\* Mutant of CheckLock: the lock is not looked at again under the lease.
CheckLockNot(w) ==
  /\ At(w, "leased")
  /\ Goes(w, "checked")
  /\ UNCHANGED <<guard, phone, active, requests, sent, spent, faults>>

\* The second look at the lock, under the lease.
CheckLock(w) ==
  /\ At(w, "leased")
  /\ IF Of(w).locked
     THEN Release(w) /\ Ends(w)
     ELSE Goes(w, "checked") /\ UNCHANGED guard
  /\ UNCHANGED <<phone, active, requests, sent, spent, faults>>

\* The code is not there or not the one submitted: one failure more, and at the
\* limit the lock comes next.
WrongCode(w) ==
  /\ At(w, "checked")
  /\ LET failures == Of(w).failures + 1
         last == failures >= MaxAttempts
     IN  /\ guard' = [guard EXCEPT
              ![worker[w].guard].failures = failures,
              ![worker[w].guard].lease = IF last THEN @ ELSE NoWorker]
         /\ IF last THEN Goes(w, "locking") ELSE Ends(w)
  /\ UNCHANGED <<phone, active, requests, sent, spent, faults>>

LockGuard(w) ==
  /\ At(w, "locking")
  /\ guard' = [guard EXCEPT
       ![worker[w].guard].locked = TRUE,
       ![worker[w].guard].lease = IF worker[w].guard \in Purposes THEN NoWorker ELSE @]
  /\ Ends(w)
  /\ UNCHANGED <<phone, active, requests, sent, spent, faults>>

\* The code that was read is the one submitted. Only a password reset has work to
\* do before the code is consumed.
RightCode(w) ==
  /\ At(w, "checked")
  /\ Of(w).code # NoCode
  /\ worker' = [worker EXCEPT ![w] =
       [at |-> IF worker[w].guard = "password-reset" THEN "matched" ELSE "consuming",
        guard |-> worker[w].guard, code |-> Of(w).code]]
  /\ UNCHANGED <<guard, phone, active, requests, sent, spent, faults>>

\* on_success of verify_and_reset_password: with an active account the password
\* is set and committed; without one nothing is, and the code goes all the same.
ResetPassword(w) ==
  /\ At(w, "matched")
  /\ spent' = IF phone # "nobody" /\ active
              THEN [spent EXCEPT ![worker[w].code] = @ + 1] ELSE spent
  /\ Goes(w, "consuming")
  /\ UNCHANGED <<guard, phone, active, requests, sent, faults>>

\* The policy refuses the new password, or the transaction fails: the code stays.
ResetRefused(w) ==
  /\ At(w, "matched")
  /\ Release(w)
  /\ Ends(w)
  /\ UNCHANGED <<phone, active, requests, sent, spent, faults>>

\* delete_many takes the code that is stored by then, the failures and the lock.
ConsumeCode(w) ==
  /\ At(w, "consuming")
  /\ guard' = [guard EXCEPT ![worker[w].guard] =
       [code |-> NoCode, failures |-> 0, locked |-> FALSE, lease |-> NoWorker]]
  /\ IF worker[w].guard = "password-reset"
     THEN Ends(w) /\ UNCHANGED spent
     ELSE /\ Goes(w, "following")
          /\ spent' = [spent EXCEPT ![worker[w].code] = @ + 1]
  /\ UNCHANGED <<phone, active, requests, sent, faults>>

\* What the code was for, in a transaction of its own that looks again: the
\* phone goes to a new account, or to the profile, if nobody has it by then (the
\* column is unique).
Following(w, p) == At(w, "following") /\ worker[w].guard = p /\ Ends(w)

VerifySignupOtp(w) ==
  /\ Following(w, "signup")
  /\ phone' = IF phone = "nobody" THEN "customer" ELSE phone
  /\ UNCHANGED <<guard, active, requests, sent, spent, faults>>

VerifyPhoneVerification(w) ==
  /\ Following(w, "profile-phone")
  /\ phone' = IF phone = "nobody" /\ active THEN "profile" ELSE phone
  /\ UNCHANGED <<guard, active, requests, sent, spent, faults>>

\* A login writes nothing here: Sessions has its tokens.
VerifyLoginOtp(w) ==
  /\ Following(w, "login")
  /\ UNCHANGED <<guard, phone, active, requests, sent, spent, faults>>

-----------------------------------------------------------------------------
(* PasswordLoginGuard: no lease between ensure_unlocked and the outcome    *)

\* Mutant of RecordFailure: the guard takes a lease that nobody gives back.
RecordFailureLeased(w) ==
  /\ At(w, "asked")
  /\ worker[w].guard = "password"
  /\ guard' = [guard EXCEPT !["password"].failures = @ + 1, !["password"].lease = w]
  /\ Ends(w)
  /\ UNCHANGED <<phone, active, requests, sent, spent, faults>>

RecordFailure(w) ==
  /\ At(w, "asked")
  /\ worker[w].guard = "password"
  /\ LET failures == guard["password"].failures + 1
     IN  /\ guard' = [guard EXCEPT !["password"].failures = failures]
         /\ IF failures >= MaxAttempts THEN Goes(w, "locking") ELSE Ends(w)
  /\ UNCHANGED <<phone, active, requests, sent, spent, faults>>

ClearGuard(w) ==
  /\ At(w, "asked")
  /\ worker[w].guard = "password"
  /\ active
  /\ guard' = [guard EXCEPT !["password"].failures = 0, !["password"].locked = FALSE]
  /\ Ends(w)
  /\ UNCHANGED <<phone, active, requests, sent, spent, faults>>

-----------------------------------------------------------------------------
(* Time, staff and failures                                                *)

CodeExpires(p) ==
  /\ guard[p].code # NoCode
  /\ guard' = [guard EXCEPT ![p].code = NoCode]
  /\ UNCHANGED <<worker, phone, active, requests, sent, spent, faults>>

FailuresExpire(g) ==
  /\ guard[g].failures > 0
  /\ guard' = [guard EXCEPT ![g].failures = 0]
  /\ UNCHANGED <<worker, phone, active, requests, sent, spent, faults>>

\* The failures that set the lock expire before it (with the default settings 120
\* seconds against 300); a request that was under way may have begun to count anew
\* by then.
LockExpires(g) ==
  /\ guard[g].locked
  /\ guard[g].failures < MaxAttempts
  /\ guard' = [guard EXCEPT ![g].locked = FALSE]
  /\ UNCHANGED <<worker, phone, active, requests, sent, spent, faults>>

\* The lease of a dead request, or of one that takes longer than 5 seconds.
LeaseLapses(p) ==
  /\ guard[p].lease # NoWorker
  /\ LET holder == guard[p].lease
         atWork == worker[holder] # Idle /\ worker[holder].guard = p
     IN  /\ atWork => faults < MaxFaults
         /\ faults' = IF atWork THEN faults + 1 ELSE faults
  /\ guard' = [guard EXCEPT ![p].lease = NoWorker]
  /\ UNCHANGED <<worker, phone, active, requests, sent, spent>>

\* A worker dies, or loses the cache: its lease stays.
Dies(w) ==
  /\ worker[w] # Idle
  /\ faults < MaxFaults
  /\ faults' = faults + 1
  /\ Ends(w)
  /\ UNCHANGED <<guard, phone, active, requests, sent, spent>>

Deactivate ==
  /\ active
  /\ active' = FALSE
  /\ UNCHANGED <<guard, worker, phone, requests, sent, spent, faults>>

-----------------------------------------------------------------------------
Next ==
  \/ Deactivate
  \/ SendSignupOtp \/ SendLoginOtp \/ SendResetOtp \/ SendPhoneVerification
  \/ \E p \in Purposes : CodeExpires(p) \/ LeaseLapses(p)
  \/ \E g \in Guards : FailuresExpire(g) \/ LockExpires(g)
  \/ \E w \in Workers :
       \/ \E g \in Guards : Ask(w, g)
       \/ TakeLease(w) \/ CheckLock(w) \/ WrongCode(w) \/ LockGuard(w)
       \/ RightCode(w) \/ ResetPassword(w) \/ ResetRefused(w) \/ ConsumeCode(w)
       \/ VerifySignupOtp(w) \/ VerifyPhoneVerification(w) \/ VerifyLoginOtp(w)
       \/ RecordFailure(w) \/ ClearGuard(w) \/ Dies(w)

Spec == Init /\ [][Next]_vars

-----------------------------------------------------------------------------
(* What is checked                                                         *)

TypeOK ==
  /\ guard \in [Guards -> Keys]
  /\ guard["password"].code = NoCode /\ guard["password"].lease = NoWorker
  /\ worker \in [Workers -> {Idle} \cup Request \cup Match]
  /\ phone \in {"nobody", "customer", "profile"}
  /\ active \in BOOLEAN
  /\ requests \in 0..MaxRequests
  /\ sent \subseteq Codes
  /\ spent \in [Codes -> Nat]
  /\ faults \in 0..MaxFaults

\* docs/authentication.md: "A successful verification consumes the code, making
\* it single-use". However verifications of one code overlap, one of them
\* succeeds; each request that dies after its success and before its delete, and
\* each lease that lapses under its holder, may cost one more.
CodesAreSpentOnce == \A c \in Codes : spent[c] <= 1 + faults

\* The limit is on guesses, not on requests. Under the lease not one guess more
\* is made, but for requests that die before they lock and leases that lapse; a
\* password login has no lease, and every request that looked at the lock before
\* it was set adds one.
GuessesAreBounded ==
  /\ \A p \in Purposes : guard[p].failures <= MaxAttempts + faults
  /\ guard["password"].failures < MaxAttempts + Cardinality(Workers) + faults
=============================================================================
