------------------------------ MODULE Sessions ------------------------------
(***************************************************************************)
(* The sessions of one account of apps.users: its row, the refresh tokens  *)
(* of token_blacklist, and the requests that log in, rotate, log out,      *)
(* change the password or edit the row on the staff site, each served by a *)
(* worker that may die half-way.                                           *)
(*                                                                         *)
(* A password is the number of its hash: no two changes give one hash. A   *)
(* transaction that locks the account's row before it reads anything is    *)
(* one step, except the refresh, which a logout may overtake between its   *)
(* check and its rotation.                                                 *)
(***************************************************************************)
EXTENDS Integers, FiniteSets

CONSTANTS
  Workers,       \* web workers, each serving one request
  Tokens,        \* refresh tokens that may be issued
  MaxPasswords,  \* bound: password changes
  NoWorker

ASSUME SessionsAssumption ==
  /\ MaxPasswords \in Nat
  /\ Workers \cap Tokens = {}
  /\ NoWorker \notin Workers

VARIABLES
  account,   \* the row: its status and the number of its password
  lock,      \* the worker whose refresh holds the row's lock
  token,     \* the refresh tokens
  worker,    \* what each worker does
  \* History, for the properties only:
  outdated,  \* logins and tokens from before the last password change
  revoked,   \* sessions that were revoked as a whole
  reverted   \* a staff form put an older password back

history == <<outdated, revoked, reverted>>
vars == <<account, lock, token, worker, history>>

Passwords == 0..MaxPasswords

\* A session is named after the token its login issued; rotation keeps it. The
\* claim REVOKE_TOKEN_CLAIM is the password the token was issued for.
TokenRow ==
  [state : {"unissued", "live", "blacklisted"}, claim : Passwords, session : Tokens]

Idle == [at |-> "idle"]

Work ==
  {Idle} \cup [at : {"issuing", "editing"}, password : Passwords]
         \cup [at : {"rotating"}, token : Tokens]

Issued(t) == token[t].state # "unissued"
Unlocked == lock = NoWorker
Exists == account.status # "deleted"

Init ==
  /\ account = [status |-> "active", password |-> 0]
  /\ lock = NoWorker
  /\ token = [t \in Tokens |-> [state |-> "unissued", claim |-> 0, session |-> t]]
  /\ worker = [w \in Workers |-> Idle]
  /\ outdated = {}
  /\ revoked = {}
  /\ reverted = FALSE

-----------------------------------------------------------------------------
(* Issuing and revoking                                                    *)

\* login_with_username_password and verify_login_otp read an active user, no
\* lock held, and go on with what they read.
Login(w) ==
  /\ worker[w] = Idle
  /\ account.status = "active"
  /\ worker' = [worker EXCEPT ![w] = [at |-> "issuing", password |-> account.password]]
  /\ UNCHANGED <<account, lock, token, history>>

\* issue_tokens_for_user: a new outstanding token, outside every transaction,
\* that claims the password that was read.
IssueTokens(w) ==
  /\ worker[w].at = "issuing"
  /\ Exists
  /\ \E t \in Tokens :
       /\ ~Issued(t)
       /\ token' = [token EXCEPT
            ![t] = [state |-> "live", claim |-> worker[w].password, session |-> t]]
       /\ outdated' = IF w \in outdated THEN (outdated \ {w}) \cup {t} ELSE outdated
  /\ worker' = [worker EXCEPT ![w] = Idle]
  /\ UNCHANGED <<account, lock, revoked, reverted>>

\* revoke_user_refresh_tokens. A login that inserts its token between this scan
\* and the commit is, to everybody else, one that inserts it afterwards.
RevokeUserRefreshTokens ==
  /\ token' = [t \in Tokens |->
       IF Issued(t) THEN [token[t] EXCEPT !.state = "blacklisted"] ELSE token[t]]
  /\ revoked' = revoked \cup {token[t].session : t \in {x \in Tokens : Issued(x)}}

\* set_password and the revocation, in one transaction.
SetPassword ==
  /\ account.password < MaxPasswords
  /\ account' = [account EXCEPT !.password = @ + 1]
  /\ RevokeUserRefreshTokens
  /\ outdated' =
       {t \in Tokens : Issued(t)} \cup {w \in Workers : worker[w].at = "issuing"}

\* update_user_profile and change_user_password_service, of an active or an
\* inactive account; an unusable password is one more hash.
ChangePassword ==
  /\ Unlocked
  /\ Exists
  /\ SetPassword
  /\ UNCHANGED <<lock, worker, reverted>>

\* verify_and_reset_password: the same for an active account, whose owner then
\* gets a session for the row that was saved.
ResetPassword(w) ==
  /\ worker[w] = Idle
  /\ Unlocked
  /\ account.status = "active"
  /\ SetPassword
  /\ worker' = [worker EXCEPT ![w] = [at |-> "issuing", password |-> account.password + 1]]
  /\ UNCHANGED <<lock, reverted>>

-----------------------------------------------------------------------------
(* PasswordRevocationTokenRefreshSerializer.validate and logout_user       *)

\* Mutant of Accepted: the claim is not compared with the password.
AcceptsAnyClaim(t) ==
  /\ token[t].state = "live"
  /\ account.status = "active"

Accepted(t) ==
  /\ token[t].state = "live"
  /\ account.status = "active"
  /\ token[t].claim = account.password

\* Mutant of RefreshCheck: the row is read without select_for_update.
RefreshCheckUnlocked(w, t) ==
  /\ worker[w] = Idle
  /\ Accepted(t)
  /\ worker' = [worker EXCEPT ![w] = [at |-> "rotating", token |-> t]]
  /\ UNCHANGED <<account, lock, token, history>>

\* Under the row's lock: the account may log in, the claim is that of its
\* password and the token is not blacklisted. A refused request changes nothing.
RefreshCheck(w, t) ==
  /\ worker[w] = Idle
  /\ Unlocked
  /\ Accepted(t)
  /\ lock' = w
  /\ worker' = [worker EXCEPT ![w] = [at |-> "rotating", token |-> t]]
  /\ UNCHANGED <<account, token, history>>

\* The old token is blacklisted, also if a logout was faster; its successor
\* carries the claims of the old one.
RefreshRotate(w) ==
  /\ worker[w].at = "rotating"
  /\ LET old == worker[w].token
     IN  \E new \in Tokens :
           /\ ~Issued(new)
           /\ token' = [token EXCEPT ![old].state = "blacklisted",
                                     ![new] = [token[old] EXCEPT !.state = "live"]]
           /\ outdated' = IF old \in outdated THEN outdated \cup {new} ELSE outdated
  /\ lock' = NoWorker
  /\ worker' = [worker EXCEPT ![w] = Idle]
  /\ UNCHANGED <<account, revoked, reverted>>

\* The token is blacklisted without a look at the row or its lock.
Logout(t) ==
  /\ token[t].state = "live"
  /\ token' = [token EXCEPT ![t].state = "blacklisted"]
  /\ UNCHANGED <<account, lock, worker, history>>

-----------------------------------------------------------------------------
(* The staff site                                                          *)

\* The change form loads its object when it is posted, without a lock ...
OpenForm(w) ==
  /\ worker[w] = Idle
  /\ Exists
  /\ worker' = [worker EXCEPT ![w] = [at |-> "editing", password |-> account.password]]
  /\ UNCHANGED <<account, lock, token, history>>

\* ... and save_model locks the row, takes was_active from it, writes every
\* column of the object that was loaded, and revokes when it deactivates.
SaveForm(w, active) ==
  /\ worker[w].at = "editing"
  /\ Unlocked
  /\ Exists
  /\ account' = [status |-> IF active THEN "active" ELSE "inactive",
                 password |-> worker[w].password]
  /\ reverted' = (reverted \/ worker[w].password # account.password)
  /\ IF account.status = "active" /\ ~active
     THEN RevokeUserRefreshTokens
     ELSE UNCHANGED <<token, revoked>>
  /\ worker' = [worker EXCEPT ![w] = Idle]
  /\ UNCHANGED <<lock, outdated>>

\* delete_users_service, of an account without orders. The tokens lose their
\* user, and the refresh endpoint finds nobody.
DeleteUser ==
  /\ Unlocked
  /\ Exists
  /\ account' = [account EXCEPT !.status = "deleted"]
  /\ UNCHANGED <<lock, token, worker, history>>

\* Mutant of Dies: the transaction of a dead worker keeps its lock.
DiesLocked(w) ==
  /\ worker[w] # Idle
  /\ worker' = [worker EXCEPT ![w] = Idle]
  /\ outdated' = outdated \ {w}
  /\ UNCHANGED <<account, lock, token, revoked, reverted>>

\* A worker dies, or its row is gone: an open transaction is rolled back.
Dies(w) ==
  /\ worker[w] # Idle
  /\ worker' = [worker EXCEPT ![w] = Idle]
  /\ lock' = IF lock = w THEN NoWorker ELSE lock
  /\ outdated' = outdated \ {w}
  /\ UNCHANGED <<account, token, revoked, reverted>>

-----------------------------------------------------------------------------
Next ==
  \/ ChangePassword
  \/ DeleteUser
  \/ \E w \in Workers :
       \/ Login(w) \/ IssueTokens(w) \/ ResetPassword(w) \/ RefreshRotate(w)
       \/ OpenForm(w) \/ Dies(w)
       \/ \E active \in BOOLEAN : SaveForm(w, active)
  \/ \E t \in Tokens : Logout(t) \/ \E w \in Workers : RefreshCheck(w, t)

Spec == Init /\ [][Next]_vars

-----------------------------------------------------------------------------
(* What is checked                                                         *)

TypeOK ==
  /\ account \in [status : {"active", "inactive", "deleted"}, password : Passwords]
  /\ lock \in Workers \cup {NoWorker}
  /\ \A w \in Workers : lock = w <=> worker[w].at = "rotating"
  /\ token \in [Tokens -> TokenRow]
  /\ worker \in [Workers -> Work]
  /\ outdated \subseteq Tokens \cup Workers
  /\ revoked \subseteq Tokens
  /\ reverted \in BOOLEAN

\* docs/authentication.md: the refresh endpoint "cannot race a password change
\* into a usable session". No token of a login that read the row before the last
\* password change is accepted again, whenever the token was issued or rotated.
\* A staff form that writes an older hash back is excepted.
NoSessionCrossesPasswordChange ==
  reverted \/ \A t \in Tokens \cap outdated : ~Accepted(t)

\* A session has one token: two requests with one cookie never split it. And a
\* password change or a deactivation that runs against a rotation leaves no
\* successor behind, whatever becomes of the account later.
Heads(s) == {t \in Tokens : token[t].state = "live" /\ token[t].session = s}

SessionsEndWhole ==
  \A s \in Tokens : Cardinality(Heads(s)) <= IF s \in revoked THEN 0 ELSE 1

=============================================================================
