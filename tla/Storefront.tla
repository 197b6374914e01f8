----------------------------- MODULE Storefront -----------------------------
(***************************************************************************)
(* The session of the storefront in one browser: its tabs, the cookie they *)
(* share, the refresh tokens the server accepts, and the three calls that  *)
(* change them. Refresh and logout run under the Web Lock                  *)
(* "exon-auth-session", which every browser of today has; a login does not.*)
(*                                                                         *)
(* An answer and the code that awaits it are one step. Signup is a login.  *)
(* The access token is left out: it is there while a tab is authenticated. *)
(* The server's side is Sessions, without the staff and the password; its  *)
(* tokens are numbered as they are issued.                                 *)
(***************************************************************************)
EXTENDS Integers, FiniteSets

CONSTANTS
  Tabs,
  MaxTokens,   \* bound: refresh tokens the server issues
  MaxCuts,     \* bound: reloads of a tab, and calls given up that are served later
  NoToken,
  NoTab

ASSUME StorefrontAssumption ==
  /\ MaxTokens \in Nat \ {0}
  /\ MaxCuts \in Nat
  /\ NoToken \notin Nat
  /\ NoTab \notin Tabs

VARIABLES
  holder,     \* the tab whose call holds the session lock
  cookie,     \* exon_refresh_token in the cookie jar
  live,       \* the refresh tokens the server accepts
  issued,     \* how many it has issued
  tab,        \* tokenStore and AuthContext of each tab
  call,       \* the calls of each tab
  ghosts,     \* tokens of calls nobody waits for that the server is still to serve
  cuts,
  \* History, for the properties only:
  lost,       \* a call the server has served or may yet serve got no answer
  signedOut   \* a logout was answered, and there was no login since

history == <<lost, signedOut>>
vars == <<holder, cookie, live, issued, tab, call, ghosts, cuts, history>>

Tokens == 1..MaxTokens
Kinds == {"refresh", "login", "logout"}
NoCall == [at |-> "none", token |-> NoToken]

\* restoring is restoreAttempt. A call is the tab's refreshPromise, its
\* logoutInProgress or its login.
NewTab == [status |-> "initializing", restoring |-> FALSE]

Init ==
  /\ holder = NoTab
  /\ issued \in {0, 1}
  /\ cookie = IF issued = 0 THEN NoToken ELSE 1
  /\ live = 1..issued
  /\ tab = [t \in Tabs |-> NewTab]
  /\ call = [t \in Tabs |-> [k \in Kinds |-> NoCall]]
  /\ ghosts = {}
  /\ cuts = 0
  /\ lost = FALSE
  /\ signedOut = FALSE

At(t, k, step) == call[t][k].at = step
CallGoes(t, k, step, x) == call' = [call EXCEPT ![t][k] = [at |-> step, token |-> x]]
CallEnds(t, k) == call' = [call EXCEPT ![t][k] = NoCall]
Release(t) == holder' = IF holder = t THEN NoTab ELSE holder

\* No answer, or one of a gateway that gave up: the request never reached the
\* server, or it is served later, when nobody waits for it, or it was served.
Unanswered(t, k) ==
  \/ At(t, k, "sent") /\ UNCHANGED <<ghosts, cuts, lost>>
  \/ /\ At(t, k, "sent")
     /\ cuts < MaxCuts
     /\ cuts' = cuts + 1
     /\ ghosts' = ghosts \cup {call[t][k].token}
     /\ lost' = TRUE
  \/ At(t, k, "served") /\ lost' = TRUE /\ UNCHANGED <<ghosts, cuts>>

-----------------------------------------------------------------------------
(* refreshSession                                                          *)

\* During a logout it throws; else it joins the refresh under way or queues one.
LoggingOut(t) == ~At(t, "logout", "none")

QueueRefresh(t) ==
  IF At(t, "refresh", "none") THEN CallGoes(t, "refresh", "waiting", NoToken)
                              ELSE UNCHANGED call

\* restoreSession, once when the page mounts and from then on when asked to.
RestoreSession(t) ==
  /\ tab[t].status \in {"initializing", "restoration_error"}
  /\ ~tab[t].restoring
  /\ IF LoggingOut(t)
     THEN /\ tab' = [tab EXCEPT ![t].status = "restoration_error"]
          /\ UNCHANGED call
     ELSE /\ tab' = [tab EXCEPT ![t].status = "initializing", ![t].restoring = TRUE]
          /\ QueueRefresh(t)
  /\ UNCHANGED <<holder, cookie, live, issued, ghosts, cuts, history>>

\* request: a protected request is answered with a 401, and refreshes before it
\* is tried once more. One that is answered when the tab has signed out meanwhile
\* refreshes without a cookie, and is left out.
RequestRefused(t) ==
  /\ tab[t].status = "authenticated"
  /\ ~LoggingOut(t)
  /\ At(t, "refresh", "none")
  /\ QueueRefresh(t)
  /\ UNCHANGED <<holder, cookie, live, issued, tab, ghosts, cuts, history>>

\* Mutant of Enter: the logout does not wait for the lock.
EnterToLogout(t, k) ==
  /\ At(t, k, "waiting")
  /\ k = "refresh" => holder = NoTab
  /\ holder' = t
  /\ CallGoes(t, k, "sent", cookie)
  /\ UNCHANGED <<cookie, live, issued, tab, ghosts, cuts, history>>

\* Mutant of Enter: a refresh does not wait for the lock.
EnterToRefresh(t, k) ==
  /\ At(t, k, "waiting")
  /\ k = "logout" => holder = NoTab
  /\ holder' = t
  /\ CallGoes(t, k, "sent", cookie)
  /\ UNCHANGED <<cookie, live, issued, tab, ghosts, cuts, history>>

\* withSessionCookieLock. The cookie goes with the request as it is then.
Enter(t, k) ==
  /\ At(t, k, "waiting")
  /\ holder = NoTab
  /\ holder' = t
  /\ CallGoes(t, k, "sent", cookie)
  /\ UNCHANGED <<cookie, live, issued, tab, ghosts, cuts, history>>

\* The server rotates a token it accepts, and refuses any other.
ServeRefresh(t) ==
  /\ At(t, "refresh", "sent")
  /\ LET old == call[t]["refresh"].token
     IN  IF old \in live
         THEN /\ issued < MaxTokens
              /\ live' = (live \ {old}) \cup {issued + 1}
              /\ issued' = issued + 1
              /\ CallGoes(t, "refresh", "served", issued + 1)
         ELSE /\ CallGoes(t, "refresh", "served", NoToken)
              /\ UNCHANGED <<live, issued>>
  /\ UNCHANGED <<holder, cookie, tab, ghosts, cuts, history>>

\* A new cookie and an access token, and whoever waits to be restored is; or the
\* cookie is deleted, and so is all the tab knew.
RefreshAnswered(t) ==
  /\ At(t, "refresh", "served")
  /\ LET new == call[t]["refresh"].token
     IN  /\ cookie' = new
         /\ tab' = [tab EXCEPT ![t] =
              [status |-> IF new = NoToken THEN "anonymous"
                          ELSE IF tab[t].restoring THEN "authenticated" ELSE tab[t].status,
               restoring |-> FALSE]]
  /\ CallEnds(t, "refresh")
  /\ Release(t)
  /\ UNCHANGED <<live, issued, ghosts, cuts, history>>

\* Mutant of RefreshFails: restoreAttempt is not cleared.
RefreshFailsUnseen(t) ==
  /\ Unanswered(t, "refresh")
  /\ CallEnds(t, "refresh")
  /\ Release(t)
  /\ UNCHANGED <<cookie, live, issued, tab, signedOut>>

\* No answer, or one that is neither a token nor a 401. The server may have
\* rotated the token all the same, or rotate it later.
RefreshFails(t) ==
  /\ Unanswered(t, "refresh")
  /\ tab' = [tab EXCEPT ![t].status = "restoration_error", ![t].restoring = FALSE]
  /\ CallEnds(t, "refresh")
  /\ Release(t)
  /\ UNCHANGED <<cookie, live, issued, signedOut>>

-----------------------------------------------------------------------------
(* login, signup and logout                                                *)

Login(t) ==
  /\ tab[t].status = "anonymous"
  /\ At(t, "login", "none")
  /\ CallGoes(t, "login", "sent", NoToken)
  /\ signedOut' = FALSE
  /\ UNCHANGED <<holder, cookie, live, issued, tab, ghosts, cuts, lost>>

ServeLogin(t) ==
  /\ At(t, "login", "sent")
  /\ issued < MaxTokens
  /\ live' = live \cup {issued + 1}
  /\ issued' = issued + 1
  /\ CallGoes(t, "login", "served", issued + 1)
  /\ UNCHANGED <<holder, cookie, tab, ghosts, cuts, history>>

LoginAnswered(t) ==
  /\ At(t, "login", "served")
  /\ cookie' = call[t]["login"].token
  /\ tab' = [tab EXCEPT ![t].status = "authenticated"]
  /\ CallEnds(t, "login")
  /\ UNCHANGED <<holder, live, issued, ghosts, cuts, history>>

LoginFails(t) ==
  /\ ~At(t, "login", "none")
  /\ CallEnds(t, "login")
  /\ UNCHANGED <<holder, cookie, live, issued, tab, ghosts, cuts, history>>

Logout(t) ==
  /\ tab[t].status = "authenticated"
  /\ At(t, "logout", "none")
  /\ CallGoes(t, "logout", "waiting", NoToken)
  /\ UNCHANGED <<holder, cookie, live, issued, tab, ghosts, cuts, history>>

ServeLogout(t) ==
  /\ At(t, "logout", "sent")
  /\ live' = live \ {call[t]["logout"].token}
  /\ CallGoes(t, "logout", "served", NoToken)
  /\ UNCHANGED <<holder, cookie, issued, tab, ghosts, cuts, history>>

LogoutAnswered(t) ==
  /\ At(t, "logout", "served")
  /\ cookie' = NoToken
  /\ tab' = [tab EXCEPT ![t].status = "anonymous"]
  /\ signedOut' = (\A u \in Tabs : At(u, "login", "none"))
  /\ CallEnds(t, "logout")
  /\ Release(t)
  /\ UNCHANGED <<live, issued, ghosts, cuts, lost>>

\* Mutant of LogoutFails: the lock is not given back.
LogoutFailsLocked(t) ==
  /\ Unanswered(t, "logout")
  /\ CallEnds(t, "logout")
  /\ UNCHANGED <<holder, cookie, live, issued, tab, signedOut>>

\* The tab stays signed in, and may try again.
LogoutFails(t) ==
  /\ Unanswered(t, "logout")
  /\ CallEnds(t, "logout")
  /\ Release(t)
  /\ UNCHANGED <<cookie, live, issued, tab, signedOut>>

-----------------------------------------------------------------------------
(* A page that goes away                                                   *)

\* Its lock is released at once; what it sent may still reach the server, and
\* the answer finds nobody.
Reload(t) ==
  /\ cuts < MaxCuts
  /\ cuts' = cuts + 1
  /\ tab' = [tab EXCEPT ![t] = NewTab]
  /\ call' = [call EXCEPT ![t] = [k \in Kinds |-> NoCall]]
  /\ LET cut == {k \in {"refresh", "logout"} : call[t][k].at \in {"sent", "served"}}
     IN  /\ ghosts' = ghosts \cup {call[t][k].token : k \in {x \in cut : At(t, x, "sent")}}
         /\ lost' = (lost \/ cut # {})
  /\ Release(t)
  /\ UNCHANGED <<cookie, live, issued, signedOut>>

\* A refresh or a logout: the token ends, and nobody has the one that follows.
GhostServed(x) ==
  /\ x \in ghosts
  /\ live' = live \ {x}
  /\ ghosts' = ghosts \ {x}
  /\ UNCHANGED <<holder, cookie, issued, tab, call, cuts, history>>

-----------------------------------------------------------------------------
Next ==
  \/ \E t \in Tabs :
       \/ RestoreSession(t) \/ RequestRefused(t)
       \/ \E k \in {"refresh", "logout"} : Enter(t, k)
       \/ ServeRefresh(t) \/ RefreshAnswered(t) \/ RefreshFails(t)
       \/ Login(t) \/ ServeLogin(t) \/ LoginAnswered(t) \/ LoginFails(t)
       \/ Logout(t) \/ ServeLogout(t) \/ LogoutAnswered(t) \/ LogoutFails(t)
       \/ Reload(t)
  \/ \E x \in Tokens \cup {NoToken} : GhostServed(x)

Spec == Init /\ [][Next]_vars

\* A page mounts and restores; a call that was sent is answered or fails; the
\* lock is granted in the order it was asked for, so nobody waits for ever.
FairSpec ==
  /\ Spec
  /\ \A t \in Tabs :
       /\ WF_vars(tab[t].status = "initializing" /\ RestoreSession(t))
       /\ SF_vars(Enter(t, "refresh")) /\ SF_vars(Enter(t, "logout"))
       /\ WF_vars(RefreshAnswered(t) \/ RefreshFails(t))
       /\ WF_vars(LogoutAnswered(t) \/ LogoutFails(t))

-----------------------------------------------------------------------------
(* What is checked                                                         *)

TypeOK ==
  /\ holder \in Tabs \cup {NoTab}
  /\ \A t \in Tabs :
       holder = t <=> \E k \in {"refresh", "logout"} : At(t, k, "sent") \/ At(t, k, "served")
  /\ issued \in 0..MaxTokens
  /\ cookie \in 1..issued \cup {NoToken}
  /\ live \subseteq 1..issued
  /\ tab \in [Tabs -> [status : {"initializing", "anonymous", "authenticated",
                                 "restoration_error"},
                       restoring : BOOLEAN]]
  /\ call \in [Tabs -> [Kinds -> [at : {"none", "waiting", "sent", "served"},
                                  token : Tokens \cup {NoToken}]]]
  /\ ghosts \subseteq Tokens \cup {NoToken}
  /\ cuts \in 0..MaxCuts
  /\ lost \in BOOLEAN /\ signedOut \in BOOLEAN

\* A logout that was answered is the end of the session in every tab: until
\* somebody logs in again there is no cookie, and no refresh of another tab is
\* about to bring one.
LogoutEndsSession ==
  signedOut =>
    /\ cookie = NoToken
    /\ \A t \in Tabs : At(t, "refresh", "served") => call[t]["refresh"].token = NoToken

\* docs/security.md: refresh tokens rotate and the superseded value is
\* blacklisted. Tabs that refresh at the same time never present one token
\* twice, which would sign them all out: as long as no call that the server served,
\* or may serve later, went without its answer, every refresh carries a token the
\* server accepts, or none.
NoTabReplaysToken ==
  ~lost =>
    \A t \in Tabs : At(t, "refresh", "sent") => call[t]["refresh"].token \in live \cup {NoToken}

\* The start of a page never hangs: whatever the network, the other tabs and a
\* logout do, the visitor is signed in, anonymous or told of an error.
StartupEnds ==
  \A t \in Tabs :
    tab[t].status = "initializing" ~> tab[t].status # "initializing"
=============================================================================
