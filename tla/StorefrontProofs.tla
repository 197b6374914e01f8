-------------------------- MODULE StorefrontProofs --------------------------
(***************************************************************************)
(* What holds of Storefront for any number of tabs, tokens and reloads: a  *)
(* logout that was answered ends the session in every tab, and while no    *)
(* answer is lost no tab presents a token twice.                           *)
(***************************************************************************)
EXTENDS Storefront, TLAPS

Locking == {"refresh", "logout"}
TabStates == [status : {"initializing", "anonymous", "authenticated", "restoration_error"},
              restoring : BOOLEAN]
Busy(t, k) == At(t, k, "sent") \/ At(t, k, "served")

\* What a call carries was issued, and a tab has one call under the lock.
CallsSound ==
  \A t \in Tabs :
    /\ \A k \in Kinds : call[t][k].token \in 1..issued \cup {NoToken}
    /\ ~(Busy(t, "refresh") /\ Busy(t, "logout"))

\* Nobody is signed in after a logout was answered, nor about to be.
NobodyReturns ==
  signedOut =>
    /\ cookie = NoToken
    /\ \A t \in Tabs :
         /\ At(t, "login", "none")
         /\ Busy(t, "refresh") => call[t]["refresh"].token = NoToken

\* The token of a login is its own until the browser stores it: no other call
\* can end it.
LoginsAreOwn ==
  \A t \in Tabs :
    At(t, "login", "served") =>
      /\ call[t]["login"].token # NoToken
      /\ call[t]["login"].token # cookie
      /\ \A u \in Tabs, k \in Kinds :
           u # t \/ k # "login" => call[u][k].token # call[t]["login"].token

\* While every call is answered that the server served or may yet serve, the cookie
\* is a token the server accepts, unless a call that was served is about to replace
\* it; and so is what calls carry.
TokensLive ==
  /\ ghosts = {}
  /\ \A t \in Tabs :
       /\ Busy(t, "refresh") => call[t]["refresh"].token \in live \cup {NoToken}
       /\ At(t, "login", "served") => call[t]["login"].token \in live
  /\ (\A t \in Tabs, k \in Locking : ~At(t, k, "served")) => cookie \in live \cup {NoToken}

IInv ==
  /\ TypeOK
  /\ CallsSound
  /\ NobodyReturns
  /\ LoginsAreOwn
  /\ ~lost => TokensLive

-----------------------------------------------------------------------------
(* One call of one tab moves                                               *)

LEMMA OneCallMoves ==
  ASSUME TypeOK, NEW t \in Tabs, NEW k \in Kinds,
         NEW step \in {"none", "waiting", "sent", "served"}, NEW x \in Tokens \cup {NoToken},
         CallGoes(t, k, step, x)
  PROVE  /\ call' \in [Tabs -> [Kinds -> [at : {"none", "waiting", "sent", "served"},
                                          token : Tokens \cup {NoToken}]]]
         /\ call'[t][k].at = step /\ call'[t][k].token = x
         /\ \A u \in Tabs, j \in Kinds : u # t \/ j # k => call'[u][j] = call[u][j]
  BY DEF TypeOK, CallGoes

\* Only one call of all tabs is under the lock.
LEMMA LockIsOne ==
  ASSUME IInv
  PROVE  /\ \A t, u \in Tabs : \A j, k \in Locking : Busy(t, j) /\ Busy(u, k) => t = u /\ j = k
         /\ holder = NoTab => \A t \in Tabs, k \in Locking : ~Busy(t, k)
  BY StorefrontAssumption DEF IInv, TypeOK, CallsSound, Busy, Locking

LEMMA InitSatisfiesInvariant == Init => IInv
  <1> SUFFICES ASSUME Init PROVE IInv
    OBVIOUS
  <1>1. \A t \in Tabs, k \in Kinds : call[t][k].at = "none" /\ call[t][k].token = NoToken
    BY DEF Init, NoCall
  <1>2. TypeOK
    <2>1. issued \in 0..MaxTokens /\ cookie \in 1..issued \cup {NoToken} /\ live \subseteq 1..issued
      BY StorefrontAssumption DEF Init
    <2>2. /\ tab \in [Tabs -> [status : {"initializing", "anonymous", "authenticated",
                                       "restoration_error"},
                             restoring : BOOLEAN]]
          /\ call \in [Tabs -> [Kinds -> [at : {"none", "waiting", "sent", "served"},
                                          token : Tokens \cup {NoToken}]]]
      BY DEF Init, NewTab, NoCall
    <2>3. \A t \in Tabs : /\ holder # t
                          /\ \A k \in {"refresh", "logout"} :
                               ~At(t, k, "sent") /\ ~At(t, k, "served")
      BY <1>1, StorefrontAssumption DEF Init, At, Kinds
    <2>4. holder = NoTab /\ ghosts = {} /\ cuts \in 0..MaxCuts /\ lost = FALSE /\ signedOut = FALSE
      BY StorefrontAssumption DEF Init
    <2>5. QED
      BY <2>1, <2>2, <2>3, <2>4 DEF TypeOK
  <1>3. CallsSound
    BY <1>1 DEF CallsSound, Busy, At, Kinds
  <1>4. LoginsAreOwn
    BY <1>1 DEF LoginsAreOwn, At, Kinds
  <1>5. NobodyReturns
    BY DEF NobodyReturns, Init
  <1>6. TokensLive
    <2>1. cookie \in live \cup {NoToken} /\ ghosts = {}
      BY DEF Init
    <2>2. QED
      BY <1>1, <2>1 DEF TokensLive, Busy, At, Kinds
  <1>7. QED
    BY <1>2, <1>3, <1>4, <1>5, <1>6 DEF IInv


\* Logins have tokens of their own still, when the calls that moved carry none
\* or the cookie, and the new cookie is a token no login is about to bring.
LEMMA LoginsStayOwn ==
  ASSUME IInv,
         \A u \in Tabs : At(u, "login", "served")' => call'[u]["login"] = call[u]["login"],
         \A u \in Tabs, j \in Kinds :
           call'[u][j].token = NoToken \/ call'[u][j].token = call[u][j].token,
         \/ cookie' = NoToken \/ cookie' = cookie
         \/ \E v \in Tabs, j \in Kinds :
              /\ cookie' = call[v][j].token
              /\ j = "login" => ~At(v, "login", "served")'
  PROVE  LoginsAreOwn'
  <1> SUFFICES ASSUME NEW u \in Tabs, At(u, "login", "served")'
               PROVE  /\ call'[u]["login"].token # NoToken
                      /\ call'[u]["login"].token # cookie'
                      /\ \A v \in Tabs, j \in Kinds :
                           v # u \/ j # "login" => call'[v][j].token # call'[u]["login"].token
    BY DEF LoginsAreOwn
  <1>1. call'[u]["login"] = call[u]["login"] /\ At(u, "login", "served")
    BY DEF At
  <1>2. QED
    BY <1>1 DEF IInv, LoginsAreOwn

-----------------------------------------------------------------------------
(* What each call may do                                                   *)

\* A call moves outside of the lock and brings or ends no token: one that is
\* asked for, or a tab that takes note of something.
LEMMA QuietMove ==
  ASSUME IInv, NEW t \in Tabs, NEW k \in Kinds, NEW step \in {"none", "waiting"},
         ~Busy(t, k) \/ k = "login",
         CallGoes(t, k, step, NoToken),
         k = "login" => step = "none",
         UNCHANGED <<holder, cookie, live, issued, ghosts, cuts, history>>,
         tab' \in [Tabs -> TabStates]
  PROVE  IInv'
  <1>1. /\ call' \in [Tabs -> [Kinds -> [at : {"none", "waiting", "sent", "served"},
                                         token : Tokens \cup {NoToken}]]]
        /\ call'[t][k].at = step /\ call'[t][k].token = NoToken
        /\ \A u \in Tabs, j \in Kinds : u # t \/ j # k => call'[u][j] = call[u][j]
    <2>1. TypeOK /\ step \in {"none", "waiting", "sent", "served"} /\ NoToken \in Tokens \cup {NoToken}
      BY DEF IInv
    <2>2. QED
      BY <2>1, OneCallMoves
  <1>2. \A u \in Tabs, j \in Locking : Busy(u, j)' <=> Busy(u, j)
    BY <1>1 DEF Busy, At, Locking, Kinds
  <1>3. TypeOK'
    BY <1>1, <1>2 DEF IInv, TypeOK, Busy, Locking, TabStates, history
  <1>4. CallsSound'
    <2>1. \A u \in Tabs, j \in Kinds : call'[u][j].token \in 1..issued \cup {NoToken}
      BY <1>1 DEF IInv, CallsSound
    <2>2. QED
      BY <1>2, <2>1 DEF IInv, CallsSound, Locking
  <1>5. NobodyReturns'
    BY <1>1, <1>2 DEF IInv, NobodyReturns, Locking, history, At, Kinds
  <1>6. LoginsAreOwn'
    <2> SUFFICES ASSUME NEW u \in Tabs, At(u, "login", "served")'
                 PROVE  /\ call'[u]["login"].token # NoToken
                        /\ call'[u]["login"].token # cookie'
                        /\ \A v \in Tabs, j \in Kinds :
                             v # u \/ j # "login" => call'[v][j].token # call'[u]["login"].token
      BY DEF LoginsAreOwn
    <2>1. (u # t \/ k # "login") /\ call'[u]["login"] = call[u]["login"]
      BY <1>1 DEF At, Kinds
    <2>2. \A v \in Tabs, j \in Kinds :
            call'[v][j].token = NoToken \/ call'[v][j].token = call[v][j].token
      BY <1>1
    <2>3. QED
      BY <2>1, <2>2 DEF IInv, LoginsAreOwn, At
  <1>7. ~lost' => TokensLive'
    <2> SUFFICES ASSUME ~lost PROVE TokensLive'
      BY DEF history
    <2>1. \A u \in Tabs : /\ Busy(u, "refresh")' => call'[u]["refresh"] = call[u]["refresh"]
                          /\ At(u, "login", "served")' => call'[u]["login"] = call[u]["login"]
      BY <1>1, <1>2 DEF At, Busy, Locking, Kinds
    <2>2. \A u \in Tabs, j \in Locking : At(u, j, "served")' <=> At(u, j, "served")
      BY <1>1 DEF At, Busy, Locking, Kinds
    <2>3. \A u \in Tabs : /\ Busy(u, "refresh")' => call'[u]["refresh"].token \in live \cup {NoToken}
                          /\ At(u, "login", "served")' => call'[u]["login"].token \in live
      BY <1>2, <2>1 DEF IInv, TokensLive, At, Locking
    <2>4. QED
      BY <2>2, <2>3 DEF IInv, TokensLive
  <1>8. QED
    BY <1>3, <1>4, <1>5, <1>6, <1>7 DEF IInv

\* A tab takes note of something, and no call moves.
LEMMA TabOnly ==
  ASSUME IInv, tab' \in [Tabs -> TabStates],
         UNCHANGED <<holder, cookie, live, issued, call, ghosts, cuts, history>>
  PROVE  IInv'
  <1>1. TypeOK'
    BY DEF IInv, TypeOK, TabStates, At, history
  <1>2. CallsSound' /\ NobodyReturns' /\ LoginsAreOwn' /\ (~lost' => TokensLive')
    BY DEF IInv, CallsSound, NobodyReturns, LoginsAreOwn, TokensLive, Busy, At, history
  <1>3. QED
    BY <1>1, <1>2 DEF IInv

LEMMA EnterKeeps ==
  ASSUME IInv, NEW t \in Tabs, NEW k \in Locking, Enter(t, k)
  PROVE  IInv'
  <1>0. /\ k \in Kinds /\ cookie \in 1..issued \cup {NoToken} /\ cookie \in Tokens \cup {NoToken}
        /\ TypeOK /\ "sent" \in {"none", "waiting", "sent", "served"}
    BY StorefrontAssumption DEF IInv, TypeOK, Locking, Kinds, Tokens
  <1>1. /\ call' \in [Tabs -> [Kinds -> [at : {"none", "waiting", "sent", "served"},
                                         token : Tokens \cup {NoToken}]]]
        /\ call'[t][k].at = "sent" /\ call'[t][k].token = cookie
        /\ \A u \in Tabs, j \in Kinds : u # t \/ j # k => call'[u][j] = call[u][j]
    <2>1. CallGoes(t, k, "sent", cookie)
      BY DEF Enter
    <2>2. QED
      BY <1>0, <2>1, OneCallMoves
  <1>2. \A u \in Tabs, j \in Locking : /\ ~Busy(u, j)
                                       /\ Busy(u, j)' <=> u = t /\ j = k
    <2>1. \A u \in Tabs, j \in Locking : ~Busy(u, j)
      BY LockIsOne DEF Enter
    <2>2. QED
      BY <1>0, <1>1, <2>1 DEF Busy, At, Locking, Kinds
  <1>3. /\ holder = NoTab /\ holder' = t
        /\ UNCHANGED <<cookie, live, issued, tab, ghosts, cuts, lost, signedOut>>
    BY DEF Enter, history
  <1>4. TypeOK'
    BY <1>1, <1>2, <1>3, StorefrontAssumption DEF IInv, TypeOK, Busy, Locking
  <1>5. CallsSound'
    <2>1. \A u \in Tabs, j \in Kinds : call'[u][j].token \in 1..issued \cup {NoToken}
      BY <1>0, <1>1 DEF IInv, CallsSound
    <2>2. QED
      BY <1>2, <1>3, <2>1 DEF CallsSound, Locking
  <1>6. NobodyReturns'
    BY <1>0, <1>1, <1>2, <1>3 DEF IInv, NobodyReturns, At, Kinds, Locking
  <1>7. LoginsAreOwn'
    <2> SUFFICES ASSUME NEW u \in Tabs, At(u, "login", "served")'
                 PROVE  /\ call'[u]["login"].token # NoToken
                        /\ call'[u]["login"].token # cookie'
                        /\ \A v \in Tabs, j \in Kinds :
                             v # u \/ j # "login" => call'[v][j].token # call'[u]["login"].token
      BY DEF LoginsAreOwn
    <2>1. call'[u]["login"] = call[u]["login"]
      BY <1>1 DEF Kinds, Locking
    <2>2. \A v \in Tabs, j \in Kinds :
            call'[v][j].token = cookie \/ call'[v][j].token = call[v][j].token
      BY <1>1
    <2>3. QED
      BY <1>3, <2>1, <2>2 DEF IInv, LoginsAreOwn, At
  <1>8. ~lost' => TokensLive'
    <2> SUFFICES ASSUME ~lost PROVE TokensLive'
      BY <1>3
    <2>1. cookie \in live \cup {NoToken}
      BY <1>2 DEF IInv, TokensLive, Busy
    <2>2. \A u \in Tabs : /\ Busy(u, "refresh")' => call'[u]["refresh"].token \in live \cup {NoToken}
                          /\ At(u, "login", "served")' => call'[u]["login"].token \in live
      BY <1>0, <1>1, <1>2, <2>1 DEF IInv, TokensLive, At, Kinds, Locking
    <2>3. QED
      BY <1>3, <2>1, <2>2 DEF IInv, TokensLive
  <1>9. QED
    BY <1>4, <1>5, <1>6, <1>7, <1>8 DEF IInv

\* A call under the lock is served: one token may end, one may begin.
LEMMA ServeRefreshKeeps ==
  ASSUME IInv, NEW t \in Tabs, ServeRefresh(t)
  PROVE  IInv'
  <1> DEFINE old == call[t]["refresh"].token
  <1>0. /\ "refresh" \in Kinds /\ "login" \in Kinds /\ "refresh" # "login"
        /\ TypeOK /\ "served" \in {"none", "waiting", "sent", "served"}
        /\ issued \in 0..MaxTokens /\ MaxTokens \in Nat /\ live \subseteq 1..issued
        /\ cookie \in 1..issued \cup {NoToken} /\ NoToken \notin Nat
        /\ \A u \in Tabs, j \in Kinds : call[u][j].token \in 1..issued \cup {NoToken}
    BY StorefrontAssumption DEF IInv, TypeOK, CallsSound, Kinds
  <1>1. /\ At(t, "refresh", "sent")
        /\ UNCHANGED <<holder, cookie, tab, ghosts, cuts, lost, signedOut>>
    BY DEF ServeRefresh, history
  <1>2. PICK new \in Tokens \cup {NoToken} :
          /\ CallGoes(t, "refresh", "served", new)
          /\ \/ /\ new = issued + 1 /\ issued' = issued + 1 /\ issued < MaxTokens
                /\ old \in live /\ live' = (live \ {old}) \cup {new}
             \/ /\ new = NoToken /\ old \notin live /\ UNCHANGED <<live, issued>>
    <2>1. CASE old \in live
      <3>1. /\ issued < MaxTokens /\ issued + 1 \in Tokens \cup {NoToken}
            /\ live' = (live \ {old}) \cup {issued + 1} /\ issued' = issued + 1
            /\ CallGoes(t, "refresh", "served", issued + 1)
        BY <1>0, <2>1 DEF ServeRefresh, Tokens
      <3>2. QED
        BY <2>1, <3>1
    <2>2. CASE old \notin live
      BY <2>2 DEF ServeRefresh
    <2>3. QED
      BY <2>1, <2>2
  <1>3. /\ call' \in [Tabs -> [Kinds -> [at : {"none", "waiting", "sent", "served"},
                                         token : Tokens \cup {NoToken}]]]
        /\ call'[t]["refresh"].at = "served" /\ call'[t]["refresh"].token = new
        /\ \A u \in Tabs, j \in Kinds : u # t \/ j # "refresh" => call'[u][j] = call[u][j]
    BY <1>0, <1>2, OneCallMoves
  <1>4. \A u \in Tabs, j \in Locking : Busy(u, j)' <=> Busy(u, j)
    BY <1>1, <1>3 DEF Busy, At, Locking, Kinds
  <1>5. /\ issued' \in 0..MaxTokens /\ live' \subseteq 1..issued' /\ 1..issued \subseteq 1..issued'
        /\ new \in 1..issued' \cup {NoToken} /\ new \notin 1..issued
        /\ new # NoToken => new \in live'
    <2>1. CASE new = issued + 1 /\ issued' = issued + 1 /\ issued < MaxTokens
               /\ live' = (live \ {old}) \cup {new}
      <3>1. issued + 1 \in 0..MaxTokens /\ issued + 1 \in 1..issued + 1
            /\ 1..issued \subseteq 1..issued + 1 /\ issued + 1 \notin 1..issued
        BY <1>0, <2>1
      <3>2. live' \subseteq live \cup {new} /\ new \in live'
        BY <2>1
      <3>3. live' \subseteq 1..issued'
        BY ONLY <3>1, <3>2, <2>1, <1>0
      <3>4. QED
        BY <2>1, <3>1, <3>2, <3>3
    <2>2. CASE new = NoToken /\ UNCHANGED <<live, issued>>
      BY <1>0, <2>2
    <2>3. QED
      BY <1>2, <2>1, <2>2
  <1>6. TypeOK'
    BY <1>0, <1>1, <1>3, <1>4, <1>5 DEF TypeOK, Busy, Locking
  <1>7. CallsSound'
    <2>1. \A u \in Tabs, j \in Kinds : call'[u][j].token \in 1..issued' \cup {NoToken}
      <3>1. \A u \in Tabs, j \in Kinds :
              call'[u][j].token = new \/ call'[u][j].token = call[u][j].token
        BY <1>3
      <3>2. QED
        BY <1>0, <1>5, <3>1
    <2>2. QED
      BY <1>4, <2>1 DEF IInv, CallsSound, Locking
  <1>8. NobodyReturns'
    <2> SUFFICES ASSUME signedOut PROVE NobodyReturns'
      BY <1>1 DEF NobodyReturns
    <2>1. new = NoToken
      <3>1. old = NoToken
        BY <1>1 DEF IInv, NobodyReturns, Busy
      <3>2. old \notin live
        <4>1. \A x \in live : x \in Nat
          BY <1>0
        <4>2. QED
          BY <1>0, <3>1, <4>1
      <3>3. QED
        BY <1>2, <3>2
    <2>2. QED
      <3>1. \A u \in Tabs : call'[u]["login"] = call[u]["login"]
        BY <1>0, <1>3
      <3>2. \A u \in Tabs :
              Busy(u, "refresh")' => u = t \/ (Busy(u, "refresh") /\ call'[u]["refresh"] = call[u]["refresh"])
        BY <1>0, <1>3, <1>4 DEF Locking
      <3>3. QED
        BY <1>1, <1>3, <2>1, <3>1, <3>2 DEF IInv, NobodyReturns, At
  <1>9. LoginsAreOwn'
    <2> SUFFICES ASSUME NEW u \in Tabs, At(u, "login", "served")'
                 PROVE  /\ call'[u]["login"].token # NoToken
                        /\ call'[u]["login"].token # cookie'
                        /\ \A v \in Tabs, j \in Kinds :
                             v # u \/ j # "login" => call'[v][j].token # call'[u]["login"].token
      BY DEF LoginsAreOwn
    <2>1. call'[u]["login"] = call[u]["login"] /\ call[u]["login"].token \in 1..issued
      BY <1>0, <1>3 DEF IInv, LoginsAreOwn, At
    <2>2. \A v \in Tabs, j \in Kinds :
            call'[v][j].token = new \/ call'[v][j].token = call[v][j].token
      BY <1>3
    <2>3. QED
      BY <1>0, <1>1, <1>5, <2>1, <2>2 DEF IInv, LoginsAreOwn, At
  <1>10. ~lost' => TokensLive'
    <2> SUFFICES ASSUME ~lost PROVE TokensLive'
      BY <1>1
    <2>1. \A u \in Tabs : Busy(u, "refresh")' => call'[u]["refresh"].token \in live' \cup {NoToken}
      <3>1. \A u \in Tabs : Busy(u, "refresh")' => u = t
        BY <1>1, <1>4, LockIsOne DEF Locking, Busy
      <3>2. QED
        BY <1>3, <1>5, <3>1
    <2>2. \A u \in Tabs : At(u, "login", "served")' => call'[u]["login"].token \in live'
      <3> SUFFICES ASSUME NEW u \in Tabs, At(u, "login", "served")'
                   PROVE  call'[u]["login"].token \in live'
        OBVIOUS
      <3>1. call'[u]["login"] = call[u]["login"] /\ At(u, "login", "served")
        BY <1>0, <1>3 DEF At
      <3>2. call[u]["login"].token \in live /\ call[u]["login"].token # old
        BY <1>0, <3>1 DEF IInv, TokensLive, LoginsAreOwn
      <3>3. QED
        BY <1>2, <3>1, <3>2
    <2>3. QED
      BY <1>1, <1>3, <2>1, <2>2 DEF IInv, TokensLive, At, Locking
  <1>11. QED
    BY <1>6, <1>7, <1>8, <1>9, <1>10 DEF IInv

\* A call under the lock ends: the lock is free, and the cookie is the one the
\* answer brought, or the one it was. If it got no answer its token may be left on
\* the way.
LEMMA EndKeeps ==
  ASSUME IInv, NEW t \in Tabs, NEW k \in Locking, Busy(t, k),
         CallEnds(t, k), Release(t),
         tab' \in [Tabs -> TabStates],
         UNCHANGED <<live, issued>>, cuts' \in 0..MaxCuts,
         ghosts' \subseteq Tokens \cup {NoToken},
         ~lost' => ghosts' = ghosts,
         lost' \in BOOLEAN, signedOut' \in BOOLEAN,
         lost => lost',
         \/ cookie' = cookie /\ (~lost' => ~At(t, k, "served"))
         \/ cookie' = NoToken
         \/ cookie' = call[t][k].token /\ k = "refresh",
         signedOut' => /\ cookie' = NoToken
                       /\ \A u \in Tabs : At(u, "login", "none")
  PROVE  IInv'
  <1>0. /\ TypeOK /\ "none" \in {"none", "waiting", "sent", "served"}
        /\ {"refresh", "logout", "login"} \subseteq Kinds /\ Locking \subseteq Kinds
        /\ NoToken \in Tokens \cup {NoToken}
        /\ \A u \in Tabs, j \in Kinds : call[u][j].token \in 1..issued \cup {NoToken}
    BY DEF IInv, CallsSound, Kinds, Locking
  <1>1. /\ call' \in [Tabs -> [Kinds -> [at : {"none", "waiting", "sent", "served"},
                                         token : Tokens \cup {NoToken}]]]
        /\ call'[t][k].at = "none" /\ call'[t][k].token = NoToken
        /\ \A u \in Tabs, j \in Kinds : u # t \/ j # k => call'[u][j] = call[u][j]
    <2>1. CallGoes(t, k, "none", NoToken)
      BY DEF CallEnds, CallGoes, NoCall
    <2>2. QED
      BY <1>0, <2>1, OneCallMoves
  <1>2. \A u \in Tabs, j \in Locking : ~Busy(u, j)'
    <2>1. \A u \in Tabs, j \in Locking : Busy(u, j) => u = t /\ j = k
      BY LockIsOne
    <2>2. ~Busy(t, k)'
      BY <1>1 DEF Busy, At
    <2>3. \A u \in Tabs, j \in Locking : u # t \/ j # k => (Busy(u, j)' <=> Busy(u, j))
      BY <1>0, <1>1 DEF Busy, At
    <2>4. QED
      BY <2>1, <2>2, <2>3
  <1>3. \A u \in Tabs : call'[u]["login"] = call[u]["login"]
    BY <1>0, <1>1 DEF Locking
  <1>4. holder' = NoTab
    <2>1. holder = t
      BY DEF IInv, TypeOK, Busy, Locking
    <2>2. QED
      BY <2>1 DEF Release
  <1>5. cookie' \in 1..issued \cup {NoToken}
    BY <1>0 DEF IInv, TypeOK
  <1>6. TypeOK'
    <2>1. \A u \in Tabs : holder' # u /\ \A j \in {"refresh", "logout"} :
                            ~At(u, j, "sent")' /\ ~At(u, j, "served")'
      BY <1>2, <1>4, StorefrontAssumption DEF Busy, Locking
    <2>2. QED
      BY <1>0, <1>1, <1>4, <1>5, <2>1 DEF TypeOK, TabStates
  <1>7. CallsSound'
    <2>1. \A u \in Tabs, j \in Kinds : call'[u][j].token \in 1..issued \cup {NoToken}
      <3>1. \A u \in Tabs, j \in Kinds :
              call'[u][j].token = NoToken \/ call'[u][j].token = call[u][j].token
        BY <1>1
      <3>2. QED
        BY <1>0, <3>1
    <2>2. QED
      BY <1>2, <2>1 DEF CallsSound, Locking
  <1>8. NobodyReturns'
    BY <1>2, <1>3 DEF NobodyReturns, At, Locking
  <1>9. LoginsAreOwn'
    <2>1. \A u \in Tabs : At(u, "login", "served")' => call'[u]["login"] = call[u]["login"]
      BY <1>3
    <2>2. \A u \in Tabs, j \in Kinds :
            call'[u][j].token = NoToken \/ call'[u][j].token = call[u][j].token
      BY <1>1
    <2>3. \/ cookie' = NoToken \/ cookie' = cookie
          \/ \E v \in Tabs, j \in Kinds :
               /\ cookie' = call[v][j].token
               /\ j = "login" => ~At(v, "login", "served")'
      BY <1>0
    <2>4. QED
      BY <2>1, <2>2, <2>3, LoginsStayOwn
  <1>10. ~lost' => TokensLive'
    <2> SUFFICES ASSUME ~lost, ~lost' PROVE TokensLive'
      OBVIOUS
    <2>1. cookie' \in live \cup {NoToken}
      <3>1. \A u \in Tabs, j \in Locking : Busy(u, j) => u = t /\ j = k
        BY LockIsOne
      <3>2. CASE cookie' = cookie /\ ~At(t, k, "served")
        BY <3>1, <3>2 DEF IInv, TokensLive, Busy
      <3>3. CASE cookie' = call[t][k].token /\ k = "refresh"
        BY <3>3 DEF IInv, TokensLive
      <3>4. QED
        BY <3>2, <3>3
    <2>2. QED
      BY <1>2, <1>3, <2>1 DEF IInv, TokensLive, At, Locking
  <1>11. QED
    BY <1>6, <1>7, <1>8, <1>9, <1>10 DEF IInv

\* The server serves a logout: the token it carries ends.
LEMMA ServeLogoutKeeps ==
  ASSUME IInv, NEW t \in Tabs, ServeLogout(t)
  PROVE  IInv'
  <1>0. /\ TypeOK /\ "served" \in {"none", "waiting", "sent", "served"}
        /\ {"refresh", "logout", "login"} \subseteq Kinds /\ Locking \subseteq Kinds
        /\ NoToken \in Tokens \cup {NoToken}
        /\ \A u \in Tabs, j \in Kinds : call[u][j].token \in 1..issued \cup {NoToken}
    BY DEF IInv, CallsSound, Kinds, Locking
  <1>1. /\ call' \in [Tabs -> [Kinds -> [at : {"none", "waiting", "sent", "served"},
                                         token : Tokens \cup {NoToken}]]]
        /\ call'[t]["logout"].at = "served" /\ call'[t]["logout"].token = NoToken
        /\ \A u \in Tabs, j \in Kinds : u # t \/ j # "logout" => call'[u][j] = call[u][j]
    <2>1. CallGoes(t, "logout", "served", NoToken)
      BY DEF ServeLogout
    <2>2. QED
      BY <1>0, <2>1, OneCallMoves
  <1>2. /\ At(t, "logout", "sent") /\ live' = live \ {call[t]["logout"].token}
        /\ UNCHANGED <<holder, cookie, issued, tab, ghosts, cuts, lost, signedOut>>
    BY DEF ServeLogout, history
  <1>3. \A u \in Tabs, j \in Locking : /\ Busy(u, j)' <=> Busy(u, j)
                                       /\ Busy(u, j) => u = t /\ j = "logout"
    <2>1. Busy(t, "logout") /\ Busy(t, "logout")' /\ "logout" \in Locking
      BY <1>1, <1>2 DEF Busy, At, Locking
    <2>2. \A u \in Tabs, j \in Locking : Busy(u, j) => u = t /\ j = "logout"
      BY <2>1, LockIsOne
    <2>3. \A u \in Tabs, j \in Locking : u # t \/ j # "logout" => (Busy(u, j)' <=> Busy(u, j))
      BY <1>0, <1>1 DEF Busy, At
    <2>4. QED
      BY <2>1, <2>2, <2>3
  <1>4. \A u \in Tabs : call'[u]["login"] = call[u]["login"]
    BY <1>0, <1>1
  <1>5. TypeOK'
    BY <1>0, <1>1, <1>2, <1>3 DEF TypeOK, Busy, Locking
  <1>6. CallsSound'
    <2>1. \A u \in Tabs, j \in Kinds : call'[u][j].token \in 1..issued \cup {NoToken}
      <3>1. \A u \in Tabs, j \in Kinds :
              call'[u][j].token = NoToken \/ call'[u][j].token = call[u][j].token
        BY <1>1
      <3>2. QED
        BY <1>0, <3>1
    <2>2. QED
      BY <1>2, <1>3, <2>1 DEF IInv, CallsSound, Locking
  <1>7. NobodyReturns'
    BY <1>2, <1>3, <1>4 DEF IInv, NobodyReturns, At, Locking
  <1>8. LoginsAreOwn'
    <2>1. \A u \in Tabs, j \in Kinds :
            call'[u][j].token = NoToken \/ call'[u][j].token = call[u][j].token
      BY <1>1
    <2>2. QED
      BY <1>2, <1>4, <2>1, LoginsStayOwn
  <1>9. ~lost' => TokensLive'
    <2> SUFFICES ASSUME ~lost PROVE TokensLive'
      BY <1>2
    <2>1. \A u \in Tabs : At(u, "login", "served")' => call'[u]["login"].token \in live'
      BY <1>0, <1>2, <1>4 DEF IInv, TokensLive, LoginsAreOwn, At
    <2>2. At(t, "logout", "served")' /\ "logout" \in Locking
      BY <1>1 DEF At, Locking
    <2>3. QED
      BY <1>2, <1>3, <2>1, <2>2 DEF IInv, TokensLive, Locking
  <1>10. QED
    BY <1>5, <1>6, <1>7, <1>8, <1>9 DEF IInv

\* A login moves, and nothing under the lock does.
LEMMA LoginKeeps ==
  ASSUME IInv, NEW t \in Tabs, Login(t) \/ LoginAnswered(t)
  PROVE  IInv'
  <1> DEFINE step == IF Login(t) THEN "sent" ELSE "none"
  <1>0. /\ TypeOK /\ step \in {"none", "waiting", "sent", "served"}
        /\ {"refresh", "logout", "login"} \subseteq Kinds /\ Locking \subseteq Kinds
        /\ NoToken \in Tokens \cup {NoToken}
        /\ \A u \in Tabs, j \in Kinds : call[u][j].token \in 1..issued \cup {NoToken}
    BY DEF IInv, CallsSound, Kinds, Locking
  <1>1. /\ call' \in [Tabs -> [Kinds -> [at : {"none", "waiting", "sent", "served"},
                                         token : Tokens \cup {NoToken}]]]
        /\ call'[t]["login"].at = step /\ call'[t]["login"].token = NoToken
        /\ \A u \in Tabs, j \in Kinds : u # t \/ j # "login" => call'[u][j] = call[u][j]
    <2>1. CallGoes(t, "login", step, NoToken)
      BY DEF Login, LoginAnswered, CallEnds, CallGoes, NoCall
    <2>2. QED
      BY <1>0, <2>1, OneCallMoves
  <1>2. \A u \in Tabs, j \in Locking : call'[u][j] = call[u][j]
    BY <1>0, <1>1 DEF Locking
  <1>3. /\ UNCHANGED <<holder, live, issued, ghosts, cuts, lost>>
        /\ tab' \in [Tabs -> TabStates]
        /\ \/ cookie' = cookie
           \/ cookie' = call[t]["login"].token /\ At(t, "login", "served")
        /\ ~signedOut' /\ signedOut' \in BOOLEAN
    <2>1. CASE Login(t)
      BY <2>1, <1>0 DEF Login, TypeOK, TabStates
    <2>2. CASE LoginAnswered(t)
      <3>1. ~signedOut
        BY <2>2 DEF IInv, NobodyReturns, LoginAnswered, At
      <3>2. QED
        BY <2>2, <3>1, <1>0 DEF LoginAnswered, TypeOK, TabStates, history
    <2>3. QED
      BY <2>1, <2>2
  <1>4. ~At(t, "login", "served")'
    BY <1>1 DEF At
  <1>5. TypeOK'
    BY <1>0, <1>1, <1>2, <1>3 DEF TypeOK, At, Locking, TabStates
  <1>6. CallsSound'
    <2>1. \A u \in Tabs, j \in Kinds : call'[u][j].token \in 1..issued \cup {NoToken}
      <3>1. \A u \in Tabs, j \in Kinds :
              call'[u][j].token = NoToken \/ call'[u][j].token = call[u][j].token
        BY <1>1
      <3>2. QED
        BY <1>0, <3>1
    <2>2. QED
      BY <1>2, <1>3, <2>1 DEF IInv, CallsSound, Busy, At, Locking
  <1>7. NobodyReturns'
    BY <1>3 DEF NobodyReturns
  <1>8. LoginsAreOwn'
    <2>1. \A u \in Tabs : At(u, "login", "served")' => call'[u]["login"] = call[u]["login"]
      BY <1>0, <1>1, <1>4
    <2>2. \A u \in Tabs, j \in Kinds :
            call'[u][j].token = NoToken \/ call'[u][j].token = call[u][j].token
      BY <1>1
    <2>3. \/ cookie' = cookie
          \/ cookie' = call[t]["login"].token /\ ~At(t, "login", "served")' /\ "login" \in Kinds
      BY <1>0, <1>3, <1>4
    <2>4. QED
      BY <2>1, <2>2, <2>3, LoginsStayOwn
  <1>9. ~lost' => TokensLive'
    <2> SUFFICES ASSUME ~lost PROVE TokensLive'
      BY <1>3
    <2>1. \A u \in Tabs : At(u, "login", "served")' =>
            call'[u]["login"].token \in live /\ At(u, "login", "served")
      BY <1>0, <1>1, <1>4 DEF IInv, TokensLive, At
    <2>2. cookie' = cookie \/ cookie' \in live
      BY <1>3 DEF IInv, TokensLive
    <2>3. QED
      BY <1>2, <1>3, <2>1, <2>2 DEF IInv, TokensLive, Busy, At, Locking
  <1>10. QED
    BY <1>5, <1>6, <1>7, <1>8, <1>9 DEF IInv

LEMMA ServeLoginKeeps ==
  ASSUME IInv, NEW t \in Tabs, ServeLogin(t)
  PROVE  IInv'
  <1> DEFINE new == issued + 1
  <1>0. /\ TypeOK /\ "served" \in {"none", "waiting", "sent", "served"}
        /\ {"refresh", "logout", "login"} \subseteq Kinds /\ Locking \subseteq Kinds
        /\ \A u \in Tabs, j \in Kinds : call[u][j].token \in 1..issued \cup {NoToken}
        /\ At(t, "login", "sent") /\ issued < MaxTokens
        /\ live' = live \cup {new} /\ issued' = new
        /\ UNCHANGED <<holder, cookie, tab, ghosts, cuts, lost, signedOut>>
    BY DEF IInv, CallsSound, Kinds, Locking, ServeLogin, history
  <1>1. /\ new \in Tokens /\ new \in 0..MaxTokens /\ new \in 1..new /\ new \notin 1..issued
        /\ 1..issued \subseteq 1..new /\ new # NoToken
    BY <1>0, StorefrontAssumption DEF TypeOK, Tokens
  <1>2. /\ call' \in [Tabs -> [Kinds -> [at : {"none", "waiting", "sent", "served"},
                                         token : Tokens \cup {NoToken}]]]
        /\ call'[t]["login"].at = "served" /\ call'[t]["login"].token = new
        /\ \A u \in Tabs, j \in Kinds : u # t \/ j # "login" => call'[u][j] = call[u][j]
    <2>1. CallGoes(t, "login", "served", new) /\ new \in Tokens \cup {NoToken}
      BY <1>1 DEF ServeLogin
    <2>2. QED
      BY <1>0, <2>1, OneCallMoves
  <1> HIDE DEF new
  <1>3. \A u \in Tabs, j \in Locking : call'[u][j] = call[u][j]
    BY <1>0, <1>2 DEF Locking
  <1>4. TypeOK'
    BY <1>0, <1>1, <1>2, <1>3 DEF TypeOK, At, Locking
  <1>5. CallsSound'
    <2>1. \A u \in Tabs, j \in Kinds : call'[u][j].token \in 1..issued' \cup {NoToken}
      <3>1. \A u \in Tabs, j \in Kinds :
              call'[u][j].token = new \/ call'[u][j].token = call[u][j].token
        BY <1>2
      <3>2. QED
        BY <1>0, <1>1, <3>1
    <2>2. QED
      BY <1>3, <2>1 DEF IInv, CallsSound, Busy, At, Locking
  <1>6. NobodyReturns'
    BY <1>0 DEF IInv, NobodyReturns, At
  <1>7. LoginsAreOwn'
    <2> SUFFICES ASSUME NEW u \in Tabs, At(u, "login", "served")'
                 PROVE  /\ call'[u]["login"].token # NoToken
                        /\ call'[u]["login"].token # cookie
                        /\ \A v \in Tabs, j \in Kinds :
                             v # u \/ j # "login" => call'[v][j].token # call'[u]["login"].token
      BY <1>0 DEF LoginsAreOwn
    <2>1. cookie # new /\ \A v \in Tabs, j \in Kinds : call[v][j].token # new
      <3>1. cookie \in 1..issued \cup {NoToken}
        BY <1>0 DEF TypeOK
      <3>2. QED
        BY <1>0, <1>1, <3>1
    <2>2. CASE u = t
      <3>1. \A v \in Tabs, j \in Kinds :
              v # u \/ j # "login" => call'[v][j].token = call[v][j].token
        BY <1>2, <2>2
      <3>2. QED
        BY <1>1, <1>2, <2>1, <2>2, <3>1
    <2>3. CASE u # t
      <3>1. call'[u]["login"] = call[u]["login"] /\ At(u, "login", "served")
        BY <1>0, <1>2, <2>3 DEF At
      <3>2. call[u]["login"].token # new
        BY <1>0, <2>1
      <3>3. \A v \in Tabs, j \in Kinds :
              call'[v][j].token = new \/ call'[v][j].token = call[v][j].token
        BY <1>2
      <3>4. QED
        BY <3>1, <3>2, <3>3 DEF IInv, LoginsAreOwn
    <2>4. QED
      BY <2>2, <2>3
  <1>8. ~lost' => TokensLive'
    <2> SUFFICES ASSUME ~lost PROVE TokensLive'
      BY <1>0
    <2>1. \A u \in Tabs : At(u, "login", "served")' => call'[u]["login"].token \in live'
      BY <1>0, <1>2 DEF IInv, TokensLive, At
    <2>2. QED
      BY <1>0, <1>3, <2>1 DEF IInv, TokensLive, Busy, At, Locking
  <1>9. QED
    BY <1>4, <1>5, <1>6, <1>7, <1>8 DEF IInv

-----------------------------------------------------------------------------
(* A page that goes away                                                   *)

LEMMA ReloadKeeps ==
  ASSUME IInv, NEW t \in Tabs, Reload(t)
  PROVE  IInv'
  <1>0. /\ TypeOK /\ {"refresh", "logout", "login"} \subseteq Kinds /\ Locking \subseteq Kinds
        /\ \A u \in Tabs, j \in Kinds : call[u][j].token \in 1..issued \cup {NoToken}
        /\ UNCHANGED <<cookie, live, issued, signedOut>>
    BY DEF IInv, CallsSound, Kinds, Locking, Reload
  <1>1. /\ call' \in [Tabs -> [Kinds -> [at : {"none", "waiting", "sent", "served"},
                                         token : Tokens \cup {NoToken}]]]
        /\ \A j \in Kinds : call'[t][j].at = "none" /\ call'[t][j].token = NoToken
        /\ \A u \in Tabs \ {t} : call'[u] = call[u]
    BY <1>0 DEF Reload, TypeOK, NoCall
  <1>2. PICK cut \in SUBSET {"refresh", "logout"} :
          /\ cut = {k \in {"refresh", "logout"} : Busy(t, k)}
          /\ ghosts' = ghosts \cup {call[t][k].token : k \in {x \in cut : At(t, x, "sent")}}
          /\ lost' = (lost \/ cut # {})
    BY DEF Reload, Busy, At
  <1>3. \A u \in Tabs, j \in Locking : Busy(u, j)' <=> u # t /\ Busy(u, j)
    BY <1>0, <1>1 DEF Busy, At
  <1>4. holder' = IF holder = t THEN NoTab ELSE holder
    BY DEF Reload, Release
  <1>5. TypeOK'
    <2>1. \A u \in Tabs : holder' = u <=> \E k \in {"refresh", "logout"} :
                            At(u, k, "sent")' \/ At(u, k, "served")'
      <3>1. \A u \in Tabs : holder = u <=> \E k \in {"refresh", "logout"} : Busy(u, k)
        BY <1>0 DEF TypeOK, Busy
      <3>2. \A u \in Tabs : holder' = u <=> u # t /\ holder = u
        BY <1>4, StorefrontAssumption
      <3>3. QED
        BY <1>3, <3>1, <3>2 DEF Busy, Locking
    <2>2. holder' \in Tabs \cup {NoTab} /\ lost' \in BOOLEAN
      BY <1>0, <1>2, <1>4 DEF TypeOK
    <2>3. ghosts' \subseteq Tokens \cup {NoToken}
      <3>1. \A k \in cut : call[t][k].token \in Tokens \cup {NoToken}
        <4>1. 1..issued \subseteq Tokens
          BY <1>0, StorefrontAssumption DEF TypeOK, Tokens
        <4>2. QED
          BY <1>0, <4>1
      <3>2. QED
        BY <1>0, <1>2, <3>1 DEF TypeOK
    <2>4. cuts' \in 0..MaxCuts /\ tab' \in [Tabs -> TabStates]
      BY <1>0, StorefrontAssumption DEF Reload, TypeOK, TabStates, NewTab
    <2>5. QED
      BY <1>0, <1>1, <2>1, <2>2, <2>3, <2>4 DEF TypeOK, TabStates
  <1>6. CallsSound'
    <2>1. \A u \in Tabs, j \in Kinds : call'[u][j].token \in 1..issued \cup {NoToken}
      <3>1. \A u \in Tabs, j \in Kinds :
              call'[u][j].token = NoToken \/ call'[u][j].token = call[u][j].token
        BY <1>1
      <3>2. QED
        BY <1>0, <3>1
    <2>2. QED
      BY <1>0, <1>3, <2>1 DEF IInv, CallsSound, Locking
  <1>7. NobodyReturns'
    <2>1. \A u \in Tabs : /\ Busy(u, "refresh")' => u # t /\ Busy(u, "refresh")
                          /\ At(u, "login", "none")' <=> u = t \/ At(u, "login", "none")
      BY <1>0, <1>1, <1>3 DEF At, Locking
    <2>2. QED
      BY <1>0, <1>1, <2>1 DEF IInv, NobodyReturns
  <1>8. LoginsAreOwn'
    <2>1. \A u \in Tabs : At(u, "login", "served")' => call'[u]["login"] = call[u]["login"]
      BY <1>0, <1>1 DEF At
    <2>2. \A u \in Tabs, j \in Kinds :
            call'[u][j].token = NoToken \/ call'[u][j].token = call[u][j].token
      BY <1>1
    <2>3. QED
      BY <1>0, <2>1, <2>2, LoginsStayOwn
  <1>9. ~lost' => TokensLive'
    <2> SUFFICES ASSUME ~lost' PROVE TokensLive'
      OBVIOUS
    <2>1. ~lost /\ cut = {} /\ ghosts' = ghosts
      BY <1>0, <1>2 DEF TypeOK
    <2>2. \A j \in Locking : ~Busy(t, j)
      BY <1>2, <2>1 DEF Locking
    <2>3. \A u \in Tabs : /\ Busy(u, "refresh")' => u # t /\ Busy(u, "refresh")
                          /\ At(u, "login", "served")' => u # t /\ At(u, "login", "served")
      BY <1>0, <1>1, <1>3 DEF At, Locking
    <2>4. \A u \in Tabs, j \in Locking : At(u, j, "served") => u # t /\ At(u, j, "served")'
      BY <1>1, <2>2 DEF Busy, At
    <2>5. QED
      BY <1>0, <1>1, <2>1, <2>3, <2>4 DEF IInv, TokensLive
  <1>10. QED
    BY <1>5, <1>6, <1>7, <1>8, <1>9 DEF IInv

LEMMA GhostKeeps ==
  ASSUME IInv, NEW x \in Tokens \cup {NoToken}, GhostServed(x)
  PROVE  IInv'
  <1>1. /\ x \in ghosts /\ live' = live \ {x} /\ ghosts' = ghosts \ {x}
        /\ UNCHANGED <<holder, cookie, issued, tab, call, cuts, lost, signedOut>>
    BY DEF GhostServed, history
  <1>2. TypeOK'
    BY <1>1 DEF IInv, TypeOK, At
  <1>3. CallsSound' /\ NobodyReturns' /\ LoginsAreOwn'
    BY <1>1 DEF IInv, CallsSound, NobodyReturns, LoginsAreOwn, Busy, At
  <1>4. lost'
    BY <1>1 DEF IInv, TokensLive
  <1>5. QED
    BY <1>2, <1>3, <1>4 DEF IInv

-----------------------------------------------------------------------------
(* The steps                                                               *)

LEMMA AskingKeeps ==
  ASSUME IInv, NEW t \in Tabs,
         RestoreSession(t) \/ RequestRefused(t) \/ LoginFails(t) \/ Logout(t)
  PROVE  IInv'
  <1>0. TypeOK /\ {"refresh", "logout", "login"} \subseteq Kinds
    BY DEF IInv, Kinds
  <1>1. CASE RestoreSession(t)
    <2>1. /\ tab' \in [Tabs -> TabStates]
          /\ UNCHANGED <<holder, cookie, live, issued, ghosts, cuts, history>>
      <3>1. /\ \/ tab' = [tab EXCEPT ![t].status = "restoration_error"]
               \/ tab' = [tab EXCEPT ![t].status = "initializing", ![t].restoring = TRUE]
            /\ UNCHANGED <<holder, cookie, live, issued, ghosts, cuts, history>>
        BY <1>1 DEF RestoreSession
      <3>2. tab \in [Tabs -> TabStates]
        BY <1>0 DEF TypeOK, TabStates
      <3>3. QED
        BY <3>1, <3>2 DEF TabStates
    <2>2. UNCHANGED call \/ QueueRefresh(t)
      BY <1>1 DEF RestoreSession
    <2>3. CASE UNCHANGED call
      BY <2>1, <2>3, TabOnly
    <2>4. CASE At(t, "refresh", "none") /\ CallGoes(t, "refresh", "waiting", NoToken)
      <3>1. ~Busy(t, "refresh")
        BY <2>4 DEF Busy, At
      <3>2. QED
        BY <1>0, <2>1, <2>4, <3>1, QuietMove
    <2>5. QED
      BY <2>2, <2>3, <2>4 DEF QueueRefresh
  <1>2. CASE RequestRefused(t)
    <2>1. /\ tab' \in [Tabs -> TabStates]
          /\ UNCHANGED <<holder, cookie, live, issued, ghosts, cuts, history>>
          /\ CallGoes(t, "refresh", "waiting", NoToken)
      BY <1>0, <1>2 DEF RequestRefused, QueueRefresh, TypeOK, TabStates
    <2>2. ~Busy(t, "refresh")
      BY <1>2 DEF RequestRefused, Busy, At
    <2>3. QED
      BY <1>0, <2>1, <2>2, QuietMove
  <1>3. CASE LoginFails(t)
    <2>1. /\ tab' \in [Tabs -> TabStates]
          /\ UNCHANGED <<holder, cookie, live, issued, ghosts, cuts, history>>
          /\ CallGoes(t, "login", "none", NoToken)
      BY <1>0, <1>3 DEF LoginFails, CallEnds, CallGoes, NoCall, TypeOK, TabStates
    <2>2. QED
      BY <1>0, <2>1, QuietMove
  <1>4. CASE Logout(t)
    <2>1. /\ tab' \in [Tabs -> TabStates]
          /\ UNCHANGED <<holder, cookie, live, issued, ghosts, cuts, history>>
          /\ CallGoes(t, "logout", "waiting", NoToken)
      BY <1>0, <1>4 DEF Logout, TypeOK, TabStates
    <2>2. ~Busy(t, "logout")
      BY <1>4 DEF Logout, Busy, At
    <2>3. QED
      BY <1>0, <2>1, <2>2, QuietMove
  <1>5. QED
    BY <1>1, <1>2, <1>3, <1>4

\* Without an answer the token may be left on its way to the server, and if it is,
\* or the server has served it, that is told.
LEMMA UnansweredSound ==
  ASSUME IInv, NEW t \in Tabs, NEW k \in Locking, Unanswered(t, k)
  PROVE  /\ lost' \in BOOLEAN /\ (lost => lost') /\ (~lost' => ~At(t, k, "served"))
         /\ cuts' \in 0..MaxCuts /\ ghosts' \subseteq Tokens \cup {NoToken}
         /\ ~lost' => ghosts' = ghosts
  <1>0. TypeOK /\ k \in Kinds
    BY DEF IInv, Locking, Kinds
  <1>1. CASE At(t, k, "sent") /\ UNCHANGED <<ghosts, cuts, lost>>
    BY <1>0, <1>1 DEF TypeOK, At
  <1>2. CASE /\ cuts < MaxCuts /\ cuts' = cuts + 1
             /\ ghosts' = ghosts \cup {call[t][k].token} /\ lost' = TRUE
    <2>1. call[t][k].token \in Tokens \cup {NoToken}
      BY <1>0 DEF TypeOK
    <2>2. cuts' \in 0..MaxCuts
      BY <1>0, <1>2, StorefrontAssumption DEF TypeOK
    <2>3. ghosts' \subseteq Tokens \cup {NoToken}
      BY <1>0, <1>2, <2>1 DEF TypeOK
    <2>4. QED
      BY <1>2, <2>2, <2>3
  <1>3. CASE At(t, k, "served") /\ lost' = TRUE /\ UNCHANGED <<ghosts, cuts>>
    BY <1>0, <1>3 DEF TypeOK
  <1>4. QED
    BY <1>1, <1>2, <1>3 DEF Unanswered

LEMMA EndingKeeps ==
  ASSUME IInv, NEW t \in Tabs,
         RefreshAnswered(t) \/ RefreshFails(t) \/ LogoutAnswered(t) \/ LogoutFails(t)
  PROVE  IInv'
  <1>0. TypeOK /\ {"refresh", "logout"} = Locking /\ lost \in BOOLEAN /\ signedOut \in BOOLEAN
    BY DEF IInv, Locking, TypeOK
  <1>1. CASE RefreshAnswered(t)
    <2>1. /\ Busy(t, "refresh") /\ cookie' = call[t]["refresh"].token
          /\ CallEnds(t, "refresh") /\ Release(t)
          /\ UNCHANGED <<live, issued, ghosts, cuts, lost, signedOut>>
      BY <1>1 DEF RefreshAnswered, Busy, history
    <2>2. tab' \in [Tabs -> TabStates]
      <3>1. tab \in [Tabs -> TabStates] /\ tab[t] \in TabStates
        BY <1>0 DEF TypeOK, TabStates
      <3> DEFINE known == [status |-> IF call[t]["refresh"].token = NoToken THEN "anonymous"
                                      ELSE IF tab[t].restoring THEN "authenticated"
                                      ELSE tab[t].status,
                           restoring |-> FALSE]
      <3>2. tab' = [tab EXCEPT ![t] = known]
        BY <1>1 DEF RefreshAnswered
      <3>3. known \in TabStates
        BY <3>1 DEF TabStates
      <3> HIDE DEF known
      <3>4. QED
        BY <3>1, <3>2, <3>3
    <2>3. signedOut => cookie' = NoToken /\ \A u \in Tabs : At(u, "login", "none")
      BY <2>1 DEF IInv, NobodyReturns
    <2>4. cuts' \in 0..MaxCuts /\ ghosts' \subseteq Tokens \cup {NoToken}
      BY <1>0, <2>1 DEF TypeOK
    <2>5. QED
      BY <1>0, <2>1, <2>2, <2>3, <2>4, EndKeeps
  <1>2. CASE RefreshFails(t)
    <2>1. /\ Busy(t, "refresh") /\ CallEnds(t, "refresh") /\ Release(t)
          /\ UNCHANGED <<cookie, live, issued, signedOut>>
      BY <1>2 DEF RefreshFails, Unanswered, Busy
    <2>2. tab' \in [Tabs -> TabStates]
      BY <1>0, <1>2 DEF RefreshFails, TypeOK, TabStates
    <2>3. signedOut => cookie' = NoToken /\ \A u \in Tabs : At(u, "login", "none")
      BY <2>1 DEF IInv, NobodyReturns
    <2>4. /\ lost' \in BOOLEAN /\ (lost => lost') /\ (~lost' => ~At(t, "refresh", "served"))
          /\ cuts' \in 0..MaxCuts /\ ghosts' \subseteq Tokens \cup {NoToken}
          /\ ~lost' => ghosts' = ghosts
      BY <1>0, <1>2, UnansweredSound DEF RefreshFails, Locking
    <2>5. QED
      BY <1>0, <2>1, <2>2, <2>3, <2>4, EndKeeps
  <1>3. CASE LogoutAnswered(t)
    <2>1. /\ Busy(t, "logout") /\ CallEnds(t, "logout") /\ Release(t) /\ cookie' = NoToken
          /\ signedOut' = (\A u \in Tabs : At(u, "login", "none"))
          /\ UNCHANGED <<live, issued, ghosts, cuts, lost>>
      BY <1>3 DEF LogoutAnswered, Busy
    <2>2. tab' \in [Tabs -> TabStates]
      BY <1>0, <1>3 DEF LogoutAnswered, TypeOK, TabStates
    <2>3. signedOut' \in BOOLEAN
      BY <2>1
    <2>4. cuts' \in 0..MaxCuts /\ ghosts' \subseteq Tokens \cup {NoToken}
      BY <1>0, <2>1 DEF TypeOK
    <2>5. QED
      BY <1>0, <2>1, <2>2, <2>3, <2>4, EndKeeps
  <1>4. CASE LogoutFails(t)
    <2>1. /\ Busy(t, "logout") /\ CallEnds(t, "logout") /\ Release(t)
          /\ UNCHANGED <<cookie, live, issued, tab, signedOut>>
      BY <1>4 DEF LogoutFails, Unanswered, Busy
    <2>2. tab' \in [Tabs -> TabStates]
      BY <1>0, <2>1 DEF TypeOK, TabStates
    <2>3. signedOut => cookie' = NoToken /\ \A u \in Tabs : At(u, "login", "none")
      BY <2>1 DEF IInv, NobodyReturns
    <2>4. /\ lost' \in BOOLEAN /\ (lost => lost') /\ (~lost' => ~At(t, "logout", "served"))
          /\ cuts' \in 0..MaxCuts /\ ghosts' \subseteq Tokens \cup {NoToken}
          /\ ~lost' => ghosts' = ghosts
      BY <1>0, <1>4, UnansweredSound DEF LogoutFails, Locking
    <2>5. QED
      BY <1>0, <2>1, <2>2, <2>3, <2>4, EndKeeps
  <1>5. QED
    BY <1>1, <1>2, <1>3, <1>4

LEMMA StepKeepsInvariant == IInv /\ [Next]_vars => IInv'
  <1> SUFFICES ASSUME IInv, [Next]_vars PROVE IInv'
    OBVIOUS
  <1>1. ASSUME NEW t \in Tabs,
               RestoreSession(t) \/ RequestRefused(t) \/ LoginFails(t) \/ Logout(t)
        PROVE  IInv'
    BY <1>1, AskingKeeps
  <1>2. ASSUME NEW t \in Tabs, NEW k \in {"refresh", "logout"}, Enter(t, k) PROVE IInv'
    BY <1>2, EnterKeeps DEF Locking
  <1>3. ASSUME NEW t \in Tabs, ServeRefresh(t) PROVE IInv'
    BY <1>3, ServeRefreshKeeps
  <1>4. ASSUME NEW t \in Tabs, ServeLogout(t) PROVE IInv'
    BY <1>4, ServeLogoutKeeps
  <1>5. ASSUME NEW t \in Tabs,
               RefreshAnswered(t) \/ RefreshFails(t) \/ LogoutAnswered(t) \/ LogoutFails(t)
        PROVE  IInv'
    BY <1>5, EndingKeeps
  <1>6. ASSUME NEW t \in Tabs, Login(t) \/ LoginAnswered(t) PROVE IInv'
    BY <1>6, LoginKeeps
  <1>7. ASSUME NEW t \in Tabs, ServeLogin(t) PROVE IInv'
    BY <1>7, ServeLoginKeeps
  <1>8. ASSUME NEW t \in Tabs, Reload(t) PROVE IInv'
    BY <1>8, ReloadKeeps
  <1>9. ASSUME NEW x \in Tokens \cup {NoToken}, GhostServed(x) PROVE IInv'
    BY <1>9, GhostKeeps
  <1>10. CASE UNCHANGED vars
    <2>1. UNCHANGED <<holder, cookie, live, issued, call, ghosts, cuts, history, tab>>
      BY <1>10 DEF vars
    <2>2. tab' \in [Tabs -> TabStates]
      BY <2>1 DEF IInv, TypeOK, TabStates
    <2>3. QED
      BY <2>1, <2>2, TabOnly
  <1>11. QED
    BY ONLY [Next]_vars, <1>1, <1>2, <1>3, <1>4, <1>5, <1>6, <1>7, <1>8, <1>9, <1>10 DEF Next

LEMMA InductiveInvariant == Spec => []IInv
  BY InitSatisfiesInvariant, StepKeepsInvariant, PTL DEF Spec

\* Every variable keeps its domain, and the session lock is held by exactly the
\* tab whose refresh or logout is on its way.
THEOREM TypeCorrect == FairSpec => []TypeOK
  <1>1. IInv => TypeOK
    BY DEF IInv
  <1>2. QED
    BY <1>1, InductiveInvariant, PTL DEF FairSpec

\* client.js and AuthContext.jsx: after a logout was answered no tab has the
\* session, or is about to have it, until somebody logs in.
THEOREM LogoutIsFinal == FairSpec => []LogoutEndsSession
  <1>1. IInv => LogoutEndsSession
    BY DEF IInv, NobodyReturns, LogoutEndsSession, Busy
  <1>2. QED
    BY <1>1, InductiveInvariant, PTL DEF FairSpec

\* withSessionCookieLock: as long as every call is answered that the server served,
\* or may serve later, no tab presents a token the server has already replaced,
\* however many tabs refresh, log in and out.
THEOREM TabsShareOneToken == FairSpec => []NoTabReplaysToken
  <1>1. IInv => NoTabReplaysToken
    BY DEF IInv, TokensLive, NoTabReplaysToken, Busy
  <1>2. QED
    BY <1>1, InductiveInvariant, PTL DEF FairSpec
=============================================================================
