--------------------------- MODULE SessionsProofs ---------------------------
(***************************************************************************)
(* What holds of Sessions for any numbers of workers and tokens and any    *)
(* number of password changes.                                             *)
(***************************************************************************)
EXTENDS Sessions, TLAPS, FiniteSetTheorems

\* As long as no form put an older hash back, hashes only grow: nothing that was
\* read or issued is newer than the row, and what is outdated is older.
HashesGrow ==
  /\ \A t \in Tokens \cap outdated : Issued(t)
  /\ \A w \in Workers \cap outdated : worker[w].at = "issuing"
  /\ ~reverted =>
       /\ \A t \in Tokens : Issued(t) =>
            /\ token[t].claim <= account.password
            /\ t \in outdated => token[t].claim < account.password
       /\ \A w \in Workers : worker[w].at \in {"issuing", "editing"} =>
            /\ worker[w].password <= account.password
            /\ w \in outdated => worker[w].password < account.password

\* The token a refresh has checked is the head of its session, or a logout has
\* ended the session, until the refresh rotates it: a revocation needs the lock.
OneHead ==
  /\ \A t \in Tokens : Issued(t) => Issued(token[t].session)
  /\ \A t \in revoked : Issued(t)
  /\ \A t \in Tokens : token[t].state = "live" =>
       /\ token[t].session \notin revoked
       /\ \A u \in Tokens :
            token[u].state = "live" /\ token[u].session = token[t].session => u = t
  /\ \A w \in Workers : worker[w].at = "rotating" =>
       /\ Issued(worker[w].token)
       /\ token[worker[w].token].session \notin revoked
       /\ \A u \in Tokens :
            token[u].state = "live" /\ token[u].session = token[worker[w].token].session
              => u = worker[w].token

IInv == TypeOK /\ HashesGrow /\ OneHead

\* Each step keeps every variable in its domain.
LEMMA TypeStep ==
  ASSUME TypeOK, [Next]_vars
  PROVE  TypeOK'
  <1> USE SessionsAssumption DEF TypeOK, Passwords, TokenRow, Work, Idle, Issued, Unlocked, Exists, history
  <1>1. CASE ChangePassword
    BY <1>1 DEF ChangePassword, SetPassword, RevokeUserRefreshTokens
  <1>2. CASE DeleteUser
    BY <1>2 DEF DeleteUser
  <1>3. ASSUME NEW w \in Workers, Login(w) PROVE TypeOK'
    BY <1>3 DEF Login
  <1>4. ASSUME NEW w \in Workers, IssueTokens(w) PROVE TypeOK'
    BY <1>4 DEF IssueTokens
  <1>5. ASSUME NEW w \in Workers, ResetPassword(w) PROVE TypeOK'
    BY <1>5 DEF ResetPassword, SetPassword, RevokeUserRefreshTokens
  <1>6. ASSUME NEW w \in Workers, RefreshRotate(w) PROVE TypeOK'
    BY <1>6 DEF RefreshRotate
  <1>7. ASSUME NEW w \in Workers, OpenForm(w) PROVE TypeOK'
    BY <1>7 DEF OpenForm
  <1>8. ASSUME NEW w \in Workers, Dies(w) PROVE TypeOK'
    BY <1>8 DEF Dies
  <1>9. ASSUME NEW w \in Workers, NEW active \in BOOLEAN, SaveForm(w, active) PROVE TypeOK'
    BY <1>9 DEF SaveForm, RevokeUserRefreshTokens
  <1>10. ASSUME NEW t \in Tokens, Logout(t) PROVE TypeOK'
    BY <1>10 DEF Logout
  <1>11. ASSUME NEW t \in Tokens, NEW w \in Workers, RefreshCheck(w, t) PROVE TypeOK'
    BY <1>11 DEF RefreshCheck, Accepted
  <1>12. CASE UNCHANGED vars
    BY <1>12 DEF vars, history
  <1>13. QED
    BY ONLY [Next]_vars, <1>1, <1>2, <1>3, <1>4, <1>5, <1>6, <1>7, <1>8, <1>9, <1>10, <1>11, <1>12 DEF Next

\* A rotation replaces the token that was checked by a fresh one of the same
\* session and the same claim, and changes no other token.
LEMMA RotateReplacesToken ==
  ASSUME TypeOK, NEW w \in Workers, RefreshRotate(w), Issued(worker[w].token)
  PROVE  LET old == worker[w].token
         IN  /\ worker[w].at = "rotating" /\ old \in Tokens
             /\ lock' = NoWorker /\ worker' = [worker EXCEPT ![w] = Idle]
             /\ account' = account /\ revoked' = revoked /\ reverted' = reverted
             /\ \E new \in Tokens :
                  /\ ~Issued(new) /\ new # old
                  /\ token'[old] = [token[old] EXCEPT !.state = "blacklisted"]
                  /\ token'[new] = [token[old] EXCEPT !.state = "live"]
                  /\ \A t \in Tokens : t # old /\ t # new => token'[t] = token[t]
                  /\ outdated' = IF old \in outdated THEN outdated \cup {new} ELSE outdated
  <1> DEFINE old == worker[w].token
  <1>1. /\ worker[w].at = "rotating" /\ old \in Tokens
        /\ token \in [Tokens -> TokenRow]
    BY DEF TypeOK, Work, Idle, RefreshRotate
  <1>2. PICK new \in Tokens :
          /\ ~Issued(new)
          /\ token' = [token EXCEPT ![old].state = "blacklisted",
                                    ![new] = [token[old] EXCEPT !.state = "live"]]
          /\ outdated' = IF old \in outdated THEN outdated \cup {new} ELSE outdated
    BY DEF RefreshRotate
  <1>3. new # old
    BY <1>2
  <1> HIDE DEF old
  <1>4. /\ token'[old] = [token[old] EXCEPT !.state = "blacklisted"]
        /\ token'[new] = [token[old] EXCEPT !.state = "live"]
        /\ \A t \in Tokens : t # old /\ t # new => token'[t] = token[t]
    BY <1>1, <1>2, <1>3
  <1>5. QED
    BY <1>1, <1>2, <1>3, <1>4 DEF RefreshRotate, old

\* What a posted staff form does to tokens: it revokes them all or none.
LEMMA FormRevokesAllOrNone ==
  ASSUME TypeOK, NEW w \in Workers, NEW active \in BOOLEAN, SaveForm(w, active)
  PROVE  /\ Unlocked /\ worker[w].at = "editing"
         /\ worker' = [worker EXCEPT ![w] = Idle]
         /\ lock' = lock /\ outdated' = outdated
         /\ ~reverted' => ~reverted /\ account'.password = account.password
         /\ \/ /\ \A t \in Tokens :
                    token'[t] = IF Issued(t) THEN [token[t] EXCEPT !.state = "blacklisted"]
                                ELSE token[t]
               /\ revoked' = revoked \cup {token[t].session : t \in {x \in Tokens : Issued(x)}}
            \/ token' = token /\ revoked' = revoked
  BY DEF SaveForm, RevokeUserRefreshTokens, TypeOK

\* A hash that is read or issued is never ahead of the row, whatever overlaps.
LEMMA HashesStep ==
  ASSUME TypeOK, TypeOK', HashesGrow, OneHead, [Next]_vars
  PROVE  HashesGrow'
  <1> USE SessionsAssumption DEF TypeOK, HashesGrow, Passwords, TokenRow, Work, Idle, Issued, Unlocked, Exists, history
  <1>1. CASE ChangePassword
    BY <1>1 DEF ChangePassword, SetPassword, RevokeUserRefreshTokens
  <1>2. CASE DeleteUser
    BY <1>2 DEF DeleteUser
  <1>3. ASSUME NEW w \in Workers, Login(w) PROVE HashesGrow'
    BY <1>3 DEF Login
  <1>4. ASSUME NEW w \in Workers, IssueTokens(w) PROVE HashesGrow'
    BY <1>4 DEF IssueTokens
  <1>5. ASSUME NEW w \in Workers, ResetPassword(w) PROVE HashesGrow'
    BY <1>5 DEF ResetPassword, SetPassword, RevokeUserRefreshTokens
  <1>6. ASSUME NEW w \in Workers, RefreshRotate(w) PROVE HashesGrow'
    <2> DEFINE old == worker[w].token
    <2>1. Issued(old)
      BY <1>6 DEF RefreshRotate, OneHead
    <2>2. /\ old \in Tokens /\ worker[w].at = "rotating"
          /\ worker' = [worker EXCEPT ![w] = Idle]
          /\ account' = account /\ revoked' = revoked /\ reverted' = reverted
      BY <1>6, <2>1, RotateReplacesToken
    <2>3. PICK new \in Tokens :
            /\ ~Issued(new) /\ new # old
            /\ token'[old] = [token[old] EXCEPT !.state = "blacklisted"]
            /\ token'[new] = [token[old] EXCEPT !.state = "live"]
            /\ \A t \in Tokens : t # old /\ t # new => token'[t] = token[t]
            /\ outdated' = IF old \in outdated THEN outdated \cup {new} ELSE outdated
      BY <1>6, <2>1, RotateReplacesToken
    <2>4. /\ token[old] \in TokenRow
          /\ token'[old].state = "blacklisted" /\ token'[new].state = "live"
          /\ token'[old].claim = token[old].claim /\ token'[new].claim = token[old].claim
          /\ token'[old].session = token[old].session /\ token'[new].session = token[old].session
      BY <2>2, <2>3
    <2> HIDE DEF old
    <2>5. QED
      BY <2>1, <2>2, <2>3, <2>4
  <1>7. ASSUME NEW w \in Workers, OpenForm(w) PROVE HashesGrow'
    BY <1>7 DEF OpenForm
  <1>8. ASSUME NEW w \in Workers, Dies(w) PROVE HashesGrow'
    BY <1>8 DEF Dies
  <1>9. ASSUME NEW w \in Workers, NEW active \in BOOLEAN, SaveForm(w, active) PROVE HashesGrow'
    BY <1>9, FormRevokesAllOrNone
  <1>10. ASSUME NEW t \in Tokens, Logout(t) PROVE HashesGrow'
    BY <1>10 DEF Logout
  <1>11. ASSUME NEW t \in Tokens, NEW w \in Workers, RefreshCheck(w, t) PROVE HashesGrow'
    BY <1>11 DEF RefreshCheck, Accepted
  <1>12. CASE UNCHANGED vars
    BY <1>12 DEF vars, history
  <1>13. QED
    BY ONLY [Next]_vars, <1>1, <1>2, <1>3, <1>4, <1>5, <1>6, <1>7, <1>8, <1>9, <1>10, <1>11, <1>12 DEF Next

\* Issuing names a fresh session, rotating replaces its head, revoking empties it.
LEMMA HeadStep ==
  ASSUME TypeOK, TypeOK', OneHead, [Next]_vars
  PROVE  OneHead'
  <1> USE SessionsAssumption DEF TypeOK, OneHead, TokenRow, Work, Idle, Issued, Unlocked, Exists, history
  <1>1. CASE ChangePassword
    BY <1>1 DEF ChangePassword, SetPassword, RevokeUserRefreshTokens
  <1>2. CASE DeleteUser
    BY <1>2 DEF DeleteUser
  <1>3. ASSUME NEW w \in Workers, Login(w) PROVE OneHead'
    BY <1>3 DEF Login
  <1>4. ASSUME NEW w \in Workers, IssueTokens(w) PROVE OneHead'
    BY <1>4 DEF IssueTokens
  <1>5. ASSUME NEW w \in Workers, ResetPassword(w) PROVE OneHead'
    <2>1. /\ \A t \in Tokens : Issued(t) =>
               token'[t].state = "blacklisted" /\ token'[t].session = token[t].session
          /\ \A t \in Tokens : ~Issued(t) => token'[t] = token[t]
          /\ revoked' = revoked \cup {token[t].session : t \in {x \in Tokens : Issued(x)}}
      BY <1>5 DEF ResetPassword, SetPassword, RevokeUserRefreshTokens
    <2>2. \A v \in Workers : worker'[v].at # "rotating"
      BY <1>5 DEF ResetPassword
    <2>3. \A t \in Tokens :
            /\ token'[t].state # "live" /\ token'[t].session = token[t].session
            /\ token[t].session \in Tokens
            /\ Issued(t)' <=> Issued(t)
      BY <2>1
    <2>4. revoked \subseteq Tokens
      OBVIOUS
    <2> HIDE DEF TokenRow, Work, Idle, TypeOK
    <2>5. QED
      BY <2>1, <2>2, <2>3, <2>4
  <1>6. ASSUME NEW w \in Workers, RefreshRotate(w) PROVE OneHead'
    <2> DEFINE old == worker[w].token
    <2>1. Issued(old)
      BY <1>6 DEF RefreshRotate, OneHead
    <2>2. /\ old \in Tokens /\ worker[w].at = "rotating"
          /\ worker' = [worker EXCEPT ![w] = Idle]
          /\ account' = account /\ revoked' = revoked /\ reverted' = reverted
      BY <1>6, <2>1, RotateReplacesToken
    <2>3. PICK new \in Tokens :
            /\ ~Issued(new) /\ new # old
            /\ token'[old] = [token[old] EXCEPT !.state = "blacklisted"]
            /\ token'[new] = [token[old] EXCEPT !.state = "live"]
            /\ \A t \in Tokens : t # old /\ t # new => token'[t] = token[t]
            /\ outdated' = IF old \in outdated THEN outdated \cup {new} ELSE outdated
      BY <1>6, <2>1, RotateReplacesToken
    <2>4. /\ token[old] \in TokenRow
          /\ token'[old].state = "blacklisted" /\ token'[new].state = "live"
          /\ token'[old].claim = token[old].claim /\ token'[new].claim = token[old].claim
          /\ token'[old].session = token[old].session /\ token'[new].session = token[old].session
      BY <2>2, <2>3
    <2> HIDE DEF old
    <2>5. \A u \in Tokens : token'[u].state = "live" =>
            u = new \/ (u # old /\ u # new /\ token'[u] = token[u])
      BY <2>3, <2>4
    <2>6. \A u \in Workers : worker'[u].at # "rotating"
      BY <1>6, <2>2 DEF RefreshRotate
    <2>7. /\ token[old].session \in Tokens /\ Issued(token[old].session)
          /\ token[old].session \notin revoked
          /\ \A u \in Tokens :
               token[u].state = "live" /\ token[u].session = token[old].session => u = old
      BY <1>6, <2>1, <2>2, <2>4 DEF old
    <2>8. \A t \in Tokens :
            /\ Issued(t) => Issued(t)' /\ token'[t].session = token[t].session
            /\ Issued(t)' => t = new \/ Issued(t)
      BY <2>1, <2>3, <2>4
    <2>9. \A t \in Tokens : Issued(t)' => Issued(token[t].session)'
      <3> SUFFICES ASSUME NEW t \in Tokens, Issued(t)'
                   PROVE  Issued(token[t].session)'
        OBVIOUS
      <3>1. CASE t = new
        BY <3>1, <2>4, <2>7, <2>8
      <3>2. CASE Issued(t)
        BY <3>2, <2>8
      <3>3. QED
        BY <3>1, <3>2, <2>8
    <2>10. \A t \in Tokens : token'[t].state = "live" =>
             /\ token'[t].session \notin revoked
             /\ \A u \in Tokens :
                  token'[u].state = "live" /\ token'[u].session = token'[t].session => u = t
      <3> SUFFICES ASSUME NEW t \in Tokens, token'[t].state = "live"
                   PROVE  /\ token'[t].session \notin revoked
                          /\ \A u \in Tokens :
                               token'[u].state = "live" /\ token'[u].session = token'[t].session
                                 => u = t
        OBVIOUS
      <3>1. CASE t = new
        BY <3>1, <2>4, <2>5, <2>7
      <3>2. CASE t # old /\ t # new /\ token'[t] = token[t]
        BY <3>2, <2>4, <2>5, <2>7
      <3>3. QED
        BY <3>1, <3>2, <2>5
    <2>11. \A t \in revoked' : Issued(t)'
      BY <2>2, <2>8
    <2>12. QED
      BY <2>2, <2>6, <2>9, <2>10, <2>11
  <1>7. ASSUME NEW w \in Workers, OpenForm(w) PROVE OneHead'
    BY <1>7 DEF OpenForm
  <1>8. ASSUME NEW w \in Workers, Dies(w) PROVE OneHead'
    BY <1>8 DEF Dies
  <1>9. ASSUME NEW w \in Workers, NEW active \in BOOLEAN, SaveForm(w, active) PROVE OneHead'
    <2>1. /\ lock = NoWorker /\ worker' = [worker EXCEPT ![w] = Idle]
          /\ \A u \in Workers : worker'[u].at # "rotating"
      BY <1>9, FormRevokesAllOrNone
    <2>2. CASE /\ \A t \in Tokens :
                    token'[t] = IF Issued(t) THEN [token[t] EXCEPT !.state = "blacklisted"]
                                ELSE token[t]
               /\ revoked' = revoked \cup {token[t].session : t \in {x \in Tokens : Issued(x)}}
      <3>1. \A t \in Tokens :
              /\ token'[t].state # "live" /\ token'[t].session = token[t].session
              /\ token'[t].state # "unissued" <=> token[t].state # "unissued"
        BY <2>2
      <3>2. QED
        BY <2>1, <2>2, <3>1
    <2>3. CASE token' = token /\ revoked' = revoked
      BY <2>1, <2>3
    <2>4. QED
      BY <1>9, <2>2, <2>3, FormRevokesAllOrNone
  <1>10. ASSUME NEW t \in Tokens, Logout(t) PROVE OneHead'
    BY <1>10 DEF Logout
  <1>11. ASSUME NEW t \in Tokens, NEW w \in Workers, RefreshCheck(w, t) PROVE OneHead'
    BY <1>11 DEF RefreshCheck, Accepted
  <1>12. CASE UNCHANGED vars
    BY <1>12 DEF vars, history
  <1>13. QED
    BY ONLY [Next]_vars, <1>1, <1>2, <1>3, <1>4, <1>5, <1>6, <1>7, <1>8, <1>9, <1>10, <1>11, <1>12 DEF Next

LEMMA InitEstablishes == Init => IInv
  <1> SUFFICES ASSUME Init PROVE IInv
    OBVIOUS
  <1> USE SessionsAssumption DEF Init
  <1>1. TypeOK
    <2>1. 0 \in Passwords
      BY DEF Passwords
    <2>2. \A t \in Tokens : [state |-> "unissued", claim |-> 0, session |-> t] \in TokenRow
      BY <2>1 DEF TokenRow
    <2>3. token \in [Tokens -> TokenRow]
      BY <2>2
    <2>4. /\ lock \in Workers \cup {NoWorker}
          /\ worker \in [Workers -> Work]
          /\ \A w \in Workers : lock = w <=> worker[w].at = "rotating"
      BY DEF Work, Idle
    <2>5. QED
      BY <2>1, <2>3, <2>4 DEF TypeOK
  <1>2. HashesGrow
    BY DEF HashesGrow, Idle, Issued
  <1>3. OneHead
    BY DEF OneHead, Idle, Issued
  <1>4. QED
    BY <1>1, <1>2, <1>3 DEF IInv

LEMMA InductiveInvariant == Spec => []IInv
  <1>1. IInv /\ [Next]_vars => IInv'
    BY TypeStep, HashesStep, HeadStep DEF IInv
  <1>2. QED
    BY InitEstablishes, <1>1, PTL DEF Spec

-----------------------------------------------------------------------------
\* Every variable keeps its domain, and the row's lock is held exactly by a
\* refresh between its check and its rotation.
THEOREM TypeCorrect == Spec => []TypeOK
  BY InductiveInvariant, PTL DEF IInv

\* The refresh endpoint cannot race a password change into a usable session: no
\* token of a login that read the row before the last change is accepted, for
\* any number of requests, tokens and changes.
THEOREM RefreshCannotRacePasswordChange == Spec => []NoSessionCrossesPasswordChange
  <1>1. IInv => NoSessionCrossesPasswordChange
    BY DEF IInv, TypeOK, HashesGrow, NoSessionCrossesPasswordChange, Accepted, Issued, Passwords,
           TokenRow
  <1>2. QED
    BY <1>1, InductiveInvariant, PTL

\* A session has one live token, and none after it was revoked as a whole.
THEOREM SessionsHaveOneHead == Spec => []SessionsEndWhole
  <1>1. ASSUME OneHead, NEW s \in Tokens
        PROVE  Cardinality(Heads(s)) <= IF s \in revoked THEN 0 ELSE 1
    <2>1. CASE Heads(s) = {}
      BY <2>1, FS_EmptySet
    <2>2. ASSUME NEW t \in Heads(s)
          PROVE  Cardinality(Heads(s)) <= IF s \in revoked THEN 0 ELSE 1
      <3>1. Heads(s) = {t} /\ s \notin revoked
        BY <1>1, <2>2 DEF OneHead, Heads
      <3>2. Cardinality({t}) = 1
        BY FS_Singleton
      <3>3. QED
        BY <3>1, <3>2
    <2>3. QED
      BY <2>1, <2>2
  <1>2. IInv => SessionsEndWhole
    BY <1>1 DEF IInv, SessionsEndWhole
  <1>3. QED
    BY <1>2, InductiveInvariant, PTL
=============================================================================
