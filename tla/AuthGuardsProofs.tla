-------------------------- MODULE AuthGuardsProofs --------------------------
(***************************************************************************)
(* What holds of AuthGuards for any numbers of workers, codes, requests    *)
(* and faults: a code is spent once but for faults, and the guesses under  *)
(* a guard are bounded. Both invariants count requests in flight.          *)
(***************************************************************************)
EXTENDS AuthGuards, FiniteSetTheorems, TLAPS

\* A request that is not idle, and how many workers are in a state of T.
Work == Request \cup Match
Doing(T) == {w \in Workers : worker[w] \in T}
Count(T) == Cardinality(Doing(T))
One(b) == IF b THEN 1 ELSE 0

PassedSteps == {"checked", "matched", "consuming"}
GuessingSteps == PassedSteps \cup {"leased"}
HoldingSteps == GuessingSteps \cup {"locking"}

On(g, steps) == {s \in Work : s.guard = g /\ s.at \in steps}
Holding(p) == On(p, HoldingSteps)
Guessing(p) == On(p, GuessingSteps)
Passed(p) == On(p, PassedSteps)

\* The requests that may still succeed with c, and those that have and are about
\* to delete it.
Spending(c) ==
  {s \in Match : s.code = c /\ \/ s.at = "matched"
                               \/ s.at = "consuming" /\ s.guard # "password-reset"}
Deleting(c) == {s \in Match : s.code = c /\ s.at = "consuming" /\ s.guard = "password-reset"}

\* The lease belongs to a request that works under it.
Held(p) == guard[p].lease \in Doing(Holding(p))

\* Where a code may be: in the keys of the one purpose it was sent for, and with
\* requests of that purpose.
StepSound(s) ==
  /\ s.at \in {"leased", "checked"} => s.guard \in Purposes
  /\ s.at = "matched" => s.guard = "password-reset"

CodesAtHome ==
  /\ \A w \in Workers : StepSound(worker[w])
  /\ \A w \in Workers : worker[w] \in Match =>
       /\ worker[w].code \in sent
       /\ \A p \in Purposes : guard[p].code = worker[w].code => worker[w].guard = p
  /\ \A p, q \in Purposes : guard[p].code = guard[q].code => p = q \/ guard[p].code = NoCode
  /\ \A p \in Purposes : guard[p].code \in sent \cup {NoCode}
  /\ \A c \in Codes : c \notin sent => spent[c] = 0

\* Beyond the one that holds the lease, each request at work cost a fault.
LeaseSound(p) == Count(Holding(p)) <= faults + One(Held(p))

\* While the code is there, what it was spent for is still with a request that is
\* about to delete it, or was lost with one.
LiveSound(p) ==
  LET c == guard[p].code
  IN  c # NoCode =>
        spent[c] + Count(Holding(p)) <= faults + One(Held(p)) + Count(Deleting(c))

SpendSound(c) == spent[c] + Count(Spending(c)) <= 1 + faults

\* Over the limit, whoever may guess once more cost a fault, and so did the
\* lease if it can be taken; behind the lock only those count that passed it.
GuessSound(p) ==
  guard[p].failures >= MaxAttempts =>
    LET over == guard[p].failures - MaxAttempts
    IN  IF guard[p].locked
        THEN over + Count(Passed(p)) <= faults
        ELSE over + Count(Guessing(p)) + One(~Held(p)) <= faults

\* Without a lease, everyone who is about to lock has guessed.
PasswordSound ==
  guard["password"].failures >= MaxAttempts =>
    LET over == guard["password"].failures - MaxAttempts
    IN  IF guard["password"].locked
        THEN over + Count(On("password", {"asked"})) < Cardinality(Workers) + faults
        ELSE over < Count(On("password", {"locking"})) + faults

IInv ==
  /\ TypeOK
  /\ CodesAtHome
  /\ \A p \in Purposes : LeaseSound(p) /\ LiveSound(p) /\ GuessSound(p)
  /\ \A c \in Codes : SpendSound(c)
  /\ PasswordSound

-----------------------------------------------------------------------------
(* Counting requests                                                       *)

LEMMA StateFacts ==
  ASSUME NEW s \in Work \cup {Idle}
  PROVE  /\ s = Idle <=> s.at = "idle"
         /\ s # Idle <=> s \in Work
         /\ s \in Work => s.guard \in Guards
         /\ s \in Match <=> s.at \in {"matched", "consuming", "following"}
         /\ s \in Match => s.code \in Codes /\ s.guard \in Purposes
         /\ s.at \in {"idle", "asked", "leased", "checked", "locking",
                      "matched", "consuming", "following"}
  BY DEF Work, Idle, Request, Match, Guards

LEMMA Counted ==
  ASSUME NEW T
  PROVE  /\ IsFiniteSet(Doing(T))
         /\ Count(T) \in Nat /\ Count(T) <= Cardinality(Workers)
         /\ Cardinality(Workers) \in Nat
  <1>1. Doing(T) \subseteq Workers
    BY DEF Doing
  <1> QED BY <1>1, GuardsAssumption, FS_Subset, FS_CardinalityType DEF Count

LEMMA CountedWithin ==
  ASSUME NEW T, NEW U, Doing(T) \subseteq Doing(U)
  PROVE  Count(T) <= Count(U)
  BY Counted, FS_Subset DEF Count

LEMMA CountedApart ==
  ASSUME NEW T, NEW U, NEW V,
         Doing(T) \cup Doing(U) \subseteq Doing(V), Doing(T) \cap Doing(U) = {}
  PROVE  Count(T) + Count(U) <= Count(V)
  <1>1. IsFiniteSet(Doing(T)) /\ IsFiniteSet(Doing(U)) /\ IsFiniteSet(Doing(V))
    BY Counted
  <1>2. Cardinality(Doing(T) \cup Doing(U)) = Count(T) + Count(U)
    <2>1. Cardinality(Doing(T) \cup Doing(U))
            = Cardinality(Doing(T)) + Cardinality(Doing(U)) - Cardinality(Doing(T) \cap Doing(U))
      BY <1>1, FS_Union
    <2>2. Cardinality(Doing(T) \cap Doing(U)) = 0
      BY FS_EmptySet
    <2>3. Count(T) \in Nat /\ Count(U) \in Nat
      BY Counted
    <2> QED BY <2>1, <2>2, <2>3 DEF Count
  <1>3. Cardinality(Doing(T) \cup Doing(U)) <= Count(V)
    BY <1>1, FS_Subset DEF Count
  <1> QED BY <1>2, <1>3

\* One worker changes its state.
LEMMA CountMoves ==
  ASSUME NEW w \in Workers, NEW T,
         \A v \in Workers : v # w => worker'[v] = worker[v]
  PROVE  /\ Count(T)' \in Nat
         /\ Count(T)' = Count(T) + One(worker'[w] \in T) - One(worker[w] \in T)
  <1> DEFINE before == Doing(T)
             after == {v \in Workers : worker'[v] \in T}
  <1>1. IsFiniteSet(before) /\ Count(T) = Cardinality(before) /\ Count(T) \in Nat
    BY Counted DEF Count
  <1>2. Count(T)' = Cardinality(after)
    BY DEF Count, Doing
  <1>3. CASE worker'[w] \in T /\ worker[w] \notin T
    <2>1. after = before \cup {w} /\ w \notin before
      BY <1>3 DEF Doing
    <2>2. Cardinality(after) = Cardinality(before) + 1
      BY <1>1, <2>1, FS_AddElement
    <2> QED BY <1>1, <1>2, <1>3, <2>2 DEF One
  <1>4. CASE worker'[w] \notin T /\ worker[w] \in T
    <2>1. after = before \ {w} /\ w \in before
      BY <1>4 DEF Doing
    <2>2. Cardinality(after) = Cardinality(before) - 1 /\ IsFiniteSet(after)
      BY <1>1, <2>1, FS_RemoveElement
    <2>3. Cardinality(after) \in Nat
      BY <2>2, FS_CardinalityType
    <2> QED BY <1>1, <1>2, <1>4, <2>2, <2>3 DEF One
  <1>5. CASE worker'[w] \in T <=> worker[w] \in T
    <2>1. \A v \in Workers : worker'[v] \in T <=> worker[v] \in T
      BY <1>5
    <2>2. after = before
      BY <2>1 DEF Doing
    <2>3. Count(T)' = Count(T)
      BY <1>1, <1>2, <2>2
    <2>4. One(worker'[w] \in T) = One(worker[w] \in T) /\ One(worker[w] \in T) \in Nat
      BY <1>5 DEF One
    <2> QED BY <1>1, <2>3, <2>4
  <1> QED BY <1>3, <1>4, <1>5

\* A code that is still in its guard bounds its successes and those to come.
LEMMA LiveCodesBounded ==
  ASSUME TypeOK, CodesAtHome, NEW p \in Purposes, guard[p].code # NoCode, LiveSound(p)
  PROVE  SpendSound(guard[p].code)
  <1> DEFINE c == guard[p].code
  <1>0. c \in Codes /\ spent[c] \in Nat /\ faults \in Nat
    BY GuardsAssumption DEF TypeOK, Keys, Guards
  <1>1. \A w \in Workers : worker[w] \in Work \cup {Idle}
    BY DEF TypeOK, Work
  <1>2. Doing(Spending(c)) \cup Doing(Deleting(c)) \subseteq Doing(Holding(p))
    <2> SUFFICES ASSUME NEW w \in Workers, worker[w] \in Match, worker[w].code = c,
                        worker[w].at \in {"matched", "consuming"}
                 PROVE  worker[w] \in Holding(p)
      BY DEF Doing, Spending, Deleting
    <2> QED BY DEF CodesAtHome, Holding, On, Work, HoldingSteps, GuessingSteps, PassedSteps
  <1>3. Doing(Spending(c)) \cap Doing(Deleting(c)) = {}
    BY DEF Doing, Spending, Deleting
  <1>4. Count(Spending(c)) + Count(Deleting(c)) <= Count(Holding(p))
    BY <1>2, <1>3, CountedApart
  <1>5. spent[c] + Count(Holding(p)) <= faults + One(Held(p)) + Count(Deleting(c))
    BY DEF LiveSound
  <1>6. Count(Spending(c)) \in Nat /\ Count(Deleting(c)) \in Nat /\ Count(Holding(p)) \in Nat
    BY Counted
  <1> HIDE DEF c
  <1> QED BY <1>0, <1>4, <1>5, <1>6 DEF SpendSound, One, c

LiveCodesAre ==
  \A p \in Purposes : TypeOK /\ CodesAtHome /\ guard[p].code # NoCode /\ LiveSound(p) =>
                        SpendSound(guard[p].code)

\* The same of the state after a step.
LEMMA LiveCodesBoundedNext == LiveCodesAre'
  <1>1. LiveCodesAre
    BY LiveCodesBounded DEF LiveCodesAre
  <1> QED BY <1>1, PTL

-----------------------------------------------------------------------------
(* Steps of a worker                                                       *)

\* Worker w goes to state s under guard g and leaves the keys of g as k.
Moves(w, g, s, k) ==
  /\ worker' \in [Workers -> Work \cup {Idle}]
  /\ guard' \in [Guards -> Keys]
  /\ worker'[w] = s
  /\ \A v \in Workers : v # w => worker'[v] = worker[v]
  /\ guard'[g] = k
  /\ \A q \in Guards : q # g => guard'[q] = guard[q]
  /\ worker[w] # Idle => worker[w].guard = g
  /\ s # Idle => s.guard = g
  /\ StepSound(s)
  /\ s \in Match => s.code = guard[g].code \/ (worker[w] \in Match /\ s.code = worker[w].code)
  /\ k.code \in {guard[g].code, NoCode}
  /\ sent' = sent
  /\ faults' \in Nat /\ faults' >= faults
  /\ \/ spent' = spent
     \/ worker[w] \in Match /\ spent' = [spent EXCEPT ![worker[w].code] = @ + 1]

LEMMA CodesStayHome ==
  ASSUME TypeOK, CodesAtHome, NEW w \in Workers, NEW g \in Guards,
         NEW s \in Work \cup {Idle}, NEW k \in Keys, Moves(w, g, s, k)
  PROVE  CodesAtHome'
  <1> USE GuardsAssumption
  <1>0. /\ guard \in [Guards -> Keys] /\ worker \in [Workers -> Work \cup {Idle}]
        /\ spent \in [Codes -> Nat] /\ Purposes \subseteq Guards
        /\ \A p \in Purposes : guard[p].code \in Codes \cup {NoCode}
    BY DEF TypeOK, Work, Guards, Keys
  <1>1. \A p \in Purposes : guard'[p].code \in {guard[p].code, NoCode}
    BY <1>0 DEF Moves
  <1>2. \A v \in Workers : StepSound(worker'[v])
    BY DEF Moves, CodesAtHome
  <1>3. ASSUME NEW v \in Workers, worker'[v] \in Match
        PROVE  /\ worker'[v].code \in sent
               /\ \A p \in Purposes : guard'[p].code = worker'[v].code => worker'[v].guard = p
    <2>1. worker'[v].code \in Codes /\ worker'[v].code # NoCode
      BY <1>3, StateFacts DEF Work
    <2>2. CASE v # w
      BY <1>1, <1>3, <2>1, <2>2 DEF Moves, CodesAtHome
    <2>3. CASE v = w
      <3>1. worker'[v] = s /\ s # Idle /\ s.guard = g /\ s \in Match /\ g \in Purposes
        BY <1>3, <2>3, StateFacts DEF Moves, Work
      <3>2. CASE s.code = guard[g].code
        BY <1>1, <2>1, <3>1, <3>2 DEF CodesAtHome
      <3>3. CASE worker[w] \in Match /\ s.code = worker[w].code
        <4>1. worker[w] # Idle /\ worker[w].guard = g
          BY <1>0, <3>3, StateFacts DEF Moves, Work
        <4> QED BY <1>1, <2>1, <3>1, <3>3, <4>1 DEF CodesAtHome
      <3> QED BY <3>1, <3>2, <3>3 DEF Moves
    <2> QED BY <2>2, <2>3
  <1>4. \A p, q \in Purposes :
          guard'[p].code = guard'[q].code => p = q \/ guard'[p].code = NoCode
    BY <1>1 DEF CodesAtHome
  <1>5. \A p \in Purposes : guard'[p].code \in sent \cup {NoCode}
    BY <1>1 DEF CodesAtHome
  <1>6. \A c \in Codes : c \notin sent => spent'[c] = 0
    BY <1>0 DEF Moves, CodesAtHome
  <1>7. sent' = sent
    BY DEF Moves
  <1> QED BY <1>2, <1>3, <1>4, <1>5, <1>6, <1>7 DEF CodesAtHome

\* What a step does to the counts of its own guard, and to its lease.
LEMMA OwnCounts ==
  ASSUME TypeOK, NEW w \in Workers, NEW g \in Guards,
         NEW s \in Work \cup {Idle}, NEW k \in Keys, Moves(w, g, s, k), NEW steps,
         "idle" \notin steps
  PROVE  /\ Count(On(g, steps)) \in Nat /\ Count(On(g, steps))' \in Nat
         /\ Count(On(g, steps))'
              = Count(On(g, steps)) + One(s.at \in steps) - One(worker[w].at \in steps)
         /\ guard'[g].lease \in Doing(On(g, steps))'
              <=> IF k.lease = w THEN s.at \in steps ELSE k.lease \in Doing(On(g, steps))
  <1>0. worker[w] \in Work \cup {Idle}
    BY DEF TypeOK, Work
  <1>1. s \in On(g, steps) <=> s.at \in steps
    BY StateFacts DEF On, Moves
  <1>2. worker[w] \in On(g, steps) <=> worker[w].at \in steps
    BY <1>0, StateFacts DEF On, Moves
  <1>3. /\ Count(On(g, steps))' \in Nat
        /\ Count(On(g, steps))'
             = Count(On(g, steps)) + One(worker'[w] \in On(g, steps)) - One(worker[w] \in On(g, steps))
    BY CountMoves DEF Moves
  <1>4. /\ One(worker'[w] \in On(g, steps)) = One(s.at \in steps)
        /\ One(worker[w] \in On(g, steps)) = One(worker[w].at \in steps)
    BY <1>1, <1>2 DEF Moves, One
  <1>5. guard'[g].lease \in Doing(On(g, steps))'
          <=> IF k.lease = w THEN s.at \in steps ELSE k.lease \in Doing(On(g, steps))
    <2>1. guard'[g].lease = k.lease /\ worker'[w] = s
      BY DEF Moves
    <2>2. CASE k.lease = w
      BY <1>1, <2>1, <2>2 DEF Doing
    <2>3. CASE k.lease # w
      <3>1. \A v \in Workers : v # w => (worker'[v] \in On(g, steps) <=> worker[v] \in On(g, steps))
        BY DEF Moves
      <3> QED BY <2>1, <2>3, <3>1 DEF Doing
    <2> QED BY <2>2, <2>3
  <1> QED BY <1>3, <1>4, <1>5, Counted

\* What a step leaves alone: the counts and the lease of another guard.
LEMMA OtherCounts ==
  ASSUME TypeOK, NEW w \in Workers, NEW g \in Guards,
         NEW s \in Work \cup {Idle}, NEW k \in Keys, Moves(w, g, s, k),
         NEW q \in Guards, q # g, NEW steps
  PROVE  /\ guard'[q] = guard[q]
         /\ Count(On(q, steps))' = Count(On(q, steps))
         /\ Doing(On(q, steps))' = Doing(On(q, steps))
  <1>0. worker[w] \in Work \cup {Idle}
    BY DEF TypeOK, Work
  <1>1. s \notin On(q, steps) /\ worker[w] \notin On(q, steps)
    BY <1>0, StateFacts DEF On, Moves
  <1>2. \A v \in Workers : worker'[v] \in On(q, steps) <=> worker[v] \in On(q, steps)
    BY <1>1 DEF Moves
  <1>3. Doing(On(q, steps))' = Doing(On(q, steps))
    BY <1>2 DEF Doing
  <1> QED BY <1>3 DEF Count, Moves

\* The other purposes stay sound.
LEMMA OthersSound ==
  ASSUME TypeOK, CodesAtHome, NEW w \in Workers, NEW g \in Guards,
         NEW s \in Work \cup {Idle}, NEW k \in Keys, Moves(w, g, s, k),
         NEW q \in Purposes, q # g, LeaseSound(q), LiveSound(q), GuessSound(q)
  PROVE  LeaseSound(q)' /\ LiveSound(q)' /\ GuessSound(q)'
  <1> USE GuardsAssumption
  <1>0. q \in Guards /\ faults \in Nat /\ worker[w] \in Work \cup {Idle} /\ guard[q] \in Keys
    BY DEF Guards, TypeOK, Work
  <1>1. guard'[q] = guard[q]
    BY <1>0 DEF Moves
  <1>2. /\ Count(Holding(q))' = Count(Holding(q)) /\ Count(Guessing(q))' = Count(Guessing(q))
        /\ Count(Passed(q))' = Count(Passed(q)) /\ Doing(Holding(q))' = Doing(Holding(q))
    BY <1>0, OtherCounts DEF Holding, Guessing, Passed
  <1>3. Held(q)' = Held(q)
    BY <1>1, <1>2 DEF Held
  <1>4. /\ Count(Holding(q)) \in Nat /\ Count(Guessing(q)) \in Nat /\ Count(Passed(q)) \in Nat
        /\ faults' \in Nat /\ faults' >= faults
    BY Counted DEF Moves
  <1>5. LeaseSound(q)'
    BY <1>0, <1>2, <1>3, <1>4 DEF LeaseSound, One
  <1>6. GuessSound(q)'
    <2>1. guard[q].failures \in Nat
      BY <1>0 DEF Keys
    <2>2. One(~Held(q))' = One(~Held(q)) /\ One(~Held(q)) \in Nat
      BY <1>3 DEF One
    <2> QED BY <1>0, <1>1, <1>2, <1>4, <2>1, <2>2 DEF GuessSound
  <1>7. LiveSound(q)'
    <2> SUFFICES ASSUME NEW c \in Codes, guard[q].code = c
                 PROVE  spent'[c] + Count(Holding(q))'
                          <= faults' + One(Held(q))' + Count(Deleting(c))'
      BY <1>0, <1>1 DEF LiveSound, Keys
    <2>1. worker[w] \in Match => worker[w].code # c
      BY <1>0, StateFacts DEF Moves, CodesAtHome, Work
    <2>2. s \in Match => s.code # c
      <3>1. s \in Match => g \in Purposes
        BY StateFacts DEF Moves, Work
      <3> QED BY <2>1, <3>1 DEF Moves, CodesAtHome
    <2>3. Count(Deleting(c))' = Count(Deleting(c)) /\ Count(Deleting(c)) \in Nat
      <3>1. s \notin Deleting(c) /\ worker[w] \notin Deleting(c)
        BY <2>1, <2>2 DEF Deleting
      <3>2. Count(Deleting(c))'
              = Count(Deleting(c)) + One(worker'[w] \in Deleting(c)) - One(worker[w] \in Deleting(c))
        BY CountMoves DEF Moves
      <3> QED BY <3>1, <3>2, Counted DEF One, Moves
    <2>4. spent'[c] = spent[c] /\ spent[c] \in Nat
      BY <2>1, StateFacts DEF Moves, TypeOK, Work
    <2>5. spent[c] + Count(Holding(q)) <= faults + One(Held(q)) + Count(Deleting(c))
      BY DEF LiveSound
    <2>6. One(Held(q))' = One(Held(q)) /\ One(Held(q)) \in Nat
      BY <1>3 DEF One
    <2> QED BY <1>0, <1>2, <1>4, <2>3, <2>4, <2>5, <2>6
  <1> QED BY <1>5, <1>6, <1>7

\* What a step does to the counts of its own purpose.
LEMMA PurposeCounts ==
  ASSUME TypeOK, NEW w \in Workers, NEW g \in Purposes,
         NEW s \in Work \cup {Idle}, NEW k \in Keys, Moves(w, g, s, k)
  PROVE  LET a == worker[w].at
             b == s.at
         IN  /\ Count(Holding(g)) \in Nat /\ Count(Holding(g))' \in Nat
             /\ Count(Guessing(g)) \in Nat /\ Count(Guessing(g))' \in Nat
             /\ Count(Passed(g)) \in Nat /\ Count(Passed(g))' \in Nat
             /\ Count(Holding(g))'
                  = Count(Holding(g)) + One(b \in HoldingSteps) - One(a \in HoldingSteps)
             /\ Count(Guessing(g))'
                  = Count(Guessing(g)) + One(b \in GuessingSteps) - One(a \in GuessingSteps)
             /\ Count(Passed(g))'
                  = Count(Passed(g)) + One(b \in PassedSteps) - One(a \in PassedSteps)
             /\ Count(Passed(g)) <= Count(Guessing(g))
             /\ Count(Guessing(g)) <= Count(Holding(g))
             /\ Held(g)' <=> IF k.lease = w THEN b \in HoldingSteps
                             ELSE k.lease \in Doing(Holding(g))
             /\ w \in Doing(Holding(g)) <=> a \in HoldingSteps
  <1>1. g \in Guards
    BY DEF Guards
  <1>2. "idle" \notin HoldingSteps /\ "idle" \notin GuessingSteps /\ "idle" \notin PassedSteps
    BY DEF HoldingSteps, GuessingSteps, PassedSteps
  <1>3. /\ Doing(Passed(g)) \subseteq Doing(Guessing(g))
        /\ Doing(Guessing(g)) \subseteq Doing(Holding(g))
    BY DEF Doing, Passed, Guessing, Holding, On, HoldingSteps, GuessingSteps
  <1>4. /\ Count(Passed(g)) <= Count(Guessing(g))
        /\ Count(Guessing(g)) <= Count(Holding(g))
    BY <1>3, CountedWithin
  <1>5. /\ Count(Holding(g)) \in Nat /\ Count(Holding(g))' \in Nat
        /\ Count(Holding(g))' = Count(Holding(g)) + One(s.at \in HoldingSteps)
                                  - One(worker[w].at \in HoldingSteps)
        /\ guard'[g].lease \in Doing(Holding(g))'
             <=> IF k.lease = w THEN s.at \in HoldingSteps ELSE k.lease \in Doing(Holding(g))
    BY <1>1, <1>2, OwnCounts DEF Holding
  <1>6. /\ Count(Guessing(g)) \in Nat /\ Count(Guessing(g))' \in Nat
        /\ Count(Guessing(g))' = Count(Guessing(g)) + One(s.at \in GuessingSteps)
                                  - One(worker[w].at \in GuessingSteps)
    BY <1>1, <1>2, OwnCounts DEF Guessing
  <1>7. /\ Count(Passed(g)) \in Nat /\ Count(Passed(g))' \in Nat
        /\ Count(Passed(g))' = Count(Passed(g)) + One(s.at \in PassedSteps)
                                  - One(worker[w].at \in PassedSteps)
    BY <1>1, <1>2, OwnCounts DEF Passed
  <1>8. w \in Doing(Holding(g)) <=> worker[w].at \in HoldingSteps
    <2>1. worker[w] \in Work \cup {Idle}
      BY DEF TypeOK, Work
    <2> QED BY <1>2, <2>1, StateFacts DEF Doing, Holding, On, Moves
  <1> QED BY <1>4, <1>5, <1>6, <1>7, <1>8 DEF Held

\* What a step does to the requests about to delete the code that is there.
LEMMA DeletingCounts ==
  ASSUME NEW w \in Workers, NEW g, NEW s, NEW k, Moves(w, g, s, k), NEW c
  PROVE  /\ Count(Deleting(c)) \in Nat /\ Count(Deleting(c))' \in Nat
         /\ Count(Deleting(c))'
              = Count(Deleting(c)) + One(s \in Deleting(c)) - One(worker[w] \in Deleting(c))
  <1>1. worker'[w] = s /\ \A v \in Workers : v # w => worker'[v] = worker[v]
    BY DEF Moves
  <1> QED BY <1>1, CountMoves, Counted

\* TypeOK and the rest of the invariant, from what a step does to its own guard.
LEMMA MoveKeeps ==
  ASSUME IInv, NEW w \in Workers, NEW g \in Guards,
         NEW s \in Work \cup {Idle}, NEW k \in Keys, Moves(w, g, s, k),
         phone' \in {"nobody", "customer", "profile"}, active' \in BOOLEAN,
         requests' \in 0..MaxRequests, faults' \in 0..MaxFaults,
         g \in Purposes => LeaseSound(g)' /\ LiveSound(g)' /\ GuessSound(g)',
         g = "password" => k.lease = NoWorker /\ PasswordSound',
         \A c \in Codes :
           \/ g \in Purposes /\ k.code = c
           \/ spent'[c] + One(s \in Spending(c)) <= spent[c] + One(worker[w] \in Spending(c))
  PROVE  IInv'
  <1> USE GuardsAssumption
  <1>0. /\ TypeOK /\ CodesAtHome /\ Purposes \subseteq Guards /\ faults \in Nat
        /\ worker[w] \in Work \cup {Idle}
    BY DEF IInv, Guards, TypeOK, Work
  <1>1. TypeOK'
    <2>1. spent' \in [Codes -> Nat]
      BY <1>0 DEF Moves, TypeOK
    <2>2. worker' \in [Workers -> {Idle} \cup Request \cup Match]
      BY DEF Moves, Work
    <2>3. guard'["password"].code = NoCode /\ guard'["password"].lease = NoWorker
      <3>1. "password" \in Guards
        BY DEF Guards
      <3>2. CASE g = "password"
        BY <1>0, <3>1, <3>2 DEF Moves, TypeOK
      <3>3. CASE g # "password"
        BY <1>0, <3>1, <3>3 DEF Moves, TypeOK
      <3> QED BY <3>2, <3>3
    <2>4. sent' \subseteq Codes /\ guard' \in [Guards -> Keys]
      BY <1>0 DEF Moves, TypeOK
    <2> QED BY <2>1, <2>2, <2>3, <2>4 DEF TypeOK
  <1>2. CodesAtHome'
    BY <1>0, CodesStayHome
  <1>3. ASSUME NEW q \in Purposes PROVE LeaseSound(q)' /\ LiveSound(q)' /\ GuessSound(q)'
    <2>1. CASE q = g
      BY <2>1
    <2>2. CASE q # g
      BY <1>0, <2>2, OthersSound DEF IInv
    <2> QED BY <2>1, <2>2
  <1>4. PasswordSound'
    <2>1. CASE g = "password"
      BY <2>1
    <2>2. CASE g # "password"
      <3>1. "password" \in Guards
        BY DEF Guards
      <3>2. /\ guard'["password"] = guard["password"]
            /\ Count(On("password", {"asked"}))' = Count(On("password", {"asked"}))
            /\ Count(On("password", {"locking"}))' = Count(On("password", {"locking"}))
        BY <1>0, <2>2, <3>1, OtherCounts
      <3>3. /\ Count(On("password", {"asked"})) \in Nat
            /\ Count(On("password", {"locking"})) \in Nat
            /\ Cardinality(Workers) \in Nat /\ guard["password"].failures \in Nat
            /\ faults' \in Nat /\ faults' >= faults
        BY <1>0, <3>1, Counted DEF TypeOK, Keys, Moves
      <3> QED BY <1>0, <3>2, <3>3 DEF IInv, PasswordSound
    <2> QED BY <2>1, <2>2
  <1>5. ASSUME NEW c \in Codes PROVE SpendSound(c)'
    <2>1. CASE g \in Purposes /\ k.code = c
      <3>1. guard'[g].code = c
        BY <2>1 DEF Moves
      <3>2. SpendSound(guard[g].code)'
        BY <1>1, <1>2, <2>1, <3>1, LiveCodesBoundedNext DEF LiveCodesAre
      <3> QED BY <3>1, <3>2 DEF SpendSound
    <2>2. CASE spent'[c] + One(s \in Spending(c)) <= spent[c] + One(worker[w] \in Spending(c))
      <3>1. worker'[w] = s /\ \A v \in Workers : v # w => worker'[v] = worker[v]
        BY DEF Moves
      <3>2. Count(Spending(c))'
              = Count(Spending(c)) + One(s \in Spending(c)) - One(worker[w] \in Spending(c))
        BY <3>1, CountMoves
      <3>3. /\ Count(Spending(c)) \in Nat /\ spent[c] \in Nat /\ spent'[c] \in Nat
            /\ One(s \in Spending(c)) \in Nat /\ One(worker[w] \in Spending(c)) \in Nat
        BY <1>0, <1>1, Counted DEF One, TypeOK
      <3>4. spent[c] + Count(Spending(c)) <= 1 + faults /\ faults' \in Nat /\ faults' >= faults
        BY DEF IInv, SpendSound, Moves
      <3> QED BY <1>0, <2>2, <3>2, <3>3, <3>4 DEF SpendSound
    <2> QED BY <2>1, <2>2
  <1> QED BY <1>1, <1>2, <1>3, <1>4, <1>5 DEF IInv

-----------------------------------------------------------------------------
(* What a step may do to the keys of its own purpose                       *)

\* The steps between the lease and its release, and those outside it.
LEMMA Staying ==
  ASSUME IInv, NEW w \in Workers, NEW g \in Purposes,
         NEW s \in Work \cup {Idle}, NEW k \in Keys, Moves(w, g, s, k),
         k = guard[g],
         worker[w].at \in HoldingSteps <=> s.at \in HoldingSteps,
         worker[w].at \in GuessingSteps <=> s.at \in GuessingSteps,
         s.at \in PassedSteps /\ worker[w].at \notin PassedSteps => ~k.locked,
         \A c \in Codes : c = k.code =>
           spent'[c] + One(worker[w] \in Deleting(c)) <= spent[c] + One(s \in Deleting(c))
  PROVE  LeaseSound(g)' /\ LiveSound(g)' /\ GuessSound(g)'
  <1> USE GuardsAssumption
  <1>0. /\ TypeOK /\ faults \in Nat /\ faults' \in Nat /\ faults' >= faults /\ guard'[g] = guard[g]
        /\ guard[g].failures \in Nat
    BY DEF IInv, TypeOK, Moves, Keys
  <1> DEFINE h == Count(Holding(g))
             t == Count(Guessing(g))
             d == Count(Passed(g))
  <1>1. /\ h \in Nat /\ h' = h /\ t \in Nat /\ t' = t /\ d \in Nat /\ d' \in Nat
        /\ d <= t
        /\ guard[g].locked => d' <= d
    <2>1. /\ h \in Nat /\ h' \in Nat /\ t \in Nat /\ t' \in Nat /\ d \in Nat /\ d' \in Nat
          /\ h' = h + One(s.at \in HoldingSteps) - One(worker[w].at \in HoldingSteps)
          /\ t' = t + One(s.at \in GuessingSteps) - One(worker[w].at \in GuessingSteps)
          /\ d' = d + One(s.at \in PassedSteps) - One(worker[w].at \in PassedSteps)
          /\ d <= t
      BY <1>0, PurposeCounts
    <2>2. One(s.at \in HoldingSteps) = One(worker[w].at \in HoldingSteps)
      BY DEF One
    <2>3. One(s.at \in GuessingSteps) = One(worker[w].at \in GuessingSteps)
      BY DEF One
    <2>4. /\ One(s.at \in HoldingSteps) \in Nat /\ One(s.at \in GuessingSteps) \in Nat
          /\ One(s.at \in PassedSteps) \in Nat /\ One(worker[w].at \in PassedSteps) \in Nat
          /\ guard[g].locked => One(s.at \in PassedSteps) <= One(worker[w].at \in PassedSteps)
      BY DEF One
    <2> HIDE DEF h, t, d
    <2> QED BY <2>1, <2>2, <2>3, <2>4
  <1>2. Held(g)' <=> Held(g)
    BY <1>0, PurposeCounts DEF Held
  <1>3. One(Held(g))' = One(Held(g)) /\ One(Held(g)) \in Nat
        /\ One(~Held(g))' = One(~Held(g)) /\ One(~Held(g)) \in Nat
    BY <1>2 DEF One
  <1>4. LeaseSound(g) /\ LiveSound(g) /\ GuessSound(g)
    BY DEF IInv
  <1>5. LeaseSound(g)'
    BY <1>0, <1>1, <1>3, <1>4 DEF LeaseSound
  <1>6. GuessSound(g)'
    BY <1>0, <1>1, <1>3, <1>4 DEF GuessSound
  <1>7. LiveSound(g)'
    <2> SUFFICES ASSUME NEW c \in Codes, guard[g].code = c
                 PROVE  spent'[c] + Count(Holding(g))'
                          <= faults' + One(Held(g))' + Count(Deleting(c))'
      BY <1>0 DEF LiveSound, Keys
    <2>1. spent[c] + h <= faults + One(Held(g)) + Count(Deleting(c))
      BY <1>4 DEF LiveSound
    <2>2. /\ Count(Deleting(c)) \in Nat /\ Count(Deleting(c))' \in Nat
          /\ Count(Deleting(c))'
               = Count(Deleting(c)) + One(s \in Deleting(c)) - One(worker[w] \in Deleting(c))
      BY DeletingCounts
    <2>3. /\ One(s \in Deleting(c)) \in Nat /\ One(worker[w] \in Deleting(c)) \in Nat
          /\ spent[c] \in Nat /\ spent'[c] \in Nat
      BY <1>0, StateFacts DEF One, TypeOK, Moves
    <2>4. spent'[c] + One(worker[w] \in Deleting(c)) <= spent[c] + One(s \in Deleting(c))
      OBVIOUS
    <2> HIDE DEF h
    <2> QED BY <1>0, <1>1, <1>3, <2>1, <2>2, <2>3, <2>4 DEF h
  <1> QED BY <1>5, <1>6, <1>7

\* The steps that give the lease back: to nobody, whoever held it.
LEMMA Leaving ==
  ASSUME IInv, NEW w \in Workers, NEW g \in Purposes,
         NEW s \in Work \cup {Idle}, NEW k \in Keys, Moves(w, g, s, k),
         k.lease = NoWorker,
         worker[w].at \in HoldingSteps, s.at \notin HoldingSteps,
         k.failures >= MaxAttempts =>
           /\ k.failures = guard[g].failures
           /\ guard[g].locked => k.locked
           /\ ~k.locked => worker[w].at \in GuessingSteps,
         k.code # NoCode => spent' = spent /\ worker[w].at # "consuming"
  PROVE  LeaseSound(g)' /\ LiveSound(g)' /\ GuessSound(g)'
  <1> USE GuardsAssumption
  <1>0. /\ TypeOK /\ faults \in Nat /\ faults' \in Nat /\ faults' >= faults /\ guard'[g] = k
        /\ guard[g].failures \in Nat /\ k.failures \in Nat
    BY DEF IInv, TypeOK, Moves, Keys
  <1> DEFINE h == Count(Holding(g))
             t == Count(Guessing(g))
             d == Count(Passed(g))
  <1>1. /\ h \in Nat /\ h' \in Nat /\ t \in Nat /\ t' \in Nat /\ d \in Nat /\ d' \in Nat
        /\ h' = h + One(s.at \in HoldingSteps) - One(worker[w].at \in HoldingSteps)
        /\ t' = t + One(s.at \in GuessingSteps) - One(worker[w].at \in GuessingSteps)
        /\ d' = d + One(s.at \in PassedSteps) - One(worker[w].at \in PassedSteps)
        /\ d <= t
        /\ Held(g)' <=> IF k.lease = w THEN s.at \in HoldingSteps ELSE k.lease \in Doing(Holding(g))
    BY <1>0, PurposeCounts
  <1>2. ~Held(g)'
    BY <1>1 DEF Doing
  <1>3. s.at \notin GuessingSteps /\ s.at \notin PassedSteps
    BY DEF HoldingSteps, GuessingSteps
  <1>4. /\ h' = h - 1 /\ t' <= t /\ d' <= d
        /\ worker[w].at \in GuessingSteps => t' = t - 1
    BY <1>1, <1>3 DEF One
  <1>5. /\ One(Held(g))' = 0 /\ One(~Held(g))' = 1
        /\ One(Held(g)) \in 0..1 /\ One(~Held(g)) \in 0..1
    BY <1>2 DEF One
  <1>6. LeaseSound(g) /\ LiveSound(g) /\ GuessSound(g)
    BY DEF IInv
  <1>7. LeaseSound(g)'
    BY <1>0, <1>1, <1>4, <1>5, <1>6 DEF LeaseSound
  <1>8. GuessSound(g)'
    <2> SUFFICES ASSUME k.failures >= MaxAttempts
                 PROVE  LET over == k.failures - MaxAttempts
                        IN  IF k.locked THEN over + d' <= faults'
                            ELSE over + t' + One(~Held(g))' <= faults'
      BY <1>0 DEF GuessSound
    <2>1. guard[g].failures = k.failures
      OBVIOUS
    <2>2. CASE guard[g].locked
      <3>1. k.failures - MaxAttempts + d <= faults
        BY <1>0, <1>6, <2>1, <2>2 DEF GuessSound
      <3>2. k.locked
        BY <2>2
      <3> QED BY <1>0, <1>1, <1>4, <3>1, <3>2
    <2>3. CASE ~guard[g].locked
      <3>1. k.failures - MaxAttempts + t + One(~Held(g)) <= faults
        BY <1>0, <1>6, <2>1, <2>3 DEF GuessSound
      <3>2. CASE k.locked
        BY <1>0, <1>1, <1>4, <1>5, <3>1, <3>2
      <3>3. CASE ~k.locked
        <4>1. t' = t - 1
          BY <1>4, <3>3
        <4> QED BY <1>0, <1>1, <1>5, <3>1, <3>3, <4>1
      <3> QED BY <3>2, <3>3
    <2> QED BY <2>2, <2>3
  <1>9. LiveSound(g)'
    <2> SUFFICES ASSUME NEW c \in Codes, k.code = c
                 PROVE  spent'[c] + h' <= faults' + One(Held(g))' + Count(Deleting(c))'
      BY <1>0 DEF LiveSound, Keys
    <2>1. k.code # NoCode /\ guard[g].code = c
      BY DEF Moves
    <2>2. spent[c] + h <= faults + One(Held(g)) + Count(Deleting(c))
      BY <1>6, <2>1 DEF LiveSound
    <2>3. /\ Count(Deleting(c)) \in Nat /\ Count(Deleting(c))' \in Nat
          /\ Count(Deleting(c))'
               = Count(Deleting(c)) + One(s \in Deleting(c)) - One(worker[w] \in Deleting(c))
      BY DeletingCounts
    <2>4. s \notin Deleting(c) /\ worker[w] \notin Deleting(c)
      BY <1>3, <2>1 DEF Deleting, PassedSteps
    <2>5. spent'[c] = spent[c] /\ spent[c] \in Nat
      BY <1>0, <2>1 DEF TypeOK
    <2> HIDE DEF h
    <2> QED BY <1>0, <1>1, <1>4, <1>5, <2>2, <2>3, <2>4, <2>5 DEF One
  <1> QED BY <1>7, <1>8, <1>9

\* A request takes the lease.
LEMMA Entering ==
  ASSUME IInv, NEW w \in Workers, NEW g \in Purposes,
         NEW s \in Work \cup {Idle}, NEW k \in Keys, Moves(w, g, s, k),
         guard[g].lease = NoWorker, k.lease = w, k.failures = guard[g].failures,
         k.code = guard[g].code, k.locked = guard[g].locked,
         worker[w].at = "asked", s.at = "leased", spent' = spent
  PROVE  LeaseSound(g)' /\ LiveSound(g)' /\ GuessSound(g)'
  <1> USE GuardsAssumption
  <1>0. /\ TypeOK /\ faults \in Nat /\ faults' \in Nat /\ faults' >= faults /\ guard'[g] = k
        /\ guard[g] \in Keys /\ guard[g].failures \in Nat
    BY DEF IInv, TypeOK, Moves, Keys, Guards
  <1> DEFINE h == Count(Holding(g))
             t == Count(Guessing(g))
             d == Count(Passed(g))
  <1>1. /\ h \in Nat /\ h' \in Nat /\ t \in Nat /\ t' \in Nat /\ d \in Nat /\ d' \in Nat
        /\ h' = h + One(s.at \in HoldingSteps) - One(worker[w].at \in HoldingSteps)
        /\ t' = t + One(s.at \in GuessingSteps) - One(worker[w].at \in GuessingSteps)
        /\ d' = d + One(s.at \in PassedSteps) - One(worker[w].at \in PassedSteps)
        /\ Held(g)' <=> IF k.lease = w THEN s.at \in HoldingSteps ELSE k.lease \in Doing(Holding(g))
    BY <1>0, PurposeCounts
  <1>2. /\ s.at \in HoldingSteps /\ s.at \in GuessingSteps /\ s.at \notin PassedSteps
        /\ worker[w].at \notin HoldingSteps /\ worker[w].at \notin GuessingSteps
        /\ worker[w].at \notin PassedSteps
    BY DEF HoldingSteps, GuessingSteps, PassedSteps
  <1>3. h' = h + 1 /\ t' = t + 1 /\ d' = d
    BY <1>1, <1>2 DEF One
  <1>4. Held(g)' /\ ~Held(g)
    BY <1>1, <1>2 DEF Held, Doing
  <1>5. One(Held(g))' = 1 /\ One(~Held(g))' = 0 /\ One(Held(g)) = 0 /\ One(~Held(g)) = 1
    BY <1>4 DEF One
  <1>6. LeaseSound(g) /\ LiveSound(g) /\ GuessSound(g)
    BY DEF IInv
  <1>7. LeaseSound(g)'
    BY <1>0, <1>1, <1>3, <1>5, <1>6 DEF LeaseSound
  <1>8. GuessSound(g)'
    <2>1. /\ guard'[g].failures = guard[g].failures
          /\ guard'[g].locked = guard[g].locked
      BY <1>0
    <2> QED BY <1>0, <1>1, <1>3, <1>5, <1>6, <2>1 DEF GuessSound
  <1>9. LiveSound(g)'
    <2> SUFFICES ASSUME NEW c \in Codes, guard[g].code = c
                 PROVE  spent'[c] + h' <= faults' + One(Held(g))' + Count(Deleting(c))'
      BY <1>0 DEF LiveSound, Keys
    <2>1. spent[c] + h <= faults + One(Held(g)) + Count(Deleting(c))
      BY <1>6 DEF LiveSound
    <2>2. /\ Count(Deleting(c)) \in Nat /\ Count(Deleting(c))' \in Nat
          /\ Count(Deleting(c))'
               = Count(Deleting(c)) + One(s \in Deleting(c)) - One(worker[w] \in Deleting(c))
      BY DeletingCounts
    <2>3. s \notin Deleting(c) /\ worker[w] \notin Deleting(c)
      BY DEF Deleting
    <2>4. spent'[c] = spent[c] /\ spent[c] \in Nat
      BY <1>0 DEF TypeOK
    <2> HIDE DEF h
    <2> QED BY <1>0, <1>1, <1>3, <1>5, <2>1, <2>2, <2>3, <2>4 DEF One
  <1> QED BY <1>7, <1>8, <1>9

\* The guess that reaches the limit, or goes beyond it.
LEMMA Overstepping ==
  ASSUME IInv, NEW w \in Workers, NEW g \in Purposes,
         NEW s \in Work \cup {Idle}, NEW k \in Keys, Moves(w, g, s, k),
         k.lease = guard[g].lease, k.code = guard[g].code, k.locked = guard[g].locked,
         k.failures = guard[g].failures + 1, k.failures >= MaxAttempts,
         worker[w].at = "checked", s.at = "locking", spent' = spent
  PROVE  LeaseSound(g)' /\ LiveSound(g)' /\ GuessSound(g)'
  <1> USE GuardsAssumption
  <1>0. /\ TypeOK /\ faults \in Nat /\ faults' \in Nat /\ faults' >= faults /\ guard'[g] = k
        /\ guard[g] \in Keys /\ guard[g].failures \in Nat
    BY DEF IInv, TypeOK, Moves, Keys, Guards
  <1> DEFINE h == Count(Holding(g))
             t == Count(Guessing(g))
             d == Count(Passed(g))
  <1>1. /\ h \in Nat /\ h' \in Nat /\ t \in Nat /\ t' \in Nat /\ d \in Nat /\ d' \in Nat
        /\ h' = h + One(s.at \in HoldingSteps) - One(worker[w].at \in HoldingSteps)
        /\ t' = t + One(s.at \in GuessingSteps) - One(worker[w].at \in GuessingSteps)
        /\ d' = d + One(s.at \in PassedSteps) - One(worker[w].at \in PassedSteps)
        /\ d <= t /\ t <= h
        /\ Held(g)' <=> IF k.lease = w THEN s.at \in HoldingSteps ELSE k.lease \in Doing(Holding(g))
        /\ w \in Doing(Holding(g)) <=> worker[w].at \in HoldingSteps
    BY <1>0, PurposeCounts
  <1>2. /\ s.at \in HoldingSteps /\ s.at \notin GuessingSteps /\ s.at \notin PassedSteps
        /\ worker[w].at \in HoldingSteps /\ worker[w].at \in GuessingSteps
        /\ worker[w].at \in PassedSteps
    BY DEF HoldingSteps, GuessingSteps, PassedSteps
  <1>3. h' = h /\ t' = t - 1 /\ d' = d - 1
    BY <1>1, <1>2 DEF One
  <1>4. Held(g)' <=> Held(g)
    BY <1>1, <1>2 DEF Held
  <1>5. /\ One(Held(g))' = One(Held(g)) /\ One(~Held(g))' = One(~Held(g))
        /\ One(Held(g)) \in 0..1 /\ One(~Held(g)) = 1 - One(Held(g))
    BY <1>4 DEF One
  <1>6. LeaseSound(g) /\ LiveSound(g) /\ GuessSound(g)
    BY DEF IInv
  <1>7. LeaseSound(g)'
    BY <1>0, <1>1, <1>3, <1>5, <1>6 DEF LeaseSound
  <1>8. GuessSound(g)'
    <2>1. /\ guard'[g].failures = guard[g].failures + 1
          /\ guard'[g].locked = guard[g].locked
      BY <1>0
    <2>2. CASE guard[g].failures >= MaxAttempts
      BY <1>0, <1>1, <1>3, <1>5, <1>6, <2>1, <2>2 DEF GuessSound
    <2>3. CASE guard[g].failures + 1 = MaxAttempts
      <3>1. h <= faults + One(Held(g))
        BY <1>6 DEF LeaseSound
      <3>2. d' <= faults' /\ t' + One(~Held(g))' <= faults'
        <4> HIDE DEF h, t, d
        <4> QED BY <1>0, <1>1, <1>3, <1>5, <3>1
      <3>3. guard'[g].failures - MaxAttempts = 0
        BY <1>0, <2>1, <2>3
      <3> QED BY <1>1, <1>5, <3>2, <3>3 DEF GuessSound
    <2> QED BY <1>0, <2>2, <2>3
  <1>9. LiveSound(g)'
    <2> SUFFICES ASSUME NEW c \in Codes, guard[g].code = c
                 PROVE  spent'[c] + h' <= faults' + One(Held(g))' + Count(Deleting(c))'
      BY <1>0 DEF LiveSound, Keys
    <2>1. spent[c] + h <= faults + One(Held(g)) + Count(Deleting(c))
      BY <1>6 DEF LiveSound
    <2>2. /\ Count(Deleting(c)) \in Nat /\ Count(Deleting(c))' \in Nat
          /\ Count(Deleting(c))'
               = Count(Deleting(c)) + One(s \in Deleting(c)) - One(worker[w] \in Deleting(c))
      BY DeletingCounts
    <2>3. s \notin Deleting(c) /\ worker[w] \notin Deleting(c)
      BY DEF Deleting
    <2>4. spent'[c] = spent[c] /\ spent[c] \in Nat
      BY <1>0 DEF TypeOK
    <2> HIDE DEF h
    <2> QED BY <1>0, <1>1, <1>3, <1>5, <2>1, <2>2, <2>3, <2>4 DEF One
  <1> QED BY <1>7, <1>8, <1>9

\* A request dies, with the lease or without, before or after its success.
LEMMA Dying ==
  ASSUME IInv, NEW w \in Workers, NEW g \in Purposes,
         NEW s \in Work \cup {Idle}, NEW k \in Keys, Moves(w, g, s, k),
         k = guard[g], s = Idle, spent' = spent, faults' = faults + 1
  PROVE  LeaseSound(g)' /\ LiveSound(g)' /\ GuessSound(g)'
  <1> USE GuardsAssumption
  <1>0. /\ TypeOK /\ faults \in Nat /\ guard'[g] = guard[g]
        /\ guard[g] \in Keys /\ guard[g].failures \in Nat
    BY DEF IInv, TypeOK, Moves, Keys, Guards
  <1> DEFINE h == Count(Holding(g))
             t == Count(Guessing(g))
             d == Count(Passed(g))
  <1>1. /\ h \in Nat /\ h' \in Nat /\ t \in Nat /\ t' \in Nat /\ d \in Nat /\ d' \in Nat
        /\ h' = h + One(s.at \in HoldingSteps) - One(worker[w].at \in HoldingSteps)
        /\ t' = t + One(s.at \in GuessingSteps) - One(worker[w].at \in GuessingSteps)
        /\ d' = d + One(s.at \in PassedSteps) - One(worker[w].at \in PassedSteps)
        /\ Held(g)' <=> IF k.lease = w THEN s.at \in HoldingSteps ELSE k.lease \in Doing(Holding(g))
        /\ w \in Doing(Holding(g)) <=> worker[w].at \in HoldingSteps
    BY <1>0, PurposeCounts
  <1>2. s.at \notin HoldingSteps /\ s.at \notin GuessingSteps /\ s.at \notin PassedSteps
    BY DEF HoldingSteps, GuessingSteps, PassedSteps, Idle
  <1>3. /\ t' <= t /\ d' <= d
        /\ \/ h' = h - 1
           \/ h' = h /\ worker[w].at \notin HoldingSteps
    BY <1>1, <1>2 DEF One
  <1>4. /\ One(Held(g)) \in 0..1 /\ One(Held(g))' \in 0..1
        /\ One(~Held(g)) = 1 - One(Held(g)) /\ One(~Held(g))' = 1 - One(Held(g))'
    BY DEF One
  <1>5. h' - One(Held(g))' <= h - One(Held(g))
    <2>1. CASE worker[w].at \in HoldingSteps
      BY <1>1, <1>3, <1>4, <2>1
    <2>2. CASE worker[w].at \notin HoldingSteps
      <3>1. Held(g)' <=> Held(g)
        BY <1>1, <1>2, <2>2 DEF Held
      <3>2. One(Held(g))' = One(Held(g))
        BY <3>1 DEF One
      <3> QED BY <1>1, <1>3, <1>4, <3>2
    <2> QED BY <2>1, <2>2
  <1>6. LeaseSound(g) /\ LiveSound(g) /\ GuessSound(g)
    BY DEF IInv
  <1>7. LeaseSound(g)'
    BY <1>0, <1>1, <1>4, <1>5, <1>6 DEF LeaseSound
  <1>8. GuessSound(g)'
    BY <1>0, <1>1, <1>3, <1>4, <1>6 DEF GuessSound
  <1>9. LiveSound(g)'
    <2> SUFFICES ASSUME NEW c \in Codes, guard[g].code = c
                 PROVE  spent'[c] + h' <= faults' + One(Held(g))' + Count(Deleting(c))'
      BY <1>0 DEF LiveSound, Keys
    <2>1. spent[c] + h <= faults + One(Held(g)) + Count(Deleting(c))
      BY <1>6 DEF LiveSound
    <2>2. /\ Count(Deleting(c)) \in Nat /\ Count(Deleting(c))' \in Nat
          /\ Count(Deleting(c))'
               = Count(Deleting(c)) + One(s \in Deleting(c)) - One(worker[w] \in Deleting(c))
      BY DeletingCounts
    <2>3. /\ One(s \in Deleting(c)) \in 0..1 /\ One(worker[w] \in Deleting(c)) \in 0..1
          /\ spent'[c] = spent[c] /\ spent[c] \in Nat
      BY <1>0 DEF TypeOK, One
    <2> HIDE DEF h
    <2> QED BY <1>0, <1>1, <1>4, <1>5, <2>1, <2>2, <2>3
  <1> QED BY <1>7, <1>8, <1>9

-----------------------------------------------------------------------------
(* What a step may do to the guard of password logins                      *)

LEMMA PasswordCounts ==
  ASSUME TypeOK, NEW w \in Workers, NEW s \in Work \cup {Idle}, NEW k \in Keys,
         Moves(w, "password", s, k)
  PROVE  LET asked == Count(On("password", {"asked"}))
             locking == Count(On("password", {"locking"}))
         IN  /\ asked \in Nat /\ asked' \in Nat /\ locking \in Nat /\ locking' \in Nat
             /\ Cardinality(Workers) \in Nat
             /\ asked' = asked + One(s.at = "asked") - One(worker[w].at = "asked")
             /\ locking' = locking + One(s.at = "locking") - One(worker[w].at = "locking")
             /\ asked + locking <= Cardinality(Workers)
  <1>1. "password" \in Guards
    BY DEF Guards
  <1> DEFINE asked == On("password", {"asked"})
             locking == On("password", {"locking"})
  <1>2. /\ Doing(asked) \cup Doing(locking) \subseteq Doing(Work)
        /\ Doing(asked) \cap Doing(locking) = {}
    BY DEF Doing, On
  <1>3. Count(asked) + Count(locking) <= Count(Work)
    BY <1>2, CountedApart
  <1>4. /\ Count(Work) \in Nat /\ Count(Work) <= Cardinality(Workers)
        /\ Cardinality(Workers) \in Nat /\ Count(asked) \in Nat /\ Count(locking) \in Nat
    BY Counted
  <1>5. /\ Count(asked)' \in Nat
        /\ Count(asked)' = Count(asked) + One(s.at \in {"asked"}) - One(worker[w].at \in {"asked"})
    BY <1>1, OwnCounts
  <1>6. /\ Count(locking)' \in Nat
        /\ Count(locking)'
             = Count(locking) + One(s.at \in {"locking"}) - One(worker[w].at \in {"locking"})
    BY <1>1, OwnCounts
  <1>7. /\ One(s.at \in {"asked"}) = One(s.at = "asked")
        /\ One(worker[w].at \in {"asked"}) = One(worker[w].at = "asked")
        /\ One(s.at \in {"locking"}) = One(s.at = "locking")
        /\ One(worker[w].at \in {"locking"}) = One(worker[w].at = "locking")
    BY DEF One
  <1> HIDE DEF asked, locking
  <1>8. /\ Count(asked) + Count(locking) <= Cardinality(Workers)
        /\ Count(asked)' = Count(asked) + One(s.at = "asked") - One(worker[w].at = "asked")
        /\ Count(locking)'
             = Count(locking) + One(s.at = "locking") - One(worker[w].at = "locking")
    BY <1>3, <1>4, <1>5, <1>6, <1>7
  <1> QED BY <1>4, <1>5, <1>6, <1>8 DEF asked, locking

\* Ask: somebody who sees no lock.
LEMMA PasswordAsked ==
  ASSUME IInv, NEW w \in Workers, NEW s \in Work \cup {Idle}, NEW k \in Keys,
         Moves(w, "password", s, k),
         k = guard["password"], ~guard["password"].locked,
         worker[w] = Idle, s.at = "asked"
  PROVE  PasswordSound'
  <1> USE GuardsAssumption
  <1>0. /\ TypeOK /\ faults \in Nat /\ faults' \in Nat /\ faults' >= faults
        /\ guard'["password"] = guard["password"] /\ guard["password"].failures \in Nat
    BY DEF IInv, TypeOK, Moves, Keys, Guards
  <1> DEFINE locking == Count(On("password", {"locking"}))
  <1>1. /\ locking \in Nat /\ locking' \in Nat
        /\ locking' = locking + One(s.at = "locking") - One(worker[w].at = "locking")
    BY <1>0, PasswordCounts
  <1>2. locking' = locking
    BY <1>1 DEF One, Idle
  <1> QED BY <1>0, <1>1, <1>2 DEF IInv, PasswordSound

\* A request that guessed wrong, and may be about to lock.
LEMMA PasswordFailed ==
  ASSUME IInv, NEW w \in Workers, NEW s \in Work \cup {Idle}, NEW k \in Keys,
         Moves(w, "password", s, k),
         k.failures = guard["password"].failures + 1, k.locked = guard["password"].locked,
         worker[w].at = "asked",
         IF k.failures >= MaxAttempts THEN s.at = "locking" ELSE s = Idle
  PROVE  PasswordSound'
  <1> USE GuardsAssumption
  <1>0. /\ TypeOK /\ faults \in Nat /\ faults' \in Nat /\ faults' >= faults
        /\ guard'["password"] = k /\ guard["password"].failures \in Nat
    BY DEF IInv, TypeOK, Moves, Keys, Guards
  <1> SUFFICES ASSUME k.failures >= MaxAttempts
               PROVE  PasswordSound'
    BY <1>0 DEF PasswordSound
  <1> DEFINE asked == Count(On("password", {"asked"}))
             locking == Count(On("password", {"locking"}))
  <1>1. /\ asked \in Nat /\ asked' \in Nat /\ locking \in Nat /\ locking' \in Nat
        /\ Cardinality(Workers) \in Nat
        /\ asked' = asked + One(s.at = "asked") - One(worker[w].at = "asked")
        /\ locking' = locking + One(s.at = "locking") - One(worker[w].at = "locking")
        /\ asked + locking <= Cardinality(Workers)
    BY <1>0, PasswordCounts
  <1>2. asked' = asked - 1 /\ locking' = locking + 1
    BY <1>1 DEF One
  <1>3. PasswordSound
    BY DEF IInv
  <1>4. CASE guard["password"].failures >= MaxAttempts
    BY <1>0, <1>1, <1>2, <1>3, <1>4 DEF PasswordSound
  <1>5. CASE k.failures = MaxAttempts
    BY <1>0, <1>1, <1>2, <1>5 DEF PasswordSound
  <1> QED BY <1>0, <1>4, <1>5

\* LockGuard: everyone who guessed beyond the limit was a worker.
LEMMA PasswordLocked ==
  ASSUME IInv, NEW w \in Workers, NEW s \in Work \cup {Idle}, NEW k \in Keys,
         Moves(w, "password", s, k),
         k.failures = guard["password"].failures, k.locked = TRUE,
         worker[w].at = "locking", s = Idle
  PROVE  PasswordSound'
  <1> USE GuardsAssumption
  <1>0. /\ TypeOK /\ faults \in Nat /\ faults' \in Nat /\ faults' >= faults
        /\ guard'["password"] = k /\ guard["password"].failures \in Nat
    BY DEF IInv, TypeOK, Moves, Keys, Guards
  <1> DEFINE asked == Count(On("password", {"asked"}))
             locking == Count(On("password", {"locking"}))
  <1>1. /\ asked \in Nat /\ asked' \in Nat /\ locking \in Nat
        /\ Cardinality(Workers) \in Nat
        /\ asked' = asked + One(s.at = "asked") - One(worker[w].at = "asked")
        /\ asked + locking <= Cardinality(Workers)
    BY <1>0, PasswordCounts
  <1>2. asked' = asked
    BY <1>1 DEF One, Idle
  <1>3. PasswordSound
    BY DEF IInv
  <1> QED BY <1>0, <1>1, <1>2, <1>3 DEF PasswordSound

\* A request that dies instead of locking cost a fault.
LEMMA PasswordDied ==
  ASSUME IInv, NEW w \in Workers, NEW s \in Work \cup {Idle}, NEW k \in Keys,
         Moves(w, "password", s, k),
         k = guard["password"], s = Idle, faults' = faults + 1
  PROVE  PasswordSound'
  <1> USE GuardsAssumption
  <1>0. /\ TypeOK /\ faults \in Nat
        /\ guard'["password"] = guard["password"] /\ guard["password"].failures \in Nat
    BY DEF IInv, TypeOK, Moves, Keys, Guards
  <1> DEFINE asked == Count(On("password", {"asked"}))
             locking == Count(On("password", {"locking"}))
  <1>1. /\ asked \in Nat /\ asked' \in Nat /\ locking \in Nat /\ locking' \in Nat
        /\ Cardinality(Workers) \in Nat
        /\ asked' = asked + One(s.at = "asked") - One(worker[w].at = "asked")
        /\ locking' = locking + One(s.at = "locking") - One(worker[w].at = "locking")
    BY <1>0, PasswordCounts
  <1>2. asked' <= asked /\ locking' >= locking - 1
    BY <1>1 DEF One, Idle
  <1>3. PasswordSound
    BY DEF IInv
  <1> QED BY <1>0, <1>1, <1>2, <1>3 DEF PasswordSound

-----------------------------------------------------------------------------
(* The steps                                                               *)

\* Nothing is spent, and nobody comes to spend.
LEMMA NothingSpent ==
  ASSUME TypeOK, NEW w \in Workers, NEW s, s.at \notin {"matched", "consuming"}, spent' = spent
  PROVE  \A c \in Codes :
           spent'[c] + One(s \in Spending(c)) <= spent[c] + One(worker[w] \in Spending(c))
  <1>1. \A c \in Codes : s \notin Spending(c) /\ spent[c] \in Nat
    BY DEF Spending, TypeOK
  <1> QED BY <1>1 DEF One

\* A worker at a step is not idle, and its guard is one.
LEMMA AtWork ==
  ASSUME TypeOK, CodesAtHome, NEW w \in Workers, worker[w] # Idle
  PROVE  /\ worker[w] \in Work /\ worker[w].guard \in Guards /\ Of(w) \in Keys
         /\ worker[w].at \in {"leased", "checked", "matched", "consuming", "following"}
              => worker[w].guard \in Purposes
         /\ worker[w].at \in {"asked", "leased", "checked", "locking"}
              <=> worker[w] \in Request
         /\ worker[w] \in Request <=> worker[w] \notin Match
  <1>1. worker[w] \in Work
    BY DEF TypeOK, Work
  <1> QED BY <1>1, StateFacts DEF CodesAtHome, StepSound, Of, TypeOK, Work, Request, Match

\* The other fields of the keys when one is written.
LEMMA LeaseWritten ==
  ASSUME NEW row \in Keys, NEW l \in Workers \cup {NoWorker}
  PROVE  LET after == [row EXCEPT !.lease = l]
         IN  /\ after \in Keys /\ after.lease = l /\ after.code = row.code
             /\ after.failures = row.failures /\ after.locked = row.locked
  BY DEF Keys

LEMMA AskKeeps ==
  ASSUME IInv, NEW w \in Workers, NEW g \in Guards, Ask(w, g)
  PROVE  IInv'
  <1> USE GuardsAssumption
  <1> DEFINE s == [at |-> "asked", guard |-> g]
             k == guard[g]
  <1>0. TypeOK /\ CodesAtHome /\ k \in Keys /\ s \in Work /\ s \notin Match
    BY DEF IInv, TypeOK, Work, Request, Match
  <1>1. Moves(w, g, s, k)
    BY <1>0 DEF Ask, Moves, TypeOK, StepSound, Work
  <1>2. /\ s.at = "asked" /\ worker[w].at = "idle" /\ worker[w] = Idle
        /\ ~k.locked /\ spent' = spent
    BY DEF Ask, Idle
  <1>3. /\ s.at \notin HoldingSteps /\ s.at \notin GuessingSteps /\ s.at \notin PassedSteps
        /\ worker[w].at \notin HoldingSteps /\ worker[w].at \notin GuessingSteps
    BY <1>2 DEF HoldingSteps, GuessingSteps, PassedSteps
  <1>4. \A c \in Codes : /\ s \notin Deleting(c) /\ worker[w] \notin Deleting(c)
                         /\ s \notin Spending(c) /\ worker[w] \notin Spending(c)
    BY <1>2 DEF Deleting, Spending
  <1>5. \A c \in Codes :
          /\ spent'[c] + One(worker[w] \in Deleting(c)) <= spent[c] + One(s \in Deleting(c))
          /\ spent'[c] + One(s \in Spending(c)) <= spent[c] + One(worker[w] \in Spending(c))
    BY <1>0, <1>2, <1>4 DEF One, TypeOK
  <1>6. /\ phone' \in {"nobody", "customer", "profile"} /\ active' \in BOOLEAN
        /\ requests' \in 0..MaxRequests /\ faults' \in 0..MaxFaults
        /\ guard["password"].lease = NoWorker
    BY <1>0 DEF Ask, TypeOK
  <1> HIDE DEF s
  <1>7. ASSUME g \in Purposes PROVE LeaseSound(g)' /\ LiveSound(g)' /\ GuessSound(g)'
    BY <1>0, <1>1, <1>3, <1>5, <1>7, Staying
  <1>8. ASSUME g = "password" PROVE k.lease = NoWorker /\ PasswordSound'
    BY <1>0, <1>1, <1>2, <1>6, <1>8, PasswordAsked
  <1> QED BY <1>0, <1>1, <1>5, <1>6, <1>7, <1>8, MoveKeeps

LEMMA TakeLeaseKeeps ==
  ASSUME IInv, NEW w \in Workers, NEW g \in Purposes, g = worker[w].guard, TakeLease(w)
  PROVE  IInv'
  <1> USE GuardsAssumption
  <1> DEFINE row == guard[g]
  <1>0. /\ TypeOK /\ CodesAtHome /\ worker[w].at = "asked" /\ worker[w] # Idle
        /\ spent' = spent /\ sent' = sent /\ faults' = faults
    BY DEF IInv, TakeLease, At, Idle
  <1>1. g \in Guards /\ row \in Keys /\ worker[w] \in Request
    BY <1>0, AtWork DEF Of, Guards
  <1>2. /\ phone' \in {"nobody", "customer", "profile"} /\ active' \in BOOLEAN
        /\ requests' \in 0..MaxRequests /\ faults' \in 0..MaxFaults /\ g # "password"
    BY <1>0, <1>1 DEF TakeLease, TypeOK, Purposes
  <1>3. CASE row.lease = NoWorker
    <2> DEFINE s == [worker[w] EXCEPT !.at = "leased"]
               k == [row EXCEPT !.lease = w]
    <2>1. s \in Work /\ s \notin Match /\ s.at = "leased" /\ s.guard = g /\ s # Idle
      BY <1>1 DEF Work, Request, Match, Idle
    <2>2. /\ k \in Keys /\ k.lease = w /\ k.code = row.code
          /\ k.failures = row.failures /\ k.locked = row.locked
      BY <1>1, LeaseWritten
    <2>3. Moves(w, g, s, k)
      <3>1. worker' = [worker EXCEPT ![w] = s] /\ guard' = [guard EXCEPT ![g] = k]
        BY <1>3 DEF TakeLease, Of, Goes
      <3> HIDE DEF s, k
      <3> QED BY <1>0, <1>1, <2>1, <2>2, <3>1 DEF Moves, TypeOK, StepSound, Work
    <2> HIDE DEF s, k
    <2>4. LeaseSound(g)' /\ LiveSound(g)' /\ GuessSound(g)'
      BY <1>0, <1>1, <1>3, <2>1, <2>2, <2>3, Entering
    <2>5. \A c \in Codes :
            spent'[c] + One(s \in Spending(c)) <= spent[c] + One(worker[w] \in Spending(c))
      BY <1>0, <2>1, NothingSpent
    <2> QED BY <1>1, <1>2, <2>1, <2>2, <2>3, <2>4, <2>5, MoveKeeps
  <1>4. CASE row.lease # NoWorker
    <2>1. Moves(w, g, Idle, row)
      <3>1. worker' = [worker EXCEPT ![w] = Idle] /\ guard' = guard
        BY <1>4 DEF TakeLease, Of, Ends
      <3> QED BY <1>0, <1>1, <3>1, StateFacts DEF Moves, TypeOK, StepSound, Work, Idle
    <2>2. /\ Idle.at \notin HoldingSteps /\ Idle.at \notin GuessingSteps /\ Idle.at \notin PassedSteps
          /\ worker[w].at \notin HoldingSteps /\ worker[w].at \notin GuessingSteps
      BY <1>0 DEF HoldingSteps, GuessingSteps, PassedSteps, Idle
    <2>3. \A c \in Codes :
            spent'[c] + One(worker[w] \in Deleting(c)) <= spent[c] + One(Idle \in Deleting(c))
      BY <1>0 DEF Deleting, One, TypeOK, Idle
    <2>4. LeaseSound(g)' /\ LiveSound(g)' /\ GuessSound(g)'
      BY <1>1, <2>1, <2>2, <2>3, Staying
    <2>5. \A c \in Codes :
            spent'[c] + One(Idle \in Spending(c)) <= spent[c] + One(worker[w] \in Spending(c))
      BY <1>0, NothingSpent DEF Idle
    <2> QED BY <1>1, <1>2, <2>1, <2>4, <2>5, MoveKeeps
  <1> QED BY <1>3, <1>4

LEMMA CheckLockKeeps ==
  ASSUME IInv, NEW w \in Workers, NEW g \in Purposes, g = worker[w].guard, CheckLock(w)
  PROVE  IInv'
  <1> USE GuardsAssumption
  <1> DEFINE row == guard[g]
  <1>0. /\ TypeOK /\ CodesAtHome /\ worker[w].at = "leased" /\ worker[w] # Idle
        /\ spent' = spent /\ sent' = sent /\ faults' = faults
    BY DEF IInv, CheckLock, At, Idle
  <1>1. g \in Guards /\ row \in Keys /\ worker[w] \in Request
    BY <1>0, AtWork DEF Of, Guards
  <1>2. /\ phone' \in {"nobody", "customer", "profile"} /\ active' \in BOOLEAN
        /\ requests' \in 0..MaxRequests /\ faults' \in 0..MaxFaults /\ g # "password"
    BY <1>0, <1>1 DEF CheckLock, TypeOK, Purposes
  <1>3. worker[w].at \in HoldingSteps /\ worker[w].at \in GuessingSteps
    BY <1>0 DEF HoldingSteps, GuessingSteps
  <1>4. CASE row.locked
    <2> DEFINE k == [row EXCEPT !.lease = NoWorker]
    <2>1. /\ k \in Keys /\ k.lease = NoWorker /\ k.code = row.code
          /\ k.failures = row.failures /\ k.locked = row.locked
      BY <1>1, LeaseWritten
    <2>2. Moves(w, g, Idle, k)
      <3>1. worker' = [worker EXCEPT ![w] = Idle] /\ guard' = [guard EXCEPT ![g] = k]
        BY <1>4 DEF CheckLock, Of, Ends, Release
      <3> HIDE DEF k
      <3> QED BY <1>0, <1>1, <2>1, <3>1, StateFacts DEF Moves, TypeOK, StepSound, Work, Idle
    <2> HIDE DEF k
    <2>3. Idle.at \notin HoldingSteps
      BY DEF HoldingSteps, GuessingSteps, PassedSteps, Idle
    <2>4. LeaseSound(g)' /\ LiveSound(g)' /\ GuessSound(g)'
      BY <1>0, <1>1, <1>3, <2>1, <2>2, <2>3, Leaving
    <2>5. \A c \in Codes :
            spent'[c] + One(Idle \in Spending(c)) <= spent[c] + One(worker[w] \in Spending(c))
      BY <1>0, NothingSpent DEF Idle
    <2> QED BY <1>1, <1>2, <2>1, <2>2, <2>4, <2>5, MoveKeeps
  <1>5. CASE ~row.locked
    <2> DEFINE s == [worker[w] EXCEPT !.at = "checked"]
    <2>1. s \in Work /\ s \notin Match /\ s.at = "checked" /\ s.guard = g /\ s # Idle
      BY <1>1 DEF Work, Request, Match, Idle
    <2>2. Moves(w, g, s, row)
      <3>1. worker' = [worker EXCEPT ![w] = s] /\ guard' = guard
        BY <1>5 DEF CheckLock, Of, Goes
      <3> HIDE DEF s
      <3> QED BY <1>0, <1>1, <2>1, <3>1 DEF Moves, TypeOK, StepSound, Work
    <2> HIDE DEF s
    <2>3. s.at \in HoldingSteps /\ s.at \in GuessingSteps
      BY <2>1 DEF HoldingSteps, GuessingSteps, PassedSteps
    <2>4. \A c \in Codes :
            spent'[c] + One(worker[w] \in Deleting(c)) <= spent[c] + One(s \in Deleting(c))
      BY <1>0, <2>1 DEF Deleting, One, TypeOK
    <2>5. LeaseSound(g)' /\ LiveSound(g)' /\ GuessSound(g)'
      BY <1>1, <1>3, <1>5, <2>1, <2>2, <2>3, <2>4, Staying
    <2>6. \A c \in Codes :
            spent'[c] + One(s \in Spending(c)) <= spent[c] + One(worker[w] \in Spending(c))
      BY <1>0, <2>1, NothingSpent
    <2> QED BY <1>1, <1>2, <2>1, <2>2, <2>5, <2>6, MoveKeeps
  <1> QED BY <1>4, <1>5

LEMMA WrongCodeKeeps ==
  ASSUME IInv, NEW w \in Workers, NEW g \in Purposes, g = worker[w].guard, WrongCode(w)
  PROVE  IInv'
  <1> USE GuardsAssumption
  <1> DEFINE row == guard[g]
             failures == row.failures + 1
  <1>0. /\ TypeOK /\ CodesAtHome /\ worker[w].at = "checked" /\ worker[w] # Idle
        /\ spent' = spent /\ sent' = sent /\ faults' = faults
    BY DEF IInv, WrongCode, At, Idle
  <1>1. g \in Guards /\ row \in Keys /\ worker[w] \in Request /\ failures \in Nat
    BY <1>0, AtWork DEF Of, Guards, Keys
  <1>2. /\ phone' \in {"nobody", "customer", "profile"} /\ active' \in BOOLEAN
        /\ requests' \in 0..MaxRequests /\ faults' \in 0..MaxFaults /\ g # "password"
    BY <1>0, <1>1 DEF WrongCode, TypeOK, Purposes
  <1>3. worker[w].at \in HoldingSteps
    BY <1>0 DEF HoldingSteps, GuessingSteps, PassedSteps
  <1>4. CASE failures >= MaxAttempts
    <2> DEFINE s == [worker[w] EXCEPT !.at = "locking"]
               k == [row EXCEPT !.failures = failures]
    <2>1. s \in Work /\ s \notin Match /\ s.at = "locking" /\ s.guard = g /\ s # Idle
      BY <1>1 DEF Work, Request, Match, Idle
    <2>2. /\ k \in Keys /\ k.lease = row.lease /\ k.code = row.code
          /\ k.failures = failures /\ k.locked = row.locked
      BY <1>1 DEF Keys
    <2>3. Moves(w, g, s, k)
      <3>1. worker' = [worker EXCEPT ![w] = s]
        BY <1>4 DEF WrongCode, Of, Goes
      <3>2. guard' = [guard EXCEPT ![g] = [row EXCEPT !.failures = failures, !.lease = row.lease]]
        BY <1>4 DEF WrongCode, Of
      <3>3. [row EXCEPT !.failures = failures, !.lease = row.lease] = k
        BY <1>1 DEF Keys
      <3> HIDE DEF s, k
      <3> QED BY <1>0, <1>1, <2>1, <2>2, <3>1, <3>2, <3>3 DEF Moves, TypeOK, StepSound, Work
    <2> HIDE DEF s, k
    <2>4. LeaseSound(g)' /\ LiveSound(g)' /\ GuessSound(g)'
      BY <1>0, <1>1, <1>4, <2>1, <2>2, <2>3, Overstepping
    <2>5. \A c \in Codes :
            spent'[c] + One(s \in Spending(c)) <= spent[c] + One(worker[w] \in Spending(c))
      BY <1>0, <2>1, NothingSpent
    <2> QED BY <1>1, <1>2, <2>1, <2>2, <2>3, <2>4, <2>5, MoveKeeps
  <1>5. CASE ~(failures >= MaxAttempts)
    <2> DEFINE k == [row EXCEPT !.failures = failures, !.lease = NoWorker]
    <2>1. /\ k \in Keys /\ k.lease = NoWorker /\ k.code = row.code
          /\ k.failures = failures /\ k.locked = row.locked
      BY <1>1 DEF Keys
    <2>2. Moves(w, g, Idle, k)
      <3>1. worker' = [worker EXCEPT ![w] = Idle] /\ guard' = [guard EXCEPT ![g] = k]
        BY <1>5 DEF WrongCode, Of, Ends
      <3> HIDE DEF k
      <3> QED BY <1>0, <1>1, <2>1, <3>1, StateFacts DEF Moves, TypeOK, StepSound, Work, Idle
    <2> HIDE DEF k
    <2>3. Idle.at \notin HoldingSteps
      BY DEF HoldingSteps, GuessingSteps, PassedSteps, Idle
    <2>4. LeaseSound(g)' /\ LiveSound(g)' /\ GuessSound(g)'
      BY <1>0, <1>1, <1>3, <1>5, <2>1, <2>2, <2>3, Leaving
    <2>5. \A c \in Codes :
            spent'[c] + One(Idle \in Spending(c)) <= spent[c] + One(worker[w] \in Spending(c))
      BY <1>0, NothingSpent DEF Idle
    <2> QED BY <1>1, <1>2, <2>1, <2>2, <2>4, <2>5, MoveKeeps
  <1> QED BY <1>4, <1>5

LEMMA LockGuardKeeps ==
  ASSUME IInv, NEW w \in Workers, NEW g \in Guards, g = worker[w].guard, LockGuard(w)
  PROVE  IInv'
  <1> USE GuardsAssumption
  <1> DEFINE row == guard[g]
             k == [row EXCEPT !.locked = TRUE,
                              !.lease = IF g \in Purposes THEN NoWorker ELSE row.lease]
  <1>0. /\ TypeOK /\ CodesAtHome /\ worker[w].at = "locking" /\ worker[w] # Idle
        /\ spent' = spent /\ sent' = sent /\ faults' = faults
    BY DEF IInv, LockGuard, At, Idle
  <1>1. row \in Keys /\ worker[w] \in Request
    BY <1>0, AtWork DEF Of
  <1>2. /\ phone' \in {"nobody", "customer", "profile"} /\ active' \in BOOLEAN
        /\ requests' \in 0..MaxRequests /\ faults' \in 0..MaxFaults
        /\ guard["password"].lease = NoWorker
    BY <1>0, <1>1 DEF LockGuard, TypeOK
  <1>3. /\ k \in Keys /\ k.code = row.code /\ k.failures = row.failures /\ k.locked = TRUE
        /\ k.lease = IF g \in Purposes THEN NoWorker ELSE row.lease
    BY <1>1 DEF Keys
  <1>4. Moves(w, g, Idle, k)
    <2>1. worker' = [worker EXCEPT ![w] = Idle] /\ guard' = [guard EXCEPT ![g] = k]
      BY DEF LockGuard, Ends
    <2> HIDE DEF k
    <2> QED BY <1>0, <1>1, <1>3, <2>1, StateFacts DEF Moves, TypeOK, StepSound, Work, Idle
  <1> HIDE DEF k
  <1>5. worker[w].at \in HoldingSteps /\ Idle.at \notin HoldingSteps
    BY <1>0 DEF HoldingSteps, GuessingSteps, PassedSteps, Idle
  <1>6. ASSUME g \in Purposes PROVE LeaseSound(g)' /\ LiveSound(g)' /\ GuessSound(g)'
    BY <1>0, <1>1, <1>3, <1>4, <1>5, <1>6, Leaving
  <1>7. ASSUME g = "password" PROVE k.lease = NoWorker /\ PasswordSound'
    <2>1. g \notin Purposes
      BY <1>7 DEF Purposes
    <2>2. PasswordSound'
      BY <1>0, <1>3, <1>4, <1>7, PasswordLocked DEF Work
    <2> QED BY <1>2, <1>3, <1>7, <2>1, <2>2
  <1>8. \A c \in Codes :
          spent'[c] + One(Idle \in Spending(c)) <= spent[c] + One(worker[w] \in Spending(c))
    BY <1>0, NothingSpent DEF Idle
  <1> QED BY <1>2, <1>3, <1>4, <1>6, <1>7, <1>8, MoveKeeps

LEMMA RightCodeKeeps ==
  ASSUME IInv, NEW w \in Workers, NEW g \in Purposes, g = worker[w].guard, RightCode(w)
  PROVE  IInv'
  <1> USE GuardsAssumption
  <1> DEFINE row == guard[g]
             step == IF g = "password-reset" THEN "matched" ELSE "consuming"
             s == [at |-> step, guard |-> g, code |-> row.code]
  <1>0. /\ TypeOK /\ CodesAtHome /\ worker[w].at = "checked" /\ worker[w] # Idle
        /\ spent' = spent /\ sent' = sent /\ faults' = faults /\ guard' = guard
    BY DEF IInv, RightCode, At, Idle
  <1>1. g \in Guards /\ row \in Keys /\ worker[w] \in Request /\ row.code \in Codes
    BY <1>0, AtWork DEF Of, Guards, Keys, RightCode
  <1>2. /\ phone' \in {"nobody", "customer", "profile"} /\ active' \in BOOLEAN
        /\ requests' \in 0..MaxRequests /\ faults' \in 0..MaxFaults /\ g # "password"
    BY <1>0, <1>1 DEF RightCode, TypeOK, Purposes
  <1>3. s \in Work /\ s \in Match /\ s.at = step /\ s.guard = g /\ s.code = row.code /\ s # Idle
    BY <1>1 DEF Work, Match, Idle
  <1>4. Moves(w, g, s, row)
    <2>1. worker' = [worker EXCEPT ![w] = s]
      BY DEF RightCode, Of
    <2> HIDE DEF s
    <2> QED BY <1>0, <1>1, <1>3, <2>1 DEF Moves, TypeOK, StepSound, Work
  <1> HIDE DEF s
  <1>5. /\ worker[w].at \in HoldingSteps /\ worker[w].at \in GuessingSteps
        /\ worker[w].at \in PassedSteps /\ s.at \in HoldingSteps /\ s.at \in GuessingSteps
    BY <1>0, <1>3 DEF HoldingSteps, GuessingSteps, PassedSteps
  <1>6. \A c \in Codes : worker[w] \notin Deleting(c) /\ worker[w] \notin Spending(c)
                         /\ s \notin Deleting(c)
                         /\ (c # row.code => s \notin Spending(c)) /\ spent[c] \in Nat
    BY <1>0, <1>3 DEF Deleting, Spending, TypeOK
  <1>7. LeaseSound(g)' /\ LiveSound(g)' /\ GuessSound(g)'
    <2>1. \A c \in Codes :
            spent'[c] + One(worker[w] \in Deleting(c)) <= spent[c] + One(s \in Deleting(c))
      BY <1>0, <1>6 DEF One
    <2> QED BY <1>1, <1>3, <1>4, <1>5, <2>1, Staying
  <1>8. \A c \in Codes :
          \/ g \in Purposes /\ row.code = c
          \/ spent'[c] + One(s \in Spending(c)) <= spent[c] + One(worker[w] \in Spending(c))
    BY <1>0, <1>6 DEF One
  <1> QED BY <1>1, <1>2, <1>3, <1>4, <1>7, <1>8, MoveKeeps

LEMMA ResetPasswordKeeps ==
  ASSUME IInv, NEW w \in Workers, NEW g \in Purposes, g = worker[w].guard, ResetPassword(w)
  PROVE  IInv'
  <1> USE GuardsAssumption
  <1> DEFINE row == guard[g]
             s == [worker[w] EXCEPT !.at = "consuming"]
             x == worker[w].code
  <1>0. /\ TypeOK /\ CodesAtHome /\ worker[w].at = "matched" /\ worker[w] # Idle
        /\ sent' = sent /\ faults' = faults /\ guard' = guard
        /\ spent' = spent \/ spent' = [spent EXCEPT ![x] = @ + 1]
    BY DEF IInv, ResetPassword, At, Idle
  <1>1. g \in Guards /\ row \in Keys /\ worker[w] \in Match /\ x \in Codes /\ g = "password-reset"
    BY <1>0, AtWork, StateFacts DEF Of, Guards, CodesAtHome, StepSound
  <1>2. /\ phone' \in {"nobody", "customer", "profile"} /\ active' \in BOOLEAN
        /\ requests' \in 0..MaxRequests /\ faults' \in 0..MaxFaults /\ g # "password"
    BY <1>0, <1>1 DEF ResetPassword, TypeOK, Purposes
  <1>3. s \in Work /\ s \in Match /\ s.at = "consuming" /\ s.guard = g /\ s.code = x /\ s # Idle
    BY <1>1 DEF Work, Match, Idle
  <1>4. Moves(w, g, s, row)
    <2>1. worker' = [worker EXCEPT ![w] = s]
      BY DEF ResetPassword, Goes
    <2> HIDE DEF s
    <2> QED BY <1>0, <1>1, <1>3, <2>1 DEF Moves, TypeOK, StepSound, Work
  <1> HIDE DEF s
  <1>5. /\ worker[w].at \in HoldingSteps /\ worker[w].at \in GuessingSteps
        /\ worker[w].at \in PassedSteps /\ s.at \in HoldingSteps /\ s.at \in GuessingSteps
    BY <1>0, <1>3 DEF HoldingSteps, GuessingSteps, PassedSteps
  <1>6. \A c \in Codes : /\ worker[w] \notin Deleting(c) /\ s \notin Spending(c)
                         /\ worker[w] \in Spending(c) <=> c = x
                         /\ s \in Deleting(c) <=> c = x
                         /\ spent[c] \in Nat
                         /\ spent'[c] = spent[c] \/ (c = x /\ spent'[c] = spent[c] + 1)
    BY <1>0, <1>1, <1>3 DEF Deleting, Spending, TypeOK
  <1>7. LeaseSound(g)' /\ LiveSound(g)' /\ GuessSound(g)'
    <2>1. \A c \in Codes :
            spent'[c] + One(worker[w] \in Deleting(c)) <= spent[c] + One(s \in Deleting(c))
      BY <1>6 DEF One
    <2> QED BY <1>1, <1>3, <1>4, <1>5, <2>1, Staying
  <1>8. \A c \in Codes :
          spent'[c] + One(s \in Spending(c)) <= spent[c] + One(worker[w] \in Spending(c))
    BY <1>6 DEF One
  <1> QED BY <1>1, <1>2, <1>3, <1>4, <1>7, <1>8, MoveKeeps

LEMMA ResetRefusedKeeps ==
  ASSUME IInv, NEW w \in Workers, NEW g \in Purposes, g = worker[w].guard, ResetRefused(w)
  PROVE  IInv'
  <1> USE GuardsAssumption
  <1> DEFINE row == guard[g]
             k == [row EXCEPT !.lease = NoWorker]
  <1>0. /\ TypeOK /\ CodesAtHome /\ worker[w].at = "matched" /\ worker[w] # Idle
        /\ spent' = spent /\ sent' = sent /\ faults' = faults
    BY DEF IInv, ResetRefused, At, Idle
  <1>1. g \in Guards /\ row \in Keys
    BY <1>0, AtWork DEF Of, Guards
  <1>2. /\ phone' \in {"nobody", "customer", "profile"} /\ active' \in BOOLEAN
        /\ requests' \in 0..MaxRequests /\ faults' \in 0..MaxFaults /\ g # "password"
    BY <1>0, <1>1 DEF ResetRefused, TypeOK, Purposes
  <1>3. /\ k \in Keys /\ k.lease = NoWorker /\ k.code = row.code
        /\ k.failures = row.failures /\ k.locked = row.locked
    BY <1>1, LeaseWritten
  <1>4. Moves(w, g, Idle, k)
    <2>1. worker' = [worker EXCEPT ![w] = Idle] /\ guard' = [guard EXCEPT ![g] = k]
      BY DEF ResetRefused, Ends, Release
    <2> HIDE DEF k
    <2> QED BY <1>0, <1>1, <1>3, <2>1, StateFacts DEF Moves, TypeOK, StepSound, Work, Idle
  <1> HIDE DEF k
  <1>5. /\ Idle.at \notin HoldingSteps /\ worker[w].at \in HoldingSteps
        /\ worker[w].at \in GuessingSteps
    BY <1>0 DEF HoldingSteps, GuessingSteps, PassedSteps, Idle
  <1>6. LeaseSound(g)' /\ LiveSound(g)' /\ GuessSound(g)'
    BY <1>0, <1>1, <1>3, <1>4, <1>5, Leaving
  <1>7. \A c \in Codes :
          spent'[c] + One(Idle \in Spending(c)) <= spent[c] + One(worker[w] \in Spending(c))
    BY <1>0, NothingSpent DEF Idle
  <1> QED BY <1>1, <1>2, <1>3, <1>4, <1>6, <1>7, MoveKeeps

LEMMA ConsumeCodeKeeps ==
  ASSUME IInv, NEW w \in Workers, NEW g \in Purposes, g = worker[w].guard, ConsumeCode(w)
  PROVE  IInv'
  <1> USE GuardsAssumption
  <1> DEFINE x == worker[w].code
             k == [code |-> NoCode, failures |-> 0, locked |-> FALSE, lease |-> NoWorker]
             s == IF g = "password-reset" THEN Idle ELSE [worker[w] EXCEPT !.at = "following"]
  <1>0. /\ TypeOK /\ CodesAtHome /\ worker[w].at = "consuming" /\ worker[w] # Idle
        /\ sent' = sent /\ faults' = faults
        /\ spent' = IF g = "password-reset" THEN spent ELSE [spent EXCEPT ![x] = @ + 1]
    BY DEF IInv, ConsumeCode, At, Idle
  <1>1. g \in Guards /\ k \in Keys /\ worker[w] \in Match /\ x \in Codes
    BY <1>0, AtWork, StateFacts DEF Guards, Keys
  <1>2. /\ phone' \in {"nobody", "customer", "profile"} /\ active' \in BOOLEAN
        /\ requests' \in 0..MaxRequests /\ faults' \in 0..MaxFaults /\ g # "password"
    BY <1>0, <1>1 DEF ConsumeCode, TypeOK, Purposes
  <1>3. /\ s \in Work \cup {Idle} /\ s.at \in {"idle", "following"}
        /\ s # Idle => s.guard = g
        /\ s \in Match => s.code = x
    BY <1>1 DEF Work, Match, Request, Idle
  <1>4. k.code = NoCode /\ k.failures = 0 /\ k.lease = NoWorker
    OBVIOUS
  <1>5. Moves(w, g, s, k)
    <2>1. guard' = [guard EXCEPT ![g] = k]
      BY DEF ConsumeCode
    <2>2. worker' = [worker EXCEPT ![w] = s]
      BY DEF ConsumeCode, Ends, Goes
    <2> HIDE DEF s, k
    <2> QED BY <1>0, <1>1, <1>3, <1>4, <2>1, <2>2 DEF Moves, TypeOK, StepSound, Work
  <1> HIDE DEF s, k
  <1>6. s.at \notin HoldingSteps /\ worker[w].at \in HoldingSteps
    BY <1>0, <1>3 DEF HoldingSteps, GuessingSteps, PassedSteps
  <1>7. LeaseSound(g)' /\ LiveSound(g)' /\ GuessSound(g)'
    BY <1>0, <1>1, <1>3, <1>4, <1>5, <1>6, Leaving
  <1>8. \A c \in Codes :
          spent'[c] + One(s \in Spending(c)) <= spent[c] + One(worker[w] \in Spending(c))
    <2>1. \A c \in Codes : /\ s \notin Spending(c)
                           /\ c = x /\ g # "password-reset" => worker[w] \in Spending(c)
                           /\ spent[c] \in Nat
      BY <1>0, <1>1, <1>3 DEF Spending, TypeOK
    <2>2. \A c \in Codes :
            spent'[c] = spent[c] \/ (c = x /\ g # "password-reset" /\ spent'[c] = spent[c] + 1)
      BY <1>0, <1>1 DEF TypeOK
    <2> QED BY <2>1, <2>2 DEF One
  <1> QED BY <1>1, <1>2, <1>3, <1>4, <1>5, <1>7, <1>8, MoveKeeps

\* What follows a success touches no key.
LEMMA FollowingKeeps ==
  ASSUME IInv, NEW w \in Workers, NEW g \in Purposes, g = worker[w].guard,
         VerifySignupOtp(w) \/ VerifyPhoneVerification(w) \/ VerifyLoginOtp(w)
  PROVE  IInv'
  <1> USE GuardsAssumption
  <1> DEFINE row == guard[g]
  <1>0. /\ TypeOK /\ CodesAtHome /\ worker[w].at = "following" /\ worker[w] # Idle
        /\ worker' = [worker EXCEPT ![w] = Idle]
        /\ UNCHANGED <<guard, active, requests, sent, spent, faults>>
    BY DEF IInv, VerifySignupOtp, VerifyPhoneVerification, VerifyLoginOtp, Following, At, Ends, Idle
  <1>1. g \in Guards /\ row \in Keys
    BY <1>0, AtWork DEF Of, Guards
  <1>2. /\ phone' \in {"nobody", "customer", "profile"} /\ active' \in BOOLEAN
        /\ requests' \in 0..MaxRequests /\ faults' \in 0..MaxFaults /\ g # "password"
    BY <1>0, <1>1 DEF VerifySignupOtp, VerifyPhoneVerification, VerifyLoginOtp, TypeOK, Purposes
  <1>3. Moves(w, g, Idle, row)
    BY <1>0, <1>1, StateFacts DEF Moves, TypeOK, StepSound, Work, Idle
  <1>4. /\ Idle.at \notin HoldingSteps /\ Idle.at \notin GuessingSteps /\ Idle.at \notin PassedSteps
        /\ worker[w].at \notin HoldingSteps /\ worker[w].at \notin GuessingSteps
    BY <1>0 DEF HoldingSteps, GuessingSteps, PassedSteps, Idle
  <1>5. \A c \in Codes :
          spent'[c] + One(worker[w] \in Deleting(c)) <= spent[c] + One(Idle \in Deleting(c))
    BY <1>0 DEF Deleting, One, TypeOK, Idle
  <1>6. LeaseSound(g)' /\ LiveSound(g)' /\ GuessSound(g)'
    BY <1>1, <1>3, <1>4, <1>5, Staying
  <1>7. \A c \in Codes :
          spent'[c] + One(Idle \in Spending(c)) <= spent[c] + One(worker[w] \in Spending(c))
    BY <1>0, NothingSpent DEF Idle
  <1> QED BY <1>1, <1>2, <1>3, <1>6, <1>7, MoveKeeps

LEMMA RecordFailureKeeps ==
  ASSUME IInv, NEW w \in Workers, RecordFailure(w)
  PROVE  IInv'
  <1> USE GuardsAssumption
  <1> DEFINE g == "password"
             row == guard[g]
             failures == row.failures + 1
             k == [row EXCEPT !.failures = failures]
             s == IF failures >= MaxAttempts THEN [worker[w] EXCEPT !.at = "locking"] ELSE Idle
  <1>0. /\ TypeOK /\ CodesAtHome /\ worker[w].at = "asked" /\ worker[w] # Idle
        /\ worker[w].guard = g
        /\ spent' = spent /\ sent' = sent /\ faults' = faults
    BY DEF IInv, RecordFailure, At, Idle
  <1>1. g \in Guards /\ row \in Keys /\ worker[w] \in Request /\ failures \in Nat /\ g \notin Purposes
    BY <1>0, AtWork DEF Of, Guards, Keys, Purposes
  <1>2. /\ phone' \in {"nobody", "customer", "profile"} /\ active' \in BOOLEAN
        /\ requests' \in 0..MaxRequests /\ faults' \in 0..MaxFaults /\ row.lease = NoWorker
    BY <1>0 DEF RecordFailure, TypeOK
  <1>3. /\ s \in Work \cup {Idle} /\ s \notin Match /\ s.at \in {"idle", "locking"}
        /\ s # Idle => s.guard = g
        /\ IF failures >= MaxAttempts THEN s.at = "locking" ELSE s = Idle
    BY <1>0, <1>1 DEF Work, Request, Match, Idle
  <1>4. /\ k \in Keys /\ k.lease = row.lease /\ k.code = row.code
        /\ k.failures = failures /\ k.locked = row.locked
    BY <1>1 DEF Keys
  <1>5. Moves(w, g, s, k)
    <2>1. guard' = [guard EXCEPT ![g] = k]
      BY DEF RecordFailure
    <2>2. worker' = [worker EXCEPT ![w] = s]
      BY DEF RecordFailure, Ends, Goes
    <2> HIDE DEF s, k
    <2> QED BY <1>0, <1>1, <1>3, <1>4, <2>1, <2>2 DEF Moves, TypeOK, StepSound, Work
  <1> HIDE DEF s, k
  <1>6. PasswordSound'
    BY <1>0, <1>1, <1>3, <1>4, <1>5, PasswordFailed
  <1>7. \A c \in Codes :
          spent'[c] + One(s \in Spending(c)) <= spent[c] + One(worker[w] \in Spending(c))
    BY <1>0, <1>3, NothingSpent
  <1> QED BY <1>1, <1>2, <1>3, <1>4, <1>5, <1>6, <1>7, MoveKeeps

LEMMA ClearGuardKeeps ==
  ASSUME IInv, NEW w \in Workers, ClearGuard(w)
  PROVE  IInv'
  <1> USE GuardsAssumption
  <1> DEFINE g == "password"
             row == guard[g]
             k == [row EXCEPT !.failures = 0, !.locked = FALSE]
  <1>0. /\ TypeOK /\ CodesAtHome /\ worker[w].at = "asked" /\ worker[w] # Idle
        /\ worker[w].guard = g
        /\ spent' = spent /\ sent' = sent /\ faults' = faults
    BY DEF IInv, ClearGuard, At, Idle
  <1>1. g \in Guards /\ row \in Keys /\ g \notin Purposes
    BY <1>0, AtWork DEF Of, Guards, Purposes
  <1>2. /\ phone' \in {"nobody", "customer", "profile"} /\ active' \in BOOLEAN
        /\ requests' \in 0..MaxRequests /\ faults' \in 0..MaxFaults /\ row.lease = NoWorker
    BY <1>0 DEF ClearGuard, TypeOK
  <1>3. k \in Keys /\ k.lease = row.lease /\ k.code = row.code /\ k.failures = 0
    BY <1>1 DEF Keys
  <1>4. Moves(w, g, Idle, k)
    <2>1. guard' = [guard EXCEPT ![g] = k] /\ worker' = [worker EXCEPT ![w] = Idle]
      BY DEF ClearGuard, Ends
    <2> HIDE DEF k
    <2> QED BY <1>0, <1>1, <1>3, <2>1, StateFacts DEF Moves, TypeOK, StepSound, Work, Idle
  <1> HIDE DEF k
  <1>5. PasswordSound'
    BY <1>3, <1>4 DEF PasswordSound, Moves
  <1>6. \A c \in Codes :
          spent'[c] + One(Idle \in Spending(c)) <= spent[c] + One(worker[w] \in Spending(c))
    BY <1>0, NothingSpent DEF Idle
  <1> QED BY <1>1, <1>2, <1>3, <1>4, <1>5, <1>6, MoveKeeps

LEMMA DiesKeeps ==
  ASSUME IInv, NEW w \in Workers, NEW g \in Guards, g = worker[w].guard, Dies(w)
  PROVE  IInv'
  <1> USE GuardsAssumption
  <1> DEFINE row == guard[g]
  <1>0. /\ TypeOK /\ CodesAtHome /\ worker[w] # Idle
        /\ worker' = [worker EXCEPT ![w] = Idle]
        /\ UNCHANGED <<guard, phone, active, requests, sent, spent>>
        /\ faults \in 0..MaxFaults /\ faults < MaxFaults /\ faults' = faults + 1
    BY DEF IInv, Dies, Ends, TypeOK
  <1>1. row \in Keys /\ guard["password"].lease = NoWorker
    BY <1>0 DEF TypeOK
  <1>2. /\ phone' \in {"nobody", "customer", "profile"} /\ active' \in BOOLEAN
        /\ requests' \in 0..MaxRequests /\ faults' \in 0..MaxFaults
    BY <1>0 DEF TypeOK
  <1>3. Moves(w, g, Idle, row)
    BY <1>0, <1>1, StateFacts DEF Moves, TypeOK, StepSound, Work, Idle
  <1>4. ASSUME g \in Purposes PROVE LeaseSound(g)' /\ LiveSound(g)' /\ GuessSound(g)'
    BY <1>0, <1>1, <1>3, <1>4, Dying
  <1>5. ASSUME g = "password" PROVE row.lease = NoWorker /\ PasswordSound'
    BY <1>0, <1>1, <1>3, <1>5, PasswordDied
  <1>6. \A c \in Codes :
          spent'[c] + One(Idle \in Spending(c)) <= spent[c] + One(worker[w] \in Spending(c))
    BY <1>0, NothingSpent DEF Idle
  <1> QED BY <1>1, <1>2, <1>3, <1>4, <1>5, <1>6, MoveKeeps

-----------------------------------------------------------------------------
(* Codes that are sent, and keys that expire                               *)

\* Only the keys of g are written, by nobody who is at work under it.
Written(g, k) ==
  /\ guard' = [guard EXCEPT ![g] = k]
  /\ UNCHANGED <<worker, phone, active, requests, spent>>
  /\ faults' \in 0..MaxFaults /\ faults' >= faults
  /\ \/ sent' = sent /\ k.code \in {guard[g].code, NoCode}
     \/ g \in Purposes /\ k.code \in Codes \ sent /\ sent' = sent \cup {k.code}

LEMMA NobodyMoves ==
  ASSUME worker' = worker, NEW T
  PROVE  Doing(T)' = Doing(T) /\ Count(T)' = Count(T)
  BY DEF Doing, Count

LEMMA WrittenKeeps ==
  ASSUME IInv, NEW g \in Guards, NEW k \in Keys, Written(g, k),
         g \in Purposes => LeaseSound(g)' /\ LiveSound(g)' /\ GuessSound(g)',
         g = "password" => k.lease = NoWorker /\ PasswordSound'
  PROVE  IInv'
  <1> USE GuardsAssumption
  <1>0. /\ TypeOK /\ CodesAtHome /\ Purposes \subseteq Guards /\ faults \in Nat /\ faults' \in Nat
        /\ guard \in [Guards -> Keys] /\ "password" \in Guards /\ "password" \notin Purposes
    BY DEF IInv, Guards, TypeOK, Written, Purposes
  <1>1. /\ guard' \in [Guards -> Keys] /\ guard'[g] = k
        /\ \A q \in Guards : q # g => guard'[q] = guard[q]
        /\ worker' = worker /\ spent' = spent
    BY <1>0 DEF Written
  <1>2. TypeOK'
    <2>1. guard'["password"].code = NoCode /\ guard'["password"].lease = NoWorker
      <3>1. CASE g = "password"
        BY <1>0, <1>1, <3>1 DEF TypeOK, Written
      <3>2. CASE g # "password"
        BY <1>0, <1>1, <3>2 DEF TypeOK
      <3> QED BY <3>1, <3>2
    <2>2. sent' \subseteq Codes
      BY <1>0 DEF TypeOK, Written
    <2> QED BY <1>0, <1>1, <2>1, <2>2 DEF TypeOK, Written
  <1>3. CodesAtHome'
    <2>1. \A p \in Purposes : guard[p].code \in Codes \cup {NoCode}
      BY <1>0 DEF Keys
    <2>2. \A w \in Workers : worker[w] \in Match => worker[w].code \in Codes
      BY DEF Match
    <2>3. CASE sent' = sent /\ k.code \in {guard[g].code, NoCode}
      <3>1. \A p \in Purposes : guard'[p].code \in {guard[p].code, NoCode}
        BY <1>0, <1>1, <2>3
      <3> QED BY <1>0, <1>1, <2>1, <2>2, <2>3, <3>1 DEF CodesAtHome
    <2>4. CASE g \in Purposes /\ k.code \in Codes \ sent /\ sent' = sent \cup {k.code}
      <3>1. \A p \in Purposes : guard'[p].code = IF p = g THEN k.code ELSE guard[p].code
        BY <1>0, <1>1, <2>4
      <3>2. \A p \in Purposes : guard[p].code # k.code
        BY <1>0, <2>4 DEF CodesAtHome
      <3>3. \A w \in Workers : worker[w] \in Match => worker[w].code # k.code
        BY <1>0, <2>4 DEF CodesAtHome
      <3>4. \A p, q \in Purposes :
              guard'[p].code = guard'[q].code => p = q \/ guard'[p].code = NoCode
        BY <1>0, <3>1, <3>2 DEF CodesAtHome
      <3>5. \A w \in Workers : worker[w] \in Match =>
              /\ worker[w].code \in sent'
              /\ \A p \in Purposes : guard'[p].code = worker[w].code => worker[w].guard = p
        BY <1>0, <2>4, <3>1, <3>3 DEF CodesAtHome
      <3>6. \A p \in Purposes : guard'[p].code \in sent' \cup {NoCode}
        BY <1>0, <2>4, <3>1 DEF CodesAtHome
      <3>7. /\ \A w \in Workers : StepSound(worker[w])
            /\ \A c \in Codes : c \notin sent' => spent[c] = 0
        BY <1>0, <2>4 DEF CodesAtHome
      <3> QED BY <1>1, <3>4, <3>5, <3>6, <3>7 DEF CodesAtHome
    <2> QED BY <2>3, <2>4 DEF Written
  <1>4. ASSUME NEW q \in Purposes PROVE LeaseSound(q)' /\ LiveSound(q)' /\ GuessSound(q)'
    <2>1. CASE q = g
      BY <2>1
    <2>2. CASE q # g
      <3>1. guard'[q] = guard[q] /\ q \in Guards
        BY <1>0, <1>1, <2>2
      <3>2. /\ Count(Holding(q))' = Count(Holding(q)) /\ Count(Guessing(q))' = Count(Guessing(q))
            /\ Count(Passed(q))' = Count(Passed(q)) /\ Doing(Holding(q))' = Doing(Holding(q))
            /\ Count(Holding(q)) \in Nat /\ Count(Guessing(q)) \in Nat /\ Count(Passed(q)) \in Nat
        BY <1>1, NobodyMoves, Counted
      <3>3. Held(q)' <=> Held(q)
        BY <3>1, <3>2 DEF Held
      <3>4. /\ One(Held(q))' = One(Held(q)) /\ One(~Held(q))' = One(~Held(q))
            /\ One(Held(q)) \in Nat /\ One(~Held(q)) \in Nat
        BY <3>3 DEF One
      <3>5. LeaseSound(q) /\ LiveSound(q) /\ GuessSound(q) /\ faults' >= faults
        BY DEF IInv, Written
      <3>6. LeaseSound(q)'
        BY <1>0, <3>2, <3>4, <3>5 DEF LeaseSound
      <3>7. GuessSound(q)'
        <4>1. guard[q].failures \in Nat
          BY <1>0, <3>1 DEF Keys
        <4> QED BY <1>0, <3>1, <3>2, <3>4, <3>5, <4>1 DEF GuessSound
      <3>8. LiveSound(q)'
        <4> SUFFICES ASSUME NEW c \in Codes, guard[q].code = c
                     PROVE  spent[c] + Count(Holding(q))
                              <= faults' + One(Held(q)) + Count(Deleting(c))'
          BY <1>0, <1>1, <3>1, <3>2, <3>4 DEF LiveSound, Keys
        <4>1. spent[c] + Count(Holding(q)) <= faults + One(Held(q)) + Count(Deleting(c))
          BY <3>5 DEF LiveSound
        <4>2. Count(Deleting(c))' = Count(Deleting(c)) /\ Count(Deleting(c)) \in Nat
          BY <1>1, NobodyMoves, Counted
        <4>3. spent[c] \in Nat
          BY <1>0 DEF TypeOK
        <4> QED BY <1>0, <3>2, <3>4, <3>5, <4>1, <4>2, <4>3
      <3> QED BY <3>6, <3>7, <3>8
    <2> QED BY <2>1, <2>2
  <1>5. PasswordSound'
    <2>1. CASE g = "password"
      BY <2>1
    <2>2. CASE g # "password"
      <3>1. /\ guard'["password"] = guard["password"] /\ guard["password"].failures \in Nat
            /\ faults' >= faults
        BY <1>0, <1>1, <2>2 DEF Keys, Written
      <3>2. /\ Count(On("password", {"asked"}))' = Count(On("password", {"asked"}))
            /\ Count(On("password", {"locking"}))' = Count(On("password", {"locking"}))
            /\ Count(On("password", {"asked"})) \in Nat /\ Count(On("password", {"locking"})) \in Nat
            /\ Cardinality(Workers) \in Nat
        BY <1>1, NobodyMoves, Counted
      <3> QED BY <1>0, <3>1, <3>2 DEF IInv, PasswordSound
    <2> QED BY <2>1, <2>2
  <1>6. ASSUME NEW c \in Codes PROVE SpendSound(c)'
    <2>1. Count(Spending(c))' = Count(Spending(c)) /\ Count(Spending(c)) \in Nat
      BY <1>1, NobodyMoves, Counted
    <2>2. spent[c] + Count(Spending(c)) <= 1 + faults /\ spent[c] \in Nat /\ faults' >= faults
      BY <1>0 DEF IInv, SpendSound, TypeOK, Written
    <2> QED BY <1>0, <1>1, <2>1, <2>2 DEF SpendSound
  <1> QED BY <1>2, <1>3, <1>4, <1>5, <1>6 DEF IInv

\* The purpose whose keys are written.
LEMMA OwnWritten ==
  ASSUME IInv, NEW g \in Purposes, NEW k \in Keys, Written(g, k),
         \/ k.lease = guard[g].lease
         \/ k.lease = NoWorker /\ (Held(g) => faults' = faults + 1),
         k.code = guard[g].code \/ k.code \notin sent,
         k.failures >= MaxAttempts =>
           k.failures = guard[g].failures /\ k.locked = guard[g].locked
  PROVE  LeaseSound(g)' /\ LiveSound(g)' /\ GuessSound(g)'
  <1> USE GuardsAssumption
  <1>0. /\ TypeOK /\ CodesAtHome /\ g \in Guards /\ faults \in Nat /\ faults' \in Nat
        /\ faults' >= faults /\ guard \in [Guards -> Keys] /\ k.failures \in Nat
    BY DEF IInv, Guards, TypeOK, Written, Keys
  <1>1. guard'[g] = k /\ worker' = worker /\ spent' = spent
    BY <1>0 DEF Written
  <1> DEFINE h == Count(Holding(g))
             t == Count(Guessing(g))
             d == Count(Passed(g))
  <1>2. /\ h' = h /\ t' = t /\ d' = d /\ Doing(Holding(g))' = Doing(Holding(g))
        /\ h \in Nat /\ t \in Nat /\ d \in Nat /\ d <= t
    <2>1. Doing(Passed(g)) \subseteq Doing(Guessing(g))
      BY DEF Doing, Passed, Guessing, On, GuessingSteps
    <2> QED BY <1>1, <2>1, NobodyMoves, Counted, CountedWithin
  <1>3. /\ One(Held(g)) \in 0..1 /\ One(Held(g))' \in 0..1
        /\ One(~Held(g)) = 1 - One(Held(g)) /\ One(~Held(g))' = 1 - One(Held(g))'
    BY DEF One
  <1>4. faults - One(~Held(g)) <= faults' - One(~Held(g))'
        /\ faults + One(Held(g)) <= faults' + One(Held(g))'
    <2>1. CASE k.lease = guard[g].lease
      <3>1. Held(g)' <=> Held(g)
        BY <1>1, <1>2, <2>1 DEF Held
      <3>2. One(Held(g))' = One(Held(g))
        BY <3>1 DEF One
      <3> QED BY <1>0, <1>3, <3>2
    <2>2. CASE k.lease = NoWorker /\ (Held(g) => faults' = faults + 1)
      <3>1. ~Held(g)'
        BY <1>1, <1>2, <2>2 DEF Held, Doing
      <3>2. One(Held(g))' = 0 /\ (~Held(g) => One(Held(g)) = 0)
        BY <3>1 DEF One
      <3> QED BY <1>0, <1>3, <2>2, <3>2
    <2> QED BY <2>1, <2>2
  <1>5. LeaseSound(g) /\ LiveSound(g) /\ GuessSound(g)
    BY DEF IInv
  <1>6. LeaseSound(g)'
    BY <1>0, <1>2, <1>3, <1>4, <1>5 DEF LeaseSound
  <1>7. GuessSound(g)'
    BY <1>0, <1>1, <1>2, <1>3, <1>4, <1>5 DEF GuessSound
  <1>8. LiveSound(g)'
    <2> SUFFICES ASSUME NEW c \in Codes, k.code = c
                 PROVE  spent[c] + h' <= faults' + One(Held(g))' + Count(Deleting(c))'
      BY <1>0, <1>1 DEF LiveSound, Keys
    <2>1. Count(Deleting(c))' = Count(Deleting(c)) /\ Count(Deleting(c)) \in Nat /\ spent[c] \in Nat
      BY <1>0, <1>1, NobodyMoves, Counted DEF TypeOK
    <2>2. CASE guard[g].code = c
      <3>1. spent[c] + h <= faults + One(Held(g)) + Count(Deleting(c))
        BY <1>5, <2>2 DEF LiveSound
      <3> HIDE DEF h
      <3> QED BY <1>0, <1>2, <1>3, <1>4, <2>1, <3>1
    <2>3. CASE c \notin sent
      <3>1. spent[c] = 0 /\ h <= faults + One(Held(g))
        BY <1>0, <1>5, <2>3 DEF CodesAtHome, LeaseSound
      <3> HIDE DEF h
      <3> QED BY <1>0, <1>2, <1>3, <1>4, <2>1, <3>1
    <2> QED BY <2>2, <2>3
  <1> QED BY <1>6, <1>7, <1>8

LEMMA StoreCodeKeeps ==
  ASSUME IInv, NEW g \in Purposes, StoreCode(g)
  PROVE  IInv'
  <1> USE GuardsAssumption
  <1>0. faults \in Nat /\ faults \in 0..MaxFaults
    BY DEF IInv, TypeOK
  <1>1. PICK c \in Codes \ sent : /\ guard' = [guard EXCEPT ![g].code = c]
                                  /\ sent' = sent \cup {c}
    BY DEF StoreCode
  <1> DEFINE k == [guard[g] EXCEPT !.code = c]
  <1>2. guard[g] \in Keys /\ g \in Guards /\ g # "password"
    BY DEF IInv, TypeOK, Guards, Purposes
  <1>3. /\ k \in Keys /\ k.code = c /\ k.failures = guard[g].failures
        /\ k.locked = guard[g].locked /\ k.lease = guard[g].lease
    BY <1>2 DEF Keys
  <1>4. Written(g, k)
    <2>1. guard' = [guard EXCEPT ![g] = k]
      BY <1>1
    <2> HIDE DEF k
    <2>2. UNCHANGED <<worker, phone, active, requests, spent>> /\ faults' = faults
      BY DEF StoreCode
    <2>3. faults' \in 0..MaxFaults /\ faults' >= faults
      BY <1>0, <2>2
    <2>4. g \in Purposes /\ k.code \in Codes \ sent /\ sent' = sent \cup {k.code}
      BY <1>1, <1>3
    <2> QED BY <2>1, <2>2, <2>3, <2>4 DEF Written
  <1> HIDE DEF k
  <1>5. LeaseSound(g)' /\ LiveSound(g)' /\ GuessSound(g)'
    BY <1>1, <1>3, <1>4, OwnWritten
  <1> QED BY <1>2, <1>3, <1>4, <1>5, WrittenKeeps

LEMMA CodeExpiresKeeps ==
  ASSUME IInv, NEW g \in Purposes, CodeExpires(g)
  PROVE  IInv'
  <1> USE GuardsAssumption
  <1> DEFINE k == [guard[g] EXCEPT !.code = NoCode]
  <1>0. faults \in Nat /\ faults \in 0..MaxFaults
    BY DEF IInv, TypeOK
  <1>2. guard[g] \in Keys /\ g \in Guards /\ g # "password" /\ NoCode \notin sent
    BY DEF IInv, TypeOK, Guards, Purposes
  <1>3. /\ k \in Keys /\ k.code = NoCode /\ k.failures = guard[g].failures
        /\ k.locked = guard[g].locked /\ k.lease = guard[g].lease
    BY <1>2 DEF Keys
  <1>4. Written(g, k)
    <2>1. guard' = [guard EXCEPT ![g] = k]
      BY DEF CodeExpires
    <2> HIDE DEF k
    <2>2. UNCHANGED <<worker, phone, active, requests, spent>> /\ faults' = faults /\ sent' = sent
      BY DEF CodeExpires
    <2>3. faults' \in 0..MaxFaults /\ faults' >= faults
      BY <1>0, <2>2
    <2> QED BY <1>3, <2>1, <2>2, <2>3 DEF Written
  <1> HIDE DEF k
  <1>5. LeaseSound(g)' /\ LiveSound(g)' /\ GuessSound(g)'
    BY <1>2, <1>3, <1>4, OwnWritten
  <1> QED BY <1>2, <1>3, <1>4, <1>5, WrittenKeeps

LEMMA FailuresExpireKeeps ==
  ASSUME IInv, NEW g \in Guards, FailuresExpire(g)
  PROVE  IInv'
  <1> USE GuardsAssumption
  <1> DEFINE k == [guard[g] EXCEPT !.failures = 0]
  <1>0. faults \in Nat /\ faults \in 0..MaxFaults
    BY DEF IInv, TypeOK
  <1>2. guard \in [Guards -> Keys] /\ guard[g] \in Keys /\ guard["password"].lease = NoWorker
    BY DEF IInv, TypeOK
  <1>3. /\ k \in Keys /\ k.code = guard[g].code /\ k.failures = 0 /\ k.lease = guard[g].lease
    BY <1>2 DEF Keys
  <1>4. Written(g, k) /\ guard'[g] = k
    <2>1. guard' = [guard EXCEPT ![g] = k]
      BY DEF FailuresExpire
    <2> HIDE DEF k
    <2>2. UNCHANGED <<worker, phone, active, requests, spent>> /\ faults' = faults /\ sent' = sent
      BY DEF FailuresExpire
    <2>3. faults' \in 0..MaxFaults /\ faults' >= faults
      BY <1>0, <2>2
    <2> QED BY <1>2, <1>3, <2>1, <2>2, <2>3 DEF Written
  <1> HIDE DEF k
  <1>5. ASSUME g \in Purposes PROVE LeaseSound(g)' /\ LiveSound(g)' /\ GuessSound(g)'
    BY <1>3, <1>4, <1>5, OwnWritten
  <1>6. ASSUME g = "password" PROVE k.lease = NoWorker /\ PasswordSound'
    BY <1>2, <1>3, <1>4, <1>6 DEF PasswordSound
  <1> QED BY <1>3, <1>4, <1>5, <1>6, WrittenKeeps

LEMMA LockExpiresKeeps ==
  ASSUME IInv, NEW g \in Guards, LockExpires(g)
  PROVE  IInv'
  <1> USE GuardsAssumption
  <1> DEFINE k == [guard[g] EXCEPT !.locked = FALSE]
  <1>0. faults \in Nat /\ faults \in 0..MaxFaults
    BY DEF IInv, TypeOK
  <1>2. guard \in [Guards -> Keys] /\ guard[g] \in Keys /\ guard["password"].lease = NoWorker
    BY DEF IInv, TypeOK
  <1>3. /\ k \in Keys /\ k.code = guard[g].code /\ k.failures = guard[g].failures
        /\ k.lease = guard[g].lease
    BY <1>2 DEF Keys
  <1>4. ~(k.failures >= MaxAttempts)
    <2>1. guard[g].failures \in Nat /\ guard[g].failures < MaxAttempts
      BY <1>2 DEF Keys, LockExpires
    <2> QED BY <1>2, <1>3, <2>1
  <1>5. Written(g, k) /\ guard'[g] = k
    <2>1. guard' = [guard EXCEPT ![g] = k]
      BY DEF LockExpires
    <2> HIDE DEF k
    <2>2. UNCHANGED <<worker, phone, active, requests, spent>> /\ faults' = faults /\ sent' = sent
      BY DEF LockExpires
    <2>3. faults' \in 0..MaxFaults /\ faults' >= faults
      BY <1>0, <2>2
    <2> QED BY <1>2, <1>3, <2>1, <2>2, <2>3 DEF Written
  <1> HIDE DEF k
  <1>6. ASSUME g \in Purposes PROVE LeaseSound(g)' /\ LiveSound(g)' /\ GuessSound(g)'
    BY <1>3, <1>4, <1>5, <1>6, OwnWritten
  <1>7. ASSUME g = "password" PROVE k.lease = NoWorker /\ PasswordSound'
    BY <1>2, <1>3, <1>4, <1>5, <1>7 DEF PasswordSound
  <1> QED BY <1>3, <1>5, <1>6, <1>7, WrittenKeeps

LEMMA LeaseLapsesKeeps ==
  ASSUME IInv, NEW g \in Purposes, LeaseLapses(g)
  PROVE  IInv'
  <1> USE GuardsAssumption
  <1> DEFINE k == [guard[g] EXCEPT !.lease = NoWorker]
  <1>1. faults \in Nat /\ faults \in 0..MaxFaults
    BY DEF IInv, TypeOK
  <1>2. guard[g] \in Keys /\ g \in Guards /\ g # "password"
    BY DEF IInv, TypeOK, Guards, Purposes
  <1>3. /\ k \in Keys /\ k.code = guard[g].code /\ k.failures = guard[g].failures
        /\ k.locked = guard[g].locked /\ k.lease = NoWorker
    BY <1>2, LeaseWritten
  <1>4. /\ faults' \in 0..MaxFaults /\ faults' >= faults
        /\ Held(g) => faults' = faults + 1
    <2>1. Held(g) => worker[guard[g].lease] # Idle /\ worker[guard[g].lease].guard = g
      BY StateFacts DEF Held, Doing, Holding, On, Work
    <2> QED BY <1>1, <2>1 DEF LeaseLapses
  <1>5. Written(g, k)
    <2>1. guard' = [guard EXCEPT ![g] = k]
      BY DEF LeaseLapses
    <2> HIDE DEF k
    <2> QED BY <1>3, <1>4, <2>1 DEF Written, LeaseLapses
  <1> HIDE DEF k
  <1>6. LeaseSound(g)' /\ LiveSound(g)' /\ GuessSound(g)'
    BY <1>3, <1>4, <1>5, OwnWritten
  <1> QED BY <1>2, <1>3, <1>5, <1>6, WrittenKeeps

LEMMA DeactivateKeeps ==
  ASSUME IInv, Deactivate
  PROVE  IInv'
  <1>1. active' \in BOOLEAN /\ UNCHANGED <<guard, worker, phone, requests, sent, spent, faults>>
    BY DEF Deactivate
  <1>2. \A T : Doing(T)' = Doing(T) /\ Count(T)' = Count(T)
    BY <1>1, NobodyMoves
  <1>3. TypeOK' /\ CodesAtHome'
    BY <1>1 DEF IInv, TypeOK, CodesAtHome
  <1>4. \A p \in Purposes : LeaseSound(p)' /\ LiveSound(p)' /\ GuessSound(p)'
    BY <1>1, <1>2 DEF IInv, LeaseSound, LiveSound, GuessSound, Held
  <1>5. \A c \in Codes : SpendSound(c)'
    BY <1>1, <1>2 DEF IInv, SpendSound
  <1>6. PasswordSound'
    BY <1>1, <1>2 DEF IInv, PasswordSound
  <1> QED BY <1>3, <1>4, <1>5, <1>6 DEF IInv

-----------------------------------------------------------------------------
LEMMA InitSatisfiesInvariant == Init => IInv
  <1> SUFFICES ASSUME Init PROVE IInv
    OBVIOUS
  <1> USE GuardsAssumption
  <1>1. \A w \in Workers : worker[w] = Idle
    BY DEF Init
  <1>2. \A g \in Guards : guard[g] = [code |-> NoCode, failures |-> 0,
                                      locked |-> FALSE, lease |-> NoWorker]
    BY DEF Init
  <1>3. TypeOK
    BY DEF Init, TypeOK, Keys, Guards
  <1>4. \A T : Idle \notin T => Count(T) = 0
    <2> SUFFICES ASSUME NEW T, Idle \notin T PROVE Count(T) = 0
      OBVIOUS
    <2>1. Doing(T) = {}
      BY <1>1 DEF Doing
    <2> QED BY <2>1, FS_EmptySet DEF Count
  <1>5. Idle \notin Work
    BY DEF Idle, Work, Request, Match
  <1>6. \A p \in Purposes : Count(Holding(p)) = 0
    BY <1>4, <1>5 DEF Holding, On
  <1>7. \A c \in Codes : Count(Spending(c)) = 0
    BY <1>4, <1>5 DEF Spending, Work
  <1>8. CodesAtHome
    BY <1>1, <1>2, <1>5 DEF CodesAtHome, StepSound, Idle, Init, Work, Guards
  <1>9. ASSUME NEW p \in Purposes PROVE LeaseSound(p) /\ LiveSound(p) /\ GuessSound(p)
    <2>1. guard[p].code = NoCode /\ guard[p].failures = 0 /\ faults = 0
      BY <1>2 DEF Guards, Init
    <2> QED BY <1>6, <2>1 DEF LeaseSound, LiveSound, GuessSound, One
  <1>10. \A c \in Codes : SpendSound(c)
    BY <1>7 DEF SpendSound, Init
  <1>11. PasswordSound
    BY <1>2 DEF PasswordSound, Guards
  <1> QED BY <1>3, <1>8, <1>9, <1>10, <1>11 DEF IInv

LEMMA StepKeepsInvariant ==
  ASSUME IInv, [Next]_vars
  PROVE  IInv'
  <1>1. CASE UNCHANGED vars
    <2>1. UNCHANGED <<guard, worker, phone, active, requests, sent, spent, faults>>
      BY <1>1 DEF vars
    <2>2. \A T : Doing(T)' = Doing(T) /\ Count(T)' = Count(T)
      BY <2>1, NobodyMoves
    <2>3. TypeOK' /\ CodesAtHome'
      BY <2>1 DEF IInv, TypeOK, CodesAtHome
    <2>4. \A p \in Purposes : LeaseSound(p)' /\ LiveSound(p)' /\ GuessSound(p)'
      BY <2>1, <2>2 DEF IInv, LeaseSound, LiveSound, GuessSound, Held
    <2>5. (\A c \in Codes : SpendSound(c)') /\ PasswordSound'
      BY <2>1, <2>2 DEF IInv, SpendSound, PasswordSound
    <2> QED BY <2>3, <2>4, <2>5 DEF IInv
  <1>2. CASE SendSignupOtp \/ SendLoginOtp \/ SendResetOtp \/ SendPhoneVerification
    BY <1>2, StoreCodeKeeps
    DEF SendSignupOtp, SendLoginOtp, SendResetOtp, SendPhoneVerification, Purposes
  <1>3. ASSUME NEW p \in Purposes, CodeExpires(p) \/ LeaseLapses(p) PROVE IInv'
    BY <1>3, CodeExpiresKeeps, LeaseLapsesKeeps
  <1>4. ASSUME NEW g \in Guards, FailuresExpire(g) \/ LockExpires(g) PROVE IInv'
    BY <1>4, FailuresExpireKeeps, LockExpiresKeeps
  <1>5. ASSUME NEW w \in Workers, NEW g \in Guards, Ask(w, g) PROVE IInv'
    BY <1>5, AskKeeps
  <1>6. ASSUME NEW w \in Workers,
               \/ TakeLease(w) \/ CheckLock(w) \/ WrongCode(w) \/ RightCode(w)
               \/ ResetPassword(w) \/ ResetRefused(w) \/ ConsumeCode(w)
               \/ VerifySignupOtp(w) \/ VerifyPhoneVerification(w) \/ VerifyLoginOtp(w)
        PROVE  IInv'
    <2>1. /\ worker[w].at \in {"asked", "leased", "checked", "matched", "consuming", "following"}
          /\ worker[w].at = "asked" => worker[w].guard \in Purposes
      BY <1>6
      DEF TakeLease, CheckLock, WrongCode, RightCode, ResetPassword, ResetRefused, ConsumeCode,
          VerifySignupOtp, VerifyPhoneVerification, VerifyLoginOtp, Following, At
    <2>2. worker[w].guard \in Purposes
      BY <2>1, AtWork DEF IInv, Idle
    <2>3. PICK g \in Purposes : g = worker[w].guard
      BY <2>2
    <2> QED
      BY <1>6, <2>3, TakeLeaseKeeps, CheckLockKeeps, WrongCodeKeeps, RightCodeKeeps,
         ResetPasswordKeeps, ResetRefusedKeeps, ConsumeCodeKeeps, FollowingKeeps
  <1>7. ASSUME NEW w \in Workers,
               LockGuard(w) \/ RecordFailure(w) \/ ClearGuard(w) \/ Dies(w)
        PROVE  IInv'
    <2>1. worker[w] # Idle
      BY <1>7 DEF LockGuard, RecordFailure, ClearGuard, Dies, At, Idle
    <2>2. worker[w].guard \in Guards
      BY <2>1, AtWork DEF IInv
    <2>3. PICK g \in Guards : g = worker[w].guard
      BY <2>2
    <2> QED BY <1>7, <2>3, LockGuardKeeps, RecordFailureKeeps, ClearGuardKeeps, DiesKeeps
  <1> QED BY <1>1, <1>2, <1>3, <1>4, <1>5, <1>6, <1>7, DeactivateKeeps DEF Next

LEMMA InductiveInvariant == Spec => []IInv
  <1>1. IInv /\ [Next]_vars => IInv'
    BY StepKeepsInvariant
  <1> QED BY InitSatisfiesInvariant, <1>1, PTL DEF Spec

\* Every variable keeps its domain; a password login has no code and no lease.
THEOREM TypeCorrect == Spec => []TypeOK
  <1>1. IInv => TypeOK
    BY DEF IInv
  <1> QED BY InductiveInvariant, <1>1, PTL

\* However many requests submit a code at a time, it is spent once, and once more
\* for each request that died with it and each lease that lapsed.
THEOREM CodesAreSingleUse == Spec => []CodesAreSpentOnce
  <1>1. IInv => CodesAreSpentOnce
    <2> SUFFICES ASSUME IInv, NEW c \in Codes PROVE spent[c] <= 1 + faults
      BY DEF CodesAreSpentOnce
    <2>1. /\ spent[c] + Count(Spending(c)) <= 1 + faults
          /\ spent[c] \in Nat /\ faults \in Nat /\ Count(Spending(c)) \in Nat
      BY Counted DEF IInv, SpendSound, TypeOK
    <2> QED BY <2>1
  <1> QED BY InductiveInvariant, <1>1, PTL

\* The guesses under a guard stay within the limit, but for faults, and for the
\* workers that a guard without a lease lets by.
THEOREM GuardsBoundGuesses == Spec => []GuessesAreBounded
  <1>1. IInv => GuessesAreBounded
    <2> SUFFICES ASSUME IInv PROVE GuessesAreBounded
      OBVIOUS
    <2> USE GuardsAssumption
    <2>1. ASSUME NEW p \in Purposes PROVE guard[p].failures <= MaxAttempts + faults
      <3>1. /\ guard[p].failures \in Nat /\ faults \in Nat /\ Count(Passed(p)) \in Nat
            /\ Count(Guessing(p)) \in Nat /\ One(~Held(p)) \in Nat
        BY Counted DEF IInv, TypeOK, Keys, Guards, One
      <3>2. GuessSound(p)
        BY DEF IInv
      <3> QED BY <3>1, <3>2 DEF GuessSound
    <2>2. guard["password"].failures < MaxAttempts + Cardinality(Workers) + faults
      <3>1. /\ guard["password"].failures \in Nat /\ faults \in Nat
            /\ Count(On("password", {"asked"})) \in Nat
            /\ Count(On("password", {"locking"})) \in Nat
            /\ Count(On("password", {"locking"})) <= Cardinality(Workers)
            /\ Cardinality(Workers) \in Nat
        BY Counted DEF IInv, TypeOK, Keys, Guards
      <3>2. PasswordSound
        BY DEF IInv
      <3> QED BY <3>1, <3>2 DEF PasswordSound
    <2> QED BY <2>1, <2>2 DEF GuessesAreBounded
  <1> QED BY InductiveInvariant, <1>1, PTL
=============================================================================
