--------------------------- MODULE LoadGenProofs ---------------------------
(***************************************************************************)
(* Theorems about LoadGen, for any number of workers, limit, number of     *)
(* metrics and size of batches: how far the limit may be overrun, that the *)
(* load is not cut short, that every metric is seeded.                     *)
(***************************************************************************)
EXTENDS LoadGen, FiniteSetTheorems, TLAPS

\* Workers that have counted an answer they have not compared with the limit.
Comparing == {w \in Workers : pc[w] = "compare"}

\* Workers that may not get another answer once the context is cancelled.
Spent == {w \in Workers : pc[w] # "do"}

\* What may have been counted before any worker compares.
Base == Greater(limit - 1, seeds)

LoadTypes ==
  /\ limit \in Int /\ timed \in BOOLEAN
  /\ phase \in {"seeding", "loading", "returned", "failed"}
  /\ from \in Nat /\ seeds \in Nat /\ requests \in 0..RequestBound
  /\ aborted \in BOOLEAN /\ stopped \in BOOLEAN
  /\ pc \in [Workers -> {"idle", "do", "compare", "left"}]

\* Nothing but the seeding counts before the load.
SeedInv ==
  phase = "seeding" => requests <= seeds /\ ~stopped /\ pc = [w \in Workers |-> "idle"]

\* Until the context is cancelled only uncompared answers exceed Base; from
\* then on each worker has at most one more to come.
CountInv ==
  limit > 0 => requests <= Base + Cardinality(IF stopped THEN Spent ELSE Comparing)

LEMMA Counting ==
  ASSUME LoadTypes
  PROVE  /\ IsFiniteSet(Comparing) /\ IsFiniteSet(Spent)
         /\ Cardinality(Comparing) \in Nat /\ Cardinality(Spent) \in Nat
         /\ Cardinality(Comparing) <= Cardinality(Spent)
         /\ Cardinality(Spent) <= Cardinality(Workers)
         /\ Cardinality(Workers) \in Nat
<1>1. IsFiniteSet(Workers) /\ Cardinality(Workers) \in Nat
  BY LoadGenAssumption, FS_CardinalityType
<1>2. Spent \in SUBSET Workers /\ Comparing \in SUBSET Spent
  BY DEF Spent, Comparing
<1>3. IsFiniteSet(Spent) /\ Cardinality(Spent) <= Cardinality(Workers)
  BY <1>1, <1>2, FS_Subset
<1>4. IsFiniteSet(Comparing) /\ Cardinality(Comparing) <= Cardinality(Spent)
  BY <1>2, <1>3, FS_Subset
<1> QED BY <1>1, <1>3, <1>4, FS_CardinalityType

\* A worker that moves takes itself out of a set of workers, or joins it.
LEMMA Moving ==
  ASSUME LoadTypes, NEW w \in Workers, NEW place \in {"idle", "do", "compare", "left"},
         pc' = [pc EXCEPT ![w] = place]
  PROVE  /\ Comparing' = IF place = "compare" THEN Comparing \cup {w} ELSE Comparing \ {w}
         /\ Spent' = IF place = "do" THEN Spent \ {w} ELSE Spent \cup {w}
BY DEF LoadTypes, Comparing, Spent

LEMMA TypesInductive == LoadTypes /\ [Next]_vars => LoadTypes'
<1> SUFFICES ASSUME LoadTypes, [Next]_vars PROVE LoadTypes'
  OBVIOUS
<1> USE LoadGenAssumption DEF LoadTypes, settings, seedVars
<1>1. CASE seed
  BY <1>1 DEF seed, SeedBatch, SeedFails, StartLoad, Answered, Lesser
<1>2. CASE Return
  BY <1>2 DEF Return
<1>3. CASE TimerFires
  BY <1>3 DEF TimerFires
<1>4. CASE Abort
  BY <1>4 DEF Abort
<1>5. CASE Ended
  BY <1>5 DEF Ended, vars
<1>6. CASE \E w \in Workers : doRequest(w)
  <2> PICK w \in Workers : doRequest(w)
    BY <1>6
  <2>1. CASE Roll(w) \/ Leave(w) \/ NoAnswer(w)
    BY <2>1 DEF Roll, Leave, NoAnswer
  <2>2. CASE Answer(w)
    BY <2>2 DEF Answer, Answered, Lesser
  <2>3. CASE Compare(w)
    BY <2>3 DEF Compare
  <2> QED BY <2>1, <2>2, <2>3 DEF doRequest
<1>7. CASE UNCHANGED vars
  BY <1>7 DEF vars
<1> QED BY <1>1, <1>2, <1>3, <1>4, <1>5, <1>6, <1>7 DEF Next

LEMMA SeedInductive == LoadTypes /\ SeedInv /\ [Next]_vars => SeedInv'
<1> SUFFICES ASSUME LoadTypes, SeedInv, [Next]_vars, phase' = "seeding"
             PROVE  requests' <= seeds' /\ ~stopped' /\ pc' = [w \in Workers |-> "idle"]
  BY DEF SeedInv
<1> USE DEF LoadTypes, SeedInv, settings, seedVars
<1>1. CASE seed
  BY <1>1, LoadGenAssumption DEF seed, SeedBatch, SeedFails, StartLoad, Answered, Lesser
<1>2. CASE Abort
  BY <1>2 DEF Abort
<1>3. CASE UNCHANGED vars
  BY <1>3 DEF vars
<1>4. CASE Ended
  BY <1>4 DEF Ended, vars
<1>5. CASE Return \/ TimerFires
  BY <1>5 DEF Return, TimerFires
<1>6. CASE \E w \in Workers : doRequest(w)
  <2> PICK w \in Workers : doRequest(w)
    BY <1>6
  <2> QED
    BY DEF doRequest, Roll, Leave, Answer, Compare, NoAnswer, Loading
<1> QED BY <1>1, <1>2, <1>3, <1>4, <1>5, <1>6 DEF Next

LEMMA CountInductive == LoadTypes /\ SeedInv /\ CountInv /\ [Next]_vars => CountInv'
<1> SUFFICES ASSUME LoadTypes, SeedInv, CountInv, [Next]_vars, limit' > 0
             PROVE  requests' <= Base' + Cardinality(IF stopped' THEN Spent' ELSE Comparing')
  BY DEF CountInv
<1>0. limit' = limit /\ limit > 0 /\ Base \in Int /\ LoadTypes'
  <2>1. limit' = limit
    BY DEF Next, seed, SeedBatch, SeedFails, StartLoad, Return, TimerFires, Abort, Ended,
           doRequest, Roll, Leave, Answer, Compare, NoAnswer, vars, settings
  <2> QED BY <2>1, TypesInductive DEF LoadTypes, Base, Greater
<1> HIDE DEF CountInv
<1>a. /\ requests \in Int
      /\ Cardinality(Comparing) \in Nat /\ Cardinality(Spent) \in Nat
      /\ Cardinality(Comparing) <= Cardinality(Spent)
      /\ IsFiniteSet(Comparing) /\ IsFiniteSet(Spent)
  BY Counting DEF LoadTypes
<1>b. requests <= Base + Cardinality(IF stopped THEN Spent ELSE Comparing)
  BY <1>0 DEF CountInv
\* Steps that move no worker and count nothing.
<1>c. ASSUME requests' = requests, seeds' = seeds, pc' = pc, stopped => stopped'
      PROVE  requests' <= Base' + Cardinality(IF stopped' THEN Spent' ELSE Comparing')
  <2>1. Base' = Base /\ Spent' = Spent /\ Comparing' = Comparing
    BY <1>c, <1>0 DEF Base, Greater, Spent, Comparing
  <2> QED BY <2>1, <1>0, <1>a, <1>b, <1>c
<1>1. CASE seed
  <2>1. CASE SeedBatch
    <3>1. requests' <= seeds'
      BY <2>1, SeedInductive DEF SeedBatch, SeedInv
    <3>2. seeds' <= Base' /\ {Base', seeds', requests'} \subseteq Int
      BY <1>0 DEF Base, Greater, LoadTypes
    <3>3. Cardinality(Spent') \in Nat /\ Cardinality(Comparing') \in Nat
      <4>1. Spent' = Spent /\ Comparing' = Comparing
        BY <2>1 DEF SeedBatch, Spent, Comparing
      <4> QED BY <4>1, <1>a
    <3> QED BY <3>1, <3>2, <3>3
  <2>2. CASE SeedFails \/ StartLoad
    BY <2>2, <1>c DEF SeedFails, StartLoad, seedVars
  <2> QED BY <1>1, <2>1, <2>2 DEF seed
<1>2. CASE Return \/ TimerFires \/ Abort \/ Ended \/ UNCHANGED vars
  BY <1>2, <1>c DEF Return, TimerFires, Abort, Ended, vars, seedVars
<1>3. CASE \E w \in Workers : doRequest(w)
  <2> PICK w \in Workers : doRequest(w)
    BY <1>3
  <2>0. Base' = Base
    BY <1>0 DEF Base, Greater, doRequest, Roll, Leave, Answer, Compare, NoAnswer, seedVars
  <2>a. /\ Cardinality(Comparing \cup {w}) =
             (IF w \in Comparing THEN Cardinality(Comparing) ELSE Cardinality(Comparing) + 1)
        /\ Cardinality(Spent \cup {w}) =
             (IF w \in Spent THEN Cardinality(Spent) ELSE Cardinality(Spent) + 1)
        /\ w \notin Comparing => Cardinality(Comparing \ {w}) = Cardinality(Comparing)
    BY <1>a, FS_AddElement, FS_RemoveElement
  <2>1. CASE Roll(w)
    <3>1. ~stopped /\ ~stopped' /\ requests' = requests /\ w \notin Comparing
      BY <2>1 DEF Roll, Over, Loading, Comparing
    <3>2. Comparing' = Comparing \ {w}
      BY <2>1, Moving DEF Roll
    <3> QED BY <3>1, <3>2, <2>0, <2>a, <1>0, <1>a, <1>b
  <2>2. CASE Leave(w) \/ NoAnswer(w)
    <3>1. /\ stopped' = stopped /\ requests' = requests /\ w \notin Comparing
      BY <2>2 DEF Leave, NoAnswer, Loading, Comparing
    <3>2. Comparing' = Comparing \ {w} /\ Spent' = Spent \cup {w}
      BY <2>2, Moving DEF Leave, NoAnswer
    <3> QED BY <3>1, <3>2, <2>0, <2>a, <1>0, <1>a, <1>b
  <2>3. CASE Answer(w)
    <3>1. /\ stopped' = stopped /\ requests' <= requests + 1 /\ requests' \in Int
          /\ w \notin Comparing /\ w \notin Spent
      BY <2>3, LoadGenAssumption
         DEF Answer, Answered, Lesser, Loading, Comparing, Spent, LoadTypes
    <3>2. Comparing' = Comparing \cup {w} /\ Spent' = Spent \cup {w}
      BY <2>3, Moving DEF Answer
    <3> QED BY <3>1, <3>2, <2>0, <2>a, <1>0, <1>a, <1>b
  <2>4. CASE Compare(w)
    <3>1. requests' = requests /\ w \in Spent
      BY <2>4 DEF Compare, Loading, Spent
    <3>2. Spent' = Spent \cup {w}
      BY <2>4, Moving DEF Compare
    <3>3. CASE stopped'
      BY <3>1, <3>2, <3>3, <2>0, <2>a, <1>0, <1>a, <1>b
    <3>4. CASE ~stopped'
      <4>0. ~(requests >= limit)
        BY <3>4, <2>4, <1>0, Zenon DEF Compare
      <4>1. requests < limit
        BY <4>0 DEF LoadTypes
      <4>2. requests <= Base
        BY <4>1, <1>0, <1>a DEF Base, Greater, LoadTypes
      <4>3. Cardinality(Comparing') \in Nat
        <5>1. Comparing' = Comparing \ {w}
          BY <2>4, Moving DEF Compare
        <5> QED BY <5>1, <1>a, FS_RemoveElement, FS_CardinalityType
      <4> QED BY <3>1, <3>4, <4>2, <4>3, <2>0, <1>0, <1>a
    <3> QED BY <3>3, <3>4
  <2> QED BY <2>1, <2>2, <2>3, <2>4 DEF doRequest
<1> QED BY <1>1, <1>2, <1>3 DEF Next

LEMMA SafetyInductive == Spec => [](LoadTypes /\ SeedInv /\ CountInv)
<1>1. Init => LoadTypes /\ SeedInv /\ CountInv
  <2> SUFFICES ASSUME Init PROVE LoadTypes /\ SeedInv /\ CountInv
    OBVIOUS
  <2>0. SeedInv
    BY DEF Init, SeedInv
  <2>1. LoadTypes
    <3>1. limit \in Int /\ 0 \in 0..RequestBound
      BY LoadGenAssumption DEF Init
    <3>2. pc \in [Workers -> {"idle", "do", "compare", "left"}]
      BY DEF Init
    <3> QED BY <3>1, <3>2 DEF Init, LoadTypes
  <2>2. Cardinality(Comparing) \in Nat /\ Cardinality(Spent) \in Nat
    BY <2>1, Counting
  <2>3. 0 <= Base /\ Base \in Int /\ requests = 0
    BY <2>1 DEF Init, Base, Greater, LoadTypes
  <2> QED BY <2>0, <2>1, <2>2, <2>3 DEF CountInv
<1> QED BY <1>1, TypesInductive, SeedInductive, CountInductive, PTL DEF Spec

\* Of any number of workers each gets at most one answer beyond the limit, or
\* beyond the seeding if that has reached it (counters.requests, counters.limit).
THEOREM LimitIsOverrunAtMostByWorkers == Spec => []LimitOverrun
<1>1. LoadTypes /\ CountInv => LimitOverrun
  <2> SUFFICES ASSUME LoadTypes, CountInv, limit > 0 PROVE LimitOverrun
    BY DEF LimitOverrun
  <2>1. /\ Base \in Int /\ Base < Greater(limit, seeds + 1)
        /\ Greater(limit, seeds + 1) \in Int /\ requests \in Int
    BY DEF Base, Greater, LoadTypes
  <2>2. requests <= Base + Cardinality(IF stopped THEN Spent ELSE Comparing)
    BY DEF CountInv
  <2> QED BY <2>1, <2>2, Counting DEF LimitOverrun
<1> QED BY <1>1, SafetyInductive, PTL

----------------------------------------------------------------------------
\* Whoever has cancelled had a reason, whoever has left saw the cancellation.
ReasonInv ==
  /\ stopped => timed \/ (limit > 0 /\ requests >= limit)
  /\ \A w \in Workers : pc[w] = "left" => Over
  /\ Returned => \A w \in Workers : pc[w] = "left"

LEMMA ReasonInductive == LoadTypes /\ ReasonInv /\ [Next]_vars => ReasonInv'
<1> SUFFICES ASSUME LoadTypes, ReasonInv, [Next]_vars PROVE ReasonInv'
  OBVIOUS
<1> USE LoadGenAssumption DEF LoadTypes, ReasonInv, Over, Returned, settings, seedVars
<1>1. CASE seed
  BY <1>1 DEF seed, SeedBatch, SeedFails, StartLoad, Answered, Lesser
<1>2. CASE Return
  BY <1>2 DEF Return
<1>3. CASE TimerFires
  BY <1>3 DEF TimerFires
<1>4. CASE Abort
  BY <1>4 DEF Abort
<1>5. CASE Ended \/ UNCHANGED vars
  BY <1>5 DEF Ended, vars
<1>6. CASE \E w \in Workers : doRequest(w)
  <2> PICK w \in Workers : doRequest(w)
    BY <1>6
  <2>1. CASE Roll(w) \/ Leave(w) \/ NoAnswer(w)
    BY <2>1 DEF Roll, Leave, NoAnswer, Loading
  <2>2. CASE Answer(w)
    BY <2>2 DEF Answer, Answered, Lesser, Loading
  <2>3. CASE Compare(w)
    BY <2>3 DEF Compare, Loading
  <2> QED BY <2>1, <2>2, <2>3 DEF doRequest
<1> QED BY <1>1, <1>2, <1>3, <1>4, <1>5, <1>6 DEF Next

\* Run returns at the limit, at the timer or with the caller's context, never
\* because its workers have come to an end by themselves.
THEOREM LoadIsNotCutShort == Spec => []NotCutShort
<1>1. Init => ReasonInv
  BY LoadGenAssumption DEF Init, ReasonInv, Returned
<1>2. ReasonInv => NotCutShort
  BY LoadGenAssumption DEF ReasonInv, NotCutShort, Over, Returned
<1> QED BY <1>1, <1>2, SafetyInductive, ReasonInductive, PTL DEF Spec

----------------------------------------------------------------------------
\* What has been posted when the seeding is at index from.
PostedInv ==
  /\ posted = 0..(Lesser(from, SeedMetrics) - 1)
  /\ phase = "loading" => from >= SeedMetrics

LEMMA PostedInductive == LoadTypes /\ PostedInv /\ [Next]_vars => PostedInv'
<1> SUFFICES ASSUME LoadTypes, PostedInv, [Next]_vars PROVE PostedInv'
  OBVIOUS
<1>0. SeedMetrics \in Nat /\ BatchSize \in Nat /\ BatchSize > 0 /\ from \in Nat
  BY LoadGenAssumption DEF LoadTypes
<1>1. CASE SeedBatch
  BY <1>0, <1>1 DEF SeedBatch, PostedInv, buildBatch, Lesser
<1>2. CASE SeedFails \/ StartLoad
  BY <1>2 DEF SeedFails, StartLoad, PostedInv, seedVars
<1>3. CASE Return \/ TimerFires \/ Abort \/ Ended \/ UNCHANGED vars
  BY <1>3 DEF Return, TimerFires, Abort, Ended, vars, PostedInv, seedVars
<1>4. CASE \E w \in Workers : doRequest(w)
  BY <1>4 DEF doRequest, Roll, Leave, Answer, Compare, NoAnswer, PostedInv, seedVars
<1> QED BY <1>1, <1>2, <1>3, <1>4 DEF Next, seed

\* Whatever the number of metrics and the size of a batch, the load asks for no
\* metric that was not posted (seed).
THEOREM EverythingIsSeeded == Spec => []SeedCoversMetrics
<1>1. Init => PostedInv
  BY LoadGenAssumption DEF Init, PostedInv, Lesser
<1>2. LoadTypes /\ PostedInv => SeedCoversMetrics
  BY LoadGenAssumption DEF LoadTypes, PostedInv, SeedCoversMetrics, Lesser
<1> QED BY <1>1, <1>2, SafetyInductive, PostedInductive, PTL DEF Spec
=============================================================================
