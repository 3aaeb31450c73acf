---------------------------- MODULE HandlersProofs ----------------------------
(***************************************************************************)
(* Theorems about Handlers, for any clients and batches of any length: the *)
(* audit hears of every change and of nothing else, the memory store with  *)
(* its locks keeps the promise of BatchStore, and what is read is a cut of *)
(* the updates.                                                            *)
(***************************************************************************)
EXTENDS Handlers, SequenceTheorems, FiniteSetTheorems, WellFoundedInduction, TLAPS

Places == {"idle", "arrived", "writing", "notify", "value", "answer", "page",
           "clone", "clone rest", "done"}

Types ==
  /\ \A c \in Updaters : req[c] \in Updates /\ req[c].metrics \in Seq(Metric)
  /\ \A c \in Readers : req[c].route \in {"value", "page"}
  /\ pc \in [Clients -> Places]
  /\ pos \in [Clients -> Nat \ {0}]
  /\ status \in [Clients -> {0, 200, 400, 404}]
  /\ counter \in [Updaters -> Nat]
  /\ order \in Seq(Updaters)
  /\ writer \in Updaters \cup {NoOne}

\* One client writes at a time, under the lock.
LockInv ==
  /\ \A c \in Clients : pc[c] = "writing" => writer = c
  /\ writer # NoOne => pc[writer] = "writing"

Ordered == {order[i] : i \in DOMAIN order}

\* The metrics before the one UpdateBatch is at.
Passed(c) == {i \in DOMAIN req[c].metrics : i < pos[c]}
IsCounter(c, i) == req[c].metrics[i] = [type |-> Counter, ok |-> TRUE]
IsGauge(c, i) == req[c].metrics[i] = [type |-> Gauge, ok |-> TRUE]

Empty(c) == req[c].metrics = <<>>

Untouched(c) ==
  pc[c] \in {"idle", "arrived"} \/ (pc[c] = "done" /\ (Empty(c) \/ status[c] = 400))

Changed(c) == pc[c] \in {"notify", "value", "answer"} \/ (pc[c] = "done" /\ ~Empty(c) /\ status[c] = 200)

\* What a client that updates has changed so far, by its place.
UpdateInv(c) ==
  /\ pc[c] \in {"idle", "arrived", "writing", "notify", "value", "answer", "done"}
  /\ IF pc[c] = "done" THEN status[c] \in {200, 400} ELSE status[c] = 0
  /\ pc[c] = "done" /\ status[c] = 400 => ~WellFormed(c)
  /\ Untouched(c) => pos[c] = 1 /\ counter[c] = 0 /\ gauge # c /\ c \notin Ordered
  /\ pc[c] = "writing" \/ Changed(c) => WellFormed(c) /\ ~Empty(c) /\ c \in Ordered
  /\ pc[c] = "writing" =>
       /\ pos[c] <= Len(req[c].metrics) + 1
       /\ counter[c] = Cardinality({i \in Passed(c) : IsCounter(c, i)})
       /\ gauge = c <=> \E i \in Passed(c) : IsGauge(c, i)
  /\ Changed(c) => counter[c] = Increments(c)

ChangeInv == \A c \in Updaters : UpdateInv(c)

\* A client that reads is in none of the places of an update.
ReaderInv == \A c \in Readers : pc[c] \notin {"writing", "notify"}

Published(c) == Changed(c) /\ pc[c] # "notify"

EventInv ==
  /\ \A e \in events : e.client \in Updaters /\ Published(e.client) /\ e.names = Names(e.client)
  /\ \A c \in Updaters : Published(c) => [client |-> c, names |-> Names(c)] \in events

LEMMA ClientNames ==
  /\ NoOne \notin Clients /\ Clients = Updaters \cup Readers
  /\ \A c \in Readers : c \notin Updaters
BY HandlersAssumption DEF Clients

LEMMA BatchesAreSequences ==
  ASSUME NEW u \in Updates
  PROVE  u.metrics \in Seq(Metric)
<1>1. CASE u.metrics \in Singles
  <2>1. PICK m \in Metric : u.metrics = <<m>>
    BY <1>1 DEF Singles
  <2>2. \A k \in Metric : <<k>> \in Seq(Metric)
    OBVIOUS
  <2> QED BY <2>1, <2>2, Zenon
<1>2. CASE u.metrics \in Batches
  <2>1. PICK n \in 0..BatchLen : u.metrics \in [1..n -> Metric]
    BY <1>2 DEF Batches
  <2>2. n \in Nat
    BY <2>1, HandlersAssumption
  <2> QED BY <2>1, <2>2, SeqDef
<1> QED BY <1>1, <1>2 DEF Updates

LEMMA MetricCounts ==
  ASSUME NEW s \in Seq(Metric)
  PROVE  /\ Len(s) \in Nat /\ DOMAIN s = 1..Len(s) /\ IsFiniteSet(DOMAIN s)
         /\ s = <<>> <=> Len(s) = 0
         /\ \A i \in DOMAIN s : s[i] \in Metric
<1>1. Len(s) \in Nat /\ DOMAIN s = 1..Len(s) /\ s \in [1..Len(s) -> Metric]
  BY LenProperties
<1>2. IsFiniteSet(1..Len(s))
  BY <1>1, FS_Interval
<1>3. s = <<>> <=> Len(s) = 0
  BY <1>1, EmptySeq
<1> QED BY <1>1, <1>2, <1>3

----------------------------------------------------------------------------
LEMMA TypesInductive == Types /\ LockInv /\ [Next]_vars => Types'
<1> SUFFICES ASSUME Types, LockInv, [Next]_vars PROVE Types'
  OBVIOUS
<1> USE ClientNames DEF storeVars, muVars, Goto, Answer, Updating
<1>t. /\ pc \in [Clients -> Places] /\ status \in [Clients -> {0, 200, 400, 404}]
      /\ writer \in Updaters \cup {NoOne} /\ order \in Seq(Updaters)
      /\ pos \in [Clients -> Nat \ {0}] /\ counter \in [Updaters -> Nat]
      /\ \A c \in Readers : req[c].route \in {"value", "page"}
  BY DEF Types
\* Whoever does not write a metric nor enters the order.
<1>1. ASSUME UNCHANGED <<req, pos, counter, order>>, pc' \in [Clients -> Places],
             status' \in [Clients -> {0, 200, 400, 404}], writer' \in {NoOne, writer}
      PROVE  Types'
  BY <1>1, <1>t DEF Types
<1>2. ASSUME NEW c \in Clients, Arrive(c) \/ UpdateStep(c) \/ ReadStep(c) \/ Respond(c)
      PROVE  Types'
  <2>0. \A p \in Places : [pc EXCEPT ![c] = p] \in [Clients -> Places]
    BY <1>t
  <2>a. \A a \in {200, 400, 404} : [status EXCEPT ![c] = a] \in [Clients -> {0, 200, 400, 404}]
    BY <1>t
  <2>p. {"arrived", "writing", "done", "value", "answer", "page", "notify", "clone", "clone rest"}
          \subseteq Places
    BY DEF Places
  <2>1. CASE Arrive(c) \/ Respond(c) \/ Refuse(c) \/ EmptyBatch(c)
    <3>1. UNCHANGED <<req, pos, counter, order, writer>>
      BY <2>1 DEF Arrive, Respond, Refuse, EmptyBatch
    <3>2. pc' = [pc EXCEPT ![c] = "arrived"] \/ pc' = [pc EXCEPT ![c] = "done"]
      BY <2>1 DEF Arrive, Respond, Refuse, EmptyBatch
    <3>3. status' = status \/ \E a \in {200, 400, 404} : status' = [status EXCEPT ![c] = a]
      BY <2>1 DEF Arrive, Respond, Refuse, EmptyBatch
    <3>4. pc' \in [Clients -> Places]
      BY <3>2, <2>0, <2>p
    <3>5. status' \in [Clients -> {0, 200, 400, 404}]
      <4>1. CASE status' = status
        BY <4>1, <1>t
      <4>2. CASE \E a \in {200, 400, 404} : status' = [status EXCEPT ![c] = a]
        BY <4>2, <2>a
      <4> QED BY <3>3, <4>1, <4>2
    <3> QED BY <3>1, <3>4, <3>5, <1>1
  <2>3. CASE Lock(c)
    <3>1. /\ c \in Updaters /\ order' = Append(order, c) /\ writer' = c
          /\ pc' = [pc EXCEPT ![c] = "writing"] /\ UNCHANGED <<req, pos, counter, status>>
      BY <2>3 DEF Lock
    <3>2. order' \in Seq(Updaters)
      BY <3>1, <1>t, AppendProperties
    <3>3. pc' \in [Clients -> Places]
      BY <3>1, <2>0, <2>p
    <3> QED BY <3>1, <3>2, <3>3 DEF Types
  <2>4. CASE Write(c)
    <3>1. counter' = counter \/ counter' = [counter EXCEPT ![c] = @ + 1]
      BY <2>4 DEF Write
    <3>2. pos' = [pos EXCEPT ![c] = @ + 1]
      BY <2>4 DEF Write
    <3>3. UNCHANGED <<req, pc, status, order, writer>>
      BY <2>4 DEF Write
    <3>4. counter' \in [Updaters -> Nat]
      <4>1. c \in Updaters
        BY <2>4, <1>t DEF Write, LockInv
      <4>2. counter[c] + 1 \in Nat
        BY <4>1, <1>t
      <4> QED BY <3>1, <4>1, <4>2, <1>t
    <3>5. pos' \in [Clients -> Nat \ {0}]
      BY <3>2, <1>t
    <3> QED BY <3>3, <3>4, <3>5 DEF Types
  <2>5. CASE Unlock(c) \/ notifyAudit(c) \/ StartRead(c) \/ RLock(c) \/ CloneGauge(c) \/ CloneCounter(c)
    <3>1. UNCHANGED <<req, pos, counter, order, status>> /\ writer' \in {NoOne, writer}
      BY <2>5 DEF Unlock, notifyAudit, StartRead, RLock, CloneGauge, CloneCounter
    <3>2. \E p \in {"notify", "value", "answer", "page", "clone", "clone rest"} :
            pc' = [pc EXCEPT ![c] = p]
      BY <2>5, <1>t DEF Unlock, notifyAudit, StartRead, RLock, CloneGauge, CloneCounter
    <3>3. pc' \in [Clients -> Places]
      BY <3>2, <2>0, <2>p
    <3> QED BY <3>1, <3>3, <1>1, <1>t
  <2>8. CASE GetValue(c)
    <3>1. UNCHANGED <<req, pos, counter, order, writer>>
      BY <2>8 DEF GetValue
    <3>2. pc' = [pc EXCEPT ![c] = "done"] /\ \E a \in {200, 404} : status' = [status EXCEPT ![c] = a]
      BY <2>8 DEF GetValue
    <3>3. pc' \in [Clients -> Places]
      BY <3>2, <2>0, <2>p
    <3>4. status' \in [Clients -> {0, 200, 400, 404}]
      BY <3>2, <2>a
    <3> QED BY <3>1, <3>3, <3>4, <1>1
  <2> QED BY <1>2, <2>1, <2>3, <2>4, <2>5, <2>8 DEF UpdateStep, ReadStep
<1>3. CASE UNCHANGED vars
  BY <1>3 DEF vars, Types
<1> QED BY <1>2, <1>3 DEF Next

LEMMA LocksInductive == Types /\ LockInv /\ [Next]_vars => LockInv'
<1> SUFFICES ASSUME Types, LockInv, [Next]_vars PROVE LockInv'
  OBVIOUS
<1> USE ClientNames DEF storeVars, muVars, Goto, Answer, Updating
<1>t. /\ pc \in [Clients -> Places] /\ writer \in Updaters \cup {NoOne}
      /\ \A c \in Readers : req[c].route \in {"value", "page"}
  BY DEF Types
\* A client that neither takes nor gives up the lock.
<1>1. ASSUME NEW c \in Clients, pc[c] # "writing", writer' = writer,
             NEW p, p # "writing", pc' = [pc EXCEPT ![c] = p]
      PROVE  LockInv'
  BY <1>1, <1>t DEF LockInv
<1>2. ASSUME NEW c \in Clients, Arrive(c) \/ UpdateStep(c) \/ ReadStep(c) \/ Respond(c)
      PROVE  LockInv'
  <2>1. CASE Arrive(c) \/ Respond(c)
    BY <2>1, <1>1 DEF Arrive, Respond
  <2>2. CASE Refuse(c) \/ EmptyBatch(c)
    BY <2>2, <1>1 DEF Refuse, EmptyBatch
  <2>3. CASE Lock(c)
    BY <2>3, <1>t DEF Lock, Free, LockInv
  <2>4. CASE Write(c)
    BY <2>4 DEF Write, LockInv
  <2>5. CASE Unlock(c)
    BY <2>5, <1>t DEF Unlock, LockInv
  <2>6. CASE notifyAudit(c)
    BY <2>6, <1>1 DEF notifyAudit
  <2>7. CASE StartRead(c)
    BY <2>7, <1>1, <1>t DEF StartRead
  <2>8. CASE GetValue(c)
    BY <2>8, <1>1 DEF GetValue
  <2>9. CASE RLock(c) \/ CloneGauge(c) \/ CloneCounter(c)
    BY <2>9, <1>1 DEF RLock, CloneGauge, CloneCounter
  <2> QED BY <1>2, <2>1, <2>2, <2>3, <2>4, <2>5, <2>6, <2>7, <2>8, <2>9 DEF UpdateStep, ReadStep
<1>3. CASE UNCHANGED vars
  BY <1>3 DEF vars, LockInv
<1> QED BY <1>2, <1>3 DEF Next

----------------------------------------------------------------------------
(* What an update has changed.                                             *)

\* An update nobody touches keeps what holds of it.
LEMMA UpdateFrame ==
  ASSUME NEW x \in Updaters, UpdateInv(x), req' = req,
         pc'[x] = pc[x], status'[x] = status[x], pos'[x] = pos[x], counter'[x] = counter[x],
         gauge' = x <=> gauge = x, x \in Ordered' <=> x \in Ordered
  PROVE  UpdateInv(x)'
<1>1. /\ Passed(x)' = Passed(x) /\ Increments(x)' = Increments(x)
      /\ Untouched(x)' <=> Untouched(x)
      /\ Changed(x)' <=> Changed(x)
      /\ WellFormed(x)' <=> WellFormed(x)
      /\ Empty(x)' <=> Empty(x)
      /\ \A i : IsCounter(x, i)' <=> IsCounter(x, i)
      /\ \A i : IsGauge(x, i)' <=> IsGauge(x, i)
  BY DEF Passed, Increments, Untouched, Changed, WellFormed, Empty, IsCounter, IsGauge
<1>2. {i \in Passed(x)' : IsCounter(x, i)'} = {i \in Passed(x) : IsCounter(x, i)}
  BY <1>1
<1>3. (\E i \in Passed(x)' : IsGauge(x, i)') <=> \E i \in Passed(x) : IsGauge(x, i)
  BY <1>1
<1>4. pc'[x] = "writing" =>
        /\ pos'[x] <= Len(req'[x].metrics) + 1
        /\ counter'[x] = Cardinality({i \in Passed(x)' : IsCounter(x, i)'})
        /\ gauge' = x <=> \E i \in Passed(x)' : IsGauge(x, i)'
  <2> SUFFICES ASSUME pc[x] = "writing"
               PROVE  /\ pos[x] <= Len(req[x].metrics) + 1
                      /\ counter[x] = Cardinality({i \in Passed(x) : IsCounter(x, i)})
                      /\ gauge = x <=> \E i \in Passed(x) : IsGauge(x, i)
    BY <1>2, <1>3
  <2> QED BY DEF UpdateInv
<1>5. /\ Untouched(x)' => pos'[x] = 1 /\ counter'[x] = 0 /\ gauge' # x /\ x \notin Ordered'
      /\ pc'[x] = "writing" \/ Changed(x)' => WellFormed(x)' /\ ~Empty(x)' /\ x \in Ordered'
      /\ Changed(x)' => counter'[x] = Increments(x)'
  BY <1>1 DEF UpdateInv
<1>6. /\ pc'[x] \in {"idle", "arrived", "writing", "notify", "value", "answer", "done"}
      /\ IF pc'[x] = "done" THEN status'[x] \in {200, 400} ELSE status'[x] = 0
      /\ pc'[x] = "done" /\ status'[x] = 400 => ~WellFormed(x)'
  BY <1>1 DEF UpdateInv
<1> QED BY <1>4, <1>5, <1>6 DEF UpdateInv

\* A step of c that leaves the store to the others.
LEMMA OthersUntouched ==
  ASSUME Types, LockInv, ChangeInv, NEW c \in Clients,
         Arrive(c) \/ UpdateStep(c) \/ ReadStep(c) \/ Respond(c)
  PROVE  \A x \in Updaters \ {c} : UpdateInv(x)'
<1> SUFFICES ASSUME NEW x \in Updaters, x # c PROVE UpdateInv(x)'
  OBVIOUS
<1> USE ClientNames DEF storeVars, muVars, Goto, Answer, Updating
<1>t. /\ pc \in [Clients -> Places] /\ status \in [Clients -> {0, 200, 400, 404}]
      /\ order \in Seq(Updaters)
      /\ pos \in [Clients -> Nat \ {0}] /\ counter \in [Updaters -> Nat]
      /\ UpdateInv(x) /\ x \in Clients
  BY DEF Types, ChangeInv
<1>1. CASE Lock(c)
  <2>1. order' = Append(order, c) /\ c \in Updaters
    BY <1>1 DEF Lock
  <2>2. x \in Ordered' <=> x \in Ordered
    <3>1. /\ Len(order) \in Nat /\ DOMAIN order = 1..Len(order)
          /\ Len(order') = Len(order) + 1 /\ DOMAIN order' = 1..Len(order')
          /\ \A i \in 1..Len(order) : order'[i] = order[i]
          /\ order'[Len(order) + 1] = c
      BY <2>1, <1>t, AppendProperties, LenProperties
    <3> QED BY <3>1 DEF Ordered
  <2>3. /\ req' = req /\ gauge' = gauge /\ pc'[x] = pc[x]
        /\ UNCHANGED <<status, pos, counter>>
    BY <1>1, <1>t DEF Lock
  <2> QED BY <2>2, <2>3, <1>t, UpdateFrame
<1>2. CASE Write(c)
  <2>1. /\ req' = req /\ pc' = pc /\ status' = status /\ order' = order
        /\ pos'[x] = pos[x] /\ counter'[x] = counter[x] /\ gauge' \in {gauge, c}
    BY <1>2, <1>t DEF Write
  <2>2. Ordered' = Ordered
    BY <2>1 DEF Ordered
  <2>3. CASE gauge' = gauge
    BY <2>1, <2>2, <2>3, <1>t, UpdateFrame
  <2>4. CASE gauge' = c /\ gauge # x
    BY <2>1, <2>2, <2>4, <1>t, UpdateFrame
  <2>5. CASE gauge' = c /\ gauge = x
    \* x is past its writing: its gauge is nobody's matter.
    <3>1. pc[x] # "writing"
      BY <1>2 DEF Write, LockInv
    <3>2. ~Untouched(x)
      BY <2>5, <1>t DEF UpdateInv
    <3>3. /\ Untouched(x)' = Untouched(x) /\ Changed(x)' = Changed(x)
          /\ WellFormed(x)' = WellFormed(x) /\ Empty(x)' = Empty(x)
          /\ Increments(x)' = Increments(x)
      BY <2>1 DEF Untouched, Changed, WellFormed, Empty, Increments
    <3> QED BY <2>1, <2>2, <3>1, <3>2, <3>3, <1>t DEF UpdateInv
  <2> QED BY <2>1, <2>3, <2>4, <2>5
<1>3. CASE ~Lock(c) /\ ~Write(c)
  <2>1. /\ UNCHANGED <<req, order, gauge, counter, pos>>
        /\ pc'[x] = pc[x] /\ status'[x] = status[x]
    <3>1. CASE Arrive(c) \/ Refuse(c) \/ EmptyBatch(c) \/ Respond(c)
      BY <3>1, <1>t DEF Arrive, Refuse, EmptyBatch, Respond
    <3>2. CASE Unlock(c) \/ notifyAudit(c) \/ StartRead(c)
      BY <3>2, <1>t DEF Unlock, notifyAudit, StartRead
    <3>3. CASE GetValue(c)
      <4>1. /\ UNCHANGED <<req, order, gauge, counter, pos>>
            /\ pc' = [pc EXCEPT ![c] = "done"]
            /\ \E a : status' = [status EXCEPT ![c] = a]
        BY <3>3 DEF GetValue
      <4> QED BY <4>1, <1>t
    <3>4. CASE RLock(c) \/ CloneGauge(c) \/ CloneCounter(c)
      <4>1. /\ UNCHANGED <<req, order, gauge, counter, pos, status>>
            /\ \E p : pc' = [pc EXCEPT ![c] = p]
        BY <3>4 DEF RLock, CloneGauge, CloneCounter
      <4> QED BY <4>1, <1>t
    <3> QED BY <1>3, <3>1, <3>2, <3>3, <3>4 DEF UpdateStep, ReadStep
  <2>2. Ordered' = Ordered
    BY <2>1 DEF Ordered
  <2> QED BY <2>1, <2>2, <1>t, UpdateFrame
<1> QED BY <1>1, <1>2, <1>3

LEMMA WriteKeeps ==
  ASSUME Types, LockInv, ChangeInv, NEW c \in Updaters, Write(c)
  PROVE  UpdateInv(c)'
<1> DEFINE s == req[c].metrics
<1> DEFINE k == pos[c]
<1>t. /\ s \in Seq(Metric) /\ pos \in [Clients -> Nat \ {0}] /\ counter \in [Updaters -> Nat]
      /\ c \in Clients /\ UpdateInv(c)
  BY ClientNames DEF Types, ChangeInv
<1>1. /\ pc[c] = "writing" /\ k <= Len(s) /\ pos'[c] = k + 1
      /\ gauge' = IF s[k].ok /\ s[k].type = Gauge THEN c ELSE gauge
      /\ counter'[c] = IF s[k].ok /\ s[k].type = Counter THEN counter[c] + 1 ELSE counter[c]
      /\ UNCHANGED <<pc, req, status, order>>
  BY <1>t DEF Write, muVars, Current
<1>2. Len(s) \in Nat /\ DOMAIN s = 1..Len(s) /\ IsFiniteSet(DOMAIN s) /\ s[k] \in Metric
  <2>1. Len(s) \in Nat /\ DOMAIN s = 1..Len(s) /\ IsFiniteSet(DOMAIN s)
        /\ \A i \in DOMAIN s : s[i] \in Metric
    BY <1>t, MetricCounts
  <2>2. k \in 1..Len(s)
    BY <2>1, <1>t, <1>1
  <2> QED BY <2>1, <2>2
<1>3. WellFormed(c) /\ ~Empty(c) /\ c \in Ordered
  BY <1>1, <1>t DEF UpdateInv
<1>4. k \in DOMAIN s /\ s[k].ok
  BY <1>1, <1>2, <1>3, <1>t DEF WellFormed
<1>5. /\ s[k].type = Counter <=> IsCounter(c, k)
      /\ s[k].type = Gauge <=> IsGauge(c, k)
  <2> DEFINE m == s[k]
  <2>1. m \in Metric /\ m.ok
    BY <1>2, <1>4
  <2> HIDE DEF m
  <2>2. /\ m.type = Counter <=> m = [type |-> Counter, ok |-> TRUE]
        /\ m.type = Gauge <=> m = [type |-> Gauge, ok |-> TRUE]
    BY <2>1 DEF Metric
  <2> QED BY <2>2 DEF m, IsCounter, IsGauge
<1>6. Passed(c)' = Passed(c) \cup {k} /\ k \notin Passed(c)
  BY <1>1, <1>2, <1>4, <1>t DEF Passed
<1> DEFINE C == {i \in Passed(c) : IsCounter(c, i)}
<1>7. IsFiniteSet(C) /\ counter[c] = Cardinality(C)
  <2>1. C \subseteq DOMAIN s
    BY DEF Passed
  <2> QED BY <2>1, <1>1, <1>2, <1>t, FS_Subset DEF UpdateInv
<1>8. \A i : IsCounter(c, i)' = IsCounter(c, i) /\ IsGauge(c, i)' = IsGauge(c, i)
  BY <1>1 DEF IsCounter, IsGauge
<1>9. counter'[c] = Cardinality(C')
  <2>1. CASE IsCounter(c, k)
    <3>1. C' = C \cup {k} /\ k \notin C
      BY <2>1, <1>6, <1>8
    <3>2. Cardinality(C \cup {k}) = Cardinality(C) + 1
      BY <3>1, <1>7, FS_AddElement
    <3> QED BY <3>1, <3>2, <2>1, <1>1, <1>4, <1>5, <1>7
  <2>2. CASE ~IsCounter(c, k)
    <3>1. C' = C
      BY <2>2, <1>6, <1>8
    <3> QED BY <3>1, <2>2, <1>1, <1>5, <1>7
  <2> QED BY <2>1, <2>2
<1>10. gauge' = c <=> \E i \in Passed(c)' : IsGauge(c, i)'
  <2>1. gauge = c <=> \E i \in Passed(c) : IsGauge(c, i)
    BY <1>1, <1>t DEF UpdateInv
  <2> QED BY <2>1, <1>1, <1>4, <1>5, <1>6, <1>8
<1>11. /\ WellFormed(c)' /\ ~Empty(c)' /\ c \in Ordered'
       /\ pos'[c] <= Len(req'[c].metrics) + 1
  BY <1>1, <1>2, <1>3, <1>t DEF WellFormed, Empty, Ordered
<1>12. pc'[c] = "writing" /\ ~Untouched(c)' /\ ~Changed(c)' /\ status'[c] = 0
  BY <1>1, <1>t DEF Untouched, Changed, UpdateInv
<1> HIDE DEF C
<1>13. C' = {i \in Passed(c)' : IsCounter(c, i)'}
  BY DEF C
<1> QED BY <1>9, <1>10, <1>11, <1>12, <1>13 DEF UpdateInv

\* The other steps of an update itself.
LEMMA StepKeeps ==
  ASSUME Types, LockInv, ChangeInv, NEW c \in Updaters,
         Arrive(c) \/ UpdateStep(c) \/ ReadStep(c) \/ Respond(c)
  PROVE  UpdateInv(c)'
<1> USE ClientNames DEF storeVars, muVars, Goto, Answer, Updating
<1>t. /\ pc \in [Clients -> Places] /\ status \in [Clients -> {0, 200, 400, 404}]
      /\ order \in Seq(Updaters) /\ req[c].metrics \in Seq(Metric)
      /\ pos \in [Clients -> Nat \ {0}] /\ counter \in [Updaters -> Nat]
      /\ UpdateInv(c) /\ c \in Clients
  BY DEF Types, ChangeInv
<1>n. pc[c] \notin {"page", "clone", "clone rest"}
  BY <1>t DEF UpdateInv
\* Steps that write no metric and do not enter the order.
<1>1. ASSUME UNCHANGED <<req, order, gauge, counter, pos>>
      PROVE  /\ WellFormed(c)' <=> WellFormed(c)
             /\ Empty(c)' <=> Empty(c)
             /\ Increments(c)' = Increments(c)
             /\ c \in Ordered' <=> c \in Ordered
  BY <1>1 DEF WellFormed, Empty, Increments, Ordered
<1>2. CASE Arrive(c) \/ Refuse(c) \/ EmptyBatch(c)
  <2>1. Untouched(c)
    BY <1>2 DEF Arrive, Refuse, EmptyBatch, Untouched
  <2>2. UNCHANGED <<req, order, gauge, counter, pos>>
    BY <1>2 DEF Arrive, Refuse, EmptyBatch
  <2>3. CASE Arrive(c)
    <3>1. pc'[c] = "arrived" /\ status'[c] = status[c] /\ pc[c] = "idle"
      BY <2>3, <1>t DEF Arrive
    <3>2. Untouched(c)' /\ ~Changed(c)'
      BY <3>1 DEF Untouched, Changed
    <3> QED BY <2>1, <2>2, <3>1, <3>2, <1>1, <1>t DEF UpdateInv
  <2>4. CASE Refuse(c)
    <3>1. pc'[c] = "done" /\ status'[c] = 400 /\ ~WellFormed(c)
      BY <2>4, <1>t DEF Refuse
    <3>2. Untouched(c)' /\ ~Changed(c)'
      BY <3>1 DEF Untouched, Changed
    <3> QED BY <2>1, <2>2, <3>1, <3>2, <1>1, <1>t DEF UpdateInv
  <2>5. CASE EmptyBatch(c)
    <3>1. pc'[c] = "done" /\ status'[c] = 200 /\ Empty(c)
      BY <2>5, <1>t DEF EmptyBatch, Empty
    <3>2. Untouched(c)' /\ ~Changed(c)'
      BY <2>2, <3>1 DEF Untouched, Changed, Empty
    <3> QED BY <2>1, <2>2, <3>1, <3>2, <1>1, <1>t DEF UpdateInv
  <2> QED BY <1>2, <2>3, <2>4, <2>5
<1>3. CASE Lock(c)
  <2>1. /\ pc[c] = "arrived" /\ pc'[c] = "writing" /\ order' = Append(order, c)
        /\ WellFormed(c) /\ ~Empty(c)
        /\ UNCHANGED <<req, gauge, counter, pos, status>>
    BY <1>3, <1>t DEF Lock, Empty
  <2>2. pos[c] = 1 /\ counter[c] = 0 /\ gauge # c /\ status[c] = 0
    BY <2>1, <1>t DEF UpdateInv, Untouched
  <2>3. c \in Ordered'
    <3>1. order'[Len(order) + 1] = c /\ Len(order') = Len(order) + 1
      BY <2>1, <1>t, AppendProperties
    <3>2. DOMAIN order' = 1..Len(order') /\ Len(order) \in Nat
      BY <2>1, <1>t, AppendProperties, LenProperties
    <3> QED BY <3>1, <3>2 DEF Ordered
  <2>4. Passed(c)' = {}
    <3>1. \A i \in DOMAIN req[c].metrics : i \in Nat /\ i >= 1
      BY <1>t, MetricCounts
    <3> QED BY <2>1, <2>2, <3>1 DEF Passed
  <2>5. {i \in Passed(c)' : IsCounter(c, i)'} = {} /\ Cardinality({}) = 0
    BY <2>4, FS_EmptySet
  <2>6. pos[c] <= Len(req[c].metrics) + 1
    BY <2>2, <1>t, MetricCounts
  <2>7. ~Untouched(c)' /\ ~Changed(c)' /\ WellFormed(c)' /\ ~Empty(c)'
    BY <2>1 DEF Untouched, Changed, WellFormed, Empty
  <2>8. pc'[c] = "writing" =>
          /\ pos'[c] <= Len(req'[c].metrics) + 1
          /\ counter'[c] = Cardinality({i \in Passed(c)' : IsCounter(c, i)'})
          /\ gauge' = c <=> \E i \in Passed(c)' : IsGauge(c, i)'
    <3>1. counter'[c] = Cardinality({i \in Passed(c)' : IsCounter(c, i)'})
      BY <2>1, <2>2, <2>5
    <3>2. gauge' = c <=> \E i \in Passed(c)' : IsGauge(c, i)'
      BY <2>1, <2>2, <2>4
    <3> QED BY <3>1, <3>2, <2>1, <2>6
  <2> QED BY <2>1, <2>2, <2>3, <2>7, <2>8 DEF UpdateInv
<1>4. CASE Unlock(c)
  <2>1. /\ pc[c] = "writing" /\ pc'[c] = "notify" /\ pos[c] > Len(req[c].metrics)
        /\ UNCHANGED <<req, order, gauge, counter, pos, status>>
    BY <1>4, <1>t DEF Unlock
  <2>2. Len(req[c].metrics) \in Nat /\ DOMAIN req[c].metrics = 1..Len(req[c].metrics)
    BY <1>t, MetricCounts
  <2>3. Passed(c) = DOMAIN req[c].metrics
    BY <2>1, <2>2, <1>t DEF Passed
  <2>4. counter[c] = Cardinality({i \in Passed(c) : IsCounter(c, i)})
    BY <2>1, <1>t DEF UpdateInv
  <2>5. counter[c] = Increments(c)
    BY <2>3, <2>4 DEF Increments, IsCounter
  <2>6. ~Untouched(c)' /\ Changed(c)'
    BY <2>1 DEF Untouched, Changed
  <2> QED BY <2>1, <2>5, <2>6, <1>1, <1>t DEF UpdateInv
<1>5. CASE notifyAudit(c) \/ GetValue(c) \/ Respond(c)
  <2>1. pc[c] \in {"notify", "value", "answer"} /\ Changed(c) /\ status[c] = 0
    BY <1>5, <1>t DEF notifyAudit, GetValue, Respond, Changed, UpdateInv
  <2>2. UNCHANGED <<req, order, gauge, counter, pos>>
    BY <1>5 DEF notifyAudit, GetValue, Respond
  <2>3. \/ pc'[c] \in {"value", "answer"} /\ status'[c] = 0
        \/ pc'[c] = "done" /\ status'[c] = 200
    <3>1. CASE notifyAudit(c)
      BY <3>1, <2>1, <1>t DEF notifyAudit
    <3>2. CASE GetValue(c)
      <4>1. pc' = [pc EXCEPT ![c] = "done"] /\ status' = [status EXCEPT ![c] = 200]
        BY <3>2 DEF GetValue
      <4> QED BY <4>1, <1>t
    <3>3. CASE Respond(c)
      BY <3>3, <1>t DEF Respond
    <3> QED BY <1>5, <3>1, <3>2, <3>3
  <2>4. ~Empty(c)' /\ WellFormed(c)'
    BY <2>1, <2>2, <1>1, <1>t DEF UpdateInv
  <2>5. ~Untouched(c)' /\ Changed(c)'
    BY <2>3, <2>4 DEF Untouched, Changed
  <2> QED BY <2>1, <2>2, <2>3, <2>4, <2>5, <1>1, <1>t DEF UpdateInv
<1>6. CASE Write(c)
  BY <1>6, WriteKeeps
<1>7. ~(StartRead(c) \/ RLock(c) \/ CloneGauge(c) \/ CloneCounter(c))
  BY <1>n DEF StartRead, RLock, CloneGauge, CloneCounter
<1> QED BY <1>2, <1>3, <1>4, <1>5, <1>6, <1>7 DEF UpdateStep, ReadStep

LEMMA ChangesInductive == Types /\ LockInv /\ ChangeInv /\ [Next]_vars => ChangeInv'
<1> SUFFICES ASSUME Types, LockInv, ChangeInv, [Next]_vars PROVE ChangeInv'
  OBVIOUS
<1>1. ASSUME NEW c \in Clients, Arrive(c) \/ UpdateStep(c) \/ ReadStep(c) \/ Respond(c)
      PROVE  ChangeInv'
  <2>1. \A x \in Updaters \ {c} : UpdateInv(x)'
    BY <1>1, OthersUntouched
  <2>2. c \in Updaters => UpdateInv(c)'
    BY <1>1, StepKeeps
  <2> QED BY <2>1, <2>2 DEF ChangeInv
<1>2. CASE UNCHANGED vars
  <2> SUFFICES ASSUME NEW x \in Updaters PROVE UpdateInv(x)'
    BY DEF ChangeInv
  <2>1. /\ UNCHANGED <<req, pc, status, pos, counter, gauge, order>>
        /\ UpdateInv(x)
    BY <1>2 DEF vars, storeVars, ChangeInv
  <2>2. Ordered' = Ordered
    BY <2>1 DEF Ordered
  <2> QED BY <2>1, <2>2, UpdateFrame
<1> QED BY <1>1, <1>2 DEF Next

LEMMA ReadersInductive == Types /\ ReaderInv /\ [Next]_vars => ReaderInv'
<1> SUFFICES ASSUME Types, ReaderInv, [Next]_vars, NEW x \in Readers
             PROVE  pc'[x] \notin {"writing", "notify"}
  BY DEF ReaderInv
<1> USE ClientNames DEF Goto, Answer, Updating
<1>t. /\ pc \in [Clients -> Places] /\ x \in Clients
      /\ pc[x] \notin {"writing", "notify"}
      /\ \A c \in Readers : req[c].route \in {"value", "page"}
  BY DEF Types, ReaderInv
<1>1. ASSUME NEW c \in Clients, NEW p, pc' = [pc EXCEPT ![c] = p],
             c \in Updaters \/ p \notin {"writing", "notify"}
      PROVE  pc'[x] \notin {"writing", "notify"}
  BY <1>1, <1>t
<1>2. ASSUME NEW c \in Clients, Arrive(c) \/ UpdateStep(c) \/ ReadStep(c) \/ Respond(c)
      PROVE  pc'[x] \notin {"writing", "notify"}
  <2>1. CASE Arrive(c) \/ Refuse(c) \/ EmptyBatch(c) \/ Respond(c)
    BY <2>1, <1>1 DEF Arrive, Refuse, EmptyBatch, Respond
  <2>2. CASE Lock(c)
    BY <2>2, <1>1 DEF Lock
  <2>3. CASE Write(c)
    BY <2>3, <1>t DEF Write
  <2>4. CASE Unlock(c)
    BY <2>4, <1>t DEF Unlock
  <2>5. CASE notifyAudit(c)
    <3>1. \E p \in {"value", "answer"} : pc' = [pc EXCEPT ![c] = p]
      BY <2>5 DEF notifyAudit
    <3> QED BY <3>1, <1>1
  <2>6. CASE StartRead(c)
    BY <2>6, <1>1, <1>t DEF StartRead
  <2>7. CASE GetValue(c)
    BY <2>7, <1>1 DEF GetValue
  <2>8. CASE RLock(c) \/ CloneGauge(c) \/ CloneCounter(c)
    <3>1. \E p \in {"clone", "clone rest", "answer"} : pc' = [pc EXCEPT ![c] = p]
      BY <2>8 DEF RLock, CloneGauge, CloneCounter
    <3> QED BY <3>1, <1>1
  <2> QED BY <1>2, <2>1, <2>2, <2>3, <2>4, <2>5, <2>6, <2>7, <2>8 DEF UpdateStep, ReadStep
<1>3. CASE UNCHANGED vars
  BY <1>3, <1>t DEF vars
<1> QED BY <1>2, <1>3 DEF Next

LEMMA EventsInductive ==
  Types /\ LockInv /\ ChangeInv /\ ReaderInv /\ EventInv /\ [Next]_vars => EventInv'
<1> SUFFICES ASSUME Types, LockInv, ChangeInv, ReaderInv, EventInv, [Next]_vars PROVE EventInv'
  OBVIOUS
<1> USE ClientNames DEF storeVars, muVars, Goto, Answer, Updating
<1>t. /\ pc \in [Clients -> Places] /\ status \in [Clients -> {0, 200, 400, 404}]
  BY DEF Types
<1>1. ASSUME events' = events, req' = req, \A x \in Updaters : Published(x)' <=> Published(x)
      PROVE  EventInv'
  BY <1>1 DEF EventInv, Names
<1>2. ASSUME NEW c \in Clients, Arrive(c) \/ UpdateStep(c) \/ ReadStep(c) \/ Respond(c)
      PROVE  EventInv'
  <2>0. /\ req' = req
        /\ \A x \in Updaters \ {c} : pc'[x] = pc[x] /\ status'[x] = status[x]
    <3>1. CASE Arrive(c) \/ Refuse(c) \/ EmptyBatch(c) \/ Respond(c) \/ Lock(c)
      BY <3>1, <1>t DEF Arrive, Refuse, EmptyBatch, Respond, Lock
    <3>2. CASE Write(c) \/ Unlock(c) \/ notifyAudit(c) \/ StartRead(c)
      BY <3>2, <1>t DEF Write, Unlock, notifyAudit, StartRead
    <3>3. CASE GetValue(c) \/ RLock(c) \/ CloneGauge(c) \/ CloneCounter(c)
      <4>1. /\ req' = req
            /\ \E p : pc' = [pc EXCEPT ![c] = p]
            /\ status' = status \/ \E a : status' = [status EXCEPT ![c] = a]
        BY <3>3 DEF GetValue, RLock, CloneGauge, CloneCounter
      <4> QED BY <4>1, <1>t
    <3> QED BY <1>2, <3>1, <3>2, <3>3 DEF UpdateStep, ReadStep
  <2>1. \A x \in Updaters \ {c} : Published(x)' <=> Published(x)
    BY <2>0 DEF Published, Changed, Empty
  <2>2. CASE c \notin Updaters
    <3>0. ~notifyAudit(c)
      BY <2>2 DEF notifyAudit, ReaderInv
    <3>1. events' = events
      BY <1>2, <3>0 DEF UpdateStep, ReadStep, Arrive, Refuse, EmptyBatch, Respond, Lock, Write,
         Unlock, StartRead, GetValue, RLock, CloneGauge, CloneCounter
    <3> QED BY <3>1, <2>0, <2>1, <2>2, <1>1
  <2>3. CASE c \in Updaters
    <3>0. UpdateInv(c) /\ UpdateInv(c)'
      BY <2>3, <1>2, StepKeeps DEF ChangeInv
    <3>1. CASE notifyAudit(c)
      <4>1. /\ pc[c] = "notify" /\ pc'[c] \in {"value", "answer"}
            /\ events' = events \cup {[client |-> c, names |-> Names(c)]}
        BY <3>1, <1>t DEF notifyAudit
      <4>2. Published(c)' /\ ~Published(c)
        BY <4>1 DEF Published, Changed
      <4>3. \A x : Names(x)' = Names(x)
        BY <2>0 DEF Names
      <4> QED BY <4>1, <4>2, <4>3, <2>1, <2>3 DEF EventInv
    <3>2. CASE ~notifyAudit(c)
      <4>1. events' = events
        BY <1>2, <3>2 DEF UpdateStep, ReadStep, Arrive, Refuse, EmptyBatch, Respond, Lock, Write,
           Unlock, StartRead, GetValue, RLock, CloneGauge, CloneCounter
      <4>2. Published(c)' <=> Published(c)
        <5>1. CASE Arrive(c) \/ Lock(c) \/ Write(c) \/ Unlock(c)
          BY <5>1, <1>t DEF Arrive, Lock, Write, Unlock, Published, Changed
        <5>2. CASE Refuse(c) \/ EmptyBatch(c)
          <6>1. pc[c] = "arrived" /\ pc'[c] = "done" /\ (status'[c] = 400 \/ Empty(c))
            BY <5>2, <1>t DEF Refuse, EmptyBatch, Empty
          <6> QED BY <6>1, <2>0 DEF Published, Changed, Empty
        <5>3. CASE GetValue(c) \/ Respond(c)
          <6>1. pc[c] \in {"value", "answer"} /\ pc'[c] = "done" /\ status'[c] = 200
            <7>1. CASE GetValue(c)
              <8>1. /\ pc[c] = "value" /\ pc' = [pc EXCEPT ![c] = "done"]
                    /\ status' = [status EXCEPT ![c] = 200]
                BY <7>1, <2>3 DEF GetValue
              <8> QED BY <8>1, <1>t
            <7>2. CASE Respond(c)
              BY <7>2, <1>t DEF Respond
            <7> QED BY <5>3, <7>1, <7>2
          <6>2. ~Empty(c)
            BY <6>1, <3>0 DEF UpdateInv, Changed
          <6> QED BY <6>1, <6>2, <2>0 DEF Published, Changed, Empty
        <5>4. ~(StartRead(c) \/ RLock(c) \/ CloneGauge(c) \/ CloneCounter(c))
          BY <2>3, <3>0 DEF UpdateInv, StartRead, RLock, CloneGauge, CloneCounter
        <5> QED BY <1>2, <3>2, <5>1, <5>2, <5>3, <5>4 DEF UpdateStep, ReadStep
      <4> QED BY <4>1, <4>2, <2>0, <2>1, <1>1
    <3> QED BY <3>1, <3>2
  <2> QED BY <2>2, <2>3
<1>3. CASE UNCHANGED vars
  BY <1>3, <1>1 DEF vars, Published, Changed, Empty
<1> QED BY <1>2, <1>3 DEF Next

----------------------------------------------------------------------------
(* The theorems.                                                           *)

IInv == Types /\ LockInv /\ ChangeInv /\ ReaderInv /\ EventInv

LEMMA InitiallyIInv == Init => IInv
<1> SUFFICES ASSUME Init PROVE IInv
  OBVIOUS
<1> USE ClientNames DEF Init, NoMetrics
<1>1. Types
  <2>1. \A c \in Updaters : req[c] \in Updates /\ req[c].metrics \in Seq(Metric)
    BY BatchesAreSequences
  <2>2. \A c \in Readers : req[c].route \in {"value", "page"}
    BY DEF Reads
  <2> QED BY <2>1, <2>2 DEF Types, Places
<1>2. LockInv
  BY DEF LockInv
<1>3. Ordered = {}
  BY DEF Ordered
<1>4. ChangeInv
  BY <1>3 DEF ChangeInv, UpdateInv, Untouched, Changed
<1>5. ReaderInv /\ EventInv
  BY DEF ReaderInv, EventInv, Published, Changed
<1> QED BY <1>1, <1>2, <1>4, <1>5 DEF IInv

\* In every reachable state of the handlers over the memory store the five
\* parts of the inductive invariant hold together.
THEOREM HandlersInvariant == Spec => []IInv
<1>1. IInv /\ [Next]_vars => IInv'
  BY TypesInductive, LocksInductive, ChangesInductive, ReadersInductive,
     EventsInductive DEF IInv
<1> QED BY InitiallyIInv, <1>1, PTL DEF Spec

LEMMA CountNatural ==
  ASSUME Types, NEW c \in Updaters
  PROVE  Increments(c) \in Nat
<1> DEFINE s == req[c].metrics
<1> DEFINE C == {i \in DOMAIN s : s[i] = [type |-> Counter, ok |-> TRUE]}
<1>1. s \in Seq(Metric)
  BY DEF Types
<1>2. IsFiniteSet(DOMAIN s)
  BY <1>1, MetricCounts
<1>3. Cardinality(C) \in Nat
  BY <1>2, FS_Subset, FS_CardinalityType
<1>4. Increments(c) = Cardinality(C)
  BY DEF Increments
<1> QED BY <1>3, <1>4

LEMMA CountPositive ==
  ASSUME Types, NEW c \in Updaters, WellFormed(c)
  PROVE  Counter \in Names(c) <=> Increments(c) > 0
<1> DEFINE s == req[c].metrics
<1> DEFINE C == {i \in DOMAIN s : s[i] = [type |-> Counter, ok |-> TRUE]}
<1>1. s \in Seq(Metric)
  BY DEF Types
<1>2. IsFiniteSet(DOMAIN s) /\ \A i \in DOMAIN s : s[i] \in Metric
  BY <1>1, MetricCounts
<1>3. IsFiniteSet(C) /\ Cardinality(C) \in Nat /\ (Cardinality(C) = 0 <=> C = {})
  BY <1>2, FS_Subset, FS_EmptySet, FS_CardinalityType
<1>4. \A i \in DOMAIN s : s[i].type = Counter <=> s[i] = [type |-> Counter, ok |-> TRUE]
  <2> SUFFICES ASSUME NEW m \in Metric, m.ok
               PROVE  m.type = Counter <=> m = [type |-> Counter, ok |-> TRUE]
    BY <1>2 DEF WellFormed
  <2> QED BY DEF Metric
<1>5. Counter \in Names(c) <=> C # {}
  BY <1>4 DEF Names
<1>6. Increments(c) = Cardinality(C)
  BY DEF Increments
<1> HIDE DEF C
<1> QED BY <1>3, <1>5, <1>6

\* The audit hears of every change that succeeded before it is answered, under
\* the names of what was changed, and of nothing else; a refused request has
\* changed nothing.
THEOREM AuditMatchesStore == Spec => []EventsMatchChanges
<1>1. ASSUME IInv PROVE EventsMatchChanges
  <2> USE <1>1 DEF IInv
  <2>1. ASSUME NEW e \in events
        PROVE  /\ e.client \in {order[i] : i \in DOMAIN order}
               /\ Counter \in e.names <=> counter[e.client] > 0
               /\ e.names # {}
    <3> DEFINE c == e.client
    <3>1. c \in Updaters /\ Changed(c) /\ e.names = Names(c) /\ UpdateInv(c)
      BY <2>1 DEF EventInv, Published, ChangeInv
    <3>2. WellFormed(c) /\ ~Empty(c) /\ c \in Ordered /\ counter[c] = Increments(c)
      BY <3>1 DEF UpdateInv
    <3>3. Names(c) # {}
      <4>1. req[c].metrics \in Seq(Metric)
        BY <3>1 DEF Types
      <4>2. 1 \in DOMAIN req[c].metrics
        BY <3>2, <4>1, MetricCounts DEF Empty
      <4> QED BY <4>2 DEF Names
    <3>4. Counter \in Names(c) <=> Increments(c) > 0
      BY <3>1, <3>2, CountPositive
    <3> QED BY <3>1, <3>2, <3>3, <3>4 DEF Ordered
  <2>2. ASSUME NEW c \in Accepted PROVE [client |-> c, names |-> Names(c)] \in events
    <3>1. c \in Updaters /\ c \in Clients /\ status[c] = 200 /\ ~Empty(c) /\ UpdateInv(c)
      BY <2>2, ClientNames DEF Accepted, Empty, ChangeInv
    <3>2. Published(c)
      BY <3>1 DEF UpdateInv, Published, Changed
    <3> QED BY <3>1, <3>2 DEF EventInv
  <2>3. ASSUME NEW c \in Updaters, status[c] = 400 PROVE counter[c] = 0 /\ gauge # c
    <3>1. UpdateInv(c)
      BY DEF ChangeInv
    <3>2. Untouched(c)
      BY <2>3, <3>1 DEF UpdateInv, Untouched
    <3> QED BY <3>1, <3>2 DEF UpdateInv
  <2> QED BY <2>1, <2>2, <2>3 DEF EventsMatchChanges
<1>2. IInv => EventsMatchChanges
  BY <1>1
<1> QED BY <1>2, HandlersInvariant, PTL

----------------------------------------------------------------------------
(* The memory store as a BatchStore.                                       *)

\* The abstract variables.
Effects == [c \in Updaters |-> [g |-> IF Sets(c) THEN {Gauge} ELSE {}, n |-> Increments(c),
                               once |-> TRUE]]
Shown == [x \in {Gauge} |-> IF writer # NoOne /\ Sets(writer) THEN writer ELSE gauge]
Counted == [u \in Updaters |-> IF u = writer THEN Increments(u) ELSE counter[u]]
Answers ==
  [c \in Updaters |-> IF pc[c] # "done" \/ req[c].metrics = <<>> THEN "none"
                      ELSE IF c \in Accepted THEN "ok" ELSE "failed"]

\* A step that answers no update and neither takes nor gives up the lock.
LEMMA NothingShown ==
  ASSUME req' = req, Shown' = Shown, Counted' = Counted, Answers' = Answers, order' = order
  PROVE  UNCHANGED Promise!storeVars
<1>1. Effects' = Effects
  BY DEF Effects, Sets, Increments
<1> QED BY <1>1 DEF Promise!storeVars, Effects, Shown, Counted, Answers

LEMMA StepKeepsPromise ==
  ASSUME IInv, [Next]_vars
  PROVE  [Promise!StoreNext]_(Promise!storeVars)
<1> USE ClientNames DEF storeVars, muVars, Goto, Answer, Updating
<1>t. /\ pc \in [Clients -> Places] /\ status \in [Clients -> {0, 200, 400, 404}]
      /\ counter \in [Updaters -> Nat] /\ order \in Seq(Updaters)
      /\ writer \in Updaters \cup {NoOne} /\ pos \in [Clients -> Nat \ {0}]
      /\ \A c \in Updaters : UpdateInv(c) /\ c \in Clients
      /\ \A c \in Updaters : req[c].metrics \in Seq(Metric)
  BY DEF IInv, Types, ChangeInv
\* The answers depend on the places, the requests and the statuses only.
<1>a. ASSUME req' = req, \A x \in Updaters : pc'[x] = pc[x] /\ status'[x] = status[x]
      PROVE  Answers' = Answers
  BY <1>a DEF Answers, Accepted
<1>s. req' = req => \A x : (Sets(x)' <=> Sets(x)) /\ Increments(x)' = Increments(x)
  BY DEF Sets, Increments
\* Steps that leave the store, the lock, the order and what is answered alone.
<1>0. ASSUME UNCHANGED <<req, gauge, counter, writer, order>>, Answers' = Answers
      PROVE  UNCHANGED Promise!storeVars
  <2>1. Shown' = Shown /\ Counted' = Counted
    BY <1>0, <1>s DEF Shown, Counted
  <2> QED BY <2>1, <1>0, NothingShown
<1>1. ASSUME NEW c \in Clients, Arrive(c) \/ UpdateStep(c) \/ ReadStep(c) \/ Respond(c)
      PROVE  UNCHANGED Promise!storeVars \/ Promise!StoreNext
  <2>0. req' = req
    BY <1>1 DEF UpdateStep, ReadStep, Arrive, Refuse, EmptyBatch, Respond, Lock, Write, Unlock,
       notifyAudit, StartRead, GetValue, RLock, CloneGauge, CloneCounter
  <2>1. CASE c \in Readers
    <3>1. ~(Refuse(c) \/ EmptyBatch(c) \/ Lock(c) \/ Write(c) \/ Unlock(c) \/ notifyAudit(c))
      BY <2>1 DEF IInv, ReaderInv, Refuse, EmptyBatch, Lock, Write, Unlock, notifyAudit
    <3>2. /\ UNCHANGED <<req, gauge, counter, writer, order>>
          /\ \E p : pc' = [pc EXCEPT ![c] = p]
          /\ status' = status \/ \E a : status' = [status EXCEPT ![c] = a]
      BY <1>1, <3>1 DEF UpdateStep, ReadStep, Arrive, Respond, StartRead, GetValue, RLock,
         CloneGauge, CloneCounter
    <3>3. \A x \in Updaters : pc'[x] = pc[x] /\ status'[x] = status[x]
      BY <2>1, <3>2, <1>t
    <3> QED BY <2>0, <3>2, <3>3, <1>0, <1>a
  <2>2. CASE c \in Updaters /\ (Arrive(c) \/ notifyAudit(c) \/ EmptyBatch(c))
    <3>1. UNCHANGED <<gauge, counter, writer, order>>
      BY <2>2 DEF Arrive, notifyAudit, EmptyBatch
    <3>2. Answers' = Answers
      <4>1. \A x \in Updaters \ {c} : pc'[x] = pc[x] /\ status'[x] = status[x]
        BY <2>2, <1>t DEF Arrive, notifyAudit, EmptyBatch
      <4>2. \/ pc[c] # "done" /\ pc'[c] # "done"
            \/ req[c].metrics = <<>>
        BY <2>2, <1>t DEF Arrive, notifyAudit, EmptyBatch
      <4> QED BY <4>1, <4>2, <2>0, <2>2 DEF Answers, Accepted
    <3> QED BY <2>0, <3>1, <3>2, <1>0
  <2>3. CASE c \in Updaters /\ (Refuse(c) \/ GetValue(c) \/ Respond(c))
    <3>1. UNCHANGED <<gauge, counter, writer, order>>
      BY <2>3 DEF Refuse, GetValue, Respond
    <3>2. \E a \in {200, 400} : pc' = [pc EXCEPT ![c] = "done"] /\ status' = [status EXCEPT ![c] = a]
      BY <2>3 DEF Refuse, GetValue, Respond
    <3>3. pc[c] # "done" /\ pc'[c] = "done" /\ status'[c] \in {200, 400}
          /\ \A x \in Updaters \ {c} : pc'[x] = pc[x] /\ status'[x] = status[x]
      BY <2>3, <3>2, <1>t DEF Refuse, GetValue, Respond
    <3>4. ~Empty(c)
      <4>1. CASE Refuse(c)
        BY <4>1 DEF Refuse, WellFormed, Empty
      <4>2. CASE GetValue(c) \/ Respond(c)
        BY <4>2, <2>3, <1>t DEF GetValue, Respond, UpdateInv, Changed
      <4> QED BY <2>3, <4>1, <4>2
    <3>5. status'[c] = 200 => c \in Ordered
      <4>1. CASE Refuse(c)
        BY <4>1, <2>3, <1>t DEF Refuse
      <4>2. CASE GetValue(c) \/ Respond(c)
        BY <4>2, <2>3, <1>t DEF GetValue, Respond, UpdateInv, Changed
      <4> QED BY <2>3, <4>1, <4>2
    <3>6. Answers[c] = "none" /\ Answers' = [Answers EXCEPT ![c] =
            IF status'[c] = 200 THEN "ok" ELSE "failed"]
      <4>1. Answers[c] = "none"
        BY <2>3, <3>3 DEF Answers
      <4>2. Answers'[c] = IF status'[c] = 200 THEN "ok" ELSE "failed"
        BY <2>0, <2>3, <3>3, <3>4 DEF Answers, Accepted, Empty
      <4>3. \A x \in Updaters \ {c} : Answers'[x] = Answers[x]
        BY <2>0, <3>3 DEF Answers, Accepted
      <4>4. DOMAIN Answers = Updaters /\ DOMAIN Answers' = Updaters
        BY DEF Answers
      <4>5. Answers' = [x \in Updaters |-> Answers'[x]] /\ Answers = [x \in Updaters |-> Answers[x]]
        BY DEF Answers
      <4> HIDE DEF Answers
      <4> QED BY <4>1, <4>2, <4>3, <4>4, <4>5, <2>3
    <3>7. Effects' = Effects /\ Shown' = Shown /\ Counted' = Counted
      BY <2>0, <3>1, <1>s DEF Effects, Shown, Counted
    <3>8. Promise!Answer(c)
      <4>1. Ordered' = Ordered
        BY <3>1 DEF Ordered
      <4>2. /\ Answers[c] = "none"
            /\ \/ c \in Ordered /\ Answers' = [Answers EXCEPT ![c] = "ok"]
               \/ Answers' = [Answers EXCEPT ![c] = "failed"]
            /\ UNCHANGED <<Effects, Shown, Counted, Ordered>>
        BY <3>3, <3>5, <3>6, <3>7, <4>1
      <4> QED BY <4>2 DEF Promise!Answer, Effects, Shown, Counted, Answers, Ordered
    <3> QED BY <3>8, <2>3 DEF Promise!StoreNext
  <2>4. CASE c \in Updaters /\ Lock(c)
    <3>1. /\ writer = NoOne /\ writer' = c /\ order' = Append(order, c)
          /\ pc[c] = "arrived" /\ pc' = [pc EXCEPT ![c] = "writing"]
          /\ UNCHANGED <<gauge, counter, status>>
      BY <2>4 DEF Lock, Free
    <3>2. c \notin Ordered /\ Ordered' = Ordered \cup {c}
      <4>1. c \notin Ordered
        BY <2>4, <3>1, <1>t DEF UpdateInv, Untouched
      <4>2. /\ Len(order) \in Nat /\ DOMAIN order = 1..Len(order)
            /\ Len(order') = Len(order) + 1 /\ DOMAIN order' = 1..Len(order')
            /\ \A i \in 1..Len(order) : order'[i] = order[i]
            /\ order'[Len(order) + 1] = c
        BY <2>4, <3>1, <1>t, AppendProperties, LenProperties
      <4> QED BY <4>1, <4>2 DEF Ordered
    <3>3. Answers' = Answers
      BY <2>0, <2>4, <3>1, <1>t DEF Answers, Accepted
    <3>4. Effects' = Effects
      BY <2>0, <1>s DEF Effects
    <3>5. Shown' = [x \in {Gauge} |-> IF x \in Effects[c].g THEN c ELSE Shown[x]]
      BY <2>0, <2>4, <3>1, <1>s DEF Shown, Effects
    <3>6. Counted' = [Counted EXCEPT ![c] = @ + Effects[c].n]
      <4>1. counter[c] = 0
        BY <2>4, <3>1, <1>t DEF UpdateInv, Untouched
      <4>2. Increments(c) \in Nat
        BY <2>4, CountNatural DEF IInv
      <4>3. 0 + Increments(c) = Increments(c)
        BY <4>2
      <4>4. c # NoOne
        BY <2>4
      <4>5. Counted[c] = 0 /\ Effects[c].n = Increments(c)
        BY <4>1, <4>4, <2>4, <3>1 DEF Counted, Effects
      <4>6. Counted' = [Counted EXCEPT ![c] = Increments(c)]
        BY <2>0, <2>4, <3>1, <1>s DEF Counted
      <4> QED BY <4>3, <4>5, <4>6
    <3>7. Promise!TakeEffect(c)
      BY <3>2, <3>3, <3>4, <3>5, <3>6 DEF Promise!TakeEffect, Promise!Effect, Effects, Shown, Counted,
         Answers, Ordered
    <3> QED BY <3>7, <2>4 DEF Promise!StoreNext
  <2>5. CASE c \in Updaters /\ Write(c)
    <3>1. /\ writer = c /\ UNCHANGED <<writer, pc, status, order>>
          /\ gauge' = gauge \/ (Sets(c) /\ gauge' = c)
          /\ \A u \in Updaters \ {c} : counter'[u] = counter[u]
      <4>1. writer = c
        BY <2>5 DEF Write, IInv, LockInv
      <4>2. /\ UNCHANGED <<writer, pc, status, order>>
            /\ \A u \in Updaters \ {c} : counter'[u] = counter[u]
        BY <2>5, <1>t DEF Write
      <4>3. gauge' = gauge \/ (Sets(c) /\ gauge' = c)
        <5> SUFFICES ASSUME gauge' # gauge PROVE Sets(c) /\ gauge' = c
          OBVIOUS
        <5> DEFINE m == Current(c)
        <5>1. gauge' = c /\ m.ok /\ m.type = Gauge /\ pos[c] <= Len(req[c].metrics)
          BY <2>5 DEF Write
        <5>2. pos[c] \in DOMAIN req[c].metrics /\ m \in Metric
          <6>1. req[c].metrics \in Seq(Metric) /\ pos[c] \in Nat \ {0}
            BY <2>5, <1>t
          <6> QED BY <5>1, <6>1, MetricCounts DEF Current
        <5>3. m.ok = TRUE
          BY <5>1, <5>2 DEF Metric
        <5> HIDE DEF m
        <5>4. m = [type |-> Gauge, ok |-> TRUE]
          BY <5>1, <5>2, <5>3 DEF Metric
        <5> QED BY <5>1, <5>2, <5>4 DEF Sets, m, Current
      <4> QED BY <4>1, <4>2, <4>3
    <3>2. Shown' = Shown
      BY <2>0, <2>5, <3>1, <1>s DEF Shown
    <3>3. Counted' = Counted
      BY <2>0, <2>5, <3>1, <1>s DEF Counted
    <3> QED BY <2>0, <3>1, <3>2, <3>3, <1>a, NothingShown
  <2>6. CASE c \in Updaters /\ Unlock(c)
    <3>1. /\ writer = c /\ writer' = NoOne /\ pc' = [pc EXCEPT ![c] = "notify"]
          /\ pc[c] = "writing" /\ pos[c] > Len(req[c].metrics)
          /\ UNCHANGED <<gauge, counter, status, order>>
      BY <2>6 DEF Unlock, IInv, LockInv
    <3>2. Passed(c) = DOMAIN req[c].metrics
      <4>1. Len(req[c].metrics) \in Nat /\ DOMAIN req[c].metrics = 1..Len(req[c].metrics)
        BY <2>6, <1>t, MetricCounts
      <4> QED BY <4>1, <3>1, <1>t DEF Passed
    <3>3. /\ counter[c] = Cardinality({i \in Passed(c) : IsCounter(c, i)})
          /\ gauge = c <=> \E i \in Passed(c) : IsGauge(c, i)
      BY <2>6, <3>1, <1>t DEF UpdateInv
    <3>4. counter[c] = Increments(c)
      BY <3>2, <3>3 DEF Increments, IsCounter
    <3>5. Sets(c) => gauge = c
      BY <3>2, <3>3 DEF Sets, IsGauge
    <3>6. Shown' = Shown
      BY <2>0, <2>6, <3>1, <3>5, <1>s DEF Shown
    <3>7. Counted' = Counted
      BY <2>0, <2>6, <3>1, <3>4, <1>s DEF Counted
    <3>8. Answers' = Answers
      BY <2>0, <2>6, <3>1, <1>t DEF Answers, Accepted
    <3> QED BY <2>0, <3>1, <3>6, <3>7, <3>8, NothingShown
  <2>7. c \in Updaters => ~(StartRead(c) \/ RLock(c) \/ CloneGauge(c) \/ CloneCounter(c))
    <3>1. c \in Updaters => pc[c] \notin {"page", "clone", "clone rest"}
      <4> SUFFICES ASSUME c \in Updaters PROVE pc[c] \notin {"page", "clone", "clone rest"}
        OBVIOUS
      <4>1. UpdateInv(c)
        BY <1>t
      <4> QED BY <4>1 DEF UpdateInv
    <3>2. c \in Updaters => ~StartRead(c)
      <4>1. StartRead(c) => c \in Readers
        BY DEF StartRead
      <4> QED BY <4>1
    <3>3. ~(pc[c] \in {"page", "clone", "clone rest"}) =>
            ~RLock(c) /\ ~CloneGauge(c) /\ ~CloneCounter(c)
      BY DEF RLock, CloneGauge, CloneCounter
    <3> QED BY <3>1, <3>2, <3>3
  <2> QED BY <1>1, <2>1, <2>2, <2>3, <2>4, <2>5, <2>6, <2>7 DEF UpdateStep, ReadStep
<1>2. CASE UNCHANGED vars
  BY <1>2, <1>0, <1>a DEF vars
<1> QED BY <1>1, <1>2 DEF Next

\* UpdateBatch, metric by metric under the lock, and the handlers around it take
\* effect as BatchStore promises: as a whole, at once, before success is answered.
THEOREM MemoryStoreKeepsPromise == Spec => BatchesAreAtomic
<1>1. Init => Promise!StoreInit
  <2> SUFFICES ASSUME Init PROVE Promise!StoreInit
    OBVIOUS
  <2>1. /\ gauge = NoOne /\ writer = NoOne /\ order = <<>>
        /\ counter = [u \in Updaters |-> 0]
        /\ \A c \in Updaters : pc[c] = "idle"
    BY ClientNames DEF Init, NoMetrics
  <2>2. NoOne \notin Updaters
    BY ClientNames
  <2>3. {order[i] : i \in DOMAIN order} = {}
    BY <2>1
  <2>4. Counted = [u \in Updaters |-> 0] /\ Answers = [u \in Updaters |-> "none"]
    BY <2>1, <2>2 DEF Counted, Answers
  <2>5. \A x \in {Gauge} : Shown[x] \notin Updaters
    BY <2>1, <2>2 DEF Shown
  <2> QED BY <2>3, <2>4, <2>5 DEF Promise!StoreInit, Counted, Answers, Shown
<1> QED BY <1>1, HandlersInvariant, StepKeepsPromise, PTL DEF Spec, BatchesAreAtomic, Promise!StoreSpec

----------------------------------------------------------------------------
(* What readers are shown.                                                 *)

ShownTypes ==
  /\ shown \in [Clients -> [g : Updaters \cup {NoOne}, n : [Updaters -> Nat]]]
  /\ gauge \in Updaters \cup {NoOne}
  /\ known \in [Clients -> SUBSET Updaters]

\* The gauge is that of the updates in their order, the first k of them whole;
\* the last one, while it holds the lock, may not have set it yet.
StoreInv ==
  \E k \in 0..Len(order) :
    IF writer = NoOne
    THEN k = Len(order) /\ gauge = GaugeAfter(k)
    ELSE /\ Len(order) = k + 1 /\ order[k + 1] = writer
         /\ gauge # writer => gauge = GaugeAfter(k)

\* Where a client that reads is, and what holds there: a page is put together
\* under the read lock; only a counter written by JSON is read back.
ReadInv(c) ==
  /\ known[c] \subseteq Ordered
  /\ c \in Readers =>
       /\ pc[c] = "value" => req[c].route = "value"
       /\ pc[c] \in {"page", "clone", "clone rest", "answer"} => req[c].route = "page"
       /\ pc[c] \in {"clone", "clone rest"} => writer = NoOne /\ c \in readers
       /\ pc[c] = "clone rest" => shown[c].g = gauge
  /\ c \in Updaters =>
       /\ pc[c] = "value" => ReadsBack(c)
       /\ pc[c] = "answer" => ~ReadsBack(c)

ReadsInv == \A c \in Clients : ReadInv(c)

HasRead(c) ==
  IF c \in Readers THEN pc[c] \in {"answer", "done"}
                   ELSE pc[c] = "done" /\ status[c] = 200 /\ ReadsBack(c)

\* What c was shown is the store after the first k updates.
ShowsFirst(c, k) ==
  /\ \A u \in MustShow(c) : \E i \in 1..k : order[i] = u
  /\ (req[c].route = "page" \/ req[c].metrics[1].type = Gauge)
       => shown[c].g = GaugeAfter(k)
  /\ (req[c].route = "page" \/ req[c].metrics[1].type = Counter)
       => shown[c].n = CounterAfter(k)

CutInv == \A c \in Clients : HasRead(c) => \E k \in 0..Len(order) : ShowsFirst(c, k)

----------------------------------------------------------------------------
LEMMA MaxExists ==
  ASSUME NEW k \in Nat, NEW T, T \subseteq 1..k, T # {}
  PROVE  \E i \in T : \A j \in T : j <= i
<1> DEFINE R == OpToRel(<, Nat)
<1> DEFINE D == {k - i : i \in T}
<1>1. D \subseteq Nat /\ D # {}
  <2>1. PICK i : i \in T
    OBVIOUS
  <2>2. k - i \in D
    BY <2>1
  <2>3. \A j \in T : k - j \in Nat
    OBVIOUS
  <2> QED BY <2>2, <2>3
<1>2. IsWellFoundedOn(R, Nat)
  BY NatLessThanWellFounded
<1>3. \A x, y \in Nat : <<x, y>> \in R <=> x < y
  BY DEF OpToRel
<1> HIDE DEF R, D
<1>4. PICK x \in D : \A y \in D : ~ (<<y, x>> \in R)
  BY <1>1, <1>2, WFMin
<1>5. PICK i \in T : x = k - i
  BY DEF D
<1>6. ASSUME NEW j \in T PROVE j <= i
  <2>1. k - j \in D
    BY DEF D
  <2>2. ~(k - j < k - i)
    BY <2>1, <1>1, <1>3, <1>4, <1>5
  <2> QED BY <2>2
<1> QED BY <1>6

Setters(k) == {i \in 1..k : Sets(order[i])}

\* The last of the first k updates that sets the gauge.
LEMMA LastSetter ==
  ASSUME NEW k \in Nat, Setters(k) # {}
  PROVE  \E m \in Setters(k) : (\A j \in Setters(k) : j <= m) /\ GaugeAfter(k) = order[m]
<1> DEFINE m == CHOOSE i \in Setters(k) : \A j \in Setters(k) : j <= i
<1>1. \E i \in Setters(k) : \A j \in Setters(k) : j <= i
  BY MaxExists DEF Setters
<1>2. m \in Setters(k) /\ \A j \in Setters(k) : j <= m
  BY <1>1
<1>3. GaugeAfter(k) = order[m]
  BY DEF GaugeAfter, Setters
<1> QED BY <1>2, <1>3

LEMMA NoSetter ==
  ASSUME NEW k \in Nat, Setters(k) = {}
  PROVE  GaugeAfter(k) = NoOne
BY DEF GaugeAfter, Setters

\* The gauge after the first k updates, from the gauge after one less.
LEMMA GaugeStep ==
  ASSUME NEW k \in Nat \ {0}
  PROVE  GaugeAfter(k) = IF Sets(order[k]) THEN order[k] ELSE GaugeAfter(k - 1)
<1>1. k \in Nat /\ k - 1 \in Nat /\ k \in 1..k
  OBVIOUS
<1>2. CASE Sets(order[k])
  <2>1. k \in Setters(k)
    BY <1>1, <1>2 DEF Setters
  <2>2. PICK m \in Setters(k) : (\A j \in Setters(k) : j <= m) /\ GaugeAfter(k) = order[m]
    BY <2>1, <1>1, LastSetter
  <2>3. m = k
    BY <2>1, <2>2 DEF Setters
  <2> QED BY <1>2, <2>2, <2>3
<1>3. CASE ~Sets(order[k])
  <2>1. Setters(k) = Setters(k - 1)
    BY <1>1, <1>3 DEF Setters
  <2>2. CASE Setters(k) = {}
    BY <2>1, <2>2, <1>1, <1>3, NoSetter
  <2>3. CASE Setters(k) # {}
    <3>1. PICK m \in Setters(k) : (\A j \in Setters(k) : j <= m) /\ GaugeAfter(k) = order[m]
      BY <2>3, <1>1, LastSetter
    <3>2. PICK n \in Setters(k) : (\A j \in Setters(k) : j <= n) /\ GaugeAfter(k - 1) = order[n]
      BY <2>1, <2>3, <1>1, LastSetter
    <3>3. m = n
      BY <3>1, <3>2 DEF Setters
    <3> QED BY <3>1, <3>2, <3>3, <1>3
  <2> QED BY <2>2, <2>3
<1> QED BY <1>2, <1>3

\* The order only grows, and what the store was after its beginnings remains.
Grows == req' = req /\ (order' = order \/ \E u \in Updaters : order' = Append(order, u))

LEMMA BeginningsStay ==
  ASSUME Types, Grows
  PROVE  /\ Len(order) \in Nat /\ Len(order') \in Nat /\ Len(order) <= Len(order')
         /\ Ordered \subseteq Ordered'
         /\ \A i \in 1..Len(order) : order'[i] = order[i]
         /\ \A k \in 0..Len(order) : GaugeAfter(k)' = GaugeAfter(k) /\ CounterAfter(k)' = CounterAfter(k)
<1>1. /\ Len(order) \in Nat /\ DOMAIN order = 1..Len(order)
      /\ Len(order') \in Nat /\ DOMAIN order' = 1..Len(order') /\ Len(order) <= Len(order')
      /\ \A i \in 1..Len(order) : order'[i] = order[i]
  <2>1. order \in Seq(Updaters)
    BY DEF Types
  <2>2. Len(order) \in Nat /\ DOMAIN order = 1..Len(order)
    BY <2>1, LenProperties
  <2>3. CASE order' = order
    BY <2>2, <2>3
  <2>4. ASSUME NEW u \in Updaters, order' = Append(order, u)
        PROVE  /\ Len(order') \in Nat /\ DOMAIN order' = 1..Len(order') /\ Len(order) <= Len(order')
               /\ \A i \in 1..Len(order) : order'[i] = order[i]
    <3>1. /\ order' \in Seq(Updaters) /\ Len(order') = Len(order) + 1
          /\ \A i \in 1..Len(order) : order'[i] = order[i]
      BY <2>1, <2>4, AppendProperties
    <3>2. DOMAIN order' = 1..Len(order')
      BY <3>1, LenProperties
    <3> QED BY <2>2, <3>1, <3>2
  <2> QED BY <2>2, <2>3, <2>4 DEF Grows
<1>2. Ordered \subseteq Ordered'
  <2> SUFFICES ASSUME NEW i \in DOMAIN order PROVE order[i] \in Ordered'
    BY DEF Ordered
  <2>1. i \in DOMAIN order' /\ order'[i] = order[i]
    BY <1>1
  <2> QED BY <2>1 DEF Ordered
<1>3. \A u : (Sets(u)' <=> Sets(u)) /\ Increments(u)' = Increments(u)
  BY DEF Grows, Sets, Increments
<1>4. ASSUME NEW k \in 0..Len(order)
      PROVE  GaugeAfter(k)' = GaugeAfter(k) /\ CounterAfter(k)' = CounterAfter(k)
  <2>0. k \in Nat /\ \A i \in 1..k : order'[i] = order[i]
    BY <1>1
  <2>1. Setters(k)' = Setters(k)
    BY <2>0, <1>3 DEF Setters
  <2>2. GaugeAfter(k)' = GaugeAfter(k)
    <3>1. CASE Setters(k) = {}
      <4>1. GaugeAfter(k) = NoOne
        BY <3>1, <2>0, NoSetter
      <4>2. {i \in 1..k : Sets(order[i])'} = {}
        BY <3>1, <2>1 DEF Setters
      <4>3. GaugeAfter(k)' = NoOne
        BY <4>2 DEF GaugeAfter
      <4> QED BY <4>1, <4>3
    <3>2. CASE Setters(k) # {}
      <4> DEFINE m == CHOOSE i \in Setters(k) : \A j \in Setters(k) : j <= i
      <4>1. GaugeAfter(k) = order[m] /\ m \in 1..k
        <5>1. \E i \in Setters(k) : \A j \in Setters(k) : j <= i
          BY <3>2, <2>0, MaxExists DEF Setters
        <5>2. m \in Setters(k)
          BY <5>1
        <5> QED BY <3>2, <5>2 DEF GaugeAfter, Setters
      <4>2. GaugeAfter(k)' = order'[m]
        <5>1. GaugeAfter(k)' = IF Setters(k)' = {} THEN NoOne
                               ELSE order'[CHOOSE i \in Setters(k)' : \A j \in Setters(k)' : j <= i]
          BY DEF GaugeAfter, Setters
        <5> QED BY <5>1, <2>1, <3>2
      <4> QED BY <4>1, <4>2, <2>0
    <3> QED BY <3>1, <3>2
  <2>3. CounterAfter(k)' = CounterAfter(k)
    <3>1. \A u : (\E i \in 1..k : order'[i] = u) <=> (\E i \in 1..k : order[i] = u)
      BY <2>0
    <3> QED BY <3>1, <1>3 DEF CounterAfter
  <2> QED BY <2>2, <2>3
<1> QED BY <1>1, <1>2, <1>4

Step(c) == Arrive(c) \/ UpdateStep(c) \/ ReadStep(c) \/ Respond(c)

LEMMA StepsGrow ==
  ASSUME Types, LockInv, NEW c \in Clients, Step(c)
  PROVE  Grows
<1>1. req' = req
  BY DEF Step, UpdateStep, ReadStep, Arrive, Refuse, EmptyBatch, Respond, Lock, Write, Unlock,
     notifyAudit, StartRead, GetValue, RLock, CloneGauge, CloneCounter
<1>2. order' = order \/ (c \in Updaters /\ order' = Append(order, c))
  BY DEF Step, UpdateStep, ReadStep, Arrive, Refuse, EmptyBatch, Respond, Lock, Write, Unlock,
     notifyAudit, StartRead, GetValue, RLock, CloneGauge, CloneCounter, Updating
<1> QED BY <1>1, <1>2 DEF Grows

\* What a step of one client leaves to the others.
LEMMA StepsLeaveOthers ==
  ASSUME Types, ShownTypes, NEW c \in Clients, Step(c), NEW x \in Clients, x # c
  PROVE  pc'[x] = pc[x] /\ status'[x] = status[x] /\ shown'[x] = shown[x] /\ known'[x] = known[x]
<1> USE DEF storeVars, muVars, Goto, Answer, Updating
<1>t. /\ pc \in [Clients -> Places] /\ status \in [Clients -> {0, 200, 400, 404}]
      /\ shown \in [Clients -> [g : Updaters \cup {NoOne}, n : [Updaters -> Nat]]]
      /\ known \in [Clients -> SUBSET Updaters]
  BY DEF Types, ShownTypes
<1>1. CASE Arrive(c) \/ Refuse(c) \/ EmptyBatch(c) \/ Respond(c) \/ Lock(c)
  BY <1>1, <1>t DEF Arrive, Refuse, EmptyBatch, Respond, Lock
<1>2. CASE Write(c) \/ Unlock(c) \/ notifyAudit(c) \/ StartRead(c)
  BY <1>2, <1>t DEF Write, Unlock, notifyAudit, StartRead
<1>3. CASE GetValue(c)
  <2>1. /\ \E s : shown' = [shown EXCEPT ![c] = s]
        /\ \E a : status' = [status EXCEPT ![c] = a]
        /\ pc' = [pc EXCEPT ![c] = "done"] /\ known' = known
    BY <1>3 DEF GetValue
  <2> QED BY <2>1, <1>t
<1>4. CASE RLock(c) \/ CloneGauge(c) \/ CloneCounter(c)
  <2>1. /\ \E p : pc' = [pc EXCEPT ![c] = p]
        /\ shown' = shown \/ \E s : shown' = [shown EXCEPT ![c] = s]
        /\ status' = status /\ known' = known
    BY <1>4 DEF RLock, CloneGauge, CloneCounter
  <2> QED BY <2>1, <1>t
<1> QED BY <1>1, <1>2, <1>3, <1>4 DEF Step, UpdateStep, ReadStep

LEMMA ShownTypesInductive ==
  ASSUME Types, LockInv, ShownTypes, [Next]_vars
  PROVE  ShownTypes'
<1> USE ClientNames DEF storeVars, muVars, Goto, Answer, Updating
<1>t. /\ counter \in [Updaters -> Nat]
      /\ shown \in [Clients -> [g : Updaters \cup {NoOne}, n : [Updaters -> Nat]]]
      /\ gauge \in Updaters \cup {NoOne}
      /\ known \in [Clients -> SUBSET Updaters]
  BY DEF Types, ShownTypes
<1>1. CASE UNCHANGED <<shown, gauge, known>>
  BY <1>1 DEF ShownTypes
<1>2. ASSUME NEW c \in Clients, Step(c)
      PROVE  ShownTypes'
  <2>1. CASE Arrive(c)
    <3>1. Accepted \subseteq Updaters
      BY DEF Accepted
    <3>2. known' = [known EXCEPT ![c] = Accepted] /\ UNCHANGED <<shown, gauge>>
      BY <2>1 DEF Arrive
    <3> QED BY <3>1, <3>2, <1>t DEF ShownTypes
  <2>2. CASE Write(c)
    <3>1. /\ gauge' = gauge \/ gauge' = c
          /\ UNCHANGED <<shown, known>>
      BY <2>2 DEF Write
    <3>2. c \in Updaters
      BY <2>2 DEF Write, LockInv, Types
    <3> QED BY <3>1, <3>2, <1>t DEF ShownTypes
  <2>3. CASE GetValue(c) \/ CloneGauge(c) \/ CloneCounter(c)
    <3>1. /\ \/ shown' = [shown EXCEPT ![c] = [@ EXCEPT !.g = gauge]]
             \/ shown' = [shown EXCEPT ![c] = [@ EXCEPT !.n = counter]]
          /\ UNCHANGED <<gauge, known>>
      BY <2>3 DEF GetValue, CloneGauge, CloneCounter
    <3>2. shown' \in [Clients -> [g : Updaters \cup {NoOne}, n : [Updaters -> Nat]]]
      <4> DEFINE S == [g : Updaters \cup {NoOne}, n : [Updaters -> Nat]]
      <4>1. shown[c] \in S
        BY <1>t
      <4>2. [shown[c] EXCEPT !.g = gauge] \in S /\ [shown[c] EXCEPT !.n = counter] \in S
        BY <4>1, <1>t
      <4>3. \A s \in S : [shown EXCEPT ![c] = s] \in [Clients -> S]
        BY <1>t
      <4> HIDE DEF S
      <4>4. \/ shown' = [shown EXCEPT ![c] = [shown[c] EXCEPT !.g = gauge]]
            \/ shown' = [shown EXCEPT ![c] = [shown[c] EXCEPT !.n = counter]]
        BY <3>1
      <4>5. shown' \in [Clients -> S]
        BY <4>2, <4>3, <4>4
      <4> QED BY <4>5 DEF S
    <3> QED BY <3>1, <3>2, <1>t DEF ShownTypes
  <2>4. CASE ~(Arrive(c) \/ Write(c) \/ GetValue(c) \/ CloneGauge(c) \/ CloneCounter(c))
    <3>1. UNCHANGED <<shown, gauge, known>>
      BY <2>4, <1>2 DEF Step, UpdateStep, ReadStep, Refuse, EmptyBatch, Respond, Lock, Unlock,
         notifyAudit, StartRead, RLock
    <3> QED BY <3>1, <1>1
  <2> QED BY <2>1, <2>2, <2>3, <2>4
<1>3. CASE UNCHANGED vars
  BY <1>1, <1>3 DEF vars
<1> QED BY <1>2, <1>3 DEF Next, Step

----------------------------------------------------------------------------
\* With nobody writing, the counter holds the updates in the order, each whole.
LEMMA CounterAtRest ==
  ASSUME Types, LockInv, ChangeInv, writer = NoOne
  PROVE  counter = CounterAfter(Len(order))
<1>1. /\ counter \in [Updaters -> Nat] /\ Len(order) \in Nat /\ DOMAIN order = 1..Len(order)
  BY LenProperties DEF Types
<1>2. ASSUME NEW u \in Updaters
      PROVE  counter[u] = IF \E i \in 1..Len(order) : order[i] = u THEN Increments(u) ELSE 0
  <2>1. UpdateInv(u) /\ pc[u] # "writing"
    BY ClientNames DEF ChangeInv, LockInv
  <2>2. (\E i \in 1..Len(order) : order[i] = u) <=> u \in Ordered
    BY <1>1 DEF Ordered
  <2>3. Untouched(u) \/ Changed(u)
    BY <2>1 DEF UpdateInv, Untouched, Changed
  <2>4. Untouched(u) => counter[u] = 0 /\ u \notin Ordered
    BY <2>1 DEF UpdateInv
  <2>5. Changed(u) => counter[u] = Increments(u) /\ u \in Ordered
    BY <2>1 DEF UpdateInv
  <2> QED BY <2>2, <2>3, <2>4, <2>5
<1> QED BY <1>1, <1>2 DEF CounterAfter

\* The gauge of the writer, when it is done, is set if it sets any.
LEMMA WholeGauge ==
  ASSUME Types, ChangeInv, NEW c \in Updaters, pc[c] = "writing", pos[c] > Len(req[c].metrics)
  PROVE  gauge = c <=> Sets(c)
<1>1. UpdateInv(c) /\ req[c].metrics \in Seq(Metric) /\ pos[c] \in Nat
  BY ClientNames DEF ChangeInv, Types
<1>2. Passed(c) = DOMAIN req[c].metrics
  <2>1. Len(req[c].metrics) \in Nat /\ DOMAIN req[c].metrics = 1..Len(req[c].metrics)
    BY <1>1, MetricCounts
  <2> QED BY <2>1, <1>1 DEF Passed
<1>3. gauge = c <=> \E i \in Passed(c) : IsGauge(c, i)
  BY <1>1 DEF UpdateInv
<1> QED BY <1>2, <1>3 DEF Sets, IsGauge

LEMMA StoreInductive ==
  ASSUME Types, LockInv, ChangeInv, StoreInv, [Next]_vars
  PROVE  StoreInv'
<1> USE ClientNames DEF storeVars, muVars, Goto, Answer, Updating
<1>t. /\ order \in Seq(Updaters) /\ writer \in Updaters \cup {NoOne}
      /\ Len(order) \in Nat /\ DOMAIN order = 1..Len(order)
  BY LenProperties DEF Types
<1>k. PICK k \in 0..Len(order) :
        IF writer = NoOne
        THEN k = Len(order) /\ gauge = GaugeAfter(k)
        ELSE /\ Len(order) = k + 1 /\ order[k + 1] = writer
             /\ gauge # writer => gauge = GaugeAfter(k)
  BY DEF StoreInv
\* Whoever leaves the gauge, the lock and the order alone.
<1>1. ASSUME UNCHANGED <<req, gauge, writer, order>>
      PROVE  StoreInv'
  <2>1. GaugeAfter(k)' = GaugeAfter(k)
    BY <1>1, BeginningsStay DEF Grows
  <2> QED BY <2>1, <1>1, <1>k DEF StoreInv
<1>2. ASSUME NEW c \in Clients, Step(c)
      PROVE  StoreInv'
  <2>0. /\ Grows /\ GaugeAfter(k)' = GaugeAfter(k)
    BY <1>2, StepsGrow, BeginningsStay
  <2>1. CASE Lock(c)
    <3>1. /\ writer = NoOne /\ writer' = c /\ gauge' = gauge /\ order' = Append(order, c)
          /\ c \in Updaters
      BY <2>1 DEF Lock, Free
    <3>2. /\ Len(order') = Len(order) + 1 /\ order'[Len(order) + 1] = c
      BY <3>1, <1>t, AppendProperties
    <3>3. k = Len(order) /\ gauge' = GaugeAfter(k)'
      BY <3>1, <2>0, <1>k
    <3>4. k \in 0..Len(order') /\ Len(order') = k + 1 /\ order'[k + 1] = writer' /\ writer' # NoOne
      BY <3>1, <3>2, <3>3, <1>t
    <3> QED BY <3>3, <3>4 DEF StoreInv
  <2>2. CASE Write(c)
    <3>1. /\ writer = c /\ writer # NoOne /\ UNCHANGED <<writer, order>>
          /\ gauge' = gauge \/ gauge' = writer'
      BY <2>2 DEF Write, LockInv
    <3> QED BY <3>1, <2>0, <1>k DEF StoreInv
  <2>3. CASE Unlock(c)
    <3>1. /\ writer = c /\ c \in Updaters /\ c # NoOne /\ writer' = NoOne
          /\ UNCHANGED <<gauge, order>>
          /\ pc[c] = "writing" /\ pos[c] > Len(req[c].metrics)
      BY <2>3, <1>t DEF Unlock, LockInv
    <3>2. gauge = c <=> Sets(c)
      BY <3>1, WholeGauge
    <3>3. Len(order) = k + 1 /\ order[k + 1] = c /\ (gauge # c => gauge = GaugeAfter(k))
      BY <3>1, <1>k
    <3>4. PICK n \in Nat \ {0} : n = k + 1
      BY <1>t
    <3>5. GaugeAfter(n) = IF Sets(order[n]) THEN order[n] ELSE GaugeAfter(k)
      <4>1. k = n - 1
        BY <3>4, <1>t
      <4> QED BY <4>1, GaugeStep
    <3>6. gauge = GaugeAfter(n)
      BY <3>2, <3>3, <3>4, <3>5
    <3>7. GaugeAfter(n)' = GaugeAfter(n)
      BY <2>0, <3>3, <3>4, <1>t, BeginningsStay
    <3>8. n \in 0..Len(order') /\ n = Len(order') /\ gauge' = GaugeAfter(n)'
      BY <3>1, <3>3, <3>4, <3>6, <3>7, <1>t
    <3> QED BY <3>1, <3>8 DEF StoreInv
  <2>4. CASE ~(Lock(c) \/ Write(c) \/ Unlock(c))
    <3>1. UNCHANGED <<req, gauge, writer, order>>
      BY <2>4, <1>2 DEF Step, UpdateStep, ReadStep, Arrive, Refuse, EmptyBatch, Respond,
         notifyAudit, StartRead, RLock, GetValue, CloneGauge, CloneCounter
    <3> QED BY <3>1, <1>1
  <2> QED BY <2>1, <2>2, <2>3, <2>4
<1>3. CASE UNCHANGED vars
  BY <1>1, <1>3 DEF vars
<1> QED BY <1>2, <1>3 DEF Next, Step
----------------------------------------------------------------------------
\* A reader that holds the lock keeps writers out, whatever the others do.
LEMMA ReadersKeepWritersOut ==
  ASSUME Types, LockInv, NEW c \in Clients, Step(c), NEW x \in readers, x # c, writer = NoOne
  PROVE  writer' = NoOne /\ x \in readers' /\ gauge' = gauge
<1> USE ClientNames DEF storeVars, muVars
<1>1. ~Lock(c) /\ ~Write(c)
  BY DEF Lock, Free, Write, LockInv
<1>2. CASE Arrive(c) \/ Refuse(c) \/ EmptyBatch(c) \/ Unlock(c) \/ notifyAudit(c) \/ Respond(c)
  BY <1>2 DEF Arrive, Refuse, EmptyBatch, Unlock, notifyAudit, Respond
<1>3. CASE StartRead(c) \/ GetValue(c) \/ RLock(c) \/ CloneGauge(c) \/ CloneCounter(c)
  BY <1>3 DEF StartRead, GetValue, RLock, CloneGauge, CloneCounter
<1> QED BY <1>1, <1>2, <1>3 DEF Step, UpdateStep, ReadStep

LEMMA AcceptedAreOrdered ==
  ASSUME Types, ChangeInv
  PROVE  Accepted \subseteq Ordered
<1> SUFFICES ASSUME NEW u \in Accepted PROVE u \in Ordered
  OBVIOUS
<1>1. u \in Updaters /\ status[u] = 200 /\ ~Empty(u) /\ UpdateInv(u)
  BY DEF Accepted, Empty, ChangeInv
<1>2. Changed(u)
  BY <1>1 DEF UpdateInv, Changed
<1> QED BY <1>1, <1>2 DEF UpdateInv

\* What a client's own step leaves it with.
LEMMA OwnRead ==
  ASSUME Types, LockInv, ChangeInv, ReaderInv, ShownTypes, NEW c \in Clients, ReadInv(c), Step(c)
  PROVE  ReadInv(c)'
<1> USE ClientNames DEF storeVars, muVars, Goto, Answer, Updating
<1>t. /\ pc \in [Clients -> Places] /\ status \in [Clients -> {0, 200, 400, 404}]
      /\ shown \in [Clients -> [g : Updaters \cup {NoOne}, n : [Updaters -> Nat]]]
      /\ known \in [Clients -> SUBSET Updaters]
      /\ \A x \in Readers : req[x].route \in {"value", "page"}
  BY DEF Types, ShownTypes
<1>0. /\ req' = req /\ Ordered \subseteq Ordered'
      /\ ReadsBack(c)' <=> ReadsBack(c)
  <2>1. Grows
    BY StepsGrow
  <2> QED BY <2>1, BeginningsStay DEF Grows, ReadsBack
<1>1. known'[c] \subseteq Ordered'
  <2>1. CASE Arrive(c)
    BY <2>1, <1>0, <1>t, AcceptedAreOrdered DEF Arrive
  <2>2. CASE ~Arrive(c)
    <3>1. known' = known
      BY <2>2 DEF Step, UpdateStep, ReadStep, Refuse, EmptyBatch, Respond, Lock, Write, Unlock,
         notifyAudit, StartRead, GetValue, RLock, CloneGauge, CloneCounter
    <3> QED BY <3>1, <1>0 DEF ReadInv
  <2> QED BY <2>1, <2>2
<1>2. ASSUME c \in Updaters
      PROVE  /\ pc'[c] = "value" => ReadsBack(c)'
             /\ pc'[c] = "answer" => ~ReadsBack(c)'
  <2>1. pc[c] \notin {"page", "clone", "clone rest"}
    <3>1. UpdateInv(c)
      BY <1>2 DEF ChangeInv
    <3> QED BY <3>1 DEF UpdateInv
  <2>2. CASE notifyAudit(c)
    <3>1. pc' = [pc EXCEPT ![c] = IF ReadsBack(c) THEN "value" ELSE "answer"]
      BY <2>2 DEF notifyAudit
    <3> QED BY <3>1, <1>0, <1>t
  <2>3. CASE Arrive(c) \/ Refuse(c) \/ EmptyBatch(c) \/ Lock(c) \/ Unlock(c) \/ Respond(c)
    <3>1. pc'[c] \in {"arrived", "done", "writing", "notify"}
      BY <2>3, <1>t DEF Arrive, Refuse, EmptyBatch, Lock, Unlock, Respond
    <3> QED BY <3>1
  <2>4. CASE Write(c)
    BY <2>4 DEF Write
  <2>5. CASE GetValue(c)
    <3>1. pc' = [pc EXCEPT ![c] = "done"]
      BY <2>5 DEF GetValue
    <3> QED BY <3>1, <1>t
  <2>6. ~(StartRead(c) \/ RLock(c) \/ CloneGauge(c) \/ CloneCounter(c))
    BY <1>2, <2>1 DEF StartRead, RLock, CloneGauge, CloneCounter
  <2> QED BY <2>2, <2>3, <2>4, <2>5, <2>6 DEF Step, UpdateStep, ReadStep
<1>3. ASSUME c \in Readers
      PROVE  /\ pc'[c] = "value" => req'[c].route = "value"
             /\ pc'[c] \in {"page", "clone", "clone rest", "answer"} => req'[c].route = "page"
             /\ pc'[c] \in {"clone", "clone rest"} => writer' = NoOne /\ c \in readers'
             /\ pc'[c] = "clone rest" => shown'[c].g = gauge'
  <2>1. pc[c] \notin {"writing", "notify"} /\ c \notin Updaters
    BY <1>3 DEF ReaderInv
  <2>2. CASE Arrive(c) \/ Respond(c)
    <3>1. pc'[c] \in {"arrived", "done"}
      BY <2>2, <1>t DEF Arrive, Respond
    <3> QED BY <3>1
  <2>3. CASE StartRead(c)
    <3>1. pc'[c] = req[c].route /\ req[c].route \in {"value", "page"}
      BY <2>3, <1>3, <1>t DEF StartRead
    <3> QED BY <3>1, <1>0
  <2>4. CASE GetValue(c)
    <3>1. pc' = [pc EXCEPT ![c] = "done"]
      BY <2>4 DEF GetValue
    <3> QED BY <3>1, <1>t
  <2>5. CASE RLock(c)
    <3>1. pc[c] = "page" /\ pc'[c] = "clone" /\ writer' = NoOne /\ c \in readers'
      BY <2>5, <1>t DEF RLock
    <3>2. req[c].route = "page"
      BY <1>3, <3>1 DEF ReadInv
    <3> QED BY <3>1, <3>2, <1>0
  <2>6. CASE CloneGauge(c)
    <3>1. /\ pc[c] = "clone" /\ pc'[c] = "clone rest" /\ shown' = [shown EXCEPT ![c].g = gauge]
          /\ UNCHANGED <<gauge, writer, readers>>
      BY <2>6, <1>t DEF CloneGauge
    <3>2. req[c].route = "page" /\ writer = NoOne /\ c \in readers
      BY <1>3, <3>1 DEF ReadInv
    <3>3. shown'[c].g = gauge'
      <4>1. shown[c] \in [g : Updaters \cup {NoOne}, n : [Updaters -> Nat]]
        BY <1>t
      <4>2. shown'[c] = [shown[c] EXCEPT !.g = gauge]
        BY <3>1, <1>t
      <4>3. [shown[c] EXCEPT !.g = gauge].g = gauge
        BY <4>1
      <4> QED BY <3>1, <4>2, <4>3
    <3> QED BY <3>1, <3>2, <3>3, <1>0
  <2>7. CASE CloneCounter(c)
    <3>1. pc[c] = "clone rest" /\ pc'[c] = "answer"
      BY <2>7, <1>t DEF CloneCounter
    <3>2. req[c].route = "page"
      BY <1>3, <3>1 DEF ReadInv
    <3> QED BY <3>1, <3>2, <1>0
  <2>8. ~UpdateStep(c)
    BY <2>1 DEF UpdateStep, Refuse, EmptyBatch, Lock, Write, Unlock, notifyAudit
  <2> QED BY <2>2, <2>3, <2>4, <2>5, <2>6, <2>7, <2>8 DEF Step, ReadStep
<1> QED BY <1>1, <1>2, <1>3 DEF ReadInv

LEMMA ReadsInductive ==
  ASSUME Types, LockInv, ChangeInv, ReaderInv, ShownTypes, ReadsInv, [Next]_vars
  PROVE  ReadsInv'
<1>1. ASSUME NEW c \in Clients, Step(c), NEW x \in Clients
      PROVE  ReadInv(x)'
  <2>0. ReadInv(x)
    BY DEF ReadsInv
  <2>1. CASE x = c
    BY <2>0, <2>1, <1>1, OwnRead
  <2>2. CASE x # c
    <3>1. Grows /\ Ordered \subseteq Ordered'
      BY <1>1, StepsGrow, BeginningsStay
    <3>2. pc'[x] = pc[x] /\ shown'[x] = shown[x] /\ known'[x] = known[x] /\ req' = req
      BY <1>1, <2>2, <3>1, StepsLeaveOthers DEF Grows
    <3>3. ReadsBack(x)' <=> ReadsBack(x)
      BY <3>2 DEF ReadsBack
    <3>4. x \in readers /\ writer = NoOne => writer' = NoOne /\ x \in readers' /\ gauge' = gauge
      BY <1>1, <2>2, ReadersKeepWritersOut
    <3> QED BY <2>0, <3>1, <3>2, <3>3, <3>4 DEF ReadInv
  <2> QED BY <2>1, <2>2
<1>2. CASE UNCHANGED vars
  BY <1>2 DEF vars, storeVars, muVars, ReadsInv, ReadInv, ReadsBack, Ordered
<1> QED BY <1>1, <1>2 DEF Next, Step, ReadsInv

----------------------------------------------------------------------------
\* What a read shows, taken while nobody writes, is the store after all the
\* updates so far, those the client must find among them.
LEMMA OwnCut ==
  ASSUME Types, LockInv, ChangeInv, ReaderInv, ShownTypes, StoreInv, NEW c \in Clients,
         ReadInv(c), Step(c), HasRead(c) => \E k \in 0..Len(order) : ShowsFirst(c, k),
         HasRead(c)'
  PROVE  \E k \in 0..Len(order') : ShowsFirst(c, k)'
<1> USE ClientNames DEF storeVars, muVars, Goto, Answer, Updating
<1>t. /\ pc \in [Clients -> Places] /\ status \in [Clients -> {0, 200, 400, 404}]
      /\ shown \in [Clients -> [g : Updaters \cup {NoOne}, n : [Updaters -> Nat]]]
      /\ known \in [Clients -> SUBSET Updaters]
      /\ order \in Seq(Updaters) /\ Len(order) \in Nat /\ DOMAIN order = 1..Len(order)
      /\ \A x \in Readers : req[x].route \in {"value", "page"}
  BY LenProperties DEF Types, ShownTypes
<1>0. req' = req /\ (ReadsBack(c)' <=> ReadsBack(c))
  BY StepsGrow DEF Grows, ReadsBack
<1>k. PICK k \in Nat : k = Len(order)
  BY <1>t
\* A read at rest.
<1>r. ASSUME writer = NoOne, known' = known, order' = order, c \in Updaters => c \in Ordered,
             (req[c].route = "page" \/ req[c].metrics[1].type = Gauge) => shown'[c].g = gauge,
             (req[c].route = "page" \/ req[c].metrics[1].type = Counter) => shown'[c].n = counter
      PROVE  \E j \in 0..Len(order') : ShowsFirst(c, j)'
  <2>1. gauge = GaugeAfter(k)
    BY <1>r, <1>k DEF StoreInv
  <2>2. counter = CounterAfter(k)
    BY <1>r, <1>k, CounterAtRest
  <2>3. GaugeAfter(k)' = GaugeAfter(k) /\ CounterAfter(k)' = CounterAfter(k)
    BY <1>r, <1>0, <1>k, <1>t, BeginningsStay DEF Grows
  <2>4. \A u \in MustShow(c)' : \E i \in 1..k : order'[i] = u
    <3>1. MustShow(c)' \subseteq Ordered
      BY <1>r DEF MustShow, ReadInv
    <3> QED BY <3>1, <1>r, <1>k, <1>t DEF Ordered
  <2>5. ShowsFirst(c, k)'
    BY <2>1, <2>2, <2>3, <2>4, <1>r, <1>0 DEF ShowsFirst
  <2> QED BY <2>5, <1>r, <1>k
<1>1. CASE GetValue(c)
  <2> DEFINE type == req[c].metrics[1].type
  <2>1. /\ pc[c] = "value" /\ writer = NoOne /\ known' = known /\ order' = order
        /\ shown' = [shown EXCEPT ![c] = IF type = Gauge THEN [shown[c] EXCEPT !.g = gauge]
                                                        ELSE [shown[c] EXCEPT !.n = counter]]
    BY <1>1 DEF GetValue
  <2>2. req[c].route # "page"
    <3>1. c \in Readers => req[c].route = "value"
      BY <2>1 DEF ReadInv
    <3>2. c \in Updaters => req[c].route = "json"
      BY <2>1 DEF ReadInv, ReadsBack
    <3> QED BY <3>1, <3>2
  <2>3. c \in Updaters => c \in Ordered
    <3> SUFFICES ASSUME c \in Updaters PROVE c \in Ordered
      OBVIOUS
    <3>1. UpdateInv(c) /\ Changed(c)
      BY <2>1 DEF ChangeInv, Changed
    <3> QED BY <3>1 DEF UpdateInv
  <2>4. /\ type = Gauge => shown'[c].g = gauge
        /\ type = Counter => shown'[c].n = counter
    <3>1. shown[c] \in [g : Updaters \cup {NoOne}, n : [Updaters -> Nat]]
      BY <1>t
    <3>2. [shown[c] EXCEPT !.g = gauge].g = gauge /\ [shown[c] EXCEPT !.n = counter].n = counter
      BY <3>1
    <3>3. shown'[c] = IF type = Gauge THEN [shown[c] EXCEPT !.g = gauge]
                                      ELSE [shown[c] EXCEPT !.n = counter]
      BY <2>1, <1>t
    <3> QED BY <3>2, <3>3 DEF Gauge, Counter
  <2> QED BY <2>1, <2>2, <2>3, <2>4, <1>r
<1>2. CASE CloneCounter(c)
  <2>1. /\ pc[c] = "clone rest" /\ known' = known /\ order' = order
        /\ shown' = [shown EXCEPT ![c].n = counter]
    BY <1>2 DEF CloneCounter
  <2>2. c \in Readers
    <3>1. c \in Updaters => pc[c] # "clone rest"
      BY DEF ChangeInv, UpdateInv
    <3> QED BY <3>1, <2>1
  <2>3. writer = NoOne /\ shown[c].g = gauge
    BY <2>1, <2>2 DEF ReadInv
  <2>4. shown'[c].g = gauge /\ shown'[c].n = counter
    <3>1. shown[c] \in [g : Updaters \cup {NoOne}, n : [Updaters -> Nat]]
      BY <1>t
    <3>2. /\ [shown[c] EXCEPT !.n = counter].g = shown[c].g
          /\ [shown[c] EXCEPT !.n = counter].n = counter
      BY <3>1
    <3>3. shown'[c] = [shown[c] EXCEPT !.n = counter]
      BY <2>1, <1>t
    <3> QED BY <3>2, <3>3, <2>3
  <2> QED BY <2>1, <2>2, <2>3, <2>4, <1>r
<1>3. CASE Respond(c)
  <2>1. /\ pc[c] = "answer" /\ known' = known /\ order' = order /\ shown' = shown
    BY <1>3 DEF Respond
  <2>2. c \in Readers
    <3>1. c \in Updaters => ~ReadsBack(c)'
      BY <2>1, <1>0 DEF ReadInv
    <3> QED BY <3>1 DEF HasRead
  <2>3. PICK j \in 0..Len(order) : ShowsFirst(c, j)
    BY <2>1, <2>2 DEF HasRead
  <2>4. GaugeAfter(j)' = GaugeAfter(j) /\ CounterAfter(j)' = CounterAfter(j)
    BY <2>1, <1>0, BeginningsStay DEF Grows
  <2>5. ShowsFirst(c, j)'
    BY <2>1, <2>3, <2>4, <1>0 DEF ShowsFirst, MustShow
  <2> QED BY <2>1, <2>5
\* No other step answers a reader or a client that is to read back.
<1>4. CASE c \in Updaters /\ ~(GetValue(c) \/ CloneCounter(c) \/ Respond(c))
  <2>1. CASE Refuse(c)
    <3>1. status'[c] = 400
      BY <2>1, <1>t DEF Refuse
    <3> QED BY <3>1, <1>4 DEF HasRead
  <2>2. CASE EmptyBatch(c)
    <3>1. req[c] \in Updates /\ req[c].metrics = <<>>
      BY <1>4, <2>2 DEF EmptyBatch, Types
    <3>2. \A m \in Metric : <<m>> # <<>>
      OBVIOUS
    <3>3. req[c].route # "json"
      BY <3>1, <3>2 DEF Updates, Singles
    <3> QED BY <3>3, <1>4, <1>0 DEF HasRead, ReadsBack
  <2>3. CASE Arrive(c) \/ Lock(c) \/ Unlock(c) \/ Write(c) \/ notifyAudit(c)
    <3>1. pc'[c] # "done"
      BY <2>3, <1>t DEF Arrive, Lock, Unlock, Write, notifyAudit
    <3> QED BY <3>1, <1>4 DEF HasRead
  <2>4. ~(StartRead(c) \/ RLock(c) \/ CloneGauge(c))
    <3>1. UpdateInv(c)
      BY <1>4 DEF ChangeInv
    <3> QED BY <3>1, <1>4 DEF StartRead, RLock, CloneGauge, UpdateInv
  <2> QED BY <1>4, <2>1, <2>2, <2>3, <2>4 DEF Step, UpdateStep, ReadStep
<1>5. CASE c \in Readers /\ ~(GetValue(c) \/ CloneCounter(c) \/ Respond(c))
  <2>1. ~UpdateStep(c)
    BY <1>5 DEF ReaderInv, UpdateStep, Refuse, EmptyBatch, Lock, Write, Unlock, notifyAudit
  <2>2. pc'[c] \in {"arrived", "value", "page", "clone", "clone rest"}
    <3>1. CASE Arrive(c)
      BY <3>1, <1>t DEF Arrive
    <3>0. CASE StartRead(c)
      <4>1. pc'[c] = req[c].route
        BY <3>0, <1>t DEF StartRead
      <4>2. req[c].route \in {"value", "page"}
        BY <1>5, <1>t
      <4> QED BY <4>1, <4>2
    <3>2. CASE RLock(c) \/ CloneGauge(c)
      <4>1. pc' = [pc EXCEPT ![c] = "clone"] \/ pc' = [pc EXCEPT ![c] = "clone rest"]
        BY <3>2 DEF RLock, CloneGauge
      <4>2. pc \in [Clients -> Places]
        BY <1>t
      <4>3. pc'[c] \in {"clone", "clone rest"}
        BY <4>1, <4>2
      <4> QED BY <4>3
    <3> QED BY <1>5, <2>1, <3>0, <3>1, <3>2 DEF Step, ReadStep
  <2> QED BY <1>5, <2>2 DEF HasRead
<1> QED BY <1>1, <1>2, <1>3, <1>4, <1>5

LEMMA CutInductive ==
  ASSUME Types, LockInv, ChangeInv, ReaderInv, ShownTypes, StoreInv, ReadsInv, CutInv, [Next]_vars
  PROVE  CutInv'
<1>1. ASSUME NEW c \in Clients, Step(c), NEW x \in Clients, HasRead(x)'
      PROVE  \E k \in 0..Len(order') : ShowsFirst(x, k)'
  <2>1. CASE x = c
    BY <1>1, <2>1, OwnCut DEF ReadsInv, CutInv
  <2>2. CASE x # c
    <3>1. Grows
      BY <1>1, StepsGrow
    <3>2. /\ pc'[x] = pc[x] /\ status'[x] = status[x] /\ shown'[x] = shown[x]
          /\ known'[x] = known[x] /\ req' = req
      BY <1>1, <2>2, <3>1, StepsLeaveOthers DEF Grows
    <3>3. HasRead(x)
      BY <1>1, <3>2 DEF HasRead, ReadsBack
    <3>4. PICK k \in 0..Len(order) : ShowsFirst(x, k)
      BY <3>3 DEF CutInv
    <3>5. /\ GaugeAfter(k)' = GaugeAfter(k) /\ CounterAfter(k)' = CounterAfter(k)
          /\ \A i \in 1..k : order'[i] = order[i]
          /\ k \in 0..Len(order')
      BY <3>1, BeginningsStay
    <3>6. ShowsFirst(x, k)'
      BY <3>2, <3>4, <3>5 DEF ShowsFirst, MustShow
    <3> QED BY <3>5, <3>6
  <2> QED BY <2>1, <2>2
<1>2. ASSUME UNCHANGED vars, NEW x \in Clients, HasRead(x)'
      PROVE  \E k \in 0..Len(order') : ShowsFirst(x, k)'
  <2>1. UNCHANGED <<pc, req, shown, status, order, known>>
    BY <1>2 DEF vars
  <2>2. HasRead(x)
    BY <1>2, <2>1 DEF HasRead, ReadsBack
  <2>3. PICK k \in 0..Len(order) : ShowsFirst(x, k)
    BY <2>2 DEF CutInv
  <2>4. GaugeAfter(k)' = GaugeAfter(k) /\ CounterAfter(k)' = CounterAfter(k)
    BY <2>1, BeginningsStay DEF Grows
  <2>5. ShowsFirst(x, k)'
    BY <2>1, <2>3, <2>4 DEF ShowsFirst, MustShow
  <2> QED BY <2>1, <2>5
<1> QED BY <1>1, <1>2 DEF Next, Step, CutInv

CutIInv == IInv /\ ShownTypes /\ StoreInv /\ ReadsInv /\ CutInv

\* With the parts of HandlersInvariant, in every reachable state: the gauge and
\* the counter are those of the updates in the order they took the lock, and
\* whoever has read was shown the store after a number of whole updates.
THEOREM ReadsInvariant == Spec => []CutIInv
<1>1. Init => CutIInv
  <2> SUFFICES ASSUME Init PROVE CutIInv
    OBVIOUS
  <2> USE ClientNames
  <2>1. IInv
    BY InitiallyIInv
  <2>2. ShownTypes
    BY DEF Init, NoMetrics, ShownTypes
  <2>3. StoreInv
    <3>1. order = <<>> /\ Len(order) = 0 /\ gauge = NoOne /\ writer = NoOne
      BY DEF Init, NoMetrics
    <3>2. Setters(0) = {}
      BY DEF Setters
    <3>3. GaugeAfter(0) = NoOne
      BY <3>2, NoSetter
    <3> QED BY <3>1, <3>3 DEF StoreInv
  <2>4. ReadsInv /\ CutInv
    BY DEF Init, ReadsInv, ReadInv, CutInv, HasRead
  <2> QED BY <2>1, <2>2, <2>3, <2>4 DEF CutIInv
<1>2. CutIInv /\ [Next]_vars => CutIInv'
  <2>1. IInv /\ [Next]_vars => IInv'
    BY TypesInductive, LocksInductive, ChangesInductive, ReadersInductive,
       EventsInductive DEF IInv
  <2> QED BY <2>1, ShownTypesInductive, StoreInductive, ReadsInductive, CutInductive
          DEF CutIInv, IInv
<1> QED BY <1>1, <1>2, PTL DEF Spec

\* Whatever the requests and however their steps interleave, a page, a value
\* and a read-back show the store as it was after some number of whole updates,
\* among them all that were answered before the client asked and its own.
THEOREM WhatIsShownIsACut == Spec => []ShownIsACut
<1>1. CutIInv => ShownIsACut
  <2> SUFFICES ASSUME CutInv, NEW c \in Clients, pc[c] = "done",
                      c \in Readers \/ (status[c] = 200 /\ ReadsBack(c))
               PROVE  \E k \in 0..Len(order) : ShowsFirst(c, k)
    BY DEF CutIInv, ShownIsACut, ShowsFirst
  <2>1. HasRead(c)
    BY DEF HasRead
  <2> QED BY <2>1 DEF CutInv
<1> QED BY <1>1, ReadsInvariant, PTL
=============================================================================
