------------------------------ MODULE Handlers ------------------------------
(***************************************************************************)
(* The handlers of internal/handler/handler.go over the memory store       *)
(* (internal/storage/storage.go): updates by path, by JSON and in batches, *)
(* values by path and by JSON, the page of all metrics; what they change,  *)
(* what they publish to the audit, what they answer. Requests run          *)
(* concurrently, the store is guarded by an RWMutex. The synchronous save  *)
(* of interval 0 is the matter of Persistence and off here.                *)
(*                                                                         *)
(* Data: one gauge and one counter; the gauge's value is the client that   *)
(* set it, the counter's value is, per client, how many of its increments  *)
(* are in the sum. A metric of a request is well formed or not.            *)
(*                                                                         *)
(* A definition marked "Mutant" is no part of the model: it is a slip the  *)
(* properties must catch when it stands for the definition it precedes.    *)
(***************************************************************************)
EXTENDS Integers, Sequences, FiniteSets

CONSTANTS
  Updaters, Readers,  \* clients, one request each
  NoOne,              \* nobody; the value of a gauge that is not there
  BatchLen            \* bound: metrics in a batch

Clients == Updaters \cup Readers

ASSUME HandlersAssumption ==
  /\ Updaters \cap Readers = {}
  /\ NoOne \notin Clients
  /\ BatchLen \in Nat

VARIABLES
  gauge, counter,   \* MemStorage
  writer, readers,  \* MemStorage.mu: who holds it for writing, for reading
  pc, req,          \* per client: its place in the handler, its request
  pos,              \* per client: the metric UpdateBatch is at
  shown,            \* per client: the gauge and the counter it has read
  status,           \* per client: the answer, 0 for none yet
  events,           \* the audit events published: client and names
  order, known      \* history: clients in the order their updates took effect;
                    \* per client: the updates answered before its request came

storeVars == <<gauge, counter>>
muVars == <<writer, readers>>
vars == <<storeVars, muVars, pc, req, pos, shown, status, events, order, known>>

Gauge == "gauge"
Counter == "counter"

Metric == [type : {Gauge, Counter}, ok : BOOLEAN]
Singles == {<<m>> : m \in Metric}
Batches == UNION {[1..n -> Metric] : n \in 0..BatchLen}

Updates ==
  [route : {"path", "json"}, metrics : Singles] \cup [route : {"batch"}, metrics : Batches]

Reads ==
  [route : {"value"}, metrics : {<<[type |-> t, ok |-> TRUE]>> : t \in {Gauge, Counter}}]
  \cup [route : {"page"}, metrics : {<<>>}]

NoMetrics == [g |-> NoOne, n |-> [c \in Updaters |-> 0]]

Init ==
  /\ gauge = NoMetrics.g /\ counter = NoMetrics.n
  /\ writer = NoOne /\ readers = {}
  /\ pc = [c \in Clients |-> "idle"]
  /\ req \in [Clients -> Updates \cup Reads]
  /\ \A c \in Clients : req[c] \in IF c \in Updaters THEN Updates ELSE Reads
  /\ pos = [c \in Clients |-> 1]
  /\ shown = [c \in Clients |-> NoMetrics]
  /\ status = [c \in Clients |-> 0]
  /\ events = {}
  /\ order = <<>> /\ known = [c \in Clients |-> {}]

Goto(c, place) == pc' = [pc EXCEPT ![c] = place]

WellFormed(c) == \A i \in DOMAIN req[c].metrics : req[c].metrics[i].ok

Answer(c, s) == status' = [status EXCEPT ![c] = s] /\ Goto(c, "done")

Accepted == {c \in Updaters : status[c] = 200 /\ req[c].metrics # <<>>}

Arrive(c) ==
  /\ pc[c] = "idle"
  /\ known' = [known EXCEPT ![c] = Accepted]
  /\ Goto(c, "arrived")
  /\ UNCHANGED <<storeVars, muVars, req, pos, shown, status, events, order>>

----------------------------------------------------------------------------
(* UpdateHandler, UpdateJSONHandler, UpdatesJSONHandler.                    *)

Updating(c) == pc[c] = "arrived" /\ c \in Updaters

\* Every metric is examined before the first is written.
Refuse(c) ==
  /\ Updating(c)
  /\ ~WellFormed(c)
  /\ Answer(c, 400)
  /\ UNCHANGED <<storeVars, muVars, req, pos, shown, events, order, known>>

EmptyBatch(c) ==
  /\ Updating(c)
  /\ req[c].metrics = <<>>
  /\ Answer(c, 200)
  /\ UNCHANGED <<storeVars, muVars, req, pos, shown, events, order, known>>

Free == writer = NoOne /\ readers = {}

\* Mutant: a batch with a malformed metric is let through; the store skips it.
LockUnvalidated(c) ==
  /\ Updating(c)
  /\ req[c].metrics # <<>>
  /\ Free
  /\ writer' = c
  /\ order' = Append(order, c)
  /\ Goto(c, "writing")
  /\ UNCHANGED <<storeVars, readers, req, pos, shown, status, events, known>>

\* SetGauge, UpdateCounter or UpdateBatch takes the lock.
Lock(c) ==
  /\ Updating(c)
  /\ WellFormed(c) /\ req[c].metrics # <<>>
  /\ Free
  /\ writer' = c
  /\ order' = Append(order, c)
  /\ Goto(c, "writing")
  /\ UNCHANGED <<storeVars, readers, req, pos, shown, status, events, known>>

Current(c) == req[c].metrics[pos[c]]

\* Mutant: a critical section for each metric instead of one for the batch.
WriteUnlocking(c) ==
  /\ pc[c] = "writing"
  /\ pos[c] <= Len(req[c].metrics)
  /\ writer \in {c, NoOne} /\ readers = {}
  /\ gauge' = IF Current(c).ok /\ Current(c).type = Gauge THEN c ELSE gauge
  /\ counter' = IF Current(c).ok /\ Current(c).type = Counter
                THEN [counter EXCEPT ![c] = @ + 1] ELSE counter
  /\ pos' = [pos EXCEPT ![c] = @ + 1]
  /\ writer' = NoOne
  /\ UNCHANGED <<readers, pc, req, shown, status, events, order, known>>

\* One metric; UpdateBatch passes over one without a value.
Write(c) ==
  /\ pc[c] = "writing"
  /\ pos[c] <= Len(req[c].metrics)
  /\ gauge' = IF Current(c).ok /\ Current(c).type = Gauge THEN c ELSE gauge
  /\ counter' = IF Current(c).ok /\ Current(c).type = Counter
                THEN [counter EXCEPT ![c] = @ + 1] ELSE counter
  /\ pos' = [pos EXCEPT ![c] = @ + 1]
  /\ UNCHANGED <<muVars, pc, req, shown, status, events, order, known>>

Unlock(c) ==
  /\ pc[c] = "writing"
  /\ pos[c] > Len(req[c].metrics)
  /\ writer' = NoOne
  /\ Goto(c, "notify")
  /\ UNCHANGED <<storeVars, readers, req, pos, shown, status, events, order, known>>

\* UpdateJSONHandler reads a counter back before it answers.
ReadsBack(c) == req[c].route = "json" /\ req[c].metrics[1].type = Counter

Names(c) == {req[c].metrics[i].type : i \in DOMAIN req[c].metrics}

notifyAudit(c) ==
  /\ pc[c] = "notify"
  /\ events' = events \cup {[client |-> c, names |-> Names(c)]}
  /\ Goto(c, IF ReadsBack(c) THEN "value" ELSE "answer")
  /\ UNCHANGED <<storeVars, muVars, req, pos, shown, status, order, known>>

Respond(c) ==
  /\ pc[c] = "answer"
  /\ Answer(c, 200)
  /\ UNCHANGED <<storeVars, muVars, req, pos, shown, events, order, known>>

----------------------------------------------------------------------------
(* ValueHandler, ValueJSONHandler, the read-back, RootHandler.              *)

StartRead(c) ==
  /\ pc[c] = "arrived" /\ c \in Readers
  /\ Goto(c, req[c].route)
  /\ UNCHANGED <<storeVars, muVars, req, pos, shown, status, events, order, known>>

\* Is the metric in the store?
Exists(type) ==
  IF type = Gauge THEN gauge # NoOne ELSE \E u \in Updaters : counter[u] > 0

\* GetGauge or GetCounter, one critical section; 404 for what is not there,
\* which the read-back passes over.
GetValue(c) ==
  LET type == req[c].metrics[1].type
  IN  /\ pc[c] = "value"
      /\ writer = NoOne
      /\ shown' = [shown EXCEPT ![c] = IF type = Gauge THEN [@ EXCEPT !.g = gauge]
                                                      ELSE [@ EXCEPT !.n = counter]]
      /\ IF Exists(type) \/ c \in Updaters
         THEN Answer(c, 200) ELSE Answer(c, 404)
      /\ UNCHANGED <<storeVars, muVars, req, pos, events, order, known>>

RLock(c) ==
  /\ pc[c] = "page"
  /\ writer = NoOne
  /\ readers' = readers \cup {c}
  /\ Goto(c, "clone")
  /\ UNCHANGED <<storeVars, writer, req, pos, shown, status, events, order, known>>

\* Mutant: the maps are cloned outside the lock.
CloneGaugeUnlocking(c) ==
  /\ pc[c] = "clone"
  /\ shown' = [shown EXCEPT ![c].g = gauge]
  /\ readers' = readers \ {c}
  /\ Goto(c, "clone rest")
  /\ UNCHANGED <<storeVars, writer, req, pos, status, events, order, known>>

\* GetAllMetrics clones one map after the other.
CloneGauge(c) ==
  /\ pc[c] = "clone"
  /\ shown' = [shown EXCEPT ![c].g = gauge]
  /\ Goto(c, "clone rest")
  /\ UNCHANGED <<storeVars, muVars, req, pos, status, events, order, known>>

CloneCounter(c) ==
  /\ pc[c] = "clone rest"
  /\ shown' = [shown EXCEPT ![c].n = counter]
  /\ readers' = readers \ {c}
  /\ Goto(c, "answer")
  /\ UNCHANGED <<storeVars, writer, req, pos, status, events, order, known>>

----------------------------------------------------------------------------
UpdateStep(c) ==
  \/ Refuse(c) \/ EmptyBatch(c)
  \/ Lock(c) \/ Write(c) \/ Unlock(c) \/ notifyAudit(c)

ReadStep(c) == StartRead(c) \/ GetValue(c) \/ RLock(c) \/ CloneGauge(c) \/ CloneCounter(c)

Next ==
  \/ \E c \in Clients : Arrive(c) \/ UpdateStep(c) \/ ReadStep(c) \/ Respond(c)
  \/ (\A c \in Clients : pc[c] = "done") /\ UNCHANGED vars

Spec == Init /\ [][Next]_vars

----------------------------------------------------------------------------
\* How often c increments the counter, and whether it sets the gauge.
Increments(c) ==
  Cardinality({i \in DOMAIN req[c].metrics : req[c].metrics[i] = [type |-> Counter, ok |-> TRUE]})

Sets(c) == \E i \in DOMAIN req[c].metrics : req[c].metrics[i] = [type |-> Gauge, ok |-> TRUE]

\* The store after the first k updates of order.
GaugeAfter(k) ==
  LET setters == {i \in 1..k : Sets(order[i])}
  IN  IF setters = {} THEN NoOne
      ELSE order[CHOOSE i \in setters : \A j \in setters : j <= i]

CounterAfter(k) ==
  [u \in Updaters |-> IF \E i \in 1..k : order[i] = u THEN Increments(u) ELSE 0]

\* The updates a client must find in what it is shown: its own, and those that
\* were answered before it asked.
MustShow(c) == known[c] \cup ({c} \cap Updaters)

\* Every page, value and read-back shows the store as it was after some number of
\* whole updates, no fewer than the client knows of (GetAllMetrics, GetGauge,
\* GetCounter and UpdateBatch, each under mu; UpdateJSONHandler's second call).
ShownIsACut ==
  \A c \in Clients :
    pc[c] = "done" /\ (c \in Readers \/ (status[c] = 200 /\ ReadsBack(c))) =>
      \E k \in 0..Len(order) :
        /\ \A u \in MustShow(c) : \E i \in 1..k : order[i] = u
        /\ (req[c].route = "page" \/ req[c].metrics[1].type = Gauge)
             => shown[c].g = GaugeAfter(k)
        /\ (req[c].route = "page" \/ req[c].metrics[1].type = Counter)
             => shown[c].n = CounterAfter(k)

\* SetAudit (handler.go:100): every change that succeeded, and nothing else, is
\* published, under the names of what was changed, before it is answered.
EventsMatchChanges ==
  /\ \A e \in events :
       /\ e.client \in {order[i] : i \in DOMAIN order}
       /\ Counter \in e.names <=> counter[e.client] > 0
       /\ e.names # {}
  /\ \A c \in Accepted : [client |-> c, names |-> Names(c)] \in events
  /\ \A c \in Updaters : status[c] = 400 => counter[c] = 0 /\ gauge # c

----------------------------------------------------------------------------
(* The memory store as a BatchStore. An update takes effect when it takes   *)
(* the lock: nobody sees the store before the lock is given up.             *)

Promise == INSTANCE BatchStore WITH
  Calls  <- Updaters,
  Gauges <- {Gauge},
  batch  <- [c \in Updaters |-> [g |-> IF Sets(c) THEN {Gauge} ELSE {}, n |-> Increments(c),
                                once |-> TRUE]],
  gauge  <- [x \in {Gauge} |-> IF writer # NoOne /\ Sets(writer) THEN writer ELSE gauge],
  count  <- [u \in Updaters |-> IF u = writer THEN Increments(u) ELSE counter[u]],
  applied <- {order[i] : i \in DOMAIN order},
  answer <- [c \in Updaters |-> IF pc[c] # "done" \/ req[c].metrics = <<>> THEN "none"
                                ELSE IF c \in Accepted THEN "ok" ELSE "failed"]

\* UpdateBatch "применяет набор метрик одной критической секцией" (storage.go:78):
\* with the locks as they are taken and the metrics written one by one, the
\* memory store keeps the promise the database store keeps with transactions.
BatchesAreAtomic == Promise!StoreSpec
=============================================================================
