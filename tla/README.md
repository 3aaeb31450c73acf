# gometrics in TLA+

A metrics agent polls the Go runtime and the machine, and sends what it finds
in batches to a metrics server; the server keeps the values in memory (saved
to a file) or in PostgreSQL, and publishes an audit event for every update.
This directory holds TLA+ models of the parts where the program's difficulty
lies, the TLC configurations that check them, and TLAPS proofs of what matters
most about them. Source references are to the repository's files.

Contents: 1 inventory, 2 modules and their correspondence to the code, 3 runs,
4 bounds, 5 fairness, 6 proofs, 7 disagreements between code and documents,
8 what is left out, 9 plan.

## 1. Inventory

| part | state | operations | interacts through |
|---|---|---|---|
| agent, `internal/agent` | Collector (gauges, counter `PollCount`, one mutex), `dirty` (atomic), channel of batches, two contexts | `UpdateMetrics`, `UpdatePSUtilMetrics`, `enqueueMetrics`/`buildBatch`, `flushMetrics`, `worker`/`sendMetricsBatch`, `Run` | four kinds of goroutines on one Collector, one flag and one channel; HTTP |
| retries, `internal/retry` | the attempt number | `DoContext`, `Do` | called by the workers and by the PostgreSQL store |
| request encoding and middlewares, `agent.go`, `internal/crypto`, `internal/hash`, `handler.go` | keys, two pools of gzip objects | marshal, gzip, envelope, HMAC; the same backwards in the middlewares; gzip, hash and content type of answers | the body, its headers and the pools, shared by all requests |
| server life cycle, `cmd/server` | stop/done channels, http.Server | `serve`: load, listen, signal, `Shutdown`/`Close`, stop the saver, final save | handlers, periodic saver, audit |
| handlers, `internal/handler` | none of their own | update (3 forms), value (2 forms), root, ping | the store, the synchronous save, the audit publisher |
| memory store, `internal/storage/storage.go` | two maps under an RWMutex | `SetGauge`, `UpdateCounter`, `UpdateBatch`, reads | handlers, savers |
| file persistence, `internal/storage/file.go` | `path`, `path.tmp` | `SaveToFile`, `LoadFromFile`, `RunPeriodicSave` | every handler (interval 0), one goroutine, `serve` |
| PostgreSQL store, `internal/storage/db.go` | two tables | the same as the memory store, in transactions, under `retry.Do` | handlers |
| audit, `internal/audit` | list of observers (copy on write), bounded queue, stop/done channels, files | `Register`, `Notify`, `worker`/`drain`/`deliver`, `Close`; file and URL observers | handlers, `serve` |
| load generator, `internal/loadgen` | request counter, seeds, one cancellable context | `seed`, `doRequest`, the limit, the timer, `Run` | HTTP, the server from outside |
| configuration, `internal/config`, `cmd/*/config.go` | none | file, flags, environment | start only |
| object pool, reset generator, analysers, profiler | small or none | see section 8 | not part of the service |

What is hard, and the property that makes each part correct:

* **Agent.** Pollers raise `dirty` after they have written, the reporter lowers it
  before it reads, the reads are two critical sections, the queue may be full, and
  a signal may come at any point. Correct means: nothing measured is forgotten
  without a warning; no send on the closed channel; batches keep their order;
  retries are used up before a batch is given up for a failure of the network;
  `Run` returns.
* **Delivery.** A request abandoned by its client is still served. Correct means:
  what the server shows at the end is what was measured, and it never goes back in
  time without a reason.
* **Persistence.** Several savers, no lock around the file, crashes between system
  calls, handlers that outlive a forced close. Correct means: the file is always
  whole, loses nothing of what the server could read, and is complete after a
  graceful exit.
* **PostgreSQL store.** Transactions that lock rows in any order, connections that
  break while a commit is under way, a retry around it all, a page read in two
  queries. Correct means: a batch counts once and as a whole, a single delta no
  more often than it is sent, a call always returns, the page does not show gauges
  it does not count.
* **Audit.** A queue at its limit, a stop that races with the queue, observers
  that fail or panic, a close that does not wait for ever and is followed by the
  end of the process. Correct means: every event published before the stop is
  delivered to every observer in order or counted as dropped.
* **Exchange.** Three layers each way, keys that may not match, sizes checked on
  both sides of an inflation, writers and readers shared through pools. Correct
  means: the handler reads what the client wrote or the client hears that it is at
  fault; compressed answers can be read.
* **Handlers and memory store.** A batch is written metric by metric while others
  read, a malformed metric may stand in its middle, the audit is told after the
  fact. Correct means: what is shown is the effect of whole updates, and the audit
  hears of exactly what changed.
* **Load generator.** Workers count and compare a shared counter in separate
  steps. Correct means: the limit is overrun by the workers at most, `Run` ends at
  its limit or its time and not before, what is asked for was posted.

`PROJECT.json` lists the hazards one by one, each at its line, with the
properties that watch it.

## 2. Modules

Each action is one atomic step of the code: a critical section, a channel
operation, an atomic, a system call, or the local code between two of these.
A definition under a comment that starts with "Mutant" is not part of the
model: it is a plausible slip, kept to show that a property notices it.

**`ReportingPromise`** says what the agent promises about its measurements with
no goroutine, channel or flag: measurements grow, what is handed over trails
them and never goes back, and the end leaves nothing behind unless it says so.

**`Agent`** is `Run` from its start to its return.

| state | code |
|---|---|
| `polls`, `sysPolls` | the Collector, as the number of polls of each kind it has absorbed |
| `dirty`, `jobs`, `sendCancelled` | the atomic, the channel, `sendCtx` |
| `rtPc`, `psPc`, `repPc`, `mainPc` | where `runRuntimePoller`, `runPSUtilPoller`, `runReporter` and `Run` are |
| `repBatch`, `batch` | the snapshot in the hands of the reporter or of a worker |
| `pc`, `attempt`, `err` | where a worker is in `worker`/`sendMetricsBatch`/`DoContext` |
| `queued`, `skipped` | history: the last batch put on the channel, the warning of `flushMetrics` |

A snapshot is three numbers: up to which poll its runtime gauges (`g`), system
gauges (`s`) and `PollCount` (`n`) have seen. `g` and `n` differ when a poll
falls between the two locked reads of `buildBatch`. The error of an attempt is
any the code distinguishes; `isRetriableHTTPError` and `checkResponse` decide
what follows. A second signal kills the process; as no state survives it, the
safety properties, which hold in every prefix, say all there is.

**`Delivery`** composes `Agent` with the network, the middlewares and
`UpdatesJSONHandler` down to `MemStorage.UpdateBatch`. Its steps are Agent's
actions conjoined with what they mean for the request of the worker: an attempt
no longer ends with any error, but with the one its request has earned. `req`
is the request of a worker, `late` the bag of requests that clients gave up and
handlers may still serve (a handler looks at no context), `store` the maps of
the server. That the composition implements `Agent` is itself checked.

**`Persistence`** is `serve` with the file store through crashes and restarts.
`SaveToFile` is a sequence of steps of whoever runs it (a handler, the
periodic goroutine, `serve`): snapshot under the lock, open and truncate
`path.tmp`, write, rename; `fd` says which file a saver holds open, for another
saver's rename moves it. An update is a member of `Requests`, the store the set
of those applied. What was written survives the death of the process; a power
failure, against which the code does no fsync, is not modelled. Both modes, the
synchronous and the periodic, are initial states of one run; members of
`NonFinite` are updates that set a gauge to NaN or Inf. The file may also be
unreadable at the start (`LoadFails`): `serve` logs the error and goes on with an
empty store, and `missed` remembers what it did not see.

**`Audit`** is the publisher with asynchronous delivery: `Register` as load and
compare-and-swap, `Notify` as the non-blocking send, the worker with its select
and drain, `Close` with and without its timeout, the files the observers hold. Once
a `Close` is back the process may end (`Exit`: `serve` has deferred the call, `main`
returns after it), and with it the worker, wherever it is.

**`BatchStore`** says what a store promises about updates: they take effect as a
whole and at once, those marked `once` at most once; success is answered only for
what has taken effect, an error may be answered for what has, or will.

**`DBStorage`** is the PostgreSQL store: calls of handlers under `retry.Do` (`pc`,
`attempt`, `err`), what the database holds for each (`tx`, `pos`, `wrote`,
`lock`), the committed tables (`gauge` names the call whose value a row has,
`count` how many increments of each call are in the counter's sum), the page of
`RootHandler` and the store's opening and closing. A statement takes the lock of
its row until its transaction ends; a connection may break under any statement,
and the database, which learns of it later, rolls back or, when it had been told
to commit, may have done so. `UpdateBatch` is a transaction; `SetGauge` and
`UpdateCounter` (`single`) are one `db.Exec` each, which database/sql sends again
up to `SqlRetries` times (`tries`) when the driver answers `driver.ErrBadConn`, as
lib/pq does also when the connection ends under a statement: the first statement
may be executed all the same (`late`). Errors carry the type the driver gives
them: the driver is lib/pq (cmd/server/main.go:23), while `isRetriablePgError`
asks for a `*pgconn.PgError`, which none of its errors is.

**`Handlers`** is the handlers over the memory store: every route parses its
metrics, takes the `RWMutex`, writes or reads metric by metric, gives the lock
back, publishes its audit event and answers.

| state | code |
|---|---|
| `gauge`, `counter` | the maps: who wrote the gauge, whose increments the counter holds |
| `writer`, `readers` | `MemStorage.mu` |
| `pc`, `req`, `pos` | a request's place, what it asks for, the metric `UpdateBatch` is at |
| `shown`, `status`, `events` | what was read, the answer, what the audit was told |
| `order`, `known` | history: the order in which updates took effect, what was answered before a request came |

It implements `BatchStore` like the database does: the two stores keep one
promise.

**`Exchange`** follows a request through the layers. A body is a record: whose
text it is, sealed for which key pair, zipped or not, intact or not, small or
large. `preparePayload` builds it, `pc` says which middleware of `buildRouter` it
is in, each middleware takes a layer off or answers. `resp` is the answer on its
way back with its encoding and its signature; `gz`, `zr`, `freeGz`, `freeZr`,
`target`, `stream`, `source` are the pooled writers and readers, who holds them and
what they are bound to. Clients are agents or anything else (curl, browsers, the
load generator), which may send what no agent does. **`MCExchange`** adds the
symmetry of keys, pairs, writers and readers, **`MCAgent`** a bound on system polls.

**`LoadGen`** is `Run` of the load generator: `seed` batch by batch (`from`, `posted`,
`seeds`), the workers of `doRequest` (`pc`), the counter (`requests`), the cancelled
context (`stopped`, `aborted`) and the timer. The server is external: any request may
fail.

Proofs stand in modules of their own, one per model: **`AgentProofs`**,
**`DeliveryProofs`**, **`PersistenceProofs`**, **`AuditProofs`**, **`DBStorageProofs`**,
**`HandlersProofs`**, **`LoadGenProofs`**, **`ExchangeProofs`** (section 6).

## 3. Runs

| run | what it asks | result |
|---|---|---|
| `agent_promises` | two workers: is anything measured forgotten; does a batch count fewer polls than its gauges have seen; are batches kept in order; is anything sent on the closed channel; is the queue drained at return; does the agent implement `ReportingPromise` | holds |
| `agent_live` | is a batch given up early for a failure of the network; `Run` returns after a signal although the budget timer never fires; every poll is handed over or declared skipped; the queue is closed even if the workers hang for ever | holds |
| `delivery_join` | does the server show everything when `Run` has returned and nothing failed; when may its gauges go back; does every poll arrive | holds |
| `delivery_pollcount` | does the server count the polls | violated |
| `persistence_promises` | both modes, failing system calls, crashes, a restart, forced shutdowns, NaN. Periodic: file whole in every state, nothing on disk is lost but what the server could not read at its start, every finite update reaches it, what was answered is saved. Both: complete after a graceful exit; the shutdown ends | holds |
| `persistence_sync_torn` | interval 0: is the file whole in every state | violated |
| `audit_promises` | what may be lost without a warning, order of events, no gap for an observer, no lost registration, closed files, delivery, the end of `Close` | holds |
| `db_promises` | are batches atomic and counted once, and single deltas not more often than they are sent, while connections break under statements and commits; does the page count what it shows; does every call return although transactions deadlock, fail and lose their clients | holds |
| `db_broken` | is a call whose connection breaks repeated until it succeeds or the pauses are used up | violated |
| `exchange_layers` | do handlers read what was written; do agreeing keys suffice; is a misfit the client's error, but for a body wrongly declared to be gzip; can a compressed answer be read | holds |
| `loadgen_limit` | how far is the limit overrun; is the load cut short; is every metric posted; does `Run` end | holds |
| `handlers_cuts` | is what is shown a cut of whole updates that includes those already answered; do audit events match the changes; does the memory store implement `BatchStore` | holds |

Every property of a passing run has a mutant in `PROJECT.json`: one definition
of the model replaced by a slip (a dropped guard, a missing wait, a swapped
order), under which TLC finds the property violated.

## 4. Bounds

* `PollBound` caps the polls of each kind. In `agent_promises` it is 2, the least
  for which a report can be overtaken by a poll, a batch be older than the one
  before, and a raise of `dirty` be lost behind an earlier one; `OneSystemPoll`
  keeps the system polls at one, which still gives batches of different age.
  Liveness and the composition use one poll of each kind; what they leave out of
  the safety properties is proved for every bound.
* `RateLimitArg`: 2 in `agent_promises` (two workers that compete), 0 and 1
  elsewhere (one worker, queue of one). More workers add no new conflict on the
  queue: its only operations are send, receive and close.
* `Pauses`: 3 as in `retry.Intervals` in `agent_live`, where retries are the
  question, 0 in `agent_promises`, where they are not, otherwise 1. In the
  database model: as long as nothing is retried it plays no part, and one pause is
  enough to see what a retry would do.
* `LateBound` = 1 abandoned request at a time, enough for it to be served after
  its retry and after the next batch; `CountCap` is where the server's counter is
  no longer told apart: 0 where the counter is not the question, 2, one more than
  the polls that took place, in `delivery_pollcount`.
* `Requests`: two, the least for two concurrent saves, one of them not finite;
  `Restarts` 1 and `Faults` 1 allow a crash, the recovery from it, and in either
  life a failing save or a failing reading of the file. That the safety properties
  hold for any number of them is proved.
* `Events` and `Closers`: two each with a queue of one (the size 0 asks for the
  default, here 1): one event in the worker's hands, one waiting, one refused; a
  Close that times out beside one that does not, and the end of the process behind
  either; one observer of either kind.
* `Calls`: two, the least for a deadlock and for one batch to fall between the two
  queries of another's page; `BatchLen` 2 over one gauge and the counter gives
  both orders, the same row twice included. `SqlRetries` is 1, enough for a
  statement to be executed twice; in `db_broken` it is 2, as in database/sql, and
  `Pauses` 3. For other numbers the safety properties of `db_promises` are proved.
* `Exchange`: one agent and one other client, each with one request; two signing
  keys and two key pairs, so that keys agree, differ or are missing on either
  side; two writers and two readers, so that each request can hold one of its own
  or one the other has used. The other client declares gzip or not over any of its
  bodies.
* `LoadGen`: three workers, limits 0 (none), 1 and 2 (reached by the seeding or
  overrun by all at once) and 4 (reached in the load); three metrics in batches of
  two, the last one shorter; `RequestBound` 8 is beyond every limit and overrun.
* `Handlers`: two updaters and one reader, batches of up to two metrics, well
  formed or not, the empty one included.

## 5. Fairness

Goroutines that can run do (weak fairness per goroutine). A `select` with several
ready cases chooses at random, so a case that is ready again and again
(`ctx.Done()` against a ticker, the closed `stop` against a filled queue) is
chosen in the end: strong fairness of exactly those actions. An attempt ends
because `client.Timeout` is set, a pause because it is a timer, an observer's
Notify because the URL observer has a client timeout. Not assumed: that a signal,
a Notify or a Close ever comes, that the budget timer or `closeTimeout` fires,
that the process of a server lives on once a `Close` of the audit is back, that an
answer arrives instead of being lost. In the database a call goes on unless it
waits for a lock, deadlocks are detected, and a broken connection is noticed
(keepalive, `tcp_user_timeout`); that a statement fails or a connection breaks is
never relied on. In `Agent` the fairness of workers is an assumption inside the
properties that need it, so that `QueueClosedDespiteBusyWorkers` is seen to need
none.

The savers, the periodic goroutine and `serve` go on (weak fairness each); the
periodic goroutine's `select` takes the closed stop channel in the end (strong
fairness of `PeriodicExit`); signals, failures, crashes and restarts need not come.
In `LoadGen` goroutines go on and the timer, if one is set, fires; that answers keep
coming is an assumption of the second half of `RunEnds` only, for without a timer
`Run` really does wait for them. `Handlers` and `Exchange` are checked for safety.

## 6. Proofs

Each theorem holds for every value of the constants that satisfies the model's
named assumption, and rests on nothing else.

`AgentProofs`, for every rate limit, number of pauses and bound on polls:

* `TypeCorrect`, `Types`: the type invariant, with the strengthening `RoomLeft`
  (the receiver and the attempt number stay in range).
* `HandOverInductive`: `HandOverInv` is the heart of the shutdown. `NothingForgotten`
  alone is not inductive, for it says nothing until the queue is closed. The
  invariant says who vouches for measurements that the last queued batch lacks:
  `dirty`, a poller about to raise it, or the reporter that has lowered it but
  holds (or is about to read) everything. With the batch in the reporter's hands
  bounded from both sides (`BatchInBetween`), each step hands the duty on.
* `NothingIsForgotten`, `QueueClosedSafely`: consequences at the close.
* `AgentKeepsPromise`: the refinement. The initial states map to the initial
  states; every step is a step of the promise or a stutter (`StepKeepsPromise`,
  one case per action that touches the mapped state), by the two invariants.
* `WorkersInductive`, `NetworkFailuresAreRetried`, `RunDrainsTheQueue`: `sendCtx` is
  cancelled and workers leave only after the close, nothing is put on the queue
  once a worker has left, a worker without a batch holds none.
* `OrderInductive`, `BatchesCountTheirPolls`, `BatchesKeepTheirOrder`: what is queued
  is at least as new as the last queued batch (`BatchInBetween`), which is at least
  as new as everything on the queue and in the workers' hands; the counter is read
  after the gauges from a Collector that only grows.

`DeliveryProofs`, from the agent's assumption and that of `Delivery`:

* `CompositionIsAgent`: every step of the composition is a step of the agent or
  invisible to it (`StepIsAgentStep`), so the theorems above carry over.
* `ShownAtExit`: `FreshAtExit` says nothing before `Run` has returned. `ShownInv`
  follows the last queued batch of a single worker from the queue to the worker's
  hands to the store; with `HandOverInv` (the last queued batch is complete) and
  `WorkersInv` (nobody holds anything at the end) it gives the claim.
* `TrailInductive`, `OnlyLateGoesBack`: with one worker the store, and every
  abandoned request, trail the worker's batch and the queue (`Trails`), by the order
  of the batches; so only an abandoned request can overwrite newer gauges.

`PersistenceProofs`, for any requests, non-finite or not, and any numbers of
restarts and faults. The inductive invariant has five parts: `TypeOK`; `SaverInv`,
who may be saving when `serve` is where it is; `DiskInv`, that a saver that is alone
finds `path.tmp` as it left it; `CoverInv`, that the store, and every snapshot on
its way, covers the file; `FinalInv`, what the final save carries. From it
`ServerTypes`, `PeriodicFileIsReadable`, `GracefulExitLosesNothing`, `AckedIsSaved`,
and `OnlyTheUnreadIsLost` for servers that restore their file (a server told not to,
`-r=false`, is meant to forget it): what the store lacks of the file is in `missed`.

`AuditProofs`, for any events, observers, callers of `Close` and size of the queue:
`ListInv` (the published list names exactly the registered, what is open or still to
be served is on it), `WorkerInv` (an event in hand exactly while delivering, draining
only once stopped), `QueueInv`, `CloseInv` (what is promised is accepted; a `Close` in
time finds the worker gone, and no file open but those still on its list). From them
`PublisherTypes`, `EventsLostOnlyAfterStop`, `NoRegistrationIsLost`, `NoQueuedEventIsGivenUp`,
`NoFileStaysOpen`. `GapInv` follows every observer: it was given all events since its
first, and is still on the worker's list, or has the one in flight already and is on
it no more; that no list names an observer twice makes the two cases exclude each
other. Hence `ObserversMissNothing`.

`DBStorageProofs`, for any calls, rows, lengths and pauses:

* `StoreInductive`: what a transaction has written is what the statements up to
  its position say, every row it has written is locked by it, and the counter has
  a call's increments as often as the call was committed. Since a batch whose fate is
  unknown is never repeated (`isRetriablePgError` of what `ConnectionLost` yields
  is false), it is committed at most once; a single statement is committed, under way
  or still possible (`late`) no more often than it was sent, which is `tries` + 1.
* `StoreTypes`, `CountedAsSent`: consequences. `StoreKeepsPromise`: the refinement of
  `BatchStore`, one case per action.
* `PageIsConsistent`: a gauge in the table or on the page is one of a committed call
  (`PageInv`), and commits do not go away between the two queries.

`HandlersProofs`, for any clients and lengths: the lock is held by who is in the
critical section (`LockInv`), each update is at the place its request says, with
that much of its batch written (`UpdateInv`), and the audit knows the published
(`EventInv`); hence `AuditMatchesStore`. `MemoryStoreKeepsPromise` is the refinement
of `BatchStore`: an update takes effect, for everybody who can look, when it takes
the lock. `WhatIsShownIsACut` needs more: `StoreInv`, that the gauge is what the first
`k` updates of `order` make it, `k` all of them unless a writer holds the lock and is
the last; `ReadInv`, that a page is put together under the read lock, which keeps
writers out, and that an answered update is in `order`; `CutInv`, that what has been
shown is the store after some beginning of `order` (gauge and increments both),
in which every update that had to be seen occurs. As `order` only grows at its end
(`BeginningsStay`), a cut once shown stays one.

`LoadGenProofs`, for any workers, limits and sizes: as long as the context is not
cancelled only answers not yet compared exceed the limit or the seeding, and from
then on each worker has at most one more to come (`CountInv`); hence
`LimitIsOverrunAtMostByWorkers`. `LoadIsNotCutShort`, `EverythingIsSeeded`.

`ExchangeProofs`, for any agents and other clients, signing keys, key pairs, pooled
writers and readers. The invariant is a conjunction per client, and a step of one
client leaves the parts of the others alone (`KeptKeeps`), because a writer or reader
in use is in no pool and set to the request that holds it (`PoolInv`):

* `SentInv` says what requests of agents and of others have in common, `BodyInv` what
  each layer finds: the body that was sent, opened and unzipped so far, with an
  encoding that says so. An envelope is only opened, a body only unzipped, and a
  signature only passed if the body is intact.
* `SeenInv`, `AgreedInv`, `StatusInv` say what has come of it by the layer the
  request is in: what was read, that an agreeing agent has not been refused, that a
  refusal of an undamaged request is a 400 or a 413, or a 500 for what declares gzip
  and is none, which no agent sends. `MarkupInv` follows an answer
  through the gzip writer into the signature.
* From them `HandlersRead`, `AgreementSuffices`, `MisfitsAreRefused`,
  `MarkupIsReadable`, and `PoolsAreExclusive`, which no run states.

Every safety property of the passing runs is thus a theorem. Only model-checked: all
liveness, for the prover has no rules for fairness and ENABLED. That `FileReadable`
in the synchronous mode, `BrokenConnectionLosesNothing` and `CountsPollsOnce` fail is
shown by the counterexamples of their runs. Nothing here needs induction over data: that
some update is the last to set a gauge (`MaxExists` of `HandlersProofs`) follows from
the library's fact that a well-founded order has minima.

## 7. Where the code and its documents disagree

* `PollCount` only grows in the agent, is sent as a `Delta`, which the models
  call an increment, and the server adds it up: two reports after one poll count
  two (`delivery_pollcount`, no failure needed).
* With the interval 0 concurrent handlers share `path.tmp` without a lock: an
  empty or mixed file may get the final name, though the comment of `SaveToFile`
  promises that a killed process does not spoil it (`persistence_sync_torn`).
* `retry.Do` around the database repeats nothing, for the driver's errors are none
  of those `isRetriablePgError` knows, though the comment of `DBStorage` (db.go:19)
  says that temporary connection errors lose no metric (`db_broken`). It also says
  that all reads are retried, which `GetAllMetrics` is not even meant to be.

Also visible in the models, not kept as runs:

* `checkResponse` (agent.go:597) calls 5xx worth retrying; the error it returns
  is none that `isRetriableHTTPError` accepts, so the batch is given up at once.
  `NetworkFailuresRetried` speaks of timeouts and failed connections only.
* `contentTypeCheckWriter` declares every JSON or HTML answer to be gzip, also to a
  client that does not accept gzip, and writes it plain (handler.go:659), though the
  comment of `GzipMiddleware` (handler.go:606) says that such answers are compressed.
* A body that declares gzip and is none is answered 500 (handler.go:635), a fault of
  the client told as one of the server; `MisfitsAreClientErrors` makes the exception.
  No agent sends such a body.
* `UpdateCounter` of the database may add its delta up to three times: database/sql
  sends a single statement again when the connection ends under it, beneath
  `retry.Do` and whatever `isRetriablePgError` says. A batch is a transaction and is
  not sent again. `DeltaNotOvercounted` and `BatchStore` say both.
* A file that is there and cannot be read at the start is as good as lost: `serve`
  logs the error (main.go:242) and the next save overwrites the file with what has
  come since. `FileNeverRegresses` excepts it.
* A gauge set to NaN or Inf is accepted, and makes every later save fail, for
  JSON has no such number: `UpdatesReachDisk` is stated for finite updates.
* To a client that accepts gzip, a plain text answer carries the end of an empty
  gzip stream behind its text, written by the deferred `Close`; `MarkupReadable`
  speaks of JSON and HTML.
* After `Close` the audit publisher queues events in silence, behind a worker that is
  gone, though its comment (audit.go:191) says that they are rejected with a warning:
  `LostOnlyAfterStop` confines the loss to events published after the stop, and to a
  `Close` that gave up. After `closeTimeout` the process ends with the worker still
  delivering, and events accepted before the stop are lost with it; a process that
  is killed loses its whole queue.
* `UpdateJSONHandler` answers with a sum that may hold later updates of others, and
  0 for a counter whose read-back fails.
* The final flush may queue a snapshot that was queued already (the poller writes,
  the reporter sends, the poller raises `dirty`).
* With interval 0 a 200 does not mean that the update is on disk; after a forced
  close a handler may save during the final save; after `closeTimeout` the worker
  may open a file again that `Close` has closed.
* The load generator's limit counts the requests of the seeding, may be overrun by
  as many requests as there are workers, and a seeding the server refuses counts
  as one that was done.

## 8. Not modelled

* Configuration: sequential code, run once before everything else; its results are
  the settings the models choose in `Init`. What it does not check (an interval so
  long that `time.Duration` overflows) ends the process at its start.
* The object pool of the repository: no package uses it. The pools in use, those of
  the gzip objects, are in `Exchange`.
* Reset generator and analysers (`noosexit`, `staticlint`): tools that work on Go
  syntax; profiler: the listener of the standard library. No behaviour of the service.
* `PingHandler`, `GetGauge` and `GetCounter` of the database: they change no state
  and relate none. Logging and HTML.
* `WithSyncDelivery` of the audit publisher and `sendMetricJSON`: used by tests
  only, or by nothing. The load generator's statistics by kind of request.
* Cryptography and compression themselves, the HTTP and SQL libraries, the file
  system beyond open/write/rename.

## 9. Plan

Done, in the order of their importance for the data: `ReportingPromise`, `Agent`,
`AgentProofs`, `Persistence`, `Audit`, `Delivery`, `BatchStore`, `DBStorage`,
`DBStorageProofs`, `DeliveryProofs`, `Exchange`, `Handlers`, `LoadGen`,
`PersistenceProofs`, `AuditProofs`, `HandlersProofs`, `LoadGenProofs`,
`ExchangeProofs`. What could follow:

1. The updates of `Handlers` behind the requests of `Delivery`, with several agents.
2. The safety lemmas that liveness arguments rest on (which step is enabled where,
   what it brings closer to the end), for the prover cannot do the rest.
3. A power failure in `Persistence`, once the code says what it promises of one.

The runs are few on purpose, one per question: a new module takes the place of a
run whose question another one can answer as well, or joins its module to one.
