---------------------------- MODULE AgentProofs ----------------------------
(***************************************************************************)
(* Theorems about Agent, for every rate limit, number of retries and bound *)
(* on the measurements.                                                    *)
(***************************************************************************)
EXTENDS Agent, TLAPS

\* NewAgent leaves at least one worker.
LEMMA RateLimitPositive == RateLimit \in Nat /\ RateLimit >= 1
BY AgentAssumption DEF RateLimit

\* The receiver takes the head of a queue of snapshots.
LEMMA HeadTail ==
  ASSUME NEW q \in Seq(Snapshot), q # <<>>
  PROVE  /\ Head(q) \in Snapshot /\ Tail(q) \in Seq(Snapshot)
         /\ Len(Tail(q)) = Len(q) - 1
OBVIOUS

\* A batch is put at the end of a queue of snapshots.
LEMMA AppendOne ==
  ASSUME NEW q \in Seq(Snapshot), NEW b \in Snapshot
  PROVE  Append(q, b) \in Seq(Snapshot) /\ Len(Append(q, b)) = Len(q) + 1
OBVIOUS

\* What the Collector holds is a snapshot, and so is a part of it.
LEMMA CollectedIsSnapshot ==
  ASSUME polls \in 0..PollBound, sysPolls \in 0..PollBound, NEW b \in Snapshot
  PROVE  /\ Collected \in Snapshot
         /\ [b EXCEPT !.g = polls, !.s = sysPolls] \in Snapshot
         /\ [b EXCEPT !.n = polls] \in Snapshot
         /\ Nothing \in Snapshot
<1> USE AgentAssumption DEF Snapshot
<1>1. Collected \in Snapshot
  BY DEF Collected
<1>2. [b EXCEPT !.g = polls, !.s = sysPolls] \in Snapshot
  OBVIOUS
<1>3. [b EXCEPT !.n = polls] \in Snapshot
  OBVIOUS
<1>4. Nothing \in Snapshot
  BY DEF Nothing
<1> QED BY <1>1, <1>2, <1>3, <1>4

----------------------------------------------------------------------------
(* Type correctness. A poller about to poll has a measurement left, and a  *)
(* worker in a pause an attempt: without that the types are not inductive. *)

RoomLeft ==
  /\ rtPc = "update" => polls < PollBound
  /\ psPc = "update" => sysPolls < PollBound
  /\ \A w \in Workers : pc[w] = "pause" => attempt[w] < Pauses

TypeInv == TypeOK /\ RoomLeft

LEMMA InitTypes == Init => TypeInv
<1> SUFFICES ASSUME Init PROVE TypeInv
  OBVIOUS
<1> USE AgentAssumption, RateLimitPositive DEF Init
<1>1. Nothing \in Snapshot
  BY DEF Nothing, Snapshot
<1>2. jobs \in Seq(Snapshot) /\ Len(jobs) = 0
  OBVIOUS
<1>3. "nil" \in Errors
  BY DEF Errors
<1>4. /\ pc \in [Workers -> {"recv", "check", "request", "pause", "log", "exit"}]
      /\ batch \in [Workers -> Snapshot]
      /\ attempt \in [Workers -> 0..Pauses]
      /\ err \in [Workers -> Errors]
  BY <1>1, <1>3
<1>5. TypeOK
  <2>1. Len(jobs) <= RateLimit /\ repBatch \in Snapshot /\ queued \in Snapshot
    BY <1>1, <1>2
  <2>2. polls \in 0..PollBound /\ sysPolls \in 0..PollBound
    OBVIOUS
  <2> QED BY <1>2, <1>4, <2>1, <2>2 DEF TypeOK
<1>6. RoomLeft
  BY DEF RoomLeft
<1> QED BY <1>5, <1>6 DEF TypeInv

\* What a worker that ends its batch leaves behind.
LEMMA GiveBackTypes ==
  ASSUME TypeOK, NEW w \in Workers, NEW e \in Errors, GiveBack(w, e)
  PROVE  /\ pc' \in [Workers -> {"recv", "check", "request", "pause", "log", "exit"}]
         /\ batch' \in [Workers -> Snapshot]
         /\ err' \in [Workers -> Errors]
         /\ \A v \in Workers : pc'[v] = "pause" => pc[v] = "pause"
<1>1. Nothing \in Snapshot
  BY AgentAssumption DEF Nothing, Snapshot
<1> QED BY <1>1 DEF GiveBack, TypeOK

\* No step of a worker leaves the types.
LEMMA WorkerKeepsTypes ==
  ASSUME TypeInv, NEW w \in Workers, Worker(w)
  PROVE  TypeInv'
<1> USE AgentAssumption, RateLimitPositive
    DEF TypeInv, TypeOK, RoomLeft, collectorVars, pollerVars, reporterVars,
        queueVars, mainVars, workerVars
<1>1. CASE Receive(w)
  BY <1>1, HeadTail DEF Receive
<1>2. CASE WorkerExit(w)
  BY <1>2 DEF WorkerExit
<1>3. CASE StartAttempt(w)
  BY <1>3 DEF StartAttempt
<1>4. ASSUME NEW e \in Errors, GiveBack(w, e),
             UNCHANGED <<collectorVars, pollerVars, reporterVars, queueVars, mainVars, attempt>>
      PROVE  TypeInv'
  BY <1>4, GiveBackTypes
<1>5. CASE PrepareFails(w) \/ StopAtCheck(w) \/ PauseCancelled(w)
  <2>1. {"unsendable", "stopped"} \subseteq Errors
    BY DEF Errors
  <2> QED BY ONLY <1>4, <1>5, <2>1 DEF PrepareFails, StopAtCheck, PauseCancelled
<1>6. CASE AttemptEnds(w)
  <2>1. PICK e \in AttemptErrors : GiveBack(w, e)
    BY <1>6 DEF AttemptEnds
  <2>2. e \in Errors
    BY DEF AttemptErrors, Errors, checkResponse, isRetriableStatus, Statuses,
           TransportErrors
  <2> QED BY ONLY <1>4, <1>6, <2>1, <2>2 DEF AttemptEnds
<1>7. CASE AttemptFails(w)
  BY <1>7 DEF AttemptFails
<1>8. CASE PauseElapses(w)
  BY <1>8 DEF PauseElapses
<1>9. CASE LogOutcome(w)
  <2>1. "nil" \in Errors
    BY DEF Errors
  <2> QED BY <1>9, <2>1 DEF LogOutcome
<1> QED
  BY ONLY <1>1, <1>2, <1>3, <1>5, <1>6, <1>7, <1>8, <1>9, Worker(w) DEF Worker

\* Nor does a step of a poller.
LEMMA PollerKeepsTypes ==
  ASSUME TypeInv, RtPoller \/ PsPoller
  PROVE  TypeInv'
<1> USE AgentAssumption
    DEF TypeInv, TypeOK, RoomLeft, collectorVars, pollerVars, reporterVars,
        queueVars, mainVars, workerVars
<1>1. CASE RtUpdate BY <1>1 DEF RtUpdate
<1>2. CASE RtMark BY <1>2 DEF RtMark
<1>3. CASE RtTick \/ RtExit BY <1>3 DEF RtTick, RtExit
<1>4. CASE PsUpdate BY <1>4 DEF PsUpdate
<1>5. CASE PsMark BY <1>5 DEF PsMark
<1>6. CASE PsFail \/ PsTick \/ PsExit BY <1>6 DEF PsFail, PsTick, PsExit
<1> QED BY <1>1, <1>2, <1>3, <1>4, <1>5, <1>6 DEF RtPoller, PsPoller

\* Nor does a step of the reporter, which appends only where there is room.
LEMMA ReporterKeepsTypes ==
  ASSUME TypeInv, Reporter
  PROVE  TypeInv'
<1> USE AgentAssumption
    DEF TypeInv, TypeOK, RoomLeft, collectorVars, pollerVars, reporterVars,
        queueVars, mainVars, workerVars
<1>1. CASE ReportTick BY <1>1 DEF ReportTick
<1>2. CASE GetGauge BY <1>2, CollectedIsSnapshot DEF GetGauge
<1>3. CASE GetCounter BY <1>3, CollectedIsSnapshot DEF GetCounter
<1>4. CASE Enqueue
  <2>1. Append(jobs, repBatch) \in Seq(Snapshot)
        /\ Len(Append(jobs, repBatch)) = Len(jobs) + 1
    BY AppendOne
  <2>2. Len(jobs) \in Nat /\ Len(jobs) + 1 <= RateLimit
    BY <1>4, RateLimitPositive DEF Enqueue, HasRoom
  <2>3. Nothing \in Snapshot
    BY CollectedIsSnapshot
  <2> QED BY <1>4, <2>1, <2>2, <2>3 DEF Enqueue
<1>5. CASE EnqueueCancelled
  BY <1>5, CollectedIsSnapshot DEF EnqueueCancelled
<1>6. CASE ReporterExit BY <1>6 DEF ReporterExit
<1> QED BY <1>1, <1>2, <1>3, <1>4, <1>5, <1>6 DEF Reporter

\* Nor does a step of Run.
LEMMA MainKeepsTypes ==
  ASSUME TypeInv, Signal \/ Main \/ BudgetExpires
  PROVE  TypeInv'
<1> USE AgentAssumption
    DEF TypeInv, TypeOK, RoomLeft, collectorVars, pollerVars, reporterVars,
        queueVars, mainVars, workerVars
<1>1. CASE FlushQueued
  <2>1. Collected \in Snapshot
    BY CollectedIsSnapshot
  <2>2. Append(jobs, Collected) \in Seq(Snapshot)
        /\ Len(Append(jobs, Collected)) = Len(jobs) + 1
    BY <2>1, AppendOne
  <2>3. Len(jobs) \in Nat /\ Len(jobs) + 1 <= RateLimit
    BY <1>1, RateLimitPositive DEF FlushQueued, HasRoom
  <2> QED BY <1>1, <2>1, <2>2, <2>3 DEF FlushQueued
<1>2. CASE Signal \/ PollersJoined \/ CloseJobs \/ RunReturns
  BY <1>2 DEF Signal, PollersJoined, CloseJobs, RunReturns
<1>3. CASE FlushMetrics BY <1>3 DEF FlushMetrics
<1>4. CASE FlushTimeout BY <1>4 DEF FlushTimeout
<1>5. CASE BudgetExpires BY <1>5 DEF BudgetExpires
<1> QED BY <1>1, <1>2, <1>3, <1>4, <1>5 DEF Main

LEMMA StutterKeepsTypes == TypeInv /\ UNCHANGED vars => TypeInv'
BY DEF TypeInv, TypeOK, RoomLeft, vars, collectorVars, pollerVars, reporterVars,
       queueVars, mainVars, workerVars

\* Every reachable state has the declared types: in particular the channel
\* never holds more than RateLimit batches, and no batch is tried more often
\* than the pauses of retry.Intervals allow.
THEOREM TypeCorrect == Spec => []TypeInv
<1>1. TypeInv /\ [Next]_vars => TypeInv'
  BY WorkerKeepsTypes, PollerKeepsTypes, ReporterKeepsTypes, MainKeepsTypes,
     StutterKeepsTypes DEF Next, Terminated
<1> QED BY InitTypes, <1>1, PTL DEF Spec

\* The type invariant of the model, as the runs check it.
THEOREM Types == Spec => []TypeOK
<1>1. TypeInv => TypeOK
  BY DEF TypeInv
<1> QED BY TypeCorrect, <1>1, PTL

----------------------------------------------------------------------------
(* Nothing is forgotten: HandOverInv is inductive.                         *)

\* Snapshots are equal when their three parts are.
LEMMA SnapshotsEqual ==
  ASSUME NEW a \in Snapshot, NEW b \in Snapshot,
         a.g = b.g, a.s = b.s, a.n = b.n
  PROVE  a = b
BY DEF Snapshot

LEMMA InitHandOver == Init => HandOverInv
BY AgentAssumption
   DEF Init, HandOverInv, BatchInBetween, NoNewer, Collected, Nothing

\* The part of the state HandOverInv speaks of.
handOverVars ==
  <<collectorVars, pollerVars, reporterVars, queued, mainPc, skipped>>

LEMMA OthersKeepHandOver ==
  ASSUME HandOverInv, UNCHANGED handOverVars
  PROVE  HandOverInv'
BY DEF HandOverInv, BatchInBetween, NoNewer, Collected, ReporterHasThem,
       handOverVars, collectorVars, pollerVars, reporterVars

LEMMA WorkerKeepsHandOver ==
  ASSUME HandOverInv, NEW w \in Workers, Worker(w)
  PROVE  HandOverInv'
<1>1. UNCHANGED handOverVars
  BY DEF Worker, Receive, PrepareFails, WorkerExit, StartAttempt, StopAtCheck,
         AttemptEnds, AttemptFails, PauseElapses, PauseCancelled, LogOutcome,
         handOverVars, queueVars, mainVars
<1> QED BY <1>1, OthersKeepHandOver

\* A poller announces the measurements it adds, and only then may leave.
LEMMA PollerKeepsHandOver ==
  ASSUME TypeInv, HandOverInv, RtPoller \/ PsPoller
  PROVE  HandOverInv'
<1> USE AgentAssumption
    DEF TypeInv, TypeOK, RoomLeft, HandOverInv, BatchInBetween, NoNewer, Collected,
        ReporterHasThem, Snapshot, collectorVars, pollerVars, reporterVars,
        queueVars, mainVars, CtxDone
<1>1. CASE RtUpdate BY <1>1 DEF RtUpdate
<1>2. CASE RtMark BY <1>2 DEF RtMark
<1>3. CASE RtTick \/ RtExit BY <1>3 DEF RtTick, RtExit
<1>4. CASE PsUpdate BY <1>4 DEF PsUpdate
<1>5. CASE PsMark BY <1>5 DEF PsMark
<1>6. CASE PsFail \/ PsTick \/ PsExit BY <1>6 DEF PsFail, PsTick, PsExit
<1> QED BY <1>1, <1>2, <1>3, <1>4, <1>5, <1>6 DEF RtPoller, PsPoller

\* The reporter takes the announcement over before it reads the Collector, and
\* gives it back when it cannot queue what it read.
LEMMA ReporterKeepsHandOver ==
  ASSUME TypeInv, HandOverInv, Reporter
  PROVE  HandOverInv'
<1> USE AgentAssumption
    DEF TypeInv, TypeOK, HandOverInv, BatchInBetween, NoNewer, Collected,
        ReporterHasThem, Snapshot, Nothing, collectorVars, pollerVars, reporterVars,
        queueVars, mainVars, CtxDone
<1>1. CASE ReportTick BY <1>1 DEF ReportTick
<1>2. CASE GetGauge BY <1>2 DEF GetGauge
<1>3. CASE GetCounter
  <2>1. /\ repBatch'.g = repBatch.g /\ repBatch'.s = repBatch.s
        /\ repBatch'.n = polls /\ repBatch' \in Snapshot
    BY <1>3 DEF GetCounter
  <2>2. CASE repBatch' = Nothing
    BY <1>3, <2>1, <2>2 DEF GetCounter
  <2>3. CASE repBatch' # Nothing
    <3>1. repPc' = "enqueue"
      BY <1>3, <2>3 DEF GetCounter
    <3>2. repBatch.g = polls /\ repBatch.s = sysPolls => repBatch' = Collected
      BY <2>1
    <3> QED BY <1>3, <2>1, <3>1, <3>2 DEF GetCounter
  <2> QED BY <2>2, <2>3
<1>4. CASE Enqueue BY <1>4 DEF Enqueue
<1>5. CASE EnqueueCancelled BY <1>5 DEF EnqueueCancelled
<1>6. CASE ReporterExit BY <1>6 DEF ReporterExit
<1> QED BY <1>1, <1>2, <1>3, <1>4, <1>5, <1>6 DEF Reporter

\* Run flushes what dirty announces once nobody else can.
LEMMA MainKeepsHandOver ==
  ASSUME TypeInv, HandOverInv, Signal \/ Main \/ BudgetExpires
  PROVE  HandOverInv'
<1> USE AgentAssumption
    DEF TypeInv, TypeOK, HandOverInv, BatchInBetween, NoNewer, Collected,
        ReporterHasThem, Snapshot, Nothing, collectorVars, pollerVars, reporterVars,
        queueVars, mainVars
<1>1. CASE Signal BY <1>1 DEF Signal
<1>2. CASE PollersJoined BY <1>2 DEF PollersJoined
<1>3. CASE FlushMetrics BY <1>3 DEF FlushMetrics
<1>4. CASE FlushQueued BY <1>4 DEF FlushQueued
<1>5. CASE FlushTimeout BY <1>5 DEF FlushTimeout
<1>6. CASE CloseJobs BY <1>6 DEF CloseJobs
<1>7. CASE BudgetExpires BY <1>7 DEF BudgetExpires
<1>8. CASE RunReturns BY <1>8 DEF RunReturns
<1> QED BY <1>1, <1>2, <1>3, <1>4, <1>5, <1>6, <1>7, <1>8 DEF Main

\* Measurements that the last queued batch lacks are always announced by dirty,
\* by a poller about to raise it, or by the reporter that holds them.
THEOREM HandOverInductive == Spec => [](TypeInv /\ HandOverInv)
<1>1. TypeInv /\ HandOverInv /\ [Next]_vars => HandOverInv'
  <2> SUFFICES ASSUME TypeInv, HandOverInv, [Next]_vars PROVE HandOverInv'
    OBVIOUS
  <2>1. CASE UNCHANGED vars
    BY <2>1, OthersKeepHandOver DEF vars, handOverVars, queueVars, mainVars
  <2> QED
    BY <2>1, WorkerKeepsHandOver, PollerKeepsHandOver, ReporterKeepsHandOver,
       MainKeepsHandOver DEF Next, Terminated
<1> QED BY InitHandOver, TypeCorrect, <1>1, PTL DEF Spec

\* When the queue is closed, the last batch put on it holds every measurement,
\* unless the flush declared it skipped; and nobody can send on it any more.
THEOREM NothingIsForgotten == Spec => []NothingForgotten
<1>1. HandOverInv => NothingForgotten
  BY DEF HandOverInv, NothingForgotten, JobsClosed
<1> QED BY HandOverInductive, <1>1, PTL

\* Nobody can send on the channel once Run has closed it: the reporter, its only
\* other sender, has returned by then.
THEOREM QueueClosedSafely == Spec => []NoSendOnClosedQueue
<1>1. HandOverInv => NoSendOnClosedQueue
  BY DEF HandOverInv, NoSendOnClosedQueue, JobsClosed
<1> QED BY HandOverInductive, <1>1, PTL

----------------------------------------------------------------------------
(* The agent implements ReportingPromise.                                  *)

\* Each step of the agent is a step of the promise or invisible to it.
LEMMA StepKeepsPromise ==
  ASSUME TypeInv, HandOverInv, HandOverInv', TypeInv', [Next]_vars
  PROVE  [Promise!PromiseNext]_(Promise!promiseVars)
<1> USE DEF Promise!promiseVars, Promise!PromiseNext, collectorVars, pollerVars,
            reporterVars, queueVars, mainVars, Collected, JobsClosed
<1>1. CASE UNCHANGED vars
  BY <1>1 DEF vars
<1>2. CASE \E w \in Workers : Worker(w)
  <2>1. UNCHANGED handOverVars
    BY <1>2 DEF Worker, Receive, PrepareFails, WorkerExit, StartAttempt, StopAtCheck,
         AttemptEnds, AttemptFails, PauseElapses, PauseCancelled, LogOutcome,
         handOverVars
  <2> QED BY <2>1 DEF handOverVars
<1>3. ASSUME UNCHANGED <<polls, sysPolls, queued, mainPc, skipped>>
      PROVE  UNCHANGED Promise!promiseVars
  BY <1>3
<1>4. CASE RtUpdate \/ PsUpdate
  <2>1. mainPc \in {"running", "joining"} /\ UNCHANGED <<mainPc, queued, skipped>>
    BY <1>4 DEF RtUpdate, PsUpdate, TypeInv, TypeOK, HandOverInv
  <2>2. Collected' \in Promise!Readings
    BY AgentAssumption DEF TypeInv, TypeOK, Promise!Readings
  <2>3. Promise!NoNewer(Collected, Collected')
    BY <1>4, AgentAssumption DEF RtUpdate, PsUpdate, TypeInv, TypeOK, Promise!NoNewer
  <2> QED BY <2>1, <2>2, <2>3 DEF Promise!Measure
<1>5. CASE Enqueue
  <2>1. mainPc \in {"running", "joining"}
    BY <1>5 DEF Enqueue, TypeInv, TypeOK, HandOverInv
  <2>2. queued' \in Promise!Readings /\ queued' = repBatch
    BY <1>5 DEF Enqueue, TypeInv, TypeOK, Snapshot, Promise!Readings
  <2>3. Promise!NoNewer(queued, repBatch) /\ Promise!NoNewer(repBatch, Collected)
    BY <1>5 DEF Enqueue, HandOverInv, BatchInBetween, Promise!NoNewer
  <2> QED BY <1>5, <2>1, <2>2, <2>3 DEF Enqueue, Promise!HandOver
<1>6. CASE FlushQueued
  <2>1. queued' \in Promise!Readings
    BY <1>6, AgentAssumption DEF FlushQueued, TypeInv, TypeOK, Promise!Readings
  <2>2. Promise!NoNewer(queued, Collected) /\ Promise!NoNewer(Collected, Collected)
    BY AgentAssumption DEF HandOverInv, NoNewer, Promise!NoNewer, TypeInv, TypeOK
  <2> QED BY <1>6, <2>1, <2>2 DEF FlushQueued, Promise!HandOver
<1>7. CASE CloseJobs
  <2>1. ~skipped => queued = Collected
    BY <1>7 DEF CloseJobs, HandOverInv
  <2>2. skipped \in BOOLEAN
    BY DEF TypeInv, TypeOK
  <2> QED BY <1>7, <2>1, <2>2 DEF CloseJobs, Promise!Finish
<1>8. CASE FlushTimeout
  BY <1>8 DEF FlushTimeout
<1>9. CASE Signal \/ PollersJoined \/ FlushMetrics \/ RunReturns
  BY <1>9 DEF Signal, PollersJoined, FlushMetrics, RunReturns
<1>10. CASE RtPoller \/ PsPoller \/ Reporter \/ BudgetExpires
  <2>1. CASE RtMark \/ RtTick \/ RtExit \/ PsFail \/ PsMark \/ PsTick \/ PsExit
    BY <2>1, <1>3 DEF RtMark, RtTick, RtExit, PsFail, PsMark, PsTick, PsExit
  <2>2. CASE ReportTick \/ GetGauge \/ GetCounter \/ EnqueueCancelled \/ ReporterExit
    BY <2>2, <1>3 DEF ReportTick, GetGauge, GetCounter, EnqueueCancelled, ReporterExit
  <2>3. CASE BudgetExpires
    BY <2>3, <1>3 DEF BudgetExpires
  <2> QED
    BY <1>4, <1>5, <1>10, <2>1, <2>2, <2>3 DEF RtPoller, PsPoller, Reporter
<1> QED
  BY <1>1, <1>2, <1>4, <1>5, <1>6, <1>7, <1>8, <1>9, <1>10 DEF Next, Main, Terminated

\* The agent keeps its promise: measurements only grow, what is handed to the
\* workers trails them without ever going back, and the queue is closed with
\* everything handed over or the loss declared.
THEOREM AgentKeepsPromise == Spec => PromiseKept
<1>1. Init => Promise!PromiseInit
  BY DEF Init, Promise!PromiseInit, Collected, Nothing, JobsClosed
<1>2. TypeInv /\ HandOverInv /\ TypeInv' /\ HandOverInv' /\ [Next]_vars
        => [Promise!PromiseNext]_(Promise!promiseVars)
  BY StepKeepsPromise
<1> QED
  BY <1>1, <1>2, HandOverInductive, PTL DEF Spec, PromiseKept, Promise!PromiseSpec

----------------------------------------------------------------------------
(* The workers: retries, cancellation and the drained queue.               *)

\* Inductive with TypeInv and HandOverInv: sendCtx is cancelled and workers
\* leave only after the close, nothing is queued after a worker has left, and a
\* worker without a batch holds none.
WorkersInv ==
  /\ NetworkFailuresRetried
  /\ sendCancelled => JobsClosed
  /\ mainPc = "stopped" => \A w \in Workers : pc[w] = "exit"
  /\ \A w \in Workers :
       /\ pc[w] = "exit" => JobsClosed /\ jobs = <<>>
       /\ pc[w] \in {"recv", "log", "exit"} => batch[w] = Nothing

LEMMA InitWorkers == Init => WorkersInv
BY DEF Init, WorkersInv, NetworkFailuresRetried

\* A worker that hands its batch back for an acceptable reason.
LEMMA GiveBackKeepsWorkers ==
  ASSUME TypeInv, WorkersInv, NEW w \in Workers, NEW e, GiveBack(w, e),
         UNCHANGED <<mainVars, attempt, jobs>>, pc[w] # "exit",
         e \in {"timeout", "network"} => attempt[w] = Pauses,
         e \in {"stopped", "canceled"} => sendCancelled
  PROVE  WorkersInv'
<1> USE DEF TypeInv, TypeOK, WorkersInv, NetworkFailuresRetried, GiveBack, JobsClosed,
            mainVars
<1>1. pc' = [pc EXCEPT ![w] = "log"] /\ batch' = [batch EXCEPT ![w] = Nothing]
      /\ err' = [err EXCEPT ![w] = e]
  OBVIOUS
<1>2. ASSUME NEW v \in Workers, v # w
      PROVE  pc'[v] = pc[v] /\ batch'[v] = batch[v] /\ err'[v] = err[v]
  BY <1>1, <1>2
<1>3. pc'[w] = "log" /\ batch'[w] = Nothing /\ err'[w] = e
  BY <1>1
<1>4. mainPc # "stopped"
  OBVIOUS
<1> QED BY <1>2, <1>3, <1>4

LEMMA WorkerKeepsWorkers ==
  ASSUME TypeInv, WorkersInv, NEW w \in Workers, Worker(w)
  PROVE  WorkersInv'
<1> USE AgentAssumption
    DEF TypeInv, TypeOK, WorkersInv, NetworkFailuresRetried, JobsClosed, mainVars, queueVars
<1>1. CASE Receive(w)
  BY <1>1 DEF Receive
<1>2. CASE PrepareFails(w)
  BY <1>2, GiveBackKeepsWorkers DEF PrepareFails
<1>3. CASE WorkerExit(w)
  BY <1>3 DEF WorkerExit
<1>4. CASE StartAttempt(w)
  BY <1>4 DEF StartAttempt
<1>5. CASE StopAtCheck(w)
  BY <1>5, GiveBackKeepsWorkers DEF StopAtCheck
<1>6. CASE AttemptEnds(w)
  <2>1. PICK e \in AttemptErrors :
          /\ ~isRetriableHTTPError(e) \/ attempt[w] >= Pauses
          /\ GiveBack(w, e)
    BY <1>6 DEF AttemptEnds
  <2>2. e \in {"timeout", "network"} => attempt[w] = Pauses
    BY <2>1 DEF isRetriableHTTPError
  <2>3. e \in {"stopped", "canceled"} => sendCancelled
    BY DEF AttemptErrors, checkResponse, isRetriableStatus, Statuses, TransportErrors
  <2> QED BY <1>6, <2>1, <2>2, <2>3, GiveBackKeepsWorkers DEF AttemptEnds
<1>7. CASE AttemptFails(w)
  BY <1>7 DEF AttemptFails
<1>8. CASE PauseElapses(w)
  BY <1>8 DEF PauseElapses
<1>9. CASE PauseCancelled(w)
  BY <1>9, GiveBackKeepsWorkers DEF PauseCancelled
<1>10. CASE LogOutcome(w)
  BY <1>10 DEF LogOutcome
<1> QED
  BY <1>1, <1>2, <1>3, <1>4, <1>5, <1>6, <1>7, <1>8, <1>9, <1>10 DEF Worker

\* Who puts a batch on the channel finds it open.
LEMMA OthersKeepWorkers ==
  ASSUME TypeInv, HandOverInv, WorkersInv,
         RtPoller \/ PsPoller \/ Reporter \/ Signal \/ Main \/ BudgetExpires
  PROVE  WorkersInv'
<1> USE DEF TypeInv, TypeOK, WorkersInv, NetworkFailuresRetried, JobsClosed,
            mainVars, queueVars, workerVars
<1>1. CASE Enqueue
  BY <1>1 DEF Enqueue, HandOverInv
<1>2. CASE FlushQueued
  BY <1>2 DEF FlushQueued
<1>3. CASE RtPoller \/ PsPoller
  BY <1>3 DEF RtPoller, RtUpdate, RtMark, RtTick, RtExit,
              PsPoller, PsUpdate, PsFail, PsMark, PsTick, PsExit
<1>4. CASE ReportTick \/ GetGauge \/ GetCounter \/ EnqueueCancelled \/ ReporterExit
  BY <1>4 DEF ReportTick, GetGauge, GetCounter, EnqueueCancelled, ReporterExit
<1>5. CASE Signal \/ PollersJoined \/ FlushMetrics \/ FlushTimeout \/ CloseJobs
  BY <1>5 DEF Signal, PollersJoined, FlushMetrics, FlushTimeout, CloseJobs
<1>6. CASE BudgetExpires \/ RunReturns
  BY <1>6 DEF BudgetExpires, RunReturns
<1> QED
  BY <1>1, <1>2, <1>3, <1>4, <1>5, <1>6 DEF Reporter, Main

\* The workers' invariant holds in every reachable state: it rests on Run closing
\* the queue only after the reporter is gone, which HandOverInv says.
THEOREM WorkersInductive == Spec => []WorkersInv
<1>1. TypeInv /\ HandOverInv /\ WorkersInv /\ [Next]_vars => WorkersInv'
  <2> SUFFICES ASSUME TypeInv, HandOverInv, WorkersInv, [Next]_vars PROVE WorkersInv'
    OBVIOUS
  <2>1. CASE UNCHANGED vars
    BY <2>1 DEF vars, mainVars, queueVars, workerVars, WorkersInv,
                NetworkFailuresRetried, JobsClosed
  <2> QED
    BY <2>1, WorkerKeepsWorkers, OthersKeepWorkers DEF Next, Terminated
<1> QED BY InitWorkers, HandOverInductive, <1>1, PTL DEF Spec

\* A batch is given up for a timeout or a failed connection only after every
\* pause, and for the shutdown only when the queue is closed. A batch answered
\* 5xx is given up after one attempt: agent.go:597 is not borne out.
THEOREM NetworkFailuresAreRetried == Spec => []NetworkFailuresRetried
<1>1. WorkersInv => NetworkFailuresRetried
  BY DEF WorkersInv
<1> QED BY WorkersInductive, <1>1, PTL

\* Run returns with the queue drained and no batch in any hand.
THEOREM RunDrainsTheQueue == Spec => []StoppedMeansDrained
<1>1. WorkersInv => StoppedMeansDrained
  BY RateLimitPositive DEF WorkersInv, StoppedMeansDrained, Workers
<1> QED BY WorkersInductive, <1>1, PTL

----------------------------------------------------------------------------
(* The order and the content of the batches.                               *)

\* Inductive with TypeInv and HandOverInv: a batch about to be queued counts the
\* polls its gauges have seen, and no worker holds one newer than the last queued.
OrderInv ==
  /\ CounterCoversGauges
  /\ LeaveInOrder
  /\ repPc = "enqueue" => repBatch.g <= repBatch.n
  /\ \A w \in Workers : NoNewer(batch[w], queued)

LEMMA NoNewerIsAnOrder ==
  ASSUME NEW a \in Snapshot, NEW b \in Snapshot, NEW c \in Snapshot
  PROVE  /\ NoNewer(a, a) /\ NoNewer(Nothing, a)
         /\ NoNewer(a, b) /\ NoNewer(b, c) => NoNewer(a, c)
BY AgentAssumption DEF NoNewer, Snapshot, Nothing

LEMMA InitOrder == Init => OrderInv
<1> SUFFICES ASSUME Init PROVE OrderInv
  OBVIOUS
<1>1. Len(jobs) = 0 /\ 1..Len(jobs) = {}
  BY DEF Init
<1>2. \A w \in Workers : batch[w] = Nothing
  BY DEF Init
<1>3. NoNewer(Nothing, Nothing) /\ Nothing.g <= Nothing.n
  BY DEF NoNewer, Nothing
<1>4. queued = Nothing /\ Collected = Nothing /\ repPc = "wait"
  BY DEF Init, Collected, Nothing
<1> QED BY <1>1, <1>2, <1>3, <1>4 DEF OrderInv, CounterCoversGauges, LeaveInOrder

\* A batch at least as new as the last one queued may be put on the queue, by
\* the reporter or by the flush.
LEMMA QueueingKeepsOrder ==
  ASSUME TypeInv, TypeInv', OrderInv, NEW b \in Snapshot,
         jobs' = Append(jobs, b), queued' = b, UNCHANGED <<polls, sysPolls, batch>>,
         NoNewer(queued, b), NoNewer(b, Collected), b.g <= b.n,
         repPc' # "enqueue"
  PROVE  OrderInv'
<1>t. /\ jobs \in Seq(Snapshot) /\ queued \in Snapshot
      /\ \A w \in Workers : batch[w] \in Snapshot
  BY DEF TypeInv, TypeOK
<1>1. /\ Len(jobs) \in Nat /\ Len(jobs') = Len(jobs) + 1
      /\ jobs'[Len(jobs) + 1] = b
      /\ \A i \in 1..Len(jobs) : jobs'[i] = jobs[i] /\ jobs[i] \in Snapshot
  BY <1>t
<1>2. \A i \in 1..Len(jobs') : i \in 1..Len(jobs) \/ i = Len(jobs) + 1
  BY <1>1
<1>3. \A i \in 1..Len(jobs) : NoNewer(jobs[i], queued)
  BY DEF OrderInv, LeaveInOrder
<1>4. \A i \in 1..Len(jobs') : NoNewer(jobs'[i], b)
  BY <1>t, <1>1, <1>2, <1>3, NoNewerIsAnOrder
<1>5. \A w \in Workers : NoNewer(batch[w], b)
  BY <1>t, NoNewerIsAnOrder DEF OrderInv
<1>6. CounterCoversGauges'
  BY <1>1, <1>2 DEF OrderInv, CounterCoversGauges
<1>7. ASSUME NEW i \in 1..Len(jobs')
      PROVE  /\ NoNewer(jobs'[i], queued')
             /\ \A j \in 1..i : NoNewer(jobs'[j], jobs'[i])
             /\ \A w \in Workers : NoNewer(batch'[w], jobs'[i])
  <2>1. CASE i = Len(jobs) + 1
    <3>1. jobs'[i] = b /\ \A j \in 1..i : j \in 1..Len(jobs')
      BY <1>1, <2>1
    <3> QED BY <1>4, <1>5, <3>1
  <2>2. CASE i \in 1..Len(jobs)
    <3>1. \A j \in 1..i : j \in 1..Len(jobs)
      BY <1>1, <2>2
    <3> QED BY <1>1, <1>4, <2>2, <3>1 DEF OrderInv, LeaveInOrder
  <2> QED BY <1>2, <2>1, <2>2
<1>8. LeaveInOrder'
  BY <1>7 DEF LeaveInOrder, NoNewer, Collected
<1> QED BY <1>5, <1>6, <1>8 DEF OrderInv, NoNewer

\* A worker takes the oldest batch of the queue.
LEMMA ReceiveKeepsOrder ==
  ASSUME TypeInv, TypeInv', OrderInv, NEW w \in Workers, Receive(w)
  PROVE  OrderInv'
<1>t. /\ jobs \in Seq(Snapshot) /\ jobs # <<>>
      /\ batch \in [Workers -> Snapshot]
  BY DEF TypeInv, TypeOK, Receive
<1>1. /\ jobs' = Tail(jobs) /\ batch' = [batch EXCEPT ![w] = Head(jobs)]
      /\ UNCHANGED <<polls, sysPolls, queued, repPc, repBatch>>
  BY DEF Receive, collectorVars, reporterVars
<1>2. /\ Len(jobs) \in Nat /\ Len(jobs) >= 1 /\ Len(jobs') = Len(jobs) - 1
      /\ Head(jobs) = jobs[1]
      /\ \A i \in 1..Len(jobs') : jobs'[i] = jobs[i + 1] /\ i + 1 \in 1..Len(jobs)
  BY <1>t, <1>1
<1>3. \A v \in Workers : batch'[v] = IF v = w THEN jobs[1] ELSE batch[v]
  BY <1>t, <1>1, <1>2
<1>4. 1 \in 1..Len(jobs) /\ \A i \in 1..Len(jobs) : 1 \in 1..i
  BY <1>2
<1>5. CounterCoversGauges'
  BY <1>2, <1>3, <1>4 DEF OrderInv, CounterCoversGauges
<1>6. ASSUME NEW i \in 1..Len(jobs')
      PROVE  /\ NoNewer(jobs'[i], queued')
             /\ \A j \in 1..i : NoNewer(jobs'[j], jobs'[i])
             /\ \A v \in Workers : NoNewer(batch'[v], jobs'[i])
  <2>1. \A j \in 1..i : j \in 1..Len(jobs') /\ j + 1 \in 1..(i + 1)
    BY <1>2
  <2>2. jobs'[i] = jobs[i + 1] /\ i + 1 \in 1..Len(jobs) /\ queued' = queued
    BY <1>1, <1>2
  <2>3. \A j \in 1..i : jobs'[j] = jobs[j + 1]
    BY <1>2, <2>1
  <2> QED BY <1>3, <1>4, <2>1, <2>2, <2>3 DEF OrderInv, LeaveInOrder
<1>7. LeaveInOrder'
  BY <1>1, <1>6 DEF OrderInv, LeaveInOrder, NoNewer, Collected
<1>8. \A v \in Workers : NoNewer(batch'[v], queued')
  BY <1>1, <1>3, <1>4 DEF OrderInv, LeaveInOrder
<1> QED BY <1>1, <1>5, <1>7, <1>8 DEF OrderInv

\* Whatever else a worker does, it keeps its batch or lets go of it.
LEMMA WorkerKeepsOrder ==
  ASSUME TypeInv, TypeInv', OrderInv, NEW w \in Workers, Worker(w)
  PROVE  OrderInv'
<1>1. CASE Receive(w)
  BY <1>1, ReceiveKeepsOrder
<1>2. CASE ~Receive(w)
  <2>1. /\ UNCHANGED <<polls, sysPolls, jobs, queued, repPc, repBatch>>
        /\ batch' = batch \/ batch' = [batch EXCEPT ![w] = Nothing]
    BY <1>2 DEF Worker, PrepareFails, WorkerExit, StartAttempt, StopAtCheck, AttemptEnds,
         AttemptFails, PauseElapses, PauseCancelled, LogOutcome, GiveBack,
         collectorVars, reporterVars, queueVars
  <2>2. batch \in [Workers -> Snapshot] /\ jobs \in Seq(Snapshot) /\ queued \in Snapshot
    BY DEF TypeInv, TypeOK
  <2>3. \A v \in Workers : batch'[v] = batch[v] \/ batch'[v] = Nothing
    BY <2>1, <2>2
  <2>4. Nothing.g <= Nothing.n /\ \A a \in Snapshot : NoNewer(Nothing, a)
    BY NoNewerIsAnOrder DEF Nothing
  <2>5. \A i \in 1..Len(jobs) : jobs[i] \in Snapshot
    BY <2>2
  <2>6. CounterCoversGauges'
    BY <2>1, <2>3, <2>4 DEF OrderInv, CounterCoversGauges
  <2>7. LeaveInOrder'
    BY <2>1, <2>3, <2>4, <2>5 DEF OrderInv, LeaveInOrder, NoNewer, Collected
  <2>8. \A v \in Workers : NoNewer(batch'[v], queued')
    BY <2>1, <2>2, <2>3, <2>4 DEF OrderInv
  <2> QED BY <2>1, <2>6, <2>7, <2>8 DEF OrderInv
<1> QED BY <1>1, <1>2

\* The batches stay as they are while the Collector grows.
LEMMA GrowthKeepsOrder ==
  ASSUME TypeInv, TypeInv', OrderInv, UNCHANGED <<jobs, batch, queued>>,
         polls <= polls', sysPolls <= sysPolls',
         repPc' = "enqueue" => repBatch'.g <= repBatch'.n
  PROVE  OrderInv'
<1>1. NoNewer(queued, Collected)'
  BY AgentAssumption
     DEF OrderInv, LeaveInOrder, NoNewer, Collected, TypeInv, TypeOK, Snapshot
<1> QED BY <1>1 DEF OrderInv, CounterCoversGauges, LeaveInOrder, NoNewer

LEMMA OthersKeepOrder ==
  ASSUME TypeInv, TypeInv', HandOverInv, OrderInv,
         RtPoller \/ PsPoller \/ Reporter \/ Signal \/ Main \/ BudgetExpires
  PROVE  OrderInv'
<1>t. /\ polls \in Nat /\ sysPolls \in Nat /\ repBatch \in Snapshot
      /\ polls \in 0..PollBound /\ sysPolls \in 0..PollBound
  BY AgentAssumption DEF TypeInv, TypeOK
<1>1. CASE Enqueue
  <2>1. NoNewer(queued, repBatch) /\ NoNewer(repBatch, Collected)
    BY <1>1 DEF Enqueue, HandOverInv, BatchInBetween, NoNewer, Collected
  <2>2. repBatch.g <= repBatch.n
    BY <1>1 DEF Enqueue, OrderInv
  <2> QED
    BY <1>t, <1>1, <2>1, <2>2, QueueingKeepsOrder
       DEF Enqueue, collectorVars, workerVars
<1>2. CASE FlushQueued
  <2>1. Collected \in Snapshot
    BY <1>t, CollectedIsSnapshot
  <2>2. NoNewer(queued, Collected) /\ NoNewer(Collected, Collected)
    BY <2>1, NoNewerIsAnOrder DEF OrderInv, LeaveInOrder
  <2>3. Collected.g <= Collected.n /\ repPc' = "done"
    BY <1>t, <1>2 DEF Collected, FlushQueued, HandOverInv, reporterVars
  <2> QED
    BY <1>2, <2>1, <2>2, <2>3, QueueingKeepsOrder
       DEF FlushQueued, collectorVars, workerVars
<1>3. CASE GetCounter
  <2>1. repBatch'.g = repBatch.g /\ repBatch'.n = polls
    BY <1>3 DEF GetCounter, TypeInv, TypeOK, Snapshot
  <2>2. repBatch.g <= polls
    BY <1>3 DEF GetCounter, HandOverInv, BatchInBetween
  <2> QED
    BY <1>t, <1>3, <2>1, <2>2, GrowthKeepsOrder
       DEF GetCounter, collectorVars, queueVars, workerVars
<1>4. CASE RtPoller \/ PsPoller
  <2>1. /\ UNCHANGED <<jobs, batch, queued, repPc, repBatch>>
        /\ polls' = polls \/ polls' = polls + 1
        /\ sysPolls' = sysPolls \/ sysPolls' = sysPolls + 1
    BY <1>4 DEF RtPoller, RtUpdate, RtMark, RtTick, RtExit, PsPoller, PsUpdate,
         PsFail, PsMark, PsTick, PsExit, collectorVars, reporterVars, queueVars, workerVars
  <2> QED BY <1>t, <2>1, GrowthKeepsOrder DEF OrderInv
<1>5. CASE ReportTick \/ GetGauge \/ EnqueueCancelled \/ ReporterExit
  <2>1. UNCHANGED <<jobs, batch, queued, polls, sysPolls>> /\ repPc' # "enqueue"
    BY <1>5 DEF ReportTick, GetGauge, EnqueueCancelled, ReporterExit,
         collectorVars, queueVars, workerVars
  <2> QED BY <1>t, <2>1, GrowthKeepsOrder
<1>6. CASE Signal \/ PollersJoined \/ FlushMetrics \/ FlushTimeout \/ CloseJobs
            \/ RunReturns \/ BudgetExpires
  <2>1. UNCHANGED <<jobs, batch, queued, polls, sysPolls, repPc, repBatch>>
    BY <1>6 DEF Signal, PollersJoined, FlushMetrics, FlushTimeout, CloseJobs, RunReturns,
         BudgetExpires, collectorVars, reporterVars, queueVars, workerVars
  <2> QED BY <1>t, <2>1, GrowthKeepsOrder DEF OrderInv
<1> QED
  BY <1>1, <1>2, <1>3, <1>4, <1>5, <1>6 DEF Reporter, Main

\* The batches' invariant holds in every reachable state.
THEOREM OrderInductive == Spec => []OrderInv
<1>1. TypeInv /\ TypeInv' /\ HandOverInv /\ OrderInv /\ [Next]_vars => OrderInv'
  <2> SUFFICES ASSUME TypeInv, TypeInv', HandOverInv, OrderInv, [Next]_vars
               PROVE  OrderInv'
    OBVIOUS
  <2>1. CASE UNCHANGED vars
    BY <2>1 DEF vars, collectorVars, reporterVars, queueVars, workerVars,
         OrderInv, CounterCoversGauges, LeaveInOrder, NoNewer, Collected
  <2> QED BY <2>1, WorkerKeepsOrder, OthersKeepOrder DEF Next, Terminated
<1> QED BY InitOrder, HandOverInductive, <1>1, PTL DEF Spec

\* A batch never counts fewer polls than its gauges have seen: buildBatch reads
\* the counter after the gauges, and the Collector only grows in between.
THEOREM BatchesCountTheirPolls == Spec => []CounterCoversGauges
<1>1. OrderInv => CounterCoversGauges
  BY DEF OrderInv
<1> QED BY OrderInductive, <1>1, PTL

\* Batches are queued and taken in the order in which they were built.
THEOREM BatchesKeepTheirOrder == Spec => []LeaveInOrder
<1>1. OrderInv => LeaveInOrder
  BY DEF OrderInv
<1> QED BY OrderInductive, <1>1, PTL
=============================================================================
