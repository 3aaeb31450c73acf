------------------------------- MODULE Agent -------------------------------
(***************************************************************************)
(* The metrics agent (internal/agent/agent.go, agent/retry.go) from Run to *)
(* its return: two pollers writing the Collector, the reporter and the     *)
(* final flush putting snapshots on a bounded channel, the workers sending *)
(* them with retry.DoContext (internal/retry/retry.go), and the shutdown.  *)
(*                                                                         *)
(* Data: the Collector is the number of runtime polls and of system polls  *)
(* it has absorbed, a snapshot is the numbers it was built from: g and s   *)
(* for the runtime and the system gauges, n for the counter PollCount.     *)
(*                                                                         *)
(* A definition marked "Mutant" is no part of the model: it is a slip the  *)
(* properties must catch when it stands for the definition it precedes.    *)
(***************************************************************************)
EXTENDS Integers, Sequences

CONSTANTS
  RateLimitArg,   \* the -l flag: how many requests at a time
  Pauses,         \* len(retry.Intervals)
  PollBound       \* bound: runtime polls and system polls per run

ASSUME AgentAssumption ==
  /\ RateLimitArg \in Int
  /\ Pauses \in Nat
  /\ PollBound \in Nat \ {0}

VARIABLES
  polls, sysPolls,          \* Collector: UpdateMetrics / UpdatePSUtilMetrics done
  dirty,                    \* Agent.dirty
  rtPc, psPc,               \* runRuntimePoller, runPSUtilPoller
  repPc, repBatch,          \* runReporter with enqueueMetrics and buildBatch
  jobs,                     \* the channel of batches
  queued,                   \* history: the last batch put on the channel
  mainPc,                   \* Run
  sendCancelled,            \* sendCtx is cancelled
  skipped,                  \* history: flushMetrics gave the last snapshot up
  pc, batch, attempt, err   \* per worker: its place, its batch, DoContext's state

collectorVars == <<polls, sysPolls, dirty>>
pollerVars == <<rtPc, psPc>>
reporterVars == <<repPc, repBatch>>
queueVars == <<jobs, queued>>
mainVars == <<mainPc, sendCancelled, skipped>>
workerVars == <<pc, batch, attempt, err>>
vars == <<collectorVars, pollerVars, reporterVars, queueVars, mainVars, workerVars>>

\* NewAgent: a limit that is not positive is treated as one.
RateLimit == IF RateLimitArg <= 0 THEN 1 ELSE RateLimitArg

Workers == 1..RateLimit

Snapshot == [g : 0..PollBound, s : 0..PollBound, n : 0..PollBound]

Nothing == [g |-> 0, s |-> 0, n |-> 0]

\* What a snapshot built now would hold (UpdateMetrics sets the runtime
\* gauges and increments PollCount under one lock).
Collected == [g |-> polls, s |-> sysPolls, n |-> polls]

\* ctx, cancelled by Run as soon as the signal arrives.
CtxDone == mainPc # "running"

JobsClosed == mainPc \in {"drain", "stopped"}

HasRoom == Len(jobs) < RateLimit

----------------------------------------------------------------------------
(* Errors of one attempt: checkResponse for an answer, client.Do otherwise. *)

Statuses == {"2xx", "4xx", "5xx"}

isRetriableStatus(status) == status = "5xx"

checkResponse(status) ==
  IF isRetriableStatus(status) THEN "retriable status"
  ELSE IF status = "2xx" THEN "nil" ELSE "rejected"

TransportErrors == {"timeout", "network", "other"}

\* A timeout, a net.OpError or one of three errnos; nothing else.
isRetriableHTTPError(e) == e \in {"timeout", "network"}

\* What sendOnce can return; a cancelled sendCtx aborts the request.
AttemptErrors ==
  {checkResponse(s) : s \in Statuses} \cup TransportErrors
    \cup (IF sendCancelled THEN {"canceled"} ELSE {})

Errors == {"nil", "rejected", "retriable status", "timeout", "network",
           "other", "canceled", "stopped", "unsendable"}

----------------------------------------------------------------------------
Init ==
  /\ polls = 0 /\ sysPolls = 0 /\ dirty = FALSE
  /\ rtPc = "update" /\ psPc = "update"
  /\ repPc = "wait" /\ repBatch = Nothing
  /\ jobs = <<>> /\ queued = Nothing
  /\ mainPc = "running" /\ sendCancelled = FALSE /\ skipped = FALSE
  /\ pc = [w \in Workers |-> "recv"]
  /\ batch = [w \in Workers |-> Nothing]
  /\ attempt = [w \in Workers |-> 0]
  /\ err = [w \in Workers |-> "nil"]

----------------------------------------------------------------------------
(* runRuntimePoller: UpdateMetrics and dirty.Store(true) are two steps. *)

RtUpdate ==
  /\ rtPc = "update"
  /\ polls' = polls + 1
  /\ rtPc' = "mark"
  /\ UNCHANGED <<sysPolls, dirty, psPc, reporterVars, queueVars, mainVars, workerVars>>

RtMark ==
  /\ rtPc = "mark"
  /\ dirty' = TRUE
  /\ rtPc' = "wait"
  /\ UNCHANGED <<polls, sysPolls, psPc, reporterVars, queueVars, mainVars, workerVars>>

RtTick ==
  /\ rtPc = "wait"
  /\ polls < PollBound
  /\ rtPc' = "update"
  /\ UNCHANGED <<collectorVars, psPc, reporterVars, queueVars, mainVars, workerVars>>

RtExit ==
  /\ rtPc = "wait"
  /\ CtxDone
  /\ rtPc' = "done"
  /\ UNCHANGED <<collectorVars, psPc, reporterVars, queueVars, mainVars, workerVars>>

(* runPSUtilPoller: as above, but a failed collection changes nothing. *)

PsUpdate ==
  /\ psPc = "update"
  /\ sysPolls' = sysPolls + 1
  /\ psPc' = "mark"
  /\ UNCHANGED <<polls, dirty, rtPc, reporterVars, queueVars, mainVars, workerVars>>

PsFail ==
  /\ psPc = "update"
  /\ psPc' = "wait"
  /\ UNCHANGED <<collectorVars, rtPc, reporterVars, queueVars, mainVars, workerVars>>

PsMark ==
  /\ psPc = "mark"
  /\ dirty' = TRUE
  /\ psPc' = "wait"
  /\ UNCHANGED <<polls, sysPolls, rtPc, reporterVars, queueVars, mainVars, workerVars>>

PsTick ==
  /\ psPc = "wait"
  /\ sysPolls < PollBound
  /\ psPc' = "update"
  /\ UNCHANGED <<collectorVars, rtPc, reporterVars, queueVars, mainVars, workerVars>>

PsExit ==
  /\ psPc = "wait"
  /\ CtxDone
  /\ psPc' = "done"
  /\ UNCHANGED <<collectorVars, rtPc, reporterVars, queueVars, mainVars, workerVars>>

----------------------------------------------------------------------------
(* runReporter. enqueueMetrics lowers dirty first, then builds the batch   *)
(* with two separately locked reads, then waits for room or for ctx.       *)

ReportTick ==
  /\ repPc = "wait"
  /\ dirty' = FALSE
  /\ repPc' = "gauges"
  /\ UNCHANGED <<polls, sysPolls, pollerVars, repBatch, queueVars, mainVars, workerVars>>

\* Mutant: the gauges are read without the lock, as they are or were.
GetGaugeUnlocked ==
  /\ repPc = "gauges"
  /\ \E g \in 0..polls, s \in 0..sysPolls :
       repBatch' = [repBatch EXCEPT !.g = g, !.s = s]
  /\ repPc' = "counters"
  /\ UNCHANGED <<collectorVars, pollerVars, queueVars, mainVars, workerVars>>

GetGauge ==
  /\ repPc = "gauges"
  /\ repBatch' = [repBatch EXCEPT !.g = polls, !.s = sysPolls]
  /\ repPc' = "counters"
  /\ UNCHANGED <<collectorVars, pollerVars, queueVars, mainVars, workerVars>>

\* Mutant: the second read of buildBatch takes the gauges again.
GetGaugeTwice ==
  /\ repPc = "counters"
  /\ repBatch' = [repBatch EXCEPT !.g = polls, !.s = sysPolls]
  /\ repPc' = IF repBatch' = Nothing THEN "wait" ELSE "enqueue"
  /\ UNCHANGED <<collectorVars, pollerVars, queueVars, mainVars, workerVars>>

GetCounter ==
  /\ repPc = "counters"
  /\ repBatch' = [repBatch EXCEPT !.n = polls]
  /\ repPc' = IF repBatch' = Nothing THEN "wait" ELSE "enqueue"
  /\ UNCHANGED <<collectorVars, pollerVars, queueVars, mainVars, workerVars>>

\* Mutant: dirty is lowered once the batch is queued, not before it is built.
EnqueueThenLower ==
  /\ repPc = "enqueue"
  /\ HasRoom
  /\ jobs' = Append(jobs, repBatch)
  /\ queued' = repBatch
  /\ dirty' = FALSE
  /\ repBatch' = Nothing
  /\ repPc' = "wait"
  /\ UNCHANGED <<polls, sysPolls, pollerVars, mainVars, workerVars>>

Enqueue ==
  /\ repPc = "enqueue"
  /\ HasRoom
  /\ jobs' = Append(jobs, repBatch)
  /\ queued' = repBatch
  /\ repBatch' = Nothing
  /\ repPc' = "wait"
  /\ UNCHANGED <<collectorVars, pollerVars, mainVars, workerVars>>

\* Mutant: the batch is dropped and the flag stays down.
EnqueueCancelledQuietly ==
  /\ repPc = "enqueue"
  /\ CtxDone
  /\ repBatch' = Nothing
  /\ repPc' = "wait"
  /\ UNCHANGED <<collectorVars, pollerVars, queueVars, mainVars, workerVars>>

\* Mutant: the select has no ctx.Done() case.
EnqueueUncancellable == FALSE

\* The batch is dropped and the flag raised again: flushMetrics takes over.
EnqueueCancelled ==
  /\ repPc = "enqueue"
  /\ CtxDone
  /\ dirty' = TRUE
  /\ repBatch' = Nothing
  /\ repPc' = "wait"
  /\ UNCHANGED <<polls, sysPolls, pollerVars, queueVars, mainVars, workerVars>>

ReporterExit ==
  /\ repPc = "wait"
  /\ CtxDone
  /\ repPc' = "done"
  /\ UNCHANGED <<collectorVars, pollerVars, repBatch, queueVars, mainVars, workerVars>>

----------------------------------------------------------------------------
(* Run after the start: wait for the signal, join, flush, close, drain. *)

Signal ==
  /\ mainPc = "running"
  /\ mainPc' = "joining"
  /\ UNCHANGED <<collectorVars, pollerVars, reporterVars, queueVars,
                 sendCancelled, skipped, workerVars>>

\* Mutant: the reporter is not in the wait group.
JoinWithoutReporter ==
  /\ mainPc = "joining"
  /\ rtPc = "done" /\ psPc = "done"
  /\ mainPc' = "flush"
  /\ UNCHANGED <<collectorVars, pollerVars, reporterVars, queueVars,
                 sendCancelled, skipped, workerVars>>

\* pollersWG.Wait()
PollersJoined ==
  /\ mainPc = "joining"
  /\ rtPc = "done" /\ psPc = "done" /\ repPc = "done"
  /\ mainPc' = "flush"
  /\ UNCHANGED <<collectorVars, pollerVars, reporterVars, queueVars,
                 sendCancelled, skipped, workerVars>>

\* Mutant: the test of dirty is inverted.
FlushMetricsInverted ==
  /\ mainPc = "flush"
  /\ mainPc' = IF ~dirty /\ Collected # Nothing THEN "flushing" ELSE "close"
  /\ UNCHANGED <<collectorVars, pollerVars, reporterVars, queueVars,
                 sendCancelled, skipped, workerVars>>

\* flushMetrics up to its select; the pollers are gone, so buildBatch
\* reads one state of the Collector.
FlushMetrics ==
  /\ mainPc = "flush"
  /\ mainPc' = IF dirty /\ Collected # Nothing THEN "flushing" ELSE "close"
  /\ UNCHANGED <<collectorVars, pollerVars, reporterVars, queueVars,
                 sendCancelled, skipped, workerVars>>

FlushQueued ==
  /\ mainPc = "flushing"
  /\ HasRoom
  /\ jobs' = Append(jobs, Collected)
  /\ queued' = Collected
  /\ mainPc' = "close"
  /\ UNCHANGED <<collectorVars, pollerVars, reporterVars, sendCancelled,
                 skipped, workerVars>>

\* The flush timer fires first: the snapshot is skipped with a warning.
FlushTimeout ==
  /\ mainPc = "flushing"
  /\ skipped' = TRUE
  /\ mainPc' = "close"
  /\ UNCHANGED <<collectorVars, pollerVars, reporterVars, queueVars,
                 sendCancelled, workerVars>>

CloseJobs ==
  /\ mainPc = "close"
  /\ mainPc' = "drain"
  /\ UNCHANGED <<collectorVars, pollerVars, reporterVars, queueVars,
                 sendCancelled, skipped, workerVars>>

\* stopTimer: the budget of the shutdown is spent.
BudgetExpires ==
  /\ mainPc = "drain"
  /\ ~sendCancelled
  /\ sendCancelled' = TRUE
  /\ UNCHANGED <<collectorVars, pollerVars, reporterVars, queueVars, mainPc,
                 skipped, workerVars>>

\* workersWG.Wait() and the return of Run.
RunReturns ==
  /\ mainPc = "drain"
  /\ \A w \in Workers : pc[w] = "exit"
  /\ mainPc' = "stopped"
  /\ UNCHANGED <<collectorVars, pollerVars, reporterVars, queueVars,
                 sendCancelled, skipped, workerVars>>

----------------------------------------------------------------------------
(* worker: range over jobs, sendMetricsBatch, retry.DoContext. *)

\* The batch is finished with, for the reason e: it remains to log it.
GiveBack(w, e) ==
  /\ err' = [err EXCEPT ![w] = e]
  /\ batch' = [batch EXCEPT ![w] = Nothing]
  /\ pc' = [pc EXCEPT ![w] = "log"]

Receive(w) ==
  /\ pc[w] = "recv"
  /\ jobs # <<>>
  /\ batch' = [batch EXCEPT ![w] = Head(jobs)]
  /\ jobs' = Tail(jobs)
  /\ pc' = [pc EXCEPT ![w] = "check"]
  /\ UNCHANGED <<collectorVars, pollerVars, reporterVars, queued, mainVars, attempt, err>>

\* json.Marshal or preparePayload fails: the batch is logged and dropped.
PrepareFails(w) ==
  /\ pc[w] = "check"
  /\ attempt[w] = 0
  /\ GiveBack(w, "unsendable")
  /\ UNCHANGED <<collectorVars, pollerVars, reporterVars, queueVars, mainVars, attempt>>

\* Mutant: a worker leaves when the channel is closed, drained or not.
ExitUndrained(w) ==
  /\ pc[w] = "recv"
  /\ JobsClosed
  /\ pc' = [pc EXCEPT ![w] = "exit"]
  /\ UNCHANGED <<collectorVars, pollerVars, reporterVars, queueVars, mainVars,
                 batch, attempt, err>>

WorkerExit(w) ==
  /\ pc[w] = "recv"
  /\ jobs = <<>>
  /\ JobsClosed
  /\ pc' = [pc EXCEPT ![w] = "exit"]
  /\ UNCHANGED <<collectorVars, pollerVars, reporterVars, queueVars, mainVars,
                 batch, attempt, err>>

\* The test of ctx.Err() before an attempt, passed or not.
StartAttempt(w) ==
  /\ pc[w] = "check"
  /\ ~sendCancelled
  /\ pc' = [pc EXCEPT ![w] = "request"]
  /\ UNCHANGED <<collectorVars, pollerVars, reporterVars, queueVars, mainVars,
                 batch, attempt, err>>

StopAtCheck(w) ==
  /\ pc[w] = "check"
  /\ sendCancelled
  /\ GiveBack(w, "stopped")
  /\ UNCHANGED <<collectorVars, pollerVars, reporterVars, queueVars, mainVars, attempt>>

\* Mutant: the last pause is never taken.
EndsOnePauseEarly(w) ==
  /\ pc[w] = "request"
  /\ \E e \in AttemptErrors :
       /\ ~isRetriableHTTPError(e) \/ attempt[w] + 1 >= Pauses
       /\ GiveBack(w, e)
  /\ UNCHANGED <<collectorVars, pollerVars, reporterVars, queueVars, mainVars, attempt>>

\* The attempt is over: success, an error not worth retrying, or no pause left.
AttemptEnds(w) ==
  /\ pc[w] = "request"
  /\ \E e \in AttemptErrors :
       /\ ~isRetriableHTTPError(e) \/ attempt[w] >= Pauses
       /\ GiveBack(w, e)
  /\ UNCHANGED <<collectorVars, pollerVars, reporterVars, queueVars, mainVars, attempt>>

AttemptFails(w) ==
  /\ pc[w] = "request"
  /\ attempt[w] < Pauses
  /\ \E e \in AttemptErrors : isRetriableHTTPError(e)
  /\ pc' = [pc EXCEPT ![w] = "pause"]
  /\ UNCHANGED <<collectorVars, pollerVars, reporterVars, queueVars, mainVars,
                 batch, attempt, err>>

\* Mutant: the attempts are not counted.
PauseUncounted(w) ==
  /\ pc[w] = "pause"
  /\ pc' = [pc EXCEPT ![w] = "check"]
  /\ UNCHANGED <<collectorVars, pollerVars, reporterVars, queueVars, mainVars,
                 batch, attempt, err>>

PauseElapses(w) ==
  /\ pc[w] = "pause"
  /\ attempt' = [attempt EXCEPT ![w] = @ + 1]
  /\ pc' = [pc EXCEPT ![w] = "check"]
  /\ UNCHANGED <<collectorVars, pollerVars, reporterVars, queueVars, mainVars,
                 batch, err>>

PauseCancelled(w) ==
  /\ pc[w] = "pause"
  /\ sendCancelled
  /\ GiveBack(w, "stopped")
  /\ UNCHANGED <<collectorVars, pollerVars, reporterVars, queueVars, mainVars, attempt>>

\* The outcome is logged, and the locals of the two functions are gone.
LogOutcome(w) ==
  /\ pc[w] = "log"
  /\ attempt' = [attempt EXCEPT ![w] = 0]
  /\ err' = [err EXCEPT ![w] = "nil"]
  /\ pc' = [pc EXCEPT ![w] = "recv"]
  /\ UNCHANGED <<collectorVars, pollerVars, reporterVars, queueVars, mainVars, batch>>

----------------------------------------------------------------------------
RtPoller == RtUpdate \/ RtMark \/ RtTick \/ RtExit

PsPoller == PsUpdate \/ PsFail \/ PsMark \/ PsTick \/ PsExit

Reporter ==
  ReportTick \/ GetGauge \/ GetCounter \/ Enqueue \/ EnqueueCancelled \/ ReporterExit

\* The steps of Run that need neither a signal nor the budget timer.
Main ==
  PollersJoined \/ FlushMetrics \/ FlushQueued \/ FlushTimeout \/ CloseJobs \/ RunReturns

Worker(w) ==
  \/ Receive(w) \/ PrepareFails(w) \/ WorkerExit(w)
  \/ StartAttempt(w) \/ StopAtCheck(w)
  \/ AttemptEnds(w) \/ AttemptFails(w)
  \/ PauseElapses(w) \/ PauseCancelled(w) \/ LogOutcome(w)

\* Run has returned: nothing is left to do.
Terminated == mainPc = "stopped" /\ UNCHANGED vars

Next ==
  \/ RtPoller \/ PsPoller \/ Reporter
  \/ Signal \/ Main \/ BudgetExpires
  \/ \E w \in Workers : Worker(w)
  \/ Terminated

(* Tickers tick and goroutines run (WF). A select whose ctx.Done() stays   *)
(* ready picks it in the end, for Go chooses at random among the ready     *)
(* cases (SF). No signal has to come.                                      *)
LocalFairness ==
  /\ WF_vars(RtPoller) /\ SF_vars(RtExit)
  /\ WF_vars(PsPoller) /\ SF_vars(PsExit)
  /\ WF_vars(Reporter) /\ SF_vars(ReporterExit)
  /\ WF_vars(Main)

(* An attempt ends within client.Timeout and a pause within its interval.  *)
(* The budget timer is not assumed to fire. What does not name this        *)
(* assumption holds even if the workers hang for ever.                     *)
WorkerFairness == \A w \in Workers : WF_vars(Worker(w))

Spec == Init /\ [][Next]_vars

FairSpec == Spec /\ LocalFairness

----------------------------------------------------------------------------
\* Type invariant: the channel never holds more than RateLimit batches.
TypeOK ==
  /\ polls \in 0..PollBound /\ sysPolls \in 0..PollBound /\ dirty \in BOOLEAN
  /\ rtPc \in {"update", "mark", "wait", "done"}
  /\ psPc \in {"update", "mark", "wait", "done"}
  /\ repPc \in {"wait", "gauges", "counters", "enqueue", "done"}
  /\ repBatch \in Snapshot
  /\ jobs \in Seq(Snapshot) /\ Len(jobs) <= RateLimit
  /\ queued \in Snapshot
  /\ mainPc \in {"running", "joining", "flush", "flushing", "close", "drain", "stopped"}
  /\ sendCancelled \in BOOLEAN /\ skipped \in BOOLEAN
  /\ pc \in [Workers -> {"recv", "check", "request", "pause", "log", "exit"}]
  /\ batch \in [Workers -> Snapshot]
  /\ attempt \in [Workers -> 0..Pauses]
  /\ err \in [Workers -> Errors]

\* Once the queue is closed the last batch put on it holds every measurement
\* ever made, unless flushMetrics warned that it skipped it: "По сигналу агент
\* не теряет уже собранные данные" (Run). It rests on where dirty is lowered
\* and raised among the steps of three goroutines.
NothingForgotten == JobsClosed /\ ~skipped => queued = Collected

\* A batch never counts fewer polls than its gauges have seen, although
\* buildBatch locks the Collector twice and pollers run in between.
CounterCoversGauges ==
  /\ \A i \in 1..Len(jobs) : jobs[i].g <= jobs[i].n
  /\ \A w \in Workers : batch[w].g <= batch[w].n

\* Snapshot a is no newer than snapshot b, metric by metric.
NoNewer(a, b) == a.g <= b.g /\ a.s <= b.s /\ a.n <= b.n

\* Batches leave in the order they were built: the queue never holds a batch
\* older than one a worker has taken, nor one newer than the last one queued
\* (enqueueMetrics and flushMetrics append, the workers take the head).
LeaveInOrder ==
  /\ \A i \in 1..Len(jobs) :
       /\ NoNewer(jobs[i], queued)
       /\ \A j \in 1..i : NoNewer(jobs[j], jobs[i])
       /\ \A w \in Workers : NoNewer(batch[w], jobs[i])
  /\ NoNewer(queued, Collected)

\* Nobody can still send on the channel when Run closes it: the reporter has
\* returned, else its select would panic.
NoSendOnClosedQueue == JobsClosed => repPc = "done"

\* A worker gives a batch up for a timeout or a failed connection only after
\* every pause of retry.Intervals, and because of sendCtx only when Run is
\* already draining the closed queue. It says nothing of a 5xx answer: the comment
\* of checkResponse (agent.go:597) holds it to be worth repeating, while the
\* batch is given up at once, for isRetriableHTTPError does not know its error.
NetworkFailuresRetried ==
  \A w \in Workers : pc[w] = "log" =>
    /\ err[w] \in {"timeout", "network"} => attempt[w] = Pauses
    /\ err[w] \in {"stopped", "canceled"} => JobsClosed

\* Run returns only with the queue empty and no batch in any hand.
StoppedMeansDrained ==
  mainPc = "stopped" => jobs = <<>> /\ \A w \in Workers : batch[w] = Nothing

\* After a signal Run returns, even if the budget timer never fires: the
\* retries of what is queued are finite.
ShutdownCompletes == WorkerFairness => (CtxDone ~> mainPc = "stopped")

\* Every poll reaches the queue in some batch, whether or not the agent is
\* stopped in between, unless the final flush is skipped.
MeasurementsHandedOver ==
  WorkerFairness => \A k \in 1..PollBound : polls >= k ~> (queued.n >= k \/ skipped)

\* After a signal the pollers stop, the last snapshot is queued or skipped and
\* the queue is closed although no worker moves again: neither the reporter
\* nor the flush waits for workers busy with retries (enqueueMetrics, Run).
QueueClosedDespiteBusyWorkers == CtxDone ~> JobsClosed

----------------------------------------------------------------------------
\* Who still vouches for measurements that the last queued batch lacks.
ReporterHasThem ==
  \/ repPc = "gauges"
  \/ repPc = "counters" /\ repBatch.g = polls /\ repBatch.s = sysPolls
  \/ repPc = "enqueue" /\ repBatch = Collected

\* The batch in the reporter's hands is between the last queued one and the
\* Collector, as far as it is built.
BatchInBetween ==
  /\ repPc \in {"counters", "enqueue"} =>
       /\ queued.g <= repBatch.g /\ repBatch.g <= polls
       /\ queued.s <= repBatch.s /\ repBatch.s <= sysPolls
  /\ repPc = "enqueue" => queued.n <= repBatch.n /\ repBatch.n <= polls
  /\ repPc \in {"wait", "gauges", "done"} => repBatch = Nothing

\* Inductive: measurements missing from the last queued batch are announced by
\* dirty, or about to be by a poller, or in the reporter's hands; once the
\* pollers are joined only dirty is left to announce them.
HandOverInv ==
  /\ BatchInBetween
  /\ NoNewer(queued, Collected)
  /\ queued = Collected \/ dirty \/ rtPc = "mark" \/ psPc = "mark" \/ ReporterHasThem
  /\ mainPc \notin {"running", "joining"} =>
       rtPc = "done" /\ psPc = "done" /\ repPc = "done"
  /\ mainPc \in {"close", "drain", "stopped"} => skipped \/ queued = Collected

\* The promise this implements, by the mapping: what is collected is measured,
\* the last batch queued is handed over, a closed queue is the end.
Promise == INSTANCE ReportingPromise WITH
  Bound <- PollBound,
  measured <- Collected, handed <- queued,
  finished <- JobsClosed, lost <- (skipped /\ JobsClosed)

\* Every step of the agent is a step of ReportingPromise or changes nothing it
\* speaks of.
PromiseKept == Promise!PromiseSpec
=============================================================================
