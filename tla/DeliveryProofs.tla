--------------------------- MODULE DeliveryProofs ---------------------------
(***************************************************************************)
(* Theorems about Delivery, for every rate limit and every bound: the      *)
(* composition is an agent, so that what AgentProofs shows holds of it,    *)
(* and what the server shows when the agent has left.                      *)
(***************************************************************************)
EXTENDS Delivery, AgentProofs

\* The server's steps are invisible to the agent, the others are the agent's.
LEMMA StepIsAgentStep == [DeliveryNext]_allVars => [Next]_vars
<1>1. CASE \E w \in Workers : Serve(w)
  BY <1>1 DEF Serve, Refuse, Apply
<1>2. CASE \E w \in Workers : Deliver(w)
  <2>1. PICK w \in Workers : Deliver(w)
    BY <1>2
  <2>2. Deliver(w) => Worker(w)
    BY DEF Deliver, Send, Answered, Abandon, WithoutAnswer, GiveUp, Local, Worker
  <2> QED BY <2>1, <2>2 DEF Next
<1>3. CASE \E b \in BagToSet(late) : ApplyLate(b) \/ ForgetLate(b)
  BY <1>3 DEF ApplyLate, ForgetLate
<1>4. CASE Elsewhere
  BY <1>4 DEF Elsewhere, Next
<1>5. CASE UNCHANGED allVars
  BY <1>5 DEF allVars
<1> QED BY <1>1, <1>2, <1>3, <1>4, <1>5 DEF DeliveryNext

\* Joined to the server the agent does nothing that Agent does not allow.
THEOREM CompositionIsAgent == DeliverySpec => AgentBehaves
<1>1. DeliveryInit => Init
  BY DEF DeliveryInit
<1> QED BY <1>1, StepIsAgentStep, PTL DEF DeliverySpec, AgentBehaves, Spec

----------------------------------------------------------------------------
(* What the server shows when the agent has left.                          *)

\* A worker has a request out exactly while it waits for its end; nothing is
\* late as long as nothing was abandoned.
ReqInv ==
  /\ req \in [Workers -> {"none", "sent"} \cup Statuses]
  /\ \A w \in Workers : req[w] # "none" <=> pc[w] = "request"
  /\ clean => late = EmptyBag

\* The batch of worker w is on its way to the store.
OnItsWay(w) == pc[w] \in {"check", "pause"} \/ (pc[w] = "request" /\ req[w] # "2xx")

\* Inductive with ReqInv: of one worker that has lost nothing, the last batch
\* queued is still on the queue, or on its way, or in the store.
ShownInv ==
  RateLimit = 1 /\ clean =>
    IF Len(jobs) # 0 THEN Head(jobs) = queued
    ELSE Gauges(queued) = IF OnItsWay(1) THEN Gauges(batch[1]) ELSE Gauges(store)

LEMMA InitShown == DeliveryInit => ReqInv /\ ShownInv
BY RateLimitPositive
   DEF DeliveryInit, Init, ReqInv, ShownInv, OnItsWay, Gauges, Nothing, Workers, Statuses

\* Nothing that was given up is of concern.
LEMMA UncleanShown == clean' = FALSE => ShownInv'
BY DEF ShownInv

\* Serving a request moves its batch into the store, or spoils it.
LEMMA ServeKeepsShown ==
  ASSUME TypeInv, ReqInv, ShownInv, NEW w \in Workers, Serve(w)
  PROVE  ReqInv' /\ ShownInv'
<1> USE DEF vars, collectorVars, pollerVars, reporterVars, queueVars, mainVars, workerVars
<1>1. pc[w] = "request"
  BY DEF Serve, Refuse, Apply, ReqInv
<1>2. CASE Refuse(w)
  <2>1. PICK status \in {"4xx", "5xx"} : req' = [req EXCEPT ![w] = status]
    BY <1>2 DEF Refuse, BodyErrors, HashErrors, DecryptErrors, GzipErrors, BatchErrors
  <2>2. ReqInv'
    BY <1>1, <1>2, <2>1 DEF Refuse, ReqInv, Statuses
  <2>3. ShownInv'
    BY <1>1, <1>2, <2>1 DEF Refuse, ReqInv, ShownInv, OnItsWay, Workers
  <2> QED BY <2>2, <2>3
<1>3. CASE Apply(w)
  <2>1. ReqInv'
    BY <1>1, <1>3 DEF Apply, ReqInv, Statuses
  <2>2. Gauges(store') = Gauges(batch[w])
    BY <1>3 DEF Apply, UpdateBatch, Gauges
  <2>3. RateLimit = 1 => w = 1
    BY DEF Workers
  <2>4. ShownInv'
    BY <1>1, <1>3, <2>2, <2>3 DEF Apply, ReqInv, ShownInv, OnItsWay, Gauges
  <2> QED BY <2>1, <2>4
<1> QED BY <1>2, <1>3 DEF Serve

\* A step of the worker: only a receive and an answer keep things clean and move
\* a batch.
LEMMA DeliverKeepsShown ==
  ASSUME TypeInv, WorkersInv, ReqInv, ShownInv, NEW w \in Workers, Deliver(w)
  PROVE  ReqInv' /\ ShownInv'
<1> USE DEF vars, serverVars, collectorVars, pollerVars, reporterVars, queueVars, mainVars,
            workerVars
<1>1. RateLimit = 1 => w = 1
  BY DEF Workers
<1>2. pc \in [Workers -> {"recv", "check", "request", "pause", "log", "exit"}]
      /\ batch \in [Workers -> Snapshot] /\ jobs \in Seq(Snapshot) /\ Len(jobs) <= RateLimit
  BY DEF TypeInv, TypeOK
<1>3. CASE Send(w)
  <2>1. pc' = [pc EXCEPT ![w] = "request"] /\ req' = [req EXCEPT ![w] = "sent"]
        /\ pc[w] = "check" /\ UNCHANGED <<jobs, queued, batch, store, late, clean>>
    BY <1>3 DEF Send, StartAttempt
  <2> QED BY <1>1, <1>2, <2>1 DEF ReqInv, ShownInv, OnItsWay
<1>4. CASE Answered(w)
  <2>1. PICK e : GiveBack(w, e)
    BY <1>4 DEF Answered, AttemptEnds
  <2>2. pc' = [pc EXCEPT ![w] = "log"] /\ req' = [req EXCEPT ![w] = "none"]
        /\ pc[w] = "request" /\ UNCHANGED <<jobs, queued, store, late>>
    BY <1>4, <2>1 DEF Answered, AttemptEnds, GiveBack
  <2>3. clean' => clean /\ req[w] = "2xx"
    BY <1>4 DEF Answered, checkResponse, isRetriableStatus
  <2> QED BY <1>1, <1>2, <2>2, <2>3 DEF ReqInv, ShownInv, OnItsWay
<1>5. CASE Abandon(w)
  <2>1. pc[w] = "request" /\ pc'[w] \in {"log", "pause"}
        /\ \A v \in Workers : v # w => pc'[v] = pc[v]
    BY <1>2, <1>5 DEF Abandon, WithoutAnswer, AttemptEnds, AttemptFails, GiveBack
  <2>2. req' = [req EXCEPT ![w] = "none"] /\ clean' = FALSE
    BY <1>5 DEF Abandon
  <2>3. ReqInv'
    BY <2>1, <2>2 DEF ReqInv
  <2> QED BY <2>2, <2>3, UncleanShown
<1>6. CASE GiveUp(w)
  <2>1. pc[w] \in {"check", "pause"} /\ pc' = [pc EXCEPT ![w] = "log"]
    BY <1>6 DEF GiveUp, PrepareFails, StopAtCheck, PauseCancelled, GiveBack
  <2>2. UNCHANGED req /\ clean' = FALSE
    BY <1>6 DEF GiveUp
  <2>3. ReqInv'
    BY <1>2, <2>1, <2>2 DEF ReqInv
  <2> QED BY <2>2, <2>3, UncleanShown
<1>7. CASE Local(w)
  <2>1. CASE Receive(w)
    <3>1. /\ pc[w] = "recv" /\ pc' = [pc EXCEPT ![w] = "check"]
          /\ batch' = [batch EXCEPT ![w] = Head(jobs)] /\ jobs' = Tail(jobs)
          /\ UNCHANGED <<queued, serverVars>> /\ jobs # <<>>
      BY <1>7, <2>1 DEF Local, Receive
    <3>2. Len(jobs) # 0 /\ Len(Tail(jobs)) = Len(jobs) - 1 /\ Len(jobs) \in Nat
      BY <1>2, <3>1, HeadTail
    <3>3. ReqInv'
      BY <1>2, <3>1 DEF ReqInv
    <3>4. ShownInv'
      <4>1. ASSUME RateLimit = 1, clean PROVE Len(jobs') = 0 /\ batch'[1] = queued
        BY <1>1, <1>2, <3>1, <3>2, <4>1 DEF ShownInv
      <4>2. RateLimit = 1 => pc'[1] = "check"
        BY <1>1, <1>2, <3>1
      <4>3. RateLimit = 1 => OnItsWay(1)'
        BY <4>2 DEF OnItsWay
      <4>4. queued' = queued /\ clean' = clean
        BY <3>1
      <4> QED BY ONLY <4>1, <4>3, <4>4 DEF ShownInv, Gauges
    <3> QED BY <3>3, <3>4
  <2>2. CASE WorkerExit(w) \/ LogOutcome(w)
    <3>1. /\ pc[w] \in {"recv", "log"} /\ UNCHANGED <<batch, jobs, queued, serverVars>>
          /\ \E p \in {"recv", "exit"} : pc' = [pc EXCEPT ![w] = p]
      BY <1>7, <2>2 DEF Local, WorkerExit, LogOutcome
    <3> QED BY <1>1, <1>2, <3>1 DEF ReqInv, ShownInv, OnItsWay
  <2>3. CASE PauseElapses(w)
    <3>1. /\ pc[w] = "pause" /\ UNCHANGED <<batch, jobs, queued, serverVars>>
          /\ pc' = [pc EXCEPT ![w] = "check"]
      BY <1>7, <2>3 DEF Local, PauseElapses
    <3> QED BY <1>1, <1>2, <3>1 DEF ReqInv, ShownInv, OnItsWay
  <2> QED BY <1>7, <2>1, <2>2, <2>3 DEF Local
<1> QED BY <1>3, <1>4, <1>5, <1>6, <1>7 DEF Deliver

\* Where there is room for one batch only, the one put there is the first.
LEMMA OnlyOne ==
  ASSUME NEW q \in Seq(Snapshot), NEW b \in Snapshot, Len(q) < 1
  PROVE  Len(Append(q, b)) # 0 /\ Head(Append(q, b)) = b
OBVIOUS

\* The reporter and Run put a batch on an empty queue, the others nothing.
LEMMA ElsewhereKeepsShown ==
  ASSUME TypeInv, ReqInv, ShownInv, Elsewhere \/ UNCHANGED allVars
  PROVE  ReqInv' /\ ShownInv'
<1> USE DEF vars, serverVars, collectorVars, pollerVars, reporterVars, queueVars, mainVars,
            workerVars
<1>1. UNCHANGED <<workerVars, serverVars>>
  BY DEF allVars, Elsewhere, RtPoller, RtUpdate, RtMark, RtTick, RtExit, PsPoller, PsUpdate,
         PsFail, PsMark, PsTick, PsExit, Reporter, ReportTick, GetGauge, GetCounter, Enqueue,
         EnqueueCancelled, ReporterExit, Signal, Main, PollersJoined, FlushMetrics,
         FlushQueued, FlushTimeout, CloseJobs, RunReturns, BudgetExpires, Terminated
<1>2. ReqInv'
  BY <1>1 DEF ReqInv
<1>3. ASSUME NEW b \in Snapshot, HasRoom, jobs' = Append(jobs, b), queued' = b
      PROVE  ShownInv'
  <2>1. jobs \in Seq(Snapshot)
    BY DEF TypeInv, TypeOK
  <2>2. RateLimit = 1 => Len(jobs) < 1
    BY <1>3 DEF HasRoom
  <2>3. RateLimit = 1 => Len(jobs') # 0 /\ Head(jobs') = queued'
    BY <1>3, <2>1, <2>2, OnlyOne
  <2> QED BY <2>3 DEF ShownInv
<1>4. ASSUME Enqueue PROVE ShownInv'
  BY <1>3, <1>4 DEF Enqueue, TypeInv, TypeOK
<1>5. ASSUME FlushQueued PROVE ShownInv'
  BY <1>3, <1>5, CollectedIsSnapshot DEF FlushQueued, TypeInv, TypeOK, Nothing
<1>6. ASSUME UNCHANGED <<jobs, queued>> PROVE ShownInv'
  BY <1>1, <1>6 DEF ShownInv, OnItsWay
<1>7. Enqueue \/ FlushQueued \/ UNCHANGED <<jobs, queued>>
  BY DEF allVars, Elsewhere, RtPoller, RtUpdate, RtMark, RtTick, RtExit, PsPoller, PsUpdate,
         PsFail, PsMark, PsTick, PsExit, Reporter, ReportTick, GetGauge, GetCounter,
         EnqueueCancelled, ReporterExit, Signal, Main, PollersJoined, FlushMetrics,
         FlushTimeout, CloseJobs, RunReturns, BudgetExpires, Terminated
<1> QED BY <1>2, <1>4, <1>5, <1>6, <1>7

\* What arrives late comes from an abandoned request.
LEMMA LateKeepsShown ==
  ASSUME ReqInv, ShownInv, NEW b, ApplyLate(b) \/ ForgetLate(b)
  PROVE  ReqInv' /\ ShownInv'
<1>1. ~clean
  BY DEF ReqInv, ApplyLate, ForgetLate, BagIn, BagToSet, EmptyBag, SetToBag
<1>2. UNCHANGED <<pc, req, clean>>
  BY DEF ApplyLate, ForgetLate, vars, workerVars
<1> QED BY <1>1, <1>2 DEF ReqInv, ShownInv

\* The composition's invariants, those of the agent among them.
THEOREM ShownInductive == DeliverySpec => [](ReqInv /\ ShownInv)
<1>1. DeliverySpec => [](TypeInv /\ HandOverInv) /\ []WorkersInv
  BY CompositionIsAgent, HandOverInductive, WorkersInductive, PTL DEF AgentBehaves
<1>2. TypeInv /\ WorkersInv /\ ReqInv /\ ShownInv /\ [DeliveryNext]_allVars
        => ReqInv' /\ ShownInv'
  BY ServeKeepsShown, DeliverKeepsShown, ElsewhereKeepsShown, LateKeepsShown
     DEF DeliveryNext
<1> QED BY <1>1, <1>2, InitShown, PTL DEF DeliverySpec

\* With one worker, and unless something failed on the way, the server shows
\* every measurement the agent ever made when Run has returned, for every bound.
THEOREM ShownAtExit == DeliverySpec => []FreshAtExit
<1>1. DeliverySpec => [](TypeInv /\ HandOverInv) /\ []WorkersInv
  BY CompositionIsAgent, HandOverInductive, WorkersInductive, PTL DEF AgentBehaves
<1>2. TypeInv /\ HandOverInv /\ WorkersInv /\ ShownInv => FreshAtExit
  <2> SUFFICES ASSUME TypeInv, HandOverInv, WorkersInv, ShownInv, RateLimit = 1,
                      mainPc = "stopped", ~skipped, clean
               PROVE  Gauges(store) = Gauges(Collected)
    BY DEF FreshAtExit
  <2>1. queued = Collected
    BY DEF HandOverInv
  <2>2. 1 \in Workers
    BY DEF Workers
  <2>3. pc[1] = "exit" /\ jobs = <<>>
    BY <2>2 DEF WorkersInv
  <2>4. Gauges(queued) = Gauges(store)
    BY <2>3 DEF ShownInv, OnItsWay
  <2> QED BY <2>1, <2>4
<1> QED BY <1>1, <1>2, ShownInductive, PTL

----------------------------------------------------------------------------
(* When the server's gauges go back.                                       *)

Older(a, b) == a.g <= b.g /\ a.s <= b.s

\* With one worker: gauges x are no newer than what the worker still sends, what
\* is queued and what was queued last.
Trails(x) ==
  /\ Older(x, queued)
  /\ \A i \in 1..Len(jobs) : Older(x, jobs[i])
  /\ pc[1] \in {"check", "request", "pause"} => Older(x, batch[1])

\* Inductive with the agent's invariants: the store and whatever may still reach
\* it late trail what is on its way.
TrailInv ==
  RateLimit = 1 =>
    /\ store.g \in Nat /\ store.s \in Nat /\ Trails(store)
    /\ \A b \in BagToSet(late) : b \in Snapshot /\ Trails(b)

AgentInv == TypeInv /\ HandOverInv /\ OrderInv

\* An abandoned request adds its batch to the bag, a late one is taken from it.
LEMMA LateBag ==
  ASSUME NEW B, NEW b
  PROVE  /\ \A x \in BagToSet(B (+) SetToBag({b})) : x = b \/ x \in BagToSet(B)
         /\ BagToSet(B (-) SetToBag({b})) \subseteq BagToSet(B)
<1>1. \A x \in BagToSet(B (+) SetToBag({b})) : x = b \/ x \in BagToSet(B)
  BY DEF BagToSet, (+), SetToBag
<1>2. BagToSet(B (-) SetToBag({b})) \subseteq BagToSet(B)
  BY DEF BagToSet, (-), SetToBag
<1> QED BY <1>1, <1>2

LEMMA InitTrail == DeliveryInit => TrailInv
<1> SUFFICES ASSUME DeliveryInit, RateLimit = 1
             PROVE  /\ store.g \in Nat /\ store.s \in Nat /\ Trails(store)
                    /\ \A b \in BagToSet(late) : b \in Snapshot /\ Trails(b)
  BY DEF TrailInv
<1>1. store.g = 0 /\ store.s = 0 /\ Older(store, queued)
  BY DEF DeliveryInit, Init, Nothing, Older
<1>2. Len(jobs) = 0 /\ 1..Len(jobs) = {}
  BY DEF DeliveryInit, Init
<1>3. pc[1] = "recv"
  BY DEF DeliveryInit, Init, Workers
<1>4. BagToSet(late) = {}
  BY DEF DeliveryInit, EmptyBag, SetToBag, BagToSet
<1> QED BY <1>1, <1>2, <1>3, <1>4 DEF Trails

\* The only worker's batch trails the rest of the queue.
LEMMA BatchTrails ==
  ASSUME AgentInv, RateLimit = 1
  PROVE  batch[1] \in Snapshot /\ Trails(batch[1])
<1>1. 1 \in Workers
  BY DEF Workers
<1>2. batch[1] \in Snapshot
  BY <1>1 DEF AgentInv, TypeInv, TypeOK
<1>3. Older(batch[1], batch[1])
  BY <1>2, AgentAssumption DEF Older, Snapshot
<1> QED BY <1>1, <1>2, <1>3
        DEF AgentInv, OrderInv, LeaveInOrder, NoNewer, Older, Trails

LEMMA OlderIsAnOrder ==
  ASSUME NEW x, x.g \in Nat, x.s \in Nat, NEW a \in Snapshot, NEW b \in Snapshot,
         Older(x, a), NoNewer(a, b)
  PROVE  Older(x, b)
BY AgentAssumption DEF Older, NoNewer, Snapshot

\* Whatever the agent does next, what trailed its batches still does.
LEMMA AgentKeepsTrail ==
  ASSUME AgentInv, AgentInv', RateLimit = 1, [Next]_vars,
         NEW x, x.g \in Nat, x.s \in Nat, Trails(x)
  PROVE  Trails(x)'
<1> USE DEF collectorVars, reporterVars, queueVars
<1>t. /\ 1 \in Workers /\ jobs \in Seq(Snapshot) /\ queued \in Snapshot
      /\ pc \in [Workers -> {"recv", "check", "request", "pause", "log", "exit"}]
      /\ batch \in [Workers -> Snapshot]
      /\ polls \in 0..PollBound /\ sysPolls \in 0..PollBound /\ repBatch \in Snapshot
      /\ \A v \in Workers : v = 1
  BY DEF AgentInv, TypeInv, TypeOK, Workers
<1>1. ASSUME UNCHANGED <<jobs, queued, batch>>,
             pc'[1] \in {"check", "request", "pause"} => pc[1] \in {"check", "request", "pause"}
      PROVE  Trails(x)'
  BY <1>1 DEF Trails, Older
<1>2. ASSUME NEW b \in Snapshot, jobs' = Append(jobs, b), queued' = b, UNCHANGED <<pc, batch>>,
             NoNewer(queued, b)
      PROVE  Trails(x)'
  <2>1. Older(x, b)
    BY <1>t, <1>2, OlderIsAnOrder DEF Trails
  <2>2. /\ Len(jobs) \in Nat /\ Len(jobs') = Len(jobs) + 1
        /\ jobs'[Len(jobs) + 1] = b
        /\ \A i \in 1..Len(jobs) : jobs'[i] = jobs[i]
    BY <1>t, <1>2
  <2>3. \A i \in 1..Len(jobs') : i \in 1..Len(jobs) \/ i = Len(jobs) + 1
    BY <2>2
  <2> QED BY <1>2, <2>1, <2>2, <2>3 DEF Trails, Older
<1>3. CASE Receive(1)
  <2>1. /\ jobs # <<>> /\ jobs' = Tail(jobs) /\ batch' = [batch EXCEPT ![1] = Head(jobs)]
        /\ queued' = queued
    BY <1>3 DEF Receive
  <2>2. /\ Len(jobs) \in Nat /\ Len(jobs) >= 1 /\ Len(jobs') = Len(jobs) - 1
        /\ Head(jobs) = jobs[1]
        /\ \A i \in 1..Len(jobs') : jobs'[i] = jobs[i + 1] /\ i + 1 \in 1..Len(jobs)
    BY <1>t, <2>1
  <2>3. batch'[1] = jobs[1] /\ 1 \in 1..Len(jobs)
    BY <1>t, <2>1, <2>2
  <2> QED BY <2>1, <2>2, <2>3 DEF Trails, Older
<1>4. CASE Worker(1) /\ ~Receive(1)
  <2>1. /\ UNCHANGED <<jobs, queued>>
        /\ batch' = batch \/ pc'[1] = "log"
    BY <1>4, <1>t DEF Worker, PrepareFails, WorkerExit, StartAttempt, StopAtCheck, AttemptEnds,
         AttemptFails, PauseElapses, PauseCancelled, LogOutcome, GiveBack
  <2>2. pc'[1] \in {"check", "request", "pause"} => pc[1] \in {"check", "request", "pause"}
    BY <1>4, <1>t DEF Worker, PrepareFails, WorkerExit, StartAttempt, StopAtCheck, AttemptEnds,
         AttemptFails, PauseElapses, PauseCancelled, LogOutcome, GiveBack
  <2> QED BY <2>1, <2>2, <1>4 DEF Trails, Older
<1>5. CASE Enqueue
  <2>1. NoNewer(queued, repBatch)
    BY <1>5 DEF Enqueue, AgentInv, HandOverInv, BatchInBetween, NoNewer
  <2> QED BY <1>2, <1>5, <1>t, <2>1 DEF Enqueue, workerVars
<1>6. CASE FlushQueued
  <2>1. Collected \in Snapshot /\ NoNewer(queued, Collected)
    BY <1>t, CollectedIsSnapshot DEF AgentInv, HandOverInv
  <2> QED BY <1>2, <1>6, <2>1 DEF FlushQueued, workerVars
<1>7. CASE UNCHANGED vars
  BY <1>1, <1>7 DEF vars, workerVars
<1>8. CASE RtPoller \/ PsPoller \/ ReportTick \/ GetGauge \/ GetCounter
             \/ EnqueueCancelled \/ ReporterExit
  BY <1>1, <1>8 DEF RtPoller, RtUpdate, RtMark, RtTick, RtExit, PsPoller, PsUpdate, PsFail,
       PsMark, PsTick, PsExit, ReportTick, GetGauge, GetCounter, EnqueueCancelled,
       ReporterExit, workerVars
<1>9. CASE Signal \/ PollersJoined \/ FlushMetrics \/ FlushTimeout \/ CloseJobs
             \/ RunReturns \/ BudgetExpires
  BY <1>1, <1>9 DEF Signal, PollersJoined, FlushMetrics, FlushTimeout, CloseJobs,
       RunReturns, BudgetExpires, workerVars
<1> QED
  BY <1>t, <1>3, <1>4, <1>5, <1>6, <1>7, <1>8, <1>9 DEF Next, Reporter, Main, Terminated

\* The store changes only to the gauges of the worker's batch or of a late one.
LEMMA StoreChanges ==
  ASSUME [DeliveryNext]_allVars, AgentInv, ReqInv, RateLimit = 1
  PROVE  \/ UNCHANGED <<store>>
         \/ Apply(1) /\ pc[1] = "request"
         \/ \E b \in BagToSet(late) : ApplyLate(b)
<1>1. ASSUME NEW w \in Workers, Serve(w) \/ Deliver(w)
      PROVE  UNCHANGED <<store>> \/ (Apply(1) /\ pc[1] = "request")
  <2>1. w = 1
    BY DEF Workers
  <2>2. Apply(w) => pc[w] = "request"
    BY DEF Apply, ReqInv
  <2> QED BY <1>1, <2>1, <2>2 DEF Serve, Refuse, Deliver, Send, Answered, Abandon, GiveUp,
               Local, serverVars
<1>2. (\E b \in BagToSet(late) : ApplyLate(b) \/ ForgetLate(b))
        => UNCHANGED <<store>> \/ \E b \in BagToSet(late) : ApplyLate(b)
  BY DEF ForgetLate
<1>3. Elsewhere \/ UNCHANGED allVars => UNCHANGED <<store>>
  BY DEF Elsewhere, serverVars, allVars
<1> QED BY <1>1, <1>2, <1>3 DEF DeliveryNext

\* What is late was late already, or is the worker's batch.
LEMMA LateChanges ==
  ASSUME [DeliveryNext]_allVars, AgentInv, ReqInv, RateLimit = 1
  PROVE  \A b \in BagToSet(late') :
           b \in BagToSet(late) \/ (b = batch[1] /\ pc[1] = "request" /\ Abandon(1))
<1>1. ASSUME NEW w \in Workers, Serve(w) \/ Deliver(w)
      PROVE  late' = late \/ Abandon(w)
  BY <1>1 DEF Serve, Refuse, Apply, Deliver, Send, Answered, GiveUp, Local, serverVars
<1>2. ASSUME Abandon(1), NEW b \in BagToSet(late')
      PROVE  b \in BagToSet(late) \/ (b = batch[1] /\ pc[1] = "request")
  <2>1. late' \in {late, late (+) SetToBag({batch[1]})}
    BY <1>2 DEF Abandon
  <2>2. pc[1] = "request"
    BY <1>2 DEF Abandon, WithoutAnswer, AttemptEnds, AttemptFails
  <2> QED BY <1>2, <2>1, <2>2, LateBag
<1>3. ASSUME NEW b, ApplyLate(b) \/ ForgetLate(b)
      PROVE  BagToSet(late') \subseteq BagToSet(late)
  BY <1>3, LateBag DEF ApplyLate, ForgetLate
<1>4. Elsewhere \/ UNCHANGED allVars => late' = late
  BY DEF Elsewhere, serverVars, allVars
<1>5. \A w \in Workers : w = 1
  BY DEF Workers
<1> QED BY <1>1, <1>2, <1>3, <1>4, <1>5 DEF DeliveryNext

LEMMA StepKeepsTrail ==
  ASSUME AgentInv, AgentInv', ReqInv, TrailInv, [DeliveryNext]_allVars
  PROVE  TrailInv'
<1> SUFFICES ASSUME RateLimit = 1
             PROVE  /\ store'.g \in Nat /\ store'.s \in Nat /\ Trails(store)'
                    /\ \A b \in BagToSet(late') : b \in Snapshot /\ Trails(b)'
  BY DEF TrailInv
<1>1. [Next]_vars
  BY StepIsAgentStep
<1>2. \A b \in Snapshot : b.g \in Nat /\ b.s \in Nat
  BY AgentAssumption DEF Snapshot
<1>3. ASSUME NEW x, x.g \in Nat, x.s \in Nat, Trails(x)
      PROVE  Trails(x)'
  BY <1>1, <1>3, AgentKeepsTrail
<1>4. batch[1] \in Snapshot /\ Trails(batch[1])
  BY BatchTrails
<1>5. \A b \in BagToSet(late') : b \in Snapshot /\ Trails(b)
  BY <1>4, LateChanges DEF TrailInv
<1>6. store'.g \in Nat /\ store'.s \in Nat /\ Trails(store')
  <2>1. ASSUME NEW b \in Snapshot, store' = UpdateBatch(store, b), Trails(b)
        PROVE  store'.g \in Nat /\ store'.s \in Nat /\ Trails(store')
    <3>1. store'.g = b.g /\ store'.s = b.s
      BY <2>1 DEF UpdateBatch
    <3> QED BY <1>2, <2>1, <3>1 DEF Trails, Older
  <2>2. CASE UNCHANGED <<store>>
    BY <2>2 DEF TrailInv
  <2>3. CASE Apply(1)
    BY <1>4, <2>1, <2>3 DEF Apply
  <2>4. CASE \E b \in BagToSet(late) : ApplyLate(b)
    BY <2>1, <2>4 DEF ApplyLate, TrailInv
  <2> QED BY <2>2, <2>3, <2>4, StoreChanges
<1> QED BY <1>2, <1>3, <1>5, <1>6

\* The invariant of the composition in every reachable state.
THEOREM TrailInductive == DeliverySpec => [](AgentInv /\ ReqInv /\ TrailInv)
<1>1. DeliverySpec => []AgentInv
  <2>1. TypeInv /\ HandOverInv /\ OrderInv => AgentInv
    BY DEF AgentInv
  <2> QED
    BY <2>1, CompositionIsAgent, HandOverInductive, OrderInductive, PTL DEF AgentBehaves
<1>2. AgentInv /\ AgentInv' /\ ReqInv /\ TrailInv /\ [DeliveryNext]_allVars => TrailInv'
  BY StepKeepsTrail
<1> QED BY <1>1, <1>2, InitTrail, ShownInductive, PTL DEF DeliverySpec

\* With one worker the server's gauges go back in time only when a request that
\* its client has given up is served after all.
THEOREM OnlyLateGoesBack == DeliverySpec => GoesBackOnlyByLate
<1>1. AgentInv /\ ReqInv /\ TrailInv /\ [DeliveryNext]_allVars
        => [RateLimit = 1 /\ ~(store.g <= store'.g /\ store.s <= store'.s)
              => \E b \in BagToSet(late) : ApplyLate(b)]_allVars
  <2> SUFFICES ASSUME AgentInv, ReqInv, TrailInv, [DeliveryNext]_allVars, RateLimit = 1,
                      ~ \E b \in BagToSet(late) : ApplyLate(b)
               PROVE  store.g <= store'.g /\ store.s <= store'.s
    OBVIOUS
  <2>1. store.g \in Nat /\ store.s \in Nat
    BY DEF TrailInv
  <2>2. CASE UNCHANGED <<store>>
    BY <2>1, <2>2
  <2>3. CASE Apply(1) /\ pc[1] = "request"
    <3>1. store'.g = batch[1].g /\ store'.s = batch[1].s
      BY <2>3 DEF Apply, UpdateBatch
    <3>2. Older(store, batch[1])
      BY <2>3 DEF TrailInv, Trails
    <3> QED BY <3>1, <3>2 DEF Older
  <2> QED BY <2>2, <2>3, StoreChanges
<1> QED BY <1>1, TrailInductive, PTL DEF DeliverySpec, GoesBackOnlyByLate
=============================================================================
