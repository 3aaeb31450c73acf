------------------------------ MODULE LoadGen ------------------------------
(***************************************************************************)
(* The load generator (internal/loadgen/loadgen.go): seeding, workers that *)
(* share one request counter and one cancellable context, the limit on     *)
(* requests and the timer.                                                 *)
(*                                                                         *)
(* Data: a metric is its index; what a worker asks for, the statistics by  *)
(* kind and the count of errors play no part. The server and the           *)
(* connection are external and may fail at any request.                    *)
(*                                                                         *)
(* A definition marked "Mutant" is no part of the model: it is a slip the  *)
(* properties must catch when it stands for the definition it precedes.    *)
(***************************************************************************)
EXTENDS Integers, FiniteSets

CONSTANTS
  Workers,       \* the goroutines
  Limits,        \* values of -n (Requests), 0 or less for none
  SeedMetrics,   \* metrics created before the load
  BatchSize,
  RequestBound   \* bound: requests are counted up to this number

ASSUME LoadGenAssumption ==
  /\ Workers # {} /\ IsFiniteSet(Workers)
  /\ Limits \subseteq Int
  /\ {SeedMetrics, BatchSize} \subseteq Nat \ {0}
  /\ RequestBound \in Nat /\ \A n \in Limits : n + Cardinality(Workers) < RequestBound

VARIABLES
  limit, timed,   \* Requests; is there a Duration
  phase,          \* Run
  from, posted,   \* seed: the next index, the metrics posted so far
  seeds, requests,  \* counters
  aborted,        \* the caller's context is cancelled
  stopped,        \* cancel was called, by the timer or at the limit
  pc              \* per worker: its place in doRequest

settings == <<limit, timed>>
seedVars == <<from, posted, seeds>>
vars == <<settings, phase, seedVars, requests, aborted, stopped, pc>>

\* Without a limit there is a Duration.
withDefaults(n, d) == n <= 0 => d

Init ==
  /\ limit \in Limits /\ timed \in BOOLEAN /\ withDefaults(limit, timed)
  /\ phase = "seeding"
  /\ from = 0 /\ posted = {} /\ seeds = 0
  /\ requests = 0
  /\ aborted = FALSE /\ stopped = FALSE
  /\ pc = [w \in Workers |-> "idle"]

Lesser(a, b) == IF a < b THEN a ELSE b
Greater(a, b) == IF a < b THEN b ELSE a

\* An answer came, whatever its status.
Answered == requests' = Lesser(requests + 1, RequestBound)

----------------------------------------------------------------------------
(* seed. *)

buildBatch(a, b) == a..(b - 1)

\* Mutant: the last, shorter batch is not posted.
SeedWholeBatch ==
  /\ phase = "seeding"
  /\ from + BatchSize <= SeedMetrics
  /\ ~aborted
  /\ Answered
  /\ posted' = posted \cup buildBatch(from, from + BatchSize)
  /\ from' = IF from + 2 * BatchSize <= SeedMetrics THEN from + BatchSize ELSE SeedMetrics
  /\ seeds' = seeds + 1
  /\ UNCHANGED <<settings, phase, aborted, stopped, pc>>

\* A batch refused by the server counts as posted: do reports only that no
\* answer came.
SeedBatch ==
  /\ phase = "seeding"
  /\ from < SeedMetrics
  /\ ~aborted
  /\ Answered
  /\ posted' = posted \cup buildBatch(from, Lesser(from + BatchSize, SeedMetrics))
  /\ from' = from + BatchSize
  /\ seeds' = seeds + 1
  /\ UNCHANGED <<settings, phase, aborted, stopped, pc>>

\* No answer, or a cancelled context: Run returns the error.
SeedFails ==
  /\ phase = "seeding"
  /\ from < SeedMetrics
  /\ phase' = "failed"
  /\ UNCHANGED <<settings, seedVars, requests, aborted, stopped, pc>>

StartLoad ==
  /\ phase = "seeding"
  /\ from >= SeedMetrics
  /\ phase' = "loading"
  /\ UNCHANGED <<settings, seedVars, requests, aborted, stopped, pc>>

----------------------------------------------------------------------------
(* The workers. *)

\* loadCtx.Err() != nil
Over == aborted \/ stopped

Loading(w, place) == phase = "loading" /\ pc[w] = place

\* The loop of the worker, and the choice of doRequest.
Roll(w) ==
  /\ Loading(w, "idle")
  /\ ~Over
  /\ pc' = [pc EXCEPT ![w] = "do"]
  /\ UNCHANGED <<settings, phase, seedVars, requests, aborted, stopped>>

Leave(w) ==
  /\ Loading(w, "idle")
  /\ Over
  /\ pc' = [pc EXCEPT ![w] = "left"]
  /\ UNCHANGED <<settings, phase, seedVars, requests, aborted, stopped>>

\* An answer; the shared counter is incremented and only later compared.
Answer(w) ==
  /\ Loading(w, "do")
  /\ Answered
  /\ pc' = [pc EXCEPT ![w] = "compare"]
  /\ UNCHANGED <<settings, phase, seedVars, aborted, stopped>>

\* Mutant: the comparison is exact, though others increment in between.
CompareEqual(w) ==
  /\ Loading(w, "compare")
  /\ stopped' = (stopped \/ (limit > 0 /\ requests = limit))
  /\ pc' = [pc EXCEPT ![w] = "idle"]
  /\ UNCHANGED <<settings, phase, seedVars, requests, aborted>>

\* Mutant: off by one.
CompareGreater(w) ==
  /\ Loading(w, "compare")
  /\ stopped' = (stopped \/ (limit > 0 /\ requests > limit))
  /\ pc' = [pc EXCEPT ![w] = "idle"]
  /\ UNCHANGED <<settings, phase, seedVars, requests, aborted>>

Compare(w) ==
  /\ Loading(w, "compare")
  /\ stopped' = (stopped \/ (limit > 0 /\ requests >= limit))
  /\ pc' = [pc EXCEPT ![w] = "idle"]
  /\ UNCHANGED <<settings, phase, seedVars, requests, aborted>>

\* Mutant: a worker without an answer gives up.
NoAnswerGivesUp(w) ==
  /\ Loading(w, "do")
  /\ pc' = [pc EXCEPT ![w] = "left"]
  /\ UNCHANGED <<settings, phase, seedVars, requests, aborted, stopped>>

\* No answer, or the context is over before the request.
NoAnswer(w) ==
  /\ Loading(w, "do")
  /\ pc' = [pc EXCEPT ![w] = "idle"]
  /\ UNCHANGED <<settings, phase, seedVars, requests, aborted, stopped>>

----------------------------------------------------------------------------
TimerFires ==
  /\ phase = "loading"
  /\ timed /\ ~stopped
  /\ stopped' = TRUE
  /\ UNCHANGED <<settings, phase, seedVars, requests, aborted, pc>>

Abort ==
  /\ phase \in {"seeding", "loading"}
  /\ ~aborted
  /\ aborted' = TRUE
  /\ UNCHANGED <<settings, phase, seedVars, requests, stopped, pc>>

\* wg.Wait is over: Run returns its statistics.
Return ==
  /\ phase = "loading"
  /\ \A w \in Workers : pc[w] = "left"
  /\ phase' = "returned"
  /\ UNCHANGED <<settings, seedVars, requests, aborted, stopped, pc>>

Ended == phase \in {"returned", "failed"} /\ UNCHANGED vars

seed == SeedBatch \/ SeedFails \/ StartLoad

doRequest(w) == Roll(w) \/ Leave(w) \/ Answer(w) \/ Compare(w) \/ NoAnswer(w)

Next ==
  \/ seed \/ Return \/ TimerFires \/ Abort \/ Ended
  \/ \E w \in Workers : doRequest(w)

Spec == Init /\ [][Next]_vars

\* The goroutines go on, a request ends with or without an answer (the client
\* has a Timeout), the timer fires. That the caller cancels is not assumed.
Fairness ==
  /\ WF_vars(seed) /\ WF_vars(Return) /\ WF_vars(TimerFires)
  /\ \A w \in Workers : WF_vars(doRequest(w))

FairSpec == Spec /\ Fairness

----------------------------------------------------------------------------
Returned == phase = "returned"

\* "нагрузка останавливается после указанного числа запросов" (Config.Requests)
\* holds up to the requests under way: each worker gets at most one answer after
\* the one that reaches the limit, or after the seeding if that has reached it.
LimitOverrun ==
  limit > 0 => requests < Greater(limit, seeds + 1) + Cardinality(Workers)

\* The load is not cut short either: Run returns at the limit, at the timer or
\* with the caller's context.
NotCutShort == Returned => timed \/ aborted \/ (limit > 0 /\ requests >= limit)

\* Every metric has been posted before it is asked for.
SeedCoversMetrics == phase = "loading" => posted = 0..(SeedMetrics - 1)

\* With a Duration Run comes back whatever the server does; with only a limit
\* it does as long as answers come.
RunEnds ==
  /\ phase = "loading" /\ timed ~> Returned
  /\ (\A w \in Workers : SF_vars(Answer(w))) => (phase = "loading" ~> Returned)
=============================================================================
