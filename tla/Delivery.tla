------------------------------ MODULE Delivery ------------------------------
(***************************************************************************)
(* The agent joined to a server with the memory store: what the attempts   *)
(* of its workers (Agent) meet on the way through the network, the         *)
(* middlewares and UpdatesJSONHandler (internal/handler/handler.go) to     *)
(* MemStorage.UpdateBatch (internal/storage/storage.go), and back.         *)
(*                                                                         *)
(* Every step of the agent is one of Agent's actions; here the error of an *)
(* attempt is no longer any of AttemptErrors but the one its request has   *)
(* earned. A client that gives a request up does not stop the handler that *)
(* serves it: the request may be applied later, even after its retry.      *)
(*                                                                         *)
(* A definition marked "Mutant" is no part of the model: it is a slip the  *)
(* properties must catch when it stands for the definition it precedes.    *)
(***************************************************************************)
EXTENDS Agent, Bags

CONSTANTS
  LateBound,     \* bound: abandoned requests still on their way
  CountCap       \* bound: where the server's counter stops being told apart

ASSUME DeliveryAssumption == LateBound \in Nat /\ CountCap \in Nat

VARIABLES
  store,         \* MemStorage: the gauges and the counter PollCount
  req,           \* per worker: what has become of its request
  late,          \* abandoned requests the server may still serve, by batch
  clean          \* history: no batch was ever given up, no request abandoned

serverVars == <<store, req, late, clean>>
allVars == <<vars, serverVars>>

Capped(n) == IF n > CountCap THEN CountCap ELSE n

\* UpdateBatch: gauges are overwritten, the counter is added to, under one lock.
UpdateBatch(st, b) == [g |-> b.g, s |-> b.s, n |-> Capped(st.n + b.n)]

DeliveryInit ==
  /\ Init
  /\ store = Nothing
  /\ req = [w \in Workers |-> "none"]
  /\ late = EmptyBag
  /\ clean = TRUE

----------------------------------------------------------------------------
(* The server.                                                             *)

\* Whoever reads the body: 413 when it is too large, 500 when reading fails.
BodyErrors == {"4xx", "5xx"}

\* HashMiddleware and DecryptMiddleware, which only read an intact body: the
\* keys of the two sides do not match.
HashErrors == BodyErrors \cup {"4xx"}

DecryptErrors == BodyErrors \cup {"4xx"}

\* GzipMiddleware: the body is no gzip.
GzipErrors == {"5xx"}

\* UpdatesJSONHandler: no JSON, an unknown type, a metric without its value. It
\* checks the whole batch before it writes any of it.
BatchErrors == {"4xx"}

Refuse(w) ==
  /\ req[w] = "sent"
  /\ \E status \in BodyErrors \cup HashErrors \cup DecryptErrors \cup GzipErrors \cup BatchErrors :
       req' = [req EXCEPT ![w] = status]
  /\ UNCHANGED <<vars, store, late, clean>>

\* Mutant: the answer is sent before the batch is written.
AnswerUnapplied(w) ==
  /\ req[w] = "sent"
  /\ req' = [req EXCEPT ![w] = "2xx"]
  /\ UNCHANGED <<vars, store, late, clean>>

Apply(w) ==
  /\ req[w] = "sent"
  /\ store' = UpdateBatch(store, batch[w])
  /\ req' = [req EXCEPT ![w] = "2xx"]
  /\ UNCHANGED <<vars, late, clean>>

\* An abandoned request is applied, or lost or refused, after all.
ApplyLate(b) ==
  /\ BagIn(b, late)
  /\ store' = UpdateBatch(store, b)
  /\ late' = late (-) SetToBag({b})
  /\ UNCHANGED <<vars, req, clean>>

ForgetLate(b) ==
  /\ BagIn(b, late)
  /\ late' = late (-) SetToBag({b})
  /\ UNCHANGED <<vars, store, req, clean>>

----------------------------------------------------------------------------
(* The agent, attempt by attempt.                                          *)

Send(w) ==
  /\ StartAttempt(w)
  /\ req' = [req EXCEPT ![w] = "sent"]
  /\ UNCHANGED <<store, late, clean>>

\* The answer arrives: the attempt ends with the error made of its status.
Answered(w) ==
  /\ req[w] \in Statuses
  /\ AttemptEnds(w)
  /\ err'[w] = checkResponse(req[w])
  /\ req' = [req EXCEPT ![w] = "none"]
  /\ clean' = (clean /\ err'[w] = "nil")
  /\ UNCHANGED <<store, late>>

\* The attempt ends without an answer, for good or until the next one.
WithoutAnswer(w) ==
  \/ AttemptEnds(w) /\ err'[w] \in TransportErrors \cup {"canceled"}
  \/ AttemptFails(w)

\* A timeout, a broken connection or a cancelled sendCtx: an answer on its way
\* is lost, a request not yet served may be served later.
Abandon(w) ==
  /\ req[w] # "none"
  /\ WithoutAnswer(w)
  /\ late' \in IF req[w] = "sent" /\ BagCardinality(late) < LateBound
               THEN {late, late (+) SetToBag({batch[w]})} ELSE {late}
  /\ req' = [req EXCEPT ![w] = "none"]
  /\ clean' = FALSE
  /\ UNCHANGED store

\* The batch is given up between two attempts or before the first.
GiveUp(w) ==
  /\ PrepareFails(w) \/ StopAtCheck(w) \/ PauseCancelled(w)
  /\ clean' = FALSE
  /\ UNCHANGED <<store, req, late>>

\* What the server has no part in.
Local(w) ==
  /\ Receive(w) \/ WorkerExit(w) \/ PauseElapses(w) \/ LogOutcome(w)
  /\ UNCHANGED serverVars

Elsewhere ==
  /\ RtPoller \/ PsPoller \/ Reporter \/ Signal \/ Main \/ BudgetExpires \/ Terminated
  /\ UNCHANGED serverVars

Serve(w) == Refuse(w) \/ Apply(w)

Deliver(w) == Send(w) \/ Answered(w) \/ Abandon(w) \/ GiveUp(w) \/ Local(w)

DeliveryNext ==
  \/ \E w \in Workers : Serve(w) \/ Deliver(w)
  \/ \E b \in BagToSet(late) : ApplyLate(b) \/ ForgetLate(b)
  \/ Elsewhere

DeliverySpec == DeliveryInit /\ [][DeliveryNext]_allVars

(* The agent's own fairness; a worker goes on, and while it waits for its   *)
(* request either the server goes on or the attempt is abandoned.          *)
DeliveryFairSpec ==
  /\ DeliverySpec
  /\ LocalFairness
  /\ \A w \in Workers : WF_allVars(Serve(w) \/ Deliver(w))

----------------------------------------------------------------------------
Gauges(b) == <<b.g, b.s>>

\* Type invariant: among others a worker has a request out exactly while it
\* waits for the end of an attempt.
DeliveryTypeOK ==
  /\ store \in [g : 0..PollBound, s : 0..PollBound, n : 0..CountCap]
  /\ req \in [Workers -> {"none", "sent"} \cup Statuses]
  /\ \A w \in Workers : req[w] # "none" <=> pc[w] = "request"
  /\ BagToSet(late) \subseteq Snapshot /\ BagCardinality(late) <= LateBound
  /\ clean \in BOOLEAN

\* The composition is an agent: joined to this server it does nothing that
\* Agent alone does not allow.
AgentBehaves == Spec

\* If no request was abandoned or refused and no snapshot skipped, then once Run
\* has returned the server shows every measurement the agent ever made. One
\* worker is assumed (-l 1): two may overtake one another.
FreshAtExit ==
  RateLimit = 1 /\ mainPc = "stopped" /\ ~skipped /\ clean => Gauges(store) = Gauges(Collected)

\* With one worker the gauges on the server go back in time only when a request
\* that its client has abandoned is applied after all.
GoesBackOnlyByLate ==
  [][ RateLimit = 1 /\ ~(store.g <= store'.g /\ store.s <= store'.s)
        => \E b \in BagToSet(late) : ApplyLate(b) ]_allVars

\* Every runtime poll reaches the server unless something on the way failed.
PollsReachServer ==
  RateLimit = 1 =>
    \A k \in 1..PollBound : polls >= k ~> (store.g >= k \/ skipped \/ ~clean)

\* "counter — число циклов опроса (PollCount)" (Collector) and "Delta —
\* приращение counter-метрики" (models.Metrics): what the server has added up
\* is no more than the polls that took place.
CountsPollsOnce == store.n <= polls
=============================================================================
