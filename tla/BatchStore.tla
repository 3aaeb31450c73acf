----------------------------- MODULE BatchStore -----------------------------
(***************************************************************************)
(* What a store promises about its updates (the interface Storage of       *)
(* internal/storage/storage.go): a call takes effect as a whole and at     *)
(* once. A call marked once does so at most once, another may do so again, *)
(* even after its answer. Success is answered only for what has taken      *)
(* effect; a call answered with an error may have, or may later.           *)
(***************************************************************************)
EXTENDS Naturals

CONSTANTS Calls, Gauges

VARIABLES
  batch,     \* per call: the gauges it sets, g, its increments of the counter, n,
             \* and whether it takes effect at most once
  gauge,     \* per gauge: the call whose value it has
  count,     \* the counter: how many of a call's increments are in its sum
  applied,   \* the calls that have taken effect
  answer     \* per call: "none" yet, "ok" or "failed"

storeVars == <<batch, gauge, count, applied, answer>>

StoreInit ==
  /\ \A x \in Gauges : gauge[x] \notin Calls
  /\ count = [c \in Calls |-> 0]
  /\ applied = {}
  /\ answer = [c \in Calls |-> "none"]

\* The effect of a call: a gauge has its latest writer, the counter adds up.
Effect(c) ==
  /\ batch[c].once => c \notin applied
  /\ applied' = applied \cup {c}
  /\ gauge' = [x \in Gauges |-> IF x \in batch[c].g THEN c ELSE gauge[x]]
  /\ count' = [count EXCEPT ![c] = @ + batch[c].n]
  /\ UNCHANGED batch

TakeEffect(c) == Effect(c) /\ UNCHANGED answer

Answer(c) ==
  /\ answer[c] = "none"
  /\ \/ c \in applied /\ answer' = [answer EXCEPT ![c] = "ok"]
     \/ answer' = [answer EXCEPT ![c] = "failed"]
  /\ UNCHANGED <<batch, gauge, count, applied>>

\* A call without anything lost on the way takes effect and is answered.
Succeed(c) ==
  /\ answer[c] = "none"
  /\ Effect(c)
  /\ answer' = [answer EXCEPT ![c] = "ok"]

StoreNext == \E c \in Calls : TakeEffect(c) \/ Answer(c) \/ Succeed(c)

StoreSpec == StoreInit /\ [][StoreNext]_storeVars
=============================================================================
