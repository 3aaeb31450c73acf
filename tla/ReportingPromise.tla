-------------------------- MODULE ReportingPromise --------------------------
(***************************************************************************)
(* What the agent promises about its measurements, with no goroutine, no   *)
(* channel and no flag: measurements grow; what has been handed to the     *)
(* senders trails them and never goes back; and when the agent closes its  *)
(* sending queue nothing collected is left behind unless it says so (the   *)
(* "snapshot skipped" warning of flushMetrics).                            *)
(***************************************************************************)
EXTENDS Integers

CONSTANT Bound     \* how many measurements of a kind are observed

VARIABLES measured, handed, finished, lost

promiseVars == <<measured, handed, finished, lost>>

Readings == [g : 0..Bound, s : 0..Bound, n : 0..Bound]

\* Reading a is no newer than reading b, metric by metric.
NoNewer(a, b) == a.g <= b.g /\ a.s <= b.s /\ a.n <= b.n

PromiseInit ==
  /\ measured = [g |-> 0, s |-> 0, n |-> 0]
  /\ handed = measured
  /\ finished = FALSE
  /\ lost = FALSE

\* One poll of the runtime or of the system advances the measurements.
Measure ==
  /\ ~finished
  /\ measured' \in Readings
  /\ NoNewer(measured, measured')
  /\ UNCHANGED <<handed, finished, lost>>

\* A snapshot no older than the last one and no newer than the
\* measurements is handed to the senders.
HandOver ==
  /\ ~finished
  /\ handed' \in Readings
  /\ NoNewer(handed, handed')
  /\ NoNewer(handed', measured)
  /\ UNCHANGED <<measured, finished, lost>>

\* The queue is closed: everything was handed over or the loss is declared.
Finish ==
  /\ ~finished
  /\ finished' = TRUE
  /\ lost' \in BOOLEAN
  /\ ~lost' => handed = measured
  /\ UNCHANGED <<measured, handed>>

PromiseNext == Measure \/ HandOver \/ Finish

PromiseSpec == PromiseInit /\ [][PromiseNext]_promiseVars
=============================================================================
