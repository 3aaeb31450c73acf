------------------------------- MODULE Audit -------------------------------
(***************************************************************************)
(* The audit publisher (internal/audit/audit.go) with asynchronous         *)
(* delivery: Subject.Register, Notify, the worker with its drain, Close,   *)
(* and the file and URL observers.                                         *)
(*                                                                         *)
(* Data: an event is a member of Events, published once by one request; an *)
(* observer is a member of Files or of Urls.                               *)
(*                                                                         *)
(* A definition marked "Mutant" is no part of the model: it is a slip the  *)
(* properties must catch when it stands for the definition it precedes.    *)
(***************************************************************************)
EXTENDS Integers, Sequences, FiniteSets

CONSTANTS
  Events,            \* events published, each by a Notify of its own
  Files, Urls,       \* observers, each registered by a Register of its own
  Closers,           \* callers of Close
  QueueSizeArg,      \* WithQueueSize
  DefaultQueueSize   \* defaultQueueSize

ASSUME AuditAssumption ==
  /\ Files \cap Urls = {}
  /\ QueueSizeArg \in Int
  /\ DefaultQueueSize \in Nat \ {0}

VARIABLES
  observers,             \* the published list
  regPc, regOld,         \* per observer: its Register, the list it has loaded
  jobs,                  \* the queue
  outcome, dropped,      \* per event: what Notify did with it; Subject.dropped
  stopped,               \* the stop channel is closed
  wPc, wEvent, wList,    \* worker: its place, the event in its hands (or <<>>) and who is still to get it
  closePc, closeList,    \* per caller of Close: its place, who is still to be closed
  late,                  \* per caller of Close: closeTimeout came before done
  open,                  \* file observers that hold an open file
  exited,                \* the process has ended
  accepted, delivered,   \* history: events queued, events offered to everybody
  offered,               \* history: per observer, the events it was given
  promised               \* history: how many were accepted when stop was closed

regVars == <<observers, regPc, regOld>>
publishVars == <<jobs, outcome, dropped, accepted>>
workerVars == <<wPc, wEvent, wList, delivered, offered>>
closeVars == <<stopped, promised, closePc, closeList, late, exited>>
vars == <<regVars, publishVars, workerVars, closeVars, open>>

Observers == Files \cup Urls

\* A size that is not positive leaves the default.
QueueSize == IF QueueSizeArg > 0 THEN QueueSizeArg ELSE DefaultQueueSize

WorkerDone == wPc = "done"

Init ==
  /\ observers = <<>>
  /\ regPc = [o \in Observers |-> "idle"] /\ regOld = [o \in Observers |-> <<>>]
  /\ jobs = <<>> /\ outcome = [e \in Events |-> "idle"] /\ dropped = 0
  /\ stopped = FALSE
  /\ wPc = "select" /\ wEvent = <<>> /\ wList = <<>>
  /\ closePc = [c \in Closers |-> "idle"] /\ closeList = [c \in Closers |-> <<>>]
  /\ late = [c \in Closers |-> FALSE]
  /\ open = {} /\ exited = FALSE
  /\ accepted = <<>> /\ delivered = <<>> /\ offered = [o \in Observers |-> <<>>]
  /\ promised = 0

----------------------------------------------------------------------------
(* Register: load the list, extend a copy, publish it if nobody else has. *)

RegisterLoad(o) ==
  /\ ~exited
  /\ regPc[o] = "idle"
  /\ regOld' = [regOld EXCEPT ![o] = observers]
  /\ regPc' = [regPc EXCEPT ![o] = "swap"]
  /\ UNCHANGED <<observers, publishVars, workerVars, closeVars, open>>

\* Mutant: the list is stored without comparing.
RegisterStore(o) ==
  /\ ~exited
  /\ regPc[o] = "swap"
  /\ observers' = Append(regOld[o], o)
  /\ regPc' = [regPc EXCEPT ![o] = "done"]
  /\ UNCHANGED <<regOld, publishVars, workerVars, closeVars, open>>

\* CompareAndSwap; lists only grow, so equal lists are the same list.
RegisterSwap(o) ==
  /\ ~exited
  /\ regPc[o] = "swap"
  /\ observers = regOld[o]
  /\ observers' = Append(observers, o)
  /\ regPc' = [regPc EXCEPT ![o] = "done"]
  /\ UNCHANGED <<regOld, publishVars, workerVars, closeVars, open>>

RegisterRetry(o) ==
  /\ ~exited
  /\ regPc[o] = "swap"
  /\ observers # regOld[o]
  /\ regOld' = [regOld EXCEPT ![o] = observers]
  /\ UNCHANGED <<observers, regPc, publishVars, workerVars, closeVars, open>>

----------------------------------------------------------------------------
(* Notify: the event is queued or, with no room, dropped and counted. It   *)
(* does not look at stop.                                                  *)

NotifyQueued(e) ==
  /\ ~exited
  /\ outcome[e] = "idle"
  /\ Len(jobs) < QueueSize
  /\ jobs' = Append(jobs, e)
  /\ accepted' = Append(accepted, e)
  /\ outcome' = [outcome EXCEPT ![e] = "accepted"]
  /\ UNCHANGED <<regVars, dropped, workerVars, closeVars, open>>

\* Mutant: the drop is not counted.
NotifyDroppedUncounted(e) ==
  /\ ~exited
  /\ outcome[e] = "idle"
  /\ Len(jobs) >= QueueSize
  /\ outcome' = [outcome EXCEPT ![e] = "dropped"]
  /\ UNCHANGED <<regVars, jobs, accepted, dropped, workerVars, closeVars, open>>

NotifyDropped(e) ==
  /\ ~exited
  /\ outcome[e] = "idle"
  /\ Len(jobs) >= QueueSize
  /\ dropped' = dropped + 1
  /\ outcome' = [outcome EXCEPT ![e] = "dropped"]
  /\ UNCHANGED <<regVars, jobs, accepted, workerVars, closeVars, open>>

----------------------------------------------------------------------------
(* worker, drain and deliver. *)

\* An event is received, in the loop or while draining, and deliver reads the
\* list of observers.
Take ==
  /\ ~exited
  /\ wPc \in {"select", "drain"}
  /\ jobs # <<>>
  /\ wEvent' = <<Head(jobs)>>
  /\ jobs' = Tail(jobs)
  /\ wList' = observers
  /\ wPc' = IF wPc = "select" THEN "deliver" ELSE "drain deliver"
  /\ UNCHANGED <<regVars, outcome, dropped, accepted, delivered, offered,
                 closeVars, open>>

Delivering == wPc \in {"deliver", "drain deliver"}

\* What a file observer's Notify leaves: the file it opened, unless that failed.
OpenedBy(o) == IF o \in Files THEN {open, open \cup {o}} ELSE {open}

\* Mutant: the first error ends the delivery of the event.
OfferUntilError ==
  /\ ~exited
  /\ Delivering
  /\ wList # <<>>
  /\ offered' = [offered EXCEPT ![Head(wList)] = @ \o wEvent]
  /\ open' \in OpenedBy(Head(wList))
  /\ wList' \in {Tail(wList), <<>>}
  /\ UNCHANGED <<regVars, publishVars, wPc, wEvent, delivered, closeVars>>

\* The next observer's Notify: whether it succeeds, fails or panics, the rest
\* of the list follows.
Offer ==
  /\ ~exited
  /\ Delivering
  /\ wList # <<>>
  /\ offered' = [offered EXCEPT ![Head(wList)] = @ \o wEvent]
  /\ open' \in OpenedBy(Head(wList))
  /\ wList' = Tail(wList)
  /\ UNCHANGED <<regVars, publishVars, wPc, wEvent, delivered, closeVars>>

Delivered ==
  /\ ~exited
  /\ Delivering
  /\ wList = <<>>
  /\ delivered' = delivered \o wEvent
  /\ wEvent' = <<>>
  /\ wPc' = IF wPc = "deliver" THEN "select" ELSE "drain"
  /\ UNCHANGED <<regVars, publishVars, wList, offered, closeVars, open>>

\* Mutant: the worker returns at once when stop is closed.
StopWithoutDrain ==
  /\ ~exited
  /\ wPc = "select"
  /\ stopped
  /\ wPc' = "done"
  /\ UNCHANGED <<regVars, publishVars, wEvent, wList, delivered, offered, closeVars, open>>

StopSeen ==
  /\ ~exited
  /\ wPc = "select"
  /\ stopped
  /\ wPc' = "drain"
  /\ UNCHANGED <<regVars, publishVars, wEvent, wList, delivered, offered, closeVars, open>>

Drained ==
  /\ ~exited
  /\ wPc = "drain"
  /\ jobs = <<>>
  /\ wPc' = "done"
  /\ UNCHANGED <<regVars, publishVars, wEvent, wList, delivered, offered, closeVars, open>>

----------------------------------------------------------------------------
(* Close: close stop once, wait for the worker or closeTimeout, close the  *)
(* observers of the list one by one.                                       *)

\* Mutant: stop is not closed.
CloseWithoutStop(c) ==
  /\ ~exited
  /\ closePc[c] = "idle"
  /\ promised' = IF stopped THEN promised ELSE Len(accepted)
  /\ closePc' = [closePc EXCEPT ![c] = "wait"]
  /\ UNCHANGED <<regVars, publishVars, workerVars, stopped, closeList, late, open, exited>>

CloseStop(c) ==
  /\ ~exited
  /\ closePc[c] = "idle"
  /\ stopped' = TRUE
  /\ promised' = IF stopped THEN promised ELSE Len(accepted)
  /\ closePc' = [closePc EXCEPT ![c] = "wait"]
  /\ UNCHANGED <<regVars, publishVars, workerVars, closeList, late, open, exited>>

\* Mutant: the worker is not waited for.
CloseUnawaited(c) ==
  /\ ~exited
  /\ closePc[c] = "wait"
  /\ closeList' = [closeList EXCEPT ![c] = observers]
  /\ closePc' = [closePc EXCEPT ![c] = "close"]
  /\ UNCHANGED <<regVars, publishVars, workerVars, stopped, promised, late, open, exited>>

CloseAwaited(c) ==
  /\ ~exited
  /\ closePc[c] = "wait"
  /\ WorkerDone
  /\ closeList' = [closeList EXCEPT ![c] = observers]
  /\ closePc' = [closePc EXCEPT ![c] = "close"]
  /\ UNCHANGED <<regVars, publishVars, workerVars, stopped, promised, late, open, exited>>

CloseTimeout(c) ==
  /\ ~exited
  /\ closePc[c] = "wait"
  /\ late' = [late EXCEPT ![c] = TRUE]
  /\ closeList' = [closeList EXCEPT ![c] = observers]
  /\ closePc' = [closePc EXCEPT ![c] = "close"]
  /\ UNCHANGED <<regVars, publishVars, workerVars, stopped, promised, open, exited>>

\* A file observer's Close; a URL observer has none.
CloseObserver(c) ==
  /\ ~exited
  /\ closePc[c] = "close"
  /\ closeList[c] # <<>>
  /\ open' = open \ {Head(closeList[c])}
  /\ closeList' = [closeList EXCEPT ![c] = Tail(@)]
  /\ UNCHANGED <<regVars, publishVars, workerVars, stopped, promised, closePc, late, exited>>

CloseDone(c) ==
  /\ ~exited
  /\ closePc[c] = "close"
  /\ closeList[c] = <<>>
  /\ closePc' = [closePc EXCEPT ![c] = "done"]
  /\ UNCHANGED <<regVars, publishVars, workerVars, stopped, promised, closeList, late, open, exited>>

----------------------------------------------------------------------------
Register(o) == RegisterLoad(o) \/ RegisterSwap(o) \/ RegisterRetry(o)

Notify(e) == NotifyQueued(e) \/ NotifyDropped(e)

worker == Take \/ Offer \/ Delivered \/ StopSeen \/ Drained

Close(c) ==
  CloseStop(c) \/ CloseAwaited(c) \/ CloseTimeout(c) \/ CloseObserver(c) \/ CloseDone(c)

\* The Close that serve has deferred is back, in time or not, and main returns:
\* the worker dies where it is. It may be any of the callers.
Exit ==
  /\ ~exited
  /\ \E c \in Closers : closePc[c] = "done"
  /\ exited' = TRUE
  /\ UNCHANGED <<regVars, publishVars, workerVars, stopped, promised, closePc, closeList,
                 late, open>>

Ended == exited /\ UNCHANGED vars

Next ==
  \/ \E o \in Observers : Register(o)
  \/ \E e \in Events : Notify(e)
  \/ worker
  \/ \E c \in Closers : Close(c)
  \/ Exit
  \/ Ended

Spec == Init /\ [][Next]_vars

(* While the process lives, the worker runs, each observer's Notify ends   *)
(* (client.Timeout, a write), and the worker's select picks the closed stop*)
(* in the end (SF). Nobody has to publish or to call Close; a Close once   *)
(* called goes on, and its timer is not assumed to fire.                   *)
FairSpec ==
  /\ Spec
  /\ WF_vars(worker) /\ SF_vars(StopSeen)
  /\ \A c \in Closers :
       WF_vars(CloseAwaited(c)) /\ WF_vars(CloseObserver(c) \/ CloseDone(c))

----------------------------------------------------------------------------
\* Type invariant: the queue never holds more than QueueSize events, the
\* published list names an observer once at most.
TypeOK ==
  /\ observers \in Seq(Observers)
  /\ \A i, j \in DOMAIN observers : observers[i] = observers[j] => i = j
  /\ regPc \in [Observers -> {"idle", "swap", "done"}]
  /\ regOld \in [Observers -> Seq(Observers)]
  /\ jobs \in Seq(Events) /\ Len(jobs) <= QueueSize
  /\ outcome \in [Events -> {"idle", "accepted", "dropped"}]
  /\ dropped \in Nat
  /\ stopped \in BOOLEAN
  /\ wPc \in {"select", "deliver", "drain", "drain deliver", "done"}
  /\ wEvent \in Seq(Events) /\ Len(wEvent) <= 1 /\ wList \in Seq(Observers)
  /\ closePc \in [Closers -> {"idle", "wait", "close", "done"}]
  /\ closeList \in [Closers -> Seq(Observers)]
  /\ late \in [Closers -> BOOLEAN]
  /\ open \subseteq Files /\ exited \in BOOLEAN
  /\ accepted \in Seq(Events) /\ delivered \in Seq(Events)
  /\ offered \in [Observers -> Seq(Events)]
  /\ promised \in Nat

\* An event is lost without a warning only if it was published after stop was
\* closed, or if a Close gave up waiting for the worker. Every event published is
\* counted as dropped or was accepted; the accepted ones are, in the order of
\* their acceptance, delivered, in the worker's hands or queued, none doubled or
\* overtaken; and when the worker is gone it has delivered those accepted before
\* stop. The others are stranded in the queue: Notify does not look at stop, and
\* the warning that the comment of Close announces (audit.go:191) is not given.
LostOnlyAfterStop ==
  /\ Cardinality({e \in Events : outcome[e] # "idle"}) = dropped + Len(accepted)
  /\ accepted = delivered \o wEvent \o jobs
  /\ WorkerDone \/ exited => Len(delivered) >= promised \/ \E c \in Closers : late[c]

\* From its first event on an observer gets every event, in order, whatever
\* the other observers do: what it was given is the end of what was delivered,
\* with the event in flight unless that is still to come or it came too late.
NoGapForAnObserver ==
  \A o \in Observers :
    \E n \in 0..Len(delivered) :
      LET since == SubSeq(delivered, n + 1, Len(delivered))
      IN  offered[o] \in {since, since \o wEvent}
            /\ (offered[o] = since /\ since # <<>> /\ Delivering =>
                 \E i \in DOMAIN wList : wList[i] = o)

\* No concurrent Register loses another's observer.
RegisteredStays ==
  \A o \in Observers : regPc[o] = "done" => \E i \in DOMAIN observers : observers[i] = o

\* Close "дожидаясь доставки уже поставленных в очередь событий": the worker is
\* done only after everything accepted before stop was closed.
StopKeepsTheQueue == WorkerDone => Len(delivered) >= promised

\* A Close that did not time out leaves no file open, and no event delivered
\* later opens one again.
FilesClosed ==
  (\E c \in Closers : closePc[c] = "done" /\ ~late[c]) => open = {}

\* An event accepted before stop is closed is delivered in the end, however the
\* observers fail, unless a Close gave up waiting (closeTimeout) and the process
\* ended before the worker was done.
AcceptedAreDelivered ==
  \A e \in Events :
    outcome[e] = "accepted" /\ ~stopped
      ~> \/ \E i \in DOMAIN delivered : delivered[i] = e
         \/ exited /\ \E c \in Closers : late[c]

\* Close returns even without its timer, for the worker ends when the queue is
\* empty after stop is closed; only the end of the process, after another Close,
\* keeps it from returning.
CloseEnds ==
  \A c \in Closers :
    closePc[c] = "wait"
      ~> closePc[c] = "done" \/ (exited /\ \E d \in Closers \ {c} : closePc[d] = "done")
=============================================================================
