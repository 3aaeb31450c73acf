---------------------------- MODULE Persistence ----------------------------
(***************************************************************************)
(* The metrics server with the file store, from its start to its exit and  *)
(* through restarts: serve (cmd/server/main.go), the update handlers with  *)
(* their synchronous save (internal/handler/handler.go), SaveToFile,       *)
(* LoadFromFile and RunPeriodicSave (internal/storage/file.go).            *)
(*                                                                         *)
(* Data: an update is a member of Requests, the store is the set of the    *)
(* updates applied, a file holds the updates of the snapshot written to it.*)
(* Every SaveToFile is a sequence of system calls on the same two names,   *)
(* path and path.tmp, interleaved with those of the other savers. What is  *)
(* written survives the death of the process (not of the machine).         *)
(*                                                                         *)
(* A definition marked "Mutant" is no part of the model: it is a slip the  *)
(* properties must catch when it stands for the definition it precedes.    *)
(***************************************************************************)
EXTENDS Integers, FiniteSets

CONSTANTS
  Requests,       \* update requests, each sent once
  NonFinite,      \* those that may set a gauge of their own to NaN or Inf
  StoreIntervals, \* -i: 0 saves in every handler, > 0 periodically, < 0 never
  Restore,        \* -r
  Restarts,       \* bound: how often the server is started again
  Faults          \* bound: system calls that fail

ASSUME PersistenceAssumption ==
  /\ NonFinite \subseteq Requests
  /\ {"periodic", "main"} \cap Requests = {}
  /\ StoreIntervals \subseteq Int
  /\ Restore \in BOOLEAN
  /\ Restarts \in Nat
  /\ Faults \in Nat

VARIABLES
  interval, nan,    \* fixed: the flag -i, the requests that do carry NaN or Inf
  phase,            \* serve: where it is, or how it ended
  forced,           \* Shutdown timed out, connections were closed
  st,               \* per request: where its handler is, or its outcome
  mem, missed,      \* MemStorage; history: what this life could not read of its file
  perPc,            \* the goroutine of RunPeriodicSave
  savePc, snap, fd, \* per saver: SaveToFile's place, its data, its open file
  path, tmp,        \* contents under the two names
  restarts, faults

settings == <<interval, nan>>
lifeVars == <<settings, phase, forced, missed, restarts>>
saverVars == <<savePc, snap, fd>>
diskVars == <<path, tmp>>
vars == <<lifeVars, st, mem, perPc, saverVars, diskVars, faults>>

Savers == Requests \cup {"periodic", "main"}

Content == [kind : {"absent", "empty", "mixed", "data"}, updates : SUBSET Requests]
Blank(k) == [kind |-> k, updates |-> {}]
Data(u) == [kind |-> "data", updates |-> u]

OnDisk == IF path.kind = "data" THEN path.updates ELSE {}

Sync == interval = 0

Alive == phase \notin {"exited", "failed", "crashed"}

Active(r) == st[r] \in {"begun", "applied"}

\* The goroutine exists only for an interval other than 0 and returns at once
\* for a negative one.
PeriodicStart == IF interval > 0 THEN "wait" ELSE "done"

Init ==
  /\ interval \in StoreIntervals /\ nan \in SUBSET NonFinite
  /\ phase = "loading" /\ forced = FALSE
  /\ st = [r \in Requests |-> "idle"]
  /\ mem = {} /\ missed = {}
  /\ perPc = PeriodicStart
  /\ savePc = [s \in Savers |-> "idle"]
  /\ snap = [s \in Savers |-> {}]
  /\ fd = [s \in Savers |-> "none"]
  /\ path = Blank("absent") /\ tmp = Blank("absent")
  /\ restarts = 0 /\ faults = 0

----------------------------------------------------------------------------
(* SaveToFile, for whoever calls it. *)

CallSave(s) == savePc' = [savePc EXCEPT ![s] = "snapshot"]

\* GetAllMetrics under the read lock, then MarshalIndent, which refuses NaN
\* and Inf: the save is over before it touches the disk.
TakeSnapshot(s) ==
  /\ Alive
  /\ savePc[s] = "snapshot"
  /\ IF mem \cap nan = {}
     THEN /\ snap' = [snap EXCEPT ![s] = mem]
          /\ savePc' = [savePc EXCEPT ![s] = "open"]
     ELSE /\ savePc' = [savePc EXCEPT ![s] = "failed"]
          /\ UNCHANGED snap
  /\ UNCHANGED <<lifeVars, st, mem, perPc, fd, diskVars, faults>>

\* Mutant: the file is written in place.
OpenPath(s) ==
  /\ Alive
  /\ savePc[s] = "open"
  /\ path' = Blank("empty")
  /\ fd' = [fd EXCEPT ![s] = "path"]
  /\ savePc' = [savePc EXCEPT ![s] = "write"]
  /\ UNCHANGED <<lifeVars, st, mem, perPc, snap, tmp, faults>>

\* os.WriteFile opens path.tmp with O_CREATE and O_TRUNC.
OpenTmp(s) ==
  /\ Alive
  /\ savePc[s] = "open"
  /\ tmp' = Blank("empty")
  /\ fd' = [fd EXCEPT ![s] = "tmp"]
  /\ savePc' = [savePc EXCEPT ![s] = "write"]
  /\ UNCHANGED <<lifeVars, st, mem, perPc, snap, path, faults>>

\* The file written to by s now holds c: it may meanwhile bear the other name,
\* or none.
Put(s, c) ==
  /\ tmp' = IF fd[s] = "tmp" THEN c ELSE tmp
  /\ path' = IF fd[s] = "path" THEN c ELSE path

\* What writing the updates u at the start of a file leaves there: another
\* saver's longer text is overwritten only in part.
Overwritten(c, u) ==
  IF c.kind = "empty" \/ c = Data(u) THEN {Data(u)} ELSE {Data(u), Blank("mixed")}

Target(s) == IF fd[s] = "path" THEN path ELSE IF fd[s] = "tmp" THEN tmp ELSE Blank("empty")

WriteTmp(s) ==
  /\ Alive
  /\ savePc[s] = "write"
  /\ \E c \in Overwritten(Target(s), snap[s]) : Put(s, c)
  /\ fd' = [fd EXCEPT ![s] = "none"]
  /\ savePc' = [savePc EXCEPT ![s] = "rename"]
  /\ UNCHANGED <<lifeVars, st, mem, perPc, snap, faults>>

\* The rename moves the file under path.tmp to path, with whoever has it open;
\* without such a file it fails.
RenameTmp(s) ==
  /\ Alive
  /\ savePc[s] = "rename"
  /\ tmp.kind # "absent"
  /\ path' = tmp
  /\ tmp' = Blank("absent")
  /\ fd' = [x \in Savers |->
              IF fd[x] = "tmp" THEN "path" ELSE IF fd[x] = "path" THEN "gone" ELSE fd[x]]
  /\ savePc' = [savePc EXCEPT ![s] = "saved"]
  /\ UNCHANGED <<lifeVars, st, mem, perPc, snap, faults>>

RenameNothing(s) ==
  /\ Alive
  /\ savePc[s] = "rename"
  /\ tmp.kind = "absent"
  /\ savePc' = [savePc EXCEPT ![s] = "failed"]
  /\ UNCHANGED <<lifeVars, st, mem, perPc, snap, fd, diskVars, faults>>

\* A system call fails (MkdirAll counts as the open); a failing write may have
\* written a part.
SaveFault(s) ==
  /\ Alive
  /\ savePc[s] \in {"open", "write", "rename"}
  /\ faults < Faults
  /\ faults' = faults + 1
  /\ IF savePc[s] = "write"
     THEN \E c \in {Target(s), Blank("mixed")} : Put(s, c)
     ELSE UNCHANGED diskVars
  /\ fd' = [fd EXCEPT ![s] = "none"]
  /\ savePc' = [savePc EXCEPT ![s] = "failed"]
  /\ UNCHANGED <<lifeVars, st, mem, perPc, snap>>

SaveStep(s) ==
  \/ TakeSnapshot(s) \/ OpenTmp(s) \/ WriteTmp(s)
  \/ RenameTmp(s) \/ RenameNothing(s)

\* The saver has its result and may save again.
SaveReturned(s) == savePc[s] \in {"saved", "failed"}

ForgetSave(s) ==
  /\ savePc' = [savePc EXCEPT ![s] = "idle"]
  /\ snap' = [snap EXCEPT ![s] = {}]

----------------------------------------------------------------------------
(* An update handler: UpdateHandler, UpdateJSONHandler, UpdatesJSONHandler. *)

Begin(r) ==
  /\ phase = "serving"
  /\ st[r] = "idle"
  /\ st' = [st EXCEPT ![r] = "begun"]
  /\ UNCHANGED <<lifeVars, mem, perPc, saverVars, diskVars, faults>>

\* The request is answered with a client error and changes nothing.
Refuse(r) ==
  /\ Alive
  /\ st[r] = "begun"
  /\ st' = [st EXCEPT ![r] = "refused"]
  /\ UNCHANGED <<lifeVars, mem, perPc, saverVars, diskVars, faults>>

\* The store is changed under its lock, then trySyncSave runs.
Apply(r) ==
  /\ Alive
  /\ st[r] = "begun"
  /\ mem' = mem \cup {r}
  /\ st' = [st EXCEPT ![r] = "applied"]
  /\ IF Sync THEN CallSave(r) ELSE UNCHANGED savePc
  /\ UNCHANGED <<lifeVars, perPc, snap, fd, diskVars, faults>>

\* The handler answers 200, whatever the synchronous save returned; the answer
\* is lost when the connection was closed by force.
Respond(r) ==
  /\ Alive
  /\ st[r] = "applied"
  /\ Sync => SaveReturned(r)
  /\ st' = [st EXCEPT ![r] = IF forced THEN "unanswered" ELSE "acked"]
  /\ ForgetSave(r)
  /\ UNCHANGED <<lifeVars, mem, perPc, fd, diskVars, faults>>

----------------------------------------------------------------------------
(* RunPeriodicSave: a tick, or the closed stop channel. *)

StopClosed == phase \in {"stopping", "aborting", "saving"}

PeriodicTick ==
  /\ Alive /\ phase # "loading"
  /\ perPc = "wait"
  /\ perPc' = "save"
  /\ CallSave("periodic")
  /\ UNCHANGED <<lifeVars, st, mem, snap, fd, diskVars, faults>>

\* Mutant: the goroutine gives up after a failed save.
PeriodicGivesUp ==
  /\ Alive
  /\ perPc = "save"
  /\ SaveReturned("periodic")
  /\ perPc' = IF savePc["periodic"] = "saved" THEN "wait" ELSE "done"
  /\ ForgetSave("periodic")
  /\ UNCHANGED <<lifeVars, st, mem, fd, diskVars, faults>>

PeriodicSaved ==
  /\ Alive
  /\ perPc = "save"
  /\ SaveReturned("periodic")
  /\ perPc' = "wait"
  /\ ForgetSave("periodic")
  /\ UNCHANGED <<lifeVars, st, mem, fd, diskVars, faults>>

\* Mutant: the select has no case for stop.
PeriodicNeverExits == FALSE

PeriodicExit ==
  /\ Alive
  /\ perPc = "wait"
  /\ StopClosed
  /\ perPc' = "done"
  /\ UNCHANGED <<lifeVars, st, mem, saverVars, diskVars, faults>>

----------------------------------------------------------------------------
(* serve. *)

\* LoadFromFile: an absent file restores nothing, a file that is no JSON neither:
\* serve logs the error and starts all the same.
Load ==
  /\ phase = "loading"
  /\ phase' = "serving"
  /\ mem' = IF Restore THEN OnDisk ELSE {}
  /\ UNCHANGED <<settings, forced, missed, restarts, st, perPc, saverVars, diskVars, faults>>

\* The file is there and cannot be read: logged as well, the server starts with
\* an empty store, which the next save puts in the place of the intact file.
LoadFails ==
  /\ phase = "loading"
  /\ Restore /\ path.kind # "absent"
  /\ faults < Faults
  /\ faults' = faults + 1
  /\ phase' = "serving"
  /\ missed' = OnDisk
  /\ UNCHANGED <<settings, forced, restarts, st, mem, perPc, saverVars, diskVars>>

Signal ==
  /\ phase = "serving"
  /\ phase' = "shutdown"
  /\ UNCHANGED <<settings, forced, missed, restarts, st, mem, perPc, saverVars, diskVars, faults>>

\* Mutant: the active requests are not waited for.
ShutdownAtOnce ==
  /\ phase = "shutdown"
  /\ phase' = "stopping"
  /\ UNCHANGED <<settings, forced, missed, restarts, st, mem, perPc, saverVars, diskVars, faults>>

\* srv.Shutdown has waited for the active requests.
ShutdownDone ==
  /\ phase = "shutdown"
  /\ ~\E r \in Requests : Active(r)
  /\ phase' = "stopping"
  /\ UNCHANGED <<settings, forced, missed, restarts, st, mem, perPc, saverVars, diskVars, faults>>

\* shutdownTimeout is over first: srv.Close, the handlers go on running.
ShutdownTimeout ==
  /\ phase = "shutdown"
  /\ \E r \in Requests : Active(r)
  /\ phase' = "stopping"
  /\ forced' = TRUE
  /\ UNCHANGED <<settings, missed, restarts, st, mem, perPc, saverVars, diskVars, faults>>

\* Mutant: stopPeriodic closes stop and does not read done.
PeriodicNotAwaited ==
  /\ phase = "stopping"
  /\ phase' = "saving"
  /\ CallSave("main")
  /\ UNCHANGED <<settings, forced, missed, restarts, st, mem, perPc, snap, fd, diskVars, faults>>

\* stopPeriodic has closed stop and read done; the final SaveToFile starts.
PeriodicStopped ==
  /\ phase = "stopping"
  /\ perPc = "done"
  /\ phase' = "saving"
  /\ CallSave("main")
  /\ UNCHANGED <<settings, forced, missed, restarts, st, mem, perPc, snap, fd, diskVars, faults>>

\* Mutant: the error of the final save is dropped.
FinalSavedOrNot ==
  /\ phase = "saving"
  /\ SaveReturned("main")
  /\ phase' = "exited"
  /\ UNCHANGED <<settings, forced, missed, restarts, st, mem, perPc, saverVars, diskVars, faults>>

\* serve returns nil, or the error of the final save.
FinalSaved ==
  /\ phase = "saving"
  /\ SaveReturned("main")
  /\ phase' = IF savePc["main"] = "saved" THEN "exited" ELSE "failed"
  /\ UNCHANGED <<settings, forced, missed, restarts, st, mem, perPc, saverVars, diskVars, faults>>

\* ListenAndServe fails: serve returns its error, only the deferred
\* stopPeriodic runs.
ListenFails ==
  /\ phase = "serving"
  /\ phase' = "aborting"
  /\ UNCHANGED <<settings, forced, missed, restarts, st, mem, perPc, saverVars, diskVars, faults>>

Aborted ==
  /\ phase = "aborting"
  /\ perPc = "done"
  /\ phase' = "failed"
  /\ UNCHANGED <<settings, forced, missed, restarts, st, mem, perPc, saverVars, diskVars, faults>>

\* The process is killed, a second signal included.
Crash ==
  /\ Alive
  /\ phase' = "crashed"
  /\ UNCHANGED <<settings, forced, missed, restarts, st, mem, perPc, saverVars, diskVars, faults>>

\* A new process: only the two files are left of the old one.
Restart ==
  /\ ~Alive
  /\ restarts < Restarts
  /\ restarts' = restarts + 1
  /\ phase' = "loading" /\ forced' = FALSE
  /\ mem' = {} /\ missed' = {}
  /\ perPc' = PeriodicStart
  /\ savePc' = [s \in Savers |-> "idle"]
  /\ snap' = [s \in Savers |-> {}]
  /\ fd' = [s \in Savers |-> "none"]
  /\ st' = [r \in Requests |-> IF Active(r) THEN "unanswered" ELSE st[r]]
  /\ UNCHANGED <<settings, diskVars, faults>>

Ended == ~Alive /\ restarts = Restarts /\ UNCHANGED vars

----------------------------------------------------------------------------
Handler(r) == Refuse(r) \/ Apply(r) \/ Respond(r)

Periodic == PeriodicTick \/ PeriodicSaved \/ PeriodicExit

\* The steps of serve that wait for nobody outside the process.
Serve == Load \/ ShutdownDone \/ ShutdownTimeout \/ PeriodicStopped \/ FinalSaved \/ Aborted

Next ==
  \/ \E r \in Requests : Begin(r) \/ Handler(r)
  \/ \E s \in Savers : SaveStep(s) \/ SaveFault(s)
  \/ Periodic \/ Serve
  \/ LoadFails \/ Signal \/ ListenFails \/ Crash \/ Restart
  \/ Ended

Spec == Init /\ [][Next]_vars

(* Handlers, savers, the ticker and serve keep going (WF); the periodic    *)
(* goroutine's select picks the closed stop channel in the end although    *)
(* the ticker is ready again and again (SF). Signals, failures, crashes    *)
(* and restarts need not come.                                             *)
Fairness ==
  /\ \A r \in Requests : WF_vars(Handler(r))
  /\ \A s \in Savers : WF_vars(SaveStep(s))
  /\ WF_vars(Periodic) /\ SF_vars(PeriodicExit)
  /\ WF_vars(Serve)

FairSpec == Spec /\ Fairness

----------------------------------------------------------------------------
\* Type invariant: among others only a saver that writes has a file open.
TypeOK ==
  /\ interval \in StoreIntervals /\ nan \subseteq NonFinite
  /\ phase \in {"loading", "serving", "shutdown", "stopping", "saving", "aborting",
                "exited", "failed", "crashed"}
  /\ forced \in BOOLEAN
  /\ st \in [Requests -> {"idle", "begun", "applied", "acked", "refused", "unanswered"}]
  /\ mem \subseteq Requests /\ missed \subseteq Requests
  /\ perPc \in {"wait", "save", "done"}
  /\ savePc \in [Savers -> {"idle", "snapshot", "open", "write", "rename", "saved", "failed"}]
  /\ snap \in [Savers -> SUBSET Requests]
  /\ fd \in [Savers -> {"none", "tmp", "path", "gone"}]
  /\ \A s \in Savers : fd[s] # "none" => savePc[s] = "write"
  /\ path \in Content /\ tmp \in Content
  /\ restarts \in 0..Restarts /\ faults \in 0..Faults

Acked == {r \in Requests : st[r] = "acked"}

\* SaveToFile: "прерывание процесса не портит существующий файл". Whenever the
\* process is killed, path holds nothing or one whole snapshot.
FileReadable == path.kind \in {"absent", "data"}

\* It does with the periodic saver and serve as the only savers: serve waits for
\* the other to be gone before it writes.
PeriodicFileReadable == ~Sync => FileReadable

\* In the periodic mode what a snapshot put on disk once is in every later one,
\* through failed saves, crashes, exits and restarts that restore it, except what
\* the running server was unable to read when it started: that is lost with its
\* first save, for serve only logs the error of LoadFromFile.
FileNeverRegresses == [][~Sync => OnDisk \ missed \subseteq OnDisk']_vars

\* When serve returns nil without having closed connections by force, every
\* update of this life, answered or not, is in the file: the final save comes
\* after the handlers and after the periodic saver.
GracefulExitSavesAll ==
  phase = "exited" /\ ~forced => path = Data(mem)

\* In the periodic mode, even after a forced close, an update whose client got
\* its 200 in this life is in the file when serve returns nil.
AckedSurviveExit == ~Sync /\ phase = "exited" => Acked \cap mem \subseteq OnDisk

\* "interval in seconds to persist metrics to disk" (flag -i): an update in the
\* store of a server that stays up reaches the disk in the periodic mode, unless
\* a NaN or an Inf has come into the store, after which nothing is saved any more.
UpdatesReachDisk ==
  \A r \in Requests :
    r \in mem /\ interval > 0
      ~> r \in OnDisk \/ mem \cap nan # {} \/ ~Alive \/ phase = "loading"

\* After a signal serve comes back, unless it is killed.
ShutdownEnds == phase = "shutdown" ~> ~Alive
=============================================================================
