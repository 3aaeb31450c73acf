-------------------------- MODULE PersistenceProofs --------------------------
(***************************************************************************)
(* Theorems about Persistence, for any set of requests, any intervals and  *)
(* any number of restarts and faults: the file in the periodic mode is     *)
(* whole and loses only what could not be read at the start, a graceful    *)
(* exit saves everything, a forced one whatever was answered.              *)
(***************************************************************************)
EXTENDS Persistence, TLAPS

\* Who may be saving, and when.
SaverInv ==
  /\ \A r \in Requests : savePc[r] # "idle" => Sync /\ st[r] = "applied"
  /\ savePc["periodic"] # "idle" => perPc = "save"
  /\ savePc["main"] # "idle" =>
       /\ perPc = "done" /\ phase \in {"saving", "exited", "failed", "crashed"}
       /\ ~forced => \A r \in Requests : ~Active(r)
  /\ phase \in {"stopping", "saving", "exited"} /\ ~forced => \A r \in Requests : ~Active(r)
  /\ phase = "loading" => /\ \A s \in Savers : savePc[s] = "idle"
                          /\ \A r \in Requests : ~Active(r)
  /\ phase = "exited" => savePc["main"] = "saved"

\* Savers that are alone with the two files: both in the periodic mode, serve
\* when it has not closed connections by force.
Sole(s) == ~Sync \/ (s = "main" /\ ~forced)

\* What a saver that is alone finds when it goes on is what it left.
DiskInv ==
  /\ \A s \in Savers : Sole(s) =>
       /\ savePc[s] = "write" => fd[s] = "tmp" /\ tmp = Blank("empty")
       /\ savePc[s] = "rename" => tmp = Data(snap[s])
       /\ savePc[s] = "saved" => path = Data(snap[s])
  /\ PeriodicFileReadable

HasSnapshot(s) == savePc[s] \in {"open", "write", "rename"}

Loaded == phase \notin {"loading", "crashed"}

\* What is on disk and this life has not failed to read.
Known == OnDisk \ missed

\* The store covers what is known of the file, and so does every snapshot on its
\* way to it.
CoverInv ==
  Restore /\ ~Sync =>
    /\ Loaded => Known \subseteq mem
    /\ \A s \in Savers : HasSnapshot(s) => Known \subseteq snap[s] /\ snap[s] \subseteq mem

\* What the final save carries.
FinalInv ==
  HasSnapshot("main") \/ savePc["main"] = "saved" =>
    /\ ~forced => snap["main"] = mem
    /\ Acked \cap mem \subseteq snap["main"]

LEMMA SaverNames ==
  /\ "periodic" \in Savers /\ "main" \in Savers /\ Requests \subseteq Savers
  /\ "periodic" \notin Requests /\ "main" \notin Requests
BY PersistenceAssumption DEF Savers

LEMMA TypesInductive == TypeOK /\ SaverInv /\ [Next]_vars => TypeOK'
<1> SUFFICES ASSUME TypeOK, SaverInv, [Next]_vars PROVE TypeOK'
  OBVIOUS
<1> USE SaverNames DEF TypeOK, settings, lifeVars, saverVars, diskVars
<1>0. /\ \A k \in {"absent", "empty", "mixed", "data"} : Blank(k) \in Content
      /\ \A u \in SUBSET Requests : Data(u) \in Content
  BY DEF Content, Blank, Data
<1>1. ASSUME NEW r \in Requests, Begin(r) \/ Refuse(r) \/ Apply(r) \/ Respond(r)
      PROVE  TypeOK'
  <2>1. CASE Begin(r) \/ Refuse(r)
    BY <2>1 DEF Begin, Refuse
  <2>2. CASE Apply(r)
    <3>1. savePc[r] = "idle"
      BY <2>2 DEF Apply, SaverInv
    <3> QED BY <2>2, <3>1 DEF Apply, CallSave
  <2>3. CASE Respond(r)
    <3>1. fd[r] = "none"
      BY <2>3 DEF Respond, SaveReturned, SaverInv
    <3> QED BY <2>3, <3>1 DEF Respond, ForgetSave
  <2> QED BY <1>1, <2>1, <2>2, <2>3
<1>2. ASSUME NEW s \in Savers, SaveStep(s) \/ SaveFault(s)
      PROVE  TypeOK'
  <2>1. Target(s) \in Content
    BY <1>0 DEF Target
  <2>2. CASE TakeSnapshot(s)
    BY <2>2 DEF TakeSnapshot
  <2>3. CASE OpenTmp(s)
    BY <2>3, <1>0 DEF OpenTmp
  <2>4. CASE WriteTmp(s)
    <3> PICK c \in Overwritten(Target(s), snap[s]) : Put(s, c)
      BY <2>4 DEF WriteTmp
    <3>1. c \in Content
      BY <1>0 DEF Overwritten
    <3> QED BY <2>4, <3>1 DEF WriteTmp, Put
  <2>5. CASE RenameTmp(s)
    BY <2>5, <1>0 DEF RenameTmp
  <2>6. CASE RenameNothing(s)
    BY <2>6 DEF RenameNothing
  <2>7. CASE SaveFault(s)
    <3>1. path' \in Content /\ tmp' \in Content
      BY <2>7, <2>1, <1>0 DEF SaveFault, Put
    <3> QED BY <2>7, <3>1, PersistenceAssumption DEF SaveFault
  <2> QED BY <1>2, <2>2, <2>3, <2>4, <2>5, <2>6, <2>7 DEF SaveStep
<1>3. CASE Periodic
  <2>1. CASE PeriodicTick
    <3>1. fd["periodic"] = "none"
      BY <2>1 DEF PeriodicTick, SaverInv
    <3> QED BY <2>1, <3>1 DEF PeriodicTick, CallSave
  <2>2. CASE PeriodicSaved
    BY <2>2 DEF PeriodicSaved, ForgetSave, SaveReturned
  <2>3. CASE PeriodicExit
    BY <2>3 DEF PeriodicExit
  <2> QED BY <1>3, <2>1, <2>2, <2>3 DEF Periodic
<1>4. CASE Serve
  <2>1. CASE Load
    <3>1. mem' \subseteq Requests
      BY <2>1 DEF Load, OnDisk, Content
    <3> QED BY <2>1, <3>1 DEF Load
  <2>2. CASE ShutdownDone \/ ShutdownTimeout \/ FinalSaved \/ Aborted
    BY <2>2 DEF ShutdownDone, ShutdownTimeout, FinalSaved, Aborted
  <2>3. CASE PeriodicStopped
    <3>1. fd["main"] = "none"
      BY <2>3 DEF PeriodicStopped, SaverInv
    <3> QED BY <2>3, <3>1 DEF PeriodicStopped, CallSave
  <2> QED BY <1>4, <2>1, <2>2, <2>3 DEF Serve
<1>5. CASE LoadFails \/ Signal \/ ListenFails \/ Crash
  <2>1. OnDisk \subseteq Requests
    BY DEF OnDisk, Content
  <2> QED BY <1>5, <2>1, PersistenceAssumption DEF LoadFails, Signal, ListenFails, Crash
<1>6. CASE Restart
  <2>1. restarts' \in 0..Restarts
    BY <1>6, PersistenceAssumption DEF Restart
  <2>2. perPc' \in {"wait", "save", "done"}
    BY <1>6 DEF Restart, PeriodicStart
  <2>3. st' \in [Requests -> {"idle", "begun", "applied", "acked", "refused", "unanswered"}]
    BY <1>6 DEF Restart
  <2> QED BY <1>6, <2>1, <2>2, <2>3 DEF Restart
<1>7. CASE Ended \/ UNCHANGED vars
  BY <1>7 DEF Ended, vars
<1> QED BY <1>1, <1>2, <1>3, <1>4, <1>5, <1>6, <1>7 DEF Next, Handler

LEMMA SaversInductive == TypeOK /\ SaverInv /\ [Next]_vars => SaverInv'
<1> SUFFICES ASSUME TypeOK, SaverInv, [Next]_vars PROVE SaverInv'
  OBVIOUS
<1> USE SaverNames DEF TypeOK, SaverInv, Sync, Active, settings, lifeVars
<1>1. ASSUME NEW r \in Requests, Begin(r) \/ Refuse(r) \/ Apply(r) \/ Respond(r)
      PROVE  SaverInv'
  <2>1. CASE Begin(r)
    BY <2>1 DEF Begin, saverVars
  <2>2. CASE Refuse(r)
    BY <2>2 DEF Refuse, saverVars
  <2>3. CASE Apply(r)
    BY <2>3 DEF Apply, CallSave
  <2>4. CASE Respond(r)
    BY <2>4 DEF Respond, ForgetSave
  <2> QED BY <1>1, <2>1, <2>2, <2>3, <2>4
<1>2. ASSUME NEW s \in Savers, SaveStep(s) \/ SaveFault(s)
      PROVE  SaverInv'
  <2>1. savePc[s] \in {"snapshot", "open", "write", "rename"}
    BY <1>2 DEF SaveStep, TakeSnapshot, OpenTmp, WriteTmp, RenameTmp, RenameNothing, SaveFault
  <2>2. /\ \A x \in Savers \ {s} : savePc'[x] = savePc[x]
        /\ UNCHANGED <<st, perPc, phase, forced, interval>>
    BY <1>2 DEF SaveStep, TakeSnapshot, OpenTmp, WriteTmp, RenameTmp, RenameNothing, SaveFault
  <2> QED BY <2>1, <2>2
<1>3. CASE Periodic
  BY <1>3 DEF Periodic, PeriodicTick, PeriodicSaved, PeriodicExit, CallSave, ForgetSave, saverVars
<1>4. CASE Serve
  <2>1. CASE Load \/ Aborted
    BY <2>1 DEF Load, Aborted, saverVars
  <2>2. CASE ShutdownDone \/ ShutdownTimeout
    BY <2>2 DEF ShutdownDone, ShutdownTimeout, saverVars
  <2>3. CASE PeriodicStopped
    BY <2>3 DEF PeriodicStopped, CallSave
  <2>4. CASE FinalSaved
    BY <2>4 DEF FinalSaved, SaveReturned, saverVars
  <2> QED BY <1>4, <2>1, <2>2, <2>3, <2>4 DEF Serve
<1>5. CASE LoadFails \/ Signal \/ ListenFails \/ Crash
  BY <1>5 DEF LoadFails, Signal, ListenFails, Crash, Alive, saverVars
<1>6. CASE Restart
  BY <1>6 DEF Restart
<1>7. CASE Ended \/ UNCHANGED vars
  BY <1>7 DEF Ended, vars, saverVars
<1> QED BY <1>1, <1>2, <1>3, <1>4, <1>5, <1>6, <1>7 DEF Next, Handler

\* Nobody saves beside a saver that is alone.
LEMMA SoleIsAlone ==
  ASSUME SaverInv, NEW s \in Savers, NEW x \in Savers,
         Sole(s), savePc[s] # "idle", savePc[x] # "idle"
  PROVE  x = s
<1>1. CASE ~Sync
  BY <1>1 DEF SaverInv, Savers
<1>2. CASE s = "main" /\ ~forced
  BY <1>2 DEF SaverInv, Savers, Active
<1> QED BY <1>1, <1>2 DEF Sole

\* A step of the saver s, seen by a saver that is alone: it is s, or it rests.
LEMMA OthersRest ==
  ASSUME SaverInv, NEW s \in Savers, NEW x \in Savers, savePc[s] # "idle", Sole(x), x # s
  PROVE  savePc[x] = "idle"
BY SoleIsAlone

LEMMA Kinds ==
  /\ \A k : Blank(k).kind = k
  /\ \A u : Data(u).kind = "data" /\ Data(u).updates = u
BY DEF Blank, Data

LEMMA DiskSaveStep ==
  ASSUME TypeOK, SaverInv, DiskInv, NEW s \in Savers, SaveStep(s) \/ SaveFault(s)
  PROVE  DiskInv'
<1> USE DEF TypeOK, settings, lifeVars, saverVars, diskVars
<1>1. /\ savePc[s] \in {"snapshot", "open", "write", "rename"}
      /\ \A x \in Savers \ {s} : savePc'[x] = savePc[x] /\ snap'[x] = snap[x]
      /\ savePc'[s] \in {"open", "write", "rename", "saved", "failed"}
      /\ interval' = interval /\ forced' = forced
  BY DEF SaveStep, TakeSnapshot, OpenTmp, WriteTmp, RenameTmp, RenameNothing, SaveFault
<1>2. \A x \in Savers \ {s} : Sole(x) => savePc'[x] = "idle"
  BY <1>1, OthersRest
<1>3. (Sync' = Sync) /\ \A x \in Savers : Sole(x)' = Sole(x)
  BY <1>1 DEF Sole, Sync
\* So only s is of concern.
<1>4. SUFFICES /\ Sole(s) =>
                    /\ savePc'[s] = "write" => fd'[s] = "tmp" /\ tmp' = Blank("empty")
                    /\ savePc'[s] = "rename" => tmp' = Data(snap'[s])
                    /\ savePc'[s] = "saved" => path' = Data(snap'[s])
               /\ ~Sync => path'.kind \in {"absent", "data"}
  BY <1>2, <1>3 DEF DiskInv, PeriodicFileReadable, FileReadable
<1>5. ~Sync => Sole(s) /\ path.kind \in {"absent", "data"}
  BY DEF Sole, DiskInv, PeriodicFileReadable, FileReadable
<1>a. CASE TakeSnapshot(s)
  BY <1>a, <1>5 DEF TakeSnapshot
<1>b. CASE OpenTmp(s)
  BY <1>b, <1>5 DEF OpenTmp
<1>c. CASE WriteTmp(s)
  <2>1. CASE Sole(s)
    <3>1. fd[s] = "tmp" /\ tmp = Blank("empty")
      BY <1>c, <2>1 DEF WriteTmp, DiskInv
    <3>2. Overwritten(Target(s), snap[s]) = {Data(snap[s])}
      BY <3>1, Kinds DEF Overwritten, Target
    <3>3. tmp' = Data(snap[s]) /\ path' = path
      BY <1>c, <3>1, <3>2 DEF WriteTmp, Put
    <3> QED BY <1>c, <1>5, <3>3 DEF WriteTmp
  <2>2. CASE ~Sole(s)
    BY <2>2, <1>5
  <2> QED BY <2>1, <2>2
<1>d. CASE RenameTmp(s)
  <2>1. CASE Sole(s)
    <3>1. tmp = Data(snap[s])
      BY <1>d, <2>1 DEF RenameTmp, DiskInv
    <3> QED BY <1>d, <1>5, <3>1, Kinds DEF RenameTmp
  <2>2. CASE ~Sole(s)
    BY <2>2, <1>5
  <2> QED BY <2>1, <2>2
<1>e. CASE RenameNothing(s)
  BY <1>e, <1>5 DEF RenameNothing
<1>f. CASE SaveFault(s)
  <2>1. Sole(s) => path' = path
    BY <1>f DEF SaveFault, DiskInv, Put
  <2> QED BY <1>f, <1>5, <2>1 DEF SaveFault
<1> QED BY <1>a, <1>b, <1>c, <1>d, <1>e, <1>f DEF SaveStep

LEMMA DiskInductive == TypeOK /\ SaverInv /\ DiskInv /\ [Next]_vars => DiskInv'
<1> SUFFICES ASSUME TypeOK, SaverInv, DiskInv, [Next]_vars PROVE DiskInv'
  OBVIOUS
<1>1. CASE \E s \in Savers : SaveStep(s) \/ SaveFault(s)
  BY <1>1, DiskSaveStep
\* Whoever else moves leaves the files alone and nobody starts in the middle of a save.
<1>2. ASSUME UNCHANGED <<diskVars, fd, interval>>,
             \A s \in Savers : Sole(s)' => Sole(s),
             \A s \in Savers : savePc'[s] \in {"write", "rename", "saved"} =>
                                savePc'[s] = savePc[s] /\ snap'[s] = snap[s]
      PROVE  DiskInv'
  BY <1>2 DEF DiskInv, PeriodicFileReadable, FileReadable, Sync, diskVars
<1> USE SaverNames DEF TypeOK, Sole, Sync, settings, lifeVars, saverVars
<1>3. CASE \E r \in Requests : Begin(r) \/ Handler(r)
  <2> PICK r \in Requests : Begin(r) \/ Handler(r)
    BY <1>3
  <2>1. CASE Begin(r) \/ Refuse(r)
    BY <2>1, <1>2 DEF Begin, Refuse
  <2>2. CASE Apply(r)
    BY <2>2, <1>2 DEF Apply, CallSave
  <2>3. CASE Respond(r)
    BY <2>3, <1>2 DEF Respond, ForgetSave
  <2> QED BY <2>1, <2>2, <2>3 DEF Handler
<1>4. CASE Periodic
  BY <1>4, <1>2 DEF Periodic, PeriodicTick, PeriodicSaved, PeriodicExit, CallSave, ForgetSave
<1>5. CASE Serve
  <2>1. CASE Load \/ ShutdownDone \/ FinalSaved \/ Aborted
    BY <2>1, <1>2 DEF Load, ShutdownDone, FinalSaved, Aborted
  <2>2. CASE ShutdownTimeout
    BY <2>2, <1>2 DEF ShutdownTimeout
  <2>3. CASE PeriodicStopped
    BY <2>3, <1>2 DEF PeriodicStopped, CallSave
  <2> QED BY <1>5, <2>1, <2>2, <2>3 DEF Serve
<1>6. CASE LoadFails \/ Signal \/ ListenFails \/ Crash \/ Ended \/ UNCHANGED vars
  BY <1>6, <1>2 DEF LoadFails, Signal, ListenFails, Crash, Ended, vars
<1>7. CASE Restart
  BY <1>7 DEF Restart, DiskInv, PeriodicFileReadable, FileReadable, diskVars
<1> QED BY <1>1, <1>3, <1>4, <1>5, <1>6, <1>7 DEF Next

----------------------------------------------------------------------------
(* The periodic mode: what is on disk.                                     *)

\* There only a rename changes what is under path, to the saver's snapshot.
LEMMA DiskChanges ==
  ASSUME TypeOK, SaverInv, DiskInv, [Next]_vars, ~Sync
  PROVE  \/ path' = path
         \/ \E s \in Savers : /\ savePc[s] = "rename" /\ path' = Data(snap[s])
                            /\ RenameTmp(s)
<1> USE DEF settings, lifeVars, saverVars, diskVars
<1>1. ASSUME NEW s \in Savers, SaveStep(s) \/ SaveFault(s)
      PROVE  path' = path \/ (savePc[s] = "rename" /\ path' = Data(snap[s]) /\ RenameTmp(s))
  <2>1. Sole(s)
    BY DEF Sole
  <2>2. savePc[s] = "write" => fd[s] = "tmp"
    BY <2>1 DEF DiskInv
  <2>3. savePc[s] = "rename" => tmp = Data(snap[s])
    BY <2>1 DEF DiskInv
  <2>4. CASE WriteTmp(s) \/ SaveFault(s)
    BY <2>2, <2>4 DEF WriteTmp, SaveFault, Put
  <2>5. CASE RenameTmp(s)
    BY <2>3, <2>5 DEF RenameTmp
  <2>6. CASE TakeSnapshot(s) \/ OpenTmp(s) \/ RenameNothing(s)
    BY <2>6 DEF TakeSnapshot, OpenTmp, RenameNothing
  <2> QED BY <1>1, <2>4, <2>5, <2>6 DEF SaveStep
<1>2. CASE \E s \in Savers : SaveStep(s) \/ SaveFault(s)
  BY <1>1, <1>2
<1>3. CASE ~ \E s \in Savers : SaveStep(s) \/ SaveFault(s)
  BY <1>3 DEF Next, Handler, Periodic, Serve, Begin, Refuse, Apply, Respond, PeriodicTick,
     PeriodicSaved, PeriodicExit, Load, LoadFails, ShutdownDone, ShutdownTimeout, PeriodicStopped,
     FinalSaved, Aborted, Signal, ListenFails, Crash, Restart, Ended, vars
<1> QED BY <1>2, <1>3

LEMMA CoverSaveStep ==
  ASSUME TypeOK, SaverInv, DiskInv, CoverInv, Restore, ~Sync,
         NEW s \in Savers, SaveStep(s) \/ SaveFault(s)
  PROVE  CoverInv'
<1> USE DEF TypeOK, settings, lifeVars, saverVars, diskVars, HasSnapshot
<1>1. /\ savePc[s] \in {"snapshot", "open", "write", "rename"}
      /\ savePc[s] = "rename" => savePc'[s] \in {"saved", "failed"}
      /\ \A x \in Savers \ {s} : savePc'[x] = savePc[x] /\ snap'[x] = snap[x]
      /\ UNCHANGED <<mem, missed, phase, interval>>
      /\ savePc'[s] \in {"open", "write", "rename"} =>
           IF savePc[s] = "snapshot" THEN snap'[s] = mem ELSE snap'[s] = snap[s]
  BY DEF SaveStep, TakeSnapshot, OpenTmp, WriteTmp, RenameTmp, RenameNothing, SaveFault
<1>2. \A x \in Savers \ {s} : savePc'[x] = "idle"
  BY <1>1, OthersRest DEF Sole
<1>3. Loaded
  BY <1>1 DEF SaverInv, Loaded, Alive, SaveStep, TakeSnapshot, OpenTmp, WriteTmp, RenameTmp,
     RenameNothing, SaveFault
<1>4. Known \subseteq mem /\ (HasSnapshot(s) => Known \subseteq snap[s] /\ snap[s] \subseteq mem)
  BY <1>3 DEF CoverInv
<1>5. Known' = Known \/ (savePc[s] = "rename" /\ Known' \subseteq snap[s])
  <2>1. CASE path' = path
    BY <1>1, <2>1 DEF Known, OnDisk
  <2>2. ASSUME NEW x \in Savers, savePc[x] = "rename", path' = Data(snap[x])
        PROVE  x = s /\ Known' \subseteq snap[s]
    <3>1. x = s
      BY <1>1, <2>2, OthersRest DEF Sole
    <3>2. Data(snap[s]).kind = "data" /\ Data(snap[s]).updates = snap[s]
      BY Kinds
    <3> QED BY <3>1, <3>2, <2>2 DEF Known, OnDisk
  <2>3. [Next]_vars
    BY DEF Next
  <2> QED BY <2>1, <2>2, <2>3, DiskChanges
<1>6. Known' \subseteq mem'
  BY <1>1, <1>4, <1>5
<1>7. savePc'[s] \in {"open", "write", "rename"} => Known' \subseteq snap'[s] /\ snap'[s] \subseteq mem'
  BY <1>1, <1>4, <1>5
<1> QED BY <1>2, <1>6, <1>7 DEF CoverInv, Loaded

LEMMA CoverInductive == TypeOK /\ SaverInv /\ DiskInv /\ CoverInv /\ [Next]_vars => CoverInv'
<1> SUFFICES ASSUME TypeOK, SaverInv, DiskInv, CoverInv, [Next]_vars, Restore, ~Sync'
             PROVE  CoverInv'
  BY DEF CoverInv
<1>0. ~Sync
  BY DEF Next, Handler, Periodic, Serve, SaveStep, Begin, Refuse, Apply, Respond, PeriodicTick,
     PeriodicSaved, PeriodicExit, Load, LoadFails, ShutdownDone, ShutdownTimeout, PeriodicStopped,
     FinalSaved, Aborted, Signal, ListenFails, Crash, Restart, Ended, vars, TakeSnapshot,
     OpenTmp, WriteTmp, RenameTmp, RenameNothing, SaveFault, Sync, lifeVars, settings
<1>1. CASE \E s \in Savers : SaveStep(s) \/ SaveFault(s)
  BY <1>0, <1>1, CoverSaveStep
\* Nobody else touches the file or has a snapshot to show for it.
<1>2. ASSUME UNCHANGED <<path, missed>>, Loaded' => mem \subseteq mem' /\ Loaded,
             \A s \in Savers : HasSnapshot(s)' =>
                                HasSnapshot(s) /\ snap'[s] = snap[s] /\ mem \subseteq mem'
      PROVE  CoverInv'
  BY <1>0, <1>2 DEF CoverInv, Known, OnDisk
<1> USE SaverNames DEF TypeOK, HasSnapshot, Loaded, settings, lifeVars, saverVars, diskVars
<1>3. CASE \E r \in Requests : Begin(r) \/ Handler(r)
  <2> PICK r \in Requests : Begin(r) \/ Handler(r)
    BY <1>3
  <2>1. CASE Begin(r) \/ Refuse(r)
    BY <2>1, <1>2 DEF Begin, Refuse
  <2>2. CASE Apply(r)
    <3>1. phase # "loading"
      BY <2>2 DEF Apply, SaverInv, Active
    <3> QED BY <2>2, <3>1, <1>2 DEF Apply, CallSave
  <2>3. CASE Respond(r)
    BY <2>3, <1>2 DEF Respond, ForgetSave
  <2> QED BY <2>1, <2>2, <2>3 DEF Handler
<1>4. CASE Periodic
  BY <1>4, <1>2 DEF Periodic, PeriodicTick, PeriodicSaved, PeriodicExit, CallSave, ForgetSave
<1>5. CASE Serve
  <2>1. CASE Load
    <3>1. mem' = OnDisk /\ Known' \subseteq OnDisk
      BY <2>1 DEF Load, Known, OnDisk
    <3>2. \A s \in Savers : savePc'[s] = "idle"
      BY <2>1 DEF Load, SaverInv
    <3> QED BY <3>1, <3>2 DEF CoverInv
  <2>2. CASE ShutdownDone \/ ShutdownTimeout \/ FinalSaved \/ Aborted
    BY <2>2, <1>2 DEF ShutdownDone, ShutdownTimeout, FinalSaved, Aborted
  <2>3. CASE PeriodicStopped
    BY <2>3, <1>2 DEF PeriodicStopped, CallSave
  <2> QED BY <1>5, <2>1, <2>2, <2>3 DEF Serve
<1>6. CASE Signal \/ ListenFails \/ Crash \/ Ended \/ UNCHANGED vars
  BY <1>6, <1>2 DEF Signal, ListenFails, Crash, Ended, vars
<1>7. CASE Restart
  BY <1>7 DEF Restart, CoverInv
\* What could not be read is not known: the empty store covers the rest.
<1>8. CASE LoadFails
  <2>1. Known' = {}
    BY <1>8 DEF LoadFails, Known, OnDisk
  <2>2. \A s \in Savers : savePc'[s] = "idle"
    BY <1>8 DEF LoadFails, SaverInv
  <2> QED BY <2>1, <2>2 DEF CoverInv
<1> QED BY <1>1, <1>3, <1>4, <1>5, <1>6, <1>7, <1>8 DEF Next

----------------------------------------------------------------------------
(* The final save.                                                         *)

LEMMA FinalInductive == TypeOK /\ SaverInv /\ FinalInv /\ [Next]_vars => FinalInv'
<1> SUFFICES ASSUME TypeOK, SaverInv, FinalInv, [Next]_vars PROVE FinalInv'
  OBVIOUS
\* While serve holds its snapshot the store grows only after a forced close,
\* when nobody is answered any more.
<1>1. ASSUME savePc'["main"] \in {"open", "write", "rename", "saved"} =>
               /\ savePc["main"] \in {"open", "write", "rename", "saved"}
               /\ snap'["main"] = snap["main"] /\ forced' = forced
               /\ Acked' \cap mem' \subseteq Acked \cap mem
               /\ ~forced => mem' = mem
      PROVE  FinalInv'
  BY <1>1 DEF FinalInv, HasSnapshot
<1> USE SaverNames DEF TypeOK, settings, lifeVars, saverVars, diskVars
<1>2. ASSUME NEW r \in Requests, Begin(r) \/ Handler(r)
      PROVE  FinalInv'
  <2>1. Begin(r) => savePc["main"] = "idle"
    BY DEF Begin, SaverInv
  <2>2. CASE Begin(r) \/ Refuse(r)
    BY <2>1, <2>2, <1>1 DEF Begin, Refuse, Acked
  <2>3. CASE Apply(r)
    <3>1. Acked' \cap mem' \subseteq Acked \cap mem
      BY <2>3 DEF Apply, Acked
    <3>2. savePc["main"] # "idle" => forced
      BY <2>3 DEF Apply, SaverInv, Active
    <3> QED BY <2>3, <3>1, <3>2, <1>1 DEF Apply, CallSave
  <2>4. CASE Respond(r)
    <3>1. savePc["main"] # "idle" => forced
      BY <2>4 DEF Respond, SaverInv, Active
    <3>2. forced => Acked' = Acked
      BY <2>4 DEF Respond, Acked
    <3> QED BY <2>4, <3>1, <3>2, <1>1 DEF Respond, ForgetSave
  <2> QED BY <1>2, <2>2, <2>3, <2>4 DEF Handler
<1>3. ASSUME NEW s \in Savers, SaveStep(s) \/ SaveFault(s)
      PROVE  FinalInv'
  <2>1. UNCHANGED <<forced, mem, st>>
    BY <1>3 DEF SaveStep, TakeSnapshot, OpenTmp, WriteTmp, RenameTmp, RenameNothing, SaveFault
  <2>2. CASE TakeSnapshot(s)
    <3>1. CASE s = "main"
      BY <2>1, <2>2, <3>1 DEF TakeSnapshot, FinalInv, HasSnapshot, Acked
    <3>2. CASE s # "main"
      BY <2>1, <2>2, <3>2, <1>1 DEF TakeSnapshot, Acked
    <3> QED BY <3>1, <3>2
  <2>3. CASE OpenTmp(s) \/ WriteTmp(s) \/ RenameTmp(s) \/ RenameNothing(s) \/ SaveFault(s)
    BY <2>1, <2>3, <1>1 DEF OpenTmp, WriteTmp, RenameTmp, RenameNothing, SaveFault, Acked
  <2> QED BY <1>3, <2>2, <2>3 DEF SaveStep
<1>4. CASE Periodic
  BY <1>4, <1>1 DEF Periodic, PeriodicTick, PeriodicSaved, PeriodicExit, CallSave, ForgetSave,
     Acked
<1>8. CASE LoadFails
  BY <1>8, <1>1 DEF LoadFails, SaverInv
<1>5. CASE Serve
  <2>1. CASE Load
    BY <2>1, <1>1 DEF Load, SaverInv
  <2>2. CASE ShutdownDone \/ ShutdownTimeout
    <3>1. savePc["main"] = "idle"
      BY <2>2 DEF ShutdownDone, ShutdownTimeout, SaverInv
    <3> QED BY <2>2, <3>1, <1>1 DEF ShutdownDone, ShutdownTimeout
  <2>3. CASE FinalSaved \/ Aborted
    BY <2>3, <1>1 DEF FinalSaved, Aborted, Acked
  <2>4. CASE PeriodicStopped
    BY <2>4, <1>1 DEF PeriodicStopped, CallSave
  <2> QED BY <1>5, <2>1, <2>2, <2>3, <2>4 DEF Serve
<1>6. CASE Signal \/ ListenFails \/ Crash \/ Ended \/ UNCHANGED vars
  BY <1>6, <1>1 DEF Signal, ListenFails, Crash, Ended, vars, Acked
<1>7. CASE Restart
  BY <1>7, <1>1 DEF Restart
<1> QED BY <1>2, <1>3, <1>4, <1>5, <1>6, <1>7, <1>8 DEF Next

----------------------------------------------------------------------------
(* The theorems.                                                           *)

IInv == TypeOK /\ SaverInv /\ DiskInv /\ CoverInv /\ FinalInv

LEMMA InitiallyIInv == Init => IInv
<1> SUFFICES ASSUME Init PROVE IInv
  OBVIOUS
<1> USE SaverNames, Kinds, PersistenceAssumption DEF Init
<1>1. TypeOK
  <2>1. Blank("absent") \in Content
    BY DEF Content, Blank
  <2>2. perPc \in {"wait", "save", "done"}
    BY DEF PeriodicStart
  <2>3. restarts \in 0..Restarts /\ faults \in 0..Faults
    OBVIOUS
  <2>4. /\ savePc \in [Savers -> {"idle", "snapshot", "open", "write", "rename", "saved", "failed"}]
        /\ snap \in [Savers -> SUBSET Requests]
        /\ fd \in [Savers -> {"none", "tmp", "path", "gone"}]
        /\ \A s \in Savers : fd[s] = "none"
    OBVIOUS
  <2> QED BY <2>1, <2>2, <2>3, <2>4 DEF TypeOK
<1>2. SaverInv
  BY DEF SaverInv, Active
<1>3. DiskInv
  BY DEF DiskInv, PeriodicFileReadable, FileReadable
<1>4. CoverInv
  BY DEF CoverInv, HasSnapshot, Loaded
<1>5. FinalInv
  BY DEF FinalInv, HasSnapshot
<1> QED BY <1>1, <1>2, <1>3, <1>4, <1>5 DEF IInv

\* In every reachable state of the server with the file store the five parts
\* of the inductive invariant hold together.
THEOREM FileStoreInvariant == Spec => []IInv
<1>1. IInv /\ [Next]_vars => IInv'
  BY TypesInductive, SaversInductive, DiskInductive, CoverInductive, FinalInductive DEF IInv
<1> QED BY InitiallyIInv, <1>1, PTL DEF Spec

\* The types of the server's state, and that only a saver in its write has the
\* temporary file open (os.WriteFile closes it whatever happens).
THEOREM ServerTypes == Spec => []TypeOK
<1>1. IInv => TypeOK
  BY DEF IInv
<1> QED BY <1>1, FileStoreInvariant, PTL

\* In the periodic mode the file is absent or one whole snapshot whenever the
\* process is killed, through any number of failed saves and restarts.
THEOREM PeriodicFileIsReadable == Spec => []PeriodicFileReadable
<1>1. IInv => PeriodicFileReadable
  BY DEF IInv, DiskInv
<1> QED BY <1>1, FileStoreInvariant, PTL

\* When serve returns nil after a shutdown that closed no connection by force,
\* the file is the snapshot of the whole store.
THEOREM GracefulExitLosesNothing == Spec => []GracefulExitSavesAll
<1>1. IInv => GracefulExitSavesAll
  BY SaverNames DEF IInv, GracefulExitSavesAll, SaverInv, DiskInv, FinalInv, Sole
<1> QED BY <1>1, FileStoreInvariant, PTL

\* In the periodic mode every update of this life whose client got its 200 is
\* in the file when serve returns nil, forced close or not.
THEOREM AckedIsSaved == Spec => []AckedSurviveExit
<1>1. ASSUME IInv PROVE AckedSurviveExit
  <2> SUFFICES ASSUME ~Sync, phase = "exited" PROVE Acked \cap mem \subseteq OnDisk
    BY DEF AckedSurviveExit
  <2>1. savePc["main"] = "saved"
    BY <1>1 DEF IInv, SaverInv
  <2>2. path = Data(snap["main"])
    BY <1>1, <2>1, SaverNames DEF IInv, DiskInv, Sole
  <2>3. OnDisk = snap["main"]
    BY <2>2, Kinds DEF OnDisk
  <2> QED BY <1>1, <2>1, <2>3 DEF IInv, FinalInv
<1>2. IInv => AckedSurviveExit
  BY <1>1
<1> QED BY <1>2, FileStoreInvariant, PTL

\* In the periodic mode of a server that restores its file (-r) no step, crash,
\* failed save or restart takes from the file what it held, except what the
\* running server could not read when it started.
THEOREM OnlyTheUnreadIsLost == Restore /\ Spec => FileNeverRegresses
<1>1. ASSUME Restore, IInv, [Next]_vars PROVE [~Sync => OnDisk \ missed \subseteq OnDisk']_vars
  <2> SUFFICES ASSUME ~Sync PROVE Known \subseteq OnDisk'
    BY DEF Known
  <2>1. CASE path' = path
    BY <2>1 DEF Known, OnDisk
  <2>2. ASSUME NEW s \in Savers, savePc[s] = "rename", path' = Data(snap[s])
        PROVE  Known \subseteq OnDisk'
    <3>1. Known \subseteq snap[s]
      BY <1>1, <2>2 DEF IInv, CoverInv, HasSnapshot
    <3>2. OnDisk' = snap[s]
      <4>1. Data(snap[s]).kind = "data" /\ Data(snap[s]).updates = snap[s]
        BY Kinds
      <4> QED BY <2>2, <4>1 DEF OnDisk
    <3> QED BY <3>1, <3>2
  <2> QED BY <1>1, <2>1, <2>2, DiskChanges DEF IInv
<1>2. CASE Restore
  <2>1. IInv /\ [Next]_vars => [~Sync => OnDisk \ missed \subseteq OnDisk']_vars
    BY <1>1, <1>2
  <2> QED BY <2>1, FileStoreInvariant, PTL DEF Spec, FileNeverRegresses
<1>3. CASE ~Restore
  BY <1>3
<1> QED BY <1>2, <1>3
=============================================================================
