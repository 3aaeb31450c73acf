--------------------------- MODULE DBStorageProofs ---------------------------
(***************************************************************************)
(* Theorems about DBStorage, for any calls, gauges, batches and pauses: its*)
(* types, and that it implements BatchStore. The argument: a batch has at  *)
(* most one transaction, for no failure the driver reports is one that     *)
(* retry.Do repeats, and a single call at most one statement for each try  *)
(* of database/sql; what a transaction has written is what its statements  *)
(* so far say; and it is committed only after the last of them.            *)
(***************************************************************************)
EXTENDS DBStorage, FiniteSetTheorems, SequenceTheorems, TLAPS

\* No failure is repeated.
LEMMA NeverRetried == \A e \in Failures : ~isRetriablePgError(e) /\ e # Nil
<1>1. TAKE e \in Failures
<1>2. e.type \in {"pq.Error", "net.OpError", "driver.ErrBadConn", "sql: database is closed"}
  <2>1. FromDriver("08").type = "pq.Error" /\ FromDriver("22").type = "pq.Error"
        /\ FromDriver("40").type = "pq.Error"
    BY DEF FromDriver
  <2>2. BrokenConnection.type = "net.OpError"
        /\ BadConn.type = "driver.ErrBadConn"
        /\ StoreClosed.type = "sql: database is closed"
    BY DEF BrokenConnection, BadConn, StoreClosed
  <2> QED BY <2>1, <2>2
          DEF Failures, ConnectionErrors, ConnectionException, OutOfRange, DeadlockDetected
<1>3. Nil.type = "nil"
  BY DEF Nil
<1> QED BY <1>2, <1>3 DEF isRetriablePgError

\* A failed attempt is the end of the call.
LEMMA AttemptOverIsTheEnd ==
  ASSUME NEW c \in Calls, NEW e \in Failures, AttemptOver(c, e)
  PROVE  /\ pc' = [pc EXCEPT ![c] = "done"]
         /\ err' = [err EXCEPT ![c] = e] /\ e # Nil
         /\ UNCHANGED <<attempt, tries>>
BY NeverRetried DEF AttemptOver

\* The failure of a connection ends the call as well, or it is a single one and
\* its statement is sent again.
LEMMA ConnectionFailsHow ==
  ASSUME NEW c \in Calls, NEW e \in Failures, ConnectionFails(c, e)
  PROVE  \/ AttemptOver(c, e)
         \/ /\ single[c] /\ tries[c] < SqlRetries
            /\ pc' = [pc EXCEPT ![c] = "begin"]
            /\ tries' = [tries EXCEPT ![c] = @ + 1]
            /\ UNCHANGED <<attempt, err>>
BY DEF ConnectionFails, SentAgain

\* A script is a sequence of rows.
LEMMA ScriptIsSequence ==
  ASSUME NEW s \in Scripts
  PROVE  /\ s \in Seq(Rows)
         /\ Len(s) \in 1..BatchLen
         /\ DOMAIN s = 1..Len(s)
<1>1. PICK n \in 1..BatchLen : s \in [1..n -> Rows]
  BY DEF Scripts
<1>2. n \in Nat /\ BatchLen \in Nat
  BY <1>1, DBAssumption
<1>3. s \in Seq(Rows)
  BY <1>1, <1>2, SeqDef
<1>4. Len(s) = n
  BY <1>1, <1>2, <1>3, LenProperties
<1> QED BY <1>1, <1>3, <1>4

\* The statements of c so far that add to the counter.
CountedSoFar(c) == {i \in 1..pos[c] : script[c][i] = Counter}

\* What c's transaction has written is what its statements so far say.
WroteInv(c) ==
  /\ pos[c] <= Len(script[c])
  /\ wrote[c].g = {script[c][i] : i \in 1..pos[c]} \ {Counter}
  /\ wrote[c].n = Cardinality(CountedSoFar(c))

\* One more statement: one more increment, or none.
LEMMA OneMoreCounted ==
  ASSUME NEW f, NEW n \in Nat
  PROVE  /\ Cardinality({i \in 1..n : f[i] = Counter}) \in Nat
         /\ Cardinality({i \in 1..(n + 1) : f[i] = Counter}) =
              Cardinality({i \in 1..n : f[i] = Counter})
                + (IF f[n + 1] = Counter THEN 1 ELSE 0)
<1> DEFINE S == {i \in 1..n : f[i] = Counter}
           T == {i \in 1..(n + 1) : f[i] = Counter}
<1>1. IsFiniteSet(S)
  <2>1. IsFiniteSet(1..n)
    BY FS_Interval
  <2> QED BY <2>1, FS_Subset
<1>2. Cardinality(S) \in Nat
  BY <1>1, FS_CardinalityType
<1>3. CASE f[n + 1] = Counter
  <2>1. T = S \cup {n + 1} /\ n + 1 \notin S
    BY <1>3
  <2> QED BY <1>1, <1>2, <1>3, <2>1, FS_AddElement
<1>4. CASE f[n + 1] # Counter
  <2>1. T = S
    BY <1>4
  <2> QED BY <1>2, <1>4, <2>1
<1> QED BY <1>3, <1>4

----------------------------------------------------------------------------
(* Types.                                                                  *)

\* A call that executes statements has a transaction to execute them in.
TxHeld == \A c \in Calls : pc[c] = "exec" => tx[c] = "active"

\* Every way in which a call meets a failure.
Fails(c) ==
  BeginFails(c) \/ StatementFails(c) \/ DeadlockVictim(c) \/ ConnectionLost(c) \/ StatementLost(c)

LEMMA FailsHow ==
  ASSUME NEW c \in Calls, Fails(c)
  PROVE  \E e \in Failures : AttemptOver(c, e) \/ ConnectionFails(c, e)
BY DEF Fails, BeginFails, StatementFails, DeadlockVictim, ConnectionLost, StatementLost,
       Failures, ConnectionErrors

\* What a failure leaves behind.
LEMMA FailsTypes ==
  ASSUME TypeOK, NEW c \in Calls, Fails(c)
  PROVE  /\ pc' \in [Calls -> {"idle", "begin", "exec", "done"}]
         /\ attempt' \in [Calls -> 0..Pauses] /\ tries' \in [Calls -> 0..SqlRetries]
         /\ err' \in [Calls -> Failures \cup {Nil}]
<1>1. PICK e \in Failures : AttemptOver(c, e) \/ ConnectionFails(c, e)
  BY FailsHow
<1>2. CASE AttemptOver(c, e)
  BY <1>2, AttemptOverIsTheEnd DEF TypeOK
<1>3. CASE ~AttemptOver(c, e)
  <2>1. /\ tries[c] < SqlRetries
        /\ pc' = [pc EXCEPT ![c] = "begin"]
        /\ tries' = [tries EXCEPT ![c] = @ + 1]
        /\ UNCHANGED <<attempt, err>>
    BY <1>1, <1>3, ConnectionFailsHow
  <2>2. tries[c] + 1 \in 0..SqlRetries
    BY <2>1, DBAssumption DEF TypeOK
  <2> QED BY <2>1, <2>2 DEF TypeOK
<1> QED BY <1>2, <1>3

\* The row of a statement is one of the store's.
LEMMA RowIsRow ==
  ASSUME TypeOK, NEW c \in Calls, HasStatement(c)
  PROVE  /\ Row(c) \in Rows /\ pos[c] \in Nat
         /\ pos[c] + 1 \in 1..Len(script[c]) /\ pos[c] + 1 \in 0..BatchLen
<1>1. script[c] \in Scripts /\ pos[c] \in Nat
  BY DBAssumption DEF TypeOK
<1>2. script[c] \in Seq(Rows) /\ Len(script[c]) \in 1..BatchLen
  BY <1>1, ScriptIsSequence
<1>3. pos[c] + 1 \in 1..Len(script[c]) /\ pos[c] + 1 \in 0..BatchLen
  BY <1>1, <1>2, DBAssumption DEF HasStatement
<1> QED BY <1>1, <1>2, <1>3 DEF Row

\* What a transaction has written stays of its type with one statement more.
LEMMA WroteMore ==
  ASSUME NEW w \in Wrote, NEW r \in Rows
  PROVE  /\ Upserted(w, r) \in Wrote
         /\ Upserted(w, r).g = w.g \cup (IF r = Counter THEN {} ELSE {r})
         /\ Upserted(w, r).n = w.n + (IF r = Counter THEN 1 ELSE 0)
BY DEF Wrote, Upserted, Rows

\* The end of a transaction releases exactly its locks.
LEMMA EndTxTypes ==
  ASSUME TypeOK, NEW c \in Calls, EndTx(c)
  PROVE  /\ tx' \in [Calls -> {"none", "active", "committing", "lost"}]
         /\ pos' \in [Calls -> 0..BatchLen]
         /\ wrote' \in [Calls -> Wrote]
         /\ lock' \in [Rows -> Calls \cup {NoCall}]
         /\ script' = script =>
              \A r \in Rows : lock'[r] # NoCall =>
                tx'[lock'[r]] # "none" /\ \E i \in 1..pos'[lock'[r]] : script'[lock'[r]][i] = r
<1>1. NothingWritten \in Wrote /\ 0 \in 0..BatchLen
  BY DBAssumption DEF NothingWritten, Wrote
<1> QED BY <1>1, DBAssumption DEF TypeOK, EndTx

LEMMA InitTypes == Init => TypeOK /\ TxHeld
<1> SUFFICES ASSUME Init PROVE TypeOK /\ TxHeld
  OBVIOUS
<1>1. NothingWritten \in Wrote
  BY DEF NothingWritten, Wrote
<1>2. page \in [pc : {"idle", "counters", "shown", "partly"},
                g : [Gauges -> Calls \cup {NoCall}], n : [Calls -> Nat]]
  BY DEF Init
<1> QED BY <1>1, <1>2, DBAssumption DEF Init, TypeOK, TxHeld

\* Neither a step of a call nor one of the database on its own leaves the types.
LEMMA CallKeepsTypes ==
  ASSUME TypeOK, TxHeld, NEW c \in Calls, Arrive(c) \/ Call(c) \/ Orphan(c)
  PROVE  TypeOK'
<1> USE DBAssumption DEF givenVars, callVars, txVars, tableVars
<1>1. CASE Arrive(c)
  BY <1>1 DEF Arrive, TypeOK
<1>2. CASE Begin(c)
  BY <1>2 DEF Begin, TypeOK
<1>3. CASE BeginFails(c)
  BY <1>3, FailsTypes DEF Fails, BeginFails, TypeOK
<1>4. CASE Exec(c)
  <2>1. Row(c) \in Rows /\ pos[c] \in Nat /\ pos[c] + 1 \in 0..BatchLen
    BY <1>4, RowIsRow DEF Exec
  <2>2. wrote[c] \in Wrote /\ (Row(c) # Counter => Row(c) \in Gauges)
    BY <2>1 DEF TypeOK, Rows
  <2>3. wrote'[c] \in Wrote
    <3>1. wrote'[c] = Upserted(wrote[c], Row(c))
      BY <1>4 DEF Exec, TypeOK
    <3> QED BY <2>1, <2>2, <3>1, WroteMore
  <2>4. wrote' \in [Calls -> Wrote]
    BY <1>4, <2>3 DEF Exec, TypeOK
  <2>5. lock' \in [Rows -> Calls \cup {NoCall}] /\ pos' \in [Calls -> 0..BatchLen]
    BY <1>4, <2>1 DEF Exec, TypeOK
  <2>6. ASSUME NEW r \in Rows, lock'[r] # NoCall
        PROVE  /\ tx'[lock'[r]] # "none"
               /\ \E i \in 1..pos'[lock'[r]] : script'[lock'[r]][i] = r
    <3>1. CASE r = Row(c)
      <4>1. lock'[r] = c /\ pos'[c] = pos[c] + 1 /\ script' = script /\ tx' = tx
        BY <1>4, <2>1, <3>1 DEF Exec, TypeOK
      <4>2. script[c][pos[c] + 1] = r
        BY <3>1 DEF Row
      <4>3. tx[c] # "none"
        BY <1>4 DEF Exec, HasStatement, TxHeld
      <4> QED BY <2>1, <4>1, <4>2, <4>3
    <3>2. CASE r # Row(c)
      BY <1>4, <2>1, <2>6, <3>2 DEF Exec, TypeOK
    <3> QED BY <3>1, <3>2
  <2> QED BY <1>4, <2>4, <2>5, <2>6 DEF Exec, TypeOK
<1>5. CASE StatementFails(c) \/ DeadlockVictim(c)
  BY <1>5, FailsTypes, EndTxTypes DEF Fails, StatementFails, DeadlockVictim, TypeOK
<1>6. ASSUME NEW w \in Wrote, Applied(c, w)
      PROVE  /\ gauge' \in [Gauges -> Calls \cup {NoCall}]
             /\ count' \in [Calls -> Nat] /\ commits' \in [Calls -> Nat]
  <2>1. w.n \in Nat
    BY DEF Wrote
  <2> QED BY <1>6, <2>1 DEF Applied, TypeOK
<1>7. ASSUME Committed(c)
      PROVE  /\ gauge' \in [Gauges -> Calls \cup {NoCall}]
             /\ count' \in [Calls -> Nat] /\ commits' \in [Calls -> Nat]
             /\ EndTx(c)
  <2>1. wrote[c] \in Wrote
    BY DEF TypeOK
  <2> QED BY <1>6, <1>7, <2>1 DEF Committed
<1>8. CASE Commit(c)
  BY <1>7, <1>8, EndTxTypes DEF Commit, TypeOK
<1>9. CASE ConnectionLost(c)
  <2>1. tx' \in [Calls -> {"none", "active", "committing", "lost"}]
    BY <1>9 DEF ConnectionLost, TypeOK
  <2>2. /\ \A d \in Calls : tx'[d] = "none" => tx[d] = "none"
        /\ UNCHANGED <<opened, givenVars, pos, wrote, late, lock, tableVars, page>>
    BY <1>9 DEF ConnectionLost, TypeOK
  <2>3. /\ pc' \in [Calls -> {"idle", "begin", "exec", "done"}]
        /\ attempt' \in [Calls -> 0..Pauses] /\ tries' \in [Calls -> 0..SqlRetries]
        /\ err' \in [Calls -> Failures \cup {Nil}]
    BY <1>9, FailsTypes DEF Fails
  <2> QED BY <2>1, <2>2, <2>3 DEF TypeOK
<1>10. CASE StatementLost(c)
  <2>1. EndTx(c) /\ UNCHANGED <<opened, givenVars, tableVars, page>>
    BY <1>10 DEF StatementLost
  <2>2. /\ pc' \in [Calls -> {"idle", "begin", "exec", "done"}]
        /\ attempt' \in [Calls -> 0..Pauses] /\ tries' \in [Calls -> 0..SqlRetries]
        /\ err' \in [Calls -> Failures \cup {Nil}]
    BY <1>10, FailsTypes DEF Fails
  <2>3. late' \in [Calls -> Nat]
    BY <1>10 DEF StatementLost, TypeOK
  <2> QED BY <2>1, <2>2, <2>3, EndTxTypes DEF TypeOK
<1>11. CASE CommittedUnheard(c)
  BY <1>7, <1>11, EndTxTypes DEF CommittedUnheard, TypeOK
<1>12. CASE RolledBack(c)
  BY <1>12, EndTxTypes DEF RolledBack, TypeOK
<1>13. CASE LateStatement(c)
  <2>1. script[c][1] \in Rows
    BY ScriptIsSequence DEF TypeOK
  <2>2. NothingWritten \in Wrote
    BY DEF NothingWritten, Wrote
  <2>3. Upserted(NothingWritten, script[c][1]) \in Wrote
    BY <2>1, <2>2, WroteMore
  <2> QED BY <1>6, <1>13, <2>3 DEF LateStatement, TypeOK
<1>14. CASE LateForgotten(c)
  BY <1>14 DEF LateForgotten, TypeOK
<1> QED BY <1>1, <1>2, <1>3, <1>4, <1>5, <1>8, <1>9, <1>10, <1>11, <1>12, <1>13, <1>14
        DEF Call, Progress, Orphan

\* Nor do the others.
LEMMA OthersKeepTypes ==
  ASSUME TypeOK, NewDBStorage \/ Close \/ Page \/ UNCHANGED vars
  PROVE  TypeOK'
<1> USE DBAssumption DEF givenVars, callVars, txVars, tableVars
<1>1. CASE NewDBStorage \/ Close
  BY <1>1 DEF NewDBStorage, Close, TypeOK
<1>2. CASE PageGauges
  <2>1. PICK g \in [Gauges -> Calls \cup {NoCall}] :
          page' = [page EXCEPT !.pc = "counters", !.g = g]
    BY <1>2 DEF PageGauges, TypeOK
  <2> QED BY <1>2, <2>1 DEF PageGauges, TypeOK
<1>3. CASE PageCounters
  <2>1. PICK p \in {"shown", "partly"}, n \in [Calls -> Nat] :
          page' = [page EXCEPT !.pc = p, !.n = n]
    <3>1. PICK ok \in BOOLEAN :
            page' = [page EXCEPT !.pc = IF ok THEN "shown" ELSE "partly",
                                 !.n = IF ok THEN count ELSE @]
      BY <1>3 DEF PageCounters
    <3>2. page.n \in [Calls -> Nat] /\ count \in [Calls -> Nat]
      BY DEF TypeOK
    <3> QED BY <3>1, <3>2
  <2> QED BY <1>3, <2>1 DEF PageCounters, TypeOK
<1>4. CASE PageDone
  BY <1>4 DEF PageDone, TypeOK
<1>5. CASE UNCHANGED vars
  BY <1>5 DEF vars, TypeOK
<1> QED BY <1>1, <1>2, <1>3, <1>4, <1>5 DEF Page

----------------------------------------------------------------------------
(* One transaction per batch, one statement for each try of a single call. *)

\* The transaction the database has for c.
InFlight(c) == IF tx[c] = "none" THEN 0 ELSE 1

\* The statements or transactions that c has sent to the database, at most.
Sent(c) == tries[c] + (IF pc[c] \in {"idle", "begin"} THEN 0 ELSE 1)

\* Where a call is and what has become of what it sent: committed, still to be
\* executed, in a transaction, or lost.
StageInv(c) ==
  /\ pc[c] \in {"idle", "begin"} => tx[c] = "none"
  /\ pc[c] = "exec" => tx[c] = "active"
  /\ IF pc[c] = "done" THEN tx[c] # "active" ELSE err[c] = Nil
  /\ tx[c] = "none" => pos[c] = 0 /\ wrote[c] = NothingWritten
  /\ tx[c] = "committing" => pos[c] = Len(script[c])
  /\ ~single[c] => tries[c] = 0 /\ late[c] = 0
  /\ commits[c] + late[c] + InFlight(c) <= Sent(c)
  /\ pc[c] = "done" /\ err[c] = Nil => commits[c] > 0
  /\ count[c] = commits[c] * Increments(c)

\* Inductive: whatever is committed for a call is committed whole, and as often
\* as it was sent at most.
StoreInv == \A c \in Calls : WroteInv(c) /\ StageInv(c)

callState(c) ==
  <<pc[c], tries[c], err[c], tx[c], pos[c], wrote[c], late[c], script[c], single[c],
    count[c], commits[c]>>

LEMMA UnchangedCall ==
  ASSUME NEW d \in Calls, WroteInv(d), StageInv(d), UNCHANGED callState(d)
  PROVE  WroteInv(d)' /\ StageInv(d)'
<1>1. WroteInv(d)'
  BY DEF WroteInv, callState, CountedSoFar
<1>2. Increments(d)' = Increments(d) /\ InFlight(d)' = InFlight(d) /\ Sent(d)' = Sent(d)
  BY DEF callState, Increments, InFlight, Sent
<1>3. StageInv(d)'
  BY <1>2 DEF StageInv, callState
<1> QED BY <1>1, <1>3

\* A failure of one call leaves the others alone.
LEMMA FailsAlone ==
  ASSUME TypeOK, NEW c \in Calls, NEW d \in Calls, d # c, Fails(c)
  PROVE  UNCHANGED <<pc[d], tries[d], err[d]>>
<1>1. PICK e \in Failures : AttemptOver(c, e) \/ ConnectionFails(c, e)
  BY FailsHow
<1> QED BY <1>1, AttemptOverIsTheEnd, ConnectionFailsHow DEF TypeOK

\* A step of one call leaves the others alone.
LEMMA OtherCallsUnchanged ==
  ASSUME TypeOK, NEW c \in Calls, NEW d \in Calls, d # c,
         Arrive(c) \/ Call(c) \/ Orphan(c)
  PROVE  UNCHANGED callState(d)
<1> USE DEF callState, givenVars, callVars, txVars, tableVars
<1>t. /\ pc \in [Calls -> {"idle", "begin", "exec", "done"}] /\ tx \in [Calls -> {"none", "active", "committing", "lost"}]
      /\ pos \in [Calls -> 0..BatchLen] /\ wrote \in [Calls -> Wrote] /\ late \in [Calls -> Nat]
      /\ count \in [Calls -> Nat] /\ commits \in [Calls -> Nat]
  BY DEF TypeOK
\* What a failure does beside its error.
<1>f. ASSUME Fails(c), UNCHANGED <<tx[d], pos[d], wrote[d], late[d], script[d], single[d], count[d], commits[d]>>
      PROVE  UNCHANGED callState(d)
  <2>1. UNCHANGED <<pc[d], tries[d], err[d]>>
    BY <1>f, FailsAlone
  <2> QED BY <2>1, <1>f
<1>e. ASSUME EndTx(c)
      PROVE  UNCHANGED <<tx[d], pos[d], wrote[d]>>
  BY <1>e, <1>t DEF EndTx
<1>1. CASE Arrive(c) \/ Begin(c) \/ Exec(c)
  <2>1. CASE Arrive(c)
    BY <2>1, <1>t DEF Arrive
  <2>2. CASE Begin(c)
    BY <2>2, <1>t DEF Begin
  <2>3. CASE Exec(c)
    BY <2>3, <1>t DEF Exec
  <2> QED BY <1>1, <2>1, <2>2, <2>3
<1>2. CASE BeginFails(c)
  <2>1. UNCHANGED <<tx[d], pos[d], wrote[d], late[d], script[d], single[d], count[d], commits[d]>>
    BY <1>2 DEF BeginFails
  <2> QED BY <1>2, <1>f, <2>1 DEF Fails
<1>3. CASE StatementFails(c) \/ DeadlockVictim(c)
  <2>1. EndTx(c) /\ UNCHANGED <<late, script, single, count, commits>>
    BY <1>3 DEF StatementFails, DeadlockVictim
  <2>2. UNCHANGED <<tx[d], pos[d], wrote[d], late[d], script[d], single[d], count[d], commits[d]>>
    BY <1>e, <2>1
  <2> QED BY <1>3, <1>f, <2>2 DEF Fails
<1>4. CASE ConnectionLost(c) \/ StatementLost(c)
  <2>1. UNCHANGED <<tx[d], pos[d], wrote[d], late[d], script[d], single[d], count[d], commits[d]>>
    <3>1. CASE ConnectionLost(c)
      BY <3>1, <1>t DEF ConnectionLost
    <3>2. CASE StatementLost(c)
      BY <3>2, <1>e, <1>t DEF StatementLost
    <3> QED BY <1>4, <3>1, <3>2
  <2> QED BY <1>4, <1>f, <2>1 DEF Fails
<1>5. CASE Commit(c) \/ CommittedUnheard(c) \/ RolledBack(c)
  <2>1. CASE Commit(c)
    BY <2>1, <1>e, <1>t DEF Commit, Committed, Applied
  <2>2. CASE CommittedUnheard(c)
    BY <2>2, <1>e, <1>t DEF CommittedUnheard, Committed, Applied
  <2>3. CASE RolledBack(c)
    BY <2>3, <1>e DEF RolledBack
  <2> QED BY <1>5, <2>1, <2>2, <2>3
<1>6. CASE LateStatement(c) \/ LateForgotten(c)
  BY <1>6, <1>t DEF LateStatement, LateForgotten, Applied
<1> QED BY <1>1, <1>2, <1>3, <1>4, <1>5, <1>6 DEF Call, Progress, Orphan

\* After its last statement a transaction has written the whole batch.
LEMMA WroteAll ==
  ASSUME TypeOK, NEW c \in Calls, WroteInv(c), pos[c] = Len(script[c])
  PROVE  /\ wrote[c].g = Updated(c) \ {Counter}
         /\ wrote[c].n = Increments(c)
<1>1. script[c] \in Scripts
  BY DEF TypeOK
<1>2. DOMAIN script[c] = 1..pos[c]
  BY <1>1, ScriptIsSequence
<1> QED BY <1>2 DEF WroteInv, CountedSoFar, Increments, Updated

\* So has a single statement by itself.
LEMMA SingleWritesAll ==
  ASSUME TypeOK, NEW c \in Calls, single[c]
  PROVE  LET w == Upserted(NothingWritten, script[c][1])
         IN  w \in Wrote /\ w.g = Updated(c) \ {Counter} /\ w.n = Increments(c)
<1> DEFINE r == script[c][1]
           w == Upserted(NothingWritten, r)
<1>1. script[c] \in Scripts /\ Len(script[c]) = 1
  BY DEF TypeOK
<1>2. DOMAIN script[c] = {1} /\ r \in Rows
  BY <1>1, ScriptIsSequence
<1>3. NothingWritten \in Wrote /\ NothingWritten.g = {} /\ NothingWritten.n = 0
  BY DEF NothingWritten, Wrote
<1>4. /\ w \in Wrote /\ w.g = NothingWritten.g \cup (IF r = Counter THEN {} ELSE {r})
      /\ w.n = NothingWritten.n + (IF r = Counter THEN 1 ELSE 0)
  <2> HIDE DEF r
  <2> QED BY <1>2, <1>3, WroteMore
<1>5. Updated(c) = {r}
  BY <1>2 DEF Updated
<1>6. Increments(c) = IF r = Counter THEN 1 ELSE 0
  <2>1. CASE r = Counter
    <3>1. {i \in DOMAIN script[c] : script[c][i] = Counter} = {1}
      BY <1>2, <2>1
    <3> QED BY <2>1, <3>1, FS_Singleton DEF Increments
  <2>2. CASE r # Counter
    <3>1. {i \in DOMAIN script[c] : script[c][i] = Counter} = {}
      BY <1>2, <2>2
    <3> QED BY <2>2, <3>1, FS_EmptySet DEF Increments
  <2> QED BY <2>1, <2>2
<1> HIDE DEF w
<1>7. w.g = Updated(c) \ {Counter} /\ w.n = Increments(c)
  BY <1>3, <1>4, <1>5, <1>6
<1> QED BY <1>4, <1>7 DEF w

\* A script has a number of increments.
LEMMA IncrementsAreNat ==
  ASSUME NEW c \in Calls, script[c] \in Scripts
  PROVE  Increments(c) \in Nat
<1>1. DOMAIN script[c] = 1..Len(script[c]) /\ Len(script[c]) \in Nat
  BY ScriptIsSequence, DBAssumption
<1>2. IsFiniteSet(DOMAIN script[c])
  BY <1>1, FS_Interval
<1>3. IsFiniteSet({i \in DOMAIN script[c] : script[c][i] = Counter})
  BY <1>2, FS_Subset
<1> QED BY <1>3, FS_CardinalityType DEF Increments

LEMMA InitStore == Init => StoreInv
<1> SUFFICES ASSUME Init, NEW c \in Calls PROVE WroteInv(c) /\ StageInv(c)
  BY DEF StoreInv
<1>1. script[c] \in Scripts /\ pos[c] = 0 /\ wrote[c] = NothingWritten
  BY DEF Init
<1>2. Len(script[c]) \in 1..BatchLen
  BY <1>1, ScriptIsSequence
<1>3. WroteInv(c)
  <2>1. 1..pos[c] = {}
    BY <1>1
  <2>2. CountedSoFar(c) = {} /\ {script[c][i] : i \in 1..pos[c]} = {}
    BY <2>1 DEF CountedSoFar
  <2>3. pos[c] <= Len(script[c])
    BY <1>1, <1>2, DBAssumption
  <2> QED BY <1>1, <2>2, <2>3, FS_EmptySet DEF WroteInv, NothingWritten
<1>4. StageInv(c)
  <2>1. /\ pc[c] = "idle" /\ tries[c] = 0 /\ err[c] = Nil /\ tx[c] = "none" /\ late[c] = 0
        /\ commits[c] = 0 /\ count[c] = 0
    BY DEF Init
  <2>2. Increments(c) \in Nat
    BY <1>1, IncrementsAreNat
  <2>3. count[c] = commits[c] * Increments(c)
    BY <2>1, <2>2
  <2> QED BY <1>1, <2>1, <2>3 DEF StageInv, InFlight, Sent
<1> QED BY <1>3, <1>4

\* What is written keeps step with the statements.
LEMMA CallKeepsWrote ==
  ASSUME TypeOK, NEW c \in Calls, WroteInv(c), Arrive(c) \/ Call(c) \/ Orphan(c)
  PROVE  WroteInv(c)'
<1>1. script[c] \in Scripts /\ Len(script[c]) \in Nat /\ pos[c] \in Nat
  BY ScriptIsSequence, DBAssumption DEF TypeOK
<1>2. CASE EndTx(c) /\ script' = script
  <2>1. pos'[c] = 0 /\ wrote'[c] = NothingWritten
    BY <1>2 DEF EndTx, TypeOK
  <2>2. 1..pos'[c] = {}
    BY <2>1
  <2>3. CountedSoFar(c)' = {} /\ {script'[c][i] : i \in 1..pos'[c]} = {}
    BY <2>2 DEF CountedSoFar
  <2> QED BY <1>1, <1>2, <2>1, <2>3, FS_EmptySet DEF WroteInv, NothingWritten
<1>3. CASE Exec(c)
  <2>1. /\ pos'[c] = pos[c] + 1 /\ script' = script
        /\ wrote'[c] = Upserted(wrote[c], Row(c))
    BY <1>3 DEF Exec, TypeOK, givenVars
  <2>2. /\ Row(c) \in Rows /\ Row(c) = script[c][pos[c] + 1]
        /\ pos[c] + 1 \in 1..Len(script[c])
    BY <1>3, RowIsRow DEF Exec, Row
  <2>3. wrote[c] \in Wrote
    BY DEF TypeOK
  <2>4. wrote'[c].g = {script'[c][i] : i \in 1..pos'[c]} \ {Counter}
    <3>1. wrote'[c].g = wrote[c].g \cup (IF Row(c) = Counter THEN {} ELSE {Row(c)})
      BY <2>1, <2>2, <2>3, WroteMore
    <3>2. {script[c][i] : i \in 1..(pos[c] + 1)}
            = {script[c][i] : i \in 1..pos[c]} \cup {Row(c)}
      <4>1. 1..(pos[c] + 1) = (1..pos[c]) \cup {pos[c] + 1}
        BY <1>1
      <4> QED BY <2>2, <4>1
    <3>3. wrote[c].g = {script[c][i] : i \in 1..pos[c]} \ {Counter}
      BY DEF WroteInv
    <3> QED BY ONLY <2>1, <3>1, <3>2, <3>3
  <2>5. wrote'[c].n = Cardinality(CountedSoFar(c)')
    <3>1. wrote'[c].n = wrote[c].n + (IF Row(c) = Counter THEN 1 ELSE 0)
      BY <2>1, <2>2, <2>3, WroteMore
    <3>2. CountedSoFar(c)' = {i \in 1..(pos[c] + 1) : script[c][i] = Counter}
      BY <2>1 DEF CountedSoFar
    <3>3. wrote[c].n = Cardinality({i \in 1..pos[c] : script[c][i] = Counter})
      BY DEF WroteInv, CountedSoFar
    <3>4. Cardinality({i \in 1..(pos[c] + 1) : script[c][i] = Counter}) =
            Cardinality({i \in 1..pos[c] : script[c][i] = Counter})
              + (IF script[c][pos[c] + 1] = Counter THEN 1 ELSE 0)
      BY ONLY <1>1, OneMoreCounted
    <3> QED BY ONLY <2>2, <3>1, <3>2, <3>3, <3>4
  <2>6. pos'[c] <= Len(script'[c])
    BY <1>1, <2>1, <2>2
  <2> QED BY <2>4, <2>5, <2>6 DEF WroteInv
<1>4. CASE UNCHANGED <<script, pos, wrote>>
  BY <1>4 DEF WroteInv, CountedSoFar
<1>5. Exec(c) \/ (EndTx(c) /\ script' = script) \/ UNCHANGED <<script, pos, wrote>>
  BY DEF Call, Progress, Orphan, Arrive, Begin, BeginFails, StatementFails, DeadlockVictim,
         Commit, ConnectionLost, StatementLost, CommittedUnheard, RolledBack, LateStatement,
         LateForgotten, Committed, txVars, givenVars
<1> QED BY <1>2, <1>3, <1>4, <1>5

\* What becomes visible when all that a call writes is applied.
LEMMA AppliesWhole ==
  ASSUME TypeOK, NEW c \in Calls, StageInv(c), NEW w \in Wrote, Applied(c, w),
         w.g = Updated(c) \ {Counter}, w.n = Increments(c)
  PROVE  /\ commits' = [commits EXCEPT ![c] = @ + 1]
         /\ commits'[c] = commits[c] + 1 /\ commits[c] \in Nat
         /\ count' = [count EXCEPT ![c] = @ + Increments(c)]
         /\ count'[c] = (commits[c] + 1) * Increments(c)
         /\ gauge' = [x \in Gauges |-> IF x \in Updated(c) \ {Counter} THEN c ELSE gauge[x]]
<1>1. Increments(c) \in Nat /\ commits[c] \in Nat /\ count[c] \in Nat
  BY DEF Wrote, TypeOK
<1>2. commits' = [commits EXCEPT ![c] = @ + 1] /\ commits'[c] = commits[c] + 1
  BY DEF Applied, TypeOK
<1>3. count' = [count EXCEPT ![c] = @ + Increments(c)] /\ count'[c] = count[c] + Increments(c)
  BY DEF Applied, TypeOK
<1>4. \A k, i \in Nat : (k + 1) * i = k * i + i
  OBVIOUS
<1>5. count[c] = commits[c] * Increments(c)
  BY DEF StageInv
<1>6. count'[c] = (commits[c] + 1) * Increments(c)
  BY ONLY <1>1, <1>3, <1>4, <1>5
<1>7. gauge' = [x \in Gauges |-> IF x \in Updated(c) \ {Counter} THEN c ELSE gauge[x]]
  BY DEF Applied
<1> QED BY <1>1, <1>2, <1>3, <1>6, <1>7

\* A commit of a transaction that has executed its last statement.
LEMMA CommitsWhole ==
  ASSUME TypeOK, NEW c \in Calls, WroteInv(c), StageInv(c), pos[c] = Len(script[c]),
         Committed(c)
  PROVE  /\ commits' = [commits EXCEPT ![c] = @ + 1]
         /\ commits'[c] = commits[c] + 1 /\ commits[c] \in Nat
         /\ count' = [count EXCEPT ![c] = @ + Increments(c)]
         /\ count'[c] = (commits[c] + 1) * Increments(c)
         /\ gauge' = [x \in Gauges |-> IF x \in Updated(c) \ {Counter} THEN c ELSE gauge[x]]
         /\ EndTx(c)
<1>1. wrote[c].g = Updated(c) \ {Counter} /\ wrote[c].n = Increments(c) /\ wrote[c] \in Wrote
  BY WroteAll DEF TypeOK
<1>2. Applied(c, wrote[c]) /\ EndTx(c)
  BY DEF Committed
<1> QED BY <1>1, <1>2, AppliesWhole

\* So is a single statement that is executed late.
LEMMA LateWhole ==
  ASSUME TypeOK, NEW c \in Calls, StageInv(c), LateStatement(c)
  PROVE  /\ single[c]
         /\ commits' = [commits EXCEPT ![c] = @ + 1]
         /\ commits'[c] = commits[c] + 1 /\ commits[c] \in Nat
         /\ count' = [count EXCEPT ![c] = @ + Increments(c)]
         /\ count'[c] = (commits[c] + 1) * Increments(c)
         /\ gauge' = [x \in Gauges |-> IF x \in Updated(c) \ {Counter} THEN c ELSE gauge[x]]
<1> DEFINE w == Upserted(NothingWritten, script[c][1])
<1>1. single[c]
  BY DEF StageInv, LateStatement, TypeOK
<1>2. w \in Wrote /\ w.g = Updated(c) \ {Counter} /\ w.n = Increments(c)
  BY <1>1, SingleWritesAll
<1>3. Applied(c, w)
  BY DEF LateStatement
<1> HIDE DEF w
<1> QED BY <1>1, <1>2, <1>3, AppliesWhole

\* Where a failure leaves the call: at its end, or at another try of a single one.
LEMMA FailsStage ==
  ASSUME TypeOK, NEW c \in Calls, Fails(c), pc[c] \in {"begin", "exec"}
  PROVE  \/ /\ pc'[c] = "done" /\ err'[c] # Nil /\ tries'[c] = tries[c]
         \/ /\ single[c] /\ pc'[c] = "begin" /\ err'[c] = err[c] /\ tries'[c] = tries[c] + 1
<1>1. PICK e \in Failures : AttemptOver(c, e) \/ ConnectionFails(c, e)
  BY FailsHow
<1>2. CASE AttemptOver(c, e)
  BY <1>2, AttemptOverIsTheEnd DEF TypeOK
<1>3. CASE ~AttemptOver(c, e)
  BY <1>1, <1>3, ConnectionFailsHow DEF TypeOK
<1> QED BY <1>2, <1>3

\* The stages of a call and of what it sent fit together after each step.
LEMMA CallKeepsStage ==
  ASSUME TypeOK, NEW c \in Calls, WroteInv(c), StageInv(c),
         Arrive(c) \/ Call(c) \/ Orphan(c)
  PROVE  StageInv(c)'
<1> USE DEF TypeOK, givenVars, callVars, txVars, tableVars
<1>1. script' = script /\ single' = single /\ Increments(c)' = Increments(c)
  <2>1. script' = script /\ single' = single
    BY DEF Call, Progress, Orphan, Arrive, Begin, BeginFails, Exec, StatementFails,
           DeadlockVictim, Commit, ConnectionLost, StatementLost, CommittedUnheard,
           RolledBack, LateStatement, LateForgotten
  <2> QED BY <2>1 DEF Increments
<1>2. tries[c] \in Nat /\ late[c] \in Nat /\ commits[c] \in Nat
  BY DBAssumption
<1> USE DEF StageInv, InFlight, Sent
<1>3. CASE Arrive(c)
  BY <1>1, <1>2, <1>3 DEF Arrive
<1>4. CASE Begin(c)
  BY <1>1, <1>2, <1>4 DEF Begin
<1>5. CASE BeginFails(c)
  <2>1. UNCHANGED <<tx, pos, wrote, late, count, commits>> /\ pc[c] = "begin"
    BY <1>5 DEF BeginFails
  <2>2. \/ pc'[c] = "done" /\ err'[c] # Nil /\ tries'[c] = tries[c]
        \/ single[c] /\ pc'[c] = "begin" /\ err'[c] = err[c] /\ tries'[c] = tries[c] + 1
    BY <1>5, <2>1, FailsStage DEF Fails
  <2> QED BY <1>1, <1>2, <2>1, <2>2
<1>6. CASE Exec(c)
  BY <1>1, <1>2, <1>6 DEF Exec, HasStatement
<1>7. CASE StatementFails(c) \/ DeadlockVictim(c)
  <2>1. \E e \in Failures : AttemptOver(c, e)
    BY <1>7 DEF StatementFails, DeadlockVictim, Failures
  <2>2. pc'[c] = "done" /\ err'[c] # Nil /\ tries'[c] = tries[c]
    BY <2>1, AttemptOverIsTheEnd
  <2>3. /\ tx'[c] = "none" /\ pos'[c] = 0 /\ wrote'[c] = NothingWritten
        /\ UNCHANGED <<commits, count, late>>
    BY <1>7 DEF StatementFails, DeadlockVictim, EndTx
  <2>4. pc[c] = "exec"
    <3>1. CASE StatementFails(c)
      BY <3>1 DEF StatementFails, HasStatement
    <3>2. CASE DeadlockVictim(c)
      <4>1. PICK S \in SUBSET Calls : c \in S /\ \A d \in S : \E e \in S : WaitsFor(d, e)
        BY <3>2 DEF DeadlockVictim
      <4> QED BY <4>1 DEF WaitsFor, HasStatement
    <3> QED BY <1>7, <3>1, <3>2
  <2> QED BY <1>1, <1>2, <2>2, <2>3, <2>4
<1>8. CASE Commit(c)
  <2>1. pc[c] = "exec" /\ tx[c] = "active" /\ pos[c] = Len(script[c]) /\ Committed(c)
    BY <1>8 DEF Commit
  <2>2. /\ commits'[c] = commits[c] + 1 /\ count'[c] = (commits[c] + 1) * Increments(c)
        /\ EndTx(c)
    BY <2>1, CommitsWhole
  <2>3. pc'[c] = "done" /\ UNCHANGED <<tries, err, late>>
    BY <1>8 DEF Commit
  <2>4. tx'[c] = "none" /\ pos'[c] = 0 /\ wrote'[c] = NothingWritten
    BY <2>2 DEF EndTx
  <2> QED BY <1>1, <1>2, <2>1, <2>2, <2>3, <2>4
<1>9. CASE ConnectionLost(c)
  <2>1. /\ pc[c] = "exec" /\ tx[c] = "active" /\ ~single[c]
        /\ tx'[c] = IF pos[c] = Len(script[c]) THEN "committing" ELSE "lost"
        /\ UNCHANGED <<pos, wrote, late, count, commits>>
    BY <1>9 DEF ConnectionLost
  <2>2. pc'[c] = "done" /\ err'[c] # Nil /\ tries'[c] = tries[c]
    BY <1>9, <2>1, FailsStage DEF Fails
  <2> QED BY <1>1, <1>2, <2>1, <2>2
<1>10. CASE StatementLost(c)
  <2>1. /\ pc[c] = "exec" /\ tx[c] = "active" /\ single[c]
        /\ late'[c] = late[c] + 1 /\ UNCHANGED <<count, commits>>
    BY <1>10 DEF StatementLost
  <2>2. tx'[c] = "none" /\ pos'[c] = 0 /\ wrote'[c] = NothingWritten
    BY <1>10 DEF StatementLost, EndTx
  <2>3. \/ pc'[c] = "done" /\ err'[c] # Nil /\ tries'[c] = tries[c]
        \/ single[c] /\ pc'[c] = "begin" /\ err'[c] = err[c] /\ tries'[c] = tries[c] + 1
    BY <1>10, <2>1, FailsStage DEF Fails
  <2> QED BY <1>1, <1>2, <2>1, <2>2, <2>3
<1>11. CASE CommittedUnheard(c)
  <2>1. tx[c] = "committing" /\ pos[c] = Len(script[c]) /\ Committed(c)
    BY <1>11 DEF CommittedUnheard
  <2>2. /\ commits'[c] = commits[c] + 1 /\ count'[c] = (commits[c] + 1) * Increments(c)
        /\ EndTx(c)
    BY <2>1, CommitsWhole
  <2>3. tx'[c] = "none" /\ pos'[c] = 0 /\ wrote'[c] = NothingWritten
    BY <2>2 DEF EndTx
  <2>4. UNCHANGED <<pc, tries, err, late>>
    BY <1>11 DEF CommittedUnheard
  <2> QED BY <1>1, <1>2, <2>1, <2>2, <2>3, <2>4
<1>12. CASE RolledBack(c)
  <2>1. /\ tx'[c] = "none" /\ pos'[c] = 0 /\ wrote'[c] = NothingWritten
        /\ UNCHANGED <<pc, tries, err, late, commits, count>>
    BY <1>12 DEF RolledBack, EndTx
  <2> QED BY <1>1, <1>2, <1>12, <2>1 DEF RolledBack
<1>13. CASE LateStatement(c)
  <2>1. commits'[c] = commits[c] + 1 /\ count'[c] = (commits[c] + 1) * Increments(c) /\ single[c]
    BY <1>13, LateWhole
  <2>2. /\ late[c] > 0 /\ late'[c] = late[c] - 1
        /\ UNCHANGED <<pc, tries, err, tx, pos, wrote>>
    BY <1>13 DEF LateStatement
  <2> QED BY <1>1, <1>2, <2>1, <2>2
<1>14. CASE LateForgotten(c)
  <2>1. /\ late[c] > 0 /\ late'[c] = late[c] - 1
        /\ UNCHANGED <<pc, tries, err, tx, pos, wrote, count, commits>>
    BY <1>14 DEF LateForgotten
  <2> QED BY <1>1, <1>2, <2>1
<1> QED BY <1>3, <1>4, <1>5, <1>6, <1>7, <1>8, <1>9, <1>10, <1>11, <1>12, <1>13, <1>14
        DEF Call, Progress, Orphan

\* Steps other than those of calls leave calls, transactions and tables alone.
LEMMA OthersChangeNoCall ==
  ASSUME NewDBStorage \/ Close \/ Page \/ UNCHANGED vars
  PROVE  UNCHANGED <<givenVars, callVars, txVars, tableVars>>
BY DEF NewDBStorage, Close, Page, PageGauges, PageCounters, PageDone, vars

LEMMA StepKeepsStore ==
  ASSUME TypeOK, StoreInv, [Next]_vars
  PROVE  StoreInv'
<1>1. CASE \E c \in Calls : Arrive(c) \/ Call(c) \/ Orphan(c)
  <2>1. PICK c \in Calls : Arrive(c) \/ Call(c) \/ Orphan(c)
    BY <1>1
  <2>2. WroteInv(c)' /\ StageInv(c)'
    BY <2>1, CallKeepsWrote, CallKeepsStage DEF StoreInv
  <2>3. ASSUME NEW d \in Calls, d # c PROVE WroteInv(d)' /\ StageInv(d)'
    <3>1. UNCHANGED callState(d)
      BY <2>1, <2>3, OtherCallsUnchanged
    <3> QED BY <3>1, UnchangedCall DEF StoreInv
  <2> QED BY <2>2, <2>3 DEF StoreInv
<1>2. CASE NewDBStorage \/ Close \/ Page \/ UNCHANGED vars
  <2> SUFFICES ASSUME NEW d \in Calls PROVE WroteInv(d)' /\ StageInv(d)'
    BY DEF StoreInv
  <2>1. UNCHANGED callState(d)
    BY <1>2, OthersChangeNoCall DEF callState, givenVars, callVars, txVars, tableVars
  <2> QED BY <2>1, UnchangedCall DEF StoreInv
<1> QED BY <1>1, <1>2 DEF Next, Ended

\* Type correctness and the invariant that relates a call, its transaction and
\* what is committed for it, in every reachable state.
THEOREM StoreInductive == Spec => [](TypeOK /\ StoreInv)
<1>1. StoreInv => TxHeld
  BY DEF StoreInv, StageInv, TxHeld
<1>2. TypeOK /\ StoreInv /\ [Next]_vars => TypeOK' /\ StoreInv'
  <2> SUFFICES ASSUME TypeOK, StoreInv, [Next]_vars PROVE TypeOK'
    BY StepKeepsStore
  <2>1. CASE \E c \in Calls : Arrive(c) \/ Call(c) \/ Orphan(c)
    BY <1>1, <2>1, CallKeepsTypes
  <2>2. CASE NewDBStorage \/ Close \/ Page \/ UNCHANGED vars
    BY <2>2, OthersKeepTypes
  <2> QED BY <2>1, <2>2 DEF Next, Ended
<1>3. Init => TypeOK /\ StoreInv
  BY InitTypes, InitStore
<1> QED BY <1>2, <1>3, PTL DEF Spec

\* The type invariant, as the run checks it.
THEOREM StoreTypes == Spec => []TypeOK
BY StoreInductive, PTL

\* The deltas of a batch are added at most once, those of a single call once for
\* each try of database/sql at most, and at least once for a call that has
\* returned nil, for any number of calls, whichever connections break.
THEOREM CountedAsSent == Spec => []DeltaNotOvercounted
<1>1. TypeOK /\ StoreInv => DeltaNotOvercounted
  <2> SUFFICES ASSUME TypeOK, StoreInv, NEW c \in Calls
               PROVE  /\ \E k \in 0..Times(c) : count[c] = k * Increments(c)
                      /\ pc[c] = "done" /\ err[c] = Nil => count[c] >= Increments(c)
    BY DEF DeltaNotOvercounted
  <2>1. StageInv(c)
    BY DEF StoreInv
  <2>2. Increments(c) \in Nat /\ commits[c] \in Nat /\ late[c] \in Nat /\ tries[c] \in 0..SqlRetries
    BY IncrementsAreNat DEF TypeOK
  <2>3. count[c] = commits[c] * Increments(c)
    BY <2>1 DEF StageInv
  <2>4. commits[c] \in 0..Times(c)
    BY <2>1, <2>2, DBAssumption DEF StageInv, InFlight, Sent, Times
  <2>5. \A k, i \in Nat : k > 0 => k * i >= i
    <3>1. TAKE k, i \in Nat
    <3>2. HAVE k > 0
    <3>3. PICK m \in Nat : k = m + 1
      <4>1. k - 1 \in Nat /\ k = (k - 1) + 1
        BY <3>2
      <4> QED BY <4>1
    <3>4. k * i = m * i + i /\ m * i \in Nat
      BY <3>3
    <3> QED BY <3>4
  <2>6. pc[c] = "done" /\ err[c] = Nil => count[c] >= Increments(c)
    BY <2>1, <2>2, <2>3, <2>5 DEF StageInv
  <2> QED BY <2>3, <2>4, <2>6
<1> QED BY StoreInductive, <1>1, PTL

----------------------------------------------------------------------------
(* The refinement.                                                         *)

\* A failure that ends the call is answered, a commit takes effect, and all else
\* is invisible.
LEMMA StepKeepsPromise ==
  ASSUME TypeOK, StoreInv, [Next]_vars
  PROVE  [Promise!StoreNext]_(Promise!storeVars)
<1> USE DEF Promise!storeVars, givenVars, callVars, txVars, tableVars
<1>1. ASSUME UNCHANGED <<givenVars, gauge, count, commits>>, Answers' = Answers
      PROVE  UNCHANGED Promise!storeVars
  BY <1>1 DEF Batches, Updated, Increments, Effective
<1>2. ASSUME NEW c \in Calls, UNCHANGED givenVars,
             commits' = [commits EXCEPT ![c] = @ + 1], commits[c] \in Nat,
             count' = [count EXCEPT ![c] = @ + Increments(c)],
             gauge' = [x \in Gauges |-> IF x \in Updated(c) \ {Counter} THEN c ELSE gauge[x]],
             ~single[c] => commits[c] = 0
      PROVE  Promise!Effect(c)
  <2>1. /\ Batches[c].g = Updated(c) \ {Counter} /\ Batches[c].n = Increments(c)
        /\ Batches[c].once => ~single[c]
    BY DEF Batches
  <2>2. UNCHANGED Batches
    BY <1>2 DEF Batches, Updated, Increments
  <2>3. Effective' = Effective \cup {c}
    BY <1>2 DEF Effective, TypeOK
  <2>4. Batches[c].once => c \notin Effective
    BY <1>2, <2>1 DEF Effective
  <2> QED BY <1>2, <2>1, <2>2, <2>3, <2>4 DEF Promise!Effect
<1>3. ASSUME NEW c \in Calls, Arrive(c) \/ Begin(c) \/ Exec(c) \/ RolledBack(c) \/ LateForgotten(c)
      PROVE  UNCHANGED Promise!storeVars
  <2>1. Answers' = Answers
    BY <1>3 DEF Answers, Arrive, Begin, Exec, RolledBack, LateForgotten, HasStatement, TypeOK
  <2>2. UNCHANGED <<givenVars, gauge, count, commits>>
    BY <1>3 DEF Arrive, Begin, Exec, RolledBack, LateForgotten
  <2> QED BY <1>1, <2>1, <2>2
<1>4. ASSUME NEW c \in Calls, Fails(c)
      PROVE  Promise!Answer(c) \/ UNCHANGED Promise!storeVars
  <2>1. pc[c] \in {"begin", "exec"}
    <3>1. CASE DeadlockVictim(c)
      <4>1. PICK S \in SUBSET Calls :
              c \in S /\ \A d \in S : \E e \in S : WaitsFor(d, e)
        BY <3>1 DEF DeadlockVictim
      <4> QED BY <4>1 DEF WaitsFor, HasStatement
    <3>2. CASE ~DeadlockVictim(c)
      BY <1>4, <3>2 DEF Fails, BeginFails, StatementFails, HasStatement, ConnectionLost, StatementLost
    <3> QED BY <3>1, <3>2
  <2>2. Answers[c] = "none"
    BY <2>1 DEF Answers
  <2>3. UNCHANGED <<givenVars, gauge, count, commits>>
    BY <1>4 DEF Fails, BeginFails, StatementFails, DeadlockVictim, ConnectionLost, StatementLost
  <2>4. \A d \in Calls : d # c => pc'[d] = pc[d] /\ err'[d] = err[d]
    BY <1>4, FailsAlone
  <2>5. CASE pc'[c] = "done" /\ err'[c] # Nil
    <3>1. Answers' = [Answers EXCEPT ![c] = "failed"]
      BY <2>4, <2>5 DEF Answers
    <3>2. UNCHANGED <<Batches, gauge, count, Effective>>
      BY <2>3 DEF Batches, Updated, Increments, Effective
    <3> QED BY <2>2, <3>1, <3>2 DEF Promise!Answer
  <2>6. CASE pc'[c] = "begin"
    <3>1. Answers' = Answers
      BY <2>1, <2>4, <2>6 DEF Answers
    <3> QED BY <1>1, <2>3, <3>1
  <2> QED BY <1>4, <2>1, <2>5, <2>6, FailsStage
<1>5. ASSUME NEW c \in Calls, Commit(c)
      PROVE  Promise!Succeed(c)
  <2>1. /\ err[c] = Nil /\ pc[c] = "exec" /\ tx[c] = "active" /\ pos[c] = Len(script[c])
        /\ WroteInv(c) /\ StageInv(c) /\ Committed(c)
    BY <1>5 DEF Commit, StoreInv, StageInv
  <2>2. Answers[c] = "none" /\ Answers' = [Answers EXCEPT ![c] = "ok"]
    BY <1>5, <2>1 DEF Answers, Commit, TypeOK
  <2>3. /\ commits' = [commits EXCEPT ![c] = @ + 1] /\ commits[c] \in Nat
        /\ count' = [count EXCEPT ![c] = @ + Increments(c)]
        /\ gauge' = [x \in Gauges |-> IF x \in Updated(c) \ {Counter} THEN c ELSE gauge[x]]
    BY <2>1, CommitsWhole
  <2>4. ~single[c] => commits[c] = 0
    BY <2>1, <2>3 DEF StageInv, InFlight, Sent, TypeOK
  <2>5. Promise!Effect(c)
    BY <1>2, <1>5, <2>3, <2>4 DEF Commit
  <2> QED BY <2>2, <2>5 DEF Promise!Succeed
<1>6. ASSUME NEW c \in Calls, CommittedUnheard(c) \/ LateStatement(c)
      PROVE  Promise!TakeEffect(c)
  <2>1. WroteInv(c) /\ StageInv(c)
    BY DEF StoreInv
  <2>2. /\ commits' = [commits EXCEPT ![c] = @ + 1] /\ commits[c] \in Nat
        /\ count' = [count EXCEPT ![c] = @ + Increments(c)]
        /\ gauge' = [x \in Gauges |-> IF x \in Updated(c) \ {Counter} THEN c ELSE gauge[x]]
        /\ ~single[c] => commits[c] = 0
    <3>1. CASE LateStatement(c)
      BY <2>1, <3>1, LateWhole
    <3>2. CASE CommittedUnheard(c)
      <4>1. tx[c] = "committing" /\ pos[c] = Len(script[c]) /\ Committed(c)
        BY <2>1, <3>2 DEF CommittedUnheard, StageInv
      <4>2. commits[c] \in Nat /\ late[c] \in Nat
        BY DEF TypeOK
      <4>3. ~single[c] => commits[c] = 0
        BY <2>1, <4>1, <4>2 DEF StageInv, InFlight, Sent
      <4> QED BY <2>1, <4>1, <4>3, CommitsWhole
    <3> QED BY <1>6, <3>1, <3>2
  <2>3. Answers' = Answers /\ UNCHANGED givenVars
    BY <1>6 DEF CommittedUnheard, LateStatement, Answers
  <2>4. Promise!Effect(c)
    BY <1>2, <2>2, <2>3
  <2> QED BY <2>3, <2>4 DEF Promise!TakeEffect
<1>7. CASE NewDBStorage \/ Close \/ Page \/ UNCHANGED vars
  <2>1. Answers' = Answers /\ UNCHANGED <<givenVars, gauge, count, commits>>
    BY <1>7, OthersChangeNoCall DEF Answers
  <2> QED BY <1>1, <2>1
<1>8. CASE \E c \in Calls : Arrive(c) \/ Call(c) \/ Orphan(c)
  BY <1>3, <1>4, <1>5, <1>6, <1>8 DEF Promise!StoreNext, Call, Progress, Orphan, Fails
<1> QED BY <1>7, <1>8 DEF Next, Ended

\* The store implements BatchStore: every call is seen as a whole, once, or not
\* at all, and nil is returned only for what is committed.
THEOREM StoreKeepsPromise == Spec => BatchesAreAtomic
<1>1. Init => Promise!StoreInit
  BY DBAssumption DEF Init, Promise!StoreInit, Effective, Answers
<1> QED BY <1>1, StoreInductive, StepKeepsPromise, PTL DEF Spec, BatchesAreAtomic, Promise!StoreSpec

----------------------------------------------------------------------------
(* The page of both tables.                                                *)

\* Call c has been committed and sets gauge x.
WrittenBy(c, x) == commits[c] > 0 /\ x \in Updated(c)

\* Inductive with StoreInv: a gauge in the table or on the page is one of a
\* committed call, whose increments the counters then have.
PageInv ==
  /\ \A x \in Gauges : gauge[x] # NoCall => WrittenBy(gauge[x], x)
  /\ \A x \in Gauges : page.g[x] # NoCall => WrittenBy(page.g[x], x)
  /\ PageCountsWhatItShows

\* What is committed stays committed.
LEMMA CommitsGrow ==
  ASSUME TypeOK, StoreInv, NEW c \in Calls, Arrive(c) \/ Call(c) \/ Orphan(c)
  PROVE  /\ \A d \in Calls, x \in Gauges : WrittenBy(d, x) => WrittenBy(d, x)'
         /\ \A x \in Gauges : gauge'[x] = gauge[x] \/ (gauge'[x] = c /\ WrittenBy(c, x)')
         /\ UNCHANGED <<givenVars, page>>
<1> USE DEF givenVars, tableVars
<1>1. UNCHANGED <<givenVars, page>>
  BY DEF Call, Progress, Orphan, Arrive, Begin, BeginFails, Exec, StatementFails,
         DeadlockVictim, Commit, ConnectionLost, StatementLost, CommittedUnheard,
         RolledBack, LateStatement, LateForgotten
<1>2. \A d \in Calls : Updated(d)' = Updated(d)
  BY <1>1 DEF Updated
<1>3. CASE Commit(c) \/ CommittedUnheard(c) \/ LateStatement(c)
  <2>1. /\ commits' = [commits EXCEPT ![c] = @ + 1]
        /\ gauge' = [x \in Gauges |-> IF x \in Updated(c) \ {Counter} THEN c ELSE gauge[x]]
    <3>1. WroteInv(c) /\ StageInv(c)
      BY DEF StoreInv
    <3>2. CASE LateStatement(c)
      BY <3>1, <3>2, LateWhole
    <3>3. CASE Commit(c) \/ CommittedUnheard(c)
      <4>1. pos[c] = Len(script[c]) /\ Committed(c)
        BY <3>1, <3>3 DEF Commit, CommittedUnheard, StageInv
      <4> QED BY <3>1, <4>1, CommitsWhole
    <3> QED BY <1>3, <3>2, <3>3
  <2>2. commits \in [Calls -> Nat]
    BY DEF TypeOK
  <2>3. \A d \in Calls : commits'[d] = IF d = c THEN commits[d] + 1 ELSE commits[d]
    BY <2>1, <2>2
  <2>4. \A x \in Gauges : gauge'[x] = gauge[x] \/ (gauge'[x] = c /\ x \in Updated(c))
    BY <2>1
  <2> QED BY <1>1, <1>2, <2>2, <2>3, <2>4 DEF WrittenBy
<1>4. CASE ~(Commit(c) \/ CommittedUnheard(c) \/ LateStatement(c))
  <2>1. UNCHANGED <<commits, gauge>>
    BY <1>4 DEF Call, Progress, Orphan, Arrive, Begin, BeginFails, Exec, StatementFails,
         DeadlockVictim, ConnectionLost, StatementLost, RolledBack, LateForgotten
  <2> QED BY <1>1, <1>2, <2>1 DEF WrittenBy
<1> QED BY <1>3, <1>4

\* A call that sets a gauge has its increments counted once if it is a batch, and
\* none to count if it is a single call.
LEMMA GaugeCounts ==
  ASSUME TypeOK, StoreInv, NEW c \in Calls, NEW x \in Gauges, WrittenBy(c, x)
  PROVE  count[c] = Increments(c)
<1>1. /\ StageInv(c) /\ script[c] \in Scripts /\ Increments(c) \in Nat
      /\ commits[c] \in Nat /\ late[c] \in Nat /\ tries[c] \in Nat
  BY IncrementsAreNat, DBAssumption DEF StoreInv, TypeOK
<1>2. CASE ~single[c]
  <2>1. commits[c] = 1
    BY <1>1, <1>2 DEF StageInv, InFlight, Sent, WrittenBy
  <2>2. count[c] = commits[c] * Increments(c)
    BY <1>1 DEF StageInv
  <2> QED BY <1>1, <2>1, <2>2
<1>3. CASE single[c]
  <2>1. DOMAIN script[c] = {1}
    BY <1>1, <1>3, ScriptIsSequence DEF TypeOK
  <2>2. script[c][1] # Counter
    BY <2>1, DBAssumption DEF Updated, WrittenBy
  <2>3. {i \in DOMAIN script[c] : script[c][i] = Counter} = {}
    BY <2>1, <2>2
  <2>4. Increments(c) = 0
    BY <2>3, FS_EmptySet DEF Increments
  <2>5. count[c] = commits[c] * Increments(c)
    BY <1>1 DEF StageInv
  <2> QED BY <1>1, <2>4, <2>5
<1> QED BY <1>2, <1>3

LEMMA StepKeepsPage ==
  ASSUME TypeOK, TypeOK', StoreInv, PageInv, [Next]_vars
  PROVE  PageInv'
<1> USE DEF givenVars, tableVars
<1>t. /\ gauge \in [Gauges -> Calls \cup {NoCall}] /\ page.g \in [Gauges -> Calls \cup {NoCall}]
  BY DEF TypeOK
<1>1. CASE \E c \in Calls : Arrive(c) \/ Call(c) \/ Orphan(c)
  <2>1. PICK c \in Calls : Arrive(c) \/ Call(c) \/ Orphan(c)
    BY <1>1
  <2>2. /\ \A d \in Calls, x \in Gauges : WrittenBy(d, x) => WrittenBy(d, x)'
        /\ \A x \in Gauges : gauge'[x] = gauge[x] \/ (gauge'[x] = c /\ WrittenBy(c, x)')
        /\ UNCHANGED <<givenVars, page>>
    BY <2>1, CommitsGrow
  <2>3. PageCountsWhatItShows'
    BY <2>2 DEF PageInv, PageCountsWhatItShows, Increments
  <2>4. \A x \in Gauges : gauge'[x] # NoCall => WrittenBy(gauge[x], x)'
    <3>1. TAKE x \in Gauges
    <3>2. CASE gauge'[x] = gauge[x]
      <4>1. gauge[x] # NoCall => gauge[x] \in Calls /\ WrittenBy(gauge[x], x)
        BY <1>t DEF PageInv
      <4>2. ASSUME NEW d \in Calls, WrittenBy(d, x)
            PROVE  commits'[d] > 0 /\ x \in Updated(d)'
        BY <2>2, <4>2 DEF WrittenBy
      <4> QED BY <3>2, <4>1, <4>2 DEF WrittenBy, Updated
    <3>3. CASE gauge'[x] = c /\ WrittenBy(c, x)'
      BY <3>3 DEF WrittenBy, Updated
    <3> QED BY <2>2, <3>2, <3>3
  <2>5. \A x \in Gauges : page'.g[x] # NoCall => WrittenBy(page.g[x], x)'
    <3>1. TAKE x \in Gauges
    <3>2. page.g[x] # NoCall => page.g[x] \in Calls /\ WrittenBy(page.g[x], x)
      BY <1>t DEF PageInv
    <3>3. ASSUME NEW d \in Calls, WrittenBy(d, x)
          PROVE  commits'[d] > 0 /\ x \in Updated(d)'
      BY <2>2, <3>3 DEF WrittenBy
    <3> QED BY <2>2, <3>2, <3>3 DEF WrittenBy, Updated
  <2> QED BY <2>3, <2>4, <2>5 DEF PageInv
<1>2. CASE PageGauges
  <2>1. PICK g \in {gauge, [x \in Gauges |-> NoCall]} :
          page' = [page EXCEPT !.pc = "counters", !.g = g]
    BY <1>2 DEF PageGauges
  <2>2. page'.g = g /\ page'.pc = "counters"
    BY <2>1 DEF TypeOK
  <2>3. \A x \in Gauges : g[x] # NoCall => WrittenBy(g[x], x)
    BY DEF PageInv
  <2>4. UNCHANGED <<gauge, commits, script>>
    BY <1>2 DEF PageGauges
  <2> QED BY <2>2, <2>3, <2>4 DEF PageInv, PageCountsWhatItShows, WrittenBy, Updated
<1>3. CASE PageCounters
  <2>1. /\ page'.g = page.g /\ UNCHANGED <<gauge, commits, script>>
        /\ page'.pc = "shown" => page'.n = count
    BY <1>3 DEF PageCounters, TypeOK
  <2>2. ASSUME NEW x \in Gauges, page.g[x] # NoCall
        PROVE  count[page.g[x]] = Increments(page.g[x])
    <3>1. page.g[x] \in Calls /\ WrittenBy(page.g[x], x)
      BY <1>t, <2>2 DEF PageInv
    <3> QED BY <3>1, GaugeCounts
  <2>3. PageCountsWhatItShows'
    BY <2>1, <2>2 DEF PageCountsWhatItShows, Increments
  <2> QED BY <2>1, <2>3 DEF PageInv, WrittenBy, Updated
<1>4. CASE PageDone
  <2>1. /\ page'.pc = "idle" /\ page'.g = [x \in Gauges |-> NoCall]
        /\ UNCHANGED <<gauge, commits, script>>
    BY <1>4 DEF PageDone
  <2> QED BY <2>1 DEF PageInv, PageCountsWhatItShows, WrittenBy, Updated
<1>5. CASE NewDBStorage \/ Close \/ UNCHANGED vars
  <2>1. UNCHANGED <<gauge, commits, page, script>>
    BY <1>5 DEF NewDBStorage, Close, vars
  <2> QED BY <2>1 DEF PageInv, PageCountsWhatItShows, Increments, WrittenBy, Updated
<1> QED BY <1>1, <1>2, <1>3, <1>4, <1>5 DEF Next, Page, Ended

\* The page never shows the gauge of a batch whose increments it does not count,
\* for any number of writers: the counters are read after the gauges, and a
\* commit makes both visible at once.
THEOREM PageIsConsistent == Spec => []PageCountsWhatItShows
<1>1. Init => PageInv
  BY DEF Init, PageInv, PageCountsWhatItShows
<1>2. TypeOK /\ TypeOK' /\ StoreInv /\ PageInv /\ [Next]_vars => PageInv'
  BY StepKeepsPage
<1>3. PageInv => PageCountsWhatItShows
  BY DEF PageInv
<1> QED BY <1>1, <1>2, <1>3, StoreInductive, PTL DEF Spec
=============================================================================
