------------------------------ MODULE DBStorage ------------------------------
(***************************************************************************)
(* The PostgreSQL store (internal/storage/db.go): concurrent handlers, each*)
(* running one call as a transaction under retry.Do, on connections that   *)
(* may break at any statement, the commit included; the page that reads    *)
(* both tables; the opening and the closing of the store.                  *)
(*                                                                         *)
(* SetGauge and UpdateCounter are single calls: one statement outside any  *)
(* transaction, which the database begins and commits by itself. Beneath   *)
(* retry.Do, database/sql sends such a statement again when the driver     *)
(* says that the connection was bad, whether or not the database has the   *)
(* first one; a statement inside a transaction is not sent again.          *)
(*                                                                         *)
(* A definition marked "Mutant" is no part of the model: it is a slip the  *)
(* properties must catch when it stands for the definition it precedes.    *)
(***************************************************************************)
EXTENDS Integers, Sequences, FiniteSets

CONSTANTS
  Calls,         \* calls of UpdateBatch, SetGauge and UpdateCounter
  Gauges,        \* rows of the table gauges
  Counter,       \* the row of the table counters
  NoCall,        \* stands for no call
  BatchLen,      \* bound: metrics in a batch
  Pauses,        \* len(retry.Intervals)
  SqlRetries     \* database/sql: how often it sends a single statement again

ASSUME DBAssumption ==
  /\ NoCall \notin Calls
  /\ Counter \notin Gauges
  /\ BatchLen \in Nat
  /\ Pauses \in Nat
  /\ SqlRetries \in Nat

VARIABLES
  opened,        \* NewDBStorage and Close
  script,        \* per call: its metrics, in the order of the batch
  single,        \* per call: SetGauge or UpdateCounter, no UpdateBatch
  pc, attempt,   \* per call: its place, the attempts of retry.Do before
  tries,         \* per call: the tries of database/sql before, in this attempt
  err,           \* per call: what it returned
  tx,            \* per call: its transaction in the database
  pos, wrote,    \* per transaction: statements executed, what they wrote
  late,          \* per single call: statements the database may still have,
                 \* although their connection is gone
  lock,          \* per row: the transaction that has locked it
  gauge, count,  \* what is committed: the writer of each gauge, and how many
                 \* of each call's increments the counter has
  commits,       \* history: how often a call's statements were committed
  page           \* RootHandler: its place and what it has read

givenVars == <<script, single>>
callVars == <<pc, attempt, tries, err>>
txVars == <<tx, pos, wrote, late, lock>>
tableVars == <<gauge, count, commits>>
vars == <<opened, givenVars, callVars, txVars, tableVars, page>>

Rows == Gauges \cup {Counter}

Scripts == UNION {[1..n -> Rows] : n \in 1..BatchLen}

Wrote == [g : SUBSET Gauges, n : Nat]

NothingWritten == [g |-> {}, n |-> 0]

----------------------------------------------------------------------------
(* Errors. The driver is lib/pq: what the database reports has its type,   *)
(* a broken connection shows as an error of package net or, when the other *)
(* side has closed it, as driver.ErrBadConn.                               *)

FromDriver(class) == [type |-> "pq.Error", class |-> class]

Nil == [type |-> "nil", class |-> "none"]
BrokenConnection == [type |-> "net.OpError", class |-> "none"]
BadConn == [type |-> "driver.ErrBadConn", class |-> "none"]
StoreClosed == [type |-> "sql: database is closed", class |-> "none"]
ConnectionException == FromDriver("08")
OutOfRange == FromDriver("22")
DeadlockDetected == FromDriver("40")

ConnectionErrors == {BrokenConnection, BadConn, ConnectionException}

Failures == ConnectionErrors \cup {StoreClosed, OutOfRange, DeadlockDetected}

\* Mutant: the errors of the driver in use are recognised.
isRetriableConnectionError(e) == e.class = "08" \/ e.type = "net.OpError"

isRetriablePgError(e) == e.type = "pgconn.PgError" /\ e.class = "08"

\* retry.Do after a failed attempt: the next one, or the end.
AttemptOver(c, e) ==
  IF isRetriablePgError(e) /\ attempt[c] < Pauses
  THEN /\ pc' = [pc EXCEPT ![c] = "begin"]
       /\ attempt' = [attempt EXCEPT ![c] = @ + 1]
       /\ tries' = [tries EXCEPT ![c] = 0]
       /\ UNCHANGED err
  ELSE /\ pc' = [pc EXCEPT ![c] = "done"]
       /\ err' = [err EXCEPT ![c] = e]
       /\ UNCHANGED <<attempt, tries>>

\* db.Exec of a single statement, inside one attempt of retry.Do.
SentAgain(c, e) == single[c] /\ e = BadConn /\ tries[c] < SqlRetries

ConnectionFails(c, e) ==
  IF SentAgain(c, e)
  THEN /\ pc' = [pc EXCEPT ![c] = "begin"]
       /\ tries' = [tries EXCEPT ![c] = @ + 1]
       /\ UNCHANGED <<attempt, err>>
  ELSE AttemptOver(c, e)

----------------------------------------------------------------------------
Init ==
  /\ opened = "opening"
  /\ script \in [Calls -> Scripts]
  /\ single \in [Calls -> BOOLEAN]
  /\ \A c \in Calls : single[c] => Len(script[c]) = 1
  /\ pc = [c \in Calls |-> "idle"]
  /\ attempt = [c \in Calls |-> 0]
  /\ tries = [c \in Calls |-> 0]
  /\ err = [c \in Calls |-> Nil]
  /\ tx = [c \in Calls |-> "none"]
  /\ pos = [c \in Calls |-> 0]
  /\ wrote = [c \in Calls |-> NothingWritten]
  /\ late = [c \in Calls |-> 0]
  /\ lock = [r \in Rows |-> NoCall]
  /\ gauge = [x \in Gauges |-> NoCall]
  /\ count = [c \in Calls |-> 0]
  /\ commits = [c \in Calls |-> 0]
  /\ page = [pc |-> "idle", g |-> [x \in Gauges |-> NoCall], n |-> [c \in Calls |-> 0]]

\* NewDBStorage: open, ping and migrate, or serve ends with its error.
NewDBStorage ==
  /\ opened = "opening"
  /\ opened' \in {"open", "failed"}
  /\ UNCHANGED <<givenVars, callVars, txVars, tableVars, page>>

\* The deferred Close of serve: handlers may outlive a forced shutdown.
Close ==
  /\ opened = "open"
  /\ opened' = "closed"
  /\ UNCHANGED <<givenVars, callVars, txVars, tableVars, page>>

----------------------------------------------------------------------------
(* A call.                                                                 *)

Arrive(c) ==
  /\ opened \in {"open", "closed"}
  /\ pc[c] = "idle"
  /\ pc' = [pc EXCEPT ![c] = "begin"]
  /\ UNCHANGED <<opened, givenVars, attempt, tries, err, txVars, tableVars, page>>

\* db.Begin and the two Prepare, or a connection for a single statement. A batch
\* begins when the database is done with what an earlier attempt has left there.
Begin(c) ==
  /\ pc[c] = "begin"
  /\ opened = "open"
  /\ tx[c] = "none"
  /\ pc' = [pc EXCEPT ![c] = "exec"]
  /\ tx' = [tx EXCEPT ![c] = "active"]
  /\ UNCHANGED <<opened, givenVars, attempt, tries, err, pos, wrote, late, lock,
                 tableVars, page>>

BeginFails(c) ==
  /\ pc[c] = "begin"
  /\ \E e \in IF opened = "open" THEN ConnectionErrors ELSE {StoreClosed} :
       ConnectionFails(c, e)
  /\ UNCHANGED <<opened, givenVars, txVars, tableVars, page>>

Row(c) == script[c][pos[c] + 1]

HasStatement(c) == pc[c] = "exec" /\ pos[c] < Len(script[c])

\* Mutant: every statement is committed by itself.
ExecAutocommit(c) ==
  /\ HasStatement(c)
  /\ lock[Row(c)] \in {NoCall, c}
  /\ gauge' = [x \in Gauges |-> IF x = Row(c) THEN c ELSE gauge[x]]
  /\ count' = [count EXCEPT ![c] = IF Row(c) = Counter THEN @ + 1 ELSE @]
  /\ pos' = [pos EXCEPT ![c] = @ + 1]
  /\ UNCHANGED <<opened, givenVars, callVars, tx, wrote, late, lock, commits, page>>

\* A transaction that has written w, after its statement on row r.
Upserted(w, r) ==
  IF r = Counter THEN [w EXCEPT !.n = @ + 1] ELSE [w EXCEPT !.g = @ \cup {r}]

\* INSERT ... ON CONFLICT DO UPDATE: it locks its row until the transaction
\* ends, and waits for another transaction's lock on it.
Exec(c) ==
  /\ HasStatement(c)
  /\ lock[Row(c)] \in {NoCall, c}
  /\ lock' = [lock EXCEPT ![Row(c)] = c]
  /\ wrote' = [wrote EXCEPT ![c] = Upserted(@, Row(c))]
  /\ pos' = [pos EXCEPT ![c] = @ + 1]
  /\ UNCHANGED <<opened, givenVars, callVars, tx, late, tableVars, page>>

\* The transaction is over for the database.
EndTx(c) ==
  /\ tx' = [tx EXCEPT ![c] = "none"]
  /\ pos' = [pos EXCEPT ![c] = 0]
  /\ wrote' = [wrote EXCEPT ![c] = NothingWritten]
  /\ lock' = [r \in Rows |-> IF lock[r] = c THEN NoCall ELSE lock[r]]

\* Mutant: no deferred Rollback.
StatementFailsNoRollback(c) ==
  /\ HasStatement(c)
  /\ AttemptOver(c, OutOfRange)
  /\ UNCHANGED <<opened, givenVars, txVars, tableVars, page>>

\* The database refuses a value (a delta beyond BIGINT), the deferred Rollback
\* ends the transaction.
StatementFails(c) ==
  /\ HasStatement(c)
  /\ AttemptOver(c, OutOfRange)
  /\ EndTx(c)
  /\ UNCHANGED <<opened, givenVars, late, tableVars, page>>

WaitsFor(c, d) == c # d /\ HasStatement(c) /\ lock[Row(c)] = d

\* Transactions that lock the same rows in another order wait for one another
\* until the database makes one of them fail.
DeadlockVictim(c) ==
  /\ \E S \in SUBSET Calls :
       /\ c \in S
       /\ \A d \in S : (\E e \in S : WaitsFor(d, e)) /\ (\E e \in S : WaitsFor(e, d))
  /\ AttemptOver(c, DeadlockDetected)
  /\ EndTx(c)
  /\ UNCHANGED <<opened, givenVars, late, tableVars, page>>

\* What w says becomes visible to everyone.
Applied(c, w) ==
  /\ gauge' = [x \in Gauges |-> IF x \in w.g THEN c ELSE gauge[x]]
  /\ count' = [count EXCEPT ![c] = @ + w.n]
  /\ commits' = [commits EXCEPT ![c] = @ + 1]

\* What the database does on COMMIT, and after a single statement.
Committed(c) == Applied(c, wrote[c]) /\ EndTx(c)

Commit(c) ==
  /\ pc[c] = "exec"
  /\ pos[c] = Len(script[c])
  /\ Committed(c)
  /\ pc' = [pc EXCEPT ![c] = "done"]
  /\ UNCHANGED <<opened, givenVars, attempt, tries, err, late, page>>

\* The connection breaks while the call waits for an answer, by a network error
\* or closed by the other side. The database learns of it later; a transaction
\* may have been told to commit.
ConnectionLost(c) ==
  /\ pc[c] = "exec" /\ ~single[c]
  /\ \E e \in {BrokenConnection, BadConn} : ConnectionFails(c, e)
  /\ tx' = [tx EXCEPT ![c] = IF pos[c] = Len(script[c]) THEN "committing" ELSE "lost"]
  /\ UNCHANGED <<opened, givenVars, pos, wrote, late, lock, tableVars, page>>

\* The same under a single statement: it needs no word from the client any more
\* to be executed and committed.
StatementLost(c) ==
  /\ pc[c] = "exec" /\ single[c]
  /\ \E e \in {BrokenConnection, BadConn} : ConnectionFails(c, e)
  /\ late' = [late EXCEPT ![c] = @ + 1]
  /\ EndTx(c)
  /\ UNCHANGED <<opened, givenVars, tableVars, page>>

CommittedUnheard(c) ==
  /\ tx[c] = "committing"
  /\ Committed(c)
  /\ UNCHANGED <<opened, givenVars, callVars, late, page>>

RolledBack(c) ==
  /\ tx[c] \in {"committing", "lost"}
  /\ EndTx(c)
  /\ UNCHANGED <<opened, givenVars, callVars, late, tableVars, page>>

\* A single statement whose connection is gone is executed, once its row is
\* free, or never was received.
LateStatement(c) ==
  /\ late[c] > 0
  /\ lock[script[c][1]] = NoCall
  /\ Applied(c, Upserted(NothingWritten, script[c][1]))
  /\ late' = [late EXCEPT ![c] = @ - 1]
  /\ UNCHANGED <<opened, givenVars, callVars, tx, pos, wrote, lock, page>>

LateForgotten(c) ==
  /\ late[c] > 0
  /\ late' = [late EXCEPT ![c] = @ - 1]
  /\ UNCHANGED <<opened, givenVars, callVars, tx, pos, wrote, lock, tableVars, page>>

----------------------------------------------------------------------------
(* RootHandler: GetAllMetrics reads one table, then the other. A query that *)
(* fails leaves its part of the page empty.                                 *)

PageGauges ==
  /\ opened = "open"
  /\ page.pc = "idle"
  /\ \E g \in {gauge, [x \in Gauges |-> NoCall]} :
       page' = [page EXCEPT !.pc = "counters", !.g = g]
  /\ UNCHANGED <<opened, givenVars, callVars, txVars, tableVars>>

PageCounters ==
  /\ page.pc = "counters"
  /\ \E ok \in BOOLEAN :
       /\ opened = "open" \/ ~ok
       /\ page' = [page EXCEPT !.pc = IF ok THEN "shown" ELSE "partly",
                           !.n = IF ok THEN count ELSE @]
  /\ UNCHANGED <<opened, givenVars, callVars, txVars, tableVars>>

PageDone ==
  /\ page.pc \in {"shown", "partly"}
  /\ page' = [pc |-> "idle", g |-> [x \in Gauges |-> NoCall], n |-> [c \in Calls |-> 0]]
  /\ UNCHANGED <<opened, givenVars, callVars, txVars, tableVars>>

----------------------------------------------------------------------------
\* What a call does unless it waits for a lock; that a statement fails or a
\* connection breaks is no way out of waiting.
Progress(c) == Begin(c) \/ BeginFails(c) \/ Exec(c) \/ DeadlockVictim(c) \/ Commit(c)

Call(c) == Progress(c) \/ StatementFails(c) \/ ConnectionLost(c) \/ StatementLost(c)

\* The database, with a transaction or a statement whose connection is gone.
Orphan(c) == CommittedUnheard(c) \/ RolledBack(c) \/ LateStatement(c) \/ LateForgotten(c)

Page == PageGauges \/ PageCounters \/ PageDone

\* Nothing needs to happen any more; the process may end.
Ended == opened \in {"failed", "closed"} /\ UNCHANGED vars

Next ==
  \/ NewDBStorage \/ Close
  \/ \E c \in Calls : Arrive(c) \/ Call(c) \/ Orphan(c)
  \/ Page
  \/ Ended

Spec == Init /\ [][Next]_vars

(* A call goes on unless it waits for a lock, and the database finds out   *)
(* about broken connections (keepalive). No call and no Close has to come, *)
(* and nothing has to fail.                                                *)
FairSpec ==
  /\ Spec
  /\ WF_vars(NewDBStorage)
  /\ \A c \in Calls : WF_vars(Progress(c)) /\ WF_vars(Orphan(c))

----------------------------------------------------------------------------
\* Type invariant: among others a row is locked only by a transaction that has
\* executed a statement on it.
TypeOK ==
  /\ opened \in {"opening", "open", "failed", "closed"}
  /\ script \in [Calls -> Scripts] /\ single \in [Calls -> BOOLEAN]
  /\ \A c \in Calls : single[c] => Len(script[c]) = 1
  /\ pc \in [Calls -> {"idle", "begin", "exec", "done"}]
  /\ attempt \in [Calls -> 0..Pauses] /\ tries \in [Calls -> 0..SqlRetries]
  /\ err \in [Calls -> Failures \cup {Nil}]
  /\ tx \in [Calls -> {"none", "active", "committing", "lost"}]
  /\ pos \in [Calls -> 0..BatchLen]
  /\ wrote \in [Calls -> Wrote] /\ late \in [Calls -> Nat]
  /\ lock \in [Rows -> Calls \cup {NoCall}]
  /\ \A r \in Rows : lock[r] # NoCall =>
       tx[lock[r]] # "none" /\ \E i \in 1..pos[lock[r]] : script[lock[r]][i] = r
  /\ gauge \in [Gauges -> Calls \cup {NoCall}]
  /\ count \in [Calls -> Nat] /\ commits \in [Calls -> Nat]
  /\ page \in [pc : {"idle", "counters", "shown", "partly"},
               g : [Gauges -> Calls \cup {NoCall}], n : [Calls -> Nat]]

Updated(c) == {script[c][i] : i \in DOMAIN script[c]}

Increments(c) == Cardinality({i \in DOMAIN script[c] : script[c][i] = Counter})

\* How often the statements of a call may be committed.
Times(c) == IF single[c] THEN 1 + SqlRetries ELSE 1

\* The deltas of a batch are added at most once, all or none, exactly once if the
\* call has returned nil, although connections break during a commit: nobody
\* repeats what the database may have done already (isRetriablePgError). The
\* delta of UpdateCounter may be added once for every time database/sql sends
\* the statement, and is added at least once if the call has returned nil.
DeltaNotOvercounted ==
  \A c \in Calls :
    /\ \E k \in 0..Times(c) : count[c] = k * Increments(c)
    /\ pc[c] = "done" /\ err[c] = Nil => count[c] >= Increments(c)

\* "Все операции записи и чтения выполняются через retry.Do, поэтому временные
\* ошибки соединения (например, обрыв связи) не приводят к потере метрики"
\* (DBStorage): a call that ends with an error of its connection has used every
\* pause of retry.Intervals, or else the database has its metrics or may still
\* commit them.
BrokenConnectionLosesNothing ==
  \A c \in Calls : pc[c] = "done" /\ err[c] \in ConnectionErrors =>
    attempt[c] = Pauses \/ commits[c] > 0 \/ tx[c] # "none" \/ late[c] > 0

\* The page never shows the gauge of a batch without the batch's increment of
\* the counter, although it is read in two queries without a transaction:
\* GetAllMetrics reads the counters last.
PageCountsWhatItShows ==
  page.pc = "shown" =>
    \A x \in Gauges : page.g[x] # NoCall => page.n[page.g[x]] = Increments(page.g[x])

\* Every call returns, whatever it waits for: locks are released by commit,
\* Rollback or the end of the connection, and deadlocks are broken.
CallsReturn == \A c \in Calls : pc[c] = "begin" ~> pc[c] = "done"

Batches == [c \in Calls |->
  [g |-> Updated(c) \ {Counter}, n |-> Increments(c), once |-> ~single[c]]]

Effective == {c \in Calls : commits[c] > 0}

Answers == [c \in Calls |-> IF pc[c] # "done" THEN "none"
                           ELSE IF err[c] = Nil THEN "ok" ELSE "failed"]

\* The promise this implements: a call has taken effect once its statements are
\* committed, and has answered once it has returned.
Promise == INSTANCE BatchStore WITH
  batch <- Batches, applied <- Effective, answer <- Answers

\* Whatever the interleaving of statements, failures and lost connections,
\* every step is one of BatchStore or changes nothing it speaks of: a batch is
\* seen as a whole or not at all (UpdateBatch), and only a single statement may
\* take effect again.
BatchesAreAtomic == Promise!StoreSpec
=============================================================================
