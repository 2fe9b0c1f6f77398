---------------------------- MODULE RollbackRunner ----------------------------
(***************************************************************************)
(* One runner process: the scenario runs in a transaction on the test      *)
(* database that is always rolled back, a recorder (_capture.py) copies a  *)
(* table before the first write it sees and reports what changed, and a    *)
(* fresh connection then looks whether the tables are as they were.        *)
(*                                                                         *)
(* Other sessions use the same database, statements see what others have   *)
(* committed (READ COMMITTED), and nobody writes a row that an open        *)
(* transaction has written.  The code under test may itself commit rows on *)
(* a connection of its own (a thread), and may write with SQL the recorder *)
(* does not recognise.                                                     *)
(***************************************************************************)
EXTENDS Integers, FiniteSets

CONSTANTS
  Tables,        \* tables of models, with their database
  LargeTables,   \* those with more than ROW_LIMIT rows
  Keys, Values,  \* primary keys (numbers) and the contents of rows
  NoRow, Unwritten, NoSnapshot, NoStatement,
  Databases,     \* contents the database may have at the start
  ScriptChecks,  \* the cleanup_checks a script may return
  MaxStatements, \* bound: statements of the scenario
  MaxCommits     \* bound: commits on other connections

Row == Values \cup {NoRow}
Rows == [Keys -> Row]
Statement == [table : Tables, key : Keys, row : Row]
Check == [table : Tables, key : Keys, row : Row]
Change == [key : Keys, before : Row, after : Row]
(* What the recorder keeps of a table: all rows, or only the highest key, as
   the keys up to it. *)
Snapshot == [rows : Rows, upTo : SUBSET Keys]

ASSUME KeysAssumption == Keys \subseteq Nat
ASSUME RowsAssumption == Unwritten \notin Row /\ NoSnapshot \notin Snapshot /\ NoStatement \notin Statement
ASSUME InputsAssumption ==
  /\ LargeTables \subseteq Tables /\ Databases \subseteq [Tables -> Rows]
  /\ ScriptChecks \subseteq SUBSET Check
  /\ MaxStatements \in Nat /\ MaxCommits \in Nat

VARIABLES
  capture,      \* with the recorder (a differential case); never changes
  step,         \* "scenario", "collect", "check" or how the process ended
  committed,    \* the database
  own,          \* what the transaction has written
  statement,    \* the statement being executed
  snapshots, changes,
  raised,       \* scenario_error
  checks,       \* cleanup_checks still to be looked at
  todo,         \* tables still to be collected or looked at
  cleanup,      \* cleanup_verified
  statements, commits,
  start,        \* history: the database at the start
  wrote,        \* history: `own` when it was rolled back
  disturbed,    \* history: tables other sessions committed to
  early         \* history: rows the code under test wrote before their table was copied

vars == <<capture, step, committed, own, statement, snapshots, changes, raised, checks, todo,
          cleanup, statements, commits, start, wrote, disturbed, early>>

Nothing == [t \in Tables |-> [k \in Keys |-> Unwritten]]

\* What a statement of the transaction sees.
View(t) == [k \in Keys |-> IF own[t][k] = Unwritten THEN committed[t][k] ELSE own[t][k]]
Present(rows) == {k \in Keys : rows[k] # NoRow}

------------------------------------------------------------------------------
(* ChangeRecorder *)

UpTo(rows) == {j \in Keys : \E k \in Present(rows) : j <= k}

TakeSnapshot(t) == [rows |-> View(t), upTo |-> UpTo(View(t))]

\* collect: of a large table only the rows above the highest key.
Collected(t) ==
  {[key |-> k, before |-> snapshots[t].rows[k], after |-> View(t)[k]] :
     k \in {j \in Keys : IF t \in LargeTables THEN j \notin snapshots[t].upTo /\ View(t)[j] # NoRow
                         ELSE View(t)[j] # snapshots[t].rows[j]}}

\* Mutant: rows are compared by their keys.
RestoredKeys(t) == Present(committed[t]) = Present(snapshots[t].rows)

\* restored, on a fresh connection.
Restored(t) ==
  IF t \in LargeTables THEN Present(committed[t]) \subseteq snapshots[t].upTo
  ELSE committed[t] = snapshots[t].rows

Written == {t \in Tables : snapshots[t] # NoSnapshot}

------------------------------------------------------------------------------
(* The scenario *)

Init ==
  /\ capture \in BOOLEAN /\ step = "scenario"
  /\ committed \in Databases /\ start = committed
  /\ own = Nothing /\ statement = NoStatement
  /\ snapshots = [t \in Tables |-> NoSnapshot] /\ changes = [t \in Tables |-> {}]
  /\ raised = FALSE /\ checks = {} /\ todo = {} /\ cleanup = FALSE
  /\ statements = 0 /\ commits = 0 /\ wrote = Nothing /\ disturbed = {} /\ early = {}

Recorder == <<snapshots, changes>>
Ending == <<raised, checks, todo, cleanup>>
History == <<start, wrote, disturbed, early>>

Early(t, k) == early' = IF snapshots[t] = NoSnapshot THEN early \cup {<<t, k>>} ELSE early

(* execute_wrapper: a write that WRITE_SQL recognises, to a table no write
   was seen to yet, waits for the snapshot. *)
Issue(s, recognised) ==
  /\ step = "scenario" /\ statement = NoStatement /\ statements < MaxStatements
  /\ statement' = s /\ statements' = statements + 1
  /\ snapshots' = IF capture /\ recognised /\ snapshots[s.table] = NoSnapshot
                  THEN [snapshots EXCEPT ![s.table] = TakeSnapshot(s.table)] ELSE snapshots
  /\ UNCHANGED <<capture, step, committed, own, changes, Ending, commits, History>>

Execute ==
  /\ step = "scenario" /\ statement # NoStatement
  /\ own' = [own EXCEPT ![statement.table][statement.key] = statement.row]
  /\ statement' = NoStatement /\ Early(statement.table, statement.key)
  /\ UNCHANGED <<capture, step, committed, Recorder, Ending, statements, commits, start, wrote, disturbed>>

Commit(t, k, row) ==
  /\ commits < MaxCommits /\ commits' = commits + 1
  /\ own[t][k] = Unwritten /\ committed[t][k] # row
  /\ committed' = [committed EXCEPT ![t][k] = row]
  /\ UNCHANGED <<capture, step, own, statement, Recorder, Ending, statements, start, wrote>>

\* Another session, or a thread of the code under test that outlived the scenario.
CommitOther(t, k, row) ==
  /\ step \notin {"captured", "judged", "inconclusive"}
  /\ Commit(t, k, row) /\ disturbed' = disturbed \cup {t} /\ UNCHANGED early
\* The code under test, while the scenario runs, on a connection the recorder does not see.
CommitOwn(t, k, row) ==
  /\ step = "scenario" /\ Commit(t, k, row) /\ UNCHANGED disturbed
  /\ Early(t, k)

\* An atomic block of the code under test raises, and the code goes on.
UndoBlock ==
  /\ step = "scenario" /\ own # Nothing /\ own' = Nothing /\ statement' = NoStatement
  /\ UNCHANGED <<capture, step, committed, Recorder, Ending, statements, commits, History>>

(* The scenario returns a dict.  What a raising scenario wrote is rolled back
   to the savepoint, and there is no result. *)
Return ==
  /\ step = "scenario" /\ statement = NoStatement
  /\ \E returned \in ScriptChecks : checks' = returned
  /\ step' = "collect" /\ todo' = Written
  /\ UNCHANGED <<capture, committed, own, statement, Recorder, raised, cleanup, statements, commits, History>>

\* Mutant: no savepoint around the scenario.
RaiseUnsaved ==
  /\ step = "scenario" /\ capture
  /\ raised' = TRUE /\ statement' = NoStatement
  /\ step' = "collect" /\ todo' = Written
  /\ UNCHANGED <<capture, committed, own, Recorder, checks, cleanup, statements, commits, History>>

Raise ==
  /\ step = "scenario" /\ capture
  /\ raised' = TRUE /\ own' = Nothing /\ statement' = NoStatement
  /\ step' = "collect" /\ todo' = Written
  /\ UNCHANGED <<capture, committed, Recorder, checks, cleanup, statements, commits, History>>

------------------------------------------------------------------------------
(* After the scenario *)

\* One query per table, before the rollback.
Collect(t) ==
  /\ step = "collect" /\ t \in todo
  /\ changes' = [changes EXCEPT ![t] = Collected(t)]
  /\ todo' = todo \ {t}
  /\ UNCHANGED <<capture, step, committed, own, statement, snapshots, raised, checks, cleanup,
                 statements, commits, History>>

\* Mutant: the tables the scenario's snapshots name are not asked for.
RollBackAll ==
  /\ step = "collect" /\ todo = {}
  /\ own' = Nothing /\ wrote' = own /\ step' = "check" /\ todo' = Tables
  /\ cleanup' = (checks # {} \/ capture)
  /\ UNCHANGED <<capture, committed, statement, Recorder, raised, checks, statements, commits,
                 start, disturbed, early>>

\* set_rollback, the end of the transactions, close_all.
RollBack ==
  /\ step = "collect" /\ todo = {}
  /\ own' = Nothing /\ wrote' = own /\ step' = "check" /\ todo' = Written
  /\ cleanup' = (checks # {} \/ capture)
  /\ UNCHANGED <<capture, committed, statement, Recorder, raised, checks, statements, commits,
                 start, disturbed, early>>

\* A row that must not exist, or must have a value: query.get raises without it.
CheckScript(c) ==
  /\ step = "check" /\ c \in checks
  /\ c.row # NoRow => committed[c.table][c.key] # NoRow
  /\ cleanup' = (cleanup /\ committed[c.table][c.key] = c.row)
  /\ checks' = checks \ {c}
  /\ UNCHANGED <<capture, step, committed, own, statement, Recorder, raised, todo, statements, commits, History>>

CheckTable(t) ==
  /\ step = "check" /\ checks = {} /\ t \in todo
  /\ cleanup' = (cleanup /\ Restored(t))
  /\ todo' = todo \ {t}
  /\ UNCHANGED <<capture, step, committed, own, statement, Recorder, raised, checks, statements, commits, History>>

\* A scenario that did not reach the changed lines shows nothing.
WriteResult ==
  /\ step = "check" /\ checks = {} /\ todo = {}
  /\ step' \in {IF capture THEN "captured" ELSE "judged", "inconclusive"}
  /\ UNCHANGED <<capture, committed, own, statement, Recorder, Ending, statements, commits, History>>

(* Any exception outside the scenario (and in an assert case inside it), the
   time limit, the death of the process: the database rolls back. *)
Fail ==
  /\ step \in {"scenario", "collect", "check"}
  /\ step' = "inconclusive" /\ own' = Nothing /\ statement' = NoStatement
  /\ cleanup' = FALSE /\ checks' = {} /\ todo' = {}
  /\ UNCHANGED <<capture, committed, Recorder, raised, statements, commits, History>>

Next ==
  \/ \E s \in Statement, recognised \in BOOLEAN : Issue(s, recognised)
  \/ Execute \/ UndoBlock \/ Return \/ Raise \/ RollBack \/ WriteResult \/ Fail
  \/ \E t \in Tables : Collect(t) \/ CheckTable(t)
  \/ \E c \in checks : CheckScript(c)
  \/ \E t \in Tables, k \in Keys, row \in Row : CommitOther(t, k, row) \/ CommitOwn(t, k, row)

Spec == Init /\ [][Next]_vars

------------------------------------------------------------------------------
(* Properties *)

(* Type invariant: only tables with a snapshot are collected and looked at, and
   nothing of the scenario is left in a transaction after the rollback. *)
TypeOK ==
  /\ capture \in BOOLEAN /\ raised \in BOOLEAN /\ cleanup \in BOOLEAN
  /\ step \in {"scenario", "collect", "check", "captured", "judged", "inconclusive"}
  /\ committed \in [Tables -> Rows] /\ start \in [Tables -> Rows]
  /\ own \in [Tables -> [Keys -> Row \cup {Unwritten}]] /\ wrote \in [Tables -> [Keys -> Row \cup {Unwritten}]]
  /\ step \in {"check", "captured", "judged", "inconclusive"} => own = Nothing
  /\ statement \in Statement \cup {NoStatement}
  /\ snapshots \in [Tables -> Snapshot \cup {NoSnapshot}]
  /\ changes \in [Tables -> SUBSET Change]
  /\ checks \subseteq Check /\ todo \subseteq Written
  /\ statements \in 0 .. MaxStatements /\ commits \in 0 .. MaxCommits
  /\ disturbed \subseteq Tables /\ early \subseteq Tables \X Keys

(* What the scenario's transaction changed, nothing if the scenario raised. *)
NetChanges(t) ==
  {[key |-> k, before |-> committed[t][k], after |-> wrote[t][k]] :
     k \in {j \in Keys : ~ raised /\ wrote[t][j] \notin {Unwritten, committed[t][j]}}}

(* A capture that is verified as rolled back reports what the scenario did and
   nothing else, though the recorder sees a table only from the first write it
   recognises: every change of a table it has copied, and of a large table only
   changes of the scenario.  What it missed or what the code under test
   committed meanwhile makes the rollback check fail.  Tables that another
   session committed to, or a thread that nobody joined when the scenario was
   over, are beyond it (ChangeRecorder, _capture.py:39). *)
ChangesAreTheScenarios ==
  step = "captured" /\ cleanup =>
    \A t \in Written \ disturbed :
      /\ changes[t] \subseteq NetChanges(t)
      /\ t \notin LargeTables => changes[t] = NetChanges(t)

(* A run verified as rolled back leaves a copied table as it found it, except
   for rows the code under test wrote before the copy was made: it committed
   them elsewhere, or wrote them in a way the recorder did not see, took that
   back and committed the same elsewhere.  Tables that another session, or a
   thread after the scenario, committed to are left out (restored,
   _capture.py:130). *)
LeftoversPrecedeSnapshot ==
  step = "captured" /\ cleanup =>
    \A t \in Written \ (disturbed \cup LargeTables), k \in Keys :
      committed[t][k] # start[t][k] => <<t, k>> \in early
=============================================================================
