------------------------- MODULE RollbackRunnerProofs -------------------------
(***************************************************************************)
(* What a verified rollback of a runner process says, for every database   *)
(* and every scenario.                                                     *)
(***************************************************************************)
EXTENDS RollbackRunner, TLAPS

(* What the recorder reports of t if the transaction has written w. *)
Seen(t, w) == [k \in Keys |-> IF w[t][k] = Unwritten THEN committed[t][k] ELSE w[t][k]]
Recorded(t, w) ==
  {[key |-> k, before |-> snapshots[t].rows[k], after |-> Seen(t, w)[k]] :
     k \in {j \in Keys : IF t \in LargeTables THEN j \notin snapshots[t].upTo /\ Seen(t, w)[j] # NoRow
                         ELSE Seen(t, w)[j] # snapshots[t].rows[j]}}

Judged == step \in {"check", "captured"}

\* A copy that keeps only the highest key is of rows up to that key.
SnapshotsInv == \A t \in Written : Present(snapshots[t].rows) \subseteq snapshots[t].upTo

\* What was not written early is, in the copy or else in the database, as it was.
EarlyInv ==
  \A t \in Tables \ disturbed, k \in Keys :
    <<t, k>> \notin early =>
      /\ snapshots[t] = NoSnapshot => committed[t][k] = start[t][k] /\ own[t][k] = Unwritten
      /\ snapshots[t] # NoSnapshot => snapshots[t].rows[k] = start[t][k]

\* Reported changes stay those of the transaction, also after its rollback.
CollectedInv ==
  /\ step = "scenario" => ~ raised
  /\ step = "collect" => /\ \A t \in Written \ (todo \cup disturbed) : changes[t] = Recorded(t, own)
                         /\ raised => own = Nothing
  /\ Judged => /\ \A t \in Written \ disturbed : changes[t] = Recorded(t, wrote)
               /\ raised => wrote = Nothing

\* A rollback that was seen to restore a table still does.
RestoredInv ==
  /\ Judged /\ cleanup => \A t \in Written \ (todo \cup disturbed) : Restored(t)
  /\ step = "captured" => todo = {}

Inv == TypeOK /\ SnapshotsInv /\ EarlyInv /\ CollectedInv /\ RestoredInv

USE RowsAssumption, InputsAssumption

------------------------------------------------------------------------------
(* Types *)

(* A statement sees a row or none under every key. *)
LEMMA ViewIsRows ==
  ASSUME TypeOK, NEW t \in Tables
  PROVE  View(t) \in Rows
  BY DEF TypeOK, View, Rows

(* A copy is a snapshot. *)
LEMMA SnapshotIsTyped ==
  ASSUME TypeOK, NEW t \in Tables
  PROVE  TakeSnapshot(t) \in Snapshot
  BY ViewIsRows DEF TakeSnapshot, Snapshot, UpTo

(* What is reported are changes of rows. *)
LEMMA CollectedIsTyped ==
  ASSUME TypeOK, NEW t \in Written
  PROVE  Collected(t) \subseteq Change
  <1>1. View(t) \in Rows
    BY ViewIsRows DEF Written
  <1>2. snapshots[t].rows \in Rows
    BY DEF TypeOK, Written, Snapshot
  <1> QED
    BY <1>1, <1>2 DEF Collected, Change, Rows

(* An empty transaction is one. *)
LEMMA NothingIsTyped == Nothing \in [Tables -> [Keys -> Row \cup {Unwritten}]]
  BY DEF Nothing

LEMMA TypeInit == Init => TypeOK
  <1> SUFFICES ASSUME Init PROVE TypeOK
    OBVIOUS
  <1>1. committed \in [Tables -> Rows] /\ start \in [Tables -> Rows]
    BY DEF Init
  <1>2. changes \in [Tables -> SUBSET Change] /\ snapshots \in [Tables -> Snapshot \cup {NoSnapshot}]
    BY DEF Init
  <1>3. own \in [Tables -> [Keys -> Row \cup {Unwritten}]] /\ wrote \in [Tables -> [Keys -> Row \cup {Unwritten}]]
    BY NothingIsTyped DEF Init
  <1>4. /\ checks \subseteq Check /\ todo \subseteq Written
        /\ disturbed \subseteq Tables /\ early \subseteq Tables \X Keys
        /\ statements \in 0 .. MaxStatements /\ commits \in 0 .. MaxCommits
    BY DEF Init
  <1>5. /\ capture \in BOOLEAN /\ raised \in BOOLEAN /\ cleanup \in BOOLEAN
        /\ step = "scenario" /\ statement = NoStatement
    BY DEF Init
  <1> QED
    BY <1>1, <1>2, <1>3, <1>4, <1>5 DEF TypeOK

LEMMA TypeNext == TypeOK /\ [Next]_vars => TypeOK'
  <1> SUFFICES ASSUME TypeOK, [Next]_vars PROVE TypeOK'
    OBVIOUS
  <1> USE NothingIsTyped
  <1>1. ASSUME NEW s \in Statement, NEW recognised \in BOOLEAN, Issue(s, recognised) PROVE TypeOK'
    <2>1. TakeSnapshot(s.table) \in Snapshot
      BY SnapshotIsTyped DEF Statement
    <2>2. snapshots' \in [Tables -> Snapshot \cup {NoSnapshot}] /\ Written \subseteq Written'
      BY <1>1, <2>1 DEF Issue, TypeOK, Written
    <2> QED
      BY <1>1, <2>2 DEF Issue, TypeOK, Ending, History
  <1>2. ASSUME Execute PROVE TypeOK'
    <2>1. statement.table \in Tables /\ statement.key \in Keys /\ statement.row \in Row
      BY <1>2 DEF Execute, TypeOK, Statement
    <2>2. early' \subseteq Tables \X Keys
      BY <1>2, <2>1 DEF Execute, TypeOK, Early
    <2>3. own' \in [Tables -> [Keys -> Row \cup {Unwritten}]]
      BY <1>2, <2>1 DEF Execute, TypeOK
    <2> QED
      BY <1>2, <2>2, <2>3 DEF Execute, TypeOK, Recorder, Ending, Written
  <1>3. ASSUME UndoBlock PROVE TypeOK'
    BY <1>3 DEF UndoBlock, TypeOK, Recorder, Ending, History, Written
  <1>4. ASSUME NEW t \in Tables, NEW k \in Keys, NEW row \in Row, Commit(t, k, row),
               disturbed' \subseteq Tables, early' \subseteq Tables \X Keys
        PROVE  TypeOK'
    <2>1. committed' \in [Tables -> Rows] /\ commits' \in 0 .. MaxCommits
      BY <1>4 DEF Commit, TypeOK, Rows
    <2> QED
      BY <1>4, <2>1 DEF Commit, TypeOK, Recorder, Ending, Written
  <1>5. ASSUME NEW t \in Tables, NEW k \in Keys, NEW row \in Row, CommitOther(t, k, row)
        PROVE  TypeOK'
    BY <1>4, <1>5 DEF CommitOther, TypeOK
  <1>6. ASSUME NEW t \in Tables, NEW k \in Keys, NEW row \in Row, CommitOwn(t, k, row)
        PROVE  TypeOK'
    <2>1. early' \subseteq Tables \X Keys /\ disturbed' \subseteq Tables
      BY <1>6 DEF CommitOwn, Early, TypeOK
    <2>2. Commit(t, k, row)
      BY <1>6 DEF CommitOwn
    <2> QED
      BY <1>4, <2>1, <2>2
  <1>7. ASSUME Return PROVE TypeOK'
    BY <1>7 DEF Return, TypeOK, Recorder, History, Written
  <1>8. ASSUME Raise PROVE TypeOK'
    BY <1>8 DEF Raise, TypeOK, Recorder, History, Written
  <1>9. ASSUME NEW t \in Tables, Collect(t) PROVE TypeOK'
    <2>1. Collected(t) \subseteq Change
      BY <1>9, CollectedIsTyped DEF Collect, TypeOK
    <2> QED
      BY <1>9, <2>1 DEF Collect, TypeOK, History, Written
  <1>10. ASSUME RollBack PROVE TypeOK'
    BY <1>10 DEF RollBack, TypeOK, Recorder, Written
  <1>11. ASSUME NEW c \in checks, CheckScript(c) PROVE TypeOK'
    BY <1>11 DEF CheckScript, TypeOK, Recorder, History, Written
  <1>12. ASSUME NEW t \in Tables, CheckTable(t) PROVE TypeOK'
    BY <1>12 DEF CheckTable, TypeOK, Recorder, History, Written
  <1>13. ASSUME WriteResult PROVE TypeOK'
    BY <1>13 DEF WriteResult, TypeOK, Recorder, Ending, History, Written
  <1>14. ASSUME Fail PROVE TypeOK'
    BY <1>14 DEF Fail, TypeOK, Recorder, History, Written
  <1>15. ASSUME UNCHANGED vars PROVE TypeOK'
    BY <1>15 DEF vars, TypeOK, Written
  <1> QED
    BY <1>1, <1>2, <1>3, <1>5, <1>6, <1>7, <1>8, <1>9, <1>10, <1>11, <1>12, <1>13, <1>14, <1>15 DEF Next

(* Type correctness: the runner only looks at tables that were copied, and
   holds nothing of the scenario once it has rolled back (_RUNNER_SOURCE). *)
THEOREM TypeCorrect == Spec => []TypeOK
  BY TypeInit, TypeNext, PTL DEF Spec

------------------------------------------------------------------------------
(* What the reports rest on *)

(* A copy is made from one view and never changed. *)
LEMMA SnapshotsNext == TypeOK /\ SnapshotsInv /\ [Next]_vars => SnapshotsInv'
  <1> SUFFICES ASSUME TypeOK, SnapshotsInv, [Next]_vars PROVE SnapshotsInv'
    OBVIOUS
  <1>1. ASSUME NEW s \in Statement, NEW recognised \in BOOLEAN, Issue(s, recognised)
        PROVE  SnapshotsInv'
    <2>1. s.table \in Tables
      BY DEF Statement
    <2>2. Present(TakeSnapshot(s.table).rows) \subseteq TakeSnapshot(s.table).upTo
      <3>1. \A k \in Keys : k <= k
        BY KeysAssumption
      <3> QED
        BY <3>1 DEF TakeSnapshot, UpTo, Present
    <2>3. \A t \in Tables : snapshots'[t] \in {snapshots[t], TakeSnapshot(s.table)}
      BY <1>1, <2>1 DEF Issue, TypeOK
    <2>4. ASSUME NEW t \in Tables, snapshots'[t] # NoSnapshot
          PROVE  Present(snapshots'[t].rows) \subseteq snapshots'[t].upTo
      <3>1. CASE snapshots'[t] = snapshots[t]
        BY <2>4, <3>1 DEF SnapshotsInv, Written
      <3>2. CASE snapshots'[t] = TakeSnapshot(s.table)
        BY <2>2, <3>2
      <3> QED
        BY <2>3, <3>1, <3>2
    <2> QED
      BY <2>4 DEF SnapshotsInv, Written, Present
  <1>2. CASE UNCHANGED snapshots
    BY <1>2 DEF SnapshotsInv, Written, Present
  <1> QED
    BY <1>1, <1>2 DEF Next, vars, Recorder, Execute, UndoBlock, CommitOther, CommitOwn, Commit, Return, Raise,
       Collect, RollBack, CheckScript, CheckTable, WriteResult, Fail

(* Only an early write lets the copy, or the database before it, differ from the start. *)
LEMMA EarlyNext == TypeOK /\ EarlyInv /\ [Next]_vars => EarlyInv'
  <1> SUFFICES ASSUME TypeOK, EarlyInv, [Next]_vars,
                      NEW t \in Tables, t \notin disturbed', NEW k \in Keys, <<t, k>> \notin early'
               PROVE  /\ snapshots'[t] = NoSnapshot => committed'[t][k] = start'[t][k] /\ own'[t][k] = Unwritten
                      /\ snapshots'[t] # NoSnapshot => snapshots'[t].rows[k] = start'[t][k]
    BY DEF EarlyInv
  <1> DEFINE Before == /\ snapshots[t] = NoSnapshot => committed[t][k] = start[t][k] /\ own[t][k] = Unwritten
                       /\ snapshots[t] # NoSnapshot => snapshots[t].rows[k] = start[t][k]
  <1>0. t \notin disturbed /\ <<t, k>> \notin early => Before
    BY DEF EarlyInv
  <1>1. ASSUME NEW s \in Statement, NEW recognised \in BOOLEAN, Issue(s, recognised) PROVE Before'
    <2>1. Before
      BY <1>0, <1>1 DEF Issue, History
    <2>2. CASE snapshots'[t] = snapshots[t]
      BY <1>1, <2>1, <2>2 DEF Issue, History
    <2>3. CASE snapshots'[t] # snapshots[t]
      <3>1. snapshots[t] = NoSnapshot /\ snapshots'[t] = TakeSnapshot(t)
        BY <1>1, <2>3 DEF Issue, TypeOK, Statement
      <3>2. TakeSnapshot(t).rows[k] = start[t][k]
        BY <2>1, <3>1 DEF TakeSnapshot, View
      <3>3. TakeSnapshot(t) # NoSnapshot
        BY SnapshotIsTyped
      <3> QED
        BY <1>1, <3>1, <3>2, <3>3 DEF Issue, History
    <2> QED
      BY <2>2, <2>3
  <1>2. ASSUME Execute PROVE Before'
    <2>1. statement \in Statement
      BY <1>2 DEF Execute, TypeOK
    <2>2. Before
      BY <1>0, <1>2 DEF Execute, Early
    <2>3. snapshots[t] = NoSnapshot => <<t, k>> # <<statement.table, statement.key>>
      BY <1>2, <2>1 DEF Execute, Early
    <2>4. snapshots[t] = NoSnapshot => own'[t][k] = own[t][k]
      BY <1>2, <2>1, <2>3 DEF Execute, TypeOK, Statement
    <2> QED
      BY <1>2, <2>2, <2>4 DEF Execute, Recorder
  <1>3. ASSUME NEW u \in Tables, NEW j \in Keys, NEW row \in Row, CommitOther(u, j, row) \/ CommitOwn(u, j, row)
        PROVE  Before'
    <2>1. Before
      BY <1>0, <1>3 DEF CommitOther, CommitOwn, Early
    <2>2. snapshots[t] = NoSnapshot => <<t, k>> # <<u, j>>
      BY <1>3 DEF CommitOther, CommitOwn, Early
    <2>3. snapshots[t] = NoSnapshot => committed'[t][k] = committed[t][k]
      BY <1>3, <2>2 DEF CommitOther, CommitOwn, Commit, TypeOK, Rows
    <2> QED
      BY <1>3, <2>1, <2>3 DEF CommitOther, CommitOwn, Commit, Recorder
  <1>4. CASE /\ UNCHANGED <<snapshots, committed, start, early, disturbed>>
             /\ own' = own \/ own' = Nothing
    BY <1>0, <1>4 DEF Nothing
  <1> QED
    BY <1>1, <1>2, <1>3, <1>4 DEF Next, vars, Recorder, History, UndoBlock, Return, Raise,
       Collect, RollBack, CheckScript, CheckTable, WriteResult, Fail
(* After a table is collected neither the transaction nor, without other sessions, the
   database changes under the report. *)
LEMMA CollectedNext ==
  TypeOK /\ CollectedInv /\ [Next]_vars => CollectedInv'
  <1> SUFFICES ASSUME TypeOK, CollectedInv, [Next]_vars PROVE CollectedInv'
    OBVIOUS
  <1>1. ASSUME NEW s \in Statement, NEW recognised \in BOOLEAN, Issue(s, recognised) PROVE CollectedInv'
    BY <1>1 DEF Issue, Ending, CollectedInv, Judged
  <1>2. CASE Execute \/ UndoBlock
    BY <1>2 DEF Execute, UndoBlock, Ending, CollectedInv, Judged
  <1>3. ASSUME NEW t \in Tables, NEW k \in Keys, NEW row \in Row, CommitOther(t, k, row)
        PROVE  CollectedInv'
    <2>1. \A u \in Written \ disturbed' : u \in Tables /\ u \notin disturbed /\ committed'[u] = committed[u]
      BY <1>3 DEF CommitOther, Commit, TypeOK, Written
    <2>2. \A u \in Written \ disturbed' : Recorded(u, own)' = Recorded(u, own) /\ Recorded(u, wrote)' = Recorded(u, wrote)
      <3>1. UNCHANGED <<own, wrote, snapshots>>
        BY <1>3 DEF CommitOther, Commit, Recorder
      <3> QED
        <4>1. \A u \in Written \ disturbed' : Seen(u, own)' = Seen(u, own) /\ Seen(u, wrote)' = Seen(u, wrote)
          BY <2>1, <3>1 DEF Seen
        <4> QED
          BY <3>1, <4>1 DEF Recorded
    <2>3. UNCHANGED <<step, own, wrote, snapshots, changes, raised, todo>> /\ disturbed \subseteq disturbed'
      BY <1>3 DEF CommitOther, Commit, Recorder, Ending
    <2>4. Written' = Written
      BY <2>3 DEF Written
    <2> QED
      BY <2>1, <2>2, <2>3, <2>4 DEF CollectedInv, Judged
  <1>4. ASSUME NEW t \in Tables, NEW k \in Keys, NEW row \in Row, CommitOwn(t, k, row)
        PROVE  CollectedInv'
    BY <1>4 DEF CommitOwn, Commit, Ending, CollectedInv, Judged
  <1>5. CASE Return \/ Raise
    BY <1>5 DEF Return, Raise, CollectedInv, Judged, Written, Recorder, TypeOK
  <1>6. ASSUME NEW t \in Tables, Collect(t) PROVE CollectedInv'
    <2>1. changes'[t] = Recorded(t, own)
      BY <1>6 DEF Collect, Collected, Recorded, View, Seen, TypeOK
    <2>2. \A u \in Written : Recorded(u, own)' = Recorded(u, own)
      BY <1>6 DEF Collect, Recorded, Seen
    <2>3. \A u \in Written : u # t => changes'[u] = changes[u]
      BY <1>6 DEF Collect, TypeOK, Written
    <2> QED
      BY <1>6, <2>1, <2>2, <2>3 DEF Collect, CollectedInv, Judged, Written, History
  <1>7. CASE RollBack
    <2>1. \A u \in Written : Recorded(u, wrote)' = Recorded(u, own)
      BY <1>7 DEF RollBack, Recorder, Recorded, Seen
    <2> QED
      BY <1>7, <2>1 DEF RollBack, Recorder, CollectedInv, Judged, Written
  <1>8. CASE (\E c \in checks : CheckScript(c)) \/ (\E t \in Tables : CheckTable(t)) \/ WriteResult
    <2>1. \A u \in Written : Recorded(u, wrote)' = Recorded(u, wrote)
      <3>1. UNCHANGED <<committed, snapshots, wrote>>
        BY <1>8 DEF CheckScript, CheckTable, WriteResult, Recorder, History
      <3> QED
        BY <3>1 DEF Recorded, Seen
    <2> QED
      BY <1>8, <2>1 DEF CheckScript, CheckTable, WriteResult, Recorder, Ending, History, CollectedInv, Judged, Written
  <1>9. CASE Fail
    BY <1>9 DEF Fail, CollectedInv, Judged
  <1>10. CASE UNCHANGED vars
    BY <1>10 DEF vars, CollectedInv, Judged, Written, Recorded, Seen
  <1> QED
    BY <1>1, <1>2, <1>3, <1>4, <1>5, <1>6, <1>7, <1>8, <1>9, <1>10 DEF Next

(* After the rollback only other sessions write to a table. *)
LEMMA RestoredNext ==
  TypeOK /\ RestoredInv /\ [Next]_vars => RestoredInv'
  <1> SUFFICES ASSUME TypeOK, RestoredInv, [Next]_vars PROVE RestoredInv'
    OBVIOUS
  <1>1. ASSUME NEW t \in Tables, NEW k \in Keys, NEW row \in Row, CommitOther(t, k, row)
        PROVE  RestoredInv'
    <2>1. \A u \in Written \ disturbed' : u \notin disturbed /\ Restored(u)' = Restored(u)
      BY <1>1 DEF CommitOther, Commit, Recorder, TypeOK, Written, Restored, Present
    <2> QED
      BY <1>1, <2>1 DEF CommitOther, Commit, Recorder, Ending, RestoredInv, Judged, Written
  <1>2. CASE RollBack
    BY <1>2 DEF RollBack, Recorder, RestoredInv, Judged, Written
  <1>3. ASSUME NEW c \in checks, CheckScript(c) PROVE RestoredInv'
    <2>1. todo' = todo /\ (cleanup' => cleanup) /\ \A u \in Written : Restored(u)' = Restored(u)
      BY <1>3 DEF CheckScript, Recorder, TypeOK, Restored, Present
    <2> QED
      BY <1>3, <2>1 DEF CheckScript, Recorder, History, RestoredInv, Judged, Written
  <1>4. ASSUME NEW t \in Tables, CheckTable(t) PROVE RestoredInv'
    <2>1. \A u \in Written : Restored(u)' = Restored(u)
      BY <1>4 DEF CheckTable, Recorder, Restored, Present
    <2>2. cleanup' => cleanup /\ Restored(t)
      BY <1>4 DEF CheckTable, TypeOK
    <2> QED
      BY <1>4, <2>1, <2>2 DEF CheckTable, Recorder, History, RestoredInv, Judged, Written
  <1>5. CASE WriteResult
    <2>1. \A u \in Written : Restored(u)' = Restored(u)
      BY <1>5 DEF WriteResult, Recorder, Restored, Present
    <2> QED
      BY <1>5, <2>1 DEF WriteResult, Recorder, Ending, History, RestoredInv, Judged, Written
  <1>6. CASE UNCHANGED vars
    BY <1>6 DEF vars, RestoredInv, Judged, Written, Restored, Present
  <1>7. CASE step' \notin {"check", "captured"}
    BY <1>7 DEF RestoredInv, Judged
  <1> QED
    BY <1>1, <1>2, <1>3, <1>4, <1>5, <1>6, <1>7 DEF Next, Issue, Execute, UndoBlock, CommitOwn,
       Commit, Return, Raise, Collect, Fail

(* The initial states satisfy the inductive invariant. *)
LEMMA InvInit == Init => Inv
  <1> SUFFICES ASSUME Init PROVE Inv
    OBVIOUS
  <1>1. EarlyInv
    BY DEF Init, EarlyInv, Nothing
  <1> QED
    BY <1>1, TypeInit DEF Init, Inv, SnapshotsInv, CollectedInv, RestoredInv, Judged, Written

(* The inductive invariant: what is reported of a table that no other session
   touches stays what the transaction did to it, and a restored table stays
   restored (_capture.py:87-144). *)
THEOREM Invariant == Spec => []Inv
  <1>1. Inv /\ [Next]_vars => Inv'
    BY TypeNext, SnapshotsNext, EarlyNext, CollectedNext, RestoredNext DEF Inv
  <1> QED
    BY <1>1, InvInit, PTL DEF Spec

------------------------------------------------------------------------------
(* What a verified capture says *)

(* A restored table shows what was reported of it; of a large table only rows above its
   highest key were reported, and none of these is left. *)
LEMMA InvGivesChanges == Inv => ChangesAreTheScenarios
  <1> SUFFICES ASSUME Inv, step = "captured", cleanup, NEW t \in Written \ disturbed
               PROVE  /\ changes[t] \subseteq NetChanges(t)
                      /\ t \notin LargeTables => changes[t] = NetChanges(t)
    BY DEF ChangesAreTheScenarios
  <1>1. Restored(t) /\ changes[t] = Recorded(t, wrote) /\ (raised => wrote = Nothing)
    BY DEF Inv, RestoredInv, CollectedInv, Judged
  <1>2. t \in Tables /\ Present(snapshots[t].rows) \subseteq snapshots[t].upTo
    BY DEF Inv, SnapshotsInv, Written
  <1>3. \A k \in Keys : wrote[t][k] = Unwritten => Seen(t, wrote)[k] = committed[t][k]
    BY DEF Seen
  <1>4. \A k \in Keys : wrote[t][k] # Unwritten => Seen(t, wrote)[k] = wrote[t][k] /\ ~ raised
    BY <1>1, <1>2 DEF Seen, Nothing
  <1>5. CASE t \in LargeTables
    <2>1. \A k \in Keys \ snapshots[t].upTo : committed[t][k] = NoRow /\ snapshots[t].rows[k] = NoRow
      BY <1>1, <1>2, <1>5 DEF Restored, Present
    <2> QED
      BY <1>1, <1>3, <1>4, <1>5, <2>1 DEF Recorded, NetChanges
  <1>6. CASE t \notin LargeTables
    <2>1. committed[t] = snapshots[t].rows
      BY <1>1, <1>6 DEF Restored
    <2>2. \A k \in Keys : Seen(t, wrote)[k] # committed[t][k] <=> ~ raised /\ wrote[t][k] \notin {Unwritten, committed[t][k]}
      BY <1>3, <1>4
    <2> QED
      BY <1>1, <1>4, <1>3, <1>6, <2>1, <2>2 DEF Recorded, NetChanges
  <1> QED
    BY <1>5, <1>6

(* A capture verified as rolled back reports the changes of the scenario and no
   others (_capture.py:39), for every database and every scenario. *)
THEOREM ReportedChanges == Spec => []ChangesAreTheScenarios
  BY Invariant, InvGivesChanges, PTL

(* A restored table is its copy, and the copy is the start but for early writes. *)
LEMMA InvGivesLeftovers == Inv => LeftoversPrecedeSnapshot
  <1> SUFFICES ASSUME Inv, step = "captured", cleanup,
                      NEW t \in Written \ (disturbed \cup LargeTables), NEW k \in Keys, <<t, k>> \notin early
               PROVE  committed[t][k] = start[t][k]
    BY DEF LeftoversPrecedeSnapshot
  <1>1. committed[t] = snapshots[t].rows
    BY DEF Inv, RestoredInv, Judged, Restored
  <1> QED
    BY <1>1 DEF Inv, EarlyInv, Written

(* A run verified as rolled back leaves every row of a copied table as it found
   it that the code under test did not write before the copy (_capture.py:130). *)
THEOREM Leftovers == Spec => []LeftoversPrecedeSnapshot
  BY Invariant, InvGivesLeftovers, PTL
=============================================================================
