------------------------- MODULE FeatureWritersProofs ------------------------
(***************************************************************************)
(* What the Spark job and the bastion script leave behind, for any users,  *)
(* times, batch size and number of runs, and however rows arrive in silver,*)
(* the jobs die and the clean-up deletes their files.                      *)
(***************************************************************************)
EXTENDS FeatureWriters, WellFoundedInduction, TLAPS

USE WritersAssumption

-----------------------------------------------------------------------------
(* Types *)

\* The time the bastion script takes for its snapshot is one of the times.
LEMMA SnapshotOfBastion ==
  ASSUME NEW S \in SUBSET Times, S # {}
  PROVE  (CHOOSE t \in S : \A s \in S : s <= t) \in S
<1> DEFINE Left == {MaxTime - t : t \in S}
<1>1. Left \subseteq Nat /\ Left # {}
  <2>1. \A t \in S : MaxTime - t \in Nat
    BY DEF Times
  <2>2. QED
    BY <2>1
<1>2. PICK x \in Left : \A y \in Left : ~ (<<y, x>> \in OpToRel(<, Nat))
  <2> HIDE DEF Left
  <2>1. QED
    BY <1>1, NatLessThanWellFounded, WFMin
<1>3. PICK m \in S : x = MaxTime - m
  OBVIOUS
<1>4. \A t \in S : t <= m
  <2> SUFFICES ASSUME NEW t \in S PROVE t <= m
    OBVIOUS
  <2>1. MaxTime - t \in Left
    OBVIOUS
  <2>2. ~ (MaxTime - t < MaxTime - m)
    BY <1>1, <1>2, <1>3, <2>1 DEF OpToRel
  <2>3. QED
    BY <2>2 DEF Times
<1>5. \E n \in S : \A t \in S : t <= n
  BY <1>4
<1>6. QED
  BY <1>5

\* The rows either job computes are rows.
LEMMA ComputedRows ==
  ASSUME TypeOK
  PROVE  SparkRows \subseteq Rows /\ BastionRows \subseteq Rows
BY DEF TypeOK, SparkRows, SparkTransactions, BastionRows, Rows

\* Nothing of a run is inserted before its rows are known.
NothingYet == bastion \in {"idle", "compute"} => inserted = {}

Typed == TypeOK /\ NothingYet

\* A step of the model keeps the variables in their types, and the Delta table with
\* one row per user and snapshot.
LEMMA TypesStep == Typed /\ [Next]_vars => Typed'
<1> SUFFICES ASSUME Typed, [Next]_vars PROVE Typed'
  OBVIOUS
<1> USE DEF Typed, NothingYet, TypeOK
<1> USE ComputedRows
<1> USE DEF silverVars, tableVars, deltaVars, trailVars, sparkVars, bastionVars
<1>1. ASSUME NEW u \in Users, TransactionArrives(u) PROVE Typed'
  BY <1>1 DEF TransactionArrives, Changed
<1>2. ASSUME NEW u \in Users, DebtsChange(u) PROVE Typed'
  BY <1>2 DEF DebtsChange, Changed
<1>3. CASE BeginSpark
  BY <1>3 DEF BeginSpark
<1>4. CASE QualityGate
  <2>1. spark' \in {"idle", "delta"} /\ sparkTs' \in Times
    BY <1>4 DEF QualityGate, Times
  <2>2. QED
    BY <1>4, <2>1 DEF QualityGate
<1>5. CASE WriteToDelta
  <2>1. \A r, s \in SparkRows : SameKey(r, s) => r = s
    BY DEF SparkRows, SameKey
  <2>2. \A r, s \in delta' : r.user = s.user /\ r.snapshot = s.snapshot => r = s
    BY <1>5, <2>1 DEF WriteToDelta, SameKey
  <2>3. delta' \subseteq Rows
    BY <1>5 DEF WriteToDelta
  <2>4. QED
    BY <1>5, <2>2, <2>3 DEF WriteToDelta
<1>6. CASE WriteToClickHouse
  BY <1>6 DEF WriteToClickHouse
<1>7. CASE SparkDies
  BY <1>7 DEF SparkDies, Times
<1>8. CASE BeginBastion
  <2>1. SecondsReached \in SUBSET Times
    BY DEF SecondsReached
  <2>2. 0 \in SecondsReached
    BY DEF SecondsReached, Times
  <2>3. bastionTs' \in SecondsReached
    BY <1>8, <2>1, <2>2, SnapshotOfBastion DEF BeginBastion
  <2>4. QED
    BY <1>8, <2>1, <2>3 DEF BeginBastion
<1>9. CASE Compute
  BY <1>9 DEF Compute, Times
<1>10. CASE InsertBatch
  BY <1>10 DEF InsertBatch, BatchOf
<1>11. CASE Upload
  BY <1>11 DEF Upload
<1>12. CASE PutMarker
  <2>1. log' = "none" <=> logAges' = {}
    BY <1>12 DEF PutMarker
  <2>2. log' \in {"none", "commits", "broken"} /\ logAges' \subseteq {"young", "old"}
    BY <1>12 DEF PutMarker
  <2>3. 0 \in Times
    BY DEF Times
  <2>4. QED
    BY <1>12, <2>1, <2>2, <2>3 DEF PutMarker
<1>13. CASE BastionDies
  BY <1>13 DEF BastionDies, Times
<1>14. CASE CleanupOldAuditFiles
  <2>1. PICK gone \in SUBSET oldDelta : delta' = delta \ gone /\ oldDelta' = oldDelta \ gone
    BY <1>14 DEF CleanupOldAuditFiles
  <2>2. log' \in {"none", "commits", "broken"} /\ logAges' \subseteq logAges
    BY <1>14 DEF CleanupOldAuditFiles
  <2>3. log' = "none" <=> logAges' = {}
    BY <1>14 DEF CleanupOldAuditFiles
  <2>4. QED
    BY <1>14, <2>1, <2>2, <2>3 DEF CleanupOldAuditFiles
<1>15. CASE WeekPasses
  BY <1>15 DEF WeekPasses, Times
<1>16. CASE UNCHANGED vars
  BY <1>16 DEF vars
<1>17. QED
  BY <1>1, <1>2, <1>3, <1>4, <1>5, <1>6, <1>7, <1>8, <1>9, <1>10, <1>11, <1>12,
     <1>13, <1>14, <1>15, <1>16 DEF Next, SparkNext, BastionNext

\* The tables and the trails of both jobs keep their types; the Delta table never
\* holds two rows of a user and a snapshot, merged or overwritten.
THEOREM TypesKept == Spec => []TypeOK
<1>1. Init => Typed
  BY DEF Init, Typed, NothingYet, TypeOK, Times
<1>2. Typed => TypeOK
  BY DEF Typed
<1>3. QED
  BY <1>1, <1>2, TypesStep, PTL DEF Spec

-----------------------------------------------------------------------------
(* The snapshot of the Spark job *)

\* What arrives between two queries of a Spark run may change the rows it writes,
\* but never so that one counts a transaction later than its snapshot_ts.
THEOREM SparkRowsPointInTime == Spec => []SparkPointInTime
<1>1. Init => SparkPointInTime
  BY DEF Init, SparkPointInTime
<1>2. SparkPointInTime /\ [Next]_vars => SparkPointInTime'
  <2> SUFFICES ASSUME SparkPointInTime, [Next]_vars PROVE SparkPointInTime'
    OBVIOUS
  <2>1. \A r \in SparkRows : \A t \in r.tx : t <= r.snapshot
    BY DEF SparkRows, SparkTransactions
  <2>2. bySpark' \subseteq bySpark \cup SparkRows
    <3>1. CASE WriteToClickHouse \/ SparkDies
      BY <3>1 DEF WriteToClickHouse, SparkDies
    <3>2. CASE BeginSpark \/ QualityGate \/ WriteToDelta
      BY <3>2 DEF BeginSpark, QualityGate, WriteToDelta, tableVars
    <3>3. CASE BastionNext
      BY <3>3 DEF BastionNext, BeginBastion, Compute, InsertBatch, Upload, PutMarker,
                  BastionDies, tableVars
    <3>4. CASE \E u \in Users : TransactionArrives(u) \/ DebtsChange(u)
      BY <3>4 DEF TransactionArrives, DebtsChange, tableVars
    <3>5. CASE WeekPasses \/ CleanupOldAuditFiles \/ UNCHANGED vars
      BY <3>5 DEF WeekPasses, CleanupOldAuditFiles, vars, tableVars
    <3>6. QED
      BY <3>1, <3>2, <3>3, <3>4, <3>5 DEF Next, SparkNext
  <2>3. QED
    BY <2>1, <2>2 DEF SparkPointInTime
<1>3. QED
  BY <1>1, <1>2, PTL DEF Spec

-----------------------------------------------------------------------------
(* The CSV trail *)

\* What the bastion script keeps between its steps: the rows it goes on to upload
\* are those that passed the gate, and those it counts as inserted are inserted.
RunTrue ==
  /\ inserted \subseteq byBastion
  /\ bastion \in {"insert", "upload"} =>
       /\ rows # {}
       /\ \A r \in rows : r.snapshot = bastionTs /\ r.debts \notin Rejected
  /\ bastion = "upload" => inserted = rows

\* The steps of the script itself keep the trail and the run true.
LEMMA BastionStep ==
  ASSUME CsvTrailTrue, RunTrue, BastionNext
  PROVE  CsvTrailTrue' /\ RunTrue'
<1> USE DEF CsvTrailTrue, RunTrue, tableVars, trailVars
<1>1. CASE BeginBastion
  BY <1>1 DEF BeginBastion
<1>2. CASE Compute
  <2>1. CASE BastionRows # {} /\ Passes(BastionRows)
    <3>1. \A r \in BastionRows : r.snapshot = bastionTs
      BY DEF BastionRows
    <3>2. QED
      BY <1>2, <2>1, <3>1 DEF Compute, Passes
  <2>2. CASE ~ (BastionRows # {} /\ Passes(BastionRows))
    BY <1>2, <2>2 DEF Compute
  <2>3. QED
    BY <2>1, <2>2
<1>3. CASE InsertBatch
  BY <1>3 DEF InsertBatch
<1>4. CASE Upload
  BY <1>4 DEF Upload
<1>5. CASE PutMarker
  BY <1>5 DEF PutMarker
<1>6. CASE BastionDies
  BY <1>6 DEF BastionDies
<1>7. QED
  BY <1>1, <1>2, <1>3, <1>4, <1>5, <1>6 DEF BastionNext

\* Whenever the script dies, and whatever the clean-up deletes, a CSV object lists
\* the rows of one run that passed its gate and had inserted them all.
THEOREM CsvTrailKept == Spec => []CsvTrailTrue
<1>1. Init => CsvTrailTrue /\ RunTrue
  BY DEF Init, CsvTrailTrue, RunTrue
<1>2. CsvTrailTrue /\ RunTrue /\ [Next]_vars => CsvTrailTrue' /\ RunTrue'
  <2> SUFFICES ASSUME CsvTrailTrue, RunTrue, [Next]_vars
               PROVE  CsvTrailTrue' /\ RunTrue'
    OBVIOUS
  <2>1. ASSUME UNCHANGED <<byBastion, bastionVars>>, csv' \subseteq csv
        PROVE  CsvTrailTrue' /\ RunTrue'
    BY <2>1 DEF CsvTrailTrue, RunTrue, bastionVars
  <2>2. CASE BastionNext
    BY <2>2, BastionStep
  <2>3. CASE SparkNext
    <3>1. UNCHANGED <<byBastion, bastionVars>> /\ csv' \subseteq csv
      BY <2>3 DEF SparkNext, BeginSpark, QualityGate, WriteToDelta, WriteToClickHouse,
                  SparkDies, tableVars, trailVars
    <3>2. QED
      BY <2>1, <3>1
  <2>4. CASE \E u \in Users : TransactionArrives(u) \/ DebtsChange(u)
    BY <2>1, <2>4 DEF TransactionArrives, DebtsChange, tableVars, trailVars
  <2>5. CASE WeekPasses \/ CleanupOldAuditFiles
    BY <2>1, <2>5 DEF WeekPasses, CleanupOldAuditFiles, tableVars
  <2>6. CASE UNCHANGED vars
    BY <2>1, <2>6 DEF vars, tableVars, trailVars
  <2>7. QED
    BY <2>2, <2>3, <2>4, <2>5, <2>6 DEF Next
<1>3. QED
  BY <1>1, <1>2, PTL DEF Spec

-----------------------------------------------------------------------------
(* The two tables of a Spark run *)

\* From the first write until the week is over, what stood still since is in Delta,
\* in files, and under a log, that are too young for the clean-up.
HalfWritten ==
  spark \in {"clickhouse", "done"} =>
    /\ "young" \in logAges
    /\ \A r \in SparkRows : r.user \notin since => r \in delta \ oldDelta

Agree == Typed /\ HalfWritten /\ DualWriteAgrees

\* When a row of silver changes, the rows computed for the other users stay the same.
LEMMA OthersStay ==
  ASSUME TypeOK, UNCHANGED sparkTs, NEW u \in Users,
         \/ tx' = tx /\ \E d \in Debts : debts' = [debts EXCEPT ![u] = d]
         \/ debts' = debts /\ \E s \in SUBSET Times : tx' = [tx EXCEPT ![u] = s]
  PROVE  \A r \in SparkRows' : r.user # u => r \in SparkRows
<1>1. \A v \in Users \ {u} : tx'[v] = tx[v] /\ debts'[v] = debts[v]
  BY DEF TypeOK
<1>2. QED
  BY <1>1 DEF SparkRows, SparkTransactions

\* A change in silver takes nothing from what is said of the other users.
LEMMA ChangedStep ==
  ASSUME Agree, NEW u \in Users, TransactionArrives(u) \/ DebtsChange(u)
  PROVE  HalfWritten' /\ DualWriteAgrees'
<1>1. \A r \in SparkRows' : r.user # u => r \in SparkRows
  <2>1. CASE TransactionArrives(u)
    <3>1. \E s \in SUBSET Times : tx' = [tx EXCEPT ![u] = s]
      BY <2>1 DEF TransactionArrives, Agree, Typed, TypeOK
    <3>2. QED
      BY <2>1, <3>1, OthersStay DEF TransactionArrives, Agree, Typed
  <2>2. CASE DebtsChange(u)
    BY <2>2, OthersStay DEF DebtsChange, Agree, Typed
  <2>3. QED
    BY <2>1, <2>2
<1>2. UNCHANGED <<spark, delta, oldDelta, logAges, bySpark>> /\ Changed(u)
  BY DEF TransactionArrives, DebtsChange, tableVars, deltaVars, trailVars
<1>3. QED
  BY <1>1, <1>2 DEF Agree, HalfWritten, DualWriteAgrees, Changed

\* Neither does the clean-up: it is after older files.
LEMMA CleanupStep ==
  ASSUME Agree, CleanupOldAuditFiles
  PROVE  HalfWritten' /\ DualWriteAgrees'
<1>1. SparkRows' = SparkRows /\ UNCHANGED <<spark, since, bySpark>>
  BY DEF CleanupOldAuditFiles, SparkRows, SparkTransactions, silverVars, sparkVars, tableVars
<1>2. "young" \in logAges => "young" \in logAges'
  BY DEF CleanupOldAuditFiles
<1>3. \A r \in delta \ oldDelta : r \in delta' \ oldDelta'
  BY DEF CleanupOldAuditFiles
<1>4. QED
  BY <1>1, <1>2, <1>3 DEF Agree, HalfWritten, DualWriteAgrees

\* For a week, a finished Spark run has the same rows in Delta and in ClickHouse for
\* every user whose data stood still since its first write, whatever the marker of the
\* bastion script and the clean-up do to the files of the table meanwhile.
THEOREM DualWriteKept == Spec => []DualWriteAgrees
<1>1. Init => Agree
  BY DEF Init, Agree, Typed, NothingYet, TypeOK, HalfWritten, DualWriteAgrees, Times
<1>2. Agree /\ [Next]_vars => Agree'
  <2> SUFFICES ASSUME Agree, [Next]_vars PROVE HalfWritten' /\ DualWriteAgrees'
    BY TypesStep DEF Agree
  <2> USE DEF Agree, HalfWritten, DualWriteAgrees
  <2> DEFINE Same == UNCHANGED <<tx, debts, sparkTs>>
  <2>1. Same => SparkRows' = SparkRows
    BY DEF SparkRows, SparkTransactions
  <2>2. CASE \E u \in Users : TransactionArrives(u) \/ DebtsChange(u)
    BY <2>2, ChangedStep
  <2>3. CASE BeginSpark \/ QualityGate \/ SparkDies \/ WeekPasses
    <3>1. spark' \notin {"clickhouse", "done"}
      BY <2>3 DEF BeginSpark, QualityGate, SparkDies, WeekPasses
    <3>2. QED
      BY <3>1
  <2>4. CASE WriteToDelta
    <3>1. Same /\ spark' = "clickhouse" /\ "young" \in logAges'
      BY <2>4 DEF WriteToDelta, silverVars
    <3>2. SparkRows \subseteq delta' \ oldDelta'
      BY <2>4 DEF WriteToDelta
    <3>3. QED
      BY <2>1, <3>1, <3>2
  <2>5. CASE WriteToClickHouse
    <3>1. Same /\ SparkRows \subseteq bySpark' /\ UNCHANGED <<delta, oldDelta, logAges, since>>
      BY <2>5 DEF WriteToClickHouse, silverVars, deltaVars, trailVars
    <3>2. spark = "clickhouse" /\ spark' = "done"
      BY <2>5 DEF WriteToClickHouse
    <3>3. QED
      BY <2>1, <3>1, <3>2
  <2>6. CASE BastionNext
    <3>1. Same /\ UNCHANGED <<delta, oldDelta, bySpark, sparkVars>> /\ logAges \subseteq logAges'
      BY <2>6 DEF BastionNext, BeginBastion, Compute, InsertBatch, Upload, PutMarker,
                  BastionDies, silverVars, tableVars, deltaVars, trailVars, sparkVars
    <3>2. QED
      BY <2>1, <3>1 DEF sparkVars
  <2>7. CASE CleanupOldAuditFiles
    BY <2>7, CleanupStep
  <2>8. CASE UNCHANGED vars
    BY <2>1, <2>8 DEF vars, silverVars, tableVars, deltaVars, trailVars, sparkVars
  <2>9. QED
    BY <2>2, <2>3, <2>4, <2>5, <2>6, <2>7, <2>8 DEF Next, SparkNext
<1>3. Agree => DualWriteAgrees
  BY DEF Agree
<1>4. QED
  BY <1>1, <1>2, <1>3, PTL DEF Spec

=============================================================================
