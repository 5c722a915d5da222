------------------------------ MODULE DagsProofs -----------------------------
(***************************************************************************)
(* What the runs of every DAG guarantee, whatever the checks, the rows to  *)
(* write and the failures of queries and workers: the types, the rows a    *)
(* row-by-row task leaves, what the audit row says and what the quality    *)
(* gate of dq_validation holds back.                                       *)
(***************************************************************************)
EXTENDS Dags, TLAPS

USE DagsAssumption

-----------------------------------------------------------------------------
(* The task graphs *)

\* The tasks of a chain are its members.
LEMMA ChainTasks ==
  /\ \A a, b : DOMAIN Chain(<<a, b>>) = {a, b}
  /\ \A a, b, c : DOMAIN Chain(<<a, b, c>>) = {a, b, c}
  /\ \A a, b, c, d : DOMAIN Chain(<<a, b, c, d>>) = {a, b, c, d}
<1>1. ASSUME NEW a, NEW b PROVE DOMAIN Chain(<<a, b>>) = {a, b}
  <2>1. DOMAIN <<a, b>> = {1, 2}
    OBVIOUS
  <2>2. QED
    BY <2>1 DEF Chain
<1>2. ASSUME NEW a, NEW b, NEW c PROVE DOMAIN Chain(<<a, b, c>>) = {a, b, c}
  <2>1. DOMAIN <<a, b, c>> = {1, 2, 3}
    OBVIOUS
  <2>2. QED
    BY <2>1 DEF Chain
<1>3. ASSUME NEW a, NEW b, NEW c, NEW d
      PROVE  DOMAIN Chain(<<a, b, c, d>>) = {a, b, c, d}
  <2>1. DOMAIN <<a, b, c, d>> = {1, 2, 3, 4}
    OBVIOUS
  <2>2. QED
    BY <2>1 DEF Chain
<1>4. QED
  BY <1>1, <1>2, <1>3

\* The tasks of every DAG.
LEMMA DagTasks ==
  /\ DOMAIN FeaturePipeline = {"ge_validation", "compute_features",
                               "verify_feature_store", "write_audit_log"}
  /\ DOMAIN DailyDwh = {"dbt_build", "trigger_feature_pipeline", "write_audit_log"}
  /\ DOMAIN HourlySnapshots = {"check_new_data", "dbt_snapshot", "write_audit_log"}
  /\ DOMAIN DataQualityGate = {"dbt_source_freshness", "dbt_test",
                               "write_test_results", "write_audit_log"}
  /\ DOMAIN SettlementReconciliation = {"compute_settlements", "reconcile_and_insert",
                                        "write_audit_log"}
  /\ DOMAIN SchemaDriftDetector = {"check_schema_drift", "write_audit_log"}
  /\ DOMAIN FeatureDriftMonitor = {"detect_and_write_drift", "write_audit_log"}
  /\ DOMAIN AuditLogCompaction = {"cleanup_old_audit_files", "write_audit_log"}
  /\ DOMAIN DebeziumHealthCheck = ConnectorChecks \cup {"write_audit_log"}
  /\ DOMAIN DqValidation = Checks \cup {"run_dbt_tests", "write_dbt_results_to_dq",
                              "quality_gate", "dq_complete", "write_audit_log"}
BY ChainTasks DEF FeaturePipeline, DailyDwh, HourlySnapshots, DataQualityGate,
   SettlementReconciliation, SchemaDriftDetector, FeatureDriftMonitor,
   AuditLogCompaction, DebeziumHealthCheck, DqValidation

\* The DAGs that write row by row have one such task each, and no gate.
LEMMA OneRowWriter ==
  ASSUME NEW d \in DOMAIN Upstream,
         NEW t \in DOMAIN Upstream[d] \cap RowWriters
  PROVE  /\ DOMAIN Upstream[d] \cap RowWriters = {t}
         /\ DOMAIN Upstream[d] \cap Gates = {}
BY DagTasks DEF Upstream, RowWriters, Gates, ConnectorChecks

\* The audit task is in every DAG.
LEMMA AuditInEvery ==
  ASSUME NEW d \in DOMAIN Upstream
  PROVE  "write_audit_log" \in DOMAIN Upstream[d]
BY DagTasks DEF Upstream

-----------------------------------------------------------------------------
(* Attempts *)

\* Every attempt ends its task, and only a gate has others skipped.
LEMMA AttemptMoves ==
  ASSUME NEW t \in Tasks, Attempt(t)
  PROVE  /\ Ready(t)
         /\ \E ok \in BOOLEAN : \E skipped \in {{}, Below[dag][t]} :
              /\ AttemptEnds(t, ok, skipped)
              /\ t \notin Gates => skipped = {}
<1> DEFINE Moves ==
      \E ok \in BOOLEAN : \E skipped \in {{}, Below[dag][t]} :
         /\ AttemptEnds(t, ok, skipped)
         /\ t \notin Gates => skipped = {}
<1>11. Ready(t)
  BY DEF Attempt, RunPlain, RunDbtTests, ParseAndWriteDbtResults, Check, RunGate,
         WriteRows, CheckDebezium, WriteAuditLog
<1> SUFFICES Moves
  BY <1>11
<1>1. ASSUME \E ok \in BOOLEAN : AttemptEnds(t, ok, {}) PROVE Moves
  BY <1>1
<1>2. ASSUME NEW reporter, NEW status, Report(t, reporter, status) PROVE Moves
  BY <1>1, <1>2 DEF Report
<1>3. CASE RunGate(t)
  BY <1>3 DEF RunGate
<1> HIDE DEF Moves
<1>4. CASE RunPlain(t)
  BY <1>1, <1>4 DEF RunPlain
<1>5. CASE RunDbtTests(t)
  BY <1>1, <1>5 DEF RunDbtTests
<1>6. CASE ParseAndWriteDbtResults(t)
  BY <1>2, <1>6 DEF ParseAndWriteDbtResults
<1>7. CASE Check(t)
  BY <1>1, <1>2, <1>7 DEF Check
<1>8. CASE WriteRows(t)
  BY <1>1, <1>8 DEF WriteRows
<1>9. CASE CheckDebezium(t)
  BY <1>2, <1>9 DEF CheckDebezium
<1>10. CASE WriteAuditLog(t)
  BY <1>1, <1>10 DEF WriteAuditLog
<1>12. QED
  BY <1>3, <1>4, <1>5, <1>6, <1>7, <1>8, <1>9, <1>10 DEF Attempt

\* What an attempt changes besides: the rows of a row-by-row task, and reports,
\* audit row and command output within their types.
LEMMA AttemptData ==
  ASSUME TypeOK, NEW t \in Tasks, Attempt(t)
  PROVE  /\ output' \in Outputs
         /\ todo' = todo
         /\ fails' \subseteq Reporters
         /\ audit' \in {"none", "failed", "success"}
         /\ t \notin RowWriters => rows' = rows
         /\ t \in RowWriters => WriteRows(t)
<1> USE DEF TypeOK, dataVars
<1>1. ASSUME NEW reporter \in Reporters, NEW status, Report(t, reporter, status)
      PROVE  fails' \subseteq Reporters
  BY <1>1 DEF Report
<1>2. CASE RunPlain(t)
  BY <1>2 DEF RunPlain, Plain, RowWriters
<1>3. CASE RunDbtTests(t)
  BY <1>3 DEF RunDbtTests, RowWriters, Outputs
<1>4. CASE ParseAndWriteDbtResults(t)
  BY <1>1, <1>4 DEF ParseAndWriteDbtResults, RowWriters, Reporters
<1>5. CASE Check(t)
  <2>1. t \in Reporters /\ t \notin RowWriters
    BY <1>5 DEF Check, Reporters, RowWriters
  <2>2. QED
    BY <1>1, <1>5, <2>1 DEF Check
<1>6. CASE RunGate(t)
  BY <1>6 DEF RunGate, Gates, RowWriters
<1>7. CASE WriteRows(t)
  BY <1>7 DEF WriteRows
<1>8. CASE CheckDebezium(t)
  BY <1>1, <1>8 DEF CheckDebezium, ConnectorChecks, RowWriters, Reporters
<1>9. CASE WriteAuditLog(t)
  <2>1. AuditStatus \in {"failed", "success"}
    BY DEF AuditStatus, DagAuditStatus, DebeziumAuditStatus
  <2>2. QED
    BY <1>9, <2>1 DEF WriteAuditLog, RowWriters
<1>10. QED
  BY <1>2, <1>3, <1>4, <1>5, <1>6, <1>7, <1>8, <1>9 DEF Attempt

-----------------------------------------------------------------------------
(* Types, attempts and rows *)

\* An attempt not yet made has not ended, and one to be repeated may be.
TriesLeft ==
  \A t \in Tasks : /\ ti[t] = "none" => tries[t] = 0
                   /\ ti[t] = "up_for_retry" => tries[t] <= Retries[dag]

\* Rows the run does not have are never written.
NoOtherRows == \A i \in 1..MaxRows : i > todo => rows[i] = 0

Attempted == TypeOK /\ TriesLeft /\ NoOtherRows /\ RowsPerAttempt

\* What the end of an attempt does to the task instances.
LEMMA EndOfAttempt ==
  ASSUME Attempted, NEW t \in Tasks, Ready(t),
         NEW ok \in BOOLEAN, NEW skipped, AttemptEnds(t, ok, skipped)
  PROVE  /\ UNCHANGED <<dag, run>> /\ Tasks' = Tasks
         /\ ti' \in [Tasks -> Finished \cup {"none", "up_for_retry"}]
         /\ tries' \in [Tasks -> 0..2]
         /\ TriesLeft'
         /\ tries'[t] = tries[t] + 1
         /\ ti'[t] = "success" <=> ok
         /\ ti'[t] \in {"success", "up_for_retry", "failed"}
         /\ \A u \in Tasks \ {t} :
              /\ tries'[u] = tries[u]
              /\ ti'[u] = IF u \in skipped THEN "skipped" ELSE ti[u]
<1> USE DEF Attempted, TypeOK, TriesLeft
<1>1. UNCHANGED <<dag, run>> /\ Tasks' = Tasks
  BY DEF AttemptEnds, Tasks
<1>2. Retries[dag] \in {0, 1}
  BY DEF Retries
<1>3. tries[t] \in 0..2 /\ tries[t] <= Retries[dag]
  BY <1>2 DEF Ready
<1>4. /\ tries'[t] = tries[t] + 1
      /\ \A u \in Tasks \ {t} : tries'[u] = tries[u]
      /\ tries' \in [Tasks -> 0..2]
  BY <1>2, <1>3 DEF AttemptEnds
<1>5. ti'[t] = IF ok THEN "success"
               ELSE IF tries[t] < Retries[dag] THEN "up_for_retry" ELSE "failed"
  BY <1>2, <1>3 DEF AttemptEnds
<1>6. \A u \in Tasks \ {t} : ti'[u] = IF u \in skipped THEN "skipped" ELSE ti[u]
  BY DEF AttemptEnds
<1>7. ti' \in [Tasks -> Finished \cup {"none", "up_for_retry"}]
  <2>1. DOMAIN ti' = Tasks /\ ti' = [u \in Tasks |-> ti'[u]]
    BY DEF AttemptEnds
  <2>2. \A u \in Tasks : ti'[u] \in Finished \cup {"none", "up_for_retry"}
    BY <1>5, <1>6 DEF Finished
  <2>3. QED
    BY <2>1, <2>2
<1>8. TriesLeft'
  <2>1. ti'[t] = "up_for_retry" => tries'[t] <= Retries[dag]
    BY <1>2, <1>3, <1>4, <1>5
  <2>2. QED
    BY <1>1, <1>4, <1>5, <1>6, <2>1
<1>9. QED
  BY <1>1, <1>4, <1>5, <1>6, <1>7, <1>8

\* An attempt keeps the types and the bound on the copies of a row.
LEMMA AttemptKeeps ==
  ASSUME Attempted, NEW t \in Tasks, Attempt(t)
  PROVE  Attempted'
<1>1. PICK ok \in BOOLEAN, skipped \in {{}, Below[dag][t]} :
        AttemptEnds(t, ok, skipped) /\ (t \notin Gates => skipped = {})
  BY AttemptMoves
<1>2. Ready(t)
  BY AttemptMoves
<1>3. /\ output' \in Outputs
      /\ todo' = todo
      /\ fails' \subseteq Reporters
      /\ audit' \in {"none", "failed", "success"}
  BY AttemptData DEF Attempted
<1>4. /\ UNCHANGED <<dag, run>> /\ Tasks' = Tasks
      /\ ti' \in [Tasks -> Finished \cup {"none", "up_for_retry"}]
      /\ tries' \in [Tasks -> 0..2]
      /\ TriesLeft'
  BY <1>1, <1>2, EndOfAttempt
<1>5. dag \in DOMAIN Upstream
  BY DEF Attempted, TypeOK
<1>6. CASE t \notin RowWriters
  <2>1. rows' = rows
    BY <1>6, AttemptData DEF Attempted
  <2>2. ASSUME NEW u \in Tasks \cap RowWriters
        PROVE  ti'[u] = ti[u] /\ tries'[u] = tries[u]
    <3>1. t \notin Gates
      BY <1>5, <2>2, OneRowWriter DEF Tasks
    <3>2. QED
      BY <1>1, <1>2, <1>6, <2>2, <3>1, EndOfAttempt
  <2>3. RowsPerAttempt' /\ NoOtherRows'
    BY <1>3, <1>4, <2>1, <2>2 DEF Attempted, RowsPerAttempt, NoOtherRows
  <2>4. QED
    BY <1>3, <1>4, <2>1, <2>3 DEF Attempted, TypeOK
<1>7. CASE t \in RowWriters
  <2>1. PICK n \in 0..todo, done \in BOOLEAN, w \in [1..MaxRows -> Writes(t)] :
          /\ done => n = todo
          /\ AttemptEnds(t, done, {})
          /\ rows' = [i \in 1..MaxRows |-> IF i <= n THEN rows[i] + w[i] ELSE rows[i]]
    BY <1>7, AttemptData DEF WriteRows, Attempted
  <2>2. tries'[t] = tries[t] + 1 /\ (ti'[t] = "success" <=> done)
    BY <1>2, <2>1, EndOfAttempt
  <2>3. todo \in 0..MaxRows /\ tries[t] \in 0..2 /\ tries'[t] \in 0..2
        /\ rows \in [1..MaxRows -> 0..4]
    BY <1>4 DEF Attempted, TypeOK
  <2>10. \A i \in 1..MaxRows :
           w[i] \in IF t = "check_schema_drift" THEN 1..2 ELSE {1}
    BY <2>1 DEF Writes
  <2>4. \A i \in 1..MaxRows :
          rows[i] <= IF t = "check_schema_drift" THEN 2 * tries[t] ELSE tries[t]
    BY <1>7 DEF Attempted, RowsPerAttempt
  <2>5. \A i \in 1..MaxRows :
          rows'[i] <= IF t = "check_schema_drift" THEN 2 * tries'[t] ELSE tries'[t]
    BY <2>1, <2>2, <2>3, <2>4, <2>10
  <2>6. rows' \in [1..MaxRows -> 0..4]
    BY <2>1, <2>3, <2>5, <2>10
  <2>7. NoOtherRows'
    BY <1>3, <2>1, <2>3 DEF Attempted, NoOtherRows
  <2>8. RowsPerAttempt'
    <3>1. \A u \in Tasks' \cap RowWriters : u = t
      BY <1>4, <1>5, <1>7, OneRowWriter DEF Tasks
    <3>2. \A i, j \in 1..MaxRows : i < j /\ rows[j] > 0 => rows[i] > 0
      BY <1>7 DEF Attempted, RowsPerAttempt
    <3>3. \A i, j \in 1..MaxRows : i < j /\ rows'[j] > 0 => rows'[i] > 0
      BY <2>1, <2>3, <2>10, <3>2
    <3>4. ti'[t] = "success" =>
            \A i \in 1..MaxRows : IF i <= todo' THEN rows'[i] > 0 ELSE rows'[i] = 0
      BY <1>3, <2>1, <2>2, <2>3, <2>7, <2>10 DEF NoOtherRows
    <3>5. QED
      BY <2>5, <3>1, <3>3, <3>4 DEF RowsPerAttempt
  <2>9. QED
    BY <1>3, <1>4, <2>3, <2>6, <2>7, <2>8 DEF Attempted, TypeOK
<1>8. QED
  BY <1>6, <1>7

\* So does every other step.
LEMMA AttemptedStep == Attempted /\ [Next]_vars => Attempted'
<1> SUFFICES ASSUME Attempted, [Next]_vars PROVE Attempted'
  OBVIOUS
<1> USE DEF Attempted, TypeOK, TriesLeft, NoOtherRows, RowsPerAttempt, Tasks
<1>1. CASE StartRun
  <2>1. RowsToWrite(dag) \subseteq 0..MaxRows
    BY DEF RowsToWrite, SettlementRows, TestResultRows, SchemaDriftRows, FeatureDriftRows
  <2>2. Tasks' = Tasks
    BY <1>1 DEF StartRun
  <2>3. TypeOK'
    <3>1. todo' \in 0..MaxRows
      BY <1>1, <2>1 DEF StartRun
    <3>2. ti' \in [Tasks -> Finished \cup {"none", "up_for_retry"}]
      BY <1>1 DEF StartRun
    <3>3. tries' \in [Tasks -> 0..2] /\ rows' \in [1..MaxRows -> 0..4]
      BY <1>1 DEF StartRun
    <3>4. QED
      BY <1>1, <2>2, <3>1, <3>2, <3>3 DEF StartRun, Outputs
  <2>4. TriesLeft' /\ NoOtherRows'
    BY <1>1, <2>2 DEF StartRun
  <2>5. \A t \in Tasks' : ti'[t] # "success"
    BY <1>1, <2>2 DEF StartRun
  <2>6. RowsPerAttempt'
    BY <1>1, <2>2, <2>5 DEF StartRun
  <2>7. QED
    BY <2>3, <2>4, <2>6
<1>2. ASSUME NEW t \in Tasks, Attempt(t) PROVE Attempted'
  BY <1>2, AttemptKeeps
<1>3. ASSUME NEW t \in Tasks, UpstreamFailed(t) PROVE Attempted'
  BY <1>3 DEF UpstreamFailed, dataVars, Finished
<1>4. CASE EndRun
  BY <1>4 DEF EndRun, dataVars
<1>5. CASE OthersReport
  BY <1>5 DEF OthersReport, Reporters
<1>6. ASSUME NEW c \in Reporters, ReportAges(c) PROVE Attempted'
  BY <1>6 DEF ReportAges
<1>7. CASE UNCHANGED vars
  BY <1>7 DEF vars
<1>8. QED
  BY <1>1, <1>2, <1>3, <1>4, <1>5, <1>6, <1>7 DEF Next

\* Every behaviour keeps it.
LEMMA AlwaysAttempted == Spec => []Attempted
<1>1. Init => Attempted
  BY DEF Init, Attempted, TypeOK, TriesLeft, NoOtherRows, RowsPerAttempt, Outputs
<1>2. QED
  BY <1>1, AttemptedStep, PTL DEF Spec

\* The variables keep their types, in particular no task is attempted three times.
THEOREM TypesKept == Spec => []TypeOK
<1>1. Attempted => TypeOK
  BY DEF Attempted
<1>2. QED
  BY <1>1, AlwaysAttempted, PTL

\* A row-by-row task that succeeds has written every row, and none more often than
\* its attempts account for.
THEOREM RowsWritten == Spec => []RowsPerAttempt
<1>1. Attempted => RowsPerAttempt
  BY DEF Attempted
<1>2. QED
  BY <1>1, AlwaysAttempted, PTL

-----------------------------------------------------------------------------
(* The audit row and the state of the run *)

\* Which tasks write the audit row, reports of their own, and skip others.
LEMMA WhoWrites ==
  ASSUME NEW t \in Tasks, Attempt(t)
  PROVE  /\ t # "write_audit_log" => audit' = audit
         /\ t = "write_audit_log" => WriteAuditLog(t)
         /\ t \in Gates => RunGate(t)
         /\ t \notin Checks \cup {"write_dbt_results_to_dq"}
              => fails' \subseteq fails \cup {"others"}
<1> USE DEF Gates, dataVars
<1>1. CASE RunPlain(t)
  BY <1>1 DEF RunPlain, Plain
<1>2. CASE RunDbtTests(t)
  BY <1>2 DEF RunDbtTests
<1>3. CASE ParseAndWriteDbtResults(t)
  BY <1>3 DEF ParseAndWriteDbtResults
<1>4. CASE Check(t)
  BY <1>4 DEF Check
<1>5. CASE RunGate(t)
  BY <1>5 DEF RunGate
<1>6. CASE WriteRows(t)
  BY <1>6 DEF WriteRows, RowWriters
<1>7. CASE CheckDebezium(t)
  BY <1>7 DEF CheckDebezium, ConnectorChecks, Report
<1>8. CASE WriteAuditLog(t)
  BY <1>8 DEF WriteAuditLog
<1>9. QED
  BY <1>1, <1>2, <1>3, <1>4, <1>5, <1>6, <1>7, <1>8 DEF Attempt

\* The row is written by the audit task, which for the health check comes after both
\* connector checks.
AuditLast ==
  /\ audit # "none" => ti["write_audit_log"] # "none"
  /\ dag = "debezium_health_check" /\ ti["write_audit_log"] # "none"
       => \A c \in ConnectorChecks : ti[c] \in Finished

\* The audit row of every DAG but the health check says 'failed', and that of the
\* health check tells whether both connectors were found well.
THEOREM AuditRowsSay == Spec => []AuditRows
<1> DEFINE Inv == AuditLast /\ AuditRows
<1> DEFINE Health == dag = "debezium_health_check"
<1>1. Health => /\ Tasks = ConnectorChecks \cup {"write_audit_log"}
                /\ Upstream[dag]["write_audit_log"] = ConnectorChecks
                /\ \A c \in ConnectorChecks : Upstream[dag][c] = {}
  BY DEF Tasks, Upstream, DebeziumHealthCheck, ConnectorChecks
<1>2. Init => Inv
  BY <1>1, AuditInEvery DEF Init, AuditLast, AuditRows, Tasks
<1>3. Attempted /\ Inv /\ [Next]_vars => Inv'
  <2> SUFFICES ASSUME Attempted, Inv, [Next]_vars PROVE Inv'
    OBVIOUS
  <2> USE DEF AuditLast, AuditRows
  <2>1. "write_audit_log" \in Tasks /\ TypeOK
    BY AuditInEvery DEF Attempted, TypeOK, Tasks
  <2>2. CASE StartRun
    BY <1>1, <2>1, <2>2 DEF StartRun
  <2>3. ASSUME NEW t \in Tasks, Attempt(t) PROVE Inv'
    <3>1. PICK ok \in BOOLEAN, skipped \in {{}, Below[dag][t]} :
            AttemptEnds(t, ok, skipped) /\ (t \notin Gates => skipped = {})
      BY <2>3, AttemptMoves
    <3>2. Ready(t)
      BY <2>3, AttemptMoves
    <3>3. /\ dag' = dag /\ run = "running"
          /\ ti'[t] # "none"
          /\ \A u \in Tasks \ {t} : ti'[u] = IF u \in skipped THEN "skipped" ELSE ti[u]
      BY <3>1, <3>2, EndOfAttempt DEF Ready
    <3>4. CASE t = "write_audit_log"
      <4>1. WriteAuditLog(t)
        BY <2>3, <3>4, WhoWrites
      <4>2. audit' \in {audit, AuditStatus}
        BY <4>1 DEF WriteAuditLog
      <4>3. Health => \A c \in ConnectorChecks : ti[c] \in Finished /\ ti'[c] = ti[c]
        <5>1. SUFFICES ASSUME Health, NEW c \in ConnectorChecks
                       PROVE  ti[c] \in Finished /\ ti'[c] = ti[c]
          OBVIOUS
        <5>2. c \in Tasks \ {t} /\ skipped = {}
          BY <1>1, <3>1, <3>4, <5>1 DEF ConnectorChecks, Gates
        <5>3. ti[c] \in Finished
          BY <1>1, <3>2, <3>4, <5>1 DEF Ready, AllDone
        <5>4. QED
          BY <3>3, <5>2, <5>3
      <4>4. AuditStatus # "none" /\ (AuditStatus = "success" <=>
              Health /\ \A c \in ConnectorChecks : ti[c] = "success")
        BY <3>3 DEF AuditStatus, DagAuditStatus, DebeziumAuditStatus
      <4>5. QED
        BY <3>3, <3>4, <4>2, <4>3, <4>4
    <3>5. CASE t # "write_audit_log"
      <4>1. audit' = audit
        BY <2>3, <3>5, WhoWrites
      <4>2. CASE Health
        <5>1. t \in ConnectorChecks /\ skipped = {}
          BY <1>1, <3>1, <3>5, <4>2 DEF ConnectorChecks, Gates
        <5>2. ti["write_audit_log"] = "none"
          BY <3>2, <4>2, <5>1 DEF Ready, Finished
        <5>3. ti'["write_audit_log"] = "none"
          BY <2>1, <3>3, <3>5, <5>1, <5>2
        <5>4. QED
          BY <4>1, <5>2, <5>3
      <4>3. CASE ~Health
        BY <2>1, <3>3, <3>5, <4>1, <4>3
      <4>4. QED
        BY <4>2, <4>3
    <3>6. QED
      BY <3>4, <3>5
  <2>4. ASSUME NEW t \in Tasks, UpstreamFailed(t) PROVE Inv'
    <3>1. ~Health
      BY <1>1, <2>4 DEF UpstreamFailed, AllDone
    <3>2. UNCHANGED <<dag, audit>> /\ ti'["write_audit_log"] = ti["write_audit_log"]
      BY <2>1, <2>4 DEF UpstreamFailed, AllDone, TypeOK, dataVars
    <3>3. QED
      BY <3>1, <3>2
  <2>5. CASE EndRun
    BY <2>5 DEF EndRun, dataVars
  <2>6. CASE OthersReport \/ \E c \in Reporters : ReportAges(c)
    BY <2>6 DEF OthersReport, ReportAges
  <2>7. CASE UNCHANGED vars
    BY <2>7 DEF vars
  <2>8. QED
    BY <2>2, <2>3, <2>4, <2>5, <2>6, <2>7 DEF Next
<1>4. QED
  BY <1>2, <1>3, AlwaysAttempted, PTL DEF Spec

-----------------------------------------------------------------------------
(* The quality gate of dq_validation *)

\* What the gate waits for.
Awaited == Checks \cup {"write_dbt_results_to_dq"}

\* The tasks the gate can skip are the two behind it, and dq_complete is one.
LEMMA BehindTheGate ==
  ASSUME dag = "dq_validation"
  PROVE  /\ "dq_complete" \in Below[dag]["quality_gate"]
         /\ Below[dag]["quality_gate"] \subseteq {"dq_complete", "write_audit_log"}
<1> DEFINE D == DOMAIN DqValidation
<1> DEFINE Closed(S) ==
      \A u \in D : DqValidation[u] \cap (S \cup {"quality_gate"}) # {} => u \in S
<1>1. Upstream[dag] = DqValidation /\ dag \in DOMAIN Upstream
  BY DEF Upstream
<1>2. /\ "quality_gate" \in D /\ "dq_complete" \in D /\ "write_audit_log" \in D
      /\ DqValidation["dq_complete"] = {"quality_gate"}
      /\ DqValidation["quality_gate"] = Awaited
      /\ DqValidation["write_dbt_results_to_dq"] = {"run_dbt_tests"}
      /\ \A u \in D \ {"dq_complete", "write_audit_log", "quality_gate",
                       "write_dbt_results_to_dq"} : DqValidation[u] = {}
  BY DEF DqValidation, Awaited
<1>3. Below[dag]["quality_gate"] = {t \in D : \A S \in SUBSET D : Closed(S) => t \in S}
  BY <1>1, <1>2 DEF Below
<1>4. \A S \in SUBSET D : Closed(S) => "dq_complete" \in S
  BY <1>2
<1>5. Closed({"dq_complete", "write_audit_log"})
  BY <1>2 DEF Awaited
<1> HIDE DEF Closed, D
<1>6. {"dq_complete", "write_audit_log"} \in SUBSET D
  BY <1>2
<1>7. QED
  BY <1>2, <1>3, <1>4, <1>5, <1>6

\* Once the gate has been tried, everything it waits for has ended, and if it let
\* the run pass, no failure of these checks has been reported since.
GateWaits ==
  dag = "dq_validation" =>
    /\ ti["quality_gate"] # "none" => \A u \in Awaited : ti[u] \in Finished
    /\ ti["dq_complete"] = "success" => ti["quality_gate"] = "success"
    /\ ti["quality_gate"] = "success" /\ ti["dq_complete"] # "skipped"
         => fails \subseteq {"others"}

\* An attempt of the gate itself: what it waits for stays ended, and unless it saw
\* no report it has dq_complete skipped.
LEMMA GateStep ==
  ASSUME Attempted, GateWaits, dag = "dq_validation",
         NEW ok \in BOOLEAN, NEW skipped \in {{}, Below[dag]["quality_gate"]},
         AttemptEnds("quality_gate", ok, skipped), Ready("quality_gate"),
         RunGate("quality_gate")
  PROVE  GateWaits'
<1> DEFINE g == "quality_gate"
<1>1. Tasks = Checks \cup {"run_dbt_tests", "write_dbt_results_to_dq",
                          "quality_gate", "dq_complete", "write_audit_log"}
  BY DagTasks DEF Tasks, Upstream
<1>2. Upstream[dag][g] = Awaited /\ Upstream[dag]["dq_complete"] = {g}
  BY DEF Upstream, DqValidation, Awaited
<1>3. PICK passes \in GatePasses(g), done \in BOOLEAN, s \in {{}, Below[dag][g]} :
        /\ AttemptEnds(g, done, s)
        /\ done => s = IF passes THEN {} ELSE Below[dag][g]
  BY DEF RunGate, GatePasses, EvaluateQualityGate
<1>4. /\ ti'[g] = "success" <=> done
      /\ \A u \in Tasks \ {g} : ti'[u] = IF u \in s THEN "skipped" ELSE ti[u]
      /\ dag' = dag
  BY <1>1, <1>3, EndOfAttempt
<1>5. fails' = fails
  BY DEF RunGate, dataVars
<1>6. ti[g] # "success" /\ ti["dq_complete"] # "success"
  BY DEF Ready, GateWaits
<1>7. \A u \in Awaited : ti'[u] \in Finished
  <2>1. \A u \in Awaited : ti[u] \in Finished
    BY <1>2 DEF Ready, AllDone
  <2>2. \A u \in Awaited : u \in Tasks \ {g} /\ u \notin {"dq_complete", "write_audit_log"}
    BY <1>1 DEF Awaited
  <2>3. QED
    BY <1>3, <1>4, <2>1, <2>2, BehindTheGate
<1>8. ti'["dq_complete"] # "success"
  BY <1>1, <1>4, <1>6
<1>9. done => fails = {} \/ ti'["dq_complete"] = "skipped"
  <2>1. passes <=> fails = {}
    BY DEF GatePasses, EvaluateQualityGate
  <2>2. QED
    BY <1>1, <1>3, <1>4, <2>1, BehindTheGate
<1>10. QED
  BY <1>4, <1>5, <1>7, <1>8, <1>9 DEF GateWaits

\* dq_validation completes only over a gate that found no failure of its checks.
THEOREM GateHolds == Spec => []GateHoldsBack
<1>1. Init => GateWaits
  BY DagTasks DEF Init, GateWaits, Tasks, Upstream, Finished
<1>2. Attempted /\ GateWaits /\ [Next]_vars => GateWaits'
  <2> SUFFICES ASSUME Attempted, GateWaits, [Next]_vars PROVE GateWaits'
    OBVIOUS
  <2>0. dag' = dag
    <3>1. ASSUME NEW t \in Tasks, Attempt(t) PROVE dag' = dag
      BY <3>1, AttemptMoves DEF AttemptEnds
    <3>2. QED
      BY <3>1 DEF Next, StartRun, UpstreamFailed, EndRun, OthersReport,
                  ReportAges, vars
  <2> SUFFICES ASSUME dag = "dq_validation" PROVE GateWaits'
    BY <2>0 DEF GateWaits
  <2>1. /\ Tasks = Checks \cup {"run_dbt_tests", "write_dbt_results_to_dq",
                               "quality_gate", "dq_complete", "write_audit_log"}
        /\ Upstream[dag]["dq_complete"] = {"quality_gate"}
    BY DagTasks DEF Tasks, Upstream, DqValidation
  <2>2. TypeOK
    BY DEF Attempted
  <2>3. CASE StartRun
    BY <2>1, <2>3 DEF StartRun, GateWaits
  <2>4. ASSUME NEW t \in Tasks, Attempt(t) PROVE GateWaits'
    <3>1. PICK ok \in BOOLEAN, skipped \in {{}, Below[dag][t]} :
            AttemptEnds(t, ok, skipped) /\ (t \notin Gates => skipped = {})
      BY <2>4, AttemptMoves
    <3>2. Ready(t)
      BY <2>4, AttemptMoves
    <3>3. CASE t = "quality_gate"
      BY <2>4, <3>1, <3>2, <3>3, GateStep, WhoWrites DEF Gates
    <3>4. CASE t # "quality_gate"
      <4>1. skipped = {}
        BY <2>1, <3>1, <3>4 DEF Gates
      <4>2. /\ dag' = dag
            /\ ti[t] \notin Finished
            /\ \A u \in Tasks \ {t} : ti'[u] = ti[u]
        BY <3>1, <3>2, <4>1, EndOfAttempt DEF Ready, Finished
      <4>3. CASE t \in Awaited
        <5>1. ti["quality_gate"] = "none" /\ ti'["quality_gate"] = "none"
          BY <2>1, <3>4, <4>2, <4>3 DEF GateWaits
        <5>2. ti'["dq_complete"] = ti["dq_complete"]
          BY <2>1, <4>2, <4>3 DEF Awaited
        <5>3. QED
          BY <4>2, <5>1, <5>2 DEF GateWaits
      <4>4. CASE t \notin Awaited
        <5>1. fails' \subseteq fails \cup {"others"}
          BY <2>4, <4>4, WhoWrites DEF Awaited
        <5>2. \A u \in Awaited \cup {"quality_gate"} : ti'[u] = ti[u]
          BY <2>1, <3>4, <4>2, <4>4 DEF Awaited
        <5>3. t = "dq_complete" => ti["quality_gate"] = "success"
          BY <2>1, <3>2 DEF Ready, AllDone
        <5>4. t # "dq_complete" => ti'["dq_complete"] = ti["dq_complete"]
          BY <2>1, <4>2
        <5>5. ti[t] # "skipped"
          BY <4>2 DEF Finished
        <5>6. QED
          BY <4>2, <5>1, <5>2, <5>3, <5>4, <5>5 DEF GateWaits
      <4>5. QED
        BY <4>3, <4>4
    <3>5. QED
      BY <3>3, <3>4
  <2>5. ASSUME NEW t \in Tasks, UpstreamFailed(t) PROVE GateWaits'
    <3>1. t # "quality_gate" /\ ti[t] = "none"
      BY <2>5 DEF UpstreamFailed, AllDone
    <3>2. UNCHANGED <<dag, fails>> /\ \A u \in Tasks \ {t} : ti'[u] = ti[u]
      BY <2>2, <2>5 DEF UpstreamFailed, dataVars, TypeOK
    <3>3. ti'[t] = "upstream_failed"
      BY <2>2, <2>5 DEF UpstreamFailed, TypeOK
    <3>4. QED
      BY <2>1, <3>1, <3>2, <3>3 DEF GateWaits, Awaited, Finished
  <2>6. CASE EndRun
    BY <2>6 DEF EndRun, dataVars, GateWaits
  <2>7. CASE OthersReport \/ \E c \in Reporters : ReportAges(c)
    BY <2>7 DEF OthersReport, ReportAges, GateWaits
  <2>8. CASE UNCHANGED vars
    BY <2>8 DEF vars, GateWaits
  <2>9. QED
    BY <2>3, <2>4, <2>5, <2>6, <2>7, <2>8 DEF Next
<1>3. Attempted /\ GateWaits => GateHoldsBack
  BY DEF GateWaits, GateHoldsBack
<1>4. QED
  BY <1>1, <1>2, <1>3, AlwaysAttempted, PTL DEF Spec
=============================================================================
