--------------------------------- MODULE Dags --------------------------------
(***************************************************************************)
(* The Airflow DAGs of the platform (dags/*.py), run by MWAA with Airflow  *)
(* 2.10 (terraform/modules/mwaa/main.tf:3), and what they leave in         *)
(* ClickHouse: data quality reports in gold.dq_results, rows written one   *)
(* by one, and the audit row in gold.pipeline_audit_log.                   *)
(*                                                                         *)
(* A behaviour follows the runs of one DAG, which max_active_runs=1 makes  *)
(* sequential.  The other DAGs touch it only through gold.dq_results.  A   *)
(* task attempt ends in success or failure: every query may raise, also    *)
(* after ClickHouse has executed it (clickhouse_hook.py times out after    *)
(* 30 seconds), and the worker may die between any two statements.         *)
(***************************************************************************)
EXTENDS Naturals, Sequences, FiniteSets

CONSTANTS Checks,   \* check tasks of dq_validation
          MaxRows   \* rows a row-by-row task has to write, at most

ASSUME DagsAssumption ==
  /\ Checks \subseteq {"check_feature_store_completeness",
                       "check_feature_store_nulls",
                       "check_gold_completeness",
                       "check_gold_feature_reconciliation",
                       "check_bronze_timestamp_range"}
  /\ MaxRows \in Nat

-----------------------------------------------------------------------------
(* The task graphs: upstream[t] is the set of tasks t waits for *)

\* a >> b >> c
Chain(s) == [t \in {s[i] : i \in DOMAIN s} |->
               {s[i] : i \in {j \in DOMAIN s : j < Len(s) /\ s[j + 1] = t}}]

FeaturePipeline ==
  Chain(<<"ge_validation", "compute_features", "verify_feature_store",
          "write_audit_log">>)

DailyDwh == Chain(<<"dbt_build", "trigger_feature_pipeline", "write_audit_log">>)

HourlySnapshots == Chain(<<"check_new_data", "dbt_snapshot", "write_audit_log">>)

DataQualityGate ==
  Chain(<<"dbt_source_freshness", "dbt_test", "write_test_results",
          "write_audit_log">>)

SettlementReconciliation ==
  Chain(<<"compute_settlements", "reconcile_and_insert", "write_audit_log">>)

SchemaDriftDetector == Chain(<<"check_schema_drift", "write_audit_log">>)

FeatureDriftMonitor == Chain(<<"detect_and_write_drift", "write_audit_log">>)

AuditLogCompaction == Chain(<<"cleanup_old_audit_files", "write_audit_log">>)

ConnectorChecks == {"check_debezium_pg", "check_debezium_mongo"}

DebeziumHealthCheck ==
  [t \in ConnectorChecks \cup {"write_audit_log"} |->
     IF t = "write_audit_log" THEN ConnectorChecks ELSE {}]

\* A gate that does not wait for the checks.
DqValidation_ChecksBeside ==
  [t \in Checks \cup {"run_dbt_tests", "write_dbt_results_to_dq", "quality_gate",
                      "dq_complete", "write_audit_log"} |->
     CASE t = "write_dbt_results_to_dq" -> {"run_dbt_tests"}
       [] t = "quality_gate"    -> {"write_dbt_results_to_dq"}
       [] t = "dq_complete"     -> {"quality_gate"}
       [] t = "write_audit_log" -> {"dq_complete"}
       [] OTHER -> {}]

DqValidation ==
  [t \in Checks \cup {"run_dbt_tests", "write_dbt_results_to_dq", "quality_gate",
                      "dq_complete", "write_audit_log"} |->
     CASE t = "write_dbt_results_to_dq" -> {"run_dbt_tests"}
       [] t = "quality_gate"    -> Checks \cup {"write_dbt_results_to_dq"}
       [] t = "dq_complete"     -> {"quality_gate"}
       [] t = "write_audit_log" -> {"dq_complete"}
       [] OTHER -> {}]

Upstream ==
  [feature_pipeline          |-> FeaturePipeline,
   dbt_daily_dwh             |-> DailyDwh,
   dbt_hourly_snapshots      |-> HourlySnapshots,
   data_quality_gate         |-> DataQualityGate,
   settlement_reconciliation |-> SettlementReconciliation,
   schema_drift_detector     |-> SchemaDriftDetector,
   feature_drift_monitor     |-> FeatureDriftMonitor,
   audit_log_compaction      |-> AuditLogCompaction,
   debezium_health_check     |-> DebeziumHealthCheck,
   dq_validation             |-> DqValidation]

\* trigger_rule="all_done"; every other task has the default, all_success.
AllDone == {"write_dbt_results_to_dq", "quality_gate", "write_audit_log"}

\* ShortCircuitOperator
Gates == {"quality_gate", "check_new_data"}

\* Tasks that write a number of rows, each with an INSERT of its own.
RowWriters == {"reconcile_and_insert", "write_test_results",
               "check_schema_drift", "detect_and_write_drift"}

\* Below[d][g]: the tasks of d that depend on g, directly or not: those in every
\* set that is closed under "waits for g or for a member".
Below ==
  [d \in DOMAIN Upstream |-> [g \in DOMAIN Upstream[d] |->
     {t \in DOMAIN Upstream[d] : \A S \in SUBSET DOMAIN Upstream[d] :
        (\A u \in DOMAIN Upstream[d] :
           Upstream[d][u] \cap (S \cup {g}) # {} => u \in S)
        => t \in S}]]

\* How many rows a run may have to write: a settlement per merchant with approved
\* transactions, a result per dbt test, a report per registered subject (also when
\* the registry does not answer), a score per feature unless the store is empty.
SettlementRows == 0..MaxRows
TestResultRows == 0..MaxRows
SchemaDriftRows == {MaxRows}
FeatureDriftRows == {0, MaxRows}

RowsToWrite(d) == CASE d = "settlement_reconciliation" -> SettlementRows
                    [] d = "data_quality_gate"         -> TestResultRows
                    [] d = "schema_drift_detector"     -> SchemaDriftRows
                    [] d = "feature_drift_monitor"     -> FeatureDriftRows
                    [] OTHER                           -> {0}

Retries == [d \in DOMAIN Upstream |->
              IF d \in {"dq_validation", "schema_drift_detector"} THEN 1 ELSE 0]

-----------------------------------------------------------------------------
VARIABLES
  dag,     \* the DAG whose runs are followed
  run,     \* state of its current or last run
  ti,      \* ti[t]: state of the task instance of t
  tries,   \* tries[t]: attempts of t that ended
  output,  \* the XCom of run_dbt_tests: the last line dbt printed
  todo,    \* rows the run's row-by-row task has to write
  rows,    \* rows[i]: copies of the i-th of them in its table
  fails,   \* who has a 'fail' row in gold.dq_results younger than an hour
  audit    \* status of the run's row in gold.pipeline_audit_log, if any

vars == <<dag, run, ti, tries, output, todo, rows, fails, audit>>
dataVars == <<output, todo, rows, fails, audit>>

Finished == {"success", "failed", "skipped", "upstream_failed"}
Failed == {"failed", "upstream_failed"}
Outputs == {"none", "no errors", "errors", "no summary"}
Reporters == Checks \cup {"write_dbt_results_to_dq", "others"}

Tasks == DOMAIN Upstream[dag]

TypeOK ==
  /\ dag \in DOMAIN Upstream
  /\ run \in {"none", "running", "success", "failed"}
  /\ ti \in [Tasks -> Finished \cup {"none", "up_for_retry"}]
  /\ tries \in [Tasks -> 0..2]
  /\ output \in Outputs
  /\ todo \in 0..MaxRows
  /\ rows \in [1..MaxRows -> 0..4]
  /\ fails \subseteq Reporters
  /\ audit \in {"none", "failed", "success"}

Init ==
  /\ dag \in DOMAIN Upstream
  /\ run = "none"
  /\ ti = [t \in Tasks |-> "none"]
  /\ tries = [t \in Tasks |-> 0]
  /\ output = "none"
  /\ todo = 0
  /\ rows = [i \in 1..MaxRows |-> 0]
  /\ fails = {}
  /\ audit = "none"

-----------------------------------------------------------------------------
(* Airflow's scheduler *)

\* The schedule, a trigger or an operator starts the next run.
StartRun ==
  /\ run # "running"
  /\ run' = "running"
  /\ ti' = [t \in Tasks |-> "none"]
  /\ tries' = [t \in Tasks |-> 0]
  /\ output' = "none"
  /\ todo' \in RowsToWrite(dag)
  /\ rows' = [i \in 1..MaxRows |-> 0]
  /\ audit' = "none"
  /\ UNCHANGED <<dag, fails>>

Ready(t) ==
  /\ run = "running"
  /\ ti[t] \in {"none", "up_for_retry"}
  /\ \A u \in Upstream[dag][t] :
       IF t \in AllDone THEN ti[u] \in Finished ELSE ti[u] = "success"

\* One retry more than the DAG allows.
AttemptEnds_OneMore(t, ok, skipped) ==
  /\ tries' = [tries EXCEPT ![t] = @ + 1]
  /\ ti' = [ti EXCEPT ![t] = IF ok THEN "success"
                            ELSE IF tries[t] <= Retries[dag] THEN "up_for_retry"
                            ELSE "failed"]
  /\ UNCHANGED <<dag, run>>

\* An attempt of t ends; the tasks in skipped are skipped with it.
AttemptEnds(t, ok, skipped) ==
  /\ tries' = [tries EXCEPT ![t] = @ + 1]
  /\ ti' = [u \in Tasks |->
              CASE u = t /\ ok -> "success"
                [] u = t /\ ~ok /\ tries[t] < Retries[dag] -> "up_for_retry"
                [] u = t /\ ~ok /\ tries[t] >= Retries[dag] -> "failed"
                [] u # t /\ u \in skipped -> "skipped"
                [] OTHER -> ti[u]]
  /\ UNCHANGED <<dag, run>>

\* A task cannot run any more because one it waits for has failed.
UpstreamFailed(t) ==
  /\ run = "running"
  /\ ti[t] = "none"
  /\ t \notin AllDone
  /\ \E u \in Upstream[dag][t] : ti[u] \in Failed
  /\ ti' = [ti EXCEPT ![t] = "upstream_failed"]
  /\ UNCHANGED <<dag, run, tries, dataVars>>

Leaves == {t \in Tasks : \A u \in Tasks : t \notin Upstream[dag][u]}

\* Airflow judges a run by its leaves.
EndRun ==
  /\ run = "running"
  /\ \A t \in Tasks : ti[t] \in Finished
  /\ run' = IF \E t \in Leaves : ti[t] \in Failed THEN "failed" ELSE "success"
  /\ UNCHANGED <<dag, ti, tries, dataVars>>

-----------------------------------------------------------------------------
(* The tasks *)

\* One INSERT over HTTP: it may raise whether or not ClickHouse carried it out.
Inserts == {[stored |-> TRUE,  raised |-> FALSE],
            [stored |-> TRUE,  raised |-> TRUE],
            [stored |-> FALSE, raised |-> TRUE]}

\* Tasks with no effect modelled here: queries that only read, commands, and
\* the work of other modules.
Plain == {"ge_validation", "compute_features", "verify_feature_store",
          "dbt_build", "trigger_feature_pipeline", "dbt_snapshot",
          "dbt_source_freshness", "dbt_test", "compute_settlements",
          "cleanup_old_audit_files", "dq_complete"}

RunPlain(t) ==
  /\ t \in Plain
  /\ Ready(t)
  /\ \E ok \in BOOLEAN : AttemptEnds(t, ok, {})
  /\ UNCHANGED dataVars

\* The command ends in "| tail -20", so it succeeds whatever dbt says.
RunDbtTests(t) ==
  /\ t = "run_dbt_tests"
  /\ Ready(t)
  /\ \/ AttemptEnds(t, TRUE, {}) /\ output' \in Outputs \ {"none"}
     \/ AttemptEnds(t, FALSE, {}) /\ UNCHANGED output
  /\ UNCHANGED <<todo, rows, fails, audit>>

\* An attempt of t that reports status: the INSERT is its last risky call.
Report(t, reporter, status) ==
  \E i \in Inserts, ok \in BOOLEAN :
    /\ ok => ~i.raised
    /\ AttemptEnds(t, ok, {})
    /\ fails' = IF status = "fail" /\ i.stored THEN fails \cup {reporter} ELSE fails

\* No output means skip; an output without the summary line counts no errors.
DbtStatus == CASE output = "none"   -> "skip"
               [] output = "errors" -> "fail"
               [] OTHER             -> "pass"

ParseAndWriteDbtResults(t) ==
  /\ t = "write_dbt_results_to_dq"
  /\ Ready(t)
  /\ Report(t, t, DbtStatus)
  /\ UNCHANGED <<output, todo, rows, audit>>

\* Coverage below 95% is a warning, below 80% a failure; the rest pass or fail.
CheckStatuses(t) ==
  IF t \in {"check_feature_store_completeness", "check_gold_feature_reconciliation"}
    THEN {"pass", "warn", "fail"}
    ELSE {"pass", "fail"}

\* A check whose own queries raise ends without a report.
Check(t) ==
  /\ t \in Checks
  /\ Ready(t)
  /\ \/ \E status \in CheckStatuses(t) : Report(t, t, status)
     \/ AttemptEnds(t, FALSE, {}) /\ UNCHANGED fails
  /\ UNCHANGED <<output, todo, rows, audit>>

\* No 'fail' row of the last hour, whoever wrote it.
EvaluateQualityGate == {fails = {}}

\* Rows arrived since the last successful run, or not.
CheckNewData == BOOLEAN

GatePasses(t) == IF t = "quality_gate" THEN EvaluateQualityGate ELSE CheckNewData

\* A gate that says no has everything below it skipped, whatever its trigger
\* rule, the audit task included; it may still die before it succeeds.
RunGate(t) ==
  /\ t \in Gates
  /\ Ready(t)
  /\ \/ \E passes \in GatePasses(t), ok \in BOOLEAN :
          AttemptEnds(t, ok, IF passes THEN {} ELSE Below[dag][t])
     \/ AttemptEnds(t, FALSE, {})
  /\ UNCHANGED dataVars

\* A writer that swallows what the INSERT of a row raises.
WriteRows_Swallows(t) ==
  /\ t \in RowWriters
  /\ Ready(t)
  /\ \E written \in SUBSET (1..todo), ok \in BOOLEAN :
       /\ AttemptEnds(t, ok, {})
       /\ rows' = [i \in 1..MaxRows |-> IF i \in written THEN rows[i] + 1 ELSE rows[i]]
  /\ UNCHANGED <<output, todo, fails, audit>>

\* How often an attempt writes a row it gets to.  The drift detector reports a
\* registry that did not answer from within the try block: if that INSERT raises
\* after ClickHouse has carried it out, the except clause reports it again.
Writes(t) == IF t = "check_schema_drift" THEN {1, 2} ELSE {1}

\* Rows are written in order; an attempt that dies leaves those before it, and
\* the next attempt starts over.
WriteRows(t) ==
  /\ t \in RowWriters
  /\ Ready(t)
  /\ \E n \in 0..todo, ok \in BOOLEAN, w \in [1..MaxRows -> Writes(t)] :
       /\ ok => n = todo
       /\ AttemptEnds(t, ok, {})
       /\ rows' = [i \in 1..MaxRows |-> IF i <= n THEN rows[i] + w[i] ELSE rows[i]]
  /\ UNCHANGED <<output, todo, fails, audit>>

\* The check of one connector (ConnectorHealth) may report a failure.
CheckDebezium(t) ==
  /\ t \in ConnectorChecks
  /\ Ready(t)
  /\ \E status \in {"pass", "fail"} : Report(t, "others", status)
  /\ UNCHANGED <<output, todo, rows, audit>>

\* write_dag_audit_log asks for the state of the run it is a task of.
DagAuditStatus == IF run = "success" THEN "success" ELSE "failed"

\* A health check audit satisfied with one connector.
DebeziumAuditStatus_Any ==
  IF \E t \in ConnectorChecks : ti[t] = "success" THEN "success" ELSE "failed"

\* _debezium_audit_log asks for the states of the two checks.
DebeziumAuditStatus ==
  IF \A t \in ConnectorChecks : ti[t] = "success" THEN "success" ELSE "failed"

AuditStatus ==
  IF dag = "debezium_health_check" THEN DebeziumAuditStatus ELSE DagAuditStatus

\* log_pipeline_event swallows what the INSERT raises.
WriteAuditLog(t) ==
  /\ t = "write_audit_log"
  /\ Ready(t)
  /\ \E i \in Inserts, ok \in BOOLEAN :
       /\ AttemptEnds(t, ok, {})
       /\ audit' = IF i.stored THEN AuditStatus ELSE audit
  /\ UNCHANGED <<output, todo, rows, fails>>

Attempt(t) ==
  \/ RunPlain(t)
  \/ RunDbtTests(t)
  \/ ParseAndWriteDbtResults(t)
  \/ Check(t)
  \/ RunGate(t)
  \/ WriteRows(t)
  \/ CheckDebezium(t)
  \/ WriteAuditLog(t)

-----------------------------------------------------------------------------
(* The rest of the world *)

\* Another DAG or a script reports a failure.
OthersReport ==
  /\ dag = "dq_validation"
  /\ fails' = fails \cup {"others"}
  /\ UNCHANGED <<dag, run, ti, tries, output, todo, rows, audit>>

\* The last 'fail' row of reporter c turns an hour old.
ReportAges(c) ==
  /\ c \in fails
  /\ fails' = fails \ {c}
  /\ UNCHANGED <<dag, run, ti, tries, output, todo, rows, audit>>

Next ==
  \/ StartRun
  \/ \E t \in Tasks : Attempt(t) \/ UpstreamFailed(t)
  \/ EndRun
  \/ OthersReport
  \/ \E c \in Reporters : ReportAges(c)

Spec == Init /\ [][Next]_vars

-----------------------------------------------------------------------------
(* Properties *)

\* dq_complete is reached only past a gate that saw no failure: while a 'fail'
\* row of one of the run's own checks is younger than an hour - written by this
\* run, by an attempt that died after it, or by the run before -, the run does
\* not complete (dq_validation.py:234-244).
GateHoldsBack ==
  dag = "dq_validation" /\ ti["dq_complete"] = "success"
    => fails \subseteq {"others"}

\* The row the audit task leaves says 'success' only for the health check, and
\* there exactly when both connector checks succeeded; every other DAG's says
\* 'failed', as the comment at debezium_health_check.py:195-197 explains.
AuditRows ==
  audit # "none" =>
    (audit = "success" <=> /\ dag = "debezium_health_check"
                           /\ \A t \in ConnectorChecks : ti[t] = "success")

\* Row-by-row tasks deliver each row at least once when they succeed and once
\* per attempt at most (a schema report twice), and what a failed task leaves is
\* a prefix: without retries no settlement is written twice, with them a schema
\* report may be there four times.
RowsPerAttempt ==
  \A t \in Tasks \cap RowWriters :
    /\ \A i \in 1..MaxRows :
         rows[i] <= IF t = "check_schema_drift" THEN 2 * tries[t] ELSE tries[t]
    /\ \A i, j \in 1..MaxRows : i < j /\ rows[j] > 0 => rows[i] > 0
    /\ ti[t] = "success" =>
         \A i \in 1..MaxRows : IF i <= todo THEN rows[i] > 0 ELSE rows[i] = 0

\* "Quality gate on Silver data. Fails DAG if checks fail."
\* (feature_pipeline.py:9).
GateFailsDag ==
  dag = "feature_pipeline" /\ run = "success" => ti["ge_validation"] = "success"
=============================================================================
