---------------------------- MODULE ConnectorHealth --------------------------
(***************************************************************************)
(* A Debezium connector with its one task on a Kafka Connect worker (an    *)
(* ECS task), and those who watch it: the DAG debezium_health_check every  *)
(* five minutes (dags/debezium_health_check.py) and an operator with       *)
(* scripts/post_restart.sh.                                                *)
(*                                                                         *)
(* A check reads the status and then acts on what it read; meanwhile the   *)
(* worker may die, ECS may start another and the operator's script, which  *)
(* asks and acts in two steps too, may restart the task.  The rows of      *)
(* gold.pipeline_audit_log are left out: their INSERT never fails the      *)
(* check.                                                                  *)
(***************************************************************************)
EXTENDS Naturals

CONSTANT MaxFaults    \* bound: failures of worker, connector, task, consumer,
                      \* and what an operator does by hand

ASSUME HealthAssumption == MaxFaults \in Nat

VARIABLES
  worker,  \* is the ECS task up?
  conn,    \* state of the connector
  task,    \* state of its task
  todo,    \* what the check under way has to do after the status it read
  alarm,   \* the last check wrote a 'fail' row, or its Airflow task failed trying
  script,  \* what the operator's script has to do after the status it asked for
  faults   \* failures and interventions so far

connectorVars == <<worker, conn, task>>
checkVars == <<todo, alarm>>
healthVars == <<connectorVars, checkVars, script, faults>>

States == {"RUNNING", "FAILED", "UNASSIGNED", "RESTARTING"}

HealthTypeOK ==
  /\ worker \in BOOLEAN
  /\ conn \in {"RUNNING", "FAILED", "UNASSIGNED"}
  /\ task \in States
  /\ todo \in {"idle", "pass", "restart", "report"}
  /\ alarm \in BOOLEAN
  /\ script \in {"idle", "restart"}
  /\ faults \in 0..MaxFaults

HealthInit ==
  /\ worker = TRUE
  /\ conn = "RUNNING"
  /\ task = "RUNNING"
  /\ todo = "idle"
  /\ alarm = FALSE
  /\ script = "idle"
  /\ faults = 0

Fault == faults < MaxFaults /\ faults' = faults + 1

-----------------------------------------------------------------------------
(* Kafka Connect and ECS *)

WorkerStops ==
  /\ worker
  /\ Fault
  /\ worker' = FALSE
  /\ conn' = "UNASSIGNED"
  /\ task' = "UNASSIGNED"
  /\ UNCHANGED <<checkVars, script>>

\* The ECS service replaces a stopped task.
WorkerStarts ==
  /\ ~worker
  /\ worker' = TRUE
  /\ UNCHANGED <<conn, task, checkVars, script, faults>>

ConnectorFails ==
  /\ conn = "RUNNING"
  /\ Fault
  /\ conn' = "FAILED"
  /\ UNCHANGED <<worker, task, checkVars, script>>

TaskFails ==
  /\ task = "RUNNING"
  /\ Fault
  /\ task' = "FAILED"
  /\ UNCHANGED <<worker, conn, checkVars, script>>

TaskStarts ==
  /\ worker
  /\ task \in {"UNASSIGNED", "RESTARTING"}
  /\ task' = "RUNNING"
  /\ conn' = IF conn = "UNASSIGNED" THEN "RUNNING" ELSE conn
  /\ UNCHANGED <<worker, checkVars, script, faults>>

-----------------------------------------------------------------------------
(* check_debezium *)

\* Discovery raises: the check logs "skip" and is over.
DiscoveryFails ==
  /\ todo = "idle"
  /\ alarm' = FALSE
  /\ UNCHANGED <<connectorVars, todo, script, faults>>

\* No ECS task, no answer, or one that is not 200: the check is over after its
\* 'fail' row.
NoStatus ==
  /\ todo = "idle"
  /\ alarm' = TRUE
  /\ UNCHANGED <<connectorVars, todo, script, faults>>

\* A check that asks for the connector's state only.
Verdict_ConnectorOnly == IF conn = "RUNNING" THEN "pass" ELSE "report"

\* A check that has nothing to say when it has nothing to restart.
Verdict_Silent == IF task = "FAILED" THEN "restart" ELSE "pass"

\* Failed tasks are restarted; with none, a connector that does not run is
\* reported; otherwise all is well, or about to be.
Verdict == CASE task = "FAILED" -> "restart"
             [] task # "FAILED" /\ conn # "RUNNING" -> "report"
             [] OTHER -> "pass"

ReadStatus ==
  /\ todo = "idle"
  /\ worker
  /\ todo' = Verdict
  /\ alarm' = FALSE
  /\ UNCHANGED <<connectorVars, script, faults>>

Pass ==
  /\ todo = "pass"
  /\ todo' = "idle"
  /\ UNCHANGED <<connectorVars, alarm, script, faults>>

\* POST .../tasks/0/restart.  The answer is not looked at: whatever state the
\* task is in by now, the worker restarts it or refuses.
Restart ==
  /\ todo = "restart"
  /\ worker
  /\ todo' = "idle"
  /\ task' = "RESTARTING"
  /\ UNCHANGED <<worker, conn, alarm, script, faults>>

RestartRefused ==
  /\ todo = "restart"
  /\ worker
  /\ todo' = "idle"
  /\ UNCHANGED <<connectorVars, alarm, script, faults>>

\* The POST raises, before or after the worker has seen it.
RestartRaises ==
  /\ todo = "restart"
  /\ todo' = "idle"
  /\ alarm' = TRUE
  /\ task' \in IF worker THEN {task, "RESTARTING"} ELSE {task}
  /\ UNCHANGED <<worker, conn, script, faults>>

Report ==
  /\ todo = "report"
  /\ todo' = "idle"
  /\ alarm' = TRUE
  /\ UNCHANGED <<connectorVars, script, faults>>

Act == Pass \/ Restart \/ RestartRefused \/ RestartRaises \/ Report

-----------------------------------------------------------------------------
(* post_restart.sh, run by hand *)

\* The GET answers with the state of the task, or fails: then the script takes it
\* for UNREACHABLE, or for NO_TASKS.  Anything but RUNNING makes it restart the task.
ScriptAsks ==
  /\ script = "idle"
  /\ Fault
  /\ \E answer \in States \cup {"UNREACHABLE", "NO_TASKS"} :
       /\ answer \in States => worker /\ answer = task
       /\ answer # "RUNNING"
  /\ script' = "restart"
  /\ UNCHANGED <<connectorVars, checkVars>>

\* The POST, whatever state the task is in by now; "|| true" if it fails.
ScriptRestarts ==
  /\ script = "restart"
  /\ script' = "idle"
  /\ task' \in IF worker THEN {task, "RESTARTING"} ELSE {task}
  /\ UNCHANGED <<worker, conn, checkVars, faults>>

HealthNext ==
  \/ WorkerStops \/ WorkerStarts
  \/ ConnectorFails \/ TaskFails \/ TaskStarts
  \/ DiscoveryFails \/ NoStatus \/ ReadStatus
  \/ Act
  \/ ScriptAsks \/ ScriptRestarts

\* ECS and the worker do their part and the DAG keeps being scheduled; over and
\* over, a check that can read the status reads it, and a worker asked to
\* restart a task does.
HealthFairness ==
  /\ WF_healthVars(WorkerStarts)
  /\ WF_healthVars(TaskStarts)
  /\ SF_healthVars(ReadStatus)
  /\ WF_healthVars(Act)
  /\ SF_healthVars(Restart)

-----------------------------------------------------------------------------
(* Properties *)

\* A FAILED task does not stay so: within the five minutes of the schedule, or
\* some multiple of them, a check restarts it (debezium_health_check.py:123-132)
\* unless its worker died or an operator was faster.
FailedTaskRevived == task = "FAILED" ~> task # "FAILED"

\* Only tasks are restarted.  A connector that is itself FAILED stays so until
\* its worker goes, but not in silence: once no task is left to restart, a check
\* writes a 'fail' row or fails trying (lines 146-149).
FailedConnectorReported ==
  conn = "FAILED" ~> (conn # "FAILED" \/ alarm)
=============================================================================
