# A verification project for PayStream

PayStream is a payment data platform: transactions, repayments and installments
are captured from PostgreSQL and MongoDB with Debezium, pass through Kafka into
ClickHouse (bronze, silver and gold tables), are turned into credit features by a
scheduled job, and are served by a small HTTP API. This directory holds TLA+
modules that model the parts of that system where order, failure and shared state
decide whether it is correct, TLC configurations that check them on small
instances, and proofs, checked by TLAPS, of what holds for every instance.

Paths below are relative to the root of the repository.

## The system

### Components

| component | code | state it keeps | operations |
|---|---|---|---|
| Circuit breaker | `api/feature_store/routes.py:29-66` | `state`, `failure_count`, `last_failure_time`, under a lock; one object per worker process | `can_execute`, `record_success`, `record_failure` |
| ClickHouse connection pool | `api/feature_store/clickhouse_client.py` | a bounded `queue.Queue` of clients | `get`, `put`, `execute`, `ping`, `close` |
| Feature Store API | `api/feature_store/routes.py`, `main.py`, `models.py`, `config.py`, `api/Dockerfile` | two worker processes, each with a breaker and a pool | `GET /features/user/{id}` with and without `as_of`, `GET /health`, `GET /metrics` |
| Feature Store table | `clickhouse/feature_store/01_user_credit_features.sql` | rows keyed by user, feature version and `valid_from`; several unmerged versions of a key | INSERT, merge, the API's two queries, the dbt macro `get_user_feature_as_of` |
| Feature job | `dags/utils/compute_features.py`, started by `dags/feature_pipeline.py` | only ClickHouse's; a run keeps its snapshot time and its rows in memory | read `max(created_at)`, compute, validate, insert in batches |
| Feature job of the bastion host | `scripts/compute_features.py` | the feature table, CSV objects in S3 | the same, started by hand; upload a CSV, put a marker into the log of the Delta table |
| Spark feature job | `spark/jobs/credit_feature_engineer.py` | a Delta table and the ClickHouse table | merge into Delta or overwrite it, append to ClickHouse |
| Change data capture | `debezium/`, `clickhouse/bronze`, `clickhouse/silver`, `scripts/backfill_silver.sh` | Kafka offsets, bronze and silver tables, aggregate states | capture, consume, pass on through materialized views, merge, backfill |
| dbt | `dbt/` | staging views, incremental marts, snapshots | incremental runs, snapshots, tests |
| DAGs | `dags/*.py` | task and run states, `gold.dq_results`, an audit table | quality gate, dbt runs, feature pipeline, audit task |
| Debezium health check | `dags/debezium_health_check.py`, `scripts/post_restart.sh` | none of its own; the connectors' | read the status, restart failed tasks, report |
| Settlement reconciliation | `dags/settlement_reconciliation.py` | `gold` rows per merchant and day | aggregate, insert row by row |
| Drift detectors, audit clean-up | `dags/schema_drift_detector.py`, `feature_drift_monitor.py`, `audit_log_compaction.py` | report rows | stateless sweeps |
| Migrations | `scripts/apply_migrations.sh`, `migrations/` | `schema_versions` | apply a file, then record it |
| ClickHouse HTTP hook | `dags/utils/clickhouse_hook.py` | none | one request per call |
| Seed data, stress test, deployment, dashboards, Terraform | `scripts/`, `stress_test/`, `grafana/`, `terraform/` | none of protocol interest | generation and provisioning |

### How they interact

    PostgreSQL, MongoDB -> Debezium -> Kafka -> bronze -> (materialized views) -> silver
                                                                                    |
                             Airflow, every 4 h:  quality gate -> feature job <-----+
                                                                      |
                                                                      v  INSERT, merges
    client -> worker [breaker, pool] -> LATEST / POINT_IN_TIME query -> user_credit_features
                                                                      ^
    by hand:  Spark job -> Delta table in S3, then -------------------+
              bastion script -----------------------------------------+--> CSV in S3

- The job and the API share only the feature table. The API reads it without
  `FINAL`, so it sees rows that a merge has not dropped yet.
- Within a worker the handlers share one breaker and one pool. They are
  coroutines without an `await`, over a blocking driver: a worker answers one
  request at a time. Breaker and pool are written for threads all the same (a
  lock, a `Queue`), so they are checked for threads too.
- Every DAG ends in an audit task that writes a row to `gold.pipeline_audit_log`; the
  checks of several DAGs write reports to `gold.dq_results`, and one of them,
  `dq_validation`, reads that table back as its gate.
- The DAG `debezium_health_check` and an operator's script restart the task of a
  connector through the REST interface of Kafka Connect, neither knowing of the
  other.
- The Spark job and the bastion script keep what they write in the same place in
  S3, which the DAG `audit_log_compaction` clears of old objects.
- Nothing connects the two workers but ClickHouse: neither sees the other's
  breaker, and a worker that is restarted starts with a fresh one.

### What is hard about it, and what makes each part correct

*Breaker.* Callers admitted while it is CLOSED report their outcomes when it is
already OPEN or HALF_OPEN, and some report none; its clock is a wall clock. It is
correct if counter and state agree whatever the order, if an open breaker waits
out its timeout before it admits a probe, and if it closes again after an outage.

*Pool.* A connection must go back exactly once on every path, including those
through exceptions, replaced connections and an exhausted queue; nobody may use a
connection somebody else holds; `put` has no timeout, so it must never have to wait.

*API.* Each handler takes a connection, runs one or two queries and ends in one of
seven ways. Whatever way, the pool keeps its size, the breaker follows its
contract, and the client gets an answer. ClickHouse may go away between the two
queries of a single request.

*Feature table and job.* Runs fail between two INSERTs, INSERTs take effect
although the job saw a timeout, late transactions and changed repayments arrive
between two runs of one snapshot, and merges happen when ClickHouse likes. A
snapshot that the pipeline has left behind must not change, a run that reports
success must have written everything, half-finished runs must heal, and whoever
asks the API again must not be given an older snapshot than before.

*Capture.* Connector, consumer and tables commit separately, so a restart between
any two of the commits repeats messages; merges keep one version of a row while
the views have passed every message on. It is correct if nothing is lost, if
`FINAL` on the bronze table never goes back, if only what was in flight when something
went wrong comes into silver more than once, and if everything arrives in the end.

*Health check.* It acts on a status read earlier, beside an operator who may have
acted meanwhile, and it restarts tasks only. A failed task must be revived, a
failed connector must not go unnoticed, and a restart that hits a healthy task must
repeat no more than what that task had not committed.

*DAGs.* Attempts die after half of their INSERTs and are retried, trigger rules
run tasks after failures, short circuits skip even those, and a gate reads a table
that others write. The gate must hold back failures, and an attempt of a row-by-row
writer must not repeat or skip rows.

*Spark job and bastion script.* Each writes two stores one after the other. Spark
evaluates its query again for each of them; the script may die between two
batches; both share a place in S3 with a clean-up that goes by age alone, also while
they run. The stores must agree where they can, and a trail must not claim what was
not done.

`PROJECT.json` lists every hazard with its line and the properties that would
catch it going wrong.

## The modules

| module | what it models | lines of the code |
|---|---|---|
| `Breaker` | one breaker as a value, and what each method makes of it | `routes.py:29-63` |
| `BreakerContract` | the abstract specification of a breaker: `Spec` for threads, `SerialSpec` for one caller at a time | `routes.py:29-63` |
| `CircuitBreaker` | the class as written, with threads as its callers | `routes.py:29-63` |
| `SlotPool` | the abstract specification of a pool: a count of slots | `clickhouse_client.py:20-86`, `routes.py:132-151` |
| `ClickHousePool` | the pool with threads as its callers | `clickhouse_client.py:13-86` |
| `FeatureApi` | worker processes, handlers, breakers, pools, ClickHouse; built on `Breaker` | `routes.py:93-211` |
| `FeatureHistory` | the abstract specification of the feature table: a history that grows at its end | table definition |
| `FeatureStore` | the job, the table with its unmerged rows, the API's two queries | `compute_features.py`, `routes.py:72-90,140-149` |
| `ConnectorHealth` | a connector with its task and worker, the health check, the operator's script | `debezium_health_check.py:33-160`, `post_restart.sh:41-66` |
| `LaggingReplica` | the abstract specification of a bronze table read with `FINAL` | `09_pg_transactions_raw.sql` |
| `ChangeCapture` | PostgreSQL to bronze and silver; extends `ConnectorHealth` | `pg_connector.json`, `clickhouse/bronze`, `clickhouse/silver`, `backfill_silver.sh` |
| `Dags` | the ten DAGs under Airflow's scheduler, and what they write to `gold` | `dags/*.py`, `dags/utils/audit_logger.py`, `clickhouse_hook.py` |
| `FeatureWriters` | the Spark job and the bastion script, their trails in S3 and the clean-up; `MCFeatureWriters` adds the symmetry of users for TLC | `credit_feature_engineer.py`, `scripts/compute_features.py`, `audit_log_compaction.py` |
| `*Proofs` | theorems about the module they are named after | |

    Breaker <--- EXTENDS --- BreakerContract <--- implemented by --- CircuitBreaker
       ^                           ^
       +--- EXTENDS --- FeatureApi +--- (SerialSpec, one instance per worker)
    SlotPool <--- implemented by --- ClickHousePool;  FeatureApi (ServerSpec, per worker)
    FeatureHistory <--- implemented by --- FeatureStore
    ConnectorHealth <--- EXTENDS --- ChangeCapture ---> implements LaggingReplica

### Breaker, BreakerContract, CircuitBreaker

`CircuitBreaker` has the object's three fields and one action per method, which
the lock makes atomic: `can_execute`, `record_success`, `record_failure`. A caller
that was admitted may also `Leave` without an outcome, as `get_features` does
after a 404 and after a row that fails validation. `Tick` advances `time.time()`;
`ClockSetBack` sets it back. `last_failure_time` starts at the epoch, which is
modelled by a clock that starts at `recovery_timeout`: a new breaker has no
cooldown left.

The contract keeps the counter saturated at the threshold (`strikes`) and, in
place of two absolute times, the time left until a probe may be sent
(`cooldown`). The refinement mapping `AbstractBreaker` computes both, and
`ImplementsContract` says that `CircuitBreaker` implements the contract. This is
what entitles `FeatureApi` to carry the small value instead of counter and clock.

### ClickHousePool

`idle` is the contents of the queue, `held[c]` the local variable `conn` of caller
`c`, `phase[c]` where `c` is. `get` and `get_exhausted` are the two ends of
`Queue.get` with a timeout; `FinallyPut` and `put` the `finally` clauses of
`get_features` and of `ping`, in two steps because `put` may block;
`execute_returns` and `execute_raises` the two ends of `execute`: a `return`
inside the `try` block, which skips the `else` clause with the `put`, and an
exception, which disconnects the connection and puts a new client in its place.
`close` drains the queue. `lost` is a history variable: connections that nobody
can return any more. The queue is a set, for no property depends on which idle
connection is handed out next.

`SlotPool` is the same pool to someone who only counts: `free` is the size of the
queue, `out` the number of connections in somebody's hands. That a broken client is
exchanged for a new one is a stutter; that `execute` forgets a connection is a step,
`Forget`. `ImplementsSlots` is the refinement. It is what entitles `FeatureApi`, whose
handlers `get` and `put` but never call `execute`, to keep a number for a pool.

### FeatureApi

A request is a lookup of the latest row, a lookup with a usable `as_of`, a lookup
with an `as_of` that ClickHouse cannot parse, or a health check. A handler is
split where it looks at the outside: `Receive`; `Reject` or `Admit`
(`can_execute`, `pool.get`), `StartPing` for `/health`; `Query`; `Fallback`, the
second query of a point-in-time lookup that found nothing; `Respond`, which is the
`finally: pool.put` together with the classification of the outcome, and
`RespondHealth`. A row is `none`, `valid` or `invalid`: what the handler and
`FeatureValues` tell apart. ClickHouse goes up and down at any time
(`ClickHouseChanges`), the pipeline adds rows (`NewSnapshot`), a worker dies at any
point and is started anew (`RestartWorker`), and time passes for all workers at
once (`Tick`).

### FeatureHistory and FeatureStore

Time is counted in ticks, `Second` of them to a second, because `created_at` has
milliseconds and a snapshot time does not. A feature vector is represented by the
data it is computed from: the transactions counted, and a value `debts` for the
repayments and installments joined to them. For each key the table keeps the row
inserted last (`newest`), which is the one `FINAL` returns, and those it replaces
that no merge has dropped yet (`stale`). `snapshot_ts`, the version column of the
`ReplacingMergeTree`, equals `valid_from` in every row the job writes, so two rows
of one key always tie and only the order of insertion decides.

`BeginRun` asks for `max(created_at)`. `ComputeFeatures` is a *second* look at
the silver tables, followed by `validate_features`; no row left is an error.
`InsertBatch` writes one batch of any `BatchSize` users. `RunFails` ends the run
after any step and undoes nothing; `InsertTimesOut` ends it after an INSERT that
took effect. `Merge` drops any of the replaced rows of a key, at any time.
`TransactionArrives` (in any order of `created_at`) and `DebtsChange` stand for
change data capture. `Latest`, `PointInTime` and `AsOf` are the reads of the API:
sets, because `ORDER BY valid_from DESC LIMIT 1` may return any of the unmerged rows
with the greatest `valid_from`.

A run reads the silver tables between `BeginRun` and its end only once, in
`ComputeFeatures`, so later changes do not matter to it. The abstract module says
what remains if one forgets jobs, batches, failures and merges: a table per user
and snapshot time, and a frontier that only moves forward; only the column at the
frontier is ever written.

### ConnectorHealth, ChangeCapture, LaggingReplica

`ConnectorHealth` has the states of worker, connector and task as Kafka Connect's
REST interface reports them, and `todo`, what a check still has to do with the
status it has read. `DiscoveryFails` and `NoStatus` are the ways a check ends
before it has a status; `ReadStatus` reads it and `Verdict` is the decision of
lines 108-149; `Pass`, `Restart`, `RestartRefused`, `RestartRaises` and `Report`
carry it out, in a world that may have changed. `post_restart.sh` does its work in two
steps as well: `ScriptAsks` for the state, `ScriptRestarts` whatever the state is by
then. A `GET` that fails is `UNREACHABLE` to the script, and a status it cannot use
`NO_TASKS`; either way it restarts the task, which may be running. `alarm` tells whether the last
check made itself heard, by a row with status `fail` or by a failed task. Rows of
`gold.pipeline_audit_log` are left out.

`ChangeCapture` follows one PostgreSQL table, `transactions`. A change is
represented by its number in the WAL. `published` is what the running task has
written and is lost when it restarts (`Health` sets it back to `acked`); `topic`
holds the messages the ClickHouse consumer has not committed, `pending` how many of
them are stored already. `InsertBlock` stores any block of messages in bronze and
passes it to the views; `InsertFails` gets only to one of the two;
`ConsumerRestarts` forgets that a block was stored. `bronze` counts the rows of each
change that no merge has dropped yet, `copies` what the views made of each change in the
plain `MergeTree`s of silver. `Merge` drops one of two rows of a key, the older, at any
time and in any order. `Backfill` is `backfill_silver.sh`, which reads bronze without
`FINAL` and past the views: every row there is, unmerged repetitions included.
`repeated` is a history variable: the changes that something had reason to bring once
more, namely those the task had written but not committed when it came up again, those
of a block whose INSERT failed after the views or whose commit ClickHouse did not live
to make, and those in bronze when a backfill ran. `OnlyInFlightRepeated` says that no
other change has two rows in silver.

`LaggingReplica` says what a reader of bronze with `FINAL` may rely on: each row is
shown as it was after one of its changes, and never as it was earlier than it was
shown before. `ImplementsReplica` is the refinement.

### Dags

`Upstream` holds the task graphs of the ten DAGs, written as in their files, and
`AllDone`, `Gates`, `Retries` their trigger rules, short-circuit operators and
retries. A behaviour follows the runs of one DAG, chosen in `Init`:
`max_active_runs=1` makes them sequential, and DAGs meet only in
`gold.dq_results`. The scheduler (`StartRun`, `Ready`, `AttemptEnds`,
`UpstreamFailed`, `EndRun`) is external and modelled as the code uses it. In
particular, a run is judged by its leaves, and a short-circuit operator skips
everything below it, whatever its trigger rule.

A task attempt is one action, since nothing else reads in between what it writes,
except that `n`, `w` and `stored` in its body say how far it got. `Inserts` is
what a call of `execute_clickhouse_query` can come to: carried out, refused, or
carried out and reported as a timeout. Everything written is kept as the
properties need it: `fails` for the reports with status `fail` that are younger
than an hour, per reporter; `rows[i]` for the number of copies of the `i`-th row
of a row-by-row writer; `audit` for the audit row. `ReportAges` lets a report
leave the gate's window, `OthersReport` stands for other DAGs.

### FeatureWriters

A feature vector is represented as in `FeatureStore`. The Spark job's DataFrames are
lazy, so `QualityGate`, `WriteToDelta` and `WriteToClickHouse` each evaluate
`SparkRows` at their own moment, over silver tables that may have changed
(`TransactionArrives`, `DebtsChange`); `since` is a history variable, the users
whose data changed after the Delta write, and nothing but such a change adds to it. Within one of these steps the job sends
several queries, which are taken for one. `WriteToDelta` merges or, if anything
raises, overwrites; `SparkDies` may leave part of a JDBC append behind.

The bastion script computes once and keeps its rows: `BeginBastion`, `Compute`,
`InsertBatch`, `Upload`, `PutMarker`; `BastionDies` ends it anywhere. Uploads that
fail are only printed. `PutMarker` writes `{}` over commit 0 of the Delta log; that
Spark can use a log without a proper commit 0 neither for a merge nor for an
overwrite is an assumption about Delta Lake.

`CleanupOldAuditFiles` goes by age alone and runs at any moment, also between the two
writes of a Spark run. `oldDelta` are the rows in data files more than a week old,
`logAges` the ages of the files of the log. `WeekPasses` makes whatever there is old; it
needs both jobs at rest, that is, no run takes a week. Data files go if they are old;
old log files may go, after which the log may be unreadable, also under a run that is
about to write; with its last file the table is gone. The state `done` of `spark` lasts
from the end of a run until the week is over or another begins: that is how long
`DualWriteAgrees` speaks of it.

## What is checked

| run | instance | checks | what it shows |
|---|---|---|---|
| `breaker` | 2 threads, threshold 2, timeout 2, clock up to 7, 5 failures, 1 set-back | `TypeOK`, `CountMatchesState`, `HalfOpenWaited`, `ImplementsContract` | state and counter agree in every interleaving; a HALF_OPEN breaker has waited; the class implements the contract |
| `pool` | 3 threads, 2 slots, 3 clients | `TypeOK`, `NoSharing`, `SlotsAccountedFor`, `PutNeverBlocks`, `ImplementsSlots`, `EveryCallReturns` | no connection in two hands; no slot unaccounted for; `put` finds room; the pool is a count of slots; every call ends |
| `pool_execute` | 1 thread, 2 slots | `AllReturned` (violated) | one successful `execute` leaves the pool a connection short |
| `api` | 2 workers, threshold 2, timeout 1, pool of 1, 1 user | `TypeOK`, `PoolConserved`, `FailingClickHouseSpared`, `SerialBreakers`, `RequestsAnswered`, `Recovers` | pools keep their size on every path; a failing ClickHouse is left alone; each breaker follows the serial contract; every request is answered; breakers close again |
| `api_probe` | 1 worker, timeout 2 | `OneProbe` (violated) | a HALF_OPEN breaker admits one lookup after another |
| `store` | 2 users, times 0..2, 3 transactions, 2 ticks to a second, 1 row per INSERT | `TypeOK`, `SuccessIsComplete`, `PastIsReproducible`, `AnswersMoveOn`, `KeepsHistory`, `Converges` | successes are complete; past lookups keep their answer; no lookup, the fallback included, goes back to an earlier snapshot or to none; the table implements the history; half-finished runs heal |
| `store_final` | as `store` | `SameRowAsFinal` (violated) | the API may return a row that `FINAL` would not |
| `store_pit` | as `store` | `NothingFromTheFuture` (violated) | a point-in-time lookup may be answered with a later snapshot |
| `dags` | every DAG, two of the five checks, up to 3 rows | `TypeOK`, `GateHoldsBack`, `AuditRows`, `RowsPerAttempt` | the gate lets no fresh failure of its own checks past; what audit rows say; rows come in order, once per attempt |
| `dag_gate` | no checks, no rows | `GateFailsDag` (violated) | a feature pipeline whose gate failed is a success |
| `cdc` | 1 row, 2 changes, 2 faults | `TypeOK`, `NothingLost`, `OnlyInFlightRepeated`, `FailedTaskRevived`, `FailedConnectorReported`, `ImplementsReplica`, `CatchesUp` | no change is lost between hops; only what was in flight when something went wrong is in silver twice; failed tasks are revived and failed connectors reported; bronze with `FINAL` implements the replica; everything arrives |
| `writers` | 2 users, times 0..2, 2 transactions, 2 runs, 1 row per INSERT | `TypeOK`, `SparkPointInTime`, `CsvTrailTrue`, `DualWriteAgrees` | the Spark job never looks past its snapshot; a CSV tells the truth; within a week of a run, Delta and ClickHouse agree for users at rest |

Every property of a passing run is also checked against a mutant of the model, a
definition changed the way a plausible bug would change it, and TLC finds the
property violated. The mutants stand in the modules next to what they change, named
after it (`record_success_Decrements`, `Respond_NoFinally`, `Store_ByUser`, ...),
and are not used otherwise.

### Why the bounds are enough

- *Breaker.* The code compares the counter only with the threshold: with a
  threshold of 2 (the code: 3) there is a state below it, one at it and, with
  `MaxFailures` = 5, several beyond it, reached by late failures of two threads. A
  clock up to 7 with a timeout of 2 leaves room for two openings after a set-back.
- *Pool.* Three threads and two slots give idle, exhausted and contended pools; a
  third client object is what a replaced connection needs. A closed pool takes no
  more calls, since the process is exiting, and so the model really stops:
  these two configurations do not check for deadlock.
- *API.* `PoolSize` 1 (the code: 3) makes any lost connection visible at once.
  Workers share nothing but ClickHouse and time, so two of them show every
  interaction. A timeout of 1 tick tells "still waiting" from "waited".
  Symmetry is not used, because the run checks liveness.
- *Store.* Two ticks to a second and three points in time give two snapshot times
  and two transactions whose times fall into the same second, which is what
  makes one snapshot be computed twice with different data. Two users and batches
  of one make a run that stops in the middle. `ValidFor` = 1 leaves a gap between
  the two snapshots. Three of the six possible transactions arrive
  (`MaxArrivals`): enough for a late one between two runs, with one left over.
- *Capture.* One row with two changes has a version to supersede and a message to
  repeat; two faults allow a failed task and a failed connector, or a replay by the
  task and another by the consumer, or one of these and a visit of the operator's script or a
backfill, in one behaviour. (With three faults the run also passes, in five and a half
minutes.) Rows do not
  interact anywhere (the topic is partitioned by key, merges and reads go by key),
  and the proofs cover any number of them. The liveness properties are what keeps
  the instance small: with two rows the run takes about three minutes.
- *DAGs.* All ten graphs at their full size, except that `dq_validation` has two of
  its five checks, one of each kind (three outcomes, two outcomes): they differ
  in nothing else and run in any order. Three rows tell "first", "last" and "in the
  middle". The gate run needs neither.
- *Writers.* Two transactions, one of which arrives late, and two runs: of one job
  twice, for what the second makes of the first's traces, or of both side by side.
  A batch of one row and two users make a script that stops in the middle. Users
  differ in nothing but their names and the run checks invariants only, so it uses
  symmetry.

### Fairness

- Pool: `WF(Step(c))`. `Queue.get` has a timeout and the driver has its own, so
  whoever is inside the pool moves on. No thread has to call, and the server need
  not shut down.
- API: `WF(Handle(w))`, since a coroutine without `await` runs to its end and every
  call in it returns or raises; `WF(Tick)`, since time passes. Clients, ClickHouse,
  the pipeline and crashes are under no fairness. `Recovers` therefore names
  its conditions: ClickHouse stays up, latest rows are valid, nobody sends the
  worker an `as_of` that cannot be parsed, and clients keep asking for latest
  features. Each of them is needed: a lookup that ends in 404 does not close the
  breaker, and an `as_of` that cannot be parsed counts as a failure of ClickHouse.
- Store: `WF(Job)`, since the scheduler starts a run every four hours and a run
  goes on until it ends. Merges are under no fairness: ClickHouse promises none.
  `Converges` assumes that the silver tables rest and that runs stop failing.
- Capture: `WF(Publish)`, `WF(InsertBlock)`, `WF(CommitOffset)`: a running task and
  a running consumer go on. `WF(WorkerStarts)`, `WF(TaskStarts)`: ECS and Kafka
  Connect do their part. `WF(Act)`: a check that has read the status ends.
  `SF(ReadStatus)` and `SF(Restart)`: the health check is scheduled every five
  minutes without end, so one that finds the worker up again and again reads its
  status some time, and a worker that is asked to restart a failed task again and
  again does so some time; weak fairness would not do, since every check that finds no
  worker, or whose request is refused, ends and makes the step impossible until the
  next. Nobody has to write to PostgreSQL, source offsets need not be committed,
  merges need not happen, the operator need not come, nor a script that has asked go
  on to restart. Failures are bounded by
  `MaxFaults`, that is, they cease.
- DAGs and writers: none. Their properties are about safety; that a run of finite
  tasks and retries ends is Airflow's, not this code's.

### Where the code and what is said about it disagree

1. `ClickHousePool.execute` never returns its connection after a success
   (`clickhouse_client.py:56`): `return` inside the `try` block skips the `else`
   clause. After `POOL_SIZE` successful calls the pool is empty. No route
   calls `execute` today.
2. "HALF_OPEN - allow one probe" (`routes.py:51`): every call is admitted while
   HALF_OPEN. With one request at a time it takes a probe without an outcome, a 404 or a
   row that fails validation, to see it.
3. `docs/architecture-decisions/ADR-007-delivery-semantics.md:77` says that
   `ORDER BY valid_from DESC LIMIT 1` returns "the same row FINAL would return".
   Two runs of one snapshot time may compute different features, and until a
   merge the query may return the older row.
4. The same document, line 80, calls "the latest snapshot at or before the
   requested time" the point-in-time guarantee. The fallback of `get_features`
   answers a lookup before the first snapshot, or in a gap, with a later one.
5. `dags/feature_pipeline.py:9` says "Quality gate on Silver data. Fails DAG if
   checks fail." The audit task is the only leaf of the DAG and runs with
   `trigger_rule='all_done'`: a run whose gate failed is a success.

Met on the way and visible in the models without a run of their own:

- `write_dag_audit_log` asks for the state of the run it is part of, so every row it
  writes says `failed` (`AuditRows`; the comment at
  `dags/debezium_health_check.py:195-197` says so). An alert on such rows
  would fire after every run.
- `docs/architecture-decisions/ADR-007-delivery-semantics.md` and the README of the
  repository speak of silver as exactly-once, while `transactions_silver` is a plain
  `MergeTree` behind at-least-once hops, and its own definition keeps duplicates as
  evidence (`clickhouse/silver/01_transactions_silver.sql:3`). `OnlyInFlightRepeated`
  says which changes can be there more than once, and that there are none if nothing
  fails.
- `scripts/post_restart.sh` restarts the PostgreSQL connector's task "if needed"
  (line 41), but also when it could not read the status (line 52), when the task may be
  running; only the branch for MongoDB tells the two apart.
- A connector that is itself FAILED is never restarted by the health check, only
  reported (`FailedConnectorReported`).
- The bastion script and the DAG's job compute features from every transaction there
  is at their second query; only the Spark job filters by its snapshot
  (`SparkPointInTime`).

## What is proved

Each theorem holds for every value of the constants that satisfies the named
assumptions: `CircuitBreakerAssumption`, `PoolAssumption`, `BreakerAssumption`,
`ApiAssumption`, `StoreAssumption`, `NoRowAssumption`, `DagsAssumption`,
`HealthAssumption`, `CaptureAssumption`, `WritersAssumption`. They say that thresholds,
timeouts, sizes and bounds are natural numbers (positive where zero would make no
sense), that the sets that are counted are finite, and that there are more client
objects than slots. The bounds in the guards (`MaxTime`, `MaxFailures`, ...) are
constants too, so the theorems hold however large they are.

| module | theorem | states | argument |
|---|---|---|---|
| `CircuitBreakerProofs` | `TypeCorrect` | `TypeOK` | inductive |
| | `CountMatches` | `CountMatchesState` | inductive with the types: only the two `record_` methods touch the counter, and `can_execute` leaves OPEN only for HALF_OPEN |
| | `HalfOpenHasWaited` | `HalfOpenWaited` | inductive with the types; `Tick` keeps `Cooled`, and a set-back ends the premise |
| | `Refinement` | `ImplementsContract` | step by step, under `CountMatchesState`: each method maps to its contract step, `Leave` to a stutter, `Tick` to `Elapse`, `ClockSetBack` to `SetBack` |
| `ClickHousePoolProofs` | `TypeCorrect` | `TypeOK` | with `HeldMatchesPhase`: a caller has a connection exactly between `get` and `put` |
| | `NeverShared` | `NoSharing` | inductive with the above |
| | `SlotsKept` | `SlotsAccountedFor` | each step leaves the union of idle, held and lost as it is, or swaps one client for an unused one |
| | `PutHasRoom` | `PutNeverBlocks` | follows: the connection about to be returned is one of the `PoolSize` slots and not idle |
| | `SlotsCounted` | `ImplementsSlots` | step by step, under `NoSharing`: `get` is `Take`, `put` is `Give`, a successful `execute` is `Forget`, a broken client exchanged is a stutter, as cardinalities of sets that are finite because there are finitely many clients |
| | `NoCallStuck` | safety half of `EveryCallReturns` | from `SlotsAccountedFor` and `PutNeverBlocks`: there is a spare client and there is room |
| `FeatureApiProofs` | `TypeCorrect` | `TypeOK /\ PoolConserved` | conservation is what keeps `idle` within its type |
| | `TypesKept` | `TypeOK` | follows |
| | `Spared` | `FailingClickHouseSpared` | `BreakerInv`: an open breaker has counted the threshold, a HALF_OPEN one has no cooldown left, and a worker whose lookup is in flight is not OPEN |
| | `Serial` | `SerialBreakers` | each action maps to a `SerialNext` step of each worker's breaker or leaves it alone; `BreakerInv` gives the guard |
| | `StrikesAreFailures` | `OnlyQueriesCount`, in the proof module | no other method adds a strike (`NoStrikes`), and `Admit` finds the pool full, so `get` never raises and is never counted |
| | `PoolsServe` | `SlotPool!ServerNext`, per worker | from `PoolConserved` before and after the step |
| | `RecoveryLasts` | safety half of `Recovers` | `Recovered`: CLOSED and no exception on its way to the breaker; no step leaves it while all is well (`RecoveredStays`) |
| | `OpenUntilProbed` | how a worker leaves OPEN | from the steps the contract for serial callers allows (`BreakerSteps`) |
| `FeatureStoreProofs` | `TypeCorrect` | `TypeOK` | with `SnapshotReached`: the snapshot of a run is never later than the silver tables have reached (they only grow), so it never goes back; and `NothingPending` between runs |
| | `Complete` | `SuccessIsComplete` | `InsertedSoFar`: whoever is not pending has the run's row |
| | `HistoryKept` | `KeepsHistory` | `BeginRun` is `Advance`, by `SnapshotMonotone`; an INSERT, timed out or not, is `Publish`; everything else stutters |
| | `PastKept` | `PastIsReproducible` | the rows of a past snapshot stand still (`OtherSnapshotsStay`): a run writes only its own, which is the newest, and a merge only shrinks the choice a lookup has (`FirstShrinks`) |
| | `NoAnswerGoesBack` | `AnswersMoveOn`, also for steps that leave the table alone | `RowsReached`: no row is dated after the snapshot of the last run; rows are only added, and only for that snapshot (`OnlyAdded`); so what a temporal query finds for the first time is no earlier than what the fallback gave |
| | `RunsHeal` | safety half of `Converges` | `RunIsCurrent`: the run's snapshot and features are those of the silver tables as they are; while they rest, no step leaves it or undoes `CaughtUp` (`RestingStep`) |
| | `HistoryFreezes` | what `FeatureHistory` comes to | from `FeatureHistory` alone: only the column at the frontier changes |
| `DagsProofs` | `TypesKept` | `TypeOK` | `Attempted`: an attempt not yet made has not ended and one to be repeated may be (`TriesLeft`), rows the run does not have are never written (`NoOtherRows`), together with `RowsPerAttempt` |
| | `GateHolds` | `GateHoldsBack` | `GateWaits`: once the gate has been tried, all it waits for is finished and can report no more; if it has let the run pass, only others have a report in the window |
| | `AuditRowsSay` | `AuditRows` | `AuditLast`: only the audit task writes the row, and the connector checks are finished by then; the run is `running` while it does |
| | `RowsWritten` | `RowsPerAttempt` | from `Attempted`: an attempt adds its copies to a prefix, and a finished task runs no more |
| `ChangeCaptureProofs` | `TypesKept` | `TypeOK` | with lengths: offsets stay within the WAL, `pending` within the topic |
| | `NothingIsLost` | `NothingLost` | `OnItsWay`: every change up to `published` is stored or in the topic, and what is pending is stored; merges drop only what is superseded, by a number that is greater and so leads to a last one |
| | `RepeatsWereInFlight` | `OnlyInFlightRepeated` | `Once`, for a change nothing had reason to repeat: it is nowhere before the task has published it, then in one message at most, and once it is in silver that message is among those about to be committed. A task that comes up again makes everything after `acked` an exception, a consumer that does the block it had stored |
| | `CaughtUpForGood` | safety half of `CatchesUp` | `OnItsWay` with nothing on its way; `StoredStays` |
| | `SilverGrows` | no step takes a row from silver | each action that touches `copies` adds to it (`CopiesGrow`) |
| | `BronzeIsReplica` | `ImplementsReplica` | each action maps to a `Change`, a `Follow` or a stutter: an insertion can only raise the greatest change of a row that bronze holds; a merge leaves one row of it |
| `FeatureWritersProofs` | `TypesKept` | `TypeOK` | a MERGE leaves one Delta row per key, as `SparkRows` has one row per user |
| | `SparkRowsPointInTime` | `SparkPointInTime` | inductive: all rows come from `SparkRows` |
| | `CsvTrailKept` | `CsvTrailTrue` | `RunTrue`: the rows a run keeps passed the gate and are of its snapshot, those it counts as inserted are in the table, and at `Upload` that is all of them |
| | `DualWriteKept` | `DualWriteAgrees` | `HalfWritten`: from the Delta write until the week is over, a user outside `since` has in Delta the row a new query would give, in a file, under a log, that is too young for the clean-up; so neither marker nor clean-up reaches it, and the second write adds the same row to ClickHouse |

What one module assumes of another is among the theorems. `FeatureApi` lets a user's
latest row change but never vanish: `NoAnswerGoesBack`. `FeatureStore` lets transactions
arrive but never leave: `SilverGrows`. (Its `tx` is a set of times, so a transaction
passed on twice looks like one: features are represented by what they count, not by
how often.) `FeatureApi` keeps a small value for a
breaker and a number for a pool: `Refinement` and `SlotsCounted`, with `Serial` and
`PoolsServe` for the stronger contracts it keeps itself.

Only model-checked: the liveness properties `EveryCallReturns`,
`RequestsAnswered`, `Recovers`, `Converges`, `FailedTaskRevived`,
`FailedConnectorReported` and `CatchesUp`, which are out of the prover's reach. Of
four of them the safety halves are proved for all instances (see the table): what the
system must reach is never undone, and until it is reached some step towards it is
possible. What TLC adds is that under the fairness stated those steps are taken. Every
safety property, every action property and every refinement that a run checks is
stated by a theorem.

## What is not modelled, and why

- `/metrics`, logging and latency figures: output only.
- The arithmetic of the features and the narrow integer types they are cast to: a
  vector is represented by its inputs. What wraps around is listed as a hazard.
- The TTLs of the feature table (two years) and of silver (three and five), and rows
  of several feature versions: the job writes one version, and no row comes near a
  TTL in a model of this size.
- `validate_features` also writes to `gold.dq_results`: in `Dags` these rows are
  among those of others, which the gate counts too.
- The DAG's feature job beside the bastion script or the Spark job: `FeatureStore` has
  the one, `FeatureWriters` the other two.
- Capture from MongoDB, schema changes, the dead letter queue and messages that
  cannot be parsed (`errors.tolerance` is `all`), two changes of one row in the same
  millisecond, and the aggregate `user_active_credit`, which sums over what the views
  pass on and counts whatever `copies` counts.
- What dbt computes: only that its commands succeed or fail. A daily interval of
  settlements, the columns that drift, drift scores: data no property depends on.
- Data that `check_new_data` looks for, and `prev_execution_date_success`, which
  advances although a snapshot failed: listed as a hazard.
- ClickHouse's deduplication of inserted blocks: `docs/bug_log.md:229-231` reports that
  a block identical to one inserted before was silently dropped. In the models every
  INSERT that reaches ClickHouse adds its rows. It matters in `FeatureStore`, where a run
  that computes again what an earlier one had written, after another has written
  something else under the same snapshot (A, B, A), would be lost and `Converges` with it;
  in a second run of one of the jobs of `FeatureWriters`, whose rows would be there
  already; and in `Backfill`, which would add fewer copies than it does here. Blocks of
  the Kafka engine are unique, says the same document, and `copies` can only be smaller
  with it.
- The clean-up lists objects and then deletes them one by one: one step here, except
  that a CSV object may have been overwritten in between.
- Clearing or rerunning Airflow tasks by hand, and two runs of one DAG at a time.
- Everything listed as `not_modelled` in `PROJECT.json`, with its reason.

## Plan

Done: breaker and contract, pool, API, feature table and job, change capture with
the health check, the DAGs, the Spark job and the bastion script, and the proofs
of all of them.

Next, most important first:

1. The dbt marts and snapshots: incremental models with a three-day look-back and
   late transactions; hourly snapshots that are skipped after a failed one.
2. `FeatureStore` with the bastion script as a second writer of the same table: a
   later computation overtaken by an earlier one.
3. Migrations: apply, crash, record, apply again.
4. `user_active_credit` in `ChangeCapture`: what sums over every version of a
   transaction come to.
5. Feature values in their narrow integer types.
