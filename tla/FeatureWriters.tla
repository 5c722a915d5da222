---------------------------- MODULE FeatureWriters ---------------------------
(***************************************************************************)
(* The two writers of feature vectors that run outside Airflow, and the    *)
(* trails they leave in S3 under user_credit/:                             *)
(*   - the Spark job (spark/jobs/credit_feature_engineer.py) writes a Delta*)
(*     table and then ClickHouse;                                          *)
(*   - the bastion script (scripts/compute_features.py) writes ClickHouse  *)
(*     and then a CSV object, and puts an empty commit 0 into the log of   *)
(*     the Delta table.                                                    *)
(* The DAG's own job is FeatureStore.                                      *)
(*                                                                         *)
(* Spark's DataFrames are lazy and never cached: the count, the quality    *)
(* gate and each of the two writes query ClickHouse again.  The queries of *)
(* one step (it reads the transactions for two joins) are taken for one.   *)
(* The bastion script computes once and keeps the rows.                    *)
(***************************************************************************)
EXTENDS Naturals, FiniteSets

CONSTANTS Users,
          MaxTime,      \* bound: no transaction is created later
          MaxArrivals,  \* bound: transactions that reach the silver table
          MaxRuns,      \* bound: runs started, of the two jobs together
          Second,       \* ticks in a second
          BatchSize,    \* rows per INSERT of the bastion script
          Debts,        \* contents of the repayments and installments of a user
          Rejected      \* those whose features fail the quality gates

ASSUME WritersAssumption ==
  /\ MaxTime \in Nat /\ MaxArrivals \in Nat /\ MaxRuns \in Nat
  /\ Second \in Nat \ {0}
  /\ BatchSize \in Nat \ {0}
  /\ IsFiniteSet(Users)
  /\ Rejected \subseteq Debts

Times == 0..MaxTime
Rows == [user : Users, snapshot : Times, tx : SUBSET Times, debts : Debts]

VARIABLES
  tx,        \* tx[u]: created_at of u's rows in silver.transactions_silver
  debts,     \* debts[u]: what the other two silver tables hold of u
  bySpark,   \* rows the Spark job ever inserted into ClickHouse
  byBastion, \* rows the bastion script ever inserted
  delta,     \* rows in the data files of the Delta table, one per user and snapshot
  oldDelta,  \* those in files written more than a week ago
  log,       \* its log in S3: "none", "commits", or "broken"
  logAges,   \* ages of the files of the log: "old" is more than a week
  csv,       \* CSV objects, [snapshot, rows]
  spark,     \* where the Spark job is; "done": a run ended well within the week
  sparkTs,   \* snapshot_ts of its run, 0 if there is none
  since,     \* users whose rows changed since that run's Delta write, while it counts
  bastion,   \* where the bastion script is
  bastionTs, \* its snapshot_ts, 0 if it does not run
  rows,      \* its local variable insert_rows
  inserted,  \* those of them the run has inserted
  runs       \* runs started

silverVars == <<tx, debts>>
tableVars == <<bySpark, byBastion>>
deltaVars == <<delta, oldDelta, log, logAges>>
trailVars == <<deltaVars, csv>>
sparkVars == <<spark, sparkTs, since>>
bastionVars == <<bastion, bastionTs, rows, inserted>>
vars == <<silverVars, tableVars, trailVars, sparkVars, bastionVars, runs>>

TypeOK ==
  /\ tx \in [Users -> SUBSET Times]
  /\ debts \in [Users -> Debts]
  /\ bySpark \subseteq Rows
  /\ byBastion \subseteq Rows
  /\ delta \subseteq Rows
  /\ \A r, s \in delta : r.user = s.user /\ r.snapshot = s.snapshot => r = s
  /\ oldDelta \subseteq delta
  /\ log \in {"none", "commits", "broken"}
  /\ logAges \subseteq {"young", "old"}
  /\ log = "none" <=> logAges = {}
  /\ csv \subseteq [snapshot : Times, rows : SUBSET Rows]
  /\ spark \in {"idle", "gate", "delta", "clickhouse", "done"}
  /\ sparkTs \in Times
  /\ since \subseteq Users
  /\ bastion \in {"idle", "compute", "insert", "upload", "marker"}
  /\ bastionTs \in Times
  /\ rows \subseteq Rows
  /\ inserted \subseteq rows
  /\ runs \in 0..MaxRuns

Init ==
  /\ tx = [u \in Users |-> {}]
  /\ debts \in [Users -> Debts]
  /\ bySpark = {} /\ byBastion = {}
  /\ delta = {} /\ oldDelta = {} /\ log = "none" /\ logAges = {} /\ csv = {}
  /\ spark = "idle" /\ sparkTs = 0 /\ since = {}
  /\ bastion = "idle" /\ bastionTs = 0 /\ rows = {} /\ inserted = {}
  /\ runs = 0

-----------------------------------------------------------------------------
(* The silver tables *)

Arrived == Cardinality({p \in Users \X Times : p[2] \in tx[p[1]]})

\* Changes count against a Delta write that there is.
Changed(u) == since' = IF spark \in {"clickhouse", "done"} THEN since \cup {u} ELSE since

TransactionArrives(u) ==
  /\ Arrived < MaxArrivals
  /\ \E t \in Times \ tx[u] : tx' = [tx EXCEPT ![u] = @ \cup {t}]
  /\ Changed(u)
  /\ UNCHANGED <<debts, tableVars, trailVars, spark, sparkTs, bastionVars, runs>>

DebtsChange(u) ==
  /\ \E d \in Debts \ {debts[u]} : debts' = [debts EXCEPT ![u] = d]
  /\ Changed(u)
  /\ UNCHANGED <<tx, tableVars, trailVars, spark, sparkTs, bastionVars, runs>>

-----------------------------------------------------------------------------
(* The Spark job *)

\* The snapshot is max(created_at), the present if that lies in the far future,
\* or what --snapshot-ts says.
BeginSpark ==
  /\ spark \in {"idle", "done"}
  /\ runs < MaxRuns /\ runs' = runs + 1
  /\ spark' = "gate"
  /\ sparkTs' \in Times
  /\ since' = {}
  /\ UNCHANGED <<silverVars, tableVars, trailVars, bastionVars>>

\* A job that reads the transactions without the filter.
SparkTransactions_All(u) == tx[u]

\* ts_filter
SparkTransactions(u) == {t \in tx[u] : t <= sparkTs}

\* What a query of the features brings back at this moment.
SparkRows ==
  {[user |-> u, snapshot |-> sparkTs, tx |-> SparkTransactions(u), debts |-> debts[u]] :
     u \in {v \in Users : SparkTransactions(v) # {}}}

Passes(some) == \A r \in some : r.debts \notin Rejected

\* No transaction, or a row that fails a check: exit(1), nothing written.
QualityGate ==
  /\ spark = "gate"
  /\ IF SparkRows # {} /\ Passes(SparkRows)
       THEN spark' = "delta" /\ UNCHANGED sparkTs
       ELSE spark' = "idle" /\ sparkTs' = 0
  /\ UNCHANGED <<silverVars, tableVars, trailVars, since, bastionVars, runs>>

SameKey(r, s) == r.user = s.user /\ r.snapshot = s.snapshot

\* A write that appends instead of merging.
WriteToDelta_Append ==
  /\ spark = "delta"
  /\ log # "broken" /\ log' = "commits" /\ logAges' = logAges \cup {"young"}
  /\ delta' = delta \cup SparkRows
  /\ oldDelta' = oldDelta \ SparkRows
  /\ since' = {}
  /\ spark' = "clickhouse"
  /\ UNCHANGED <<silverVars, tableVars, csv, sparkTs, bastionVars, runs>>

\* MERGE on user_id and valid_from, or the creation of the table.  Any exception
\* is answered with mode("overwrite"), after which the table holds this run only.
\* A log without its commit 0 (no protocol, no metadata) can be neither merged into
\* nor overwritten: the job dies.
WriteToDelta ==
  /\ spark = "delta"
  /\ log # "broken" /\ log' = "commits" /\ logAges' = logAges \cup {"young"}
  /\ \/ delta' = {d \in delta : \A r \in SparkRows : ~SameKey(d, r)} \cup SparkRows
     \/ /\ log = "commits"
        /\ delta' = SparkRows
  /\ oldDelta' = (oldDelta \cap delta') \ SparkRows
  /\ since' = {}
  /\ spark' = "clickhouse"
  /\ UNCHANGED <<silverVars, tableVars, csv, sparkTs, bastionVars, runs>>

WriteToClickHouse ==
  /\ spark = "clickhouse"
  /\ bySpark' = bySpark \cup SparkRows
  /\ spark' = "done"
  /\ UNCHANGED <<silverVars, byBastion, trailVars, sparkTs, since, bastionVars, runs>>

\* Spark gives up in any step; the JDBC append is not atomic.
SparkDies ==
  /\ spark \in {"gate", "delta", "clickhouse"}
  /\ IF spark = "clickhouse"
       THEN \E some \in SUBSET SparkRows : bySpark' = bySpark \cup some
       ELSE UNCHANGED bySpark
  /\ spark' = "idle" /\ sparkTs' = 0 /\ since' = {}
  /\ UNCHANGED <<silverVars, byBastion, trailVars, bastionVars, runs>>

-----------------------------------------------------------------------------
(* The bastion script *)

\* The whole seconds up to max(created_at); the epoch, 0, when there is no
\* transaction.
SecondsReached ==
  {t \in Times : /\ t % Second = 0
                 /\ t = 0 \/ \E u \in Users : \E created \in tx[u] : t <= created}

\* The first query: max(created_at), of which max_ts_str[:19] cuts the milliseconds.
BeginBastion ==
  /\ bastion = "idle"
  /\ runs < MaxRuns /\ runs' = runs + 1
  /\ bastionTs' = CHOOSE t \in SecondsReached : \A s \in SecondsReached : s <= t
  /\ bastion' = "compute"
  /\ UNCHANGED <<silverVars, tableVars, trailVars, sparkVars, rows, inserted>>

\* What feature_sql brings back: every transaction there is by then.
BastionRows ==
  {[user |-> u, snapshot |-> bastionTs, tx |-> tx[u], debts |-> debts[u]] :
     u \in {v \in Users : tx[v] # {}}}

\* The second query and the quality gate over its answer.
Compute ==
  /\ bastion = "compute"
  /\ IF BastionRows # {} /\ Passes(BastionRows)
       THEN rows' = BastionRows /\ bastion' = "insert" /\ UNCHANGED bastionTs
       ELSE UNCHANGED rows /\ bastion' = "idle" /\ bastionTs' = 0
  /\ UNCHANGED <<silverVars, tableVars, trailVars, sparkVars, inserted, runs>>

BatchOf(left) ==
  {b \in SUBSET left : Cardinality(b) = IF Cardinality(left) < BatchSize
                                        THEN Cardinality(left) ELSE BatchSize}

\* A loop that stops after its first batch.
InsertBatch_First ==
  /\ bastion = "insert"
  /\ \E b \in BatchOf(rows) : byBastion' = byBastion \cup b
  /\ inserted' = {}
  /\ bastion' = "upload"
  /\ UNCHANGED <<silverVars, bySpark, trailVars, sparkVars, bastionTs, rows, runs>>

\* One turn of the loop over insert_rows; the rows come in any order.
InsertBatch ==
  /\ bastion = "insert"
  /\ \E b \in BatchOf(rows \ inserted) :
       /\ byBastion' = byBastion \cup b
       /\ inserted' = inserted \cup b
  /\ bastion' = IF inserted' = rows THEN "upload" ELSE "insert"
  /\ UNCHANGED <<silverVars, bySpark, trailVars, sparkVars, bastionTs, rows, runs>>

\* aws s3 cp to a name made of the version and snapshot_ts, over an object of that
\* name; a failure is only printed.
Upload ==
  /\ bastion = "upload"
  /\ \/ csv' = {c \in csv : c.snapshot # bastionTs}
                \cup {[snapshot |-> bastionTs, rows |-> rows]}
     \/ UNCHANGED csv
  /\ bastion' = "marker"
  /\ UNCHANGED <<silverVars, tableVars, deltaVars, sparkVars, bastionTs, rows, inserted, runs>>

\* {} over commit 0.  A checkpoint of the table may stand in for it; the result of
\* the command is not looked at.
PutMarker ==
  /\ bastion = "marker"
  /\ \/ log' = "broken" /\ logAges' = logAges \cup {"young"}
     \/ log = "commits" /\ log' = log /\ logAges' = logAges \cup {"young"}
     \/ UNCHANGED <<log, logAges>>
  /\ bastion' = "idle"
  /\ bastionTs' = 0 /\ rows' = {} /\ inserted' = {}
  /\ UNCHANGED <<silverVars, tableVars, delta, oldDelta, csv, sparkVars, runs>>

\* A query raises or the script is stopped; what it inserted stays.
BastionDies ==
  /\ bastion # "idle"
  /\ bastion' = "idle"
  /\ bastionTs' = 0 /\ rows' = {} /\ inserted' = {}
  /\ UNCHANGED <<silverVars, tableVars, trailVars, sparkVars, runs>>

-----------------------------------------------------------------------------
(* The DAG audit_log_compaction *)

\* Whatever there is in S3 gets older than seven days.  No run takes that long.
WeekPasses ==
  /\ spark \in {"idle", "done"} /\ bastion = "idle"
  /\ spark' = "idle" /\ sparkTs' = 0 /\ since' = {}
  /\ oldDelta' = delta
  /\ logAges' = {"old" : a \in logAges}
  /\ UNCHANGED <<silverVars, tableVars, delta, log, csv, bastionVars, runs>>

\* A clean-up that does not look at the age of a file.
CleanupOldAuditFiles_AnyAge ==
  /\ csv' \in SUBSET csv
  /\ delta' \in SUBSET delta
  /\ oldDelta' = oldDelta \cap delta'
  /\ UNCHANGED <<silverVars, tableVars, log, logAges, sparkVars, bastionVars, runs>>

\* Deletes objects under user_credit/ that are older than seven days, as many as one
\* page of the listing has, whoever is at work: data files and log files of the Delta
\* table among them.  A log may do without an old commit, thanks to a checkpoint, or
\* not; with its last file it is gone, and the table with it.  (CSV objects go at any
\* age, for one that was listed may be overwritten before it is deleted.)
CleanupOldAuditFiles ==
  /\ csv' \in SUBSET csv
  /\ logAges' \in {logAges, logAges \ {"old"}}
  /\ log' \in IF logAges' = {} THEN {"none"}
             ELSE IF "old" \in logAges THEN {log, "broken"} ELSE {log}
  /\ \E gone \in IF logAges' = {} THEN {oldDelta} ELSE SUBSET oldDelta :
       /\ delta' = delta \ gone
       /\ oldDelta' = oldDelta \ gone
  /\ UNCHANGED <<silverVars, tableVars, sparkVars, bastionVars, runs>>

-----------------------------------------------------------------------------
SparkNext ==
  \/ BeginSpark
  \/ QualityGate
  \/ WriteToDelta
  \/ WriteToClickHouse
  \/ SparkDies

BastionNext ==
  \/ BeginBastion
  \/ Compute
  \/ InsertBatch
  \/ Upload
  \/ PutMarker
  \/ BastionDies

Next ==
  \/ \E u \in Users : TransactionArrives(u) \/ DebtsChange(u)
  \/ SparkNext
  \/ BastionNext
  \/ WeekPasses
  \/ CleanupOldAuditFiles

Spec == Init /\ [][Next]_vars

-----------------------------------------------------------------------------
(* Properties *)

\* Whatever arrives in the silver tables between its queries, no row the Spark job
\* inserts counts a transaction later than the row's snapshot_ts: the filter is in
\* the query that every lazy action sends again.  (The bastion script has no such
\* filter, and its rows do.)
SparkPointInTime == \A r \in bySpark : \A t \in r.tx : t <= r.snapshot

\* A CSV object is a true record of a run of the bastion script: one object per
\* snapshot, of which every row passed the quality gate and lies in ClickHouse,
\* although runs die between batches and silver changes under them.
CsvTrailTrue ==
  /\ \A c, d \in csv : c.snapshot = d.snapshot => c = d
  /\ \A c \in csv : /\ c.rows # {}
                    /\ c.rows \subseteq byBastion
                    /\ \A r \in c.rows : r.snapshot = c.snapshot /\ r.debts \notin Rejected

\* Within a week of a Spark run that ended well, the two tables it writes agree on
\* every user whose data stood still since its first write: the row is in a data file
\* of Delta and in ClickHouse, although marker and clean-up work on the files of the
\* table all the while.  (For other users they need not agree, each write computes the
\* features again; and that Delta's log can still be read is not said.)
DualWriteAgrees ==
  spark = "done" => \A r \in SparkRows : r.user \notin since => r \in delta /\ r \in bySpark

=============================================================================
