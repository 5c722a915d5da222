----------------------------- MODULE FeatureStore -----------------------------
(***************************************************************************)
(* The table feature_store.user_credit_features, the job that fills it      *)
(* (dags/utils/compute_features.py, run by the feature_pipeline DAG one run *)
(* at a time) and the two queries of the API that read it without FINAL     *)
(* (api/feature_store/routes.py:72-90,140-149).                             *)
(*                                                                         *)
(* Time is counted in ticks, Second of them to a second: created_at has     *)
(* milliseconds, a snapshot does not.  A user's feature vector is kept as   *)
(* the data it was computed from: the times of the transactions counted and *)
(* a value that stands for the repayments and installments joined to them.  *)
(***************************************************************************)
EXTENDS Naturals, FiniteSets, FiniteSetsExt

CONSTANTS Users,
          MaxTime,    \* bound: no transaction is created later
          MaxArrivals,  \* bound: transactions that reach the silver table
          Second,     \* ticks in a second
          ValidFor,   \* SNAPSHOT_INTERVAL_HOURS, in ticks
          BatchSize,  \* rows per INSERT
          Debts,      \* contents of the repayments and installments of a user
          Rejected,   \* those whose features validate_features removes
          NoRow

ASSUME StoreAssumption ==
  /\ MaxTime \in Nat
  /\ MaxArrivals \in Nat
  /\ Second \in Nat \ {0}
  /\ ValidFor \in Nat \ {0}
  /\ BatchSize \in Nat \ {0}
  /\ IsFiniteSet(Users)
  /\ Rejected \subseteq Debts

Times == 0..MaxTime
Features == [tx : SUBSET Times, debts : Debts]

ASSUME NoRowAssumption == NoRow \notin Features

VARIABLES
  tx,        \* tx[u]: created_at of u's rows in silver.transactions_silver
  debts,     \* debts[u]: what the other two silver tables hold of u
  newest,    \* newest[u][t]: the row with key (u, t) inserted last
  stale,     \* stale[u][t]: rows of that key it replaces, not merged away yet
  phase,     \* where the job is; "failed" and "succeeded" between two runs
  snapshot,  \* snapshot_ts of the current run or the last one
  features,  \* that run's features that passed the validation, by user
  pending    \* users whose rows are still to be inserted

silverVars == <<tx, debts>>
tableVars == <<newest, stale>>
jobVars == <<phase, snapshot, features, pending>>
vars == <<silverVars, tableVars, jobVars>>

Resting == {"never", "failed", "succeeded"}

TypeOK ==
  /\ tx \in [Users -> SUBSET Times]
  /\ debts \in [Users -> Debts]
  /\ newest \in [Users -> [Times -> Features \cup {NoRow}]]
  /\ stale \in [Users -> [Times -> SUBSET Features]]
  /\ phase \in Resting \cup {"computing", "inserting"}
  /\ snapshot \in Times
  /\ DOMAIN features \subseteq Users
  /\ \A u \in DOMAIN features : features[u] \in Features
  /\ pending \subseteq DOMAIN features

Init ==
  /\ tx = [u \in Users |-> {}]
  /\ debts \in [Users -> Debts]
  /\ newest = [u \in Users |-> [t \in Times |-> NoRow]]
  /\ stale = [u \in Users |-> [t \in Times |-> {}]]
  /\ phase = "never"
  /\ snapshot = 0
  /\ features = << >>
  /\ pending = {}

-----------------------------------------------------------------------------
(* The silver tables, filled by change data capture *)

\* How many transactions the silver table holds.
Arrived == Cardinality({p \in Users \X Times : p[2] \in tx[p[1]]})

\* A transaction reaches the silver table, in any order of created_at.
TransactionArrives(u) ==
  /\ Arrived < MaxArrivals
  /\ \E t \in Times \ tx[u] : tx' = [tx EXCEPT ![u] = @ \cup {t}]
  /\ UNCHANGED <<debts, tableVars, jobVars>>

DebtsChange(u) ==
  /\ \E d \in Debts : debts' = [debts EXCEPT ![u] = d]
  /\ UNCHANGED <<tx, tableVars, jobVars>>

-----------------------------------------------------------------------------
(* The job *)

WholeSeconds == {t \in Times : t % Second = 0}

\* The first created_at in place of the last.
SnapshotTs_Earliest(arrived) ==
  Max({t \in WholeSeconds :
         t = 0 \/ \A u \in Users : \A created \in arrived[u] : t <= created})

\* max(created_at) cut to whole seconds; the epoch if there is no transaction.
SnapshotTs(arrived) ==
  Max({t \in WholeSeconds :
         t = 0 \/ \E u \in Users : \E created \in arrived[u] : t <= created})

FeaturesOf(u) == [tx |-> tx[u], debts |-> debts[u]]

\* main asks ClickHouse for the snapshot time.
BeginRun ==
  /\ phase \in Resting
  /\ phase' = "computing"
  /\ snapshot' = SnapshotTs(tx)
  /\ features' = << >>
  /\ UNCHANGED <<silverVars, tableVars, pending>>

\* A validation whose result is dropped: every user computed is written.
ComputeFeatures_GateIgnored ==
  /\ phase = "computing"
  /\ pending' = {u \in Users : tx[u] # {}}
  /\ features' = [u \in {v \in pending' : debts[v] \notin Rejected} |-> FeaturesOf(u)]
  /\ phase' = IF pending' = {} THEN "failed" ELSE "inserting"
  /\ UNCHANGED <<silverVars, tableVars, snapshot>>

\* The features query, a second look at the silver tables, and validate_features,
\* which drops the rows of users that fail it.  No row left is an error.
ComputeFeatures ==
  /\ phase = "computing"
  /\ pending' = {u \in Users : tx[u] # {} /\ debts[u] \notin Rejected}
  /\ features' = [u \in pending' |-> FeaturesOf(u)]
  /\ phase' = IF pending' = {} THEN "failed" ELSE "inserting"
  /\ UNCHANGED <<silverVars, tableVars, snapshot>>

\* A table that keeps the first of two rows with one key and one version.
Store_KeepsFirst(batch) ==
  /\ newest' = [u \in Users |->
       IF u \in batch /\ newest[u][snapshot] = NoRow
         THEN [newest[u] EXCEPT ![snapshot] = features[u]]
         ELSE newest[u]]
  /\ UNCHANGED stale

\* A table whose rows are keyed by user_id alone.
Store_ByUser(batch) ==
  /\ newest' = [u \in Users |->
       IF u \in batch
         THEN [t \in Times |-> IF t = snapshot THEN features[u] ELSE NoRow]
         ELSE newest[u]]
  /\ UNCHANGED stale

\* An INSERT is one block and atomic.  snapshot_ts, the version column, equals
\* valid_from, so two rows of a key always tie and the one inserted later wins.
Store(batch) ==
  /\ newest' = [u \in Users |->
       IF u \in batch THEN [newest[u] EXCEPT ![snapshot] = features[u]]
                      ELSE newest[u]]
  /\ stale' = [u \in Users |->
       IF u \in batch /\ newest[u][snapshot] # NoRow
         THEN [stale[u] EXCEPT ![snapshot] = @ \cup {newest[u][snapshot]}]
         ELSE stale[u]]

Batches == {batch \in SUBSET pending :
              Cardinality(batch) = Min({BatchSize, Cardinality(pending)})}

\* A loop that stops one row early.
InsertBatch_OffByOne ==
  /\ phase = "inserting"
  /\ \E batch \in Batches :
       /\ Store(batch)
       /\ pending' = IF Cardinality(pending \ batch) <= 1
                       THEN {} ELSE pending \ batch
  /\ phase' = IF pending' = {} THEN "succeeded" ELSE phase
  /\ UNCHANGED <<silverVars, snapshot, features>>

InsertBatch ==
  /\ phase = "inserting"
  /\ \E batch \in Batches : Store(batch) /\ pending' = pending \ batch
  /\ phase' = IF pending' = {} THEN "succeeded" ELSE phase
  /\ UNCHANGED <<silverVars, snapshot, features>>

Abort == phase' = "failed" /\ pending' = {} /\ UNCHANGED <<snapshot, features>>

\* A request to ClickHouse fails, or the process dies; nothing is undone.
RunFails ==
  /\ phase \notin Resting
  /\ Abort
  /\ UNCHANGED <<silverVars, tableVars>>

\* An INSERT that ClickHouse carried out but whose answer came too late.
InsertTimesOut ==
  /\ phase = "inserting"
  /\ \E batch \in Batches : Store(batch)
  /\ Abort
  /\ UNCHANGED silverVars

Job == BeginRun \/ ComputeFeatures \/ InsertBatch

\* A background merge drops rows that the newest one of their key replaces.
Merge(u, t) ==
  /\ \E kept \in SUBSET stale[u][t] :
       /\ kept # stale[u][t]
       /\ stale' = [stale EXCEPT ![u][t] = kept]
  /\ UNCHANGED <<silverVars, newest, jobVars>>

Next ==
  \/ \E u \in Users : TransactionArrives(u) \/ DebtsChange(u)
  \/ Job
  \/ RunFails
  \/ InsertTimesOut
  \/ \E u \in Users, t \in Times : Merge(u, t)

\* The scheduler starts the job every four hours and a run that started goes
\* on; ClickHouse promises no merge.
Spec == Init /\ [][Next]_vars /\ WF_vars(Job)

-----------------------------------------------------------------------------
(* The reads of the API *)

Row(u, t, f) == [user |-> u, valid_from |-> t, features |-> f]

\* The rows of u with one of the given keys that sort first; LIMIT 1 takes any.
First(u, keys) ==
  LET found == {t \in keys : newest[u][t] # NoRow}
  IN  IF found = {} THEN {}
      ELSE LET t == Max(found)
           IN  {Row(u, t, f) : f \in {newest[u][t]} \cup stale[u][t]}

\* LATEST_QUERY
Latest(u) == First(u, Times)

\* POINT_IN_TIME_QUERY
PointInTime(u, as_of) ==
  First(u, {t \in Times : t <= as_of /\ t + ValidFor > as_of})

\* The rows get_features may answer a lookup with an as_of from.
AsOf(u, as_of) ==
  IF PointInTime(u, as_of) = {} THEN Latest(u) ELSE PointInTime(u, as_of)

-----------------------------------------------------------------------------
(* Properties *)

\* A run that reports success has written every batch: each user whose
\* features passed the validation has this run's row, and no other insert,
\* merge or half-finished earlier run of the same snapshot hides it.
SuccessIsComplete ==
  phase = "succeeded" =>
    \A u \in DOMAIN features : newest[u][snapshot] = features[u]

\* A point-in-time lookup is reproducible: once the temporal query finds a row
\* for a time before the current snapshot, it finds that row, with nothing
\* newly mixed in, for ever - whatever transactions arrive late, however many
\* runs fail halfway and whenever ClickHouse merges.
PastIsReproducible ==
  [][\A u \in Users : \A t \in Times :
       t < snapshot /\ PointInTime(u, t) # {} =>
         /\ PointInTime(u, t)' # {}
         /\ PointInTime(u, t)' \subseteq PointInTime(u, t)]_vars

\* Whoever asks again gets a row again, and none of an earlier snapshot - also
\* when the first answer came from the fallback to the latest row and the second
\* from the temporal query, while batches of a run, failed runs and merges of
\* replaced rows go on in between.  (A step that leaves newest alone changes no
\* valid_from of an answer; leaving such steps out only saves time.)
MovesOn(old, new) ==
  old # {} => /\ new # {}
              /\ \A r \in old, s \in new : r.valid_from <= s.valid_from

AnswersMoveOn ==
  [][\A u \in Users :
       newest'[u] # newest[u] =>
         /\ MovesOn(Latest(u), Latest(u)')
         /\ \A t \in Times : MovesOn(AsOf(u, t), AsOf(u, t)')]_vars

\* A reader that used FINAL would see a history that only grows at its end.
History == INSTANCE FeatureHistory WITH table <- newest, frontier <- snapshot
KeepsHistory == History!Spec

Settled == [][UNCHANGED silverVars /\ ~RunFails /\ ~InsertTimesOut]_vars

\* Half-finished runs heal: once the silver tables rest and runs stop failing,
\* every user the validation accepts ends up with features computed from all
\* of his data.
Converges ==
  <>Settled =>
    <>[](\A u \in Users :
           tx[u] # {} /\ debts[u] \notin Rejected =>
             newest[u][SnapshotTs(tx)] = FeaturesOf(u))

\* ADR-007:77: ORDER BY valid_from DESC LIMIT 1 "returns the most recent
\* snapshot, which is the same row FINAL would return after deduplication".
\* Two runs of one snapshot may compute different features, and until a merge
\* the query may return either.
SameRowAsFinal ==
  \A u \in Users : \A r \in Latest(u) : r.features = newest[u][r.valid_from]

\* ADR-007:80: a lookup with an as_of returns "the latest snapshot at or before
\* the requested time - this is the point-in-time correctness guarantee".  The
\* fallback of get_features returns a later one.
NothingFromTheFuture ==
  \A u \in Users, t \in Times : \A r \in AsOf(u, t) : r.valid_from <= t
=============================================================================
