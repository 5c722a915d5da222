-------------------------- MODULE FeatureStoreProofs -------------------------
(***************************************************************************)
(* The feature table keeps its history, a run that succeeds is complete and *)
(* no answer of the API goes back to an earlier snapshot, for any users,    *)
(* times and batch size, and however transactions arrive, runs fail and     *)
(* merges happen.                                                          *)
(***************************************************************************)
EXTENDS FeatureStore, WellFoundedInduction, TLAPS

USE StoreAssumption, NoRowAssumption

-----------------------------------------------------------------------------
(* The snapshot time *)

\* A nonempty set of times has a greatest element, and Max picks it.
LEMMA MaxOfTimes ==
  ASSUME NEW S \in SUBSET Times, S # {}
  PROVE  Max(S) \in S /\ \A t \in S : t <= Max(S)
<1> DEFINE Left == {MaxTime - t : t \in S}
<1>1. Left \subseteq Nat /\ Left # {}
  BY DEF Times
<1>2. PICK x \in Left : \A y \in Left : ~ (<<y, x>> \in OpToRel(<, Nat))
  <2> HIDE DEF Left
  <2>1. QED
    BY <1>1, NatLessThanWellFounded, WFMin
<1>3. PICK m \in S : x = MaxTime - m
  OBVIOUS
<1>4. \A t \in S : t <= m
  <2> SUFFICES ASSUME NEW t \in S PROVE t <= m
    OBVIOUS
  <2>1. MaxTime - t \in Left
    OBVIOUS
  <2>2. ~ (MaxTime - t < MaxTime - m)
    BY <1>1, <1>2, <1>3, <2>1 DEF OpToRel
  <2>3. QED
    BY <2>2 DEF Times
<1>5. \E n \in S : \A t \in S : n >= t
  BY <1>4 DEF Times
<1>6. QED
  BY <1>5 DEF Max, Times

\* The snapshot time is a time, and never goes back while transactions are
\* only added.
LEMMA SnapshotMonotone ==
  ASSUME NEW a \in [Users -> SUBSET Times], NEW b \in [Users -> SUBSET Times],
         \A u \in Users : a[u] \subseteq b[u]
  PROVE  /\ SnapshotTs(a) \in Times
         /\ SnapshotTs(a) <= SnapshotTs(b)
<1> DEFINE Reached(x) ==
      {t \in WholeSeconds :
         t = 0 \/ \E u \in Users : \E created \in x[u] : t <= created}
<1>1. 0 \in WholeSeconds
  BY DEF WholeSeconds, Times
<1>2. \A x : Reached(x) \in SUBSET Times /\ 0 \in Reached(x)
  BY <1>1 DEF WholeSeconds
<1>3. Reached(a) \subseteq Reached(b)
  OBVIOUS
<1>4. SnapshotTs(a) = Max(Reached(a)) /\ SnapshotTs(b) = Max(Reached(b))
  BY DEF SnapshotTs
<1> HIDE DEF Reached
<1>5. Max(Reached(a)) \in Reached(a)
  BY <1>2, MaxOfTimes
<1>6. \A t \in Reached(b) : t <= Max(Reached(b))
  BY <1>2, MaxOfTimes
<1>7. QED
  BY <1>2, <1>3, <1>4, <1>5, <1>6

-----------------------------------------------------------------------------
(* Types *)

\* The run under way never started from a time the silver table has not
\* reached.
SnapshotReached == snapshot <= SnapshotTs(tx)

\* Between two runs nothing is left to insert.
NothingPending == phase \in Resting => pending = {}

\* A batch that is stored leaves the table well typed.
LEMMA StoreTypes ==
  ASSUME TypeOK, NEW batch \in Batches, Store(batch)
  PROVE  /\ newest' \in [Users -> [Times -> Features \cup {NoRow}]]
         /\ stale' \in [Users -> [Times -> SUBSET Features]]
<1>1. batch \subseteq DOMAIN features
  BY DEF TypeOK, Batches
<1>2. QED
  BY <1>1 DEF TypeOK, Store

\* Every reachable state is well typed, and snapshots only move forward.
THEOREM TypeCorrect == Spec => [](TypeOK /\ SnapshotReached /\ NothingPending)
<1> DEFINE Good == TypeOK /\ SnapshotReached /\ NothingPending
<1>1. Init => Good
  <2> SUFFICES ASSUME Init PROVE Good
    OBVIOUS
  <2>1. TypeOK
    BY DEF Init, TypeOK, Times, Features, Resting
  <2>2. QED
    BY <2>1, SnapshotMonotone
       DEF Init, TypeOK, SnapshotReached, NothingPending, Times
<1>2. Good /\ [Next]_vars => Good'
  <2> SUFFICES ASSUME TypeOK, SnapshotReached, NothingPending, [Next]_vars
               PROVE  Good'
    OBVIOUS
  <2> USE DEF tableVars, jobVars, silverVars, NothingPending, Resting
  <2>1. ASSUME NEW u \in Users, TransactionArrives(u) PROVE Good'
    <3>1. tx' \in [Users -> SUBSET Times] /\ \A v \in Users : tx[v] \subseteq tx'[v]
      BY <2>1 DEF TransactionArrives, TypeOK
    <3>2. TypeOK'
      BY <2>1, <3>1 DEF TransactionArrives, TypeOK
    <3>3. SnapshotTs(tx) <= SnapshotTs(tx')
      BY <3>1, SnapshotMonotone DEF TypeOK
    <3>4. SnapshotTs(tx) \in Times /\ SnapshotTs(tx') \in Times
      BY <3>1, SnapshotMonotone DEF TypeOK
    <3>5. SnapshotTs(tx)' = SnapshotTs(tx')
      BY DEF SnapshotTs, WholeSeconds, Times
    <3>6. QED
      BY <2>1, <3>2, <3>3, <3>4, <3>5
         DEF TransactionArrives, SnapshotReached, TypeOK, Times
  <2>2. ASSUME NEW u \in Users, DebtsChange(u) PROVE Good'
    <3>1. TypeOK'
      BY <2>2 DEF DebtsChange, TypeOK
    <3>2. QED
      BY <2>2, <3>1 DEF DebtsChange, SnapshotReached, SnapshotTs
  <2>3. CASE BeginRun
    <3>1. SnapshotTs(tx) \in Times
      BY SnapshotMonotone DEF TypeOK
    <3>2. snapshot' = SnapshotTs(tx)'
      BY <2>3 DEF BeginRun, SnapshotTs
    <3>3. TypeOK'
      BY <2>3, <3>1 DEF BeginRun, TypeOK
    <3>4. QED
      BY <2>3, <3>1, <3>2, <3>3 DEF BeginRun, SnapshotReached, Times
  <2>4. CASE ComputeFeatures
    <3>1. \A u \in Users : FeaturesOf(u) \in Features
      BY DEF FeaturesOf, Features, TypeOK
    <3>2. TypeOK'
      BY <2>4, <3>1 DEF ComputeFeatures, TypeOK
    <3>3. QED
      BY <2>4, <3>2 DEF ComputeFeatures, SnapshotReached, SnapshotTs
  <2>5. CASE InsertBatch
    <3>1. PICK batch \in Batches : Store(batch) /\ pending' = pending \ batch
      BY <2>5 DEF InsertBatch
    <3>2. TypeOK'
      BY <2>5, <3>1, StoreTypes DEF InsertBatch, TypeOK
    <3>3. QED
      BY <2>5, <3>2 DEF InsertBatch, SnapshotReached, SnapshotTs
  <2>6. CASE RunFails
    <3>1. TypeOK'
      BY <2>6 DEF RunFails, Abort, TypeOK, Resting
    <3>2. QED
      BY <2>6, <3>1 DEF RunFails, Abort, SnapshotReached, SnapshotTs
  <2>7. CASE InsertTimesOut
    <3>1. PICK batch \in Batches : Store(batch)
      BY <2>7 DEF InsertTimesOut
    <3>2. TypeOK'
      BY <2>7, <3>1, StoreTypes DEF InsertTimesOut, Abort, TypeOK, Resting
    <3>3. QED
      BY <2>7, <3>2 DEF InsertTimesOut, Abort, SnapshotReached, SnapshotTs
  <2>8. ASSUME NEW u \in Users, NEW t \in Times, Merge(u, t) PROVE Good'
    <3>1. PICK kept \in SUBSET stale[u][t] : stale' = [stale EXCEPT ![u][t] = kept]
      BY <2>8 DEF Merge
    <3>2. kept \in SUBSET Features
      BY DEF TypeOK
    <3>3. TypeOK'
      BY <2>8, <3>1, <3>2 DEF Merge, TypeOK
    <3>4. QED
      BY <2>8, <3>3 DEF Merge, SnapshotReached, SnapshotTs
  <2>9. CASE UNCHANGED vars
    BY <2>9 DEF vars, TypeOK, SnapshotReached, SnapshotTs
  <2>10. QED
    BY <2>1, <2>2, <2>3, <2>4, <2>5, <2>6, <2>7, <2>8, <2>9 DEF Next, Job
<1>3. QED
  BY <1>1, <1>2, PTL DEF Spec

-----------------------------------------------------------------------------
(* A run that succeeds is complete *)

\* What the run under way, or a successful one, no longer has to insert is in
\* the table.
InsertedSoFar ==
  phase \in {"inserting", "succeeded"} =>
    \A u \in DOMAIN features \ pending : newest[u][snapshot] = features[u]

\* A run ends as "succeeded" only when nothing is pending, and then each user
\* that passed the validation has the row of this run.
THEOREM Complete == Spec => []SuccessIsComplete
<1>1. Init => InsertedSoFar
  BY DEF Init, InsertedSoFar
<1>2. TypeOK /\ NothingPending /\ InsertedSoFar /\ [Next]_vars => InsertedSoFar'
  <2> SUFFICES ASSUME TypeOK, NothingPending, InsertedSoFar, [Next]_vars
               PROVE  InsertedSoFar'
    OBVIOUS
  <2> USE DEF tableVars, jobVars, silverVars, InsertedSoFar
  <2>1. ASSUME NEW u \in Users, TransactionArrives(u) \/ DebtsChange(u)
        PROVE  InsertedSoFar'
    BY <2>1 DEF TransactionArrives, DebtsChange
  <2>2. CASE BeginRun
    BY <2>2 DEF BeginRun
  <2>3. CASE ComputeFeatures
    BY <2>3 DEF ComputeFeatures
  <2>4. CASE InsertBatch
    <3>1. PICK batch \in Batches : Store(batch) /\ pending' = pending \ batch
      BY <2>4 DEF InsertBatch
    <3>2. \A u \in DOMAIN features \ pending : newest'[u][snapshot] = features[u]
      BY <2>4, <3>1 DEF InsertBatch, Store, TypeOK
    <3>3. \A u \in batch : newest'[u][snapshot] = features[u]
      BY <3>1 DEF Store, Batches, TypeOK
    <3>4. QED
      BY <2>4, <3>1, <3>2, <3>3 DEF InsertBatch
  <2>5. CASE RunFails \/ InsertTimesOut
    BY <2>5 DEF RunFails, InsertTimesOut, Abort
  <2>6. ASSUME NEW u \in Users, NEW t \in Times, Merge(u, t)
        PROVE  InsertedSoFar'
    BY <2>6 DEF Merge
  <2>7. CASE UNCHANGED vars
    BY <2>7 DEF vars
  <2>8. QED
    BY <2>1, <2>2, <2>3, <2>4, <2>5, <2>6, <2>7 DEF Next, Job
<1>3. NothingPending /\ InsertedSoFar => SuccessIsComplete
  BY DEF NothingPending, InsertedSoFar, SuccessIsComplete, Resting
<1>4. QED
  BY <1>1, <1>2, <1>3, TypeCorrect, PTL DEF Spec

-----------------------------------------------------------------------------
(* The history *)

\* A batch touches one snapshot, the current one.
LEMMA StorePublishes ==
  ASSUME TypeOK, NEW batch \in Batches, Store(batch), UNCHANGED snapshot
  PROVE  History!Publish
<1>1. batch \subseteq DOMAIN features /\ snapshot \in Times
  BY DEF TypeOK, Batches
<1>2. DOMAIN newest' = Users
  BY DEF Store
<1>3. ASSUME NEW u \in Users
      PROVE  \E f \in Features \cup {newest[u][snapshot]} :
               newest'[u] = [newest[u] EXCEPT ![snapshot] = f]
  <2>1. CASE u \in batch
    BY <1>1, <2>1 DEF Store, TypeOK
  <2>2. CASE u \notin batch
    <3>1. newest'[u] = newest[u]
      BY <2>2 DEF Store
    <3>2. newest[u] = [newest[u] EXCEPT ![snapshot] = newest[u][snapshot]]
      BY <1>1 DEF TypeOK
    <3>3. QED
      BY <3>1, <3>2
  <2>3. QED
    BY <2>1, <2>2
<1>4. QED
  BY <1>2, <1>3 DEF History!Publish

\* With FINAL the table is a history: what was written for an earlier snapshot
\* is never written again, because the next run's snapshot is never earlier.
THEOREM HistoryKept == Spec => KeepsHistory
<1>1. Init => History!Init
  BY DEF Init, History!Init
<1>2. TypeOK /\ SnapshotReached /\ [Next]_vars
        => [History!Next]_<<newest, snapshot>>
  <2> SUFFICES ASSUME TypeOK, SnapshotReached, [Next]_vars
               PROVE  [History!Next]_<<newest, snapshot>>
    OBVIOUS
  <2> USE DEF tableVars, jobVars, silverVars
  <2>1. ASSUME NEW u \in Users, TransactionArrives(u) \/ DebtsChange(u)
        PROVE  UNCHANGED <<newest, snapshot>>
    BY <2>1 DEF TransactionArrives, DebtsChange
  <2>2. CASE BeginRun
    <3>1. SnapshotTs(tx) \in Times
      BY SnapshotMonotone DEF TypeOK
    <3>2. History!Advance
      BY <2>2, <3>1 DEF BeginRun, SnapshotReached, History!Advance
    <3>3. QED
      BY <3>2 DEF History!Next
  <2>3. CASE ComputeFeatures \/ RunFails
    BY <2>3 DEF ComputeFeatures, RunFails, Abort
  <2>4. CASE InsertBatch \/ InsertTimesOut
    <3>1. \E batch \in Batches : Store(batch)
      BY <2>4 DEF InsertBatch, InsertTimesOut
    <3>2. UNCHANGED snapshot
      BY <2>4 DEF InsertBatch, InsertTimesOut, Abort
    <3>3. QED
      BY <3>1, <3>2, StorePublishes DEF History!Next
  <2>5. ASSUME NEW u \in Users, NEW t \in Times, Merge(u, t)
        PROVE  UNCHANGED <<newest, snapshot>>
    BY <2>5 DEF Merge
  <2>6. CASE UNCHANGED vars
    BY <2>6 DEF vars
  <2>7. QED
    BY <2>1, <2>2, <2>3, <2>4, <2>5, <2>6 DEF Next, Job
<1>3. QED
  BY <1>1, <1>2, TypeCorrect, PTL DEF Spec, KeepsHistory, History!Spec

-----------------------------------------------------------------------------
(* Lookups in the past *)

\* Only the rows of the current snapshot are ever added to; merges drop replaced
\* rows of any.
LEMMA OtherSnapshotsStay ==
  ASSUME TypeOK, [Next]_vars, NEW u \in Users, NEW k \in Times, k # snapshot
  PROVE  newest'[u][k] = newest[u][k] /\ stale'[u][k] \subseteq stale[u][k]
<1> USE DEF tableVars, jobVars, silverVars
<1>1. CASE InsertBatch \/ InsertTimesOut
  <2>1. PICK batch \in Batches : Store(batch)
    BY <1>1 DEF InsertBatch, InsertTimesOut
  <2>2. newest'[u][k] = newest[u][k]
    BY <2>1 DEF Store, TypeOK
  <2>3. stale'[u][k] = stale[u][k]
    BY <2>1 DEF Store, TypeOK
  <2>4. QED
    BY <2>2, <2>3
<1>2. ASSUME NEW v \in Users, NEW t \in Times, Merge(v, t)
      PROVE  newest'[u][k] = newest[u][k] /\ stale'[u][k] \subseteq stale[u][k]
  <2>1. PICK kept \in SUBSET stale[v][t] : stale' = [stale EXCEPT ![v][t] = kept]
    BY <1>2 DEF Merge
  <2>2. stale'[u][k] \subseteq stale[u][k]
    BY <2>1 DEF TypeOK
  <2>3. QED
    BY <1>2, <2>2 DEF Merge
<1>3. ASSUME UNCHANGED tableVars
      PROVE  newest'[u][k] = newest[u][k] /\ stale'[u][k] \subseteq stale[u][k]
  BY <1>3
<1>4. ASSUME NEW v \in Users, TransactionArrives(v) \/ DebtsChange(v)
      PROVE  UNCHANGED tableVars
  BY <1>4 DEF TransactionArrives, DebtsChange
<1>5. CASE BeginRun \/ ComputeFeatures \/ RunFails \/ UNCHANGED vars
  BY <1>3, <1>5 DEF BeginRun, ComputeFeatures, RunFails, vars
<1>6. QED
  BY <1>1, <1>2, <1>3, <1>4, <1>5 DEF Next, Job

\* A query over keys whose rows are not added to finds no new row, and finds one
\* if it found one before.
LEMMA FirstShrinks ==
  ASSUME NEW u \in Users, NEW keys \in SUBSET Times, First(u, keys) # {},
         \A k \in keys : /\ newest'[u][k] = newest[u][k]
                        /\ stale'[u][k] \subseteq stale[u][k]
  PROVE  First(u, keys)' # {} /\ First(u, keys)' \subseteq First(u, keys)
<1> DEFINE found == {t \in keys : newest[u][t] # NoRow}
<1> DEFINE found2 == {t \in keys : newest'[u][t] # NoRow}
<1>1. found # {} /\ found2 = found
  BY DEF First
<1>2. Max(found) \in keys
  BY <1>1, MaxOfTimes
<1>3. First(u, keys) = {Row(u, Max(found), f) :
                           f \in {newest[u][Max(found)]} \cup stale[u][Max(found)]}
  BY <1>1 DEF First
<1>4. First(u, keys)' = {Row(u, Max(found2), f) :
                            f \in {newest'[u][Max(found2)]} \cup stale'[u][Max(found2)]}
  BY <1>1 DEF First, Row
<1> HIDE DEF found, found2
<1>5. QED
  BY <1>1, <1>2, <1>3, <1>4

\* A point-in-time lookup before the current snapshot that finds a row keeps its
\* answer: late transactions, failed runs and merges add nothing to it.
THEOREM PastKept == Spec => PastIsReproducible
<1>1. ASSUME TypeOK, [Next]_vars, NEW u \in Users, NEW t \in Times,
             t < snapshot, PointInTime(u, t) # {}
      PROVE  PointInTime(u, t)' # {} /\ PointInTime(u, t)' \subseteq PointInTime(u, t)
  <2> DEFINE keys == {k \in Times : k <= t /\ k + ValidFor > t}
  <2>1. PointInTime(u, t) = First(u, keys) /\ PointInTime(u, t)' = First(u, keys)'
    BY DEF PointInTime, First, Row
  <2>2. \A k \in keys : k \in Times /\ k # snapshot
    BY <1>1 DEF TypeOK, Times
  <2>3. \A k \in keys : newest'[u][k] = newest[u][k] /\ stale'[u][k] \subseteq stale[u][k]
    BY <1>1, <2>2, OtherSnapshotsStay
  <2>4. keys \in SUBSET Times
    OBVIOUS
  <2> HIDE DEF keys
  <2>5. QED
    BY <1>1, <2>1, <2>3, <2>4, FirstShrinks
<1>2. TypeOK /\ [Next]_vars =>
        [\A u \in Users : \A t \in Times :
           t < snapshot /\ PointInTime(u, t) # {} =>
             /\ PointInTime(u, t)' # {}
             /\ PointInTime(u, t)' \subseteq PointInTime(u, t)]_vars
  BY <1>1
<1>3. QED
  BY <1>2, TypeCorrect, PTL DEF Spec, PastIsReproducible

-----------------------------------------------------------------------------
(* Answers move on *)

\* No row is dated after the snapshot of the current run or the last one.
RowsReached ==
  \A u \in Users, t \in Times : newest[u][t] # NoRow => t <= snapshot

\* How the table may change in a step: rows stay, and a new one is dated after
\* every row there was, or exactly as late.
RowsOnlyAdded ==
  \A u \in Users, t \in Times :
    /\ newest[u][t] # NoRow => newest'[u][t] # NoRow
    /\ newest[u][t] = NoRow /\ newest'[u][t] # NoRow => t = snapshot

\* A step adds rows for the current snapshot only, and removes none.
LEMMA OnlyAdded ==
  ASSUME TypeOK, [Next]_vars
  PROVE  RowsOnlyAdded
<1>1. ASSUME NEW u \in Users, NEW t \in Times, t # snapshot
      PROVE  newest'[u][t] = newest[u][t]
  BY <1>1, OtherSnapshotsStay
<1>2. ASSUME NEW u \in Users, newest[u][snapshot] # NoRow
      PROVE  newest'[u][snapshot] # NoRow
  <2> USE DEF tableVars, jobVars, silverVars
  <2>1. CASE InsertBatch \/ InsertTimesOut
    <3>1. PICK batch \in Batches : Store(batch)
      BY <2>1 DEF InsertBatch, InsertTimesOut
    <3>2. CASE u \in batch
      <4>1. features[u] \in Features
        BY <3>2 DEF Batches, TypeOK
      <4>2. newest'[u][snapshot] = features[u]
        BY <3>1, <3>2 DEF Store, TypeOK
      <4>3. QED
        BY <4>1, <4>2
    <3>3. CASE u \notin batch
      BY <1>2, <3>1, <3>3 DEF Store
    <3>4. QED
      BY <3>2, <3>3
  <2>2. ASSUME UNCHANGED newest PROVE newest'[u][snapshot] # NoRow
    BY <1>2, <2>2
  <2>3. ASSUME NEW v \in Users, TransactionArrives(v) \/ DebtsChange(v)
        PROVE  UNCHANGED newest
    BY <2>3 DEF TransactionArrives, DebtsChange
  <2>4. ASSUME NEW v \in Users, NEW t \in Times, Merge(v, t)
        PROVE  UNCHANGED newest
    BY <2>4 DEF Merge
  <2>5. CASE BeginRun \/ ComputeFeatures \/ RunFails \/ UNCHANGED vars
    BY <2>2, <2>5 DEF BeginRun, ComputeFeatures, RunFails, vars
  <2>6. QED
    BY <2>1, <2>2, <2>3, <2>4, <2>5 DEF Next, Job
<1>3. QED
  BY <1>1, <1>2 DEF RowsOnlyAdded

\* The snapshot only moves forward.
LEMMA SnapshotForward ==
  ASSUME TypeOK, SnapshotReached, [Next]_vars
  PROVE  snapshot' \in Times /\ snapshot <= snapshot'
<1> USE DEF tableVars, jobVars, silverVars
<1>1. ASSUME UNCHANGED snapshot PROVE snapshot' \in Times /\ snapshot <= snapshot'
  BY <1>1 DEF TypeOK, Times
<1>2. CASE BeginRun
  BY <1>2, SnapshotMonotone DEF BeginRun, SnapshotReached, TypeOK
<1>3. ASSUME NEW u \in Users, TransactionArrives(u) \/ DebtsChange(u)
      PROVE  UNCHANGED snapshot
  BY <1>3 DEF TransactionArrives, DebtsChange
<1>4. ASSUME NEW u \in Users, NEW t \in Times, Merge(u, t)
      PROVE  UNCHANGED snapshot
  BY <1>4 DEF Merge
<1>5. CASE ComputeFeatures \/ InsertBatch \/ RunFails \/ InsertTimesOut \/ UNCHANGED vars
  BY <1>1, <1>5
     DEF ComputeFeatures, InsertBatch, RunFails, InsertTimesOut, Abort, vars
<1>6. QED
  BY <1>1, <1>2, <1>3, <1>4, <1>5 DEF Next, Job

\* The keys of the rows a query over some keys finds.
Found(u, keys) == {t \in keys : newest[u][t] # NoRow}

\* A query answers with the greatest key it finds, if any.
LEMMA FirstIsGreatest ==
  ASSUME NEW u \in Users, NEW keys \in SUBSET Times
  PROVE  /\ First(u, keys) = {} <=> Found(u, keys) = {}
         /\ \A r \in First(u, keys) :
              /\ r.valid_from \in Found(u, keys)
              /\ \A t \in Found(u, keys) : t <= r.valid_from
<1> DEFINE m == Max(Found(u, keys))
<1>1. CASE Found(u, keys) = {}
  BY <1>1 DEF First, Found
<1>2. CASE Found(u, keys) # {}
  <2>1. First(u, keys) = {Row(u, m, f) : f \in {newest[u][m]} \cup stale[u][m]}
    BY <1>2 DEF First, Found
  <2>2. Found(u, keys) \in SUBSET Times
    BY DEF Found
  <2>3. m \in Found(u, keys) /\ \A t \in Found(u, keys) : t <= m
    BY <1>2, <2>2, MaxOfTimes
  <2> HIDE DEF m
  <2>4. \A r \in First(u, keys) : r.valid_from = m
    BY <2>1 DEF Row
  <2>5. First(u, keys) # {}
    BY <2>1
  <2>6. QED
    BY <1>2, <2>3, <2>4, <2>5
<1>3. QED
  BY <1>1, <1>2

\* The same of the state after a step.
LEMMA FirstIsGreatestNext ==
  ASSUME NEW u \in Users, NEW keys \in SUBSET Times
  PROVE  /\ First(u, keys)' = {} <=> Found(u, keys)' = {}
         /\ \A r \in First(u, keys)' :
              /\ r.valid_from \in Found(u, keys)'
              /\ \A t \in Found(u, keys)' : t <= r.valid_from
<1> DEFINE found == {t \in keys : newest'[u][t] # NoRow}
<1> DEFINE m == Max(found)
<1>0. Found(u, keys)' = found
  BY DEF Found
<1>1. CASE found = {}
  BY <1>0, <1>1 DEF First
<1>2. CASE found # {}
  <2>1. First(u, keys)' = {Row(u, m, f) : f \in {newest'[u][m]} \cup stale'[u][m]}
    BY <1>2 DEF First, Row
  <2>2. found \in SUBSET Times
    OBVIOUS
  <2>3. m \in found /\ \A t \in found : t <= m
    BY <1>2, <2>2, MaxOfTimes
  <2> HIDE DEF m, found
  <2>4. \A r \in First(u, keys)' : r.valid_from = m
    BY <2>1 DEF Row
  <2>5. First(u, keys)' # {}
    BY <2>1
  <2>6. QED
    BY <1>0, <1>2, <2>3, <2>4, <2>5
<1>3. QED
  BY <1>0, <1>1, <1>2

\* A query over the same keys moves on.
LEMMA FirstMovesOn ==
  ASSUME RowsOnlyAdded, NEW u \in Users, NEW keys \in SUBSET Times
  PROVE  MovesOn(First(u, keys), First(u, keys)')
<1>1. Found(u, keys) \subseteq Found(u, keys)'
  BY DEF RowsOnlyAdded, Found
<1>2. First(u, keys) # {} => First(u, keys)' # {}
  BY <1>1, FirstIsGreatest, FirstIsGreatestNext
<1>3. ASSUME NEW r \in First(u, keys), NEW s \in First(u, keys)'
      PROVE  r.valid_from <= s.valid_from
  BY <1>1, FirstIsGreatest, FirstIsGreatestNext
<1>4. QED
  BY <1>2, <1>3 DEF MovesOn

\* A lookup moves on, the fallback to the latest row included: the temporal query
\* that finds a row where it found none before finds the current snapshot's, and
\* no row is later than that.
LEMMA LookupMovesOn ==
  ASSUME TypeOK, RowsReached, RowsOnlyAdded, NEW u \in Users, NEW t \in Times
  PROVE  MovesOn(AsOf(u, t), AsOf(u, t)')
<1> DEFINE keys == {k \in Times : k <= t /\ k + ValidFor > t}
<1>1. keys \in SUBSET Times /\ Times \in SUBSET Times
  OBVIOUS
<1>2. /\ PointInTime(u, t) = First(u, keys)
      /\ PointInTime(u, t)' = First(u, keys)'
  BY DEF PointInTime, First, Row
<1>3. Latest(u) = First(u, Times) /\ Latest(u)' = First(u, Times)'
  BY DEF Latest, First, Row, Times
<1>4. /\ AsOf(u, t) = IF First(u, keys) = {} THEN First(u, Times) ELSE First(u, keys)
      /\ AsOf(u, t)' = IF First(u, keys)' = {} THEN First(u, Times)' ELSE First(u, keys)'
  BY <1>2, <1>3 DEF AsOf
<1> HIDE DEF keys
<1>5. CASE First(u, keys) # {}
  <2>1. MovesOn(First(u, keys), First(u, keys)')
    BY <1>1, FirstMovesOn
  <2>2. First(u, keys)' # {}
    BY <1>5, <2>1 DEF MovesOn
  <2>3. QED
    BY <1>4, <1>5, <2>1, <2>2
<1>6. CASE First(u, keys) = {} /\ First(u, keys)' = {}
  BY <1>1, <1>4, <1>6, FirstMovesOn
<1>7. CASE First(u, keys) = {} /\ First(u, keys)' # {}
  <2>1. Found(u, keys) = {}
    BY <1>1, <1>7, FirstIsGreatest
  <2>2. ASSUME NEW s \in First(u, keys)' PROVE s.valid_from = snapshot
    <3>1. s.valid_from \in Found(u, keys)'
      BY <1>1, FirstIsGreatestNext
    <3>2. s.valid_from \in keys /\ newest'[u][s.valid_from] # NoRow
      BY <3>1 DEF Found
    <3>3. newest[u][s.valid_from] = NoRow
      BY <2>1, <3>2 DEF Found
    <3>4. QED
      BY <1>1, <3>2, <3>3 DEF RowsOnlyAdded
  <2>3. ASSUME NEW r \in First(u, Times) PROVE r.valid_from <= snapshot
    <3>1. r.valid_from \in Found(u, Times)
      BY <1>1, FirstIsGreatest
    <3>2. QED
      BY <3>1 DEF Found, RowsReached
  <2>4. QED
    BY <1>4, <1>7, <2>2, <2>3 DEF MovesOn
<1>8. QED
  BY <1>5, <1>6, <1>7

\* Whoever asks again gets a row again and none of an earlier snapshot, in every
\* step, whether it touches the table or not.
THEOREM NoAnswerGoesBack ==
  Spec => /\ AnswersMoveOn
          /\ [][\A u \in Users : /\ MovesOn(Latest(u), Latest(u)')
                                 /\ \A t \in Times :
                                      MovesOn(AsOf(u, t), AsOf(u, t)')]_vars
<1> DEFINE Moves(u) == /\ MovesOn(Latest(u), Latest(u)')
                       /\ \A t \in Times : MovesOn(AsOf(u, t), AsOf(u, t)')
<1>1. Init => RowsReached
  BY DEF Init, RowsReached
<1>2. TypeOK /\ SnapshotReached /\ RowsReached /\ [Next]_vars => RowsReached'
  <2> SUFFICES ASSUME TypeOK, SnapshotReached, RowsReached, [Next]_vars,
                      NEW u \in Users, NEW t \in Times, newest'[u][t] # NoRow
               PROVE  t <= snapshot'
    BY DEF RowsReached, Times
  <2>1. t <= snapshot
    BY OnlyAdded DEF RowsOnlyAdded, RowsReached, TypeOK, Times
  <2>2. snapshot' \in Times /\ snapshot <= snapshot'
    BY SnapshotForward
  <2>3. snapshot \in Nat /\ snapshot' \in Nat
    BY <2>2 DEF TypeOK, Times
  <2>4. QED
    BY <2>1, <2>2, <2>3 DEF Times
<1>3. ASSUME TypeOK, RowsReached, [Next]_vars, NEW u \in Users PROVE Moves(u)
  <2>1. RowsOnlyAdded
    BY <1>3, OnlyAdded
  <2>2. Latest(u) = First(u, Times) /\ Latest(u)' = First(u, Times)'
    BY DEF Latest, First, Row, Times
  <2>3. MovesOn(Latest(u), Latest(u)')
    BY <2>1, <2>2, FirstMovesOn
  <2>4. \A t \in Times : MovesOn(AsOf(u, t), AsOf(u, t)')
    BY <1>3, <2>1, LookupMovesOn
  <2>5. QED
    BY <2>3, <2>4
<1> HIDE DEF Moves
<1>4. TypeOK /\ RowsReached /\ [Next]_vars => [\A u \in Users : Moves(u)]_vars
  BY <1>3
<1>5. TypeOK /\ RowsReached /\ [Next]_vars
        => [\A u \in Users : newest'[u] # newest[u] => Moves(u)]_vars
  BY <1>3
<1>6. QED
  BY <1>1, <1>2, <1>4, <1>5, TypeCorrect, PTL DEF Spec, AnswersMoveOn, Moves

-----------------------------------------------------------------------------
(* Runs heal what earlier ones left *)

\* The users the validation accepts, and whether each has the row he should.
Accepted == {u \in Users : tx[u] # {} /\ debts[u] \notin Rejected}
CaughtUp == \A u \in Accepted : newest[u][SnapshotTs(tx)] = FeaturesOf(u)

\* The run under way, or a successful one, knows the silver tables as they are.
RunIsCurrent ==
  /\ phase \in {"computing", "inserting", "succeeded"} => snapshot = SnapshotTs(tx)
  /\ phase \in {"inserting", "succeeded"} =>
       features = [u \in Accepted |-> FeaturesOf(u)]

\* While the silver tables rest no step, be it a failure, a timeout or a merge,
\* makes the run work from old data or undoes what has caught up.
LEMMA RestingStep ==
  ASSUME TypeOK, NothingPending, [Next]_vars, UNCHANGED silverVars, RunIsCurrent
  PROVE  RunIsCurrent' /\ (CaughtUp => CaughtUp')
<1> DEFINE Goal == RunIsCurrent' /\ (CaughtUp => CaughtUp')
<1>1. /\ SnapshotTs(tx)' = SnapshotTs(tx)
      /\ Accepted' = Accepted
      /\ \A u \in Users : FeaturesOf(u)' = FeaturesOf(u)
  BY DEF silverVars, SnapshotTs, WholeSeconds, Accepted, FeaturesOf
<1>2. RunIsCurrent' <=>
        /\ phase' \in {"computing", "inserting", "succeeded"}
             => snapshot' = SnapshotTs(tx)
        /\ phase' \in {"inserting", "succeeded"}
             => features' = [u \in Accepted |-> FeaturesOf(u)]
  BY <1>1 DEF RunIsCurrent, FeaturesOf, silverVars
<1>3. CaughtUp' <=> \A u \in Accepted : newest'[u][SnapshotTs(tx)] = FeaturesOf(u)
  BY <1>1 DEF CaughtUp, Accepted
<1> USE DEF tableVars, jobVars
<1>4. ASSUME NEW batch \in Batches, Store(batch), phase = "inserting"
      PROVE  CaughtUp => CaughtUp'
  <2>1. snapshot = SnapshotTs(tx) /\ features = [u \in Accepted |-> FeaturesOf(u)]
    BY <1>4 DEF RunIsCurrent
  <2>2. batch \subseteq Accepted /\ Accepted \subseteq Users
    BY <2>1 DEF TypeOK, Batches, Accepted
  <2>3. \A u \in batch : newest'[u][snapshot] = FeaturesOf(u)
    BY <1>4, <2>1, <2>2 DEF Store, TypeOK
  <2>4. \A u \in Accepted \ batch : newest'[u] = newest[u]
    BY <1>4, <2>2 DEF Store
  <2>5. QED
    BY <1>3, <2>1, <2>3, <2>4 DEF CaughtUp
<1>5. ASSUME UNCHANGED newest PROVE CaughtUp => CaughtUp'
  BY <1>3, <1>5 DEF CaughtUp
<1>6. CASE BeginRun
  BY <1>2, <1>5, <1>6 DEF BeginRun
<1>7. CASE ComputeFeatures
  <2>1. pending' = Accepted
    BY <1>7 DEF ComputeFeatures, Accepted
  <2>2. features' = [u \in Accepted |-> FeaturesOf(u)]
    BY <1>7, <2>1 DEF ComputeFeatures
  <2>3. snapshot' = SnapshotTs(tx)
    BY <1>7 DEF ComputeFeatures, RunIsCurrent
  <2>4. QED
    BY <1>2, <1>5, <1>7, <2>2, <2>3 DEF ComputeFeatures
<1>8. CASE InsertBatch
  <2>1. RunIsCurrent'
    BY <1>2, <1>8 DEF InsertBatch, RunIsCurrent
  <2>2. QED
    BY <1>4, <1>8, <2>1 DEF InsertBatch
<1>9. CASE InsertTimesOut
  <2>1. RunIsCurrent'
    BY <1>2, <1>9 DEF InsertTimesOut, Abort
  <2>2. QED
    BY <1>4, <1>9, <2>1 DEF InsertTimesOut
<1>10. CASE RunFails
  BY <1>2, <1>5, <1>10 DEF RunFails, Abort
<1>11. ASSUME UNCHANGED <<newest, jobVars>> PROVE Goal
  BY <1>2, <1>5, <1>11 DEF RunIsCurrent
<1>12. ASSUME NEW u \in Users, TransactionArrives(u) \/ DebtsChange(u)
       PROVE  UNCHANGED <<newest, jobVars>>
  BY <1>12 DEF TransactionArrives, DebtsChange
<1>13. ASSUME NEW u \in Users, NEW t \in Times, Merge(u, t)
       PROVE  UNCHANGED <<newest, jobVars>>
  BY <1>13 DEF Merge
<1>14. CASE UNCHANGED vars
  BY <1>11, <1>14 DEF vars
<1>15. QED
  BY <1>6, <1>7, <1>8, <1>9, <1>10, <1>11, <1>12, <1>13, <1>14 DEF Next, Job

\* What Converges needs besides progress: a run that starts knows the silver
\* tables as they are, keeps doing so while they rest, leaves every accepted user
\* with features of all his data if it succeeds, and nothing takes that back.
THEOREM RunsHeal ==
  Spec => /\ [][BeginRun => RunIsCurrent']_vars
          /\ [][UNCHANGED silverVars /\ RunIsCurrent =>
                  RunIsCurrent' /\ (CaughtUp => CaughtUp')]_vars
          /\ [](RunIsCurrent /\ phase = "succeeded" => CaughtUp)
<1>1. BeginRun => RunIsCurrent'
  <2> SUFFICES ASSUME BeginRun PROVE RunIsCurrent'
    OBVIOUS
  <2>1. snapshot' = SnapshotTs(tx)'
    BY DEF BeginRun, silverVars, SnapshotTs, WholeSeconds
  <2>2. QED
    BY <2>1 DEF BeginRun, RunIsCurrent
<1>2. TypeOK /\ NothingPending /\ [Next]_vars =>
        [UNCHANGED silverVars /\ RunIsCurrent =>
           RunIsCurrent' /\ (CaughtUp => CaughtUp')]_vars
  BY RestingStep
<1>3. SuccessIsComplete => (RunIsCurrent /\ phase = "succeeded" => CaughtUp)
  BY DEF SuccessIsComplete, RunIsCurrent, CaughtUp
<1>4. [Next]_vars => [BeginRun => RunIsCurrent']_vars
  BY <1>1
<1>5. QED
  BY <1>2, <1>3, <1>4, TypeCorrect, Complete, PTL DEF Spec

-----------------------------------------------------------------------------
(* What the history means *)

\* Whatever keeps a history never touches what was written for a snapshot other
\* than the one at the frontier, and the frontier never goes back: a reader that
\* uses FINAL and asks for a past snapshot gets the same features for ever.
THEOREM HistoryFreezes ==
  KeepsHistory =>
    [][/\ snapshot' >= snapshot
       /\ \A u \in Users, t \in Times :
            t # snapshot => newest'[u][t] = newest[u][t]]_<<newest, snapshot>>
<1> DEFINE Columns == /\ snapshot \in Times
                      /\ \A u \in Users : DOMAIN newest[u] = Times
           Frozen == /\ snapshot' >= snapshot
                     /\ \A u \in Users, t \in Times :
                          t # snapshot => newest'[u][t] = newest[u][t]
<1>1. History!Init => Columns
  BY DEF History!Init, Times
<1>2. ASSUME Columns, History!Advance PROVE Columns' /\ Frozen
  BY <1>2 DEF History!Advance, Times
<1>3. ASSUME Columns, History!Publish PROVE Columns' /\ Frozen
  <2>1. ASSUME NEW u \in Users
        PROVE  /\ DOMAIN newest'[u] = Times
               /\ \A t \in Times : t # snapshot => newest'[u][t] = newest[u][t]
    <3>1. PICK f \in Features \cup {newest[u][snapshot]} :
                 newest'[u] = [newest[u] EXCEPT ![snapshot] = f]
      BY <1>3 DEF History!Publish
    <3>2. QED
      BY <1>3, <3>1
  <2>2. snapshot' = snapshot /\ snapshot \in Nat
    BY <1>3 DEF History!Publish, Times
  <2>3. QED
    BY <1>3, <2>1, <2>2
<1>4. Columns /\ [History!Next]_<<newest, snapshot>> => Columns'
  BY <1>2, <1>3 DEF History!Next
<1>5. Columns /\ [History!Next]_<<newest, snapshot>>
        => [Frozen]_<<newest, snapshot>>
  BY <1>2, <1>3 DEF History!Next
<1>6. QED
  BY <1>1, <1>4, <1>5, PTL DEF KeepsHistory, History!Spec
=============================================================================
