-------------------------- MODULE ChangeCaptureProofs ------------------------
(***************************************************************************)
(* No change is lost between PostgreSQL and the silver tables, none comes  *)
(* there twice that was not in flight when something went wrong, and the   *)
(* bronze table read with FINAL only moves forward - for any rows, any     *)
(* length of the WAL and any number of failures of worker, connector, task *)
(* and consumer.                                                           *)
(***************************************************************************)
EXTENDS ChangeCapture, FiniteSetTheorems, FunctionTheorems, SequenceTheorems,
        WellFoundedInduction, TLAPS

USE HealthAssumption, CaptureAssumption

-----------------------------------------------------------------------------
(* Data *)

\* How often a change is among the first messages.
LEMMA Counting ==
  ASSUME NEW i, NEW n \in Nat
  PROVE  /\ Occurrences(i, n) \in Nat
         /\ i \in Block(n) => Occurrences(i, n) > 0
         /\ i \notin Block(n) => Occurrences(i, n) = 0
         /\ (\A p, q \in 1..n : topic[p] = i /\ topic[q] = i => p = q)
              => Occurrences(i, n) <= 1
<1> DEFINE At == {p \in 1..n : topic[p] = i}
<1>1. IsFiniteSet(At)
  <2>1. IsFiniteSet(1..n)
    BY FS_Interval
  <2>2. At \in SUBSET (1..n)
    OBVIOUS
  <2>3. QED
    BY <2>1, <2>2, FS_Subset
<1>2. Cardinality(At) \in Nat /\ (Cardinality(At) = 0 <=> At = {})
  BY <1>1, FS_CardinalityType, FS_EmptySet
<1>3. i \in Block(n) <=> At # {}
  BY DEF Block
<1>4. ASSUME \A p, q \in 1..n : topic[p] = i /\ topic[q] = i => p = q
      PROVE  Cardinality(At) <= 1
  <2>1. CASE At = {}
    BY <1>2, <2>1
  <2>2. CASE At # {}
    <3>1. PICK p \in At : TRUE
      BY <2>2
    <3>2. At = {p}
      BY <1>4, <3>1
    <3>3. Cardinality({p}) = 1
      BY FS_Singleton
    <3>4. QED
      BY <3>2, <3>3
  <2>3. QED
    BY <2>1, <2>2
<1> HIDE DEF At
<1>5. QED
  BY <1>2, <1>3, <1>4 DEF Occurrences, At

\* What is left of the topic after n messages.
LEMMA Rest ==
  ASSUME NEW S, NEW s \in Seq(S), NEW n \in 0..Len(s)
  PROVE  /\ SubSeq(s, n + 1, Len(s)) \in Seq(S)
         /\ Len(SubSeq(s, n + 1, Len(s))) = Len(s) - n
         /\ \A p \in 1..(Len(s) - n) : SubSeq(s, n + 1, Len(s))[p] = s[p + n]
<1>1. \A i \in (n + 1)..Len(s) : s[i] \in S
  OBVIOUS
<1>2. n + 1 \in Int /\ Len(s) \in Int
  OBVIOUS
<1>3. /\ SubSeq(s, n + 1, Len(s)) \in Seq(S)
      /\ Len(SubSeq(s, n + 1, Len(s))) = IF n + 1 <= Len(s) THEN Len(s) - (n + 1) + 1 ELSE 0
      /\ \A i \in 1..(Len(s) - (n + 1) + 1) : SubSeq(s, n + 1, Len(s))[i] = s[n + 1 + i - 1]
  BY <1>1, <1>2, SubSeqProperties
<1>4. QED
  BY <1>3

\* What is appended leaves the rest where it was.
LEMMA Longer ==
  ASSUME NEW S, NEW s \in Seq(S), NEW x \in S
  PROVE  /\ Append(s, x) \in Seq(S)
         /\ Len(Append(s, x)) = Len(s) + 1
         /\ \A p \in 1..Len(s) : Append(s, x)[p] = s[p]
         /\ Append(s, x)[Len(s) + 1] = x
OBVIOUS

-----------------------------------------------------------------------------
(* Types *)

\* A restart of the task never takes it back beyond what it has published.
Behind == acked <= published

\* ConnectorHealth's variables keep their types.
LEMMA HealthTypes == HealthTypeOK /\ HealthNext => HealthTypeOK'
<1> USE DEF HealthTypeOK, States
<1> SUFFICES ASSUME HealthTypeOK, HealthNext PROVE HealthTypeOK'
  OBVIOUS
<1>1. CASE WorkerStops \/ WorkerStarts \/ ConnectorFails \/ TaskFails \/ TaskStarts
  <2>1. faults' \in 0..MaxFaults
    BY <1>1 DEF WorkerStops, WorkerStarts, ConnectorFails, TaskFails, TaskStarts, Fault
  <2>2. conn' \in {"RUNNING", "FAILED", "UNASSIGNED"} /\ task' \in States
    BY <1>1 DEF WorkerStops, WorkerStarts, ConnectorFails, TaskFails, TaskStarts
  <2>3. worker' \in BOOLEAN /\ UNCHANGED <<todo, alarm, script>>
    BY <1>1, Zenon DEF WorkerStops, WorkerStarts, ConnectorFails, TaskFails, TaskStarts, checkVars
  <2>4. QED
    BY <2>1, <2>2, <2>3
<1>2. CASE DiscoveryFails \/ NoStatus \/ ReadStatus
  BY <1>2 DEF DiscoveryFails, NoStatus, ReadStatus, Verdict, connectorVars
<1>3. CASE Act
  BY <1>3 DEF Act, Pass, Restart, RestartRefused, RestartRaises, Report, connectorVars
<1>4. CASE ScriptAsks \/ ScriptRestarts
  <2>1. task' \in States
    BY <1>4 DEF ScriptAsks, ScriptRestarts, connectorVars
  <2>2. faults' \in 0..MaxFaults /\ script' \in {"idle", "restart"}
    BY <1>4 DEF ScriptAsks, ScriptRestarts, Fault
  <2>3. UNCHANGED <<worker, conn, todo, alarm>>
    BY <1>4 DEF ScriptAsks, ScriptRestarts, connectorVars, checkVars
  <2>4. QED
    BY <2>1, <2>2, <2>3
<1>5. QED
  BY <1>1, <1>2, <1>3, <1>4 DEF HealthNext

\* A failure of the consumer disturbs ConnectorHealth in its counter only.
LEMMA FaultTypes ==
  ASSUME HealthTypeOK, Fault, UNCHANGED <<connectorVars, checkVars, script>>
  PROVE  HealthTypeOK'
BY DEF HealthTypeOK, Fault, connectorVars, checkVars

\* Nor does a step that leaves it alone.
LEMMA SameHealth ==
  ASSUME HealthTypeOK, UNCHANGED healthVars
  PROVE  HealthTypeOK'
BY DEF HealthTypeOK, healthVars, connectorVars, checkVars

\* A block that reaches the bronze table is there.
LEMMA Kept ==
  ASSUME TypeOK, NEW n \in 0..Len(topic), Keep(n)
  PROVE  /\ bronze' \in [1..MaxChanges -> Nat]
         /\ \A i \in 1..MaxChanges : bronze'[i] >= bronze[i]
         /\ \A i \in 1..MaxChanges : i \in Block(n) => bronze'[i] > 0
         /\ \A i \in 1..MaxChanges : bronze'[i] > 0 => bronze[i] > 0 \/ i \in Block(n)
<1>1. n \in Nat
  BY DEF TypeOK
<1>2. \A i \in 1..MaxChanges : bronze'[i] = bronze[i] + Occurrences(i, n)
  BY DEF Keep
<1>3. \A i \in 1..MaxChanges : Occurrences(i, n) \in Nat /\ bronze[i] \in Nat
  BY <1>1, Counting DEF TypeOK
<1>4. \A i \in 1..MaxChanges : /\ i \in Block(n) => Occurrences(i, n) > 0
                               /\ i \notin Block(n) => Occurrences(i, n) = 0
  BY <1>1, Counting
<1>5. QED
  BY <1>2, <1>3, <1>4 DEF Keep

\* A block that is passed on is counted.
LEMMA Passed ==
  ASSUME TypeOK, NEW n \in 0..Len(topic), PassOn(n)
  PROVE  /\ copies' \in [1..MaxChanges -> Nat]
         /\ \A i \in 1..MaxChanges : copies'[i] >= copies[i]
         /\ \A i \in 1..MaxChanges : i \in Block(n) => copies'[i] > 0
<1>1. n \in Nat
  BY DEF TypeOK
<1>2. \A i \in 1..MaxChanges : copies'[i] = copies[i] + Occurrences(i, n)
  BY DEF PassOn
<1>3. \A i \in 1..MaxChanges : Occurrences(i, n) \in Nat /\ copies[i] \in Nat
  BY <1>1, Counting DEF TypeOK
<1>4. \A i \in 1..MaxChanges : i \in Block(n) => Occurrences(i, n) > 0
  BY <1>1, Counting
<1>5. QED
  BY <1>2, <1>3, <1>4 DEF PassOn

Typed == TypeOK /\ Behind

\* Every step keeps the types.
LEMMA TypedStep == Typed /\ [Next]_vars => Typed'
<1> SUFFICES ASSUME Typed, [Next]_vars PROVE Typed'
  OBVIOUS
<1> USE DEF Typed, Behind
<1>0. /\ Len(wal) \in Nat /\ DOMAIN wal = 1..Len(wal)
      /\ Len(topic) \in Nat /\ DOMAIN topic = 1..Len(topic)
      /\ \A n \in 0..Len(topic) : Block(n) \subseteq DOMAIN wal
  BY DEF TypeOK, Block
<1>1. CASE Commit
  <2>1. PICK c \in Changes : wal' = Append(wal, c)
    BY <1>1 DEF Commit, Changes
  <2>2. wal' \in Seq(Changes) /\ Len(wal') = Len(wal) + 1
    BY <2>1, Longer DEF TypeOK
  <2>3. DOMAIN wal \subseteq DOMAIN wal'
    BY <1>0, <2>2
  <2>4. topic' \in Seq(DOMAIN wal')
    <3>1. \A p \in 1..Len(topic) : topic[p] \in DOMAIN wal'
      BY <2>3 DEF TypeOK
    <3>2. topic \in Seq(DOMAIN wal')
      BY <1>0, <2>3, <3>1 DEF TypeOK
    <3>3. QED
      BY <1>1, <3>2 DEF Commit
  <2>5. HealthTypeOK'
    BY <1>1, SameHealth DEF Commit, TypeOK
  <2>6. UNCHANGED <<published, acked, topic, pending, bronze, copies, repeated>>
    BY <1>1 DEF Commit, sinkVars
  <2>7. Len(wal') <= MaxChanges
    BY <1>0, <1>1, <2>2 DEF Commit
  <2>8. \A i \in 1..MaxChanges : bronze'[i] > 0 => i \in DOMAIN wal'
    BY <2>3, <2>6 DEF TypeOK
  <2>9. QED
    BY <1>0, <2>2, <2>4, <2>5, <2>6, <2>7, <2>8 DEF TypeOK
<1>2. CASE Publish
  <2>1. published + 1 \in DOMAIN wal
    BY <1>0, <1>2 DEF Publish, TypeOK
  <2>2. topic' \in Seq(DOMAIN wal) /\ Len(topic') = Len(topic) + 1
    BY <1>2, <2>1, Longer DEF Publish, TypeOK
  <2>3. HealthTypeOK'
    BY <1>2, SameHealth DEF Publish, TypeOK
  <2>4. published' = published + 1 /\ UNCHANGED <<wal, acked, pending, bronze, copies, repeated>>
    BY <1>2 DEF Publish, sinkVars
  <2>5. published' \in 0..Len(wal) /\ acked <= published' /\ pending \in 0..Len(topic')
    BY <1>0, <2>1, <2>2, <2>4 DEF TypeOK
  <2>6. QED
    BY <2>2, <2>3, <2>4, <2>5 DEF TypeOK
<1>3. CASE CommitSourceOffset
  <2>1. HealthTypeOK'
    BY <1>3, SameHealth DEF CommitSourceOffset, TypeOK
  <2>2. acked' = published /\ UNCHANGED <<wal, published, topic, pending, bronze, copies, repeated>>
    BY <1>3 DEF CommitSourceOffset, sinkVars
  <2>3. QED
    BY <2>1, <2>2 DEF TypeOK
<1>4. CASE Health
  <2>1. HealthTypeOK'
    BY <1>4, HealthTypes DEF Health, TypeOK
  <2>2. acked + 1..published \subseteq 1..MaxChanges
    BY <1>0 DEF TypeOK
  <2>3. published' \in {acked, published} /\ repeated' \subseteq 1..MaxChanges
    BY <1>4, <2>2 DEF Health, TypeOK
  <2>4. UNCHANGED <<wal, acked, topic, pending, bronze, copies>>
    BY <1>4 DEF Health
  <2>5. QED
    BY <1>0, <2>1, <2>3, <2>4 DEF TypeOK
<1>5. CASE InsertBlock
  <2>1. PICK n \in 1..Len(topic) : Keep(n) /\ PassOn(n) /\ pending' = n
    BY <1>5 DEF InsertBlock
  <2>2. copies' \in [1..MaxChanges -> Nat]
    BY <1>0, <2>1, Passed
  <2>3. /\ bronze' \in [1..MaxChanges -> Nat]
        /\ \A i \in 1..MaxChanges : bronze'[i] > 0 => i \in DOMAIN wal
    <3>1. n \in 0..Len(topic)
      BY <1>0
    <3>2. QED
      BY <1>0, <2>1, <3>1, Kept DEF TypeOK
  <2>4. HealthTypeOK'
    BY <1>5, SameHealth DEF InsertBlock, TypeOK
  <2>5. UNCHANGED <<wal, published, acked, topic, repeated>>
    BY <1>5 DEF InsertBlock, sourceVars
  <2>6. pending' \in 0..Len(topic')
    BY <1>0, <2>1, <2>5
  <2>7. QED
    BY <2>2, <2>3, <2>4, <2>5, <2>6 DEF TypeOK
<1>6. CASE InsertFails
  <2>1. PICK n \in 1..Len(topic) :
          \/ Keep(n) /\ UNCHANGED <<copies, repeated>>
          \/ PassOn(n) /\ repeated' = repeated \cup Block(n) /\ UNCHANGED bronze
    BY <1>6 DEF InsertFails
  <2>2. n \in 0..Len(topic)
    BY <1>0
  <2>3. copies' \in [1..MaxChanges -> Nat] /\ repeated' \subseteq 1..MaxChanges
    <3>1. CASE PassOn(n) /\ repeated' = repeated \cup Block(n)
      <4>1. Block(n) \subseteq 1..MaxChanges
        BY <1>0, <2>2 DEF TypeOK
      <4>2. QED
        BY <2>2, <3>1, <4>1, Passed DEF TypeOK
    <3>2. CASE UNCHANGED <<copies, repeated>>
      BY <3>2 DEF TypeOK
    <3>3. QED
      BY <2>1, <3>1, <3>2
  <2>4. /\ bronze' \in [1..MaxChanges -> Nat]
        /\ \A i \in 1..MaxChanges : bronze'[i] > 0 => i \in DOMAIN wal
    <3>1. CASE Keep(n)
      BY <1>0, <2>2, <3>1, Kept DEF TypeOK
    <3>2. CASE UNCHANGED bronze
      BY <3>2 DEF TypeOK
    <3>3. QED
      BY <2>1, <3>1, <3>2
  <2>5. HealthTypeOK'
    BY <1>6, FaultTypes DEF InsertFails, TypeOK
  <2>6. UNCHANGED <<wal, published, acked, topic, pending>>
    BY <1>6 DEF InsertFails, sourceVars
  <2>7. QED
    BY <2>3, <2>4, <2>5, <2>6 DEF TypeOK
<1>7. CASE CommitOffset
  <2>1. topic' \in Seq(DOMAIN wal) /\ Len(topic') \in Nat
    <3>1. pending \in 0..Len(topic) /\ topic \in Seq(DOMAIN wal)
      BY DEF TypeOK
    <3>2. topic' = SubSeq(topic, pending + 1, Len(topic))
      BY <1>7 DEF CommitOffset
    <3>3. SubSeq(topic, pending + 1, Len(topic)) \in Seq(DOMAIN wal)
      BY <3>1, Rest
    <3>4. QED
      BY <3>2, <3>3
  <2>2. HealthTypeOK'
    BY <1>7, SameHealth DEF CommitOffset, TypeOK
  <2>3. pending' = 0 /\ UNCHANGED <<wal, published, acked, bronze, copies, repeated>>
    BY <1>7 DEF CommitOffset
  <2>4. pending' \in 0..Len(topic')
    BY <2>1, <2>3
  <2>5. QED
    BY <2>1, <2>2, <2>3, <2>4 DEF TypeOK
<1>8. CASE ConsumerRestarts
  <2>1. HealthTypeOK'
    BY <1>8, FaultTypes DEF ConsumerRestarts, TypeOK
  <2>2. repeated' \subseteq 1..MaxChanges
    <3>1. pending \in 0..Len(topic)
      BY DEF TypeOK
    <3>2. Block(pending) \subseteq 1..MaxChanges
      BY <1>0, <3>1 DEF TypeOK
    <3>3. QED
      BY <1>8, <3>2 DEF ConsumerRestarts, TypeOK
  <2>3. pending' = 0 /\ UNCHANGED <<wal, published, acked, topic, bronze, copies>>
    BY <1>8 DEF ConsumerRestarts, sourceVars
  <2>4. pending' \in 0..Len(topic')
    BY <1>0, <2>3
  <2>5. QED
    BY <2>1, <2>2, <2>3, <2>4 DEF TypeOK
<1>9. CASE Merge
  <2>1. HealthTypeOK'
    BY <1>9, SameHealth DEF Merge, TypeOK
  <2>2. PICK i \in Present : bronze' = [bronze EXCEPT ![i] = @ - 1]
    BY <1>9 DEF Merge
  <2>3. i \in 1..MaxChanges /\ bronze[i] > 0 /\ bronze[i] \in Nat
    BY <1>0 DEF Present, TypeOK
  <2>4. /\ bronze' \in [1..MaxChanges -> Nat]
        /\ \A k \in 1..MaxChanges : bronze'[k] > 0 => bronze[k] > 0
    BY <2>2, <2>3 DEF TypeOK
  <2>5. UNCHANGED <<wal, published, acked, topic, pending, copies, repeated>>
    BY <1>9 DEF Merge, sourceVars
  <2>6. QED
    BY <2>1, <2>4, <2>5 DEF TypeOK
<1>10. CASE Backfill
  <2>1. HealthTypeOK'
    BY <1>10, FaultTypes DEF Backfill, TypeOK
  <2>2. copies' \in [1..MaxChanges -> Nat]
    BY <1>10 DEF Backfill, TypeOK
  <2>3. repeated' \subseteq 1..MaxChanges
    <3>1. repeated' = repeated \cup {i \in Present : wal[i].op # "d"}
      BY <1>10 DEF Backfill
    <3>2. Present \subseteq 1..MaxChanges
      BY <1>0 DEF Present, TypeOK
    <3>3. QED
      BY <3>1, <3>2 DEF TypeOK
  <2>4. UNCHANGED <<wal, published, acked, topic, pending, bronze>>
    BY <1>10 DEF Backfill, sourceVars
  <2>5. QED
    BY <2>1, <2>2, <2>3, <2>4 DEF TypeOK
<1>11. CASE UNCHANGED vars
  <2>1. HealthTypeOK'
    BY <1>11, SameHealth DEF vars, TypeOK
  <2>2. QED
    BY <1>11, <2>1 DEF vars, sourceVars, sinkVars, TypeOK
<1>12. QED
  BY <1>1, <1>2, <1>3, <1>4, <1>5, <1>6, <1>7, <1>8, <1>9, <1>10, <1>11 DEF Next

\* Every behaviour keeps them.
LEMMA AlwaysTyped == Spec => []Typed
<1>1. Init => Typed
  <2>1. Init => HealthTypeOK
    <3>1. 0 \in 0..MaxFaults
      OBVIOUS
    <3>2. QED
      BY <3>1, Zenon DEF Init, HealthInit, HealthTypeOK, States
  <2>2. Init => Len(wal) = 0 /\ Len(topic) = 0 /\ wal \in Seq(Changes) /\ topic \in Seq(DOMAIN wal)
    BY DEF Init
  <2>3. QED
    BY <2>1, <2>2 DEF Init, Typed, TypeOK, Behind
<1>2. QED
  BY <1>1, TypedStep, PTL DEF Spec

\* The variables keep their types: no message names a change that is not in the
\* WAL, and no more messages are pending than there are.
THEOREM TypesKept == Spec => []TypeOK
<1>1. Typed => TypeOK
  BY DEF Typed
<1>2. QED
  BY <1>1, AlwaysTyped, PTL

-----------------------------------------------------------------------------
(* Nothing is lost *)

\* What PostgreSQL has committed stays where it is in the WAL.
LEMMA WalGrows ==
  ASSUME Typed, [Next]_vars
  PROVE  /\ DOMAIN wal \subseteq DOMAIN wal' /\ DOMAIN wal' \subseteq 1..MaxChanges
         /\ \A i \in DOMAIN wal : wal'[i] = wal[i]
<1>1. DOMAIN wal' \subseteq 1..MaxChanges
  <2>1. wal' \in Seq(Changes') /\ Len(wal') <= MaxChanges
    BY TypedStep DEF Typed, TypeOK
  <2>2. DOMAIN wal' = 1..Len(wal') /\ Len(wal') \in Nat
    BY <2>1
  <2>3. QED
    BY <2>1, <2>2
<1>2. CASE Commit
  <2>1. PICK c \in Changes : wal' = Append(wal, c)
    BY <1>2 DEF Commit, Changes
  <2>2. /\ wal' \in Seq(Changes) /\ Len(wal') = Len(wal) + 1
        /\ \A p \in 1..Len(wal) : wal'[p] = wal[p]
    BY <2>1, Longer DEF Typed, TypeOK
  <2>3. DOMAIN wal = 1..Len(wal) /\ DOMAIN wal' = 1..Len(wal')
    BY <2>2 DEF Typed, TypeOK
  <2>4. QED
    BY <1>1, <2>2, <2>3 DEF Typed, TypeOK
<1>3. CASE wal' = wal
  BY <1>1, <1>3
<1>4. QED
  BY <1>2, <1>3 DEF Next, Publish, CommitSourceOffset, Health, InsertBlock, InsertFails,
     CommitOffset, ConsumerRestarts, Merge, Backfill, vars, sourceVars

\* The views only add.
LEMMA CopiesGrow ==
  ASSUME Typed, [Next]_vars
  PROVE  \A i \in 1..MaxChanges : copies'[i] >= copies[i]
<1>1. ASSUME NEW n \in 1..Len(topic), PassOn(n)
      PROVE  \A i \in 1..MaxChanges : copies'[i] >= copies[i]
  <2>1. TypeOK /\ Len(topic) \in Nat
    <3>1. TypeOK /\ topic \in Seq(DOMAIN wal)
      BY DEF Typed, TypeOK
    <3>2. QED
      BY <3>1
  <2>2. n \in 0..Len(topic)
    BY <2>1
  <2>3. QED
    BY <1>1, <2>1, <2>2, Passed
<1>2. CASE copies' = copies
  BY <1>2 DEF Typed, TypeOK
<1>3. CASE InsertBlock
  BY <1>1, <1>3 DEF InsertBlock
<1>4. CASE InsertFails
  BY <1>1, <1>2, <1>4 DEF InsertFails
<1>5. CASE Backfill
  BY <1>5 DEF Backfill, Typed, TypeOK
<1>6. CASE Commit \/ Publish \/ CommitSourceOffset \/ Health
  BY <1>2, <1>6 DEF Commit, Publish, CommitSourceOffset, Health, sinkVars
<1>7. CASE CommitOffset \/ ConsumerRestarts \/ Merge \/ UNCHANGED vars
  BY <1>2, <1>7 DEF CommitOffset, ConsumerRestarts, Merge, vars, sinkVars
<1>8. QED
  BY <1>3, <1>4, <1>5, <1>6, <1>7 DEF Next

\* Only a merge takes rows from the bronze table.
LEMMA BronzeGrows ==
  ASSUME Typed, [Next]_vars, ~ Merge
  PROVE  Present \subseteq Present'
<1>1. DOMAIN wal \subseteq DOMAIN wal' /\ DOMAIN wal' \subseteq 1..MaxChanges
  BY WalGrows
<1>2. ASSUME \A i \in 1..MaxChanges : bronze'[i] >= bronze[i]
      PROVE  Present \subseteq Present'
  <2>1. bronze \in [1..MaxChanges -> Nat] /\ bronze' \in [1..MaxChanges -> Nat]
    BY TypedStep DEF Typed, TypeOK
  <2>2. \A i \in 1..MaxChanges : bronze[i] > 0 => bronze'[i] > 0
    BY <1>2, <2>1
  <2>3. QED
    BY <1>1, <2>2 DEF Present
<1>3. ASSUME UNCHANGED bronze PROVE Present \subseteq Present'
  BY <1>1, <1>3 DEF Present
<1>4. ASSUME NEW n \in 1..Len(topic), Keep(n) PROVE Present \subseteq Present'
  <2>1. TypeOK /\ Len(topic) \in Nat
    <3>1. TypeOK /\ topic \in Seq(DOMAIN wal)
      BY DEF Typed, TypeOK
    <3>2. QED
      BY <3>1
  <2>2. n \in 0..Len(topic)
    BY <2>1
  <2>3. QED
    BY <1>2, <1>4, <2>1, <2>2, Kept
<1>5. CASE InsertBlock \/ InsertFails
  BY <1>3, <1>4, <1>5 DEF InsertBlock, InsertFails
<1>6. CASE Commit \/ Publish \/ CommitSourceOffset \/ Health
  BY <1>3, <1>6 DEF Commit, Publish, CommitSourceOffset, Health, sinkVars
<1>7. CASE CommitOffset \/ ConsumerRestarts \/ Backfill \/ UNCHANGED vars
  BY <1>3, <1>7 DEF CommitOffset, ConsumerRestarts, Backfill, vars, sinkVars
<1>8. QED
  BY <1>5, <1>6, <1>7 DEF Next

\* FINAL on the bronze table shows change i or a later one of its row.
Covered(i) == \E j \in Present : j = i \/ Supersedes(j, i)

\* A merge removes only what is superseded or there twice, so whatever was covered
\* still is.
LEMMA CoveredStays ==
  ASSUME Typed, [Next]_vars, NEW i \in DOMAIN wal, Covered(i)
  PROVE  Covered(i)'
<1>1. PICK j \in Present : j = i \/ Supersedes(j, i)
  BY DEF Covered
<1>2. \A k \in DOMAIN wal : k \in Nat
  BY DEF Typed, TypeOK
<1>3. \A k, l \in DOMAIN wal : Supersedes(k, l)' <=> Supersedes(k, l)
  BY WalGrows DEF Supersedes
<1>4. j \in DOMAIN wal /\ Present \subseteq DOMAIN wal
  BY DEF Present
<1>5. CASE Merge
  <2>1. PICK k \in Present : /\ bronze[k] > 1 \/ \E l \in Present : Supersedes(l, k)
                             /\ bronze' = [bronze EXCEPT ![k] = @ - 1]
    BY <1>5 DEF Merge
  <2>2. wal' = wal /\ bronze \in [1..MaxChanges -> Nat] /\ DOMAIN wal \subseteq 1..MaxChanges
    <3>1. wal' = wal /\ bronze \in [1..MaxChanges -> Nat]
      BY <1>5 DEF Merge, sourceVars, Typed, TypeOK
    <3>2. DOMAIN wal \subseteq 1..MaxChanges
      BY WalGrows
    <3>3. QED
      BY <3>1, <3>2
  <2>3. \A l \in Present : l # k => l \in Present'
    BY <2>1, <2>2 DEF Present
  <2>4. CASE j # k
    BY <1>1, <1>3, <1>4, <2>3, <2>4 DEF Covered
  <2>5. CASE j = k /\ bronze[k] > 1
    <3>1. bronze[k] \in Nat /\ bronze'[k] = bronze[k] - 1
      BY <1>4, <2>1, <2>2
    <3>2. j \in Present'
      BY <1>4, <2>2, <2>5, <3>1 DEF Present
    <3>3. QED
      BY <1>1, <1>3, <1>4, <3>2 DEF Covered
  <2>6. CASE j = k /\ \E l \in Present : Supersedes(l, k)
    <3>1. PICK l \in Present : Supersedes(l, k)
      BY <2>6
    <3>2. Supersedes(l, i) /\ l # k
      BY <1>1, <1>2, <1>4, <2>6, <3>1 DEF Supersedes
    <3>3. QED
      BY <1>3, <1>4, <2>3, <3>1, <3>2 DEF Covered
  <2>7. QED
    BY <2>1, <2>4, <2>5, <2>6
<1>6. CASE ~ Merge
  <2>1. Present \subseteq Present'
    BY <1>6, BronzeGrows
  <2>2. QED
    BY <1>1, <1>3, <1>4, <2>1 DEF Covered
<1>7. QED
  BY <1>5, <1>6

\* What is stored stays stored.
LEMMA StoredStays ==
  ASSUME Typed, [Next]_vars, NEW i \in DOMAIN wal, Stored(i)
  PROVE  Stored(i)'
<1>1. i \in 1..MaxChanges
  BY DEF Typed, TypeOK
<1>2. Covered(i)'
  BY CoveredStays DEF Stored, Covered
<1>3. copies'[i] > 0
  <2>1. copies' \in [1..MaxChanges -> Nat] /\ copies \in [1..MaxChanges -> Nat]
    BY TypedStep DEF Typed, TypeOK
  <2>2. copies[i] > 0 /\ copies'[i] >= copies[i]
    BY <1>1, CopiesGrow DEF Stored
  <2>3. copies[i] \in Nat /\ copies'[i] \in Nat
    BY <1>1, <2>1
  <2>4. QED
    BY <2>2, <2>3
<1>4. QED
  BY <1>2, <1>3 DEF Stored, Covered

\* The inductive form: every change the running task has published is stored or on
\* its way, and the messages ClickHouse is about to commit are stored.
OnItsWay ==
  /\ \A i \in 1..published : Stored(i) \/ \E p \in DOMAIN topic : topic[p] = i
  /\ \A p \in 1..pending : Stored(topic[p])

LEMMA OnItsWayStep == Typed /\ OnItsWay /\ [Next]_vars => OnItsWay'
<1> SUFFICES ASSUME Typed, OnItsWay, [Next]_vars PROVE OnItsWay'
  OBVIOUS
<1>1. /\ DOMAIN wal = 1..Len(wal) /\ Len(wal) \in Nat
      /\ DOMAIN topic = 1..Len(topic) /\ Len(topic) \in Nat
      /\ published \in 0..Len(wal) /\ pending \in 0..Len(topic)
      /\ acked \in 0..published
      /\ topic \in Seq(DOMAIN wal)
  BY DEF Typed, TypeOK, Behind
<1> DEFINE After(i) == /\ copies'[i] > 0
                       /\ \E j \in Present' : j = i \/ (wal'[j].row = wal'[i].row /\ j > i)
<1>2. \A i \in DOMAIN wal : Stored(i) => After(i)
  <2>1. ASSUME NEW i \in DOMAIN wal, Stored(i) PROVE After(i)
    <3>1. Stored(i)'
      BY <2>1, StoredStays
    <3>2. QED
      BY <3>1 DEF Stored, Supersedes
  <2>2. QED
    BY <2>1
<1>13. OnItsWay' <=>
         /\ \A i \in 1..published' : After(i) \/ \E p \in DOMAIN topic' : topic'[p] = i
         /\ \A p \in 1..pending' : After(topic'[p])
  BY DEF OnItsWay, Stored, Supersedes
<1> HIDE DEF After
<1>3. \A i \in 1..published : i \in DOMAIN wal
  BY <1>1
<1>4. \A p \in 1..pending : topic[p] \in DOMAIN wal
  BY <1>1
<1>5. ASSUME published' <= published, published' \in Nat, UNCHANGED <<topic, pending>>
      PROVE  OnItsWay'
  <2>1. ASSUME NEW i \in 1..published'
        PROVE  After(i) \/ \E p \in DOMAIN topic' : topic'[p] = i
    <3>1. i \in 1..published /\ i \in DOMAIN wal
      BY <1>1, <1>5
    <3>2. QED
      BY <1>2, <1>5, <3>1 DEF OnItsWay
  <2>2. ASSUME NEW p \in 1..pending' PROVE After(topic'[p])
    BY <1>2, <1>4, <1>5 DEF OnItsWay
  <2>3. QED
    BY <1>13, <2>1, <2>2
<1>6. CASE Publish
  <2>1. published + 1 \in DOMAIN wal
    BY <1>1, <1>6 DEF Publish
  <2>2. /\ DOMAIN topic' = 1..(Len(topic) + 1)
        /\ \A p \in 1..Len(topic) : topic'[p] = topic[p]
        /\ topic'[Len(topic) + 1] = published + 1
    BY <1>1, <1>6, <2>1, Longer DEF Publish
  <2>3. published' = published + 1 /\ pending' = pending
    BY <1>6 DEF Publish, sinkVars
  <2>4. ASSUME NEW i \in 1..published'
        PROVE  After(i) \/ \E p \in DOMAIN topic' : topic'[p] = i
    <3>1. CASE i = published + 1
      BY <1>1, <2>2, <3>1
    <3>2. CASE i # published + 1
      <4>1. i \in 1..published
        BY <1>1, <2>3, <3>2
      <4>2. Stored(i) \/ \E p \in DOMAIN topic : topic[p] = i
        BY <4>1 DEF OnItsWay
      <4>3. Stored(i) => After(i)
        BY <1>2, <1>3, <4>1
      <4>4. \A p \in DOMAIN topic : p \in DOMAIN topic' /\ topic'[p] = topic[p]
        BY <1>1, <2>2
      <4>5. QED
        BY <4>2, <4>3, <4>4
    <3>3. QED
      BY <3>1, <3>2
  <2>5. ASSUME NEW p \in 1..pending' PROVE After(topic'[p])
    <3>1. p \in 1..pending /\ topic'[p] = topic[p]
      BY <1>1, <2>2, <2>3
    <3>2. After(topic[p])
      BY <1>2, <1>4, <3>1 DEF OnItsWay
    <3>3. QED
      BY <3>1, <3>2
  <2>6. QED
    BY <1>13, <2>4, <2>5
<1>7. CASE CommitOffset
  <2>1. topic' = SubSeq(topic, pending + 1, Len(topic)) /\ published' = published /\ pending' = 0
    BY <1>7 DEF CommitOffset
  <2>2. /\ DOMAIN topic' = 1..(Len(topic) - pending)
        /\ \A p \in 1..(Len(topic) - pending) : topic'[p] = topic[p + pending]
    BY <1>1, <2>1, Rest
  <2>3. ASSUME NEW i \in 1..published
        PROVE  After(i) \/ \E p \in DOMAIN topic' : topic'[p] = i
    <3>1. CASE Stored(i)
      BY <1>2, <1>3, <3>1
    <3>2. ASSUME NEW p \in DOMAIN topic, topic[p] = i
          PROVE  After(i) \/ \E q \in DOMAIN topic' : topic'[q] = i
      <4>1. CASE p <= pending
        <5>1. Stored(topic[p])
          BY <1>1, <4>1 DEF OnItsWay
        <5>2. QED
          BY <1>2, <1>3, <3>2, <5>1
      <4>2. CASE p > pending
        <5>1. p - pending \in 1..(Len(topic) - pending) /\ (p - pending) + pending = p
          BY <1>1, <4>2
        <5>2. topic'[p - pending] = i
          BY <2>2, <3>2, <5>1
        <5>3. QED
          BY <2>2, <5>1, <5>2
      <4>3. QED
        BY <1>1, <4>1, <4>2
    <3>3. QED
      BY <3>1, <3>2 DEF OnItsWay
  <2>4. QED
    <3>1. 1..pending' = {} /\ 1..published' = 1..published
      BY <2>1
    <3>2. QED
      BY <1>13, <2>3, <3>1
<1>8. CASE InsertBlock
  <2>1. PICK n \in 1..Len(topic) : Keep(n) /\ PassOn(n) /\ pending' = n
    BY <1>8 DEF InsertBlock
  <2>2. topic' = topic /\ wal' = wal /\ published' = published
    BY <1>8 DEF InsertBlock, sourceVars
  <2>3. ASSUME NEW p \in 1..n PROVE After(topic[p])
    <3>1. topic[p] \in Block(n) /\ topic[p] \in 1..MaxChanges
      <4>1. topic[p] \in DOMAIN wal
        BY <1>1
      <4>2. topic[p] \in Block(n)
        BY DEF Block
      <4>3. DOMAIN wal = 1..Len(wal) /\ Len(wal) \in Nat /\ Len(wal) <= MaxChanges
        BY <1>1 DEF Typed, TypeOK
      <4>4. topic[p] \in 1..MaxChanges
        BY <4>1, <4>3, CaptureAssumption DEF CaptureAssumption
      <4>5. QED
        BY <4>2, <4>4
    <3>2. copies'[topic[p]] > 0
      <4>1. TypeOK /\ n \in 0..Len(topic)
        BY <1>1 DEF Typed
      <4>2. QED
        BY <2>1, <3>1, <4>1, Passed
    <3>3. topic[p] \in Present'
      <4>1. TypeOK /\ n \in 0..Len(topic)
        BY <1>1 DEF Typed
      <4>2. bronze'[topic[p]] > 0
        BY <2>1, <3>1, <4>1, Kept
      <4>3. topic[p] \in DOMAIN wal
        BY <1>1
      <4>4. QED
        BY <2>2, <4>2, <4>3 DEF Present
    <3>4. QED
      BY <2>2, <3>2, <3>3 DEF After
  <2>4. QED
    BY <1>2, <1>3, <1>13, <2>1, <2>2, <2>3 DEF OnItsWay
<1>9. CASE Health
  <2>1. published' \in {acked, published} /\ UNCHANGED <<topic, pending>>
    BY <1>9 DEF Health, sinkVars
  <2>2. QED
    BY <1>1, <1>5, <2>1
<1>10. CASE ConsumerRestarts
  <2>1. pending' = 0 /\ topic' = topic /\ published' = published
    BY <1>10 DEF ConsumerRestarts, sourceVars
  <2>2. QED
    BY <1>2, <1>3, <1>13, <2>1 DEF OnItsWay
<1>11. CASE Commit \/ CommitSourceOffset \/ InsertFails \/ Merge \/ Backfill \/ UNCHANGED vars
  <2>1. UNCHANGED <<published, topic, pending>>
    BY <1>11 DEF Commit, CommitSourceOffset, InsertFails, Merge, Backfill, vars,
                 sourceVars, sinkVars
  <2>2. QED
    BY <1>1, <1>5, <2>1
<1>12. QED
  BY <1>6, <1>7, <1>8, <1>9, <1>10, <1>11 DEF Next

\* No change that Kafka Connect considers delivered is lost: it is stored, or in a
\* message ClickHouse still has to commit.
THEOREM NothingIsLost == Spec => []NothingLost
<1>1. Init => OnItsWay
  BY DEF Init, OnItsWay
<1>2. Typed /\ OnItsWay => NothingLost
  BY DEF Typed, TypeOK, Behind, OnItsWay, NothingLost
<1>3. QED
  BY <1>1, <1>2, OnItsWayStep, AlwaysTyped, PTL DEF Spec

-----------------------------------------------------------------------------
(* Only what was in flight is repeated *)

\* The inductive form: a change nothing had a reason to repeat is nowhere before the
\* task has published it, then in one message at most, and once it is in silver that
\* message is among those ClickHouse is about to commit.
Once(i) ==
  /\ i > published => copies[i] = 0 /\ \A p \in 1..Len(topic) : topic[p] # i
  /\ \A p, q \in 1..Len(topic) : topic[p] = i /\ topic[q] = i => p = q
  /\ copies[i] <= 1
  /\ copies[i] > 0 => \A p \in 1..Len(topic) : topic[p] = i => p <= pending

OnceEach == \A i \in 1..MaxChanges : i \notin repeated => Once(i)

\* Every step keeps it.
LEMMA OnceStep == Typed /\ OnceEach /\ [Next]_vars => OnceEach'
<1> SUFFICES ASSUME Typed, OnceEach, [Next]_vars, NEW i \in 1..MaxChanges, i \notin repeated'
             PROVE  Once(i)'
  BY DEF OnceEach
<1>1. /\ Len(topic) \in Nat /\ topic \in Seq(DOMAIN wal) /\ pending \in 0..Len(topic)
      /\ published \in Nat /\ acked \in Nat /\ i \in Nat /\ acked <= published
      /\ copies \in [1..MaxChanges -> Nat] /\ copies[i] \in Nat
  BY DEF Typed, TypeOK, Behind
<1>2. ASSUME i \notin repeated, UNCHANGED <<published, topic, pending>>, copies'[i] = copies[i]
      PROVE  Once(i)'
  <2>1. Once(i)
    BY <1>2 DEF OnceEach
  <2>2. QED
    BY <1>2, <2>1 DEF Once
<1>3. CASE Publish
  <2>1. /\ published' = published + 1 /\ published + 1 \in DOMAIN wal
        /\ topic' = Append(topic, published + 1) /\ UNCHANGED <<pending, copies, repeated>>
    BY <1>3 DEF Publish, sinkVars, Typed, TypeOK
  <2>2. /\ Len(topic') = Len(topic) + 1 /\ topic'[Len(topic) + 1] = published + 1
        /\ \A p \in 1..Len(topic) : topic'[p] = topic[p]
    BY <1>1, <2>1, Longer
  <2>3. Once(i)
    BY <2>1 DEF OnceEach
  <2>4. \A p \in 1..Len(topic') : p \in 1..Len(topic) \/ p = Len(topic) + 1
    BY <1>1, <2>2
  <2>5. CASE i = published + 1
    <3>1. copies[i] = 0 /\ \A p \in 1..Len(topic) : topic[p] # i
      BY <1>1, <2>3, <2>5 DEF Once
    <3>2. \A p \in 1..Len(topic') : topic'[p] = i => p = Len(topic) + 1
      BY <2>2, <2>4, <3>1
    <3>3. QED
      BY <1>1, <2>1, <2>5, <3>1, <3>2 DEF Once
  <2>6. CASE i # published + 1
    <3>1. \A p \in 1..Len(topic') : topic'[p] = i => p \in 1..Len(topic) /\ topic[p] = i
      BY <2>2, <2>4, <2>6
    <3>2. i > published' => i > published
      BY <1>1, <2>1
    <3>3. QED
      BY <2>1, <2>3, <3>1, <3>2 DEF Once
  <2>7. QED
    BY <2>5, <2>6
<1>4. CASE Health
  <2>1. UNCHANGED <<topic, pending, copies>>
    BY <1>4 DEF Health
  <2>2. CASE UNCHANGED <<published, repeated>>
    BY <1>2, <2>1, <2>2
  <2>3. CASE published' = acked /\ repeated' = repeated \cup acked + 1..published
    <3>1. i \notin repeated /\ (i > acked => i > published)
      BY <1>1, <2>3
    <3>2. Once(i)
      BY <3>1 DEF OnceEach
    <3>3. QED
      BY <2>1, <2>3, <3>1, <3>2 DEF Once
  <2>4. QED
    BY <1>4, <2>2, <2>3 DEF Health
<1>5. ASSUME NEW n \in 1..Len(topic), PassOn(n)
      PROVE  /\ n \in Nat /\ copies'[i] = copies[i] + Occurrences(i, n)
             /\ Occurrences(i, n) \in Nat
             /\ i \notin Block(n) => Occurrences(i, n) = 0
  BY <1>1, <1>5, Counting DEF PassOn
<1>6. CASE InsertBlock
  <2>1. PICK n \in 1..Len(topic) : PassOn(n) /\ pending' = n
    BY <1>6 DEF InsertBlock
  <2>2. pending = 0 /\ UNCHANGED <<published, topic, repeated>>
    BY <1>6 DEF InsertBlock, sourceVars
  <2>3. Once(i)
    BY <2>2 DEF OnceEach
  <2>4. CASE i \in Block(n)
    <3>1. PICK p \in 1..n : topic[p] = i
      BY <2>4 DEF Block
    <3>2. p \in 1..Len(topic) /\ ~(p <= 0)
      BY <1>1
    <3>3. copies[i] = 0 /\ ~(i > published)
      BY <1>1, <2>2, <2>3, <3>1, <3>2 DEF Once
    <3>4. \A q \in 1..Len(topic) : topic[q] = i => q = p
      BY <2>3, <3>1, <3>2 DEF Once
    <3>5. Occurrences(i, n) <= 1
      <4>1. \A q, r \in 1..n : topic[q] = i /\ topic[r] = i => q = r
        BY <1>1, <3>4
      <4>2. n \in Nat
        OBVIOUS
      <4>3. QED
        BY <4>1, <4>2, Counting
    <3>6. copies'[i] <= 1
      BY <1>5, <2>1, <3>3, <3>5
    <3>7. \A q \in 1..Len(topic) : topic[q] = i => q <= n
      BY <1>1, <3>4
    <3>8. QED
      BY <2>1, <2>2, <2>3, <3>3, <3>6, <3>7 DEF Once
  <2>5. CASE i \notin Block(n)
    <3>1. copies'[i] = copies[i]
      BY <1>1, <1>5, <2>1, <2>5
    <3>2. \A p \in 1..Len(topic) : p <= 0 => p <= n
      BY <1>1
    <3>3. QED
      BY <2>1, <2>2, <2>3, <3>1, <3>2 DEF Once
  <2>6. QED
    BY <2>4, <2>5
<1>7. CASE InsertFails
  <2>1. PICK n \in 1..Len(topic) :
          \/ UNCHANGED <<copies, repeated>>
          \/ PassOn(n) /\ repeated' = repeated \cup Block(n)
    BY <1>7 DEF InsertFails
  <2>2. UNCHANGED <<published, topic, pending>>
    BY <1>7 DEF InsertFails, sourceVars
  <2>3. CASE UNCHANGED <<copies, repeated>>
    BY <1>2, <2>2, <2>3
  <2>4. CASE PassOn(n) /\ repeated' = repeated \cup Block(n)
    <3>1. i \notin repeated /\ i \notin Block(n)
      BY <2>4
    <3>2. copies'[i] = copies[i]
      BY <1>1, <1>5, <2>4, <3>1
    <3>3. QED
      BY <1>2, <2>2, <3>1, <3>2
  <2>5. QED
    BY <2>1, <2>3, <2>4
<1>8. CASE CommitOffset
  <2>1. /\ topic' = SubSeq(topic, pending + 1, Len(topic)) /\ pending' = 0
        /\ UNCHANGED <<published, copies, repeated>>
    BY <1>8 DEF CommitOffset
  <2>2. /\ Len(topic') = Len(topic) - pending
        /\ \A p \in 1..(Len(topic) - pending) : topic'[p] = topic[p + pending]
    BY <1>1, <2>1, Rest
  <2>3. Once(i)
    BY <2>1 DEF OnceEach
  <2>4. \A p \in 1..Len(topic') :
          /\ p \in Nat /\ p + pending \in 1..Len(topic) /\ ~(p + pending <= pending)
          /\ topic'[p] = topic[p + pending]
    BY <1>1, <2>2
  <2>5. copies[i] > 0 => \A p \in 1..Len(topic') : topic'[p] # i
    BY <2>3, <2>4 DEF Once
  <2>6. i > published => \A p \in 1..Len(topic') : topic'[p] # i
    BY <2>3, <2>4 DEF Once
  <2>7. ASSUME NEW p \in 1..Len(topic'), NEW q \in 1..Len(topic'), topic'[p] = i, topic'[q] = i
        PROVE  p = q
    <3>1. p + pending = q + pending
      BY <2>3, <2>4, <2>7 DEF Once
    <3>2. QED
      BY <1>1, <2>4, <3>1
  <2>8. QED
    BY <2>1, <2>3, <2>5, <2>6, <2>7 DEF Once
<1>9. CASE ConsumerRestarts
  <2>1. /\ pending' = 0 /\ repeated' = repeated \cup Block(pending)
        /\ UNCHANGED <<published, topic, copies>>
    BY <1>9 DEF ConsumerRestarts, sourceVars
  <2>2. Once(i)
    BY <2>1 DEF OnceEach
  <2>3. \A p \in 1..pending : topic[p] # i
    BY <2>1 DEF Block
  <2>4. copies[i] > 0 => \A p \in 1..Len(topic) : topic[p] # i
    BY <1>1, <2>2, <2>3 DEF Once
  <2>5. QED
    BY <2>1, <2>2, <2>4 DEF Once
<1>10. CASE Backfill
  <2>1. UNCHANGED <<published, topic, pending>>
    BY <1>10 DEF Backfill, sourceVars
  <2>2. i \notin {k \in Present : wal[k].op # "d"} /\ i \notin repeated
    BY <1>10 DEF Backfill
  <2>3. copies'[i] = copies[i]
    BY <1>1, <1>10, <2>2 DEF Backfill
  <2>4. QED
    BY <1>2, <2>1, <2>2, <2>3
<1>11. CASE Commit \/ CommitSourceOffset \/ Merge \/ UNCHANGED vars
  <2>1. UNCHANGED <<published, topic, pending, copies, repeated>>
    BY <1>11 DEF Commit, CommitSourceOffset, Merge, vars, sourceVars, sinkVars
  <2>2. QED
    BY <1>2, <2>1
<1>12. QED
  BY <1>3, <1>4, <1>6, <1>7, <1>8, <1>9, <1>10, <1>11 DEF Next

\* However failures, restarts, checks, the operator's script, backfills and merges
\* interleave, a change comes into silver a second time only if it was in flight when
\* one of them brought it again: after the last offset committed, in a block not yet
\* committed, or in bronze during a backfill.
THEOREM RepeatsWereInFlight == Spec => []OnlyInFlightRepeated
<1>1. Init => OnceEach
  <2> SUFFICES ASSUME Init, NEW i \in 1..MaxChanges PROVE Once(i)
    BY DEF OnceEach
  <2>1. copies[i] = 0 /\ Len(topic) = 0
    BY DEF Init
  <2>2. 1..Len(topic) = {}
    BY <2>1
  <2>3. QED
    BY <2>1, <2>2 DEF Once
<1>2. Typed /\ OnceEach => OnlyInFlightRepeated
  <2> SUFFICES ASSUME Typed, OnceEach, NEW i \in 1..MaxChanges, copies[i] > 1
               PROVE  i \in repeated
    BY DEF OnlyInFlightRepeated
  <2>1. copies[i] \in Nat
    BY DEF Typed, TypeOK
  <2>2. ~ (copies[i] <= 1)
    BY <2>1
  <2>3. QED
    BY <2>2 DEF OnceEach, Once
<1>3. QED
  BY <1>1, <1>2, OnceStep, AlwaysTyped, PTL DEF Spec


-----------------------------------------------------------------------------
(* The bronze table read with FINAL *)

\* A nonempty set of changes has a last one, which Top picks.
LEMMA LastChange ==
  ASSUME NEW n \in Nat, NEW S \in SUBSET (1..n), S # {}
  PROVE  \E i \in S : \A j \in S : j <= i
<1> DEFINE Left == {n - t : t \in S}
<1>1. Left \subseteq Nat /\ Left # {}
  <2>1. \A t \in S : n - t \in Nat
    OBVIOUS
  <2>2. QED
    BY <2>1
<1>2. PICK x \in Left : \A y \in Left : ~ (<<y, x>> \in OpToRel(<, Nat))
  <2> HIDE DEF Left
  <2>1. QED
    BY <1>1, NatLessThanWellFounded, WFMin
<1>3. PICK m \in S : x = n - m
  OBVIOUS
<1>4. \A t \in S : t <= m
  <2> SUFFICES ASSUME NEW t \in S PROVE t <= m
    OBVIOUS
  <2>1. n - t \in Left
    OBVIOUS
  <2>2. ~ (n - t < n - m)
    BY <1>1, <1>2, <1>3, <2>1 DEF OpToRel
  <2>3. t \in Int /\ m \in Int /\ n \in Int
    OBVIOUS
  <2> HIDE DEF Left
  <2>4. QED
    BY <2>2, <2>3
<1>5. QED
  BY <1>4

Top(S) == IF S = {} THEN 0 ELSE CHOOSE i \in S : \A j \in S : j <= i

LEMMA TopIsLast ==
  ASSUME NEW n \in Nat, NEW S \in SUBSET (1..n)
  PROVE  /\ S = {} => Top(S) = 0
         /\ S # {} => Top(S) \in S
         /\ \A j \in S : j <= Top(S)
         /\ Top(S) \in Nat
<1>1. CASE S = {}
  BY <1>1 DEF Top
<1>2. CASE S # {}
  <2>1. \E i \in S : \A j \in S : j <= i
    BY <1>2, LastChange
  <2>2. Top(S) \in S /\ \A j \in S : j <= Top(S)
    <3> DEFINE IsLast(i) == \A j \in S : j <= i
    <3>1. Top(S) = CHOOSE i \in S : IsLast(i)
      BY <1>2 DEF Top
    <3>2. \E i \in S : IsLast(i)
      BY <2>1
    <3> HIDE DEF IsLast
    <3>3. Top(S) \in S /\ IsLast(Top(S))
      BY <3>1, <3>2
    <3>4. QED
      BY <3>3 DEF IsLast
  <2>3. \A i \in S : i \in Nat
    OBVIOUS
  <2>4. Top(S) \in Nat
    BY <2>2, <2>3
  <2>5. QED
    BY <1>2, <2>2, <2>4
<1>3. QED
  BY <1>1, <1>2

\* What FINAL shows of a row is its last change in the bronze table.
LEMMA ShownIsTop ==
  ASSUME NEW r \in Rows
  PROVE  /\ Shown(r) = Top(Present \cap ChangesOf(r))
         /\ Shown(r)' = Top(Present' \cap ChangesOf(r)')
BY DEF Shown, Top

\* FINAL never goes back, whatever is inserted, repeated or merged.
LEMMA ShownMovesOn ==
  ASSUME Typed, [Next]_vars, NEW r \in Rows
  PROVE  Shown(r)' = Shown(r) \/ (Shown(r)' > Shown(r) /\ Shown(r)' \in ChangesOf(r)')
<1> DEFINE Now == Present \cap ChangesOf(r)
<1> DEFINE Then == Present' \cap ChangesOf(r)'
<1>1. Typed'
  BY TypedStep
<1>2. MaxChanges \in Nat /\ Now \subseteq 1..MaxChanges /\ Then \subseteq 1..MaxChanges
  <2>1. DOMAIN wal \subseteq DOMAIN wal' /\ DOMAIN wal' \subseteq 1..MaxChanges
    BY WalGrows
  <2>2. QED
    BY <2>1 DEF ChangesOf
<1>6. /\ Now = {} => Shown(r) = 0
      /\ Now # {} => Shown(r) \in Now
      /\ Shown(r) \in Nat
  <2> HIDE DEF Now
  <2>1. Shown(r) = Top(Now)
    BY ShownIsTop DEF Now
  <2>2. QED
    BY <1>2, <2>1, TopIsLast
<1>7. /\ Then = {} => Shown(r)' = 0
      /\ Then # {} => Shown(r)' \in Then
      /\ \A j \in Then : j <= Shown(r)'
      /\ Shown(r)' \in Nat
  <2> HIDE DEF Then
  <2>1. Shown(r)' = Top(Then)
    BY ShownIsTop DEF Then
  <2>2. MaxChanges \in Nat /\ Then \in SUBSET (1..MaxChanges)
    BY <1>2
  <2>3. /\ Then = {} => Top(Then) = 0
        /\ Then # {} => Top(Then) \in Then
        /\ \A j \in Then : j <= Top(Then)
        /\ Top(Then) \in Nat
    BY <2>2, TopIsLast
  <2>4. QED
    BY <2>1, <2>3
<1>3. CASE Now = {}
  BY <1>3, <1>6, <1>7
<1>4. CASE Now # {}
  <2>1. PICK i \in Now : i = Shown(r)
    BY <1>4, <1>6
  <2>2. i \in DOMAIN wal /\ wal[i].row = r /\ i \in Nat
    BY <2>1 DEF ChangesOf, Typed, TypeOK
  <2>3. Covered(i)
    BY <2>1 DEF Covered
  <2>4. Covered(i)'
    BY <2>2, <2>3, CoveredStays
  <2>5. PICK j \in Present' : j = i \/ (wal'[j].row = wal'[i].row /\ j > i)
    BY <2>4 DEF Covered, Supersedes
  <2>6. /\ wal'[i] = wal[i] /\ i \in DOMAIN wal' /\ DOMAIN wal' \subseteq 1..MaxChanges
        /\ Present' \subseteq DOMAIN wal'
    BY <1>1, <2>2, WalGrows DEF Present
  <2>7. j \in Present' \cap ChangesOf(r)' /\ j >= i /\ j \in Nat
    BY <2>2, <2>5, <2>6 DEF ChangesOf
  <2>8. j <= Shown(r)' /\ Shown(r)' \in ChangesOf(r)' /\ Shown(r)' \in Nat
    BY <1>7, <2>7
  <2>9. QED
    BY <2>1, <2>2, <2>7, <2>8
<1>5. QED
  BY <1>3, <1>4

\* Change data capture implements the lagging replica: FINAL on the bronze table
\* shows every row at one of its changes, and only moves along them.
THEOREM BronzeIsReplica == Spec => ImplementsReplica
<1> DEFINE History == [r \in Rows |-> ChangesOf(r)]
<1> DEFINE Seen == [r \in Rows |-> Shown(r)]
<1>1. Init => Replica!Init
  <2> SUFFICES ASSUME Init PROVE Replica!Init
    OBVIOUS
  <2>1. DOMAIN wal = {} /\ Present = {}
    BY DEF Init, Present
  <2>2. \A r \in Rows : ChangesOf(r) = {} /\ Shown(r) = 0
    BY <2>1 DEF ChangesOf, Shown
  <2>3. QED
    BY <2>2 DEF Replica!Init
<1>2. Typed /\ [Next]_vars => [Replica!Next]_<<History, Seen>>
  <2> SUFFICES ASSUME Typed, [Next]_vars PROVE [Replica!Next]_<<History, Seen>>
    OBVIOUS
  <2>1. CASE Commit
    <3>1. PICK r \in Rows, op \in {"c", "u", "d"} : wal' = Append(wal, [row |-> r, op |-> op])
      BY <2>1 DEF Commit
    <3>2. [row |-> r, op |-> op] \in Changes
      BY DEF Changes
    <3>3. /\ DOMAIN wal = 1..Len(wal) /\ Len(wal) \in Nat
          /\ DOMAIN wal' = 1..(Len(wal) + 1)
          /\ \A p \in 1..Len(wal) : wal'[p] = wal[p]
          /\ wal'[Len(wal) + 1] = [row |-> r, op |-> op]
      BY <3>1, <3>2, Longer DEF Typed, TypeOK
    <3>4. \A s \in Rows : ChangesOf(s)'
                          = IF s = r THEN ChangesOf(s) \cup {Len(wal) + 1} ELSE ChangesOf(s)
      BY <3>3 DEF ChangesOf
    <3>5. \A s \in Rows : Shown(s)' = Shown(s)
      <4>1. bronze' = bronze /\ DOMAIN wal \subseteq DOMAIN wal'
        BY <2>1, <3>3 DEF Commit, sinkVars
      <4>2. Present' = Present /\ Len(wal) + 1 \notin Present
        <5>1. \A k \in 1..MaxChanges : bronze[k] > 0 => k \in DOMAIN wal
          BY DEF Typed, TypeOK
        <5>2. DOMAIN wal' \subseteq 1..MaxChanges
          BY WalGrows
        <5>3. QED
          BY <3>3, <4>1, <5>1, <5>2 DEF Present
      <4>3. \A s \in Rows : Present' \cap ChangesOf(s)' = Present \cap ChangesOf(s)
        BY <3>4, <4>2
      <4>4. QED
        BY <4>3, ShownIsTop
    <3>6. Replica!Change(r)
      <4>1. Len(wal) + 1 \in History'[r]
        BY <3>4
      <4>2. \A m \in History[r] : m < Len(wal) + 1
        BY <3>3 DEF ChangesOf
      <4>3. History' = [History EXCEPT ![r] = @ \cup {Len(wal) + 1}]
        BY <3>4
      <4>4. Seen' = Seen
        BY <3>5
      <4>5. QED
        BY <4>1, <4>2, <4>3, <4>4 DEF Replica!Change
    <3>7. QED
      BY <3>6 DEF Replica!Next
  <2>2. CASE wal' = wal
    <3>1. \A r \in Rows : ChangesOf(r)' = ChangesOf(r)
      BY <2>2 DEF ChangesOf
    <3>2. \A r \in Rows : Shown(r)' = Shown(r) \/ (Shown(r)' > Shown(r) /\ Shown(r)' \in ChangesOf(r))
      BY <3>1, ShownMovesOn
    <3>3. Replica!Follow
      BY <3>1, <3>2 DEF Replica!Follow
    <3>4. QED
      BY <3>3 DEF Replica!Next
  <2>3. QED
    BY <2>1, <2>2 DEF Next, Publish, CommitSourceOffset, Health, InsertBlock, InsertFails,
       CommitOffset, ConsumerRestarts, Merge, Backfill, vars, sourceVars
<1>3. QED
  BY <1>1, <1>2, AlwaysTyped, PTL DEF Spec, ImplementsReplica, Replica!Spec


-----------------------------------------------------------------------------
(* Catching up *)

\* What CatchesUp needs besides progress: when the task has published all of the
\* WAL and ClickHouse has committed all of the topic, every change is stored -
\* however often the task went back in between -, and what is stored stays so.
THEOREM CaughtUpForGood ==
  Spec => /\ [](published = Len(wal) /\ Len(topic) = 0
                  => \A i \in DOMAIN wal : Stored(i))
          /\ [][\A i \in DOMAIN wal : Stored(i) => Stored(i)']_vars
<1>1. Init => OnItsWay
  BY DEF Init, OnItsWay
<1>2. Typed /\ OnItsWay =>
        (published = Len(wal) /\ Len(topic) = 0 => \A i \in DOMAIN wal : Stored(i))
  <2> SUFFICES ASSUME Typed, OnItsWay, published = Len(wal), Len(topic) = 0,
                      NEW i \in DOMAIN wal
               PROVE  Stored(i)
    OBVIOUS
  <2>1. i \in 1..published /\ DOMAIN topic = {}
    BY DEF Typed, TypeOK
  <2>2. QED
    BY <2>1 DEF OnItsWay
<1>3. Typed /\ [Next]_vars => [\A i \in DOMAIN wal : Stored(i) => Stored(i)']_vars
  BY StoredStays
<1>4. QED
  BY <1>1, <1>2, <1>3, OnItsWayStep, AlwaysTyped, PTL DEF Spec

\* The plain MergeTrees of silver are only added to, short of the years of their TTL:
\* what module FeatureStore assumes of the transactions it reads
\* (clickhouse/silver/01_transactions_silver.sql:3,15-18).
THEOREM SilverGrows == Spec => [][\A i \in 1..MaxChanges : copies'[i] >= copies[i]]_vars
<1>1. Typed /\ [Next]_vars => [\A i \in 1..MaxChanges : copies'[i] >= copies[i]]_vars
  BY CopiesGrow
<1>2. QED
  BY <1>1, AlwaysTyped, PTL DEF Spec
=============================================================================
