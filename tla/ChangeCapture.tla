----------------------------- MODULE ChangeCapture ---------------------------
(***************************************************************************)
(* Change data capture of one PostgreSQL table: the Debezium task reads    *)
(* the WAL and writes a Kafka topic (debezium/connectors/pg_connector.json,*)
(* one partition per row); the ClickHouse Kafka engine inserts blocks of   *)
(* it into the bronze table, whose materialized views pass each event on:  *)
(* deletes to silver.delete_audit_log, everything else to the silver table *)
(* (clickhouse/bronze, clickhouse/silver).                                 *)
(*                                                                         *)
(* Every hop is at-least-once: the task restarts from the last offset it   *)
(* committed, and the consumer commits after the block is stored.  Changes *)
(* are numbered by their place in the WAL, which stands for __source_ts_ms:*)
(* two changes of one row are taken to be a millisecond apart.             *)
(***************************************************************************)
EXTENDS ConnectorHealth, Sequences, FiniteSets

CONSTANTS Rows,         \* primary keys
          MaxChanges    \* bound: length of the WAL

ASSUME CaptureAssumption == MaxChanges \in Nat

VARIABLES
  wal,        \* committed changes, [row, op]
  published,  \* changes the running task has written to the topic
  acked,      \* offset committed by Kafka Connect: a restart resumes after it
  topic,      \* messages ClickHouse has not committed: changes by number
  pending,    \* how many of them are stored already
  bronze,     \* bronze[i]: unmerged rows of change i in the ReplacingMergeTree
  copies,     \* copies[i]: rows of change i in the plain MergeTrees
  repeated    \* changes something had a reason to bring once more (history)

sourceVars == <<wal, published, acked, topic>>
sinkVars == <<pending, bronze, copies, repeated>>
vars == <<healthVars, sourceVars, sinkVars>>

Changes == [row : Rows, op : {"c", "u", "d"}]

TypeOK ==
  /\ HealthTypeOK
  /\ wal \in Seq(Changes) /\ Len(wal) <= MaxChanges
  /\ published \in 0..Len(wal)
  /\ acked \in 0..Len(wal)
  /\ topic \in Seq(DOMAIN wal)
  /\ pending \in 0..Len(topic)
  /\ bronze \in [1..MaxChanges -> Nat]
  /\ \A i \in 1..MaxChanges : bronze[i] > 0 => i \in DOMAIN wal
  /\ copies \in [1..MaxChanges -> Nat]
  /\ repeated \subseteq 1..MaxChanges

Init ==
  /\ HealthInit
  /\ wal = <<>>
  /\ published = 0
  /\ acked = 0
  /\ topic = <<>>
  /\ pending = 0
  /\ bronze = [i \in 1..MaxChanges |-> 0]
  /\ copies = [i \in 1..MaxChanges |-> 0]
  /\ repeated = {}

-----------------------------------------------------------------------------
(* PostgreSQL and Debezium *)

ChangesOf(r) == {i \in DOMAIN wal : wal[i].row = r}
Live(r) == /\ ChangesOf(r) # {}
           /\ \A i \in ChangesOf(r) : wal[i].op # "d"

\* Keys come from a sequence: a deleted one is not used again.
Commit ==
  /\ Len(wal) < MaxChanges
  /\ \E r \in Rows, op \in {"c", "u", "d"} :
       /\ IF op = "c" THEN ChangesOf(r) = {} ELSE Live(r)
       /\ wal' = Append(wal, [row |-> r, op |-> op])
  /\ UNCHANGED <<healthVars, published, acked, topic, sinkVars>>

Publish ==
  /\ task = "RUNNING"
  /\ published < Len(wal)
  /\ published' = published + 1
  /\ topic' = Append(topic, published + 1)
  /\ UNCHANGED <<healthVars, wal, acked, sinkVars>>

CommitSourceOffset ==
  /\ task = "RUNNING"
  /\ acked < published
  /\ acked' = published
  /\ UNCHANGED <<healthVars, wal, published, topic, sinkVars>>

TaskComesUp == task # "RUNNING" /\ task' = "RUNNING"

\* A task that starts with what has been written since.
Health_FromTheEnd ==
  /\ HealthNext
  /\ IF TaskComesUp
       THEN published' = Len(wal) /\ repeated' = repeated \cup acked + 1..published
       ELSE UNCHANGED <<published, repeated>>
  /\ UNCHANGED <<wal, acked, topic, pending, bronze, copies>>

\* A task that takes a new snapshot of the table whenever it starts.
Health_Snapshot ==
  /\ HealthNext
  /\ IF TaskComesUp
       THEN published' = 0 /\ repeated' = repeated \cup acked + 1..published
       ELSE UNCHANGED <<published, repeated>>
  /\ UNCHANGED <<wal, acked, topic, pending, bronze, copies>>

\* Whatever happens to the connector; a task that starts resumes from acked, and
\* what it had written after that it writes again.
Health ==
  /\ HealthNext
  /\ IF TaskComesUp
       THEN published' = acked /\ repeated' = repeated \cup acked + 1..published
       ELSE UNCHANGED <<published, repeated>>
  /\ UNCHANGED <<wal, acked, topic, pending, bronze, copies>>

-----------------------------------------------------------------------------
(* ClickHouse *)

\* How often change i is among the next n messages.
Occurrences(i, n) == Cardinality({p \in 1..n : topic[p] = i})

Block(n) == {topic[p] : p \in 1..n}

Keep(n) == bronze' = [i \in 1..MaxChanges |-> bronze[i] + Occurrences(i, n)]

\* The views see the block itself, not what the bronze table makes of it.
PassOn(n) == copies' = [i \in 1..MaxChanges |-> copies[i] + Occurrences(i, n)]

InsertBlock ==
  /\ pending = 0
  /\ \E n \in 1..Len(topic) :
       /\ Keep(n)
       /\ PassOn(n)
       /\ pending' = n
  /\ UNCHANGED <<healthVars, sourceVars, repeated>>

\* A consumer that commits a block it could not store.
InsertFails_Commits ==
  /\ pending = 0
  /\ Fault
  /\ \E n \in 1..Len(topic) :
       /\ Keep(n)
       /\ topic' = SubSeq(topic, n + 1, Len(topic))
  /\ UNCHANGED <<connectorVars, checkVars, script, wal, published, acked, pending,
                 copies, repeated>>

\* The INSERT of a block fails after it has reached the bronze table or the views
\* but not both; the block will be read again.
InsertFails ==
  /\ pending = 0
  /\ Fault
  /\ \E n \in 1..Len(topic) :
       \/ Keep(n) /\ UNCHANGED <<copies, repeated>>
       \/ PassOn(n) /\ repeated' = repeated \cup Block(n) /\ UNCHANGED bronze
  /\ UNCHANGED <<connectorVars, checkVars, script, sourceVars, pending>>

\* A commit that forgets to start a new block.
CommitOffset_KeepsPending ==
  /\ pending > 0
  /\ topic' = SubSeq(topic, pending + 1, Len(topic))
  /\ UNCHANGED <<healthVars, wal, published, acked, sinkVars>>

CommitOffset ==
  /\ pending > 0
  /\ topic' = SubSeq(topic, pending + 1, Len(topic))
  /\ pending' = 0
  /\ UNCHANGED <<healthVars, wal, published, acked, bronze, copies, repeated>>

\* ClickHouse dies between the INSERT and the commit.
ConsumerRestarts ==
  /\ pending > 0
  /\ Fault
  /\ pending' = 0
  /\ repeated' = repeated \cup Block(pending)
  /\ UNCHANGED <<connectorVars, checkVars, script, sourceVars, bronze, copies>>

Present == {i \in DOMAIN wal : bronze[i] > 0}

Supersedes(j, i) == wal[j].row = wal[i].row /\ j > i

\* A merge that keeps the row inserted last, whatever its version.
Merge_IgnoresVersion ==
  /\ \E i \in Present :
       /\ bronze[i] > 1 \/ \E j \in Present \ {i} : wal[j].row = wal[i].row
       /\ bronze' = [bronze EXCEPT ![i] = @ - 1]
  /\ UNCHANGED <<healthVars, sourceVars, pending, copies, repeated>>

\* ReplacingMergeTree(__source_ts_ms) ORDER BY the key: of two rows of one key the
\* older goes, or either if they are of one change; in parts, or already in the block.
Merge ==
  /\ \E i \in Present :
       /\ bronze[i] > 1 \/ \E j \in Present : Supersedes(j, i)
       /\ bronze' = [bronze EXCEPT ![i] = @ - 1]
  /\ UNCHANGED <<healthVars, sourceVars, pending, copies, repeated>>

\* backfill_silver.sh copies the rows of the bronze table past the views, without
\* FINAL: each as often as it is there.
Backfill ==
  /\ Fault
  /\ LET some == {i \in Present : wal[i].op # "d"} IN
       /\ copies' = [i \in 1..MaxChanges |->
                       copies[i] + (IF i \in some THEN bronze[i] ELSE 0)]
       /\ repeated' = repeated \cup some
  /\ UNCHANGED <<connectorVars, checkVars, script, sourceVars, pending, bronze>>

Next ==
  \/ Commit \/ Publish \/ CommitSourceOffset \/ Health
  \/ InsertBlock \/ InsertFails \/ CommitOffset \/ ConsumerRestarts
  \/ Merge \/ Backfill

\* What runs keeps going.  Nobody has to write to PostgreSQL, offsets of the
\* source need not be committed, merges need not happen.
Spec ==
  /\ Init /\ [][Next]_vars
  /\ HealthFairness
  /\ WF_vars(Publish)
  /\ WF_vars(InsertBlock)
  /\ WF_vars(CommitOffset)

-----------------------------------------------------------------------------
(* Properties *)

\* Change i has reached its silver table or the delete log, and FINAL on the
\* bronze table shows it or a later change of its row.
Stored(i) ==
  /\ copies[i] > 0
  /\ \E j \in Present : j = i \/ Supersedes(j, i)

\* A change Kafka Connect will not read again is stored, or in a message
\* ClickHouse has yet to commit: no restart between two of the hops loses one.
NothingLost ==
  \A i \in 1..acked :
    Stored(i) \/ \E p \in DOMAIN topic : topic[p] = i

\* A change has two rows in silver or the delete log only if it was in flight when
\* something went wrong: written by the task after the last offset it committed when the
\* task came up again, in a block whose INSERT failed after the views or whose commit
\* ClickHouse did not live to make, or in bronze when a backfill ran.  No restart -
\* by a check that acts on an old status, or by a script that could not read it - and
\* no merge repeats what was committed before.
OnlyInFlightRepeated ==
  \A i \in 1..MaxChanges : copies[i] > 1 => i \in repeated

\* The change FINAL shows of row r.
Shown(r) == LET present == Present \cap ChangesOf(r) IN
            IF present = {} THEN 0
            ELSE CHOOSE i \in present : \A j \in present : j <= i

Replica == INSTANCE LaggingReplica
             WITH changes <- [r \in Rows |-> ChangesOf(r)],
                  shown   <- [r \in Rows |-> Shown(r)]

\* However messages are repeated, FINAL on the bronze table moves along the
\* history of every row and never back: ReplacingMergeTree takes the newest
\* __source_ts_ms (clickhouse/bronze/09_pg_transactions_raw.sql).
ImplementsReplica == Replica!Spec

\* Once the failures are over, the tables catch up with PostgreSQL - also while
\* the connector itself is FAILED, since its task goes on.
CatchesUp == <>[](\A i \in DOMAIN wal : Stored(i))
=============================================================================
