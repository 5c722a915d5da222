---------------------------- MODULE ClickHousePool ---------------------------
(***************************************************************************)
(* The connection pool of api/feature_store/clickhouse_client.py: a        *)
(* queue.Queue of PoolSize clients that threads take from and return to.   *)
(* get waits at most its timeout and then raises; put waits, without a     *)
(* timeout, for room in the bounded queue.                                 *)
(*                                                                         *)
(* Three kinds of use exist: an explicit get ... finally put (get_features *)
(* in routes.py), ping, and execute.  A connection is a model value; which *)
(* idle connection the queue hands out next matters to no property, so the *)
(* queue is a set.                                                         *)
(***************************************************************************)
EXTENDS Naturals, FiniteSets

CONSTANTS Callers,    \* threads that use the pool
          Conns,      \* client objects; a disconnected one may come back
          PoolSize,   \* POOL_SIZE, config.py
          NoConn      \* None

ASSUME PoolAssumption ==
  /\ PoolSize \in Nat \ {0}
  /\ NoConn \notin Conns
  /\ IsFiniteSet(Conns)
  /\ Cardinality(Conns) > PoolSize

Uses == {"get_put", "ping", "execute"}

VARIABLES idle,   \* the queue's contents
          use,    \* use[c]: what c called the pool for
          phase,  \* phase[c]: where in that call c is
          held,   \* held[c]: the connection in c's local variable conn
          lost,   \* history: live connections nobody can return any more
          open    \* the pool has not been closed

vars == <<idle, use, phase, held, lost, open>>

Held == {held[c] : c \in Callers} \ {NoConn}

TypeOK ==
  /\ idle \in SUBSET Conns
  /\ use \in [Callers -> Uses]
  /\ phase \in [Callers -> {"out", "getting", "querying", "putting"}]
  /\ held \in [Callers -> Conns \cup {NoConn}]
  /\ lost \in SUBSET Conns
  /\ open \in BOOLEAN

Init ==
  /\ idle \in {S \in SUBSET Conns : Cardinality(S) = PoolSize}
  /\ use = [c \in Callers |-> "get_put"]
  /\ phase = [c \in Callers |-> "out"]
  /\ held = [c \in Callers |-> NoConn]
  /\ lost = {}
  /\ open = TRUE

\* A thread calls one of the pool's methods; all of them start with get.
Call(c) ==
  /\ open
  /\ phase[c] = "out"
  /\ \E u \in Uses : use' = [use EXCEPT ![c] = u]
  /\ phase' = [phase EXCEPT ![c] = "getting"]
  /\ UNCHANGED <<idle, held, lost, open>>

\* Queue.get hands out a connection.
get(c) ==
  /\ phase[c] = "getting"
  /\ \E conn \in idle :
       /\ idle' = idle \ {conn}
       /\ held' = [held EXCEPT ![c] = conn]
  /\ phase' = [phase EXCEPT ![c] = "querying"]
  /\ UNCHANGED <<use, lost, open>>

\* A get that waits for a connection for ever.
get_exhausted_NoTimeout(c) == FALSE

\* Queue.get raises Empty after the timeout, get raises RuntimeError; it is
\* called outside every try block, so the caller leaves without a put.
get_exhausted(c) ==
  /\ phase[c] = "getting"
  /\ idle = {}
  /\ phase' = [phase EXCEPT ![c] = "out"]
  /\ UNCHANGED <<idle, use, held, lost, open>>

\* The query of an explicit user or of ping ends, with rows or an exception:
\* either way the finally clause puts conn back.
FinallyPut(c) ==
  /\ phase[c] = "querying"
  /\ use[c] # "execute"
  /\ phase' = [phase EXCEPT ![c] = "putting"]
  /\ UNCHANGED <<idle, use, held, lost, open>>

\* execute leaves by `return conn.execute(...)` inside the try block, so the
\* else clause with the put is skipped and the connection is forgotten.
execute_returns(c) ==
  /\ phase[c] = "querying"
  /\ use[c] = "execute"
  /\ phase' = [phase EXCEPT ![c] = "out"]
  /\ held' = [held EXCEPT ![c] = NoConn]
  /\ lost' = lost \cup {held[c]}
  /\ UNCHANGED <<idle, use, open>>

\* An exception path that disconnects without a replacement.
execute_raises_NoReplacement(c) ==
  /\ phase[c] = "querying"
  /\ use[c] = "execute"
  /\ held' = [held EXCEPT ![c] = NoConn]
  /\ phase' = [phase EXCEPT ![c] = "out"]
  /\ UNCHANGED <<idle, use, lost, open>>

\* An exception path that returns the broken connection beside the new one.
execute_raises_PutBoth(c) ==
  /\ phase[c] = "querying"
  /\ use[c] = "execute"
  /\ idle' = idle \cup {held[c]}
  /\ \E conn \in Conns \ (idle \cup Held \cup lost) :
       held' = [held EXCEPT ![c] = conn]
  /\ phase' = [phase EXCEPT ![c] = "putting"]
  /\ UNCHANGED <<use, lost, open>>

\* execute disconnects a connection that raised and puts a new client in its
\* place, then raises again.
execute_raises(c) ==
  /\ phase[c] = "querying"
  /\ use[c] = "execute"
  /\ \E conn \in Conns \ (idle \cup Held \cup lost) :
       held' = [held EXCEPT ![c] = conn]
  /\ phase' = [phase EXCEPT ![c] = "putting"]
  /\ UNCHANGED <<idle, use, lost, open>>

\* A put that runs again because the caller also puts in a finally clause.
put_Twice(c) ==
  /\ phase[c] = "putting"
  /\ idle' = idle \cup {held[c]}
  /\ UNCHANGED <<use, phase, held, lost, open>>

\* A caller that forgets its connection before it returns it.
put_AfterForgetting(c) ==
  /\ phase[c] = "putting"
  /\ Cardinality(idle) < PoolSize
  /\ held' = [held EXCEPT ![c] = NoConn]
  /\ idle' = idle \cup {held'[c]}
  /\ phase' = [phase EXCEPT ![c] = "out"]
  /\ UNCHANGED <<use, lost, open>>

\* Queue.put, which blocks while the queue holds PoolSize clients.
put(c) ==
  /\ phase[c] = "putting"
  /\ Cardinality(idle) < PoolSize
  /\ idle' = idle \cup {held[c]}
  /\ held' = [held EXCEPT ![c] = NoConn]
  /\ phase' = [phase EXCEPT ![c] = "out"]
  /\ UNCHANGED <<use, lost, open>>

\* close drains the queue.  The lifespan handler of main.py calls it once the
\* server has finished its requests.
close ==
  /\ open
  /\ \A c \in Callers : phase[c] = "out"
  /\ open' = FALSE
  /\ idle' = {}
  /\ UNCHANGED <<use, phase, held, lost>>

Step(c) ==
  \/ get(c)
  \/ get_exhausted(c)
  \/ FinallyPut(c)
  \/ execute_returns(c)
  \/ execute_raises(c)
  \/ put(c)

Next == close \/ \E c \in Callers : Call(c) \/ Step(c)

\* Every wait inside the pool ends by a timeout of the code or of the driver;
\* nothing obliges a thread to call again or the server to shut down.
Spec == Init /\ [][Next]_vars /\ \A c \in Callers : WF_vars(Step(c))

-----------------------------------------------------------------------------
(* Properties *)

\* No connection is in two hands: not two callers', not a caller's and the
\* queue's.  A clickhouse-driver Client is not thread-safe, so two users of one
\* connection would read each other's result.
NoSharing ==
  /\ \A c, d \in Callers : c # d /\ held[c] # NoConn => held[c] # held[d]
  /\ idle \cap Held = {}
  /\ lost \cap (idle \cup Held) = {}

\* Every slot of the pool is accounted for: a connection is idle, in use, or
\* was forgotten by execute; no exception path drops or adds one.
SlotsAccountedFor ==
  open => Cardinality(idle \cup Held \cup lost) = PoolSize

\* put never has to wait: whoever is about to return a connection finds room
\* in the queue, although put has no timeout.
PutNeverBlocks ==
  \A c \in Callers : phase[c] = "putting" => Cardinality(idle) < PoolSize

\* Threads, broken connections and their replacements apart, the pool is a count
\* of slots: a call takes one that is free, gives back the one it took or (only
\* execute) forgets it, and a broken connection is exchanged without anybody
\* noticing - what FeatureApi, which keeps the count only, relies on.
Slotted == INSTANCE SlotPool
             WITH Size <- PoolSize,
                  free <- Cardinality(idle), out <- Cardinality(Held)
ImplementsSlots == Slotted!Spec

\* Every caller gets an answer, a result or an exception, however many
\* connections are gone.
EveryCallReturns ==
  \A c \in Callers : phase[c] # "out" ~> phase[c] = "out"

\* Callers "acquire/release" connections and put "returns a connection to the
\* pool" (clickhouse_client.py:16-17, 48-50): with nobody inside the pool, all
\* PoolSize connections are available again.  execute breaks this.
AllReturned ==
  open /\ (\A c \in Callers : phase[c] = "out") => Cardinality(idle) = PoolSize
=============================================================================
