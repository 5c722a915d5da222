------------------------- MODULE ClickHousePoolProofs ------------------------
(***************************************************************************)
(* The safety properties of ClickHousePool, and that it implements the     *)
(* counted SlotPool, for any callers, any pool size and any set of client  *)
(* objects with one to spare.                                              *)
(***************************************************************************)
EXTENDS ClickHousePool, FiniteSetTheorems, TLAPS

USE PoolAssumption

\* A caller has a connection exactly between get and put.
HeldMatchesPhase ==
  \A c \in Callers : held[c] # NoConn <=> phase[c] \in {"querying", "putting"}

\* Every reachable state is well typed.  HeldMatchesPhase makes what enters the
\* queue, or is forgotten, a connection and not None.
THEOREM TypeCorrect == Spec => [](TypeOK /\ HeldMatchesPhase)
<1> DEFINE Good == TypeOK /\ HeldMatchesPhase
<1>1. Init => Good
  BY DEF Init, TypeOK, Uses, HeldMatchesPhase
<1>2. Good /\ [Next]_vars => Good'
  <2> SUFFICES ASSUME TypeOK, HeldMatchesPhase, [Next]_vars PROVE Good'
    OBVIOUS
  <2> USE DEF TypeOK, HeldMatchesPhase
  <2>1. CASE close
    BY <2>1 DEF close
  <2>2. ASSUME NEW c \in Callers, Call(c) PROVE Good'
    BY <2>2 DEF Call
  <2>3. ASSUME NEW c \in Callers, get(c) PROVE Good'
    BY <2>3 DEF get
  <2>4. ASSUME NEW c \in Callers, get_exhausted(c) PROVE Good'
    BY <2>4 DEF get_exhausted
  <2>5. ASSUME NEW c \in Callers, FinallyPut(c) PROVE Good'
    BY <2>5 DEF FinallyPut
  <2>6. ASSUME NEW c \in Callers, execute_returns(c) PROVE Good'
    BY <2>6 DEF execute_returns
  <2>7. ASSUME NEW c \in Callers, execute_raises(c) PROVE Good'
    BY <2>7 DEF execute_raises
  <2>8. ASSUME NEW c \in Callers, put(c) PROVE Good'
    BY <2>8 DEF put
  <2>9. CASE UNCHANGED vars
    BY <2>9 DEF vars
  <2>10. QED
    BY <2>1, <2>2, <2>3, <2>4, <2>5, <2>6, <2>7, <2>8, <2>9 DEF Next, Step
<1>3. QED
  BY <1>1, <1>2, PTL DEF Spec

-----------------------------------------------------------------------------
(* No sharing *)

\* No connection is in two hands.  A connection changes hands only from the
\* queue to one caller and back, and a replacement is nobody's.
THEOREM NeverShared == Spec => []NoSharing
<1>1. Init => NoSharing
  BY DEF Init, NoSharing, Held
<1>2. TypeOK /\ HeldMatchesPhase /\ NoSharing /\ [Next]_vars => NoSharing'
  <2> SUFFICES ASSUME TypeOK, HeldMatchesPhase, NoSharing, [Next]_vars
               PROVE  NoSharing'
    OBVIOUS
  <2> USE DEF TypeOK, HeldMatchesPhase, NoSharing, Held
  <2>1. CASE close
    BY <2>1 DEF close
  <2>2. ASSUME NEW c \in Callers, Call(c) PROVE NoSharing'
    BY <2>2 DEF Call
  <2>3. ASSUME NEW c \in Callers, get(c) PROVE NoSharing'
    BY <2>3 DEF get
  <2>4. ASSUME NEW c \in Callers, get_exhausted(c) PROVE NoSharing'
    BY <2>4 DEF get_exhausted
  <2>5. ASSUME NEW c \in Callers, FinallyPut(c) PROVE NoSharing'
    BY <2>5 DEF FinallyPut
  <2>6. ASSUME NEW c \in Callers, execute_returns(c) PROVE NoSharing'
    BY <2>6 DEF execute_returns
  <2>7. ASSUME NEW c \in Callers, execute_raises(c) PROVE NoSharing'
    BY <2>7 DEF execute_raises
  <2>8. ASSUME NEW c \in Callers, put(c) PROVE NoSharing'
    BY <2>8 DEF put
  <2>9. CASE UNCHANGED vars
    BY <2>9 DEF vars
  <2>10. QED
    BY <2>1, <2>2, <2>3, <2>4, <2>5, <2>6, <2>7, <2>8, <2>9 DEF Next, Step
<1>3. QED
  BY <1>1, <1>2, TypeCorrect, PTL DEF Spec

-----------------------------------------------------------------------------
(* The slots of the pool *)

\* The connections that occupy a slot.
Slots == idle \cup Held \cup lost

\* Replacing one element of a finite set by one outside it keeps its size.
LEMMA SwapCardinality ==
  ASSUME NEW S, IsFiniteSet(S), NEW x \in S, NEW y, y \notin S
  PROVE  Cardinality((S \ {x}) \cup {y}) = Cardinality(S)
<1>1. /\ IsFiniteSet(S \ {x})
      /\ Cardinality(S \ {x}) = Cardinality(S) - 1
  BY FS_RemoveElement
<1>2. Cardinality((S \ {x}) \cup {y}) = Cardinality(S \ {x}) + 1
  BY <1>1, FS_AddElement
<1>3. Cardinality(S) \in Nat
  BY FS_CardinalityType
<1>4. QED
  BY <1>1, <1>2, <1>3

\* An operation leaves the occupied slots alone, or - execute, when its query
\* raised - puts a new connection in the slot of a broken one.
LEMMA SlotsStep ==
  ASSUME TypeOK, HeldMatchesPhase, NoSharing, [Next]_vars, open'
  PROVE  \/ Slots' = Slots
         \/ \E x \in Slots : \E y \in Conns \ Slots :
              Slots' = (Slots \ {x}) \cup {y}
<1> DEFINE Goal == \/ Slots' = Slots
                   \/ \E x \in Slots : \E y \in Conns \ Slots :
                        Slots' = (Slots \ {x}) \cup {y}
<1> USE DEF TypeOK, HeldMatchesPhase, NoSharing, Slots, Held
<1>1. CASE close
  BY <1>1 DEF close
<1>2. ASSUME NEW c \in Callers, Call(c) PROVE Goal
  BY <1>2 DEF Call
<1>3. ASSUME NEW c \in Callers, get(c) PROVE Goal
  <2>1. PICK conn \in idle : /\ idle' = idle \ {conn}
                             /\ held' = [held EXCEPT ![c] = conn]
                             /\ UNCHANGED lost
    BY <1>3 DEF get
  <2>2. held[c] = NoConn
    BY <1>3 DEF get
  <2>3. Held' = Held \cup {conn}
    BY <2>1, <2>2
  <2>4. QED
    BY <2>1, <2>3
<1>4. ASSUME NEW c \in Callers, get_exhausted(c) PROVE Goal
  BY <1>4 DEF get_exhausted
<1>5. ASSUME NEW c \in Callers, FinallyPut(c) PROVE Goal
  BY <1>5 DEF FinallyPut
<1>6. ASSUME NEW c \in Callers, execute_returns(c) PROVE Goal
  <2>1. held[c] # NoConn
    BY <1>6 DEF execute_returns
  <2>2. Held' = Held \ {held[c]} /\ held[c] \in Held
    BY <1>6, <2>1 DEF execute_returns
  <2>3. QED
    BY <1>6, <2>2 DEF execute_returns
<1>7. ASSUME NEW c \in Callers, execute_raises(c) PROVE Goal
  <2>1. held[c] # NoConn /\ held[c] \in Held
    BY <1>7 DEF execute_raises
  <2>2. PICK y \in Conns \ Slots : held' = [held EXCEPT ![c] = y]
    BY <1>7 DEF execute_raises
  <2>3. Held' = (Held \ {held[c]}) \cup {y}
    BY <2>1, <2>2
  <2>4. Slots' = (Slots \ {held[c]}) \cup {y}
    BY <1>7, <2>1, <2>3 DEF execute_raises
  <2>5. QED
    BY <2>1, <2>2, <2>4
<1>8. ASSUME NEW c \in Callers, put(c) PROVE Goal
  <2>1. held[c] # NoConn
    BY <1>8 DEF put
  <2>2. Held' = Held \ {held[c]} /\ held[c] \in Held
    BY <1>8, <2>1 DEF put
  <2>3. QED
    BY <1>8, <2>2 DEF put
<1>9. CASE UNCHANGED vars
  BY <1>9 DEF vars
<1>10. QED
  BY <1>1, <1>2, <1>3, <1>4, <1>5, <1>6, <1>7, <1>8, <1>9 DEF Next, Step

\* Every slot is accounted for as long as the pool is open: no path through
\* get, put, ping or execute drops a connection without a replacement, except
\* that execute forgets, which lost records.
THEOREM SlotsKept == Spec => []SlotsAccountedFor
<1>1. Init => SlotsAccountedFor
  <2> SUFFICES ASSUME Init PROVE Cardinality(Slots) = PoolSize
    BY DEF SlotsAccountedFor, Slots
  <2>1. Slots = idle
    BY DEF Init, Slots, Held
  <2>2. QED
    BY <2>1 DEF Init
<1>2. TypeOK /\ HeldMatchesPhase /\ NoSharing /\ SlotsAccountedFor
        /\ [Next]_vars => SlotsAccountedFor'
  <2> SUFFICES ASSUME TypeOK, HeldMatchesPhase, NoSharing, SlotsAccountedFor,
                      [Next]_vars, open'
               PROVE  Cardinality(Slots') = PoolSize
    BY DEF SlotsAccountedFor, Slots
  <2>1. open
    BY DEF Next, Step, close, Call, get, get_exhausted, FinallyPut,
       execute_returns, execute_raises, put, vars
  <2>2. Cardinality(Slots) = PoolSize
    BY <2>1 DEF SlotsAccountedFor, Slots
  <2>3. IsFiniteSet(Slots)
    <3>1. Slots \subseteq Conns
      BY DEF TypeOK, Slots, Held
    <3>2. QED
      BY <3>1, FS_Subset
  <2>4. QED
    BY <2>2, <2>3, SlotsStep, SwapCardinality
<1>3. QED
  BY <1>1, <1>2, TypeCorrect, NeverShared, PTL DEF Spec

\* put finds room in the queue: the connection in the caller's hand occupies
\* one of the PoolSize slots, so at most PoolSize - 1 are idle.
THEOREM PutHasRoom == Spec => []PutNeverBlocks
<1> DEFINE ClosedIsQuiet == open \/ \A c \in Callers : phase[c] = "out"
<1>1. Spec => []ClosedIsQuiet
  <2>1. Init => ClosedIsQuiet
    BY DEF Init
  <2>2. ClosedIsQuiet /\ [Next]_vars => ClosedIsQuiet'
    BY DEF Next, Step, close, Call, get, get_exhausted, FinallyPut,
       execute_returns, execute_raises, put, vars
  <2>3. QED
    BY <2>1, <2>2, PTL DEF Spec
<1>2. TypeOK /\ HeldMatchesPhase /\ NoSharing /\ SlotsAccountedFor
        /\ ClosedIsQuiet => PutNeverBlocks
  <2> SUFFICES ASSUME TypeOK, HeldMatchesPhase, NoSharing, SlotsAccountedFor,
                      ClosedIsQuiet, NEW c \in Callers, phase[c] = "putting"
               PROVE  Cardinality(idle) < PoolSize
    BY DEF PutNeverBlocks
  <2>1. held[c] \in Held /\ held[c] \notin idle
    BY DEF HeldMatchesPhase, NoSharing, Held
  <2>2. /\ Slots \subseteq Conns
        /\ idle \cup {held[c]} \subseteq Slots
    BY <2>1 DEF TypeOK, Slots, Held
  <2>3. IsFiniteSet(Slots) /\ IsFiniteSet(idle)
    BY <2>2, FS_Subset DEF TypeOK
  <2>4. Cardinality(Slots) = PoolSize
    <3>1. open
      OBVIOUS
    <3>2. QED
      BY <3>1 DEF SlotsAccountedFor, Slots
  <2>5. Cardinality(idle \cup {held[c]}) = Cardinality(idle) + 1
    BY <2>1, <2>3, FS_AddElement
  <2>6. Cardinality(idle \cup {held[c]}) <= Cardinality(Slots)
    BY <2>2, <2>3, FS_Subset
  <2>7. Cardinality(idle) \in Nat
    BY <2>3, FS_CardinalityType
  <2>8. QED
    BY <2>4, <2>5, <2>6, <2>7
<1>3. QED
  BY <1>1, <1>2, TypeCorrect, NeverShared, SlotsKept, PTL

-----------------------------------------------------------------------------
(* The pool as a count of slots *)

\* The queue and the callers' hands hold finitely many connections.
LEMMA Countable ==
  ASSUME TypeOK
  PROVE  /\ IsFiniteSet(idle) /\ Cardinality(idle) \in Nat
         /\ IsFiniteSet(Held) /\ Cardinality(Held) \in Nat
<1>1. idle \subseteq Conns /\ Held \subseteq Conns
  BY DEF TypeOK, Held
<1>2. IsFiniteSet(idle) /\ IsFiniteSet(Held)
  BY <1>1, FS_Subset
<1>3. QED
  BY <1>2, FS_CardinalityType

\* A caller that forgets or gives back its connection has one less in hand, and
\* nobody else has it.
LEMMA HandsOff ==
  ASSUME TypeOK, HeldMatchesPhase, NoSharing, NEW c \in Callers,
         phase[c] \in {"querying", "putting"}, held' = [held EXCEPT ![c] = NoConn]
  PROVE  /\ held[c] \notin idle
         /\ Cardinality(Held) > 0
         /\ Cardinality(Held') = Cardinality(Held) - 1
<1>1. held[c] # NoConn /\ held[c] \in Held
  BY DEF HeldMatchesPhase, Held
<1>2. Held' = Held \ {held[c]}
  BY <1>1 DEF TypeOK, NoSharing, Held
<1>3. Cardinality(Held') = Cardinality(Held) - 1
  BY <1>1, <1>2, Countable, FS_RemoveElement
<1>4. Cardinality(Held) # 0
  BY <1>1, Countable, FS_EmptySet
<1>5. held[c] \notin idle
  BY <1>1 DEF NoSharing
<1>6. QED
  BY <1>3, <1>4, <1>5, Countable

\* Every operation of the pool takes a slot, gives one back, forgets one, closes
\* the pool or leaves the count alone; replacing a broken connection is of the
\* last kind.
LEMMA SlotStep ==
  ASSUME TypeOK, HeldMatchesPhase, NoSharing, [Next]_vars
  PROVE  [Slotted!Next]_<<Cardinality(idle), Cardinality(Held)>>
<1> DEFINE Goal == [Slotted!Next]_<<Cardinality(idle), Cardinality(Held)>>
<1>1. CASE close
  <2>1. \A c \in Callers : held[c] = NoConn
    BY <1>1 DEF close, HeldMatchesPhase
  <2>2. Held = {} /\ Held' = {} /\ idle' = {}
    BY <1>1, <2>1 DEF close, Held
  <2>3. Slotted!Close
    BY <2>2, FS_EmptySet DEF Slotted!Close
  <2>4. QED
    BY <2>3 DEF Slotted!Next
<1>2. ASSUME NEW c \in Callers, get(c) PROVE Goal
  <2>1. PICK conn \in idle : /\ idle' = idle \ {conn}
                             /\ held' = [held EXCEPT ![c] = conn]
    BY <1>2 DEF get
  <2>2. held[c] = NoConn
    BY <1>2 DEF get, HeldMatchesPhase, TypeOK
  <2>3. Held' = Held \cup {conn} /\ conn \notin Held
    BY <2>1, <2>2 DEF Held, NoSharing, TypeOK
  <2>4. Cardinality(Held') = Cardinality(Held) + 1
    BY <2>3, Countable, FS_AddElement
  <2>5. Cardinality(idle') = Cardinality(idle) - 1
    BY <2>1, Countable, FS_RemoveElement
  <2>6. Cardinality(idle) # 0
    BY <2>1, Countable, FS_EmptySet
  <2>7. Slotted!Take
    BY <2>4, <2>5, <2>6, Countable DEF Slotted!Take
  <2>8. QED
    BY <2>7 DEF Slotted!Next
<1>3. ASSUME NEW c \in Callers, execute_returns(c) PROVE Goal
  <2>1. Cardinality(Held) > 0 /\ Cardinality(Held') = Cardinality(Held) - 1
    BY <1>3, HandsOff DEF execute_returns
  <2>2. Slotted!Forget
    BY <1>3, <2>1 DEF Slotted!Forget, execute_returns
  <2>3. QED
    BY <2>2 DEF Slotted!Next
<1>4. ASSUME NEW c \in Callers, execute_raises(c) PROVE Goal
  <2>1. held[c] # NoConn /\ held[c] \in Held
    BY <1>4 DEF execute_raises, HeldMatchesPhase, Held
  <2>2. PICK y \in Conns \ (idle \cup Held \cup lost) :
               held' = [held EXCEPT ![c] = y]
    BY <1>4 DEF execute_raises
  <2>3. Held' = (Held \ {held[c]}) \cup {y}
    BY <2>1, <2>2 DEF Held, NoSharing, TypeOK
  <2>4. Cardinality(Held') = Cardinality(Held)
    BY <2>1, <2>2, <2>3, Countable, SwapCardinality
  <2>5. QED
    BY <1>4, <2>4 DEF execute_raises
<1>5. ASSUME NEW c \in Callers, put(c) PROVE Goal
  <2>1. /\ held[c] \notin idle
        /\ Cardinality(Held) > 0 /\ Cardinality(Held') = Cardinality(Held) - 1
    BY <1>5, HandsOff DEF put
  <2>2. Cardinality(idle') = Cardinality(idle) + 1
    BY <1>5, <2>1, Countable, FS_AddElement DEF put
  <2>3. Slotted!Give
    BY <2>1, <2>2 DEF Slotted!Give
  <2>4. QED
    BY <2>3 DEF Slotted!Next
<1>6. ASSUME UNCHANGED <<idle, held>> PROVE Goal
  BY <1>6 DEF Held
<1>7. ASSUME NEW c \in Callers, Call(c) \/ get_exhausted(c) \/ FinallyPut(c)
      PROVE  UNCHANGED <<idle, held>>
  BY <1>7 DEF Call, get_exhausted, FinallyPut
<1>8. CASE UNCHANGED vars
  BY <1>6, <1>8 DEF vars
<1>9. QED
  BY <1>1, <1>2, <1>3, <1>4, <1>5, <1>6, <1>7, <1>8 DEF Next, Step

\* The pool of connection objects implements the pool of counted slots.
THEOREM SlotsCounted == Spec => ImplementsSlots
<1>1. Init => Slotted!Init
  <2> SUFFICES ASSUME Init PROVE Slotted!Init
    OBVIOUS
  <2>1. Held = {}
    BY DEF Init, Held
  <2>2. QED
    BY <2>1, FS_EmptySet DEF Init, Slotted!Init
<1>2. TypeOK /\ HeldMatchesPhase /\ NoSharing /\ [Next]_vars
        => [Slotted!Next]_<<Cardinality(idle), Cardinality(Held)>>
  BY SlotStep
<1>3. QED
  BY <1>1, <1>2, TypeCorrect, NeverShared, PTL
     DEF Spec, ImplementsSlots, Slotted!Spec

-----------------------------------------------------------------------------
(* No call is stuck *)

\* A caller inside the pool finds everything its next step needs: a connection or
\* an empty queue for get to give up on, a client to put in the place of a broken
\* one, room for put.  This, and that every step brings the call nearer to its end,
\* is what EveryCallReturns needs besides fairness.
THEOREM NoCallStuck ==
  Spec => []\A c \in Callers :
              /\ phase[c] = "querying" =>
                   /\ held[c] # NoConn
                   /\ Conns \ (idle \cup Held \cup lost) # {}
              /\ phase[c] = "putting" =>
                   held[c] # NoConn /\ Cardinality(idle) < PoolSize
<1> DEFINE OpenWhileUsed == open \/ \A c \in Callers : phase[c] = "out"
<1>1. Init => OpenWhileUsed
  BY DEF Init
<1>2. OpenWhileUsed /\ [Next]_vars => OpenWhileUsed'
  BY DEF Next, Step, close, Call, get, get_exhausted, FinallyPut,
     execute_returns, execute_raises, put, vars
<1>3. ASSUME TypeOK, SlotsAccountedFor, OpenWhileUsed,
             NEW c \in Callers, phase[c] = "querying"
      PROVE  Conns \ Slots # {}
  <2>1. Cardinality(Slots) = PoolSize
    BY <1>3 DEF SlotsAccountedFor, Slots
  <2>2. Slots \subseteq Conns
    BY <1>3 DEF TypeOK, Slots, Held
  <2>3. Slots # Conns
    BY <2>1
  <2>4. QED
    BY <2>2, <2>3
<1>4. TypeOK /\ HeldMatchesPhase /\ SlotsAccountedFor /\ PutNeverBlocks /\ OpenWhileUsed
        => \A c \in Callers :
              /\ phase[c] = "querying" =>
                   /\ held[c] # NoConn
                   /\ Conns \ (idle \cup Held \cup lost) # {}
              /\ phase[c] = "putting" =>
                   held[c] # NoConn /\ Cardinality(idle) < PoolSize
  BY <1>3 DEF HeldMatchesPhase, PutNeverBlocks, Slots
<1>5. QED
  BY <1>1, <1>2, <1>4, TypeCorrect, SlotsKept, PutHasRoom, PTL DEF Spec
=============================================================================
