------------------------- MODULE CircuitBreakerProofs ------------------------
(***************************************************************************)
(* The safety properties of CircuitBreaker, for any set of callers, any    *)
(* threshold and timeout, and any of the bounds.                           *)
(***************************************************************************)
EXTENDS CircuitBreaker, TLAPS

\* Every reachable state is well typed: no method decrements the counter, and
\* the clock is never set back beyond the epoch.
THEOREM TypeCorrect == Spec => []TypeOK
<1>1. Init => TypeOK
  BY CircuitBreakerAssumption DEF Init, TypeOK, CLOSED, OPEN, HALF_OPEN
<1>2. TypeOK /\ [Next]_vars => TypeOK'
  <2> SUFFICES ASSUME TypeOK, [Next]_vars PROVE TypeOK'
    OBVIOUS
  <2> USE DEF TypeOK, CLOSED, OPEN, HALF_OPEN
  <2>1. ASSUME NEW c \in Callers, can_execute(c) PROVE TypeOK'
    BY <2>1 DEF can_execute, clockVars
  <2>2. ASSUME NEW c \in Callers, record_success(c) PROVE TypeOK'
    BY <2>2 DEF record_success, clockVars
  <2>3. ASSUME NEW c \in Callers, record_failure(c) PROVE TypeOK'
    BY <2>3 DEF record_failure, clockVars
  <2>4. ASSUME NEW c \in Callers, Leave(c) PROVE TypeOK'
    BY <2>4 DEF Leave, breakerVars, clockVars
  <2>5. CASE Tick
    BY <2>5 DEF Tick, breakerVars
  <2>6. CASE ClockSetBack
    BY <2>6 DEF ClockSetBack, breakerVars
  <2>7. CASE UNCHANGED vars
    BY <2>7 DEF vars, breakerVars, clockVars
  <2>8. QED
    BY <2>1, <2>2, <2>3, <2>4, <2>5, <2>6, <2>7 DEF Next
<1>3. QED
  BY <1>1, <1>2, PTL DEF Spec

\* The state and the failure counter never disagree.  The invariant is
\* inductive by itself, because failure_count changes only together with state.
THEOREM CountMatches == Spec => []CountMatchesState
<1>1. Init => CountMatchesState
  BY CircuitBreakerAssumption DEF Init, CountMatchesState
<1>2. TypeOK /\ CountMatchesState /\ [Next]_vars => CountMatchesState'
  <2> SUFFICES ASSUME TypeOK, CountMatchesState, [Next]_vars
               PROVE  CountMatchesState'
    OBVIOUS
  <2> USE CircuitBreakerAssumption
      DEF TypeOK, CountMatchesState, CLOSED, OPEN, HALF_OPEN
  <2>1. ASSUME NEW c \in Callers, can_execute(c) PROVE CountMatchesState'
    BY <2>1 DEF can_execute
  <2>2. ASSUME NEW c \in Callers, record_success(c) PROVE CountMatchesState'
    BY <2>2 DEF record_success
  <2>3. ASSUME NEW c \in Callers, record_failure(c) PROVE CountMatchesState'
    BY <2>3 DEF record_failure
  <2>4. ASSUME NEW c \in Callers, Leave(c) PROVE CountMatchesState'
    BY <2>4 DEF Leave, breakerVars
  <2>5. CASE Tick
    BY <2>5 DEF Tick, breakerVars
  <2>6. CASE ClockSetBack
    BY <2>6 DEF ClockSetBack, breakerVars
  <2>7. CASE UNCHANGED vars
    BY <2>7 DEF vars, breakerVars
  <2>8. QED
    BY <2>1, <2>2, <2>3, <2>4, <2>5, <2>6, <2>7 DEF Next
<1>3. QED
  BY <1>1, <1>2, TypeCorrect, PTL DEF Spec

\* A HALF_OPEN breaker has waited the whole timeout since the last failure.
\* CountMatchesState is needed: were a failure able to leave the breaker
\* HALF_OPEN, it would restart the wait without closing the door.
THEOREM HalfOpenHasWaited == Spec => []HalfOpenWaited
<1>1. Init => HalfOpenWaited
  BY CircuitBreakerAssumption
     DEF Init, HalfOpenWaited, Cooled, CLOSED, HALF_OPEN
<1>2. TypeOK /\ CountMatchesState /\ HalfOpenWaited /\ [Next]_vars
        => HalfOpenWaited'
  <2> SUFFICES ASSUME TypeOK, CountMatchesState, HalfOpenWaited, [Next]_vars
               PROVE  HalfOpenWaited'
    OBVIOUS
  <2> USE CircuitBreakerAssumption
      DEF TypeOK, HalfOpenWaited, Cooled, CLOSED, OPEN, HALF_OPEN
  <2>1. ASSUME NEW c \in Callers, can_execute(c) PROVE HalfOpenWaited'
    BY <2>1 DEF can_execute, clockVars
  <2>2. ASSUME NEW c \in Callers, record_success(c) PROVE HalfOpenWaited'
    BY <2>2 DEF record_success, clockVars
  <2>3. ASSUME NEW c \in Callers, record_failure(c) PROVE HalfOpenWaited'
    BY <2>3 DEF record_failure, clockVars, CountMatchesState
  <2>4. ASSUME NEW c \in Callers, Leave(c) PROVE HalfOpenWaited'
    BY <2>4 DEF Leave, breakerVars, clockVars
  <2>5. CASE Tick
    BY <2>5 DEF Tick, breakerVars
  <2>6. CASE ClockSetBack
    BY <2>6 DEF ClockSetBack, breakerVars
  <2>7. CASE UNCHANGED vars
    BY <2>7 DEF vars, breakerVars, clockVars
  <2>8. QED
    BY <2>1, <2>2, <2>3, <2>4, <2>5, <2>6, <2>7 DEF Next
<1>3. QED
  BY <1>1, <1>2, TypeCorrect, CountMatches, PTL DEF Spec

-----------------------------------------------------------------------------
(* Refinement of the contract *)

\* What the abstraction of a well-typed object is: a natural cooldown that is
\* zero exactly when the timeout has passed.
LEMMA AbstractCooldown ==
  ASSUME TypeOK
  PROVE  /\ AbstractBreaker.cooldown \in Nat
         /\ AbstractBreaker.cooldown = 0 <=> Cooled
BY CircuitBreakerAssumption DEF TypeOK, AbstractBreaker, Cooled

\* The object with its unbounded counter and absolute clock implements the
\* contract of one Breaker: every method call is a step of the contract on the
\* abstraction, or leaves the abstraction alone.
THEOREM Refinement == Spec => ImplementsContract
<1> USE CircuitBreakerAssumption DEF CLOSED, OPEN, HALF_OPEN
<1>1. Init => Contract!Init
  BY DEF Init, Contract!Init, Contract!Fresh, AbstractBreaker, Cooled, Least
<1>2. TypeOK /\ TypeOK' /\ CountMatchesState /\ [Next]_vars
        => [Contract!Next]_AbstractBreaker
  <2> SUFFICES ASSUME TypeOK, TypeOK', CountMatchesState, [Next]_vars
               PROVE  Contract!Next \/ UNCHANGED AbstractBreaker
    OBVIOUS
  <2> DEFINE b == AbstractBreaker
  <2> USE DEF b
  <2>1. ASSUME NEW c \in Callers, can_execute(c)
        PROVE  Contract!Next \/ UNCHANGED b
    <3>1. CASE state' = state
      BY <2>1, <3>1 DEF can_execute, clockVars, AbstractBreaker, Cooled
    <3>2. CASE state' # state
      <4>1. state = OPEN /\ Cooled /\ state' = HALF_OPEN
        BY <2>1, <3>2 DEF can_execute
      <4>2. /\ Contract!MayProbe(b)
            /\ b' = Contract!AfterAdmission(b)
        BY <2>1, <4>1 DEF can_execute, clockVars, AbstractBreaker, Cooled,
             Contract!MayProbe, Contract!AfterAdmission
      <4>3. QED
        BY <4>2 DEF Contract!Next, Contract!Probe
    <3>3. QED
      BY <3>1, <3>2
  <2>2. ASSUME NEW c \in Callers, record_success(c)
        PROVE  Contract!Next \/ UNCHANGED b
    <3>1. Least(failure_count', failure_threshold) = 0
      BY <2>2 DEF record_success, Least
    <3>2. b'.cooldown = b.cooldown
      BY <2>2 DEF record_success, clockVars, AbstractBreaker, Cooled
    <3>3. b' = Contract!AfterSuccess(b)
      BY <2>2, <3>1, <3>2 DEF record_success, AbstractBreaker,
           Contract!AfterSuccess
    <3>4. QED
      BY <3>3 DEF Contract!Next, Contract!Succeed
  <2>3. ASSUME NEW c \in Callers, record_failure(c)
        PROVE  Contract!Next \/ UNCHANGED b
    <3>1. b'.cooldown = recovery_timeout
      BY <2>3 DEF record_failure, clockVars, AbstractBreaker, Cooled, TypeOK
    <3>2. ASSUME failure_count + 1 >= failure_threshold
          PROVE  b' = Contract!AfterFailure(b)
      <4>1. state' = OPEN /\ b'.strikes = failure_threshold
        BY <2>3, <3>2 DEF record_failure, AbstractBreaker, Least, TypeOK
      <4>2. b.strikes + 1 >= failure_threshold
        BY <3>2 DEF AbstractBreaker, Least, TypeOK
      <4>3. QED
        BY <3>1, <4>1, <4>2 DEF AbstractBreaker, Contract!AfterFailure
    <3>3. ASSUME failure_count + 1 < failure_threshold
          PROVE  b' = Contract!AfterFailure(b)
      <4>1. state' = state /\ b'.strikes = failure_count + 1
        BY <2>3, <3>3 DEF record_failure, AbstractBreaker, Least, TypeOK
      <4>2. b.strikes = failure_count
        BY <3>3 DEF AbstractBreaker, Least, TypeOK
      <4>3. /\ ~(b.strikes + 1 >= failure_threshold)
            /\ b'.strikes = b.strikes + 1
        BY <3>3, <4>1, <4>2 DEF TypeOK
      <4>4. QED
        BY <3>1, <4>1, <4>3 DEF AbstractBreaker, Contract!AfterFailure
    <3>4. b' = Contract!AfterFailure(b)
      BY <3>2, <3>3 DEF TypeOK
    <3>5. QED
      BY <3>4 DEF Contract!Next, Contract!Fail
  <2>4. ASSUME NEW c \in Callers, Leave(c)
        PROVE  Contract!Next \/ UNCHANGED b
    BY <2>4 DEF Leave, breakerVars, clockVars, AbstractBreaker, Cooled
  <2>5. CASE Tick
    <3>1. b' = Contract!AfterTick(b)
      BY <2>5 DEF Tick, breakerVars, AbstractBreaker, Cooled, TypeOK,
           Contract!AfterTick
    <3>2. QED
      BY <3>1 DEF Contract!Next, Contract!Elapse
  <2>6. CASE ClockSetBack
    <3>1. b'.cooldown >= b.cooldown
      BY <2>6 DEF ClockSetBack, breakerVars, AbstractBreaker, Cooled, TypeOK
    <3>2. b' = [b EXCEPT !.cooldown = b'.cooldown]
      BY <2>6 DEF ClockSetBack, breakerVars, AbstractBreaker
    <3>3. QED
      BY <3>1, <3>2 DEF Contract!Next, Contract!SetBack
  <2>7. CASE UNCHANGED vars
    BY <2>7 DEF vars, breakerVars, clockVars, AbstractBreaker, Cooled
  <2>8. QED
    BY <2>1, <2>2, <2>3, <2>4, <2>5, <2>6, <2>7 DEF Next
<1>3. QED
  BY <1>1, <1>2, TypeCorrect, CountMatches, PTL
     DEF Spec, ImplementsContract, Contract!Spec
=============================================================================
