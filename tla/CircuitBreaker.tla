---------------------------- MODULE CircuitBreaker ---------------------------
(***************************************************************************)
(* The class CircuitBreaker of api/feature_store/routes.py:29-63 as it is  *)
(* written: absolute times, an unbounded failure counter, and a lock that  *)
(* makes each method atomic.  The callers are threads: each asks           *)
(* can_execute, and if admitted reports success, failure, or - as          *)
(* get_features does for a missing user and for an invalid row - nothing.  *)
(***************************************************************************)
EXTENDS Naturals, FiniteSets

CONSTANTS Callers,            \* threads that share the breaker
          failure_threshold,  \* constructor arguments
          recovery_timeout,
          MaxTime,            \* bound: the clock stops here
          MaxFailures,        \* bound: failures recorded without a success
          MaxSetBacks         \* bound: times the wall clock is set back

ASSUME CircuitBreakerAssumption ==
  /\ failure_threshold \in Nat \ {0}
  /\ recovery_timeout \in Nat \ {0}
  /\ MaxTime \in Nat
  /\ MaxFailures \in Nat
  /\ MaxSetBacks \in Nat

CLOSED == "closed"
OPEN == "open"
HALF_OPEN == "half_open"

VARIABLES state, failure_count, last_failure_time,  \* the object's fields
          now,        \* time.time()
          setBacks,   \* how often the clock was set back
          caller      \* what each thread is doing

breakerVars == <<state, failure_count, last_failure_time>>
clockVars == <<now, setBacks>>
vars == <<breakerVars, clockVars, caller>>

TypeOK ==
  /\ state \in {CLOSED, OPEN, HALF_OPEN}
  /\ failure_count \in Nat
  /\ last_failure_time \in Nat
  /\ now \in Nat
  /\ setBacks \in Nat
  /\ caller \in [Callers -> {"idle", "admitted", "rejected"}]

\* last_failure_time is the epoch, long before any process starts.
Init ==
  /\ state = CLOSED
  /\ failure_count = 0
  /\ last_failure_time = 0
  /\ now = recovery_timeout
  /\ setBacks = 0
  /\ caller = [c \in Callers |-> "idle"]

Cooled == now >= last_failure_time + recovery_timeout

can_execute(c) ==
  /\ caller[c] = "idle"
  /\ \/ /\ state # OPEN
        /\ caller' = [caller EXCEPT ![c] = "admitted"]
        /\ UNCHANGED state
     \/ /\ state = OPEN /\ Cooled
        /\ caller' = [caller EXCEPT ![c] = "admitted"]
        /\ state' = HALF_OPEN
     \/ /\ state = OPEN /\ ~Cooled
        /\ caller' = [caller EXCEPT ![c] = "rejected"]
        /\ UNCHANGED state
  /\ UNCHANGED <<failure_count, last_failure_time, clockVars>>

\* A success that takes one failure back instead of all.
record_success_Decrements(c) ==
  /\ caller[c] = "admitted"
  /\ state' = CLOSED
  /\ failure_count' = failure_count - 1
  /\ caller' = [caller EXCEPT ![c] = "idle"]
  /\ UNCHANGED <<last_failure_time, clockVars>>

record_success(c) ==
  /\ caller[c] = "admitted"
  /\ state' = CLOSED
  /\ failure_count' = 0
  /\ caller' = [caller EXCEPT ![c] = "idle"]
  /\ UNCHANGED <<last_failure_time, clockVars>>

\* A failure that opens a CLOSED breaker but forgets a HALF_OPEN one.
record_failure_OnlyFromClosed(c) ==
  /\ caller[c] = "admitted"
  /\ failure_count < MaxFailures
  /\ failure_count' = failure_count + 1
  /\ last_failure_time' = now
  /\ state' = IF failure_count' = failure_threshold THEN OPEN ELSE state
  /\ caller' = [caller EXCEPT ![c] = "idle"]
  /\ UNCHANGED clockVars

record_failure(c) ==
  /\ caller[c] = "admitted"
  /\ failure_count < MaxFailures
  /\ failure_count' = failure_count + 1
  /\ last_failure_time' = now
  /\ state' = IF failure_count' >= failure_threshold THEN OPEN ELSE state
  /\ caller' = [caller EXCEPT ![c] = "idle"]
  /\ UNCHANGED clockVars

\* A caller that was turned away, or whose call ended with neither outcome.
Leave(c) ==
  /\ caller[c] # "idle"
  /\ caller' = [caller EXCEPT ![c] = "idle"]
  /\ UNCHANGED <<breakerVars, clockVars>>

Tick ==
  /\ now < MaxTime
  /\ now' = now + 1
  /\ UNCHANGED <<breakerVars, setBacks, caller>>

ClockSetBack ==
  /\ setBacks < MaxSetBacks
  /\ setBacks' = setBacks + 1
  /\ \E t \in 0..now : t < now /\ now' = t
  /\ UNCHANGED <<breakerVars, caller>>

Next ==
  \/ \E c \in Callers :
       can_execute(c) \/ record_success(c) \/ record_failure(c) \/ Leave(c)
  \/ Tick
  \/ ClockSetBack

Spec == Init /\ [][Next]_vars

-----------------------------------------------------------------------------
(* Properties *)

\* The state and the counter never disagree: the breaker is CLOSED exactly
\* while fewer than failure_threshold failures have been counted.  Nothing in
\* can_execute touches the counter, so a HALF_OPEN breaker still carries the
\* failures that opened it and one more failure reopens it at once, whatever
\* late outcomes other callers report in between (routes.py:42-63).
CountMatchesState == state = CLOSED <=> failure_count < failure_threshold

\* A breaker that is OPEN was opened, or reopened, by the failure it dates its
\* recovery from; on a clock that was never set back that failure is not in
\* the future, and a HALF_OPEN breaker has always waited the whole timeout
\* since the last failure, also when several callers are in flight.
HalfOpenWaited ==
  setBacks = 0 => /\ last_failure_time <= now
                  /\ state = HALF_OPEN => Cooled

Least(a, b) == IF a <= b THEN a ELSE b

\* The contract's view of the object: the counter saturated at the threshold
\* and the clock reduced to the time left before a probe.
AbstractBreaker ==
  [mode     |-> state,
   strikes  |-> Least(failure_count, failure_threshold),
   cooldown |-> IF Cooled THEN 0 ELSE last_failure_time + recovery_timeout - now]

Contract == INSTANCE BreakerContract
              WITH Threshold <- failure_threshold,
                   RecoveryTimeout <- recovery_timeout,
                   breaker <- AbstractBreaker

\* The object with its counters and clock implements the contract that the
\* model of the API relies on.
ImplementsContract == Contract!Spec
=============================================================================
