------------------------------- MODULE Breaker -------------------------------
(***************************************************************************)
(* One circuit breaker of api/feature_store/routes.py:29-63 as a value, and *)
(* what each of its methods makes of it.  The data is reduced to what       *)
(* can_execute and record_failure compare:                                  *)
(*                                                                          *)
(*   strikes   failure_count, saturated at the threshold: the code only     *)
(*             ever asks whether it has reached it;                         *)
(*   cooldown  how long time.time() still has to advance until              *)
(*             now - last_failure_time >= recovery_timeout.                 *)
(*                                                                          *)
(* Module CircuitBreaker keeps the code's own counter and clock and is      *)
(* shown to behave like this value.                                         *)
(***************************************************************************)
EXTENDS Naturals

CONSTANTS Threshold,        \* failure_threshold
          RecoveryTimeout   \* recovery_timeout, in clock ticks

ASSUME BreakerAssumption ==
  /\ Threshold \in Nat \ {0}
  /\ RecoveryTimeout \in Nat \ {0}

Modes == {"closed", "open", "half_open"}

Breakers == [mode : Modes, strikes : 0..Threshold, cooldown : Nat]

\* A new process: CLOSED, no failure seen, the last one infinitely long ago.
Fresh == [mode |-> "closed", strikes |-> 0, cooldown |-> 0]

\* A breaker that probes without waiting.
MayProbe_NoWait(b) == b.mode = "open"

MayProbe(b) == b.mode = "open" /\ b.cooldown = 0

\* can_execute: CLOSED and HALF_OPEN admit, OPEN only once it has cooled down.
Admits(b) == b.mode # "open" \/ MayProbe(b)

\* The breaker after can_execute has returned True.
AfterAdmission(b) == IF MayProbe(b) THEN [b EXCEPT !.mode = "half_open"] ELSE b

\* A success that resets the counter but not the state.
AfterSuccess_KeepsMode(b) == [b EXCEPT !.strikes = 0]

AfterSuccess(b) ==
  [mode |-> "closed", strikes |-> 0, cooldown |-> b.cooldown]

AfterFailure(b) ==
  IF b.strikes + 1 >= Threshold
    THEN [mode |-> "open", strikes |-> Threshold, cooldown |-> RecoveryTimeout]
    ELSE [mode |-> b.mode, strikes |-> b.strikes + 1,
          cooldown |-> RecoveryTimeout]

\* The wall clock advances by one tick.
AfterTick(b) == [b EXCEPT !.cooldown = IF @ = 0 THEN 0 ELSE @ - 1]
=============================================================================
