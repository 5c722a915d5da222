--------------------------- MODULE BreakerContract ---------------------------
(***************************************************************************)
(* What a circuit breaker promises, as a state machine over one Breaker.   *)
(* Module CircuitBreaker, whose callers are threads and whose clock may be  *)
(* set back, implements Spec.  Each worker of module FeatureApi, where      *)
(* requests do not overlap, implements the stronger SerialSpec.             *)
(***************************************************************************)
EXTENDS Breaker

VARIABLE breaker

Init == breaker = Fresh

Probe   == MayProbe(breaker) /\ breaker' = AfterAdmission(breaker)
Succeed == breaker' = AfterSuccess(breaker)
Fail    == breaker' = AfterFailure(breaker)
Elapse  == breaker' = AfterTick(breaker)
Restart == breaker' = Fresh

\* time.time() is a wall clock: it may be set back, which only delays a probe.
SetBack ==
  /\ breaker' = [breaker EXCEPT !.cooldown = breaker'.cooldown]
  /\ breaker'.cooldown >= breaker.cooldown

Next == Probe \/ Succeed \/ Fail \/ Elapse \/ SetBack

Spec == Init /\ [][Next]_breaker

\* The breaker of a process that serves one request at a time, on a clock that
\* is never set back: only a call that was admitted, while the breaker stays
\* as the admission left it, reports its outcome.
SerialNext ==
  \/ Probe
  \/ Elapse
  \/ Restart
  \/ breaker.mode # "open" /\ (Succeed \/ Fail)

SerialSpec == Init /\ [][SerialNext]_breaker
=============================================================================
