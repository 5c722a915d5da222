--------------------------- MODULE FeatureApiProofs --------------------------
(***************************************************************************)
(* The safety properties of FeatureApi, for any number of workers, users   *)
(* and connections and any threshold and timeout.                          *)
(***************************************************************************)
EXTENDS FeatureApi, TLAPS

USE BreakerAssumption, ApiAssumption

-----------------------------------------------------------------------------
(* The breaker's methods *)

\* Every method maps a breaker to a breaker.
LEMMA BreakerTypes ==
  ASSUME NEW b \in Breakers
  PROVE  /\ Fresh \in Breakers
         /\ AfterAdmission(b) \in Breakers
         /\ AfterSuccess(b) \in Breakers
         /\ AfterFailure(b) \in Breakers
         /\ AfterTick(b) \in Breakers
<1>1. Fresh \in Breakers /\ AfterSuccess(b) \in Breakers
  BY DEF Breakers, Modes, Fresh, AfterSuccess
<1>2. AfterAdmission(b) \in Breakers
  BY DEF Breakers, Modes, AfterAdmission, MayProbe
<1>3. AfterFailure(b) \in Breakers
  BY DEF Breakers, Modes, AfterFailure
<1>4. AfterTick(b) \in Breakers
  BY DEF Breakers, Modes, AfterTick
<1>5. QED
  BY <1>1, <1>2, <1>3, <1>4

\* What holds of a breaker between any two method calls of a serial caller: it
\* is CLOSED exactly while it has strikes left, and HALF_OPEN only with the
\* whole timeout behind it.
Sound(b) ==
  /\ b.mode = "closed" <=> b.strikes < Threshold
  /\ b.mode = "half_open" => b.cooldown = 0

\* Every method a serial caller can reach keeps a breaker sound.
LEMMA BreakerSound ==
  ASSUME NEW b \in Breakers, Sound(b)
  PROVE  /\ Sound(Fresh)
         /\ Sound(AfterSuccess(b))
         /\ Sound(AfterFailure(b))
         /\ Sound(AfterTick(b))
         /\ Admits(b) => /\ Sound(AfterAdmission(b))
                         /\ AfterAdmission(b).mode # "open"
                         /\ AfterAdmission(b).strikes = b.strikes
                         /\ AfterAdmission(b).cooldown = b.cooldown
<1> USE DEF Sound, Breakers, Modes
<1>1. Sound(Fresh) /\ Sound(AfterSuccess(b))
  BY DEF Fresh, AfterSuccess
<1>2. Sound(AfterFailure(b))
  BY DEF AfterFailure
<1>3. Sound(AfterTick(b))
  BY DEF AfterTick
<1>4. ASSUME Admits(b)
      PROVE  /\ Sound(AfterAdmission(b))
             /\ AfterAdmission(b).mode # "open"
             /\ AfterAdmission(b).strikes = b.strikes
             /\ AfterAdmission(b).cooldown = b.cooldown
  BY <1>4 DEF Admits, MayProbe, AfterAdmission
<1>5. QED
  BY <1>1, <1>2, <1>3, <1>4

-----------------------------------------------------------------------------
(* Invariants *)

\* A handler that ends leaves its worker free and well typed.
LEMMA SendTypes ==
  ASSUME TypeOK, NEW w \in Workers, NEW a \in Answers, Send(w, a)
  PROVE  /\ answer' \in [Workers -> Answers]
         /\ result' \in [Workers -> Results]
         /\ phase' = [phase EXCEPT ![w] = "free"]
         /\ phase' \in [Workers -> {"free", "start", "query", "fallback",
                                    "respond"}]
BY DEF Send, TypeOK, Results, Rows

\* Returning the connection a handler holds refills the pool of its worker and
\* touches no other.
LEMMA PutConserves ==
  ASSUME TypeOK, PoolConserved, NEW w \in Workers, phase[w] = "respond",
         idle' = [idle EXCEPT ![w] = @ + 1],
         phase' = [phase EXCEPT ![w] = "free"]
  PROVE  idle' \in [Workers -> 0..PoolSize] /\ PoolConserved'
<1>1. idle[w] + 1 = PoolSize
  BY DEF PoolConserved, Holding
<1>2. idle' = [idle EXCEPT ![w] = PoolSize]
  BY <1>1
<1>3. QED
  BY <1>2 DEF TypeOK, PoolConserved, Holding

\* A handler that finds its pool full takes one connection.
LEMMA GetConserves ==
  ASSUME TypeOK, PoolConserved, NEW w \in Workers, phase[w] = "start"
  PROVE  /\ idle[w] = PoolSize /\ idle[w] > 0
         /\ (/\ idle' = [idle EXCEPT ![w] = @ - 1]
             /\ phase' = [phase EXCEPT ![w] = "query"])
              => idle' \in [Workers -> 0..PoolSize] /\ PoolConserved'
<1>1. idle[w] = PoolSize /\ idle[w] > 0
  BY DEF PoolConserved, Holding
<1>2. ASSUME idle' = [idle EXCEPT ![w] = @ - 1],
             phase' = [phase EXCEPT ![w] = "query"]
      PROVE  idle' \in [Workers -> 0..PoolSize] /\ PoolConserved'
  <2>1. idle' = [idle EXCEPT ![w] = PoolSize - 1]
    BY <1>1, <1>2
  <2>2. QED
    BY <1>2, <2>1 DEF TypeOK, PoolConserved, Holding
<1>3. QED
  BY <1>1, <1>2

\* Every reachable state is well typed.  PoolConserved is what bounds idle from
\* above when a handler returns its connection.
THEOREM TypeCorrect == Spec => [](TypeOK /\ PoolConserved)
<1>1. Init => TypeOK /\ PoolConserved
  <2> SUFFICES ASSUME Init PROVE TypeOK /\ PoolConserved
    OBVIOUS
  <2>1. Fresh \in Breakers
    BY DEF Fresh, Breakers, Modes
  <2>2. TypeOK
    BY <2>1 DEF Init, TypeOK, Requests, Kinds, Results, Rows, Answers
  <2>3. PoolConserved
    BY DEF Init, PoolConserved, Holding
  <2>4. QED
    BY <2>2, <2>3
<1>2. TypeOK /\ PoolConserved /\ [Next]_vars => TypeOK' /\ PoolConserved'
  <2> SUFFICES ASSUME TypeOK, PoolConserved, [Next]_vars
               PROVE  TypeOK' /\ PoolConserved'
    OBVIOUS
  <2> USE DEF TypeOK, PoolConserved, Holding
  <2>1. ASSUME NEW w \in Workers, Receive(w) PROVE TypeOK' /\ PoolConserved'
    BY <2>1 DEF Receive, storeVars, Answers
  <2>2. ASSUME NEW w \in Workers, Reject(w) PROVE TypeOK' /\ PoolConserved'
    BY <2>2 DEF Reject, Send, storeVars, Answers, Results, Rows
  <2>3. ASSUME NEW w \in Workers, Admit(w) PROVE TypeOK' /\ PoolConserved'
    <3>1. /\ AfterAdmission(breaker[w]) \in Breakers
          /\ AfterFailure(AfterAdmission(breaker[w])) \in Breakers
      BY BreakerTypes
    <3>2. idle[w] > 0 /\ phase[w] = "start"
      BY <2>3, GetConserves DEF Admit
    <3>3. /\ breaker' \in [Workers -> Breakers]
          /\ phase' \in [Workers -> {"free", "start", "query", "fallback",
                                     "respond"}]
      BY <2>3, <3>1, <3>2 DEF Admit
    <3>4. idle' \in [Workers -> 0..PoolSize] /\ PoolConserved'
      BY <2>3, <3>2, GetConserves DEF Admit
    <3>5. QED
      BY <2>3, <3>2, <3>3, <3>4 DEF Admit, storeVars
  <2>4. ASSUME NEW w \in Workers, StartPing(w)
        PROVE  TypeOK' /\ PoolConserved'
    <3>1. idle[w] > 0 /\ phase[w] = "start"
      BY <2>4, GetConserves DEF StartPing
    <3>2. idle' \in [Workers -> 0..PoolSize] /\ PoolConserved'
      BY <2>4, <3>1, GetConserves DEF StartPing
    <3>3. QED
      BY <2>4, <3>1, <3>2 DEF StartPing, storeVars
  <2>5. ASSUME NEW w \in Workers, Query(w) PROVE TypeOK' /\ PoolConserved'
    <3>1. FirstResults(request[w]) \subseteq Results
      BY DEF FirstResults, Results, Rows, Requests
    <3>2. QED
      BY <2>5, <3>1 DEF Query, storeVars
  <2>6. ASSUME NEW w \in Workers, Fallback(w) PROVE TypeOK' /\ PoolConserved'
    BY <2>6 DEF Fallback, storeVars, Results, Rows, Requests
  <2>7. ASSUME NEW w \in Workers, Respond(w) PROVE TypeOK' /\ PoolConserved'
    <3>1. /\ AfterSuccess(breaker[w]) \in Breakers
          /\ AfterFailure(breaker[w]) \in Breakers
      BY BreakerTypes
    <3>2. breaker' \in [Workers -> Breakers]
      BY <2>7, <3>1 DEF Respond, Results, Rows
    <3>3. \E a \in Answers : Send(w, a)
      BY <2>7 DEF Respond, Results, Rows, Answers
    <3>4. idle' \in [Workers -> 0..PoolSize] /\ PoolConserved'
      BY <2>7, <3>3, SendTypes, PutConserves DEF Respond
    <3>5. QED
      BY <2>7, <3>2, <3>3, <3>4, SendTypes DEF Respond, storeVars
  <2>8. ASSUME NEW w \in Workers, RespondHealth(w)
        PROVE  TypeOK' /\ PoolConserved'
    <3>1. \E a \in Answers : Send(w, a)
      BY <2>8 DEF RespondHealth, Answers
    <3>2. idle' \in [Workers -> 0..PoolSize] /\ PoolConserved'
      BY <2>8, <3>1, SendTypes, PutConserves DEF RespondHealth
    <3>3. QED
      BY <2>8, <3>1, <3>2, SendTypes DEF RespondHealth, storeVars
  <2>9. ASSUME NEW w \in Workers, RestartWorker(w)
        PROVE  TypeOK' /\ PoolConserved'
    <3>1. Fresh \in Breakers
      BY DEF Fresh, Breakers, Modes
    <3>2. \E a \in Answers : Send(w, a)
      BY <2>9 DEF RestartWorker, Answers
    <3>3. idle' \in [Workers -> 0..PoolSize] /\ PoolConserved'
      BY <2>9, <3>2, SendTypes DEF RestartWorker
    <3>4. QED
      BY <2>9, <3>1, <3>2, <3>3, SendTypes DEF RestartWorker, storeVars
  <2>10. CASE Tick
    <3>1. \A w \in Workers : AfterTick(breaker[w]) \in Breakers
      BY BreakerTypes
    <3>2. QED
      BY <2>10, <3>1 DEF Tick, storeVars
  <2>11. CASE ClickHouseChanges
    BY <2>11 DEF ClickHouseChanges, workerVars
  <2>12. ASSUME NEW u \in Users, NewSnapshot(u)
         PROVE  TypeOK' /\ PoolConserved'
    BY <2>12 DEF NewSnapshot, workerVars, Rows
  <2>13. CASE UNCHANGED vars
    BY <2>13 DEF vars, workerVars, storeVars
  <2>14. QED
    BY <2>1, <2>2, <2>3, <2>4, <2>5, <2>6, <2>7, <2>8, <2>9, <2>10, <2>11,
       <2>12, <2>13 DEF Next, Handle
<1>3. QED
  BY <1>1, <1>2, PTL DEF Spec

\* Every worker's breaker, pool and request keep their types (routes.py:93-211),
\* for any number of workers and users.
THEOREM TypesKept == Spec => []TypeOK
BY TypeCorrect, PTL

-----------------------------------------------------------------------------
(* The breaker and the requests in flight *)

\* The inductive invariant behind both theorems below: every breaker is sound,
\* and a lookup is in flight only while its breaker is not OPEN.  The second
\* part holds because nothing but the handler itself changes the breaker
\* between can_execute and the outcome.
BreakerInv ==
  \A w \in Workers : /\ Sound(breaker[w])
                     /\ InFlight(w) => breaker[w].mode # "open"

\* BreakerInv speaks of a worker's breaker, phase and request only.
LEMMA BreakerInvStep ==
  ASSUME TypeOK, BreakerInv, NEW w \in Workers,
         \A v \in Workers \ {w} : /\ breaker'[v] = breaker[v]
                                  /\ phase'[v] = phase[v]
                                  /\ request'[v] = request[v],
         Sound(breaker[w])',
         InFlight(w)' => breaker'[w].mode # "open"
  PROVE  BreakerInv'
BY DEF BreakerInv, Sound, InFlight, Holding

LEMMA BreakerInvariance == Spec => []BreakerInv
<1>1. Init => BreakerInv
  BY DEF Init, BreakerInv, Sound, Fresh, InFlight, Holding
<1>2. TypeOK /\ TypeOK' /\ BreakerInv /\ [Next]_vars => BreakerInv'
  <2> SUFFICES ASSUME TypeOK, TypeOK', BreakerInv, [Next]_vars
               PROVE  BreakerInv'
    OBVIOUS
  <2>0. \A w \in Workers : breaker[w] \in Breakers
    BY DEF TypeOK
  <2>1. ASSUME NEW w \in Workers, Receive(w) PROVE BreakerInv'
    BY <2>1, BreakerInvStep DEF Receive, BreakerInv, TypeOK, InFlight, Holding
  <2>2. ASSUME NEW w \in Workers, Reject(w) PROVE BreakerInv'
    BY <2>2, BreakerInvStep
       DEF Reject, Send, BreakerInv, TypeOK, InFlight, Holding
  <2>3. ASSUME NEW w \in Workers, Admit(w) PROVE BreakerInv'
    <3> DEFINE b == AfterAdmission(breaker[w])
    <3>1. Sound(b) /\ b \in Breakers /\ b.mode # "open"
      BY <2>0, <2>3, BreakerSound, BreakerTypes DEF Admit, BreakerInv
    <3>2. Sound(AfterFailure(b))
      BY <3>1, BreakerSound
    <3>3. CASE idle[w] > 0
      <4>1. breaker' = [breaker EXCEPT ![w] = b]
        BY <2>3, <3>3 DEF Admit
      <4>2. Sound(breaker[w])' /\ (breaker'[w]).mode # "open"
        BY <3>1, <4>1 DEF TypeOK, Sound
      <4>3. QED
        BY <2>3, <3>3, <4>1, <4>2, BreakerInvStep DEF Admit, TypeOK
    <3>4. CASE ~(idle[w] > 0)
      <4>1. /\ breaker' = [breaker EXCEPT ![w] = AfterFailure(b)]
            /\ phase' = [phase EXCEPT ![w] = "free"]
        BY <2>3, <3>4 DEF Admit, Send
      <4>2. Sound(breaker[w])' /\ ~InFlight(w)'
        BY <3>2, <4>1 DEF TypeOK, Sound, InFlight, Holding
      <4>3. QED
        BY <2>3, <4>1, <4>2, BreakerInvStep DEF Admit, TypeOK
    <3>5. QED
      BY <3>3, <3>4
  <2>4. ASSUME NEW w \in Workers, StartPing(w) PROVE BreakerInv'
    BY <2>4, BreakerInvStep
       DEF StartPing, Send, BreakerInv, TypeOK, InFlight, Holding
  <2>5. ASSUME NEW w \in Workers, Query(w) PROVE BreakerInv'
    BY <2>5, BreakerInvStep DEF Query, BreakerInv, TypeOK, InFlight, Holding
  <2>6. ASSUME NEW w \in Workers, Fallback(w) PROVE BreakerInv'
    BY <2>6, BreakerInvStep DEF Fallback, BreakerInv, TypeOK, InFlight, Holding
  <2>7. ASSUME NEW w \in Workers, Respond(w) PROVE BreakerInv'
    <3>1. \E b \in {breaker[w], AfterSuccess(breaker[w]),
                    AfterFailure(breaker[w])} :
             Sound(b) /\ breaker' = [breaker EXCEPT ![w] = b]
      BY <2>0, <2>7, BreakerSound DEF Respond, BreakerInv, TypeOK, Results, Rows
    <3>2. phase' = [phase EXCEPT ![w] = "free"] /\ UNCHANGED request
      BY <2>7 DEF Respond, Send, TypeOK, Results, Rows
    <3>3. Sound(breaker[w])' /\ ~InFlight(w)'
      BY <3>1, <3>2 DEF TypeOK, Sound, InFlight, Holding
    <3>4. QED
      BY <3>1, <3>2, <3>3, BreakerInvStep DEF TypeOK
  <2>8. ASSUME NEW w \in Workers, RespondHealth(w) PROVE BreakerInv'
    BY <2>8, BreakerInvStep
       DEF RespondHealth, Send, BreakerInv, TypeOK, InFlight, Holding
  <2>9. ASSUME NEW w \in Workers, RestartWorker(w) PROVE BreakerInv'
    <3>1. /\ breaker' = [breaker EXCEPT ![w] = Fresh]
          /\ phase' = [phase EXCEPT ![w] = "free"]
          /\ UNCHANGED request
      BY <2>9 DEF RestartWorker, Send
    <3>2. Sound(breaker[w])' /\ ~InFlight(w)'
      BY <3>1 DEF TypeOK, Sound, Fresh, InFlight, Holding
    <3>3. QED
      BY <3>1, <3>2, BreakerInvStep DEF TypeOK
  <2>10. CASE Tick
    <3>1. \A w \in Workers : /\ Sound(AfterTick(breaker[w]))
                             /\ AfterTick(breaker[w]).mode = breaker[w].mode
      BY <2>0, BreakerSound DEF BreakerInv, AfterTick, Breakers
    <3>2. /\ \A w \in Workers : breaker'[w] = AfterTick(breaker[w])
          /\ UNCHANGED <<phase, request>>
      BY <2>10 DEF Tick
    <3>3. QED
      BY <3>1, <3>2 DEF BreakerInv, Sound, InFlight, Holding
  <2>11. CASE ClickHouseChanges
    BY <2>11 DEF ClickHouseChanges, workerVars, BreakerInv, Sound, InFlight,
         Holding
  <2>12. ASSUME NEW u \in Users, NewSnapshot(u) PROVE BreakerInv'
    BY <2>12 DEF NewSnapshot, workerVars, BreakerInv, Sound, InFlight, Holding
  <2>13. CASE UNCHANGED vars
    BY <2>13 DEF vars, workerVars, BreakerInv, Sound, InFlight, Holding
  <2>14. QED
    BY <2>1, <2>2, <2>3, <2>4, <2>5, <2>6, <2>7, <2>8, <2>9, <2>10, <2>11,
       <2>12, <2>13 DEF Next, Handle
<1>3. QED
  BY <1>1, <1>2, TypeCorrect, PTL DEF Spec

\* A ClickHouse that keeps failing is spared: a worker that has counted
\* Threshold failures sends a lookup only after the whole recovery timeout.
THEOREM Spared == Spec => []FailingClickHouseSpared
<1>1. TypeOK /\ BreakerInv => FailingClickHouseSpared
  BY DEF TypeOK, BreakerInv, Sound, FailingClickHouseSpared, Breakers, Modes
<1>2. QED
  BY <1>1, TypeCorrect, BreakerInvariance, PTL

-----------------------------------------------------------------------------
(* Refinement of the contract for serial callers *)

\* What a step of the API may do to the breaker of worker w.
SerialStep(w) ==
  \/ breaker'[w] = breaker[w]
  \/ MayProbe(breaker[w]) /\ breaker'[w] = AfterAdmission(breaker[w])
  \/ /\ breaker[w].mode # "open"
     /\ breaker'[w] \in {AfterSuccess(breaker[w]), AfterFailure(breaker[w])}
  \/ breaker'[w] = AfterTick(breaker[w])
  \/ breaker'[w] = Fresh

\* An outcome is recorded only for a lookup in flight, hence while the breaker
\* is not OPEN; the branch of Admit that counts a failure at once is
\* unreachable, because the pool is full whenever a handler starts.
LEMMA BreakerSteps ==
  ASSUME TypeOK, PoolConserved, BreakerInv, [Next]_vars, NEW w \in Workers
  PROVE  SerialStep(w)
<1> USE DEF SerialStep
<1>1. ASSUME NEW v \in Workers, Admit(v) PROVE SerialStep(w)
  <2>1. breaker' = [breaker EXCEPT ![v] = AfterAdmission(breaker[v])]
    BY <1>1, GetConserves DEF Admit
  <2>2. QED
    BY <2>1 DEF TypeOK, AfterAdmission
<1>2. ASSUME NEW v \in Workers, Respond(v) PROVE SerialStep(w)
  <2>1. breaker[v].mode # "open"
    BY <1>2 DEF Respond, BreakerInv, InFlight, Holding
  <2>2. \E b \in {breaker[v], AfterSuccess(breaker[v]),
                  AfterFailure(breaker[v])} :
           breaker' = [breaker EXCEPT ![v] = b]
    BY <1>2 DEF Respond, TypeOK, Results, Rows
  <2>3. QED
    BY <2>1, <2>2 DEF TypeOK
<1>3. ASSUME NEW v \in Workers, RestartWorker(v) PROVE SerialStep(w)
  BY <1>3 DEF RestartWorker, TypeOK
<1>4. CASE Tick
  BY <1>4 DEF Tick
<1>5. ASSUME NEW v \in Workers,
             Receive(v) \/ Reject(v) \/ StartPing(v) \/ Query(v) \/ Fallback(v)
               \/ RespondHealth(v)
      PROVE  SerialStep(w)
  BY <1>5 DEF Receive, Reject, StartPing, Query, Fallback, RespondHealth
<1>6. CASE \/ ClickHouseChanges
           \/ \E u \in Users : NewSnapshot(u)
           \/ UNCHANGED vars
  BY <1>6 DEF ClickHouseChanges, NewSnapshot, vars, workerVars
<1>7. QED
  BY <1>1, <1>2, <1>3, <1>4, <1>5, <1>6 DEF Next, Handle

\* Every worker's breaker implements the contract for serial callers.
THEOREM Serial == Spec => SerialBreakers
<1>1. Init => \A w \in Workers : WorkerBreaker(w)!Init
  BY DEF Init, WorkerBreaker!Init, WorkerBreaker!Fresh, Fresh
<1>2. TypeOK /\ PoolConserved /\ BreakerInv /\ [Next]_vars
        => \A w \in Workers : [WorkerBreaker(w)!SerialNext]_(breaker[w])
  <2> SUFFICES ASSUME TypeOK, PoolConserved, BreakerInv, [Next]_vars,
                      NEW w \in Workers
               PROVE  WorkerBreaker(w)!SerialNext \/ UNCHANGED breaker[w]
    OBVIOUS
  <2> USE DEF WorkerBreaker!SerialNext
  <2>1. CASE breaker'[w] = breaker[w]
    BY <2>1
  <2>2. CASE MayProbe(breaker[w]) /\ breaker'[w] = AfterAdmission(breaker[w])
    BY <2>2 DEF WorkerBreaker!Probe, WorkerBreaker!MayProbe, MayProbe,
         WorkerBreaker!AfterAdmission, AfterAdmission
  <2>3. CASE /\ breaker[w].mode # "open"
             /\ breaker'[w] \in {AfterSuccess(breaker[w]),
                                 AfterFailure(breaker[w])}
    BY <2>3 DEF WorkerBreaker!Succeed, WorkerBreaker!AfterSuccess,
         AfterSuccess, WorkerBreaker!Fail, WorkerBreaker!AfterFailure,
         AfterFailure
  <2>4. CASE breaker'[w] = AfterTick(breaker[w])
    BY <2>4 DEF WorkerBreaker!Elapse, WorkerBreaker!AfterTick, AfterTick
  <2>5. CASE breaker'[w] = Fresh
    BY <2>5 DEF WorkerBreaker!Restart, WorkerBreaker!Fresh, Fresh
  <2>6. QED
    BY <2>1, <2>2, <2>3, <2>4, <2>5, BreakerSteps DEF SerialStep
<1>3. QED
  BY <1>1, <1>2, TypeCorrect, BreakerInvariance, PTL DEF Spec, SerialBreakers

-----------------------------------------------------------------------------
(* What counts against ClickHouse, and the pool *)

\* A failure is counted only for a lookup whose query raised: not for a health
\* check, and not for a pool that has no connection left, because it always
\* has one when a handler starts.
OnlyQueriesCount ==
  [][\A w \in Workers :
       breaker'[w].strikes > breaker[w].strikes =>
         /\ phase[w] = "respond"
         /\ request[w].kind # "health"
         /\ result[w] = "error"]_vars

\* Of the breaker's methods only record_failure adds a strike.
LEMMA NoStrikes ==
  ASSUME NEW b \in Breakers
  PROVE  \A d \in {b, Fresh, AfterAdmission(b), AfterSuccess(b), AfterTick(b)} :
           ~ (d.strikes > b.strikes)
<1>1. b.strikes \in Nat
  BY DEF Breakers
<1>2. Fresh.strikes = 0 /\ AfterSuccess(b).strikes = 0
  BY DEF Fresh, AfterSuccess
<1>3. AfterAdmission(b).strikes = b.strikes /\ AfterTick(b).strikes = b.strikes
  BY DEF AfterAdmission, AfterTick, Breakers
<1>4. QED
  BY <1>1, <1>2, <1>3

\* No worker counts a failure that is not one of a lookup's query
\* (routes.py:134-151,191-192).
THEOREM StrikesAreFailures == Spec => OnlyQueriesCount
<1>1. ASSUME TypeOK, PoolConserved, [Next]_vars, NEW w \in Workers,
             breaker'[w].strikes > breaker[w].strikes
      PROVE  phase[w] = "respond" /\ request[w].kind # "health" /\ result[w] = "error"
  <2> DEFINE Quiet == {breaker[w], Fresh, AfterAdmission(breaker[w]),
                       AfterSuccess(breaker[w]), AfterTick(breaker[w])}
  <2>1. breaker'[w] \notin Quiet
    BY <1>1, NoStrikes DEF TypeOK
  <2>2. ~ \E v \in Workers : Admit(v)
    <3> SUFFICES ASSUME NEW v \in Workers, Admit(v) PROVE FALSE
      OBVIOUS
    <3>1. breaker' = [breaker EXCEPT ![v] = AfterAdmission(breaker[v])]
      BY <1>1, GetConserves DEF Admit
    <3>2. QED
      BY <1>1, <2>1, <3>1 DEF TypeOK
  <2>3. ~ (Tick \/ \E v \in Workers : RestartWorker(v))
    BY <1>1, <2>1 DEF Tick, RestartWorker, TypeOK
  <2>4. ~ \E v \in Workers :
            Receive(v) \/ Reject(v) \/ StartPing(v) \/ Query(v) \/ Fallback(v)
              \/ RespondHealth(v)
    BY <2>1 DEF Receive, Reject, StartPing, Query, Fallback, RespondHealth
  <2>5. ~ (\/ ClickHouseChanges
           \/ \E u \in Users : NewSnapshot(u)
           \/ UNCHANGED vars)
    BY <2>1 DEF ClickHouseChanges, NewSnapshot, vars, workerVars
  <2>6. PICK v \in Workers : Respond(v)
    BY <1>1, <2>2, <2>3, <2>4, <2>5 DEF Next, Handle
  <2>7. \E b \in {breaker[v], AfterSuccess(breaker[v]), AfterFailure(breaker[v])} :
          /\ breaker' = [breaker EXCEPT ![v] = b]
          /\ b \in {breaker[v], AfterSuccess(breaker[v])} \/ result[v] = "error"
    BY <1>1, <2>6 DEF Respond, TypeOK, Results, Rows
  <2>8. w = v /\ result[v] = "error"
    BY <1>1, <2>1, <2>7 DEF TypeOK
  <2>9. QED
    BY <2>6, <2>8 DEF Respond
<1>2. TypeOK /\ PoolConserved /\ [Next]_vars =>
        [\A w \in Workers :
           breaker'[w].strikes > breaker[w].strikes =>
             /\ phase[w] = "respond"
             /\ request[w].kind # "health"
             /\ result[w] = "error"]_vars
  BY <1>1
<1>3. QED
  BY <1>2, TypeCorrect, PTL DEF Spec, OnlyQueriesCount

\* The pool of worker w, counted: the part of a handler that holds a connection
\* is the only user it has.
WorkerPool(w) ==
  INSTANCE SlotPool WITH Size <- PoolSize, free <- idle[w],
                         out <- IF Holding(w) THEN 1 ELSE 0

\* Every worker uses its pool as a server that forgets no slot - which module
\* ClickHousePool, where execute forgets one, grants to those who only get and
\* put.
THEOREM PoolsServe ==
  Spec => /\ \A w \in Workers : WorkerPool(w)!Init
          /\ [][\A w \in Workers :
                  \/ WorkerPool(w)!ServerNext
                  \/ UNCHANGED <<idle[w], Holding(w)>>]_vars
<1>1. Init => \A w \in Workers : WorkerPool(w)!Init
  BY DEF Init, Holding, WorkerPool!Init
<1>2. ASSUME PoolConserved, PoolConserved', NEW w \in Workers
      PROVE  \/ WorkerPool(w)!ServerNext
             \/ UNCHANGED <<idle[w], Holding(w)>>
  <2> USE DEF PoolConserved, Holding, WorkerPool!ServerNext
  <2>1. CASE Holding(w) /\ ~Holding(w)'
    BY <1>2, <2>1 DEF WorkerPool!Give
  <2>2. CASE ~Holding(w) /\ Holding(w)'
    BY <1>2, <2>2 DEF WorkerPool!Take
  <2>3. CASE Holding(w) <=> Holding(w)'
    BY <1>2, <2>3
  <2>4. QED
    BY <2>1, <2>2, <2>3
<1>3. PoolConserved /\ PoolConserved' =>
        [\A w \in Workers : \/ WorkerPool(w)!ServerNext
                            \/ UNCHANGED <<idle[w], Holding(w)>>]_vars
  BY <1>2
<1>4. QED
  BY <1>1, <1>3, TypeCorrect, PTL DEF Spec

-----------------------------------------------------------------------------
(* Recovery *)

\* ClickHouse answers, every latest row is valid, and the request of w is not one
\* that ClickHouse cannot evaluate.
AllWell(w) ==
  /\ up
  /\ \A u \in Users : latest[u] = "valid"
  /\ request[w].kind # "bad_as_of"

\* The breaker of w is CLOSED, and no exception is on its way to it.
Recovered(w) ==
  /\ breaker[w].mode = "closed"
  /\ phase[w] = "respond" => result[w] # "error"

\* No step takes a worker from Recovered while all is well.
LEMMA RecoveredStays ==
  ASSUME TypeOK, PoolConserved, [Next]_vars,
         NEW w \in Workers, AllWell(w), Recovered(w)
  PROVE  Recovered(w)'
<1> USE DEF Recovered
<1>1. ASSUME breaker'[w] = breaker[w], phase'[w] # "respond" PROVE Recovered(w)'
  BY <1>1
<1>2. ASSUME UNCHANGED <<breaker[w], phase[w], result[w]>> PROVE Recovered(w)'
  BY <1>2
<1>3. ASSUME NEW v \in Workers \ {w}, Receive(v) \/ Handle(v) \/ RestartWorker(v)
      PROVE  UNCHANGED <<breaker[w], phase[w], result[w]>>
  <2>1. CASE Receive(v) \/ Reject(v) \/ Query(v) \/ Fallback(v) \/ RespondHealth(v)
    BY <2>1 DEF Receive, Reject, Query, Fallback, RespondHealth, Send, TypeOK
  <2>2. CASE Admit(v) \/ StartPing(v)
    BY <2>2 DEF Admit, StartPing, Send, TypeOK
  <2>3. CASE Respond(v)
    <3>1. breaker'[w] = breaker[w]
      BY <2>3 DEF Respond, TypeOK, Results, Rows
    <3>2. \E a \in Answers : Send(v, a)
      BY <2>3 DEF Respond, TypeOK, Results, Rows, Answers
    <3>3. QED
      BY <3>1, <3>2 DEF Send, TypeOK
  <2>4. CASE RestartWorker(v)
    BY <2>4 DEF RestartWorker, Send, TypeOK
  <2>5. QED
    BY <1>3, <2>1, <2>2, <2>3, <2>4 DEF Handle
<1>4. CASE Receive(w)
  BY <1>1, <1>4 DEF Receive, TypeOK
<1>5. CASE Reject(w) \/ RespondHealth(w)
  BY <1>1, <1>5 DEF Reject, RespondHealth, Send, TypeOK
<1>6. CASE StartPing(w)
  BY <1>1, <1>6 DEF StartPing, Send, TypeOK
<1>7. CASE Admit(w)
  <2>1. /\ breaker' = [breaker EXCEPT ![w] = AfterAdmission(breaker[w])]
        /\ phase' = [phase EXCEPT ![w] = "query"]
    BY <1>7, GetConserves DEF Admit
  <2>2. AfterAdmission(breaker[w]) = breaker[w]
    BY DEF AfterAdmission, MayProbe
  <2>3. QED
    BY <1>1, <2>1, <2>2 DEF TypeOK
<1>8. CASE Query(w)
  <2>1. request[w].user \in Users
    BY DEF TypeOK, Requests
  <2>2. "error" \notin FirstResults(request[w])
    BY <2>1 DEF FirstResults, AllWell, Rows
  <2>3. QED
    BY <1>8, <2>2 DEF Query, TypeOK
<1>9. CASE Fallback(w)
  <2>1. request[w].user \in Users
    BY DEF TypeOK, Requests
  <2>2. result'[w] = "valid"
    BY <1>9, <2>1 DEF Fallback, AllWell, TypeOK
  <2>3. QED
    BY <1>9, <2>2 DEF Fallback
<1>10. CASE Respond(w)
  <2>1. result[w] # "error" /\ result[w] \in Results
    BY <1>10 DEF Respond, TypeOK
  <2>2. breaker'[w] \in {breaker[w], AfterSuccess(breaker[w])}
    BY <1>10, <2>1 DEF Respond, TypeOK, Results, Rows
  <2>3. \E a \in Answers : Send(w, a)
    BY <1>10, <2>1 DEF Respond, Results, Rows, Answers
  <2>4. phase'[w] = "free"
    BY <2>3 DEF Send, TypeOK
  <2>5. QED
    BY <2>2, <2>4 DEF AfterSuccess
<1>11. CASE RestartWorker(w)
  BY <1>11 DEF RestartWorker, Send, Fresh, TypeOK
<1>12. CASE Tick
  BY <1>12 DEF Tick, AfterTick, TypeOK, Breakers
<1>13. CASE ClickHouseChanges \/ (\E u \in Users : NewSnapshot(u)) \/ UNCHANGED vars
  BY <1>2, <1>13 DEF ClickHouseChanges, NewSnapshot, vars, workerVars
<1>14. QED
  BY <1>2, <1>3, <1>4, <1>5, <1>6, <1>7, <1>8, <1>9, <1>10, <1>11, <1>12, <1>13
     DEF Next, Handle

\* What Recovers needs besides progress: a valid row closes the breaker, a breaker
\* that is OPEN waits no longer than the timeout, and one that is CLOSED, with no
\* exception under way, stays so while all is well - other workers, restarts,
\* time and rows that come and go notwithstanding.
THEOREM RecoveryLasts ==
  Spec => /\ [][\A w \in Workers :
                  Respond(w) /\ result[w] = "valid" => Recovered(w)']_vars
          /\ []\A w \in Workers : breaker[w].cooldown <= RecoveryTimeout
          /\ [][\A w \in Workers :
                  AllWell(w) /\ Recovered(w) => Recovered(w)']_vars
<1> DEFINE Waits == \A w \in Workers : breaker[w].cooldown <= RecoveryTimeout
<1>1. ASSUME TypeOK, NEW w \in Workers, Respond(w), result[w] = "valid"
      PROVE  Recovered(w)'
  <2>1. breaker' = [breaker EXCEPT ![w] = AfterSuccess(@)] /\ Send(w, "200")
    BY <1>1 DEF Respond
  <2>2. QED
    BY <1>1, <2>1 DEF Send, AfterSuccess, Recovered, TypeOK
<1>2. TypeOK /\ [Next]_vars =>
        [\A w \in Workers : Respond(w) /\ result[w] = "valid" => Recovered(w)']_vars
  BY <1>1
<1>3. TypeOK /\ PoolConserved /\ [Next]_vars =>
        [\A w \in Workers : AllWell(w) /\ Recovered(w) => Recovered(w)']_vars
  BY RecoveredStays
<1>4. Init => Waits
  BY DEF Init, Fresh
<1>5. TypeOK /\ PoolConserved /\ BreakerInv /\ Waits /\ [Next]_vars => Waits'
  <2> SUFFICES ASSUME TypeOK, PoolConserved, BreakerInv, Waits, [Next]_vars,
                      NEW w \in Workers
               PROVE  breaker'[w].cooldown <= RecoveryTimeout
    OBVIOUS
  <2>1. breaker[w].cooldown <= RecoveryTimeout /\ breaker[w].cooldown \in Nat
    BY DEF TypeOK, Breakers
  <2>2. \A b \in {Fresh, AfterAdmission(breaker[w]), AfterSuccess(breaker[w]),
                  AfterFailure(breaker[w]), AfterTick(breaker[w])} :
          b.cooldown <= RecoveryTimeout
    <3>1. /\ Fresh.cooldown = 0
          /\ AfterSuccess(breaker[w]).cooldown = breaker[w].cooldown
          /\ AfterFailure(breaker[w]).cooldown = RecoveryTimeout
      BY DEF Fresh, AfterSuccess, AfterFailure
    <3>2. AfterAdmission(breaker[w]).cooldown = breaker[w].cooldown
      BY DEF AfterAdmission, TypeOK, Breakers
    <3>3. AfterTick(breaker[w]).cooldown
            = IF breaker[w].cooldown = 0 THEN 0 ELSE breaker[w].cooldown - 1
      BY DEF AfterTick, TypeOK, Breakers
    <3>4. QED
      BY <2>1, <3>1, <3>2, <3>3
  <2>3. QED
    BY <2>1, <2>2, BreakerSteps DEF SerialStep
<1>6. QED
  BY <1>2, <1>3, <1>4, <1>5, TypeCorrect, BreakerInvariance, PTL DEF Spec

-----------------------------------------------------------------------------
(* What the contract of a breaker means *)

\* A worker that has given up on ClickHouse leaves that state in two ways only: with
\* a probe that has waited out the timeout, or with its process.  No outcome and no
\* health check closes the breaker first (routes.py:42-51).
THEOREM OpenUntilProbed ==
  Spec => [][\A w \in Workers :
               breaker[w].mode = "open" /\ breaker'[w].mode # "open" =>
                 \/ /\ breaker[w].cooldown = 0
                    /\ breaker'[w].mode = "half_open"
                    /\ breaker'[w].strikes = breaker[w].strikes
                 \/ breaker'[w] = Fresh]_vars
<1>1. ASSUME TypeOK, PoolConserved, BreakerInv, [Next]_vars, NEW w \in Workers,
             breaker[w].mode = "open", breaker'[w].mode # "open"
      PROVE  \/ /\ breaker[w].cooldown = 0
                /\ breaker'[w].mode = "half_open"
                /\ breaker'[w].strikes = breaker[w].strikes
             \/ breaker'[w] = Fresh
  <2>1. breaker[w] \in Breakers
    BY <1>1 DEF TypeOK
  <2>2. breaker'[w] # AfterTick(breaker[w])
    BY <1>1, <2>1 DEF AfterTick, Breakers
  <2>3. CASE MayProbe(breaker[w]) /\ breaker'[w] = AfterAdmission(breaker[w])
    BY <2>1, <2>3 DEF MayProbe, AfterAdmission, Breakers
  <2>4. QED
    BY <1>1, <2>2, <2>3, BreakerSteps DEF SerialStep
<1>2. TypeOK /\ PoolConserved /\ BreakerInv /\ [Next]_vars =>
        [\A w \in Workers :
           breaker[w].mode = "open" /\ breaker'[w].mode # "open" =>
             \/ /\ breaker[w].cooldown = 0
                /\ breaker'[w].mode = "half_open"
                /\ breaker'[w].strikes = breaker[w].strikes
             \/ breaker'[w] = Fresh]_vars
  BY <1>1
<1>3. QED
  BY <1>2, TypeCorrect, BreakerInvariance, PTL DEF Spec
=============================================================================
