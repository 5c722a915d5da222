------------------------------ MODULE FeatureApi -----------------------------
(***************************************************************************)
(* The Feature Store API: uvicorn worker processes (api/Dockerfile), each  *)
(* with its own circuit breaker and connection pool, answering             *)
(* GET /features/user/{id} and GET /health from one ClickHouse             *)
(* (api/feature_store/routes.py:112-211).                                  *)
(*                                                                         *)
(* The handlers are coroutines that never await and the driver blocks, so  *)
(* a worker runs one handler from its first line to its last before it     *)
(* looks at the next request; a request of one worker overlaps only with   *)
(* other workers, with changes in ClickHouse, and with time.  Hence one    *)
(* action per stretch of a handler between two reads of the outside.       *)
(***************************************************************************)
EXTENDS Breaker, FiniteSets

CONSTANTS Workers,    \* worker processes
          Users,      \* user ids asked for
          PoolSize    \* POOL_SIZE

ASSUME ApiAssumption == PoolSize \in Nat \ {0}

\* A lookup of the latest row, one with a usable as_of, one whose as_of
\* ClickHouse cannot parse as a time, and a health check.
Kinds == {"latest", "as_of", "bad_as_of", "health"}

Requests == [kind : Kinds, user : Users]

\* What a SELECT brings back: no row, a row FeatureValues accepts, one it
\* rejects, or an exception.
Rows == {"none", "valid", "invalid"}
Results == Rows \cup {"error"}

Answers == {"200", "404", "500", "503 breaker", "503 validation",
            "healthy", "degraded", "pending", "dropped"}

VARIABLES
  breaker,  \* breaker[w]: the module-level object cb of worker w
  idle,     \* idle[w]: connections in w's pool
  phase,    \* phase[w]: where the handler of w's current request is
  request,  \* request[w]: that request, or the last one
  result,   \* result[w]: the local variable result
  answer,   \* answer[w]: what became of that request
  up,       \* ClickHouse answers queries
  latest    \* latest[u]: what LATEST_QUERY finds for user u

workerVars == <<breaker, idle, phase, request, result, answer>>
storeVars == <<up, latest>>
vars == <<workerVars, storeVars>>

TypeOK ==
  /\ breaker \in [Workers -> Breakers]
  /\ idle \in [Workers -> 0..PoolSize]
  /\ phase \in [Workers -> {"free", "start", "query", "fallback", "respond"}]
  /\ request \in [Workers -> Requests]
  /\ result \in [Workers -> Results]
  /\ answer \in [Workers -> Answers]
  /\ up \in BOOLEAN
  /\ latest \in [Users -> Rows]

Init ==
  /\ breaker = [w \in Workers |-> Fresh]
  /\ idle = [w \in Workers |-> PoolSize]
  /\ phase = [w \in Workers |-> "free"]
  /\ request \in [Workers -> [kind : {"health"}, user : Users]]
  /\ result = [w \in Workers |-> "none"]
  /\ answer = [w \in Workers |-> "healthy"]
  /\ up \in BOOLEAN
  /\ latest \in [Users -> Rows]

-----------------------------------------------------------------------------
(* One request *)

\* The handler ends, and with it its local variables.
Send(w, a) ==
  /\ answer' = [answer EXCEPT ![w] = a]
  /\ phase' = [phase EXCEPT ![w] = "free"]
  /\ result' = [result EXCEPT ![w] = "none"]

Receive(w) ==
  /\ phase[w] = "free"
  /\ \E r \in Requests : request' = [request EXCEPT ![w] = r]
  /\ phase' = [phase EXCEPT ![w] = "start"]
  /\ answer' = [answer EXCEPT ![w] = "pending"]
  /\ UNCHANGED <<breaker, idle, result, storeVars>>

\* can_execute turned the lookup away: 503 without touching the pool.
Reject(w) ==
  /\ phase[w] = "start"
  /\ request[w].kind # "health"
  /\ ~Admits(breaker[w])
  /\ Send(w, "503 breaker")
  /\ UNCHANGED <<breaker, idle, request, storeVars>>

\* can_execute, then pool.get().  With no idle connection get raises, which the
\* handler of a lookup counts as a failure of ClickHouse.
Admit(w) ==
  LET b == AfterAdmission(breaker[w]) IN
  /\ phase[w] = "start"
  /\ request[w].kind # "health"
  /\ Admits(breaker[w])
  /\ IF idle[w] > 0
       THEN /\ idle' = [idle EXCEPT ![w] = @ - 1]
            /\ breaker' = [breaker EXCEPT ![w] = b]
            /\ phase' = [phase EXCEPT ![w] = "query"]
            /\ UNCHANGED <<answer, result>>
       ELSE /\ breaker' = [breaker EXCEPT ![w] = AfterFailure(b)]
            /\ Send(w, "500")
            /\ UNCHANGED idle
  /\ UNCHANGED <<request, storeVars>>

\* /health goes to the pool without asking the breaker.
StartPing(w) ==
  /\ phase[w] = "start"
  /\ request[w].kind = "health"
  /\ IF idle[w] > 0
       THEN /\ idle' = [idle EXCEPT ![w] = @ - 1]
            /\ phase' = [phase EXCEPT ![w] = "query"]
            /\ UNCHANGED <<answer, result>>
       ELSE Send(w, "500") /\ UNCHANGED idle
  /\ UNCHANGED <<breaker, request, storeVars>>

\* What ClickHouse may answer to the first query of request r.  An as_of lies
\* inside a row's validity only if the user has rows, and that row may be any.
FirstResults(r) ==
  IF ~up \/ r.kind = "bad_as_of" THEN {"error"}
  ELSE CASE r.kind = "latest" -> {latest[r.user]}
         [] r.kind = "as_of"  -> IF latest[r.user] = "none" THEN {"none"} ELSE Rows
         [] OTHER             -> {"valid"}

Query(w) ==
  /\ phase[w] = "query"
  /\ \E x \in FirstResults(request[w]) :
       /\ result' = [result EXCEPT ![w] = x]
       /\ phase' = [phase EXCEPT ![w] =
                      IF request[w].kind = "as_of" /\ x = "none"
                        THEN "fallback" ELSE "respond"]
  /\ UNCHANGED <<breaker, idle, request, answer, storeVars>>

\* A fallback that takes a connection of its own.
Fallback_SecondGet(w) ==
  /\ phase[w] = "fallback"
  /\ idle' = [idle EXCEPT ![w] = @ - 1]
  /\ result' = [result EXCEPT ![w] =
                  IF up THEN latest[request[w].user] ELSE "error"]
  /\ phase' = [phase EXCEPT ![w] = "respond"]
  /\ UNCHANGED <<breaker, request, answer, storeVars>>

\* A fallback that is repeated until a row turns up.
Fallback_UntilFound(w) ==
  /\ phase[w] = "fallback"
  /\ up /\ latest[request[w].user] # "none"
  /\ result' = [result EXCEPT ![w] = latest[request[w].user]]
  /\ phase' = [phase EXCEPT ![w] = "respond"]
  /\ UNCHANGED <<breaker, idle, request, answer, storeVars>>

\* The second query of a point-in-time lookup that found nothing.
Fallback(w) ==
  /\ phase[w] = "fallback"
  /\ result' = [result EXCEPT ![w] =
                  IF up THEN latest[request[w].user] ELSE "error"]
  /\ phase' = [phase EXCEPT ![w] = "respond"]
  /\ UNCHANGED <<breaker, idle, request, answer, storeVars>>

\* A put that follows the query instead of standing in a finally clause.
Respond_NoFinally(w) ==
  /\ phase[w] = "respond"
  /\ request[w].kind # "health"
  /\ idle' = [idle EXCEPT ![w] = IF result[w] = "error" THEN @ ELSE @ + 1]
  /\ breaker' = [breaker EXCEPT ![w] =
                   CASE result[w] = "error" -> AfterFailure(@)
                     [] result[w] = "valid" -> AfterSuccess(@)
                     [] OTHER -> @]
  /\ Send(w, "500")
  /\ UNCHANGED <<request, storeVars>>

\* The finally clause returns the connection; then the outcome of a lookup is
\* classified.  Only an exception and a valid row reach the breaker.
Respond(w) ==
  /\ phase[w] = "respond"
  /\ request[w].kind # "health"
  /\ idle' = [idle EXCEPT ![w] = @ + 1]
  /\ CASE result[w] = "error" ->
            /\ breaker' = [breaker EXCEPT ![w] = AfterFailure(@)]
            /\ Send(w, "500")
       [] result[w] = "none" -> UNCHANGED breaker /\ Send(w, "404")
       [] result[w] = "invalid" -> UNCHANGED breaker /\ Send(w, "503 validation")
       [] result[w] = "valid" ->
            /\ breaker' = [breaker EXCEPT ![w] = AfterSuccess(@)]
            /\ Send(w, "200")
  /\ UNCHANGED <<request, storeVars>>

\* A health check whose success resets the breaker.
RespondHealth_Resets(w) ==
  /\ phase[w] = "respond"
  /\ request[w].kind = "health"
  /\ idle' = [idle EXCEPT ![w] = @ + 1]
  /\ breaker' = [breaker EXCEPT ![w] =
                   IF result[w] = "error" THEN @ ELSE AfterSuccess(@)]
  /\ Send(w, IF result[w] = "error" THEN "degraded" ELSE "healthy")
  /\ UNCHANGED <<request, storeVars>>

\* ping swallows the exception and its finally clause returns the connection.
RespondHealth(w) ==
  /\ phase[w] = "respond"
  /\ request[w].kind = "health"
  /\ idle' = [idle EXCEPT ![w] = @ + 1]
  /\ Send(w, IF result[w] = "error" THEN "degraded" ELSE "healthy")
  /\ UNCHANGED <<breaker, request, storeVars>>

Handle(w) ==
  \/ Reject(w)
  \/ Admit(w)
  \/ StartPing(w)
  \/ Query(w)
  \/ Fallback(w)
  \/ Respond(w)
  \/ RespondHealth(w)

\* The worker process dies, whatever it was doing, and uvicorn's supervisor
\* starts another: breaker and pool are created anew.
RestartWorker(w) ==
  /\ breaker' = [breaker EXCEPT ![w] = Fresh]
  /\ idle' = [idle EXCEPT ![w] = PoolSize]
  /\ Send(w, IF answer[w] = "pending" THEN "dropped" ELSE answer[w])
  /\ UNCHANGED <<request, storeVars>>

-----------------------------------------------------------------------------
(* The outside: time, ClickHouse and the pipeline that fills it *)

Tick ==
  /\ \E w \in Workers : breaker[w].cooldown > 0
  /\ breaker' = [w \in Workers |-> AfterTick(breaker[w])]
  /\ UNCHANGED <<idle, phase, request, result, answer, storeVars>>

ClickHouseChanges ==
  /\ up' = ~up
  /\ UNCHANGED <<workerVars, latest>>

\* A batch of the feature pipeline brings user u a newer row; the table is only
\* ever appended to.
NewSnapshot(u) ==
  /\ \E x \in {"valid", "invalid"} : latest' = [latest EXCEPT ![u] = x]
  /\ UNCHANGED <<workerVars, up>>

Next ==
  \/ \E w \in Workers : Receive(w) \/ Handle(w) \/ RestartWorker(w)
  \/ Tick
  \/ ClickHouseChanges
  \/ \E u \in Users : NewSnapshot(u)

\* A handler that has started runs on: every call it makes returns or raises
\* (queue and driver time out).  Time passes.  Nothing obliges clients to call,
\* ClickHouse to come back, or a worker to crash.
Spec ==
  /\ Init /\ [][Next]_vars
  /\ \A w \in Workers : WF_vars(Handle(w))
  /\ WF_vars(Tick)

-----------------------------------------------------------------------------
(* Properties *)

\* The handler of w holds a connection.
Holding(w) == phase[w] \in {"query", "fallback", "respond"}

\* A lookup of w that was admitted is not answered yet.
InFlight(w) == Holding(w) /\ request[w].kind # "health"

\* Every way out of a handler - row, no row, invalid row, exception in either
\* query, dead ping - gives back the connection it took, so the pool never
\* shrinks and pool.get never raises "exhausted" in a worker.
PoolConserved ==
  \A w \in Workers : idle[w] = IF Holding(w) THEN PoolSize - 1 ELSE PoolSize

\* A ClickHouse that keeps failing is spared: once a worker has counted
\* Threshold failures, it sends a lookup only when the whole recovery timeout
\* has passed since the last failure it saw.
FailingClickHouseSpared ==
  \A w \in Workers :
    InFlight(w) => \/ breaker[w].strikes < Threshold
                   \/ breaker[w].cooldown = 0

WorkerBreaker(w) == INSTANCE BreakerContract WITH breaker <- breaker[w]

\* Requests of a worker do not overlap, so its breaker keeps the contract for
\* serial callers: no outcome is recorded while it is OPEN, and it leaves OPEN
\* only by a probe that waited, or with its process.
SerialBreakers ==
  /\ \A w \in Workers : WorkerBreaker(w)!Init
  /\ [][\A w \in Workers : [WorkerBreaker(w)!SerialNext]_(breaker[w])]_vars

\* Every request is answered (or dies with its worker).
RequestsAnswered == 
  \A w \in Workers : answer[w] = "pending" ~> answer[w] # "pending"

\* From some point on ClickHouse answers, every user's latest row is valid and
\* worker w gets no lookup ClickHouse cannot evaluate.
Healthy(w) ==
  <>[](/\ up
       /\ \A u \in Users : latest[u] = "valid"
       /\ request[w].kind # "bad_as_of")

\* A worker whose clients keep asking for the latest features recovers: once
\* all is well its breaker closes and stays closed, whatever it had seen.
Recovers ==
  \A w \in Workers :
    /\ Healthy(w)
    /\ []<>(phase[w] = "start" /\ request[w].kind = "latest")
    => <>[](breaker[w].mode = "closed")

\* "HALF_OPEN - allow one probe" (routes.py:51): the lookup that moves the
\* breaker to HALF_OPEN is the only one admitted until it has an outcome.  A
\* probe that ends in 404 or in a validation error has none, so the next
\* lookup is admitted too.
OneProbe ==
  [][\A w \in Workers : Admit(w) => breaker[w].mode # "half_open"]_vars
=============================================================================
