--------------------------------- MODULE Pod ---------------------------------
(***************************************************************************)
(* The life of one pod of order-service: it starts, is sent requests while *)
(* /readyz is green, and stops on SIGTERM: readiness off, a pause in which *)
(* the news spreads, the port closed, the requests waited for, the pool    *)
(* closed.  Kubernetes kills what is left after the grace period.  A tick  *)
(* is a unit of time; a request is a connection of its own and arrives     *)
(* whole.                                                                  *)
(***************************************************************************)
EXTENDS Integers

CONSTANTS Requests, Workers,
          Drain,         \* SHUTDOWN_DRAIN_DELAY
          Spread,        \* time the removal of an address takes to reach everyone
          RequestLimit,  \* deadline of a request and its detached commit
          ShutdownWait,  \* limit of server.Shutdown
          Grace,         \* terminationGracePeriodSeconds
          MaxOutages     \* failures of Postgres or Redis

ASSUME PodAssumption ==
  /\ {Drain, Spread, RequestLimit, ShutdownWait, Grace, MaxOutages} \subseteq Nat
  /\ Spread < Drain
  /\ RequestLimit <= ShutdownWait
  /\ Drain + ShutdownWait < Grace

VARIABLES pod,      \* where main is
          clock,    \* time since SIGTERM
          routed,   \* the service still sends requests to the pod
          request,  \* request -> what became of it; "none" again once answered
          age,      \* request -> how long it has been running
          holding,  \* workers that hold a connection of the pool
          postgres, redis,  \* whether they answer
          schema,   \* the migrations this image needs are applied
          outages   \* failures so far

podVars == <<pod, clock, routed, request, age, holding, postgres, redis, schema, outages>>
worldVars == <<postgres, redis, schema, outages>>

PodTypeOK ==
  /\ pod \in {"starting", "serving", "draining", "closing", "pool", "exited", "killed"}
  /\ clock \in 0..Grace
  /\ routed \in BOOLEAN
  /\ request \in [Requests -> {"none", "running", "refused", "cut"}]
  /\ age \in [Requests -> 0..RequestLimit]
  /\ holding \in SUBSET Workers
  /\ postgres \in BOOLEAN /\ redis \in BOOLEAN /\ schema \in BOOLEAN
  /\ outages \in 0..MaxOutages

PodInit ==
  /\ pod = "starting" /\ clock = 0 /\ routed = FALSE
  /\ request = [r \in Requests |-> "none"]
  /\ age = [r \in Requests |-> 0]
  /\ holding = {}
  /\ postgres \in BOOLEAN /\ redis \in BOOLEAN /\ schema \in BOOLEAN
  /\ outages = 0

-----------------------------------------------------------------------------
\* What is around the pod: the migration job, Postgres and Redis.
Migrate == schema' = TRUE /\ UNCHANGED <<postgres, redis, outages>>

Outages ==
  /\ outages < MaxOutages /\ outages' = outages + 1
  /\ \/ postgres /\ postgres' = FALSE /\ UNCHANGED redis
     \/ redis /\ redis' = FALSE /\ UNCHANGED postgres
  /\ UNCHANGED schema

Recovers ==
  /\ \/ postgres' = TRUE /\ UNCHANGED redis
     \/ redis' = TRUE /\ UNCHANGED postgres
  /\ UNCHANGED <<schema, outages>>

World == /\ Migrate \/ Outages \/ Recovers
         /\ UNCHANGED <<pod, clock, routed, request, age, holding>>

-----------------------------------------------------------------------------
(* app.New: without Postgres or Redis the process ends and is started again.
   The tables are not looked at. *)
Start ==
  /\ pod = "starting" /\ postgres /\ redis
  /\ pod' = "serving"
  /\ UNCHANGED <<clock, routed, request, age, holding, worldVars>>

\* Mutants of Ready: Redis is needed, too; Postgres is only pinged.
ReadyWithRedis == pod = "serving" /\ postgres /\ schema /\ redis
ReadyPinged == pod = "serving" /\ postgres

(* Readiness: not shutting down, and SchemaPinger finds the schema.  Redis is
   reported only. *)
Ready == pod = "serving" /\ postgres /\ schema

Probe ==
  /\ pod \in {"starting", "serving"}
  /\ routed' = Ready
  /\ UNCHANGED <<pod, clock, request, age, holding, worldVars>>

Listening == pod \in {"serving", "draining"}

Arrives(r) ==
  /\ routed /\ request[r] = "none"
  /\ request' = [request EXCEPT ![r] = IF Listening THEN "running" ELSE "refused"]
  /\ age' = [age EXCEPT ![r] = 0]
  /\ UNCHANGED <<pod, clock, routed, holding, worldVars>>

Answered(r) ==
  /\ request[r] = "running"
  /\ request' = [request EXCEPT ![r] = "none"]
  /\ UNCHANGED <<pod, clock, routed, age, holding, worldVars>>

\* Workers run until Run returns; a closed pool refuses them.
Acquire(w) ==
  /\ pod \in {"serving", "draining", "closing"} /\ w \notin holding
  /\ holding' = holding \cup {w}
  /\ UNCHANGED <<pod, clock, routed, request, age, worldVars>>

ReturnConn(w) ==
  /\ w \in holding
  /\ holding' = holding \ {w}
  /\ UNCHANGED <<pod, clock, routed, request, age, worldVars>>

-----------------------------------------------------------------------------
(* SIGTERM, which only Run catches: SetShuttingDown, then the pause.  At the
   same time Kubernetes begins to take the pod's address out of the service. *)
Terminate ==
  /\ pod \in {"starting", "serving"}
  /\ pod' = IF pod = "serving" THEN "draining" ELSE "exited"
  /\ UNCHANGED <<clock, routed, request, age, holding, worldVars>>

Unroute ==
  /\ pod \notin {"starting", "serving"} /\ routed
  /\ routed' = FALSE
  /\ UNCHANGED <<pod, clock, request, age, holding, worldVars>>

\* server.Shutdown closes the port first.
ClosePort ==
  /\ pod = "draining" /\ clock = Drain
  /\ pod' = "closing"
  /\ UNCHANGED <<clock, routed, request, age, holding, worldVars>>

Serving == \E r \in Requests : request[r] = "running"

\* The process ends: what is still running is lost.
Ends(how) ==
  /\ pod' = how
  /\ request' = [r \in Requests |-> IF request[r] = "running" THEN "cut" ELSE request[r]]
  /\ holding' = {}

\* Mutant of WaitUntil: five seconds for requests that may take ten.
WaitUntilShort == Drain + (ShutdownWait \div 2)

WaitUntil == Drain + ShutdownWait

\* No request left: Redis is closed, the pool begins to close.
StopServer ==
  /\ pod = "closing" /\ ~Serving
  /\ pod' = "pool"
  /\ UNCHANGED <<clock, routed, request, age, holding, worldVars>>

\* server.Shutdown gives up, Run returns its error, main ends.
ShutdownError ==
  /\ pod = "closing" /\ Serving /\ clock = WaitUntil
  /\ Ends("exited")
  /\ UNCHANGED <<clock, routed, age, worldVars>>

\* pool.Close waits for every connection; only then are the workers told to stop.
ClosePool ==
  /\ pod = "pool" /\ holding = {}
  /\ Ends("exited")
  /\ UNCHANGED <<clock, routed, age, worldVars>>

Kill ==
  /\ pod \in {"draining", "closing", "pool"} /\ clock = Grace
  /\ Ends("killed")
  /\ UNCHANGED <<clock, routed, age, worldVars>>

\* Time passes when nothing is overdue.
Passes ==
  /\ pod # "starting"
  /\ \A r \in Requests : request[r] = "running" => age[r] < RequestLimit
  /\ pod \notin {"starting", "serving"} => clock < Grace /\ (routed => clock < Spread)
  /\ pod = "draining" => clock < Drain
  /\ pod = "closing" => clock < WaitUntil /\ Serving
  /\ pod = "pool" => holding # {}
  /\ clock' = IF pod = "serving" THEN clock ELSE clock + 1
  /\ age' = [r \in Requests |-> IF request[r] = "running" THEN age[r] + 1 ELSE age[r]]
  /\ UNCHANGED <<pod, routed, request, holding, worldVars>>

PodNext ==
  \/ World
  \/ Start \/ Probe \/ Terminate \/ Unroute
  \/ ClosePort \/ StopServer \/ ShutdownError \/ ClosePool \/ Kill \/ Passes
  \/ \E r \in Requests : Arrives(r) \/ Answered(r)
  \/ \E w \in Workers : Acquire(w) \/ ReturnConn(w)

PodSpec == PodInit /\ [][PodNext]_podVars

\* The kubelet goes on checking.
PodFairness == WF_podVars(Probe)

-----------------------------------------------------------------------------
(* deploy/k8s: a rollout without losses.  Whenever the pod is told to stop, no
   request meets a closed port and none is cut off, by the end of the wait for
   requests, by the end of the process or by the kill. *)
RequestsKept == \A r \in Requests : request[r] \notin {"refused", "cut"}

(* SchemaPinger: no request reaches a pod before the migrations it needs. *)
SchemaBeforeTraffic == \A r \in Requests : request[r] = "running" => schema

(* 20-order-service.yaml: as soon as the database is back the pod is at work
   again, without a restart and with or without Redis. *)
BackInService == pod = "serving" /\ postgres /\ schema ~> routed \/ ~postgres \/ pod # "serving"

=============================================================================
