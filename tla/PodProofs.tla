------------------------------ MODULE PodProofs ------------------------------
(***************************************************************************)
(* A pod that is told to stop loses no request, for any number of requests *)
(* and workers and any settings that keep PodAssumption.                   *)
(***************************************************************************)
EXTENDS Pod, TLAPS

Stopped == {"exited", "killed"}

\* The timetable: where the pod is at a time, and until when it can be addressed.
Timetable ==
  /\ pod \in {"starting", "serving"} => clock = 0
  /\ pod = "draining" => clock <= Drain
  /\ pod = "closing" => Drain <= clock /\ clock <= WaitUntil
  /\ pod = "pool" => Drain <= clock
  /\ routed => /\ clock <= Spread
               /\ pod \in {"serving", "draining", "closing", "pool"}
               /\ schema

\* A request that runs when the pod is stopping came before the news had spread.
Accepted ==
  \A r \in Requests : request[r] = "running" => /\ pod \in {"serving", "draining", "closing"}
                                                /\ clock <= Spread + age[r]

PodInv == PodTypeOK /\ Timetable /\ Accepted /\ RequestsKept /\ SchemaBeforeTraffic

(* The invariant holds in the initial states. *)
LEMMA PodInitInv == PodInit => PodInv
<1> SUFFICES ASSUME PodInit PROVE PodInv
  OBVIOUS
<1>1. PodTypeOK
  <2>1. clock \in 0..Grace /\ outages \in 0..MaxOutages
    BY PodAssumption DEF PodInit
  <2>2. age \in [Requests -> 0..RequestLimit]
    BY PodAssumption DEF PodInit
  <2> QED
    BY <2>1, <2>2, Zenon DEF PodInit, PodTypeOK
<1>2. Timetable /\ Accepted /\ RequestsKept /\ SchemaBeforeTraffic
  BY Zenon DEF PodInit, Timetable, Accepted, RequestsKept, SchemaBeforeTraffic
<1> QED
  BY <1>1, <1>2 DEF PodInv

(* Every step of the pod, the cluster and its requests keeps the invariant. *)
LEMMA PodStepInv == PodInv /\ [PodNext]_podVars => PodInv'
<1> SUFFICES ASSUME PodInv, [PodNext]_podVars PROVE PodInv'
  OBVIOUS
<1> USE PodAssumption DEF PodInv, PodTypeOK, Timetable, Accepted, RequestsKept, SchemaBeforeTraffic,
                          WaitUntil
<1>1. CASE World
  <2>1. outages' \in 0..MaxOutages
    BY <1>1 DEF World, Migrate, Outages, Recovers
  <2>2. /\ postgres' \in BOOLEAN /\ redis' \in BOOLEAN /\ schema' \in BOOLEAN
        /\ schema => schema'
    BY <1>1, Zenon DEF World, Migrate, Outages, Recovers
  <2> QED
    BY <1>1, <2>1, <2>2 DEF World
<1>2. CASE Start
  BY <1>2 DEF Start, worldVars
<1>3. CASE Probe
  BY <1>3 DEF Probe, Ready, worldVars
<1>4. CASE Terminate
  BY <1>4 DEF Terminate, worldVars
<1>5. CASE Unroute
  BY <1>5 DEF Unroute, worldVars
<1>6. CASE ClosePort
  BY <1>6 DEF ClosePort, worldVars
<1>7. CASE StopServer
  BY <1>7 DEF StopServer, Serving, worldVars
<1>8. CASE ShutdownError
  <2>1. PICK r \in Requests : request[r] = "running"
    BY <1>8 DEF ShutdownError, Serving
  <2>2. clock <= Spread + RequestLimit
    BY <2>1
  <2> QED
    BY <1>8, <2>2 DEF ShutdownError
<1>9. CASE ClosePool
  BY <1>9 DEF ClosePool, Ends, worldVars
<1>10. CASE Kill
  <2>1. pod = "pool"
    BY <1>10 DEF Kill
  <2> QED
    BY <1>10, <2>1 DEF Kill, Ends, worldVars
<1>11. CASE Passes
  BY <1>11 DEF Passes, Serving, worldVars
<1>12. ASSUME NEW r \in Requests, Arrives(r) PROVE PodInv'
  <2>1. Listening
    BY <1>12 DEF Arrives, Listening
  <2> QED
    BY <1>12, <2>1 DEF Arrives, Listening, worldVars
<1>13. ASSUME NEW r \in Requests, Answered(r) PROVE PodInv'
  BY <1>13 DEF Answered, worldVars
<1>14. ASSUME NEW w \in Workers, Acquire(w) \/ ReturnConn(w) PROVE PodInv'
  BY <1>14 DEF Acquire, ReturnConn, worldVars
<1>15. CASE UNCHANGED podVars
  BY <1>15 DEF podVars
<1> QED
  BY <1>1, <1>2, <1>3, <1>4, <1>5, <1>6, <1>7, <1>8, <1>9, <1>10, <1>11, <1>12, <1>13, <1>14, <1>15
  DEF PodNext

(* app.Run: whatever the settings and whenever SIGTERM comes, no request is
   refused or cut off. *)
THEOREM NoRequestLost == PodSpec => []RequestsKept
<1>1. PodInv => RequestsKept
  BY DEF PodInv
<1> QED
  BY <1>1, PodInitInv, PodStepInv, PTL DEF PodSpec

(* SchemaPinger: requests run only on a schema the image can use. *)
THEOREM TrafficNeedsSchema == PodSpec => []SchemaBeforeTraffic
<1>1. PodInv => SchemaBeforeTraffic
  BY DEF PodInv
<1> QED
  BY <1>1, PodInitInv, PodStepInv, PTL DEF PodSpec

=============================================================================
