------------------------------- MODULE Breaker -------------------------------
(***************************************************************************)
(* The circuit breaker around Redis and RedisCache.guard, its only user:   *)
(* a call asks Allow, runs without the mutex, and reports to Done.  Both   *)
(* hold the mutex, so each is one step; between them other calls come and  *)
(* go, and Done does not know whose result it is given.                    *)
(***************************************************************************)
EXTENDS Naturals

CONSTANTS Callers,    \* concurrent calls of guard
          Threshold   \* failures in a row that open the breaker

ASSUME BreakerAssumption == Threshold \in Nat \ {0}

VARIABLES state, failures, probing,
          cooled,     \* openFor has passed since openedAt
          call,       \* caller -> what Allow took it for while it runs
          streak,     \* failures reported in a row; capped at Threshold
          outlived    \* a call has been running for all of an openFor

breakerVars == <<state, failures, probing, cooled, call, streak, outlived>>

BreakerTypeOK ==
  /\ state \in {"closed", "open", "half_open"}
  /\ failures \in 0..(Threshold - 1)
  /\ probing \in BOOLEAN
  /\ cooled \in BOOLEAN
  /\ call \in [Callers -> {"idle", "normal", "probe"}]
  /\ streak \in 0..Threshold
  /\ outlived \in BOOLEAN

BreakerInit ==
  /\ state = "closed" /\ failures = 0 /\ probing = FALSE /\ cooled = FALSE
  /\ call = [c \in Callers |-> "idle"]
  /\ streak = 0 /\ outlived = FALSE

-----------------------------------------------------------------------------
\* Mutant of Allowed: calls pass while the probe runs.
AllowedWhileProbing == state # "open" \/ cooled

\* Allow refuses with ErrOpen otherwise, and nothing changes.
Allowed == \/ state = "closed"
           \/ state = "open" /\ cooled
           \/ state = "half_open" /\ ~probing

Allow(c) ==
  /\ call[c] = "idle" /\ Allowed
  /\ state' = IF state = "open" THEN "half_open" ELSE state
  /\ probing' = (state # "closed" \/ probing)
  /\ call' = [call EXCEPT ![c] = IF state = "closed" THEN "normal" ELSE "probe"]
  /\ UNCHANGED <<failures, cooled, streak, outlived>>

trip == state' = "open" /\ failures' = 0 /\ cooled' = FALSE

\* Mutant of doneClosed: a success does not end a row of failures.
doneClosedKeepsCount(success) ==
  /\ IF success THEN UNCHANGED <<state, failures, cooled>>
     ELSE IF failures + 1 >= Threshold THEN trip
     ELSE failures' = failures + 1 /\ UNCHANGED <<state, cooled>>
  /\ UNCHANGED probing

doneClosed(success) ==
  /\ IF success THEN failures' = 0 /\ UNCHANGED <<state, cooled>>
     ELSE IF failures + 1 >= Threshold THEN trip
     ELSE failures' = failures + 1 /\ UNCHANGED <<state, cooled>>
  /\ UNCHANGED probing

\* Mutant of doneHalfOpen: a failed probe ends the probing but not the half-open state.
doneHalfOpenStays(success) ==
  /\ probing' = FALSE
  /\ IF success THEN state' = "closed" /\ failures' = 0 /\ UNCHANGED cooled
                ELSE UNCHANGED <<state, failures, cooled>>

doneHalfOpen(success) ==
  /\ probing' = FALSE
  /\ IF success THEN state' = "closed" /\ failures' = 0 /\ UNCHANGED cooled
                ELSE trip

(* Done.  In guard a cache miss and a call its client cancelled count as
   successes: isRedisFailure looks only for the failure of Redis itself.  The
   caller may have been let through in an earlier state: its result counts for
   the present one. *)
Done(c, success) ==
  /\ call[c] # "idle"
  /\ CASE state = "closed" -> doneClosed(success)
       [] state = "half_open" -> doneHalfOpen(success)
       [] OTHER -> UNCHANGED <<state, failures, probing, cooled>>
  /\ call' = [call EXCEPT ![c] = "idle"]
  /\ streak' = IF success THEN 0 ELSE IF streak < Threshold THEN streak + 1 ELSE Threshold
  /\ UNCHANGED outlived

(* openFor passes.  A call that still runs was let through before the breaker
   opened, and its result may come when the breaker is half open. *)
Cools ==
  /\ state = "open" /\ ~cooled
  /\ cooled' = TRUE
  /\ outlived' = (outlived \/ \E c \in Callers : call[c] # "idle")
  /\ UNCHANGED <<state, failures, probing, call, streak>>

BreakerNext == \/ Cools
               \/ \E c \in Callers : Allow(c) \/ \E success \in BOOLEAN : Done(c, success)

BreakerSpec == BreakerInit /\ [][BreakerNext]_breakerVars

\* Calls to Redis end: the client's timeouts are 100 ms.
CallsEnd == \A c \in Callers : WF_breakerVars(\E success \in BOOLEAN : Done(c, success))

-----------------------------------------------------------------------------
(* While the breaker is half open a probe is under way that will report to
   it, whoever's results come in between: nothing leaves it half open with
   nobody to decide. *)
ProbeUnderWay ==
  /\ probing <=> state = "half_open"
  /\ state = "half_open" => \E c \in Callers : call[c] = "probe"

(* The breaker opens from closed only on Threshold failures reported in a row,
   however the calls overlapped. *)
OpensAfterRow == [][state = "closed" /\ state' = "open" => streak' = Threshold]_breakerVars

(* breaker.go: half open lets exactly one probe through.  Two probes are under
   way at once only after some call outlived openFor: the result of such a call
   is taken for the probe's, and the breaker moves on while the probe runs. *)
OneProbe ==
  outlived \/ \A c, d \in Callers : call[c] = "probe" /\ call[d] = "probe" => c = d

=============================================================================
