----------------------------- MODULE PayService -----------------------------
(***************************************************************************)
(* POST /orders/{id}/pay: the idempotency middleware around                *)
(* PaymentService.Pay.  An executor is the request that leads its          *)
(* singleflight group on one replica; the others wait for its answer.      *)
(*                                                                         *)
(* The leader's context lasts 8 s and a key's lease 15 s, so a lease that  *)
(* ran out belongs to a request whose context is over.  The provider call  *)
(* and the recording of its outcome do not listen to that context.         *)
(***************************************************************************)
EXTENDS Provider, IdempotencyStore

CONSTANT Executors

VARIABLE exec

(* result: the provider's outcome while it is being recorded, the answer once
   it is known.  seen: how old the payment was when the request arrived (0:
   there was none), see Patient. *)
Execution == [pc : {"idle", "lookup", "insert", "charge", "record", "finish"},
              key : Keys \cup {None}, order : Orders \cup {None}, live : BOOLEAN, seen : 0..3,
              result : Codes \cup {"charged", "declined", None}]

Idle == [pc |-> "idle", key |-> None, order |-> None, live |-> FALSE, seen |-> 0, result |-> None]

ExecTypeOK ==
  /\ exec \in [Executors -> Execution]
  /\ \A e \in Executors :
       /\ exec[e].pc # "idle" => exec[e].key \in Keys /\ exec[e].order \in Orders
       /\ exec[e].pc = "record" => exec[e].result \in {"charged", "declined"}
       /\ exec[e].pc = "finish" => exec[e].result \in Codes

ExecInit == exec = [e \in Executors |-> Idle]

InFlight(k) == {e \in Executors : exec[e].key = k}

GoTo(e, pc, result) == exec' = [exec EXCEPT ![e] = [@ EXCEPT !.pc = pc, !.result = result]]

\* errToStatus
CodeOf(err) == CASE err = "not_found" -> "404"
                 [] err \in {"order", "active", "transition"} -> "409"
                 [] OTHER -> "5xx"

-----------------------------------------------------------------------------
\* A request arrives and claims its key; the claim's commit may be lost (503).
ClaimKey(e, k, o) ==
  /\ exec[e].pc = "idle"
  /\ Claim(k, o)
  /\ \/ exec' = [exec EXCEPT ![e] =
          [pc |-> "lookup", key |-> k, order |-> o, live |-> TRUE, result |-> None,
           seen |-> IF payments[k].status = "absent" THEN 0 ELSE recon[k].age + 1]]
     \/ "lost" \in Faults /\ UNCHANGED exec
  /\ UNCHANGED <<storeVars, providerVars>>

\* StartOrResume looks for a payment with this key; Pay then acts on its status.
Lookup(e) ==
  LET s == payments[exec[e].key].status
  IN /\ exec[e].pc = "lookup"
     /\ \/ /\ exec[e].live
           /\ \/ s = "absent" /\ GoTo(e, "insert", None)
              \/ s = "pending" /\ GoTo(e, "charge", None)
              \/ s = "succeeded" /\ GoTo(e, "finish", "200")
              \/ s = "failed" /\ GoTo(e, "finish", "402")
              \/ s \in {"expired", "refunded"} /\ GoTo(e, "finish", "409")
        \/ (~exec[e].live \/ "db" \in Faults) /\ GoTo(e, "finish", "5xx")
     /\ UNCHANGED <<storeVars, providerVars, requests>>

(* start inserts the payment.  A conflict on the key means another request
   was first: look it up again. *)
Insert(e) ==
  /\ exec[e].pc = "insert"
  /\ \/ /\ exec[e].live
        /\ \E res \in {"ok", "err", "not_found", "order", "active", "key"} :
             /\ start(exec[e].order, exec[e].key, res)
             /\ CASE res = "ok" -> GoTo(e, "charge", None)
                  [] res = "key" -> GoTo(e, "lookup", None)
                  [] OTHER -> GoTo(e, "finish", CodeOf(res))
     \/ ~exec[e].live /\ GoTo(e, "finish", "5xx") /\ UNCHANGED storeVars
  /\ UNCHANGED <<providerVars, requests>>

\* Mutant of ChargeStep: an unknown outcome is taken for a decline.
ChargeStepUnknownDeclined(e) ==
  /\ exec[e].pc = "charge"
  /\ \E res \in {"charged", "declined", "unknown"} :
       /\ Charge(exec[e].key, res)
       /\ GoTo(e, "record", IF res = "unknown" THEN "declined" ELSE res)
  /\ UNCHANGED <<storeVars, requests>>

\* The provider call; an unknown outcome leaves the payment pending.
ChargeStep(e) ==
  /\ exec[e].pc = "charge"
  /\ \E res \in {"charged", "declined", "unknown"} :
       /\ Charge(exec[e].key, res)
       /\ IF res = "unknown" THEN GoTo(e, "finish", "5xx") ELSE GoTo(e, "record", res)
  /\ UNCHANGED <<storeVars, requests>>

\* Mutant of Record: the answer is 200 whether or not the success was recorded.
RecordAnswers200(e) ==
  LET k == exec[e].key
  IN /\ exec[e].pc = "record"
     /\ \E res \in {"ok", "err", "transition", "order"} :
          \/ /\ exec[e].result = "declined"
             /\ Transition(k, "failed", None, res)
             /\ GoTo(e, "finish", "402")
          \/ /\ exec[e].result = "charged"
             /\ Transition(k, "succeeded", k, res)
             /\ GoTo(e, "finish", "200")
     /\ UNCHANGED <<providerVars, requests>>

\* The outcome is recorded; a decline is answered 402 even if that fails.
Record(e) ==
  LET k == exec[e].key
  IN /\ exec[e].pc = "record"
     /\ \E res \in {"ok", "err", "transition", "order"} :
          \/ /\ exec[e].result = "declined"
             /\ Transition(k, "failed", None, res)
             /\ GoTo(e, "finish", "402")
          \/ /\ exec[e].result = "charged"
             /\ Transition(k, "succeeded", k, res)
             /\ GoTo(e, "finish", IF res = "ok" THEN "200" ELSE CodeOf(res))
     /\ UNCHANGED <<providerVars, requests>>

(* Mutant of Finish: the answer is stored on a context of its own, whoever
   holds the key by then. *)
FinishDetached(e) ==
  /\ exec[e].pc = "finish"
  /\ IF exec[e].result = "5xx" THEN Release(exec[e].key)
                               ELSE Complete(exec[e].key, exec[e].result)
  /\ exec' = [exec EXCEPT ![e] = Idle]
  /\ UNCHANGED <<storeVars, providerVars>>

(* The answer goes out.  A 5xx releases the key, any other answer is stored;
   both use the request's context and their failure is only logged. *)
Finish(e) ==
  /\ exec[e].pc = "finish"
  /\ \/ /\ exec[e].live
        /\ IF exec[e].result = "5xx" THEN Release(exec[e].key)
                                     ELSE Complete(exec[e].key, exec[e].result)
     \/ (~exec[e].live \/ "db" \in Faults) /\ UNCHANGED requests
  /\ exec' = [exec EXCEPT ![e] = Idle]
  /\ UNCHANGED <<storeVars, providerVars>>

-----------------------------------------------------------------------------
\* idempotencyLeaderTimeout passes.
Deadline(e) ==
  /\ exec[e].pc # "idle" /\ exec[e].live
  /\ exec' = [exec EXCEPT ![e].live = FALSE]
  /\ UNCHANGED <<storeVars, providerVars, requests>>

\* The replica dies; its database session is rolled back.
ExecCrash(e) ==
  /\ exec[e].pc # "idle"
  /\ exec' = [exec EXCEPT ![e] = Idle]
  /\ UNCHANGED <<storeVars, providerVars, requests>>

\* A lease outlives the context of every request that held it.
LeaseRunsOut(k) ==
  /\ \A e \in InFlight(k) : ~exec[e].live
  /\ LeaseEnds(k)
  /\ UNCHANGED <<storeVars, providerVars, exec>>

\* A key's 24 h outlive every request.
KeyRunsOut(k) ==
  /\ InFlight(k) = {}
  /\ KeyEnds(k)
  /\ UNCHANGED <<storeVars, providerVars, exec>>

(* A request lasts seconds, the steps between a payment's ages are minutes:
   when payment k gets older, every request still running arrived after the
   previous such moment. *)
Patient(k) == \A e \in InFlight(k) : exec[e].seen > recon[k].age

=============================================================================
