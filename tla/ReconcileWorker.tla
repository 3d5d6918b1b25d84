--------------------------- MODULE ReconcileWorker ---------------------------
(***************************************************************************)
(* ReconcileWorker.ProcessDue on every replica: lease the payments that    *)
(* stay pending too long, ask the provider about each by its key, bring    *)
(* the payment to what the provider did or look again later.  Every row    *)
(* has a key here (Start, which writes none, has no caller), so the branch *)
(* for an empty key is left out.                                           *)
(***************************************************************************)
EXTENDS Provider

CONSTANT Checkers

VARIABLE checker

\* stuckPayment: what the lease returned, read before the provider call.
StuckPayment == [key : Keys, attempts : 1..MaxReconcile, age : 1..2]

NoPayment == [key |-> None, attempts |-> 0, age |-> 0]

(* status: the provider's word on cur; "error" when the outcome could not be
   learned or recorded and the payment must be looked at again. *)
CheckerTypeOK ==
  checker \in [Checkers -> [batch : SUBSET StuckPayment, cur : StuckPayment \cup {NoPayment},
                            status : {"charged", "declined", "not_found", "error", None}]]

FreeChecker == [batch |-> {}, cur |-> NoPayment, status |-> None]

CheckerInit == checker = [c \in Checkers |-> FreeChecker]

Stuck == {k \in Keys : /\ payments[k].status = "pending" /\ ~recon[k].manual
                       /\ recon[k].age >= 1 /\ recon[k].due}

\* SKIP LOCKED and the batch limit may leave any of them out.
LeasePayments(c) ==
  /\ checker[c] = FreeChecker
  /\ \E S \in SUBSET Stuck :
       LET more(k) == IF recon[k].attempts < MaxReconcile THEN recon[k].attempts + 1 ELSE MaxReconcile
       IN /\ S # {}
          /\ recon' = [k \in Keys |->
               IF k \in S THEN [recon[k] EXCEPT !.attempts = more(k), !.due = FALSE] ELSE recon[k]]
          /\ checker' = [checker EXCEPT ![c].batch =
               {[key |-> k, attempts |-> more(k), age |-> recon[k].age] : k \in S}]
  /\ UNCHANGED <<orders, returned, payments, events, refunds, providerVars>>

CheckCharge(c) ==
  /\ checker[c].cur = NoPayment
  /\ \E p \in checker[c].batch, res \in {"charged", "declined", "not_found", "error"} :
       /\ ChargeStatus(p.key, res)
       /\ checker' = [checker EXCEPT ![c] = [batch |-> @.batch \ {p}, cur |-> p, status |-> res]]
  /\ UNCHANGED storeVars

Done(c) == checker' = [checker EXCEPT ![c] = [@ EXCEPT !.cur = NoPayment, !.status = None]]

\* Mutant of expires: a payment the provider does not know is never given up.
expiresNever(c) == FALSE

\* The provider still does not know the key of a payment past expireAfter.
expires(c) == checker[c].status = "not_found" /\ checker[c].cur.age = 2

(* resolve: move the payment to what the provider says.  A payment somebody
   else resolved meanwhile is fine; any other failure is looked at again. *)
Resolve(c) ==
  LET p == checker[c].cur
  IN /\ p # NoPayment
     /\ \E res \in {"ok", "err", "transition", "order"} :
          /\ \/ checker[c].status = "charged" /\ Transition(p.key, "succeeded", p.key, res)
             \/ checker[c].status = "declined" /\ Transition(p.key, "failed", None, res)
             \/ expires(c) /\ Transition(p.key, "expired", None, res)
          /\ IF res \in {"ok", "transition"} THEN Done(c)
             ELSE checker' = [checker EXCEPT ![c].status = "error"]
     /\ UNCHANGED providerVars

\* schedule and manual write only to a payment that is still pending.
schedule(k) ==
  recon' = IF payments[k].status = "pending" THEN [recon EXCEPT ![k].due = FALSE] ELSE recon

manual(k) ==
  recon' = IF payments[k].status = "pending" THEN [recon EXCEPT ![k].manual = TRUE] ELSE recon

gaveUp(c) == checker[c].status = "error" /\ checker[c].cur.attempts >= MaxReconcile

(* retryOrManual after an error, schedule for a key the provider may yet see;
   a failed write is only logged. *)
Postpone(c) ==
  LET k == checker[c].cur.key
  IN /\ checker[c].cur # NoPayment
     /\ checker[c].status \in {"error", "not_found"} /\ ~expires(c)
     /\ \/ gaveUp(c) /\ manual(k)
        \/ ~gaveUp(c) /\ schedule(k)
        \/ "db" \in Faults /\ UNCHANGED recon
     /\ Done(c)
     /\ UNCHANGED <<orders, returned, payments, events, refunds, providerVars>>

CheckerCrash(c) ==
  /\ checker[c] # FreeChecker
  /\ checker' = [checker EXCEPT ![c] = FreeChecker]
  /\ UNCHANGED <<storeVars, providerVars>>

=============================================================================
