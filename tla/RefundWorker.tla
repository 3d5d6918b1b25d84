---------------------------- MODULE RefundWorker ----------------------------
(***************************************************************************)
(* RefundWorker.ProcessDue on every replica: lease the refunds that are    *)
(* due, ask the provider for each, record the outcome.  A lease is 30 s    *)
(* and a batch of ten calls may take longer, so a refund can come due      *)
(* again while a worker is still at it.                                    *)
(***************************************************************************)
EXTENDS Provider

CONSTANT Refunders

VARIABLE refunder

\* dueRefund: what the lease returned, read before the provider call.
DueRefund == [key : Keys, attempts : 1..MaxRefund, charge : Keys \cup {None}]

NoRefund == [key |-> None, attempts |-> 0, charge |-> None]

(* batch: refunds leased and not yet sent; cur: the one sent to the provider,
   answer: what the provider said. *)
RefunderTypeOK ==
  refunder \in [Refunders -> [batch : SUBSET DueRefund, cur : DueRefund \cup {NoRefund},
                              answer : {"ok", "err", None}]]

FreeRefunder == [batch |-> {}, cur |-> NoRefund, answer |-> None]

RefunderInit == refunder = [w \in Refunders |-> FreeRefunder]

\* SKIP LOCKED and the batch limit may leave any of the due refunds out.
LeaseRefunds(w) ==
  /\ refunder[w] = FreeRefunder
  /\ \E S \in SUBSET {k \in Keys : refunds[k].status = "pending" /\ refunds[k].due} :
       LET more(k) == IF refunds[k].attempts < MaxRefund THEN refunds[k].attempts + 1 ELSE MaxRefund
       IN /\ S # {}
          /\ refunds' = [k \in Keys |->
               IF k \in S THEN [refunds[k] EXCEPT !.attempts = more(k), !.due = FALSE]
                          ELSE refunds[k]]
          /\ refunder' = [refunder EXCEPT ![w].batch =
               {[key |-> k, attempts |-> more(k), charge |-> payments[k].charge] : k \in S}]
  /\ UNCHANGED <<orders, returned, payments, events, recon, providerVars>>

\* Mutant of CallRefund: the provider's error is not looked at.
CallRefundIgnoresError(w) ==
  /\ refunder[w].cur = NoRefund
  /\ \E d \in refunder[w].batch, res \in {"ok", "err"} :
       /\ ProviderRefund(d.key, d.charge, res)
       /\ refunder' = [refunder EXCEPT ![w] =
            [batch |-> @.batch \ {d}, cur |-> d, answer |-> "ok"]]
  /\ UNCHANGED storeVars

CallRefund(w) ==
  /\ refunder[w].cur = NoRefund
  /\ \E d \in refunder[w].batch, res \in {"ok", "err"} :
       /\ ProviderRefund(d.key, d.charge, res)
       /\ refunder' = [refunder EXCEPT ![w] =
            [batch |-> @.batch \ {d}, cur |-> d, answer |-> res]]
  /\ UNCHANGED storeVars

(* markSucceeded: the refund if it is still pending, and with it the payment;
   a payment that cannot become refunded rolls both back. *)
markSucceeded(d) ==
  LET k == d.key
  IN /\ CanTransitionPayment(payments[k].status, "refunded")
     /\ movePayment(k, "refunded", None)
     /\ refunds' = IF refunds[k].status = "pending"
                     THEN [refunds EXCEPT ![k].status = "succeeded"] ELSE refunds
     /\ UNCHANGED <<orders, returned, recon>>

\* Mutant of markFailed: the refund need not be pending any more.
markFailedUnguarded(d) ==
  /\ refunds' = IF d.attempts >= MaxRefund
                  THEN [refunds EXCEPT ![d.key].status = "manual_review"]
                  ELSE [refunds EXCEPT ![d.key].due = FALSE]
  /\ UNCHANGED <<orders, returned, payments, events, recon>>

\* markFailed: back off, or give up after the last attempt.
markFailed(d) ==
  LET k == d.key
  IN /\ refunds' =
          IF refunds[k].status # "pending" THEN refunds
          ELSE IF d.attempts >= MaxRefund
            THEN [refunds EXCEPT ![k].status = "manual_review"]
            ELSE [refunds EXCEPT ![k].due = FALSE]
     /\ UNCHANGED <<orders, returned, payments, events, recon>>

RecordRefund(w) ==
  LET d == refunder[w].cur
  IN /\ d # NoRefund
     /\ \/ refunder[w].answer = "ok" /\ markSucceeded(d)
        \/ /\ refunder[w].answer = "ok"
           /\ ~CanTransitionPayment(payments[d.key].status, "refunded") \/ "db" \in Faults
           /\ UNCHANGED storeVars
        \/ refunder[w].answer = "err" /\ markFailed(d)
        \/ refunder[w].answer = "err" /\ "db" \in Faults /\ UNCHANGED storeVars
     /\ refunder' = [refunder EXCEPT ![w] = [@ EXCEPT !.cur = NoRefund, !.answer = None]]
  /\ UNCHANGED providerVars

RefunderCrash(w) ==
  /\ refunder[w] # FreeRefunder
  /\ refunder' = [refunder EXCEPT ![w] = FreeRefunder]
  /\ UNCHANGED <<storeVars, providerVars>>

=============================================================================
