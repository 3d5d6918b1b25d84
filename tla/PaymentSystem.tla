---------------------------- MODULE PaymentSystem ----------------------------
(***************************************************************************)
(* The payment side of order-service: requests to pay, cancellations, the  *)
(* refund worker, the worker for stuck payments and the reconciliation     *)
(* job, on any number of replicas, against one database and one provider.  *)
(***************************************************************************)
EXTENDS PayService, RefundWorker, ReconcileWorker, ReconciliationJob

vars == <<storeVars, providerVars, requests, exec, refunder, checker, job, jobShared>>

TypeOK == /\ StoreTypeOK /\ ProviderTypeOK /\ IdempotencyTypeOK /\ ExecTypeOK
          /\ RefunderTypeOK /\ CheckerTypeOK /\ JobTypeOK

Init == /\ StoreInit /\ ProviderInit /\ IdempotencyInit /\ ExecInit
        /\ RefunderInit /\ CheckerInit /\ JobInit

-----------------------------------------------------------------------------
\* What the steps of each process leave alone.
payFrame    == UNCHANGED <<refunder, checker, job, jobShared>>
refundFrame == UNCHANGED <<requests, exec, checker, job, jobShared>>
checkFrame  == UNCHANGED <<requests, exec, refunder, job, jobShared>>
jobFrame    == UNCHANGED <<requests, exec, refunder, checker>>
storeFrame  == UNCHANGED <<providerVars, requests, exec, refunder, checker, job, jobShared>>

Client == \E o \in Orders : \/ CreateOrder(o) /\ storeFrame
                            \/ CancelOrder(o) /\ storeFrame

Pay(e) ==
  \/ \E k \in Keys, o \in Orders : ClaimKey(e, k, o) /\ payFrame
  \/ Lookup(e) /\ payFrame
  \/ Insert(e) /\ payFrame
  \/ ChargeStep(e) /\ payFrame
  \/ Record(e) /\ payFrame
  \/ Finish(e) /\ payFrame
  \/ Deadline(e) /\ payFrame

RefundStep(w) ==
  \/ LeaseRefunds(w) /\ refundFrame
  \/ CallRefund(w) /\ refundFrame
  \/ RecordRefund(w) /\ refundFrame

CheckStep(c) ==
  \/ LeasePayments(c) /\ checkFrame
  \/ CheckCharge(c) /\ checkFrame
  \/ Resolve(c) /\ checkFrame
  \/ Postpone(c) /\ checkFrame

JobStep(j) ==
  \/ TryClaim(j) /\ jobFrame
  \/ ListCharges(j) /\ jobFrame
  \/ ReadOurs(j) /\ jobFrame
  \/ CheckKey(j) /\ jobFrame
  \/ FixRefund(j) /\ jobFrame
  \/ record(j) /\ jobFrame
  \/ JobFinishes(j) /\ jobFrame
  \/ JobFails(j) /\ jobFrame

\* Time passes.
Clock ==
  \/ \E k \in Keys :
       \/ Age(k) /\ Patient(k) /\ storeFrame
       \/ ReconcileDue(k) /\ storeFrame
       \/ RefundDue(k) /\ storeFrame
       \/ LeaseRunsOut(k) /\ payFrame
       \/ KeyRunsOut(k) /\ payFrame
  \/ \E j \in Jobs : NextPeriod /\ jobFrame

providerFrame == UNCHANGED <<storeVars, requests, exec, refunder, checker, job, jobShared>>

\* The provider goes down; a replica dies and its processes lose their state.
Outage == ProviderStops /\ providerFrame

Crash == \/ \E e \in Executors : ExecCrash(e) /\ payFrame
         \/ \E w \in Refunders : RefunderCrash(w) /\ refundFrame
         \/ \E c \in Checkers : CheckerCrash(c) /\ checkFrame
         \/ \E j \in Jobs : JobCrash(j) /\ jobFrame

Next == \/ Client \/ Clock
        \/ ProviderRecovers /\ providerFrame
        \/ "down" \in Faults /\ Outage
        \/ "crash" \in Faults /\ Crash
        \/ \E e \in Executors : Pay(e)
        \/ \E w \in Refunders : RefundStep(w)
        \/ \E c \in Checkers : CheckStep(c)
        \/ \E j \in Jobs : JobStep(j)

Spec == Init /\ [][Next]_vars

-----------------------------------------------------------------------------
Active(k) == payments[k].status \in {"pending", "succeeded"}

(* While a payment's outcome is unknown its order can be neither cancelled nor
   paid by another payment: CancelOrder's check for a pending payment, start's
   order lock and the one-active index together. *)
PendingHoldsOrder ==
  \A k \in Keys : payments[k].status = "pending" => orders[payments[k].order] = "pending"

(* A paid order has a payment that succeeded and the provider holds its money:
   paid only by succeeded, in one transaction, after the provider's word. *)
PaidIsBacked ==
  \A o \in Orders : orders[o] = "paid" =>
    \E k \in Keys : /\ payments[k].order = o /\ payments[k].status = "succeeded"
                    /\ payments[k].charge = k /\ charges[k] = "charged"

(* What a settled payment says is what the provider did, whichever of Pay,
   ReconcileWorker, RefundWorker and the job wrote it. *)
SettledAsProvider ==
  \A k \in Keys :
    /\ payments[k].status \in {"succeeded", "refunded"} => charges[k] = "charged"
    /\ payments[k].status = "failed" => charges[k] = "declined"
    /\ payments[k].status = "refunded" => <<k, k>> \in providerRefunds

(* An order never has two payments that are pending or succeeded, not even
   through late transitions of the workers. *)
OneActivePayment ==
  \A k, l \in Keys : Active(k) /\ Active(l) /\ payments[k].order = payments[l].order => k = l

(* Two charges for one order happen only if one of the two payments had been
   given up as expired. *)
DoubleChargeOnlyAfterExpiry ==
  \A k, l \in Keys :
    /\ k # l /\ charges[k] = "charged" /\ charges[l] = "charged"
    /\ payments[k].order = payments[l].order
    => "expired" \in {payments[k].status, payments[l].status}

(* Cancelling a paid order never loses the money: as long as its payment is not
   refunded there is a refund row that a worker or a person will work on. *)
NoLostRefund ==
  \A k \in Keys :
    payments[k].status = "succeeded" /\ orders[payments[k].order] = "cancelled"
      => refunds[k].status \in {"pending", "manual_review"}

(* The provider gives money back once for each payment, for the payment's own
   charge, and only for a cancelled order. *)
RefundsAreOwed ==
  \A r \in providerRefunds :
    /\ r[1] = r[2] /\ charges[r[1]] = "charged"
    /\ orders[payments[r[1]].order] = "cancelled" /\ refunds[r[1]].status # "none"

(* A refund recorded as done was done, and its payment says so too, although
   the job writes the two in two transactions. *)
RefundRecordTrue ==
  \A k \in Keys : refunds[k].status = "succeeded" =>
    payments[k].status = "refunded" /\ <<k, k>> \in providerRefunds

(* What the job has recorded as repaired is settled and stays so, whether its
   write was applied, refused, uncertain or overtaken by a request or a worker;
   the rest is a person's. *)
FixedIsSettled ==
  \A i \in items : i.action = "auto_fixed" =>
    i.kind = "status_mismatch" /\ payments[i.key].status \in {"succeeded", "failed", "refunded"}

(* payment_events is the whole history of a payment: a chain of allowed moves
   that ends in its present status. *)
AuditTrail ==
  \A k \in Keys :
    /\ \A i \in 1..Len(events[k]) :
         IF i = 1 THEN events[k][i] = [from |-> "absent", to |-> "pending"]
         ELSE /\ events[k][i].from = events[k][i-1].to
              /\ CanTransitionPayment(events[k][i].from, events[k][i].to)
    /\ IF events[k] = << >> THEN payments[k].status = "absent"
       ELSE payments[k].status = events[k][Len(events[k])].to

\* Stock goes back exactly when an order is cancelled, and never twice.
StockReturnedOnce ==
  \A o \in Orders : returned[o] = IF orders[o] = "cancelled" THEN 1 ELSE 0

(* A 200 that is about to go out, or stored for repetitions, stands for money
   the provider took; a 402 for a charge the provider declined. *)
AnswersTrue ==
  /\ \A e \in Executors : exec[e].pc = "finish" =>
       /\ exec[e].result = "200" => charges[exec[e].key] = "charged"
       /\ exec[e].result = "402" => charges[exec[e].key] = "declined"
  /\ \A k \in Keys : requests[k].status = "completed" =>
       /\ requests[k].code = "200" => payments[k].status \in {"succeeded", "refunded"}
       /\ requests[k].code = "402" => charges[k] = "declined"

-----------------------------------------------------------------------------
(* A stored answer is never replaced during the life of its key, although
   Complete checks neither who calls it nor what is stored. *)
AnswerStays ==
  [][\A k \in Keys : requests[k].status = "completed" /\ ~requests[k].expired =>
        requests'[k].status = "completed" /\ requests'[k].code = requests[k].code]_vars

(* What was settled stays settled: a late failure, a late expiry or a repair
   from an old snapshot never takes back a payment or a refund that went
   through. *)
SettledStays ==
  [][\A k \in Keys :
       /\ payments[k].status = "succeeded" => payments'[k].status \in {"succeeded", "refunded"}
       /\ payments[k].status \in {"failed", "expired", "refunded"}
            => payments'[k].status = payments[k].status
       /\ refunds[k].status = "succeeded" => refunds'[k].status = "succeeded"]_vars

-----------------------------------------------------------------------------
(* The money of an order, read from its status and its payments. *)
HasPayment(o, status) == \E k \in Keys : payments[k].order = o /\ payments[k].status = status

LedgerOf(o) ==
  CASE orders[o] \in {"absent", "pending"} -> "open"
    [] orders[o] = "cancelled" /\ HasPayment(o, "refunded") -> "returned"
    [] orders[o] = "cancelled" /\ ~HasPayment(o, "refunded") /\ HasPayment(o, "succeeded") -> "owed"
    [] orders[o] = "cancelled" /\ ~HasPayment(o, "refunded") /\ ~HasPayment(o, "succeeded") -> "closed"
    [] OTHER -> "paid"

Ledger == INSTANCE OrderLedger WITH ledger <- [o \in Orders |-> LedgerOf(o)]

(* The payment side implements the ledger of its orders: no interleaving pays
   an order twice, revives a closed one, or returns money it does not owe. *)
ImplementsLedger == Ledger!LedgerSpec

=============================================================================
