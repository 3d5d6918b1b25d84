---------------------------- MODULE PaymentStore ----------------------------
(***************************************************************************)
(* The part of the order-service database the payment code shares: the    *)
(* tables orders, payments, payment_events and refunds, and the           *)
(* transactions PaymentRepo and OrderRepo.CancelOrder run on them.         *)
(*                                                                         *)
(* A payment row is named by its idempotency key, which a unique index     *)
(* makes an identity.  Each transaction takes the row locks it needs       *)
(* before it reads what it decides on, so it is one step here.             *)
(***************************************************************************)
EXTENDS PaymentDomain, Naturals, Sequences

CONSTANTS Orders,        \* order ids
          Keys,          \* idempotency keys, and with them payments
          None,          \* SQL NULL, the empty string
          Faults         \* the failures the environment may inject

(* "crash": a process stops between two steps; "db": a database call fails
   without effect; "lost": a commit or a provider call takes effect but its
   caller sees an error; "down": the provider refuses every call for a while. *)
FaultKinds == {"crash", "db", "lost", "down"}

ASSUME StoreAssumption == /\ None \notin Keys
                          /\ None \notin Orders
                          /\ Faults \subseteq FaultKinds

VARIABLES orders,        \* order id -> status
          returned,      \* order id -> how often its stock was given back
          payments,      \* key -> status, order, id of the provider's charge
          events,        \* key -> payment_events of that payment, in order
          recon,         \* key -> what ReconcileWorker keeps on the payment row
          refunds        \* key -> the refund of that payment

storeVars == <<orders, returned, payments, events, recon, refunds>>

CONSTANTS MaxReconcile,  \* ReconcileWorker.maxAttempts
          MaxRefund      \* RefundWorker.maxAttempts

ASSUME AttemptsAssumption == /\ MaxReconcile \in Nat \ {0}
                             /\ MaxRefund \in Nat \ {0}

(* A payment's age as ReconcileWorker tells it apart: 0 younger than
   stuckAfter, 1 stuck, 2 older than expireAfter.  Attempt counters are only
   ever compared with their maximum and stop there. *)
Payment == [status : PaymentStatus, order : Orders \cup {None}, charge : Keys \cup {None}]
Recon   == [age : 0..2, attempts : 0..MaxReconcile, due : BOOLEAN, manual : BOOLEAN]
Refund  == [status : {"none", "pending", "succeeded", "manual_review"},
            attempts : 0..MaxRefund, due : BOOLEAN]
Event   == [from : PaymentStatus, to : PaymentStatus]

StoreTypeOK ==
  /\ orders \in [Orders -> OrderStatus]
  /\ returned \in [Orders -> Nat]
  /\ payments \in [Keys -> Payment]
  /\ events \in [Keys -> Seq(Event)]
  /\ recon \in [Keys -> Recon]
  /\ refunds \in [Keys -> Refund]

StoreInit ==
  /\ orders = [o \in Orders |-> "absent"]
  /\ returned = [o \in Orders |-> 0]
  /\ payments = [k \in Keys |-> [status |-> "absent", order |-> None, charge |-> None]]
  /\ events = [k \in Keys |-> << >>]
  /\ recon = [k \in Keys |-> [age |-> 0, attempts |-> 0, due |-> TRUE, manual |-> FALSE]]
  /\ refunds = [k \in Keys |-> [status |-> "none", attempts |-> 0, due |-> FALSE]]

-----------------------------------------------------------------------------
(* What a database call may report when it had its effect, and when it fails. *)
Applied == {"ok"} \cup (IF "lost" \in Faults THEN {"err"} ELSE {})
Dropped == IF "db" \in Faults THEN {"err"} ELSE {}

addPaymentEvent(k, from, to) ==
  events' = [events EXCEPT ![k] = Append(@, [from |-> from, to |-> to])]

\* OrderRepo.CreateOrder, of which the payment code only sees the new row.
CreateOrder(o) ==
  /\ orders[o] = "absent"
  /\ orders' = [orders EXCEPT ![o] = "pending"]
  /\ UNCHANGED <<returned, payments, events, recon, refunds>>

\* Mutant of ActiveOf: the index covers succeeded payments only.
ActiveOfSucceeded(o) == {k \in Keys : payments[k].order = o /\ payments[k].status = "succeeded"}

\* The rows payments_one_active_per_order indexes for order o.
ActiveOf(o) == {k \in Keys : payments[k].order = o /\ payments[k].status \in {"pending", "succeeded"}}

(* PaymentRepo.start refuses: no such order, order not pending, the order has
   an active payment, the key has a payment.  The conflict on the active
   payment is reported before the one on the key: Postgres checks the older
   index first. *)
startError(o, k, err) ==
  \/ err = "not_found" /\ orders[o] = "absent"
  \/ err = "order" /\ orders[o] \notin {"absent", "pending"}
  \/ err = "active" /\ orders[o] = "pending" /\ ActiveOf(o) # {}
  \/ err = "key" /\ orders[o] = "pending" /\ ActiveOf(o) = {} /\ payments[k].status # "absent"

insertPayment(o, k) ==
  /\ payments' = [payments EXCEPT ![k] = [status |-> "pending", order |-> o, charge |-> None]]
  /\ recon' = [recon EXCEPT ![k] = [age |-> 0, attempts |-> 0, due |-> TRUE, manual |-> FALSE]]
  /\ addPaymentEvent(k, "absent", "pending")
  /\ UNCHANGED <<orders, returned, refunds>>

start(o, k, res) ==
  \/ /\ orders[o] = "pending" /\ ActiveOf(o) = {} /\ payments[k].status = "absent"
     /\ res \in Applied
     /\ insertPayment(o, k)
  \/ startError(o, k, res) /\ UNCHANGED storeVars
  \/ res \in Dropped /\ UNCHANGED storeVars

-----------------------------------------------------------------------------
(* PaymentRepo.Transition.  The payment's move must be allowed; a move to
   "succeeded" also needs its order still pending, or all is rolled back. *)
transitionError(k, to, err) ==
  \/ err = "transition" /\ ~CanTransitionPayment(payments[k].status, to)
  \/ /\ err = "order" /\ CanTransitionPayment(payments[k].status, to)
     /\ to = "succeeded" /\ orders[payments[k].order] # "pending"

\* Mutant of movePayment: the provider's charge id is not kept.
movePaymentNoCharge(k, to, charge) ==
  /\ payments' = [payments EXCEPT ![k].status = to]
  /\ addPaymentEvent(k, payments[k].status, to)

\* Mutant of movePayment: the transition leaves no event.
movePaymentSilent(k, to, charge) ==
  /\ payments' = [payments EXCEPT ![k] =
       [@ EXCEPT !.status = to, !.charge = IF charge = None THEN payments[k].charge ELSE charge]]
  /\ UNCHANGED events

movePayment(k, to, charge) ==
  /\ payments' = [payments EXCEPT ![k] =
       [@ EXCEPT !.status = to, !.charge = IF charge = None THEN payments[k].charge ELSE charge]]
  /\ addPaymentEvent(k, payments[k].status, to)

\* Mutant of payOrder: any outcome of the payment pays the order.
payOrderAlways(k, to) ==
  IF orders[payments[k].order] = "pending"
    THEN orders' = [orders EXCEPT ![payments[k].order] = "paid"] ELSE UNCHANGED orders

\* The order becomes paid in the transaction that makes its payment succeed.
payOrder(k, to) ==
  IF to = "succeeded" THEN orders' = [orders EXCEPT ![payments[k].order] = "paid"]
                      ELSE UNCHANGED orders

Transition(k, to, charge, res) ==
  \/ /\ \A err \in {"transition", "order"} : ~transitionError(k, to, err)
     /\ res \in Applied
     /\ movePayment(k, to, charge)
     /\ payOrder(k, to)
     /\ UNCHANGED <<returned, recon, refunds>>
  \/ transitionError(k, to, res) /\ UNCHANGED storeVars
  \/ res \in Dropped /\ UNCHANGED storeVars

-----------------------------------------------------------------------------
HasPending(o) == \E k \in Keys : payments[k].order = o /\ payments[k].status = "pending"

\* Mutant of CancelRefused: a payment in progress is not looked for.
CancelRefusedByStatus(o) == ~CanTransition(orders[o], "cancelled")

\* Mutant of CancelRefused: a cancelled order can be cancelled again.
CancelRefusedByPayment(o) ==
  orders[o] \notin {"pending", "paid", "cancelled"} \/ (orders[o] = "pending" /\ HasPending(o))

\* When OrderRepo.CancelOrder returns an error.
CancelRefused(o) ==
  ~CanTransition(orders[o], "cancelled") \/ (orders[o] = "pending" /\ HasPending(o))

\* Mutant of insertRefunds: the row is written for a pending payment.
insertRefundsPending(o) ==
  refunds' = [k \in Keys |->
    IF payments[k].order = o /\ payments[k].status = "pending" /\ refunds[k].status = "none"
      THEN [status |-> "pending", attempts |-> 0, due |-> TRUE] ELSE refunds[k]]

\* The refund of a paid order, once for each payment.
insertRefunds(o) ==
  refunds' = [k \in Keys |->
    IF payments[k].order = o /\ payments[k].status = "succeeded" /\ refunds[k].status = "none"
      THEN [status |-> "pending", attempts |-> 0, due |-> TRUE] ELSE refunds[k]]

(* OrderRepo.CancelOrder: the status, the refund of a paid order and the stock
   in one transaction. *)
CancelOrder(o) ==
  /\ ~CancelRefused(o)
  /\ orders' = [orders EXCEPT ![o] = "cancelled"]
  /\ IF orders[o] = "paid" THEN insertRefunds(o) ELSE UNCHANGED refunds
  /\ returned' = [returned EXCEPT ![o] = @ + 1]
  /\ UNCHANGED <<payments, events, recon>>

-----------------------------------------------------------------------------
(* The database clock: a pending payment gets older, its next check and a
   refund's next attempt come due. *)
Age(k) ==
  /\ payments[k].status = "pending" /\ recon[k].age < 2
  /\ recon' = [recon EXCEPT ![k].age = @ + 1]
  /\ UNCHANGED <<orders, returned, payments, events, refunds>>

ReconcileDue(k) ==
  /\ payments[k].status = "pending" /\ ~recon[k].due
  /\ recon' = [recon EXCEPT ![k].due = TRUE]
  /\ UNCHANGED <<orders, returned, payments, events, refunds>>

RefundDue(k) ==
  /\ refunds[k].status = "pending" /\ ~refunds[k].due
  /\ refunds' = [refunds EXCEPT ![k].due = TRUE]
  /\ UNCHANGED <<orders, returned, payments, events, recon>>

=============================================================================
