------------------------ MODULE PaymentLedgerProofs ------------------------
(***************************************************************************)
(* What the steps of PaymentSystem do to orders and payments is one of     *)
(* four moves of the tables (TableMove).  From these follow the history in *)
(* payment_events, the stock given back and the ledger of every order.     *)
(* Apart from the tables: who may store an answer under a key, and what    *)
(* the job makes of its snapshots.                                         *)
(***************************************************************************)
EXTENDS PaymentMoneyProofs, PaymentClaims

Inserts(k, o) ==
  orders[o] = "pending" /\ ActiveOf(o) = {} /\ payments[k].status = "absent" /\ insertPayment(o, k)

Moves(k, to) ==
  /\ CanTransitionPayment(payments[k].status, to)
  /\ \E charge \in Keys \cup {None} : movePayment(k, to, charge)
  /\ payOrder(k, to) /\ returned' = returned

TableMove ==
  \/ UNCHANGED <<orders, returned, payments, events>>
  \/ \E o \in Orders : CreateOrder(o) \/ CancelOrder(o)
  \/ \E k \in Keys, o \in Orders : Inserts(k, o)
  \/ \E k \in Keys, to \in PaymentStatus : Moves(k, to)

-----------------------------------------------------------------------------
\* Transition moves a payment or nothing.
LEMMA TransitionMoves ==
  ASSUME NEW k \in Keys, NEW to \in PaymentStatus, NEW charge \in Keys \cup {None}, NEW res,
         Transition(k, to, charge, res)
  PROVE  TableMove
  <1>1. CASE UNCHANGED storeVars
    BY <1>1 DEF storeVars, TableMove
  <1>2. CASE /\ \A err \in {"transition", "order"} : ~transitionError(k, to, err)
             /\ movePayment(k, to, charge) /\ payOrder(k, to) /\ returned' = returned
    <2>1. CanTransitionPayment(payments[k].status, to)
      BY <1>2 DEF transitionError
    <2>2. Moves(k, to)
      BY <1>2, <2>1 DEF Moves
    <2> QED
      BY <2>2 DEF TableMove
  <1> QED
    BY <1>1, <1>2 DEF Transition

\* The outcomes that are written are statuses.
LEMMA Outcomes == {"succeeded", "failed", "expired", "refunded"} \subseteq PaymentStatus
  BY DEF PaymentStatus

(* The steps of a request to pay. *)
LEMMA PayMoves ==
  ASSUME TypeOK, NEW e \in Executors, Pay(e)
  PROVE  TableMove
  <1>1. exec[e].pc # "idle" => exec[e].key \in Keys /\ exec[e].order \in Orders
    BY DEF TypeOK, ExecTypeOK
  <1>2. CASE Insert(e)
    <2>1. CASE UNCHANGED storeVars
      BY <2>1 DEF storeVars, TableMove
    <2>2. ASSUME NEW res, start(exec[e].order, exec[e].key, res) PROVE TableMove
      <3>1. exec[e].key \in Keys /\ exec[e].order \in Orders
        BY <1>1, <1>2 DEF Insert
      <3>2. UNCHANGED storeVars \/ Inserts(exec[e].key, exec[e].order)
        BY <2>2 DEF start, Inserts
      <3> QED
        BY <3>1, <3>2 DEF TableMove, storeVars
    <2> QED
      BY <1>2, <2>1, <2>2 DEF Insert
  <1>3. CASE Record(e)
    <2>1. exec[e].key \in Keys
      BY <1>1, <1>3 DEF Record
    <2>2. \E res : \/ Transition(exec[e].key, "failed", None, res)
                   \/ Transition(exec[e].key, "succeeded", exec[e].key, res)
      BY <1>3 DEF Record
    <2> QED
      BY <2>1, <2>2, Outcomes, TransitionMoves
  <1>4. CASE UNCHANGED storeVars
    BY <1>4 DEF storeVars, TableMove
  <1> QED
    BY <1>2, <1>3, <1>4 DEF Pay, ClaimKey, Lookup, ChargeStep, Finish, Deadline

(* The steps of the refund worker. *)
LEMMA RefundMoves ==
  ASSUME TypeOK, NEW w \in Refunders, RefundStep(w)
  PROVE  TableMove
  <1>1. CASE LeaseRefunds(w)
    BY <1>1 DEF LeaseRefunds, TableMove
  <1>2. CASE CallRefund(w)
    BY <1>2 DEF CallRefund, storeVars, TableMove
  <1>3. CASE RecordRefund(w)
    <2> DEFINE d == refunder[w].cur
    <2>1. CASE UNCHANGED storeVars \/ markFailed(d)
      BY <2>1 DEF markFailed, storeVars, TableMove
    <2>2. CASE markSucceeded(d)
      <3>1. d.key \in Keys
        BY <1>3 DEF RecordRefund, TypeOK, RefunderTypeOK, DueRefund
      <3>2. Moves(d.key, "refunded")
        BY <2>2 DEF markSucceeded, Moves, payOrder
      <3> QED
        BY <3>1, <3>2, Outcomes DEF TableMove
    <2> QED
      BY <1>3, <2>1, <2>2 DEF RecordRefund
  <1> QED
    BY <1>1, <1>2, <1>3 DEF RefundStep

(* The steps of the worker for stuck payments. *)
LEMMA CheckMoves ==
  ASSUME TypeOK, NEW c \in Checkers, CheckStep(c)
  PROVE  TableMove
  <1>1. CASE LeasePayments(c) \/ CheckCharge(c) \/ Postpone(c)
    BY <1>1 DEF LeasePayments, CheckCharge, Postpone, storeVars, TableMove
  <1>2. CASE Resolve(c)
    <2> DEFINE k == checker[c].cur.key
    <2>1. k \in Keys
      BY <1>2 DEF Resolve, TypeOK, CheckerTypeOK, StuckPayment
    <2>2. \E res : \/ Transition(k, "succeeded", k, res)
                   \/ Transition(k, "failed", None, res)
                   \/ Transition(k, "expired", None, res)
      BY <1>2 DEF Resolve
    <2> HIDE DEF k
    <2> QED
      BY <2>1, <2>2, Outcomes, TransitionMoves
  <1> QED
    BY <1>1, <1>2 DEF CheckStep

(* The steps of the reconciliation job. *)
LEMMA JobMoves ==
  ASSUME TypeOK, NEW j \in Jobs, JobStep(j)
  PROVE  TableMove
  <1>1. CASE CheckKey(j)
    <2>1. CASE UNCHANGED storeVars
      BY <2>1 DEF storeVars, TableMove
    <2>2. ASSUME NEW k \in job[j].todo, NEW action, fix(j, k, action) PROVE TableMove
      <3>1. k \in Keys
        BY DEF TypeOK, JobTypeOK, JobRecord
      <3>2. \E res : \/ Transition(k, "succeeded", k, res)
                     \/ Transition(k, "failed", None, res)
                     \/ Transition(k, "refunded", None, res)
        BY <2>2 DEF fix
      <3> QED
        BY <3>1, <3>2, Outcomes, TransitionMoves
    <2> QED
      BY <1>1, <2>1, <2>2 DEF CheckKey
  <1>2. CASE FixRefund(j)
    BY <1>2 DEF FixRefund, TableMove
  <1>3. CASE UNCHANGED storeVars
    BY <1>3 DEF storeVars, TableMove
  <1> QED
    BY <1>1, <1>2, <1>3 DEF JobStep, TryClaim, ListCharges, ReadOurs, record, JobFinishes, JobFails

(* Every step of the system. *)
LEMMA EveryStepMoves == TypeOK /\ [Next]_vars => TableMove
  <1> SUFFICES ASSUME TypeOK, [Next]_vars PROVE TableMove
    OBVIOUS
  <1>1. CASE Client
    BY <1>1 DEF Client, TableMove
  <1>2. CASE Clock
    BY <1>2 DEF Clock, Age, ReconcileDue, RefundDue, LeaseRunsOut, KeyRunsOut, NextPeriod,
                storeVars, TableMove
  <1>3. CASE (ProviderRecovers /\ providerFrame) \/ Outage
    BY <1>3 DEF Outage, providerFrame, storeVars, TableMove
  <1>4. CASE Crash
    BY <1>4 DEF Crash, ExecCrash, RefunderCrash, CheckerCrash, JobCrash, storeVars, TableMove
  <1>5. CASE UNCHANGED vars
    BY <1>5 DEF vars, storeVars, TableMove
  <1> QED
    BY <1>1, <1>2, <1>3, <1>4, <1>5, PayMoves, RefundMoves, CheckMoves, JobMoves DEF Next

-----------------------------------------------------------------------------
\* payment_events.

\* The event of a move, with the move, is appended to the payment's history.
LEMMA Appended ==
  ASSUME StoreTypeOK, NEW k \in Keys, NEW from \in PaymentStatus, NEW to \in PaymentStatus,
         addPaymentEvent(k, from, to)
  PROVE  /\ Len(events'[k]) = Len(events[k]) + 1 /\ Len(events[k]) \in Nat
         /\ \A i \in 1..Len(events[k]) : events'[k][i] = events[k][i]
         /\ events'[k][Len(events[k]) + 1] = [from |-> from, to |-> to]
         /\ \A l \in Keys \ {k} : events'[l] = events[l]
  <1>1. events[k] \in Seq(Event) /\ [from |-> from, to |-> to] \in Event
    BY DEF StoreTypeOK, Event
  <1>2. events'[k] = Append(events[k], [from |-> from, to |-> to])
    BY DEF addPaymentEvent, StoreTypeOK
  <1>3. \A l \in Keys \ {k} : events'[l] = events[l]
    BY DEF addPaymentEvent, StoreTypeOK
  <1> QED
    BY <1>1, <1>2, <1>3

\* The history of one payment.
History(k) ==
  /\ \A i \in 1..Len(events[k]) :
       IF i = 1 THEN events[k][i] = [from |-> "absent", to |-> "pending"]
       ELSE /\ events[k][i].from = events[k][i-1].to
            /\ CanTransitionPayment(events[k][i].from, events[k][i].to)
  /\ IF events[k] = << >> THEN payments[k].status = "absent"
     ELSE payments[k].status = events[k][Len(events[k])].to

LEMMA HistoryKept ==
  ASSUME NEW k \in Keys, History(k), events'[k] = events[k], payments'[k].status = payments[k].status
  PROVE  History(k)'
  BY DEF History

(* A payment whose row is absent has no history: no transition leads there. *)
LEMMA AbsentHasNone ==
  ASSUME StoreTypeOK, NEW k \in Keys, History(k)
  PROVE  payments[k].status = "absent" <=> Len(events[k]) = 0
  <1>1. events[k] \in Seq(Event)
    BY DEF StoreTypeOK
  <1>2. Len(events[k]) \in Nat /\ (events[k] = << >> <=> Len(events[k]) = 0)
    BY <1>1
  <1>3. ASSUME Len(events[k]) # 0 PROVE payments[k].status # "absent"
    <2> DEFINE n == Len(events[k])
    <2>1. n \in 1..Len(events[k]) /\ payments[k].status = events[k][n].to
      BY <1>2, <1>3 DEF History
    <2>2. CASE n = 1
      BY <2>1, <2>2 DEF History
    <2>3. CASE n # 1
      <3>1. CanTransitionPayment(events[k][n].from, events[k][n].to)
        BY <2>1, <2>3 DEF History
      <3> QED
        BY <2>1, <3>1 DEF CanTransitionPayment, allowedPaymentTransitions
    <2> QED
      BY <2>2, <2>3
  <1> QED
    BY <1>2, <1>3 DEF History

(* A move from the present status continues the history. *)
LEMMA HistoryGrows ==
  ASSUME StoreTypeOK, NEW k \in Keys, NEW to \in PaymentStatus, History(k),
         addPaymentEvent(k, payments[k].status, to), payments'[k].status = to,
         \/ payments[k].status = "absent" /\ to = "pending"
         \/ CanTransitionPayment(payments[k].status, to)
  PROVE  History(k)'
  <1> DEFINE n == Len(events[k])
             s == payments[k].status
  <1>1. s \in PaymentStatus
    BY DEF StoreTypeOK, Payment
  <1>2. /\ Len(events'[k]) = n + 1 /\ n \in Nat
        /\ \A i \in 1..n : events'[k][i] = events[k][i]
        /\ events'[k][n + 1] = [from |-> s, to |-> to]
    BY <1>1, Appended
  <1>3. s = "absent" <=> n = 0
    BY AbsentHasNone
  <1>4. CanTransitionPayment(s, to) => s # "absent"
    BY DEF CanTransitionPayment, allowedPaymentTransitions
  <1>5. n # 0 => s = events[k][n].to
    <2>1. events[k] # << >> <=> n # 0
      BY DEF StoreTypeOK
    <2> QED
      BY <2>1 DEF History
  <1>6. ASSUME NEW i \in 1..(n + 1)
        PROVE  IF i = 1 THEN events'[k][i] = [from |-> "absent", to |-> "pending"]
               ELSE /\ events'[k][i].from = events'[k][i-1].to
                    /\ CanTransitionPayment(events'[k][i].from, events'[k][i].to)
    <2>1. CASE i = n + 1 /\ n = 0
      BY <1>2, <1>3, <1>4, <2>1
    <2>2. CASE i = n + 1 /\ n # 0
      BY <1>2, <1>3, <1>5, <2>2
    <2>3. CASE i # n + 1
      <3>1. i \in 1..n /\ (i # 1 => i - 1 \in 1..n)
        BY <1>2, <2>3
      <3>2. IF i = 1 THEN events[k][i] = [from |-> "absent", to |-> "pending"]
            ELSE /\ events[k][i].from = events[k][i-1].to
                 /\ CanTransitionPayment(events[k][i].from, events[k][i].to)
        BY <3>1 DEF History
      <3> QED
        BY <1>2, <3>1, <3>2
    <2> QED
      BY <2>1, <2>2, <2>3
  <1>7. events'[k] # << >>
    BY <1>2
  <1>8. payments'[k].status = events'[k][Len(events'[k])].to
    BY <1>2
  <1>9. Len(events'[k]) = n + 1
    BY <1>2
  <1> HIDE DEF n
  <1> QED
    BY <1>6, <1>7, <1>8, <1>9 DEF History

\* A payment's move keeps its order; nobody else's row changes.
LEMMA MovedPayment ==
  ASSUME StoreTypeOK, NEW k \in Keys, NEW to, Moves(k, to)
  PROVE  /\ payments'[k].status = to /\ payments'[k].order = payments[k].order
         /\ \A l \in Keys \ {k} : payments'[l] = payments[l]
         /\ addPaymentEvent(k, payments[k].status, to)
  BY DEF Moves, movePayment, StoreTypeOK, Payment

LEMMA InsertedPayment ==
  ASSUME StoreTypeOK, NEW k \in Keys, NEW o \in Orders, Inserts(k, o)
  PROVE  /\ payments'[k].status = "pending" /\ payments[k].status = "absent"
         /\ \A l \in Keys \ {k} : payments'[l] = payments[l]
         /\ addPaymentEvent(k, "absent", "pending")
         /\ UNCHANGED <<orders, returned>>
  BY DEF Inserts, insertPayment, StoreTypeOK, Payment

LEMMA HistoryStep ==
  ASSUME StoreTypeOK, TableMove, \A k \in Keys : History(k)
  PROVE  \A k \in Keys : History(k)'
  <1>1. CASE UNCHANGED <<orders, returned, payments, events>>
    BY <1>1 DEF History
  <1>2. ASSUME NEW o \in Orders, CreateOrder(o) \/ CancelOrder(o)
        PROVE  \A k \in Keys : History(k)'
    BY <1>2 DEF CreateOrder, CancelOrder, History
  <1>3. ASSUME NEW k \in Keys, NEW o \in Orders, Inserts(k, o) PROVE \A l \in Keys : History(l)'
    <2>1. "absent" \in PaymentStatus /\ "pending" \in PaymentStatus
      BY DEF PaymentStatus
    <2>2. History(k)'
      BY <1>3, <2>1, InsertedPayment, HistoryGrows
    <2>3. \A l \in Keys \ {k} : History(l)'
      BY <1>3, <2>1, InsertedPayment, Appended, HistoryKept
    <2> QED
      BY <2>2, <2>3
  <1>4. ASSUME NEW k \in Keys, NEW to \in PaymentStatus, Moves(k, to) PROVE \A l \in Keys : History(l)'
    <2>1. payments[k].status \in PaymentStatus
      BY DEF StoreTypeOK, Payment
    <2>2. History(k)'
      BY <1>4, MovedPayment, HistoryGrows DEF Moves
    <2>3. \A l \in Keys \ {k} : History(l)'
      BY <1>4, <2>1, MovedPayment, Appended, HistoryKept
    <2> QED
      BY <2>2, <2>3
  <1> QED
    BY <1>1, <1>2, <1>3, <1>4 DEF TableMove

(* payment_events is a chain of allowed moves that ends in the present status,
   whoever moved the payment. *)
THEOREM AuditKept == Spec => []AuditTrail
  <1>1. AuditTrail <=> \A k \in Keys : History(k)
    BY DEF AuditTrail, History
  <1>2. Init => AuditTrail
    BY <1>1 DEF Init, StoreInit, History
  <1>3. TypeOK /\ AuditTrail /\ [Next]_vars => AuditTrail'
    <2> SUFFICES ASSUME TypeOK, AuditTrail, [Next]_vars PROVE AuditTrail'
      OBVIOUS
    <2>1. \A k \in Keys : History(k)'
      BY <1>1, EveryStepMoves, HistoryStep DEF TypeOK
    <2> QED
      BY <2>1 DEF AuditTrail, History
  <1> QED
    BY <1>2, <1>3, TypeCorrect, PTL DEF Spec

-----------------------------------------------------------------------------
(* Stock goes back exactly when an order is cancelled: nothing leads out of
   "cancelled", and CancelOrder does not lead into it twice. *)
THEOREM StockReturned == Spec => []StockReturnedOnce
  <1>1. Init => StockReturnedOnce
    BY DEF Init, StoreInit, StockReturnedOnce
  <1>2. MoneyInv /\ StockReturnedOnce /\ [Next]_vars => StockReturnedOnce'
    <2> SUFFICES ASSUME MoneyInv, StockReturnedOnce, [Next]_vars PROVE StockReturnedOnce'
      OBVIOUS
    <2>1. StoreTypeOK /\ TableMove
      BY EveryStepMoves DEF MoneyInv, TypeOK
    <2>2. orders \in [Orders -> OrderStatus] /\ returned \in [Orders -> Nat]
      BY <2>1 DEF StoreTypeOK
    <2>3. CASE UNCHANGED <<orders, returned>>
      BY <2>3 DEF StockReturnedOnce
    <2>4. ASSUME NEW o \in Orders, CreateOrder(o) PROVE StockReturnedOnce'
      BY <2>2, <2>4 DEF CreateOrder, StockReturnedOnce
    <2>5. ASSUME NEW o \in Orders, CancelOrder(o) PROVE StockReturnedOnce'
      <3>1. orders[o] # "cancelled"
        BY <2>5 DEF CancelOrder, CancelRefused, CanTransition, allowedTransitions
      <3> QED
        BY <2>2, <2>5, <3>1 DEF CancelOrder, StockReturnedOnce
    <2>6. ASSUME NEW k \in Keys, NEW to \in PaymentStatus, Moves(k, to) PROVE StockReturnedOnce'
      <3>1. CASE to = "succeeded"
        <4>1. payments[k].status = "pending"
          BY <2>6, <3>1 DEF Moves, CanTransitionPayment, allowedPaymentTransitions
        <4>2. payments[k].order \in Orders /\ orders[payments[k].order] = "pending"
          BY <4>1 DEF MoneyInv, Rows, PaymentRows
        <4> QED
          BY <2>2, <2>6, <3>1, <4>2 DEF Moves, payOrder, StockReturnedOnce
      <3>2. CASE to # "succeeded"
        BY <2>3, <2>6, <3>2 DEF Moves, payOrder
      <3> QED
        BY <3>1, <3>2
    <2> QED
      BY <2>1, <2>3, <2>4, <2>5, <2>6, InsertedPayment DEF TableMove
  <1> QED
    BY <1>1, <1>2, MoneyCorrect, PTL DEF Spec

-----------------------------------------------------------------------------
\* The ledger of an order.

\* An order's ledger depends on its status and on its kept payments only.
LEMMA LedgerKept ==
  ASSUME NEW o \in Orders, orders'[o] = orders[o],
         \A s \in {"succeeded", "refunded"} : HasPayment(o, s)' <=> HasPayment(o, s)
  PROVE  LedgerOf(o)' = LedgerOf(o)
  <1>1. /\ HasPayment(o, "succeeded")' <=> HasPayment(o, "succeeded")
        /\ HasPayment(o, "refunded")' <=> HasPayment(o, "refunded")
    OBVIOUS
  <1> HIDE DEF HasPayment
  <1> QED
    BY <1>1 DEF LedgerOf

\* Only a cancelled order has a refunded payment, no open one a payment that went through.
LEMMA PaymentsOf ==
  ASSUME MoneyInv, NEW o \in Orders
  PROVE  /\ HasPayment(o, "refunded") => orders[o] = "cancelled"
         /\ HasPayment(o, "succeeded") => orders[o] \in {"paid", "cancelled"}
         /\ orders[o] = "paid" => HasPayment(o, "succeeded")
  BY DEF MoneyInv, Rows, PaymentRows, OrderRows, HasPayment

theLedger == [o \in Orders |-> LedgerOf(o)]

\* One order's entry changes.
LEMMA LedgerMove ==
  ASSUME NEW o \in Orders, NEW to, LedgerOf(o)' = to,
         \A q \in Orders \ {o} : LedgerOf(q)' = LedgerOf(q)
  PROVE  theLedger' = [theLedger EXCEPT ![o] = to]
  BY DEF theLedger

(* Placing an order leaves it open; cancelling closes it or makes it owe. *)
LEMMA ClientOnLedger ==
  ASSUME MoneyInv, MoneyInv', NEW o \in Orders, CreateOrder(o) \/ CancelOrder(o)
  PROVE  \/ theLedger' = theLedger
         \/ Ledger!CloseUnpaid(o)
         \/ Ledger!Owe(o)
  <1>1. payments' = payments /\ StoreTypeOK /\ StoreTypeOK'
    BY DEF CreateOrder, CancelOrder, MoneyInv, TypeOK
  <1>2. \A q \in Orders, s \in {"succeeded", "refunded"} : HasPayment(q, s)' <=> HasPayment(q, s)
    BY <1>1 DEF HasPayment
  <1>3. \A q \in Orders \ {o} : orders'[q] = orders[q]
    BY <1>1 DEF CreateOrder, CancelOrder, StoreTypeOK
  <1>4. \A q \in Orders \ {o} : LedgerOf(q)' = LedgerOf(q)
    BY <1>2, <1>3, LedgerKept
  <1>5. CASE CreateOrder(o)
    <2>1. orders[o] = "absent" /\ orders'[o] = "pending"
      BY <1>1, <1>5 DEF CreateOrder, StoreTypeOK
    <2>2. LedgerOf(o) = "open" /\ LedgerOf(o)' = "open"
      BY <1>1, <2>1 DEF LedgerOf
    <2> QED
      BY <1>4, <2>2 DEF theLedger
  <1>6. CASE CancelOrder(o) /\ orders[o] = "pending"
    <2>1. orders'[o] = "cancelled"
      BY <1>1, <1>6 DEF CancelOrder, StoreTypeOK
    <2>2. ~HasPayment(o, "refunded")' /\ ~HasPayment(o, "succeeded")'
      BY <1>2, <1>6, PaymentsOf
    <2>3. LedgerOf(o) = "open" /\ LedgerOf(o)' = "closed"
      BY <1>6, <2>1, <2>2 DEF LedgerOf
    <2> QED
      BY <1>4, <2>3, LedgerMove DEF theLedger, Ledger!CloseUnpaid, Ledger!Move
  <1>7. CASE CancelOrder(o) /\ orders[o] = "paid"
    <2>1. orders'[o] = "cancelled"
      BY <1>1, <1>7 DEF CancelOrder, StoreTypeOK
    <2>2. ~HasPayment(o, "refunded")' /\ HasPayment(o, "succeeded")'
      BY <1>2, <1>7, PaymentsOf
    <2>3. LedgerOf(o) = "paid" /\ LedgerOf(o)' = "owed"
      BY <1>7, <2>1, <2>2 DEF LedgerOf
    <2> QED
      BY <1>4, <2>3, LedgerMove DEF theLedger, Ledger!Owe, Ledger!Move
  <1>8. CancelOrder(o) => orders[o] \in {"pending", "paid"}
    BY DEF CancelOrder, CancelRefused, CanTransition, allowedTransitions
  <1> QED
    BY <1>5, <1>6, <1>7, <1>8

(* A new payment changes no ledger. *)
LEMMA InsertOnLedger ==
  ASSUME MoneyInv, NEW k \in Keys, NEW o \in Orders, Inserts(k, o)
  PROVE  theLedger' = theLedger
  <1>1. StoreTypeOK
    BY DEF MoneyInv, TypeOK
  <1>2. /\ payments'[k].status = "pending" /\ payments[k].status = "absent"
        /\ \A l \in Keys \ {k} : payments'[l] = payments[l]
        /\ orders' = orders
    BY <1>1, InsertedPayment
  <1>3. \A q \in Orders, s \in {"succeeded", "refunded"} : HasPayment(q, s)' <=> HasPayment(q, s)
    BY <1>2 DEF HasPayment
  <1>4. \A q \in Orders : LedgerOf(q)' = LedgerOf(q)
    BY <1>2, <1>3, LedgerKept
  <1> QED
    BY <1>4 DEF theLedger

(* A payment that succeeds settles its order, one that is refunded gives back
   what its order owes, any other end changes nothing. *)
LEMMA MoveOnLedger ==
  ASSUME MoneyInv, MoneyInv', NEW k \in Keys, NEW to \in PaymentStatus, Moves(k, to)
  PROVE  \/ theLedger' = theLedger
         \/ \E o \in Orders : Ledger!Settle(o) \/ Ledger!GiveBack(o)
  <1>1. StoreTypeOK /\ StoreTypeOK'
    BY DEF MoneyInv, TypeOK
  <1>2. /\ payments'[k].status = to /\ payments'[k].order = payments[k].order
        /\ \A l \in Keys \ {k} : payments'[l] = payments[l]
    BY <1>1, MovedPayment
  <1>3. CanTransitionPayment(payments[k].status, to) /\ payOrder(k, to)
    BY DEF Moves
  <1>4. \/ payments[k].status = "pending" /\ to \in {"succeeded", "failed", "expired"}
        \/ payments[k].status = "succeeded" /\ to = "refunded"
    BY <1>3 DEF CanTransitionPayment, allowedPaymentTransitions
  <1>5. PICK o \in Orders : o = payments[k].order
    BY <1>4 DEF MoneyInv, Rows, PaymentRows
  <1>6. \A q \in Orders \ {o} : /\ orders'[q] = orders[q]
                                /\ \A s \in {"succeeded", "refunded"} : HasPayment(q, s)' <=> HasPayment(q, s)
    <2>1. \A q \in Orders \ {o} : orders'[q] = orders[q]
      BY <1>1, <1>3, <1>5 DEF payOrder, StoreTypeOK
    <2>2. \A q \in Orders \ {o} : \A s : HasPayment(q, s)' <=> HasPayment(q, s)
      BY <1>2, <1>5 DEF HasPayment
    <2> QED
      BY <2>1, <2>2
  <1>7. \A q \in Orders \ {o} : LedgerOf(q)' = LedgerOf(q)
    BY <1>6, LedgerKept
  <1>8. CASE to = "succeeded"
    <2>1. orders[o] = "pending" /\ orders'[o] = "paid"
      BY <1>1, <1>3, <1>4, <1>5, <1>8 DEF payOrder, StoreTypeOK, MoneyInv, Rows, PaymentRows
    <2>2. LedgerOf(o) = "open" /\ LedgerOf(o)' = "paid"
      BY <2>1 DEF LedgerOf
    <2>3. Ledger!Settle(o)
      BY <1>5, <1>7, <2>2, LedgerMove DEF theLedger, Ledger!Settle, Ledger!Move
    <2> QED
      BY <1>5, <2>3
  <1>9. CASE to = "refunded"
    <2>1. orders' = orders /\ payments[k].status = "succeeded"
      BY <1>3, <1>4, <1>9 DEF payOrder
    <2>2. orders'[o] = "cancelled" /\ orders[o] = "cancelled"
      BY <1>2, <1>5, <1>9, <2>1 DEF MoneyInv, Rows, PaymentRows
    <2>3. HasPayment(o, "refunded")' /\ HasPayment(o, "succeeded")
      BY <1>2, <1>5, <1>9, <2>1 DEF HasPayment
    <2>4. ~HasPayment(o, "refunded")
      BY <1>5, <2>1 DEF HasPayment, MoneyInv, Rows, OrderRows, Held
    <2>5. LedgerOf(o) = "owed" /\ LedgerOf(o)' = "returned"
      BY <2>2, <2>3, <2>4 DEF LedgerOf
    <2>6. Ledger!GiveBack(o)
      BY <1>5, <1>7, <2>5, LedgerMove DEF theLedger, Ledger!GiveBack, Ledger!Move
    <2> QED
      BY <1>5, <2>6
  <1>10. CASE to \in {"failed", "expired"}
    <2>1. orders' = orders /\ payments[k].status = "pending"
      BY <1>3, <1>4, <1>10 DEF payOrder
    <2>2. \A s \in {"succeeded", "refunded"} : HasPayment(o, s)' <=> HasPayment(o, s)
      BY <1>2, <1>5, <1>10, <2>1 DEF HasPayment
    <2>3. LedgerOf(o)' = LedgerOf(o)
      BY <1>5, <2>1, <2>2, LedgerKept
    <2> QED
      BY <1>7, <2>3 DEF theLedger
  <1> QED
    BY <1>4, <1>8, <1>9, <1>10

(* The payment side implements the ledger: every step is one of the ledger's
   moves for one order, or leaves all of them as they are. *)
THEOREM LedgerKeptBySpec == Spec => ImplementsLedger
  <1>1. Init => Ledger!LedgerInit
    BY DEF Init, StoreInit, Ledger!LedgerInit, LedgerOf
  <1>2. MoneyInv /\ MoneyInv' /\ [Next]_vars => [Ledger!LedgerNext]_[o \in Orders |-> LedgerOf(o)]
    <2> SUFFICES ASSUME MoneyInv, MoneyInv', [Next]_vars
                 PROVE  Ledger!LedgerNext \/ theLedger' = theLedger
      BY DEF theLedger
    <2>1. TableMove
      BY EveryStepMoves DEF MoneyInv
    <2>2. CASE UNCHANGED <<orders, returned, payments, events>>
      BY <2>2 DEF theLedger, LedgerOf, HasPayment
    <2> QED
      BY <2>1, <2>2, ClientOnLedger, InsertOnLedger, MoveOnLedger DEF TableMove, Ledger!LedgerNext
  <1> QED
    BY <1>1, <1>2, MoneyCorrect, PTL DEF Spec, ImplementsLedger, Ledger!LedgerSpec

-----------------------------------------------------------------------------
\* The answer stored under a key.

\* A request whose context is not over has the lease of its key, alone.
Owns(e) ==
  exec[e].live =>
    /\ exec[e].key \in Keys
    /\ LET r == requests[exec[e].key] IN r.status = "in_progress" /\ r.locked /\ ~r.expired
    /\ \A f \in Executors \ {e} : exec[f].live => exec[f].key # exec[e].key

Owners == \A e \in Executors : Owns(e)

\* Nothing changes but how far a request is, or that its context is over.
LEMMA OwnersGoOn ==
  ASSUME ExecTypeOK, Owners, requests' = requests,
         \A e \in Executors : exec'[e].live => exec[e].live /\ exec'[e].key = exec[e].key
  PROVE  Owners'
  BY DEF Owners, Owns

\* A request that has gone on keeps its key and its context.
LEMMA GoToOwners ==
  ASSUME ExecTypeOK, NEW e \in Executors, NEW pc, NEW result, GoTo(e, pc, result)
  PROVE  \A f \in Executors : exec'[f].live => exec[f].live /\ exec'[f].key = exec[f].key
  BY DEF GoTo, ExecTypeOK, Execution

LEMMA IdleOwners ==
  ASSUME ExecTypeOK, NEW e \in Executors, exec' = [exec EXCEPT ![e] = Idle]
  PROVE  /\ \A f \in Executors : exec'[f].live => exec[f].live /\ exec'[f].key = exec[f].key
         /\ ~exec'[e].live
  BY DEF ExecTypeOK, Execution, Idle

(* A key is claimed only when nobody has its lease. *)
LEMMA ClaimOwners ==
  ASSUME TypeOK, Owners, NEW e \in Executors, NEW k \in Keys, NEW o \in Orders, ClaimKey(e, k, o)
  PROVE  Owners'
  <1>1. Claimable(k, o)
    BY DEF ClaimKey, Claim
  <1>2. \A f \in Executors : exec[f].live => exec[f].key # k
    BY <1>1 DEF Claimable, Owners, Owns
  <1>3. /\ requests'[k].status = "in_progress" /\ requests'[k].locked /\ ~requests'[k].expired
        /\ \A l \in Keys \ {k} : requests'[l] = requests[l]
    BY DEF ClaimKey, Claim, TypeOK, IdempotencyTypeOK
  <1>4. exec' = exec \/ /\ exec'[e].key = k
                        /\ \A f \in Executors \ {e} : exec'[f] = exec[f]
    BY DEF ClaimKey, TypeOK, ExecTypeOK
  <1> QED
    BY <1>2, <1>3, <1>4 DEF Owners, Owns

(* The end of a request: its key gets its answer or is released, and nobody
   else's changes. *)
LEMMA FinishOwners ==
  ASSUME TypeOK, Owners, NEW e \in Executors, Finish(e)
  PROVE  Owners'
  <1>1. /\ \A f \in Executors : exec'[f].live => exec[f].live /\ exec'[f].key = exec[f].key
        /\ ~exec'[e].live
    BY IdleOwners DEF Finish, TypeOK
  <1>2. CASE requests' = requests
    BY <1>1, <1>2, OwnersGoOn DEF TypeOK
  <1>3. CASE exec[e].live /\ requests' # requests
    <2>1. \A l \in Keys \ {exec[e].key} : requests'[l] = requests[l]
      BY <1>3 DEF Finish, Release, Complete, TypeOK, IdempotencyTypeOK
    <2> QED
      BY <1>1, <1>3, <2>1 DEF Owners, Owns
  <1> QED
    BY <1>2, <1>3 DEF Finish

(* Leases and keys run out only when no live request holds them. *)
LEMMA TimeOwners ==
  ASSUME TypeOK, Owners, NEW k \in Keys, LeaseRunsOut(k) \/ KeyRunsOut(k)
  PROVE  Owners'
  <1>1. exec' = exec /\ \A f \in Executors : exec[f].live => exec[f].key # k
    BY DEF LeaseRunsOut, KeyRunsOut, InFlight
  <1>2. \A l \in Keys \ {k} : requests'[l] = requests[l]
    BY DEF LeaseRunsOut, KeyRunsOut, LeaseEnds, KeyEnds, TypeOK, IdempotencyTypeOK
  <1> QED
    BY <1>1, <1>2 DEF Owners, Owns

(* The steps that touch requests at all. *)
RequestStep ==
  \/ UNCHANGED requests
  \/ \E e \in Executors, k \in Keys, o \in Orders : ClaimKey(e, k, o)
  \/ \E e \in Executors : Finish(e)
  \/ \E k \in Keys : LeaseRunsOut(k) \/ KeyRunsOut(k)

LEMMA EveryRequestStep == [Next]_vars => RequestStep
  <1> SUFFICES ASSUME [Next]_vars PROVE RequestStep
    OBVIOUS
  <1>1. CASE Client \/ Outage \/ (ProviderRecovers /\ providerFrame) \/ UNCHANGED vars
    BY <1>1 DEF Client, Outage, storeFrame, providerFrame, vars, RequestStep
  <1>2. CASE Clock
    BY <1>2 DEF Clock, storeFrame, jobFrame, RequestStep
  <1>3. CASE Crash
    BY <1>3 DEF Crash, ExecCrash, refundFrame, checkFrame, jobFrame, RequestStep
  <1>4. ASSUME NEW e \in Executors, Pay(e) PROVE RequestStep
    BY <1>4 DEF Pay, Lookup, Insert, ChargeStep, Record, Deadline, RequestStep
  <1>5. CASE \/ \E w \in Refunders : RefundStep(w)
             \/ \E c \in Checkers : CheckStep(c)
             \/ \E j \in Jobs : JobStep(j)
    BY <1>5 DEF RefundStep, CheckStep, JobStep, refundFrame, checkFrame, jobFrame, RequestStep
  <1> QED
    BY <1>1, <1>2, <1>3, <1>4, <1>5 DEF Next

LEMMA OwnersStep == TypeOK /\ Owners /\ [Next]_vars => Owners'
  <1> SUFFICES ASSUME TypeOK, Owners, [Next]_vars PROVE Owners'
    OBVIOUS
  <1>0. ExecTypeOK
    BY DEF TypeOK
  <1>1. CASE requests' = requests /\ exec' = exec
    BY <1>0, <1>1, OwnersGoOn
  <1>2. CASE Client \/ Outage \/ (ProviderRecovers /\ providerFrame) \/ UNCHANGED vars
    BY <1>1, <1>2 DEF Client, Outage, storeFrame, providerFrame, vars
  <1>3. CASE Clock
    BY <1>1, <1>3, TimeOwners DEF Clock, storeFrame, jobFrame
  <1>4. CASE Crash
    <2>1. ASSUME NEW e \in Executors, ExecCrash(e) PROVE Owners'
      BY <1>0, <2>1, IdleOwners, OwnersGoOn DEF ExecCrash
    <2> QED
      BY <1>1, <1>4, <2>1 DEF Crash, refundFrame, checkFrame, jobFrame
  <1>5. ASSUME NEW e \in Executors, Pay(e) PROVE Owners'
    <2>1. CASE \E k \in Keys, o \in Orders : ClaimKey(e, k, o)
      BY <2>1, ClaimOwners
    <2>2. CASE Finish(e)
      BY <2>2, FinishOwners
    <2>3. CASE Deadline(e)
      <3>1. \A f \in Executors : exec'[f].live => exec[f].live /\ exec'[f].key = exec[f].key
        BY <1>0, <2>3 DEF Deadline, ExecTypeOK, Execution
      <3> QED
        BY <1>0, <2>3, <3>1, OwnersGoOn DEF Deadline
    <2>4. CASE Lookup(e) \/ Insert(e) \/ ChargeStep(e) \/ Record(e)
      <3>1. \E pc, result : GoTo(e, pc, result)
        BY <2>4 DEF Lookup, Insert, ChargeStep, Record
      <3>2. requests' = requests
        BY <2>4 DEF Lookup, Insert, ChargeStep, Record
      <3> QED
        BY <1>0, <3>1, <3>2, GoToOwners, OwnersGoOn
    <2> QED
      BY <1>5, <2>1, <2>2, <2>3, <2>4 DEF Pay
  <1>6. CASE \/ \E w \in Refunders : RefundStep(w)
             \/ \E c \in Checkers : CheckStep(c)
             \/ \E j \in Jobs : JobStep(j)
    BY <1>1, <1>6 DEF RefundStep, CheckStep, JobStep, refundFrame, checkFrame, jobFrame
  <1> QED
    BY <1>2, <1>3, <1>4, <1>5, <1>6 DEF Next

(* A stored answer stays while its key lives: a claim finds no way past it, and
   whoever may still call Complete holds a lease that an answer ends. *)
THEOREM AnswerStaysStored == Spec => AnswerStays
  <1>1. Init => Owners
    BY DEF Init, ExecInit, Idle, Owners, Owns
  <1>2. TypeOK /\ Owners /\ [Next]_vars =>
          [\A k \in Keys : requests[k].status = "completed" /\ ~requests[k].expired =>
             requests'[k].status = "completed" /\ requests'[k].code = requests[k].code]_vars
    <2> SUFFICES ASSUME TypeOK, Owners, [Next]_vars, NEW k \in Keys,
                        requests[k].status = "completed", ~requests[k].expired
                 PROVE  requests'[k].status = "completed" /\ requests'[k].code = requests[k].code
      OBVIOUS
    <2>1. RequestStep /\ requests \in [Keys -> Request]
      BY EveryRequestStep DEF TypeOK, IdempotencyTypeOK
    <2>2. ASSUME NEW e \in Executors, NEW l \in Keys, NEW o \in Orders, ClaimKey(e, l, o)
          PROVE  requests'[k] = requests[k]
      <3>1. l # k
        BY <2>2 DEF ClaimKey, Claim, Claimable
      <3> QED
        BY <2>1, <2>2, <3>1 DEF ClaimKey, Claim
    <2>3. ASSUME NEW e \in Executors, Finish(e) PROVE requests'[k] = requests[k]
      <3>1. CASE requests' = requests
        BY <3>1
      <3>2. CASE exec[e].live /\ requests' # requests
        <4>1. exec[e].key # k
          BY <3>2 DEF Owners, Owns
        <4> QED
          BY <2>1, <2>3, <3>2, <4>1 DEF Finish, Release, Complete
      <3> QED
        BY <2>3, <3>1, <3>2 DEF Finish
    <2>4. ASSUME NEW l \in Keys, LeaseRunsOut(l) \/ KeyRunsOut(l)
          PROVE  requests'[k].status = requests[k].status /\ requests'[k].code = requests[k].code
      <3>1. CASE LeaseEnds(l)
        <4>1. requests' = [requests EXCEPT ![l].locked = FALSE] /\ requests[k] \in Request
          BY <2>1, <3>1 DEF LeaseEnds
        <4> QED
          BY <2>1, <4>1 DEF Request
      <3>2. CASE KeyEnds(l)
        <4>1. /\ requests' = [requests EXCEPT ![l] = [requests[l] EXCEPT !.expired = TRUE, !.locked = FALSE]]
              /\ requests[k] \in Request
          BY <2>1, <3>2 DEF KeyEnds
        <4> QED
          BY <2>1, <4>1 DEF Request
      <3> QED
        BY <2>4, <3>1, <3>2 DEF LeaseRunsOut, KeyRunsOut
    <2> QED
      BY <2>1, <2>2, <2>3, <2>4 DEF RequestStep
  <1> QED
    BY <1>1, <1>2, OwnersStep, TypeCorrect, PTL DEF Spec, AnswerStays

-----------------------------------------------------------------------------
\* What the job makes of its snapshots.

(* Over all inputs Classify matches the definition from where the money is:
   exactly the disagreements are reported, and exactly those with a safe
   repair are repaired. *)
THEOREM ClassifyCorrect ==
  \A ours \in Inputs, theirs \in Theirs, sameAmount \in BOOLEAN : SaysRight(ours, theirs, sameAmount)
  BY DEF Inputs, Ours, Theirs, PaymentStatus, SaysRight, Classify, ClassifyStatus, Finding, Agree,
         OurMoney, TheirMoney, SafeRepairs, CanTransitionPayment, allowedPaymentTransitions

\* A snapshot never shows a refund without its payment.
Snapshots == \A j \in Jobs : \A k \in Keys : job[j].ours[k] \in Inputs

LEMMA SnapshotsStep == MoneyInv /\ Snapshots /\ [Next]_vars => Snapshots'
  <1> SUFFICES ASSUME MoneyInv, Snapshots, [Next]_vars PROVE Snapshots'
    OBVIOUS
  <1>1. job \in [Jobs -> JobRecord] /\ StoreTypeOK
    BY DEF MoneyInv, TypeOK, JobTypeOK
  <1>2. CASE job' = job
    BY <1>2 DEF Snapshots
  <1>3. ASSUME NEW j \in Jobs, \A i \in Jobs \ {j} : job'[i] = job[i],
               \/ job'[j].ours = job[j].ours
               \/ job'[j] = IdleJob
               \/ ReadOurs(j)
        PROVE  Snapshots'
    <2>1. CASE job'[j].ours = job[j].ours
      BY <1>3, <2>1 DEF Snapshots
    <2>2. CASE job'[j] = IdleJob
      BY <1>3, <2>2 DEF Snapshots, IdleJob, Inputs, Ours, PaymentStatus
    <2>3. CASE ReadOurs(j)
      <3>1. \A k \in Keys : /\ payments[k].status \in PaymentStatus
                            /\ refunds[k].status \in {"none", "pending", "succeeded", "manual_review"}
                            /\ payments[k].status = "absent" => refunds[k].status = "none"
        BY <1>1 DEF StoreTypeOK, Payment, Refund, MoneyInv, Rows, RefundRows, Kept
      <3>2. job'[j].ours = [k \in Keys |-> [status |-> payments[k].status, refund |-> refunds[k].status]]
        BY <1>1, <2>3 DEF ReadOurs, JobRecord
      <3> QED
        BY <1>3, <3>1, <3>2 DEF Snapshots, Inputs, Ours
    <2> QED
      BY <1>3, <2>1, <2>2, <2>3
  <1>4. ASSUME NEW j \in Jobs, JobStep(j) \/ JobCrash(j) PROVE Snapshots'
    <2>1. CASE JobFails(j) \/ JobCrash(j) \/ JobFinishes(j)
      BY <1>1, <1>3, <2>1 DEF JobFails, JobCrash, JobFinishes
    <2>2. CASE ReadOurs(j)
      BY <1>1, <1>3, <2>2 DEF ReadOurs
    <2>3. CASE TryClaim(j) \/ ListCharges(j) \/ record(j) \/ FixRefund(j)
      <3>1. job'[j].ours = job[j].ours /\ \A i \in Jobs \ {j} : job'[i] = job[i]
        <4>1. CASE TryClaim(j)
          BY <1>1, <4>1 DEF TryClaim, JobRecord
        <4>2. CASE ListCharges(j)
          BY <1>1, <4>2 DEF ListCharges, JobRecord
        <4>3. CASE record(j)
          BY <1>1, <4>3 DEF record, JobRecord
        <4>4. CASE FixRefund(j)
          <5>1. PICK action : job' = [job EXCEPT ![j] = [job[j] EXCEPT !.pc = "record", !.found.action = action]]
            BY <4>4 DEF FixRefund
          <5> QED
            BY <1>1, <5>1 DEF JobRecord
        <4> QED
          BY <2>3, <4>1, <4>2, <4>3, <4>4
      <3> QED
        BY <1>3, <3>1
    <2>4. CASE CheckKey(j)
      <3>1. PICK k \in Keys : \/ job' = [job EXCEPT ![j].todo = job[j].todo \ {k}]
                             \/ \E pc, action : Found(j, pc, k, action)
        <4>1. PICK k \in job[j].todo :
                 \/ job' = [job EXCEPT ![j].todo = job[j].todo \ {k}]
                 \/ Found(j, "record", k, "manual")
                 \/ fix(j, k, Classify(job[j].ours[k], job[j].theirs[k], TRUE).action)
                 \/ Found(j, "refund", k, "auto_fixed")
          BY <2>4 DEF CheckKey
        <4>2. k \in Keys
          BY <1>1 DEF JobRecord
        <4> QED
          BY <4>1, <4>2 DEF fix
      <3>2. job'[j].ours = job[j].ours /\ \A i \in Jobs \ {j} : job'[i] = job[i]
        <4>1. CASE job' = [job EXCEPT ![j].todo = job[j].todo \ {k}]
          BY <1>1, <4>1 DEF JobRecord
        <4>2. CASE \E pc, action : Found(j, pc, k, action)
          BY <4>2, FoundFacts DEF MoneyInv, TypeOK
        <4> QED
          BY <3>1, <4>1, <4>2
      <3> QED
        BY <1>3, <3>2
    <2> QED
      BY <1>4, <2>1, <2>2, <2>3, <2>4 DEF JobStep
  <1>5. CASE Client \/ Clock \/ Outage \/ (ProviderRecovers /\ providerFrame) \/ UNCHANGED vars
    BY <1>2, <1>5 DEF Client, Clock, Outage, storeFrame, payFrame, providerFrame, vars, NextPeriod
  <1>6. CASE Crash
    BY <1>2, <1>4, <1>6 DEF Crash, payFrame, refundFrame, checkFrame
  <1>7. CASE \/ \E e \in Executors : Pay(e)
             \/ \E w \in Refunders : RefundStep(w)
             \/ \E c \in Checkers : CheckStep(c)
    BY <1>2, <1>7 DEF Pay, RefundStep, CheckStep, payFrame, refundFrame, checkFrame
  <1> QED
    BY <1>4, <1>5, <1>6, <1>7 DEF Next

(* Whatever moved between the job's two reads, its verdict on a key is the one
   the money in the two snapshots calls for. *)
THEOREM JobSaysRight == Spec => []ClassifyAgrees
  <1>1. Init => Snapshots
    BY DEF Init, JobInit, IdleJob, Snapshots, Inputs, Ours, PaymentStatus
  <1>2. TypeOK /\ Snapshots => ClassifyAgrees
    <2> SUFFICES ASSUME TypeOK, Snapshots, NEW j \in Jobs, NEW k \in job[j].todo,
                        NEW sameAmount \in BOOLEAN
                 PROVE  SaysRight(job[j].ours[k], job[j].theirs[k], sameAmount)
      BY DEF ClassifyAgrees
    <2>1. k \in Keys /\ job[j].theirs[k] \in Theirs
      BY DEF TypeOK, JobTypeOK, JobRecord
    <2> QED
      BY <2>1, ClassifyCorrect DEF Snapshots
  <1> QED
    BY <1>1, <1>2, SnapshotsStep, MoneyCorrect, TypeCorrect, PTL DEF Spec

-----------------------------------------------------------------------------
\* What the job says it has repaired.
Settled(k) == payments[k].status \in {"succeeded", "failed", "refunded"}

ReportTrue(i) == i.action = "auto_fixed" => i.kind = "status_mismatch" /\ Settled(i.key)

\* True of what is recorded, and of what a job is about to record.
Reports ==
  /\ \A i \in items : ReportTrue(i)
  /\ \A j \in Jobs : /\ job[j].pc = "record" => ReportTrue(job[j].found)
                     /\ job[j].pc = "refund" => job[j].found.kind = "status_mismatch"

\* Every repair answers a status that differs.
LEMMA RepairsAreOfStatus ==
  ASSUME NEW ours \in Ours, NEW theirs \in Theirs, NEW same \in BOOLEAN,
         Classify(ours, theirs, same).action
           \in {"payment_succeeded", "payment_failed", "refund_succeeded"}
  PROVE  Classify(ours, theirs, same).kind = "status_mismatch"
  BY DEF Classify, ClassifyStatus, Finding

\* A transition that returns no error has moved the payment.
LEMMA OkMoves ==
  ASSUME StoreTypeOK, NEW k \in Keys, NEW to, NEW charge, Transition(k, to, charge, "ok")
  PROVE  payments'[k].status = to
  BY MovePayment DEF Transition, transitionError, Dropped

\* What a job finds is true: a repair it counts is a write that went through.
LEMMA CheckReports ==
  ASSUME MoneyInv, NEW j \in Jobs, CheckKey(j)
  PROVE  /\ job'[j].pc = "record" => ReportTrue(job[j].found)'
         /\ job'[j].pc = "refund" => job'[j].found.kind = "status_mismatch"
  <1>1. JobTypeOK /\ StoreTypeOK
    BY DEF MoneyInv, TypeOK
  <1>2. PICK k \in job[j].todo :
          LET f == Classify(job[j].ours[k], job[j].theirs[k], TRUE)
          IN \/ job' = [job EXCEPT ![j].todo = job[j].todo \ {k}]
             \/ Found(j, "record", k, "manual")
             \/ fix(j, k, f.action)
             \/ f.action = "refund_succeeded" /\ Found(j, "refund", k, "auto_fixed")
    BY DEF CheckKey
  <1>3. k \in Keys /\ job[j].ours[k] \in Ours /\ job[j].theirs[k] \in Theirs
    BY <1>1 DEF JobTypeOK, JobRecord
  <1> DEFINE action == Classify(job[j].ours[k], job[j].theirs[k], TRUE).action
             kind == Classify(job[j].ours[k], job[j].theirs[k], TRUE).kind
  <1>4. ASSUME NEW pc, NEW word, Found(j, pc, k, word)
        PROVE  /\ job'[j].pc = pc /\ job'[j].found.key = k
               /\ job'[j].found.kind = kind /\ job'[j].found.action = word
    <2>1. job'[j].pc = pc
      BY <1>1, <1>3, <1>4, FoundFacts
    <2> DEFINE found == [key |-> k, kind |-> kind, action |-> word]
    <2>2. job' = [job EXCEPT ![j] = [job[j] EXCEPT !.pc = pc, !.todo = job[j].todo \ {k}, !.found = found]]
      BY <1>4 DEF Found
    <2> HIDE DEF kind
    <2>3. found.key = k /\ found.kind = kind /\ found.action = word
      OBVIOUS
    <2> HIDE DEF found
    <2>4. job'[j].found = found
      BY <1>1, <2>2 DEF JobTypeOK, JobRecord
    <2> QED
      BY <2>1, <2>3, <2>4
  <1>5. action \in {"payment_succeeded", "payment_failed", "refund_succeeded"} => kind = "status_mismatch"
    BY <1>3, RepairsAreOfStatus
  <1> HIDE DEF action, kind
  <1>6. CASE job' = [job EXCEPT ![j].todo = job[j].todo \ {k}]
    <2>1. job'[j].pc = "check"
      BY <1>1, <1>6 DEF CheckKey, JobTypeOK, JobRecord
    <2> QED
      BY <2>1
  <1>7. CASE Found(j, "record", k, "manual")
    BY <1>4, <1>7 DEF ReportTrue
  <1>8. CASE action = "refund_succeeded" /\ Found(j, "refund", k, "auto_fixed")
    BY <1>4, <1>5, <1>8
  <1>9. CASE fix(j, k, action)
    <2>1. PICK res, to, charge, pc :
            /\ action \in {"payment_succeeded", "payment_failed", "refund_succeeded"}
            /\ to \in {"succeeded", "failed", "refunded"}
            /\ Transition(k, to, charge, res)
            /\ Found(j, pc, k, IF res = "ok" THEN "auto_fixed" ELSE "manual")
      BY <1>9 DEF fix
    <2>2. kind = "status_mismatch"
      BY <1>5, <2>1
    <2>3. CASE res = "ok"
      <3>1. payments'[k].status = to
        BY <1>1, <1>3, <2>1, <2>3, OkMoves
      <3>2. job'[j].found.key = k /\ job'[j].found.kind = kind
        BY <1>4, <2>1
      <3> QED
        BY <2>1, <2>2, <3>1, <3>2 DEF ReportTrue, Settled
    <2>4. CASE res # "ok"
      <3>1. job'[j].found.kind = kind /\ job'[j].found.action = "manual"
        BY <1>4, <2>1, <2>4
      <3> QED
        BY <2>2, <3>1 DEF ReportTrue
    <2> QED
      BY <2>3, <2>4
  <1> QED
    BY <1>2, <1>6, <1>7, <1>8, <1>9 DEF action

\* Every step keeps the reports true.
LEMMA ReportsStep == MoneyInv /\ Reports /\ [Next]_vars => Reports'
  <1> SUFFICES ASSUME MoneyInv, Reports, [Next]_vars PROVE Reports'
    OBVIOUS
  <1>1. JobTypeOK /\ JobTypeOK' /\ Forward
    BY MoneyStep DEF MoneyInv, TypeOK
  <1>2. \A i \in Items : ReportTrue(i) => ReportTrue(i)'
    <2>1. \A k \in Keys : Settled(k) => Settled(k)'
      BY <1>1 DEF Forward, Settled, Kept
    <2> QED
      BY <2>1 DEF ReportTrue, Items
  <1>3. \A i \in items : ReportTrue(i)'
    BY <1>1, <1>2 DEF Reports, JobTypeOK
  <1>4. ASSUME NEW i \in Jobs, job'[i] = job[i]
        PROVE  /\ job'[i].pc = "record" => ReportTrue(job[i].found)'
               /\ job'[i].pc = "refund" => job'[i].found.kind = "status_mismatch"
    <2>1. job[i].pc = "record" => job[i].found \in Items
      BY <1>1 DEF JobTypeOK
    <2> QED
      BY <1>2, <1>4, <2>1 DEF Reports, ReportTrue, Settled
  <1>5. CASE job' = job /\ items' = items
    BY <1>3, <1>4, <1>5 DEF Reports
  <1>6. ASSUME NEW j \in Jobs, \A i \in Jobs \ {j} : job'[i] = job[i], items' = items,
               job'[j].pc = "record" => ReportTrue(job[j].found)',
               job'[j].pc = "refund" => job'[j].found.kind = "status_mismatch"
        PROVE  Reports'
    BY <1>3, <1>4, <1>6 DEF Reports
  <1>7. ASSUME NEW j \in Jobs, JobStep(j) \/ JobCrash(j) PROVE Reports'
    <2>1. CASE JobFails(j) \/ JobCrash(j) \/ JobFinishes(j)
      <3>1. job' = [job EXCEPT ![j] = IdleJob] /\ items' = items
        BY <2>1 DEF JobFails, JobCrash, JobFinishes, jobShared
      <3>2. (\A i \in Jobs \ {j} : job'[i] = job[i]) /\ job'[j].pc = "idle"
        BY <1>1, <3>1 DEF JobTypeOK, IdleJob
      <3> QED
        BY <1>6, <3>1, <3>2
    <2>2. CASE TryClaim(j) \/ ListCharges(j) \/ ReadOurs(j)
      <3>1. items' = items /\ \A i \in Jobs \ {j} : job'[i] = job[i]
        BY <1>1, <2>2 DEF TryClaim, ListCharges, ReadOurs, jobShared, JobTypeOK
      <3>2. job'[j].pc \in {"idle", "list", "read", "check"}
        <4>1. job[j] \in JobRecord
          BY <1>1 DEF JobTypeOK
        <4>2. CASE job' = job
          BY <2>2, <4>2 DEF TryClaim, ListCharges, ReadOurs
        <4>3. ASSUME NEW todo, job' = [job EXCEPT ![j] = [job[j] EXCEPT !.pc = "list", !.todo = todo]]
              PROVE  job'[j].pc = "list"
          BY <1>1, <4>1, <4>3 DEF JobTypeOK, JobRecord
        <4>4. ASSUME NEW theirs, job' = [job EXCEPT ![j] = [job[j] EXCEPT !.pc = "read", !.theirs = theirs]]
              PROVE  job'[j].pc = "read"
          BY <1>1, <4>1, <4>4 DEF JobTypeOK, JobRecord
        <4>5. ASSUME NEW ours, job' = [job EXCEPT ![j] = [job[j] EXCEPT !.pc = "check", !.ours = ours]]
              PROVE  job'[j].pc = "check"
          BY <1>1, <4>1, <4>5 DEF JobTypeOK, JobRecord
        <4> QED
          BY <2>2, <4>2, <4>3, <4>4, <4>5 DEF TryClaim, ListCharges, ReadOurs
      <3> QED
        BY <1>6, <3>1, <3>2
    <2>3. CASE CheckKey(j)
      <3>1. items' = items
        BY <2>3 DEF CheckKey, jobShared
      <3>2. \A i \in Jobs \ {j} : job'[i] = job[i]
        BY <1>1, <2>3 DEF CheckKey, fix, Found, JobTypeOK
      <3> QED
        BY <1>6, <2>3, <3>1, <3>2, CheckReports
    <2>4. CASE FixRefund(j)
      <3>1. PICK word : job' = [job EXCEPT ![j] = [job[j] EXCEPT !.pc = "record", !.found.action = word]]
        BY <2>4 DEF FixRefund
      <3>2. /\ job[j].pc = "refund" /\ job[j].found \in Items /\ items' = items
            /\ payments[job[j].found.key].status = "refunded" /\ UNCHANGED payments
        BY <1>1, <2>4 DEF FixRefund, JobTypeOK, MoneyInv, Knowledge, JobKnows, jobShared
      <3>3. /\ \A i \in Jobs \ {j} : job'[i] = job[i]
            /\ job'[j].pc = "record" /\ job'[j].found.key = job[j].found.key
            /\ job'[j].found.kind = job[j].found.kind
        BY <1>1, <3>1, <3>2 DEF JobTypeOK, JobRecord, Items
      <3>4. ReportTrue(job[j].found)'
        BY <3>2, <3>3 DEF ReportTrue, Settled, Reports
      <3> QED
        BY <1>6, <3>2, <3>3, <3>4
    <2>5. CASE record(j)
      <3>1. /\ job[j].pc = "record" /\ items' = items \cup {job[j].found}
            /\ job[j].found \in Items /\ ReportTrue(job[j].found)
        BY <1>1, <2>5 DEF record, JobTypeOK, Reports
      <3>2. (\A i \in Jobs \ {j} : job'[i] = job[i]) /\ job'[j].pc = "check"
        BY <1>1, <2>5 DEF record, JobTypeOK, JobRecord
      <3>3. PICK f \in Items : f = job[j].found /\ ReportTrue(f)
        BY <3>1
      <3>4. ReportTrue(f)'
        BY <1>2, <3>3
      <3>5. \A i \in items' : ReportTrue(i)'
        BY <1>3, <3>1, <3>3, <3>4
      <3> QED
        BY <1>4, <3>2, <3>5 DEF Reports
    <2> QED
      BY <1>7, <2>1, <2>2, <2>3, <2>4, <2>5 DEF JobStep
  <1>8. CASE Client \/ Clock \/ Outage \/ (ProviderRecovers /\ providerFrame) \/ UNCHANGED vars
    BY <1>5, <1>8 DEF Client, Clock, Outage, storeFrame, payFrame, providerFrame, vars, NextPeriod, jobShared
  <1>9. CASE Crash
    BY <1>5, <1>7, <1>9 DEF Crash, payFrame, refundFrame, checkFrame, jobShared
  <1>10. CASE \/ \E e \in Executors : Pay(e)
              \/ \E w \in Refunders : RefundStep(w)
              \/ \E c \in Checkers : CheckStep(c)
    BY <1>5, <1>10 DEF Pay, RefundStep, CheckStep, payFrame, refundFrame, checkFrame, jobShared
  <1> QED
    BY <1>7, <1>8, <1>9, <1>10 DEF Next

(* reconciliation_items: whatever a repair met, an item that says auto_fixed is of a
   payment that is settled, for good, as the provider settled it. *)
THEOREM RepairsHold == Spec => []FixedIsSettled
  <1>1. Init => Reports
    BY DEF Init, JobInit, IdleJob, Reports
  <1>2. Reports => FixedIsSettled
    BY DEF Reports, ReportTrue, Settled, FixedIsSettled
  <1> QED
    BY <1>1, <1>2, ReportsStep, MoneyCorrect, PTL DEF Spec

=============================================================================
