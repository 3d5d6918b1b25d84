------------------------- MODULE PaymentTypeProofs -------------------------
(***************************************************************************)
(* PaymentSystem keeps its types, for every number of orders, keys and     *)
(* replicas, any attempt limits and any faults.  One lemma for each table  *)
(* and each process, one step for each action that writes to it.           *)
(***************************************************************************)
EXTENDS PaymentSystem, TLAPS

\* An event of known statuses keeps the log a log.
LEMMA EventTypes ==
  ASSUME events \in [Keys -> Seq(Event)], NEW k \in Keys,
         NEW from \in PaymentStatus, NEW to \in PaymentStatus, addPaymentEvent(k, from, to)
  PROVE  events' \in [Keys -> Seq(Event)]
  <1>1. [from |-> from, to |-> to] \in Event
    BY DEF Event
  <1>2. Append(events[k], [from |-> from, to |-> to]) \in Seq(Event)
    BY <1>1
  <1> QED
    BY <1>2 DEF addPaymentEvent

\* start writes well-formed rows.
LEMMA StartTypes ==
  ASSUME StoreTypeOK, NEW o \in Orders, NEW k \in Keys, NEW res, start(o, k, res)
  PROVE  StoreTypeOK'
  <1>1. CASE UNCHANGED storeVars
    BY <1>1 DEF StoreTypeOK, storeVars
  <1>2. CASE insertPayment(o, k)
    <2>1. events' \in [Keys -> Seq(Event)]
      BY <1>2, EventTypes DEF StoreTypeOK, insertPayment, PaymentStatus
    <2>2. payments' \in [Keys -> Payment]
      BY <1>2 DEF StoreTypeOK, insertPayment, Payment, PaymentStatus
    <2>3. recon' \in [Keys -> Recon]
      BY <1>2, AttemptsAssumption DEF StoreTypeOK, insertPayment, Recon
    <2> QED
      BY <1>2, <2>1, <2>2, <2>3 DEF StoreTypeOK, insertPayment
  <1> QED
    BY <1>1, <1>2 DEF start

\* A payment that moves stays well-formed.
LEMMA MoveTypes ==
  ASSUME StoreTypeOK, NEW k \in Keys, NEW to \in PaymentStatus, NEW charge \in Keys \cup {None},
         movePayment(k, to, charge)
  PROVE  payments' \in [Keys -> Payment] /\ events' \in [Keys -> Seq(Event)]
  <1>1. payments[k].status \in PaymentStatus
    BY DEF StoreTypeOK, Payment
  <1>2. events' \in [Keys -> Seq(Event)]
    BY <1>1, EventTypes DEF StoreTypeOK, movePayment
  <1>3. payments' \in [Keys -> Payment]
    BY DEF StoreTypeOK, movePayment, Payment
  <1> QED
    BY <1>2, <1>3

\* Transition writes well-formed rows.
LEMMA TransitionTypes ==
  ASSUME StoreTypeOK, NEW k \in Keys, NEW to \in PaymentStatus, NEW charge \in Keys \cup {None}, NEW res,
         Transition(k, to, charge, res)
  PROVE  StoreTypeOK'
  <1>1. CASE UNCHANGED storeVars
    BY <1>1 DEF StoreTypeOK, storeVars
  <1>2. CASE movePayment(k, to, charge) /\ payOrder(k, to) /\ UNCHANGED <<returned, recon, refunds>>
    <2>1. orders' \in [Orders -> OrderStatus]
      BY <1>2 DEF StoreTypeOK, payOrder, OrderStatus
    <2> QED
      BY <1>2, <2>1, MoveTypes DEF StoreTypeOK
  <1> QED
    BY <1>1, <1>2 DEF Transition

\* The client's steps and the database clock write well-formed rows.
LEMMA ClientTypes ==
  ASSUME StoreTypeOK, NEW o \in Orders, CreateOrder(o) \/ CancelOrder(o)
  PROVE  StoreTypeOK'
  <1>1. CASE CreateOrder(o)
    BY <1>1 DEF CreateOrder, StoreTypeOK, OrderStatus
  <1>2. CASE CancelOrder(o)
    <2>1. orders' \in [Orders -> OrderStatus] /\ returned' \in [Orders -> Nat]
      BY <1>2 DEF CancelOrder, StoreTypeOK, OrderStatus
    <2>2. refunds' \in [Keys -> Refund]
      <3>1. [status |-> "pending", attempts |-> 0, due |-> TRUE] \in Refund
        BY AttemptsAssumption DEF Refund
      <3> QED
        BY <1>2, <3>1 DEF CancelOrder, insertRefunds, StoreTypeOK
    <2> QED
      BY <1>2, <2>1, <2>2 DEF CancelOrder, StoreTypeOK
  <1> QED
    BY <1>1, <1>2

\* Timers of the tables keep them well-formed.
LEMMA TimeTypes ==
  ASSUME StoreTypeOK, NEW k \in Keys, Age(k) \/ ReconcileDue(k) \/ RefundDue(k)
  PROVE  StoreTypeOK'
  <1>1. CASE Age(k)
    <2>1. recon[k] \in Recon /\ recon[k].age \in 0..1
      BY <1>1 DEF Age, StoreTypeOK, Recon
    <2>2. recon[k].age + 1 \in 0..2
      BY <2>1
    <2>3. recon' \in [Keys -> Recon]
      BY <1>1, <2>2 DEF Age, StoreTypeOK, Recon
    <2> QED
      BY <1>1, <2>3 DEF Age, StoreTypeOK
  <1>2. CASE ReconcileDue(k)
    BY <1>2 DEF ReconcileDue, StoreTypeOK, Recon
  <1>3. CASE RefundDue(k)
    BY <1>3 DEF RefundDue, StoreTypeOK, Refund
  <1> QED
    BY <1>1, <1>2, <1>3

\* The provider's calls write well-formed records.
LEMMA ChargeTypes ==
  ASSUME ProviderTypeOK, NEW k \in Keys, NEW res, Charge(k, res)
  PROVE  ProviderTypeOK'
  BY DEF Charge, ProviderTypeOK, providerVars

\* A refund at the provider keeps its journal well-formed.
LEMMA ProviderRefundTypes ==
  ASSUME ProviderTypeOK, NEW k \in Keys, NEW charge \in Keys \cup {None}, NEW res,
         ProviderRefund(k, charge, res)
  PROVE  ProviderTypeOK'
  BY DEF ProviderRefund, ProviderTypeOK, providerVars

\* A request in flight stays well-formed from step to step.
LEMMA GoToTypes ==
  ASSUME ExecTypeOK, NEW e \in Executors, exec[e].pc # "idle",
         NEW pc \in {"lookup", "insert", "charge", "record", "finish"},
         NEW result \in Codes \cup {"charged", "declined", None},
         pc = "record" => result \in {"charged", "declined"}, pc = "finish" => result \in Codes,
         GoTo(e, pc, result)
  PROVE  ExecTypeOK'
  <1>1. exec[e] \in Execution /\ exec[e].key \in Keys /\ exec[e].order \in Orders
    BY DEF ExecTypeOK
  <1>2. [exec[e] EXCEPT !.pc = pc, !.result = result] \in Execution
    BY <1>1 DEF Execution
  <1>3. exec' = [exec EXCEPT ![e] = [exec[e] EXCEPT !.pc = pc, !.result = result]]
    BY DEF GoTo
  <1>4. exec' \in [Executors -> Execution]
    BY <1>2, <1>3 DEF ExecTypeOK
  <1>5. /\ \A f \in Executors : f # e => exec'[f] = exec[f]
        /\ exec'[e].pc = pc /\ exec'[e].result = result
        /\ exec'[e].key = exec[e].key /\ exec'[e].order = exec[e].order
    BY <1>1, <1>3 DEF ExecTypeOK, Execution
  <1>6. ASSUME NEW f \in Executors
        PROVE  /\ exec'[f].pc # "idle" => exec'[f].key \in Keys /\ exec'[f].order \in Orders
               /\ exec'[f].pc = "record" => exec'[f].result \in {"charged", "declined"}
               /\ exec'[f].pc = "finish" => exec'[f].result \in Codes
    BY <1>1, <1>5 DEF ExecTypeOK
  <1> QED
    BY <1>4, <1>6 DEF ExecTypeOK

\* An executor that is done keeps the types.
LEMMA FreeExecTypes ==
  ASSUME ExecTypeOK, NEW e \in Executors, exec' = [exec EXCEPT ![e] = Idle]
  PROVE  ExecTypeOK'
  BY DEF ExecTypeOK, Execution, Idle

\* What a step may answer.
LEMMA CodeTypes == \A err : CodeOf(err) \in Codes
  BY DEF CodeOf, Codes, StoredCodes

PayTypeOK == StoreTypeOK /\ ProviderTypeOK /\ IdempotencyTypeOK /\ ExecTypeOK

\* Claiming a key keeps the types of a request's part.
LEMMA ClaimKeyTypes ==
  ASSUME PayTypeOK, NEW e \in Executors, NEW k \in Keys, NEW o \in Orders, ClaimKey(e, k, o)
  PROVE  PayTypeOK'
  <1>1. StoreTypeOK' /\ ProviderTypeOK'
    BY DEF PayTypeOK, ClaimKey, StoreTypeOK, ProviderTypeOK, storeVars, providerVars
  <1>2. IdempotencyTypeOK'
    BY DEF PayTypeOK, ClaimKey, Claim, IdempotencyTypeOK, Request, StoredCodes
  <1>3. ExecTypeOK'
    <2> DEFINE seen == IF payments[k].status = "absent" THEN 0 ELSE recon[k].age + 1
               new == [pc |-> "lookup", key |-> k, order |-> o, live |-> TRUE, result |-> None,
                       seen |-> seen]
    <2>1. recon[k].age \in 0..2
      BY DEF PayTypeOK, StoreTypeOK, Recon
    <2>2. seen \in 0..3
      BY <2>1
    <2>3. new \in Execution
      BY <2>2 DEF Execution
    <2>4. new.key = k /\ new.order = o /\ new.pc = "lookup"
      OBVIOUS
    <2>5. CASE UNCHANGED exec
      BY <2>5 DEF PayTypeOK, ExecTypeOK
    <2> HIDE DEF new
    <2>6. CASE exec' = [exec EXCEPT ![e] = new]
      BY <2>3, <2>4, <2>6 DEF PayTypeOK, ExecTypeOK
    <2> QED
      BY <2>5, <2>6 DEF ClaimKey, new
  <1> QED
    BY <1>1, <1>2, <1>3 DEF PayTypeOK

\* The steps of a request that go on to another program point.
LEMMA PayStepTypes ==
  ASSUME PayTypeOK, NEW e \in Executors, Lookup(e) \/ Insert(e) \/ ChargeStep(e) \/ Record(e)
  PROVE  PayTypeOK'
  <1> USE CodeTypes
  <1>1. exec[e].pc # "idle" /\ exec[e].key \in Keys /\ exec[e].order \in Orders
    BY DEF PayTypeOK, ExecTypeOK, Lookup, Insert, ChargeStep, Record
  <1>2. IdempotencyTypeOK'
    BY DEF PayTypeOK, IdempotencyTypeOK, Lookup, Insert, ChargeStep, Record
  <1>3. StoreTypeOK'
    <2>1. CASE UNCHANGED storeVars
      BY <2>1 DEF PayTypeOK, StoreTypeOK, storeVars
    <2>2. CASE Insert(e)
      BY <2>1, <2>2, <1>1, StartTypes DEF PayTypeOK, Insert
    <2>3. CASE Record(e)
      <3>1. PICK res : \/ Transition(exec[e].key, "failed", None, res)
                       \/ Transition(exec[e].key, "succeeded", exec[e].key, res)
        BY <2>3 DEF Record
      <3> QED
        BY <3>1, <1>1, TransitionTypes DEF PayTypeOK, PaymentStatus
    <2> QED
      BY <2>1, <2>2, <2>3 DEF Lookup, ChargeStep
  <1>4. ProviderTypeOK'
    <2>1. CASE UNCHANGED providerVars
      BY <2>1 DEF PayTypeOK, ProviderTypeOK, providerVars
    <2>2. CASE ChargeStep(e)
      BY <2>2, <1>1, ChargeTypes DEF PayTypeOK, ChargeStep
    <2> QED
      BY <2>1, <2>2 DEF Lookup, Insert, Record
  <1>5. PICK pc \in {"lookup", "insert", "charge", "record", "finish"},
             result \in Codes \cup {"charged", "declined", None} :
               /\ pc = "record" => result \in {"charged", "declined"}
               /\ pc = "finish" => result \in Codes
               /\ GoTo(e, pc, result)
    <2>1. CASE Lookup(e)
      BY <2>1 DEF Lookup, Codes, StoredCodes
    <2>2. CASE Insert(e)
      BY <2>2 DEF Insert, Codes, StoredCodes
    <2>3. CASE ChargeStep(e)
      BY <2>3 DEF ChargeStep, Codes, StoredCodes
    <2>4. CASE Record(e)
      BY <2>4 DEF Record, Codes, StoredCodes
    <2> QED
      BY <2>1, <2>2, <2>3, <2>4
  <1>6. ExecTypeOK'
    BY <1>1, <1>5, GoToTypes DEF PayTypeOK
  <1> QED
    BY <1>2, <1>3, <1>4, <1>6 DEF PayTypeOK

\* The steps that end a request, and time passing for it and its key.
LEMMA PayEndTypes ==
  ASSUME PayTypeOK, NEW e \in Executors, Finish(e) \/ Deadline(e) \/ ExecCrash(e)
  PROVE  PayTypeOK'
  <1>1. StoreTypeOK' /\ ProviderTypeOK'
    BY DEF PayTypeOK, Finish, Deadline, ExecCrash, StoreTypeOK, ProviderTypeOK, storeVars, providerVars
  <1>2. ExecTypeOK'
    <2>1. CASE Deadline(e)
      BY <2>1 DEF PayTypeOK, Deadline, ExecTypeOK, Execution
    <2> QED
      BY <2>1, FreeExecTypes DEF PayTypeOK, Finish, ExecCrash
  <1>3. IdempotencyTypeOK'
    <2>1. CASE UNCHANGED requests
      BY <2>1 DEF PayTypeOK, IdempotencyTypeOK
    <2>2. CASE Finish(e) /\ ~ UNCHANGED requests
      <3>1. exec[e].key \in Keys /\ exec[e].result \in Codes
        BY <2>2 DEF PayTypeOK, Finish, ExecTypeOK
      <3>2. CASE Release(exec[e].key)
        BY <3>1, <3>2 DEF PayTypeOK, Release, IdempotencyTypeOK, Request
      <3>3. CASE Complete(exec[e].key, exec[e].result) /\ exec[e].result # "5xx"
        BY <3>1, <3>3 DEF PayTypeOK, Complete, IdempotencyTypeOK, Request, Codes, StoredCodes
      <3> QED
        BY <2>2, <3>2, <3>3 DEF Finish
    <2> QED
      BY <2>1, <2>2 DEF Deadline, ExecCrash
  <1> QED
    BY <1>1, <1>2, <1>3 DEF PayTypeOK

\* The end of a lease or of a key keeps them too.
LEMMA KeyTimeTypes ==
  ASSUME PayTypeOK, NEW k \in Keys, LeaseRunsOut(k) \/ KeyRunsOut(k)
  PROVE  PayTypeOK'
  <1>1. StoreTypeOK' /\ ProviderTypeOK' /\ ExecTypeOK'
    BY DEF PayTypeOK, LeaseRunsOut, KeyRunsOut, StoreTypeOK, ProviderTypeOK, ExecTypeOK,
           storeVars, providerVars
  <1>2. IdempotencyTypeOK'
    <2>1. CASE LeaseEnds(k)
      BY <2>1 DEF PayTypeOK, LeaseEnds, IdempotencyTypeOK, Request
    <2>2. CASE KeyEnds(k)
      BY <2>2 DEF PayTypeOK, KeyEnds, IdempotencyTypeOK, Request
    <2> QED
      BY <2>1, <2>2 DEF LeaseRunsOut, KeyRunsOut
  <1> QED
    BY <1>1, <1>2 DEF PayTypeOK

\* RefundWorker: what it leases, sends and records is well-formed.
RefundTypeOK == StoreTypeOK /\ ProviderTypeOK /\ RefunderTypeOK

\* LeaseRefunds keeps the types of the refund worker's part.
LEMMA LeaseRefundsTypes ==
  ASSUME RefundTypeOK, NEW w \in Refunders, LeaseRefunds(w)
  PROVE  RefundTypeOK'
  <1> USE DEF RefundTypeOK
  <1> DEFINE more(k) == IF refunds[k].attempts < MaxRefund THEN refunds[k].attempts + 1 ELSE MaxRefund
  <1>1. PICK S \in SUBSET Keys :
          /\ refunds' = [k \in Keys |->
               IF k \in S THEN [refunds[k] EXCEPT !.attempts = more(k), !.due = FALSE] ELSE refunds[k]]
          /\ refunder' = [refunder EXCEPT ![w].batch =
               {[key |-> k, attempts |-> more(k), charge |-> payments[k].charge] : k \in S}]
    BY DEF LeaseRefunds
  <1>2. ASSUME NEW k \in Keys PROVE more(k) \in 1..MaxRefund
    <2>1. refunds[k].attempts \in 0..MaxRefund
      BY DEF StoreTypeOK, Refund
    <2> QED
      BY <2>1, AttemptsAssumption
  <1> HIDE DEF more
  <1>3. ASSUME NEW k \in Keys PROVE [refunds[k] EXCEPT !.attempts = more(k), !.due = FALSE] \in Refund
    <2>1. more(k) \in 0..MaxRefund
      BY <1>2, AttemptsAssumption
    <2> QED
      BY <2>1 DEF StoreTypeOK, Refund
  <1>4. refunds' \in [Keys -> Refund]
    BY <1>1, <1>3 DEF StoreTypeOK
  <1>5. {[key |-> k, attempts |-> more(k), charge |-> payments[k].charge] : k \in S} \in SUBSET DueRefund
    BY <1>2 DEF StoreTypeOK, Payment, DueRefund
  <1>6. RefunderTypeOK'
    BY <1>1, <1>5 DEF RefunderTypeOK
  <1> QED
    BY <1>4, <1>6 DEF LeaseRefunds, StoreTypeOK, ProviderTypeOK, providerVars

\* CallRefund keeps them.
LEMMA CallRefundTypes ==
  ASSUME RefundTypeOK, NEW w \in Refunders, CallRefund(w)
  PROVE  RefundTypeOK'
  <1> USE DEF RefundTypeOK
  <1>1. PICK d \in refunder[w].batch, res \in {"ok", "err"} :
          /\ ProviderRefund(d.key, d.charge, res)
          /\ refunder' = [refunder EXCEPT ![w] =
               [batch |-> refunder[w].batch \ {d}, cur |-> d, answer |-> res]]
    BY DEF CallRefund
  <1>2. d \in DueRefund /\ refunder[w].batch \in SUBSET DueRefund
    BY DEF RefunderTypeOK
  <1>3. d.key \in Keys /\ d.charge \in Keys \cup {None}
    BY <1>2 DEF DueRefund
  <1>4. ProviderTypeOK'
    BY <1>1, <1>3, ProviderRefundTypes
  <1>5. RefunderTypeOK'
    BY <1>1, <1>2 DEF RefunderTypeOK
  <1> QED
    BY <1>4, <1>5 DEF CallRefund, StoreTypeOK, storeVars

\* RecordRefund keeps them.
LEMMA RecordRefundTypes ==
  ASSUME RefundTypeOK, NEW w \in Refunders, RecordRefund(w)
  PROVE  RefundTypeOK'
  <1> USE DEF RefundTypeOK
  <1>1. PICK d \in DueRefund : d = refunder[w].cur
    BY DEF RecordRefund, RefunderTypeOK
  <1>2. d.key \in Keys
    BY DEF DueRefund
  <1>3. StoreTypeOK'
    <2>1. CASE UNCHANGED storeVars
      BY <2>1 DEF StoreTypeOK, storeVars
    <2>2. CASE markSucceeded(d)
      <3>1. payments' \in [Keys -> Payment] /\ events' \in [Keys -> Seq(Event)]
        BY <1>2, <2>2, MoveTypes DEF markSucceeded, PaymentStatus
      <3>2. refunds' \in [Keys -> Refund]
        BY <1>2, <2>2 DEF markSucceeded, StoreTypeOK, Refund
      <3> QED
        BY <2>2, <3>1, <3>2 DEF markSucceeded, StoreTypeOK
    <2>3. CASE markFailed(d)
      <3>1. refunds' \in [Keys -> Refund]
        BY <1>2, <2>3 DEF markFailed, StoreTypeOK, Refund
      <3> QED
        BY <2>3, <3>1 DEF markFailed, StoreTypeOK
    <2> QED
      BY <1>1, <2>1, <2>2, <2>3 DEF RecordRefund
  <1>4. RefunderTypeOK'
    BY DEF RecordRefund, RefunderTypeOK
  <1> QED
    BY <1>3, <1>4 DEF RecordRefund, ProviderTypeOK, providerVars

\* A crash of the refund worker keeps them.
LEMMA RefunderCrashTypes ==
  ASSUME RefundTypeOK, NEW w \in Refunders, RefunderCrash(w)
  PROVE  RefundTypeOK'
  BY DEF RefundTypeOK, RefunderCrash, StoreTypeOK, ProviderTypeOK, RefunderTypeOK, FreeRefunder,
         storeVars, providerVars

\* ReconcileWorker: what it leases, learns and records is well-formed.
CheckTypeOK == StoreTypeOK /\ ProviderTypeOK /\ CheckerTypeOK

\* LeasePayments keeps the types of ReconcileWorker's part.
LEMMA LeasePaymentsTypes ==
  ASSUME CheckTypeOK, NEW c \in Checkers, LeasePayments(c)
  PROVE  CheckTypeOK'
  <1> USE DEF CheckTypeOK
  <1> DEFINE more(k) == IF recon[k].attempts < MaxReconcile THEN recon[k].attempts + 1 ELSE MaxReconcile
  <1>1. PICK S \in SUBSET Stuck :
          /\ recon' = [k \in Keys |->
               IF k \in S THEN [recon[k] EXCEPT !.attempts = more(k), !.due = FALSE] ELSE recon[k]]
          /\ checker' = [checker EXCEPT ![c].batch =
               {[key |-> k, attempts |-> more(k), age |-> recon[k].age] : k \in S}]
    BY DEF LeasePayments
  <1>2. ASSUME NEW k \in Keys PROVE more(k) \in 1..MaxReconcile
    <2>1. recon[k].attempts \in 0..MaxReconcile
      BY DEF StoreTypeOK, Recon
    <2> QED
      BY <2>1, AttemptsAssumption
  <1> HIDE DEF more
  <1>3. ASSUME NEW k \in Keys PROVE [recon[k] EXCEPT !.attempts = more(k), !.due = FALSE] \in Recon
    <2>1. more(k) \in 0..MaxReconcile
      BY <1>2, AttemptsAssumption
    <2> QED
      BY <2>1 DEF StoreTypeOK, Recon
  <1>4. recon' \in [Keys -> Recon]
    BY <1>1, <1>3 DEF StoreTypeOK
  <1>5. ASSUME NEW k \in S PROVE k \in Keys /\ recon[k].age \in 1..2
    <2>1. k \in Keys /\ recon[k].age >= 1
      BY <1>5 DEF Stuck
    <2>2. recon[k].age \in 0..2
      BY <2>1 DEF StoreTypeOK, Recon
    <2> QED
      BY <2>1, <2>2
  <1>6. {[key |-> k, attempts |-> more(k), age |-> recon[k].age] : k \in S} \in SUBSET StuckPayment
    BY <1>2, <1>5 DEF StuckPayment
  <1>7. CheckerTypeOK'
    BY <1>1, <1>6 DEF CheckerTypeOK
  <1> QED
    BY <1>4, <1>7 DEF LeasePayments, StoreTypeOK, ProviderTypeOK, providerVars

\* A worker that is done with a payment, or must look again, stays well-formed.
LEMMA DoneTypes ==
  ASSUME CheckerTypeOK, NEW c \in Checkers,
         Done(c) \/ checker' = [checker EXCEPT ![c].status = "error"]
  PROVE  CheckerTypeOK'
  BY DEF CheckerTypeOK, Done

\* CheckCharge keeps the types of ReconcileWorker's part.
LEMMA CheckChargeTypes ==
  ASSUME CheckTypeOK, NEW c \in Checkers, CheckCharge(c)
  PROVE  CheckTypeOK'
  <1> USE DEF CheckTypeOK
  <1>1. PICK p \in checker[c].batch, res \in {"charged", "declined", "not_found", "error"} :
          checker' = [checker EXCEPT ![c] = [batch |-> checker[c].batch \ {p}, cur |-> p, status |-> res]]
    BY DEF CheckCharge
  <1>2. p \in StuckPayment /\ checker[c].batch \in SUBSET StuckPayment
    BY DEF CheckerTypeOK
  <1>3. CheckerTypeOK'
    BY <1>1, <1>2 DEF CheckerTypeOK
  <1> QED
    BY <1>3 DEF CheckCharge, ChargeStatus, StoreTypeOK, ProviderTypeOK, storeVars, providerVars

\* Resolve keeps them.
LEMMA ResolveTypes ==
  ASSUME CheckTypeOK, NEW c \in Checkers, Resolve(c)
  PROVE  CheckTypeOK'
  <1> USE DEF CheckTypeOK
  <1>1. PICK p \in StuckPayment : p = checker[c].cur
    BY DEF Resolve, CheckerTypeOK
  <1>2. PICK res : /\ \/ Transition(p.key, "succeeded", p.key, res)
                      \/ Transition(p.key, "failed", None, res)
                      \/ Transition(p.key, "expired", None, res)
                   /\ Done(c) \/ checker' = [checker EXCEPT ![c].status = "error"]
    BY <1>1 DEF Resolve
  <1>3. p.key \in Keys
    BY DEF StuckPayment
  <1>4. StoreTypeOK'
    BY <1>2, <1>3, TransitionTypes DEF PaymentStatus
  <1>5. CheckerTypeOK'
    BY <1>2, DoneTypes
  <1> QED
    BY <1>4, <1>5 DEF Resolve, ProviderTypeOK, providerVars

\* Postpone keeps them.
LEMMA PostponeTypes ==
  ASSUME CheckTypeOK, NEW c \in Checkers, Postpone(c)
  PROVE  CheckTypeOK'
  <1> USE DEF CheckTypeOK
  <1>1. PICK k \in Keys : k = checker[c].cur.key
    BY DEF Postpone, CheckerTypeOK, StuckPayment
  <1>2. recon' \in [Keys -> Recon]
    <2>1. CASE manual(k)
      BY <2>1 DEF manual, StoreTypeOK, Recon
    <2>2. CASE schedule(k)
      BY <2>2 DEF schedule, StoreTypeOK, Recon
    <2>3. CASE UNCHANGED recon
      BY <2>3 DEF StoreTypeOK
    <2> QED
      BY <1>1, <2>1, <2>2, <2>3 DEF Postpone
  <1>3. CheckerTypeOK'
    BY DoneTypes DEF Postpone
  <1> QED
    BY <1>2, <1>3 DEF Postpone, StoreTypeOK, ProviderTypeOK, providerVars

\* A crash of ReconcileWorker keeps them.
LEMMA CheckerCrashTypes ==
  ASSUME CheckTypeOK, NEW c \in Checkers, CheckerCrash(c)
  PROVE  CheckTypeOK'
  BY DEF CheckTypeOK, CheckerCrash, StoreTypeOK, ProviderTypeOK, CheckerTypeOK, FreeChecker,
         storeVars, providerVars

\* The reconciliation job: its snapshots, the item it works on and its report.
JobsTypeOK == StoreTypeOK /\ ProviderTypeOK /\ JobTypeOK

\* Classify answers with one of its kinds.
LEMMA ClassifyTypes ==
  ASSUME NEW ours \in Ours, NEW theirs \in Theirs, NEW same \in BOOLEAN
  PROVE  Classify(ours, theirs, same).kind \in Kinds
  BY DEF Classify, ClassifyStatus, Finding, Kinds

\* A step that leaves one replica's job well-formed leaves them all so.
LEMMA JobRecordTypes ==
  ASSUME JobTypeOK, NEW j \in Jobs, NEW r \in JobRecord,
         r.pc \in {"refund", "record"} => r.found \in Items,
         job' = [job EXCEPT ![j] = r], periodOpen' \in BOOLEAN, items' \subseteq Items
  PROVE  JobTypeOK'
  BY DEF JobTypeOK

\* A job that stops keeps the types.
LEMMA FreeJobTypes ==
  ASSUME JobTypeOK, NEW j \in Jobs, job' = [job EXCEPT ![j] = IdleJob], UNCHANGED jobShared
  PROVE  JobTypeOK'
  <1>1. IdleJob.theirs \in [Keys -> Theirs] /\ IdleJob.ours \in [Keys -> Ours]
    BY DEF IdleJob, Theirs, Ours, PaymentStatus
  <1>2. IdleJob.pc = "idle" /\ IdleJob \in JobRecord
    BY <1>1 DEF IdleJob, JobRecord
  <1> QED
    BY <1>2, JobRecordTypes DEF JobTypeOK, jobShared

\* What a step of the job does to its own record.
LEMMA FoundTypes ==
  ASSUME JobTypeOK, NEW j \in Jobs, NEW k \in Keys, NEW pc \in {"refund", "record"},
         NEW action \in {"auto_fixed", "manual"}, Found(j, pc, k, action), UNCHANGED jobShared
  PROVE  JobTypeOK'
  <1> DEFINE found == [key |-> k, kind |-> Classify(job[j].ours[k], job[j].theirs[k], TRUE).kind,
                       action |-> action]
             r == [job[j] EXCEPT !.pc = pc, !.todo = job[j].todo \ {k}, !.found = found]
  <1>1. job[j].ours[k] \in Ours /\ job[j].theirs[k] \in Theirs
    BY DEF JobTypeOK, JobRecord
  <1>2. found \in Items
    BY <1>1, ClassifyTypes DEF Items
  <1>3. job' = [job EXCEPT ![j] = r]
    BY DEF Found
  <1> HIDE DEF found
  <1>4. r \in JobRecord /\ r.found \in Items
    BY <1>2 DEF JobTypeOK, JobRecord
  <1> QED
    BY <1>3, <1>4, JobRecordTypes DEF JobTypeOK, jobShared

\* CheckKey keeps the types of the job's part.
LEMMA CheckKeyTypes ==
  ASSUME JobsTypeOK, NEW j \in Jobs, CheckKey(j)
  PROVE  JobsTypeOK'
  <1> USE DEF JobsTypeOK
  <1>1. PICK k \in job[j].todo :
          LET f == Classify(job[j].ours[k], job[j].theirs[k], TRUE)
          IN \/ job' = [job EXCEPT ![j].todo = job[j].todo \ {k}] /\ UNCHANGED storeVars
             \/ Found(j, "record", k, "manual") /\ UNCHANGED storeVars
             \/ fix(j, k, f.action)
             \/ Found(j, "refund", k, "auto_fixed") /\ UNCHANGED storeVars
    BY DEF CheckKey
  <1>2. k \in Keys /\ job[j] \in JobRecord
    BY DEF JobTypeOK, JobRecord
  <1>3. ASSUME UNCHANGED storeVars, JobTypeOK' PROVE JobsTypeOK'
    BY <1>3 DEF CheckKey, StoreTypeOK, ProviderTypeOK, storeVars, providerVars
  <1>4. CASE job' = [job EXCEPT ![j].todo = job[j].todo \ {k}] /\ UNCHANGED storeVars
    <2> DEFINE r == [job[j] EXCEPT !.todo = job[j].todo \ {k}]
    <2>1. r \in JobRecord /\ r.pc = job[j].pc /\ r.found = job[j].found
      BY <1>2 DEF JobRecord
    <2>2. job' = [job EXCEPT ![j] = r]
      BY <1>4
    <2> HIDE DEF r
    <2>3. JobTypeOK'
      BY <2>1, <2>2, JobRecordTypes DEF CheckKey, JobTypeOK, jobShared
    <2> QED
      BY <1>3, <1>4, <2>3
  <1>5. CASE UNCHANGED storeVars /\ (Found(j, "record", k, "manual") \/ Found(j, "refund", k, "auto_fixed"))
    BY <1>2, <1>3, <1>5, FoundTypes DEF CheckKey
  <1>6. CASE fix(j, k, Classify(job[j].ours[k], job[j].theirs[k], TRUE).action)
    <2>1. \E res : \/ Transition(k, "succeeded", k, res)
                   \/ Transition(k, "failed", None, res)
                   \/ Transition(k, "refunded", None, res)
      BY <1>6 DEF fix
    <2>2. \E pc \in {"refund", "record"}, action \in {"auto_fixed", "manual"} : Found(j, pc, k, action)
      BY <1>6 DEF fix
    <2>3. StoreTypeOK'
      BY <1>2, <2>1, TransitionTypes DEF PaymentStatus
    <2>4. JobTypeOK'
      BY <1>2, <2>2, FoundTypes DEF CheckKey
    <2> QED
      BY <2>3, <2>4 DEF CheckKey, ProviderTypeOK, providerVars
  <1> QED
    BY <1>1, <1>4, <1>5, <1>6

\* FixRefund keeps them.
LEMMA FixRefundTypes ==
  ASSUME JobsTypeOK, NEW j \in Jobs, FixRefund(j)
  PROVE  JobsTypeOK'
  <1> USE DEF JobsTypeOK
  <1>1. job[j].found \in Items /\ job[j] \in JobRecord
    BY DEF FixRefund, JobTypeOK
  <1>2. PICK k \in Keys : k = job[j].found.key
    BY <1>1 DEF Items
  <1>3. refunds' \in [Keys -> Refund]
    <2>1. CASE UNCHANGED refunds
      BY <2>1 DEF StoreTypeOK
    <2>2. CASE refunds' = [refunds EXCEPT ![k].status = "succeeded"]
      BY <2>2 DEF StoreTypeOK, Refund
    <2> QED
      BY <1>2, <2>1, <2>2 DEF FixRefund
  <1>4. PICK action \in {"auto_fixed", "manual"} :
          job' = [job EXCEPT ![j] = [job[j] EXCEPT !.pc = "record", !.found.action = action]]
    BY DEF FixRefund
  <1> DEFINE found == [job[j].found EXCEPT !.action = action]
             r == [job[j] EXCEPT !.pc = "record", !.found = found]
  <1>5. found \in Items
    BY <1>1 DEF Items
  <1>6. job' = [job EXCEPT ![j] = r]
    BY <1>4
  <1> HIDE DEF found
  <1>7. r \in JobRecord /\ r.found \in Items
    BY <1>1, <1>5 DEF JobRecord
  <1> HIDE DEF r
  <1>8. JobTypeOK'
    BY <1>6, <1>7, JobRecordTypes DEF FixRefund, JobTypeOK, jobShared
  <1> QED
    BY <1>3, <1>8 DEF FixRefund, StoreTypeOK, ProviderTypeOK, providerVars

\* The job's start, its two reads and its record keep them.
LEMMA JobReadTypes ==
  ASSUME JobsTypeOK, NEW j \in Jobs, TryClaim(j) \/ ListCharges(j) \/ ReadOurs(j) \/ record(j)
  PROVE  JobsTypeOK'
  <1> USE DEF JobsTypeOK
  <1>1. StoreTypeOK' /\ ProviderTypeOK'
    BY DEF TryClaim, ListCharges, ReadOurs, record, StoreTypeOK, ProviderTypeOK, storeVars, providerVars
  <1>2. job[j] \in JobRecord
    BY DEF JobTypeOK
  <1>3. CASE TryClaim(j)
    <2>1. CASE UNCHANGED job
      BY <1>1, <1>3, <2>1 DEF TryClaim, JobTypeOK
    <2>2. CASE job' = [job EXCEPT ![j] = [job[j] EXCEPT !.pc = "list", !.todo = Window]]
      <3> DEFINE r == [job[j] EXCEPT !.pc = "list", !.todo = Window]
      <3>1. r \in JobRecord /\ r.pc = "list"
        BY <1>2 DEF JobRecord, Window
      <3>2. job' = [job EXCEPT ![j] = r]
        BY <2>2
      <3> HIDE DEF r
      <3> QED
        BY <1>1, <1>3, <3>1, <3>2, JobRecordTypes DEF TryClaim, JobTypeOK
    <2> QED
      BY <1>3, <2>1, <2>2 DEF TryClaim
  <1>4. CASE ListCharges(j)
    <2> DEFINE r == [job[j] EXCEPT !.pc = "read", !.theirs = ListedCharges]
    <2>1. ListedCharges \in [Keys -> Theirs]
      BY DEF ProviderTypeOK, ListedCharges, Theirs
    <2>2. r \in JobRecord /\ r.pc = "read"
      BY <1>2, <2>1 DEF JobRecord
    <2>3. job' = [job EXCEPT ![j] = r]
      BY <1>4 DEF ListCharges
    <2> HIDE DEF r
    <2> QED
      BY <1>1, <1>4, <2>2, <2>3, JobRecordTypes DEF ListCharges, JobTypeOK, jobShared
  <1>5. CASE ReadOurs(j)
    <2> DEFINE ours == [k \in Keys |-> [status |-> payments[k].status, refund |-> refunds[k].status]]
               r == [job[j] EXCEPT !.pc = "check", !.ours = ours]
    <2>1. ours \in [Keys -> Ours]
      BY DEF StoreTypeOK, Payment, Refund, Ours
    <2>2. job' = [job EXCEPT ![j] = r]
      BY <1>5 DEF ReadOurs
    <2> HIDE DEF ours
    <2>3. r \in JobRecord /\ r.pc = "check"
      BY <1>2, <2>1 DEF JobRecord
    <2> HIDE DEF r
    <2> QED
      BY <1>1, <1>5, <2>2, <2>3, JobRecordTypes DEF ReadOurs, JobTypeOK, jobShared
  <1>6. CASE record(j)
    <2> DEFINE r == [job[j] EXCEPT !.pc = "check", !.found = NoItem]
    <2>1. r \in JobRecord /\ r.pc = "check"
      BY <1>2 DEF JobRecord
    <2>2. job' = [job EXCEPT ![j] = r]
      BY <1>6 DEF record
    <2> HIDE DEF r
    <2>3. items' \subseteq Items /\ periodOpen' \in BOOLEAN
      BY <1>6 DEF record, JobTypeOK
    <2> QED
      BY <1>1, <2>1, <2>2, <2>3, JobRecordTypes
  <1> QED
    BY <1>3, <1>4, <1>5, <1>6

\* The end of a run, orderly or not, keeps them.
LEMMA JobEndTypes ==
  ASSUME JobsTypeOK, NEW j \in Jobs, JobFails(j) \/ JobCrash(j) \/ JobFinishes(j)
  PROVE  JobsTypeOK'
  <1>1. StoreTypeOK' /\ ProviderTypeOK'
    BY DEF JobsTypeOK, JobFails, JobCrash, JobFinishes, StoreTypeOK, ProviderTypeOK, storeVars, providerVars
  <1>2. JobTypeOK'
    BY FreeJobTypes DEF JobsTypeOK, JobFails, JobCrash, JobFinishes
  <1> QED
    BY <1>1, <1>2 DEF JobsTypeOK

\* The initial state is well-typed.
LEMMA TypeInit == Init => TypeOK
  <1> SUFFICES ASSUME Init PROVE TypeOK
    OBVIOUS
  <1>1. StoreTypeOK
    BY AttemptsAssumption DEF Init, StoreInit, StoreTypeOK, OrderStatus, PaymentStatus, Payment, Recon,
       Refund, Event
  <1>2. ProviderTypeOK /\ IdempotencyTypeOK /\ ExecTypeOK
    <2>1. ProviderTypeOK
      BY DEF Init, ProviderInit, ProviderTypeOK
    <2>2. IdempotencyTypeOK
      BY DEF Init, IdempotencyInit, IdempotencyTypeOK, Request
    <2>3. ExecTypeOK
      BY DEF Init, ExecInit, ExecTypeOK, Execution, Idle
    <2> QED
      BY <2>1, <2>2, <2>3
  <1>3. RefunderTypeOK /\ CheckerTypeOK
    BY DEF Init, RefunderInit, RefunderTypeOK, FreeRefunder, CheckerInit, CheckerTypeOK, FreeChecker
  <1>4. JobTypeOK
    <2>1. IdleJob \in JobRecord /\ IdleJob.pc = "idle"
      <3>1. IdleJob.theirs \in [Keys -> Theirs] /\ IdleJob.ours \in [Keys -> Ours]
        BY DEF IdleJob, Theirs, Ours, PaymentStatus
      <3> QED
        BY <3>1 DEF IdleJob, JobRecord
    <2> QED
      BY <2>1 DEF Init, JobInit, JobTypeOK
  <1> QED
    BY <1>1, <1>2, <1>3, <1>4 DEF TypeOK

(* Every step keeps the types: the step's own component by its lemma, the
   others because its frame leaves them alone. *)
LEMMA TypeStep == TypeOK /\ [Next]_vars => TypeOK'
  <1> SUFFICES ASSUME TypeOK, [Next]_vars PROVE TypeOK'
    OBVIOUS
  <1>a. PayTypeOK /\ RefundTypeOK /\ CheckTypeOK /\ JobsTypeOK
    BY DEF TypeOK, PayTypeOK, RefundTypeOK, CheckTypeOK, JobsTypeOK
  <1>b. ASSUME UNCHANGED <<requests, exec>> PROVE (IdempotencyTypeOK /\ ExecTypeOK)'
    BY <1>b DEF TypeOK, IdempotencyTypeOK, ExecTypeOK
  <1>c. ASSUME UNCHANGED refunder PROVE RefunderTypeOK'
    BY <1>c DEF TypeOK, RefunderTypeOK
  <1>d. ASSUME UNCHANGED checker PROVE CheckerTypeOK'
    BY <1>d DEF TypeOK, CheckerTypeOK
  <1>e. ASSUME UNCHANGED <<job, jobShared>> PROVE JobTypeOK'
    BY <1>e DEF TypeOK, JobTypeOK, jobShared
  <1>f. ASSUME PayTypeOK', payFrame PROVE TypeOK'
    BY <1>c, <1>d, <1>e, <1>f DEF PayTypeOK, payFrame, TypeOK
  <1>g. ASSUME StoreTypeOK', storeFrame PROVE TypeOK'
    <2>1. ProviderTypeOK'
      BY <1>g DEF storeFrame, TypeOK, ProviderTypeOK, providerVars
    <2> QED
      BY <1>b, <1>c, <1>d, <1>e, <1>g, <2>1 DEF storeFrame, TypeOK
  <1>h. ASSUME RefundTypeOK', refundFrame PROVE TypeOK'
    BY <1>b, <1>d, <1>e, <1>h DEF RefundTypeOK, refundFrame, TypeOK
  <1>i. ASSUME CheckTypeOK', checkFrame PROVE TypeOK'
    BY <1>b, <1>c, <1>e, <1>i DEF CheckTypeOK, checkFrame, TypeOK
  <1>j. ASSUME JobsTypeOK', jobFrame PROVE TypeOK'
    BY <1>b, <1>c, <1>d, <1>j DEF JobsTypeOK, jobFrame, TypeOK
  <1>1. CASE Client
    BY <1>1, <1>a, <1>g, ClientTypes DEF Client, PayTypeOK
  <1>2. CASE Clock
    <2>1. CASE NextPeriod /\ jobFrame
      <3>1. JobsTypeOK'
        BY <1>a, <2>1 DEF NextPeriod, JobsTypeOK, StoreTypeOK, ProviderTypeOK, JobTypeOK, storeVars, providerVars
      <3> QED
        BY <1>j, <2>1, <3>1
    <2>2. ASSUME NEW k \in Keys, Age(k) \/ ReconcileDue(k) \/ RefundDue(k), storeFrame PROVE TypeOK'
      BY <1>a, <1>g, <2>2, TimeTypes DEF PayTypeOK
    <2>3. ASSUME NEW k \in Keys, LeaseRunsOut(k) \/ KeyRunsOut(k), payFrame PROVE TypeOK'
      BY <1>a, <1>f, <2>3, KeyTimeTypes
    <2> QED
      BY <1>2, <2>1, <2>2, <2>3 DEF Clock
  <1>3. CASE (ProviderRecovers /\ providerFrame) \/ Outage
    <2>1. StoreTypeOK' /\ ProviderTypeOK'
      BY <1>3, <1>a DEF Outage, ProviderStops, ProviderRecovers, providerFrame, PayTypeOK, ProviderTypeOK,
                        StoreTypeOK, storeVars
    <2> QED
      BY <1>3, <1>b, <1>c, <1>d, <1>e, <2>1 DEF Outage, providerFrame, TypeOK
  <1>4. CASE Crash
    <2>1. ASSUME NEW e \in Executors, ExecCrash(e), payFrame PROVE TypeOK'
      BY <1>a, <1>f, <2>1, PayEndTypes
    <2>2. ASSUME NEW w \in Refunders, RefunderCrash(w), refundFrame PROVE TypeOK'
      BY <1>a, <1>h, <2>2, RefunderCrashTypes
    <2>3. ASSUME NEW c \in Checkers, CheckerCrash(c), checkFrame PROVE TypeOK'
      BY <1>a, <1>i, <2>3, CheckerCrashTypes
    <2>4. ASSUME NEW j \in Jobs, JobCrash(j), jobFrame PROVE TypeOK'
      BY <1>a, <1>j, <2>4, JobEndTypes
    <2> QED
      BY <1>4, <2>1, <2>2, <2>3, <2>4 DEF Crash
  <1>5. ASSUME NEW e \in Executors, Pay(e) PROVE TypeOK'
    <2>1. PayTypeOK' /\ payFrame
      BY <1>5, <1>a, ClaimKeyTypes, PayStepTypes, PayEndTypes DEF Pay
    <2> QED
      BY <1>f, <2>1
  <1>6. ASSUME NEW w \in Refunders, RefundStep(w) PROVE TypeOK'
    <2>1. RefundTypeOK' /\ refundFrame
      BY <1>6, <1>a, LeaseRefundsTypes, CallRefundTypes, RecordRefundTypes DEF RefundStep
    <2> QED
      BY <1>h, <2>1
  <1>7. ASSUME NEW c \in Checkers, CheckStep(c) PROVE TypeOK'
    <2>1. CheckTypeOK' /\ checkFrame
      BY <1>7, <1>a, LeasePaymentsTypes, CheckChargeTypes, ResolveTypes, PostponeTypes DEF CheckStep
    <2> QED
      BY <1>i, <2>1
  <1>8. ASSUME NEW j \in Jobs, JobStep(j) PROVE TypeOK'
    <2>1. JobsTypeOK' /\ jobFrame
      BY <1>8, <1>a, JobReadTypes, CheckKeyTypes, FixRefundTypes, JobEndTypes DEF JobStep
    <2> QED
      BY <1>j, <2>1
  <1>9. CASE UNCHANGED vars
    BY <1>9, <1>b, <1>c, <1>d, <1>e DEF vars, TypeOK, StoreTypeOK, ProviderTypeOK, storeVars, providerVars,
       jobShared
  <1> QED
    BY <1>1, <1>2, <1>3, <1>4, <1>5, <1>6, <1>7, <1>8, <1>9 DEF Next

(* Every reachable state is well-formed, for any sets of orders, keys and
   replicas, any attempt limits and any faults. *)
THEOREM TypeCorrect == Spec => []TypeOK
  BY TypeInit, TypeStep, PTL DEF Spec

=============================================================================
