------------------------- MODULE PaymentMoneyProofs -------------------------
(***************************************************************************)
(* MoneyInv is an invariant of PaymentSystem, and with it the safety       *)
(* properties TLC checks on small instances.                               *)
(*                                                                         *)
(* The tables only move forward (Forward): a payment once written, a       *)
(* charge, a refund row and a refund at the provider never disappear.  So  *)
(* what a process read before stays true while others move, and only the   *)
(* process that takes a step has to be looked at.                          *)
(***************************************************************************)
EXTENDS PaymentInvariant, PaymentTypeProofs

Forward ==
  /\ \A k \in Keys :
       /\ payments[k].status # "absent" => payments'[k].status # "absent"
       /\ Kept(k) => Kept(k)'
       /\ payments[k].status \in {"failed", "expired", "refunded"} => payments'[k].status = payments[k].status
       /\ charges[k] # "none" => charges'[k] = charges[k]
       /\ refunds[k].status # "none" => refunds'[k].status # "none"
       /\ refunds[k].status = "succeeded" => refunds'[k].status = "succeeded"
  /\ providerRefunds \subseteq providerRefunds'

moneyVars == <<orders, payments, charges, providerRefunds, refunds>>

\* A step that leaves tables and journal alone.
LEMMA StutterKeepsRows ==
  ASSUME Rows, UNCHANGED moneyVars
  PROVE  Rows' /\ Forward
  BY DEF Rows, PaymentRows, RefundRows, OrderRows, Kept, Held, Forward, moneyVars

(* A refund row may change while its payment does not: leased, given up, or
   closed once the payment is refunded. *)
LEMMA RefundRowsMove ==
  ASSUME ProviderTypeOK, Rows, UNCHANGED <<orders, payments, charges, providerRefunds>>,
         \A k \in Keys :
           \/ refunds'[k].status = refunds[k].status
           \/ /\ refunds[k].status \in {"pending", "manual_review"}
              /\ \/ refunds'[k].status = "manual_review"
                 \/ refunds'[k].status = "succeeded" /\ payments[k].status = "refunded"
  PROVE  Rows' /\ Forward
  <1>1. PaymentRows' /\ OrderRows'
    BY DEF Rows, PaymentRows, OrderRows, Kept, Held
  <1>2. RefundRows'
    <2>1. ASSUME NEW r \in providerRefunds PROVE r[1] = r[2] /\ refunds'[r[1]].status # "none"
      <3>1. r[1] \in Keys
        BY <2>1 DEF ProviderTypeOK
      <3> QED
        BY <3>1, <2>1 DEF Rows, RefundRows
    <2> QED
      BY <2>1 DEF Rows, RefundRows, Kept
  <1>3. Forward
    BY DEF Forward, Kept
  <1> QED
    BY <1>1, <1>2, <1>3 DEF Rows

\* A new payment: its order is pending and has no other active payment.
LEMMA InsertKeepsRows ==
  ASSUME StoreTypeOK, Rows, NEW o \in Orders, NEW k \in Keys,
         orders[o] = "pending", ActiveOf(o) = {}, payments[k].status = "absent", insertPayment(o, k),
         UNCHANGED <<charges, providerRefunds>>
  PROVE  Rows' /\ Forward /\ payments'[k].status = "pending"
  <1>1. /\ payments'[k].status = "pending" /\ payments'[k].order = o
        /\ \A l \in Keys \ {k} : payments'[l] = payments[l]
        /\ UNCHANGED <<orders, refunds, charges, providerRefunds>>
    BY DEF insertPayment, StoreTypeOK
  <1>2. refunds[k].status = "none"
    BY DEF Rows, RefundRows, Kept
  <1>3. PaymentRows'
    BY <1>1 DEF Rows, PaymentRows, Kept
  <1>4. RefundRows'
    BY <1>1, <1>2 DEF Rows, RefundRows, Kept
  <1>5. OrderRows'
    <2>1. ASSUME NEW l \in Keys, l # k, Held(l), payments[l].order = o PROVE FALSE
      BY <2>1 DEF ActiveOf, Rows, PaymentRows, Held
    <2>2. ASSUME NEW l \in Keys, NEW m \in Keys, Held(l)', Held(m)', payments'[l].order = payments'[m].order
          PROVE  l = m
      BY <1>1, <2>1, <2>2 DEF Rows, OrderRows, Held
    <2>3. ASSUME NEW p \in Orders, orders'[p] = "paid"
          PROVE  \E l \in Keys : payments'[l].order = p /\ payments'[l].status = "succeeded"
      BY <1>1, <2>3 DEF Rows, OrderRows
    <2> QED
      BY <2>2, <2>3 DEF OrderRows
  <1>6. Forward
    BY <1>1 DEF Forward, Kept
  <1> QED
    BY <1>1, <1>3, <1>4, <1>5, <1>6 DEF Rows

\* start inserts a pending payment or changes nothing.
LEMMA StartKeepsRows ==
  ASSUME StoreTypeOK, Rows, NEW o \in Orders, NEW k \in Keys, NEW res, start(o, k, res),
         UNCHANGED <<charges, providerRefunds>>
  PROVE  /\ Rows' /\ Forward
         /\ res = "ok" => payments'[k].status # "absent"
  <1>1. CASE UNCHANGED storeVars
    <2>1. res # "ok" \/ insertPayment(o, k)
      BY DEF start, startError, Dropped
    <2>2. CASE ~insertPayment(o, k)
      BY <1>1, <2>1, <2>2, StutterKeepsRows DEF storeVars, moneyVars
    <2>3. CASE insertPayment(o, k)
      <3>1. payments'[k].status = "pending"
        BY <2>3 DEF insertPayment, StoreTypeOK
      <3> QED
        BY <1>1, <3>1, StutterKeepsRows DEF storeVars, moneyVars
    <2> QED
      BY <2>2, <2>3
  <1>2. CASE ~ UNCHANGED storeVars
    BY <1>2, InsertKeepsRows DEF start
  <1> QED
    BY <1>1, <1>2

(* A payment moves: to succeeded with the provider's charge, to failed after
   its decline, to expired, or to refunded after its refund. *)
LEMMA MovePayment ==
  ASSUME StoreTypeOK, NEW k \in Keys, NEW to, NEW charge, movePayment(k, to, charge)
  PROVE  /\ \A l \in Keys \ {k} : payments'[l] = payments[l]
         /\ payments'[k].status = to /\ payments'[k].order = payments[k].order
         /\ payments'[k].charge = IF charge = None THEN payments[k].charge ELSE charge
  BY DEF movePayment, StoreTypeOK, Payment

\* A pending payment whose charge went through succeeds and pays its order.
LEMMA SucceedKeepsRows ==
  ASSUME StoreTypeOK, Rows, NEW k \in Keys, payments[k].status = "pending", charges[k] = "charged",
         movePayment(k, "succeeded", k), payOrder(k, "succeeded"),
         UNCHANGED <<refunds, charges, providerRefunds>>
  PROVE  Rows' /\ Forward
  <1>1. PICK o \in Orders : o = payments[k].order
    BY DEF Rows, PaymentRows
  <1>2. /\ \A l \in Keys \ {k} : payments'[l] = payments[l]
        /\ payments'[k].status = "succeeded" /\ payments'[k].order = o /\ payments'[k].charge = k
    BY <1>1, MovePayment, StoreAssumption
  <1>3. orders'[o] = "paid" /\ \A p \in Orders \ {o} : orders'[p] = orders[p]
    BY <1>1 DEF payOrder, StoreTypeOK
  <1>4. ASSUME NEW l \in Keys, l # k, Held(l) PROVE payments[l].order # o
    BY <1>1, <1>4 DEF Rows, OrderRows, Held
  <1>5. orders[o] = "pending" /\ refunds[k].status = "none"
    BY <1>1 DEF Rows, PaymentRows, RefundRows, Kept
  <1>6. PaymentRows'
    BY <1>2, <1>3, <1>4 DEF Rows, PaymentRows, Kept, Held
  <1>7. RefundRows'
    BY <1>2, <1>3, <1>4, <1>5 DEF Rows, RefundRows, PaymentRows, Kept, Held
  <1>8. OrderRows'
    <2>1. ASSUME NEW l \in Keys, NEW m \in Keys, Held(l)', Held(m)', payments'[l].order = payments'[m].order
          PROVE  l = m
      BY <1>2, <1>4, <2>1 DEF Rows, OrderRows, Held
    <2>2. ASSUME NEW p \in Orders, orders'[p] = "paid"
          PROVE  \E l \in Keys : payments'[l].order = p /\ payments'[l].status = "succeeded"
      BY <1>2, <1>3, <2>2 DEF Rows, OrderRows
    <2> QED
      BY <2>1, <2>2 DEF OrderRows
  <1>9. Forward
    BY <1>2 DEF Forward, Kept
  <1> QED
    BY <1>6, <1>7, <1>8, <1>9 DEF Rows

\* A pending payment fails after a decline, or expires.
LEMMA CloseKeepsRows ==
  ASSUME StoreTypeOK, Rows, NEW k \in Keys, payments[k].status = "pending", NEW to \in {"failed", "expired"},
         to = "failed" => charges[k] = "declined", movePayment(k, to, None),
         UNCHANGED <<orders, refunds, charges, providerRefunds>>
  PROVE  Rows' /\ Forward
  <1>1. /\ \A l \in Keys \ {k} : payments'[l] = payments[l]
        /\ payments'[k].status = to /\ payments'[k].order = payments[k].order
    BY MovePayment
  <1>2. refunds[k].status = "none"
    BY DEF Rows, RefundRows, Kept
  <1>3. PaymentRows'
    BY <1>1 DEF Rows, PaymentRows, Kept
  <1>4. RefundRows'
    BY <1>1, <1>2 DEF Rows, RefundRows, Kept
  <1>5. OrderRows'
    BY <1>1 DEF Rows, OrderRows, Held
  <1>6. Forward
    BY <1>1 DEF Forward, Kept
  <1> QED
    BY <1>3, <1>4, <1>5, <1>6 DEF Rows

(* Refunded, with the refund row left as it is or closed in the same
   transaction. *)
LEMMA RefundedKeepsRows ==
  ASSUME StoreTypeOK, ProviderTypeOK, Rows, NEW k \in Keys, payments[k].status = "succeeded",
         <<k, k>> \in providerRefunds, movePayment(k, "refunded", None),
         refunds' = refunds \/ (refunds[k].status = "pending" /\ refunds' = [refunds EXCEPT ![k].status = "succeeded"]),
         UNCHANGED <<orders, charges, providerRefunds>>
  PROVE  Rows' /\ Forward /\ payments'[k].status = "refunded"
  <1>1. /\ \A l \in Keys \ {k} : payments'[l] = payments[l]
        /\ payments'[k].status = "refunded" /\ payments'[k].order = payments[k].order
        /\ payments'[k].charge = payments[k].charge
    BY MovePayment
  <1>2. /\ \A l \in Keys \ {k} : refunds'[l] = refunds[l]
        /\ refunds'[k].status \in {refunds[k].status, "succeeded"}
    BY DEF StoreTypeOK, Refund
  <1>3. refunds[k].status # "none"
    <2>1. <<k, k>>[1] = k
      OBVIOUS
    <2> QED
      BY <2>1 DEF Rows, RefundRows
  <1>4. orders[payments[k].order] = "cancelled" /\ payments[k].order \in Orders
    BY <1>3 DEF Rows, RefundRows, PaymentRows
  <1>5. PaymentRows'
    BY <1>1, <1>4 DEF Rows, PaymentRows, Kept
  <1>6. RefundRows'
    <2>1. ASSUME NEW l \in Keys PROVE refunds[l].status # "none" => refunds'[l].status # "none"
      BY <1>2
    <2>2. ASSUME NEW r \in providerRefunds PROVE r[1] = r[2] /\ refunds'[r[1]].status # "none"
      <3>1. r[1] \in Keys
        BY DEF ProviderTypeOK
      <3> QED
        BY <2>1, <3>1 DEF Rows, RefundRows
    <2>3. ASSUME NEW l \in Keys
          PROVE  /\ refunds'[l].status # "none" => Kept(l)' /\ orders'[payments'[l].order] = "cancelled"
                 /\ refunds'[l].status = "succeeded" => payments'[l].status = "refunded"
                 /\ payments'[l].status = "succeeded" /\ orders'[payments'[l].order] = "cancelled"
                      => refunds'[l].status \in {"pending", "manual_review"}
                 /\ payments'[l].status = "refunded" => <<l, l>> \in providerRefunds'
      BY <1>1, <1>2, <1>4 DEF Rows, RefundRows, Kept
    <2> QED
      BY <2>2, <2>3 DEF RefundRows
  <1>7. OrderRows'
    <2>1. ASSUME NEW l \in Keys, NEW m \in Keys, Held(l)', Held(m)', payments'[l].order = payments'[m].order
          PROVE  l = m
      BY <1>1, <2>1 DEF Rows, OrderRows, Held
    <2>2. ASSUME NEW p \in Orders, orders'[p] = "paid"
          PROVE  \E l \in Keys : payments'[l].order = p /\ payments'[l].status = "succeeded"
      BY <1>1, <1>4, <2>2 DEF Rows, OrderRows
    <2> QED
      BY <2>1, <2>2 DEF OrderRows
  <1>8. Forward
    BY <1>1, <1>2 DEF Forward, Kept
  <1> QED
    BY <1>1, <1>5, <1>6, <1>7, <1>8 DEF Rows

\* PaymentRepo.Transition, given what its caller learned from the provider.
LEMMA TransitionKeepsRows ==
  ASSUME StoreTypeOK, ProviderTypeOK, Rows, NEW k \in Keys, NEW to, NEW charge, NEW res,
         \/ to = "succeeded" /\ charge = k /\ charges[k] = "charged"
         \/ to = "failed" /\ charge = None /\ charges[k] = "declined"
         \/ to = "expired" /\ charge = None
         \/ to = "refunded" /\ charge = None /\ <<k, k>> \in providerRefunds,
         Transition(k, to, charge, res), UNCHANGED <<charges, providerRefunds>>
  PROVE  Rows' /\ Forward /\ (res = "ok" => payments'[k].status = to)
  <1>1. CASE UNCHANGED storeVars /\ res # "ok"
    BY <1>1, StutterKeepsRows DEF storeVars, moneyVars
  <1>2. CASE /\ \A err \in {"transition", "order"} : ~transitionError(k, to, err)
             /\ movePayment(k, to, charge) /\ payOrder(k, to) /\ UNCHANGED <<returned, recon, refunds>>
    <2>1. CanTransitionPayment(payments[k].status, to)
      BY <1>2 DEF transitionError
    <2>2. IF to = "refunded" THEN payments[k].status = "succeeded" ELSE payments[k].status = "pending"
      BY <2>1 DEF CanTransitionPayment, allowedPaymentTransitions
    <2>3. payments'[k].status = to
      BY <1>2, MovePayment
    <2>4. CASE to = "succeeded"
      BY <1>2, <2>2, <2>3, <2>4, SucceedKeepsRows
    <2>5. CASE to \in {"failed", "expired"}
      BY <1>2, <2>2, <2>3, <2>5, CloseKeepsRows DEF payOrder
    <2>6. CASE to = "refunded"
      BY <1>2, <2>2, <2>3, <2>6, RefundedKeepsRows DEF payOrder
    <2> QED
      BY <2>4, <2>5, <2>6
  <1> QED
    BY <1>1, <1>2 DEF Transition, transitionError, Dropped

\* A new order has no payment.
LEMMA CreateKeepsRows ==
  ASSUME StoreTypeOK, Rows, NEW o \in Orders, CreateOrder(o), UNCHANGED <<charges, providerRefunds>>
  PROVE  Rows' /\ Forward
  <1>1. /\ orders[o] = "absent" /\ orders'[o] = "pending" /\ \A p \in Orders \ {o} : orders'[p] = orders[p]
        /\ UNCHANGED <<payments, refunds>>
    BY DEF CreateOrder, StoreTypeOK
  <1>2. ASSUME NEW k \in Keys, payments[k].order = o PROVE ~Held(k)
    BY <1>1, <1>2 DEF Rows, PaymentRows, Held
  <1>3. PaymentRows'
    BY <1>1, <1>2 DEF Rows, PaymentRows, Kept, Held
  <1>4. RefundRows'
    BY <1>1, <1>2 DEF Rows, RefundRows, PaymentRows, Kept, Held
  <1>5. OrderRows'
    BY <1>1 DEF Rows, OrderRows, Held
  <1>6. Forward
    BY <1>1 DEF Forward, Kept
  <1> QED
    BY <1>3, <1>4, <1>5, <1>6 DEF Rows

(* A cancellation finds no pending payment, and leaves a refund row for the
   payment that succeeded. *)
LEMMA CancelKeepsRows ==
  ASSUME StoreTypeOK, ProviderTypeOK, Rows, NEW o \in Orders, CancelOrder(o),
         UNCHANGED <<charges, providerRefunds>>
  PROVE  Rows' /\ Forward
  <1>1. /\ orders'[o] = "cancelled" /\ \A p \in Orders \ {o} : orders'[p] = orders[p]
        /\ UNCHANGED payments
    BY DEF CancelOrder, StoreTypeOK
  <1>2. orders[o] \in {"pending", "paid"}
    BY DEF CancelOrder, CancelRefused, CanTransition, allowedTransitions
  <1>3. ASSUME NEW k \in Keys, payments[k].order = o PROVE payments[k].status # "pending"
    BY <1>2, <1>3 DEF CancelOrder, CancelRefused, HasPending, Rows, PaymentRows
  <1>4. ASSUME NEW k \in Keys, payments[k].status = "succeeded", payments[k].order = o
        PROVE  orders[o] = "paid" /\ refunds[k].status = "none"
    BY <1>2, <1>4 DEF Rows, PaymentRows, RefundRows
  <1>5. ASSUME NEW k \in Keys
        PROVE  refunds'[k].status = IF payments[k].status = "succeeded" /\ payments[k].order = o
                                      THEN "pending" ELSE refunds[k].status
    <2>1. CASE orders[o] = "paid"
      BY <2>1, <1>4 DEF CancelOrder, insertRefunds
    <2>2. CASE orders[o] # "paid"
      BY <2>2, <1>4 DEF CancelOrder
    <2> QED
      BY <2>1, <2>2
  <1>6. PaymentRows'
    BY <1>1, <1>3 DEF Rows, PaymentRows, Kept
  <1>7. RefundRows'
    <2>1. ASSUME NEW r \in providerRefunds PROVE r[1] = r[2] /\ refunds'[r[1]].status # "none"
      <3>1. r[1] \in Keys
        BY DEF ProviderTypeOK
      <3> QED
        BY <1>5, <3>1 DEF Rows, RefundRows
    <2>2. ASSUME NEW k \in Keys
          PROVE  /\ refunds'[k].status # "none" => Kept(k)' /\ orders'[payments'[k].order] = "cancelled"
                 /\ refunds'[k].status = "succeeded" => payments'[k].status = "refunded"
                 /\ payments'[k].status = "succeeded" /\ orders'[payments'[k].order] = "cancelled"
                      => refunds'[k].status \in {"pending", "manual_review"}
                 /\ payments'[k].status = "refunded" => <<k, k>> \in providerRefunds'
      BY <1>1, <1>5 DEF Rows, RefundRows, PaymentRows, Kept
    <2> QED
      BY <2>1, <2>2 DEF RefundRows
  <1>8. OrderRows'
    BY <1>1 DEF Rows, OrderRows, Held
  <1>9. Forward
    BY <1>1, <1>4, <1>5 DEF Forward, Kept
  <1> QED
    BY <1>6, <1>7, <1>8, <1>9 DEF Rows

-----------------------------------------------------------------------------
\* The provider's journal: a charge for a payment we have, a refund for a row we have.
LEMMA ChargeKeepsRows ==
  ASSUME ProviderTypeOK, Rows, NEW k \in Keys, payments[k].status # "absent", NEW res, Charge(k, res),
         UNCHANGED storeVars
  PROVE  Rows' /\ Forward /\ (res \in {"charged", "declined"} => charges'[k] = res)
  <1>1. CASE UNCHANGED providerVars
    BY <1>1, StutterKeepsRows DEF Charge, providerVars, storeVars, moneyVars, ProviderTypeOK
  <1>2. CASE charges[k] = "none" /\ \E s \in {"charged", "declined"} :
               /\ charges' = [charges EXCEPT ![k] = s] /\ res \in {s, "unknown"}
               /\ UNCHANGED providerRefunds
    <2>1. /\ \A l \in Keys \ {k} : charges'[l] = charges[l]
          /\ UNCHANGED <<payments, orders, refunds, providerRefunds>>
      BY <1>2 DEF ProviderTypeOK, storeVars
    <2>2. ~Kept(k) /\ payments[k].status # "failed"
      BY <1>2 DEF Rows, PaymentRows
    <2>3. PaymentRows'
      BY <2>1, <2>2 DEF Rows, PaymentRows, Kept
    <2>4. RefundRows' /\ OrderRows'
      BY <2>1 DEF Rows, RefundRows, OrderRows, Kept, Held
    <2>5. Forward
      BY <1>2, <2>1 DEF Forward, Kept
    <2>6. res \in {"charged", "declined"} => charges'[k] = res
      BY <1>2 DEF ProviderTypeOK
    <2> QED
      BY <2>3, <2>4, <2>5, <2>6 DEF Rows
  <1> QED
    BY <1>1, <1>2 DEF Charge

\* The provider refunds a payment that has a refund row.
LEMMA ProviderRefundKeepsRows ==
  ASSUME ProviderTypeOK, Rows, NEW k \in Keys, refunds[k].status # "none", NEW res,
         ProviderRefund(k, k, res), UNCHANGED storeVars
  PROVE  Rows' /\ Forward /\ (res = "ok" => <<k, k>> \in providerRefunds')
  <1>1. CASE UNCHANGED providerVars /\ res # "ok"
    BY <1>1, StutterKeepsRows DEF providerVars, storeVars, moneyVars
  <1>2. CASE /\ providerRefunds' = IF \E r \in providerRefunds : r[1] = k
                                     THEN providerRefunds ELSE providerRefunds \cup {<<k, k>>}
             /\ UNCHANGED charges
    <2>1. providerRefunds' = providerRefunds \cup {<<k, k>>}
      <3>1. ASSUME NEW r \in providerRefunds, r[1] = k PROVE r = <<k, k>>
        BY <3>1 DEF ProviderTypeOK, Rows, RefundRows
      <3> QED
        BY <1>2, <3>1
    <2>2. PaymentRows' /\ OrderRows'
      BY <1>2 DEF Rows, PaymentRows, OrderRows, Kept, Held, storeVars
    <2>3. RefundRows'
      BY <2>1 DEF Rows, RefundRows, Kept, storeVars
    <2>4. Forward
      BY <1>2, <2>1 DEF Forward, Kept, storeVars
    <2> QED
      BY <2>1, <2>2, <2>3, <2>4 DEF Rows
  <1> QED
    BY <1>1, <1>2 DEF ProviderRefund

-----------------------------------------------------------------------------
\* What a process knows stays true while the tables move forward.
LEMMA ExecKeepsKnowing ==
  ASSUME ExecTypeOK, Forward, NEW e \in Executors, ExecKnows(e), exec'[e] = exec[e]
  PROVE  ExecKnows(e)'
  <1>1. CASE exec[e].pc \in {"charge", "record", "finish"}
    <2>1. exec[e].key \in Keys
      BY <1>1 DEF ExecTypeOK
    <2>2. exec[e].pc = "record" => exec[e].result # "none"
      BY DEF ExecTypeOK
    <2> QED
      BY <2>1, <2>2 DEF Forward, ExecKnows, Kept
  <1>2. CASE exec[e].pc \notin {"charge", "record", "finish"}
    BY <1>2 DEF ExecKnows
  <1> QED
    BY <1>1, <1>2

\* The same for a stored answer.
LEMMA RequestKeepsKnowing ==
  ASSUME Forward, NEW k \in Keys, RequestKnows(k), requests'[k] = requests[k]
  PROVE  RequestKnows(k)'
  BY DEF Forward, RequestKnows, Kept

\* The same for what a refund worker leased and was told.
LEMMA RefunderKeepsKnowing ==
  ASSUME RefunderTypeOK, Forward, NEW w \in Refunders, RefunderKnows(w), refunder'[w] = refunder[w]
  PROVE  RefunderKnows(w)'
  <1>1. ASSUME NEW b \in refunder[w].batch PROVE b.charge = b.key /\ refunds'[b.key].status # "none"
    <2>1. b.key \in Keys
      BY DEF RefunderTypeOK, DueRefund
    <2> QED
      BY <2>1 DEF Forward, RefunderKnows
  <1>2. CASE refunder[w].cur # NoRefund
    <2>1. refunder[w].cur.key \in Keys
      BY <1>2 DEF RefunderTypeOK, DueRefund
    <2> QED
      BY <1>1, <2>1 DEF Forward, RefunderKnows
  <1> QED
    BY <1>1, <1>2 DEF RefunderKnows

\* The same for what ReconcileWorker was told.
LEMMA CheckerKeepsKnowing ==
  ASSUME CheckerTypeOK, Forward, NEW c \in Checkers, CheckerKnows(c), checker'[c] = checker[c]
  PROVE  CheckerKnows(c)'
  <1>1. CASE checker[c].cur # NoPayment
    <2>1. checker[c].cur.key \in Keys
      BY <1>1 DEF CheckerTypeOK, StuckPayment
    <2> QED
      BY <2>1 DEF Forward, CheckerKnows
  <1> QED
    BY <1>1 DEF CheckerKnows

\* The same for the job's snapshots.
LEMMA JobKeepsKnowing ==
  ASSUME JobTypeOK, Forward, NEW j \in Jobs, JobKnows(j), job'[j] = job[j]
  PROVE  JobKnows(j)'
  <1>1. job[j].pc = "refund" => job[j].found.key \in Keys
    BY DEF JobTypeOK, Items
  <1> QED
    BY <1>1 DEF Forward, JobKnows

\* What is left to show when one process takes a step.
LEMMA StepOfPay ==
  ASSUME TypeOK, Forward, Knowledge, payFrame, NEW e \in Executors,
         \A f \in Executors \ {e} : exec'[f] = exec[f], ExecKnows(e)', \A k \in Keys : RequestKnows(k)'
  PROVE  Knowledge'
  BY ExecKeepsKnowing, RefunderKeepsKnowing, CheckerKeepsKnowing, JobKeepsKnowing
     DEF Knowledge, payFrame, TypeOK

\* The same for a refund worker.
LEMMA StepOfRefunder ==
  ASSUME TypeOK, Forward, Knowledge, refundFrame, NEW w \in Refunders,
         \A v \in Refunders \ {w} : refunder'[v] = refunder[v], RefunderKnows(w)'
  PROVE  Knowledge'
  BY ExecKeepsKnowing, RequestKeepsKnowing, RefunderKeepsKnowing, CheckerKeepsKnowing, JobKeepsKnowing
     DEF Knowledge, refundFrame, TypeOK

\* The same for a ReconcileWorker.
LEMMA StepOfChecker ==
  ASSUME TypeOK, Forward, Knowledge, checkFrame, NEW c \in Checkers,
         \A d \in Checkers \ {c} : checker'[d] = checker[d], CheckerKnows(c)'
  PROVE  Knowledge'
  BY ExecKeepsKnowing, RequestKeepsKnowing, RefunderKeepsKnowing, CheckerKeepsKnowing, JobKeepsKnowing
     DEF Knowledge, checkFrame, TypeOK

\* The same for a job.
LEMMA StepOfJob ==
  ASSUME TypeOK, Forward, Knowledge, jobFrame, NEW j \in Jobs,
         \A i \in Jobs \ {j} : job'[i] = job[i], JobKnows(j)'
  PROVE  Knowledge'
  BY ExecKeepsKnowing, RequestKeepsKnowing, RefunderKeepsKnowing, CheckerKeepsKnowing, JobKeepsKnowing
     DEF Knowledge, jobFrame, TypeOK

\* A step of the clients, the clock or the provider.
LEMMA StepOfNobody ==
  ASSUME TypeOK, Forward, Knowledge, UNCHANGED <<requests, exec, refunder, checker, job>>
  PROVE  Knowledge'
  BY ExecKeepsKnowing, RequestKeepsKnowing, RefunderKeepsKnowing, CheckerKeepsKnowing, JobKeepsKnowing
     DEF Knowledge, TypeOK

-----------------------------------------------------------------------------
\* The steps of a request.
LEMMA GoToFacts ==
  ASSUME ExecTypeOK, NEW e \in Executors, NEW pc, NEW result, GoTo(e, pc, result)
  PROVE  /\ \A f \in Executors \ {e} : exec'[f] = exec[f]
         /\ exec'[e].pc = pc /\ exec'[e].result = result /\ exec'[e].key = exec[e].key
  BY DEF ExecTypeOK, Execution, GoTo

\* ClaimKey: a request begins and knows nothing yet.
LEMMA ClaimKeyMoney ==
  ASSUME MoneyInv, NEW e \in Executors, NEW k \in Keys, NEW o \in Orders, ClaimKey(e, k, o), payFrame
  PROVE  Rows' /\ Knowledge' /\ Forward
  <1> USE DEF MoneyInv
  <1>1. Rows' /\ Forward
    BY StutterKeepsRows DEF ClaimKey, storeVars, providerVars, moneyVars
  <1>2. ASSUME NEW l \in Keys PROVE RequestKnows(l)'
    <2>1. CASE l = k
      BY <2>1 DEF ClaimKey, Claim, TypeOK, IdempotencyTypeOK, RequestKnows
    <2>2. CASE l # k
      <3>1. requests'[l] = requests[l]
        BY <2>2 DEF ClaimKey, Claim, TypeOK, IdempotencyTypeOK
      <3> QED
        BY <1>1, <3>1, RequestKeepsKnowing DEF Knowledge
    <2> QED
      BY <2>1, <2>2
  <1>3. ExecKnows(e)' /\ \A f \in Executors \ {e} : exec'[f] = exec[f]
    <2>1. CASE UNCHANGED exec
      BY <1>1, <2>1, ExecKeepsKnowing DEF Knowledge, TypeOK
    <2>2. CASE exec'[e].pc = "lookup" /\ \A f \in Executors \ {e} : exec'[f] = exec[f]
      BY <2>2 DEF ExecKnows
    <2> QED
      BY <2>1, <2>2 DEF ClaimKey, TypeOK, ExecTypeOK
  <1> QED
    BY <1>1, <1>2, <1>3, StepOfPay

\* Lookup: an answer taken from the payment's row is true.
LEMMA LookupMoney ==
  ASSUME MoneyInv, NEW e \in Executors, Lookup(e), payFrame
  PROVE  Rows' /\ Knowledge' /\ Forward
  <1> USE DEF MoneyInv
  <1>1. Rows' /\ Forward
    BY StutterKeepsRows DEF Lookup, storeVars, providerVars, moneyVars
  <1>2. PICK k \in Keys : k = exec[e].key
    BY DEF Lookup, TypeOK, ExecTypeOK
  <1>3. UNCHANGED <<payments, charges, requests>>
    BY DEF Lookup, storeVars, providerVars
  <1>4. PICK pc, result : /\ GoTo(e, pc, result)
                          /\ pc = "charge" => payments[k].status = "pending"
                          /\ pc # "record"
                          /\ pc = "finish" /\ result = "200" => payments[k].status = "succeeded"
                          /\ pc = "finish" /\ result = "402" => payments[k].status = "failed"
    BY <1>2 DEF Lookup
  <1>5. \A f \in Executors \ {e} : exec'[f] = exec[f]
    BY <1>4, GoToFacts DEF TypeOK
  <1>6. ExecKnows(e)'
    BY <1>2, <1>3, <1>4, GoToFacts DEF ExecKnows, TypeOK, Rows, PaymentRows, Kept
  <1>7. ASSUME NEW l \in Keys PROVE RequestKnows(l)'
    BY <1>1, <1>3, RequestKeepsKnowing DEF Knowledge
  <1> QED
    BY <1>1, <1>5, <1>6, <1>7, StepOfPay

\* Insert: the payment exists before its charge.
LEMMA InsertMoney ==
  ASSUME MoneyInv, NEW e \in Executors, Insert(e), payFrame
  PROVE  Rows' /\ Knowledge' /\ Forward
  <1> USE DEF MoneyInv
  <1>1. PICK k \in Keys, o \in Orders : k = exec[e].key /\ o = exec[e].order
    BY DEF Insert, TypeOK, ExecTypeOK
  <1>2. UNCHANGED <<charges, providerRefunds, requests>>
    BY DEF Insert, providerVars
  <1>3. PICK pc, result : /\ GoTo(e, pc, result) /\ pc # "record" /\ (pc = "finish" => result \notin {"200", "402"})
                          /\ Rows' /\ Forward /\ (pc = "charge" => payments'[k].status # "absent")
    <2>1. CASE UNCHANGED storeVars /\ GoTo(e, "finish", "5xx")
      BY <1>2, <2>1, StutterKeepsRows DEF storeVars, moneyVars
    <2>2. ASSUME NEW res, start(o, k, res),
                 CASE res = "ok" -> GoTo(e, "charge", None)
                   [] res = "key" -> GoTo(e, "lookup", None)
                   [] OTHER -> GoTo(e, "finish", CodeOf(res))
          PROVE  \E pc, result : /\ GoTo(e, pc, result) /\ pc # "record" /\ (pc = "finish" => result \notin {"200", "402"})
                                 /\ Rows' /\ Forward /\ (pc = "charge" => payments'[k].status # "absent")
      <3>1. Rows' /\ Forward /\ (res = "ok" => payments'[k].status # "absent")
        BY <1>2, <2>2, StartKeepsRows DEF TypeOK
      <3>2. CodeOf(res) \notin {"200", "402"}
        BY DEF CodeOf
      <3> QED
        BY <2>2, <3>1, <3>2
    <2> QED
      BY <1>1, <2>1, <2>2 DEF Insert
  <1>4. \A f \in Executors \ {e} : exec'[f] = exec[f]
    BY <1>3, GoToFacts DEF TypeOK
  <1>5. ExecKnows(e)'
    BY <1>1, <1>3, GoToFacts DEF ExecKnows, TypeOK
  <1>6. ASSUME NEW l \in Keys PROVE RequestKnows(l)'
    BY <1>2, <1>3, RequestKeepsKnowing DEF Knowledge
  <1> QED
    BY <1>3, <1>4, <1>5, <1>6, StepOfPay

\* ChargeStep: the executor learns what the provider did.
LEMMA ChargeStepMoney ==
  ASSUME MoneyInv, NEW e \in Executors, ChargeStep(e), payFrame
  PROVE  Rows' /\ Knowledge' /\ Forward
  <1> USE DEF MoneyInv
  <1>1. PICK k \in Keys : k = exec[e].key
    BY DEF ChargeStep, TypeOK, ExecTypeOK
  <1>2. UNCHANGED <<storeVars, requests>>
    BY DEF ChargeStep
  <1>3. PICK res : /\ Charge(k, res)
                   /\ IF res = "unknown" THEN GoTo(e, "finish", "5xx") ELSE GoTo(e, "record", res)
                   /\ res \in {"charged", "declined", "unknown"}
    BY <1>1 DEF ChargeStep
  <1>4. payments[k].status # "absent"
    BY <1>1 DEF ChargeStep, Knowledge, ExecKnows
  <1>5. Rows' /\ Forward /\ (res \in {"charged", "declined"} => charges'[k] = res)
    BY <1>2, <1>3, <1>4, ChargeKeepsRows DEF TypeOK
  <1>6. payments'[k].status # "absent"
    BY <1>2, <1>4 DEF storeVars
  <1>7. \A f \in Executors \ {e} : exec'[f] = exec[f]
    BY <1>3, GoToFacts DEF TypeOK
  <1>8. ExecKnows(e)'
    <2>1. CASE res = "unknown"
      BY <1>3, <2>1, GoToFacts DEF ExecKnows, TypeOK
    <2>2. CASE res # "unknown"
      BY <1>1, <1>3, <1>5, <1>6, <2>2, GoToFacts DEF ExecKnows, TypeOK
    <2> QED
      BY <2>1, <2>2
  <1>9. ASSUME NEW l \in Keys PROVE RequestKnows(l)'
    BY <1>2, <1>5, RequestKeepsKnowing DEF Knowledge
  <1> QED
    BY <1>5, <1>7, <1>8, <1>9, StepOfPay

\* Record: what the provider did is written, or somebody else has moved the payment.
LEMMA RecordMoney ==
  ASSUME MoneyInv, NEW e \in Executors, Record(e), payFrame
  PROVE  Rows' /\ Knowledge' /\ Forward
  <1> USE DEF MoneyInv
  <1>1. PICK k \in Keys : k = exec[e].key
    BY DEF Record, TypeOK, ExecTypeOK
  <1>2. UNCHANGED <<charges, providerRefunds, requests>>
    BY DEF Record, providerVars
  <1>3. charges[k] = exec[e].result
    BY <1>1 DEF Record, Knowledge, ExecKnows
  <1>4. PICK res, result :
          /\ GoTo(e, "finish", result)
          /\ \/ charges[k] = "declined" /\ Transition(k, "failed", None, res) /\ result = "402"
             \/ /\ charges[k] = "charged" /\ Transition(k, "succeeded", k, res)
                /\ result = IF res = "ok" THEN "200" ELSE CodeOf(res)
    BY <1>1, <1>3 DEF Record
  <1>5. CodeOf(res) \notin {"200", "402"}
    BY DEF CodeOf
  <1>6. /\ Rows' /\ Forward
        /\ result = "200" => payments'[k].status = "succeeded"
        /\ result = "402" => charges'[k] = "declined"
    <2>1. CASE charges[k] = "declined" /\ Transition(k, "failed", None, res) /\ result = "402"
      BY <1>2, <2>1, TransitionKeepsRows DEF TypeOK
    <2>2. CASE /\ charges[k] = "charged" /\ Transition(k, "succeeded", k, res)
               /\ result = IF res = "ok" THEN "200" ELSE CodeOf(res)
      BY <1>2, <1>5, <2>2, TransitionKeepsRows DEF TypeOK
    <2> QED
      BY <1>4, <2>1, <2>2
  <1>7. \A f \in Executors \ {e} : exec'[f] = exec[f]
    BY <1>4, GoToFacts DEF TypeOK
  <1>8. ExecKnows(e)'
    BY <1>1, <1>4, <1>6, GoToFacts DEF ExecKnows, TypeOK, Kept
  <1>9. ASSUME NEW l \in Keys PROVE RequestKnows(l)'
    BY <1>2, <1>6, RequestKeepsKnowing DEF Knowledge
  <1> QED
    BY <1>6, <1>7, <1>8, <1>9, StepOfPay

\* Finish: a true answer is stored or the key released.
LEMMA FinishMoney ==
  ASSUME MoneyInv, NEW e \in Executors, Finish(e), payFrame
  PROVE  Rows' /\ Knowledge' /\ Forward
  <1> USE DEF MoneyInv
  <1>1. Rows' /\ Forward
    BY StutterKeepsRows DEF Finish, storeVars, providerVars, moneyVars
  <1>2. PICK k \in Keys : k = exec[e].key
    BY DEF Finish, TypeOK, ExecTypeOK
  <1>3. UNCHANGED <<payments, charges>>
    BY DEF Finish, storeVars, providerVars
  <1>4. \A f \in Executors \ {e} : exec'[f] = exec[f]
    BY DEF Finish, TypeOK, ExecTypeOK
  <1>5. ExecKnows(e)'
    BY DEF Finish, TypeOK, ExecTypeOK, ExecKnows, Idle
  <1>6. ASSUME NEW l \in Keys PROVE RequestKnows(l)'
    <2>1. RequestKnows(l)
      BY DEF Knowledge
    <2>2. CASE UNCHANGED requests
      BY <1>1, <2>1, <2>2, RequestKeepsKnowing
    <2>3. CASE Release(k)
      <3>1. requests'[l].status = requests[l].status /\ requests'[l].code = requests[l].code
        BY <2>3 DEF Release, TypeOK, IdempotencyTypeOK, Request
      <3> QED
        BY <1>3, <2>1, <3>1 DEF RequestKnows, Kept
    <2>4. CASE Complete(k, exec[e].result)
      <3>1. CASE l # k
        <4>1. requests'[l] = requests[l]
          BY <2>4, <3>1 DEF Complete, TypeOK, IdempotencyTypeOK
        <4> QED
          BY <1>1, <2>1, <4>1, RequestKeepsKnowing
      <3>2. CASE l = k
        <4>1. requests'[k].code = exec[e].result
          BY <2>4 DEF Complete, TypeOK, IdempotencyTypeOK, Request
        <4>2. /\ exec[e].result = "200" => Kept(k)
              /\ exec[e].result = "402" => charges[k] = "declined"
          BY <1>2 DEF Finish, Knowledge, ExecKnows
        <4> QED
          BY <1>3, <3>2, <4>1, <4>2 DEF RequestKnows, Kept
      <3> QED
        BY <3>1, <3>2
    <2> QED
      BY <1>2, <2>2, <2>3, <2>4 DEF Finish
  <1> QED
    BY <1>1, <1>4, <1>5, <1>6, StepOfPay

\* A request whose context ends, or whose replica dies, knows no more than before.
LEMMA StopMoney ==
  ASSUME MoneyInv, NEW e \in Executors, Deadline(e) \/ ExecCrash(e), payFrame
  PROVE  Rows' /\ Knowledge' /\ Forward
  <1> USE DEF MoneyInv
  <1>1. Rows' /\ Forward
    BY StutterKeepsRows DEF Deadline, ExecCrash, storeVars, providerVars, moneyVars
  <1>2. UNCHANGED <<payments, charges, requests>>
    BY DEF Deadline, ExecCrash, storeVars, providerVars
  <1>3. \A f \in Executors \ {e} : exec'[f] = exec[f]
    BY DEF Deadline, ExecCrash, TypeOK, ExecTypeOK
  <1>4. ExecKnows(e)'
    <2>1. CASE Deadline(e)
      <3>1. /\ exec'[e].pc = exec[e].pc /\ exec'[e].key = exec[e].key
            /\ exec'[e].result = exec[e].result
        BY <2>1 DEF Deadline, TypeOK, ExecTypeOK, Execution
      <3>2. ExecKnows(e)
        BY DEF Knowledge
      <3> QED
        BY <1>2, <3>1, <3>2 DEF ExecKnows, Kept
    <2>2. CASE ExecCrash(e)
      BY <2>2 DEF ExecCrash, TypeOK, ExecTypeOK, ExecKnows, Idle
    <2> QED
      BY <2>1, <2>2
  <1>5. ASSUME NEW l \in Keys PROVE RequestKnows(l)'
    BY <1>1, <1>2, RequestKeepsKnowing DEF Knowledge
  <1> QED
    BY <1>1, <1>3, <1>4, <1>5, StepOfPay

\* Leases and keys run out; no row of the money tables changes.
LEMMA KeyTimeMoney ==
  ASSUME MoneyInv, NEW k \in Keys, LeaseRunsOut(k) \/ KeyRunsOut(k), payFrame
  PROVE  Rows' /\ Knowledge' /\ Forward
  <1> USE DEF MoneyInv
  <1>1. Rows' /\ Forward
    BY StutterKeepsRows DEF LeaseRunsOut, KeyRunsOut, storeVars, providerVars, moneyVars
  <1>2. UNCHANGED <<payments, charges, exec>>
    BY DEF LeaseRunsOut, KeyRunsOut, storeVars, providerVars
  <1>3. ASSUME NEW l \in Keys PROVE RequestKnows(l)'
    <2>1. requests'[l].status = requests[l].status /\ requests'[l].code = requests[l].code
      <3>1. CASE LeaseEnds(k)
        BY <3>1 DEF LeaseEnds, TypeOK, IdempotencyTypeOK, Request
      <3>2. CASE KeyEnds(k)
        BY <3>2 DEF KeyEnds, TypeOK, IdempotencyTypeOK, Request
      <3> QED
        BY <3>1, <3>2 DEF LeaseRunsOut, KeyRunsOut
    <2> QED
      BY <1>2, <2>1 DEF Knowledge, RequestKnows, Kept
  <1>4. Knowledge'
    BY <1>1, <1>2, <1>3, ExecKeepsKnowing, RefunderKeepsKnowing, CheckerKeepsKnowing, JobKeepsKnowing
       DEF Knowledge, payFrame, TypeOK
  <1> QED
    BY <1>1, <1>4

-----------------------------------------------------------------------------
\* RefundWorker.
LEMMA LeaseRefundsMoney ==
  ASSUME MoneyInv, NEW w \in Refunders, LeaseRefunds(w), refundFrame
  PROVE  Rows' /\ Knowledge' /\ Forward
  <1> USE DEF MoneyInv
  <1> DEFINE more(k) == IF refunds[k].attempts < MaxRefund THEN refunds[k].attempts + 1 ELSE MaxRefund
  <1>1. PICK S \in SUBSET {k \in Keys : refunds[k].status = "pending"} :
          /\ refunds' = [k \in Keys |->
               IF k \in S THEN [refunds[k] EXCEPT !.attempts = more(k), !.due = FALSE] ELSE refunds[k]]
          /\ refunder' = [refunder EXCEPT ![w].batch =
               {[key |-> k, attempts |-> more(k), charge |-> payments[k].charge] : k \in S}]
    BY DEF LeaseRefunds
  <1> HIDE DEF more
  <1>2. \A k \in Keys : refunds'[k].status = refunds[k].status
    BY <1>1 DEF TypeOK, StoreTypeOK, Refund
  <1>3. Rows' /\ Forward
    BY <1>2, RefundRowsMove DEF LeaseRefunds, providerVars, TypeOK
  <1>4. /\ \A v \in Refunders \ {w} : refunder'[v] = refunder[v]
        /\ refunder'[w].cur = NoRefund
        /\ refunder'[w].batch = {[key |-> k, attempts |-> more(k), charge |-> payments[k].charge] : k \in S}
    <2> DEFINE B == {[key |-> k, attempts |-> more(k), charge |-> payments[k].charge] : k \in S}
    <2>1. refunder' = [refunder EXCEPT ![w].batch = B] /\ refunder[w].cur = NoRefund
      <3>1. refunder[w] = FreeRefunder
        BY DEF LeaseRefunds
      <3>2. FreeRefunder.cur = NoRefund
        BY DEF FreeRefunder
      <3> QED
        BY <1>1, <3>1, <3>2
    <2> HIDE DEF B
    <2>2. /\ \A v \in Refunders \ {w} : refunder'[v] = refunder[v]
          /\ refunder'[w].cur = NoRefund /\ refunder'[w].batch = B
      BY <2>1 DEF TypeOK, RefunderTypeOK
    <2> QED
      BY <2>2 DEF B
  <1>5. ASSUME NEW b \in refunder'[w].batch PROVE b.charge = b.key /\ refunds'[b.key].status # "none"
    <2>1. PICK k \in S : b = [key |-> k, attempts |-> more(k), charge |-> payments[k].charge]
      BY <1>4
    <2>2. k \in Keys /\ refunds[k].status = "pending"
      BY <1>1
    <2>3. payments[k].charge = k
      BY <2>2 DEF Rows, RefundRows, PaymentRows
    <2> QED
      BY <1>2, <2>1, <2>2, <2>3
  <1>6. RefunderKnows(w)'
    BY <1>4, <1>5 DEF RefunderKnows
  <1> QED
    BY <1>3, <1>4, <1>6, StepOfRefunder

\* CallRefund: an ok of the provider is in its journal.
LEMMA CallRefundMoney ==
  ASSUME MoneyInv, NEW w \in Refunders, CallRefund(w), refundFrame
  PROVE  Rows' /\ Knowledge' /\ Forward
  <1> USE DEF MoneyInv
  <1>1. PICK d \in refunder[w].batch, res \in {"ok", "err"} :
          /\ ProviderRefund(d.key, d.charge, res)
          /\ refunder' = [refunder EXCEPT ![w] =
               [batch |-> refunder[w].batch \ {d}, cur |-> d, answer |-> res]]
    BY DEF CallRefund
  <1>2. d.key \in Keys /\ d.charge = d.key /\ refunds[d.key].status # "none"
    <2>1. d \in DueRefund
      BY DEF TypeOK, RefunderTypeOK
    <2> QED
      BY <2>1 DEF DueRefund, Knowledge, RefunderKnows
  <1>3. Rows' /\ Forward /\ (res = "ok" => <<d.key, d.key>> \in providerRefunds')
    BY <1>1, <1>2, ProviderRefundKeepsRows DEF CallRefund, TypeOK
  <1>4. /\ \A v \in Refunders \ {w} : refunder'[v] = refunder[v]
        /\ refunder'[w].cur = d /\ refunder'[w].answer = res
        /\ refunder'[w].batch = refunder[w].batch \ {d}
    BY <1>1 DEF TypeOK, RefunderTypeOK
  <1>5. UNCHANGED refunds
    BY DEF CallRefund, storeVars
  <1>6. RefunderKnows(w)'
    BY <1>2, <1>3, <1>4, <1>5 DEF Knowledge, RefunderKnows
  <1> QED
    BY <1>3, <1>4, <1>6, StepOfRefunder

\* RecordRefund: payment and refund change together.
LEMMA RecordRefundMoney ==
  ASSUME MoneyInv, NEW w \in Refunders, RecordRefund(w), refundFrame
  PROVE  Rows' /\ Knowledge' /\ Forward
  <1> USE DEF MoneyInv
  <1>1. PICK d \in DueRefund : d = refunder[w].cur
    BY DEF RecordRefund, TypeOK, RefunderTypeOK
  <1>2. PICK k \in Keys : k = d.key
    BY DEF DueRefund
  <1>3. UNCHANGED <<charges, providerRefunds>>
    BY DEF RecordRefund, providerVars
  <1>4. Rows' /\ Forward
    <2>1. CASE UNCHANGED storeVars
      BY <1>3, <2>1, StutterKeepsRows DEF storeVars, moneyVars
    <2>2. CASE refunder[w].answer = "ok" /\ markSucceeded(d)
      <3>1. <<k, k>> \in providerRefunds
        BY <1>1, <1>2, <2>2 DEF RecordRefund, Knowledge, RefunderKnows
      <3>2. payments[k].status = "succeeded"
        BY <1>2, <2>2 DEF markSucceeded, CanTransitionPayment, allowedPaymentTransitions
      <3>3. /\ movePayment(k, "refunded", None) /\ UNCHANGED orders
            /\ refunds' = refunds \/ (refunds[k].status = "pending" /\ refunds' = [refunds EXCEPT ![k].status = "succeeded"])
        BY <1>2, <2>2 DEF markSucceeded
      <3> QED
        BY <1>3, <3>1, <3>2, <3>3, RefundedKeepsRows DEF TypeOK
    <2>3. CASE markFailed(d)
      <3>1. ASSUME NEW l \in Keys
            PROVE  \/ refunds'[l].status = refunds[l].status
                   \/ refunds[l].status = "pending" /\ refunds'[l].status = "manual_review"
        BY <1>2, <2>3 DEF markFailed, TypeOK, StoreTypeOK, Refund
      <3> QED
        BY <1>3, <2>3, <3>1, RefundRowsMove DEF markFailed, TypeOK
    <2> QED
      BY <1>1, <2>1, <2>2, <2>3 DEF RecordRefund
  <1>5. /\ \A v \in Refunders \ {w} : refunder'[v] = refunder[v]
        /\ refunder'[w].cur = NoRefund /\ refunder'[w].batch = refunder[w].batch
    BY DEF RecordRefund, TypeOK, RefunderTypeOK
  <1>6. RefunderKnows(w)'
    <2>1. ASSUME NEW b \in refunder[w].batch PROVE b.charge = b.key /\ refunds'[b.key].status # "none"
      <3>1. b.key \in Keys
        BY DEF TypeOK, RefunderTypeOK, DueRefund
      <3> QED
        BY <1>4, <3>1 DEF Forward, Knowledge, RefunderKnows
    <2> QED
      BY <1>5, <2>1 DEF RefunderKnows
  <1> QED
    BY <1>4, <1>5, <1>6, StepOfRefunder

\* A refund worker that dies forgets what it knew.
LEMMA RefunderCrashMoney ==
  ASSUME MoneyInv, NEW w \in Refunders, RefunderCrash(w), refundFrame
  PROVE  Rows' /\ Knowledge' /\ Forward
  <1> USE DEF MoneyInv
  <1>1. Rows' /\ Forward
    BY StutterKeepsRows DEF RefunderCrash, storeVars, providerVars, moneyVars
  <1>2. RefunderKnows(w)' /\ \A v \in Refunders \ {w} : refunder'[v] = refunder[v]
    BY DEF RefunderCrash, RefunderKnows, FreeRefunder, TypeOK, RefunderTypeOK
  <1> QED
    BY <1>1, <1>2, StepOfRefunder

-----------------------------------------------------------------------------
\* ReconcileWorker.
LEMMA LeasePaymentsMoney ==
  ASSUME MoneyInv, NEW c \in Checkers, LeasePayments(c), checkFrame
  PROVE  Rows' /\ Knowledge' /\ Forward
  <1> USE DEF MoneyInv
  <1>1. Rows' /\ Forward
    BY StutterKeepsRows DEF LeasePayments, providerVars, moneyVars
  <1>2. checker'[c].cur = NoPayment /\ \A d \in Checkers \ {c} : checker'[d] = checker[d]
    <2>1. PICK B : checker' = [checker EXCEPT ![c].batch = B]
      BY DEF LeasePayments
    <2>2. checker[c].cur = NoPayment
      <3>1. checker[c] = FreeChecker
        BY DEF LeasePayments
      <3>2. FreeChecker.cur = NoPayment
        BY DEF FreeChecker
      <3> QED
        BY <3>1, <3>2
    <2> QED
      BY <2>1, <2>2 DEF TypeOK, CheckerTypeOK
  <1> QED
    BY <1>1, <1>2, StepOfChecker DEF CheckerKnows

\* CheckCharge: ReconcileWorker learns what the provider did.
LEMMA CheckChargeMoney ==
  ASSUME MoneyInv, NEW c \in Checkers, CheckCharge(c), checkFrame
  PROVE  Rows' /\ Knowledge' /\ Forward
  <1> USE DEF MoneyInv
  <1>1. Rows' /\ Forward
    BY StutterKeepsRows DEF CheckCharge, ChargeStatus, storeVars, providerVars, moneyVars
  <1>2. PICK p \in checker[c].batch, res \in {"charged", "declined", "not_found", "error"} :
          ChargeStatus(p.key, res) /\
          checker' = [checker EXCEPT ![c] = [batch |-> checker[c].batch \ {p}, cur |-> p, status |-> res]]
    BY DEF CheckCharge
  <1>3. /\ \A d \in Checkers \ {c} : checker'[d] = checker[d]
        /\ checker'[c].cur = p /\ checker'[c].status = res
    BY <1>2 DEF TypeOK, CheckerTypeOK
  <1>4. CheckerKnows(c)'
    BY <1>2, <1>3 DEF ChargeStatus, providerVars, CheckerKnows
  <1> QED
    BY <1>1, <1>3, <1>4, StepOfChecker

\* Resolve: the payment becomes what the provider said, or expires.
LEMMA ResolveMoney ==
  ASSUME MoneyInv, NEW c \in Checkers, Resolve(c), checkFrame
  PROVE  Rows' /\ Knowledge' /\ Forward
  <1> USE DEF MoneyInv
  <1>1. PICK k \in Keys : k = checker[c].cur.key
    BY DEF Resolve, TypeOK, CheckerTypeOK, StuckPayment
  <1>2. UNCHANGED <<charges, providerRefunds>>
    BY DEF Resolve, providerVars
  <1>3. PICK res : /\ \/ charges[k] = "charged" /\ Transition(k, "succeeded", k, res)
                      \/ charges[k] = "declined" /\ Transition(k, "failed", None, res)
                      \/ Transition(k, "expired", None, res)
                   /\ Done(c) \/ checker' = [checker EXCEPT ![c].status = "error"]
    BY <1>1 DEF Resolve, Knowledge, CheckerKnows
  <1>4. Rows' /\ Forward
    BY <1>2, <1>3, TransitionKeepsRows DEF TypeOK
  <1>5. CheckerKnows(c)' /\ \A d \in Checkers \ {c} : checker'[d] = checker[d]
    BY <1>3 DEF Done, CheckerKnows, TypeOK, CheckerTypeOK
  <1> QED
    BY <1>4, <1>5, StepOfChecker

\* Postpone or a crash: no row of the money tables changes.
LEMMA PostponeMoney ==
  ASSUME MoneyInv, NEW c \in Checkers, Postpone(c) \/ CheckerCrash(c), checkFrame
  PROVE  Rows' /\ Knowledge' /\ Forward
  <1> USE DEF MoneyInv
  <1>1. Rows' /\ Forward
    BY StutterKeepsRows DEF Postpone, CheckerCrash, storeVars, providerVars, moneyVars
  <1>2. CheckerKnows(c)' /\ \A d \in Checkers \ {c} : checker'[d] = checker[d]
    <2>1. CASE Postpone(c)
      BY <2>1 DEF Postpone, Done, CheckerKnows, TypeOK, CheckerTypeOK
    <2>2. CASE CheckerCrash(c)
      BY <2>2 DEF CheckerCrash, FreeChecker, CheckerKnows, TypeOK, CheckerTypeOK
    <2> QED
      BY <2>1, <2>2
  <1> QED
    BY <1>1, <1>2, StepOfChecker

-----------------------------------------------------------------------------
\* The reconciliation job.
LEMMA SameSnapshots ==
  ASSUME Forward, NEW j \in Jobs, JobKnows(j),
         job'[j].theirs = job[j].theirs, job'[j].ours = job[j].ours,
         job'[j].pc = "refund" => payments'[job'[j].found.key].status = "refunded"
  PROVE  JobKnows(j)'
  BY DEF Forward, JobKnows

\* The job takes its snapshots.
LEMMA JobStartMoney ==
  ASSUME MoneyInv, NEW j \in Jobs, TryClaim(j) \/ ListCharges(j) \/ ReadOurs(j), jobFrame
  PROVE  Rows' /\ Knowledge' /\ Forward
  <1> USE DEF MoneyInv
  <1>1. Rows' /\ Forward
    BY StutterKeepsRows DEF TryClaim, ListCharges, ReadOurs, storeVars, providerVars, moneyVars
  <1>2. JobKnows(j)
    BY DEF Knowledge
  <1>3. UNCHANGED <<payments, charges, providerRefunds>>
    BY DEF TryClaim, ListCharges, ReadOurs, storeVars, providerVars
  <1>4. \A i \in Jobs \ {j} : job'[i] = job[i]
    BY DEF TryClaim, ListCharges, ReadOurs, TypeOK, JobTypeOK
  <1>5. CASE TryClaim(j)
    <2>1. CASE UNCHANGED job
      BY <1>1, <1>2, <1>4, <2>1, JobKeepsKnowing, StepOfJob DEF TypeOK
    <2>2. CASE job' = [job EXCEPT ![j] = [job[j] EXCEPT !.pc = "list", !.todo = Window]]
      <3>1. job'[j].theirs = job[j].theirs /\ job'[j].ours = job[j].ours /\ job'[j].pc = "list"
        BY <2>2 DEF TypeOK, JobTypeOK, JobRecord
      <3> QED
        BY <1>1, <1>2, <1>4, <3>1, SameSnapshots, StepOfJob
    <2> QED
      BY <1>5, <2>1, <2>2 DEF TryClaim
  <1>6. CASE ListCharges(j)
    <2>1. job'[j].theirs = ListedCharges /\ job'[j].ours = job[j].ours /\ job'[j].pc = "read"
      BY <1>6 DEF ListCharges, TypeOK, JobTypeOK, JobRecord
    <2>2. ASSUME NEW k \in Keys
          PROVE  /\ ListedCharges[k] \in {"charged", "declined"} => charges[k] = ListedCharges[k]
                 /\ ListedCharges[k] = "refunded" => <<k, k>> \in providerRefunds
      <3>1. ASSUME NEW r \in providerRefunds, r[2] = k PROVE r = <<k, k>>
        BY <3>1 DEF TypeOK, ProviderTypeOK, Rows, RefundRows
      <3> QED
        BY <3>1 DEF ListedCharges, TypeOK, ProviderTypeOK
    <2>3. JobKnows(j)'
      BY <1>2, <1>3, <2>1, <2>2 DEF JobKnows
    <2> QED
      BY <1>1, <1>4, <2>3, StepOfJob
  <1>7. CASE ReadOurs(j)
    <2>1. /\ job'[j].theirs = job[j].theirs /\ job'[j].pc = "check"
          /\ job'[j].ours = [k \in Keys |-> [status |-> payments[k].status, refund |-> refunds[k].status]]
      BY <1>7 DEF ReadOurs, TypeOK, JobTypeOK, JobRecord
    <2>2. JobKnows(j)'
      BY <1>2, <1>3, <2>1 DEF JobKnows
    <2> QED
      BY <1>1, <1>4, <2>2, StepOfJob
  <1> QED
    BY <1>5, <1>6, <1>7

\* A repair follows what the provider did.
LEMMA RepairFollowsProvider ==
  ASSUME NEW ours \in Ours, NEW theirs \in Theirs, NEW same \in BOOLEAN
  PROVE  LET action == Classify(ours, theirs, same).action
         IN /\ action = "payment_succeeded" => theirs = "charged"
            /\ action = "payment_failed" => theirs = "declined"
            /\ action = "refund_succeeded" => theirs = "refunded"
  BY DEF Classify, ClassifyStatus, Finding

\* Found keeps the snapshots and moves the job on.
LEMMA FoundFacts ==
  ASSUME JobTypeOK, NEW j \in Jobs, NEW k \in Keys, NEW pc, NEW action, Found(j, pc, k, action)
  PROVE  /\ \A i \in Jobs \ {j} : job'[i] = job[i]
         /\ job'[j].theirs = job[j].theirs /\ job'[j].ours = job[j].ours
         /\ job'[j].pc = pc /\ job'[j].found.key = k
  <1> DEFINE found == [key |-> k, kind |-> Classify(job[j].ours[k], job[j].theirs[k], TRUE).kind,
                       action |-> action]
  <1>1. job' = [job EXCEPT ![j] = [job[j] EXCEPT !.pc = pc, !.todo = job[j].todo \ {k}, !.found = found]]
    BY DEF Found
  <1>2. found.key = k
    OBVIOUS
  <1> HIDE DEF found
  <1> QED
    BY <1>1, <1>2 DEF JobTypeOK, JobRecord

\* CheckKey: a repair from old snapshots follows the provider.
LEMMA CheckKeyMoney ==
  ASSUME MoneyInv, NEW j \in Jobs, CheckKey(j), jobFrame
  PROVE  Rows' /\ Knowledge' /\ Forward
  <1> USE DEF MoneyInv
  <1>1. PICK k \in job[j].todo :
          LET f == Classify(job[j].ours[k], job[j].theirs[k], TRUE)
          IN \/ job' = [job EXCEPT ![j].todo = job[j].todo \ {k}] /\ UNCHANGED storeVars
             \/ Found(j, "record", k, "manual") /\ UNCHANGED storeVars
             \/ fix(j, k, f.action)
             \/ /\ job[j].ours[k].status = "refunded" /\ UNCHANGED storeVars
                /\ Found(j, "refund", k, "auto_fixed")
    BY DEF CheckKey
  <1>2. k \in Keys /\ job[j].ours[k] \in Ours /\ job[j].theirs[k] \in Theirs
    BY DEF TypeOK, JobTypeOK, JobRecord
  <1>3. JobKnows(j) /\ UNCHANGED <<charges, providerRefunds>>
    BY DEF Knowledge, CheckKey, providerVars
  <1>4. ASSUME UNCHANGED storeVars PROVE Rows' /\ Forward /\ UNCHANGED payments
    BY <1>3, <1>4, StutterKeepsRows DEF storeVars, moneyVars
  <1>5. CASE job' = [job EXCEPT ![j].todo = job[j].todo \ {k}] /\ UNCHANGED storeVars
    <2>1. /\ \A i \in Jobs \ {j} : job'[i] = job[i]
          /\ job'[j].theirs = job[j].theirs /\ job'[j].ours = job[j].ours /\ job'[j].pc = "check"
      BY <1>5 DEF CheckKey, TypeOK, JobTypeOK, JobRecord
    <2> QED
      BY <1>3, <1>4, <1>5, <2>1, SameSnapshots, StepOfJob
  <1>6. CASE Found(j, "record", k, "manual") /\ UNCHANGED storeVars
    BY <1>2, <1>3, <1>4, <1>6, FoundFacts, SameSnapshots, StepOfJob DEF TypeOK
  <1>7. CASE job[j].ours[k].status = "refunded" /\ UNCHANGED storeVars /\ Found(j, "refund", k, "auto_fixed")
    <2>1. payments'[k].status = "refunded"
      BY <1>2, <1>3, <1>4, <1>7 DEF JobKnows
    <2> QED
      BY <1>2, <1>3, <1>4, <1>7, <2>1, FoundFacts, SameSnapshots, StepOfJob DEF TypeOK
  <1>8. CASE fix(j, k, Classify(job[j].ours[k], job[j].theirs[k], TRUE).action)
    <2> DEFINE action == Classify(job[j].ours[k], job[j].theirs[k], TRUE).action
    <2>1. /\ action = "payment_succeeded" => charges[k] = "charged"
          /\ action = "payment_failed" => charges[k] = "declined"
          /\ action = "refund_succeeded" => <<k, k>> \in providerRefunds
      BY <1>2, <1>3, RepairFollowsProvider DEF JobKnows
    <2>2. fix(j, k, action)
      BY <1>8
    <2> HIDE DEF action
    <2>3. PICK res, next :
            \/ /\ action = "payment_succeeded"
               /\ Transition(k, "succeeded", k, res) /\ Found(j, "record", k, next)
            \/ /\ action = "payment_failed"
               /\ Transition(k, "failed", None, res) /\ Found(j, "record", k, next)
            \/ /\ action = "refund_succeeded"
               /\ Transition(k, "refunded", None, res)
               /\ Found(j, IF res = "ok" THEN "refund" ELSE "record", k, next)
      BY <2>2 DEF fix
    <2>4. PICK pc : /\ Rows' /\ Forward /\ Found(j, pc, k, next)
                    /\ pc = "refund" => payments'[k].status = "refunded"
      <3>1. CASE action = "payment_succeeded" /\ Transition(k, "succeeded", k, res) /\ Found(j, "record", k, next)
        <4>1. Rows' /\ Forward
          BY <1>2, <1>3, <2>1, <3>1, TransitionKeepsRows DEF TypeOK
        <4> QED
          BY <3>1, <4>1
      <3>2. CASE action = "payment_failed" /\ Transition(k, "failed", None, res) /\ Found(j, "record", k, next)
        <4>1. Rows' /\ Forward
          BY <1>2, <1>3, <2>1, <3>2, TransitionKeepsRows DEF TypeOK
        <4> QED
          BY <3>2, <4>1
      <3>3. CASE /\ action = "refund_succeeded" /\ Transition(k, "refunded", None, res)
                 /\ Found(j, IF res = "ok" THEN "refund" ELSE "record", k, next)
        <4>1. Rows' /\ Forward /\ (res = "ok" => payments'[k].status = "refunded")
          BY <1>2, <1>3, <2>1, <3>3, TransitionKeepsRows DEF TypeOK
        <4> QED
          BY <3>3, <4>1
      <3> QED
        BY <2>3, <3>1, <3>2, <3>3
    <2> QED
      BY <1>2, <1>3, <2>4, FoundFacts, SameSnapshots, StepOfJob DEF TypeOK
  <1> QED
    BY <1>1, <1>5, <1>6, <1>7, <1>8

\* FixRefund closes the refund of a payment that is refunded.
LEMMA FixRefundMoney ==
  ASSUME MoneyInv, NEW j \in Jobs, FixRefund(j), jobFrame
  PROVE  Rows' /\ Knowledge' /\ Forward
  <1> USE DEF MoneyInv
  <1>1. PICK k \in Keys : k = job[j].found.key
    BY DEF FixRefund, TypeOK, JobTypeOK, Items
  <1>2. payments[k].status = "refunded" /\ JobKnows(j)
    BY <1>1 DEF FixRefund, Knowledge, JobKnows
  <1>3. ASSUME NEW l \in Keys
        PROVE  \/ refunds'[l].status = refunds[l].status
               \/ /\ refunds[l].status \in {"pending", "manual_review"}
                  /\ refunds'[l].status = "succeeded" /\ payments[l].status = "refunded"
    <2>1. \/ refunds' = refunds
          \/ /\ refunds[k].status \in {"pending", "manual_review"}
             /\ refunds' = [refunds EXCEPT ![k].status = "succeeded"]
      BY <1>1 DEF FixRefund
    <2> QED
      BY <1>2, <2>1 DEF TypeOK, StoreTypeOK, Refund
  <1>4. Rows' /\ Forward
    BY <1>3, RefundRowsMove DEF FixRefund, providerVars, TypeOK
  <1>5. /\ \A i \in Jobs \ {j} : job'[i] = job[i]
        /\ job'[j].theirs = job[j].theirs /\ job'[j].ours = job[j].ours /\ job'[j].pc = "record"
    <2>1. PICK action : job' = [job EXCEPT ![j] = [job[j] EXCEPT !.pc = "record", !.found.action = action]]
      BY DEF FixRefund
    <2> QED
      BY <2>1 DEF TypeOK, JobTypeOK, JobRecord
  <1> QED
    BY <1>2, <1>4, <1>5, SameSnapshots, StepOfJob

\* Recording an item and ending a run change no row of the money tables.
LEMMA JobEndMoney ==
  ASSUME MoneyInv, NEW j \in Jobs, record(j) \/ JobFails(j) \/ JobCrash(j) \/ JobFinishes(j), jobFrame
  PROVE  Rows' /\ Knowledge' /\ Forward
  <1> USE DEF MoneyInv
  <1>1. Rows' /\ Forward
    BY StutterKeepsRows DEF record, JobFails, JobCrash, JobFinishes, storeVars, providerVars, moneyVars
  <1>2. \A i \in Jobs \ {j} : job'[i] = job[i]
    BY DEF record, JobFails, JobCrash, JobFinishes, TypeOK, JobTypeOK
  <1>3. CASE record(j)
    <2>1. job'[j].theirs = job[j].theirs /\ job'[j].ours = job[j].ours /\ job'[j].pc = "check"
      BY <1>3 DEF record, TypeOK, JobTypeOK, JobRecord
    <2> QED
      BY <1>1, <1>2, <2>1, SameSnapshots, StepOfJob DEF Knowledge
  <1>4. CASE job'[j] = IdleJob
    <2>1. JobKnows(j)'
      BY <1>4 DEF JobKnows, IdleJob
    <2> QED
      BY <1>1, <1>2, <2>1, StepOfJob
  <1> QED
    BY <1>3, <1>4 DEF JobFails, JobCrash, JobFinishes, TypeOK, JobTypeOK

-----------------------------------------------------------------------------
\* Nothing has happened yet.
LEMMA MoneyInit == Init => MoneyInv
  <1> SUFFICES ASSUME Init PROVE MoneyInv
    OBVIOUS
  <1>1. /\ \A k \in Keys : /\ payments[k].status = "absent" /\ charges[k] = "none"
                           /\ refunds[k].status = "none" /\ requests[k].status = "absent"
        /\ \A o \in Orders : orders[o] = "absent"
        /\ providerRefunds = {}
    BY DEF Init, StoreInit, ProviderInit, IdempotencyInit
  <1>2. Rows
    BY <1>1 DEF Rows, PaymentRows, RefundRows, OrderRows, Kept, Held
  <1>3. \A e \in Executors : ExecKnows(e)
    BY DEF Init, ExecInit, Idle, ExecKnows
  <1>4. \A k \in Keys : RequestKnows(k)
    BY <1>1 DEF RequestKnows
  <1>5. (\A w \in Refunders : RefunderKnows(w)) /\ (\A c \in Checkers : CheckerKnows(c))
    BY DEF Init, RefunderInit, FreeRefunder, RefunderKnows, CheckerInit, FreeChecker, CheckerKnows
  <1>6. \A j \in Jobs : JobKnows(j)
    BY DEF Init, JobInit, IdleJob, JobKnows
  <1> QED
    BY <1>2, <1>3, <1>4, <1>5, <1>6, TypeInit DEF MoneyInv, Knowledge

\* Every step keeps the invariant and moves the tables only forward.
LEMMA MoneyStep == MoneyInv /\ [Next]_vars => MoneyInv' /\ Forward
  <1> SUFFICES ASSUME MoneyInv, [Next]_vars PROVE MoneyInv' /\ Forward
    OBVIOUS
  <1>a. TypeOK'
    BY TypeStep DEF MoneyInv
  <1>b. SUFFICES Rows' /\ Knowledge' /\ Forward
    BY <1>a DEF MoneyInv
  <1>c. TypeOK /\ Rows /\ Knowledge /\ StoreTypeOK /\ ProviderTypeOK
    BY DEF MoneyInv, TypeOK
  <1>1. CASE Client
    <2>1. PICK o \in Orders : (CreateOrder(o) \/ CancelOrder(o)) /\ storeFrame
      BY <1>1 DEF Client
    <2>2. Rows' /\ Forward
      BY <1>c, <2>1, CreateKeepsRows, CancelKeepsRows DEF storeFrame, providerVars
    <2> QED
      BY <1>c, <2>1, <2>2, StepOfNobody DEF storeFrame
  <1>2. CASE Clock
    <2>1. CASE NextPeriod /\ jobFrame
      <3>1. Rows' /\ Forward
        BY <1>c, <2>1, StutterKeepsRows DEF NextPeriod, storeVars, providerVars, moneyVars
      <3> QED
        BY <1>c, <2>1, <3>1, StepOfNobody DEF NextPeriod, jobFrame
    <2>2. ASSUME NEW k \in Keys, Age(k) \/ ReconcileDue(k) \/ RefundDue(k), storeFrame
          PROVE  Rows' /\ Knowledge' /\ Forward
      <3>1. \A l \in Keys : refunds'[l].status = refunds[l].status
        BY <1>c, <2>2 DEF Age, ReconcileDue, RefundDue, StoreTypeOK, Refund
      <3>2. UNCHANGED <<orders, payments, charges, providerRefunds>>
        BY <2>2 DEF Age, ReconcileDue, RefundDue, storeFrame, providerVars
      <3>3. Rows' /\ Forward
        BY <1>c, <3>1, <3>2, RefundRowsMove
      <3> QED
        BY <1>c, <2>2, <3>3, StepOfNobody DEF storeFrame
    <2>3. ASSUME NEW k \in Keys, LeaseRunsOut(k) \/ KeyRunsOut(k), payFrame PROVE Rows' /\ Knowledge' /\ Forward
      BY <2>3, KeyTimeMoney
    <2> QED
      BY <1>2, <2>1, <2>2, <2>3 DEF Clock
  <1>3. CASE (ProviderRecovers /\ providerFrame) \/ Outage
    <2>1. Rows' /\ Forward
      BY <1>3, <1>c, StutterKeepsRows DEF ProviderRecovers, Outage, ProviderStops, providerFrame, storeVars, moneyVars
    <2> QED
      BY <1>3, <1>c, <2>1, StepOfNobody DEF Outage, providerFrame
  <1>4. CASE Crash
    BY <1>4, StopMoney, RefunderCrashMoney, PostponeMoney, JobEndMoney DEF Crash
  <1>5. ASSUME NEW e \in Executors, Pay(e) PROVE Rows' /\ Knowledge' /\ Forward
    BY <1>5, ClaimKeyMoney, LookupMoney, InsertMoney, ChargeStepMoney, RecordMoney, FinishMoney, StopMoney DEF Pay
  <1>6. ASSUME NEW w \in Refunders, RefundStep(w) PROVE Rows' /\ Knowledge' /\ Forward
    BY <1>6, LeaseRefundsMoney, CallRefundMoney, RecordRefundMoney DEF RefundStep
  <1>7. ASSUME NEW c \in Checkers, CheckStep(c) PROVE Rows' /\ Knowledge' /\ Forward
    BY <1>7, LeasePaymentsMoney, CheckChargeMoney, ResolveMoney, PostponeMoney DEF CheckStep
  <1>8. ASSUME NEW j \in Jobs, JobStep(j) PROVE Rows' /\ Knowledge' /\ Forward
    BY <1>8, JobStartMoney, CheckKeyMoney, FixRefundMoney, JobEndMoney DEF JobStep
  <1>9. CASE UNCHANGED vars
    <2>1. Rows' /\ Forward
      BY <1>9, <1>c, StutterKeepsRows DEF vars, storeVars, providerVars, moneyVars
    <2> QED
      BY <1>9, <1>c, <2>1, StepOfNobody DEF vars
  <1> QED
    BY <1>1, <1>2, <1>3, <1>4, <1>5, <1>6, <1>7, <1>8, <1>9 DEF Next

(* The tables, the provider's journal and what every process relies on always
   agree: MoneyInv is inductive. *)
THEOREM MoneyCorrect == Spec => []MoneyInv
  BY MoneyInit, MoneyStep, PTL DEF Spec

(* An order whose payment's outcome is unknown is neither cancelled nor paid,
   whatever CancelOrder, start and the workers do at the same time. *)
THEOREM PendingHolds == Spec => []PendingHoldsOrder
  <1>1. MoneyInv => PendingHoldsOrder
    BY DEF MoneyInv, Rows, PaymentRows, PendingHoldsOrder
  <1> QED
    BY <1>1, MoneyCorrect, PTL

(* A paid order is backed by a succeeded payment and a charge of the provider. *)
THEOREM PaidBacked == Spec => []PaidIsBacked
  <1>1. MoneyInv => PaidIsBacked
    <2> SUFFICES ASSUME MoneyInv, NEW o \in Orders, orders[o] = "paid"
                 PROVE  \E k \in Keys : /\ payments[k].order = o /\ payments[k].status = "succeeded"
                                        /\ payments[k].charge = k /\ charges[k] = "charged"
      BY DEF PaidIsBacked
    <2>1. PICK k \in Keys : payments[k].order = o /\ payments[k].status = "succeeded"
      BY DEF MoneyInv, Rows, OrderRows
    <2>2. payments[k].charge = k /\ charges[k] = "charged"
      BY <2>1 DEF MoneyInv, Rows, PaymentRows, Kept
    <2> QED
      BY <2>1, <2>2
  <1> QED
    BY <1>1, MoneyCorrect, PTL

(* A settled payment says what the provider did. *)
THEOREM SettledTrue == Spec => []SettledAsProvider
  <1>1. MoneyInv => SettledAsProvider
    BY DEF MoneyInv, Rows, PaymentRows, RefundRows, Kept, SettledAsProvider
  <1> QED
    BY <1>1, MoneyCorrect, PTL

(* An order never has two active payments, although start checks and the
   workers' transitions interleave freely. *)
THEOREM OneActive == Spec => []OneActivePayment
  <1>1. MoneyInv => OneActivePayment
    BY DEF MoneyInv, Rows, OrderRows, Held, Active, OneActivePayment
  <1> QED
    BY <1>1, MoneyCorrect, PTL

(* An order is charged twice only if one of the payments had expired. *)
THEOREM NoDoubleCharge == Spec => []DoubleChargeOnlyAfterExpiry
  <1>1. MoneyInv => DoubleChargeOnlyAfterExpiry
    <2> SUFFICES ASSUME MoneyInv, NEW k \in Keys, NEW l \in Keys, k # l, charges[k] = "charged",
                        charges[l] = "charged", payments[k].order = payments[l].order,
                        payments[k].status # "expired", payments[l].status # "expired"
                 PROVE  FALSE
      BY DEF DoubleChargeOnlyAfterExpiry
    <2>1. ASSUME NEW m \in Keys, charges[m] = "charged", payments[m].status # "expired" PROVE Held(m)
      <3>1. payments[m].status \in PaymentStatus
        BY DEF MoneyInv, TypeOK, StoreTypeOK, Payment
      <3> QED
        BY <2>1, <3>1 DEF MoneyInv, Rows, PaymentRows, PaymentStatus, Held
    <2> QED
      BY <2>1 DEF MoneyInv, Rows, OrderRows
  <1> QED
    BY <1>1, MoneyCorrect, PTL

(* The refund of a cancelled order that was paid is never lost. *)
THEOREM RefundKept == Spec => []NoLostRefund
  <1>1. MoneyInv => NoLostRefund
    BY DEF MoneyInv, Rows, RefundRows, NoLostRefund
  <1> QED
    BY <1>1, MoneyCorrect, PTL

(* The provider gives back only what is owed, once for each payment. *)
THEOREM RefundsOwed == Spec => []RefundsAreOwed
  <1>1. MoneyInv => RefundsAreOwed
    <2> SUFFICES ASSUME MoneyInv, NEW r \in providerRefunds
                 PROVE  /\ r[1] = r[2] /\ charges[r[1]] = "charged"
                        /\ orders[payments[r[1]].order] = "cancelled" /\ refunds[r[1]].status # "none"
      BY DEF RefundsAreOwed
    <2>1. PICK k \in Keys : k = r[1]
      BY DEF MoneyInv, TypeOK, ProviderTypeOK
    <2>2. r[1] = r[2] /\ refunds[k].status # "none"
      BY <2>1 DEF MoneyInv, Rows, RefundRows
    <2>3. Kept(k) /\ orders[payments[k].order] = "cancelled"
      BY <2>2 DEF MoneyInv, Rows, RefundRows
    <2>4. charges[k] = "charged"
      BY <2>3 DEF MoneyInv, Rows, PaymentRows
    <2> QED
      BY <2>1, <2>2, <2>3, <2>4
  <1> QED
    BY <1>1, MoneyCorrect, PTL

(* A refund recorded as done was done, and its payment says so. *)
THEOREM RefundRecord == Spec => []RefundRecordTrue
  <1>1. MoneyInv => RefundRecordTrue
    BY DEF MoneyInv, Rows, RefundRows, RefundRecordTrue
  <1> QED
    BY <1>1, MoneyCorrect, PTL

(* A 200 stands for money taken and a 402 for a decline, when the answer goes
   out and as long as it is stored. *)
THEOREM AnswersAreTrue == Spec => []AnswersTrue
  <1>1. MoneyInv => AnswersTrue
    <2> SUFFICES ASSUME MoneyInv PROVE AnswersTrue
      OBVIOUS
    <2>1. ASSUME NEW e \in Executors, exec[e].pc = "finish"
          PROVE  /\ exec[e].result = "200" => charges[exec[e].key] = "charged"
                 /\ exec[e].result = "402" => charges[exec[e].key] = "declined"
      <3>1. PICK k \in Keys : k = exec[e].key
        BY <2>1 DEF MoneyInv, TypeOK, ExecTypeOK
      <3>2. Kept(k) => charges[k] = "charged"
        BY DEF MoneyInv, Rows, PaymentRows
      <3> QED
        BY <2>1, <3>1, <3>2 DEF MoneyInv, Knowledge, ExecKnows
    <2>2. ASSUME NEW k \in Keys, requests[k].status = "completed"
          PROVE  /\ requests[k].code = "200" => payments[k].status \in {"succeeded", "refunded"}
                 /\ requests[k].code = "402" => charges[k] = "declined"
      BY <2>2 DEF MoneyInv, Knowledge, RequestKnows, Kept
    <2> QED
      BY <2>1, <2>2 DEF AnswersTrue
  <1> QED
    BY <1>1, MoneyCorrect, PTL

(* No step takes back a payment or a refund that went through, or revives one
   that failed or expired. *)
THEOREM SettledForGood == Spec => SettledStays
  <1>1. MoneyInv /\ [Next]_vars =>
          [\A k \in Keys :
             /\ payments[k].status = "succeeded" => payments'[k].status \in {"succeeded", "refunded"}
             /\ payments[k].status \in {"failed", "expired", "refunded"}
                  => payments'[k].status = payments[k].status
             /\ refunds[k].status = "succeeded" => refunds'[k].status = "succeeded"]_vars
    BY MoneyStep DEF Forward, Kept
  <1> QED
    BY <1>1, MoneyCorrect, PTL DEF Spec, SettledStays

=============================================================================
