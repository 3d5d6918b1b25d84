--------------------------- MODULE PaymentLiveness ---------------------------
(***************************************************************************)
(* What the payment side brings to an end.  A behaviour meets at most      *)
(* MaxDisturbances crashes and outages (Faults is empty, so that none come *)
(* from elsewhere); apart from them everything that can go on does.        *)
(***************************************************************************)
EXTENDS PaymentSystem

CONSTANT MaxDisturbances

ASSUME DisturbancesAssumption == MaxDisturbances \in Nat

VARIABLE disturbances

liveVars == <<vars, disturbances>>

Disturb == /\ disturbances < MaxDisturbances
           /\ disturbances' = disturbances + 1
           /\ Crash \/ Outage

calm == UNCHANGED disturbances

LiveInit == Init /\ disturbances = 0

LiveNext == (Next /\ calm) \/ Disturb

(* Requests that run go on, the tickers of the workers and of the job keep
   ticking, time passes, an outage of the provider ends. *)
payGoesOn(e)    == (Lookup(e) \/ Insert(e) \/ ChargeStep(e) \/ Record(e) \/ Finish(e)) /\ payFrame
refundGoesOn(w) == (LeaseRefunds(w) \/ CallRefund(w) \/ RecordRefund(w)) /\ refundFrame
checkGoesOn(c)  == (LeasePayments(c) \/ CheckCharge(c) \/ Resolve(c) \/ Postpone(c)) /\ checkFrame
jobGoesOn(j)    == (\/ TryClaim(j) \/ ListCharges(j) \/ ReadOurs(j) \/ CheckKey(j)
                    \/ FixRefund(j) \/ record(j) \/ JobFinishes(j) \/ JobFails(j)) /\ jobFrame

Fairness ==
  /\ \A e \in Executors : WF_liveVars(calm /\ payGoesOn(e))
  /\ \A w \in Refunders : WF_liveVars(calm /\ refundGoesOn(w))
  /\ \A c \in Checkers : WF_liveVars(calm /\ checkGoesOn(c))
  /\ \A j \in Jobs : WF_liveVars(calm /\ jobGoesOn(j))
  /\ \A k \in Keys : /\ WF_liveVars(calm /\ Age(k) /\ Patient(k) /\ storeFrame)
                     /\ WF_liveVars(calm /\ ReconcileDue(k) /\ storeFrame)
                     /\ WF_liveVars(calm /\ RefundDue(k) /\ storeFrame)
  /\ WF_liveVars(calm /\ NextPeriod /\ jobFrame)
  /\ WF_liveVars(calm /\ ProviderRecovers /\ providerFrame)

FairSpec == LiveInit /\ [][LiveNext]_liveVars /\ Fairness

(* A payment does not stay pending in silence: the client's retry, the worker
   or the job settles it, or it is handed to a person. *)
PaymentsSettle ==
  \A k \in Keys : payments[k].status = "pending" ~> payments[k].status # "pending" \/ recon[k].manual

(* A refund that is owed ends: recorded as done, or handed to a person. *)
RefundsSettle ==
  \A k \in Keys : refunds[k].status = "pending" ~> refunds[k].status \in {"succeeded", "manual_review"}

(* Money the provider took under a payment we gave up as expired is noticed:
   the job puts it before a person. *)
StrayChargeReported ==
  \A k \in Keys : payments[k].status = "expired" /\ charges[k] = "charged" ~>
    [key |-> k, kind |-> "status_mismatch", action |-> "manual"] \in items

=============================================================================
