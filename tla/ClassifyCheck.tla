--------------------------- MODULE ClassifyCheck ---------------------------
(***************************************************************************)
(* What Classify should say, defined from where the money is and not from  *)
(* the code's table, for every pair of records the job can meet.           *)
(***************************************************************************)
EXTENDS Classify

OurMoney(o) == CASE o.status = "pending"   -> "unknown"
                 [] o.status = "succeeded" -> "taken"
                 [] o.status = "refunded"  -> "returned"
                 [] OTHER -> "untouched"

TheirMoney(t) == CASE t = "charged"  -> "taken"
                   [] t = "refunded" -> "returned"
                   [] OTHER -> "untouched"

(* Nothing to report: both sides place the same money in the same hands, with
   its refund closed, or the provider has not heard of a payment under way. *)
Agree(o, t, same) ==
  \/ OurMoney(o) = "unknown" /\ t = "none"
  \/ /\ OurMoney(o) = TheirMoney(t)
     /\ TheirMoney(t) # "untouched" => same
     /\ TheirMoney(t) = "returned" => o.refund = "succeeded"

(* Repairs that move our side forward, by transitions the domain allows, to
   what the provider already did with the amount we expect. *)
SafeRepairs(o, t, same) ==
  {a \in {"payment_succeeded", "payment_failed", "refund_succeeded"} :
     \/ a = "payment_succeeded" /\ CanTransitionPayment(o.status, "succeeded") /\ t = "charged" /\ same
     \/ a = "payment_failed" /\ CanTransitionPayment(o.status, "failed") /\ t = "declined"
     \/ /\ a = "refund_succeeded" /\ t = "refunded" /\ same
        /\ o.refund \in {"pending", "manual_review"}
        /\ o.status = "refunded" \/ CanTransitionPayment(o.status, "refunded")}

\* A payment without a row has no refund either.
Inputs == {o \in Ours : o.status = "absent" => o.refund = "none"}

(* What Classify says of one pair: exactly the disagreements about money are
   reported, those that have a safe repair are repaired, every other is left
   to a person. *)
SaysRight(ours, theirs, sameAmount) ==
  LET f == Classify(ours, theirs, sameAmount)
      safe == SafeRepairs(ours, theirs, sameAmount)
  IN /\ f.kind = "matched" <=> Agree(ours, theirs, sameAmount)
     /\ f.kind = "matched" => f.action = "none"
     /\ f.kind # "matched" /\ safe # {} => f.action \in safe
     /\ f.kind # "matched" /\ safe = {} => f.action = "manual"

=============================================================================
