------------------------------ MODULE Classify ------------------------------
(***************************************************************************)
(* reconciliation.Classify: compare our payment and the provider's record  *)
(* of one idempotency key.  Our side is the payment's status ("absent":    *)
(* no row) and its refund's ("none": no row); their side is the listed     *)
(* status ("none": no record); the two amounts only agree or differ.       *)
(***************************************************************************)
EXTENDS PaymentDomain

Ours   == [status : PaymentStatus, refund : {"none", "pending", "succeeded", "manual_review"}]
Theirs == {"none", "charged", "declined", "refunded"}

Finding(kind, action) == [kind |-> kind, action |-> action]

Kinds   == {"matched", "missing_at_provider", "missing_at_ours", "amount_mismatch", "status_mismatch"}
Actions == {"none", "payment_succeeded", "payment_failed", "refund_succeeded", "manual"}

\* Mutant of ClassifyStatus: a repair half done is not taken up again.
ClassifyStatusOnce(ours, theirs) ==
  CASE \/ ours.status = "succeeded" /\ theirs = "charged"
       \/ ours.status \in {"failed", "expired"} /\ theirs = "declined"
       \/ ours.status = "refunded" /\ theirs = "refunded"
         -> Finding("matched", "none")
    [] ours.status = "pending" /\ theirs = "charged"
         -> Finding("status_mismatch", "payment_succeeded")
    [] ours.status = "pending" /\ theirs = "declined"
         -> Finding("status_mismatch", "payment_failed")
    [] theirs = "refunded" /\ ours.refund \in {"pending", "manual_review"}
         /\ ours.status = "succeeded"
         -> Finding("status_mismatch", "refund_succeeded")
    [] OTHER -> Finding("status_mismatch", "manual")

\* Mutant of ClassifyStatus: an expired payment matches whatever the provider did.
ClassifyStatusExpired(ours, theirs) ==
  CASE \/ ours.status = "succeeded" /\ theirs = "charged"
       \/ ours.status = "failed" /\ theirs = "declined"
       \/ ours.status = "expired"
       \/ ours.status = "refunded" /\ theirs = "refunded" /\ ours.refund = "succeeded"
         -> Finding("matched", "none")
    [] ours.status = "pending" /\ theirs = "charged"
         -> Finding("status_mismatch", "payment_succeeded")
    [] ours.status = "pending" /\ theirs = "declined"
         -> Finding("status_mismatch", "payment_failed")
    [] OTHER -> Finding("status_mismatch", "manual")

\* Both sides have a record and the amounts do not contradict each other.
ClassifyStatus(ours, theirs) ==
  CASE \/ ours.status = "succeeded" /\ theirs = "charged"
       \/ ours.status \in {"failed", "expired"} /\ theirs = "declined"
       \/ ours.status = "refunded" /\ theirs = "refunded" /\ ours.refund = "succeeded"
         -> Finding("matched", "none")
    [] ours.status = "pending" /\ theirs = "charged"
         -> Finding("status_mismatch", "payment_succeeded")
    [] ours.status = "pending" /\ theirs = "declined"
         -> Finding("status_mismatch", "payment_failed")
    [] theirs = "refunded" /\ ours.refund \in {"pending", "manual_review"}
         /\ ours.status \in {"succeeded", "refunded"}
         -> Finding("status_mismatch", "refund_succeeded")
    [] OTHER -> Finding("status_mismatch", "manual")

\* Mutant of Classify: amounts are not compared.
ClassifyNoAmount(ours, theirs, sameAmount) ==
  CASE ours.status = "absent" /\ theirs \in {"none", "declined"} -> Finding("matched", "none")
    [] ours.status = "absent" /\ theirs \in {"charged", "refunded"}
         -> Finding("missing_at_ours", "manual")
    [] ours.status \in {"pending", "failed", "expired"} /\ theirs = "none" -> Finding("matched", "none")
    [] ours.status \in {"succeeded", "refunded"} /\ theirs = "none"
         -> Finding("missing_at_provider", "manual")
    [] OTHER -> ClassifyStatus(ours, theirs)

Classify(ours, theirs, sameAmount) ==
  CASE ours.status = "absent" /\ theirs \in {"none", "declined"} -> Finding("matched", "none")
    [] ours.status = "absent" /\ theirs \in {"charged", "refunded"}
         -> Finding("missing_at_ours", "manual")
    [] ours.status \in {"pending", "failed", "expired"} /\ theirs = "none" -> Finding("matched", "none")
    [] ours.status \in {"succeeded", "refunded"} /\ theirs = "none"
         -> Finding("missing_at_provider", "manual")
    [] ours.status # "absent" /\ theirs \in {"charged", "refunded"} /\ ~sameAmount
         -> Finding("amount_mismatch", "manual")
    [] OTHER -> ClassifyStatus(ours, theirs)

=============================================================================
