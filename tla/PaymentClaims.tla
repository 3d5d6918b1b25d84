---------------------------- MODULE PaymentClaims ----------------------------
(***************************************************************************)
(* What the job makes of its snapshots, and what a comment says about      *)
(* ReconcileWorker and the code does not keep.                             *)
(***************************************************************************)
EXTENDS PaymentSystem, ClassifyCheck

(* Whatever moved between the job's two reads, and whatever an earlier run left
   half repaired, the verdict on the two snapshots of a key is the one the
   money calls for. *)
ClassifyAgrees ==
  \A j \in Jobs : job[j].pc = "check" =>
    \A k \in job[j].todo, sameAmount \in BOOLEAN :
      SaysRight(job[j].ours[k], job[j].theirs[k], sameAmount)

(* reconcile_worker.go: a key the provider has not seen for 15 minutes never
   reached it "and will not any more", so an expired payment is never
   charged. *)
ExpiredNeverCharged ==
  \A k \in Keys : payments[k].status = "expired" => charges[k] # "charged"

=============================================================================
