-------------------------- MODULE ReconciliationJob --------------------------
(***************************************************************************)
(* reconciliation.Job, run by every replica but once for each period: take *)
(* the period, list the provider's charges, read our payments, classify    *)
(* each key, repair what is safe, record the rest.  The history modelled   *)
(* fits into one window (48 h), so every payment and charge is in it.      *)
(***************************************************************************)
EXTENDS Provider, Classify

CONSTANT Jobs

VARIABLES job,        \* one Job for each replica
          periodOpen, \* job_leases.next_run_at has passed
          items       \* rows of reconciliation_items

Items == [key : Keys, kind : Kinds, action : {"auto_fixed", "manual"}]
NoItem == [key |-> None, kind |-> "matched", action |-> "manual"]

(* theirs and ours are the two snapshots; todo the keys of the window that are
   left; found the row about to be recorded. *)
JobRecord == [pc : {"idle", "list", "read", "check", "refund", "record"},
              theirs : [Keys -> Theirs], ours : [Keys -> Ours], todo : SUBSET Keys,
              found : Items \cup {NoItem}]

JobTypeOK ==
  /\ job \in [Jobs -> JobRecord]
  /\ \A j \in Jobs : job[j].pc \in {"refund", "record"} => job[j].found \in Items
  /\ periodOpen \in BOOLEAN
  /\ items \subseteq Items

IdleJob == [pc |-> "idle", theirs |-> [k \in Keys |-> "none"],
            ours |-> [k \in Keys |-> [status |-> "absent", refund |-> "none"]],
            todo |-> {}, found |-> NoItem]

JobInit == /\ job = [j \in Jobs |-> IdleJob]
           /\ periodOpen = TRUE
           /\ items = {}

jobShared == <<periodOpen, items>>

-----------------------------------------------------------------------------
\* The payments and charges of the window, which ends when the run begins.
Window == {k \in Keys : payments[k].status # "absent" \/ charges[k] # "none"}

\* JobLease.TryClaim; if its answer is lost the period passes without a run.
TryClaim(j) ==
  /\ job[j].pc = "idle" /\ periodOpen
  /\ periodOpen' = FALSE
  /\ \/ job' = [job EXCEPT ![j] = [@ EXCEPT !.pc = "list", !.todo = Window]]
     \/ "lost" \in Faults /\ UNCHANGED job
  /\ UNCHANGED <<items, storeVars, providerVars>>

NextPeriod ==
  /\ ~periodOpen
  /\ periodOpen' = TRUE
  /\ UNCHANGED <<job, items, storeVars, providerVars>>

\* An error on the way ends the run until the next period.
JobFails(j) ==
  /\ \/ job[j].pc = "list" /\ CallFails
     \/ job[j].pc \in {"read", "check", "record"} /\ "db" \in Faults
  /\ job' = [job EXCEPT ![j] = IdleJob]
  /\ UNCHANGED <<jobShared, storeVars, providerVars>>

JobCrash(j) ==
  /\ job[j].pc # "idle"
  /\ job' = [job EXCEPT ![j] = IdleJob]
  /\ UNCHANGED <<jobShared, storeVars, providerVars>>

\* Every key was looked at: the run is marked finished.
JobFinishes(j) ==
  /\ job[j].pc = "check" /\ job[j].todo = {}
  /\ job' = [job EXCEPT ![j] = IdleJob]
  /\ UNCHANGED <<jobShared, storeVars, providerVars>>

(* The provider's list reaches an hour beyond the window: for a key of the
   window it may hold a charge made after the run began. *)
ListCharges(j) ==
  /\ job[j].pc = "list" /\ seemsUp
  /\ job' = [job EXCEPT ![j] = [@ EXCEPT !.pc = "read", !.theirs = ListedCharges]]
  /\ UNCHANGED <<jobShared, storeVars, providerVars>>

ReadOurs(j) ==
  /\ job[j].pc = "read"
  /\ job' = [job EXCEPT ![j] = [@ EXCEPT
       !.pc = "check",
       !.ours = [k \in Keys |-> [status |-> payments[k].status, refund |-> refunds[k].status]]]]
  /\ UNCHANGED <<jobShared, storeVars, providerVars>>

\* The item of key k, to be recorded next.
Found(j, pc, k, action) ==
  job' = [job EXCEPT ![j] = [@ EXCEPT
            !.pc = pc, !.todo = job[j].todo \ {k},
            !.found = [key |-> k, kind |-> Classify(job[j].ours[k], job[j].theirs[k], TRUE).kind,
                       action |-> action]]]

\* Mutant of fix: the refund is marked done without the payment.
fixRefundOnly(j, k, action) ==
  \E res \in {"ok", "err", "transition", "order"} :
    LET next == IF res = "ok" THEN "auto_fixed" ELSE "manual"
    IN \/ /\ action = "payment_succeeded"
          /\ Transition(k, "succeeded", k, res) /\ Found(j, "record", k, next)
       \/ /\ action = "payment_failed"
          /\ Transition(k, "failed", None, res) /\ Found(j, "record", k, next)
       \/ /\ action = "refund_succeeded" /\ res = "ok"
          /\ Found(j, "refund", k, "auto_fixed") /\ UNCHANGED storeVars

\* Mutant of fix: the item does not depend on what became of the write.
fixRegardless(j, k, action) ==
  \E res \in {"ok", "err", "transition", "order"} :
    \/ /\ action = "payment_succeeded"
       /\ Transition(k, "succeeded", k, res) /\ Found(j, "record", k, "auto_fixed")
    \/ /\ action = "payment_failed"
       /\ Transition(k, "failed", None, res) /\ Found(j, "record", k, "auto_fixed")
    \/ /\ action = "refund_succeeded" /\ job[j].ours[k].status = "succeeded"
       /\ Transition(k, "refunded", None, res)
       /\ Found(j, IF res = "ok" THEN "refund" ELSE "record", k, "auto_fixed")

\* The first, or only, write of fix.
fix(j, k, action) ==
  \E res \in {"ok", "err", "transition", "order"} :
    LET next == IF res = "ok" THEN "auto_fixed" ELSE "manual"
    IN \/ /\ action = "payment_succeeded"
          /\ Transition(k, "succeeded", k, res) /\ Found(j, "record", k, next)
       \/ /\ action = "payment_failed"
          /\ Transition(k, "failed", None, res) /\ Found(j, "record", k, next)
       \/ /\ action = "refund_succeeded" /\ job[j].ours[k].status = "succeeded"
          /\ Transition(k, "refunded", None, res)
          /\ Found(j, IF res = "ok" THEN "refund" ELSE "record", k, next)

\* Classify one key: nothing to do, a case for a person, or a repair.
CheckKey(j) ==
  /\ job[j].pc = "check"
  /\ \E k \in job[j].todo :
       LET f == Classify(job[j].ours[k], job[j].theirs[k], TRUE)
       IN \/ /\ f.kind = "matched"
             /\ job' = [job EXCEPT ![j].todo = @ \ {k}] /\ UNCHANGED storeVars
          \/ f.action = "manual" /\ Found(j, "record", k, "manual") /\ UNCHANGED storeVars
          \/ fix(j, k, f.action)
          \/ /\ f.action = "refund_succeeded" /\ job[j].ours[k].status = "refunded"
             /\ Found(j, "refund", k, "auto_fixed") /\ UNCHANGED storeVars
  /\ UNCHANGED <<jobShared, providerVars>>

(* The second write of fix for a refund, in a transaction of its own; an error
   makes the item a manual one. *)
FixRefund(j) ==
  LET k == job[j].found.key
  IN /\ job[j].pc = "refund"
     /\ \E res \in {"ok", "err"} :
          /\ \/ /\ res \in Applied
                /\ refunds' = IF refunds[k].status \in {"pending", "manual_review"}
                                THEN [refunds EXCEPT ![k].status = "succeeded"] ELSE refunds
             \/ res \in Dropped /\ UNCHANGED refunds
          /\ job' = [job EXCEPT ![j] = [@ EXCEPT
               !.pc = "record", !.found.action = IF res = "ok" THEN "auto_fixed" ELSE "manual"]]
  /\ UNCHANGED <<orders, returned, payments, events, recon, jobShared, providerVars>>

record(j) ==
  /\ job[j].pc = "record"
  /\ items' = items \cup {job[j].found}
  /\ job' = [job EXCEPT ![j] = [@ EXCEPT !.pc = "check", !.found = NoItem]]
  /\ UNCHANGED <<periodOpen, storeVars, providerVars>>

=============================================================================
