-------------------------- MODULE PaymentInvariant --------------------------
(***************************************************************************)
(* The inductive invariant behind the safety properties of PaymentSystem:  *)
(* what the tables and the provider's journal say of each other, and what  *)
(* each process may still rely on of what it read before.                  *)
(***************************************************************************)
EXTENDS PaymentSystem

Kept(k) == payments[k].status \in {"succeeded", "refunded"}
Held(k) == payments[k].status \in {"pending", "succeeded", "refunded"}

\* A payment, its order and its charge.
PaymentRows ==
  \A k \in Keys :
    /\ payments[k].status # "absent" => payments[k].order \in Orders
    /\ payments[k].status = "pending" => orders[payments[k].order] = "pending"
    /\ payments[k].status = "succeeded" => orders[payments[k].order] \in {"paid", "cancelled"}
    /\ payments[k].status = "refunded" => orders[payments[k].order] = "cancelled"
    /\ Kept(k) => payments[k].charge = k /\ charges[k] = "charged"
    /\ payments[k].status = "failed" => charges[k] = "declined"
    /\ charges[k] # "none" => payments[k].status # "absent"

\* A payment and its refund, ours and the provider's.
RefundRows ==
  /\ \A k \in Keys :
       /\ refunds[k].status # "none" => Kept(k) /\ orders[payments[k].order] = "cancelled"
       /\ refunds[k].status = "succeeded" => payments[k].status = "refunded"
       /\ payments[k].status = "succeeded" /\ orders[payments[k].order] = "cancelled"
            => refunds[k].status \in {"pending", "manual_review"}
       /\ payments[k].status = "refunded" => <<k, k>> \in providerRefunds
  /\ \A r \in providerRefunds : r[1] = r[2] /\ refunds[r[1]].status # "none"

\* An order has at most one payment that may hold money, and a paid one has it.
OrderRows ==
  /\ \A k, l \in Keys : Held(k) /\ Held(l) /\ payments[k].order = payments[l].order => k = l
  /\ \A o \in Orders : orders[o] = "paid" =>
       \E k \in Keys : payments[k].order = o /\ payments[k].status = "succeeded"

Rows == PaymentRows /\ RefundRows /\ OrderRows

-----------------------------------------------------------------------------
\* What each process knows, although others have moved on since it looked.
ExecKnows(e) ==
  LET k == exec[e].key
  IN /\ exec[e].pc \in {"charge", "record"} => payments[k].status # "absent"
     /\ exec[e].pc = "record" => charges[k] = exec[e].result
     /\ exec[e].pc = "finish" /\ exec[e].result = "200" => Kept(k)
     /\ exec[e].pc = "finish" /\ exec[e].result = "402" => charges[k] = "declined"

RequestKnows(k) ==
  /\ requests[k].status = "completed" /\ requests[k].code = "200" => Kept(k)
  /\ requests[k].status = "completed" /\ requests[k].code = "402" => charges[k] = "declined"

RefunderKnows(w) ==
  LET d == refunder[w].cur
  IN /\ \A b \in refunder[w].batch : b.charge = b.key /\ refunds[b.key].status # "none"
     /\ d # NoRefund => refunds[d.key].status # "none"
     /\ d # NoRefund /\ refunder[w].answer = "ok" => <<d.key, d.key>> \in providerRefunds

CheckerKnows(c) ==
  checker[c].cur # NoPayment /\ checker[c].status \in {"charged", "declined"}
    => charges[checker[c].cur.key] = checker[c].status

JobKnows(j) ==
  /\ \A k \in Keys :
       /\ job[j].theirs[k] \in {"charged", "declined"} => charges[k] = job[j].theirs[k]
       /\ job[j].theirs[k] = "refunded" => <<k, k>> \in providerRefunds
       /\ job[j].ours[k].status = "refunded" => payments[k].status = "refunded"
  /\ job[j].pc = "refund" => payments[job[j].found.key].status = "refunded"

Knowledge ==
  /\ \A e \in Executors : ExecKnows(e)
  /\ \A k \in Keys : RequestKnows(k)
  /\ \A w \in Refunders : RefunderKnows(w)
  /\ \A c \in Checkers : CheckerKnows(c)
  /\ \A j \in Jobs : JobKnows(j)

MoneyInv == TypeOK /\ Rows /\ Knowledge

=============================================================================
