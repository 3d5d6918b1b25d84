------------------------------ MODULE MCPayCast ------------------------------
(* PaymentSystem with one of two casts, the processes of the other stay idle:
   two executions of a key and ReconcileWorker, or one execution, the refund
   worker and the reconciliation job. *)
EXTENDS PaymentClaims, PaymentInvariant

CONSTANTS e1, e2, c1, w1, j1

VARIABLE cast

CastInit == Init /\ cast \in {{e1, e2, c1}, {e1, w1, j1}}

CastNext == /\ UNCHANGED cast
            /\ \/ Client \/ Clock
               \/ ProviderRecovers /\ providerFrame
               \/ "down" \in Faults /\ Outage
               \/ "crash" \in Faults /\ Crash
               \/ \E e \in Executors \cap cast : Pay(e)
               \/ \E w \in Refunders \cap cast : RefundStep(w)
               \/ \E c \in Checkers \cap cast : CheckStep(c)
               \/ \E j \in Jobs \cap cast : JobStep(j)

CastSpec == CastInit /\ [][CastNext]_<<vars, cast>>
=============================================================================
