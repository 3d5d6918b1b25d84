--------------------------- MODULE PaymentDomain ---------------------------
(***************************************************************************)
(* The two state machines of package domain: an order's status and a       *)
(* payment's status, each with its table of allowed transitions.           *)
(***************************************************************************)

\* Every order starts "pending"; "absent" is an order nobody placed yet.
OrderStatus == {"absent", "pending", "paid", "shipped", "delivered", "cancelled"}

\* "absent" is a payment whose idempotency key has no row yet.
PaymentStatus == {"absent", "pending", "succeeded", "failed", "expired", "refunded"}

allowedTransitions ==
  { <<"pending", "paid">>, <<"pending", "cancelled">>,
    <<"paid", "shipped">>, <<"paid", "cancelled">>,
    <<"shipped", "delivered">> }

CanTransition(from, to) == <<from, to>> \in allowedTransitions

allowedPaymentTransitions ==
  { <<"pending", "succeeded">>, <<"pending", "failed">>, <<"pending", "expired">>,
    <<"succeeded", "refunded">> }

CanTransitionPayment(from, to) == <<from, to>> \in allowedPaymentTransitions

=============================================================================
