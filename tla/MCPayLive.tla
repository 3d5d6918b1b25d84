----------------------------- MODULE MCPayLive -----------------------------
(* PaymentLiveness on a small instance. *)
EXTENDS PaymentLiveness
=============================================================================
