------------------------------- MODULE MCPay -------------------------------
(* PaymentSystem on a small instance. *)
EXTENDS PaymentClaims, PaymentInvariant, TLC

Symmetry == Permutations(Keys) \cup Permutations(Orders) \cup Permutations(Executors)
            \cup Permutations(Refunders) \cup Permutations(Checkers) \cup Permutations(Jobs)
=============================================================================
