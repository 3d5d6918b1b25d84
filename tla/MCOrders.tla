------------------------------ MODULE MCOrders ------------------------------
(* Three creations and two cancellations: two clients of one key, on one
   replica or (with another cart) on two, and a third that competes for the
   last item, asks for a product that does not exist or for none of one. *)
EXTENDS Orders, TLC

CONSTANTS c1, c2, c3, a, b, k1

Ask(r, k, cart) == [replica |-> r, key |-> k, cart |-> cart]
Both == (1 :> 1) @@ (2 :> 1)

MCStock == (1 :> 2) @@ (2 :> 1)

MCAsks == [c \in Creators |->
  CASE c = c1 -> {Ask(a, k1, Both)}
    [] c = c2 -> {Ask(a, k1, Both), Ask(b, k1, 2 :> 1)}
    [] OTHER  -> {Ask(b, NoKey, Both), Ask(b, NoKey, 3 :> 1), Ask(b, NoKey, 1 :> 0)}]

OrdersFairSpec == OrdersSpec /\ OrdersFairness
=============================================================================
