---------------------------- MODULE AtomicOrders ----------------------------
(***************************************************************************)
(* What creating and cancelling orders promises, without executions,       *)
(* replicas, locks, retries or crashes: an order is made and cancelled in  *)
(* one instant, with its whole cart; a key names one order for good; a     *)
(* client is told one order, once, and only the one it is entitled to.     *)
(***************************************************************************)
EXTENDS Integers

CONSTANTS Creators, Keys, NoKey, None, Products, Stock0

VARIABLES ask,     \* request -> key and cart
          orders,  \* request -> the order it made
          keys,    \* key -> the order it names
          stock,   \* product -> stock
          told     \* request -> the order its client was told

atomicVars == <<ask, orders, keys, stock, told>>

AtomicInit ==
  /\ orders = [c \in Creators |-> "none"]
  /\ keys = [k \in Keys |-> None]
  /\ stock = Stock0
  /\ told = [c \in Creators |-> None]

\* The whole cart, of products that exist, or nothing.
Sellable(cart) ==
  /\ DOMAIN cart # {}
  /\ \A p \in DOMAIN cart : p \in Products /\ cart[p] > 0 /\ cart[p] <= stock[p]

Create(c) ==
  LET cart == ask[c].cart
      k == ask[c].key
  IN /\ orders[c] = "none" /\ Sellable(cart)
     /\ k # NoKey => keys[k] = None
     /\ orders' = [orders EXCEPT ![c] = "open"]
     /\ keys' = IF k = NoKey THEN keys ELSE [keys EXCEPT ![k] = c]
     /\ stock' = [p \in Products |-> IF p \in DOMAIN cart THEN stock[p] - cart[p] ELSE stock[p]]
     /\ UNCHANGED <<ask, told>>

Cancel(c) ==
  LET cart == ask[c].cart
  IN /\ orders[c] = "open"
     /\ orders' = [orders EXCEPT ![c] = "cancelled"]
     /\ stock' = [p \in Products |-> IF p \in DOMAIN cart THEN stock[p] + cart[p] ELSE stock[p]]
     /\ UNCHANGED <<ask, keys, told>>

Tell(c) ==
  /\ told[c] = None
  /\ \E o \in Creators : /\ orders[o] # "none"
                         /\ IF ask[c].key = NoKey THEN o = c ELSE keys[ask[c].key] = o
                         /\ told' = [told EXCEPT ![c] = o]
  /\ UNCHANGED <<ask, orders, keys, stock>>

AtomicNext == \E c \in Creators : Create(c) \/ Cancel(c) \/ Tell(c)

AtomicSpec == AtomicInit /\ [][AtomicNext]_atomicVars

=============================================================================
