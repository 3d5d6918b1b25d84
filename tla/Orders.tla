------------------------------- MODULE Orders -------------------------------
(***************************************************************************)
(* Creating and cancelling orders on several replicas.  Requests with one  *)
(* idempotency key on one replica share an execution (singleflight); on    *)
(* different replicas they meet at the key's row.  An execution is one     *)
(* transaction, run again when the database picks it as the victim of a    *)
(* deadlock: insert the key, then take the products from stock in the      *)
(* order of their ids, holding every row until the end.  A cancellation    *)
(* locks the order, then its products in the order of the query's plan.    *)
(* What a transaction changes shows at its commit, so stock is the         *)
(* committed one and a transaction is the rows it holds.  An order is      *)
(* named by the request whose execution made it.  Invalidating the product *)
(* cache is left to ProductCache, the event to OutboxRelay.                *)
(***************************************************************************)
EXTENDS Integers, FiniteSetsExt

CONSTANTS Creators,    \* requests to create an order
          Cancels,     \* requests to cancel one
          Replicas, Keys,
          NoKey,       \* a request without an idempotency key
          None,
          Products,    \* ids of the products that exist
          Stock0,      \* product -> stock at the start
          Asks,        \* request -> what its client may ask for
          MaxAttempts, \* retries after a deadlock
          OrderFaults  \* "db": a statement fails; "unsure": a commit goes through
                       \* and its caller sees an error; "deadline", "crash"

ProductIds == UNION {DOMAIN a.cart : a \in UNION {Asks[c] : c \in Creators}}

ASSUME OrdersAssumption ==
  /\ Products \subseteq Nat /\ ProductIds \subseteq Nat
  /\ Stock0 \in [Products -> Nat]
  /\ NoKey \notin Keys
  /\ None \notin Creators \cup ProductIds
  /\ Creators \cap Cancels = {}
  /\ MaxAttempts \in Nat
  /\ \A c \in Creators : \A a \in Asks[c] :
       /\ a.replica \in Replicas /\ a.key \in Keys \cup {NoKey}
       /\ \A p \in DOMAIN a.cart : a.cart[p] \in Nat

VARIABLES ask,     \* request -> replica, key and cart (product -> quantity)
          client,  \* request -> its client's wait and answer
          tx,      \* request -> its execution
          orders,  \* request -> the order it made
          keys,    \* key -> the order in idempotency_keys
          stock    \* product -> stock

orderVars == <<ask, client, tx, orders, keys, stock>>

Txs == Creators \cup Cancels

\* want: the row it locks next; order: the order it cancels, or the one it answers with.
Execution == [pc : {"idle", "claim", "rows", "done"}, locks : SUBSET ProductIds,
              want : ProductIds \cup {None}, order : Creators \cup {None}, tries : 0..MaxAttempts]

NoExecution == [pc |-> "idle", locks |-> {}, want |-> None, order |-> None, tries |-> 0]

OrdersTypeOK ==
  /\ \A c \in Creators : ask[c] \in Asks[c]
  /\ client \in [Creators -> [at : {"idle", "waiting", "answered"},
                              leader : Creators \cup {None}, order : Creators \cup {None}]]
  /\ tx \in [Txs -> Execution]
  /\ orders \in [Creators -> {"none", "open", "cancelled"}]
  /\ keys \in [Keys -> Creators \cup {None}]
  /\ stock \in [Products -> Int]

OrdersInit ==
  /\ ask \in {f \in [Creators -> UNION {Asks[c] : c \in Creators}] : \A c \in Creators : f[c] \in Asks[c]}
  /\ client = [c \in Creators |-> [at |-> "idle", leader |-> None, order |-> None]]
  /\ tx = [x \in Txs |-> NoExecution]
  /\ orders = [c \in Creators |-> "none"]
  /\ keys = [k \in Keys |-> None]
  /\ stock = Stock0

-----------------------------------------------------------------------------
Running(x) == tx[x].pc \in {"claim", "rows"}

Cart(x) == ask[IF x \in Creators THEN x ELSE tx[x].order].cart

\* Mutant of Ended: the transaction is not rolled back and keeps its rows.
EndedKeepsRows(t, o) == [t EXCEPT !.pc = "done", !.want = None, !.order = o]

\* The transaction is over, its locks are gone; o is what its caller learns.
Ended(t, o) == [t EXCEPT !.pc = "done", !.locks = {}, !.want = None, !.order = o]

\* Mutant of NextRow: the items are not sorted.
NextRowUnsorted(x, rest) == IF rest = {} THEN {None} ELSE rest

\* CreateOrder goes through its items by id, the cancelling UPDATE as planned.
NextRow(x, rest) ==
  IF rest = {} THEN {None}
  ELSE {p \in rest : x \in Creators => \A q \in rest : p <= q}

RowFree(x, p) == \A y \in Txs \ {x} : p \notin tx[y].locks

-----------------------------------------------------------------------------
Leads(l, c) == /\ ask[l].key = ask[c].key /\ ask[l].key # NoKey
               /\ ask[l].replica = ask[c].replica
               /\ Running(l)

\* A request joins the execution of its key on its replica, or starts one.
Arrive(c) ==
  /\ client[c].at = "idle"
  /\ \/ \E l \in Creators :
          /\ Leads(l, c)
          /\ client' = [client EXCEPT ![c] = [@ EXCEPT !.at = "waiting", !.leader = l]]
          /\ UNCHANGED tx
     \/ /\ \A l \in Creators : ~Leads(l, c)
        /\ client' = [client EXCEPT ![c] = [@ EXCEPT !.at = "waiting", !.leader = c]]
        /\ tx' = [tx EXCEPT ![c].pc = "claim"]
  /\ UNCHANGED <<ask, orders, keys, stock>>

\* Mutant of Invalid: a quantity of zero is let through.
InvalidIfEmpty(cart) == DOMAIN cart = {}

\* A list of items that is empty, repeats a product or has a quantity of 0.
Invalid(cart) == DOMAIN cart = {} \/ \E p \in DOMAIN cart : cart[p] = 0

\* Mutant of KeyFree: the key's row is looked up without waiting for its writer.
KeyFreeAlways(c) == TRUE

\* Inserting a key waits for the transaction that has inserted it.
KeyFree(c) == \A d \in Creators \ {c} : tx[d].pc = "rows" => ask[d].key # ask[c].key

(* The transaction begins with the key: a request that finds it taken answers
   with its order, the others go on to their first product. *)
ClaimKey(c) ==
  LET k == ask[c].key
      goOn == \E w \in NextRow(c, DOMAIN ask[c].cart) :
                tx' = [tx EXCEPT ![c] = [@ EXCEPT !.pc = "rows", !.want = w]]
  IN /\ tx[c].pc = "claim"
     /\ \/ Invalid(ask[c].cart) /\ tx' = [tx EXCEPT ![c] = Ended(@, None)]
        \/ ~Invalid(ask[c].cart) /\ k = NoKey /\ goOn
        \/ /\ ~Invalid(ask[c].cart) /\ k # NoKey /\ KeyFree(c)
           /\ IF keys[k] = None THEN goOn
              ELSE tx' = [tx EXCEPT ![c] = Ended(@, keys[k])]
     /\ UNCHANGED <<ask, client, orders, keys, stock>>

\* The product exists and the conditional UPDATE finds the quantity in stock.
Enough(c, p) == p \in Products /\ stock[p] >= ask[c].cart[p]

\* One row of stock, locked and changed; an order that cannot have it is rolled back.
LockRow(x) ==
  LET p == tx[x].want
  IN /\ tx[x].pc = "rows" /\ p # None
     /\ RowFree(x, p)
     /\ \/ /\ x \in Creators => Enough(x, p)
           /\ \E w \in NextRow(x, DOMAIN Cart(x) \ (tx[x].locks \cup {p})) :
                tx' = [tx EXCEPT ![x] = [tx[x] EXCEPT !.locks = @ \cup {p}, !.want = w]]
        \/ /\ x \in Creators /\ ~Enough(x, p)
           /\ tx' = [tx EXCEPT ![x] = Ended(@, None)]
     /\ UNCHANGED <<ask, client, orders, keys, stock>>

(* Order, items, key, stock and outbox row appear together.  Commit runs on
   the context of the execution: at its deadline the order may be there and
   the answer an error. *)
Commit(c) ==
  /\ tx[c].pc = "rows" /\ tx[c].want = None
  /\ orders' = [orders EXCEPT ![c] = "open"]
  /\ keys' = [k \in Keys |-> IF k = ask[c].key THEN c ELSE keys[k]]
  /\ stock' = [p \in Products |-> IF p \in tx[c].locks THEN stock[p] - ask[c].cart[p] ELSE stock[p]]
  /\ \/ tx' = [tx EXCEPT ![c] = Ended(@, c)]
     \/ "unsure" \in OrderFaults /\ tx' = [tx EXCEPT ![c] = Ended(@, None)]
  /\ UNCHANGED <<ask, client>>

-----------------------------------------------------------------------------
\* OrderService.CancelOrder: an order the client knows, not cancelled when looked up.
BeginCancel(y) ==
  /\ tx[y].pc = "idle"
  /\ \E o \in Creators :
       /\ orders[o] # "none"
       /\ tx' = [tx EXCEPT ![y] = IF orders[o] = "cancelled" THEN Ended(@, o)
                                  ELSE [@ EXCEPT !.pc = "claim", !.order = o]]
  /\ UNCHANGED <<ask, client, orders, keys, stock>>

\* Mutant of Cancellable: the status read before the lock is relied on.
CancellableAsRead(o) == TRUE

\* The status that counts is the one under the lock.
Cancellable(o) == orders[o] # "cancelled"

(* SELECT ... FOR UPDATE, then the status; a payment in progress (PaymentStore)
   may refuse the cancellation. *)
LockOrder(y) ==
  LET o == tx[y].order
  IN /\ tx[y].pc = "claim"
     /\ \A z \in Cancels \ {y} : tx[z].pc = "rows" => tx[z].order # o
     /\ \/ /\ Cancellable(o)
           /\ \E w \in NextRow(y, DOMAIN ask[o].cart) :
                tx' = [tx EXCEPT ![y] = [@ EXCEPT !.pc = "rows", !.want = w]]
        \/ tx' = [tx EXCEPT ![y] = Ended(@, o)]
     /\ UNCHANGED <<ask, client, orders, keys, stock>>

CommitCancel(y) ==
  LET o == tx[y].order
  IN /\ tx[y].pc = "rows" /\ tx[y].want = None
     /\ orders' = [orders EXCEPT ![o] = "cancelled"]
     /\ stock' = [p \in Products |-> IF p \in tx[y].locks THEN stock[p] + ask[o].cart[p] ELSE stock[p]]
     /\ tx' = [tx EXCEPT ![y] = Ended(@, o)]
     /\ UNCHANGED <<ask, client, keys>>

-----------------------------------------------------------------------------
WaitsFor(x, y) == tx[x].pc = "rows" /\ x # y /\ tx[x].want \in tx[y].locks

Waiting == {x \in Txs : \E y \in Txs : WaitsFor(x, y)}

\* Transactions that wait for each other in a circle.
Circle(S) == /\ S # {}
             /\ \A x \in S : (\E y \in S : WaitsFor(x, y)) /\ (\E y \in S : WaitsFor(y, x))

\* retry.Do wraps creations only.
Retriable(x) == x \in Creators /\ tx[x].tries < MaxAttempts

(* The database breaks a circle by failing one of its transactions; retry.Do
   runs a creation again, a cancellation is answered with the error. *)
Victim(x) ==
  /\ \E S \in SUBSET Waiting : x \in S /\ Circle(S)
  /\ tx' = [tx EXCEPT ![x] = IF Retriable(x)
                             THEN [tx[x] EXCEPT !.pc = "claim", !.locks = {}, !.want = None,
                                                !.tries = @ + 1]
                             ELSE Ended(@, None)]
  /\ UNCHANGED <<ask, client, orders, keys, stock>>

\* A statement fails, or the execution's time is up: rolled back, not retried.
Fail(x) ==
  /\ "db" \in OrderFaults /\ Running(x)
  /\ tx' = [tx EXCEPT ![x] = Ended(@, None)]
  /\ UNCHANGED <<ask, client, orders, keys, stock>>

\* Mutant of Answer: an error is answered with the id the attempt had got.
AnswerAnyway(c) ==
  /\ client[c].at = "waiting" /\ tx[client[c].leader].pc = "done"
  /\ client' = [client EXCEPT ![c] = [@ EXCEPT !.at = "answered", !.order = client[c].leader]]
  /\ UNCHANGED <<ask, tx, orders, keys, stock>>

\* Everyone who waits for an execution gets its result.
Answer(c) ==
  /\ client[c].at = "waiting" /\ tx[client[c].leader].pc = "done"
  /\ client' = [client EXCEPT ![c] = [@ EXCEPT !.at = "answered", !.order = tx[client[c].leader].order]]
  /\ UNCHANGED <<ask, tx, orders, keys, stock>>

\* A client's deadline: with a key the execution goes on without it.
Leave(c) ==
  /\ "deadline" \in OrderFaults
  /\ client[c].at = "waiting" /\ ask[c].key # NoKey
  /\ client' = [client EXCEPT ![c].at = "answered"]
  /\ UNCHANGED <<ask, tx, orders, keys, stock>>

\* A replica dies with its requests; their transactions are rolled back.
Crash(r) ==
  LET hit(c) == c \in Creators /\ ask[c].replica = r
  IN /\ "crash" \in OrderFaults
     /\ \E c \in Creators : hit(c) /\ Running(c)
     /\ tx' = [x \in Txs |-> IF hit(x) /\ Running(x) THEN Ended(tx[x], None) ELSE tx[x]]
     /\ client' = [c \in Creators |-> IF hit(c) /\ client[c].at = "waiting"
                                      THEN [client[c] EXCEPT !.at = "answered"] ELSE client[c]]
     /\ UNCHANGED <<ask, orders, keys, stock>>

CreateStep(c) == ClaimKey(c) \/ LockRow(c) \/ Commit(c) \/ Victim(c)
CancelStep(y) == LockOrder(y) \/ LockRow(y) \/ CommitCancel(y) \/ Victim(y)

OrdersNext ==
  \/ \E c \in Creators : Arrive(c) \/ CreateStep(c) \/ Fail(c) \/ Answer(c) \/ Leave(c)
  \/ \E y \in Cancels : BeginCancel(y) \/ CancelStep(y) \/ Fail(y)
  \/ \E r \in Replicas : Crash(r)

OrdersSpec == OrdersInit /\ [][OrdersNext]_orderVars

\* Statements end, the database breaks deadlocks, results are handed out.
OrdersFairness == /\ \A c \in Creators : WF_orderVars(CreateStep(c)) /\ WF_orderVars(Answer(c))
                  /\ \A y \in Cancels : WF_orderVars(CancelStep(y))

-----------------------------------------------------------------------------
(* Whatever the replicas, retries and losses, a key makes one order. *)
OneOrderPerKey ==
  \A c, d \in Creators : /\ orders[c] # "none" /\ orders[d] # "none"
                         /\ ask[c].key = ask[d].key /\ ask[c].key # NoKey
                         => c = d

(* An id a client is given is of an order that exists, and every client of a
   key is given the same one, by whichever replica and after whatever errors. *)
AnswersAgree ==
  \A c \in Creators :
    LET o == client[c].order
    IN o # None => /\ orders[o] # "none"
                   /\ ask[o].key = ask[c].key
                   /\ IF ask[c].key = NoKey THEN o = c ELSE keys[ask[c].key] = o

\* What a transaction has taken of a product and not committed is in stock.
StockCoversHeld ==
  \A p \in Products : /\ stock[p] >= 0
                      /\ \A c \in Creators : p \in tx[c].locks => stock[p] >= ask[c].cart[p]

(* No item is lost, made or sold twice, whatever the interleaving of orders,
   cancellations and rollbacks: stock and what open orders hold add up to the
   stock at the start, a cancellation gives back once, and stock covers what
   running transactions have taken. *)
StockConserved ==
  /\ StockCoversHeld
  /\ \A p \in Products :
       stock[p] + MapThenSumSet(LAMBDA c : ask[c].cart[p],
                                {c \in Creators : orders[c] = "open" /\ p \in DOMAIN ask[c].cart})
         = Stock0[p]

(* TestConcurrency_OppositeOrder_NoDeadlock for any overlap: creations never
   wait in a circle.  A circle needs a cancellation, which does not sort. *)
CreationsNeverCircle == \A S \in SUBSET (Waiting \cap Creators) : ~Circle(S)

\* What each client has been told; executions, replicas and locks are hidden.
Atomic == INSTANCE AtomicOrders WITH told <- [c \in Creators |-> client[c].order]

(* Transactions that take a cart row by row, are rolled back, run again, cut off
   or answered with an error after their commit look like orders that are made
   and cancelled in one instant: never half a cart, never a cart that is not
   there, one order for a key, and one answer. *)
ImplementsAtomic == Atomic!AtomicSpec

(* Every request ends, so again and again there is a moment when nobody waits:
   deadlocks are broken, and no rollback leaves rows locked. *)
RequestsEnd == []<>(/\ \A c \in Creators : client[c].at # "waiting"
                    /\ \A y \in Cancels : ~Running(y))

=============================================================================
