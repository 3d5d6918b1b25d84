---------------------------- MODULE OrdersProofs ----------------------------
(***************************************************************************)
(* What order creation, cancellation and listing promise, for any number   *)
(* of requests, replicas, products and pages.                              *)
(***************************************************************************)
EXTENDS Orders, OrderListing, WellFoundedInduction, FiniteSetTheorems, TLAPS

-----------------------------------------------------------------------------
\* The listing.

(* What a page walk has behind it: at its start nothing is listed, and from
   then on exactly the orders at or above the cursor can have been. *)
Walk ==
  /\ listing = "idle" => \A i \in Ids : listed[i] = 0
  /\ listing = "paging" /\ cursor = 0 => \A i \in Ids : listed[i] = 0
  /\ listing = "paging" /\ cursor > 0 =>
       \A i \in Ids : /\ listed[i] > 0 => i >= cursor
                      /\ i \in atStart /\ i >= cursor => listed[i] = 1

\* What the listing began with is there, and the ids to come are not used.
StillThere == /\ atStart \subseteq Visible
              /\ \A i \in Ids : i > lastId => row[i] = "none"

ListingInv == ListingTypeOK /\ Walk /\ StillThere /\ ListingComplete

(* A page takes the newest rows below the cursor, so the rows below the new
   cursor are those it left out. *)
LEMMA PageInv ==
  ASSUME ListingInv, NEW n \in PageSizes, GetOrders(n)
  PROVE  ListingInv'
  <1> DEFINE S == Below(cursor)
             limit == PageLimit(n)
  <1>1. PICK P \in SUBSET S :
          /\ IsPage(P, S, limit)
          /\ listed' = [i \in Ids |-> IF i \in P /\ listed[i] < 2 THEN listed[i] + 1 ELSE listed[i]]
          /\ IF IsLast(P, limit)
             THEN listing' = "ended" /\ UNCHANGED cursor
             ELSE /\ \E last \in P : (\A i \in P : last <= i) /\ cursor' = last
                  /\ UNCHANGED listing
    BY DEF GetOrders
  <1> HIDE DEF limit
  <1>2. listing = "paging" /\ lastId' = lastId /\ row' = row /\ atStart' = atStart
    BY DEF GetOrders
  <1>3. /\ lastId \in 0..MaxId /\ cursor \in 0..MaxId /\ atStart \subseteq Ids
        /\ row \in [Ids -> {"none", "inserted", "visible", "gone"}]
        /\ listed \in [Ids -> 0..2] /\ MaxId \in Nat
    BY ListingAssumption DEF ListingInv, ListingTypeOK
  <1>4. S \subseteq Ids /\ Ids \subseteq Nat \ {0}
    BY <1>3 DEF Below, Visible, Ids
  <1>5. \A i \in S : listed[i] = 0
    <2> SUFFICES ASSUME NEW i \in S PROVE listed[i] = 0
      OBVIOUS
    <2>1. i \in Ids /\ i \in Nat /\ listed[i] \in 0..2 /\ (cursor > 0 => i < cursor)
      BY <1>3, <1>4 DEF Below
    <2> QED
      BY <1>2, <1>3, <2>1 DEF ListingInv, Walk
  <1>6. listed' = [i \in Ids |-> IF i \in P THEN 1 ELSE listed[i]]
    BY <1>1, <1>3, <1>4, <1>5
  <1>7. \A i \in Ids : listed[i] \in 0..1
    BY <1>3 DEF ListingInv, ListingComplete
  <1>8. StillThere'
    BY <1>2 DEF ListingInv, StillThere, Visible
  <1>9. CASE IsLast(P, limit)
    <2>1. P = S /\ listing' = "ended" /\ cursor' = cursor
      BY <1>1, <1>9 DEF IsPage, IsLast
    <2>2. ListingTypeOK'
      BY <1>2, <1>3, <1>6, <2>1 DEF ListingTypeOK
    <2>3. Walk'
      BY <2>1 DEF Walk
    <2>4. \A i \in atStart : i \in P \/ listed[i] = 1
      BY <1>2, <1>3, <1>4, <2>1 DEF ListingInv, Walk, StillThere, Below, Visible
    <2>5. ListingComplete'
      BY <1>2, <1>3, <1>6, <1>7, <2>4 DEF ListingComplete
    <2> QED
      BY <1>8, <2>2, <2>3, <2>5 DEF ListingInv
  <1>10. CASE ~IsLast(P, limit)
    <2>1. PICK last \in P : (\A i \in P : last <= i) /\ cursor' = last
      BY <1>1, <1>10
    <2>2. listing' = "paging"
      BY <1>1, <1>2, <1>10
    <2>3. last \in Ids /\ last \in S /\ last \in Nat \ {0}
      BY <1>1, <1>4, <2>1
    <2>4. ListingTypeOK'
      <3>1. cursor' \in 0..MaxId
        BY <2>1, <2>3 DEF Ids
      <3>2. listed' \in [Ids -> 0..2]
        BY <1>3, <1>6
      <3> QED
        BY <1>2, <1>3, <2>2, <3>1, <3>2 DEF ListingTypeOK
    <2>5. \A i \in Ids : listed[i] > 0 => i >= last
      BY <1>2, <1>3, <1>4, <1>7, <2>3 DEF ListingInv, Walk, Below
    <2>6. \A i \in atStart : i >= last => i \in P \/ listed[i] = 1
      <3> SUFFICES ASSUME NEW i \in atStart, i >= last, i \notin P PROVE listed[i] = 1
        OBVIOUS
      <3>1. i \in Visible /\ i \in Ids
        BY <1>3 DEF ListingInv, StillThere
      <3>2. i \notin S
        <4>1. i \in Nat /\ last \in Nat
          BY <1>4, <2>3, <3>1
        <4>2. i \in S => last > i
          BY <1>1, <2>1 DEF IsPage
        <4> QED
          BY <4>1, <4>2
      <3>3. cursor > 0 /\ i >= cursor
        BY <1>3, <1>4, <3>1, <3>2 DEF Below
      <3> QED
        BY <1>2, <3>1, <3>3 DEF ListingInv, Walk
    <2>7. Walk'
      <3>1. cursor' > 0
        BY <2>1, <2>3
      <3>2. \A i \in Ids : listed'[i] > 0 => i >= last
        BY <1>4, <1>6, <2>1, <2>5
      <3>3. \A i \in Ids : i \in atStart /\ i >= last => listed'[i] = 1
        BY <1>6, <2>6
      <3> QED
        BY <1>2, <2>1, <2>2, <2>3, <3>1, <3>2, <3>3 DEF Walk
    <2>8. ListingComplete'
      BY <1>6, <1>7, <2>2 DEF ListingComplete
    <2> QED
      BY <1>8, <2>4, <2>7, <2>8 DEF ListingInv
  <1> QED
    BY <1>9, <1>10

(* Orders that come and go between the pages leave the walk as it is. *)
LEMMA ListingStep == ListingInv /\ [ListingNext]_listingVars => ListingInv'
  <1> SUFFICES ASSUME ListingInv, [ListingNext]_listingVars PROVE ListingInv'
    OBVIOUS
  <1> USE ListingAssumption
  <1> USE DEF ListingInv
  <1>1. CASE InsertOrder
    <2>1. ListingTypeOK' /\ StillThere'
      BY <1>1 DEF InsertOrder, ListingTypeOK, StillThere, Visible, Ids
    <2>2. Walk' /\ ListingComplete'
      BY <1>1 DEF InsertOrder, Walk, ListingComplete
    <2> QED
      BY <2>1, <2>2
  <1>2. ASSUME NEW i \in Ids, EndInsert(i) PROVE ListingInv'
    <2>1. ListingTypeOK' /\ StillThere'
      BY <1>2 DEF EndInsert, ListingTypeOK, StillThere, Visible, Ids
    <2>2. Walk' /\ ListingComplete'
      BY <1>2 DEF EndInsert, Walk, ListingComplete
    <2> QED
      BY <2>1, <2>2
  <1>3. ASSUME NEW i \in Ids, DeleteOrder(i) PROVE ListingInv'
    <2>1. ListingTypeOK' /\ StillThere'
      BY <1>3 DEF DeleteOrder, ListingTypeOK, StillThere, Visible, Ids
    <2>2. Walk' /\ ListingComplete'
      BY <1>3 DEF DeleteOrder, Walk, ListingComplete
    <2> QED
      BY <2>1, <2>2
  <1>4. CASE BeginListing
    <2>1. ListingTypeOK' /\ StillThere'
      BY <1>4 DEF BeginListing, ListingTypeOK, StillThere, Visible, Ids
    <2>2. Walk' /\ ListingComplete'
      BY <1>4 DEF BeginListing, Walk, ListingComplete
    <2> QED
      BY <2>1, <2>2
  <1>5. CASE UNCHANGED listingVars
    BY <1>5 DEF listingVars, ListingTypeOK, StillThere, Visible, Walk, ListingComplete
  <1> QED
    BY <1>1, <1>2, <1>3, <1>4, <1>5, PageInv DEF ListingNext

(* Every listing that ends has shown each order that was there all along once,
   whatever was added, committed late or deleted between its pages. *)
THEOREM ListingCorrect == ListingSpec => [](ListingTypeOK /\ ListingComplete)
  <1>1. ListingInit => ListingInv
    BY ListingAssumption DEF ListingInit, ListingInv, ListingTypeOK, Walk, StillThere,
       ListingComplete, Visible, Ids
  <1>2. ListingInv => ListingTypeOK /\ ListingComplete
    BY DEF ListingInv
  <1> QED
    BY <1>1, <1>2, ListingStep, PTL DEF ListingSpec
-----------------------------------------------------------------------------
\* Smallest elements, and the sums that StockConserved is about.

(* A set of numbers has a smallest one. *)
LEMMA SmallestNat ==
  ASSUME NEW T \in SUBSET Nat, T # {}
  PROVE  \E n \in T : \A m \in T : n <= m
  <1>1. PICK n \in T : \A m \in T : ~(<<m, n>> \in OpToRel(<, Nat))
    BY NatLessThanWellFounded, WFMin
  <1>2. \A m \in T : ~(m < n)
    BY <1>1, Zenon DEF OpToRel
  <1> QED
    BY <1>2

(* Among the subsets of a finite set that have a property, one is smallest. *)
LEMMA SmallestSet ==
  ASSUME NEW U, IsFiniteSet(U), NEW B, B \subseteq SUBSET U, B # {}
  PROVE  \E T \in B : \A R \in B : R \subseteq T => R = T
  <1>1. B \subseteq FiniteSubsetsOf(U)
    BY FS_FiniteSubsetsOfFinite
  <1>2. PICK T \in B : \A R \in B : ~(<<R, T>> \in StrictSubsetOrdering(U))
    BY <1>1, FS_StrictSubsetOrderingWellFounded, WFMin
  <1>3. \A R \in B : R \subseteq T => R = T
    BY <1>2 DEF StrictSubsetOrdering
  <1> QED
    BY <1>3

Pick(s) == CHOOSE x \in s : TRUE

IsSum(g, f, S) ==
  g = [s \in SUBSET S |-> IF s = {} THEN 0 ELSE f[Pick(s)] + g[s \ {Pick(s)}]]

Sums(f, S) == CHOOSE g : IsSum(g, f, S)

\* The sum of f over S, as MapThenSumSet defines it.
SumOver(f, S) == Sums(f, S)[S]

LEMMA PickFact ==
  ASSUME NEW s, s # {}
  PROVE  Pick(s) \in s
  BY DEF Pick

(* Whatever it is computed along with, a set has one sum. *)
LEMMA SumUnique ==
  ASSUME NEW f, NEW S, IsFiniteSet(S), NEW R \in SUBSET S, NEW g, NEW h,
         IsSum(g, f, S), IsSum(h, f, R)
  PROVE  g[R] = h[R]
  <1> DEFINE B == {T \in SUBSET R : g[T] # h[T]}
  <1> SUFFICES ASSUME B # {} PROVE FALSE
    OBVIOUS
  <1>2. PICK T \in B : \A V \in B : V \subseteq T => V = T
    <2>1. B \subseteq SUBSET R
      OBVIOUS
    <2> HIDE DEF B
    <2> QED
      BY <2>1, SmallestSet
  <1>3. T \subseteq R /\ T \subseteq S /\ g[T] # h[T]
    BY <1>2
  <1>4. T # {}
    BY <1>3 DEF IsSum
  <1>5. /\ g[T] = f[Pick(T)] + g[T \ {Pick(T)}]
        /\ h[T] = f[Pick(T)] + h[T \ {Pick(T)}]
    BY <1>3, <1>4 DEF IsSum
  <1>6. g[T \ {Pick(T)}] = h[T \ {Pick(T)}]
    BY <1>2, <1>3, <1>4, PickFact
  <1> QED
    BY <1>3, <1>5, <1>6

(* Every finite set has a sum: a smallest one without could be given it. *)
LEMMA SumExists ==
  ASSUME NEW f, NEW S, IsFiniteSet(S)
  PROVE  IsSum(Sums(f, S), f, S)
  <1> DEFINE B == {T \in SUBSET S : ~IsSum(Sums(f, T), f, T)}
  <1> SUFFICES ASSUME B # {} PROVE FALSE
    OBVIOUS
  <1>2. PICK T \in B : \A V \in B : V \subseteq T => V = T
    <2>1. B \subseteq SUBSET S
      OBVIOUS
    <2> HIDE DEF B
    <2> QED
      BY <2>1, SmallestSet
  <1>3. \A V \in SUBSET T : V # T => IsSum(Sums(f, V), f, V) /\ IsFiniteSet(V)
    BY <1>2, FS_Subset
  <1> DEFINE g == [s \in SUBSET T |-> IF s = {} THEN 0 ELSE f[Pick(s)] + SumOver(f, s \ {Pick(s)})]
  <1>4. ASSUME NEW s \in SUBSET T, s # {}
        PROVE  g[s \ {Pick(s)}] = SumOver(f, s \ {Pick(s)})
    <2> DEFINE t == s \ {Pick(s)}
    <2>1. t \in SUBSET T /\ t # T
      BY <1>4, PickFact
    <2>2. IsSum(Sums(f, t), f, t) /\ IsFiniteSet(t)
      BY <1>3, <2>1
    <2>3. CASE t = {}
      <3>1. Sums(f, t)[t] = 0
        BY <2>2, <2>3 DEF IsSum
      <3> QED
        BY <2>1, <2>3, <3>1 DEF SumOver
    <2>4. CASE t # {}
      <3> DEFINE v == t \ {Pick(t)}
      <3>1. v \in SUBSET t /\ v \in SUBSET T /\ v # T
        BY <2>1, <2>4, PickFact
      <3>2. IsSum(Sums(f, v), f, v)
        BY <1>3, <3>1
      <3>3. Sums(f, t)[v] = Sums(f, v)[v]
        BY <2>2, <3>1, <3>2, SumUnique
      <3>4. Sums(f, t)[t] = f[Pick(t)] + Sums(f, t)[v]
        BY <2>2, <2>4 DEF IsSum
      <3>5. g[t] = f[Pick(t)] + SumOver(f, v)
        BY <2>1, <2>4
      <3> QED
        BY <3>3, <3>4, <3>5 DEF SumOver
    <2> QED
      BY <2>3, <2>4
  <1>5. IsSum(g, f, T)
    BY <1>4 DEF IsSum
  <1>6. IsSum(Sums(f, T), f, T)
    BY <1>5 DEF Sums
  <1> QED
    BY <1>2, <1>6

(* The sum of nothing, and of the rest after one element is picked. *)
LEMMA SumStep ==
  ASSUME NEW f, NEW S, IsFiniteSet(S)
  PROVE  SumOver(f, S) = IF S = {} THEN 0 ELSE f[Pick(S)] + SumOver(f, S \ {Pick(S)})
  <1>1. IsSum(Sums(f, S), f, S)
    BY SumExists
  <1>2. CASE S = {}
    BY <1>1, <1>2 DEF IsSum, SumOver
  <1>3. CASE S # {}
    <2> DEFINE R == S \ {Pick(S)}
    <2>1. R \in SUBSET S /\ IsFiniteSet(R)
      BY FS_Subset
    <2>2. IsSum(Sums(f, R), f, R)
      BY <2>1, SumExists
    <2>3. Sums(f, S)[R] = Sums(f, R)[R]
      BY <1>1, <2>1, <2>2, SumUnique
    <2>4. Sums(f, S)[S] = f[Pick(S)] + Sums(f, S)[R]
      BY <1>1, <1>3 DEF IsSum
    <2> QED
      BY <1>3, <2>3, <2>4 DEF SumOver
  <1> QED
    BY <1>2, <1>3

LEMMA SumEmpty == \A f : SumOver(f, {}) = 0
  BY SumStep, FS_EmptySet

(* A sum of integers is an integer. *)
LEMMA SumInt ==
  ASSUME NEW U, NEW f \in [U -> Int], NEW S \in SUBSET U, IsFiniteSet(S)
  PROVE  SumOver(f, S) \in Int
  <1> DEFINE B == {T \in SUBSET S : SumOver(f, T) \notin Int}
  <1> SUFFICES ASSUME B # {} PROVE FALSE
    OBVIOUS
  <1>1. \A T \in B : IsFiniteSet(T)
    BY FS_Subset
  <1>2. PICK T \in B : \A V \in B : V \subseteq T => V = T
    <2>1. B \subseteq SUBSET S
      OBVIOUS
    <2> HIDE DEF B
    <2> QED
      BY <2>1, SmallestSet
  <1>3. T \subseteq U /\ IsFiniteSet(T) /\ SumOver(f, T) \notin Int
    BY <1>1, <1>2
  <1>4. T # {}
    BY <1>3, SumEmpty
  <1>5. SumOver(f, T) = f[Pick(T)] + SumOver(f, T \ {Pick(T)})
    BY <1>3, <1>4, SumStep
  <1>6. SumOver(f, T \ {Pick(T)}) \in Int /\ Pick(T) \in U
    BY <1>2, <1>3, <1>4, PickFact
  <1> QED
    BY <1>3, <1>5, <1>6

(* The order of the summands does not matter: any one may be taken out first. *)
LEMMA SumRemove ==
  ASSUME NEW U, NEW f \in [U -> Int], NEW S \in SUBSET U, IsFiniteSet(S), NEW a \in S
  PROVE  SumOver(f, S) = f[a] + SumOver(f, S \ {a})
  <1> DEFINE B == {T \in SUBSET S : \E b \in T : SumOver(f, T) # f[b] + SumOver(f, T \ {b})}
  <1> SUFFICES ASSUME B # {} PROVE FALSE
    OBVIOUS
  <1>1. \A T \in B : IsFiniteSet(T)
    BY FS_Subset
  <1>2. PICK T \in B : \A V \in B : V \subseteq T => V = T
    <2>1. B \subseteq SUBSET S
      OBVIOUS
    <2> HIDE DEF B
    <2> QED
      BY <2>1, SmallestSet
  <1>3. PICK b \in T : SumOver(f, T) # f[b] + SumOver(f, T \ {b})
    BY <1>2
  <1> DEFINE x == Pick(T)
             R == (T \ {x}) \ {b}
  <1>4. T \subseteq U /\ T \subseteq S /\ IsFiniteSet(T) /\ x \in T /\ b \in T
    BY <1>1, <1>2, PickFact
  <1>5. SumOver(f, T) = f[x] + SumOver(f, T \ {x})
    BY <1>4, SumStep
  <1>6. b # x
    BY <1>3, <1>5
  <1>7. SumOver(f, T \ {x}) = f[b] + SumOver(f, R)
    <2>1. b \in T \ {x} /\ T \ {x} \notin B
      BY <1>2, <1>4, <1>6
    <2> QED
      BY <1>4, <2>1
  <1>8. SumOver(f, T \ {b}) = f[x] + SumOver(f, R)
    <2>1. x \in T \ {b} /\ T \ {b} \notin B
      BY <1>2, <1>4, <1>6
    <2>2. (T \ {b}) \ {x} = R
      OBVIOUS
    <2> QED
      BY <1>4, <2>1, <2>2
  <1>9. f[x] \in Int /\ f[b] \in Int /\ SumOver(f, R) \in Int
    <2>1. R \in SUBSET U /\ IsFiniteSet(R)
      BY <1>4, FS_Subset
    <2> QED
      BY <1>4, <2>1, SumInt
  <1> QED
    BY <1>3, <1>5, <1>7, <1>8, <1>9
-----------------------------------------------------------------------------
\* Orders: the invariant.  t is the execution of request x.

CartOf(x, t) == ask[IF x \in Creators THEN x ELSE t.order].cart

(* Rows are held only between the key (or the order) and the end, only rows of
   the cart; a creation has locked all below the one it wants. *)
Shape(x, t) ==
  LET rest == DOMAIN CartOf(x, t) \ t.locks
  IN /\ t.pc # "rows" => t.locks = {} /\ t.want = None
     /\ t.pc = "rows" =>
          /\ t.locks \subseteq DOMAIN CartOf(x, t)
          /\ t.want = None => rest = {}
          /\ t.want # None => t.want \in rest
          /\ t.want # None /\ x \in Creators => /\ \A p \in rest : t.want <= p
                                                /\ \A p \in t.locks : p < t.want

\* Two executions share no row, two past their key no key, two cancellations no order.
Apart(x, t, y, u) ==
  /\ t.locks \cap u.locks = {}
  /\ t.pc = "rows" /\ u.pc = "rows" =>
       /\ x \in Creators /\ y \in Creators /\ ask[x].key # NoKey => ask[x].key # ask[y].key
       /\ x \in Cancels /\ y \in Cancels => t.order # u.order

\* What the client of c may be told.
MayLearn(c, o) ==
  o # None => /\ orders[o] # "none"
              /\ ask[o].key = ask[c].key
              /\ IF ask[c].key = NoKey THEN o = c ELSE keys[ask[c].key] = o

\* Past its key a creation is the first of it; what it has taken is in stock.
CreationOk(c, t) ==
  /\ t.pc = "rows" /\ ask[c].key # NoKey => keys[ask[c].key] = None
  /\ orders[c] # "none" => t.pc = "done"
  /\ \A p \in t.locks : p \in Products /\ stock[p] >= ask[c].cart[p]
  /\ MayLearn(c, t.order)
  /\ t.pc # "done" => t.order = None
  /\ client[c].at = "idle" => t.pc = "idle"

\* A cancellation is of an order, and of an open one once it has it locked.
CancelOk(y, t) ==
  /\ t.pc \in {"claim", "rows"} => t.order # None /\ orders[t.order] # "none"
  /\ t.pc = "rows" => orders[t.order] = "open"

Fits(x, t) ==
  /\ Shape(x, t)
  /\ \A y \in Txs \ {x} : Apart(x, t, y, tx[y])
  /\ x \in Creators => CreationOk(x, t)
  /\ x \in Cancels => CancelOk(x, t)

Executions == \A x \in Txs : Fits(x, tx[x])

\* An order is made together with its key, and of products that exist.
Made ==
  /\ \A c \in Creators : orders[c] # "none" =>
       /\ DOMAIN ask[c].cart \subseteq Products
       /\ ask[c].key # NoKey => keys[ask[c].key] = c
  /\ \A k \in Keys : keys[k] # None => orders[keys[k]] # "none" /\ ask[keys[k]].key = k

\* A client waits for an execution of its key, without a key for its own.
Clients ==
  \A c \in Creators :
    /\ MayLearn(c, client[c].order)
    /\ client[c].at = "waiting" =>
         /\ client[c].leader # None
         /\ ask[client[c].leader].key = ask[c].key
         /\ ask[c].key = NoKey => client[c].leader = c

Buyers(p) == {c \in Creators : orders[c] = "open" /\ p \in DOMAIN ask[c].cart}

\* How many of product p the requests in S ask for in a.
Bought(a, p, S) == MapThenSumSet(LAMBDA c : a[c].cart[p], S)

\* Finitely many orders hold what is not in stock.
Conserved ==
  \A p \in Products :
    /\ stock[p] >= 0 /\ IsFiniteSet(Buyers(p))
    /\ stock[p] + Bought(ask, p, Buyers(p)) = Stock0[p]

OrdersInv == OrdersTypeOK /\ Executions /\ Made /\ Clients /\ Conserved

\* Facts about what is asked for.
LEMMA AskFacts ==
  ASSUME OrdersTypeOK, NEW c \in Creators
  PROVE  /\ ask[c].key \in Keys \cup {NoKey}
         /\ DOMAIN ask[c].cart \subseteq ProductIds
         /\ DOMAIN ask[c].cart \subseteq Nat
         /\ \A p \in DOMAIN ask[c].cart : ask[c].cart[p] \in Nat
  <1>1. ask[c] \in Asks[c]
    BY DEF OrdersTypeOK
  <1>2. DOMAIN ask[c].cart \subseteq ProductIds
    BY <1>1 DEF ProductIds
  <1> QED
    BY <1>1, <1>2, OrdersAssumption

\* Types of the parts of the state.
LEMMA TxFacts ==
  ASSUME OrdersTypeOK, NEW x \in Txs
  PROVE  /\ tx[x].pc \in {"idle", "claim", "rows", "done"}
         /\ tx[x].locks \subseteq ProductIds
         /\ tx[x].want \in ProductIds \cup {None}
         /\ tx[x].order \in Creators \cup {None}
         /\ tx[x].tries \in 0..MaxAttempts
         /\ tx[x] \in Execution
  BY DEF OrdersTypeOK, Execution

(* The sum of StockConserved is the one the lemmas above are about. *)
LEMMA BoughtSum ==
  ASSUME NEW a, NEW p, NEW U, NEW S \in SUBSET U
  PROVE  Bought(a, p, S) = SumOver([c \in U |-> a[c].cart[p]], S)
  BY DEF Bought, SumOver, Sums, IsSum, MapThenSumSet, MapThenFoldSet, Pick

\* One more buyer, one less: the sum changes by what it bought.
LEMMA OneMoreBuyer ==
  ASSUME NEW a, NEW p, NEW U, NEW d \in U, IsFiniteSet(U), \A c \in U : a[c].cart[p] \in Int
  PROVE  /\ Bought(a, p, U) \in Int /\ Bought(a, p, U \ {d}) \in Int
         /\ Bought(a, p, U) = Bought(a, p, U \ {d}) + a[d].cart[p]
  <1> DEFINE f == [c \in U |-> a[c].cart[p]]
             S == U \ {d}
  <1>1. f \in [U -> Int] /\ IsFiniteSet(S) /\ U \in SUBSET U /\ S \in SUBSET U
    BY FS_Subset
  <1>2. f[d] = a[d].cart[p] /\ f[d] \in Int
    OBVIOUS
  <1>3. Bought(a, p, S) = SumOver(f, S) /\ Bought(a, p, U) = SumOver(f, U)
    BY <1>1, BoughtSum
  <1>4. SumOver(f, S) \in Int /\ SumOver(f, U) \in Int
    BY <1>1, SumInt
  <1>5. SumOver(f, U) = f[d] + SumOver(f, S)
    <2> HIDE DEF f
    <2> QED
      BY <1>1, SumRemove
  <1> HIDE DEF f
  <1> QED
    BY <1>2, <1>3, <1>4, <1>5

(* The rows of creations are locked in one order, so the one of a circle that
   wants the least would have to wait for a row below its own. *)
LEMMA NoCircle == OrdersInv => CreationsNeverCircle
  <1> SUFFICES ASSUME OrdersInv, NEW S \in SUBSET (Waiting \cap Creators), Circle(S)
               PROVE  FALSE
    BY DEF CreationsNeverCircle
  <1>1. S \subseteq Creators /\ S \subseteq Txs /\ S # {}
    BY DEF Circle, Txs
  <1>2. \A x \in S : tx[x].pc = "rows" /\ tx[x].want \in ProductIds /\ tx[x].want # None
    <2> SUFFICES ASSUME NEW x \in S PROVE tx[x].pc = "rows" /\ tx[x].want \in ProductIds /\ tx[x].want # None
      OBVIOUS
    <2>1. PICK y \in S : WaitsFor(x, y)
      BY DEF Circle
    <2> QED
      BY <1>1, <2>1, TxFacts, OrdersAssumption DEF WaitsFor, OrdersInv
  <1> DEFINE T == {tx[x].want : x \in S}
  <1>3. T \in SUBSET Nat /\ T # {}
    <2>1. ProductIds \subseteq Nat
      BY OrdersAssumption
    <2> QED
      BY <1>1, <1>2, <2>1
  <1>4. PICK n \in T : \A m \in T : n <= m
    <2> HIDE DEF T
    <2> QED
      BY <1>3, SmallestNat
  <1>5. PICK y \in S : n = tx[y].want
    BY <1>4
  <1>6. PICK x \in S : WaitsFor(x, y)
    BY <1>5 DEF Circle
  <1>7. tx[x].want \in tx[y].locks /\ tx[x].want \in T
    BY <1>6 DEF WaitsFor
  <1>8. Shape(y, tx[y])
    BY <1>1 DEF OrdersInv, Executions, Fits
  <1>9. tx[x].want < tx[y].want
    BY <1>1, <1>2, <1>7, <1>8 DEF Shape
  <1> QED
    BY <1>3, <1>4, <1>5, <1>7, <1>9

-----------------------------------------------------------------------------
(* Steps that change one execution only: it is enough that what it becomes
   fits with the others and with what is committed. *)
LEMMA TxStep ==
  ASSUME OrdersInv, NEW x \in Txs, NEW t \in Execution, Fits(x, t),
         tx' = [tx EXCEPT ![x] = t],
         UNCHANGED <<ask, client, orders, keys, stock>>
  PROVE  OrdersInv'
  <1>1. OrdersTypeOK'
    BY DEF OrdersInv, OrdersTypeOK
  <1>2. Executions'
    <2>1. tx \in [Txs -> Execution]
      BY DEF OrdersInv, OrdersTypeOK
    <2>2. \A y \in Txs : tx'[y] = IF y = x THEN t ELSE tx[y]
      BY <2>1
    <2>3. ASSUME NEW y \in Txs PROVE /\ Shape(y, tx[y])'
                                     /\ y \in Creators => CreationOk(y, tx[y])'
                                     /\ y \in Cancels => CancelOk(y, tx[y])'
      <3>1. /\ Shape(y, tx'[y])
            /\ y \in Creators => CreationOk(y, tx'[y])
            /\ y \in Cancels => CancelOk(y, tx'[y])
        BY <2>2 DEF OrdersInv, Executions, Fits
      <3> QED
        BY <3>1 DEF Shape, CartOf, CreationOk, CancelOk, MayLearn
    <2>4. ASSUME NEW y \in Txs, NEW z \in Txs \ {y} PROVE Apart(y, tx[y], z, tx[z])'
      <3>1. Apart(y, tx'[y], z, tx'[z])
        <4>1. CASE y = x
          BY <2>2, <4>1 DEF Fits
        <4>2. CASE z = x
          <5>1. Apart(x, t, y, tx[y])
            BY <4>2 DEF Fits
          <5> QED
            BY <2>2, <4>2, <5>1 DEF Apart
        <4>3. CASE y # x /\ z # x
          BY <2>2, <4>3 DEF OrdersInv, Executions, Fits
        <4> QED
          BY <4>1, <4>2, <4>3
      <3> QED
        BY <3>1 DEF Apart
    <2> QED
      BY <2>3, <2>4 DEF Executions, Fits
  <1>3. Made' /\ Clients' /\ Conserved'
    BY DEF OrdersInv, Made, Clients, MayLearn, Conserved, Buyers
  <1> QED
    BY <1>1, <1>2, <1>3 DEF OrdersInv

(* An execution that ends lets go of its rows. *)
LEMMA EndStep ==
  ASSUME OrdersInv, NEW x \in Txs, NEW o \in Creators \cup {None},
         x \in Creators => Running(x) /\ MayLearn(x, o),
         tx' = [tx EXCEPT ![x] = Ended(tx[x], o)],
         UNCHANGED <<ask, client, orders, keys, stock>>
  PROVE  OrdersInv'
  <1> DEFINE t == Ended(tx[x], o)
  <1>1. /\ t \in Execution /\ t.pc = "done" /\ t.locks = {} /\ t.want = None /\ t.order = o
    BY TxFacts DEF OrdersInv, Ended, Execution
  <1> HIDE DEF t
  <1>2. Shape(x, t) /\ \A y \in Txs \ {x} : Apart(x, t, y, tx[y])
    BY <1>1 DEF Shape, Apart
  <1>3. x \in Creators => CreationOk(x, t)
    <2> SUFFICES ASSUME x \in Creators PROVE CreationOk(x, t)
      OBVIOUS
    <2>1. CreationOk(x, tx[x])
      BY DEF OrdersInv, Executions, Fits
    <2> QED
      BY <1>1, <2>1 DEF CreationOk, Running
  <1>4. x \in Cancels => CancelOk(x, t)
    BY <1>1 DEF CancelOk
  <1>5. Fits(x, t)
    BY <1>2, <1>3, <1>4 DEF Fits
  <1>6. tx' = [tx EXCEPT ![x] = t]
    BY DEF t
  <1> QED
    BY <1>1, <1>5, <1>6, TxStep

-----------------------------------------------------------------------------
\* The row an execution goes on to.
LEMMA NextRowFacts ==
  ASSUME NEW x, NEW rest, NEW w \in NextRow(x, rest), None \notin rest
  PROVE  /\ w = None => rest = {}
         /\ w # None => w \in rest
         /\ w # None /\ x \in Creators => \A p \in rest : w <= p
  BY DEF NextRow

LEMMA FitsNow ==
  ASSUME OrdersInv, NEW x \in Txs
  PROVE  /\ Shape(x, tx[x]) /\ (x \in Creators => CreationOk(x, tx[x]))
         /\ (x \in Cancels => CancelOk(x, tx[x]))
         /\ \A y \in Txs \ {x} : Apart(x, tx[x], y, tx[y])
  BY DEF OrdersInv, Executions, Fits

(* A creation past its key holds nothing yet and is the only one of its key. *)
LEMMA GoOnFits ==
  ASSUME OrdersInv, NEW c \in Creators, tx[c].pc = "claim",
         NEW w \in NextRow(c, DOMAIN ask[c].cart),
         ask[c].key # NoKey => KeyFree(c) /\ keys[ask[c].key] = None,
         tx' = [tx EXCEPT ![c] = [tx[c] EXCEPT !.pc = "rows", !.want = w]],
         UNCHANGED <<ask, client, orders, keys, stock>>
  PROVE  OrdersInv'
  <1> DEFINE t == [tx[c] EXCEPT !.pc = "rows", !.want = w]
  <1>1. c \in Txs /\ c \notin Cancels /\ OrdersTypeOK
    BY OrdersAssumption DEF Txs, OrdersInv
  <1>2. DOMAIN ask[c].cart \subseteq ProductIds /\ DOMAIN ask[c].cart \subseteq Nat
        /\ None \notin DOMAIN ask[c].cart
    BY <1>1, AskFacts, OrdersAssumption
  <1>3. /\ w = None => DOMAIN ask[c].cart = {}
        /\ w # None => w \in DOMAIN ask[c].cart
        /\ w # None => \A p \in DOMAIN ask[c].cart : w <= p
    BY <1>2, NextRowFacts
  <1>4. Shape(c, tx[c]) /\ CreationOk(c, tx[c])
    BY <1>1, FitsNow
  <1>5. /\ t \in Execution /\ t.pc = "rows" /\ t.locks = {} /\ t.want = w
        /\ t.order = tx[c].order
    BY <1>1, <1>2, <1>3, <1>4, TxFacts DEF Execution, Shape
  <1>6. tx' = [tx EXCEPT ![c] = t]
    OBVIOUS
  <1> HIDE DEF t
  <1>7. Shape(c, t)
    BY <1>2, <1>3, <1>5 DEF Shape, CartOf
  <1>8. \A y \in Txs \ {c} : Apart(c, t, y, tx[y])
    BY <1>1, <1>5 DEF Apart, KeyFree
  <1>9. CreationOk(c, t)
    BY <1>4, <1>5 DEF CreationOk
  <1>10. Fits(c, t)
    BY <1>1, <1>7, <1>8, <1>9 DEF Fits
  <1> QED
    BY <1>1, <1>5, <1>6, <1>10, TxStep

LEMMA ClaimKeyInv ==
  ASSUME OrdersInv, NEW c \in Creators, ClaimKey(c)
  PROVE  OrdersInv'
  <1>1. tx[c].pc = "claim" /\ UNCHANGED <<ask, client, orders, keys, stock>> /\ c \in Txs
    BY DEF ClaimKey, Txs
  <1>2. CASE tx' = [tx EXCEPT ![c] = Ended(tx[c], None)]
    BY <1>1, <1>2, EndStep DEF Running, MayLearn
  <1>3. CASE /\ ask[c].key # NoKey => KeyFree(c) /\ keys[ask[c].key] = None
             /\ \E w \in NextRow(c, DOMAIN ask[c].cart) :
                  tx' = [tx EXCEPT ![c] = [tx[c] EXCEPT !.pc = "rows", !.want = w]]
    BY <1>1, <1>3, GoOnFits
  <1>4. CASE /\ ask[c].key # NoKey /\ keys[ask[c].key] # None
             /\ tx' = [tx EXCEPT ![c] = Ended(tx[c], keys[ask[c].key])]
    <2>1. ask[c].key \in Keys /\ keys[ask[c].key] \in Creators
      BY <1>4, AskFacts DEF OrdersInv, OrdersTypeOK
    <2>2. MayLearn(c, keys[ask[c].key])
      BY <1>4, <2>1 DEF MayLearn, OrdersInv, Made
    <2> QED
      BY <1>1, <1>4, <2>1, <2>2, EndStep DEF Running
  <1> QED
    BY <1>1, <1>2, <1>3, <1>4 DEF ClaimKey

(* A locked row goes from the rest to the rows held; nobody else has it. *)
LEMMA LockRowInv ==
  ASSUME OrdersInv, NEW x \in Txs, LockRow(x)
  PROVE  OrdersInv'
  <1> DEFINE p == tx[x].want
             rest == DOMAIN Cart(x) \ (tx[x].locks \cup {p})
  <1>1. /\ tx[x].pc = "rows" /\ p # None /\ RowFree(x, p)
        /\ UNCHANGED <<ask, client, orders, keys, stock>>
    BY DEF LockRow
  <1>2. CASE x \in Creators /\ tx' = [tx EXCEPT ![x] = Ended(tx[x], None)]
    BY <1>1, <1>2, EndStep DEF Running, MayLearn
  <1>3. ASSUME x \in Creators => Enough(x, p), NEW w \in NextRow(x, rest),
               tx' = [tx EXCEPT ![x] = [tx[x] EXCEPT !.locks = @ \cup {p}, !.want = w]]
        PROVE  OrdersInv'
    <2> DEFINE t == [tx[x] EXCEPT !.locks = @ \cup {p}, !.want = w]
    <2>1. OrdersTypeOK /\ Shape(x, tx[x]) /\ CartOf(x, tx[x]) = Cart(x)
      BY FitsNow DEF OrdersInv, CartOf, Cart
    <2>2. (x \in Creators => CreationOk(x, tx[x])) /\ (x \in Cancels => CancelOk(x, tx[x]))
      BY FitsNow
    <2>3. \E o \in Creators : Cart(x) = ask[o].cart
      <3>1. CASE x \in Creators
        BY <3>1 DEF Cart
      <3>2. CASE x \in Cancels /\ x \notin Creators
        BY <1>1, <2>1, <2>2, <3>2, TxFacts DEF Cart, CancelOk
      <3> QED
        BY <3>1, <3>2 DEF Txs
    <2>4. DOMAIN Cart(x) \subseteq ProductIds /\ DOMAIN Cart(x) \subseteq Nat /\ None \notin rest
      BY <2>1, <2>3, AskFacts, OrdersAssumption
    <2>5. /\ w = None => rest = {}
          /\ w # None => w \in rest
          /\ w # None /\ x \in Creators => \A q \in rest : w <= q
      BY <1>3, <2>4, NextRowFacts
    <2>6. /\ p \in DOMAIN Cart(x) \ tx[x].locks /\ tx[x].locks \subseteq DOMAIN Cart(x)
          /\ x \in Creators => /\ \A q \in rest : p < q
                               /\ \A q \in tx[x].locks : q < p
      BY <1>1, <2>1, <2>4 DEF Shape
    <2>7. /\ t \in Execution /\ t.pc = "rows" /\ t.locks = tx[x].locks \cup {p} /\ t.want = w
          /\ t.order = tx[x].order
      BY <1>1, <2>1, <2>4, <2>5, <2>6, TxFacts DEF Execution
    <2>8. tx' = [tx EXCEPT ![x] = t]
      BY <1>3
    <2> HIDE DEF t, p
    <2>9. CartOf(x, t) = Cart(x) /\ DOMAIN CartOf(x, t) \ t.locks = rest
      BY <2>7 DEF CartOf, Cart
    <2>10. x \in Creators /\ w # None => \A q \in t.locks : q < w
      BY <2>4, <2>5, <2>6, <2>7
    <2>11. Shape(x, t)
      BY <2>5, <2>6, <2>7, <2>9, <2>10 DEF Shape
    <2>12. \A y \in Txs \ {x} : Apart(x, t, y, tx[y])
      BY <1>1, <2>7, FitsNow DEF Apart, RowFree
    <2>13. (x \in Creators => CreationOk(x, t)) /\ (x \in Cancels => CancelOk(x, t))
      BY <1>1, <1>3, <2>2, <2>7 DEF CreationOk, CancelOk, Enough
    <2> QED
      BY <1>1, <2>7, <2>8, <2>11, <2>12, <2>13, TxStep DEF Fits
  <1> QED
    BY <1>1, <1>2, <1>3 DEF LockRow

LEMMA BeginCancelInv ==
  ASSUME OrdersInv, NEW y \in Cancels, BeginCancel(y)
  PROVE  OrdersInv'
  <1>1. PICK o \in Creators :
          /\ orders[o] # "none"
          /\ tx' = [tx EXCEPT ![y] = IF orders[o] = "cancelled" THEN Ended(tx[y], o)
                                     ELSE [tx[y] EXCEPT !.pc = "claim", !.order = o]]
    BY DEF BeginCancel
  <1>2. /\ tx[y].pc = "idle" /\ UNCHANGED <<ask, client, orders, keys, stock>>
        /\ y \in Txs /\ y \notin Creators /\ OrdersTypeOK
    BY OrdersAssumption DEF BeginCancel, Txs, OrdersInv
  <1>3. CASE orders[o] = "cancelled"
    BY <1>1, <1>2, <1>3, EndStep
  <1>4. CASE orders[o] # "cancelled"
    <2> DEFINE t == [tx[y] EXCEPT !.pc = "claim", !.order = o]
    <2>1. Shape(y, tx[y])
      BY <1>2, FitsNow
    <2>2. /\ t \in Execution /\ t.pc = "claim" /\ t.locks = {} /\ t.want = None /\ t.order = o
      BY <1>2, <2>1, TxFacts DEF Execution, Shape
    <2>3. tx' = [tx EXCEPT ![y] = t]
      BY <1>1, <1>4
    <2> HIDE DEF t
    <2>4. Shape(y, t) /\ CancelOk(y, t) /\ \A z \in Txs \ {y} : Apart(y, t, z, tx[z])
      BY <1>1, <2>2, OrdersAssumption DEF Shape, CancelOk, Apart
    <2> QED
      BY <1>2, <2>2, <2>3, <2>4, TxStep DEF Fits
  <1> QED
    BY <1>3, <1>4

(* The order is locked: nobody else is cancelling it, and it is open. *)
LEMMA LockOrderInv ==
  ASSUME OrdersInv, NEW y \in Cancels, LockOrder(y)
  PROVE  OrdersInv'
  <1> DEFINE o == tx[y].order
  <1>1. /\ tx[y].pc = "claim" /\ UNCHANGED <<ask, client, orders, keys, stock>>
        /\ \A z \in Cancels \ {y} : tx[z].pc = "rows" => tx[z].order # o
        /\ y \in Txs /\ y \notin Creators /\ OrdersTypeOK
    BY OrdersAssumption DEF LockOrder, Txs, OrdersInv
  <1>2. CASE tx' = [tx EXCEPT ![y] = Ended(tx[y], o)]
    BY <1>1, <1>2, EndStep, TxFacts
  <1>3. ASSUME Cancellable(o), NEW w \in NextRow(y, DOMAIN ask[o].cart),
               tx' = [tx EXCEPT ![y] = [tx[y] EXCEPT !.pc = "rows", !.want = w]]
        PROVE  OrdersInv'
    <2> DEFINE t == [tx[y] EXCEPT !.pc = "rows", !.want = w]
    <2>1. Shape(y, tx[y]) /\ CancelOk(y, tx[y])
      BY <1>1, FitsNow
    <2>2. o \in Creators /\ orders[o] = "open"
      BY <1>1, <1>3, <2>1, TxFacts DEF CancelOk, Cancellable, OrdersTypeOK
    <2>3. DOMAIN ask[o].cart \subseteq ProductIds /\ None \notin DOMAIN ask[o].cart
      BY <1>1, <2>2, AskFacts, OrdersAssumption
    <2>4. /\ w = None => DOMAIN ask[o].cart = {}
          /\ w # None => w \in DOMAIN ask[o].cart
      BY <1>3, <2>3, NextRowFacts
    <2>5. /\ t \in Execution /\ t.pc = "rows" /\ t.locks = {} /\ t.want = w /\ t.order = o
      BY <1>1, <2>1, <2>3, <2>4, TxFacts DEF Execution, Shape
    <2>6. tx' = [tx EXCEPT ![y] = t]
      BY <1>3
    <2> HIDE DEF t, o
    <2>7. Shape(y, t)
      BY <1>1, <2>4, <2>5 DEF Shape, CartOf
    <2>8. CancelOk(y, t) /\ \A z \in Txs \ {y} : Apart(y, t, z, tx[z])
      BY <1>1, <2>2, <2>5, OrdersAssumption DEF CancelOk, Apart, Txs
    <2> QED
      BY <1>1, <2>5, <2>6, <2>7, <2>8, TxStep DEF Fits
  <1> QED
    BY <1>2, <1>3 DEF LockOrder

(* A victim of a deadlock starts over with its key or ends. *)
LEMMA VictimInv ==
  ASSUME OrdersInv, NEW x \in Txs, Victim(x)
  PROVE  OrdersInv'
  <1>1. UNCHANGED <<ask, client, orders, keys, stock>> /\ OrdersTypeOK
    BY DEF Victim, OrdersInv
  <1>2. tx[x].pc = "rows"
    BY DEF Victim, Circle, WaitsFor
  <1>3. CASE ~Retriable(x)
    <2>1. tx' = [tx EXCEPT ![x] = Ended(tx[x], None)]
      BY <1>3 DEF Victim
    <2> QED
      BY <1>1, <1>2, <2>1, EndStep DEF Running, MayLearn
  <1>4. CASE Retriable(x)
    <2> DEFINE t == [tx[x] EXCEPT !.pc = "claim", !.locks = {}, !.want = None, !.tries = @ + 1]
    <2>1. x \in Creators /\ x \notin Cancels /\ tx[x].tries < MaxAttempts /\ MaxAttempts \in Nat
      BY <1>4, OrdersAssumption DEF Retriable
    <2>2. tx' = [tx EXCEPT ![x] = t]
      BY <1>4 DEF Victim
    <2>3. /\ t \in Execution /\ t.pc = "claim" /\ t.locks = {} /\ t.want = None
          /\ t.order = tx[x].order
      <3>1. tx[x].tries + 1 \in 0..MaxAttempts
        BY <1>1, <2>1, TxFacts
      <3> QED
        BY <1>1, <3>1, TxFacts DEF Execution
    <2> HIDE DEF t
    <2>4. Shape(x, t) /\ \A y \in Txs \ {x} : Apart(x, t, y, tx[y])
      BY <2>3 DEF Shape, Apart
    <2>5. CreationOk(x, t)
      BY <1>2, <2>1, <2>3, FitsNow DEF CreationOk
    <2> QED
      BY <1>1, <2>1, <2>2, <2>3, <2>4, <2>5, TxStep DEF Fits
  <1> QED
    BY <1>3, <1>4

LEMMA FailInv ==
  ASSUME OrdersInv, NEW x \in Txs, Fail(x)
  PROVE  OrdersInv'
  BY EndStep DEF Fail, MayLearn

(* An order, its key and its stock appear together: nobody else has the key,
   and nobody else the rows. *)
LEMMA CommitInv ==
  ASSUME OrdersInv, NEW c \in Creators, Commit(c)
  PROVE  OrdersInv'
  <1>1. PICK o \in {c, None} : tx' = [tx EXCEPT ![c] = Ended(tx[c], o)]
    BY DEF Commit
  <1>2. /\ tx[c].pc = "rows" /\ tx[c].want = None
        /\ orders' = [orders EXCEPT ![c] = "open"]
        /\ keys' = [k \in Keys |-> IF k = ask[c].key THEN c ELSE keys[k]]
        /\ stock' = [p \in Products |-> IF p \in tx[c].locks THEN stock[p] - ask[c].cart[p] ELSE stock[p]]
        /\ ask' = ask /\ client' = client
    BY DEF Commit
  <1>3. /\ c \in Txs /\ c \notin Cancels /\ OrdersTypeOK /\ None \notin Creators
        /\ Creators \cap Cancels = {} /\ NoKey \notin Keys
    BY OrdersAssumption DEF Txs, OrdersInv
  <1>4. /\ tx \in [Txs -> Execution] /\ keys \in [Keys -> Creators \cup {None}]
        /\ orders \in [Creators -> {"none", "open", "cancelled"}] /\ stock \in [Products -> Int]
    BY <1>3 DEF OrdersTypeOK
  <1>5. Shape(c, tx[c]) /\ CreationOk(c, tx[c])
    BY <1>3, FitsNow
  <1>6. tx[c].locks = DOMAIN ask[c].cart /\ tx[c].locks \subseteq Products
    BY <1>2, <1>5 DEF Shape, CartOf, CreationOk
  <1>7. \A p \in tx[c].locks : ask[c].cart[p] \in Nat /\ stock[p] >= ask[c].cart[p]
    BY <1>3, <1>5, <1>6, AskFacts DEF CreationOk
  <1>8. orders[c] = "none" /\ (ask[c].key # NoKey => keys[ask[c].key] = None)
    BY <1>2, <1>5 DEF CreationOk
  <1> DEFINE t == Ended(tx[c], o)
  <1>9. t \in Execution /\ t.pc = "done" /\ t.locks = {} /\ t.want = None /\ t.order = o
    BY <1>3, TxFacts DEF Ended, Execution
  <1>10. \A y \in Txs : tx'[y] = IF y = c THEN t ELSE tx[y]
    BY <1>1, <1>4
  <1> HIDE DEF t
  <1>11. OrdersTypeOK'
    <2>1. tx' \in [Txs -> Execution]
      BY <1>1, <1>4, <1>9 DEF t
    <2>2. stock' \in [Products -> Int]
      BY <1>2, <1>4, <1>7
    <2> QED
      BY <1>2, <1>3, <1>4, <2>1, <2>2 DEF OrdersTypeOK
  <1>12. \A d \in Creators : \A n : MayLearn(d, n) => MayLearn(d, n)'
    <2> SUFFICES ASSUME NEW d \in Creators, NEW n, MayLearn(d, n), n # None
                 PROVE  MayLearn(d, n)'
      BY DEF MayLearn
    <2>1. n \in Creators \/ ask[d].key = NoKey
      BY <1>3, <1>4, AskFacts DEF MayLearn
    <2>2. ask[d].key # NoKey => ask[d].key # ask[c].key
      BY <1>8 DEF MayLearn
    <2> QED
      BY <1>2, <1>3, <1>4, <2>1, <2>2, AskFacts DEF MayLearn
  <1>13. MayLearn(c, o)'
    BY <1>1, <1>2, <1>3, <1>4, AskFacts DEF MayLearn
  <1>14. Executions'
    <2>1. ASSUME NEW y \in Txs, NEW z \in Txs \ {y} PROVE Apart(y, tx[y], z, tx[z])'
      BY <1>2, <1>9, <1>10, FitsNow DEF Apart
    <2>2. ASSUME NEW y \in Txs PROVE Shape(y, tx[y])'
      BY <1>2, <1>9, <1>10, FitsNow DEF Shape, CartOf
    <2>3. ASSUME NEW y \in Cancels PROVE CancelOk(y, tx[y])'
      <3>1. CancelOk(y, tx[y]) /\ tx'[y] = tx[y] /\ tx[y].order \in Creators \cup {None}
        BY <1>3, <1>10, FitsNow, TxFacts DEF Txs
      <3> QED
        BY <1>2, <1>4, <1>8, <3>1 DEF CancelOk
    <2>4. ASSUME NEW d \in Creators PROVE CreationOk(d, tx[d])'
      <3>1. CASE d = c
        <4>1. client[c].at # "idle"
          BY <1>2, <1>5 DEF CreationOk
        <4> QED
          BY <1>2, <1>3, <1>9, <1>10, <1>13, <3>1, <4>1 DEF CreationOk
      <3>2. CASE d # c
        <4>1. /\ d \in Txs /\ CreationOk(d, tx[d]) /\ tx'[d] = tx[d]
              /\ Apart(d, tx[d], c, tx[c])
          BY <1>3, <1>10, <3>2, FitsNow DEF Txs
        <4>2. tx[d].pc = "rows" /\ ask[d].key # NoKey => keys'[ask[d].key] = None
          <5> SUFFICES ASSUME tx[d].pc = "rows", ask[d].key # NoKey
                       PROVE  keys'[ask[d].key] = None
            OBVIOUS
          <5>1. ask[d].key \in Keys
            BY <1>3, AskFacts
          <5>2. ask[d].key # ask[c].key
            BY <1>2, <4>1 DEF Apart
          <5> QED
            BY <1>2, <4>1, <5>1, <5>2 DEF CreationOk
        <4>3. \A p \in tx[d].locks : p \in Products /\ stock'[p] = stock[p]
          BY <1>2, <4>1 DEF Apart, CreationOk
        <4>4. orders'[d] = orders[d]
          BY <1>2, <1>4, <3>2
        <4>5. MayLearn(d, tx[d].order)'
          <5>1. MayLearn(d, tx[d].order)
            BY <4>1 DEF CreationOk
          <5>2. tx'[d].order = tx[d].order
            BY <4>1
          <5> QED
            BY <1>12, <5>1, <5>2 DEF MayLearn
        <4> QED
          BY <1>2, <4>1, <4>2, <4>3, <4>4, <4>5 DEF CreationOk
      <3> QED
        BY <3>1, <3>2
    <2> QED
      BY <2>1, <2>2, <2>3, <2>4 DEF Executions, Fits
  <1>15. Made'
    <2>1. ASSUME NEW d \in Creators, orders'[d] # "none"
          PROVE  /\ DOMAIN ask[d].cart \subseteq Products
                 /\ ask[d].key # NoKey => keys'[ask[d].key] = d
      <3>1. ask[d].key \in Keys \cup {NoKey}
        BY <1>3, AskFacts
      <3>2. CASE d = c
        BY <1>2, <1>6, <3>1, <3>2
      <3>3. CASE d # c
        <4>1. orders[d] # "none"
          BY <1>2, <1>4, <2>1, <3>3
        <4>2. ask[d].key # NoKey => keys[ask[d].key] = d /\ ask[d].key # ask[c].key
          BY <1>3, <1>8, <4>1 DEF OrdersInv, Made
        <4> QED
          BY <1>2, <3>1, <4>1, <4>2 DEF OrdersInv, Made
      <3> QED
        BY <3>2, <3>3
    <2>2. ASSUME NEW k \in Keys, keys'[k] # None
          PROVE  orders'[keys'[k]] # "none" /\ ask[keys'[k]].key = k
      BY <1>2, <1>4, <2>2 DEF OrdersInv, Made
    <2> QED
      BY <1>2, <2>1, <2>2 DEF Made
  <1>16. Clients'
    <2> SUFFICES ASSUME NEW d \in Creators PROVE MayLearn(d, client[d].order)'
      BY <1>2 DEF OrdersInv, Clients
    <2>1. MayLearn(d, client[d].order)
      BY DEF OrdersInv, Clients
    <2> QED
      BY <1>2, <1>12, <2>1 DEF MayLearn
  <1>17. Conserved'
    <2> SUFFICES ASSUME NEW p \in Products
                 PROVE  /\ stock'[p] >= 0 /\ IsFiniteSet(Buyers(p)')
                        /\ stock'[p] + Bought(ask, p, Buyers(p)') = Stock0[p]
      BY <1>2 DEF Conserved
    <2>1. /\ stock[p] >= 0 /\ IsFiniteSet(Buyers(p)) /\ stock[p] \in Int
          /\ stock[p] + Bought(ask, p, Buyers(p)) = Stock0[p]
      BY <1>4 DEF OrdersInv, Conserved
    <2>2. CASE p \notin tx[c].locks
      <3>1. Buyers(p)' = Buyers(p)
        BY <1>2, <1>4, <1>6, <2>2 DEF Buyers
      <3>2. stock'[p] = stock[p]
        BY <1>2, <2>2
      <3> QED
        BY <2>1, <3>1, <3>2
    <2>3. CASE p \in tx[c].locks
      <3>1. Buyers(p)' = Buyers(p) \cup {c} /\ c \notin Buyers(p)
        BY <1>2, <1>4, <1>6, <1>8, <2>3 DEF Buyers
      <3>2. stock'[p] = stock[p] - ask[c].cart[p]
        BY <1>2, <2>3
      <3> DEFINE U == Buyers(p)'
      <3>3. IsFiniteSet(U) /\ c \in U /\ U \ {c} = Buyers(p)
        BY <2>1, <3>1, FS_AddElement
      <3>4. \A d \in U : ask[d].cart[p] \in Int
        BY <1>2, <1>3, AskFacts DEF Buyers
      <3> HIDE DEF U
      <3>5. /\ Bought(ask, p, U \ {c}) \in Int
            /\ Bought(ask, p, U) = Bought(ask, p, U \ {c}) + ask[c].cart[p]
        BY <3>3, <3>4, OneMoreBuyer
      <3>6. /\ Bought(ask, p, Buyers(p)) \in Int
            /\ Bought(ask, p, U) = Bought(ask, p, Buyers(p)) + ask[c].cart[p]
        BY <3>3, <3>5
      <3>7. stock'[p] >= 0 /\ stock'[p] + Bought(ask, p, U) = Stock0[p]
        BY <1>7, <2>1, <2>3, <3>2, <3>6
      <3> QED
        BY <3>3, <3>7 DEF U
    <2> QED
      BY <2>2, <2>3
  <1> QED
    BY <1>11, <1>14, <1>15, <1>16, <1>17 DEF OrdersInv

(* An open order gives back what it holds, once: its cancellation has it
   locked, and its rows are nobody else's. *)
LEMMA CommitCancelInv ==
  ASSUME OrdersInv, NEW y \in Cancels, CommitCancel(y)
  PROVE  OrdersInv'
  <1> DEFINE o == tx[y].order
             t == Ended(tx[y], o)
  <1>1. /\ tx[y].pc = "rows" /\ tx[y].want = None
        /\ orders' = [orders EXCEPT ![o] = "cancelled"]
        /\ stock' = [p \in Products |-> IF p \in tx[y].locks THEN stock[p] + ask[o].cart[p] ELSE stock[p]]
        /\ tx' = [tx EXCEPT ![y] = t]
        /\ ask' = ask /\ client' = client /\ keys' = keys
    BY DEF CommitCancel
  <1>2. /\ y \in Txs /\ y \notin Creators /\ OrdersTypeOK /\ Creators \cap Cancels = {}
    BY OrdersAssumption DEF Txs, OrdersInv
  <1>3. /\ tx \in [Txs -> Execution]
        /\ orders \in [Creators -> {"none", "open", "cancelled"}] /\ stock \in [Products -> Int]
    BY <1>2 DEF OrdersTypeOK
  <1>4. Shape(y, tx[y]) /\ CancelOk(y, tx[y])
    BY <1>2, FitsNow
  <1>5. o \in Creators /\ orders[o] = "open"
    BY <1>1, <1>2, <1>4, TxFacts DEF CancelOk
  <1>6. tx[y].locks = DOMAIN ask[o].cart
    BY <1>1, <1>2, <1>4 DEF Shape, CartOf
  <1>7. \A p \in tx[y].locks : ask[o].cart[p] \in Nat
    BY <1>2, <1>5, <1>6, AskFacts
  <1>8. t \in Execution /\ t.pc = "done" /\ t.locks = {} /\ t.want = None /\ t.order = o
    BY <1>2, TxFacts DEF Ended, Execution
  <1>9. \A x \in Txs : tx'[x] = IF x = y THEN t ELSE tx[x]
    BY <1>1, <1>3
  <1> HIDE DEF t
  <1>10. OrdersTypeOK'
    <2>1. tx' \in [Txs -> Execution]
      BY <1>1, <1>3, <1>8
    <2>2. stock' \in [Products -> Int]
      BY <1>1, <1>3, <1>7
    <2> QED
      BY <1>1, <1>2, <1>3, <2>1, <2>2 DEF OrdersTypeOK
  <1> HIDE DEF o
  <1>11. \A d \in Creators : orders[d] # "none" <=> orders'[d] # "none"
    BY <1>1, <1>3, <1>5
  <1>12. \A d \in Creators, n \in Creators \cup {None} : MayLearn(d, n) => MayLearn(d, n)'
    BY <1>1, <1>11 DEF MayLearn
  <1>13. Executions'
    <2>1. ASSUME NEW x \in Txs, NEW z \in Txs \ {x} PROVE Apart(x, tx[x], z, tx[z])'
      BY <1>1, <1>8, <1>9, FitsNow DEF Apart
    <2>2. ASSUME NEW x \in Txs PROVE Shape(x, tx[x])'
      BY <1>1, <1>8, <1>9, FitsNow DEF Shape, CartOf
    <2>3. ASSUME NEW z \in Cancels PROVE CancelOk(z, tx[z])'
      <3>1. CASE z = y
        BY <1>2, <1>8, <1>9, <3>1 DEF CancelOk
      <3>2. CASE z # y
        <4>1. /\ z \in Txs /\ CancelOk(z, tx[z]) /\ Apart(z, tx[z], y, tx[y]) /\ tx'[z] = tx[z]
              /\ tx[z].order \in Creators \cup {None}
          BY <1>2, <1>9, <3>2, FitsNow, TxFacts DEF Txs
        <4>2. tx[z].pc = "rows" => tx[z].order # o
          BY <1>1, <4>1 DEF Apart, o
        <4> QED
          BY <1>1, <1>3, <1>11, <4>1, <4>2 DEF CancelOk
      <3> QED
        BY <3>1, <3>2
    <2>4. ASSUME NEW d \in Creators PROVE CreationOk(d, tx[d])'
      <3>1. /\ d \in Txs /\ d # y /\ CreationOk(d, tx[d]) /\ tx'[d] = tx[d]
            /\ Apart(d, tx[d], y, tx[y]) /\ tx[d].order \in Creators \cup {None}
        BY <1>2, <1>9, FitsNow, TxFacts DEF Txs
      <3>2. \A p \in tx[d].locks : p \in Products /\ stock'[p] = stock[p]
        BY <1>1, <3>1 DEF Apart, CreationOk
      <3>3. MayLearn(d, tx[d].order)'
        <4>1. MayLearn(d, tx[d].order)
          BY <3>1 DEF CreationOk
        <4> QED
          BY <1>12, <3>1, <4>1 DEF MayLearn
      <3> QED
        BY <1>1, <1>11, <3>1, <3>2, <3>3 DEF CreationOk
    <2> QED
      BY <2>1, <2>2, <2>3, <2>4 DEF Executions, Fits
  <1>14. Made'
    <2>1. keys \in [Keys -> Creators \cup {None}]
      BY <1>2 DEF OrdersTypeOK
    <2> QED
      BY <1>1, <1>11, <2>1 DEF OrdersInv, Made
  <1>15. Clients'
    <2> SUFFICES ASSUME NEW d \in Creators PROVE MayLearn(d, client[d].order)'
      BY <1>1 DEF OrdersInv, Clients
    <2>1. MayLearn(d, client[d].order) /\ client[d].order \in Creators \cup {None}
      BY DEF OrdersInv, Clients, OrdersTypeOK
    <2> QED
      BY <1>1, <1>12, <2>1 DEF MayLearn
  <1>16. Conserved'
    <2> SUFFICES ASSUME NEW p \in Products
                 PROVE  /\ stock'[p] >= 0 /\ IsFiniteSet(Buyers(p)')
                        /\ stock'[p] + Bought(ask, p, Buyers(p)') = Stock0[p]
      BY <1>1 DEF Conserved
    <2>1. /\ stock[p] >= 0 /\ IsFiniteSet(Buyers(p)) /\ stock[p] \in Int
          /\ stock[p] + Bought(ask, p, Buyers(p)) = Stock0[p]
      BY <1>3 DEF OrdersInv, Conserved
    <2>2. CASE p \notin tx[y].locks
      <3>1. Buyers(p)' = Buyers(p)
        BY <1>1, <1>3, <1>6, <2>2 DEF Buyers
      <3>2. stock'[p] = stock[p]
        BY <1>1, <2>2
      <3> QED
        BY <2>1, <3>1, <3>2
    <2>3. CASE p \in tx[y].locks
      <3> DEFINE U == Buyers(p)
      <3>1. Buyers(p)' = U \ {o} /\ o \in U
        BY <1>1, <1>3, <1>5, <1>6, <2>3 DEF Buyers
      <3>2. stock'[p] = stock[p] + ask[o].cart[p]
        BY <1>1, <2>3
      <3>3. \A d \in U : ask[d].cart[p] \in Int
        BY <1>2, AskFacts DEF Buyers
      <3> HIDE DEF U
      <3>4. /\ Bought(ask, p, U \ {o}) \in Int
            /\ Bought(ask, p, U) = Bought(ask, p, U \ {o}) + ask[o].cart[p]
        BY <2>1, <3>1, <3>3, OneMoreBuyer DEF U
      <3>5. IsFiniteSet(U \ {o})
        BY <2>1, FS_Subset DEF U
      <3>6. stock'[p] >= 0 /\ stock'[p] + Bought(ask, p, U \ {o}) = Stock0[p]
        BY <1>7, <2>1, <2>3, <3>2, <3>4 DEF U
      <3> QED
        BY <3>1, <3>5, <3>6
    <2> QED
      BY <2>2, <2>3
  <1> QED
    BY <1>10, <1>13, <1>14, <1>15, <1>16 DEF OrdersInv

-----------------------------------------------------------------------------
(* Clients come, wait and are answered; executions do not depend on them. *)
LEMMA ClientStep ==
  ASSUME OrdersInv, UNCHANGED <<ask, orders, keys, stock>>, tx' = tx, Clients',
         client' \in [Creators -> [at : {"idle", "waiting", "answered"},
                                   leader : Creators \cup {None}, order : Creators \cup {None}]],
         \A c \in Creators : client'[c].at = "idle" => client[c].at = "idle"
  PROVE  OrdersInv'
  <1>1. OrdersTypeOK' /\ Made' /\ Conserved'
    <2>1. OrdersTypeOK'
      BY DEF OrdersInv, OrdersTypeOK
    <2>2. Made' /\ Conserved'
      BY DEF OrdersInv, Made, Conserved, Buyers
    <2> QED
      BY <2>1, <2>2
  <1>2. Executions'
    <2>1. ASSUME NEW x \in Txs PROVE /\ Shape(x, tx[x])' /\ (x \in Cancels => CancelOk(x, tx[x])')
                                     /\ \A y \in Txs \ {x} : Apart(x, tx[x], y, tx[y])'
      BY FitsNow DEF Shape, CartOf, CancelOk, Apart
    <2>2. ASSUME NEW c \in Creators PROVE CreationOk(c, tx[c])'
      BY FitsNow DEF CreationOk, MayLearn, Txs
    <2> QED
      BY <2>1, <2>2 DEF Executions, Fits
  <1> QED
    BY <1>1, <1>2 DEF OrdersInv

LEMMA ArriveInv ==
  ASSUME OrdersInv, NEW c \in Creators, Arrive(c)
  PROVE  OrdersInv'
  <1>1. /\ client[c].at = "idle" /\ UNCHANGED <<ask, orders, keys, stock>> /\ c \in Txs
        /\ OrdersTypeOK /\ c \notin Cancels /\ None \notin Creators
    BY OrdersAssumption DEF Arrive, Txs, OrdersInv
  <1>2. ASSUME NEW l \in Creators, ask[l].key = ask[c].key, ask[c].key = NoKey => l = c,
               client' = [client EXCEPT ![c] = [client[c] EXCEPT !.at = "waiting", !.leader = l]]
        PROVE  /\ Clients'
               /\ client' \in [Creators -> [at : {"idle", "waiting", "answered"},
                                  leader : Creators \cup {None}, order : Creators \cup {None}]]
               /\ \A d \in Creators : client'[d].at = "idle" => client[d].at = "idle"
    <2>1. client \in [Creators -> [at : {"idle", "waiting", "answered"},
                                   leader : Creators \cup {None}, order : Creators \cup {None}]]
      BY <1>1 DEF OrdersTypeOK
    <2>2. ASSUME NEW d \in Creators
          PROVE  /\ d = c => client'[d].at = "waiting" /\ client'[d].leader = l
                 /\ d # c => client'[d] = client[d]
                 /\ client'[d].order = client[d].order
      BY <1>2, <2>1
    <2>3. client' \in [Creators -> [at : {"idle", "waiting", "answered"},
                                    leader : Creators \cup {None}, order : Creators \cup {None}]]
      BY <1>2, <2>1
    <2>4. Clients'
      <3> SUFFICES ASSUME NEW d \in Creators
                   PROVE  /\ MayLearn(d, client[d].order)'
                          /\ client'[d].at = "waiting" =>
                               /\ client'[d].leader # None
                               /\ ask'[client'[d].leader].key = ask'[d].key
                               /\ ask'[d].key = NoKey => client'[d].leader = d
        BY DEF Clients
      <3>1. MayLearn(d, client[d].order)'
        BY <1>1, <2>2 DEF OrdersInv, Clients, MayLearn
      <3>2. CASE d = c
        BY <1>1, <1>2, <2>2, <3>1, <3>2
      <3>3. CASE d # c
        BY <1>1, <2>2, <3>1, <3>3 DEF OrdersInv, Clients
      <3> QED
        BY <3>2, <3>3
    <2> QED
      BY <1>1, <2>2, <2>3, <2>4
  <1>3. CASE \E l \in Creators :
               /\ Leads(l, c)
               /\ client' = [client EXCEPT ![c] = [client[c] EXCEPT !.at = "waiting", !.leader = l]]
               /\ UNCHANGED tx
    BY <1>1, <1>2, <1>3, ClientStep DEF Leads
  <1>4. CASE /\ client' = [client EXCEPT ![c] = [client[c] EXCEPT !.at = "waiting", !.leader = c]]
             /\ tx' = [tx EXCEPT ![c].pc = "claim"]
    <2> DEFINE t == [tx[c] EXCEPT !.pc = "claim"]
    <2>1. /\ Clients'
          /\ client' \in [Creators -> [at : {"idle", "waiting", "answered"},
                             leader : Creators \cup {None}, order : Creators \cup {None}]]
          /\ \A d \in Creators : client'[d].at = "idle" => client[d].at = "idle"
      BY <1>2, <1>4
    <2>2. Shape(c, tx[c]) /\ CreationOk(c, tx[c]) /\ tx[c].pc = "idle"
      BY <1>1, FitsNow DEF CreationOk
    <2>3. /\ t \in Execution /\ t.pc = "claim" /\ t.locks = {} /\ t.want = None
          /\ t.order = tx[c].order
      BY <1>1, <2>2, TxFacts DEF Execution, Shape
    <2>4. tx \in [Txs -> Execution] /\ tx' = [tx EXCEPT ![c] = t]
      BY <1>1, <1>4 DEF OrdersTypeOK
    <2> HIDE DEF t
    <2>5. \A x \in Txs : tx'[x] = IF x = c THEN t ELSE tx[x]
      BY <2>4
    <2>6. OrdersTypeOK' /\ Made' /\ Conserved'
      <3>1. tx' \in [Txs -> Execution]
        BY <2>3, <2>4
      <3>2. OrdersTypeOK'
        BY <1>1, <2>1, <3>1 DEF OrdersTypeOK
      <3>3. Made' /\ Conserved'
        BY <1>1 DEF OrdersInv, Made, Conserved, Buyers
      <3> QED
        BY <3>2, <3>3
    <2>7. client'[c].at = "waiting"
      BY <1>1, <1>4 DEF OrdersTypeOK
    <2>8. ASSUME NEW x \in Txs PROVE /\ Shape(x, tx[x])' /\ (x \in Cancels => CancelOk(x, tx[x])')
                                     /\ \A y \in Txs \ {x} : Apart(x, tx[x], y, tx[y])'
      <3>1. Shape(x, tx[x])'
        BY <1>1, <2>3, <2>5, FitsNow DEF Shape, CartOf
      <3>2. x \in Cancels => CancelOk(x, tx[x])'
        BY <1>1, <2>3, <2>5, FitsNow DEF CancelOk
      <3>3. \A y \in Txs \ {x} : Apart(x, tx[x], y, tx[y])'
        BY <1>1, <2>3, <2>5, FitsNow DEF Apart
      <3> QED
        BY <3>1, <3>2, <3>3
    <2>9. ASSUME NEW d \in Creators PROVE CreationOk(d, tx[d])'
      <3>1. CASE d = c
        BY <1>1, <2>2, <2>3, <2>5, <2>7, <3>1 DEF CreationOk, MayLearn
      <3>2. CASE d # c
        <4>1. d \in Txs /\ tx'[d] = tx[d]
          BY <2>5, <3>2 DEF Txs
        <4> QED
          BY <1>1, <2>1, <4>1, FitsNow DEF CreationOk, MayLearn
      <3> QED
        BY <3>1, <3>2
    <2> QED
      BY <2>1, <2>6, <2>8, <2>9 DEF OrdersInv, Executions, Fits
  <1> QED
    BY <1>3, <1>4 DEF Arrive

(* Who waits for an execution of its key may be told what that one learned. *)
LEMMA AnswerInv ==
  ASSUME OrdersInv, NEW c \in Creators, Answer(c)
  PROVE  OrdersInv'
  <1> DEFINE l == client[c].leader
  <1>1. /\ client[c].at = "waiting" /\ UNCHANGED <<ask, orders, keys, stock>> /\ tx' = tx
        /\ client' = [client EXCEPT ![c] = [client[c] EXCEPT !.at = "answered", !.order = tx[l].order]]
    BY DEF Answer
  <1>2. OrdersTypeOK /\ client \in [Creators -> [at : {"idle", "waiting", "answered"},
                                   leader : Creators \cup {None}, order : Creators \cup {None}]]
    BY DEF OrdersInv, OrdersTypeOK
  <1>3. l \in Creators /\ ask[l].key = ask[c].key /\ (ask[c].key = NoKey => l = c)
    BY <1>1, <1>2 DEF OrdersInv, Clients
  <1>4. l \in Txs /\ tx[l].order \in Creators \cup {None} /\ MayLearn(l, tx[l].order)
    BY <1>2, <1>3, FitsNow, TxFacts DEF Txs, CreationOk
  <1>5. MayLearn(c, tx[l].order)
    BY <1>3, <1>4 DEF MayLearn
  <1>6. \A d \in Creators : /\ d = c => client'[d].at = "answered" /\ client'[d].order = tx[l].order
                            /\ d # c => client'[d] = client[d]
    BY <1>1, <1>2
  <1>7. Clients'
    <2> SUFFICES ASSUME NEW d \in Creators
                 PROVE  /\ MayLearn(d, client[d].order)'
                        /\ client'[d].at = "waiting" =>
                             /\ client'[d].leader # None
                             /\ ask'[client'[d].leader].key = ask'[d].key
                             /\ ask'[d].key = NoKey => client'[d].leader = d
      BY DEF Clients
    <2>1. CASE d = c
      BY <1>1, <1>5, <1>6, <2>1 DEF MayLearn
    <2>2. CASE d # c
      BY <1>1, <1>6, <2>2 DEF OrdersInv, Clients, MayLearn
    <2> QED
      BY <2>1, <2>2
  <1>8. client' \in [Creators -> [at : {"idle", "waiting", "answered"},
                                   leader : Creators \cup {None}, order : Creators \cup {None}]]
    BY <1>1, <1>2, <1>4
  <1> QED
    BY <1>1, <1>6, <1>7, <1>8, ClientStep

LEMMA LeaveInv ==
  ASSUME OrdersInv, NEW c \in Creators, Leave(c)
  PROVE  OrdersInv'
  <1>1. /\ client[c].at = "waiting" /\ UNCHANGED <<ask, orders, keys, stock>> /\ tx' = tx
        /\ client' = [client EXCEPT ![c].at = "answered"]
    BY DEF Leave
  <1>2. client \in [Creators -> [at : {"idle", "waiting", "answered"},
                                   leader : Creators \cup {None}, order : Creators \cup {None}]]
    BY DEF OrdersInv, OrdersTypeOK
  <1>3. \A d \in Creators : /\ d = c => client'[d].at = "answered"
                            /\ d # c => client'[d] = client[d]
                            /\ client'[d].order = client[d].order
    BY <1>1, <1>2
  <1>4. Clients'
    BY <1>1, <1>3 DEF OrdersInv, Clients, MayLearn
  <1> QED
    BY <1>1, <1>2, <1>3, <1>4, ClientStep

(* A crash ends what runs on one replica: less is held, nothing is learned. *)
LEMMA CrashInv ==
  ASSUME OrdersInv, NEW r \in Replicas, Crash(r)
  PROVE  OrdersInv'
  <1> DEFINE hit(x) == x \in Creators /\ ask[x].replica = r
  <1>1. /\ tx' = [x \in Txs |-> IF hit(x) /\ Running(x) THEN Ended(tx[x], None) ELSE tx[x]]
        /\ client' = [c \in Creators |-> IF hit(c) /\ client[c].at = "waiting"
                                         THEN [client[c] EXCEPT !.at = "answered"] ELSE client[c]]
        /\ UNCHANGED <<ask, orders, keys, stock>>
    BY DEF Crash
  <1>2. /\ OrdersTypeOK /\ tx \in [Txs -> Execution] /\ Creators \cap Cancels = {}
        /\ client \in [Creators -> [at : {"idle", "waiting", "answered"},
                                    leader : Creators \cup {None}, order : Creators \cup {None}]]
    BY OrdersAssumption DEF OrdersInv, OrdersTypeOK
  <1>3. ASSUME NEW x \in Txs
        PROVE  /\ tx'[x] \in Execution
               /\ \/ tx'[x] = tx[x]
                  \/ /\ x \in Creators /\ Running(x)
                     /\ tx'[x].pc = "done" /\ tx'[x].locks = {} /\ tx'[x].want = None
                     /\ tx'[x].order = None
    BY <1>1, <1>2, TxFacts DEF Ended, Execution
  <1>4. ASSUME NEW c \in Creators
        PROVE  /\ client'[c] \in [at : {"idle", "waiting", "answered"},
                                  leader : Creators \cup {None}, order : Creators \cup {None}]
               /\ client'[c].order = client[c].order
               /\ client'[c] = client[c] \/ client'[c].at = "answered"
    BY <1>1, <1>2
  <1>5. OrdersTypeOK'
    <2>1. tx' \in [Txs -> Execution]
      BY <1>1, <1>3
    <2>2. client' \in [Creators -> [at : {"idle", "waiting", "answered"},
                                    leader : Creators \cup {None}, order : Creators \cup {None}]]
      BY <1>1, <1>4
    <2> QED
      BY <1>1, <1>2, <2>1, <2>2 DEF OrdersTypeOK
  <1>6. Executions'
    <2>1. ASSUME NEW x \in Txs PROVE Shape(x, tx[x])'
      BY <1>1, <1>3, FitsNow DEF Shape, CartOf
    <2>2. ASSUME NEW x \in Txs, NEW y \in Txs \ {x} PROVE Apart(x, tx[x], y, tx[y])'
      <3>1. Apart(x, tx[x], y, tx[y])
        BY FitsNow
      <3> QED
        BY <1>1, <1>3, <3>1 DEF Apart
    <2>3. ASSUME NEW y \in Cancels PROVE CancelOk(y, tx[y])'
      <3>1. tx'[y] = tx[y] /\ CancelOk(y, tx[y])
        BY <1>2, <1>3, FitsNow DEF Txs
      <3> QED
        BY <1>1, <3>1 DEF CancelOk
    <2>4. ASSUME NEW c \in Creators PROVE CreationOk(c, tx[c])'
      <3>1. c \in Txs /\ CreationOk(c, tx[c])
        BY FitsNow DEF Txs
      <3>2. CASE tx'[c] = tx[c]
        BY <1>1, <1>4, <3>1, <3>2 DEF CreationOk, MayLearn
      <3>3. CASE tx'[c] # tx[c]
        BY <1>1, <1>3, <1>4, <3>1, <3>3 DEF CreationOk, MayLearn, Running
      <3> QED
        BY <3>2, <3>3
    <2> QED
      BY <2>1, <2>2, <2>3, <2>4 DEF Executions, Fits
  <1>7. Clients'
    BY <1>1, <1>4 DEF OrdersInv, Clients, MayLearn
  <1>8. Made' /\ Conserved'
    BY <1>1 DEF OrdersInv, Made, Conserved, Buyers
  <1> QED
    BY <1>5, <1>6, <1>7, <1>8 DEF OrdersInv

-----------------------------------------------------------------------------
(* The invariant holds when nothing is asked for yet. *)
LEMMA OrdersInitInv == OrdersInit => OrdersInv
  <1> SUFFICES ASSUME OrdersInit PROVE OrdersInv
    OBVIOUS
  <1>1. /\ client = [c \in Creators |-> [at |-> "idle", leader |-> None, order |-> None]]
        /\ tx = [x \in Txs |-> NoExecution] /\ orders = [c \in Creators |-> "none"]
        /\ keys = [k \in Keys |-> None] /\ stock = Stock0
        /\ \A c \in Creators : ask[c] \in Asks[c]
    BY DEF OrdersInit
  <1>2. OrdersTypeOK
    BY <1>1, OrdersAssumption DEF OrdersTypeOK, NoExecution, Execution
  <1>3. Executions
    BY <1>1 DEF Executions, Fits, Shape, Apart, CreationOk, CancelOk, MayLearn, NoExecution, Txs
  <1>4. Made /\ Clients
    BY <1>1 DEF Made, Clients, MayLearn
  <1>5. Conserved
    <2> SUFFICES ASSUME NEW p \in Products
                 PROVE  /\ stock[p] >= 0 /\ IsFiniteSet(Buyers(p))
                        /\ stock[p] + Bought(ask, p, Buyers(p)) = Stock0[p]
      BY DEF Conserved
    <2>1. Buyers(p) = {}
      BY <1>1 DEF Buyers
    <2>2. Bought(ask, p, {}) = 0
      <3>1. Bought(ask, p, {}) = SumOver([c \in {} |-> ask[c].cart[p]], {})
        BY BoughtSum
      <3> QED
        BY <3>1, SumEmpty
    <2>3. stock[p] \in Nat /\ stock[p] = Stock0[p]
      BY <1>1, OrdersAssumption
    <2> QED
      BY <2>1, <2>2, <2>3, FS_EmptySet
  <1> QED
    BY <1>2, <1>3, <1>4, <1>5 DEF OrdersInv

(* Every step of a request, a cancellation, the database or a crash keeps it. *)
LEMMA OrdersStep == OrdersInv /\ [OrdersNext]_orderVars => OrdersInv'
  <1> SUFFICES ASSUME OrdersInv, [OrdersNext]_orderVars PROVE OrdersInv'
    OBVIOUS
  <1>1. ASSUME NEW c \in Creators,
               Arrive(c) \/ CreateStep(c) \/ Fail(c) \/ Answer(c) \/ Leave(c)
        PROVE  OrdersInv'
    BY <1>1, ArriveInv, ClaimKeyInv, LockRowInv, CommitInv, VictimInv, FailInv, AnswerInv, LeaveInv
       DEF CreateStep, Txs
  <1>2. ASSUME NEW y \in Cancels, BeginCancel(y) \/ CancelStep(y) \/ Fail(y)
        PROVE  OrdersInv'
    BY <1>2, BeginCancelInv, LockOrderInv, LockRowInv, CommitCancelInv, VictimInv, FailInv
       DEF CancelStep, Txs
  <1>3. CASE UNCHANGED orderVars
    <2>1. Clients'
      BY <1>3 DEF orderVars, OrdersInv, Clients, MayLearn
    <2>2. client \in [Creators -> [at : {"idle", "waiting", "answered"},
                                   leader : Creators \cup {None}, order : Creators \cup {None}]]
      BY DEF OrdersInv, OrdersTypeOK
    <2> QED
      BY <1>3, <2>1, <2>2, ClientStep DEF orderVars
  <1> QED
    BY <1>1, <1>2, <1>3, CrashInv DEF OrdersNext

(* OrdersTypeOK: every variable keeps its type. *)
THEOREM OrdersCorrect == OrdersSpec => []OrdersTypeOK
  <1>1. OrdersInv => OrdersTypeOK
    BY DEF OrdersInv
  <1> QED
    BY <1>1, OrdersInitInv, OrdersStep, PTL DEF OrdersSpec

(* However many replicas, retries and losses a key goes through, it makes one order. *)
THEOREM KeyMakesOneOrder == OrdersSpec => []OneOrderPerKey
  <1>1. OrdersInv => OneOrderPerKey
    BY DEF OrdersInv, Made, OneOrderPerKey
  <1> QED
    BY <1>1, OrdersInitInv, OrdersStep, PTL DEF OrdersSpec

(* An answer names an order that exists, the same for every client of its key. *)
THEOREM ClientsAgree == OrdersSpec => []AnswersAgree
  <1>1. OrdersInv => AnswersAgree
    BY DEF OrdersInv, Clients, MayLearn, AnswersAgree
  <1> QED
    BY <1>1, OrdersInitInv, OrdersStep, PTL DEF OrdersSpec

(* Stock and what open orders hold always add up to the stock at the start, and
   stock covers what running transactions have taken. *)
THEOREM NothingSoldTwice == OrdersSpec => []StockConserved
  <1>1. OrdersInv => StockConserved
    <2> SUFFICES ASSUME OrdersInv PROVE StockConserved
      OBVIOUS
    <2>1. StockCoversHeld
      <3>1. \A c \in Creators : CreationOk(c, tx[c])
        BY FitsNow DEF Txs
      <3> QED
        BY <3>1 DEF StockCoversHeld, OrdersInv, Conserved, CreationOk
    <2> QED
      BY <2>1, Zenon DEF StockConserved, OrdersInv, Conserved, Bought, Buyers
  <1> QED
    BY <1>1, OrdersInitInv, OrdersStep, PTL DEF OrdersSpec

(* Creations lock their rows in one order, so they never wait in a circle. *)
THEOREM CreationsDoNotDeadlock == OrdersSpec => []CreationsNeverCircle
  BY NoCircle, OrdersInitInv, OrdersStep, PTL DEF OrdersSpec

-----------------------------------------------------------------------------
\* Orders look atomic.

\* Past its checks a cart is not empty and asks for something; who waits was told nothing.
Checked ==
  \A c \in Creators : /\ tx[c].pc = "rows" => ~Invalid(ask[c].cart)
                      /\ client[c].at # "answered" => client[c].order = None

\* What a step does to the parts of the state that others see.
Quiet == /\ UNCHANGED <<ask, orders, keys, stock>>
         /\ \A c \in Creators : client'[c].order = client[c].order

VisibleStep ==
  \/ Quiet
  \/ \E c \in Creators : Commit(c) \/ Answer(c)
  \/ \E y \in Cancels : CommitCancel(y)

ClientRecord == [at : {"idle", "waiting", "answered"}, leader : Creators \cup {None},
                 order : Creators \cup {None}]

LEMMA EveryVisibleStep ==
  ASSUME OrdersTypeOK, [OrdersNext]_orderVars
  PROVE  VisibleStep
  <1>0. client \in [Creators -> ClientRecord]
    BY DEF OrdersTypeOK, ClientRecord
  <1>1. ASSUME NEW c \in Creators, Arrive(c) PROVE Quiet
    <2>1. PICK l : client' = [client EXCEPT ![c] = [client[c] EXCEPT !.at = "waiting", !.leader = l]]
      BY <1>1 DEF Arrive
    <2>2. UNCHANGED <<ask, orders, keys, stock>>
      BY <1>1 DEF Arrive
    <2> QED
      BY <1>0, <2>1, <2>2 DEF Quiet, ClientRecord
  <1>2. ASSUME NEW c \in Creators, Leave(c) PROVE Quiet
    BY <1>0, <1>2 DEF Leave, Quiet, ClientRecord
  <1>3. ASSUME NEW r \in Replicas, Crash(r) PROVE Quiet
    BY <1>0, <1>3 DEF Crash, Quiet, ClientRecord
  <1>4. ASSUME NEW x \in Txs, LockRow(x) \/ Victim(x) \/ Fail(x) \/ ClaimKey(x) \/ BeginCancel(x) \/ LockOrder(x)
        PROVE  Quiet
    BY <1>4 DEF LockRow, Victim, Fail, ClaimKey, BeginCancel, LockOrder, Quiet
  <1>5. CASE UNCHANGED orderVars
    BY <1>5 DEF orderVars, Quiet, VisibleStep
  <1> QED
    BY <1>1, <1>2, <1>3, <1>4, <1>5 DEF OrdersNext, CreateStep, CancelStep, Txs, VisibleStep

LEMMA CheckedStep ==
  ASSUME OrdersInv, Checked, [OrdersNext]_orderVars
  PROVE  Checked'
  <1>0. /\ OrdersTypeOK /\ client \in [Creators -> ClientRecord] /\ tx \in [Txs -> Execution]
        /\ Creators \subseteq Txs
    BY DEF OrdersInv, OrdersTypeOK, ClientRecord, Txs
  <1>1. ask' = ask
    BY DEF OrdersNext, CreateStep, CancelStep, Arrive, ClaimKey, LockRow, Commit, Victim, Fail, Answer, Leave,
           BeginCancel, LockOrder, CommitCancel, Crash, orderVars
  <1>2. ASSUME NEW c \in Creators, tx'[c].pc = "rows" PROVE ~Invalid(ask[c].cart)
    <2>1. tx[c] \in Execution
      BY <1>0
    <2>2. CASE tx[c].pc = "rows"
      BY <2>2 DEF Checked
    <2>3. CASE tx[c].pc # "rows" /\ ClaimKey(c)
      <3>1. Ended(tx[c], None).pc = "done" /\ \A o : Ended(tx[c], o).pc = "done"
        BY <2>1 DEF Ended, Execution
      <3> QED
        BY <1>0, <1>2, <2>3, <3>1 DEF ClaimKey
    <2>4. CASE tx[c].pc # "rows" /\ ~ClaimKey(c)
      <3>1. ASSUME NEW x \in Txs, \A z \in Txs \ {x} : tx'[z] = tx[z], x = c => tx'[x].pc # "rows"
            PROVE  FALSE
        BY <1>0, <1>2, <2>4, <3>1
      <3>2. \A t \in Execution : \A o : Ended(t, o).pc = "done"
        BY DEF Ended, Execution
      <3>3. ASSUME NEW x \in Txs, tx[x].pc = "rows", \A z \in Txs \ {x} : tx'[z] = tx[z] PROVE FALSE
        BY <1>0, <1>2, <2>4, <3>3
      <3>4. ASSUME NEW d \in Creators, ClaimKey(d) PROVE FALSE
        BY <1>0, <1>2, <2>4, <3>4 DEF ClaimKey
      <3>5. ASSUME NEW x \in Txs, Fail(x) PROVE FALSE
        BY <1>0, <3>1, <3>2, <3>5 DEF Fail
      <3>6. ASSUME NEW x \in Txs, LockRow(x) \/ Victim(x) PROVE FALSE
        <4>1. tx[x].pc = "rows"
          BY <3>6 DEF LockRow, Victim, Circle, WaitsFor
        <4>2. \A z \in Txs \ {x} : tx'[z] = tx[z]
          BY <1>0, <3>6 DEF LockRow, Victim
        <4> QED
          BY <3>3, <4>1, <4>2
      <3>7. ASSUME NEW x \in Txs, tx[x].pc = "rows", Commit(x) \/ CommitCancel(x) PROVE FALSE
        BY <1>0, <3>3, <3>7 DEF Commit, CommitCancel
      <3>8. ASSUME NEW d \in Creators, Arrive(d) PROVE FALSE
        <4>1. tx' = tx \/ tx' = [tx EXCEPT ![d].pc = "claim"]
          BY <3>8 DEF Arrive
        <4> QED
          BY <1>0, <1>2, <2>4, <4>1 DEF Execution
      <3>9. ASSUME NEW y \in Cancels, BeginCancel(y) \/ LockOrder(y) PROVE FALSE
        <4>1. y \in Txs /\ y # c /\ \A z \in Txs \ {y} : tx'[z] = tx[z]
          BY <1>0, <3>9, OrdersAssumption DEF BeginCancel, LockOrder, Txs
        <4> QED
          BY <3>1, <4>1
      <3>10. ASSUME NEW r \in Replicas, Crash(r) PROVE FALSE
        BY <1>0, <1>2, <2>4, <3>2, <3>10 DEF Crash
      <3>11. CASE tx' = tx
        BY <1>2, <2>4, <3>11
      <3> QED
        BY <3>4, <3>5, <3>6, <3>7, <3>8, <3>9, <3>10, <3>11
           DEF OrdersNext, CreateStep, CancelStep, Commit, CommitCancel, Answer, Leave, orderVars, Txs
    <2> QED
      BY <2>2, <2>3, <2>4
  <1>3. ASSUME NEW c \in Creators, client'[c].at # "answered" PROVE client'[c].order = None
    <2>1. client[c] \in ClientRecord /\ (client[c].at # "answered" => client[c].order = None)
      BY <1>0 DEF Checked
    <2>2. CASE UNCHANGED client
      BY <1>3, <2>1, <2>2
    <2>3. ASSUME NEW d \in Creators, Arrive(d) PROVE client'[c].order = None
      <3>1. PICK l : client' = [client EXCEPT ![d] = [client[d] EXCEPT !.at = "waiting", !.leader = l]]
        BY <2>3 DEF Arrive
      <3>2. client[d].at = "idle"
        BY <2>3 DEF Arrive
      <3> QED
        BY <1>0, <1>3, <2>1, <3>1, <3>2 DEF ClientRecord
    <2>4. ASSUME NEW d \in Creators, Answer(d) \/ Leave(d) PROVE client'[c].order = None
      <3>1. d # c => client'[c] = client[c]
        BY <1>0, <2>4 DEF Answer, Leave
      <3>2. d = c => client'[c].at = "answered"
        BY <1>0, <2>4 DEF Answer, Leave, ClientRecord
      <3> QED
        BY <1>3, <2>1, <3>1, <3>2
    <2>5. ASSUME NEW r \in Replicas, Crash(r) PROVE client'[c].order = None
      <3>1. client'[c] = client[c] \/ client'[c] = [client[c] EXCEPT !.at = "answered"]
        BY <2>5 DEF Crash
      <3> QED
        BY <1>3, <2>1, <3>1 DEF ClientRecord
    <2> QED
      BY <2>2, <2>3, <2>4, <2>5 DEF OrdersNext, CreateStep, CancelStep, ClaimKey, LockRow, Commit, Victim, Fail,
           BeginCancel, LockOrder, CommitCancel, orderVars
  <1> QED
    BY <1>1, <1>2, <1>3 DEF Checked, Invalid

\* A commit makes the whole order in one step.
LEMMA CommitIsCreate ==
  ASSUME OrdersInv, Checked, NEW c \in Creators, Commit(c)
  PROVE  Atomic!Create(c)
  <1>1. c \in Txs /\ OrdersTypeOK /\ Shape(c, tx[c]) /\ CreationOk(c, tx[c])
    BY FitsNow DEF OrdersInv, Txs
  <1>2. /\ tx[c].pc = "rows" /\ tx[c].want = None
        /\ tx[c].locks = DOMAIN ask[c].cart
    BY <1>1 DEF Commit, Shape, CartOf
  <1>3. \A p \in DOMAIN ask[c].cart : /\ p \in Products /\ stock[p] >= ask[c].cart[p]
                                      /\ ask[c].cart[p] \in Nat /\ stock[p] \in Int /\ ask[c].cart[p] # 0
    BY <1>1, <1>2, AskFacts DEF CreationOk, Checked, Invalid, OrdersTypeOK
  <1>4. Atomic!Sellable(ask[c].cart)
    <2>1. DOMAIN ask[c].cart # {}
      BY <1>2 DEF Checked, Invalid
    <2>2. \A p \in DOMAIN ask[c].cart : p \in Products /\ ask[c].cart[p] > 0 /\ ask[c].cart[p] <= stock[p]
      BY <1>3
    <2> QED
      BY <2>1, <2>2 DEF Atomic!Sellable
  <1>5. orders[c] = "none" /\ (ask[c].key # NoKey => keys[ask[c].key] = None)
    BY <1>1, <1>2 DEF CreationOk
  <1>6. keys' = IF ask[c].key = NoKey THEN keys ELSE [keys EXCEPT ![ask[c].key] = c]
    <2>1. keys \in [Keys -> Creators \cup {None}] /\ keys' = [k \in Keys |-> IF k = ask[c].key THEN c ELSE keys[k]]
      BY <1>1 DEF OrdersTypeOK, Commit
    <2>2. ask[c].key \in Keys \cup {NoKey} /\ NoKey \notin Keys
      BY <1>1, AskFacts, OrdersAssumption
    <2>3. CASE ask[c].key = NoKey
      BY <2>1, <2>2, <2>3
    <2>4. CASE ask[c].key # NoKey
      BY <2>1, <2>2, <2>4
    <2> QED
      BY <2>3, <2>4
  <1>7. /\ orders' = [orders EXCEPT ![c] = "open"]
        /\ stock' = [p \in Products |-> IF p \in DOMAIN ask[c].cart THEN stock[p] - ask[c].cart[p] ELSE stock[p]]
        /\ UNCHANGED <<ask, client>>
    BY <1>2 DEF Commit
  <1> QED
    BY <1>4, <1>5, <1>6, <1>7 DEF Atomic!Create

\* So does the commit of a cancellation.
LEMMA CommitCancelIsCancel ==
  ASSUME OrdersInv, NEW y \in Cancels, CommitCancel(y)
  PROVE  tx[y].order \in Creators /\ Atomic!Cancel(tx[y].order)
  <1>1. y \in Txs /\ OrdersTypeOK /\ Shape(y, tx[y]) /\ CancelOk(y, tx[y]) /\ y \notin Creators
    BY FitsNow, OrdersAssumption DEF OrdersInv, Txs
  <1>2. tx[y].pc = "rows" /\ tx[y].want = None
    BY DEF CommitCancel
  <1>3. tx[y].order \in Creators /\ orders[tx[y].order] = "open"
    BY <1>1, <1>2, TxFacts DEF CancelOk
  <1>4. tx[y].locks = DOMAIN ask[tx[y].order].cart
    BY <1>1, <1>2 DEF Shape, CartOf
  <1>5. /\ orders' = [orders EXCEPT ![tx[y].order] = "cancelled"]
        /\ stock' = [p \in Products |-> IF p \in DOMAIN ask[tx[y].order].cart
                                        THEN stock[p] + ask[tx[y].order].cart[p] ELSE stock[p]]
        /\ UNCHANGED <<ask, client, keys>>
    BY <1>4 DEF CommitCancel
  <1> QED
    BY <1>3, <1>5 DEF Atomic!Cancel

toldNow == [c \in Creators |-> client[c].order]

\* An answer tells the order of the client's key, or nothing.
LEMMA AnswerTells ==
  ASSUME OrdersInv, OrdersInv', Checked, NEW c \in Creators, Answer(c)
  PROVE  Atomic!Tell(c) \/ UNCHANGED <<ask, orders, keys, stock, toldNow>>
  <1>1. /\ client \in [Creators -> ClientRecord] /\ client' \in [Creators -> ClientRecord]
        /\ UNCHANGED <<ask, orders, keys, stock>> /\ client[c].order = None
        /\ \A d \in Creators \ {c} : client'[d] = client[d]
    BY DEF OrdersInv, OrdersTypeOK, ClientRecord, Answer, Checked
  <1>2. CASE client'[c].order = None
    <2>1. \A d \in Creators : client'[d].order = client[d].order
      BY <1>1, <1>2
    <2> QED
      BY <1>1, <2>1 DEF toldNow
  <1>3. CASE client'[c].order # None
    <2>1. PICK o \in Creators : o = client'[c].order
      BY <1>1, <1>3 DEF ClientRecord
    <2>2. orders[o] # "none" /\ IF ask[c].key = NoKey THEN o = c ELSE keys[ask[c].key] = o
      <3>1. Clients'
        BY DEF OrdersInv
      <3> QED
        BY <1>1, <1>3, <2>1, <3>1 DEF Clients, MayLearn
    <2>3. [d \in Creators |-> client'[d].order] = [[d \in Creators |-> client[d].order] EXCEPT ![c] = o]
      BY <1>1, <2>1
    <2> QED
      BY <1>1, <2>2, <2>3 DEF Atomic!Tell
  <1> QED
    BY <1>2, <1>3

(* Orders implements AtomicOrders: every commit is the creation or the cancellation
   of one order with its whole cart, every answer tells a client its order, and
   nothing else is seen. *)
THEOREM OrdersAreAtomic == OrdersSpec => ImplementsAtomic
  <1>1. OrdersInit => Atomic!AtomicInit
    BY DEF OrdersInit, Atomic!AtomicInit
  <1>2. OrdersInit => Checked
    BY DEF OrdersInit, Checked, NoExecution, Txs
  <1>3. OrdersInv /\ OrdersInv' /\ Checked /\ [OrdersNext]_orderVars => [Atomic!AtomicNext]_(Atomic!atomicVars)
    <2> SUFFICES ASSUME OrdersInv, OrdersInv', Checked, [OrdersNext]_orderVars
                 PROVE  Atomic!AtomicNext \/ UNCHANGED <<ask, orders, keys, stock, toldNow>>
      BY DEF Atomic!atomicVars, toldNow
    <2>1. VisibleStep
      BY EveryVisibleStep DEF OrdersInv
    <2>2. CASE Quiet
      BY <2>2 DEF Quiet, toldNow
    <2>3. ASSUME NEW c \in Creators, Commit(c) PROVE Atomic!AtomicNext
      BY <2>3, CommitIsCreate DEF Atomic!AtomicNext
    <2>4. ASSUME NEW y \in Cancels, CommitCancel(y) PROVE Atomic!AtomicNext
      BY <2>4, CommitCancelIsCancel DEF Atomic!AtomicNext
    <2>5. ASSUME NEW c \in Creators, Answer(c)
          PROVE  Atomic!AtomicNext \/ UNCHANGED <<ask, orders, keys, stock, toldNow>>
      BY <2>5, AnswerTells DEF Atomic!AtomicNext
    <2> QED
      BY <2>1, <2>2, <2>3, <2>4, <2>5 DEF VisibleStep
  <1>4. OrdersInv /\ Checked /\ [OrdersNext]_orderVars => Checked'
    BY CheckedStep
  <1> QED
    BY <1>1, <1>2, <1>3, <1>4, OrdersInitInv, OrdersStep, PTL DEF OrdersSpec, ImplementsAtomic, Atomic!AtomicSpec
=============================================================================
