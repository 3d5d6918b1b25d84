---------------------------- MODULE OrderListing ----------------------------
(***************************************************************************)
(* A client walks through GET /orders page by page while orders come and   *)
(* go.  An order gets its id from the sequence when its transaction        *)
(* inserts it and is seen from the commit on, so ids may become visible    *)
(* out of order; a page is one query, newest first, below the last id of   *)
(* the page before it.                                                     *)
(***************************************************************************)
EXTENDS Integers, FiniteSets

CONSTANTS MaxId,         \* ids the sequence gives out
          PageSizes,     \* limits clients ask for, 0 when there is none
          DefaultLimit, MaxLimit

ASSUME ListingAssumption ==
  /\ MaxId \in Nat /\ PageSizes \subseteq Int
  /\ DefaultLimit \in Nat \ {0} /\ MaxLimit \in Nat \ {0}

Ids == 1..MaxId

VARIABLES lastId,   \* value of the sequence
          row,      \* id -> its row in orders
          cursor,   \* after_id of the next page; 0 for the first
          listing,  \* where the client is
          atStart,  \* orders that were there when the listing began
          listed    \* id -> how often it was listed; counted to 2

listingVars == <<lastId, row, cursor, listing, atStart, listed>>

ListingTypeOK ==
  /\ lastId \in 0..MaxId
  /\ row \in [Ids -> {"none", "inserted", "visible", "gone"}]
  /\ cursor \in 0..MaxId
  /\ listing \in {"idle", "paging", "ended"}
  /\ atStart \in SUBSET Ids
  /\ listed \in [Ids -> 0..2]

ListingInit ==
  /\ lastId = 0
  /\ row = [i \in Ids |-> "none"]
  /\ cursor = 0 /\ listing = "idle"
  /\ atStart = {}
  /\ listed = [i \in Ids |-> 0]

-----------------------------------------------------------------------------
InsertOrder ==
  /\ lastId < MaxId
  /\ lastId' = lastId + 1
  /\ row' = [row EXCEPT ![lastId + 1] = "inserted"]
  /\ UNCHANGED <<cursor, listing, atStart, listed>>

\* The end of an inserting transaction; an id that is rolled back is not used again.
EndInsert(i) ==
  /\ row[i] = "inserted"
  /\ \E s \in {"visible", "gone"} : row' = [row EXCEPT ![i] = s]
  /\ UNCHANGED <<lastId, cursor, listing, atStart, listed>>

\* No operation of the service deletes an order; somebody may.
DeleteOrder(i) ==
  /\ row[i] = "visible"
  /\ row' = [row EXCEPT ![i] = "gone"]
  /\ atStart' = atStart \ {i}
  /\ UNCHANGED <<lastId, cursor, listing, listed>>

Visible == {i \in Ids : row[i] = "visible"}

BeginListing ==
  /\ listing = "idle"
  /\ listing' = "paging" /\ cursor' = 0
  /\ atStart' = Visible
  /\ UNCHANGED <<lastId, row, listed>>

\* OrderService.GetOrders.
PageLimit(n) == IF n <= 0 THEN DefaultLimit ELSE IF n > MaxLimit THEN MaxLimit ELSE n

Below(c) == {i \in Visible : c > 0 => i < c}

\* The rows of a query with ORDER BY id DESC LIMIT limit.
IsPage(P, S, limit) ==
  /\ P \subseteq S /\ Cardinality(P) <= limit
  /\ \A i \in P, j \in S \ P : i > j
  /\ P # S => Cardinality(P) = limit

\* Mutant of IsLast: a full page is taken for the last one.
IsLastSmall(P, limit) == Cardinality(P) <= limit

\* A page that is not full has no next_after_id.
IsLast(P, limit) == Cardinality(P) # limit

(* One page.  A refused offset or cursor and a failing query change nothing:
   the client asks again. *)
GetOrders(n) ==
  /\ listing = "paging"
  /\ \E P \in SUBSET Below(cursor) :
       /\ IsPage(P, Below(cursor), PageLimit(n))
       /\ listed' = [i \in Ids |-> IF i \in P /\ listed[i] < 2 THEN listed[i] + 1 ELSE listed[i]]
       /\ IF IsLast(P, PageLimit(n))
          THEN listing' = "ended" /\ UNCHANGED cursor
          ELSE /\ \E last \in P : (\A i \in P : last <= i) /\ cursor' = last
               /\ UNCHANGED listing
  /\ UNCHANGED <<lastId, row, atStart>>

ListingNext ==
  \/ InsertOrder
  \/ \E i \in Ids : EndInsert(i) \/ DeleteOrder(i)
  \/ BeginListing
  \/ \E n \in PageSizes : GetOrders(n)

ListingSpec == ListingInit /\ [][ListingNext]_listingVars

-----------------------------------------------------------------------------
(* TestGetOrders_DeleteBetweenPages_NothingLost for every interleaving: however
   orders are added, committed late or deleted between the pages, and whatever
   limits are asked for, a listing that has ended has every order that was
   there from its start to its end, and none is ever listed twice. *)
ListingComplete ==
  /\ \A i \in Ids : listed[i] <= 1
  /\ listing = "ended" => \A i \in atStart : listed[i] = 1

=============================================================================
