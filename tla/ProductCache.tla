---------------------------- MODULE ProductCache ----------------------------
(***************************************************************************)
(* One product in two caches: L1 in every replica's memory, L2 in Redis.   *)
(* A read that misses both joins the flight of its replica, whose leader   *)
(* asks the database and fills L2; each reader then fills L1.  Orders and  *)
(* cancellations change the product and invalidate it, on their replica    *)
(* and in Redis: CreateOrder before its transaction commits, CancelOrder   *)
(* after.  Products are independent of each other; a value is the number   *)
(* of the committed write it shows.  A tick is a unit of time.             *)
(***************************************************************************)
EXTENDS Integers, FiniteSets

CONSTANTS Pods,         \* replicas
          Readers, Writers,
          PodOf,        \* reader or writer -> its replica
          Cancelling,   \* the writers that are cancellations
          NoPod,        \* nobody, no copy
          L1TTL, L2TTL, LeaderLimit,
          RedisFails    \* whether calls to Redis may fail

Versions == 0..Cardinality(Writers)
StaleLimit == LeaderLimit + L2TTL + L1TTL

ASSUME CacheAssumption ==
  /\ IsFiniteSet(Writers) /\ Cancelling \subseteq Writers
  /\ PodOf \in [Readers \cup Writers -> Pods]
  /\ NoPod \notin Readers
  /\ L1TTL \in Nat \ {0} /\ L2TTL \in Nat \ {0} /\ LeaderLimit \in Nat
  /\ RedisFails \in BOOLEAN

VARIABLES version,  \* number of the last committed write
          old,      \* version -> ticks since it was overwritten; counted to StaleLimit
          l1, l2,   \* copies: value and ticks left
          flight,   \* replica -> the leader new readers join
          leader,   \* reader -> the flight it leads
          reader,   \* reader -> its read
          writer,   \* writer -> its step
          known     \* replica -> newest write whose invalidation is complete there

cacheVars == <<version, old, l1, l2, flight, leader, reader, writer, known>>

Copy(ttl) == [v : Versions, left : 0..ttl]
NoCopy == [v |-> 0, left |-> 0]

CacheTypeOK ==
  /\ version \in Versions
  /\ old \in [Versions -> 0..StaleLimit]
  /\ l1 \in [Pods -> Copy(L1TTL)]
  /\ l2 \in Copy(L2TTL)
  /\ flight \in [Pods -> Readers \cup {NoPod}]
  /\ leader \in [Readers -> [pc : {"idle", "query", "set"}, v : Versions, age : 0..LeaderLimit]]
  /\ reader \in [Readers -> [pc : {"idle", "l2", "wait", "add"}, on : Readers \cup {NoPod},
                             v : Versions, atLeast : Versions]]
  /\ writer \in [Writers -> {"idle", "remove", "delete", "forget", "commit", "done"}]
  /\ known \in [Pods -> Versions]

NoRead == [pc |-> "idle", on |-> NoPod, v |-> 0, atLeast |-> 0]
NoFlight == [pc |-> "idle", v |-> 0, age |-> 0]

CacheInit ==
  /\ version = 0
  /\ old = [v \in Versions |-> 0]
  /\ l1 = [p \in Pods |-> NoCopy] /\ l2 = NoCopy
  /\ flight = [p \in Pods |-> NoPod]
  /\ leader = [r \in Readers |-> NoFlight]
  /\ reader = [r \in Readers |-> NoRead]
  /\ writer = [w \in Writers |-> "idle"]
  /\ known = [p \in Pods |-> 0]

-----------------------------------------------------------------------------
\* L1ProductRepo: a hit is served from memory, a miss goes on to L2.
ReadL1(r) ==
  /\ reader[r].pc = "idle" /\ leader[r].pc = "idle"
  /\ l1[PodOf[r]].left = 0
  /\ reader' = [reader EXCEPT ![r] = [NoRead EXCEPT !.pc = "l2", !.atLeast = known[PodOf[r]]]]
  /\ UNCHANGED <<version, old, l1, l2, flight, leader, writer, known>>

\* What a hit in L2 is worth is not promised: an old copy may be there until it expires.
HitL2(r) ==
  /\ reader[r].pc = "l2" /\ l2.left > 0
  /\ reader' = [reader EXCEPT ![r] = [@ EXCEPT !.pc = "add", !.v = l2.v, !.atLeast = 0]]
  /\ UNCHANGED <<version, old, l1, l2, flight, leader, writer, known>>

\* A miss, a failing Redis and an open breaker all lead to the flight.
MissL2(r) ==
  LET p == PodOf[r]
      lead == flight[p] = NoPod
  IN /\ reader[r].pc = "l2" /\ (l2.left = 0 \/ RedisFails)
     /\ reader' = [reader EXCEPT ![r] = [@ EXCEPT !.pc = "wait", !.on = IF lead THEN r ELSE flight[p]]]
     /\ flight' = IF lead THEN [flight EXCEPT ![p] = r] ELSE flight
     /\ leader' = IF lead THEN [leader EXCEPT ![r] = [NoFlight EXCEPT !.pc = "query"]] ELSE leader
     /\ UNCHANGED <<version, old, l1, l2, writer, known>>

Query(r) ==
  /\ leader[r].pc = "query"
  /\ leader' = [leader EXCEPT ![r] = [@ EXCEPT !.pc = "set", !.v = version]]
  /\ UNCHANGED <<version, old, l1, l2, flight, reader, writer, known>>

\* The flight is over: its entry goes unless it was forgotten, its readers go on as given.
Land(r, given) ==
  /\ leader' = [leader EXCEPT ![r] = NoFlight]
  /\ flight' = [p \in Pods |-> IF flight[p] = r THEN NoPod ELSE flight[p]]
  /\ reader' = [s \in Readers |-> IF reader[s].pc = "wait" /\ reader[s].on = r THEN given[s] ELSE reader[s]]

\* The leader fills L2, if Redis lets it, and hands out what it read.
SetL2(r) ==
  /\ leader[r].pc = "set"
  /\ \/ l2' = [v |-> leader[r].v, left |-> L2TTL]
     \/ RedisFails /\ UNCHANGED l2
  /\ Land(r, [s \in Readers |-> [reader[s] EXCEPT !.pc = "add", !.on = NoPod, !.v = leader[r].v]])
  /\ UNCHANGED <<version, old, l1, writer, known>>

\* The query fails or the leader's time is up: an error for everyone in the flight.
QueryFails(r) ==
  /\ leader[r].pc = "query"
  /\ Land(r, [s \in Readers |-> NoRead])
  /\ UNCHANGED <<version, old, l1, l2, writer, known>>

FillL1(r) ==
  /\ reader[r].pc = "add"
  /\ l1' = [l1 EXCEPT ![PodOf[r]] = [v |-> reader[r].v, left |-> L1TTL]]
  /\ reader' = [reader EXCEPT ![r] = NoRead]
  /\ UNCHANGED <<version, old, l2, flight, leader, writer, known>>

\* A reader's own deadline; its flight goes on.
LeaveRead(r) ==
  /\ reader[r].pc = "wait"
  /\ reader' = [reader EXCEPT ![r] = NoRead]
  /\ UNCHANGED <<version, old, l1, l2, flight, leader, writer, known>>

-----------------------------------------------------------------------------
\* The product's row is locked from its update to the end of the transaction.
HoldsRow(w) == IF w \in Cancelling THEN writer[w] = "commit"
               ELSE writer[w] \in {"remove", "delete", "forget", "commit"}

BeginWrite(w) ==
  /\ writer[w] = "idle"
  /\ \A x \in Writers : ~HoldsRow(x)
  /\ writer' = [writer EXCEPT ![w] = IF w \in Cancelling THEN "commit" ELSE "remove"]
  /\ UNCHANGED <<version, old, l1, l2, flight, leader, reader, known>>

\* A creation may still be rolled back after it has invalidated the product.
CommitWrite(w) ==
  /\ writer[w] = "commit"
  /\ \/ version' = version + 1
     \/ w \notin Cancelling /\ UNCHANGED version
  /\ writer' = [writer EXCEPT ![w] = IF w \in Cancelling THEN "remove" ELSE "done"]
  /\ UNCHANGED <<old, l1, l2, flight, leader, reader, known>>

\* InvalidateByID, first the replica's own memory,
RemoveL1(w) ==
  /\ writer[w] = "remove"
  /\ l1' = [l1 EXCEPT ![PodOf[w]] = NoCopy]
  /\ writer' = [writer EXCEPT ![w] = "delete"]
  /\ UNCHANGED <<version, old, l2, flight, leader, reader, known>>

\* then Redis, where a failure is only logged,
DeleteL2(w) ==
  /\ writer[w] = "delete"
  /\ l2' = NoCopy \/ (RedisFails /\ UNCHANGED l2)
  /\ writer' = [writer EXCEPT ![w] = "forget"]
  /\ UNCHANGED <<version, old, l1, flight, leader, reader, known>>

\* Mutant of ForgetFlight: readers go on joining the flight under way.
ForgetFlightNot(w) ==
  /\ writer[w] = "forget"
  /\ writer' = [writer EXCEPT ![w] = IF w \in Cancelling THEN "done" ELSE "commit"]
  /\ known' = IF w \in Cancelling THEN [known EXCEPT ![PodOf[w]] = version] ELSE known
  /\ UNCHANGED <<version, old, l1, l2, flight, leader, reader>>

\* then the flight: who comes later starts a new one.
ForgetFlight(w) ==
  /\ writer[w] = "forget"
  /\ flight' = [flight EXCEPT ![PodOf[w]] = NoPod]
  /\ writer' = [writer EXCEPT ![w] = IF w \in Cancelling THEN "done" ELSE "commit"]
  /\ known' = IF w \in Cancelling THEN [known EXCEPT ![PodOf[w]] = version] ELSE known
  /\ UNCHANGED <<version, old, l1, l2, leader, reader>>

-----------------------------------------------------------------------------
Older(c) == IF c.left > 1 THEN [c EXCEPT !.left = @ - 1] ELSE NoCopy

\* Mutant of InTime: a leader without a limit.
InTimeAlways == \A r \in Readers : reader[r].pc # "add"

\* Nobody is at the end of its time: leaders have a limit, filling L1 takes none.
InTime == \A r \in Readers : /\ leader[r].pc = "idle" \/ leader[r].age < LeaderLimit
                             /\ reader[r].pc # "add"

Tick ==
  /\ InTime
  /\ l1' = [p \in Pods |-> Older(l1[p])]
  /\ l2' = Older(l2)
  /\ leader' = [r \in Readers |-> IF leader[r].pc = "idle" \/ leader[r].age = LeaderLimit THEN leader[r]
                                  ELSE [leader[r] EXCEPT !.age = @ + 1]]
  /\ old' = [v \in Versions |-> IF v < version /\ old[v] < StaleLimit THEN old[v] + 1 ELSE old[v]]
  /\ UNCHANGED <<version, flight, reader, writer, known>>

ReadStep(r) == \/ ReadL1(r) \/ HitL2(r) \/ MissL2(r) \/ Query(r) \/ SetL2(r)
               \/ QueryFails(r) \/ FillL1(r) \/ LeaveRead(r)
WriteStep(w) == \/ BeginWrite(w) \/ CommitWrite(w) \/ RemoveL1(w) \/ DeleteL2(w) \/ ForgetFlight(w)

CacheNext == \/ \E r \in Readers : ReadStep(r)
             \/ \E w \in Writers : WriteStep(w)
             \/ Tick

CacheSpec == CacheInit /\ [][CacheNext]_cacheVars

-----------------------------------------------------------------------------
Stale(v) == v < version /\ old[v] >= StaleLimit

(* However an old value got into a cache (a creation that invalidates before it
   commits, a leader that read before the write, a failed delete, another
   replica's memory), it is served for less than the leader's limit and both
   lifetimes together. *)
StalenessBounded == /\ l2.left > 0 => ~Stale(l2.v)
                    /\ \A p \in Pods : l1[p].left > 0 => ~Stale(l1[p].v)

(* cached_product_repo.go: after an invalidation new readers do not wait for
   the leader under way.  A read that begins after a cancellation has
   invalidated on its replica gets nothing older from a flight. *)
FlightsAreFresh == \A r \in Readers : reader[r].pc = "add" => reader[r].v >= reader[r].atLeast

=============================================================================
