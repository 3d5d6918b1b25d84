----------------------------- MODULE CacheProofs -----------------------------
(***************************************************************************)
(* How old a cached product can get and what a flight hands out, for any   *)
(* replicas, readers, writers and lifetimes that keep CacheAssumption.     *)
(***************************************************************************)
EXTENDS ProductCache, FiniteSetTheorems, TLAPS

\* The writers that are past their commit: every write has a number of its own.
Committed == {w \in Writers : \/ writer[w] = "done"
                              \/ w \in Cancelling /\ writer[w] \in {"remove", "delete", "forget"}}

Numbered == version <= Cardinality(Committed)

\* A value was overwritten at most age ticks ago, if at all.
Young(v, age) == v <= version /\ (v < version => old[v] <= age)

\* What each place can hold: the leader's age, then L2's lifetime, then L1's.
CurrentIsNew == \A v \in Versions : v >= version => old[v] = 0
LeadersYoung == \A r \in Readers : leader[r].pc = "set" => Young(leader[r].v, leader[r].age)
L2Young      == l2.left > 0 => Young(l2.v, LeaderLimit + L2TTL - l2.left)
ReadsYoung   == \A r \in Readers : reader[r].pc = "add" => Young(reader[r].v, LeaderLimit + L2TTL)
L1Young      == \A p \in Pods : l1[p].left > 0 => Young(l1[p].v, StaleLimit - l1[p].left)

Ages == CurrentIsNew /\ LeadersYoung /\ L2Young /\ ReadsYoung /\ L1Young

\* A flight that new readers join, and one that readers wait for, has a leader under way.
FlightsLed == /\ \A p \in Pods : flight[p] # NoPod => leader[flight[p]].pc # "idle"
              /\ \A r \in Readers : reader[r].pc = "wait" => /\ reader[r].on \in Readers
                                                             /\ leader[reader[r].on].pc # "idle"

\* Who has yet to join or to land is promised nothing newer than what it can still get.
KnownOk    == \A p \in Pods : known[p] <= version
LookingOk  == \A r \in Readers : reader[r].pc = "l2" =>
                /\ reader[r].atLeast <= known[PodOf[r]]
                /\ leader[r].pc = "idle"
JoinableOk == \A p \in Pods : flight[p] # NoPod /\ leader[flight[p]].pc = "set" =>
                known[p] <= leader[flight[p]].v
WaitingOk  == \A r \in Readers : reader[r].pc = "wait" =>
                /\ reader[r].atLeast <= version
                /\ leader[reader[r].on].pc = "set" => reader[r].atLeast <= leader[reader[r].on].v

Promises == FlightsLed /\ KnownOk /\ LookingOk /\ JoinableOk /\ WaitingOk /\ FlightsAreFresh

CacheInv == CacheTypeOK /\ Numbered /\ Ages /\ Promises

-----------------------------------------------------------------------------
LEMMA VersionFacts == /\ Cardinality(Writers) \in Nat
                      /\ \A v \in Versions : v \in Nat /\ v <= Cardinality(Writers)
                      /\ 0 \in Versions
                      /\ StaleLimit \in Nat /\ StaleLimit = LeaderLimit + L2TTL + L1TTL
                      /\ L1TTL \in Nat /\ L1TTL > 0 /\ L2TTL \in Nat /\ L2TTL > 0 /\ LeaderLimit \in Nat
  <1>1. Cardinality(Writers) \in Nat
    BY FS_CardinalityType, CacheAssumption
  <1> QED
    BY <1>1, CacheAssumption DEF Versions, StaleLimit

Flight == [pc : {"idle", "query", "set"}, v : Versions, age : 0..LeaderLimit]
Reading == [pc : {"idle", "l2", "wait", "add"}, on : Readers \cup {NoPod}, v : Versions, atLeast : Versions]

LEMMA TypeFacts == CacheTypeOK => /\ leader \in [Readers -> Flight] /\ reader \in [Readers -> Reading]
                                  /\ NoFlight \in Flight /\ NoRead \in Reading
                                  /\ NoCopy \in Copy(L1TTL) /\ NoCopy \in Copy(L2TTL)
  <1>1. 0 \in 0..LeaderLimit /\ 0 \in 0..L1TTL /\ 0 \in 0..L2TTL
    BY VersionFacts
  <1> QED
    BY <1>1, VersionFacts DEF CacheTypeOK, Flight, Reading, NoFlight, NoRead, NoCopy, Copy

-----------------------------------------------------------------------------
\* Types.  What a read or a flight does to the tables of reads and flights.
LEMMA LandTypes ==
  ASSUME CacheTypeOK, NEW r \in Readers, NEW given \in [Readers -> Reading], Land(r, given)
  PROVE  /\ leader' \in [Readers -> Flight] /\ reader' \in [Readers -> Reading]
         /\ flight' \in [Pods -> Readers \cup {NoPod}]
  BY TypeFacts DEF Land, CacheTypeOK

LEMMA ReadTypes ==
  ASSUME CacheTypeOK, NEW r \in Readers, ReadStep(r)
  PROVE  CacheTypeOK'
  <1> USE TypeFacts, VersionFacts
  <1>0. /\ PodOf[r] \in Pods /\ reader[r] \in Reading /\ leader[r] \in Flight
        /\ version \in Versions /\ l2.v \in Versions /\ known[PodOf[r]] \in Versions
    BY CacheAssumption DEF CacheTypeOK, Copy
  <1>1. CASE ReadL1(r)
    <2>1. [NoRead EXCEPT !.pc = "l2", !.atLeast = known[PodOf[r]]] \in Reading
      BY <1>0 DEF NoRead, Reading
    <2> QED
      BY <1>1, <2>1 DEF ReadL1, CacheTypeOK, Reading
  <1>2. CASE HitL2(r)
    <2>1. [reader[r] EXCEPT !.pc = "add", !.v = l2.v, !.atLeast = 0] \in Reading
      BY <1>0 DEF Reading
    <2> QED
      BY <1>2, <2>1 DEF HitL2, CacheTypeOK, Reading
  <1>3. CASE MissL2(r)
    <2>1. \A s \in Readers \cup {NoPod} : [reader[r] EXCEPT !.pc = "wait", !.on = s] \in Reading
      BY <1>0 DEF Reading
    <2>2. [NoFlight EXCEPT !.pc = "query"] \in Flight
      BY DEF Flight, NoFlight
    <2>3. flight[PodOf[r]] \in Readers \cup {NoPod}
      BY <1>0 DEF CacheTypeOK
    <2>4. reader' \in [Readers -> Reading]
      BY <1>3, <2>1, <2>3 DEF MissL2
    <2>5. leader' \in [Readers -> Flight] /\ flight' \in [Pods -> Readers \cup {NoPod}]
      BY <1>0, <1>3, <2>2 DEF MissL2, CacheTypeOK
    <2> QED
      BY <1>3, <2>4, <2>5 DEF MissL2, CacheTypeOK, Reading, Flight
  <1>4. CASE Query(r)
    <2>1. [leader[r] EXCEPT !.pc = "set", !.v = version] \in Flight
      BY <1>0 DEF Flight
    <2> QED
      BY <1>4, <2>1 DEF Query, CacheTypeOK, Flight
  <1>5. CASE SetL2(r)
    <2>1. [s \in Readers |-> [reader[s] EXCEPT !.pc = "add", !.on = NoPod, !.v = leader[r].v]]
            \in [Readers -> Reading]
      BY <1>0 DEF Reading, Flight
    <2>2. [v |-> leader[r].v, left |-> L2TTL] \in Copy(L2TTL)
      BY <1>0 DEF Copy, Flight
    <2>3. l2' \in Copy(L2TTL)
      BY <1>5, <2>2 DEF SetL2, CacheTypeOK
    <2> QED
      BY <1>5, <2>1, <2>3, LandTypes DEF SetL2, CacheTypeOK, Reading, Flight
  <1>6. CASE QueryFails(r)
    <2>1. [s \in Readers |-> NoRead] \in [Readers -> Reading]
      OBVIOUS
    <2> QED
      BY <1>6, <2>1, LandTypes DEF QueryFails, CacheTypeOK, Reading, Flight
  <1>7. CASE FillL1(r)
    <2>1. [v |-> reader[r].v, left |-> L1TTL] \in Copy(L1TTL)
      BY <1>0 DEF Copy, Reading
    <2>2. l1' \in [Pods -> Copy(L1TTL)]
      BY <1>7, <2>1 DEF FillL1, CacheTypeOK
    <2> QED
      BY <1>7, <2>2 DEF FillL1, CacheTypeOK, Reading
  <1>8. CASE LeaveRead(r)
    BY <1>8 DEF LeaveRead, CacheTypeOK, Reading
  <1> QED
    BY <1>1, <1>2, <1>3, <1>4, <1>5, <1>6, <1>7, <1>8 DEF ReadStep

\* A commit finds a number left: its writer has none yet.
LEMMA CommitNumbers ==
  ASSUME CacheTypeOK, Numbered, NEW w \in Writers, CommitWrite(w)
  PROVE  version' \in Versions /\ Numbered'
  <1> DEFINE W == Committed
  <1>1. IsFiniteSet(W) /\ W \subseteq Writers /\ w \notin W
    BY FS_Subset, CacheAssumption DEF Committed, CommitWrite
  <1>2. Cardinality(W) \in Nat /\ Cardinality(W \cup {w}) = Cardinality(W) + 1
    BY <1>1, FS_AddElement, FS_CardinalityType
  <1>3. Cardinality(W \cup {w}) <= Cardinality(Writers)
    BY <1>1, FS_Subset, CacheAssumption
  <1>4. Committed' = W \cup {w}
    BY DEF Committed, CommitWrite, CacheTypeOK
  <1>5. version \in Nat /\ version <= Cardinality(W)
    BY VersionFacts DEF Numbered, CacheTypeOK
  <1>6. version' = version \/ version' = version + 1
    BY DEF CommitWrite
  <1> HIDE DEF W
  <1>7. version' \in Nat /\ version' <= Cardinality(W \cup {w})
    BY <1>2, <1>5, <1>6
  <1>8. version' <= Cardinality(Writers)
    BY <1>2, <1>3, <1>7, VersionFacts
  <1> QED
    BY <1>4, <1>7, <1>8, VersionFacts DEF Numbered, Versions

LEMMA WriteTypes ==
  ASSUME CacheTypeOK, Numbered, NEW w \in Writers, WriteStep(w)
  PROVE  CacheTypeOK' /\ Numbered'
  <1>0. PodOf[w] \in Pods
    BY CacheAssumption
  <1>1. CASE BeginWrite(w)
    <2>1. Committed' = Committed
      BY <1>1 DEF BeginWrite, Committed, CacheTypeOK
    <2> QED
      BY <1>1, <2>1 DEF BeginWrite, CacheTypeOK, Numbered
  <1>2. CASE CommitWrite(w)
    <2>1. version' \in Versions /\ Numbered'
      BY <1>2, CommitNumbers
    <2> QED
      BY <1>2, <2>1 DEF CommitWrite, CacheTypeOK
  <1>3. CASE RemoveL1(w)
    <2>1. Committed' = Committed
      BY <1>3 DEF RemoveL1, Committed, CacheTypeOK
    <2>2. l1' \in [Pods -> Copy(L1TTL)]
      BY <1>3, TypeFacts DEF RemoveL1, CacheTypeOK
    <2> QED
      BY <1>3, <2>1, <2>2 DEF RemoveL1, CacheTypeOK, Numbered
  <1>4. CASE DeleteL2(w)
    <2>1. Committed' = Committed
      BY <1>4 DEF DeleteL2, Committed, CacheTypeOK
    <2>2. l2' \in Copy(L2TTL)
      BY <1>4, TypeFacts DEF DeleteL2, CacheTypeOK
    <2> QED
      BY <1>4, <2>1, <2>2 DEF DeleteL2, CacheTypeOK, Numbered
  <1>5. CASE ForgetFlight(w)
    <2>1. Committed' = Committed
      BY <1>5 DEF ForgetFlight, Committed, CacheTypeOK
    <2>2. known' \in [Pods -> Versions] /\ flight' \in [Pods -> Readers \cup {NoPod}]
      BY <1>0, <1>5 DEF ForgetFlight, CacheTypeOK
    <2> QED
      BY <1>5, <2>1, <2>2 DEF ForgetFlight, CacheTypeOK, Numbered
  <1> QED
    BY <1>1, <1>2, <1>3, <1>4, <1>5 DEF WriteStep

\* What a tick makes of a copy.
LEMMA OlderCopy ==
  ASSUME NEW ttl \in Nat, NEW c \in Copy(ttl)
  PROVE  /\ Older(c) \in Copy(ttl)
         /\ Older(c).left > 0 => Older(c).v = c.v /\ c.left > 0 /\ Older(c).left = c.left - 1
  <1>1. CASE c.left > 1
    <2>1. Older(c) = [c EXCEPT !.left = c.left - 1] /\ c.left - 1 \in 0..ttl
      BY <1>1 DEF Older, Copy
    <2> QED
      BY <1>1, <2>1 DEF Copy
  <1>2. CASE ~(c.left > 1)
    <2>1. Older(c) = NoCopy /\ 0 \in 0..ttl
      BY <1>2 DEF Older
    <2> QED
      BY <2>1, VersionFacts DEF NoCopy, Copy
  <1> QED
    BY <1>1, <1>2

\* What a tick makes of a flight.
LEMMA OlderFlight ==
  ASSUME CacheTypeOK, Tick, NEW r \in Readers
  PROVE  /\ leader'[r] \in Flight /\ leader'[r].pc = leader[r].pc /\ leader'[r].v = leader[r].v
         /\ leader[r].pc # "idle" => leader'[r].age = leader[r].age + 1
  <1>1. leader[r] \in Flight
    BY TypeFacts
  <1>2. CASE leader[r].pc = "idle" \/ leader[r].age = LeaderLimit
    <2>1. leader'[r] = leader[r]
      BY <1>2 DEF Tick
    <2>2. leader[r].pc = "idle"
      BY <1>1, <1>2, VersionFacts DEF Tick, InTime, Flight
    <2> QED
      BY <1>1, <2>1, <2>2
  <1>3. CASE ~(leader[r].pc = "idle" \/ leader[r].age = LeaderLimit)
    <2>1. leader'[r] = [leader[r] EXCEPT !.age = leader[r].age + 1]
      BY <1>3 DEF Tick
    <2>2. leader[r].age + 1 \in 0..LeaderLimit
      BY <1>1, <1>3, VersionFacts DEF Flight
    <2> QED
      BY <1>1, <2>1, <2>2 DEF Flight
  <1> QED
    BY <1>2, <1>3

LEMMA TickTypes ==
  ASSUME CacheTypeOK, Numbered, Tick
  PROVE  CacheTypeOK' /\ Numbered'
  <1>1. l1' \in [Pods -> Copy(L1TTL)] /\ l2' \in Copy(L2TTL)
    BY OlderCopy, VersionFacts DEF Tick, CacheTypeOK
  <1>2. leader' \in [Readers -> Flight]
    BY OlderFlight DEF Tick
  <1>3. old' \in [Versions -> 0..StaleLimit]
    BY VersionFacts DEF Tick, CacheTypeOK
  <1>4. Committed' = Committed
    BY DEF Tick, Committed
  <1> QED
    BY <1>1, <1>2, <1>3, <1>4 DEF Tick, CacheTypeOK, Numbered, Flight

-----------------------------------------------------------------------------
\* Ages.  A value that is young stays so while no time passes, over a commit too.
LEMMA StaysYoung ==
  ASSUME CacheTypeOK, Numbered, CurrentIsNew, NEW w \in Writers, CommitWrite(w)
  PROVE  /\ CurrentIsNew'
         /\ \A v \in Versions, age \in Nat : Young(v, age) => Young(v, age)'
  <1>1. /\ version \in Nat /\ old' = old /\ (version' = version \/ version' = version + 1)
        /\ \A v \in Versions : v \in Nat /\ old[v] \in Nat
    BY VersionFacts DEF CommitWrite, CacheTypeOK
  <1> QED
    BY <1>1 DEF CurrentIsNew, Young

LEMMA TickAges ==
  ASSUME CacheTypeOK, Ages, Tick
  PROVE  Ages'
  <1>1. /\ version' = version /\ version \in Nat
        /\ \A v \in Versions : /\ v \in Nat /\ old[v] \in Nat /\ old'[v] \in Nat
                               /\ old'[v] <= old[v] + 1
                               /\ v >= version => old'[v] = old[v]
    BY VersionFacts DEF Tick, CacheTypeOK
  <1>2. \A v \in Versions, age \in Nat : Young(v, age) => Young(v, age + 1)'
    BY <1>1 DEF Young
  <1>3. CurrentIsNew'
    BY <1>1 DEF Ages, CurrentIsNew
  <1>4. LeadersYoung'
    <2> SUFFICES ASSUME NEW r \in Readers, leader'[r].pc = "set"
                 PROVE  Young(leader[r].v, leader[r].age)'
      BY DEF LeadersYoung
    <2>1. leader[r].pc = "set" /\ leader'[r].v = leader[r].v /\ leader'[r].age = leader[r].age + 1
      BY OlderFlight
    <2>2. leader[r].v \in Versions /\ leader[r].age \in Nat
      BY TypeFacts, VersionFacts DEF Flight
    <2> QED
      BY <1>1, <2>1, <2>2 DEF Ages, LeadersYoung, Young
  <1>5. L2Young'
    <2> SUFFICES ASSUME l2'.left > 0
                 PROVE  Young(l2.v, LeaderLimit + L2TTL - l2.left)'
      BY DEF L2Young
    <2>1. l2' = Older(l2) /\ l2 \in Copy(L2TTL)
      BY DEF Tick, CacheTypeOK
    <2>2. l2.left > 0 /\ l2'.v = l2.v /\ l2'.left = l2.left - 1
      BY <2>1, OlderCopy, VersionFacts
    <2>3. l2.v \in Versions /\ l2.left \in 0..L2TTL
      BY <2>1 DEF Copy
    <2> QED
      BY <1>1, <2>2, <2>3, VersionFacts DEF Ages, L2Young, Young
  <1>6. ReadsYoung'
    BY DEF Tick, InTime, ReadsYoung
  <1>7. L1Young'
    <2> SUFFICES ASSUME NEW p \in Pods, l1'[p].left > 0
                 PROVE  Young(l1[p].v, StaleLimit - l1[p].left)'
      BY DEF L1Young
    <2>1. l1'[p] = Older(l1[p]) /\ l1[p] \in Copy(L1TTL)
      BY DEF Tick, CacheTypeOK
    <2>2. l1[p].left > 0 /\ l1'[p].v = l1[p].v /\ l1'[p].left = l1[p].left - 1
      BY <2>1, OlderCopy, VersionFacts
    <2>3. l1[p].v \in Versions /\ l1[p].left \in 0..L1TTL
      BY <2>1 DEF Copy
    <2> QED
      BY <1>1, <2>2, <2>3, VersionFacts DEF Ages, L1Young, Young
  <1> QED
    BY <1>3, <1>4, <1>5, <1>6, <1>7 DEF Ages

\* What the end of a flight does to the tables.
LEMMA LandFacts ==
  ASSUME CacheTypeOK, NEW r \in Readers, NEW given, Land(r, given), NEW s \in Readers
  PROVE  /\ leader'[s] = IF s = r THEN NoFlight ELSE leader[s]
         /\ reader'[s] = IF reader[s].pc = "wait" /\ reader[s].on = r THEN given[s] ELSE reader[s]
  BY TypeFacts DEF Land

LEMMA ReadAges ==
  ASSUME CacheTypeOK, Ages, NEW r \in Readers, ReadStep(r)
  PROVE  Ages'
  <1>0. /\ version' = version /\ old' = old
        /\ \A v, age : Young(v, age)' = Young(v, age)
    BY DEF ReadStep, ReadL1, HitL2, MissL2, Query, SetL2, QueryFails, FillL1, LeaveRead, Young
  <1>1. CurrentIsNew'
    BY <1>0 DEF Ages, CurrentIsNew
  <1>2. /\ version \in Nat /\ \A v \in Versions : v \in Nat /\ old[v] \in Nat
        /\ PodOf[r] \in Pods /\ reader[r] \in Reading /\ leader[r] \in Flight /\ l2 \in Copy(L2TTL)
    BY VersionFacts, TypeFacts, CacheAssumption DEF CacheTypeOK
  <1>3. LeadersYoung'
    <2>1. CASE leader' = leader
      BY <1>0, <2>1 DEF Ages, LeadersYoung
    <2>2. CASE MissL2(r)
      <3>1. \A s \in Readers : leader'[s].pc = "set" => leader'[s] = leader[s]
        BY <2>2, TypeFacts DEF MissL2, NoFlight
      <3> QED
        BY <1>0, <3>1 DEF Ages, LeadersYoung
    <2>3. CASE Query(r)
      <3>1. /\ leader'[r].v = version /\ \A s \in Readers \ {r} : leader'[s] = leader[s]
        BY <1>2, <2>3, TypeFacts DEF Query, Flight
      <3>2. \A age : Young(version, age)
        BY <1>2 DEF Young
      <3> QED
        BY <1>0, <3>1, <3>2 DEF Ages, LeadersYoung
    <2>4. CASE SetL2(r) \/ QueryFails(r)
      <3>1. \A s \in Readers : leader'[s].pc = "set" => leader'[s] = leader[s]
        <4>1. PICK given : Land(r, given)
          BY <2>4 DEF SetL2, QueryFails
        <4> QED
          BY <4>1, LandFacts DEF NoFlight
      <3> QED
        BY <1>0, <3>1 DEF Ages, LeadersYoung
    <2> QED
      BY <2>1, <2>2, <2>3, <2>4 DEF ReadStep, ReadL1, HitL2, FillL1, LeaveRead
  <1>4. L2Young'
    <2>1. CASE l2' = l2
      BY <1>0, <2>1 DEF Ages, L2Young
    <2>2. CASE SetL2(r) /\ l2' = [v |-> leader[r].v, left |-> L2TTL]
      <3>1. Young(leader[r].v, leader[r].age)
        BY <2>2 DEF SetL2, Ages, LeadersYoung
      <3>2. Young(leader[r].v, LeaderLimit + L2TTL - L2TTL)
        BY <1>2, <3>1, VersionFacts DEF Young, Flight
      <3> QED
        BY <1>0, <2>2, <3>2 DEF L2Young
    <2> QED
      BY <2>1, <2>2 DEF ReadStep, ReadL1, HitL2, MissL2, Query, SetL2, QueryFails, FillL1, LeaveRead
  <1>5. ReadsYoung'
    <2>1. CASE ReadL1(r) \/ MissL2(r) \/ Query(r) \/ FillL1(r) \/ LeaveRead(r)
      <3>1. \A s \in Readers : reader'[s].pc = "add" => reader'[s] = reader[s]
        <4>1. CASE MissL2(r)
          <5>1. PICK on : reader' = [reader EXCEPT ![r] = [reader[r] EXCEPT !.pc = "wait", !.on = on]]
            BY <4>1 DEF MissL2
          <5> QED
            BY <1>2, <5>1, TypeFacts DEF Reading
        <4>2. CASE ReadL1(r)
          BY <4>2, TypeFacts DEF ReadL1, NoRead
        <4>3. CASE Query(r)
          BY <4>3 DEF Query
        <4>4. CASE FillL1(r) \/ LeaveRead(r)
          BY <4>4, TypeFacts DEF FillL1, LeaveRead, NoRead
        <4> QED
          BY <2>1, <4>1, <4>2, <4>3, <4>4
      <3> QED
        BY <1>0, <3>1 DEF Ages, ReadsYoung
    <2>2. CASE HitL2(r)
      <3>1. /\ reader'[r].v = l2.v /\ \A s \in Readers \ {r} : reader'[s] = reader[s]
        BY <1>2, <2>2, TypeFacts DEF HitL2, Reading
      <3>2. Young(l2.v, LeaderLimit + L2TTL - l2.left)
        BY <2>2 DEF HitL2, Ages, L2Young
      <3>3. Young(l2.v, LeaderLimit + L2TTL)
        BY <1>2, <3>2, VersionFacts DEF Young, Copy
      <3> QED
        BY <1>0, <3>1, <3>3 DEF Ages, ReadsYoung
    <2>3. CASE SetL2(r)
      <3> DEFINE given == [s \in Readers |-> [reader[s] EXCEPT !.pc = "add", !.on = NoPod, !.v = leader[r].v]]
      <3>1. Land(r, given)
        BY <2>3 DEF SetL2
      <3>2. \A s \in Readers : given[s].v = leader[r].v
        BY TypeFacts DEF Reading
      <3> HIDE DEF given
      <3>3. \A s \in Readers : reader'[s] = reader[s] \/ reader'[s].v = leader[r].v
        BY <3>1, <3>2, LandFacts
      <3>4. Young(leader[r].v, leader[r].age)
        BY <2>3 DEF SetL2, Ages, LeadersYoung
      <3>5. Young(leader[r].v, LeaderLimit + L2TTL)
        BY <1>2, <3>4, VersionFacts DEF Young, Flight
      <3> QED
        BY <1>0, <3>3, <3>5 DEF Ages, ReadsYoung
    <2>4. CASE QueryFails(r)
      <3>1. \A s \in Readers : reader'[s].pc = "add" => reader'[s] = reader[s]
        BY <2>4, LandFacts DEF QueryFails, NoRead
      <3> QED
        BY <1>0, <3>1 DEF Ages, ReadsYoung
    <2> QED
      BY <2>1, <2>2, <2>3, <2>4 DEF ReadStep
  <1>6. L1Young'
    <2>1. CASE l1' = l1
      BY <1>0, <2>1 DEF Ages, L1Young
    <2>2. CASE FillL1(r)
      <3>1. /\ l1'[PodOf[r]] = [v |-> reader[r].v, left |-> L1TTL]
            /\ \A p \in Pods \ {PodOf[r]} : l1'[p] = l1[p]
        BY <1>2, <2>2 DEF FillL1, CacheTypeOK
      <3>2. Young(reader[r].v, LeaderLimit + L2TTL)
        BY <2>2 DEF FillL1, Ages, ReadsYoung
      <3>3. Young(reader[r].v, StaleLimit - L1TTL)
        BY <3>2, VersionFacts DEF Young
      <3> QED
        BY <1>0, <3>1, <3>3 DEF Ages, L1Young
    <2> QED
      BY <2>1, <2>2 DEF ReadStep, ReadL1, HitL2, MissL2, Query, SetL2, QueryFails, LeaveRead
  <1> QED
    BY <1>1, <1>3, <1>4, <1>5, <1>6 DEF Ages

LEMMA WriteAges ==
  ASSUME CacheTypeOK, Numbered, Ages, NEW w \in Writers, WriteStep(w)
  PROVE  Ages'
  <1>1. CASE CommitWrite(w)
    <2>1. /\ CurrentIsNew' /\ UNCHANGED <<leader, reader, l1, l2>>
          /\ \A v \in Versions, age \in Nat : Young(v, age) => Young(v, age)'
      BY <1>1, StaysYoung DEF Ages, CommitWrite
    <2>2. LeadersYoung'
      <3>1. \A r \in Readers : leader[r].v \in Versions /\ leader[r].age \in Nat
        BY TypeFacts, VersionFacts DEF Flight
      <3> QED
        BY <2>1, <3>1 DEF Ages, LeadersYoung
    <2>3. ReadsYoung'
      <3>1. LeaderLimit + L2TTL \in Nat /\ \A r \in Readers : reader[r].v \in Versions
        BY TypeFacts, VersionFacts DEF Reading
      <3> QED
        BY <2>1, <3>1 DEF Ages, ReadsYoung
    <2>4. L2Young'
      <3>1. l2.v \in Versions /\ LeaderLimit + L2TTL - l2.left \in Nat
        BY VersionFacts DEF CacheTypeOK, Copy
      <3> QED
        BY <2>1, <3>1 DEF Ages, L2Young
    <2>5. L1Young'
      <3>1. \A p \in Pods : l1[p].v \in Versions /\ StaleLimit - l1[p].left \in Nat
        BY VersionFacts DEF CacheTypeOK, Copy
      <3> QED
        BY <2>1, <3>1 DEF Ages, L1Young
    <2> QED
      BY <2>1, <2>2, <2>3, <2>4, <2>5 DEF Ages
  <1>2. CASE ~CommitWrite(w)
    <2>1. UNCHANGED <<version, old, leader, reader>>
      BY <1>2 DEF WriteStep, BeginWrite, RemoveL1, DeleteL2, ForgetFlight
    <2>2. l2' = l2 \/ ~(l2'.left > 0)
      BY <1>2 DEF WriteStep, BeginWrite, RemoveL1, DeleteL2, ForgetFlight, NoCopy
    <2>3. \A p \in Pods : l1'[p] = l1[p] \/ ~(l1'[p].left > 0)
      BY <1>2 DEF WriteStep, BeginWrite, RemoveL1, DeleteL2, ForgetFlight, NoCopy, CacheTypeOK
    <2>4. \A v, age : Young(v, age)' = Young(v, age)
      BY <2>1 DEF Young
    <2> QED
      BY <2>1, <2>2, <2>3, <2>4 DEF Ages, CurrentIsNew, LeadersYoung, L2Young, ReadsYoung, L1Young
  <1> QED
    BY <1>1, <1>2

-----------------------------------------------------------------------------
\* Promises.  Steps that touch neither flights nor the promises.
LEMMA SameFlights ==
  ASSUME CacheTypeOK, Promises, UNCHANGED <<version, known, flight, leader>>, NEW r \in Readers,
         \A s \in Readers \ {r} : reader'[s] = reader[s],
         reader'[r].pc = "l2" => reader'[r].atLeast <= known[PodOf[r]] /\ leader[r].pc = "idle",
         reader'[r].pc # "wait",
         reader'[r].pc = "add" => reader'[r].v >= reader'[r].atLeast
  PROVE  Promises'
  BY DEF Promises, FlightsLed, KnownOk, LookingOk, JoinableOk, WaitingOk, FlightsAreFresh

LEMMA MissPromises ==
  ASSUME CacheTypeOK, Promises, NEW r \in Readers, MissL2(r)
  PROVE  Promises'
  <1> DEFINE p == PodOf[r]
  <1>0. /\ p \in Pods /\ reader[r] \in Reading /\ leader[r].pc = "idle"
        /\ reader[r].atLeast <= known[p] /\ known[p] <= version
    BY TypeFacts, CacheAssumption DEF Promises, LookingOk, KnownOk, MissL2
  <1>1. /\ UNCHANGED <<version, known>>
        /\ \A s \in Readers \ {r} : reader'[s] = reader[s] /\ leader'[s] = leader[s]
        /\ \A q \in Pods \ {p} : flight'[q] = flight[q]
    BY <1>0, TypeFacts DEF MissL2, CacheTypeOK
  <1>2. reader'[r].pc = "wait" /\ reader'[r].atLeast = reader[r].atLeast
    <2>1. PICK on : reader' = [reader EXCEPT ![r] = [reader[r] EXCEPT !.pc = "wait", !.on = on]]
      BY DEF MissL2
    <2> QED
      BY <1>0, <2>1, TypeFacts DEF Reading
  <1>3. reader[r].atLeast \in Nat /\ known[p] \in Nat /\ version \in Nat
    BY <1>0, VersionFacts DEF Reading, CacheTypeOK
  <1>4. CASE flight[p] = NoPod
    <2>1. /\ flight'[p] = r /\ leader'[r].pc = "query"
      BY <1>0, <1>4, TypeFacts DEF MissL2, CacheTypeOK, NoFlight
    <2>2. reader'[r].on = r
      BY <1>0, <1>4, TypeFacts DEF MissL2, Reading
    <2>3. FlightsLed'
      <3>1. \A s \in Readers : leader[s].pc # "idle" => leader'[s].pc # "idle"
        BY <1>1, <2>1
      <3>2. \A q \in Pods : flight'[q] # NoPod => leader'[flight'[q]].pc # "idle"
        BY <1>1, <2>1, <3>1 DEF Promises, FlightsLed, CacheTypeOK
      <3>3. \A s \in Readers : reader'[s].pc = "wait" =>
              reader'[s].on \in Readers /\ leader'[reader'[s].on].pc # "idle"
        BY <1>1, <2>1, <2>2, <3>1 DEF Promises, FlightsLed
      <3> QED
        BY <3>2, <3>3 DEF FlightsLed
    <2>4. KnownOk' /\ LookingOk'
      BY <1>1, <1>2 DEF Promises, KnownOk, LookingOk
    <2>5. JoinableOk'
      <3> SUFFICES ASSUME NEW q \in Pods, flight'[q] # NoPod, leader'[flight'[q]].pc = "set"
                   PROVE  known'[q] <= leader'[flight'[q]].v
        BY DEF JoinableOk
      <3>1. flight'[q] # r /\ q # p /\ flight'[q] = flight[q] /\ flight[q] \in Readers
        BY <1>1, <2>1 DEF CacheTypeOK
      <3> QED
        BY <1>1, <3>1 DEF Promises, JoinableOk
    <2>6. WaitingOk'
      <3> SUFFICES ASSUME NEW s \in Readers, reader'[s].pc = "wait"
                   PROVE  /\ reader'[s].atLeast <= version'
                          /\ leader'[reader'[s].on].pc = "set" =>
                               reader'[s].atLeast <= leader'[reader'[s].on].v
        BY DEF WaitingOk
      <3>1. CASE s = r
        BY <1>0, <1>1, <1>2, <1>3, <2>1, <2>2, <3>1
      <3>2. CASE s # r
        <4>1. reader'[s] = reader[s] /\ reader[s].on \in Readers
          BY <1>1, <3>2 DEF Promises, FlightsLed
        <4> QED
          BY <1>1, <2>1, <4>1 DEF Promises, WaitingOk
      <3> QED
        BY <3>1, <3>2
    <2>7. FlightsAreFresh'
      BY <1>1, <1>2 DEF Promises, FlightsAreFresh
    <2> QED
      BY <2>3, <2>4, <2>5, <2>6, <2>7 DEF Promises
  <1>5. CASE flight[p] # NoPod
    <2>1. UNCHANGED <<flight, leader>> /\ flight[p] \in Readers
      BY <1>0, <1>5 DEF MissL2, CacheTypeOK
    <2>2. reader'[r].on = flight[p]
      BY <1>0, <1>5, TypeFacts DEF MissL2, Reading
    <2>3. FlightsLed'
      BY <1>0, <1>1, <1>5, <2>1, <2>2 DEF Promises, FlightsLed
    <2>4. KnownOk' /\ LookingOk' /\ JoinableOk' /\ FlightsAreFresh'
      BY <1>1, <1>2, <2>1 DEF Promises, KnownOk, LookingOk, JoinableOk, FlightsAreFresh
    <2>5. leader[flight[p]].pc = "set" => reader[r].atLeast <= leader[flight[p]].v
      <3>1. leader[flight[p]].v \in Nat
        BY <2>1, TypeFacts, VersionFacts DEF Flight
      <3> QED
        BY <1>0, <1>3, <1>5, <3>1 DEF Promises, JoinableOk
    <2>6. WaitingOk'
      <3>1. reader[r].atLeast <= version
        BY <1>0, <1>3
      <3> QED
        BY <1>1, <1>2, <2>1, <2>2, <2>5, <3>1 DEF Promises, WaitingOk
    <2> QED
      BY <2>3, <2>4, <2>6 DEF Promises
  <1> QED
    BY <1>4, <1>5

LEMMA QueryPromises ==
  ASSUME CacheTypeOK, Promises, NEW r \in Readers, Query(r)
  PROVE  Promises'
  <1>1. /\ UNCHANGED <<version, known, flight, reader>>
        /\ leader[r].pc = "query" /\ leader'[r].pc = "set" /\ leader'[r].v = version
        /\ \A s \in Readers \ {r} : leader'[s] = leader[s]
    BY TypeFacts DEF Query, Flight
  <1>2. FlightsLed'
    <2>1. \A s \in Readers : leader[s].pc # "idle" => leader'[s].pc # "idle"
      BY <1>1
    <2> QED
      BY <1>1, <2>1 DEF Promises, FlightsLed, CacheTypeOK
  <1>3. KnownOk' /\ FlightsAreFresh'
    BY <1>1 DEF Promises, KnownOk, FlightsAreFresh
  <1>4. LookingOk'
    BY <1>1 DEF Promises, LookingOk
  <1>5. JoinableOk'
    BY <1>1 DEF Promises, JoinableOk, KnownOk, CacheTypeOK
  <1>6. WaitingOk'
    BY <1>1 DEF Promises, WaitingOk, FlightsLed
  <1> QED
    BY <1>2, <1>3, <1>4, <1>5, <1>6 DEF Promises

LEMMA LandPromises ==
  ASSUME CacheTypeOK, Promises, NEW r \in Readers, NEW given, Land(r, given), UNCHANGED <<version, known>>,
         \A s \in Readers : reader[s].pc = "wait" /\ reader[s].on = r =>
            \/ given[s].pc = "idle"
            \/ given[s].pc = "add" /\ given[s].v >= given[s].atLeast
  PROVE  Promises'
  <1>1. \A s \in Readers : leader'[s] = IF s = r THEN NoFlight ELSE leader[s]
    BY LandFacts
  <1>2. ASSUME NEW s \in Readers
        PROVE  \/ reader'[s] = reader[s] /\ ~(reader[s].pc = "wait" /\ reader[s].on = r)
               \/ reader'[s].pc = "idle"
               \/ reader'[s].pc = "add" /\ reader'[s].v >= reader'[s].atLeast
    BY LandFacts
  <1>3. \A p \in Pods : flight'[p] # NoPod => flight'[p] = flight[p] /\ flight[p] # r /\ flight[p] \in Readers
    BY DEF Land, CacheTypeOK
  <1>4. FlightsLed'
    BY <1>1, <1>2, <1>3 DEF Promises, FlightsLed
  <1>5. KnownOk' /\ FlightsAreFresh'
    BY <1>2 DEF Promises, KnownOk, FlightsAreFresh
  <1>6. LookingOk'
    BY <1>1, <1>2 DEF Promises, LookingOk, NoFlight
  <1>7. JoinableOk'
    BY <1>1, <1>3 DEF Promises, JoinableOk
  <1>8. WaitingOk'
    BY <1>1, <1>2 DEF Promises, WaitingOk, FlightsLed
  <1> QED
    BY <1>4, <1>5, <1>6, <1>7, <1>8 DEF Promises

LEMMA ReadPromises ==
  ASSUME CacheTypeOK, Promises, NEW r \in Readers, ReadStep(r)
  PROVE  Promises'
  <1>0. reader[r] \in Reading /\ known[PodOf[r]] \in Nat /\ l2.v \in Nat
    BY TypeFacts, VersionFacts, CacheAssumption DEF CacheTypeOK, Copy
  <1>1. CASE ReadL1(r)
    <2>1. /\ reader'[r].pc = "l2" /\ reader'[r].atLeast = known[PodOf[r]] /\ leader[r].pc = "idle"
          /\ \A s \in Readers \ {r} : reader'[s] = reader[s]
          /\ UNCHANGED <<version, known, flight, leader>>
      BY <1>1, TypeFacts DEF ReadL1, NoRead
    <2> QED
      BY <1>0, <2>1, SameFlights
  <1>2. CASE HitL2(r)
    <2>1. /\ reader'[r].pc = "add" /\ reader'[r].atLeast = 0 /\ reader'[r].v = l2.v
          /\ \A s \in Readers \ {r} : reader'[s] = reader[s]
          /\ UNCHANGED <<version, known, flight, leader>>
      BY <1>0, <1>2, TypeFacts DEF HitL2, Reading
    <2> QED
      BY <1>0, <2>1, SameFlights
  <1>3. CASE FillL1(r) \/ LeaveRead(r)
    <2>1. /\ reader'[r].pc = "idle"
          /\ \A s \in Readers \ {r} : reader'[s] = reader[s]
          /\ UNCHANGED <<version, known, flight, leader>>
      BY <1>3, TypeFacts DEF FillL1, LeaveRead, NoRead
    <2> QED
      BY <2>1, SameFlights
  <1>4. CASE SetL2(r)
    <2> DEFINE given == [s \in Readers |-> [reader[s] EXCEPT !.pc = "add", !.on = NoPod, !.v = leader[r].v]]
    <2>1. Land(r, given) /\ UNCHANGED <<version, known>>
      BY <1>4 DEF SetL2
    <2>2. \A s \in Readers : /\ given[s].pc = "add" /\ given[s].v = leader[r].v
                             /\ given[s].atLeast = reader[s].atLeast
      BY TypeFacts DEF Reading
    <2> HIDE DEF given
    <2>3. \A s \in Readers : reader[s].pc = "wait" /\ reader[s].on = r => given[s].v >= given[s].atLeast
      <3>1. leader[r].v \in Nat /\ \A s \in Readers : reader[s].atLeast \in Nat
        BY TypeFacts, VersionFacts DEF Flight, Reading
      <3> QED
        BY <1>4, <2>2, <3>1 DEF SetL2, Promises, WaitingOk
    <2> QED
      BY <2>1, <2>2, <2>3, LandPromises
  <1>5. CASE QueryFails(r)
    <2> DEFINE given == [s \in Readers |-> NoRead]
    <2>1. Land(r, given) /\ UNCHANGED <<version, known>> /\ \A s \in Readers : given[s].pc = "idle"
      BY <1>5 DEF QueryFails, NoRead
    <2> HIDE DEF given
    <2> QED
      BY <2>1, LandPromises
  <1> QED
    BY <1>1, <1>2, <1>3, <1>4, <1>5, MissPromises, QueryPromises DEF ReadStep

LEMMA WritePromises ==
  ASSUME CacheTypeOK, Numbered, Promises, NEW w \in Writers, WriteStep(w)
  PROVE  Promises'
  <1>0. /\ PodOf[w] \in Pods /\ version \in Nat
        /\ \A p \in Pods : known[p] \in Nat
        /\ \A r \in Readers : reader[r].atLeast \in Nat /\ PodOf[r] \in Pods
    BY TypeFacts, VersionFacts, CacheAssumption DEF CacheTypeOK, Reading
  <1>1. UNCHANGED <<leader, reader>>
    BY DEF WriteStep, BeginWrite, CommitWrite, RemoveL1, DeleteL2, ForgetFlight
  <1>2. CASE UNCHANGED <<version, flight, known>>
    BY <1>1, <1>2 DEF Promises, FlightsLed, KnownOk, LookingOk, JoinableOk, WaitingOk, FlightsAreFresh
  <1>3. CASE CommitWrite(w)
    <2>1. UNCHANGED <<flight, known>> /\ version' \in Nat /\ version <= version'
      BY <1>0, <1>3 DEF CommitWrite
    <2>2. KnownOk' /\ WaitingOk'
      BY <1>0, <1>1, <2>1 DEF Promises, KnownOk, WaitingOk
    <2> QED
      BY <1>1, <2>1, <2>2 DEF Promises, FlightsLed, LookingOk, JoinableOk, FlightsAreFresh
  <1>4. CASE ForgetFlight(w)
    <2>1. /\ version' = version /\ flight'[PodOf[w]] = NoPod
          /\ known'[PodOf[w]] = version \/ known'[PodOf[w]] = known[PodOf[w]]
          /\ \A p \in Pods \ {PodOf[w]} : flight'[p] = flight[p] /\ known'[p] = known[p]
      BY <1>0, <1>4 DEF ForgetFlight, CacheTypeOK
    <2>2. \A p \in Pods : known[p] <= known'[p] /\ known'[p] <= version /\ known'[p] \in Nat
      BY <1>0, <2>1 DEF Promises, KnownOk
    <2>3. FlightsLed' /\ JoinableOk'
      BY <1>1, <2>1 DEF Promises, FlightsLed, JoinableOk
    <2>4. LookingOk'
      BY <1>0, <1>1, <2>2 DEF Promises, LookingOk
    <2> QED
      BY <1>1, <2>1, <2>2, <2>3, <2>4 DEF Promises, KnownOk, WaitingOk, FlightsAreFresh
  <1> QED
    BY <1>2, <1>3, <1>4 DEF WriteStep, BeginWrite, RemoveL1, DeleteL2

LEMMA TickPromises ==
  ASSUME CacheTypeOK, Promises, Tick
  PROVE  Promises'
  <1>1. \A r \in Readers : leader'[r].pc = leader[r].pc /\ leader'[r].v = leader[r].v
    BY OlderFlight
  <1>2. UNCHANGED <<version, flight, reader, known>>
    BY DEF Tick
  <1> QED
    BY <1>1, <1>2 DEF Promises, FlightsLed, KnownOk, LookingOk, JoinableOk, WaitingOk, FlightsAreFresh,
                      CacheTypeOK

-----------------------------------------------------------------------------
LEMMA CacheInitInv == CacheInit => CacheInv
  <1> SUFFICES ASSUME CacheInit PROVE CacheInv
    OBVIOUS
  <1>1. CacheTypeOK
    <2>1. /\ 0 \in Versions /\ 0 \in 0..StaleLimit
          /\ NoCopy \in Copy(L1TTL) /\ NoCopy \in Copy(L2TTL)
      BY VersionFacts DEF NoCopy, Copy
    <2>2. NoFlight \in Flight /\ NoRead \in Reading
      BY VersionFacts DEF NoFlight, NoRead, Flight, Reading
    <2> QED
      BY <2>1, <2>2 DEF CacheInit, CacheTypeOK, Flight, Reading
  <1>2. Numbered
    <2>1. Cardinality(Committed) \in Nat
      BY FS_Subset, FS_CardinalityType, CacheAssumption DEF Committed
    <2> QED
      BY <2>1 DEF CacheInit, Numbered
  <1>3. Ages
    BY DEF CacheInit, Ages, CurrentIsNew, LeadersYoung, L2Young, ReadsYoung, L1Young, NoFlight, NoRead, NoCopy
  <1>4. Promises
    BY DEF CacheInit, Promises, FlightsLed, KnownOk, LookingOk, JoinableOk, WaitingOk, FlightsAreFresh,
           NoRead
  <1> QED
    BY <1>1, <1>2, <1>3, <1>4 DEF CacheInv

LEMMA CacheStepInv == CacheInv /\ [CacheNext]_cacheVars => CacheInv'
  <1> SUFFICES ASSUME CacheInv, [CacheNext]_cacheVars PROVE CacheInv'
    OBVIOUS
  <1>0. CacheTypeOK /\ Numbered /\ Ages /\ Promises
    BY DEF CacheInv
  <1>1. ASSUME NEW r \in Readers, ReadStep(r) PROVE CacheInv'
    <2>1. Committed' = Committed /\ version' = version
      BY <1>1 DEF ReadStep, ReadL1, HitL2, MissL2, Query, SetL2, QueryFails, FillL1, LeaveRead, Committed
    <2>2. Numbered'
      BY <1>0, <2>1 DEF Numbered
    <2> QED
      BY <1>0, <1>1, <2>2, ReadTypes, ReadAges, ReadPromises DEF CacheInv
  <1>2. ASSUME NEW w \in Writers, WriteStep(w) PROVE CacheInv'
    BY <1>0, <1>2, WriteTypes, WriteAges, WritePromises DEF CacheInv
  <1>3. CASE Tick
    BY <1>0, <1>3, TickTypes, TickAges, TickPromises DEF CacheInv
  <1>4. CASE UNCHANGED cacheVars
    BY <1>0, <1>4 DEF cacheVars, CacheInv, CacheTypeOK, Numbered, Committed, Ages, Young, CurrentIsNew,
         LeadersYoung, L2Young, ReadsYoung, L1Young, Promises, FlightsLed, KnownOk, LookingOk, JoinableOk,
         WaitingOk, FlightsAreFresh
  <1> QED
    BY <1>1, <1>2, <1>3, <1>4 DEF CacheNext

(* Versions, ages and copies stay within their bounds: a commit always finds a
   number left, a leader is never older than its limit. *)
THEOREM CacheCorrect == CacheSpec => []CacheTypeOK
  <1> QED
    BY CacheInitInv, CacheStepInv, PTL DEF CacheSpec, CacheInv

(* However an old value of a product got into a cache, it is served from there
   for less than the leader's limit and both lifetimes together. *)
THEOREM OldValuesGo == CacheSpec => []StalenessBounded
  <1>1. CacheInv => StalenessBounded
    <2> SUFFICES ASSUME CacheInv PROVE StalenessBounded
      OBVIOUS
    <2>1. l2.left > 0 => ~Stale(l2.v)
      BY VersionFacts DEF CacheInv, CacheTypeOK, Copy, Ages, L2Young, Young, Stale
    <2>2. ASSUME NEW p \in Pods, l1[p].left > 0 PROVE ~Stale(l1[p].v)
      BY <2>2, VersionFacts DEF CacheInv, CacheTypeOK, Copy, Ages, L1Young, Young, Stale
    <2> QED
      BY <2>1, <2>2 DEF StalenessBounded
  <1> QED
    BY <1>1, CacheInitInv, CacheStepInv, PTL DEF CacheSpec

(* A read that begins after a cancellation has invalidated on its replica gets
   nothing older from a flight. *)
THEOREM NewReadersGetNew == CacheSpec => []FlightsAreFresh
  <1>1. CacheInv => FlightsAreFresh
    BY DEF CacheInv, Promises
  <1> QED
    BY <1>1, CacheInitInv, CacheStepInv, PTL DEF CacheSpec
=============================================================================
