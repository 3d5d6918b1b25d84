---------------------------- MODULE EventsProofs ----------------------------
(***************************************************************************)
(* What the outbox, the relays and the consumer promise about events, for  *)
(* any number of events, relays and retries and any trouble.               *)
(***************************************************************************)
EXTENDS OrderEvents, TLAPS

\* The rows a relay has locked are its own, and nobody else can settle them.
Locks ==
  \A r \in Relays :
    /\ relay[r].pc # "write" => relay[r].locked = {}
    /\ relay[r].pc = "write" =>
         relay[r].todo \cup relay[r].ok \cup relay[r].bad \subseteq relay[r].locked
    /\ \A s \in Relays \ {r} : relay[r].locked \cap relay[s].locked = {}
    /\ \A e \in relay[r].locked : outbox[e].status = "waiting" /\ outbox[e].retries < MaxRetries

\* What a relay counts as accepted is with Kafka.
Accepted == \A r \in Relays : relay[r].pc = "write" => \A e \in relay[r].ok : InTopic(e)

\* Only events of orders that exist are sent and handled.
Written ==
  /\ \A e \in sending : outbox[e].status # "absent"
  /\ \A e \in Events : InTopic(e) => outbox[e].status # "absent"
  /\ \A e \in inbox : InTopic(e)
  /\ step # "fetch" => committed < fetched

\* What is handled: known or in hand exactly if some run counts, and a repeated run costs trouble.
Effects ==
  \A e \in Events :
    /\ e \in inbox \cup opened => effects[e] > 0
    /\ effects[e] > 0 => InTopic(e)
    /\ effects[e] <= trouble + (IF e \in inbox \cup opened THEN 1 ELSE 0)

EventsInv == /\ EventsTypeOK /\ Locks /\ Accepted /\ Written /\ Effects
             /\ NothingForgotten /\ DeadOnce

-----------------------------------------------------------------------------
\* The topic only grows.
LEMMA AppendFacts ==
  ASSUME NEW e \in Events, topic \in Seq(Events), topic' = Append(topic, e)
  PROVE  /\ topic' \in Seq(Events) /\ Len(topic') = Len(topic) + 1
         /\ \A f : InTopic(f)' <=> InTopic(f) \/ f = e
  <1>1. /\ topic' \in Seq(Events) /\ Len(topic') = Len(topic) + 1 /\ Len(topic) \in Nat
        /\ \A i \in 1..Len(topic) : topic'[i] = topic[i]
        /\ topic'[Len(topic) + 1] = e
    OBVIOUS
  <1> QED
    BY <1>1 DEF InTopic

\* What the consumer has in hand is the same when the topic grows.
LEMMA OpenedKept ==
  ASSUME EventsInv, UNCHANGED consumerVars,
         topic' = topic \/ \E e \in Events : topic' = Append(topic, e)
  PROVE  opened' = opened
  <1>1. topic \in Seq(Events) /\ (step # "fetch" => fetched \in 1..Len(topic))
    BY DEF EventsInv, EventsTypeOK, RelayTypeOK, ConsumerTypeOK, Written
  <1>2. \A i \in 1..Len(topic) : topic'[i] = topic[i]
    BY <1>1
  <1> QED
    BY <1>1, <1>2 DEF opened, consumerVars

(* The consumer's side is not touched when the topic grows and trouble is met. *)
LEMMA EffectsKept ==
  ASSUME EventsInv, UNCHANGED consumerVars, trouble' \in trouble..MaxTrouble,
         topic' = topic \/ \E e \in Events : topic' = Append(topic, e)
  PROVE  Effects' /\ ConsumerTypeOK'
  <1>1. /\ topic \in Seq(Events) /\ fetched \in 0..Len(topic) /\ Len(topic) \in Nat
        /\ trouble \in 0..MaxTrouble /\ MaxTrouble \in Nat /\ effects \in [Events -> Nat]
    BY RelayAssumption DEF EventsInv, EventsTypeOK, RelayTypeOK, ConsumerTypeOK
  <1>2. /\ \A f : InTopic(f) => InTopic(f)'
        /\ Len(topic') >= Len(topic) /\ Len(topic') \in Nat
    <2>1. ASSUME NEW e \in Events, topic' = Append(topic, e)
          PROVE  /\ \A f : InTopic(f) => InTopic(f)'
                 /\ Len(topic') >= Len(topic) /\ Len(topic') \in Nat
      BY <1>1, <2>1, AppendFacts
    <2> QED
      BY <1>1, <2>1 DEF InTopic
  <1>3. opened' = opened
    BY OpenedKept
  <1>4. Effects'
    <2> SUFFICES ASSUME NEW e \in Events
                 PROVE  /\ e \in inbox' \cup opened' => effects'[e] > 0
                        /\ effects'[e] > 0 => InTopic(e)'
                        /\ effects'[e] <= trouble' + (IF e \in inbox' \cup opened' THEN 1 ELSE 0)
      BY DEF Effects
    <2>1. effects'[e] = effects[e] /\ inbox' = inbox /\ effects[e] \in Nat
      BY <1>1 DEF consumerVars
    <2> QED
      BY <1>1, <1>2, <1>3, <2>1 DEF EventsInv, Effects
  <1>5. ConsumerTypeOK'
    BY <1>1, <1>2 DEF EventsInv, EventsTypeOK, ConsumerTypeOK, consumerVars
  <1> QED
    BY <1>4, <1>5

(* The invariant holds when nothing has been sent. *)
LEMMA EventsInitInv == EventsInit => EventsInv
  <1> SUFFICES ASSUME EventsInit PROVE EventsInv
    OBVIOUS
  <1> USE RelayAssumption DEF EventsInit, RelayInit, ConsumerInit
  <1>1. EventsTypeOK
    BY DEF EventsTypeOK, RelayTypeOK, ConsumerTypeOK, Row, Batch, NoBatch
  <1>2. Locks /\ Accepted
    BY DEF Locks, Accepted, NoBatch
  <1>3. Written /\ Effects
    BY DEF Written, Effects, InTopic, opened
  <1>4. NothingForgotten /\ DeadOnce
    BY DEF NothingForgotten, DeadOnce
  <1> QED
    BY <1>1, <1>2, <1>3, <1>4 DEF EventsInv

-----------------------------------------------------------------------------
\* An order's transaction writes its event.
LEMMA InsertInv ==
  ASSUME EventsInv, NEW e \in Events, Insert(e), UNCHANGED consumerVars
  PROVE  EventsInv'
  <1> USE RelayAssumption DEF EventsInv
  <1>1. /\ UNCHANGED <<dlq, topic, relay, consumerVars>>
        /\ sending' \subseteq sending \cup {e}
        /\ trouble' \in trouble..MaxTrouble
        /\ outbox[e].status = "absent"
        /\ outbox' = [outbox EXCEPT ![e].status = "waiting"]
    BY DEF EventsTypeOK, RelayTypeOK, Insert, Trouble, calm
  <1>2. /\ outbox' \in [Events -> Row]
        /\ outbox'[e].status = "waiting"
        /\ \A f \in Events \ {e} : outbox'[f] = outbox[f]
    BY <1>1 DEF EventsTypeOK, RelayTypeOK, Row
  <1>3. EventsTypeOK'
    BY <1>1, <1>2 DEF EventsTypeOK, RelayTypeOK, ConsumerTypeOK, consumerVars
  <1>4. \A r \in Relays : e \notin relay[r].locked /\ relay[r].locked \subseteq Events
    BY <1>1 DEF Locks, EventsTypeOK, RelayTypeOK, Batch
  <1>5. Locks' /\ Accepted'
    BY <1>1, <1>2, <1>4 DEF Locks, Accepted, InTopic
  <1>6. \A f : InTopic(f)' <=> InTopic(f)
    BY <1>1 DEF InTopic
  <1>7. Written' /\ Effects'
    BY <1>1, <1>2, <1>6, EffectsKept DEF Written, EventsTypeOK, RelayTypeOK, consumerVars
  <1>8. NothingForgotten' /\ DeadOnce'
    BY <1>1, <1>2, <1>6 DEF NothingForgotten, DeadOnce
  <1> QED
    BY <1>3, <1>5, <1>7, <1>8

\* The request sends its event itself.
LEMMA SendInv ==
  ASSUME EventsInv, NEW e \in Events, SendOrderCreated(e), UNCHANGED consumerVars
  PROVE  EventsInv'
  <1> USE RelayAssumption DEF EventsInv
  <1>1. /\ UNCHANGED <<outbox, dlq, relay, consumerVars>>
        /\ sending' = sending \ {e} /\ e \in sending
        /\ trouble' \in trouble..MaxTrouble
        /\ topic' = Append(topic, e) \/ topic' = topic
    BY DEF EventsTypeOK, RelayTypeOK, SendOrderCreated, Trouble, calm
  <1>2. /\ topic' \in Seq(Events) /\ Len(topic') \in Nat /\ Len(topic') >= Len(topic)
        /\ \A f : InTopic(f)' => InTopic(f) \/ f = e
        /\ \A f : InTopic(f) => InTopic(f)'
    <2>1. CASE topic' = topic
      BY <2>1 DEF EventsTypeOK, RelayTypeOK, InTopic
    <2>2. CASE topic' = Append(topic, e)
      BY <2>2, AppendFacts DEF EventsTypeOK, RelayTypeOK
    <2> QED
      BY <1>1, <2>1, <2>2
  <1>3. EventsTypeOK'
    BY <1>1, <1>2 DEF EventsTypeOK, RelayTypeOK, ConsumerTypeOK, consumerVars
  <1>4. Locks' /\ Accepted' /\ Effects'
    <2>1. Locks' /\ Accepted'
      BY <1>1, <1>2 DEF Locks, Accepted
    <2>2. Effects'
      BY <1>1, EffectsKept
    <2> QED
      BY <2>1, <2>2
  <1>5. Written'
    BY <1>1, <1>2 DEF Written, consumerVars
  <1>6. NothingForgotten' /\ DeadOnce'
    BY <1>1, <1>2 DEF NothingForgotten, DeadOnce
  <1> QED
    BY <1>3, <1>4, <1>5, <1>6

-----------------------------------------------------------------------------
\* A relay locks a batch of rows that nobody has locked.
LEMMA SelectInv ==
  ASSUME EventsInv, NEW r \in Relays, SelectBatch(r), UNCHANGED consumerVars
  PROVE  EventsInv'
  <1> USE RelayAssumption DEF EventsInv
  <1>1. PICK S \in SUBSET {e \in Events \ Locked : outbox[e].status = "waiting"
                                                  /\ outbox[e].retries < MaxRetries} :
          relay' = [relay EXCEPT ![r] = [NoBatch EXCEPT !.pc = "write", !.locked = S, !.todo = S]]
    BY DEF SelectBatch
  <1>2. UNCHANGED <<outbox, sending, dlq, topic, trouble, consumerVars>>
    BY DEF SelectBatch
  <1>3. /\ relay'[r] = [pc |-> "write", locked |-> S, todo |-> S, ok |-> {}, bad |-> {}]
        /\ \A s \in Relays \ {r} : relay'[s] = relay[s]
        /\ relay' \in [Relays -> Batch]
    BY <1>1 DEF EventsTypeOK, RelayTypeOK, NoBatch, Batch
  <1>4. EventsTypeOK'
    BY <1>2, <1>3 DEF EventsTypeOK, RelayTypeOK, ConsumerTypeOK, consumerVars
  <1>5. \A s \in Relays : relay[s].locked \cap S = {}
    BY DEF Locked
  <1>6. Locks'
    BY <1>2, <1>3, <1>5 DEF Locks
  <1>7. Accepted'
    BY <1>2, <1>3 DEF Accepted, InTopic
  <1>8. Written' /\ NothingForgotten' /\ DeadOnce'
    BY <1>2 DEF Written, NothingForgotten, DeadOnce, InTopic, consumerVars
  <1>9. Effects'
    BY <1>2, EffectsKept DEF EventsTypeOK, RelayTypeOK
  <1> QED
    BY <1>4, <1>6, <1>7, <1>8, <1>9

\* Kafka answers for one message of the batch.
LEMMA WriteInv ==
  ASSUME EventsInv, NEW r \in Relays, Write(r), UNCHANGED consumerVars
  PROVE  EventsInv'
  <1> USE RelayAssumption DEF EventsInv
  <1> DEFINE answer(e, ok, bad) == relay' = [relay EXCEPT ![r] =
               [relay[r] EXCEPT !.todo = @ \ {e}, !.ok = @ \cup ok, !.bad = @ \cup bad]]
  <1>0. trouble' \in trouble..MaxTrouble
    BY DEF Write, Trouble, calm, EventsTypeOK, RelayTypeOK
  <1>1. PICK e \in relay[r].todo :
          \/ topic' = Append(topic, e) /\ answer(e, {e}, {})
          \/ topic' = topic /\ answer(e, {}, {e})
          \/ topic' = Append(topic, e) /\ answer(e, {}, {})
          \/ topic' = topic /\ answer(e, {}, {})
    BY DEF Write
  <1>2. PICK ok \in SUBSET {e}, bad \in SUBSET {e} :
          /\ answer(e, ok, bad)
          /\ topic' = Append(topic, e) \/ (topic' = topic /\ ok = {})
    <2>1. {} \in SUBSET {e} /\ {e} \in SUBSET {e}
      OBVIOUS
    <2> HIDE DEF answer
    <2> QED
      BY <1>1, <2>1
  <1>3. UNCHANGED <<outbox, sending, dlq, consumerVars>> /\ relay[r].pc = "write"
    BY DEF Write
  <1>4. e \in relay[r].locked /\ e \in Events
    BY <1>3 DEF Locks, EventsTypeOK, RelayTypeOK, Batch
  <1>b. relay[r] \in Batch /\ e \in Events /\ ok \subseteq Events /\ bad \subseteq Events
    BY <1>4 DEF EventsTypeOK, RelayTypeOK
  <1>c. /\ relay'[r] = [relay[r] EXCEPT !.todo = relay[r].todo \ {e}, !.ok = relay[r].ok \cup ok,
                                        !.bad = relay[r].bad \cup bad]
        /\ \A s \in Relays \ {r} : relay'[s] = relay[s]
        /\ DOMAIN relay' = Relays
    BY <1>2 DEF EventsTypeOK, RelayTypeOK
  <1>5. /\ relay'[r].pc = "write" /\ relay'[r].locked = relay[r].locked
        /\ relay'[r].todo = relay[r].todo \ {e}
        /\ relay'[r].ok = relay[r].ok \cup ok /\ relay'[r].bad = relay[r].bad \cup bad
        /\ relay'[r] \in Batch
    <2>1. /\ relay'[r].pc = "write" /\ relay'[r].locked = relay[r].locked
          /\ relay'[r].todo = relay[r].todo \ {e}
          /\ relay'[r].ok = relay[r].ok \cup ok /\ relay'[r].bad = relay[r].bad \cup bad
      BY <1>b, <1>c, <1>3 DEF Batch
    <2>2. relay[r].ok \cup ok \subseteq Events /\ relay[r].bad \cup bad \subseteq Events
          /\ relay[r].todo \ {e} \subseteq Events
      BY <1>b DEF Batch
    <2>3. relay'[r] \in Batch
      BY <1>b, <1>c, <2>2 DEF Batch
    <2> QED
      BY <2>1, <2>3
  <1>a. relay' \in [Relays -> Batch] /\ \A s \in Relays \ {r} : relay'[s] = relay[s]
    BY <1>2, <1>c, <1>5 DEF EventsTypeOK, RelayTypeOK
  <1>6. /\ topic' \in Seq(Events) /\ Len(topic') \in Nat /\ Len(topic') >= Len(topic)
        /\ \A f : InTopic(f)' => InTopic(f) \/ f = e
        /\ \A f : InTopic(f) => InTopic(f)'
        /\ ok # {} => InTopic(e)'
    <2>1. CASE topic' = topic
      BY <2>1, <1>2, <1>4 DEF EventsTypeOK, RelayTypeOK, InTopic
    <2>2. CASE topic' = Append(topic, e)
      BY <2>2, <1>4, AppendFacts DEF EventsTypeOK, RelayTypeOK
    <2> QED
      BY <1>2, <2>1, <2>2
  <1>7. EventsTypeOK'
    BY <1>0, <1>3, <1>a, <1>6 DEF EventsTypeOK, RelayTypeOK, ConsumerTypeOK, consumerVars
  <1>8. Locks'
    BY <1>3, <1>4, <1>5, <1>a DEF Locks
  <1>9. Accepted'
    BY <1>3, <1>5, <1>6, <1>a DEF Accepted
  <1>10. Written'
    BY <1>3, <1>4, <1>6 DEF Written, Locks, consumerVars
  <1>11. NothingForgotten' /\ DeadOnce'
    BY <1>3, <1>6 DEF NothingForgotten, DeadOnce
  <1>12. Effects'
    BY <1>0, <1>2, <1>3, <1>4, EffectsKept
  <1> QED
    BY <1>7, <1>8, <1>9, <1>10, <1>11, <1>12

\* A batch that ends without having settled a row.
LEMMA DroppedBatchInv ==
  ASSUME EventsInv, NEW r \in Relays, relay' = [relay EXCEPT ![r] = NoBatch],
         trouble' \in trouble..MaxTrouble, UNCHANGED <<outbox, sending, dlq, topic, consumerVars>>
  PROVE  EventsInv'
  <1> USE RelayAssumption DEF EventsInv
  <1>1. /\ relay'[r] = NoBatch /\ \A s \in Relays \ {r} : relay'[s] = relay[s]
        /\ relay' \in [Relays -> Batch]
    BY DEF EventsTypeOK, RelayTypeOK, NoBatch, Batch
  <1>2. EventsTypeOK'
    BY <1>1 DEF EventsTypeOK, RelayTypeOK, ConsumerTypeOK, consumerVars
  <1>3. Locks' /\ Accepted'
    BY <1>1 DEF Locks, Accepted, NoBatch, InTopic
  <1>4. Written' /\ Effects' /\ NothingForgotten' /\ DeadOnce'
    BY EffectsKept DEF Written, NothingForgotten, DeadOnce, InTopic, consumerVars
  <1> QED
    BY <1>2, <1>3, <1>4

(* The recording transaction commits: what Kafka accepted is published, what it
   rejected is counted, and nobody else has touched these rows. *)
LEMMA RecordedBatchInv ==
  ASSUME EventsInv, NEW r \in Relays, relay[r].pc = "write", recordBatch(relay[r]),
         relay' = [relay EXCEPT ![r] = NoBatch]
           \/ relay' = [relay EXCEPT ![r] = [NoBatch EXCEPT !.pc = "dlq", !.bad = relay[r].bad]],
         trouble' \in trouble..MaxTrouble, UNCHANGED <<sending, dlq, topic, consumerVars>>
  PROVE  EventsInv'
  <1> USE RelayAssumption DEF EventsInv
  <1>1. relay[r] \in Batch
    BY DEF EventsTypeOK, RelayTypeOK
  <1>2. /\ relay'[r].pc # "write" /\ relay'[r].locked = {} /\ relay'[r] \in Batch
        /\ \A s \in Relays \ {r} : relay'[s] = relay[s]
        /\ relay' \in [Relays -> Batch]
    <2> DEFINE next == [NoBatch EXCEPT !.pc = "dlq", !.bad = relay[r].bad]
    <2>1. NoBatch \in Batch /\ next \in Batch
      BY <1>1 DEF NoBatch, Batch
    <2>2. /\ NoBatch.pc = "idle" /\ NoBatch.locked = {}
          /\ next.pc = "dlq" /\ next.locked = {}
      BY DEF NoBatch
    <2> HIDE DEF next
    <2>3. relay' = [relay EXCEPT ![r] = NoBatch] \/ relay' = [relay EXCEPT ![r] = next]
      BY DEF next
    <2> QED
      BY <2>1, <2>2, <2>3 DEF EventsTypeOK, RelayTypeOK
  <1>3. /\ relay[r].ok \cup relay[r].bad \subseteq relay[r].locked
        /\ relay[r].locked \subseteq Events
        /\ \A e \in relay[r].locked : outbox[e].status = "waiting" /\ outbox[e].retries < MaxRetries
    BY <1>1 DEF Locks, Batch
  <1>4. \A e \in Events :
          /\ outbox'[e] \in Row
          /\ e \notin relay[r].locked => outbox'[e] = outbox[e]
          /\ outbox[e].status = "absent" <=> outbox'[e].status = "absent"
          /\ e \in relay[r].locked => /\ outbox'[e].status # "deleted"
                                      /\ outbox'[e].status = "published" => e \in relay[r].ok
    <2> SUFFICES ASSUME NEW e \in Events
                 PROVE  /\ outbox'[e] \in Row
                        /\ e \notin relay[r].locked => outbox'[e] = outbox[e]
                        /\ outbox[e].status = "absent" <=> outbox'[e].status = "absent"
                        /\ e \in relay[r].locked => /\ outbox'[e].status # "deleted"
                                                    /\ outbox'[e].status = "published" => e \in relay[r].ok
      OBVIOUS
    <2>1. outbox[e] \in Row
      BY DEF EventsTypeOK, RelayTypeOK
    <2>2. CASE e \in relay[r].ok
      BY <1>3, <2>1, <2>2 DEF recordBatch, Row
    <2>3. CASE e \notin relay[r].ok /\ e \in relay[r].bad
      BY <1>3, <2>1, <2>3 DEF recordBatch, Row
    <2>4. CASE e \notin relay[r].ok /\ e \notin relay[r].bad
      BY <1>3, <2>1, <2>4 DEF recordBatch, Row
    <2> QED
      BY <2>2, <2>3, <2>4
  <1>5. EventsTypeOK'
    <2>1. outbox' \in [Events -> Row]
      BY <1>4 DEF recordBatch
    <2> QED
      BY <1>2, <2>1 DEF EventsTypeOK, RelayTypeOK, ConsumerTypeOK, consumerVars
  <1>6. \A f : InTopic(f)' <=> InTopic(f)
    BY DEF InTopic
  <1>7. Locks'
    <2>1. \A s \in Relays \ {r} : relay[s].locked \subseteq Events /\ relay[s].locked \cap relay[r].locked = {}
      BY DEF Locks, EventsTypeOK, RelayTypeOK, Batch
    <2> QED
      BY <1>2, <1>4, <2>1 DEF Locks
  <1>8. Accepted'
    BY <1>2, <1>6 DEF Accepted
  <1>9. Written' /\ Effects'
    BY <1>4, <1>6, EffectsKept DEF Written, EventsTypeOK, RelayTypeOK, consumerVars
  <1>10. NothingForgotten'
    BY <1>4, <1>6 DEF NothingForgotten, Accepted
  <1>11. DeadOnce'
    BY <1>3, <1>4 DEF DeadOnce
  <1> QED
    BY <1>5, <1>7, <1>8, <1>9, <1>10, <1>11

\* The batch's transaction ends, one way or another.
LEMMA RecordInv ==
  ASSUME EventsInv, NEW r \in Relays, Record(r), UNCHANGED consumerVars
  PROVE  EventsInv'
  <1>1. trouble' \in trouble..MaxTrouble
    BY RelayAssumption DEF Record, Trouble, calm, EventsInv, EventsTypeOK, RelayTypeOK
  <1>2. relay[r].pc = "write" /\ UNCHANGED <<sending, dlq, topic, consumerVars>>
    BY DEF Record
  <1>3. CASE UNCHANGED outbox /\ relay' = [relay EXCEPT ![r] = NoBatch]
    BY <1>1, <1>2, <1>3, DroppedBatchInv
  <1>4. CASE /\ recordBatch(relay[r])
             /\ \/ relay' = [relay EXCEPT ![r] = NoBatch]
                \/ relay' = [relay EXCEPT ![r] = [NoBatch EXCEPT !.pc = "dlq", !.bad = relay[r].bad]]
    BY <1>1, <1>2, <1>4, RecordedBatchInv
  <1> QED
    BY <1>3, <1>4 DEF Record

(* Rows leave the outbox: those a relay gave up, if they are exhausted by now, or
   published ones.  No row that is locked is either. *)
LEMMA RemovedRowsInv ==
  ASSUME EventsInv, NEW S \in SUBSET Events,
         outbox' = [e \in Events |-> IF e \in S THEN [outbox[e] EXCEPT !.status = "deleted"] ELSE outbox[e]],
         \/ /\ \A e \in S : Exhausted(e)
            /\ dlq' = [e \in Events |-> IF e \in S THEN dlq[e] + 1 ELSE dlq[e]]
         \/ (\A e \in S : outbox[e].status = "published") /\ dlq' = dlq,
         \A r \in Relays : relay'[r] = relay[r] \/ relay'[r] = NoBatch,
         relay' \in [Relays -> Batch],
         trouble' \in trouble..MaxTrouble, UNCHANGED <<sending, topic, consumerVars>>
  PROVE  EventsInv'
  <1> USE RelayAssumption DEF EventsInv
  <1>1. \A e \in Events :
          /\ outbox'[e] \in Row
          /\ e \notin S => outbox'[e] = outbox[e]
          /\ e \in S => outbox'[e].status = "deleted" /\ outbox'[e].retries = outbox[e].retries
    BY DEF EventsTypeOK, RelayTypeOK, Row
  <1>2. EventsTypeOK'
    <2>1. outbox' \in [Events -> Row]
      BY <1>1
    <2>2. dlq' \in [Events -> Nat]
      <3>1. dlq \in [Events -> Nat] /\ \A e \in Events : dlq[e] + 1 \in Nat
        BY DEF EventsTypeOK, RelayTypeOK
      <3>2. CASE dlq' = dlq
        BY <3>1, <3>2
      <3>3. CASE dlq' = [e \in Events |-> IF e \in S THEN dlq[e] + 1 ELSE dlq[e]]
        BY <3>1, <3>3
      <3> QED
        BY <3>2, <3>3
    <2> QED
      BY <2>1, <2>2 DEF EventsTypeOK, RelayTypeOK, ConsumerTypeOK, consumerVars
  <1>3. \A f : InTopic(f)' <=> InTopic(f)
    BY DEF InTopic
  <1>4. Locks'
    <2>1. \A r \in Relays : relay[r].locked \subseteq Events /\ relay[r].locked \cap S = {}
      <3> SUFFICES ASSUME NEW r \in Relays, NEW e \in relay[r].locked PROVE e \in Events /\ e \notin S
        OBVIOUS
      <3>1. e \in Events
        BY DEF EventsTypeOK, RelayTypeOK, Batch
      <3>2. outbox[e] \in Row /\ outbox[e].status = "waiting" /\ outbox[e].retries < MaxRetries
        BY <3>1 DEF Locks, EventsTypeOK, RelayTypeOK
      <3> QED
        BY <3>1, <3>2 DEF Exhausted, Row
    <2>2. \A r \in Relays :
            \/ relay'[r] = relay[r]
            \/ relay'[r].pc = "idle" /\ relay'[r].locked = {}
      BY DEF NoBatch
    <2> QED
      BY <1>1, <2>1, <2>2 DEF Locks
  <1>5. Accepted'
    BY <1>3 DEF Accepted, NoBatch
  <1>6. Written' /\ Effects'
    BY <1>1, <1>3, EffectsKept DEF Written, EventsTypeOK, RelayTypeOK, consumerVars
  <1>7. NothingForgotten' /\ DeadOnce'
    <2> SUFFICES ASSUME NEW e \in Events
                 PROVE  /\ outbox'[e].status \in {"published", "deleted"} => InTopic(e)' \/ dlq'[e] > 0
                        /\ dlq'[e] > 0 => /\ dlq'[e] = 1
                                          /\ outbox'[e] = [status |-> "deleted", retries |-> MaxRetries]
      BY DEF NothingForgotten, DeadOnce
    <2>1. dlq[e] \in Nat /\ outbox[e] \in Row /\ outbox'[e] \in Row
      BY <1>1 DEF EventsTypeOK, RelayTypeOK
    <2>2. CASE e \notin S
      BY <1>1, <1>3, <2>1, <2>2 DEF NothingForgotten, DeadOnce
    <2>3. CASE e \in S /\ Exhausted(e) /\ dlq'[e] = dlq[e] + 1
      <3>1. dlq[e] = 0
        BY <2>1, <2>3 DEF DeadOnce, Exhausted
      <3> QED
        BY <1>1, <2>1, <2>3, <3>1 DEF Exhausted, Row
    <2>4. CASE e \in S /\ outbox[e].status = "published" /\ dlq'[e] = dlq[e]
      BY <1>1, <1>3, <2>1, <2>4 DEF NothingForgotten, DeadOnce
    <2> QED
      BY <2>2, <2>3, <2>4
  <1> QED
    BY <1>2, <1>4, <1>5, <1>6, <1>7

\* moveToDLQ moves what is still exhausted when it runs.
LEMMA MoveInv ==
  ASSUME EventsInv, NEW r \in Relays, MoveToDLQ(r), UNCHANGED consumerVars
  PROVE  EventsInv'
  <1>1. trouble' \in trouble..MaxTrouble
    BY RelayAssumption DEF MoveToDLQ, Trouble, calm, EventsInv, EventsTypeOK, RelayTypeOK
  <1>2. relay' = [relay EXCEPT ![r] = NoBatch] /\ UNCHANGED <<sending, topic, consumerVars>>
    BY DEF MoveToDLQ
  <1>3. CASE UNCHANGED <<outbox, dlq>>
    BY <1>1, <1>2, <1>3, DroppedBatchInv
  <1>4. CASE moveRows({e \in relay[r].bad : Exhausted(e)})
    <2> DEFINE S == {e \in relay[r].bad : Exhausted(e)}
    <2>1. S \in SUBSET Events /\ \A e \in S : Exhausted(e)
      BY DEF EventsInv, EventsTypeOK, RelayTypeOK, Batch
    <2>2. /\ \A s \in Relays : relay'[s] = relay[s] \/ relay'[s] = NoBatch
          /\ relay' \in [Relays -> Batch]
      BY <1>2 DEF EventsInv, EventsTypeOK, RelayTypeOK, Batch, NoBatch
    <2>3. /\ outbox' = [e \in Events |-> IF e \in S THEN [outbox[e] EXCEPT !.status = "deleted"] ELSE outbox[e]]
          /\ dlq' = [e \in Events |-> IF e \in S THEN dlq[e] + 1 ELSE dlq[e]]
      BY <1>4 DEF moveRows
    <2> HIDE DEF S
    <2> QED
      BY <1>1, <1>2, <2>1, <2>2, <2>3, RemovedRowsInv
  <1> QED
    BY <1>3, <1>4 DEF MoveToDLQ

\* cleanup deletes published rows.
LEMMA CleanupInv ==
  ASSUME EventsInv, NEW r \in Relays, Cleanup(r), UNCHANGED consumerVars
  PROVE  EventsInv'
  <1>1. PICK S \in SUBSET {e \in Events : outbox[e].status = "published"} :
          outbox' = [e \in Events |-> IF e \in S THEN [outbox[e] EXCEPT !.status = "deleted"] ELSE outbox[e]]
    BY DEF Cleanup
  <1>2. UNCHANGED <<sending, dlq, topic, relay, trouble, consumerVars>>
    BY DEF Cleanup
  <1>3. relay' \in [Relays -> Batch] /\ trouble' \in trouble..MaxTrouble
    BY <1>2 DEF EventsInv, EventsTypeOK, RelayTypeOK
  <1> QED
    BY <1>1, <1>2, <1>3, RemovedRowsInv

\* A relay dies.
LEMMA RelayCrashInv ==
  ASSUME EventsInv, NEW r \in Relays, RelayCrash(r), UNCHANGED consumerVars
  PROVE  EventsInv'
  <1>1. trouble' \in trouble..MaxTrouble
    BY RelayAssumption DEF RelayCrash, Trouble, EventsInv, EventsTypeOK, RelayTypeOK
  <1> QED
    BY <1>1, DroppedBatchInv DEF RelayCrash

-----------------------------------------------------------------------------
\* The consumer's steps leave everything on the way to it alone.
LEMMA ConsumerFrame ==
  ASSUME EventsInv, UNCHANGED <<outbox, sending, dlq, topic, relay>>, trouble' \in trouble..MaxTrouble,
         ConsumerTypeOK', \A e \in inbox' : InTopic(e), step' # "fetch" => committed' < fetched', Effects'
  PROVE  EventsInv'
  <1> USE DEF EventsInv
  <1>1. \A f : InTopic(f)' <=> InTopic(f)
    BY DEF InTopic
  <1>2. EventsTypeOK'
    BY DEF EventsTypeOK, RelayTypeOK
  <1>3. Locks' /\ Accepted'
    BY <1>1 DEF Locks, Accepted
  <1>4. Written' /\ NothingForgotten' /\ DeadOnce'
    BY <1>1 DEF Written, NothingForgotten, DeadOnce
  <1> QED
    BY <1>2, <1>3, <1>4

(* A message is fetched; unless it is a duplicate its handler runs, and is in hand. *)
LEMMA ProcessInv ==
  ASSUME EventsInv, Process, UNCHANGED <<outbox, sending, dlq, topic, relay>>
  PROVE  EventsInv'
  <1> DEFINE m == topic[fetched + 1]
  <1>1. /\ fetched' = fetched + 1 /\ fetched < Len(topic) /\ UNCHANGED <<committed, inbox>>
        /\ \/ trouble' = trouble /\ handle(m) /\ step' = "inbox"
           \/ trouble' = trouble + 1 /\ trouble < MaxTrouble /\ UNCHANGED effects /\ step' = "fetch"
        /\ step = "fetch"
    BY DEF Process, FetchMessage, Trouble, calm
  <1>2. /\ topic \in Seq(Events) /\ Len(topic) \in Nat /\ fetched \in 0..Len(topic) /\ committed \in 0..fetched
        /\ inbox \subseteq Events /\ effects \in [Events -> Nat] /\ trouble \in 0..MaxTrouble /\ MaxTrouble \in Nat
    BY RelayAssumption DEF EventsInv, EventsTypeOK, RelayTypeOK, ConsumerTypeOK
  <1>3. m \in Events /\ InTopic(m)
    BY <1>1, <1>2 DEF InTopic
  <1>4. opened = {} /\ opened' = IF step' = "inbox" THEN {m} \ inbox ELSE {}
    BY <1>1, <1>2 DEF opened
  <1> HIDE DEF m
  <1>5. effects' \in [Events -> Nat] /\ Effects'
    <2>1. CASE trouble' = trouble /\ handle(m) /\ step' = "inbox" /\ m \notin inbox
      <3>1. effects' = [effects EXCEPT ![m] = effects[m] + 1]
        BY <2>1 DEF handle
      <3>2. opened' = {m}
        BY <1>4, <2>1
      <3> QED
        BY <1>1, <1>2, <1>3, <1>4, <2>1, <3>1, <3>2 DEF EventsInv, Effects, InTopic
    <2>2. CASE UNCHANGED effects /\ opened' = {} /\ trouble' \in trouble..MaxTrouble
      BY <1>1, <1>2, <1>4, <2>2 DEF EventsInv, Effects, InTopic
    <2> QED
      BY <1>1, <1>2, <1>4, <2>1, <2>2 DEF handle
  <1>6. ConsumerTypeOK' /\ trouble' \in trouble..MaxTrouble
    BY <1>1, <1>2, <1>5 DEF ConsumerTypeOK
  <1> QED
    BY <1>1, <1>2, <1>5, <1>6, ConsumerFrame DEF EventsInv, Written

\* The row in the inbox is committed or not; without it the run is dropped, which is trouble.
LEMMA CommitInboxInv ==
  ASSUME EventsInv, CommitInbox, UNCHANGED <<outbox, sending, dlq, topic, relay>>
  PROVE  EventsInv'
  <1> DEFINE m == topic[fetched]
  <1>1. /\ UNCHANGED <<fetched, committed, effects>> /\ step = "inbox" /\ step' \in {"fetch", "commit"}
        /\ \/ inbox' = inbox \cup {m} /\ trouble' \in {trouble, trouble + 1}
           \/ inbox' = inbox /\ trouble' = trouble + 1
        /\ trouble' = trouble \/ trouble < MaxTrouble
    BY DEF CommitInbox, Trouble, calm
  <1>2. /\ topic \in Seq(Events) /\ Len(topic) \in Nat /\ fetched \in 0..Len(topic) /\ committed \in 0..fetched
        /\ inbox \subseteq Events /\ effects \in [Events -> Nat] /\ trouble \in 0..MaxTrouble /\ MaxTrouble \in Nat
        /\ committed < fetched
    BY <1>1, RelayAssumption DEF EventsInv, EventsTypeOK, RelayTypeOK, ConsumerTypeOK, Written
  <1>3. m \in Events /\ InTopic(m)
    BY <1>2 DEF InTopic
  <1>4. opened = {m} \ inbox /\ opened' = {}
    BY <1>1 DEF opened
  <1> HIDE DEF m
  <1>5. Effects'
    <2>1. CASE inbox' = inbox \cup {m} /\ trouble' \in {trouble, trouble + 1}
      <3>1. inbox' \cup opened' = inbox \cup opened
        BY <1>4, <2>1
      <3> QED
        BY <1>1, <1>2, <2>1, <3>1 DEF EventsInv, Effects, InTopic
    <2>2. CASE inbox' = inbox /\ trouble' = trouble + 1
      BY <1>1, <1>2, <1>4, <2>2 DEF EventsInv, Effects, InTopic
    <2> QED
      BY <1>1, <2>1, <2>2
  <1>6. ConsumerTypeOK' /\ trouble' \in trouble..MaxTrouble
    BY <1>1, <1>2, <1>3 DEF EventsInv, EventsTypeOK, ConsumerTypeOK
  <1>7. \A e \in inbox' : InTopic(e)
    BY <1>1, <1>3 DEF EventsInv, Written
  <1> QED
    BY <1>1, <1>2, <1>5, <1>6, <1>7, ConsumerFrame

\* Offsets are committed, and the consumer goes back to them after a restart.
LEMMA OffsetInv ==
  ASSUME EventsInv, CommitMessages \/ ConsumerRestart, UNCHANGED <<outbox, sending, dlq, topic, relay>>
  PROVE  EventsInv'
  <1>1. /\ topic \in Seq(Events) /\ Len(topic) \in Nat /\ fetched \in 0..Len(topic) /\ committed \in 0..fetched
        /\ inbox \subseteq Events /\ effects \in [Events -> Nat] /\ trouble \in 0..MaxTrouble /\ MaxTrouble \in Nat
    BY RelayAssumption DEF EventsInv, EventsTypeOK, RelayTypeOK, ConsumerTypeOK
  <1>2. /\ trouble' \in trouble..MaxTrouble /\ ConsumerTypeOK' /\ step' = "fetch"
        /\ UNCHANGED <<inbox, effects>>
        /\ step = "commit" \/ trouble' = trouble + 1
    BY <1>1 DEF CommitMessages, ConsumerRestart, Trouble, calm, ConsumerTypeOK
  <1>3. opened' = {} /\ (step = "commit" => opened = {})
    BY <1>2 DEF opened
  <1>4. Effects'
    BY <1>1, <1>2, <1>3 DEF EventsInv, Effects, InTopic
  <1> QED
    BY <1>2, <1>4, ConsumerFrame DEF EventsInv, Written

-----------------------------------------------------------------------------
(* Every step of requests, relays, Kafka and the consumer keeps the invariant. *)
LEMMA EventsStepInv == EventsInv /\ [EventsNext]_eventVars => EventsInv'
  <1> SUFFICES ASSUME EventsInv, [EventsNext]_eventVars PROVE EventsInv'
    OBVIOUS
  <1>1. ASSUME NEW e \in Events, Insert(e) \/ SendOrderCreated(e), UNCHANGED consumerVars PROVE EventsInv'
    BY <1>1, InsertInv, SendInv
  <1>2. ASSUME NEW r \in Relays, RelayStep(r) PROVE EventsInv'
    BY <1>2, SelectInv, WriteInv, RecordInv, MoveInv DEF RelayStep
  <1>3. ASSUME NEW r \in Relays, Cleanup(r) \/ RelayCrash(r), UNCHANGED consumerVars PROVE EventsInv'
    BY <1>3, CleanupInv, RelayCrashInv
  <1>4. CASE ConsumerStep
    BY <1>4, ProcessInv, CommitInboxInv, OffsetInv DEF ConsumerStep
  <1>5. CASE ConsumerRestart /\ UNCHANGED <<outbox, sending, dlq, topic, relay>>
    BY <1>5, OffsetInv
  <1>6. CASE UNCHANGED eventVars
    <2>1. /\ trouble' \in trouble..MaxTrouble /\ UNCHANGED <<inbox, step, fetched, committed>>
          /\ UNCHANGED <<outbox, sending, dlq, topic, relay>>
      BY <1>6 DEF eventVars, relayVars, consumerVars, EventsInv, EventsTypeOK, RelayTypeOK
    <2>2. Effects' /\ ConsumerTypeOK'
      BY <1>6, <2>1, EffectsKept DEF eventVars
    <2> QED
      BY <2>1, <2>2, ConsumerFrame DEF EventsInv, Written
  <1> QED
    BY <1>1, <1>2, <1>3, <1>4, <1>5, <1>6 DEF EventsNext

(* The inductive invariant of the events' way: relays never share a row, no row
   that is locked can be settled by another, and what is counted as accepted is
   with Kafka. *)
THEOREM EventsCorrect == EventsSpec => []EventsInv
  BY EventsInitInv, EventsStepInv, PTL DEF EventsSpec

(* OutboxRelay: an event leaves the outbox only for Kafka or for the dead-letter
   table, whatever batches, crashes and failing transactions there are. *)
THEOREM EventsKept == EventsSpec => []NothingForgotten
  <1>1. EventsInv => NothingForgotten
    BY DEF EventsInv
  <1> QED
    BY <1>1, EventsCorrect, PTL

(* moveToDLQ: an event is given up at most once and only after its last attempt,
   however many relays rejected it. *)
THEOREM GivenUpOnce == EventsSpec => []DeadOnce
  <1>1. EventsInv => DeadOnce
    BY DEF EventsInv
  <1> QED
    BY <1>1, EventsCorrect, PTL

\* The messages of the topic stay where they are.
LEMMA TopicGrows ==
  ASSUME EventsInv, [EventsNext]_eventVars
  PROVE  \A i \in 1..Len(topic) : topic'[i] = topic[i]
  <1>1. topic' = topic \/ \E e \in Events : topic' = Append(topic, e)
    <2>1. ASSUME NEW r \in Relays, Write(r) PROVE topic' = topic \/ \E e \in Events : topic' = Append(topic, e)
      <3>1. relay[r].todo \subseteq Events
        BY DEF EventsInv, EventsTypeOK, RelayTypeOK, Batch
      <3> QED
        BY <2>1, <3>1 DEF Write
    <2> QED
      BY <2>1 DEF EventsNext, RelayStep, ConsumerStep, Insert, SendOrderCreated, SelectBatch, Record, MoveToDLQ,
                  Cleanup, RelayCrash, eventVars, relayVars
  <1>2. topic \in Seq(Events)
    BY DEF EventsInv, EventsTypeOK, RelayTypeOK
  <1> QED
    BY <1>1, <1>2

\* A handler runs for messages only, and once more for each trouble met at most.
HandledForReason ==
  \A e \in Events : /\ effects[e] > 0 => InTopic(e) /\ outbox[e].status # "absent"
                    /\ e \in inbox => effects[e] > 0
                    /\ effects[e] <= trouble + 1

(* processWithInbox: the handler is not part of the inbox transaction, so it may run
   again; but every run after the first costs a transaction or a consumer that failed.
   What the inbox holds was handled, and what was handled is of a committed order. *)
THEOREM RepeatsCostTrouble == EventsSpec => []HandledForReason
  <1>1. EventsInv => HandledForReason
    <2> SUFFICES ASSUME EventsInv, NEW e \in Events
                 PROVE  /\ effects[e] > 0 => InTopic(e) /\ outbox[e].status # "absent"
                        /\ e \in inbox => effects[e] > 0
                        /\ effects[e] <= trouble + 1
      BY DEF HandledForReason
    <2>1. effects[e] \in Nat /\ trouble \in Nat
      BY DEF EventsInv, EventsTypeOK, RelayTypeOK, ConsumerTypeOK
    <2>2. /\ effects[e] > 0 => InTopic(e)
          /\ e \in inbox => effects[e] > 0
          /\ effects[e] <= trouble + 1 \/ effects[e] <= trouble + 0
      BY DEF EventsInv, Effects
    <2>3. InTopic(e) => outbox[e].status # "absent"
      BY DEF EventsInv, Written
    <2> QED
      BY <2>1, <2>2, <2>3
  <1> QED
    BY <1>1, EventsCorrect, PTL

\* Without failing inbox transactions and restarts no run is dropped.
Undropped == \A e \in Events : effects[e] = (IF e \in inbox \cup opened THEN 1 ELSE 0)

LEMMA UndroppedStep ==
  ASSUME {"inbox", "restart"} \cap Faults = {}, EventsInv, EventsInv', Undropped, [EventsNext]_eventVars
  PROVE  Undropped'
  <1>0. ~Trouble("inbox") /\ ~Trouble("restart")
    BY DEF Trouble
  <1>1. /\ topic \in Seq(Events) /\ Len(topic) \in Nat /\ fetched \in 0..Len(topic)
        /\ inbox \subseteq Events /\ effects \in [Events -> Nat]
    BY DEF EventsInv, EventsTypeOK, RelayTypeOK, ConsumerTypeOK
  <1>2. CASE UNCHANGED consumerVars
    <2>1. step # "fetch" => topic'[fetched] = topic[fetched]
      BY <1>2, TopicGrows DEF EventsInv, Written, EventsTypeOK, ConsumerTypeOK
    <2>2. opened' = opened
      BY <1>2, <2>1 DEF opened, consumerVars
    <2> QED
      BY <1>2, <2>2 DEF Undropped, consumerVars
  <1>3. CASE Process /\ UNCHANGED topic
    <2> DEFINE m == topic[fetched + 1]
    <2>1. handle(m) /\ step = "fetch" /\ step' = "inbox" /\ inbox' = inbox /\ fetched' = fetched + 1
      BY <1>0, <1>3 DEF Process, FetchMessage
    <2>2. opened = {} /\ opened' = {m} \ inbox
      BY <1>3, <2>1 DEF opened
    <2>3. m \in Events
      BY <1>1, <1>3 DEF Process, FetchMessage
    <2> HIDE DEF m
    <2> QED
      BY <1>1, <2>1, <2>2, <2>3 DEF handle, Undropped
  <1>4. CASE CommitInbox /\ UNCHANGED topic
    <2> DEFINE m == topic[fetched]
    <2>1. step = "inbox" /\ step' # "inbox" /\ inbox' = inbox \cup {m} /\ effects' = effects
      BY <1>0, <1>4 DEF CommitInbox
    <2>2. opened = {m} \ inbox /\ opened' = {}
      BY <2>1 DEF opened
    <2> HIDE DEF m
    <2> QED
      BY <2>1, <2>2 DEF Undropped
  <1>5. CASE CommitMessages
    <2>1. step = "commit" /\ step' = "fetch" /\ inbox' = inbox /\ effects' = effects
      BY <1>5 DEF CommitMessages
    <2> QED
      BY <2>1 DEF Undropped, opened
  <1> QED
    BY <1>0, <1>2, <1>3, <1>4, <1>5 DEF EventsNext, RelayStep, ConsumerStep, ConsumerRestart, eventVars

(* consumer.go promises handler and inbox row in one transaction.  The code keeps the
   promise when no inbox transaction fails and no consumer dies: then a handler runs at
   most once, however often its event is sent, fetched and offered again. *)
THEOREM RepeatedOnlyByDroppedRuns ==
  {"inbox", "restart"} \cap Faults = {} /\ EventsSpec => []AtMostOnce
  <1> SUFFICES ASSUME {"inbox", "restart"} \cap Faults = {} PROVE EventsSpec => []AtMostOnce
    OBVIOUS
  <1>1. EventsInit => Undropped
    BY DEF EventsInit, ConsumerInit, Undropped, opened
  <1>2. EventsInv /\ EventsInv' /\ Undropped /\ [EventsNext]_eventVars => Undropped'
    BY UndroppedStep
  <1>3. Undropped => AtMostOnce
    <2> SUFFICES ASSUME Undropped, NEW e \in Events PROVE effects[e] <= 1
      BY DEF AtMostOnce
    <2>1. effects[e] = 1 \/ effects[e] = 0
      BY DEF Undropped
    <2> QED
      BY <2>1
  <1> QED
    BY <1>1, <1>2, <1>3, EventsCorrect, PTL DEF EventsSpec

-----------------------------------------------------------------------------
\* What EventDelivery sees of the rows and of the topic.
placeNow == [e \in Events |-> CASE outbox[e].status = "absent" -> "nowhere"
                                [] outbox[e].status = "waiting" -> "waiting"
                                [] OTHER -> "gone"]
triesNow == [e \in Events |-> outbox[e].retries]
heldNow == {e \in Events : InTopic(e)}

Seen == <<placeNow, triesNow, heldNow, dlq, effects, opened, inbox>>

\* The row types, now and next, that the steps below rest on.
LEMMA RowsNow ==
  ASSUME EventsInv, EventsInv'
  PROVE  /\ outbox \in [Events -> Row] /\ outbox' \in [Events -> Row]
         /\ dlq \in [Events -> Nat] /\ topic \in Seq(Events) /\ effects \in [Events -> Nat]
         /\ relay \in [Relays -> Batch]
  BY DEF EventsInv, EventsTypeOK, RelayTypeOK, ConsumerTypeOK

\* An order's transaction makes its event.
LEMMA InsertIsMake ==
  ASSUME EventsInv, EventsInv', NEW e \in Events, Insert(e), UNCHANGED consumerVars
  PROVE  Delivery!Make(e)
  <1>1. /\ outbox \in [Events -> Row] /\ outbox[e].status = "absent"
        /\ outbox' = [outbox EXCEPT ![e].status = "waiting"]
        /\ UNCHANGED <<dlq, topic, effects, opened, inbox>>
    BY RowsNow DEF Insert, opened, consumerVars
  <1>2. /\ outbox'[e].status = "waiting" /\ outbox'[e].retries = outbox[e].retries
        /\ \A f \in Events \ {e} : outbox'[f] = outbox[f]
    BY <1>1 DEF Row
  <1>3. placeNow' = [placeNow EXCEPT ![e] = "waiting"] /\ placeNow[e] = "nowhere"
    BY <1>1, <1>2 DEF placeNow
  <1>4. triesNow' = triesNow
    BY <1>2 DEF triesNow
  <1>5. heldNow' = heldNow
    BY <1>1 DEF heldNow, InTopic
  <1> QED
    BY <1>1, <1>3, <1>4, <1>5 DEF Delivery!Make, placeNow, triesNow, heldNow

\* A message more in the topic, the rows as they are.
LEMMA AppendIsHold ==
  ASSUME EventsInv, NEW e \in Events, outbox[e].status # "absent",
         topic' = Append(topic, e), UNCHANGED <<outbox, dlq, effects, opened, inbox>>
  PROVE  Delivery!Hold(e)
  <1>1. topic \in Seq(Events)
    BY DEF EventsInv, EventsTypeOK, RelayTypeOK
  <1>2. \A f : InTopic(f)' <=> InTopic(f) \/ f = e
    BY <1>1, AppendFacts
  <1>3. heldNow' = heldNow \cup {e}
    BY <1>2 DEF heldNow
  <1>4. placeNow' = placeNow /\ triesNow' = triesNow
    BY DEF placeNow, triesNow
  <1>5. placeNow[e] # "nowhere"
    BY DEF placeNow
  <1> QED
    BY <1>3, <1>4, <1>5 DEF Delivery!Hold, placeNow, triesNow, heldNow

\* Nothing visible changes as long as rows, topic, dead letters, runs and entries stay.
LEMMA Unseen ==
  ASSUME UNCHANGED <<outbox, topic, dlq, effects, opened, inbox>>
  PROVE  UNCHANGED Seen
  BY DEF Seen, placeNow, triesNow, heldNow, InTopic

\* A request's own message, sent or not.
LEMMA SendSeen ==
  ASSUME EventsInv, NEW e \in Events, SendOrderCreated(e), UNCHANGED consumerVars
  PROVE  Delivery!DeliveryNext \/ UNCHANGED Seen
  <1>1. /\ outbox[e].status # "absent" /\ UNCHANGED <<outbox, dlq, effects, inbox>>
        /\ topic' = Append(topic, e) \/ topic' = topic
    BY DEF SendOrderCreated, consumerVars, EventsInv, Written
  <1>2. opened' = opened
    BY <1>1, OpenedKept
  <1> QED
    BY <1>1, <1>2, AppendIsHold, Unseen DEF Delivery!DeliveryNext

\* A relay's message, whatever its answer.
LEMMA WriteSeen ==
  ASSUME EventsInv, NEW r \in Relays, Write(r), UNCHANGED consumerVars
  PROVE  Delivery!DeliveryNext \/ UNCHANGED Seen
  <1>1. PICK e \in relay[r].todo : topic' = Append(topic, e) \/ topic' = topic
    BY DEF Write
  <1>2. UNCHANGED <<outbox, dlq, effects, inbox>> /\ relay[r].pc = "write"
    BY DEF Write, consumerVars
  <1>3. e \in Events /\ outbox[e].status = "waiting"
    BY <1>2 DEF EventsInv, Locks, EventsTypeOK, RelayTypeOK, Batch
  <1>4. opened' = opened
    BY <1>1, <1>3, OpenedKept
  <1> QED
    BY <1>1, <1>2, <1>3, <1>4, AppendIsHold, Unseen DEF Delivery!DeliveryNext

\* A recorded batch: its rows are the relay's own, what it accepts is held.
LEMMA RecordSeen ==
  ASSUME EventsInv, EventsInv', NEW r \in Relays, Record(r), UNCHANGED consumerVars
  PROVE  Delivery!DeliveryNext \/ UNCHANGED Seen
  <1>1. relay[r].pc = "write" /\ UNCHANGED <<dlq, topic, effects, opened, inbox>>
    BY DEF Record, opened, consumerVars
  <1>2. CASE UNCHANGED outbox
    BY <1>1, <1>2, Unseen
  <1>3. CASE recordBatch(relay[r])
    <2>0. PICK ok \in SUBSET Events, bad \in SUBSET Events :
            ok = relay[r].ok /\ bad = relay[r].bad \ relay[r].ok
      BY DEF EventsInv, EventsTypeOK, RelayTypeOK, Batch
    <2>1. /\ ok \cap bad = {}
          /\ \A e \in ok \cup bad : e \in Events /\ outbox[e].status = "waiting" /\ outbox[e].retries < MaxRetries
          /\ \A e \in ok : InTopic(e)
      BY <1>1, <2>0 DEF EventsInv, Locks, Accepted
    <2>2. outbox' = [e \in Events |-> IF e \in ok THEN [outbox[e] EXCEPT !.status = "published"]
                                      ELSE IF e \in bad THEN [outbox[e] EXCEPT !.retries = outbox[e].retries + 1]
                                      ELSE outbox[e]]
      BY <1>3, <2>0 DEF recordBatch
    <2>3. outbox \in [Events -> Row] /\ outbox' \in [Events -> Row]
      BY RowsNow
    <2>4. \A e \in Events :
            /\ e \in ok => outbox'[e].status = "published" /\ outbox'[e].retries = outbox[e].retries
            /\ e \in bad => outbox'[e].status = outbox[e].status /\ outbox'[e].retries = outbox[e].retries + 1
            /\ e \notin ok \cup bad => outbox'[e] = outbox[e]
      BY <2>1, <2>2, <2>3 DEF Row
    <2>5. placeNow' = [e \in Events |-> IF e \in ok THEN "gone" ELSE placeNow[e]]
      <3>1. ASSUME NEW e \in Events PROVE placeNow'[e] = IF e \in ok THEN "gone" ELSE placeNow[e]
        <4>1. CASE e \in ok
          BY <2>4, <4>1 DEF placeNow
        <4>2. CASE e \notin ok
          <5>1. outbox'[e].status = outbox[e].status
            BY <2>4, <4>2
          <5> QED
            BY <5>1, <4>2 DEF placeNow
        <4> QED
          BY <4>1, <4>2
      <3> QED
        BY <3>1 DEF placeNow
    <2>6. triesNow' = [e \in Events |-> IF e \in bad THEN triesNow[e] + 1 ELSE triesNow[e]]
      <3>1. ASSUME NEW e \in Events PROVE outbox'[e].retries = IF e \in bad THEN triesNow[e] + 1 ELSE triesNow[e]
        BY <2>1, <2>4 DEF triesNow
      <3> QED
        BY <3>1 DEF triesNow
    <2>7. heldNow' = heldNow /\ ok \subseteq heldNow
      BY <1>1, <2>1 DEF heldNow, InTopic
    <2>8. \A e \in ok \cup bad : placeNow[e] = "waiting" /\ triesNow[e] < MaxRetries
      BY <2>1 DEF placeNow, triesNow
    <2>9. Delivery!Count(ok, bad)
      BY <1>1, <2>1, <2>5, <2>6, <2>7, <2>8 DEF Delivery!Count, Delivery!Leave, placeNow, triesNow, heldNow
    <2> QED
      BY <2>9 DEF Delivery!DeliveryNext
  <1> QED
    BY <1>2, <1>3 DEF Record

\* Rows that are moved were exhausted, so nobody had moved them before.
LEMMA MoveSeen ==
  ASSUME EventsInv, EventsInv', NEW r \in Relays, MoveToDLQ(r), UNCHANGED consumerVars
  PROVE  Delivery!DeliveryNext \/ UNCHANGED Seen
  <1>1. UNCHANGED <<topic, effects, opened, inbox>>
    BY DEF MoveToDLQ, opened, consumerVars
  <1>2. CASE UNCHANGED <<outbox, dlq>>
    BY <1>1, <1>2, Unseen
  <1>3. CASE moveRows({e \in relay[r].bad : Exhausted(e)})
    <2>0. PICK S \in SUBSET Events : S = {e \in relay[r].bad : Exhausted(e)}
      BY DEF EventsInv, EventsTypeOK, RelayTypeOK, Batch
    <2>1. \A e \in S : outbox[e].status = "waiting" /\ outbox[e].retries = MaxRetries
      BY <2>0 DEF Exhausted
    <2>2. /\ outbox' = [e \in Events |-> IF e \in S THEN [outbox[e] EXCEPT !.status = "deleted"] ELSE outbox[e]]
          /\ dlq' = [e \in Events |-> IF e \in S THEN dlq[e] + 1 ELSE dlq[e]]
      BY <1>3, <2>0 DEF moveRows
    <2>3. outbox \in [Events -> Row] /\ outbox' \in [Events -> Row] /\ dlq \in [Events -> Nat]
      BY RowsNow
    <2>4. \A e \in Events :
            /\ e \in S => outbox'[e].status = "deleted" /\ outbox'[e].retries = outbox[e].retries
            /\ e \notin S => outbox'[e] = outbox[e]
      BY <2>2, <2>3 DEF Row
    <2>5. placeNow' = [e \in Events |-> IF e \in S THEN "gone" ELSE placeNow[e]]
      <3>1. ASSUME NEW e \in Events PROVE placeNow'[e] = IF e \in S THEN "gone" ELSE placeNow[e]
        <4>1. CASE e \in S
          BY <2>4, <4>1 DEF placeNow
        <4>2. CASE e \notin S
          BY <2>4, <4>2 DEF placeNow
        <4> QED
          BY <4>1, <4>2
      <3> QED
        BY <3>1 DEF placeNow
    <2>6. triesNow' = triesNow
      BY <2>4 DEF triesNow
    <2>7. heldNow' = heldNow
      BY <1>1 DEF heldNow, InTopic
    <2>8. dlq' = [e \in Events |-> IF e \in S THEN 1 ELSE dlq[e]]
      <3>1. \A e \in S : dlq[e] = 0
        BY <2>1, <2>3 DEF EventsInv, DeadOnce
      <3> QED
        BY <2>1, <2>2, <3>1
    <2>9. \A e \in S : placeNow[e] = "waiting" /\ triesNow[e] = MaxRetries
      BY <2>1 DEF placeNow, triesNow
    <2>10. Delivery!GiveUp(S)
      BY <1>1, <2>5, <2>6, <2>7, <2>8, <2>9 DEF Delivery!GiveUp, Delivery!Leave, placeNow, triesNow, heldNow
    <2> QED
      BY <2>10 DEF Delivery!DeliveryNext
  <1> QED
    BY <1>2, <1>3 DEF MoveToDLQ

\* Published rows have left already: deleting them is not seen.
LEMMA CleanupUnseen ==
  ASSUME EventsInv, EventsInv', NEW r \in Relays, Cleanup(r), UNCHANGED consumerVars
  PROVE  UNCHANGED Seen
  <1>1. PICK S \in SUBSET {e \in Events : outbox[e].status = "published"} :
          outbox' = [e \in Events |-> IF e \in S THEN [outbox[e] EXCEPT !.status = "deleted"] ELSE outbox[e]]
    BY DEF Cleanup
  <1>2. UNCHANGED <<dlq, topic, effects, opened, inbox>>
    BY DEF Cleanup, opened, consumerVars
  <1>3. outbox \in [Events -> Row] /\ outbox' \in [Events -> Row]
    BY RowsNow
  <1>4. \A e \in Events : /\ e \in S => outbox[e].status = "published" /\ outbox'[e].status = "deleted"
                          /\ e \notin S => outbox'[e] = outbox[e]
                          /\ outbox'[e].retries = outbox[e].retries
    BY <1>1, <1>3 DEF Row
  <1>5. placeNow' = placeNow
    <2>1. ASSUME NEW e \in Events PROVE placeNow'[e] = placeNow[e]
      <3>1. CASE e \in S
        BY <1>4, <3>1 DEF placeNow
      <3>2. CASE e \notin S
        BY <1>4, <3>2 DEF placeNow
      <3> QED
        BY <3>1, <3>2
    <2> QED
      BY <2>1 DEF placeNow
  <1>6. triesNow' = triesNow /\ heldNow' = heldNow
    BY <1>2, <1>4 DEF triesNow, heldNow, InTopic
  <1> QED
    BY <1>2, <1>5, <1>6 DEF Seen

\* A handler runs for a message Kafka holds and the inbox does not know.
LEMMA ProcessSeen ==
  ASSUME EventsInv, Process, UNCHANGED <<outbox, sending, dlq, topic, relay>>
  PROVE  Delivery!DeliveryNext \/ UNCHANGED Seen
  <1> DEFINE m == topic[fetched + 1]
  <1>1. /\ step = "fetch" /\ inbox' = inbox /\ fetched' = fetched + 1 /\ fetched < Len(topic)
        /\ (handle(m) /\ step' = "inbox") \/ (UNCHANGED effects /\ step' = "fetch")
    BY DEF Process, FetchMessage
  <1>2. m \in Events /\ InTopic(m)
    BY <1>1 DEF EventsInv, EventsTypeOK, RelayTypeOK, ConsumerTypeOK, InTopic
  <1>3. opened = {} /\ opened' = IF step' = "inbox" THEN {m} \ inbox ELSE {}
    BY <1>1 DEF opened
  <1> HIDE DEF m
  <1>4. placeNow' = placeNow /\ triesNow' = triesNow /\ heldNow' = heldNow
    BY DEF placeNow, triesNow, heldNow, InTopic
  <1>5. CASE UNCHANGED effects /\ opened' = {}
    BY <1>1, <1>3, <1>5, Unseen
  <1>6. CASE handle(m) /\ m \notin inbox /\ step' = "inbox"
    <2>1. effects' = [effects EXCEPT ![m] = effects[m] + 1] /\ opened' = {m}
      BY <1>3, <1>6 DEF handle
    <2>2. m \in heldNow
      BY <1>2 DEF heldNow
    <2>3. Delivery!Handle(m)
      BY <1>1, <1>3, <1>4, <1>6, <2>1, <2>2 DEF Delivery!Handle, placeNow, triesNow, heldNow
    <2> QED
      BY <1>2, <2>3 DEF Delivery!DeliveryNext
  <1> QED
    BY <1>1, <1>3, <1>5, <1>6 DEF handle

\* A run is entered, or dropped when its transaction fails; a duplicate's commit is not seen.
LEMMA CommitInboxSeen ==
  ASSUME EventsInv, CommitInbox, UNCHANGED <<outbox, sending, dlq, topic, relay>>
  PROVE  Delivery!DeliveryNext \/ UNCHANGED Seen
  <1> DEFINE m == topic[fetched]
  <1>1. /\ step = "inbox" /\ step' # "inbox" /\ UNCHANGED effects
        /\ inbox' = inbox \cup {m} \/ inbox' = inbox
    BY DEF CommitInbox
  <1>2. m \in Events
    BY <1>1 DEF EventsInv, EventsTypeOK, RelayTypeOK, ConsumerTypeOK, Written
  <1>3. opened = {m} \ inbox /\ opened' = {}
    BY <1>1 DEF opened
  <1> HIDE DEF m
  <1>4. placeNow' = placeNow /\ triesNow' = triesNow /\ heldNow' = heldNow
    BY DEF placeNow, triesNow, heldNow, InTopic
  <1>5. CASE m \in inbox
    <2>1. inbox' = inbox /\ opened' = opened
      BY <1>1, <1>3, <1>5
    <2> QED
      BY <1>1, <2>1, Unseen
  <1>6. CASE m \notin inbox /\ inbox' = inbox \cup {m}
    <2>1. Delivery!Enter(m)
      BY <1>1, <1>3, <1>4, <1>6 DEF Delivery!Enter, placeNow, triesNow, heldNow
    <2> QED
      BY <1>2, <2>1 DEF Delivery!DeliveryNext
  <1>7. CASE m \notin inbox /\ inbox' = inbox
    <2>1. Delivery!Drop
      BY <1>1, <1>3, <1>4, <1>7 DEF Delivery!Drop, placeNow, triesNow, heldNow
    <2> QED
      BY <2>1 DEF Delivery!DeliveryNext
  <1> QED
    BY <1>1, <1>5, <1>6, <1>7

\* A restart drops the run in hand.
LEMMA RestartSeen ==
  ASSUME ConsumerRestart, UNCHANGED <<outbox, sending, dlq, topic, relay>>
  PROVE  Delivery!DeliveryNext \/ UNCHANGED Seen
  <1>1. UNCHANGED <<effects, inbox>> /\ opened' = {}
    BY DEF ConsumerRestart, opened
  <1>2. placeNow' = placeNow /\ triesNow' = triesNow /\ heldNow' = heldNow
    BY DEF placeNow, triesNow, heldNow, InTopic
  <1>3. CASE opened = {}
    BY <1>1, <1>3, Unseen
  <1>4. CASE opened # {}
    <2>1. Delivery!Drop
      BY <1>1, <1>2, <1>4 DEF Delivery!Drop, placeNow, triesNow, heldNow
    <2> QED
      BY <2>1 DEF Delivery!DeliveryNext
  <1> QED
    BY <1>3, <1>4

\* Every step is one of delivery in one piece, or is not seen.
LEMMA EveryStepDelivers ==
  ASSUME EventsInv, EventsInv', [EventsNext]_eventVars
  PROVE  Delivery!DeliveryNext \/ UNCHANGED Seen
  <1>1. ASSUME NEW e \in Events, Insert(e), UNCHANGED consumerVars PROVE Delivery!DeliveryNext
    BY <1>1, InsertIsMake DEF Delivery!DeliveryNext
  <1>2. ASSUME NEW e \in Events, SendOrderCreated(e), UNCHANGED consumerVars
        PROVE  Delivery!DeliveryNext \/ UNCHANGED Seen
    BY <1>2, SendSeen
  <1>3. ASSUME NEW r \in Relays, RelayStep(r) PROVE Delivery!DeliveryNext \/ UNCHANGED Seen
    <2>1. CASE SelectBatch(r) /\ UNCHANGED consumerVars
      BY <2>1, Unseen DEF SelectBatch, opened, consumerVars
    <2> QED
      BY <1>3, <2>1, WriteSeen, RecordSeen, MoveSeen DEF RelayStep
  <1>4. ASSUME NEW r \in Relays, Cleanup(r), UNCHANGED consumerVars PROVE UNCHANGED Seen
    BY <1>4, CleanupUnseen
  <1>5. ASSUME NEW r \in Relays, RelayCrash(r), UNCHANGED consumerVars PROVE UNCHANGED Seen
    BY <1>5, Unseen DEF RelayCrash, opened, consumerVars
  <1>6. CASE ConsumerStep
    <2>1. CASE CommitMessages /\ UNCHANGED <<outbox, sending, dlq, topic, relay>>
      <3>1. UNCHANGED <<effects, opened, inbox>>
        BY <2>1 DEF CommitMessages, opened
      <3> QED
        BY <2>1, <3>1, Unseen
    <2> QED
      BY <1>6, <2>1, ProcessSeen, CommitInboxSeen DEF ConsumerStep
  <1>7. CASE ConsumerRestart /\ UNCHANGED <<outbox, sending, dlq, topic, relay>>
    BY <1>7, RestartSeen
  <1>8. CASE UNCHANGED eventVars
    BY <1>8, Unseen DEF eventVars, relayVars, opened, consumerVars
  <1> QED
    BY <1>1, <1>2, <1>3, <1>4, <1>5, <1>6, <1>7, <1>8 DEF EventsNext

(* OutboxRelay and Consumer implement EventDelivery: batches, locks, offsets, lost
   answers and duplicates are invisible, and an event leaves the outbox once, held by
   Kafka or rejected MaxRetries times.  Its handler runs for what Kafka holds, never
   after its row is in the inbox, and again only when the run before was dropped. *)
THEOREM DeliveredInOnePiece == EventsSpec => ImplementsDelivery
  <1>1. EventsInit => Delivery!DeliveryInit
    <2> SUFFICES ASSUME EventsInit PROVE Delivery!DeliveryInit
      OBVIOUS
    <2>1. \A e \in Events : outbox[e].status = "absent" /\ outbox[e].retries = 0
      BY DEF EventsInit, RelayInit
    <2>2. placeNow = [e \in Events |-> "nowhere"] /\ triesNow = [e \in Events |-> 0]
      BY <2>1 DEF placeNow, triesNow
    <2>3. heldNow = {}
      BY DEF EventsInit, RelayInit, heldNow, InTopic
    <2>4. opened = {}
      BY DEF EventsInit, ConsumerInit, opened
    <2> QED
      BY <2>2, <2>3, <2>4 DEF EventsInit, RelayInit, ConsumerInit, Delivery!DeliveryInit, placeNow, triesNow, heldNow
  <1>2. EventsInv /\ EventsInv' /\ [EventsNext]_eventVars
          => [Delivery!DeliveryNext]_(Delivery!deliveryVars)
    BY EveryStepDelivers DEF Delivery!deliveryVars, Seen, placeNow, triesNow, heldNow
  <1> QED
    BY <1>1, <1>2, EventsInitInv, EventsStepInv, PTL
       DEF EventsSpec, ImplementsDelivery, Delivery!DeliverySpec

-----------------------------------------------------------------------------
\* As long as no inbox transaction fails, only the message in hand may be missing in the inbox.
InHand == \A i \in 1..fetched : topic[i] \in inbox \/ (i = fetched /\ step = "inbox")

LEMMA InHandStep ==
  ASSUME "inbox" \notin Faults, EventsInv, EventsInv', InHand, [EventsNext]_eventVars
  PROVE  InHand'
  <1>1. /\ fetched \in 0..Len(topic) /\ committed \in 0..fetched /\ fetched \in Nat /\ committed \in Nat
        /\ topic \in Seq(Events) /\ Len(topic) \in Nat /\ ~Trouble("inbox")
    BY DEF EventsInv, EventsTypeOK, RelayTypeOK, ConsumerTypeOK, Trouble
  <1>2. CASE UNCHANGED consumerVars
    BY <1>1, <1>2, TopicGrows DEF InHand, consumerVars
  <1>3. CASE Process /\ UNCHANGED topic
    <2>1. step = "fetch" /\ step' = "inbox" /\ fetched' = fetched + 1 /\ inbox' = inbox
      BY <1>1, <1>3 DEF Process, FetchMessage
    <2> QED
      BY <1>1, <1>3, <2>1 DEF InHand
  <1>4. CASE CommitInbox /\ UNCHANGED topic
    <2>1. inbox' = inbox \cup {topic[fetched]} /\ fetched' = fetched
      BY <1>1, <1>4 DEF CommitInbox
    <2> QED
      BY <1>1, <1>4, <2>1 DEF InHand
  <1>5. CASE (CommitMessages \/ ConsumerRestart) /\ UNCHANGED topic
    <2>1. /\ inbox' = inbox /\ step' = "fetch" /\ fetched' \in {fetched, committed}
          /\ fetched' = committed \/ step = "commit"
      BY <1>5 DEF CommitMessages, ConsumerRestart
    <2>2. ASSUME NEW i \in 1..fetched' PROVE topic[i] \in inbox
      <3>1. i \in 1..fetched /\ ~(i = fetched /\ step = "inbox")
        BY <1>1, <2>1, <2>2 DEF EventsInv, Written
      <3> QED
        BY <3>1 DEF InHand
    <2> QED
      BY <1>5, <2>1, <2>2 DEF InHand
  <1> QED
    BY <1>2, <1>3, <1>4, <1>5 DEF EventsNext, RelayStep, ConsumerStep, eventVars

(* Consumer: a failed inbox transaction is the only way to lose an event.  Restarts,
   failed offset commits, duplicates and commits of unknown outcome lose none: an event
   that nobody will send or fetch again was handled, or was given up by a relay. *)
THEOREM LostOnlyByInboxErrors == "inbox" \notin Faults /\ EventsSpec => []AtLeastOnce
  <1> SUFFICES ASSUME "inbox" \notin Faults PROVE EventsSpec => []AtLeastOnce
    OBVIOUS
  <1>1. EventsInit => InHand
    BY DEF EventsInit, ConsumerInit, InHand
  <1>2. EventsInv /\ EventsInv' /\ InHand /\ [EventsNext]_eventVars => InHand'
    BY InHandStep
  <1>3. EventsInv /\ InHand => AtLeastOnce
    <2> SUFFICES ASSUME EventsInv, InHand, NEW e \in Events, Over(e), dlq[e] = 0 PROVE effects[e] > 0
      BY DEF AtLeastOnce
    <2>1. PICK i \in 1..Len(topic) : topic[i] = e
      BY DEF EventsInv, NothingForgotten, Over, InTopic
    <2>2. i \in 1..committed /\ fetched \in Nat /\ committed \in 0..fetched /\ Len(topic) \in Nat
      BY <2>1 DEF Over, EventsInv, EventsTypeOK, RelayTypeOK, ConsumerTypeOK
    <2>3. i \in 1..fetched /\ ~(i = fetched /\ step = "inbox")
      BY <2>2 DEF EventsInv, Written
    <2>4. e \in inbox
      BY <2>1, <2>3 DEF InHand
    <2> QED
      BY <2>4 DEF EventsInv, Effects
  <1> QED
    BY <1>1, <1>2, <1>3, EventsCorrect, PTL DEF EventsSpec

-----------------------------------------------------------------------------
\* A row that is not written yet has no rejections.
Fresh == \A e \in Events : outbox[e].status = "absent" => outbox[e].retries = 0

LEMMA FreshStep == EventsInv /\ Fresh /\ [EventsNext]_eventVars => Fresh'
  <1> SUFFICES ASSUME EventsInv, Fresh, [EventsNext]_eventVars, NEW e \in Events
               PROVE  outbox'[e].status = "absent" => outbox'[e].retries = 0
    BY DEF Fresh
  <1>1. outbox \in [Events -> Row] /\ outbox[e] \in Row
    BY DEF EventsInv, EventsTypeOK, RelayTypeOK
  <1>2. CASE outbox'[e] = outbox[e]
    BY <1>2 DEF Fresh
  <1>3. ASSUME NEW f \in Events, Insert(f) PROVE outbox'[e] = outbox[e] \/ outbox'[e].status = "waiting"
    BY <1>1, <1>3 DEF Insert, Row
  <1>4. ASSUME NEW r \in Relays, Record(r) PROVE outbox'[e] = outbox[e] \/ outbox'[e].status # "absent"
    <2>1. relay[r].pc = "write" /\ (recordBatch(relay[r]) \/ outbox' = outbox)
      BY <1>4 DEF Record
    <2>2. e \in relay[r].ok \cup relay[r].bad => outbox[e].status = "waiting"
      BY <2>1 DEF EventsInv, Locks
    <2> QED
      BY <1>1, <2>1, <2>2 DEF recordBatch, Row
  <1>5. ASSUME NEW r \in Relays, MoveToDLQ(r) \/ Cleanup(r)
        PROVE  outbox'[e] = outbox[e] \/ outbox'[e].status = "deleted"
    BY <1>1, <1>5 DEF MoveToDLQ, moveRows, Cleanup, Row
  <1> QED
    BY <1>2, <1>3, <1>4, <1>5
       DEF EventsNext, RelayStep, ConsumerStep, SelectBatch, Write, SendOrderCreated, RelayCrash, eventVars, relayVars

\* Without crashes and failing calls of the relay, whoever counts the last rejection moves the row.
LEMMA MovedStep ==
  ASSUME {"crash", "db", "unsure"} \cap Faults = {}, EventsInv, EventsInv', Fresh, ExhaustedIsMoved,
         [EventsNext]_eventVars
  PROVE  ExhaustedIsMoved'
  <1> SUFFICES ASSUME NEW e \in Events, Exhausted(e)'
               PROVE  \E r \in Relays : relay'[r].pc = "dlq" /\ e \in relay'[r].bad
    BY DEF ExhaustedIsMoved
  <1> USE RelayAssumption
  <1>1. /\ outbox \in [Events -> Row] /\ relay \in [Relays -> Batch]
        /\ \A kind \in {"crash", "db", "unsure"} : ~Trouble(kind)
    BY DEF EventsInv, EventsTypeOK, RelayTypeOK, Trouble
  <1>2. ASSUME NEW r \in Relays, Record(r) PROVE \E s \in Relays : relay'[s].pc = "dlq" /\ e \in relay'[s].bad
    <2>1. CASE outbox' = outbox /\ relay' = [relay EXCEPT ![r] = NoBatch]
      <3>1. PICK s \in Relays : relay[s].pc = "dlq" /\ e \in relay[s].bad
        BY <2>1 DEF ExhaustedIsMoved, Exhausted
      <3> QED
        BY <1>1, <1>2, <2>1, <3>1 DEF Record
    <2>2. CASE /\ recordBatch(relay[r])
               /\ relay' = [relay EXCEPT ![r] =
                    IF relay[r].bad = {} THEN NoBatch ELSE [NoBatch EXCEPT !.pc = "dlq", !.bad = relay[r].bad]]
      <3>1. CASE e \in relay[r].bad
        <4> DEFINE next == [NoBatch EXCEPT !.pc = "dlq", !.bad = relay[r].bad]
        <4>1. next.pc = "dlq" /\ next.bad = relay[r].bad
          BY DEF NoBatch
        <4>2. relay'[r] = next
          BY <1>1, <2>2, <3>1
        <4> HIDE DEF next
        <4> QED
          BY <3>1, <4>1, <4>2
      <3>2. CASE e \notin relay[r].bad
        <4>1. outbox'[e] = outbox[e]
          <5>1. e \in relay[r].ok => outbox'[e].status = "published"
            BY <1>1, <2>2 DEF recordBatch, Row
          <5> QED
            BY <2>2, <3>2, <5>1 DEF recordBatch, Exhausted
        <4>2. PICK s \in Relays : relay[s].pc = "dlq" /\ e \in relay[s].bad
          BY <4>1 DEF ExhaustedIsMoved, Exhausted
        <4> QED
          BY <1>1, <1>2, <2>2, <4>2 DEF Record
      <3> QED
        BY <3>1, <3>2
    <2> QED
      BY <1>1, <1>2, <2>1, <2>2 DEF Record
  <1>3. ASSUME NEW r \in Relays, MoveToDLQ(r) PROVE \E s \in Relays : relay'[s].pc = "dlq" /\ e \in relay'[s].bad
    <2>1. moveRows({f \in relay[r].bad : Exhausted(f)}) /\ relay' = [relay EXCEPT ![r] = NoBatch]
      BY <1>1, <1>3 DEF MoveToDLQ
    <2>2. ~(e \in relay[r].bad /\ Exhausted(e)) /\ outbox'[e] = outbox[e]
      BY <1>1, <2>1 DEF moveRows, Exhausted, Row
    <2>3. Exhausted(e)
      BY <2>2 DEF Exhausted
    <2>4. PICK s \in Relays : relay[s].pc = "dlq" /\ e \in relay[s].bad
      BY <2>3 DEF ExhaustedIsMoved
    <2> QED
      BY <1>1, <2>1, <2>2, <2>3, <2>4
  <1>4. ASSUME NEW r \in Relays, SelectBatch(r) \/ Write(r)
        PROVE  \E s \in Relays : relay'[s].pc = "dlq" /\ e \in relay'[s].bad
    <2>1. outbox' = outbox /\ relay[r].pc # "dlq" /\ \A s \in Relays \ {r} : relay'[s] = relay[s]
      BY <1>1, <1>4 DEF SelectBatch, Write
    <2>2. PICK s \in Relays : relay[s].pc = "dlq" /\ e \in relay[s].bad
      BY <2>1 DEF ExhaustedIsMoved, Exhausted
    <2> QED
      BY <2>1, <2>2
  <1>5. ASSUME relay' = relay, Exhausted(e) PROVE \E s \in Relays : relay'[s].pc = "dlq" /\ e \in relay'[s].bad
    BY <1>5 DEF ExhaustedIsMoved
  <1>6. ASSUME NEW f \in Events, Insert(f) PROVE relay' = relay /\ Exhausted(e)
    <2>1. outbox'[f].retries = outbox[f].retries /\ \A g \in Events \ {f} : outbox'[g] = outbox[g]
      BY <1>1, <1>6 DEF Insert, Row
    <2>2. e # f
      BY <1>6, <2>1 DEF Insert, Fresh, Exhausted
    <2> QED
      BY <1>6, <2>1, <2>2 DEF Insert, Exhausted
  <1>7. ASSUME NEW r \in Relays, Cleanup(r) PROVE relay' = relay /\ Exhausted(e)
    <2>1. outbox'[e] = outbox[e] \/ outbox'[e].status = "deleted"
      BY <1>1, <1>7 DEF Cleanup, Row
    <2> QED
      BY <1>7, <2>1 DEF Cleanup, Exhausted
  <1>8. ASSUME UNCHANGED <<outbox, relay>> PROVE relay' = relay /\ Exhausted(e)
    BY <1>8 DEF Exhausted
  <1> QED
    BY <1>1, <1>2, <1>3, <1>4, <1>5, <1>6, <1>7, <1>8
       DEF EventsNext, RelayStep, ConsumerStep, SendOrderCreated, RelayCrash, eventVars, relayVars

(* OutboxRelay: without a crash of the relay and without errors or unknown outcomes of
   its transactions every event that used up its attempts is moved to the dead-letter
   table, or a relay is about to; what Kafka does and how many relays there are does
   not matter. *)
THEOREM StrandedOnlyByRelayFaults ==
  {"crash", "db", "unsure"} \cap Faults = {} /\ EventsSpec => []ExhaustedIsMoved
  <1> SUFFICES ASSUME {"crash", "db", "unsure"} \cap Faults = {} PROVE EventsSpec => []ExhaustedIsMoved
    OBVIOUS
  <1>1. EventsInit => Fresh /\ ExhaustedIsMoved
    BY DEF EventsInit, RelayInit, Fresh, ExhaustedIsMoved, Exhausted
  <1>2. EventsInv /\ EventsInv' /\ Fresh /\ ExhaustedIsMoved /\ [EventsNext]_eventVars => ExhaustedIsMoved'
    BY MovedStep
  <1> QED
    BY <1>1, <1>2, FreshStep, EventsCorrect, PTL DEF EventsSpec

=============================================================================
