---------------------------- MODULE OrderEvents ----------------------------
(***************************************************************************)
(* The way of an order_created event: outbox, relays, Kafka, consumer.     *)
(***************************************************************************)
EXTENDS Consumer

eventVars == <<relayVars, consumerVars>>

EventsTypeOK == RelayTypeOK /\ ConsumerTypeOK

EventsInit == RelayInit /\ ConsumerInit

RelayStep(r) ==
  \/ SelectBatch(r) /\ UNCHANGED consumerVars
  \/ Write(r) /\ UNCHANGED consumerVars
  \/ Record(r) /\ UNCHANGED consumerVars
  \/ MoveToDLQ(r) /\ UNCHANGED consumerVars

ConsumerStep ==
  \/ Process /\ UNCHANGED <<outbox, sending, dlq, topic, relay>>
  \/ CommitInbox /\ UNCHANGED <<outbox, sending, dlq, topic, relay>>
  \/ CommitMessages /\ UNCHANGED <<outbox, sending, dlq, topic, relay>>

EventsNext ==
  \/ \E e \in Events : \/ Insert(e) /\ UNCHANGED consumerVars
                       \/ SendOrderCreated(e) /\ UNCHANGED consumerVars
  \/ \E r \in Relays : \/ RelayStep(r)
                       \/ Cleanup(r) /\ UNCHANGED consumerVars
                       \/ RelayCrash(r) /\ UNCHANGED consumerVars
  \/ ConsumerStep
  \/ ConsumerRestart /\ UNCHANGED <<outbox, sending, dlq, topic, relay>>

EventsSpec == EventsInit /\ [][EventsNext]_eventVars

\* The relays' timers and the consumer's loop go on; trouble is bounded.
EventsFairness == /\ \A r \in Relays : WF_eventVars(RelayStep(r))
                  /\ WF_eventVars(ConsumerStep)

-----------------------------------------------------------------------------
InTopic(e) == \E i \in 1..Len(topic) : topic[i] = e

(* An event leaves the outbox only for Kafka or for the dead-letter table:
   after partial failures of a batch, crashes and errors of the recording
   transaction, what is marked published or deleted is in one of them. *)
NothingForgotten ==
  \A e \in Events : outbox[e].status \in {"published", "deleted"} => InTopic(e) \/ dlq[e] > 0

(* An event is given up once, after its last attempt, although two relays may
   reject it one after the other and both move what they rejected. *)
DeadOnce ==
  \A e \in Events : dlq[e] > 0 => /\ dlq[e] = 1
                                  /\ outbox[e] = [status |-> "deleted", retries |-> MaxRetries]

\* The event whose handler ran and whose row in the inbox is not committed yet.
opened == IF step = "inbox" THEN {topic[fetched]} \ inbox ELSE {}

\* The abstract delivery: published and deleted rows have left, the topic is a set.
Delivery == INSTANCE EventDelivery WITH
  place  <- [e \in Events |-> CASE outbox[e].status = "absent" -> "nowhere"
                                [] outbox[e].status = "waiting" -> "waiting"
                                [] OTHER -> "gone"],
  tries  <- [e \in Events |-> outbox[e].retries],
  held   <- {e \in Events : InTopic(e)},
  dead   <- dlq,
  effect <- effects,
  open <- opened,
  entered <- inbox

(* OutboxRelay and Consumer implement delivery in one piece: whatever batches two
   relays lock, whatever answers and commits are lost and whatever is sent and
   fetched again, every step is a step of EventDelivery or invisible to it.  So a
   handler runs only for what Kafka holds of a committed order, never again once its
   row is in the inbox, and before that again only when the run before was dropped. *)
ImplementsDelivery == Delivery!DeliverySpec

\* Nobody will send the event again, and the group is past all of its messages.
Over(e) == /\ outbox[e].status \in {"published", "deleted"} /\ e \notin sending
           /\ \A i \in 1..Len(topic) : topic[i] = e => i <= committed

(* mq_desync.md: after the outbox an event is certain to arrive.  When an event's way
   is over and it was not given up, its handler has run. *)
AtLeastOnce == \A e \in Events : Over(e) /\ dlq[e] = 0 => effects[e] > 0

(* consumer.go: the handler runs and the event is entered in one transaction, so that
   (mq_desync.md) outbox and inbox make exactly-once: no handler runs twice. *)
AtMostOnce == \A e \in Events : effects[e] <= 1

(* outbox_relay.go: an event that used up its attempts is moved to the
   dead-letter table, so it is not waiting unless a relay is about to. *)
ExhaustedIsMoved ==
  \A e \in Events : Exhausted(e) => \E r \in Relays : relay[r].pc = "dlq" /\ e \in relay[r].bad

(* An event written with its order reaches Kafka or the dead-letter table. *)
EventsArrive == \A e \in Events : outbox[e].status = "waiting" ~> InTopic(e) \/ dlq[e] > 0

(* An event Kafka holds is handled in the end. *)
EventsHandled == \A e \in Events : InTopic(e) ~> e \in inbox

=============================================================================
