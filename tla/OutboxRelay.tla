----------------------------- MODULE OutboxRelay -----------------------------
(***************************************************************************)
(* order_created events on the side of order-service.  The transaction of  *)
(* a new order writes its event to the outbox, and OrderService still      *)
(* sends the event itself after the commit.  OutboxRelay on every replica  *)
(* locks a batch of unpublished rows, writes them to Kafka, records which  *)
(* were accepted and moves those rejected too often to the dead-letter     *)
(* table.  An order writes one row, so an event is named by its order.     *)
(* The topic is one partition's log.                                       *)
(***************************************************************************)
EXTENDS Naturals, Sequences

CONSTANTS Events, Relays,
          MaxRetries,   \* rejections after which an event is given up
          Faults,       \* the kinds of trouble a behaviour may meet
          MaxTrouble    \* bound on how much of it

(* "kafka": the broker is unavailable for a write or a commit; "poison": the
   broker rejects a message for good; "lost": Kafka takes a message and its
   answer is lost; "unsure": a commit goes through and its caller sees an
   error; "db", "crash": the relay's database call fails, the relay dies;
   "inbox", "restart": the same for the consumer. *)
TroubleKinds == {"kafka", "poison", "lost", "unsure", "db", "crash", "inbox", "restart"}

ASSUME RelayAssumption == /\ MaxRetries \in Nat \ {0}
                          /\ MaxTrouble \in Nat
                          /\ Faults \subseteq TroubleKinds

VARIABLES outbox,   \* event -> its row
          sending,  \* events whose request has still to send them itself
          dlq,      \* event -> rows in outbox_dlq
          topic,    \* the messages Kafka holds
          relay,    \* relay -> what its batch has come to
          trouble   \* trouble met so far

relayVars == <<outbox, sending, dlq, topic, relay, trouble>>

Row == [status : {"absent", "waiting", "published", "deleted"}, retries : 0..MaxRetries]

\* todo: messages not yet answered; ok, bad: accepted and rejected ones.
Batch == [pc : {"idle", "write", "dlq"}, locked : SUBSET Events, todo : SUBSET Events,
          ok : SUBSET Events, bad : SUBSET Events]

NoBatch == [pc |-> "idle", locked |-> {}, todo |-> {}, ok |-> {}, bad |-> {}]

RelayTypeOK ==
  /\ outbox \in [Events -> Row]
  /\ sending \subseteq Events
  /\ dlq \in [Events -> Nat]
  /\ topic \in Seq(Events)
  /\ relay \in [Relays -> Batch]
  /\ trouble \in 0..MaxTrouble

RelayInit ==
  /\ outbox = [e \in Events |-> [status |-> "absent", retries |-> 0]]
  /\ sending = {}
  /\ dlq = [e \in Events |-> 0]
  /\ topic = << >>
  /\ relay = [r \in Relays |-> NoBatch]
  /\ trouble = 0

calm == UNCHANGED trouble

Trouble(kind) ==
  /\ kind \in Faults /\ trouble < MaxTrouble
  /\ trouble' = trouble + 1

-----------------------------------------------------------------------------
(* OutboxRepo.Insert, committed with the order.  A request that does not
   learn of the commit is answered with an error and sends nothing. *)
Insert(e) ==
  /\ outbox[e].status = "absent"
  /\ outbox' = [outbox EXCEPT ![e].status = "waiting"]
  /\ \/ calm /\ sending' = sending \cup {e}
     \/ Trouble("unsure") /\ UNCHANGED sending
  /\ UNCHANGED <<dlq, topic, relay>>

\* After the commit the request sends the event too; a failure is only logged.
SendOrderCreated(e) ==
  /\ e \in sending
  /\ sending' = sending \ {e}
  /\ \/ calm /\ topic' = Append(topic, e)
     \/ calm /\ "poison" \in Faults /\ UNCHANGED topic
     \/ (Trouble("kafka") \/ Trouble("crash")) /\ UNCHANGED topic
  /\ UNCHANGED <<outbox, dlq, relay>>

Locked == UNION {relay[r].locked : r \in Relays}

\* The limit may leave rows out; rows of other relays are skipped.
SelectBatch(r) ==
  /\ relay[r].pc = "idle"
  /\ \E S \in SUBSET {e \in Events \ Locked : outbox[e].status = "waiting"
                                              /\ outbox[e].retries < MaxRetries} :
       /\ S # {}
       /\ relay' = [relay EXCEPT ![r] = [NoBatch EXCEPT !.pc = "write", !.locked = S, !.todo = S]]
  /\ UNCHANGED <<outbox, sending, dlq, topic, trouble>>

(* WriteMessages, one message at a time: accepted, rejected for good, or left
   with a temporary error, after which Kafka may hold the message or not. *)
Write(r) ==
  /\ relay[r].pc = "write"
  /\ \E e \in relay[r].todo :
       LET answer(ok, bad) == relay' = [relay EXCEPT ![r] =
             [relay[r] EXCEPT !.todo = @ \ {e}, !.ok = @ \cup ok, !.bad = @ \cup bad]]
       IN \/ calm /\ topic' = Append(topic, e) /\ answer({e}, {})
          \/ calm /\ "poison" \in Faults /\ UNCHANGED topic /\ answer({}, {e})
          \/ Trouble("lost") /\ topic' = Append(topic, e) /\ answer({}, {})
          \/ Trouble("kafka") /\ UNCHANGED topic /\ answer({}, {})
  /\ UNCHANGED <<outbox, sending, dlq>>

\* Mutant of recordBatch: the whole batch counts as published.
recordBatchAll(b) ==
  outbox' = [e \in Events |-> IF e \in b.locked THEN [outbox[e] EXCEPT !.status = "published"]
                              ELSE outbox[e]]

\* Published rows are marked, rejected ones counted; the others stay as they are.
recordBatch(b) ==
  outbox' = [e \in Events |-> IF e \in b.ok THEN [outbox[e] EXCEPT !.status = "published"]
                              ELSE IF e \in b.bad THEN [outbox[e] EXCEPT !.retries = @ + 1]
                              ELSE outbox[e]]

(* The batch's transaction ends: committed and, if some were rejected, followed
   by moveToDLQ; rolled back when nothing was decided or the database fails. *)
Record(r) ==
  LET b == relay[r]
      leave == relay' = [relay EXCEPT ![r] = NoBatch]
  IN /\ b.pc = "write" /\ b.todo = {}
     /\ \/ /\ calm /\ b.ok \cup b.bad # {}
           /\ recordBatch(b)
           /\ relay' = [relay EXCEPT ![r] =
                IF b.bad = {} THEN NoBatch ELSE [NoBatch EXCEPT !.pc = "dlq", !.bad = b.bad]]
        \/ Trouble("unsure") /\ b.ok \cup b.bad # {} /\ recordBatch(b) /\ leave
        \/ Trouble("db") /\ UNCHANGED outbox /\ leave
        \/ calm /\ b.ok \cup b.bad = {} /\ UNCHANGED outbox /\ leave
     /\ UNCHANGED <<sending, dlq, topic>>

\* Mutant of Exhausted: one attempt too many is waited for.
ExhaustedLater(e) == outbox[e].status = "waiting" /\ outbox[e].retries > MaxRetries

\* retry_count reached its maximum.
Exhausted(e) == outbox[e].status = "waiting" /\ outbox[e].retries = MaxRetries

\* Mutant of moveRows: the rows are copied and stay in the outbox.
moveRowsCopy(S) ==
  /\ dlq' = [e \in Events |-> IF e \in S THEN dlq[e] + 1 ELSE dlq[e]]
  /\ UNCHANGED outbox

\* Out of the outbox and into the dead-letter table, in one statement.
moveRows(S) ==
  /\ dlq' = [e \in Events |-> IF e \in S THEN dlq[e] + 1 ELSE dlq[e]]
  /\ outbox' = [e \in Events |-> IF e \in S THEN [outbox[e] EXCEPT !.status = "deleted"]
                                 ELSE outbox[e]]

\* moveToDLQ for the rejected rows that used up their attempts; an error is only logged.
MoveToDLQ(r) ==
  /\ relay[r].pc = "dlq"
  /\ \/ calm /\ moveRows({e \in relay[r].bad : Exhausted(e)})
     \/ Trouble("db") /\ UNCHANGED <<outbox, dlq>>
  /\ relay' = [relay EXCEPT ![r] = NoBatch]
  /\ UNCHANGED <<sending, topic>>

\* cleanup deletes rows that were published long ago.
Cleanup(r) ==
  /\ relay[r].pc = "idle"
  /\ \E S \in SUBSET {e \in Events : outbox[e].status = "published"} :
       /\ S # {}
       /\ outbox' = [e \in Events |-> IF e \in S THEN [outbox[e] EXCEPT !.status = "deleted"]
                                      ELSE outbox[e]]
  /\ UNCHANGED <<sending, dlq, topic, relay, trouble>>

\* The relay dies; its transaction is rolled back and its locks are gone.
RelayCrash(r) ==
  /\ relay[r].pc # "idle"
  /\ Trouble("crash")
  /\ relay' = [relay EXCEPT ![r] = NoBatch]
  /\ UNCHANGED <<outbox, sending, dlq, topic>>

=============================================================================
