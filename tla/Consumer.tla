------------------------------ MODULE Consumer ------------------------------
(***************************************************************************)
(* The consumer of product-service: fetch a message, enter it in the       *)
(* inbox, run its handler, commit the inbox transaction, commit the        *)
(* offset.  The handler is not part of the transaction: what it did stays  *)
(* done when the commit fails or never comes.  A fetch goes on from the    *)
(* previous one; only a restart goes back to the committed offset.  The    *)
(* relay writes well-formed payloads and the handler returns no error, so  *)
(* the branches for a message that cannot be decoded and for a handler     *)
(* that fails are left out.                                                *)
(***************************************************************************)
EXTENDS OutboxRelay

VARIABLES fetched,    \* offset of the last message fetched
          committed,  \* offset the group has committed
          step,       \* what the consumer does next
          inbox,      \* events entered in the inbox, and committed
          effects     \* event -> how often its handler ran

consumerVars == <<fetched, committed, step, inbox, effects>>

ConsumerTypeOK ==
  /\ fetched \in 0..Len(topic)
  /\ committed \in 0..fetched
  /\ step \in {"fetch", "inbox", "commit"}
  /\ inbox \subseteq Events
  /\ effects \in [Events -> Nat]

ConsumerInit ==
  /\ fetched = 0 /\ committed = 0 /\ step = "fetch"
  /\ inbox = {}
  /\ effects = [e \in Events |-> 0]

\* Mutant of FetchMessage: a message is handed out only when another one follows it.
FetchMessageWaits == fetched + 1 < Len(topic) /\ fetched' = fetched + 1

\* The next message after the last one fetched.
FetchMessage == fetched < Len(topic) /\ fetched' = fetched + 1

\* Mutant of handle: a duplicate is handled again.
handleAgain(e) == effects' = [effects EXCEPT ![e] = @ + 1]

\* INSERT ... ON CONFLICT DO NOTHING affects no row for a duplicate; else fn runs.
handle(e) == effects' = IF e \in inbox THEN effects ELSE [effects EXCEPT ![e] = @ + 1]

(* The loop fetches a message and calls processWithInbox, up to its commit: until
   the INSERT nobody else can tell that the message was fetched.  After an error of
   BeginTx or of the INSERT the loop goes on to the next message. *)
Process ==
  /\ step = "fetch" /\ FetchMessage
  /\ \/ calm /\ handle(topic[fetched']) /\ step' = "inbox"
     \/ Trouble("inbox") /\ UNCHANGED <<effects, step>>
  /\ UNCHANGED <<committed, inbox>>

(* tx.Commit of processWithInbox; a duplicate's row is there already.  After an
   error, with the row or without it, the loop goes on to the next message. *)
CommitInbox ==
  /\ step = "inbox"
  /\ \/ calm /\ inbox' = inbox \cup {topic[fetched]} /\ step' = "commit"
     \/ Trouble("unsure") /\ inbox' = inbox \cup {topic[fetched]} /\ step' = "fetch"
     \/ Trouble("inbox") /\ UNCHANGED inbox /\ step' = "fetch"
  /\ UNCHANGED <<fetched, committed, effects>>

\* CommitMessages; a failure is only logged.
CommitMessages ==
  /\ step = "commit"
  /\ \/ calm /\ committed' = fetched
     \/ Trouble("kafka") /\ UNCHANGED committed
  /\ step' = "fetch"
  /\ UNCHANGED <<fetched, inbox, effects>>

(* The consumer dies and its open transaction is rolled back; when its partition is
   given to another the transaction has ended before. *)
ConsumerRestart ==
  /\ Trouble("restart")
  /\ fetched' = committed
  /\ step' = "fetch"
  /\ UNCHANGED <<committed, inbox, effects>>

=============================================================================
