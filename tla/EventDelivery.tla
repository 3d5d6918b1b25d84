---------------------------- MODULE EventDelivery ----------------------------
(***************************************************************************)
(* What the way of an event promises, without batches, locks, offsets,     *)
(* crashes or duplicates: an event waits until Kafka holds it or until it  *)
(* was rejected MaxRetries times and leaves for one of the two reasons,    *)
(* once.  What Kafka holds is handled until a run of its handler is        *)
(* entered, never after that, and again only when the run before was       *)
(* dropped.                                                                *)
(***************************************************************************)
EXTENDS Naturals

CONSTANTS Events, MaxRetries

VARIABLES place,   \* event -> "nowhere" before its order, then "waiting", then "gone"
          tries,   \* event -> rejections counted
          held,    \* events Kafka holds
          dead,    \* event -> how often it was given up
          effect,  \* event -> how often its handler ran
          open,    \* the event that was handled last, while that is not entered
          entered  \* events known to be handled

deliveryVars == <<place, tries, held, dead, effect, open, entered>>

DeliveryInit ==
  /\ place = [e \in Events |-> "nowhere"]
  /\ tries = [e \in Events |-> 0]
  /\ held = {}
  /\ dead = [e \in Events |-> 0]
  /\ effect = [e \in Events |-> 0]
  /\ open = {} /\ entered = {}

Leave(S) == place' = [e \in Events |-> IF e \in S THEN "gone" ELSE place[e]]

\* The event's order is committed.
Make(e) ==
  /\ place[e] = "nowhere"
  /\ place' = [place EXCEPT ![e] = "waiting"]
  /\ UNCHANGED <<tries, held, dead, effect, open, entered>>

Hold(e) ==
  /\ place[e] # "nowhere"
  /\ held' = held \cup {e}
  /\ UNCHANGED <<place, tries, dead, effect, open, entered>>

\* The events of ok are known to be held; those of bad were rejected once more.
Count(ok, bad) ==
  /\ ok \subseteq held /\ ok \cap bad = {}
  /\ \A e \in ok \cup bad : place[e] = "waiting" /\ tries[e] < MaxRetries
  /\ Leave(ok)
  /\ tries' = [e \in Events |-> IF e \in bad THEN tries[e] + 1 ELSE tries[e]]
  /\ UNCHANGED <<held, dead, effect, open, entered>>

GiveUp(S) ==
  /\ \A e \in S : place[e] = "waiting" /\ tries[e] = MaxRetries
  /\ Leave(S)
  /\ dead' = [e \in Events |-> IF e \in S THEN 1 ELSE dead[e]]
  /\ UNCHANGED <<tries, held, effect, open, entered>>

Handle(e) ==
  /\ open = {} /\ e \in held \ entered
  /\ effect' = [effect EXCEPT ![e] = @ + 1]
  /\ open' = {e}
  /\ UNCHANGED <<place, tries, held, dead, entered>>

Enter(e) ==
  /\ e \in open
  /\ entered' = entered \cup {e}
  /\ open' = {}
  /\ UNCHANGED <<place, tries, held, dead, effect>>

\* Nobody will know that the handler ran.
Drop ==
  /\ open # {} /\ open' = {}
  /\ UNCHANGED <<place, tries, held, dead, effect, entered>>

DeliveryNext ==
  \/ \E e \in Events : Make(e) \/ Hold(e) \/ Handle(e) \/ Enter(e)
  \/ \E S \in SUBSET Events : GiveUp(S)
  \/ \E ok, bad \in SUBSET Events : Count(ok, bad)
  \/ Drop

DeliverySpec == DeliveryInit /\ [][DeliveryNext]_deliveryVars

=============================================================================
