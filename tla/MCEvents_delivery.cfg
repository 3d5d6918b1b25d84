CONSTANTS
  Events = {v1, v2}
  Relays = {r1, r2}
  MaxRetries = 2
  MaxTrouble = 2
  Faults = {"kafka", "poison", "lost", "unsure", "db", "crash", "inbox", "restart"}
SPECIFICATION EventsSpec
INVARIANTS NothingForgotten DeadOnce
PROPERTIES ImplementsDelivery
SYMMETRY Symmetry
CHECK_DEADLOCK FALSE
