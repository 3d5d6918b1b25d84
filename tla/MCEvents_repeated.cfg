CONSTANTS
  Events = {v1}
  Relays = {r1}
  MaxRetries = 1
  MaxTrouble = 1
  Faults = {"restart"}
SPECIFICATION EventsSpec
INVARIANTS AtMostOnce
CHECK_DEADLOCK FALSE
