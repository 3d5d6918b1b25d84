CONSTANTS
  Events = {v1, v2}
  Relays = {r1}
  MaxRetries = 1
  MaxTrouble = 2
  Faults = {"kafka", "inbox"}
SPECIFICATION EventsSpec
INVARIANTS AtLeastOnce
CHECK_DEADLOCK FALSE
