CONSTANTS
  Events = {v1}
  Relays = {r1}
  MaxRetries = 1
  MaxTrouble = 1
  Faults = {"poison", "crash"}
SPECIFICATION EventsSpec
INVARIANTS ExhaustedIsMoved
CHECK_DEADLOCK FALSE
