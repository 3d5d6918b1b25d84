CONSTANTS
  Events = {v1, v2}
  Relays = {r1}
  MaxRetries = 1
  MaxTrouble = 2
  Faults = {"kafka", "poison", "lost", "restart"}
  Callers = {c1, c2, c3, c4}
  Threshold = 3
  p1 = p1
  p2 = p2
  rd1 = rd1
  rd2 = rd2
  w1 = w1
  w2 = w2
  Pods = {p1, p2}
  Readers = {rd1, rd2}
  Writers = {w1, w2}
  PodOf <- MCPodOf
  Cancelling = {w2}
  NoPod = NoPod
  L1TTL = 1
  L2TTL = 1
  LeaderLimit = 1
  RedisFails = TRUE
  MaxId = 4
  PageSizes = {0, 1, 9}
  DefaultLimit = 2
  MaxLimit = 3
  Requests = {q1, q2}
  Workers = {k1}
  Drain = 2
  Spread = 1
  RequestLimit = 4
  ShutdownWait = 4
  Grace = 7
  MaxOutages = 1
SPECIFICATION PartsSpec
INVARIANTS ProbeUnderWay OneProbe StalenessBounded FlightsAreFresh
  ListingComplete RequestsKept SchemaBeforeTraffic
PROPERTIES EventsArrive EventsHandled OpensAfterRow BackInService
CHECK_DEADLOCK FALSE
