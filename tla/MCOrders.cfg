CONSTANTS
  c1 = c1
  c2 = c2
  c3 = c3
  a = a
  b = b
  k1 = k1
  Creators = {c1, c2, c3}
  Cancels = {y1, y2}
  Replicas = {a, b}
  Keys = {k1}
  NoKey = NoKey
  None = None
  Products = {1, 2}
  Stock0 <- MCStock
  Asks <- MCAsks
  MaxAttempts = 1
  OrderFaults = {"db", "unsure", "deadline", "crash"}
SPECIFICATION OrdersFairSpec
INVARIANTS OneOrderPerKey AnswersAgree StockConserved CreationsNeverCircle
PROPERTIES ImplementsAtomic RequestsEnd
CHECK_DEADLOCK FALSE
