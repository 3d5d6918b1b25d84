CONSTANTS
  e1 = e1
  e2 = e2
  c1 = c1
  w1 = w1
  j1 = j1
  Orders = {o1}
  Keys = {k1}
  None = None
  Executors = {e1, e2}
  Refunders = {w1}
  Checkers = {c1}
  Jobs = {j1}
  MaxReconcile = 2
  MaxRefund = 1
  Faults = {"crash", "db", "lost", "down"}
  KeysExpire = TRUE
SPECIFICATION CastSpec
INVARIANTS AnswersTrue PaidIsBacked RefundRecordTrue SettledAsProvider FixedIsSettled
  MoneyInv ClassifyAgrees
PROPERTIES AnswerStays
