CONSTANTS
  Orders = {o1}
  Keys = {k1, k2}
  None = None
  Executors = {e1}
  Refunders = {w1, w2}
  Checkers = {}
  Jobs = {}
  MaxReconcile = 1
  MaxRefund = 2
  Faults = {"crash", "db", "lost", "down"}
  KeysExpire = FALSE
SPECIFICATION Spec
SYMMETRY Symmetry
CHECK_DEADLOCK FALSE
INVARIANTS NoLostRefund RefundsAreOwed StockReturnedOnce
PROPERTIES SettledStays ImplementsLedger
