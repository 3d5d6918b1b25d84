CONSTANTS
  Orders = {o1}
  Keys = {k1, k2}
  None = None
  Executors = {e1}
  Refunders = {}
  Checkers = {c1}
  Jobs = {}
  MaxReconcile = 1
  MaxRefund = 1
  Faults = {"crash", "db", "lost", "down"}
  KeysExpire = TRUE
SPECIFICATION Spec
SYMMETRY Symmetry
CHECK_DEADLOCK FALSE
INVARIANTS PendingHoldsOrder OneActivePayment DoubleChargeOnlyAfterExpiry AuditTrail
