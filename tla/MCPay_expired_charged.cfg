CONSTANTS
  Orders = {o1}
  Keys = {k1}
  None = None
  Executors = {e1}
  Refunders = {}
  Checkers = {c1}
  Jobs = {}
  MaxReconcile = 1
  MaxRefund = 1
  Faults = {"crash"}
  KeysExpire = FALSE
SPECIFICATION Spec
CHECK_DEADLOCK FALSE
INVARIANTS ExpiredNeverCharged
