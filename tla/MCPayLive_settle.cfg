CONSTANTS
  MaxDisturbances = 1
  Orders = {o1}
  Keys = {k1}
  None = None
  Executors = {e1}
  Refunders = {}
  Checkers = {c1}
  Jobs = {j1}
  MaxReconcile = 1
  MaxRefund = 1
  Faults = {}
  KeysExpire = FALSE
SPECIFICATION FairSpec
PROPERTIES PaymentsSettle StrayChargeReported
