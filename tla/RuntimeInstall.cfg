SPECIFICATION Spec
CONSTANTS
  Releases = {c1, c2}
  None = None
  MaxFaults = 3
  MaxInstalls = 3
INVARIANTS
  ActiveReceiptHolds
PROPERTIES
  RollbackRestores
  PriorWorkerReturns
CHECK_DEADLOCK FALSE
