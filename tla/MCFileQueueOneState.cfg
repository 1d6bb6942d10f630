SPECIFICATION Spec
CONSTANTS
  Ids = {1, 2}
  Procs = {p1, p2}
  WorkerNames <- MCWorkerNames
  WorkerId <- MCWorkerId
  Lease = 2
  MaxAttempts = 2
  BackoffBase = 1
  BackoffCap = 1
  MaxLag = 1
INVARIANTS
  OneStatePerRecord
SYMMETRY WorkersAreAlike
CHECK_DEADLOCK FALSE
