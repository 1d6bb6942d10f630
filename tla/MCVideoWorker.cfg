SPECIFICATION WSpec
CONSTANTS
  Ids = {1, 2}
  Procs = {service, byhand}
  Once = {byhand}
  WorkerNames <- MCWorkerNames
  WorkerId <- MCWorkerId
  Lease = 5
  MaxAttempts = 2
  BackoffBase = 1
  BackoffCap = 1
  MaxLag = 1
  MaxFaults = 2
INVARIANTS
  OneWorkerExecutes
  BeatKeepsLease
  ExecutionsBounded
PROPERTIES
  EventuallySettled
