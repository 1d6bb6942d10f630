SPECIFICATION PSpec
CONSTANTS
  Jobs = {1, 2, 3}
  Workers = {w1}
  Savers = {w1}
  MaxTries = 2
  Transcripts = {3}
  Targets <- MCTargets
  Hashes <- MCHashes
  TargetOf <- MCTargetOf
  Contents <- MCContents
INVARIANTS
  CommittedIsImmutable
CONSTRAINT AnyTwoJobs
CHECK_DEADLOCK FALSE
