SPECIFICATION PSpec
CONSTANTS
  Jobs = {1, 2, 3}
  Workers = {w1, w2}
  Savers = {w1, w2}
  MaxTries = 2
  Transcripts = {3}
  Targets <- MCTargets
  Hashes <- MCHashes
  TargetOf <- MCTargetOf
  Contents <- MCContents
INVARIANTS
  FinalizedIsStored
  MemoryMatchesStore
  DoneMeansCommitted
PROPERTIES
  WriteOnce
SYMMETRY WorkersAreAlike
CONSTRAINT AnyTwoJobs
CHECK_DEADLOCK FALSE
