SPECIFICATION Spec
CONSTANTS
  k1 = k1
  k2 = k2
  Keyword = {k1, k2}
  MaxThreads = 2
  MaxBatch = 3
  MaxMade = 3
  MaxFaults = 1
SYMMETRY Keywords
INVARIANTS TypeOK NoGap NothingLost ProofMatches
PROPERTY SavedIsFinal
