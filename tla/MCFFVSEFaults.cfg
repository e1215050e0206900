SPECIFICATION FaultySpec
CONSTANTS
  Keyword = {w1}
  Id = {d1, d2}
  w1 = w1
  d1 = d1
  d2 = d2
  None = None
  NoSt = 0
  St <- Concat
  MaxC1 = 3
  MaxC2 = 2
  MaxFaults = 1
  MaxUpdates = 4
SYMMETRY Documents
INVARIANTS AcceptedIsAttached AcceptedIsClaimed
