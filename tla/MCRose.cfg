SPECIFICATION Spec
CONSTANTS
  Ids = {1, 2}
  MaxUpdates = 3
  MaxSearches = 3
  MaxFaults = 2
  Truncates = TRUE
INVARIANTS TypeOK   TokensFollowKeys
CHECK_DEADLOCK FALSE
