SPECIFICATION Spec
CONSTANTS
  Depth = 3
  MaxIds = 3
  MaxKeys = 2
  MaxDeletes = 2
  MaxKills = 0
INVARIANTS LiveReturnedAfterAll
