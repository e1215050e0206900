SPECIFICATION Spec
CONSTANTS
  Depth = 2
  MaxIds = 4
  MaxKeys = 3
  MaxDeletes = 2
  MaxKills = 1
INVARIANTS TypeOK LiveReturned ExactWithoutDeletes
