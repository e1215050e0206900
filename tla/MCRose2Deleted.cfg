SPECIFICATION Spec
CONSTANTS
  Depth = 2
  MaxIds = 2
  MaxKeys = 2
  MaxDeletes = 1
  MaxKills = 0
INVARIANTS DeletedNotReturned
