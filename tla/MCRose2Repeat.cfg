SPECIFICATION Spec
CONSTANTS
  Depth = 2
  MaxIds = 1
  MaxKeys = 3
  MaxDeletes = 0
  MaxKills = 0
INVARIANTS SearchRepeats
