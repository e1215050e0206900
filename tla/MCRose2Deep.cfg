SPECIFICATION Spec
CONSTANTS
  Depth = 3
  MaxIds = 5
  MaxKeys = 2
  MaxDeletes = 4
  MaxKills = 0
INVARIANTS LiveReturned FewDeletesHold Descends RangeIsSubtree SnIsLowest FreshChildren
