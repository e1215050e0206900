SPECIFICATION Spec
CONSTANTS
  Key = {1, 2, 3, 4, 5, 6, 7}
  a = a
  b = b
  Value = {a, b}
  None = None
  Geometry <- MCGeometry
INVARIANTS TypeOK NeverLost Placed Balanced
PROPERTIES NothingDropped MapSpec
