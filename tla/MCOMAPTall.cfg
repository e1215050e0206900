SPECIFICATION FillSpec
CONSTANTS
  Key = {1, 2, 3, 4, 5, 6, 7, 8, 9, 10, 11, 12}
  Value = {a}
  None = None
  Geometry <- MCGeometry
INVARIANT CapacitySuffices
CHECK_DEADLOCK FALSE
