SPECIFICATION Spec
CONSTANTS
  g1 = g1
  Goods = {g1}
  GoodsIds = {g1, g2}
  Views = {v1, v2}
  StartDate <- Starts
  EndDate <- Ends
  PerSecond = 2
  Lifetime = 1
  MaxTime = 10
  None = None
SYMMETRY Symmetry
INVARIANTS
  ButtonNotEarly
PROPERTIES
  EndedIsTold
CHECK_DEADLOCK FALSE
