SPECIFICATION Spec
CONSTANTS
  g1 = g1
  g2 = g2
  Nodes = {n1, n2}
  Users = {u1, u2}
  Goods = {g1}
  GoodsIds = {g1, g2}
  Requests = {r1, r2}
  InitStock <- TwoUnits
  ConsumerRuns = TRUE
  Copies = {c1}
  MaxReconsume = 1
  MaxBoots = 2
  MaxFaults = 2
  None = None
INVARIANTS
  TypeOK
  NoOversell
  SeckillOrderBacked
  RepeatMeansOrdered
  UnitsAccounted
CHECK_DEADLOCK FALSE
