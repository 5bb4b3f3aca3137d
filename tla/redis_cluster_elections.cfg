SPECIFICATION Spec
CONSTANTS
  ma = ma mb = mb mc = mc s1 = s1 s2 = s2
  Node = {ma, mb, mc, s1, s2}
  Slot = {1, 2, 3}
  Owner <- ThreeOwner
  MasterOf <- ThreeMasterOf
  ConfigEpoch <- ThreeConfigEpoch
  Id <- MCId
  None = None
  MaxEpoch = 4
  Cost <- OnlyElections
  MaxOps = 2
  MaxUpdates = 0
  Operated = {}
  Links <- AllLinks
CHECK_DEADLOCK FALSE
INVARIANT ElectionSafety
