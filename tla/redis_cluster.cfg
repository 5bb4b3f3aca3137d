SPECIFICATION Spec
CONSTANTS
  ma = ma mb = mb mc = mc s1 = s1 s2 = s2
  Node = {ma, mb, mc, s1, s2}
  Slot = {1, 2, 3}
  Owner <- ThreeOwner
  MasterOf <- PairMasterOf
  ConfigEpoch <- PairConfigEpoch
  Id <- MCId
  None = None
  MaxEpoch = 4
  Cost <- PairCost
  MaxOps = 5
  MaxUpdates = 1
  Operated = {s1, mb}
  Links <- PairLinks
CHECK_DEADLOCK FALSE
INVARIANTS OwnersDistinct FileEpochCovers OneVotePerEpoch
PROPERTIES SlotEpochsGrow ElectedByMajority
