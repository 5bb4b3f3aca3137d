SPECIFICATION Spec
CONSTANTS
  s1 = s1 s2 = s2 first = first able = able barred = barred
  Sentinel = {s1, s2}
  Instance = {first, able, barred}
  FirstMaster = first
  Quorum = 2
  ParallelSyncs = 1
  Priority <- MCPriority
  Offset <- MCOffset
  None = None
  MaxEpoch = 1
  MaxFaults = 1
SYMMETRY Symmetry
CHECK_DEADLOCK FALSE
INVARIANTS OneVotePerEpoch
PROPERTIES AddressFollowsEpoch
