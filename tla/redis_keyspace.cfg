SPECIFICATION Spec
CONSTANTS
  k1 = k1 k2 = k2 k3 = k3 k4 = k4
  Db = {0, 1}
  Key = {k1, k2, k3, k4}
  None = None
  WeightKey <- MCWeightKey
  Theme <- MCTheme
  Commands <- MCCommands
  MaxClock = 2
  MaxList = 3
  FloatsOnVolatile = FALSE
INVARIANTS ReplicaAgrees AofAgrees CommandsSignal RepliesRight
CHECK_DEADLOCK FALSE
