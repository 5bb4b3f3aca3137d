SPECIFICATION Spec
CONSTANTS
  k1 = k1 k2 = k2 c1 = c1 c2 = c2 c3 = c3 ch = ch pt = pt echo = echo draw = draw late = late
  Db = {0, 1}
  Key = {k1, k2}
  None = None
  WeightKey = WeightKey
  Channel = {ch}
  Matches <- MCMatches
  Script = {echo, draw, late}
  Body <- MCBody
  ScriptCacheSize = 1
  Theme <- MCTheme
  Setup <- MCSetup
INVARIANTS WatchHolds NoLostWakeup OneReply StreamAgrees FileAgrees Durable
CHECK_DEADLOCK FALSE
