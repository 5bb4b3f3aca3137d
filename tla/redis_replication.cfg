SPECIFICATION Spec
CONSTANTS
  r1 = r1 r2 = r2 r3 = r3
  Server = {r1, r2, r3}
  None = None
  Host0 <- MCHost0
  BacklogSize = 2
  MaxWrites = 2
  MaxIds = 6
  MaxOps = 2
CHECK_DEADLOCK FALSE
INVARIANTS SameHistorySameData WritesInTheirDb
