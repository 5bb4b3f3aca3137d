SPECIFICATION Spec
CONSTANTS
  Threads = {t1, t2}
  Sessions = {s1}
  Expire = 2
  InMemoryTimeout = 2
  MaxTime = 4
  MaxSaves = 3
  MaxFaults = 1
  None = None
INVARIANTS
  LifetimeSet
PROPERTIES
  ReadFresh
  DeletedStays
CHECK_DEADLOCK FALSE
