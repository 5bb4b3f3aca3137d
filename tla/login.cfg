SPECIFICATION FairSpec
CONSTANTS
  n1 = n1
  n2 = n2
  t1 = t1
  t2 = t2
  t3 = t3
  Nodes = {n1, n2}
  Threads = {t1, t2, t3}
  NodeOf <- TwoNodes
  Mobiles = {u1, x1}
  Users = {u1}
  FalsePositives = {x1}
  MaxRequests = 3
  MaxFaults = 1
  MaxCrashes = 1
  None = None
INVARIANTS
  TypeOK
  SessionComplete
  ContextIsOwn
  LoadedOnce
PROPERTIES
  RequestsEnd
CHECK_DEADLOCK FALSE
