CONSTANTS
  c1 = c1
  c2 = c2
  t1 = t1
  t2 = t2
  p1 = p1
  p2 = p2
  p3 = p3
  Connections <- MCConnections
  Threads <- MCThreads
  Proxies <- MCProxies
  Habits = {}
  ConnectResults = {"true", "false", "throws"}
  ReportsHealth = FALSE
  None = None
  Dead = Dead
SPECIFICATION Spec
INVARIANTS
  ExclusiveLease
  LeaseIsValid
  LoopsSpareLeased
PROPERTIES
  LeaseSpec
