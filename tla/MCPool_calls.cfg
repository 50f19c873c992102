CONSTANTS
  c1 = c1
  c2 = c2
  t1 = t1
  t2 = t2
  p1 = p1
  p2 = p2
  p3 = p3
  Connections <- MCConnections
  Threads <- MCThreads
  Proxies <- MCProxies
  Habits = {"explicit_release"}
  ConnectResults = {"true", "false", "throws"}
  ReportsHealth = TRUE
  None = None
  Dead = Dead
SPECIFICATION FairSpec
INVARIANTS
  TypeOK
  Conserved
  BusyForAReason
PROPERTIES
  NoneMissed
  CallsReturn
