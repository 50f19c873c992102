CONSTANTS
  k1 = k1
  k2 = k2
  k3 = k3
  k4 = k4
  w1 = w1
  w2 = w2
  Clients <- MCClients
  Workers <- MCWorkers
  FdLimit = 6
  None = None
SPECIFICATION FiniteSessionsSpec
INVARIANTS
  TypeOK
  Conveyed
  OneWorkerEach
  DescriptorsAccounted
PROPERTIES
  EveryClientServed
CHECK_DEADLOCK FALSE
