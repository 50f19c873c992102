CONSTANTS
  s1 = s1
  s2 = s2
  v1 = v1
  Servers <- MCServers
  Kinds <- MCKinds
  Pipelines <- MCPipelines
  Services <- MCServices
  MaxFd = 3
  MaxCalls = 2
  MaxStarts = 2
  None = None
SYMMETRY Symmetry
SPECIFICATION Spec
INVARIANTS
  TypeOK
  RoutineOfStart
  BalancerReady
  AcceptsOnItsOwn
CHECK_DEADLOCK FALSE
