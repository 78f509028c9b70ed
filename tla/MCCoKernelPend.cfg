SPECIFICATION Spec
CONSTANTS
  Idle = Idle
  H = H
  L = L
  M = M
  s1 = s1
  s2 = s2
  INVALID = INVALID
  Tasks <- MCTasks
  Prio <- MCPrio
  TimeSlice = 1
  Sems <- MCSems
  Sort <- MCSort
  InitCnt <- MCInit
  MaxCnt <- MCMax
  Loads <- PendLoads
  CFG_MAX_SERVICE_REQUEST = 2
  NullPrio = 0
INVARIANT WaitsOnlyWhenEmpty
