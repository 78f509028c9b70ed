SPECIFICATION Spec
CONSTANTS
  BLOCK_BUFFER_SIZE = 4
  Nominals = {4, 9}
  Reaches = {2, 10}
  Corners = {0, 5}
  Minimum = 0
  WaitNominal = 2
  WaitReach = 20
INVARIANTS PlanIsFastest TrapezoidsJoin FactorsInRange
