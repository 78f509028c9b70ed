SPECIFICATION FairSpec
CONSTANTS
  H = H
  M = M
  L = L
  NONE = NONE
  Tasks = {H, M, L}
  Prio <- MCPrio
  Casts <- MCCasts
INVARIANTS MutualExclusion WaitersQueued NoInversion NeverDemoted
PROPERTY EveryWaiterEnters
CHECK_DEADLOCK FALSE
