SPECIFICATION FairSpec
CONSTANTS
  CFG_MAX_TMR = 2
  Counts <- MCCounts
  Careful = TRUE
  TicksPerLock = 1
  MaxCalls = 6
INVARIANTS RunningLinked NeverEarly
PROPERTY TimersFire

