SPECIFICATION FairSpec
CONSTANTS
  BLOCK_BUFFER_SIZE = 3
  MaxBlocks = 3
  Deltas <- MCDeltas
  NULL = NULL
INVARIANTS FifoExactlyOnce NoOverwrite SettledPosition
PROPERTY EveryBlockExecuted
CHECK_DEADLOCK FALSE
