SPECIFICATION Spec
CONSTANTS
  BLOCK_BUFFER_SIZE = 3
  MaxBlocks = 2
  Deltas <- MCDeltas
  NULL = NULL
INVARIANT NewestBlockExists
CHECK_DEADLOCK FALSE
