SPECIFICATION FairSpec
CONSTANTS
  MaxBlocks = 4
  BlockMod = 3
  MAX_TIMEOUTS = 3
INVARIANTS
  InOrder
  InStep
  DoneIsComplete
  FinishedIsDelivered
PROPERTY SilentClientLeft
CHECK_DEADLOCK FALSE
