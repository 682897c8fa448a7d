SPECIFICATION Spec
CONSTANTS
  Handlers = {1, 2}
  NoHandler = 0
  Blocks = 3
  BlockMod = 2
  MAX_TIMEOUTS = 2
INVARIANTS
  BlocksGenuine
  InStep
  
CHECK_DEADLOCK FALSE
