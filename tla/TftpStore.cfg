SPECIFICATION Spec
CONSTANTS
  Chars = {"CR", "LF", "NUL", "x"}
  BlockLen = 3
  Slack = 2
  MaxBlocks = 2
INVARIANTS
  GoodIsStored
CHECK_DEADLOCK FALSE
