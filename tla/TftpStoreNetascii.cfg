SPECIFICATION Spec
CONSTANTS
  Chars = {"CR", "LF"}
  BlockLen = 6
  Slack = 4
  MaxBlocks = 3
INVARIANT StoredIsSent
CHECK_DEADLOCK FALSE
