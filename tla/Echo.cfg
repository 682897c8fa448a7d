SPECIFICATION FairSpec
CONSTANTS
  MaxLen = 7
  Inputs <- Texts
  BufSize = 4
  HBufSize = 2
  Cap = 2
INVARIANTS
  Conserved
PROPERTIES
  EveryLineEchoed
CHECK_DEADLOCK FALSE
