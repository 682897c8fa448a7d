SPECIFICATION FairChatSpec
CONSTANTS
  h1 = h1
  h2 = h2
  Handlers <- Two
  NoFd = NoFd
  Names = {1, 2}
  Limits = {2}
  num_extra_clients = 2
  FifoCap = 1
  AckSure = 5
  AckCap = 5
  ShortReads = FALSE
  MaxSends = 8
PROPERTIES
  BroadcastFinishes
CHECK_DEADLOCK FALSE
