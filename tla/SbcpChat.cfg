SPECIFICATION FairChatSpec
CONSTANTS
  h1 = h1
  h2 = h2
  Handlers <- Two
  NoFd = NoFd
  Names = {1, 2}
  Limits = {1, 2}
  num_extra_clients = 2
  FifoCap = 1
  AckSure = 5
  AckCap = 5
  ShortReads = TRUE
  MaxSends = 4
INVARIANTS
  FirstIsAnswer
  RefusalIsTold
  OnlyLeaversKillMain
  IdleToldOnce
  NothingLost
PROPERTIES
  ClientAnswered
  LeaverForgotten
CHECK_DEADLOCK FALSE
