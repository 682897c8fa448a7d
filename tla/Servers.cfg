SPECIFICATION FairServersSpec
CONSTANTS
  Conns = {1, 2, 3}
  Limits = {1, 2}
  MaxTimeouts = 2
INVARIANTS
  TypeOK
  ChildrenTracked
PROPERTIES
  ImplementsPool
  ZombiesReaped
  ExecReturns
  ConnectionAnswered
CHECK_DEADLOCK FALSE
