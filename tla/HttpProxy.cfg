SPECIFICATION Spec
CONSTANTS
  t1 = t1
  t2 = t2
  u1 = u1
  u2 = u2
  NoEntry = NoEntry
  Threads <- TwoThreads
  Uris <- TwoUris
  CacheSize = 1
  MaxTime = 1
  MaxVersion = 1
SYMMETRY Symmetry
INVARIANTS
  HitIsFresh
  RoomPromised
  EntriesGenuine
CHECK_DEADLOCK FALSE
