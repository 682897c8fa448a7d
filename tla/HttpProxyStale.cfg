SPECIFICATION TestSpec
CONSTANTS
  Threads = {t1}
  Uris = {"/test1", "/test4", "/test5", "/test6", "/test7", "/none"}
  NoEntry = NoEntry
  CacheSize = 2
  MaxTime = 5
  MaxVersion = 2
  SIXTY = 2
  TEN = 1
  MONTH = 3
PROPERTY StaleReplaced
CHECK_DEADLOCK FALSE
