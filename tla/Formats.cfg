SPECIFICATION FormatsSpec
CONSTANTS
  MAX_PAYLOAD = 20
  MAX_USERNAME = 4
  MAX_MESSAGE = 3
  MAX_REASON = 2
  Letters = {97, 98}
  MaxOthers = 2
  MAX_FILENAME = 3
  MAX_MODE = 2
  MAX_ERROR = 3
  UriLen = 5
  RequestLen = 5
  TextLen = 6
INVARIANTS
  SbcpReadBack
  UriReadBack
  HttpReadBack
  TftpReadBack
  NetasciiReadBack
CHECK_DEADLOCK FALSE
