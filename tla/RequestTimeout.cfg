\* request_timeout against its documentation
SPECIFICATION Spec
CONSTANTS
  ConnectTimeout = 2
  HandshakeTimeout = 3
  RequestTimeout = 3
  Messages = 2
  MaxLookup = 3
  MaxTime = 18
INVARIANT RequestIsBounded
CHECK_DEADLOCK FALSE
