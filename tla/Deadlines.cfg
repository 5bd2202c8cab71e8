\* a dial and a request against every peer
SPECIFICATION Spec
CONSTANTS
  ConnectTimeout = 2
  HandshakeTimeout = 3
  RequestTimeout = 3
  Messages = 2
  MaxLookup = 3
  MaxTime = 18
INVARIANTS
  TypeOK
  DialIsBounded
  CausesAreTold
  SilentPeerLoses
PROPERTY
  DialReturns
CHECK_DEADLOCK FALSE
