\* an IPv6 literal without a port
SPECIFICATION Spec
CONSTANTS
  Port = {0, 1, 443, 65535, 65536}
  MaxPort = 65535
  Scheme = {"https", "http", "none"}
  AppId = {"Hex40", "Short", "Letters40"}
  AppPort = {443, 8080}
INVARIANT LiteralsAreUnrecognised
CHECK_DEADLOCK FALSE
