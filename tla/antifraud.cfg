SPECIFICATION Spec
CONSTANTS
  Workers = {w1}
  IPs = {ip1, ip2, ip3}
  EmptyIP = EmptyIP
  ip1 = ip1
  ip2 = ip2
  ip3 = ip3
  w1 = w1
  CacheSize = 2
  Limit = 2
  TTL = 2
  MaxClock = 4
  MaxChecks = 6
CHECK_DEADLOCK FALSE
SYMMETRY IPSymmetry
INVARIANTS TypeOK BoundedLRU BurstBound
PROPERTIES RejectJustified LimiterSpec
