SPECIFICATION Spec
CONSTANTS
  Workers = {w1, w2}
  IPs = {ip1, ip2}
  EmptyIP = EmptyIP
  ip1 = ip1
  ip2 = ip2
  w1 = w1
  w2 = w2
  CacheSize = 1
  Limit = 1
  TTL = 1
  MaxClock = 2
  MaxChecks = 5
CHECK_DEADLOCK FALSE
INVARIANT ColdStartBound
