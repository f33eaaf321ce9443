SPECIFICATION Spec
CONSTANTS
  Workers = {w1, w2}
  IPs = {ip1}
  EmptyIP = EmptyIP
  ip1 = ip1
  w1 = w1
  w2 = w2
  CacheSize = 1
  Limit = 2
  TTL = 2
  MaxClock = 1
  MaxChecks = 5
CHECK_DEADLOCK FALSE
INVARIANT LimitPerWindow
