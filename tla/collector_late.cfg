SPECIFICATION Spec
CONSTANTS
  Queries = {1, 2}
  Second = 2
  BucketDuration = 4
  WindowDuration = 8
  TopLimit = 1
  StartClock = 12
  MaxClock = 14
  MaxLate = 6
  MaxSkew = 0
  MaxAdds = 2
CHECK_DEADLOCK FALSE
INVARIANT NoStaleSearch
