SPECIFICATION FairSpec
CONSTANTS
  Queries = {1, 2}
  Second = 2
  BucketDuration = 5
  WindowDuration = 11
  TopLimit = 1
  StartClock = 12
  MaxClock = 16
  MaxLate = 1
  MaxSkew = 1
  MaxAdds = 3
CHECK_DEADLOCK FALSE
INVARIANTS TypeOK SliceExact Retained
PROPERTIES RingAdvances WindowSpec Converges
