SPECIFICATION Spec
CONSTANTS
  NumMessages = 1
  Malformed = {}
  Unplaceable = {}
  MaxTries = 1
  MaxRequests = 0
  MaxRebalances = 0
  MaxLives = 1
  MayFail = TRUE
  MayCrash = FALSE
INVARIANT FaultReported
CHECK_DEADLOCK FALSE
