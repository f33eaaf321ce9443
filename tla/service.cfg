SPECIFICATION FairSpec
CONSTANTS
  NumMessages = 3
  Malformed <- Poison
  Unplaceable <- Astray
  MaxTries = 2
  MaxRequests = 1
  MaxRebalances = 1
  MaxLives = 2
  MayFail = TRUE
  MayCrash = TRUE
INVARIANTS
  TypeOK
  LossBound
  CountedAgain
  DrainedCleanly
PROPERTIES
  StopsInTheEnd
  KeepsReading
CHECK_DEADLOCK FALSE
