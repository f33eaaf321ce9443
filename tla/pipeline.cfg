SPECIFICATION Spec
CONSTANTS
  scam = scam
  blank = blank
  rawScam = rawScam
  Second = 1
  BucketDuration = 2
  WindowDuration = 4
  StartClock = 5
  MaxClock = 8
  MaxLate = 1
  MaxSkew = 1
  IPs = {ip1}
  EmptyIP = EmptyIP
  CacheSize = 1
  Limit = 1
  TTL = 2
  Words = {scam}
  Blank = blank
  RawWords = {rawScam}
  CleanForm <- MCCleanForm
  Contains <- MCContains
  InitialWords = {}
  Clients = {c1}
  BuildMayFail = FALSE
  MaxRequests = 1
  MaxEvents = 3
CHECK_DEADLOCK FALSE
INVARIANTS BanReachesRing HonestPasses SliceShare
