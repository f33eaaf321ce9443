SPECIFICATION Spec
CONSTANTS
  scam = scam
  vape = vape
  blank = blank
  rawScam = rawScam
  upperScam = upperScam
  rawVape = rawVape
  spaces = spaces
  plain = plain
  oneWord = oneWord
  twoWords = twoWords
  Words <- MCWords
  Blank <- blank
  RawWords <- MCRawWords
  CleanForm <- MCCleanForm
  Contains <- MCContains
  InitialWords <- MCInitialWords
  Clients = {c1, c2}
  c1 = c1
  c2 = c2
  Checkers = {k1}
  k1 = k1
  BuildMayFail = FALSE
  MaxWords = 2
  MaxRequests = 3
  MaxChecks = 1
CHECK_DEADLOCK FALSE
SYMMETRY ClientSymmetry
INVARIANTS TypeOK AssuredBanned FreedAllowed
PROPERTY BanSpec
