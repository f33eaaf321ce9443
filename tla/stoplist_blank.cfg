SPECIFICATION Spec
CONSTANTS
  scam = scam
  vape = vape
  blank = blank
  rawScam = rawScam
  upperScam = upperScam
  rawVape = rawVape
  spaces = spaces
  plain = plain
  oneWord = oneWord
  twoWords = twoWords
  Words <- MCWords
  Blank <- blank
  RawWords <- MCRawWords
  CleanForm <- MCCleanForm
  Contains <- MCContains
  InitialWords <- MCInitialWords
  Clients = {c1}
  c1 = c1
  Checkers = {k1}
  k1 = k1
  BuildMayFail = FALSE
  MaxWords = 2
  MaxRequests = 1
  MaxChecks = 0
CHECK_DEADLOCK FALSE
INVARIANT BlankWordsRefused
