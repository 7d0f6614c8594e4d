\* Every kind of command line, and clients that ask for anything.
SPECIFICATION FairSpec
CONSTANTS
  Options <- CommandLines
  Request <- Requests
  ReqLimit <- Limits
  Duration = {0, 1, 11}
  Milli = 2
  Longest = 12
  NaN = NaN
INVARIANTS
  TypeOK
  NapBounded
  CleanExit
  RequestLimitHolds
  ReplyTruthful
PROPERTIES
  BackoffGrows
  SignalEnds
CHECK_DEADLOCK FALSE
