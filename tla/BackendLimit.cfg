\* A request without a limit and a worker with one.
SPECIFICATION Spec
CONSTANTS
  Options <- OnlySleeper
  Request <- Requests
  ReqLimit = {0, 5, 9}
  Duration = {1}
  Milli = 2
  Longest = 12
  NaN = NaN
INVARIANTS
  DefaultLimitHolds
CHECK_DEADLOCK FALSE
