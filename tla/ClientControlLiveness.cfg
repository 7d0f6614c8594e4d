\* Progress, with one query at a time that turns requests off or up.  The program
\* can stop for good, which ClientControlDeadlock.cfg shows.
SPECIFICATION FairSpec
CONSTANTS
  h1 = h1
  h2 = h2
  ReqMax = 2
  ReqStart = 1
  Handler = {h1}
  Value <- Extremes
PROPERTIES
  ThrottleTakesEffect
  AllowedKeepRunning
CHECK_DEADLOCK FALSE
