\* Two threads, two concurrent queries that ask for anything.  The program
\* can stop for good, which ClientControlDeadlock.cfg shows.
SPECIFICATION Spec
CONSTANTS
  h1 = h1
  h2 = h2
  ReqMax = 2
  ReqStart = 1
  Handler = {h1, h2}
  Value <- SomeValues
INVARIANTS
  TypeOK
  NoLostPermit
  HandlersAnswered
PROPERTIES
  PermitsWithinSetting
CHECK_DEADLOCK FALSE
SYMMETRY Symmetry
