\* One thread and one query at a time.
SPECIFICATION Spec
CONSTANTS
  h1 = h1
  h2 = h2
  ReqMax = 1
  ReqStart = 1
  Handler = {h1}
  Value <- AllValues
INVARIANTS
  NoSendCycle
CHECK_DEADLOCK FALSE
