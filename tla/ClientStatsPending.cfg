\* A reset while a request is in flight.
SPECIFICATION Spec
CONSTANTS
  Thread = {t1, t2}
  Node = {n1}
  Device = {d1}
  Pod = {pod1}
  Error = {e1}
  Runtime = {1, 2}
  Waittime = {1}
  Elapsed = {2, 4}
  MaxCols = 60
  Query = {h1}
  Wrap = 4
  MaxReplies = 3
  NoNode = NoNode
INVARIANTS
  PendingWithinThreads
CHECK_DEADLOCK FALSE
