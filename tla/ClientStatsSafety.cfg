\* Two threads and one HTTP query at a time.
SPECIFICATION Spec
CONSTANTS
  Thread = {t1, t2}
  Node = {n1, n2}
  Device = {d1, d2}
  Pod = {pod1}
  Error = {e1}
  Runtime = {1, 2}
  Waittime = {1}
  Elapsed = {2, 4}
  MaxCols = 5
  Query = {h1}
  Wrap = 5
  MaxReplies = 4
  NoNode = NoNode
INVARIANTS
  TypeOK
  PendingErrorBounded
  StartMovesOnce
  NodesAddUp
  HistogramsFit
  AverageInRange
CHECK_DEADLOCK FALSE
SYMMETRY Symmetry
