\* Three clients and two workers on one queue that holds two requests.
SPECIFICATION Spec
CONSTANTS
  q1 = q1
  q2 = q2
  c1 = c1
  c2 = c2
  c3 = c3
  w1 = w1
  w2 = w2
  unknown = unknown
  None = None
  s1 = s1
  s2 = s2
  Queue <- OneQueue
  Client = {c1, c2, c3}
  Worker = {w1, w2}
  Target <- SameTarget
  Chatty = {}
  QMax = 2
  Interval = FALSE
  Duration = {1}
  Scraper = {}
  Wrap = 1
INVARIANTS
  Conservation
  RunningIsInFlight
  OpenIffOwned
  NeverFatal
  FifoDispatch
  OutcomesCounted
PROPERTIES
  ClosedIsFinal
  ImplementsWorkQueue
SYMMETRY Symmetry
