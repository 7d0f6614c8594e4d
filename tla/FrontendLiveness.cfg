\* Progress: two clients and one worker on one queue, and the logger.
SPECIFICATION FairSpec
CONSTANTS
  q1 = q1
  q2 = q2
  c1 = c1
  c2 = c2
  c3 = c3
  w1 = w1
  w2 = w2
  unknown = unknown
  None = None
  s1 = s1
  s2 = s2
  Queue <- OneQueue
  Client = {c1, c2}
  Worker = {w1}
  Target <- SameTarget
  Chatty = {}
  QMax = 1
  Interval = TRUE
  Duration = {1}
  Scraper = {}
  Wrap = 1
INVARIANTS
  MaximaConsistent
PROPERTIES
  EveryRequestEnds
  EveryWorkerIsReleased
