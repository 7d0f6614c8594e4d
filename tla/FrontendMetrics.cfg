\* Two queues, metric queries that reset the maxima, peers that say too much.
SPECIFICATION Spec
CONSTANTS
  q1 = q1
  q2 = q2
  c1 = c1
  c2 = c2
  c3 = c3
  w1 = w1
  w2 = w2
  unknown = unknown
  None = None
  s1 = s1
  s2 = s2
  Queue <- TwoQueues
  Client = {c1, c2, c3}
  Worker = {w1}
  Target <- MixedTarget
  Chatty = {c2, w1}
  QMax = 0
  Interval = FALSE
  Duration = {0, 1}
  Scraper = {s1}
  Wrap = 2
INVARIANTS
  TypeOK
  OpenIffOwned
  OutcomesCounted
  MaximaConsistent
