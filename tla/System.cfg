\* Two clients and two workers, one of which exits when the queue is empty; a
\* process of each kind is killed.
SPECIFICATION FairSpec
CONSTANTS
  p1 = p1
  p2 = p2
  t1 = t1
  t2 = t2
  t3 = t3
  w1 = w1
  w2 = w2
  q1 = q1
  Queue = {q1}
  Client = {p1, p2}
  Thread = {t1, t3}
  Worker = {w1, w2}
  ClientOf <- ClientOfThread
  QueueOf <- SameQueue
  Patient = {w1}
  QMax = 1
  MaxRequests = 2
  Load <- Loads
  MaxStops <- OneOfEach
  None = None
INVARIANTS
  TypeOK
  NobodyForgotten
  LostOnlyToKills
  CountsAgree
PROPERTIES
  FaultsContained
  Recovers
