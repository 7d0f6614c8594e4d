--------------------------- MODULE FrontendProofs ---------------------------
(***************************************************************************)
(* Theorems about the frontend, for any queues, clients, workers, limit    *)
(* and reporting mode: what holds of the queues, their statistics and the  *)
(* workers' connections.                                                   *)
(***************************************************************************)
EXTENDS Frontend, SequenceTheorems, FiniteSetTheorems, TLAPS

\* A listener that has released the mutex is idle.
USE DEF Unlocked

\* A step of the frontend or of its peers is a step of one of the actions.
\* Every invariance proof below splits on this list.
LEMMA NextCases ==
  ASSUME Next
  PROVE  \/ \E x \in Peer : Dial(x) \/ Send(x) \/ Hangup(x)
         \/ \E w \in Worker : Reply(w)
         \/ \E c \in Client : AcceptClient(c)
         \/ ReadClient \/ EnqueueClient
         \/ \E w \in Worker : AcceptWorker(w)
         \/ ReadWorker \/ Probe \/ QueueEmpty \/ HandOut
         \/ \E w \in Worker : DoWrite(w) \/ DoRead(w) \/ DoStats(w)
         \/ \E s \in Scraper : ScrapeStart(s) \/ \E q \in Queue : ScrapeQueue(s, q)
         \/ LogStart \/ \E q \in Queue : LogQueue(q)
  BY DEF Next, Peers, ListenForClients, ListenForWorkers, DoItem, Exporter, LogStats

-----------------------------------------------------------------------------
(* Type correctness. *)

\* The connection counters stay below their modulus.
LEMMA CountBound ==
  \A n \in 0 .. Wrap - 1 : Count(n) \in 0 .. Wrap - 1
  BY ConstantsAssumption DEF ConstantsAssumption, Count

\* What an idle goroutine and unset maxima look like fits the types.
LEMMA IdleTypes == IdleJob \in Job /\ NoTimes \in Maxima /\ IdleJob.pc = "idle"
  BY DEF IdleJob, Job, NoTimes, Maxima

\* None is neither a peer nor a queue.
LEMMA NoneIsNone == None \notin Client /\ None \notin Worker /\ None \notin Queue
  BY ConstantsAssumption DEF ConstantsAssumption, Peer

\* The maxima stay triples of naturals when a request's times are taken in.
LEMMA RaisedTyped ==
  ASSUME NEW m \in Maxima, NEW wait \in Nat, NEW run \in Nat
  PROVE  Raised(m, wait, run) \in Maxima
<1>1. m.wait \in Nat /\ m.run \in Nat /\ m.total \in Nat
  BY DEF Maxima
<1>2. ASSUME NEW a \in Nat, NEW b \in Nat
      PROVE  Larger(a, b) \in Nat
  BY DEF Larger
<1>3. wait + run \in Nat
  OBVIOUS
<1>4. /\ Larger(m.wait, wait) \in Nat
      /\ Larger(m.run, run) \in Nat
      /\ Larger(m.total, wait + run) \in Nat
  BY <1>1, <1>2, <1>3
<1> QED
  BY <1>4 DEF Raised, Maxima

\* Initially every variable has its type.
LEMMA TypeInit ==
  ASSUME Init
  PROVE  TypeOK
<1>1. ConnectionsTyped
  BY DEF Init, ConnectionsTyped, InboxState, ConnState
<1>2. ListenersTyped
  BY NoneIsNone DEF Init, ListenersTyped, IdleClients, IdleWorkers
<1>3. QueuesTyped
  BY IdleTypes DEF Init, QueuesTyped
<1>4. CountersTyped
  BY ConstantsAssumption DEF Init, ConstantsAssumption, CountersTyped
<1>5. JobsTyped
  BY IdleTypes DEF Init, JobsTyped
<1>6. ReportsTyped
  BY DEF Init, ReportsTyped
<1>7. fatal \in BOOLEAN
  BY Zenon DEF Init
<1> QED
  BY <1>1, <1>2, <1>3, <1>4, <1>5, <1>6, <1>7 DEF TypeOK

\* Every step preserves the types.
LEMMA TypeNext ==
  ASSUME TypeOK, [Next]_vars
  PROVE  TypeOK'
<1> USE DEF TypeOK
<1>1. CASE UNCHANGED vars
  BY <1>1 DEF vars, net, stats, report, ConnectionsTyped, ListenersTyped, QueuesTyped,
              CountersTyped, JobsTyped, ReportsTyped
<1>2. ASSUME NEW x \in Peer, Dial(x) \/ Send(x) \/ Hangup(x)
      PROVE  TypeOK'
  <2>1. ConnectionsTyped'
    BY <1>2 DEF Dial, Send, Hangup, ConnectionsTyped, InboxState, ConnState, net, stats,
       report
  <2>2. (ListenersTyped /\ QueuesTyped /\ CountersTyped /\ JobsTyped /\ ReportsTyped
        /\ fatal \in BOOLEAN)'
    BY <1>2 DEF Dial, Send, Hangup, ListenersTyped, QueuesTyped, CountersTyped,
       JobsTyped, ReportsTyped, net, stats, report
  <2> QED
    BY <2>1, <2>2
<1>3. ASSUME NEW w \in Worker, Reply(w)
      PROVE  TypeOK'
  <2>1. ConnectionsTyped'
    BY <1>3 DEF Reply, ConnectionsTyped, InboxState, net, stats, report
  <2>2. (ListenersTyped /\ QueuesTyped /\ CountersTyped /\ JobsTyped /\ ReportsTyped
        /\ fatal \in BOOLEAN)'
    BY <1>3 DEF Reply, ListenersTyped, QueuesTyped, CountersTyped, JobsTyped,
       ReportsTyped, net, stats, report
  <2> QED
    BY <2>1, <2>2
<1>4. ASSUME NEW c \in Client, AcceptClient(c)
      PROVE  TypeOK'
  <2>1. ConnectionsTyped'
    BY <1>4 DEF AcceptClient, ConnectionsTyped, ConnState, net, stats, report
  <2>2. ListenersTyped'
    BY <1>4, NoneIsNone DEF AcceptClient, ListenersTyped, net, stats, report
  <2>3. CountersTyped'
    BY <1>4, CountBound DEF AcceptClient, CountersTyped, net, stats, report
  <2>4. (QueuesTyped /\ JobsTyped /\ ReportsTyped /\ fatal \in BOOLEAN)'
    BY <1>4 DEF AcceptClient, QueuesTyped, JobsTyped, ReportsTyped, net, stats, report
  <2> QED
    BY <2>1, <2>2, <2>3, <2>4
<1>5. CASE ReadClient
  <2>1. ConnectionsTyped'
    BY <1>5 DEF ReadClient, ConnectionsTyped, AfterRead, InboxState, ConnState, Closed,
       net, stats, report
  <2>2. ListenersTyped'
    BY <1>5, NoneIsNone DEF ReadClient, ListenersTyped, Valid, IdleClients, net, stats,
       report
  <2>3. (QueuesTyped /\ CountersTyped /\ JobsTyped /\ ReportsTyped /\ fatal \in
        BOOLEAN)'
    BY <1>5 DEF ReadClient, QueuesTyped, CountersTyped, JobsTyped, ReportsTyped, net,
       stats, report
  <2> QED
    BY <2>1, <2>2, <2>3
<1>6. CASE EnqueueClient
  <2>1. ConnectionsTyped'
    BY <1>6 DEF EnqueueClient, ConnectionsTyped, ConnState, Closed, net, stats, report
  <2>2. ListenersTyped'
    BY <1>6, NoneIsNone DEF EnqueueClient, ListenersTyped, IdleClients, Locked, Queued,
       QueuesTyped, net, stats, report
  <2>3. QueuesTyped'
    <3>1. cl.conn \in Client /\ Target[cl.conn] \in Queue
      BY <1>6 DEF EnqueueClient, ListenersTyped
    <3>2. [client |-> cl.conn, added |-> accepted[Target[cl.conn]]] \in Item
      BY <3>1 DEF QueuesTyped, Item
    <3>3. Queued(Target[cl.conn], [client |-> cl.conn, added |-> accepted[Target[cl.conn]]])
            \in Seq(Item)
      BY <3>1, <3>2 DEF QueuesTyped, Queued
    <3>4. /\ \/ items' = items /\ accepted' = accepted
             \/ /\ items' = [items EXCEPT ![Target[cl.conn]] =
                               Queued(Target[cl.conn], [client |-> cl.conn,
                                                        added |-> accepted[Target[cl.conn]]])]
                /\ accepted' = [accepted EXCEPT ![Target[cl.conn]] = @ + 1]
          /\ UNCHANGED <<running, success, failure, disconnect, maxima>>
      BY <1>6 DEF EnqueueClient, stats
    <3>5. items' \in [Queue -> Seq(Item)]
      BY <3>1, <3>3, <3>4 DEF QueuesTyped
    <3>6. accepted' \in [Queue -> Nat]
      <4>1. accepted' = accepted
              \/ accepted' = [accepted EXCEPT ![Target[cl.conn]] = @ + 1]
        BY <3>4
      <4>2. accepted \in [Queue -> Nat]
        BY DEF QueuesTyped
      <4> HIDE DEF TypeOK
      <4> QED
        BY <3>1, <4>1, <4>2
    <3>7. /\ running' \in [Queue -> Int] /\ success' \in [Queue -> Nat]
          /\ failure' \in [Queue -> Nat] /\ disconnect' \in [Queue -> Nat]
          /\ maxima' \in [Queue -> Maxima]
      BY <3>4 DEF QueuesTyped
    <3> QED
      BY <3>5, <3>6, <3>7 DEF QueuesTyped
  <2>4. (CountersTyped /\ JobsTyped /\ ReportsTyped /\ fatal \in BOOLEAN)'
    BY <1>6 DEF EnqueueClient, CountersTyped, JobsTyped, ReportsTyped, net, stats,
       report
  <2> QED
    BY <2>1, <2>2, <2>3, <2>4
<1>7. ASSUME NEW w \in Worker, AcceptWorker(w)
      PROVE  TypeOK'
  <2>1. ConnectionsTyped'
    BY <1>7 DEF AcceptWorker, ConnectionsTyped, ConnState, net, stats, report
  <2>2. ListenersTyped'
    BY <1>7, NoneIsNone DEF AcceptWorker, ListenersTyped, net, stats, report
  <2>3. CountersTyped'
    BY <1>7, CountBound DEF AcceptWorker, CountersTyped, net, stats, report
  <2>4. (QueuesTyped /\ JobsTyped /\ ReportsTyped /\ fatal \in BOOLEAN)'
    BY <1>7 DEF AcceptWorker, QueuesTyped, JobsTyped, ReportsTyped, net, stats, report
  <2> QED
    BY <2>1, <2>2, <2>3, <2>4
<1>8. CASE ReadWorker
  <2>1. ConnectionsTyped'
    BY <1>8 DEF ReadWorker, ConnectionsTyped, AfterRead, InboxState, ConnState, Closed,
       net, stats, report
  <2>2. ListenersTyped'
    <3>1. /\ wl.pc = "read" /\ wl.conn \in Worker /\ wl.offset = 0
          /\ wl = [pc |-> wl.pc, conn |-> wl.conn, queue |-> wl.queue, offset |-> wl.offset]
      BY <1>8 DEF ReadWorker, ListenersTyped
    <3>2. CASE Valid(wl.conn)
      <4>1. wl' = [pc |-> "sweep", conn |-> wl.conn, queue |-> Target[wl.conn], offset |-> 0]
        BY <1>8, <3>1, <3>2 DEF ReadWorker, ListenersTyped
      <4>2. Target[wl.conn] \in Queue /\ Len(items[Target[wl.conn]]) \in Nat
        BY <3>2 DEF Valid, QueuesTyped
      <4> QED
        BY <1>8, <3>1, <4>1, <4>2 DEF ReadWorker, ListenersTyped
    <3>3. CASE ~Valid(wl.conn)
      BY <1>8, <3>3, NoneIsNone DEF ReadWorker, ListenersTyped, IdleWorkers
    <3> QED
      BY <3>2, <3>3
  <2>3. (QueuesTyped /\ CountersTyped /\ JobsTyped /\ ReportsTyped /\ fatal \in
        BOOLEAN)'
    BY <1>8 DEF ReadWorker, QueuesTyped, CountersTyped, JobsTyped, ReportsTyped, net,
       stats, report
  <2> QED
    BY <2>1, <2>2, <2>3
<1>9. CASE Probe
  <2>1. ConnectionsTyped'
    BY <1>9 DEF Probe, ConnectionsTyped, AfterProbe, ConnState, Closed, net, stats,
       report
  <2>2. ListenersTyped'
    <3>1. /\ wl.pc = "sweep" /\ wl.queue \in Queue /\ wl.conn \in Worker /\ wl.offset \in Nat
          /\ wl = [pc |-> wl.pc, conn |-> wl.conn, queue |-> wl.queue, offset |-> wl.offset]
          /\ Len(items[wl.queue]) \in Nat /\ wl.offset < Len(items[wl.queue])
      BY <1>9 DEF Probe, ListenersTyped, QueuesTyped
    <3>2. CASE wl' = wl
      BY <1>9, <3>2 DEF Probe, ListenersTyped
    <3>3. CASE wl' = [wl EXCEPT !.offset = @ + 1]
      BY <1>9, <3>1, <3>3 DEF Probe, ListenersTyped
    <3>4. CASE wl' = [wl EXCEPT !.pc = "alive"]
      BY <1>9, <3>1, <3>4 DEF Probe, ListenersTyped
    <3> QED
      BY <1>9, <3>2, <3>3, <3>4 DEF Probe
  <2>3. (fatal \in BOOLEAN)'
    BY <1>9, Zenon DEF Probe, net, stats, report
  <2>4. (QueuesTyped /\ CountersTyped /\ JobsTyped /\ ReportsTyped)'
    BY <1>9 DEF Probe, QueuesTyped, CountersTyped, JobsTyped, ReportsTyped, net, stats,
       report
  <2> QED
    BY <2>1, <2>2, <2>3, <2>4
<1>10. CASE QueueEmpty
  <2>1. ConnectionsTyped'
    BY <1>10 DEF QueueEmpty, ConnectionsTyped, ConnState, Closed, net, stats, report
  <2>2. ListenersTyped'
    BY <1>10, NoneIsNone DEF QueueEmpty, ListenersTyped, IdleWorkers, net, stats, report
  <2>3. QueuesTyped'
    BY <1>10 DEF QueueEmpty, QueuesTyped, ListenersTyped, Discarded, net, stats, report
  <2>4. (CountersTyped /\ JobsTyped /\ ReportsTyped /\ fatal \in BOOLEAN)'
    BY <1>10 DEF QueueEmpty, CountersTyped, JobsTyped, ReportsTyped, net, stats, report
  <2> QED
    BY <2>1, <2>2, <2>3, <2>4
<1>11. CASE HandOut
  <2>1. ListenersTyped'
    BY <1>11, NoneIsNone DEF HandOut, ListenersTyped, IdleWorkers, net, stats, report
  <2>2. QueuesTyped'
    <3>1. wl.queue \in Queue /\ wl.offset \in Nat /\ wl.offset < Len(items[wl.queue])
      BY <1>11 DEF HandOut, ListenersTyped
    <3>2. Remaining(wl.queue, wl.offset) \in Seq(Item)
      BY <3>1 DEF QueuesTyped, Remaining
    <3>3. /\ items' = [items EXCEPT ![wl.queue] = Remaining(wl.queue, wl.offset)]
          /\ running' = [running EXCEPT ![wl.queue] = @ + 1]
          /\ disconnect' = [disconnect EXCEPT ![wl.queue] = @ + wl.offset]
          /\ UNCHANGED <<success, failure, maxima, accepted>>
      BY <1>11 DEF HandOut, Discarded
    <3>4. items' \in [Queue -> Seq(Item)]
      BY <3>1, <3>2, <3>3 DEF QueuesTyped
    <3>5. running' \in [Queue -> Int]
      <4>1. running[wl.queue] + 1 \in Int
        BY <3>1 DEF QueuesTyped
      <4> QED
        BY <3>3, <4>1 DEF QueuesTyped
    <3>6. disconnect' \in [Queue -> Nat]
      <4>1. disconnect[wl.queue] + wl.offset \in Nat
        BY <3>1 DEF QueuesTyped
      <4> QED
        BY <3>3, <4>1 DEF QueuesTyped
    <3> QED
      BY <3>3, <3>4, <3>5, <3>6 DEF QueuesTyped
  <2>3. JobsTyped'
    <3> DEFINE item == items[wl.queue][wl.offset + 1]
               new  == [IdleJob EXCEPT !.pc = "write", !.queue = wl.queue,
                          !.client = item.client, !.added = item.added]
    <3>1. /\ wl.queue \in Queue /\ wl.offset \in Nat /\ wl.conn \in Worker
          /\ wl.offset < Len(items[wl.queue])
      BY <1>11 DEF HandOut, ListenersTyped
    <3>2. items[wl.queue] \in Seq(Item)
      BY <3>1 DEF QueuesTyped
    <3>3. item \in Item
      BY <3>1, <3>2
    <3>4. new \in Job /\ new.queue \in Queue /\ new.client \in Client
      BY <3>1, <3>3 DEF Item, Job, IdleJob
    <3>5. job' = [job EXCEPT ![wl.conn] = new]
      BY <1>11 DEF HandOut
    <3> HIDE DEF new
    <3> QED
      BY <3>4, <3>5 DEF JobsTyped
  <2>4. (ConnectionsTyped /\ CountersTyped /\ ReportsTyped /\ fatal \in BOOLEAN)'
    BY <1>11 DEF HandOut, ConnectionsTyped, CountersTyped, ReportsTyped, net, stats,
       report
  <2> QED
    BY <2>1, <2>2, <2>3, <2>4
<1>12. ASSUME NEW w \in Worker, DoWrite(w)
       PROVE  TypeOK'
  <2>1. ConnectionsTyped'
    BY <1>12 DEF DoWrite, ConnectionsTyped, Answered, ConnState, Closed, net, stats,
       report
  <2>2. JobsTyped'
    <3>1. PICK wait \in Duration :
             job' = [job EXCEPT ![w] = [@ EXCEPT !.pc = "read", !.wait = wait]]
               \/ job' = [job EXCEPT ![w] = [@ EXCEPT !.pc = "stats", !.wait = wait]]
      BY <1>12 DEF DoWrite, WorkerFailed
    <3>2. wait \in Nat
      BY ConstantsAssumption DEF ConstantsAssumption
    <3>3. job[w] \in Job /\ job[w].queue \in Queue /\ job[w].client \in Client
      BY <1>12 DEF DoWrite, JobsTyped
    <3>4. ASSUME NEW pc \in {"read", "stats"}
          PROVE  LET new == [job[w] EXCEPT !.pc = pc, !.wait = wait] IN
                 new \in Job /\ new.queue \in Queue /\ new.client \in Client
      BY <3>2, <3>3 DEF Job
    <3>5. job'[w] \in Job /\ job'[w].queue \in Queue /\ job'[w].client \in Client
      BY <3>1, <3>3, <3>4 DEF JobsTyped
    <3> QED
      BY <3>1, <3>5 DEF JobsTyped
  <2>3. (ListenersTyped /\ QueuesTyped /\ CountersTyped /\ ReportsTyped /\ fatal \in
        BOOLEAN)'
    BY <1>12 DEF DoWrite, ListenersTyped, QueuesTyped, CountersTyped, ReportsTyped, net,
       stats, report
  <2> QED
    BY <2>1, <2>2, <2>3
<1>13. ASSUME NEW w \in Worker, DoRead(w)
       PROVE  TypeOK'
  <2>1. ConnectionsTyped'
    BY <1>13 DEF DoRead, ConnectionsTyped, NoReply, GotReply, Answered, ConnState,
       Closed, net, stats, report
  <2>2. JobsTyped'
    <3>1. job[w] \in Job /\ job[w].queue \in Queue /\ job[w].client \in Client
      BY <1>13 DEF DoRead, JobsTyped
    <3>2. CASE NoReply(w)
      BY <3>1, <3>2 DEF NoReply, WorkerFailed, JobsTyped, Job
    <3>3. CASE GotReply(w)
      <4>1. PICK kind \in ReplyKind, run \in Duration :
               job' = [job EXCEPT ![w] = [@ EXCEPT !.pc = "stats", !.run = run,
                                                    !.ret = Retcode(kind)]]
        BY <3>3 DEF GotReply
      <4>2. run \in Nat /\ Retcode(kind) \in {0, 1}
        BY ConstantsAssumption DEF ConstantsAssumption, Retcode
      <4> QED
        BY <3>1, <4>1, <4>2 DEF JobsTyped, Job
    <3> QED
      BY <1>13, <3>2, <3>3 DEF DoRead
  <2>3. (ListenersTyped /\ QueuesTyped /\ CountersTyped /\ ReportsTyped /\ fatal \in
        BOOLEAN)'
    BY <1>13 DEF DoRead, ListenersTyped, QueuesTyped, CountersTyped, ReportsTyped, net,
       stats, report
  <2> QED
    BY <2>1, <2>2, <2>3
<1>14. ASSUME NEW w \in Worker, DoStats(w)
       PROVE  TypeOK'
  <2>1. QueuesTyped'
    <3>1. job[w].queue \in Queue /\ job[w].wait \in Nat /\ job[w].run \in Nat
      BY <1>14 DEF DoStats, JobsTyped, Job
    <3>2. Raised(maxima[job[w].queue], job[w].wait, job[w].run) \in Maxima
      <4>1. maxima[job[w].queue] \in Maxima
        BY <3>1 DEF QueuesTyped
      <4> QED
        BY <3>1, <4>1, RaisedTyped
    <3>3. maxima' \in [Queue -> Maxima]
      BY <1>14, <3>2 DEF DoStats, QueuesTyped
    <3>4. success' \in [Queue -> Nat] /\ failure' \in [Queue -> Nat]
      <4> DEFINE q == job[w].queue
                 s == IF job[w].ret = 0 THEN success[q] + 1 ELSE success[q]
                 f == IF job[w].ret = 0 THEN failure[q] ELSE failure[q] + 1
      <4>1. /\ success' = [success EXCEPT ![q] = s]
            /\ failure' = [failure EXCEPT ![q] = f]
        BY <1>14 DEF DoStats
      <4>2. success[q] \in Nat /\ failure[q] \in Nat
        BY <3>1 DEF QueuesTyped
      <4>3. s \in Nat /\ f \in Nat
        BY <4>2
      <4> HIDE DEF s, f
      <4> QED
        BY <4>1, <4>3 DEF QueuesTyped
    <3>5. running' \in [Queue -> Int]
      <4>1. running[job[w].queue] - 1 \in Int
        BY <3>1 DEF QueuesTyped
      <4> QED
        BY <1>14, <4>1 DEF DoStats, QueuesTyped
    <3>6. UNCHANGED <<items, disconnect, accepted>>
      BY <1>14 DEF DoStats
    <3> QED
      BY <3>3, <3>4, <3>5, <3>6 DEF QueuesTyped
  <2>2. JobsTyped'
    BY <1>14, IdleTypes DEF DoStats, JobsTyped, net, stats, report
  <2>3. (ConnectionsTyped /\ ListenersTyped /\ CountersTyped /\ ReportsTyped /\ fatal
        \in BOOLEAN)'
    BY <1>14 DEF DoStats, ConnectionsTyped, ListenersTyped, CountersTyped, ReportsTyped,
       net, stats, report
  <2> QED
    BY <2>1, <2>2, <2>3
<1>15. ASSUME NEW s \in Scraper, ScrapeStart(s)
       PROVE  TypeOK'
  <2>1. CountersTyped'
    BY <1>15, CountBound DEF ScrapeStart, CountersTyped, net, stats, report
  <2>2. ReportsTyped'
    BY <1>15 DEF ScrapeStart, ReportsTyped, net, stats, report
  <2>3. (ConnectionsTyped /\ ListenersTyped /\ QueuesTyped /\ JobsTyped /\ fatal \in
        BOOLEAN)'
    BY <1>15 DEF ScrapeStart, ConnectionsTyped, ListenersTyped, QueuesTyped, JobsTyped,
       net, stats, report
  <2> QED
    BY <2>1, <2>2, <2>3
<1>16. ASSUME NEW s \in Scraper, NEW q \in Queue, ScrapeQueue(s, q)
       PROVE  TypeOK'
  <2>1. QueuesTyped'
    BY <1>16, IdleTypes DEF ScrapeQueue, QueuesTyped, Reported, net, stats, report
  <2>2. ReportsTyped'
    BY <1>16 DEF ScrapeQueue, ReportsTyped, net, stats, report
  <2>3. (ConnectionsTyped /\ ListenersTyped /\ CountersTyped /\ JobsTyped /\ fatal \in
        BOOLEAN)'
    BY <1>16 DEF ScrapeQueue, ConnectionsTyped, ListenersTyped, CountersTyped,
       JobsTyped, net, stats, report
  <2> QED
    BY <2>1, <2>2, <2>3
<1>17. CASE LogStart
  <2>1. ReportsTyped'
    BY <1>17 DEF LogStart, ReportsTyped, net, stats, report
  <2>2. (ConnectionsTyped /\ ListenersTyped /\ QueuesTyped /\ CountersTyped /\
        JobsTyped /\ fatal \in BOOLEAN)'
    BY <1>17 DEF LogStart, ConnectionsTyped, ListenersTyped, QueuesTyped, CountersTyped,
       JobsTyped, net, stats, report
  <2> QED
    BY <2>1, <2>2
<1>18. ASSUME NEW q \in Queue, LogQueue(q)
       PROVE  TypeOK'
  <2>1. QueuesTyped'
    BY <1>18, IdleTypes DEF LogQueue, QueuesTyped, Reported, net, stats, report
  <2>2. ReportsTyped'
    BY <1>18 DEF LogQueue, ReportsTyped, net, stats, report
  <2>3. (ConnectionsTyped /\ ListenersTyped /\ CountersTyped /\ JobsTyped /\ fatal \in
        BOOLEAN)'
    BY <1>18 DEF LogQueue, ConnectionsTyped, ListenersTyped, CountersTyped, JobsTyped,
       net, stats, report
  <2> QED
    BY <2>1, <2>2, <2>3
<1> QED
  BY <1>1, <1>2, <1>3, <1>4, <1>5, <1>6, <1>7, <1>8, <1>9, <1>10, <1>11, <1>12, <1>13,
     <1>14, <1>15, <1>16, <1>17, <1>18, NextCases

\* Every variable of the frontend always has its type.
THEOREM TypeCorrect == Spec => []TypeOK
  BY TypeInit, TypeNext, PTL DEF Spec

\* Until its statistics are counted a goroutine goes on with the item that it
\* was started for, and no other goroutine's state changes.
LEMMA ItemKept ==
  ASSUME TypeOK, NEW w \in Worker, DoWrite(w) \/ DoRead(w)
  PROVE  /\ job[w].pc # "idle" /\ job'[w].pc # "idle"
         /\ job'[w].queue = job[w].queue /\ job'[w].added = job[w].added
         /\ \A v \in Worker \ {w} : job'[v] = job[v]
<1> DEFINE Kept(new) == /\ new.pc # "idle"
                        /\ new.queue = job[w].queue /\ new.added = job[w].added
<1>1. job \in [Worker -> Job] /\ job[w] \in Job
  BY DEF TypeOK, JobsTyped
<1>2. \A pc \in {"read", "stats"} : \A wait : Kept([job[w] EXCEPT !.pc = pc, !.wait = wait])
  BY <1>1 DEF Job
<1>3. \A run, ret : Kept([job[w] EXCEPT !.pc = "stats", !.run = run, !.ret = ret])
  BY <1>1 DEF Job
<1> HIDE DEF Kept
<1>4. job[w].pc # "idle"
        /\ \E new : job' = [job EXCEPT ![w] = new] /\ Kept(new)
  <2>1. CASE DoWrite(w)
    BY <1>2, <2>1 DEF DoWrite, WorkerFailed
  <2>2. CASE DoRead(w) /\ NoReply(w)
    BY <1>2, <2>2 DEF DoRead, NoReply, WorkerFailed
  <2>3. CASE DoRead(w) /\ GotReply(w)
    BY <1>3, <2>3 DEF DoRead, GotReply
  <2> QED
    BY <2>1, <2>2, <2>3 DEF DoRead
<1> QED
  BY <1>1, <1>4 DEF Kept

-----------------------------------------------------------------------------
(* No request is lost or counted twice. *)

\* What is left of a queue when the item after offset discarded ones is taken.
LEMMA RemainingIs ==
  ASSUME QueuesTyped, NEW q \in Queue, NEW offset \in Nat, offset < Len(items[q])
  PROVE  /\ Remaining(q, offset) \in Seq(Item)
         /\ Len(Remaining(q, offset)) = Len(items[q]) - (offset + 1)
         /\ \A i \in 1 .. Len(Remaining(q, offset)) :
              Remaining(q, offset)[i] = items[q][offset + 1 + i]
<1>1. items[q] \in Seq(Item) /\ Len(items[q]) \in Nat
  BY DEF QueuesTyped
<1>2. offset + 2 \in 1 .. Len(items[q]) + 1
  BY <1>1
<1>3. /\ Remaining(q, offset) \in Seq(Item)
      /\ Len(Remaining(q, offset)) = Len(items[q]) - (offset + 2) + 1
      /\ \A i \in 1 .. Len(items[q]) - (offset + 2) + 1 :
           Remaining(q, offset)[i] = items[q][offset + 2 + i - 1]
  BY <1>1, <1>2, SubSeqProperties DEF Remaining
<1> QED
  BY <1>1, <1>3

\* The terms of Conservation for one queue.
Balanced(q) ==
  accepted[q] = Len(items[q]) + running[q] + success[q] + failure[q] + disconnect[q]

\* Most steps leave all terms alone; the others move a request from one term
\* to another.  A sweep ends at the end of the queue when it found it empty.
LEMMA ConservationNext ==
  ASSUME TypeOK, Conservation, [Next]_vars
  PROVE  Conservation'
<1> SUFFICES ASSUME NEW q \in Queue
             PROVE  Balanced(q)'
  BY DEF Conservation, Balanced
<1>0. Balanced(q)
  BY DEF Conservation, Balanced
<1>t. /\ items \in [Queue -> Seq(Item)] /\ accepted \in [Queue -> Nat]
      /\ running \in [Queue -> Int] /\ disconnect \in [Queue -> Nat]
      /\ success \in [Queue -> Nat] /\ failure \in [Queue -> Nat]
  BY DEF TypeOK, QueuesTyped
<1>1. CASE UNCHANGED <<items, accepted, running, success, failure, disconnect>>
  BY <1>0, <1>1 DEF Balanced
<1>2. CASE EnqueueClient
  <2>1. Target[cl.conn] \in Queue
    BY <1>2 DEF EnqueueClient, TypeOK, ListenersTyped
  <2>2. CASE AtCapacity(Target[cl.conn])
    BY <1>2, <1>1, <2>2 DEF EnqueueClient, stats
  <2>3. CASE ~AtCapacity(Target[cl.conn])
    <3> DEFINE item == [client |-> cl.conn, added |-> accepted[Target[cl.conn]]]
    <3>1. /\ items' = [items EXCEPT ![Target[cl.conn]] = Append(items[Target[cl.conn]], item)]
          /\ accepted' = [accepted EXCEPT ![Target[cl.conn]] = @ + 1]
          /\ UNCHANGED <<running, success, failure, disconnect>>
      BY <1>2, <2>3 DEF EnqueueClient, Queued, stats
    <3>2. item \in Item
      BY <1>t, <2>1, <1>2 DEF EnqueueClient, TypeOK, ListenersTyped, Item
    <3> HIDE DEF item
    <3>3. Len(Append(items[q], item)) = Len(items[q]) + 1 /\ Len(items[q]) \in Nat
      BY <1>t, <3>2
    <3>4. CASE q = Target[cl.conn]
      <4>1. /\ items'[q] = Append(items[q], item) /\ accepted'[q] = accepted[q] + 1
            /\ UNCHANGED <<running, success, failure, disconnect>>
        BY <1>t, <3>1, <3>4
      <4> QED
        BY <1>0, <1>t, <3>3, <4>1 DEF Balanced
    <3>5. CASE q # Target[cl.conn]
      BY <1>0, <1>t, <3>1, <3>5 DEF Balanced
    <3> QED
      BY <3>4, <3>5
  <2> QED
    BY <2>2, <2>3
<1>3. CASE QueueEmpty
  <2>1. wl.queue \in Queue /\ wl.offset = Len(items[wl.queue]) /\ wl.offset \in Nat
    BY <1>3, <1>t DEF QueueEmpty, TypeOK, ListenersTyped
  <2>2. /\ items' = [items EXCEPT ![wl.queue] = <<>>]
        /\ disconnect' = [disconnect EXCEPT ![wl.queue] = @ + wl.offset]
        /\ UNCHANGED <<accepted, running, success, failure>>
    BY <1>3 DEF QueueEmpty, Discarded
  <2>3. CASE q = wl.queue
    <3>1. /\ items'[q] = <<>> /\ disconnect'[q] = disconnect[q] + wl.offset
          /\ UNCHANGED <<accepted, running, success, failure>>
      BY <1>t, <2>2, <2>3
    <3> QED
      BY <1>0, <1>t, <2>1, <2>3, <3>1 DEF Balanced
  <2>4. CASE q # wl.queue
    BY <1>0, <1>t, <2>2, <2>4 DEF Balanced
  <2> QED
    BY <2>3, <2>4
<1>4. CASE HandOut
  <2>1. /\ wl.queue \in Queue /\ wl.offset \in Nat /\ wl.offset < Len(items[wl.queue])
        /\ Len(items[wl.queue]) \in Nat
    BY <1>4, <1>t DEF HandOut, TypeOK, ListenersTyped
  <2>2. /\ items' = [items EXCEPT ![wl.queue] = Remaining(wl.queue, wl.offset)]
        /\ running' = [running EXCEPT ![wl.queue] = @ + 1]
        /\ disconnect' = [disconnect EXCEPT ![wl.queue] = @ + wl.offset]
        /\ UNCHANGED <<accepted, success, failure>>
    BY <1>4 DEF HandOut, Discarded
  <2>3. Len(Remaining(wl.queue, wl.offset)) = Len(items[wl.queue]) - (wl.offset + 1)
    BY <2>1, RemainingIs DEF TypeOK
  <2>4. CASE q = wl.queue
    <3>1. /\ running'[q] = running[q] + 1 /\ disconnect'[q] = disconnect[q] + wl.offset
          /\ UNCHANGED <<accepted, success, failure>>
      BY <1>t, <2>2, <2>4
    <3>2. items'[q] = Remaining(q, wl.offset)
      BY <1>t, <2>2, <2>4
    <3> DEFINE left == Len(items'[q])
               all  == Len(items[q])
    <3>3. left = all - (wl.offset + 1) /\ all \in Nat /\ wl.offset \in Nat
      BY <2>1, <2>3, <2>4, <3>2
    <3>4. /\ accepted[q] \in Nat /\ running[q] \in Int /\ success[q] \in Nat
          /\ failure[q] \in Nat /\ disconnect[q] \in Nat
      BY <1>t
    <3>5. accepted[q] = all + running[q] + success[q] + failure[q] + disconnect[q]
      BY <1>0 DEF Balanced
    <3> HIDE DEF left, all
    <3>6. accepted'[q] = left + running'[q] + success'[q] + failure'[q] + disconnect'[q]
      BY <3>1, <3>3, <3>4, <3>5
    <3> QED
      BY <3>6 DEF Balanced, left
  <2>5. CASE q # wl.queue
    BY <1>0, <1>t, <2>2, <2>5 DEF Balanced
  <2> QED
    BY <2>4, <2>5
<1>5. ASSUME NEW w \in Worker, DoStats(w)
      PROVE  Balanced(q)'
  <2>1. job[w].queue \in Queue
    BY <1>5 DEF DoStats, TypeOK, JobsTyped
  <2>2. /\ running' = [running EXCEPT ![job[w].queue] = @ - 1]
        /\ \/ /\ success' = [success EXCEPT ![job[w].queue] = @ + 1]
              /\ failure' = [failure EXCEPT ![job[w].queue] = @]
           \/ /\ failure' = [failure EXCEPT ![job[w].queue] = @ + 1]
              /\ success' = [success EXCEPT ![job[w].queue] = @]
        /\ UNCHANGED <<items, accepted, disconnect>>
    BY <1>5 DEF DoStats
  <2>3. CASE q = job[w].queue
    <3>1. /\ running'[q] = running[q] - 1 /\ UNCHANGED <<items, accepted, disconnect>>
          /\ \/ success'[q] = success[q] + 1 /\ failure'[q] = failure[q]
             \/ failure'[q] = failure[q] + 1 /\ success'[q] = success[q]
      BY <1>t, <2>2, <2>3
    <3> QED
      BY <1>0, <1>t, <3>1 DEF Balanced
  <2>4. CASE q # job[w].queue
    <3>1. /\ running'[q] = running[q] /\ UNCHANGED <<items, accepted, disconnect>>
          /\ success'[q] = success[q] /\ failure'[q] = failure[q]
      BY <1>t, <2>2, <2>4
    <3> QED
      BY <1>0, <3>1 DEF Balanced
  <2> QED
    BY <2>3, <2>4
<1>6. ASSUME \/ \E x \in Peer : Dial(x) \/ Send(x) \/ Hangup(x)
             \/ \E w \in Worker : Reply(w)
             \/ \E c \in Client : AcceptClient(c)
             \/ ReadClient \/ ReadWorker \/ Probe
             \/ \E w \in Worker : AcceptWorker(w) \/ DoWrite(w) \/ DoRead(w)
             \/ \E s \in Scraper : ScrapeStart(s) \/ \E r \in Queue : ScrapeQueue(s, r)
             \/ LogStart \/ \E r \in Queue : LogQueue(r)
      PROVE  Balanced(q)'
  <2>1. UNCHANGED <<items, accepted, running, success, failure, disconnect>>
    BY <1>6 DEF Dial, Send, Hangup, Reply, AcceptClient, ReadClient, ReadWorker, Probe,
       AcceptWorker, DoWrite, DoRead, ScrapeStart, ScrapeQueue, LogStart, LogQueue, stats
  <2> QED
    BY <2>1, <1>1
<1>7. CASE UNCHANGED vars
  BY <1>1, <1>7 DEF vars, stats
<1> QED
  BY <1>2, <1>3, <1>4, <1>5, <1>6, <1>7, NextCases

\* Whatever was queued still waits, is being worked on, or was counted once.
THEOREM ConservationHolds == Spec => []Conservation
<1>1. Init => Conservation
  BY DEF Init, Conservation
<1> QED
  BY <1>1, ConservationNext, TypeCorrect, PTL DEF Spec

-----------------------------------------------------------------------------
(* The order of the requests, and the maxima. *)

\* FifoDispatch for one queue.
Ordered(q) ==
  \A j \in 1 .. Len(items[q]) :
    /\ items[q][j].added < accepted[q]
    /\ \A i \in 1 .. j - 1 : items[q][i].added < items[q][j].added
    /\ \A w \in InFlight(q) : job[w].added < items[q][j].added

\* The strengthening: FifoDispatch says nothing of the requests in flight
\* when the queue is empty, and the next request to enter must be younger.
StartedBefore(q) == \A w \in InFlight(q) : job[w].added < accepted[q]

OrderInv == \A q \in Queue : Ordered(q) /\ StartedBefore(q)

\* The types that the order needs.
LEMMA OrderTypes ==
  ASSUME TypeOK, NEW q \in Queue
  PROVE  /\ items \in [Queue -> Seq(Item)] /\ items[q] \in Seq(Item)
         /\ Len(items[q]) \in Nat /\ accepted \in [Queue -> Nat]
         /\ accepted[q] \in Nat /\ job \in [Worker -> Job]
         /\ \A w \in Worker : job[w].added \in Nat
         /\ \A j \in 1 .. Len(items[q]) : items[q][j].added \in Nat
<1>1. items \in [Queue -> Seq(Item)] /\ accepted \in [Queue -> Nat]
  BY DEF TypeOK, QueuesTyped
<1>2. items[q] \in Seq(Item) /\ Len(items[q]) \in Nat
  BY <1>1
<1>3. \A j \in 1 .. Len(items[q]) : items[q][j] \in Item
  BY <1>2
<1>4. job \in [Worker -> Job] /\ \A w \in Worker : job[w] \in Job
  BY DEF TypeOK, JobsTyped
<1> QED
  BY <1>1, <1>2, <1>3, <1>4 DEF Item, Job

\* A step that leaves the queues alone and starts no work keeps the order.
LEMMA OrderKept ==
  ASSUME OrderInv, UNCHANGED <<items, accepted>>,
         \A w \in Worker : job'[w].pc # "idle" =>
           /\ job[w].pc # "idle"
           /\ job'[w].queue = job[w].queue /\ job'[w].added = job[w].added
  PROVE  OrderInv'
<1> SUFFICES ASSUME NEW q \in Queue
             PROVE  (Ordered(q) /\ StartedBefore(q))'
  BY DEF OrderInv
<1>1. Ordered(q) /\ StartedBefore(q)
  BY DEF OrderInv
<1>2. \A w \in InFlight(q)' : w \in InFlight(q) /\ job'[w].added = job[w].added
  BY DEF InFlight
<1>3. Ordered(q)'
  BY <1>1, <1>2 DEF Ordered
<1>4. StartedBefore(q)'
  BY <1>1, <1>2 DEF StartedBefore
<1> QED
  BY <1>3, <1>4

\* The goroutines of work items neither change what they work on nor touch
\* the queues.
LEMMA OrderItem ==
  ASSUME TypeOK, OrderInv, NEW w \in Worker, DoWrite(w) \/ DoRead(w) \/ DoStats(w)
  PROVE  OrderInv'
<1>1. UNCHANGED <<items, accepted>>
  BY DEF DoWrite, DoRead, DoStats
<1>2. CASE DoWrite(w) \/ DoRead(w)
  BY <1>1, <1>2, ItemKept, OrderKept
<1>3. CASE DoStats(w)
  <2>1. job'[w].pc = "idle" /\ \A v \in Worker \ {w} : job'[v] = job[v]
    BY <1>3 DEF DoStats, TypeOK, JobsTyped, IdleJob
  <2> QED
    BY <1>1, <2>1, OrderKept
<1> QED
  BY <1>2, <1>3

\* A request enters behind everything that waits or is in flight.
LEMMA OrderEnqueue ==
  ASSUME TypeOK, OrderInv, EnqueueClient
  PROVE  OrderInv'
<1> DEFINE t == Target[cl.conn]
           item == [client |-> cl.conn, added |-> accepted[t]]
<1>1. cl.conn \in Client /\ t \in Queue /\ job' = job
  BY DEF EnqueueClient, TypeOK, ListenersTyped
<1>2. CASE UNCHANGED <<items, accepted>>
  BY <1>1, <1>2, OrderKept
<1>3. CASE /\ items' = [items EXCEPT ![t] = Append(items[t], item)]
           /\ accepted' = [accepted EXCEPT ![t] = @ + 1]
  <2> SUFFICES ASSUME NEW q \in Queue
               PROVE  (Ordered(q) /\ StartedBefore(q))'
    BY DEF OrderInv
  <2>1. Ordered(q) /\ StartedBefore(q) /\ InFlight(q)' = InFlight(q)
    BY <1>1 DEF OrderInv, InFlight
  <2>2. CASE q # t
    <3>1. items'[q] = items[q] /\ accepted'[q] = accepted[q]
      BY <1>1, <1>3, <2>2, OrderTypes
    <3> QED
      BY <1>1, <2>1, <3>1 DEF Ordered, StartedBefore
  <2>3. CASE q = t
    <3>1. items'[q] = Append(items[q], item) /\ accepted'[q] = accepted[q] + 1
      BY <1>1, <1>3, <2>3, OrderTypes
    <3>2. item \in Item /\ item.added = accepted[q]
      BY <1>1, <2>3, OrderTypes DEF Item
    <3> HIDE DEF item
    <3>3. /\ Len(items'[q]) = Len(items[q]) + 1
          /\ \A j \in 1 .. Len(items[q]) : items'[q][j] = items[q][j]
          /\ items'[q][Len(items[q]) + 1] = item
      BY <3>1, <3>2, OrderTypes
    <3>4. /\ Len(items[q]) \in Nat /\ accepted[q] \in Nat
          /\ \A w \in InFlight(q) : job[w].added \in Nat
          /\ \A j \in 1 .. Len(items[q]) : items[q][j].added \in Nat
      BY OrderTypes DEF InFlight
    <3>5. StartedBefore(q)'
      BY <1>1, <2>1, <3>1, <3>4 DEF StartedBefore
    <3>6. ASSUME NEW j \in 1 .. Len(items'[q])
          PROVE  /\ items'[q][j].added < accepted'[q]
                 /\ \A i \in 1 .. j - 1 : items'[q][i].added < items'[q][j].added
                 /\ \A w \in InFlight(q) : job[w].added < items'[q][j].added
      <4>1. CASE j \in 1 .. Len(items[q])
        <5>1. \A i \in 1 .. j - 1 : items'[q][i] = items[q][i]
          BY <3>3, <3>4, <4>1
        <5>2. /\ items[q][j].added < accepted[q]
              /\ \A i \in 1 .. j - 1 : items[q][i].added < items[q][j].added
              /\ \A w \in InFlight(q) : job[w].added < items[q][j].added
          BY <2>1, <4>1 DEF Ordered
        <5>3. items'[q][j] = items[q][j] /\ items[q][j].added < accepted[q] + 1
          BY <3>3, <3>4, <4>1, <5>2
        <5> QED
          BY <3>1, <5>1, <5>2, <5>3
      <4>2. CASE j = Len(items[q]) + 1
        <5>1. items'[q][j].added = accepted[q]
          BY <3>2, <3>3, <4>2
        <5>2. \A i \in 1 .. j - 1 : items'[q][i].added < accepted[q]
          BY <2>1, <3>3, <3>4, <4>2 DEF Ordered
        <5> QED
          BY <2>1, <3>1, <3>4, <5>1, <5>2 DEF StartedBefore
      <4>3. j \in 1 .. Len(items[q]) \/ j = Len(items[q]) + 1
        <5>1. j \in 1 .. Len(items[q]) + 1
          BY <3>3
        <5> QED
          BY <3>4, <5>1
      <4> QED
        BY <4>1, <4>2, <4>3
    <3> QED
      BY <1>1, <2>1, <3>5, <3>6 DEF Ordered
  <2> QED
    BY <2>2, <2>3
<1> QED
  BY <1>2, <1>3 DEF EnqueueClient, Queued

\* A pull takes a prefix of the queue away and starts work on its last item.
LEMMA OrderHandOut ==
  ASSUME TypeOK, OrderInv, HandOut
  PROVE  OrderInv'
<1> DEFINE t == wl.queue
           k == wl.offset + 1
<1>1. /\ t \in Queue /\ wl.conn \in Worker /\ wl.offset \in Nat
      /\ wl.offset < Len(items[t])
  BY DEF HandOut, TypeOK, ListenersTyped
<1>2. /\ items' = [items EXCEPT ![t] = Remaining(t, wl.offset)]
      /\ accepted' = accepted
      /\ job' = [job EXCEPT ![wl.conn] =
                   [IdleJob EXCEPT !.pc = "write", !.queue = t,
                      !.client = items[t][k].client, !.added = items[t][k].added]]
  BY DEF HandOut
<1>3. /\ job'[wl.conn].queue = t /\ job'[wl.conn].added = items[t][k].added
      /\ \A v \in Worker \ {wl.conn} : job'[v] = job[v]
  BY <1>1, <1>2, OrderTypes DEF IdleJob
<1> SUFFICES ASSUME NEW q \in Queue
             PROVE  (Ordered(q) /\ StartedBefore(q))'
  BY DEF OrderInv
<1>4. Ordered(q) /\ StartedBefore(q)
  BY DEF OrderInv
<1>5. CASE q # t
  <2>1. items'[q] = items[q]
    BY <1>1, <1>2, <1>5, OrderTypes
  <2>2. \A w \in InFlight(q)' : w \in InFlight(q) /\ job'[w] = job[w]
    BY <1>3, <1>5 DEF InFlight
  <2> QED
    BY <1>2, <1>4, <2>1, <2>2 DEF Ordered, StartedBefore
<1>6. CASE q = t
  <2>1. /\ Len(items[q]) \in Nat /\ k \in 1 .. Len(items[q]) /\ accepted[q] \in Nat
        /\ \A j \in 1 .. Len(items[q]) : items[q][j].added \in Nat
    BY <1>1, <1>6, OrderTypes
  <2>2. \A w \in InFlight(q)' :
           \/ w \in InFlight(q) /\ job'[w].added = job[w].added
           \/ job'[w].added = items[q][k].added
    BY <1>3, <1>6 DEF InFlight
  <2>3. StartedBefore(q)'
    BY <1>2, <1>4, <2>1, <2>2 DEF Ordered, StartedBefore
  <2>4. items'[q] = Remaining(q, wl.offset)
    BY <1>1, <1>2, <1>6, OrderTypes
  <2>5. /\ Len(items'[q]) = Len(items[q]) - k
        /\ \A j \in 1 .. Len(items'[q]) : items'[q][j] = items[q][k + j]
    <3>1. QueuesTyped
      BY DEF TypeOK
    <3>2. /\ Len(Remaining(q, wl.offset)) = Len(items[q]) - k
          /\ \A j \in 1 .. Len(Remaining(q, wl.offset)) :
               Remaining(q, wl.offset)[j] = items[q][k + j]
      BY <1>1, <1>6, <3>1, RemainingIs
    <3> HIDE DEF k
    <3> QED
      BY <2>4, <3>2
  <2> HIDE DEF k
  <2>6. ASSUME NEW j \in 1 .. Len(items'[q])
        PROVE  /\ items'[q][j].added < accepted[q]
               /\ \A i \in 1 .. j - 1 : items'[q][i].added < items'[q][j].added
               /\ \A w \in InFlight(q)' : job'[w].added < items'[q][j].added
    <3>1. k + j \in 1 .. Len(items[q]) /\ items'[q][j] = items[q][k + j]
      BY <2>1, <2>5
    <3>2. items[q][k + j].added < accepted[q]
      BY <1>4, <3>1 DEF Ordered
    <3>3. ASSUME NEW i \in 1 .. j - 1
          PROVE  items'[q][i].added < items'[q][j].added
      <4>1. i \in 1 .. Len(items'[q]) /\ k + i \in 1 .. (k + j) - 1
        BY <2>1, <2>5
      <4>2. items'[q][i] = items[q][k + i]
        BY <2>5, <4>1
      <4>3. items[q][k + i].added < items[q][k + j].added
        BY <1>4, <3>1, <4>1 DEF Ordered
      <4> QED
        BY <3>1, <4>2, <4>3
    <3>4. items[q][k].added < items[q][k + j].added
      <4>1. k \in 1 .. (k + j) - 1
        BY <2>1
      <4> QED
        BY <1>4, <3>1, <4>1 DEF Ordered
    <3>5. \A w \in InFlight(q) : job[w].added < items[q][k + j].added
      BY <1>4, <3>1 DEF Ordered
    <3>6. \A w \in InFlight(q)' : job'[w].added < items'[q][j].added
      BY <2>2, <3>1, <3>4, <3>5
    <3> QED
      BY <3>1, <3>2, <3>3, <3>6
  <2> QED
    BY <1>2, <2>3, <2>6 DEF Ordered
<1> QED
  BY <1>5, <1>6

\* Every step keeps the order.
LEMMA OrderNext ==
  ASSUME TypeOK, OrderInv, [Next]_vars
  PROVE  OrderInv'
<1>1. CASE UNCHANGED <<items, accepted, job>>
  BY <1>1, OrderKept
<1>2. CASE QueueEmpty
  <2> SUFFICES ASSUME NEW q \in Queue
               PROVE  (Ordered(q) /\ StartedBefore(q))'
    BY DEF OrderInv
  <2>1. /\ Ordered(q) /\ StartedBefore(q) /\ accepted' = accepted /\ job' = job
        /\ items'[q] = items[q] \/ items'[q] = <<>>
    BY <1>2, OrderTypes DEF OrderInv, QueueEmpty
  <2> QED
    BY <2>1 DEF Ordered, StartedBefore, InFlight
<1>3. ASSUME \/ \E x \in Peer : Dial(x) \/ Send(x) \/ Hangup(x)
             \/ \E w \in Worker : Reply(w)
             \/ \E c \in Client : AcceptClient(c)
             \/ ReadClient \/ ReadWorker \/ Probe
             \/ \E w \in Worker : AcceptWorker(w)
             \/ \E s \in Scraper : ScrapeStart(s) \/ \E r \in Queue : ScrapeQueue(s, r)
             \/ LogStart \/ \E r \in Queue : LogQueue(r)
      PROVE  OrderInv'
  <2>1. UNCHANGED <<items, accepted, job>>
    BY <1>3 DEF Dial, Send, Hangup, Reply, AcceptClient, ReadClient, ReadWorker, Probe,
       AcceptWorker, ScrapeStart, ScrapeQueue, LogStart, LogQueue
  <2> QED
    BY <2>1, <1>1
<1>4. CASE UNCHANGED vars
  BY <1>1, <1>4 DEF vars
<1> QED
  BY <1>2, <1>3, <1>4, OrderItem, OrderEnqueue, OrderHandOut, NextCases

\* Requests leave a queue in the order in which they entered it, however many
\* workers pull and whichever clients disappear from the middle of the queue.
THEOREM DispatchIsFifo == Spec => []FifoDispatch
<1>1. Init => OrderInv
  BY DEF Init, OrderInv, Ordered, StartedBefore, InFlight, IdleJob
<1>2. OrderInv => FifoDispatch
  BY DEF OrderInv, Ordered, FifoDispatch
<1> QED
  BY <1>1, <1>2, OrderNext, TypeCorrect, PTL DEF Spec

-----------------------------------------------------------------------------
(* The timing maxima. *)

\* Maxima that some requests with a wait and a run time can have.
Consistent(m) ==
  /\ m.total >= m.wait
  /\ m.total >= m.run
  /\ m.total <= m.wait + m.run

\* Taking in the times of a request keeps the maxima consistent.
LEMMA RaisedConsistent ==
  ASSUME NEW m \in Maxima, Consistent(m), NEW wait \in Nat, NEW run \in Nat
  PROVE  Consistent(Raised(m, wait, run))
<1>1. m.wait \in Nat /\ m.run \in Nat /\ m.total \in Nat
  BY DEF Maxima
<1>2. /\ Raised(m, wait, run).wait = Larger(m.wait, wait)
      /\ Raised(m, wait, run).run = Larger(m.run, run)
      /\ Raised(m, wait, run).total = Larger(m.total, wait + run)
  BY DEF Raised
<1> QED
  BY <1>1, <1>2 DEF Consistent, Larger

\* A step leaves a queue's maxima alone, resets them, or takes in a request.
LEMMA MaximaNext ==
  ASSUME TypeOK, MaximaConsistent, [Next]_vars
  PROVE  MaximaConsistent'
<1> SUFFICES ASSUME NEW q \in Queue
             PROVE  Consistent(maxima'[q])
  BY DEF MaximaConsistent, Consistent
<1>1. maxima \in [Queue -> Maxima] /\ maxima[q] \in Maxima /\ Consistent(maxima[q])
  BY DEF TypeOK, QueuesTyped, MaximaConsistent, Consistent
<1>2. CASE maxima' = maxima
  BY <1>1, <1>2
<1>3. ASSUME NEW r \in Queue, maxima' = Reported(r)
      PROVE  Consistent(maxima'[q])
  <2>1. maxima'[q] = maxima[q] \/ maxima'[q] = NoTimes
    BY <1>1, <1>3 DEF Reported
  <2>2. Consistent(NoTimes)
    BY DEF Consistent, NoTimes
  <2> QED
    BY <1>1, <2>1, <2>2
<1>4. ASSUME NEW w \in Worker, DoStats(w)
      PROVE  Consistent(maxima'[q])
  <2>1. job[w].wait \in Nat /\ job[w].run \in Nat
    BY DEF TypeOK, JobsTyped, Job
  <2>2. \/ maxima'[q] = maxima[q]
        \/ maxima'[q] = Raised(maxima[q], job[w].wait, job[w].run)
    BY <1>1, <1>4 DEF DoStats
  <2> QED
    BY <1>1, <2>1, <2>2, RaisedConsistent
<1>5. ASSUME \/ \E s \in Scraper : \E r \in Queue : ScrapeQueue(s, r)
             \/ \E r \in Queue : LogQueue(r)
      PROVE  Consistent(maxima'[q])
  BY <1>2, <1>3, <1>5 DEF ScrapeQueue, LogQueue
<1>6. ASSUME \/ \E x \in Peer : Dial(x) \/ Send(x) \/ Hangup(x)
             \/ \E w \in Worker : Reply(w)
             \/ \E c \in Client : AcceptClient(c)
             \/ ReadClient \/ EnqueueClient \/ ReadWorker \/ Probe
             \/ QueueEmpty \/ HandOut
             \/ \E w \in Worker : AcceptWorker(w) \/ DoWrite(w) \/ DoRead(w)
             \/ \E s \in Scraper : ScrapeStart(s)
             \/ LogStart
      PROVE  Consistent(maxima'[q])
  <2>1. maxima' = maxima
    BY <1>6 DEF Dial, Send, Hangup, Reply, AcceptClient, ReadClient, EnqueueClient,
       ReadWorker, Probe, QueueEmpty, HandOut, AcceptWorker, DoWrite, DoRead,
       ScrapeStart, LogStart, stats
  <2> QED
    BY <2>1, <1>2
<1>7. CASE UNCHANGED vars
  BY <1>2, <1>7 DEF vars, stats
<1> QED
  BY <1>4, <1>5, <1>6, <1>7, NextCases

\* The maxima of a queue are those of requests that existed, whichever of the
\* exporter and the logger resets them and whenever it does.
THEOREM MaximaStayConsistent == Spec => []MaximaConsistent
<1>1. Init => MaximaConsistent
  BY DEF Init, MaximaConsistent, NoTimes
<1> QED
  BY <1>1, MaximaNext, TypeCorrect, PTL DEF Spec

-----------------------------------------------------------------------------
(* Who owns the workers' connections, and what follows from it: the count of *)
(* running items is exact.                                                   *)


\* What holds of worker w's connection between any two steps.
WorkerOwned(w) ==
  /\ conn[w] = "open" <=> (wl.conn = w \/ Serving(w))
  /\ wl.conn = w => job[w].pc = "idle"
  /\ conn[w] = "none" => job[w].pc = "idle"
  /\ peer[w] = "new" => conn[w] = "none"

WorkersInv == \A w \in Worker : WorkerOwned(w)

\* Clients, workers and None are different from each other.
LEMMA PeersDistinct ==
  /\ \A c \in Client : c \notin Worker
  /\ None \notin Worker
  /\ Worker \subseteq Peer /\ Client \subseteq Peer
  BY ConstantsAssumption DEF ConstantsAssumption, Peer

\* A step that does not concern worker w keeps what holds of it.
LEMMA WorkerStays ==
  ASSUME NEW w \in Worker, WorkerOwned(w),
         conn'[w] = conn[w], wl'.conn = w <=> wl.conn = w,
         job'[w].pc = job[w].pc, peer'[w] = "new" => peer[w] = "new"
  PROVE  WorkerOwned(w)'
  BY DEF WorkerOwned, Serving

\* The steps of peers, and those that serve clients and queries.
LEMMA OthersKeepWorkers ==
  ASSUME TypeOK, WorkersInv, NEW w \in Worker,
         \/ \E x \in Peer : Send(x) \/ Hangup(x)
         \/ \E v \in Worker : Reply(v)
         \/ \E c \in Client : AcceptClient(c)
         \/ ReadClient \/ EnqueueClient \/ Probe
         \/ \E s \in Scraper : ScrapeStart(s) \/ \E q \in Queue : ScrapeQueue(s, q)
         \/ LogStart \/ \E q \in Queue : LogQueue(q)
  PROVE  WorkerOwned(w)'
<1>1. WorkerOwned(w)
  BY DEF WorkersInv
<1>2. /\ peer \in [Peer -> {"new", "open", "gone"}]
      /\ conn \in [Peer -> ConnState]
  BY DEF TypeOK, ConnectionsTyped
<1>3. ASSUME UNCHANGED <<peer, conn, wl, job>>
      PROVE  WorkerOwned(w)'
  BY <1>1, <1>3, WorkerStays
<1>4. ASSUME NEW x \in Peer, Send(x)
      PROVE  WorkerOwned(w)'
  BY <1>3, <1>4 DEF Send
<1>5. ASSUME NEW x \in Peer, Hangup(x)
      PROVE  WorkerOwned(w)'
  <2>1. peer' = [peer EXCEPT ![x] = "gone"] /\ UNCHANGED <<conn, wl, job>>
    BY <1>5 DEF Hangup
  <2>2. peer'[w] = "new" => peer[w] = "new"
    BY <1>2, <2>1, PeersDistinct
  <2> QED
    BY <1>1, <2>1, <2>2, WorkerStays
<1>6. ASSUME NEW v \in Worker, Reply(v)
      PROVE  WorkerOwned(w)'
  BY <1>3, <1>6 DEF Reply
<1>7. ASSUME NEW c \in Client, NEW how, conn' = [conn EXCEPT ![c] = how],
             UNCHANGED <<peer, job>>, wl'.conn = wl.conn
      PROVE  WorkerOwned(w)'
  <2>1. conn'[w] = conn[w]
    BY <1>2, <1>7, PeersDistinct
  <2> QED
    BY <1>1, <1>7, <2>1, WorkerStays
<1>8. ASSUME NEW c \in Client, AcceptClient(c)
      PROVE  WorkerOwned(w)'
  BY <1>7, <1>8 DEF AcceptClient, net
<1>9. CASE ReadClient
  <2>1. cl.conn \in Client
    BY <1>9 DEF ReadClient, TypeOK, ListenersTyped
  <2>2. UNCHANGED <<peer, wl, job>>
    BY <1>9 DEF ReadClient
  <2>3. conn' = conn \/ conn' = [conn EXCEPT ![cl.conn] = "refused"]
    BY <1>9 DEF ReadClient
  <2> QED
    BY <1>3, <1>7, <2>1, <2>2, <2>3
<1>10. CASE EnqueueClient
  <2>1. cl.conn \in Client
    BY <1>10 DEF EnqueueClient, TypeOK, ListenersTyped
  <2>2. UNCHANGED <<peer, wl, job>>
    BY <1>10 DEF EnqueueClient, net
  <2>3. conn' = conn \/ conn' = [conn EXCEPT ![cl.conn] = "refused"]
    BY <1>10 DEF EnqueueClient
  <2> QED
    BY <1>3, <1>7, <2>1, <2>2, <2>3
<1>11. CASE Probe
  <2> DEFINE c == items[wl.queue][wl.offset + 1].client
  <2>1. c \in Client
    <3>1. wl.queue \in Queue /\ wl.offset \in Nat /\ wl.offset < Len(items[wl.queue])
      BY <1>11 DEF Probe, TypeOK, ListenersTyped
    <3>2. items[wl.queue] \in Seq(Item)
      BY <3>1 DEF TypeOK, QueuesTyped
    <3>3. items[wl.queue][wl.offset + 1] \in Item
      BY <3>1, <3>2
    <3> QED
      BY <3>3 DEF Item
  <2>2. UNCHANGED <<peer, job>>
    BY <1>11 DEF Probe, net
  <2>3. wl'.conn = wl.conn
    BY <1>11 DEF Probe, TypeOK, ListenersTyped
  <2>4. conn' = conn \/ conn' = [conn EXCEPT ![c] = "dropped"]
    BY <1>11 DEF Probe, AfterProbe
  <2>5. CASE conn' = conn
    BY <1>1, <2>2, <2>3, <2>5, WorkerStays
  <2>6. CASE conn' = [conn EXCEPT ![c] = "dropped"]
    BY <1>7, <2>1, <2>2, <2>3, <2>6
  <2> QED
    BY <2>4, <2>5, <2>6
<1>12. ASSUME NEW s \in Scraper, ScrapeStart(s) \/ \E q \in Queue : ScrapeQueue(s, q)
       PROVE  WorkerOwned(w)'
  BY <1>3, <1>12 DEF ScrapeStart, ScrapeQueue, net
<1>13. CASE LogStart \/ \E q \in Queue : LogQueue(q)
  BY <1>3, <1>13 DEF LogStart, LogQueue, net
<1> QED
  BY <1>4, <1>5, <1>6, <1>8, <1>9, <1>10, <1>11, <1>12, <1>13

\* The steps of the worker listener that take or release a connection.
LEMMA ListenerKeepsWorkers ==
  ASSUME TypeOK, WorkersInv, NEW w \in Worker,
         \/ \E v \in Worker : AcceptWorker(v)
         \/ ReadWorker \/ QueueEmpty \/ HandOut
  PROVE  WorkerOwned(w)'
<1>1. WorkerOwned(w)
  BY DEF WorkersInv
<1>2. /\ conn \in [Peer -> ConnState] /\ job \in [Worker -> Job]
      /\ wl.pc # "accept" <=> wl.conn \in Worker
      /\ w \in Peer
  BY PeersDistinct DEF TypeOK, ConnectionsTyped, JobsTyped, ListenersTyped
<1>3. ASSUME NEW v \in Worker, AcceptWorker(v)
      PROVE  WorkerOwned(w)'
  <2>1. /\ peer[v] # "new" /\ conn[v] = "none" /\ wl.conn \notin Worker
        /\ wl'.conn = v /\ conn' = [conn EXCEPT ![v] = "open"]
        /\ UNCHANGED <<peer, job>>
    BY <1>2, <1>3 DEF AcceptWorker, TypeOK, ListenersTyped, net
  <2>2. CASE w = v
    <3>1. conn'[w] = "open" /\ job[w].pc = "idle"
      BY <1>1, <1>2, <2>1, <2>2 DEF WorkerOwned
    <3> QED
      BY <2>1, <2>2, <3>1 DEF WorkerOwned
  <2>3. CASE w # v
    <3>1. conn'[w] = conn[w] /\ wl.conn # w /\ wl'.conn # w
      BY <1>2, <2>1, <2>3
    <3> QED
      BY <1>1, <2>1, <3>1, WorkerStays
  <2> QED
    BY <2>2, <2>3
<1>4. ASSUME NEW how \in Closed, conn' = [conn EXCEPT ![wl.conn] = how],
             wl' = IdleWorkers, wl.conn \in Worker, UNCHANGED <<peer, job>>
      PROVE  WorkerOwned(w)'
  <2>1. wl'.conn # w
    BY <1>4, PeersDistinct DEF IdleWorkers
  <2>2. CASE w = wl.conn
    <3>1. /\ job[w].pc = "idle" /\ conn'[w] = how /\ conn[w] = "open"
          /\ how # "open" /\ how # "none"
      BY <1>1, <1>2, <1>4, <2>2 DEF WorkerOwned, Closed
    <3>2. peer'[w] # "new"
      BY <1>1, <1>4, <3>1 DEF WorkerOwned
    <3> QED
      BY <1>4, <2>1, <3>1, <3>2 DEF WorkerOwned, Serving
  <2>3. CASE w # wl.conn
    <3>1. conn'[w] = conn[w]
      BY <1>2, <1>4, <2>3
    <3> QED
      BY <1>1, <1>4, <2>1, <2>3, <3>1, WorkerStays
  <2> QED
    BY <2>2, <2>3
<1>5. CASE ReadWorker
  <2>1. wl.conn \in Worker /\ UNCHANGED <<peer, job>>
    BY <1>2, <1>5 DEF ReadWorker
  <2>2. CASE Valid(wl.conn)
    <3>1. conn' = conn /\ wl'.conn = wl.conn
      BY <1>5, <2>2 DEF ReadWorker, TypeOK, ListenersTyped
    <3> QED
      BY <1>1, <2>1, <3>1, WorkerStays
  <2>3. CASE ~Valid(wl.conn)
    <3>1. conn' = [conn EXCEPT ![wl.conn] = "refused"] /\ wl' = IdleWorkers
      BY <1>5, <2>3 DEF ReadWorker
    <3>2. "refused" \in Closed
      BY DEF Closed
    <3> QED
      BY <1>4, <2>1, <3>1, <3>2
  <2> QED
    BY <2>2, <2>3
<1>6. CASE QueueEmpty
  <2>1. /\ wl.conn \in Worker /\ UNCHANGED <<peer, job>>
        /\ conn' = [conn EXCEPT ![wl.conn] = "empty"] /\ wl' = IdleWorkers
    BY <1>2, <1>6 DEF QueueEmpty, net
  <2>2. "empty" \in Closed
    BY DEF Closed
  <2> QED
    BY <1>4, <2>1, <2>2
<1>7. CASE HandOut
  <2>1. /\ wl.conn \in Worker /\ UNCHANGED <<peer, conn>> /\ wl' = IdleWorkers
        /\ \A v \in Worker \ {wl.conn} : job'[v] = job[v]
        /\ job'[wl.conn].pc = "write"
    BY <1>2, <1>7 DEF HandOut, net, IdleJob
  <2>2. wl'.conn # w
    BY <2>1, PeersDistinct DEF IdleWorkers
  <2>3. CASE w = wl.conn
    <3>1. conn[w] = "open" /\ peer[w] # "new"
      BY <1>1, <2>3 DEF WorkerOwned
    <3> QED
      BY <2>1, <2>2, <2>3, <3>1 DEF WorkerOwned, Serving
  <2>4. CASE w # wl.conn
    BY <1>1, <2>1, <2>2, <2>4, WorkerStays
  <2> QED
    BY <2>3, <2>4
<1> QED
  BY <1>3, <1>5, <1>6, <1>7

\* What a step of worker v's goroutine does to the connections and goroutines.
LEMMA ItemStep ==
  ASSUME TypeOK, NEW v \in Worker, DoWrite(v) \/ DoRead(v) \/ DoStats(v)
  PROVE  /\ UNCHANGED <<peer, wl, cl>>
         /\ \A u \in Worker \ {v} : job'[u] = job[u] /\ conn'[u] = conn[u]
         /\ job[v].pc # "idle"
         /\ \/ Serving(v) /\ job'[v].pc = "read" /\ conn' = conn
            \/ /\ Serving(v) /\ job'[v].pc = "stats" /\ conn'[v] = "served"
               /\ \E how \in {"done", "failed"} : conn' = Answered(v, how)
            \/ job[v].pc = "stats" /\ job'[v].pc = "idle" /\ conn' = conn
<1>1. /\ job \in [Worker -> Job] /\ conn \in [Peer -> ConnState] /\ v \in Peer
      /\ job[v].pc # "idle" => job[v].client \in Client
  BY PeersDistinct DEF TypeOK, JobsTyped, ConnectionsTyped
<1>2. ASSUME NEW how, job[v].client \in Client
      PROVE  /\ Answered(v, how)[v] = "served"
             /\ \A u \in Worker \ {v} : Answered(v, how)[u] = conn[u]
  BY <1>1, <1>2, PeersDistinct DEF Answered
<1>3. CASE DoWrite(v)
  <2>1. UNCHANGED <<peer, wl, cl>> /\ job[v].pc = "write"
    BY <1>3 DEF DoWrite, net
  <2>2. \/ /\ job'[v].pc = "read" /\ conn' = conn
           /\ \A u \in Worker \ {v} : job'[u] = job[u]
        \/ /\ job'[v].pc = "stats" /\ conn' = Answered(v, "failed")
           /\ \A u \in Worker \ {v} : job'[u] = job[u]
    BY <1>1, <1>3 DEF DoWrite, WorkerFailed, Job
  <2> QED
    BY <1>1, <1>2, <2>1, <2>2 DEF Serving
<1>4. CASE DoRead(v)
  <2>1. UNCHANGED <<peer, wl, cl>> /\ job[v].pc = "read"
    BY <1>4 DEF DoRead, net
  <2>2. \E how \in {"done", "failed"} : conn' = Answered(v, how)
    BY <1>4 DEF DoRead, NoReply, GotReply
  <2>3. job'[v].pc = "stats" /\ \A u \in Worker \ {v} : job'[u] = job[u]
    BY <1>1, <1>4 DEF DoRead, NoReply, GotReply, WorkerFailed, Job
  <2> QED
    BY <1>1, <1>2, <2>1, <2>2, <2>3 DEF Serving
<1>5. CASE DoStats(v)
  BY <1>1, <1>5 DEF DoStats, net, IdleJob
<1> QED
  BY <1>3, <1>4, <1>5

\* Every step keeps what holds of the workers' connections.
LEMMA WorkersNext ==
  ASSUME TypeOK, WorkersInv, [Next]_vars
  PROVE  WorkersInv'
<1> SUFFICES ASSUME NEW w \in Worker
             PROVE  WorkerOwned(w)'
  BY DEF WorkersInv
<1>1. WorkerOwned(w)
  BY DEF WorkersInv
<1>2. /\ peer \in [Peer -> {"new", "open", "gone"}] /\ conn \in [Peer -> ConnState]
      /\ w \in Peer
  BY PeersDistinct DEF TypeOK, ConnectionsTyped
<1>3. ASSUME NEW x \in Peer, Dial(x)
      PROVE  WorkerOwned(w)'
  <2>1. /\ Unused(x) /\ peer' = [peer EXCEPT ![x] = "open"]
        /\ conn' = [conn EXCEPT ![x] = "none"] /\ UNCHANGED <<wl, job>>
    BY <1>3 DEF Dial
  <2>2. CASE x = w
    <3>1. job[w].pc = "idle" /\ conn[w] # "open"
      BY <1>1, <2>1, <2>2 DEF WorkerOwned, Unused, Closed
    <3>2. wl.conn # w /\ conn'[w] = "none" /\ peer'[w] = "open"
      BY <1>1, <1>2, <2>1, <2>2, <3>1 DEF WorkerOwned
    <3> QED
      BY <2>1, <3>1, <3>2 DEF WorkerOwned, Serving
  <2>3. CASE x # w
    <3>1. conn'[w] = conn[w] /\ peer'[w] = peer[w]
      BY <1>2, <2>1, <2>3
    <3> QED
      BY <1>1, <2>1, <3>1, WorkerStays
  <2> QED
    BY <2>2, <2>3
<1>4. ASSUME NEW v \in Worker, DoWrite(v) \/ DoRead(v) \/ DoStats(v)
      PROVE  WorkerOwned(w)'
  <2>1. CASE w = v
    BY <1>1, <1>4, <2>1, ItemStep DEF WorkerOwned, Serving
  <2>2. CASE w # v
    BY <1>1, <1>4, <2>2, ItemStep, WorkerStays
  <2> QED
    BY <2>1, <2>2
<1>5. CASE UNCHANGED vars
  BY <1>1, <1>5, WorkerStays DEF vars, net
<1> QED
  BY <1>3, <1>4, <1>5, NextCases, OthersKeepWorkers, ListenerKeepsWorkers

\* A worker's connection is open exactly while the listener or its goroutine
\* uses it, and never both do, for any number of workers.
THEOREM WorkersAreOwned == Spec => []WorkersOwned
<1>1. Init => WorkersInv
  BY PeersDistinct DEF Init, WorkersInv, WorkerOwned, Serving, IdleWorkers, IdleJob
<1>2. TypeOK /\ WorkersInv /\ [Next]_vars => WorkersInv'
  BY WorkersNext
<1>3. WorkersInv => WorkersOwned
  BY DEF WorkersInv, WorkerOwned, WorkersOwned
<1> QED
  BY <1>1, <1>2, <1>3, TypeCorrect, PTL DEF Spec

-----------------------------------------------------------------------------
(* RunningIsInFlight is inductive, given the types and who owns the workers. *)

\* The goroutines of a queue are finitely many.
LEMMA InFlightFinite ==
  ASSUME NEW q
  PROVE  IsFiniteSet(InFlight(q)) /\ Cardinality(InFlight(q)) \in Nat
<1>1. IsFiniteSet(InFlight(q))
  BY ConstantsAssumption, FS_Subset DEF ConstantsAssumption, InFlight
<1> QED
  BY <1>1, FS_CardinalityType

\* Every step keeps the count.
LEMMA RunningNext ==
  ASSUME TypeOK, WorkersInv, RunningIsInFlight, [Next]_vars
  PROVE  RunningIsInFlight'
<1> USE DEF RunningIsInFlight
<1>1. /\ job \in [Worker -> Job] /\ running \in [Queue -> Int]
      /\ \A w \in Worker : job[w].pc # "idle" => job[w].queue \in Queue
  BY DEF TypeOK, JobsTyped, QueuesTyped
<1>2. ASSUME UNCHANGED <<job, running>>
      PROVE  RunningIsInFlight'
  BY <1>2 DEF InFlight
<1>3. CASE HandOut
  <2>1. PICK w \in Worker, q \in Queue : w = wl.conn /\ q = wl.queue
    BY <1>3 DEF HandOut, TypeOK, ListenersTyped
  <2>2. job[w].pc = "idle"
    BY <2>1 DEF WorkersInv, WorkerOwned
  <2>3. /\ job'[w].pc # "idle" /\ job'[w].queue = q
        /\ \A v \in Worker \ {w} : job'[v] = job[v]
    BY <1>1, <1>3, <2>1 DEF HandOut, IdleJob
  <2>4. running' = [running EXCEPT ![q] = running[q] + 1]
    BY <1>3, <2>1 DEF HandOut
  <2>5. InFlight(q)' = InFlight(q) \cup {w} /\ w \notin InFlight(q)
    BY <2>2, <2>3 DEF InFlight
  <2>6. Cardinality(InFlight(q)') = Cardinality(InFlight(q)) + 1
    BY <2>5, InFlightFinite, FS_AddElement
  <2>7. \A p \in Queue \ {q} : InFlight(p)' = InFlight(p)
    BY <2>2, <2>3 DEF InFlight
  <2>8. running'[q] = running[q] + 1 /\ \A p \in Queue \ {q} : running'[p] = running[p]
    BY <1>1, <2>4
  <2> QED
    BY <2>6, <2>7, <2>8
<1>4. ASSUME NEW w \in Worker, DoWrite(w) \/ DoRead(w)
      PROVE  RunningIsInFlight'
  <2>1. /\ job'[w].pc # "idle" /\ job[w].pc # "idle"
        /\ job'[w].queue = job[w].queue
        /\ \A v \in Worker \ {w} : job'[v] = job[v]
    BY <1>4, ItemKept
  <2>2. \A q \in Queue : InFlight(q)' = InFlight(q)
    BY <2>1 DEF InFlight
  <2>3. running' = running
    BY <1>4 DEF DoWrite, DoRead, stats
  <2> QED
    BY <2>2, <2>3
<1>5. ASSUME NEW w \in Worker, DoStats(w)
      PROVE  RunningIsInFlight'
  <2>1. PICK q \in Queue : q = job[w].queue
    BY <1>1, <1>5 DEF DoStats
  <2>2. /\ job[w].pc # "idle" /\ job'[w].pc = "idle"
        /\ \A v \in Worker \ {w} : job'[v] = job[v]
    BY <1>1, <1>5 DEF DoStats, IdleJob
  <2>3. running' = [running EXCEPT ![q] = running[q] - 1]
    BY <1>5, <2>1 DEF DoStats
  <2>4. InFlight(q)' = InFlight(q) \ {w} /\ w \in InFlight(q)
    BY <2>1, <2>2 DEF InFlight
  <2>5. Cardinality(InFlight(q)') = Cardinality(InFlight(q)) - 1
    BY <2>4, InFlightFinite, FS_RemoveElement
  <2>6. \A p \in Queue \ {q} : InFlight(p)' = InFlight(p)
    BY <2>1, <2>2 DEF InFlight
  <2>7. running'[q] = running[q] - 1 /\ \A p \in Queue \ {q} : running'[p] = running[p]
    BY <1>1, <2>3
  <2> QED
    BY <2>5, <2>6, <2>7
<1>6. CASE UNCHANGED vars
  BY <1>2, <1>6 DEF vars, stats
<1>7. ASSUME NEW x \in Peer, Dial(x) \/ Send(x) \/ Hangup(x)
      PROVE  RunningIsInFlight'
  BY <1>2, <1>7 DEF Dial, Send, Hangup, stats
<1>8. ASSUME NEW w \in Worker, Reply(w) \/ AcceptWorker(w)
      PROVE  RunningIsInFlight'
  BY <1>2, <1>8 DEF Reply, AcceptWorker, stats
<1>9. ASSUME NEW c \in Client, AcceptClient(c)
      PROVE  RunningIsInFlight'
  BY <1>2, <1>9 DEF AcceptClient, stats
<1>10. CASE ReadClient \/ EnqueueClient \/ ReadWorker \/ Probe \/ QueueEmpty
  BY <1>2, <1>10 DEF ReadClient, EnqueueClient, ReadWorker, Probe, QueueEmpty, stats
<1>11. ASSUME NEW s \in Scraper, ScrapeStart(s) \/ \E q \in Queue : ScrapeQueue(s, q)
       PROVE  RunningIsInFlight'
  BY <1>2, <1>11 DEF ScrapeStart, ScrapeQueue, stats
<1>12. CASE LogStart \/ \E q \in Queue : LogQueue(q)
  BY <1>2, <1>12 DEF LogStart, LogQueue, stats
<1> QED
  BY <1>3, <1>4, <1>5, <1>6, <1>7, <1>8, <1>9, <1>10, <1>11, <1>12, NextCases

\* hpa_queue_running is exact, for any number of queues and workers.
THEOREM RunningIsExact == Spec => []RunningIsInFlight
<1>1. Init => RunningIsInFlight
  <2> SUFFICES ASSUME Init, NEW q \in Queue
               PROVE  running[q] = Cardinality(InFlight(q))
    BY DEF RunningIsInFlight
  <2>1. InFlight(q) = {} /\ running[q] = 0
    BY DEF Init, InFlight, IdleJob
  <2> QED
    BY <2>1, FS_EmptySet
<1>2. Init => WorkersInv
  BY PeersDistinct DEF Init, WorkersInv, WorkerOwned, Serving, IdleWorkers, IdleJob
<1>3. TypeOK /\ WorkersInv /\ [Next]_vars => WorkersInv'
  BY WorkersNext
<1>4. TypeOK /\ WorkersInv /\ RunningIsInFlight /\ [Next]_vars => RunningIsInFlight'
  BY RunningNext
<1> QED
  BY <1>1, <1>2, <1>3, <1>4, TypeCorrect, PTL DEF Spec

=============================================================================
