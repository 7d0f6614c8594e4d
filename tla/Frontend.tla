------------------------------ MODULE Frontend ------------------------------
(***************************************************************************)
(* The frontend service (cmd/frontend/main.go).  It owns a fixed set of    *)
(* FIFO queues.  One goroutine takes service requests from clients and     *)
(* queues them, one goroutine takes pull requests from backend workers and *)
(* hands the first live request of the queue to the worker, one goroutine  *)
(* per handed-out request waits for the worker's reply and passes it on to *)
(* the client; metric queries and the statistics logger read the queues.   *)
(*                                                                         *)
(* A step of the model is what a goroutine does between two points where   *)
(* another goroutine, or a remote peer, can get in between.  The mutex of  *)
(* a queue is held over more than one such step only by listenForWorkers,  *)
(* while countObsolete probes the clients at the front of the queue; every *)
(* other critical section is one step, taken while Locked(q) is false.     *)
(*                                                                         *)
(* The remote peers are part of the model: they connect, send, fall silent *)
(* and disappear at any time.  The kernel's accept backlog is a set.       *)
(***************************************************************************)
EXTENDS Integers, Sequences, FiniteSets

CONSTANTS
  Queue,     \* the queue names given on the command line
  Client,    \* client connections, each carrying one service request
  Worker,    \* worker connections; an identity is reused once fully closed
  Target,    \* Target[x] is the queue peer x names, unknown if not in Queue
  Chatty,    \* the peers that send more bytes than the first read takes
  QMax,      \* -qmax: most requests a queue may hold, 0 for no limit
  Interval,  \* whether -interval is set, so that logStats runs
  Duration,  \* the wait and run times that are told apart
  Scraper,   \* the metric queries that can be in progress at once
  Wrap,      \* the modulus of the connection counters (uint64 in the code)
  None       \* no peer, no queue

Peer == Client \cup Worker

ASSUME ConstantsAssumption ==
  /\ Client \cap Worker = {}
  /\ IsFiniteSet(Worker)
  /\ Chatty \subseteq Peer
  /\ QMax \in Nat
  /\ Interval \in BOOLEAN
  /\ Duration \subseteq Nat
  /\ Wrap \in Nat \ {0}
  /\ None \notin Peer \cup Queue

VARIABLES
  peer,        \* the remote end of each connection: "new", "open", "gone"
  inbox,       \* what the frontend has not read yet from each connection
  conn,        \* the frontend's end: "none", "open", or how it was closed
  cl,          \* listenForClients: program counter and current connection
  wl,          \* listenForWorkers: the same, its queue and the sweep's count
  items,       \* queueT.items: the waiting requests of each queue
  running,     \* queueT.running
  success,     \* queueT.success
  failure,     \* queueT.failure
  disconnect,  \* queueT.disconnect
  maxima,      \* queueT.maxwait, maxrun and maxtotal
  accepted,    \* requests ever queued; stands for the clock behind item.added
  counters,    \* queuesT.clients, workers and metrics
  job,         \* the doItem goroutine serving each worker connection
  scrape,      \* queues each metric query in progress has still to report
  logging,     \* queues the statistics logger has still to report
  fatal        \* the process ended in log.Fatalf

net    == <<peer, inbox>>
stats  == <<running, success, failure, disconnect, maxima>>
report == <<scrape, logging>>
vars   == <<net, conn, cl, wl, items, stats, accepted, counters, job, report,
            fatal>>

-----------------------------------------------------------------------------
(* Data. *)

\* How the frontend closed a connection: "refused" with an error reply before
\* queueing, "empty" with the queue-empty reply, "dropped" with no reply,
\* "failed" with an error reply because the worker failed, "done" with the
\* worker's reply, "served" for the worker's own connection after processItem.
Closed == {"refused", "empty", "dropped", "failed", "done", "served"}

ConnState == {"none", "open"} \cup Closed

\* "silent" until the peer's request arrives, "drained" once it is read;
\* "extra" are bytes nobody asked for, "reply" the worker's reply.
InboxState == {"silent", "request", "drained", "extra", "reply"}

Item    == [client : Client, added : Nat]
Maxima  == [wait : Nat, run : Nat, total : Nat]
NoTimes == [wait |-> 0, run |-> 0, total |-> 0]

\* What a worker's reply says: "ok", an error with return code 0 (sleep
\* timeout, unmappable FILENAME), a non-zero return code, or no valid JSON.
ReplyKind == {"ok", "error0", "retcode", "malformed"}

Retcode(kind) == IF kind \in {"ok", "error0"} THEN 0 ELSE 1

IdleJob == [pc |-> "idle", queue |-> None, client |-> None, added |-> 0,
            wait |-> 0, run |-> 0, ret |-> 1]
Job     == [pc     : {"idle", "write", "read", "stats"},
            queue  : Queue \cup {None},
            client : Client \cup {None},
            added  : Nat,
            wait   : Nat,
            run    : Nat,
            ret    : {0, 1}]

IdleClients == [pc |-> "accept", conn |-> None]
IdleWorkers == [pc |-> "accept", conn |-> None, queue |-> None, offset |-> 0]

Count(n) == (n + 1) % Wrap

\* The mutex of q is held from one step to the next.
Locked(q) == wl.queue = q

Init ==
  /\ peer       = [x \in Peer |-> "new"]
  /\ inbox      = [x \in Peer |-> "silent"]
  /\ conn       = [x \in Peer |-> "none"]
  /\ cl         = IdleClients
  /\ wl         = IdleWorkers
  /\ items      = [q \in Queue |-> <<>>]
  /\ running    = [q \in Queue |-> 0]
  /\ success    = [q \in Queue |-> 0]
  /\ failure    = [q \in Queue |-> 0]
  /\ disconnect = [q \in Queue |-> 0]
  /\ maxima     = [q \in Queue |-> NoTimes]
  /\ accepted   = [q \in Queue |-> 0]
  /\ counters   = [clients |-> 0, workers |-> 0, metrics |-> 0]
  /\ job        = [w \in Worker |-> IdleJob]
  /\ scrape     = [s \in Scraper |-> {}]
  /\ logging    = {}
  /\ fatal      = FALSE

-----------------------------------------------------------------------------
(* The remote peers. *)

\* A connection identity is fresh, or both of its ends are closed and no
\* goroutine uses it any more.  Clients' identities are never reused.
Unused(x) ==
  \/ peer[x] = "new"
  \/ /\ x \in Worker
     /\ peer[x] = "gone" /\ conn[x] \in Closed /\ job[x].pc = "idle"

Dial(x) ==
  /\ Unused(x)
  /\ peer'  = [peer  EXCEPT ![x] = "open"]
  /\ inbox' = [inbox EXCEPT ![x] = "silent"]
  /\ conn'  = [conn  EXCEPT ![x] = "none"]
  /\ UNCHANGED <<cl, wl, items, stats, accepted, counters, job, report, fatal>>

Send(x) ==
  /\ peer[x] = "open" /\ inbox[x] = "silent"
  /\ inbox' = [inbox EXCEPT ![x] = "request"]
  /\ UNCHANGED <<peer, conn, cl, wl, items, stats, accepted, counters, job,
                 report, fatal>>

\* The worker has run the workload and sends its reply.
Reply(w) ==
  /\ peer[w] = "open" /\ inbox[w] = "drained" /\ job[w].pc = "read"
  /\ inbox' = [inbox EXCEPT ![w] = "reply"]
  /\ UNCHANGED <<peer, conn, cl, wl, items, stats, accepted, counters, job,
                 report, fatal>>

\* The peer closes its end, or dies; what it sent before can still be read.
Hangup(x) ==
  /\ peer[x] = "open"
  /\ peer' = [peer EXCEPT ![x] = "gone"]
  /\ UNCHANGED <<inbox, conn, cl, wl, items, stats, accepted, counters, job,
                 report, fatal>>

-----------------------------------------------------------------------------
(* listenForClients. *)

AcceptClient(c) ==
  /\ cl.pc = "accept"
  /\ peer[c] # "new" /\ conn[c] = "none"
  /\ cl'       = [pc |-> "read", conn |-> c]
  /\ conn'     = [conn EXCEPT ![c] = "open"]
  /\ counters' = [counters EXCEPT !.clients = Count(@)]
  /\ UNCHANGED <<net, wl, items, stats, accepted, job, report, fatal>>

\* A read returns what the peer sent, or the end of the stream once the peer
\* is gone.  There is no deadline: an open, silent peer blocks the listener.
Readable(x) == inbox[x] = "request" \/ (inbox[x] = "silent" /\ peer[x] = "gone")

\* The peer's first message was read and names one of the queues.
Valid(x) == inbox[x] = "request" /\ Target[x] \in Queue

\* One read takes one segment: what a chatty peer sent after it stays.
AfterRead(x) ==
  [inbox EXCEPT ![x] = IF @ # "request" THEN @
                       ELSE IF x \in Chatty THEN "extra" ELSE "drained"]

ReadClient ==
  LET c == cl.conn IN
  /\ cl.pc = "read" /\ Readable(c)
  /\ inbox' = AfterRead(c)
  /\ cl'    = IF Valid(c) THEN [cl EXCEPT !.pc = "lock"] ELSE IdleClients
  /\ conn'  = IF Valid(c) THEN conn ELSE [conn EXCEPT ![c] = "refused"]
  /\ UNCHANGED <<peer, wl, items, stats, accepted, counters, job, report, fatal>>

\* MUTANT of AtCapacity: the limit admits one request too many.
AtCapacityLate(q) == QMax > 0 /\ Len(items[q]) > QMax

AtCapacity(q) == QMax > 0 /\ Len(items[q]) >= QMax

\* MUTANT of Queued: the newest request jumps the queue.
QueuedFirst(q, item) == <<item>> \o items[q]

Queued(q, item) == Append(items[q], item)

EnqueueClient ==
  LET c == cl.conn
      q == Target[c]
  IN
  /\ cl.pc = "lock" /\ ~Locked(q)
  /\ IF AtCapacity(q)
     THEN /\ conn' = [conn EXCEPT ![c] = "refused"]
          /\ UNCHANGED <<items, accepted>>
     ELSE /\ items'    = [items EXCEPT ![q] =
                            Queued(q, [client |-> c, added |-> accepted[q]])]
          /\ accepted' = [accepted EXCEPT ![q] = @ + 1]
          /\ UNCHANGED conn
  /\ cl' = IdleClients
  /\ UNCHANGED <<net, wl, stats, counters, job, report, fatal>>

-----------------------------------------------------------------------------
(* listenForWorkers, with countObsolete. *)

AcceptWorker(w) ==
  /\ wl.pc = "accept"
  /\ peer[w] # "new" /\ conn[w] = "none"
  /\ wl'       = [wl EXCEPT !.pc = "read", !.conn = w]
  /\ conn'     = [conn EXCEPT ![w] = "open"]
  /\ counters' = [counters EXCEPT !.workers = Count(@)]
  /\ UNCHANGED <<net, cl, items, stats, accepted, job, report, fatal>>

\* A valid pull request ends with the queue's mutex taken, which is free:
\* every other goroutine releases it in the step that takes it.
ReadWorker ==
  LET w == wl.conn IN
  /\ wl.pc = "read" /\ Readable(w)
  /\ inbox' = AfterRead(w)
  /\ wl'    = IF Valid(w)
              THEN [wl EXCEPT !.pc = "sweep", !.queue = Target[w]]
              ELSE IdleWorkers
  /\ conn'  = IF Valid(w) THEN conn ELSE [conn EXCEPT ![w] = "refused"]
  /\ UNCHANGED <<peer, cl, items, stats, accepted, counters, job, report, fatal>>

\* The one-byte read of the probe ends by itself, at the end of the stream or
\* with a byte that the first read left over, instead of at its deadline.
Obsolete(c) == peer[c] = "gone" \/ inbox[c] # "drained"

\* MUTANT of AfterProbe: disappeared clients are skipped but not closed.
LeakAfterProbe(c) == conn

\* The frontend's ends after the probe of c.
AfterProbe(c) == IF Obsolete(c) THEN [conn EXCEPT ![c] = "dropped"] ELSE conn

\* One round of countObsolete.  Setting a deadline on a connection that the
\* frontend itself has closed fails, and ends the process.
Probe ==
  LET c == items[wl.queue][wl.offset + 1].client IN
  /\ wl.pc = "sweep" /\ wl.offset < Len(items[wl.queue])
  /\ IF conn[c] # "open"
     THEN fatal' = TRUE /\ UNCHANGED <<wl, conn>>
     ELSE /\ wl'   = IF Obsolete(c) THEN [wl EXCEPT !.offset = @ + 1]
                                    ELSE [wl EXCEPT !.pc = "alive"]
          /\ conn' = AfterProbe(c)
          /\ UNCHANGED fatal
  /\ UNCHANGED <<net, cl, items, stats, accepted, counters, job, report>>

\* MUTANT of Discarded: a pull that hands out work forgets the count.
DiscardedIfEmpty ==
  [disconnect EXCEPT ![wl.queue] =
     IF wl.offset < Len(items[wl.queue]) THEN @ ELSE @ + wl.offset]

Discarded == [disconnect EXCEPT ![wl.queue] = @ + wl.offset]

\* MUTANT of Unlocked: the mutex is kept when the listener goes on.
StillLocked == [IdleWorkers EXCEPT !.queue = wl.queue]

\* The end of the listener's round, which releases the queue's mutex.
Unlocked == IdleWorkers

QueueEmpty ==
  /\ wl.pc = "sweep" /\ wl.offset >= Len(items[wl.queue])
  /\ disconnect' = Discarded
  /\ items'      = [items EXCEPT ![wl.queue] = <<>>]
  /\ conn'       = [conn EXCEPT ![wl.conn] = "empty"]
  /\ wl'         = Unlocked
  /\ UNCHANGED <<net, cl, running, success, failure, maxima, accepted,
                 counters, job, report, fatal>>

\* MUTANT of Remaining: the queue is cut as if nothing had been discarded.
RemainingOffByOne(q, offset) == SubSeq(items[q], offset + 1, Len(items[q]))

\* queue.items[offset+1:], what is left when the first live item is taken.
Remaining(q, offset) == SubSeq(items[q], offset + 2, Len(items[q]))

HandOut ==
  LET q    == wl.queue
      item == items[q][wl.offset + 1]
  IN
  /\ wl.pc = "alive"
  /\ disconnect' = Discarded
  /\ job'     = [job EXCEPT ![wl.conn] =
                   [IdleJob EXCEPT !.pc = "write", !.queue = q,
                      !.client = item.client, !.added = item.added]]
  /\ items'   = [items EXCEPT ![q] = Remaining(q, wl.offset)]
  /\ running' = [running EXCEPT ![q] = @ + 1]
  /\ wl'      = Unlocked
  /\ UNCHANGED <<net, conn, cl, success, failure, maxima, accepted, counters,
                 report, fatal>>

-----------------------------------------------------------------------------
(* doItem with processItem, one goroutine per worker that got an item. *)

\* MUTANT of WorkerFailed: a failed write or read skips the statistics.
WorkerFailedUncounted(w, wait) ==
  [job EXCEPT ![w] = IdleJob]

\* processItem returns after it could not reach the worker, with return code 1.
WorkerFailed(w, wait) ==
  [job EXCEPT ![w] = [@ EXCEPT !.pc = "stats", !.wait = wait]]

\* MUTANT of Answered: the client of a failed worker is forgotten.
AnsweredIfDone(w, outcome) ==
  IF outcome = "done"
  THEN [conn EXCEPT ![w] = "served", ![job[w].client] = outcome]
  ELSE [conn EXCEPT ![w] = "served"]

\* MUTANT of Answered: the worker's connection is not closed.
WorkerLeftOpen(w, outcome) == [conn EXCEPT ![job[w].client] = outcome]

\* Both connections are closed, the client's after a reply of that kind.
Answered(w, outcome) ==
  [conn EXCEPT ![w] = "served", ![job[w].client] = outcome]

\* The write of the work item succeeds, even to a worker that is gone when
\* the kernel has not noticed, or fails because the worker is gone.
DoWrite(w) ==
  /\ job[w].pc = "write"
  /\ \E wait \in Duration :
       \/ /\ job' = [job EXCEPT ![w] = [@ EXCEPT !.pc = "read", !.wait = wait]]
          /\ UNCHANGED conn
       \/ /\ peer[w] = "gone"
          /\ job'  = WorkerFailed(w, wait)
          /\ conn' = Answered(w, "failed")
  /\ UNCHANGED <<net, cl, wl, items, stats, accepted, counters, report, fatal>>

\* The worker is gone and sent no reply.
NoReply(w) ==
  /\ peer[w] = "gone" /\ inbox[w] = "drained"
  /\ job'  = WorkerFailed(w, job[w].wait)
  /\ conn' = Answered(w, "failed")

\* The worker's reply, or what it sent after its pull request, taken for one.
\* A reply whose JSON does not fit may have set the run time before the error
\* was found.
GotReply(w) ==
  /\ inbox[w] \in {"reply", "extra"}
  /\ \E kind \in ReplyKind, run \in Duration :
       /\ job'  = [job EXCEPT ![w] = [@ EXCEPT !.pc = "stats", !.run = run,
                                                !.ret = Retcode(kind)]]
       /\ conn' = Answered(w, IF kind = "malformed" THEN "failed" ELSE "done")

DoRead(w) ==
  /\ job[w].pc = "read"
  /\ NoReply(w) \/ GotReply(w)
  /\ UNCHANGED <<net, cl, wl, items, stats, accepted, counters, report, fatal>>

Larger(a, b) == IF a > b THEN a ELSE b

\* MUTANT of Raised: the total is taken from the largest parts.
RaisedSeparately(m, wait, run) ==
  [wait  |-> Larger(m.wait, wait),
   run   |-> Larger(m.run, run),
   total |-> Larger(m.total, run)]

\* The timing maxima once a request with those times is finished.
Raised(m, wait, run) ==
  [wait  |-> Larger(m.wait, wait),
   run   |-> Larger(m.run, run),
   total |-> Larger(m.total, wait + run)]

DoStats(w) ==
  LET q == job[w].queue IN
  /\ job[w].pc = "stats" /\ ~Locked(q)
  /\ maxima'  = [maxima EXCEPT ![q] = Raised(@, job[w].wait, job[w].run)]
  /\ success' = [success EXCEPT ![q] = IF job[w].ret = 0 THEN @ + 1 ELSE @]
  /\ failure' = [failure EXCEPT ![q] = IF job[w].ret = 0 THEN @ ELSE @ + 1]
  /\ running' = [running EXCEPT ![q] = @ - 1]
  /\ job'     = [job EXCEPT ![w] = IdleJob]
  /\ UNCHANGED <<net, conn, cl, wl, items, disconnect, accepted, counters,
                 report, fatal>>

-----------------------------------------------------------------------------
(* Metric queries and the statistics logger. *)

\* MUTANT of Reported: the reset forgets the maximum of the total.
ReportedNotTotal(q) ==
  [maxima EXCEPT ![q] = [NoTimes EXCEPT !.total = maxima[q].total]]

\* The maxima after the queue's were written out and reset.
Reported(q) == [maxima EXCEPT ![q] = NoTimes]

ScrapeStart(s) ==
  /\ scrape[s] = {}
  /\ counters' = [counters EXCEPT !.metrics = Count(@)]
  /\ scrape'   = [scrape EXCEPT ![s] = Queue]
  /\ UNCHANGED <<net, conn, cl, wl, items, stats, accepted, job, logging, fatal>>

\* The queues are reported one by one, in no particular order.
ScrapeQueue(s, q) ==
  /\ q \in scrape[s] /\ ~Locked(q)
  /\ maxima' = IF Interval THEN maxima ELSE Reported(q)
  /\ scrape' = [scrape EXCEPT ![s] = @ \ {q}]
  /\ UNCHANGED <<net, conn, cl, wl, items, running, success, failure,
                 disconnect, accepted, counters, job, logging, fatal>>

LogStart ==
  /\ Interval /\ logging = {}
  /\ logging' = Queue
  /\ UNCHANGED <<net, conn, cl, wl, items, stats, accepted, counters, job,
                 scrape, fatal>>

LogQueue(q) ==
  /\ q \in logging /\ ~Locked(q)
  /\ maxima'  = Reported(q)
  /\ logging' = logging \ {q}
  /\ UNCHANGED <<net, conn, cl, wl, items, running, success, failure,
                 disconnect, accepted, counters, job, scrape, fatal>>

-----------------------------------------------------------------------------
(* The specification. *)

ListenForClients == (\E c \in Client : AcceptClient(c)) \/ ReadClient \/ EnqueueClient

ListenForWorkers ==
  (\E w \in Worker : AcceptWorker(w)) \/ ReadWorker \/ Probe \/ QueueEmpty \/ HandOut

DoItem(w) == DoWrite(w) \/ DoRead(w) \/ DoStats(w)

Exporter(s) == ScrapeStart(s) \/ \E q \in Queue : ScrapeQueue(s, q)

LogStats == LogStart \/ \E q \in Queue : LogQueue(q)

Peers == \/ \E x \in Peer : Dial(x) \/ Send(x) \/ Hangup(x)
         \/ \E w \in Worker : Reply(w)

\* Once the process has ended nothing happens any more.
Next ==
  /\ ~fatal
  /\ \/ Peers
     \/ ListenForClients
     \/ ListenForWorkers
     \/ \E w \in Worker : DoItem(w)
     \/ \E s \in Scraper : Exporter(s)
     \/ LogStats

Spec == Init /\ [][Next]_vars

\* A goroutine that can go on does so; a mutex released again and again goes
\* to the goroutine that waits for it, as Go's starvation mode sees to, and
\* the backlog of a listener is served in order.
FrontendFairness ==
  /\ WF_vars(~fatal /\ ReadClient)  /\ SF_vars(~fatal /\ EnqueueClient)
  /\ WF_vars(~fatal /\ ReadWorker)  /\ WF_vars(~fatal /\ Probe)
  /\ WF_vars(~fatal /\ QueueEmpty)  /\ WF_vars(~fatal /\ HandOut)
  /\ \A c \in Client : SF_vars(~fatal /\ AcceptClient(c))
  /\ \A w \in Worker :
       /\ SF_vars(~fatal /\ AcceptWorker(w))
       /\ WF_vars(~fatal /\ DoWrite(w))  /\ WF_vars(~fatal /\ DoRead(w))
       /\ SF_vars(~fatal /\ DoStats(w))

\* Workers keep pulling; a connected peer that is to say something does so or
\* goes away, as the code sets no deadline that would stand in for it.
PeerFairness ==
  /\ \A x \in Peer : WF_vars(~fatal /\ inbox[x] = "silent" /\ (Send(x) \/ Hangup(x)))
  /\ \A w \in Worker :
       /\ WF_vars(~fatal /\ Dial(w))  /\ SF_vars(~fatal /\ Send(w))
       /\ WF_vars(~fatal /\ conn[w] \in Closed /\ Hangup(w))
       /\ WF_vars(~fatal /\ job[w].pc = "read" /\ inbox[w] = "drained"
                         /\ (Reply(w) \/ Hangup(w)))

FairSpec == Spec /\ FrontendFairness /\ PeerFairness

-----------------------------------------------------------------------------
(* Properties. *)

ConnectionsTyped ==
  /\ peer  \in [Peer -> {"new", "open", "gone"}]
  /\ inbox \in [Peer -> InboxState]
  /\ conn  \in [Peer -> ConnState]

ListenersTyped ==
  /\ cl \in [pc : {"accept", "read", "lock"}, conn : Client \cup {None}]
  /\ wl \in [pc : {"accept", "read", "sweep", "alive"}, conn : Worker \cup {None},
             queue : Queue \cup {None}, offset : Nat]
  /\ cl.pc # "accept" <=> cl.conn \in Client
  /\ cl.pc = "lock" => Target[cl.conn] \in Queue
  /\ wl.pc # "accept" <=> wl.conn \in Worker
  /\ wl.pc \in {"sweep", "alive"} <=> wl.queue \in Queue
  /\ wl.pc \in {"accept", "read"} => wl.offset = 0
  /\ wl.pc = "sweep" => wl.offset <= Len(items[wl.queue])
  /\ wl.pc = "alive" => wl.offset < Len(items[wl.queue])

QueuesTyped ==
  /\ items      \in [Queue -> Seq(Item)]
  /\ running    \in [Queue -> Int]
  /\ success    \in [Queue -> Nat]
  /\ failure    \in [Queue -> Nat]
  /\ disconnect \in [Queue -> Nat]
  /\ maxima     \in [Queue -> Maxima]
  /\ accepted   \in [Queue -> Nat]

CountersTyped ==
  counters \in [clients : 0 .. Wrap - 1, workers : 0 .. Wrap - 1,
                metrics : 0 .. Wrap - 1]

JobsTyped ==
  /\ job \in [Worker -> Job]
  /\ \A w \in Worker :
       job[w].pc # "idle" => job[w].queue \in Queue /\ job[w].client \in Client

ReportsTyped ==
  /\ scrape  \in [Scraper -> SUBSET Queue]
  /\ logging \in SUBSET Queue

\* Every variable has its type; a listener or the goroutine of an item names a
\* connection and a queue exactly when it works on one, and a sweep does not
\* run past the end of its queue.
TypeOK == /\ ConnectionsTyped /\ ListenersTyped /\ QueuesTyped
          /\ CountersTyped /\ JobsTyped /\ ReportsTyped /\ fatal \in BOOLEAN

\* No request is lost or counted twice: whatever was queued still waits, is
\* being worked on, or was counted as a success, a failure or a disconnect.
Conservation ==
  \A q \in Queue :
    accepted[q] = Len(items[q]) + running[q] + success[q] + failure[q]
                  + disconnect[q]

InFlight(q) == {w \in Worker : job[w].pc # "idle" /\ job[w].queue = q}

\* hpa_queue_running counts the worker goroutines of the queue, on every path
\* through processItem and whatever the order in which they get the mutex.
RunningIsInFlight == \A q \in Queue : running[q] = Cardinality(InFlight(q))

Swept(q) == IF Locked(q) THEN wl.offset ELSE 0

Serving(w) == job[w].pc \in {"write", "read"}

\* Position i of queue q holds c's connection, and no sweep has passed it.
QueuedAt(q, i, c) == /\ i \in Swept(q) + 1 .. Len(items[q])
                     /\ items[q][i].client = c

\* The parts of the frontend that refer to c's connection and will use it: a
\* position of a queue, the goroutine of a worker (and the client listener).
IsQueued(c) == \E q \in Queue : \E i \in DOMAIN items[q] : QueuedAt(q, i, c)
IsServed(c) == \E w \in Worker : Serving(w) /\ job[w].client = c

\* An open client connection is owned by exactly one part of the frontend, and
\* a closed one by none.
ClientsOwned ==
  \A c \in Client :
    /\ conn[c] = "open" <=> (cl.conn = c \/ IsQueued(c) \/ IsServed(c))
    /\ cl.conn = c => ~IsQueued(c) /\ ~IsServed(c)
    /\ IsQueued(c) => ~IsServed(c)
    /\ \A v, w \in Worker :
         Serving(v) /\ job[v].client = c /\ Serving(w) /\ job[w].client = c
           => v = w
    /\ \A p, q \in Queue : \A i \in DOMAIN items[p], j \in DOMAIN items[q] :
         QueuedAt(p, i, c) /\ QueuedAt(q, j, c) => p = q /\ i = j

\* The same of the workers' connections.
WorkersOwned ==
  \A w \in Worker :
    /\ conn[w] = "open" <=> (wl.conn = w \/ Serving(w))
    /\ ~(wl.conn = w /\ job[w].pc # "idle")

\* No connection leaks, and none is closed or written to by two goroutines.
OpenIffOwned == ClientsOwned /\ WorkersOwned

\* log.Fatalf in countObsolete is out of reach: the queue never holds a
\* connection that the frontend has closed itself.
NeverFatal == ~fatal

\* Requests leave a queue in the order in which they entered it: whatever is
\* being worked on is older than everything that waits.
FifoDispatch ==
  \A q \in Queue : \A j \in 1 .. Len(items[q]) :
    /\ items[q][j].added < accepted[q]
    /\ \A i \in 1 .. j - 1 : items[q][i].added < items[q][j].added
    /\ \A w \in InFlight(q) : job[w].added < items[q][j].added

\* The queue's statistics and what its clients experienced are the same: each
\* reply a client got from a worker or for a failed one is counted once its
\* goroutine has the mutex, each one dropped by a sweep when the sweep ends.
OutcomesCounted ==
  \A q \in Queue :
    LET Ended(how) == {c \in Client : Target[c] = q /\ conn[c] \in how} IN
    /\ Cardinality(Ended({"done", "failed"})) =
         success[q] + failure[q]
           + Cardinality({w \in InFlight(q) : job[w].pc = "stats"})
    /\ Cardinality(Ended({"dropped"})) = disconnect[q] + Swept(q)
    /\ failure[q] + Cardinality({w \in InFlight(q) : job[w].pc = "stats"})
         >= Cardinality(Ended({"failed"}))

\* The maxima of a queue describe requests that existed, also after resets by
\* several reporters: the total is at least the wait and the run time, and no
\* more than both together.
MaximaConsistent ==
  \A q \in Queue :
    /\ maxima[q].total >= maxima[q].wait
    /\ maxima[q].total >= maxima[q].run
    /\ maxima[q].total <= maxima[q].wait + maxima[q].run

\* A client gets one outcome: once the frontend has closed its connection,
\* it never replies on it or closes it again in another way.
ClosedIsFinal ==
  [][\A c \in Client : conn[c] \in Closed => conn'[c] = conn[c]]_vars

\* As long as workers keep pulling and everyone connected speaks up or goes
\* away, a valid request is answered, refused or dropped in the end.
EveryRequestEnds ==
  \A c \in Client : (cl.pc = "lock" /\ cl.conn = c) ~> conn[c] \in Closed

\* Under the same assumptions a worker that was accepted is let go again, and
\* a goroutine that got a work item ends.
EveryWorkerIsReleased ==
  \A w \in Worker :
    conn[w] = "open" ~> (conn[w] # "open" /\ job[w].pc = "idle")

-----------------------------------------------------------------------------
(* The frontend implements the abstract work queues. *)

Outcome(c) ==
  CASE conn[c] \in {"none", "open"}   -> "none"
    [] conn[c] \in {"done", "failed"} -> "answered"
    [] OTHER                          -> conn[c]

Abstract == INSTANCE WorkQueue WITH
  pending <- [q \in Queue |->
                [i \in 1 .. Len(items[q]) - Swept(q) |-> items[q][Swept(q) + i].client]],
  serving <- [w \in Worker |-> IF Serving(w) THEN job[w].client ELSE None],
  fate    <- [c \in Client |-> Outcome(c)]

\* Behind the connections, the mutexes and the sweeps, the frontend is a set
\* of bounded first-in first-out queues whose requests each end once.
ImplementsWorkQueue == Abstract!Spec

=============================================================================
