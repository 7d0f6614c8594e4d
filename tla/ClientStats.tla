---------------------------- MODULE ClientStats ----------------------------
(***************************************************************************)
(* The statistics of the client (cmd/client/main.go).  Request threads     *)
(* count a request when it starts and when its reply has come; HTTP        *)
(* queries read the statistics, and one of them resets them while requests *)
(* are in flight.  Every critical section of stats.mutex is one step.      *)
(***************************************************************************)
EXTENDS Integers, FiniteSets

CONSTANTS
  Thread,     \* the request threads
  Node,       \* the node names that replies give
  Device,     \* the device names that successes give
  Pod,        \* the pod names that successes give
  Error,      \* the error messages that failures give
  Runtime,    \* the run times of replies that are told apart
  Waittime,   \* the same of the wait times
  Elapsed,    \* the same of the times between request and reply
  Query,      \* the HTTP queries that can be in progress at once
  Wrap,       \* the modulus of the unsigned counters (2^64 in the code)
  MaxCols,    \* the width of a full bar in a histogram (60 in the code)
  MaxReplies, \* a bound for TLC: the most replies between two resets
  NoNode      \* a reply that names no node

ASSUME StatsAssumption ==
  /\ IsFiniteSet(Thread)
  /\ Wrap \in Nat /\ Cardinality(Thread) < Wrap
  /\ Runtime \subseteq Nat /\ Waittime \subseteq Nat /\ Elapsed \subseteq Nat
  /\ MaxCols \in Nat /\ MaxReplies \in Nat
  /\ NoNode \notin Node

VARIABLES
  thread,   \* "idle", "fresh" with a request started since the last reset,
            \* or "stale" with one from before it
  pending,  \* stats.pending
  success,  \* stats.reply.success
  failure,  \* stats.reply.failure
  node,     \* the replies of each node in stats.node
  run,      \* stats.run
  wait,     \* stats.wait
  comm,     \* stats.comm
  moved,    \* how often a request has set stats.start since the last reset
            \* (no state of the program)
  query,    \* each HTTP query: not there, or served and to be counted
  http,     \* stats.completed and stats.rejected
  exited    \* the process has ended

times == <<run, wait, comm>>
vars  == <<thread, pending, success, failure, node, times, moved, query, http, exited>>

NoTimes   == [min |-> 0, max |-> 0, total |-> 0]

\* A new entry of stats.node; a name that its maps lack is counted 0 times.
NoReplies == [success |-> 0, failure |-> 0,
              device  |-> [d \in Device |-> 0],
              pod     |-> [p \in Pod |-> 0],
              error   |-> [e \in Error |-> 0]]

NoNodes   == [n \in {} |-> NoReplies]

Up(n)   == (n + 1) % Wrap
Down(n) == (n - 1) % Wrap

Init ==
  /\ thread  = [t \in Thread |-> "idle"]
  /\ pending = 0 /\ success = 0 /\ failure = 0
  /\ node    = NoNodes
  /\ run     = NoTimes /\ wait = NoTimes /\ comm = NoTimes
  /\ moved   = 0
  /\ query   = [h \in Query |-> "none"]
  /\ http    = [completed |-> 0, rejected |-> 0]
  /\ exited  = FALSE

-----------------------------------------------------------------------------
(* The request threads. *)

Busy == {t \in Thread : thread[t] # "idle"}

\* MUTANT of FirstRequest: requests that have failed do not count.
FirstSuccess == pending = 0 /\ success = 0

\* No request has been counted since the last reset.
FirstRequest == pending = 0 /\ success = 0 /\ failure = 0

StatsStart(t) ==
  /\ thread[t] = "idle"
  /\ success + failure + Cardinality(Busy) < MaxReplies
  /\ thread'  = [thread EXCEPT ![t] = "fresh"]
  /\ moved'   = IF FirstRequest THEN moved + 1 ELSE moved
  /\ pending' = Up(pending)
  /\ UNCHANGED <<success, failure, node, times, query, http, exited>>

\* stats.node[n], which is added if it is missing.
Replies(n) == IF n \in DOMAIN node THEN node[n] ELSE NoReplies

\* One of the maps of an entry with name x counted once more.
Counted(count, x) == [count EXCEPT ![x] = @ + 1]

\* stats.node with another entry for node n.
WithNode(n, replies) ==
  [m \in DOMAIN node \cup {n} |-> IF m = n THEN replies ELSE node[m]]

\* MUTANT of UpdateTime: the time is compared with the total.
UpdateTimeTotal(t, secs) ==
  [max   |-> IF secs > t.total THEN secs ELSE t.max,
   min   |-> IF secs < t.min THEN secs ELSE t.min,
   total |-> t.total + secs]

UpdateTime(t, secs) ==
  [max   |-> IF secs > t.max THEN secs ELSE t.max,
   min   |-> IF secs < t.min THEN secs ELSE t.min,
   total |-> t.total + secs]

WithSuccess(n, d, p) ==
  WithNode(n, [Replies(n) EXCEPT !.success = @ + 1, !.device = Counted(@, d),
                                 !.pod = Counted(@, p)])

StatsSuccess(t) ==
  /\ thread[t] # "idle"
  /\ thread'  = [thread EXCEPT ![t] = "idle"]
  /\ pending' = Down(pending)
  /\ success' = success + 1
  /\ \E n \in Node, d \in Device, p \in Pod : node' = WithSuccess(n, d, p)
  /\ \E r \in Runtime, w \in Waittime, e \in Elapsed :
       /\ run'  = UpdateTime(run, r)
       /\ wait' = UpdateTime(wait, w)
       /\ comm' = UpdateTime(comm, e - w - r)
  /\ UNCHANGED <<failure, moved, query, http, exited>>

\* MUTANT of WithFailure: a failure without a node goes to an unnamed node.
WithFailureAlways(n, e) ==
  WithNode(n, [Replies(n) EXCEPT !.failure = @ + 1, !.error = Counted(@, e)])

\* A failure may come from the frontend, which names no node.
WithFailure(n, e) ==
  IF n = NoNode THEN node
  ELSE WithNode(n, [Replies(n) EXCEPT !.failure = @ + 1, !.error = Counted(@, e)])

\* MUTANT of AfterFailure: a failed request stays in flight.
FailurePends == pending

\* stats.pending after a failure.
AfterFailure == Down(pending)

StatsFailure(t) ==
  /\ thread[t] # "idle"
  /\ thread'  = [thread EXCEPT ![t] = "idle"]
  /\ pending' = AfterFailure
  /\ failure' = failure + 1
  /\ \E n \in Node \cup {NoNode}, e \in Error : node' = WithFailure(n, e)
  /\ UNCHANGED <<success, times, moved, query, http, exited>>

\* Sending, reading or parsing failed, or a success names no node.
Fatal(t) ==
  /\ thread[t] # "idle"
  /\ exited' = TRUE
  /\ UNCHANGED <<thread, pending, success, failure, node, times, moved, query, http>>

-----------------------------------------------------------------------------
(* The HTTP queries. *)

\* The requests in flight are from before the reset now.
Forgotten == [t \in Thread |-> IF thread[t] = "idle" THEN "idle" ELSE "stale"]

\* MUTANT of AfterReset: the replies of the nodes are kept.
NodesKept == node

\* stats.node after a reset.
AfterReset == NoNodes

StatsReset(h) ==
  /\ query[h] = "none"
  /\ thread'  = Forgotten
  /\ pending' = 0 /\ success' = 0 /\ failure' = 0
  /\ node'    = AfterReset
  /\ run'     = NoTimes /\ wait' = NoTimes /\ comm' = NoTimes
  /\ moved'   = 0
  /\ query'   = [query EXCEPT ![h] = "completed"]
  /\ UNCHANGED <<http, exited>>

\* Any other query, or one that is not accepted.
Serve(h) ==
  /\ query[h] = "none"
  /\ \E result \in {"completed", "rejected"} : query' = [query EXCEPT ![h] = result]
  /\ UNCHANGED <<thread, pending, success, failure, node, times, moved, http, exited>>

\* myHandler counts the query once its handler has returned.
CountQuery(h) ==
  /\ query[h] # "none"
  /\ http'  = [http EXCEPT ![query[h]] = Up(@)]
  /\ query' = [query EXCEPT ![h] = "none"]
  /\ UNCHANGED <<thread, pending, success, failure, node, times, moved, exited>>

\* MUTANT of Bar: the whole of the total is added to round.
BarUp(total, part) == IF total = 0 THEN 0 ELSE (total + MaxCols * part) \div total

\* The width of the bar of a histogram's line, rounded.
Bar(total, part) == IF total = 0 THEN 0 ELSE (total \div 2 + MaxCols * part) \div total

\* The replies of one kind by node.
ByNode(kind) == [n \in DOMAIN node |-> node[n][kind]]

Of(total, parts) == [total |-> total, parts |-> parts]

\* The names that a map has an entry for.
Entries(count) == [x \in {y \in DOMAIN count : count[y] > 0} |-> count[x]]

\* What the query for /nodes, the one for /pods and the exit print.
Histograms ==
  {Of(success, ByNode("success"))}
    \cup (IF failure = 0 THEN {} ELSE {Of(failure, ByNode("failure"))})
    \cup {Of(node[n].success, Entries(node[n].device)) : n \in DOMAIN node}
    \cup {Of(node[n].success, Entries(node[n].pod)) : n \in DOMAIN node}

Next ==
  /\ ~exited
  /\ \/ \E t \in Thread : StatsStart(t) \/ StatsSuccess(t) \/ StatsFailure(t) \/ Fatal(t)
     \/ \E h \in Query : StatsReset(h) \/ Serve(h) \/ CountQuery(h)

Spec == Init /\ [][Next]_vars

-----------------------------------------------------------------------------
(* Properties. *)

NodeStats == [success : Nat, failure : Nat, device : [Device -> Nat],
              pod : [Pod -> Nat], error : [Error -> Nat]]
Times   == [min : Int, max : Int, total : Int]

\* Every variable has its type.
TypeOK ==
  /\ thread  \in [Thread -> {"idle", "fresh", "stale"}]
  /\ pending \in 0 .. Wrap - 1
  /\ success \in Nat /\ failure \in Nat
  /\ DOMAIN node \subseteq Node /\ node \in [DOMAIN node -> NodeStats]
  /\ run \in Times /\ wait \in Times /\ comm \in Times
  /\ moved \in Nat
  /\ query \in [Query -> {"none", "completed", "rejected"}]
  /\ http \in [completed : 0 .. Wrap - 1, rejected : 0 .. Wrap - 1]
  /\ exited \in BOOLEAN

\* The threads with a request of this period, and with one from before it.
Fresh == {t \in Thread : thread[t] = "fresh"}
Stale == {t \in Thread : thread[t] = "stale"}

\* stats.pending is the number of requests of this period in flight, but for an
\* error: a request from before the reset still lowers it when it ends.  The error
\* is downward only, and at most one for each thread that has no such request any
\* more.  So however requests end each is taken off once, and however often the
\* statistics are reset the errors do not add up.
PendingErrorBounded ==
  \E missed \in 0 .. Cardinality(Thread) - Cardinality(Stale) :
    pending = (Cardinality(Fresh) - missed) % Wrap

\* The comment on stats.pending: it is the number of requests in flight, and
\* each thread has at most one.
PendingWithinThreads == pending <= Cardinality(Thread)

\* Between two resets at most one request moves the start of the period over
\* which throughput is reported, although pending comes back to zero often.
StartMovesOnce == moved <= 1

\* One member for each unit that f counts, and so the sum of f.
Units(f) == UNION {{x} \X (1 .. f[x]) : x \in DOMAIN f}

SumOf(f) == Cardinality(Units(f))

NodeSum(kind) == SumOf(ByNode(kind))

\* Each success of a node names its device and pod, each failure its error.
EntryAddsUp(replies) ==
  /\ SumOf(replies.device) = replies.success
  /\ SumOf(replies.pod)    = replies.success
  /\ SumOf(replies.error)  = replies.failure

\* The counts of a histogram add up to the total that they are shown as shares
\* of: each success names its node, device and pod, each failure of a node its
\* error, and only failures may have no node; also with a reset in between.
NodesAddUp ==
  /\ NodeSum("success") = success /\ NodeSum("failure") <= failure
  /\ \A n \in DOMAIN node : EntryAddsUp(node[n])

\* The bars of histogram h have their widths.
Fits(h) ==
  LET bars  == [x \in DOMAIN h.parts |-> Bar(h.total, h.parts[x])]
      lines == Cardinality(DOMAIN h.parts)
  IN
  /\ \A x \in DOMAIN h.parts : bars[x] <= MaxCols
  /\ 2 * SumOf(bars) <= 2 * MaxCols + lines
  /\ SumOf(h.parts) = h.total /\ h.total > 0 =>
       2 * SumOf(bars) >= 2 * MaxCols - lines

\* The bars of a histogram's lines make up the full width together, up to half
\* a column each for rounding, and no single one is wider than that.
HistogramsFit == \A h \in Histograms : Fits(h)

\* The reported average is between the reported minimum and maximum, also of
\* the communication time, which is a difference and can be negative.
AverageInRange ==
  \A t \in {run, wait, comm} : t.min * success <= t.total /\ t.total <= t.max * success

=============================================================================
