# Verification of the device scalability tester

TLA+ models of the three programs under `src/cmd`, checked with TLC on small
instances. All of their safety properties that hold, and the refinement, are proved with
TLAPS for all instances; so is what remains of the four that do not hold.

## The system

The *frontend* keeps a fixed set of named FIFO queues. *Clients* connect and send
one service request per connection; the request waits in the queue that it names.
*Backend workers* connect and pull; the frontend hands the worker the oldest
request whose client is still there, waits for the worker's reply on the same
connection and passes it on to the client. HTTP queries read the queues'
statistics as Prometheus metrics, from which Kubernetes scales the workers.
The *client* program repeats its request from several threads, whose number is
changed over HTTP, and keeps statistics that are read and reset over HTTP.

| Part | State | Operations | Interacts with |
|---|---|---|---|
| `listenForClients` (frontend) | current connection, `queues.clients` | accept, read and validate, queue or refuse | queues (mutex), clients (TCP) |
| `listenForWorkers`, `countObsolete` | current connection, sweep position | accept, read and validate, probe the front of the queue, hand out or report empty | queues (mutex held over the sweep), queued clients' connections |
| `doItem`, `processItem` | one goroutine per handed-out item | write the item, read the reply, answer the client, count | worker, client, queue (mutex) |
| `exporter`, `logStats` | queue names still to report | report a queue, reset its maxima | queues (mutex) |
| `doParallelRequests`, `doRequests` (client) | setting, permits, finished channel | give permits, run requests, change the setting | each other and `/parallel` through channels |
| client statistics | `stats` | start, success, failure, reset, output | threads and HTTP handlers (mutex) |
| worker loop (backend) | options, back-off time, item, pending signal | accept or reject the command line, pull, run, reply, back off, stop | frontend (TCP), signals |
| the processes together | what the others hold of a process | start, stop on a signal, be killed, end on a broken connection | connections, Kubernetes |

What is hard here: two listeners, any number of item goroutines and metric
queries share the queues' mutexes; one of these critical sections contains blocking
probes; peers connect, fall silent and vanish between any two steps, and there are
no deadlines for their messages; the client's control loop and its threads wait
for each other through bounded channels; statistics are reset under requests in
flight. Nothing is persisted: a process that ends loses its state, its peers find a
broken connection at a point of their own, and end or report it. Recovery is that
Kubernetes starts what has ended anew, and that nobody is then left waiting.
`PROJECT.json` lists each hazard at its line.

What makes each part correct:

- frontend: every request ends once, in FIFO order, within the limit; every
  connection is owned by one goroutine and closed once; the statistics agree with
  what happened; the process does not abort; progress as far as peers co-operate.
- client control: allowed threads go on, the others stop; queries get the setting
  that was applied; nobody waits for ever.
- client statistics: the counters and times describe the requests since the reset.
- backend: bounded back-off; limits are applied; replies are true; a signal ends the
  worker without a request lost.
- together: nobody waits for a request that the system has forgotten; scaling workers
  down loses no request; both sides count the same; a fault stays where it happened;
  everything recovers.

## Modules

**`Frontend`** models all of `cmd/frontend/main.go` except start-up and text output.
A step is what a goroutine does between two points at which others can get in
between. `peer[x]` and `inbox[x]` are the remote end of connection `x` and the unread
input from it, `conn[x]` the frontend's end. `cl` and `wl` are the two listeners'
program counters and locals; `items`, `running`, `success`, `failure`, `disconnect`
and `maxima` are the fields of `queueT`; `job[w]` is the goroutine that serves worker
connection `w`. `accepted` stands for the time stamps of the items: it numbers them in
the order of queueing. The mutex of a queue is held over more than one step only
by a sweep (`Locked`); every other critical section is one step that waits for it.

- `AcceptClient`, `ReadClient`, `EnqueueClient`: one round of `listenForClients`.
- `AcceptWorker`, `ReadWorker`, then `Probe` per queued connection, then `QueueEmpty`
  or `HandOut`: one round of `listenForWorkers`. A probe takes a client for gone when
  it reads the end of the stream *or any byte*, so a client that sends more than the
  first read takes (`Chatty`) is dropped, as in the code.
- `DoWrite`, `DoRead`, `DoStats`: `processItem` and `doItem`. A write to a vanished
  worker may succeed; the reply is anything from a success to something that is no JSON.
- `ScrapeStart`, `ScrapeQueue`, `LogStart`, `LogQueue`: metrics and the logger.
- `Dial`, `Send`, `Reply`, `Hangup`: the peers, with an end of their own at any time.

**`WorkQueue`** is the promise behind it: bounded FIFO queues whose requests are
refused, dropped from the front, or taken by one worker and answered, each once.
`Frontend!ImplementsWorkQueue` is the refinement: requests that a sweep has passed are
already dropped, and a worker serves until it has answered.

**`ClientControl`** models the client's throttling, one step per channel operation.
`main` is the main loop with `reqnow` and the locals of its cases, `proceed[i]` counts
the permits in channel *i*, `finished` and `parallel` are the buffered channels.
A direct hand-over on a channel is a send followed by the receive. The capacities,
2, `ReqMax` and 1, are those of the code.

**`ClientStats`** models `statsT`: the counters, the per-node maps of successes, failures,
devices, pods and errors, the run, wait and communication times, the reset and the query
counters. `Histograms` are the totals and maps that the outputs are printed from, `Bar` the
integer arithmetic of a line's width. The sum of a map is the number of the units that it
counts (`Units`). A thread is `"fresh"` or `"stale"` by whether its request was started since
the last reset or before it, which the code does not know; `moved` is history. Both are there for
the properties. `MaxReplies` bounds the replies between two resets.

**`Backend`** models a worker from its command line on. `ParseOptions` accepts or rejects
what `Options` holds; arguments are a number, some text, or text with `FILENAME`. Times are
counted in units of which a millisecond has `Milli`, so that they can be fractions of one, or are
`NaN`, which compares with none (`Above`). `Slept` is the conversion before each sleep: it cuts a
time off to whole milliseconds (`Whole`), and a negative one, `NaN`, or one beyond `Longest` becomes
any time, as Go leaves the conversion to the machine. The rounding of binary fractions is left out.
`nap` is how long the last sleep took; it and `late` are history. `late` stops at `LateBound`, and
the back-off time stops to grow beyond `Longest`, where all times are slept for alike.

**`System`** composes the three programs. The frontend stands there for what `Frontend`
implements: the variables `pending`, `serving` and `fate` are those of `WorkQueue`, and each
action that moves a request is a step of `WorkQueue` joined with what it does to the peers
at both ends. A thread is idle, waits, or has a broken connection; a worker asks, waits for
an answer to its pull, works, or looks for a signal. `backlog` and `pulls` are the connections
that the listeners have not answered. Every process can be stopped, killed and restarted
at any time (`StopClient`, `StopFrontend`, `Terminate`, `KillWorker`, and their `Start`):
Kubernetes is not under `src/` and its part is marked external. `told`, `lost` and `stops` are
history. `MaxRequests` and `MaxStops` bound the requests and the kills.

The `MC` modules give values to the constants. Operators with a comment that starts
with MUTANT are wrong variants of the definition they name and are used by no model:
`PROJECT.json` lists which property each of them violates.

## Runs

| Run | Instance | Shows |
|---|---|---|
| `FrontendSafety` | 3 clients, 2 workers, 1 queue of 2, exchangeable peers | `Conservation`, `RunningIsInFlight`, `OpenIffOwned`, `NeverFatal`, `FifoDispatch`, `OutcomesCounted`, `ClosedIsFinal`, `ImplementsWorkQueue` |
| `FrontendMetrics` | 2 queues, 3 clients, one of an unknown queue, 1 worker, a metric query, chatty peers, counters modulo 2 | types, `MaximaConsistent`, `OpenIffOwned`, `OutcomesCounted` |
| `FrontendLiveness` | 2 clients, 1 worker, the logger, a queue of 1 | `EveryRequestEnds`, `EveryWorkerIsReleased`, and `MaximaConsistent` with the other reporter |
| `ClientControlSafety` | 2 threads, 2 queries at once for -1, 1 or 3 | types, `NoLostPermit`, `PermitsWithinSetting`, `HandlersAnswered` |
| `ClientControlLiveness` | 2 threads, 1 query at once for -1 or 3 | `ThrottleTakesEffect`, `AllowedKeepRunning` |
| `BackendWorker` | 18 command lines, of which 5 are rejected, 10 argument lists, 6 limits, half milliseconds | types, `NapBounded`, `BackoffGrows`, `CleanExit`, `RequestLimitHolds`, `ReplyTruthful`, `SignalEnds` |
| `ClientStatsSafety` | 2 threads, 2 nodes with 2 devices, 4 replies between resets, bars of 5, counters modulo 5 | types, `PendingErrorBounded`, `StartMovesOnce`, `NodesAddUp`, `HistogramsFit`, `AverageInRange` |
| `System` | 2 clients with a thread each or one with 2 requests, 2 workers of which 1 backs off, a queue of 1, one kill of each kind, any number of terminations | types, `NobodyForgotten`, `LostOnlyToKills`, `CountsAgree`, `FaultsContained`, `Recovers` |
| `ClientControlDeadlock`, `ClientControlShown`, `ClientStatsPending`, `BackendLimit` | one thread, one query; two threads; one command line | four statements of docs and comments that the code violates, see below |

**Why the bounds are enough.** With three clients a queue of two can be full while a
third request is refused or while one is being served; a sweep can discard none, one or
two in front of a live one; with two workers two items finish in either order, and
a worker identity is reused once its connection is closed at both ends. Clients are not
reused, so no run ends before every way for three requests to meet was taken. Two
queues matter only to the reporters, which go from one to the other. Two threads
and two queries show every way to cross in the shared channel; with `ReqMax` 2 a
setting can be off, partial, full and out of range on both sides. `Wrap` makes the
unsigned counters small enough to wrap in the runs; `FrontendSafety` and `FrontendLiveness`, whose
properties do not mention the connection counters, have a `Wrap` of 1, under which these stay 0.
In `BackendWorker` a millisecond has two units, and the longest time to be converted has twelve: times,
increments and limits are below a millisecond, between two of them, and out of range, and
only a few steps of the back-off lie between an increment and any bound. With four replies between resets
the bars of five columns round up as well as down, on two nodes and on one.
In `System` two requests meet in a queue of one, so that one is refused, and with
two workers one can vanish while the other serves; one kill of each kind, in any
order and at any point, includes a client that is back while the frontend still holds the
request of its predecessor. A worker gets its name back once the frontend is done with it, and
the other name stands for a replacement until then. A thread that asks twice shows that the
second request is not taken for the first.

**Deadlock** is checked for the frontend and for the system, in which a peer or a process
could always be the next to do something. It is switched off where the program
stops: the worker and the client exit, and the client can block for good.

**Fairness.** `FrontendFairness`: each goroutine goes on when it can (weak), gets a mutex
that is released again and again (strong: Go's mutexes hand over to a goroutine
that has waited for a millisecond), and a listener's backlog is served in order
(strong on accepting each connection). `PeerFairness` is an assumption on the peers that
the code needs and does not enforce: somebody who is connected says what he is
expected to say or goes away, and workers keep pulling. Without it there is no progress: a
silent connection blocks its listener for all others. In the client the fairness
is that of goroutines and of channels, whose senders are served in order; the frontend answers. In
the worker it is that of the process itself, with workloads that end.

In `System` each process and thread goes on when it can, workloads end, and what has ended is
started again, which is what Kubernetes does for a Deployment; nobody has to be killed or
terminated. That the peers of a connection speak up holds there because all of them are
these programs, so that `Recovers` needs no assumption on peers.

The liveness of the client is conditional on `Quiet`: queries stop, the process has not
exited, and it is not stuck in the cycle that `ClientControlDeadlock` finds.

## What the runs found

1. `ClientControlDeadlock`: the main loop can block in `proceed[i] <- true`
   (`src/cmd/client/main.go:706`) while thread *i* blocks in `finished <- t`, although the
   comment at 680 says that the size of `finished` avoids it. *Proved:* this takes a raised
   setting (`CycleNeedsRaise`), it is the only way to block (`OnlyTheCycleBlocks`), and once
   it has happened it stays (`CycleIsForGood`).
2. `ClientControlShown`: a `/parallel` query can receive its own value back (426-427): it
   is shown as the setting, unlimited, and never applied. *Proved:* if all queries ask for a
   setting within the range, what is shown is within it (`ShownRightIfAskedRight`).
3. `ClientStatsPending`: a reset with a request in flight makes the unsigned `pending`
   underflow (372, 522, 553). *Proved:* as long as no reset comes while a request is in flight, `pending`
   is right (`PendingRightIfIdleReset`); whatever resets come, its error is at most one for each
   thread (`PendingErrsByThreads`).
4. `BackendLimit`: the two limits are swapped in the calls of `doWork`
   (`src/cmd/backend/main.go:442,447`), so the worker's `-limit` does not apply to a
   request that has none. *Proved:* if both are given the smaller one holds (`SmallerLimitsHold`). This, as
   `RequestLimitHolds`, is about the built-in sleep, and not for a time that is negative or `NaN`: a
   binary runs without any limit (209), and such times pass the comparison (179). A `-limit` of `NaN`
   disables the limits of requests as well (224).

`PROJECT.json` also lists where the documentation differs from the code without a run. Two of these
bound what the properties of `Backend` can say: a back-off of less than a millisecond is accepted and
does not sleep (434), so `NapBounded` promises a pause, and `BackoffGrows` longer ones, from a
millisecond on only; and a sleep for a time that cannot be converted (185) takes any time and is
reported as a success, so `ReplyTruthful` says nothing of how long that was.

## Proofs

`FrontendProofs` proves, for all values of the constants that satisfy
`ConstantsAssumption` (finite set of workers, clients and workers distinct, `None`
distinct from peers and queues):

- `TypeCorrect`: `Spec => []TypeOK`. `TypeOK` is inductive as it stands: besides the
  types it says that a listener's program counter and its locals belong together and that a
  sweep stays within its queue, which the steps need of each other.
- `ConservationHolds`: `Spec => []Conservation`, with `TypeOK` as the strengthening. The one
  step that needs an argument on sequences is the hand-out: `RemainingIs` gives the
  length of what is left, and the number that the sweep discarded goes to
  `disconnect`. That a sweep stays within its queue comes from `TypeOK`.
- `DispatchIsFifo`: `Spec => []FifoDispatch`. The invariant is not inductive: with an empty
  queue it says nothing of what is in flight, and the next request to enter has to be
  younger than that. `OrderInv` adds that everything in flight was numbered before
  `accepted`. The hand-out is the interesting step: the item taken is older than the
  suffix that stays, although the discarded ones between them are gone.
- `MaximaStayConsistent`: `Spec => []MaximaConsistent`, from a lemma on `Raised`.
- `WorkersAreOwned`: `Spec => []WorkersOwned`, the workers' half of `OpenIffOwned`. The
  strengthening `WorkersInv` adds that a connection not yet accepted has no goroutine and an
  identity never dialled has no connection, as identities are reused.
- `RunningIsExact`: `Spec => []RunningIsInFlight`. A hand-out gives work to a worker
  without any (`WorkersInv`), so the set of items in flight gains one member when `running`
  is raised, and loses one when it is lowered; the rest is cardinality of finite sets.

`NextCases` splits `Next` into its actions once. Each action's step is a step of the lemma.

`FrontendClientProofs`:

- `ConnectionsAreOwned`: `Spec => []OpenIffOwned`. With `WorkersInv` goes `ClientsInv`: each
  client has at most one place, be it with the listener, in a queue behind the sweep's
  position, or with a goroutine, and its connection is open exactly while it has one. The
  sweep is the hard case: what it has passed is closed but still in the queue, under the mutex.
- `FrontendNeverFatal`: `Spec => []NeverFatal`. Every probe meets an open connection, as what is
  behind the sweep's position is owned by the queue.
- `ClosedStaysClosed`: `Spec => ClosedIsFinal`, from the same invariants.
- `OutcomesAreCounted`: `Spec => []OutcomesCounted`. `OutcomesInv` keeps for each queue the number
  of clients that ended in each way next to its counters and to the goroutines that have
  replied and not counted yet (`Counting`); `CountingBad` are those that will count a failure,
  without which the bound on failures is not inductive. `Named` says that a request is in the
  queue that its client names.
- `OnlyPeersBlock`: `Spec => []WaitsForPeersOnly`, if there is a duration that a worker can report.
  Whatever the frontend waits for, a mutex or input, can be had, unless the one to act is a peer
  that is connected and has not said what it is to say (`IsToSpeak`). `InputInv` says that
  whoever is past his read has nothing unread but a surplus. The guards of the actions are named
  (`SweepReady`, `ReplyReady`) in place of `ENABLED`, which the prover does not know. The
  peers of `IsToSpeak` are those that `PeerFairness` obliges to speak or go; that workers also
  keep pulling is not needed here, but for requests to be taken from the queues.

`FrontendRefinement`:

- `FrontendRefines`: `Spec => ImplementsWorkQueue`. `Waiting`, `Pending`, `ServedBy` and `Fates` are
  the mapping; each action is one lemma. A probe that finds a client gone is the abstract
  `Drop`, since the head of what the sweep has left to pass is the head of the abstract queue
  (`SweepAtHead`); the hand-out is `Take`, and the end of the sweep is unseen.
  `OpenIffOwned` is what decides fates once.
- `FrontendKeepsPromise` and `FrontendUndoesNothing` apply the theorems of `WorkQueueProofs` to the mapping.

`WorkQueueProofs`, on what the abstract queues are good for:

- `PromiseIsKept`: `Spec => []Promise`. A request is in one place at most, in the queue that it names, and
  in none once its fate is decided; no queue exceeds the limit. The four parts need each other:
  that a request enters once is the guard of `Submit`, that it leaves once needs the others.
- `NothingIsUndone`: `Spec => [][Forward]_vars`. A fate is final, a request that a worker took stays with it
  until it is answered, and one that waits moves forward only and leaves from the front.

`ClientControlProofs`, for any `ReqMax`, any starting value and any values queried
(`ControlAssumption`):

- `ControlTypeCorrect`: `Spec => []TypeOK`, with the capacities of the channels and the
  bounds of the loop over the permits.
- `PermitsNeverLost`: `Spec => []NoLostPermit`. While a rise is carried out the setting is
  still the old one and some of the new threads have their permit. `PermitsKept` counts a
  thread as granted also when the loop has passed it, which makes it inductive.
- `HandlersBalanced`: `Spec => []HandlersAnswered`. Each step of the exchange moves a value
  or a handler from one side of the equation to the other, or the same number on both.
- `PermitsStayWithinSetting`: `Spec => PermitsWithinSetting`. What the main loop is about to send was
  decided by an earlier receive; the invariant carries that decision to the send.
- `ShownRightIfAskedRight`, for `Value \subseteq 0 .. ReqMax`: everything in the shared channel, in a
  handler's hands and with the main loop is then a setting, whoever takes it.
- `CycleNeedsRaise`: `Spec /\ [][~Kick]_vars => []NoSendCycle`. Without new permits each thread has one at
  most, be it in its channel, in its request or on the way back (`OnePermit`), so no channel is full.
- `OnlyTheCycleBlocks`: `Spec => [](SomebodyReady \/ SendCycle \/ AtRest)`, by the place where the main loop
  waits. In its select, `NoLostPermit` and `HandlersAnswered` leave nobody waiting; at a permit channel,
  the thread behind it can go on or the cycle is closed; at the shared channel,
  `HandlersAnswered` has a handler that empties it.
- `CycleIsForGood`: `Spec => [][SendCycle => SendCycle']_vars`, action by action.

`BackendProofs`, for any command lines, requests, limits and run times:

- `BackendTypeCorrect`: `Spec => []TypeOK`; `NapsAreBounded`: `Spec => []NapBounded`;
  `BackoffNeverShrinks`: `Spec => BackoffGrows`. `NapInv`: as long as an option keeps the time in the
  range that converts, the last sleep is the next time less an increment, cut off to milliseconds. That
  cutting off keeps the order of times, and takes less than a
  millisecond from each, are lemmas on `Whole` (`WholeBounds`, `WholeMonotonic`).
- `ExitsAreClean`: `Spec => []CleanExit`, with `ExitInv`: there is an item only in the phases that work on
  it, and one that was taken after a signal is the last one.
- `RepliesAreTruthful`, `RequestLimitsHold` and `SmallerLimitsHold`: `[]ReplyTruthful`, `[]RequestLimitHolds` and
  `[]SmallerLimitHolds`, by the cases of `DoWork`: the two limits are swapped, but the limit that is
  enforced is never above a request's own, and a sleep is never longer than the time it is
  converted from. What they leave out is said above.

`ClientStatsProofs`, for any number of threads and names and any width of the counters:

- `StatsTypeCorrect`: `Spec => []TypeOK`.
- `PendingErrsByThreads`: `Spec => []PendingErrorBounded`. A request from before a reset that ends makes the
  error larger by one and the number of such requests smaller by one, so that its bound holds; lemmas
  on the remainder for one more and one less, and on the cardinality of the threads with a request.
- `PendingRightIfIdleReset`: `Spec /\ [][IdleReset]_vars => [](PendingWithinThreads /\ pending = Cardinality(Busy))`:
  if each reset finds no request in flight there is never one from before a reset.
- `StartIsSetOnce`: `Spec => []StartMovesOnce`. `StartInv`: until a request of the period has ended,
  `pending` is exact and the one that set the start is still in flight, so that `pending` is not zero.
- `AveragesInRange`: `Spec => []AverageInRange`, from a lemma on `UpdateTime`.
- `CountsOfNodesAddUp`: `Spec => []NodesAddUp`. As a sum is the number of a map's units, counting one more is
  adding one unit, and no induction over the map is needed. `NodesInv` adds that the units are
  finitely many, which the cardinality needs and which holds as each request adds at most one entry.
- `BarsFit`: `Spec => []HistogramsFit`. Each bar differs from its exact share by half a column at most
  (`BarBounds`); that the difference of two sums is at most that many halves as there are lines is an
  induction over sets of lines, done by hand: a smallest set without the property would have a
  smaller one without it (`SumsLinear`). With `NodesAddUp` the shares make up the full width.

`SystemProofs`, for any number of clients, threads, workers, queues, kills and restarts:

- `SystemTypeCorrect`: `Spec => []TypeOK`, with `LinksInv` on the two ends of a worker's connection.
- `FaultsAreContained`: `Spec => FaultsContained`. `Unbroken` says that no connection is cut and the
  frontend is up as long as it was never stopped.
- `OnlyKillsLose`: `Spec => []LostOnlyToKills`. `Owed` are the killed workers that the frontend has not
  noticed; `LossInv` bounds what is lost together with what they still can cost.
- `NobodyIsForgotten`: `Spec => []NobodyForgotten`. `PlaceInv`: each request is in no more than one place
  (`Once`), one that is waited for is in one (`Present`), and none is anywhere before it was made;
  `Awaited` is the same for workers.
- `BothSidesAgree`: `Spec => []CountsAgree`. `Fated` ties the fate of a request to its place and to what
  its client learned; `CountsInv` keeps the four counts, and that finitely many requests are decided.
- `NobodyIsStuck`: `Spec => []NobodyStuck`. In every state each worker, the goroutine that serves it or the
  listener that is to answer it can go on (from `Awaited`), and what `WorkQueue` demands of a
  request that arrives is so (from `PlaceInv` and the fates). The frontend's steps are joined with
  those of `WorkQueue`; this shows that the join takes none of them away.

*Model-checked only*: that the four violations can happen, and all liveness, `EveryRequestEnds`,
`EveryWorkerIsReleased`, `ThrottleTakesEffect`, `AllowedKeepRunning`, `SignalEnds` and `Recovers`, as the
prover does not reason about `ENABLED`. The safety half of it, that whoever is waited for can
go on, is proved for three of them: `OnlyPeersBlock` for the frontend, `OnlyTheCycleBlocks` for the
client and `NobodyIsStuck` for the whole. All other properties of the runs are both checked and
proved. `Promise`, `Forward` and the properties that are named under "What the runs found" as
proved are in no run: they follow from, or complement, properties that are.

*Assumptions*: those that the modules name, `ConstantsAssumption`, `ControlAssumption`, `StatsAssumption`,
`BackendAssumption` and `SystemAssumption`, which TLC evaluates in the runs, and where a theorem says so a hypothesis of its
own: `Duration # {}`, `None \notin Client`, `QMax \in Nat` and `Value \subseteq 0 .. ReqMax`.

## Not modelled

- Text: the layout of metrics, histograms, HTML, JSON and logs, escaping, and the order in which
  names are sorted. No state depends on it.
- Flag parsing, names and addresses, the set-up of the HTTP servers, which files `-glob` matches
  beyond whether it does, and the workload's input and output.
- TCP below the level of a connection that delivers, blocks or ends; messages longer than the
  1 KiB buffer other than as input left over (`Chatty`) or a reply that is no JSON; failing
  writes to clients, which the code logs and ignores.
- Throttling and resets in `System`: they are in `ClientControl` and `ClientStats`, and
  there only change when a thread dials and what is counted.
- `validate-scaling.sh`: a sequence of `kubectl` commands and of queries to the client. Its
  check that a setting was applied compares the client's reply with the value it sent, which
  `ClientControlShown` shows to be no proof of it: the value may have been read back unapplied.
- The fuzzing script, the deployment scripts and manifests, and Kubernetes itself.

## What is left

1. An abstract throttle (a setting, and at most that many new requests) and `ClientControl` as its
   refinement, outside the send cycle.
2. `Frontend` in place of `WorkQueue` in `System`: `FrontendRefines` makes it superfluous for safety,
   but not for the liveness of peers that are these programs.
3. `validate-scaling.sh` as a module on top of `ClientControl`, with the client's reply as in
   `ClientControlShown`.
