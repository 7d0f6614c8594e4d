------------------------------- MODULE System -------------------------------
(***************************************************************************)
(* The three programs together: clients whose threads send requests, the   *)
(* frontend, and workers that pull them.  The frontend stands here for the *)
(* promise that Frontend implements, the queues of WorkQueue; a step of    *)
(* theirs is joined with what it does to the peers at both ends.  Any      *)
(* process can be killed.  Nothing is kept over a restart: a program that  *)
(* meets a broken connection ends (clients, workers) or reports the error  *)
(* (the frontend), and Kubernetes starts what has ended anew.              *)
(***************************************************************************)
EXTENDS Integers, Sequences, FiniteSets

CONSTANTS
  Queue,        \* the queues of the frontend
  Client,       \* the client processes
  Thread,       \* the request threads of all clients
  Worker,       \* the worker processes
  ClientOf,     \* the process of each thread
  QueueOf,      \* the queue that each thread or worker names
  Patient,      \* the workers that back off from an empty queue
  QMax,         \* -qmax of the frontend, 0 for no limit
  Load,         \* how many requests each thread makes, one or more choices
  MaxRequests,  \* a bound for TLC: the most requests of a thread
  MaxStops,     \* a bound for TLC: how often each kind of process is killed
  None          \* no request

\* A request has the number of those that its thread has still to make.
Request == [thread : Thread, n : 1 .. MaxRequests]
Stops   == [client : Nat, worker : Nat, frontend : Nat]

ASSUME SystemAssumption ==
  /\ IsFiniteSet(Worker)
  /\ ClientOf \in [Thread -> Client]
  /\ QueueOf \in [Thread \cup Worker -> Queue]
  /\ Client \cap Worker = {}
  /\ QMax \in Nat /\ MaxRequests \in Nat /\ MaxStops \in Stops
  /\ Load \subseteq [Thread -> 0 .. MaxRequests]
  /\ None \notin Request

VARIABLES
  client,    \* "up" or "down"
  thread,    \* "idle", "waiting" for a reply, or its connection is "cut"
  left,      \* the requests that each thread has still to make
  front,     \* the frontend is "up" or "down"
  backlog,   \* requests sent that the client listener has not read yet
  pulls,     \* the workers whose pull the worker listener has not answered
  pending, serving, fate,  \* the state of WorkQueue
  counts,    \* success, failure and disconnect, of all queues
  worker,    \* where the main loop of each worker is, "down" without one
  signal,    \* a termination signal waits for the worker
  cut,       \* the workers whose connection is broken
  told,      \* what each client learned of its request (no program state),
  lost,      \* requests failed for want of a worker (no program state)
  stops      \* how often a process was killed

queues   == <<pending, serving, fate>>
clients  == <<client, thread, left>>
frontend == <<front, backlog, pulls, queues, counts>>
workers  == <<worker, signal, cut>>
history  == <<told, lost, stops>>
vars     == <<clients, frontend, workers, history>>

WQ == INSTANCE WorkQueue WITH
  Client <- Request, Target <- [r \in Request |-> QueueOf[r.thread]]

NoCounts == [success |-> 0, failure |-> 0, disconnect |-> 0]

Init ==
  /\ client  = [p \in Client |-> "up"]
  /\ thread  = [t \in Thread |-> "idle"]
  /\ left    \in Load
  /\ front   = "up"
  /\ backlog = {} /\ pulls = {}
  /\ WQ!Init
  /\ counts  = NoCounts
  /\ worker  = [w \in Worker |-> "down"]
  /\ signal  = [w \in Worker |-> FALSE]
  /\ cut     = {}
  /\ told    = [r \in Request |-> "none"]
  /\ lost    = 0
  /\ stops   = [client |-> 0, worker |-> 0, frontend |-> 0]

-----------------------------------------------------------------------------
(* The clients. *)

Current(t) == [thread |-> t, n |-> left[t] + 1]

\* The thread that sent r still waits for the reply.
Waits(r) == thread[r.thread] = "waiting" /\ Current(r.thread) = r

Dial(t) ==
  /\ client[ClientOf[t]] = "up" /\ thread[t] = "idle"
  /\ front = "up" /\ left[t] > 0
  /\ thread'  = [thread EXCEPT ![t] = "waiting"]
  /\ left'    = [left EXCEPT ![t] = @ - 1]
  /\ backlog' = backlog \cup {[thread |-> t, n |-> left[t]]}
  /\ UNCHANGED <<client, front, pulls, queues, counts, workers, history>>

\* The threads after process p has ended with all of its requests.
Orphaned(p) == [t \in Thread |-> IF ClientOf[t] = p THEN "idle" ELSE thread[t]]

EndClient(p) ==
  /\ client[p] = "up"
  /\ client' = [client EXCEPT ![p] = "down"]
  /\ thread' = Orphaned(p)
  /\ UNCHANGED <<left, frontend, workers, told, lost>>

\* A thread cannot connect, or reads the end of the stream instead of a reply.
ClientFails(t) ==
  /\ \/ thread[t] = "cut"
     \/ thread[t] = "idle" /\ front = "down" /\ left[t] > 0
  /\ EndClient(ClientOf[t])
  /\ UNCHANGED stops

\* A signal, which the main loop heeds whatever the threads do, or a crash.
StopClient(p) ==
  /\ stops.client < MaxStops.client
  /\ EndClient(p)
  /\ stops' = [stops EXCEPT !.client = @ + 1]

StartClient(p) ==
  /\ client[p] = "down"
  /\ client' = [client EXCEPT ![p] = "up"]
  /\ UNCHANGED <<thread, left, frontend, workers, history>>

-----------------------------------------------------------------------------
(* The frontend. *)

\* The client of r gets a reply, if it is still there.
Tell(r, what) ==
  /\ thread' = IF Waits(r) THEN [thread EXCEPT ![r.thread] = "idle"] ELSE thread
  /\ told'   = IF Waits(r) THEN [told EXCEPT ![r] = what] ELSE told

Full(q) == QMax > 0 /\ Len(pending[q]) >= QMax

Refuse(r) ==
  /\ r \in backlog /\ Full(QueueOf[r.thread])
  /\ WQ!Refuse(r)
  /\ backlog' = backlog \ {r}
  /\ Tell(r, "failure")
  /\ UNCHANGED <<client, left, front, pulls, counts, workers,
                 lost, stops>>

Submit(r) ==
  /\ r \in backlog
  /\ WQ!Submit(r)
  /\ backlog' = backlog \ {r}
  /\ UNCHANGED <<clients, front, pulls, counts, workers, history>>

Obsolete(r) == ~Waits(r)

Drop(q) ==
  /\ \E w \in pulls : QueueOf[w] = q
  /\ pending[q] # <<>> /\ Obsolete(Head(pending[q]))
  /\ WQ!Drop(q)
  /\ counts' = [counts EXCEPT !.disconnect = @ + 1]
  /\ UNCHANGED <<clients, front, backlog, pulls, workers, history>>

\* The answer to the pull of w: one of a worker that has gone reaches nobody.
Answered(w, next) == [worker EXCEPT ![w] = IF @ = "pull" THEN next ELSE @]

Take(w) ==
  LET q == QueueOf[w] IN
  /\ w \in pulls
  /\ pending[q] # <<>> /\ ~Obsolete(Head(pending[q]))
  /\ WQ!Take(q, w)
  /\ pulls'  = pulls \ {w}
  /\ worker' = Answered(w, "work")
  /\ UNCHANGED <<clients, front, backlog, counts, signal, cut, history>>

\* The queue is empty, so that the worker backs off or exits.
QueueEmpty(w) ==
  /\ w \in pulls /\ pending[QueueOf[w]] = <<>>
  /\ pulls'  = pulls \ {w}
  /\ worker' = Answered(w, IF w \in Patient THEN "check" ELSE "down")
  /\ signal' = [signal EXCEPT ![w] = @ /\ w \in Patient]
  /\ UNCHANGED <<clients, front, backlog, queues, counts, cut, history>>

\* MUTANT of Apology: the connection is closed without a reply.
Silence(r) ==
  /\ thread' = IF Waits(r) THEN [thread EXCEPT ![r.thread] = "cut"] ELSE thread
  /\ told'   = told

\* The client of r gets an error reply because there is no worker any more.
Apology(r) == Tell(r, "failure")

\* The goroutine of a request finds its worker gone.
Lose(w) ==
  /\ serving[w] # None /\ worker[w] # "work"
  /\ WQ!Answer(w)
  /\ Apology(serving[w])
  /\ counts' = [counts EXCEPT !.failure = @ + 1]
  /\ lost'   = lost + 1
  /\ UNCHANGED <<client, left, front, backlog, pulls, workers, stops>>

\* MUTANT of CutOff: nobody notices the end of the frontend.
Unnoticed == thread

CutOff == [t \in Thread |-> IF thread[t] = "waiting" THEN "cut" ELSE thread[t]]

\* A signal or a crash: all connections break, and everything is forgotten.
\* The record of what clients learned starts over with the statistics.
StopFrontend ==
  /\ front = "up" /\ stops.frontend < MaxStops.frontend
  /\ front'   = "down"
  /\ backlog' = {} /\ pulls' = {}
  /\ pending' = [q \in Queue |-> <<>>]
  /\ serving' = [w \in Worker |-> None]
  /\ fate'    = [r \in Request |-> "none"]
  /\ counts'  = NoCounts
  /\ thread'  = CutOff
  /\ cut'     = {w \in Worker : worker[w] \in {"pull", "work"}}
  /\ told'    = [r \in Request |-> "none"]
  /\ stops'   = [stops EXCEPT !.frontend = @ + 1]
  /\ UNCHANGED <<client, left, worker, signal, lost>>

StartFrontend ==
  /\ front = "down"
  /\ front' = "up"
  /\ UNCHANGED <<clients, backlog, pulls, queues, counts, workers, history>>

-----------------------------------------------------------------------------
(* The workers. *)

\* A worker that has gone is replaced under its name only once the frontend is
\* done with its connection.
StartWorker(w) ==
  /\ worker[w] = "down" /\ w \notin pulls /\ serving[w] = None
  /\ worker' = [worker EXCEPT ![w] = "ask"]
  /\ UNCHANGED <<clients, frontend, signal, cut, history>>

EndWorker(w) ==
  /\ worker' = [worker EXCEPT ![w] = "down"]
  /\ signal' = [signal EXCEPT ![w] = FALSE]
  /\ cut'    = cut \ {w}
  /\ UNCHANGED <<clients, frontend, told, lost>>

\* The first round asks at once, the others after a look at the signal.
Asks(w) == worker[w] = "ask" \/ (worker[w] = "check" /\ ~signal[w])

Ask(w) ==
  /\ Asks(w) /\ front = "up"
  /\ worker' = [worker EXCEPT ![w] = "pull"]
  /\ pulls'  = pulls \cup {w}
  /\ UNCHANGED <<clients, front, backlog, queues, counts, signal, cut,
                 history>>

\* A workload ends well, with an error but return code 0, or with another one.
Kinds == {"success", "error0", "failure"}

\* MUTANT of Outcome: the text of the error decides.
OutcomeByError(kind) == IF kind = "success" THEN "success" ELSE "failure"

\* What the frontend counts the reply for: the return code decides.
Outcome(kind) == IF kind = "failure" THEN "failure" ELSE "success"

\* The workload has ended; its reply goes through the frontend to the client.
Finish(w) ==
  /\ worker[w] = "work" /\ w \notin cut
  /\ WQ!Answer(w)
  /\ \E kind \in Kinds :
       /\ Tell(serving[w], kind)
       /\ counts' = [counts EXCEPT ![Outcome(kind)] = @ + 1]
  /\ worker' = [worker EXCEPT ![w] = "check"]
  /\ UNCHANGED <<client, left, front, backlog, pulls, signal, cut, lost, stops>>

\* MUTANT of Closed: the worker keeps its connection open after the reply.
LeftOpen(w) == cut

\* The worker has closed its connection, broken or not, after the reply.
Closed(w) == cut \ {w}

\* The reply is written to a broken connection, and that goes unnoticed.
FinishInVain(w) ==
  /\ worker[w] = "work" /\ w \in cut
  /\ worker' = [worker EXCEPT ![w] = "check"]
  /\ cut'    = Closed(w)
  /\ UNCHANGED <<clients, frontend, signal, history>>

\* The frontend cannot be reached, or a read or write finds it gone.
WorkerFails(w) ==
  /\ w \in cut \/ (Asks(w) /\ front = "down")
  /\ EndWorker(w)
  /\ UNCHANGED stops

\* MUTANT of AtCheck: a signal is heeded during a workload too.
AtCheckOrWork(w) == worker[w] \in {"check", "work"}

AtCheck(w) == worker[w] = "check"

HeedSignal(w) ==
  /\ AtCheck(w) /\ signal[w]
  /\ EndWorker(w)
  /\ UNCHANGED stops

\* Kubernetes scales down, or moves the worker.
Terminate(w) ==
  /\ worker[w] # "down" /\ ~signal[w]
  /\ signal' = [signal EXCEPT ![w] = TRUE]
  /\ UNCHANGED <<clients, frontend, worker, cut, history>>

\* A crash, or the end of the pod's grace period.
KillWorker(w) ==
  /\ worker[w] # "down" /\ stops.worker < MaxStops.worker
  /\ EndWorker(w)
  /\ stops' = [stops EXCEPT !.worker = @ + 1]

-----------------------------------------------------------------------------
(* The specification. *)

Faults == \/ \E p \in Client : StopClient(p)
          \/ StopFrontend
          \/ \E w \in Worker : Terminate(w) \/ KillWorker(w)

Restarts == \/ \E p \in Client : StartClient(p)
            \/ StartFrontend
            \/ \E w \in Worker : StartWorker(w)

Accept(r) == Refuse(r) \/ Submit(r)
Pull      == (\E q \in Queue : Drop(q)) \/ \E w \in Worker : Take(w) \/ QueueEmpty(w)

Round(w) == \/ Ask(w) \/ Finish(w) \/ FinishInVain(w) \/ WorkerFails(w)
            \/ HeedSignal(w)

Next ==
  \/ Faults \/ Restarts
  \/ \E t \in Thread : Dial(t) \/ ClientFails(t)
  \/ \E r \in Request : Accept(r)
  \/ Pull
  \/ \E w \in Worker : Lose(w) \/ Round(w)

Spec == Init /\ [][Next]_vars

\* Every process and thread goes on when it can, workloads end, and what has
\* ended is started again; nobody has to be killed or terminated.  What a
\* worker and the goroutine that serves it can do is never possible at once.
FairSpec ==
  /\ Spec
  /\ WF_vars(StartFrontend)
  /\ WF_vars(\E r \in Request : Accept(r))
  /\ WF_vars(Pull)
  /\ \A p \in Client : WF_vars(StartClient(p))
  /\ \A t \in Thread : WF_vars(Dial(t) \/ ClientFails(t))
  /\ \A w \in Worker : WF_vars(StartWorker(w) \/ Lose(w) \/ Round(w))

-----------------------------------------------------------------------------
(* Properties. *)

\* Every variable has its type; a thread of a process that is not there does
\* nothing, and no worker goes on with a connection of an earlier round: one
\* that is broken belongs to a worker that pulls or works.
TypeOK ==
  /\ client  \in [Client -> {"up", "down"}]
  /\ thread  \in [Thread -> {"idle", "waiting", "cut"}]
  /\ left    \in [Thread -> 0 .. MaxRequests]
  /\ front   \in {"up", "down"}
  /\ backlog \subseteq Request /\ pulls \subseteq Worker
  /\ pending \in [Queue -> Seq(Request)]
  /\ serving \in [Worker -> Request \cup {None}]
  /\ fate    \in [Request -> WQ!Fate]
  /\ counts  \in [success : Nat, failure : Nat, disconnect : Nat]
  /\ worker  \in [Worker -> {"down", "ask", "pull", "work", "check"}]
  /\ signal  \in [Worker -> BOOLEAN]
  /\ cut     \subseteq {w \in Worker : worker[w] \in {"pull", "work"}}
  /\ told    \in [Request -> {"none"} \cup Kinds]
  /\ lost \in Nat /\ stops \in Stops
  /\ \A t \in Thread : client[ClientOf[t]] = "down" => thread[t] = "idle"

\* Where the frontend has request r: with the client listener, in a queue, or
\* with the goroutine of a worker.
Listed(r)    == {<<"backlog", b, 0>> : b \in {r} \cap backlog}
Queued(r, q) == {<<"queue", q, i>> : i \in {j \in DOMAIN pending[q] : pending[q][j] = r}}
Served(r)    == {<<"worker", w, 0>> : w \in {v \in Worker : serving[v] = r}}
Places(r)    == Listed(r) \cup Served(r) \cup UNION {Queued(r, q) : q \in Queue}

\* Nobody waits for nothing, whoever was killed in between: a thread that waits
\* has its request in one place of a running frontend, and a worker that is
\* connected works on what a goroutine waits for.
NobodyForgotten ==
  /\ \A t \in Thread :
       thread[t] = "waiting" => front = "up" /\ Cardinality(Places(Current(t))) = 1
  /\ \A w \in Worker : worker[w] = "pull" /\ w \notin cut => w \in pulls
  /\ \A w \in Worker : worker[w] = "work" /\ w \notin cut => serving[w] # None

\* Workers can be terminated and replaced at any time without a request lost:
\* only a worker that is killed can fail one, and no more than one.
LostOnlyToKills == lost <= stops.worker

\* As long as the frontend stays, the end of a client or of a worker does not
\* take another process down: clients end when they are stopped, workers when
\* they are killed or terminated or have found the queue empty.
FaultsContained ==
  [][stops'.frontend = 0 =>
       /\ stops'.client = stops.client =>
            \A p \in Client : client[p] = "up" => client'[p] = "up"
       /\ stops'.worker = stops.worker =>
            \A w \in Worker :
              worker[w] # "down" /\ worker'[w] = "down"
                => signal[w] \/ pending[QueueOf[w]] = <<>>]_vars

Ended(how, kinds) == Cardinality({r \in Request : fate[r] = how /\ told[r] \in kinds})

\* The frontend's statistics and what its clients learned are the same, but for
\* replies to clients that had gone: an error with return code 0 is a success
\* to the frontend and a failure to the client, a refusal is a failure to the
\* client only, and no client that waited was counted as disconnected.
CountsAgree ==
  /\ counts.success >= Ended("answered", {"success", "error0"})
  /\ counts.failure >= Ended("answered", {"failure"})
  /\ counts.success + counts.failure = Ended("answered", Kinds \cup {"none"})
  /\ counts.disconnect = Ended("dropped", {"none"})
  /\ \A r \in Request :
       /\ fate[r] = "dropped" => told[r] = "none" /\ ~Waits(r)
       /\ told[r] = "success" => fate[r] = "answered"

\* However the processes were killed, in the end the frontend and the clients
\* run, all of the requests have been made, and each has ended: with a reply,
\* or with its client.
Recovers ==
  <>[](/\ front = "up"
       /\ \A p \in Client : client[p] = "up"
       /\ \A t \in Thread : thread[t] = "idle" /\ left[t] = 0)

=============================================================================
