---------------------------- MODULE ClientControl ----------------------------
(***************************************************************************)
(* How the client (cmd/client/main.go) throttles its requests.  The main   *)
(* loop of doParallelRequests lets reqnow of the reqmax request threads    *)
(* proceed: a thread takes a permit from its channel, does a request and   *)
(* reports on the finished channel, and the main loop gives it the next    *)
(* permit.  HTTP handlers change reqnow by sending a value on the channel  *)
(* parallel and reading the resulting value from the same channel.         *)
(*                                                                         *)
(* A step is one channel operation with the local code up to the next one. *)
(* A buffered channel is a sequence or a count; handing a value straight   *)
(* to a goroutine that waits for it is a send followed by its receive.     *)
(***************************************************************************)
EXTENDS Integers, Sequences, FiniteSets

CONSTANTS
  ReqMax,    \* -req-max: the number of request threads
  ReqStart,  \* -req-now: how many of them may proceed at the start
  Handler,   \* HTTP queries to /parallel that can be in progress at once
  Value      \* the numbers such queries ask for

ASSUME ControlAssumption ==
  /\ ReqMax \in Nat
  /\ ReqStart \in 0 .. ReqMax
  /\ Value \subseteq Int
  /\ IsFiniteSet(Handler)

\* The capacities of the channels proceed[i] and parallel; that of finished
\* is ReqMax.
ProceedCap  == 2
ParallelCap == 1

Thread == 0 .. ReqMax - 1

VARIABLES
  main,      \* the main loop: program counter, reqnow, target and loop index
  proceed,   \* the number of permits in each thread's channel
  thread,    \* "wait" for a permit, "busy" with a request, or "finish"
  finished,  \* the channel of threads whose request has ended
  parallel,  \* the channel shared by the handlers and the main loop
  handler,   \* each /parallel query: program counter and value
  shown,     \* stats.parallel
  exited     \* the process has ended

vars == <<main, proceed, thread, finished, parallel, handler, shown, exited>>

IdleHandler == [pc |-> "idle", value |-> 0]

\* The main loop waits in its select; the locals of its cases are gone.
Selecting(reqnow) == [pc |-> "select", reqnow |-> reqnow, target |-> 0, next |-> 0]

Init ==
  /\ main     = Selecting(ReqStart)
  /\ proceed  = [i \in Thread |-> IF i < ReqStart THEN 1 ELSE 0]
  /\ thread   = [i \in Thread |-> "wait"]
  /\ finished = <<>>
  /\ parallel = <<>>
  /\ handler  = [h \in Handler |-> IdleHandler]
  /\ shown    = ReqStart
  /\ exited   = FALSE

-----------------------------------------------------------------------------
(* The main loop. *)

\* MUTANT of Allowed: the last allowed thread does not get another permit.
AllowedOffByOne(i) == main.reqnow > i + 1

\* MUTANT of Allowed: permits are renewed whatever the setting is.
AlwaysAllowed(i) == TRUE

Allowed(i) == main.reqnow > i

\* A thread has finished; if it is allowed, it gets its next permit.
ReceiveFinished ==
  LET i == Head(finished) IN
  /\ main.pc = "select" /\ finished # <<>>
  /\ finished' = Tail(finished)
  /\ main'     = IF Allowed(i) THEN [main EXCEPT !.pc = "permit", !.next = i] ELSE main
  /\ UNCHANGED <<proceed, thread, parallel, handler, shown, exited>>

SendPermit ==
  /\ main.pc = "permit" /\ proceed[main.next] < ProceedCap
  /\ proceed' = [proceed EXCEPT ![main.next] = @ + 1]
  /\ main'    = Selecting(main.reqnow)
  /\ UNCHANGED <<thread, finished, parallel, handler, shown, exited>>

\* MUTANT of Clamp: a negative number is taken as it is.
ClampAbove(value) == IF value > ReqMax THEN ReqMax ELSE value

Clamp(value) == IF value > ReqMax THEN ReqMax ELSE IF value < 0 THEN 0 ELSE value

ReceiveValue ==
  /\ main.pc = "select" /\ parallel # <<>>
  /\ main'     = [main EXCEPT !.pc = "kick", !.next = main.reqnow,
                              !.target = Clamp(Head(parallel))]
  /\ parallel' = Tail(parallel)
  /\ UNCHANGED <<proceed, thread, finished, handler, shown, exited>>

\* One thread between the old and the new setting gets a permit, whether it
\* still has one or is busy with a request or not.
Kick ==
  /\ main.pc = "kick" /\ main.next < main.target
  /\ proceed[main.next] < ProceedCap
  /\ proceed' = [proceed EXCEPT ![main.next] = @ + 1]
  /\ main'    = [main EXCEPT !.next = @ + 1]
  /\ UNCHANGED <<thread, finished, parallel, handler, shown, exited>>

\* MUTANT of Returned: the handler is not told the new setting.
NotReturned == parallel

\* What the channel holds once the main loop has answered on it.
Returned == Append(parallel, main.target)

Return ==
  /\ main.pc = "kick" /\ main.next >= main.target
  /\ Len(parallel) < ParallelCap
  /\ parallel' = Returned
  /\ main'     = Selecting(main.target)
  /\ UNCHANGED <<proceed, thread, finished, handler, shown, exited>>

\* A termination signal: statistics are printed and the process exits.
Quit ==
  /\ main.pc = "select"
  /\ exited' = TRUE
  /\ UNCHANGED <<main, proceed, thread, finished, parallel, handler, shown>>

-----------------------------------------------------------------------------
(* The request threads. *)

Start(i) ==
  /\ thread[i] = "wait" /\ proceed[i] > 0
  /\ proceed' = [proceed EXCEPT ![i] = @ - 1]
  /\ thread'  = [thread EXCEPT ![i] = "busy"]
  /\ UNCHANGED <<main, finished, parallel, handler, shown, exited>>

\* The request got a reply, also one that reports an error.
Complete(i) ==
  /\ thread[i] = "busy"
  /\ thread' = [thread EXCEPT ![i] = "finish"]
  /\ UNCHANGED <<main, proceed, finished, parallel, handler, shown, exited>>

\* Connecting, writing, reading or parsing failed, which ends the process.
Fail(i) ==
  /\ thread[i] = "busy"
  /\ exited' = TRUE
  /\ UNCHANGED <<main, proceed, thread, finished, parallel, handler, shown>>

Finish(i) ==
  /\ thread[i] = "finish" /\ Len(finished) < ReqMax
  /\ finished' = Append(finished, i)
  /\ thread'   = [thread EXCEPT ![i] = "wait"]
  /\ UNCHANGED <<main, proceed, parallel, handler, shown, exited>>

-----------------------------------------------------------------------------
(* The HTTP handlers of /parallel. *)

\* A query with a number; one without is rejected and changes nothing here.
Ask(h) ==
  /\ handler[h].pc = "idle"
  /\ \E v \in Value : handler' = [handler EXCEPT ![h] = [pc |-> "send", value |-> v]]
  /\ UNCHANGED <<main, proceed, thread, finished, parallel, shown, exited>>

SendValue(h) ==
  /\ handler[h].pc = "send" /\ Len(parallel) < ParallelCap
  /\ parallel' = Append(parallel, handler[h].value)
  /\ handler'  = [handler EXCEPT ![h].pc = "receive"]
  /\ UNCHANGED <<main, proceed, thread, finished, shown, exited>>

\* Whatever is in the channel, be it the answer of the main loop or a value
\* that the main loop has not seen yet.
ReceiveCount(h) ==
  /\ handler[h].pc = "receive" /\ parallel # <<>>
  /\ parallel' = Tail(parallel)
  /\ handler'  = [handler EXCEPT ![h] = [pc |-> "store", value |-> Head(parallel)]]
  /\ UNCHANGED <<main, proceed, thread, finished, shown, exited>>

Store(h) ==
  /\ handler[h].pc = "store"
  /\ shown'   = handler[h].value
  /\ handler' = [handler EXCEPT ![h] = IdleHandler]
  /\ UNCHANGED <<main, proceed, thread, finished, parallel, exited>>

-----------------------------------------------------------------------------
(* The specification. *)

MainLoop == ReceiveFinished \/ SendPermit \/ ReceiveValue \/ Kick \/ Return

Request(i) == Start(i) \/ Complete(i) \/ Finish(i)

Parallelization(h) == SendValue(h) \/ ReceiveCount(h) \/ Store(h)

Next ==
  /\ ~exited
  /\ \/ MainLoop \/ Quit
     \/ \E i \in Thread : Request(i) \/ Fail(i)
     \/ \E h \in Handler : Ask(h) \/ Parallelization(h)

Spec == Init /\ [][Next]_vars

\* Every goroutine that can go on does so, a channel serves the goroutines
\* that wait to send on it in order, and the frontend answers every request
\* or the process ends.  Whether anyone queries /parallel is open.
FairSpec ==
  /\ Spec
  /\ WF_vars(~exited /\ MainLoop)
  /\ \A i \in Thread : /\ WF_vars(~exited /\ (Start(i) \/ Complete(i)))
                       /\ SF_vars(~exited /\ Finish(i))
  /\ \A h \in Handler : /\ WF_vars(~exited /\ (ReceiveCount(h) \/ Store(h)))
                        /\ SF_vars(~exited /\ SendValue(h))

-----------------------------------------------------------------------------
(* Properties. *)

\* Every variable has its type; the main loop gives permits to its threads
\* only, and the channels hold no more than their capacity.
TypeOK ==
  /\ main \in [pc : {"select", "permit", "kick"}, reqnow : 0 .. ReqMax,
               target : 0 .. ReqMax, next : 0 .. ReqMax]
  /\ main.pc = "permit" => main.next < ReqMax
  /\ proceed  \in [Thread -> 0 .. ProceedCap]
  /\ thread   \in [Thread -> {"wait", "busy", "finish"}]
  /\ finished \in Seq(Thread) /\ Len(finished) <= ReqMax
  /\ parallel \in Seq(Int) /\ Len(parallel) <= ParallelCap
  /\ handler  \in [Handler -> [pc : {"idle", "send", "receive", "store"}, value : Int]]
  /\ shown    \in Int
  /\ exited   \in BOOLEAN

\* Thread i has a permit, uses one, or will be given one for having used it.
HasPermit(i) ==
  \/ proceed[i] > 0
  \/ thread[i] \in {"busy", "finish"}
  \/ \E k \in DOMAIN finished : finished[k] = i
  \/ main.pc = "permit" /\ main.next = i

\* An allowed thread never starves: however often the setting is raised and
\* lowered while its request is in flight, its permit is not lost.
NoLostPermit == \A i \in Thread : i < main.reqnow => HasPermit(i)

\* Lowering the setting takes hold at once: from then on a thread above it gets
\* no permit, although it may have finished and been about to get one, so that
\* it starts no more requests than it has permits left.
PermitsWithinSetting ==
  [][\A i \in Thread : proceed'[i] > proceed[i] =>
       \/ i < main.reqnow
       \/ main.pc = "kick" /\ i < main.target]_vars

Receiving == {h \in Handler : handler[h].pc = "receive"}
InWork    == IF main.pc = "kick" THEN 1 ELSE 0

\* The handlers that wait for the channel are as many as the values that are
\* in it or that the main loop is working on: no handler waits without a value
\* for it, and no value is left behind for a later query to find.
HandlersAnswered == Cardinality(Receiving) = Len(parallel) + InWork

\* Everyone waits: the main loop for room in the channel of a thread, that
\* thread for room in finished, and only the main loop makes room there.
SendCycle ==
  /\ \/ main.pc = "kick" /\ main.next < main.target
     \/ main.pc = "permit"
  /\ proceed[main.next] = ProceedCap
  /\ thread[main.next] = "finish" /\ Len(finished) = ReqMax

\* The comment on finished: its size avoids the worst-case deadlock of the
\* main loop, the proceed channels and the finished channel.
NoSendCycle == ~SendCycle

\* What the statistics and the HTTP replies show as the number of parallel
\* requests is a setting the main loop can have, limited by the maximum.
ShownWithinMax == shown \in 0 .. ReqMax

\* The process runs, is not stuck in the cycle above, and no query to /parallel
\* is in progress.
Quiet == ~exited /\ ~SendCycle /\ \A h \in Handler : handler[h].pc = "idle"

\* Lowering the setting takes effect in the end: once it is not changed any
\* more, the threads above it use up their permits and stop.
ThrottleTakesEffect ==
  <>[]Quiet => <>[](\A i \in Thread : i >= main.reqnow =>
                      thread[i] = "wait" /\ proceed[i] = 0)

\* And the threads below it do one request after the other.
AllowedKeepRunning ==
  \A i \in Thread : <>[]Quiet => []<>(i < main.reqnow => thread[i] = "busy")

=============================================================================
