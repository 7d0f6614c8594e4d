------------------------------- MODULE Backend -------------------------------
(***************************************************************************)
(* One backend worker (cmd/backend/main.go).  It asks the frontend for a   *)
(* work item over a connection of its own, runs the workload, sends the    *)
(* reply and asks again.  When the queue is empty it exits, or sleeps for  *)
(* a growing time and retries.  A termination signal is looked at once per *)
(* round of the loop.  A time is a floating-point number of seconds in the *)
(* code, here a number of units of which a millisecond has Milli, or NaN.  *)
(***************************************************************************)
EXTENDS Integers, Sequences

CONSTANTS
  Options,   \* the command lines that the worker can be started with
  Request,   \* the argument lists that clients send
  ReqLimit,  \* the run-time limits that clients send, 0 for the default
  Duration,  \* how long a binary, or a sleep for an inconvertible time, can take
  Milli,     \* how many units of time make up a millisecond
  Longest,   \* the longest time that can be converted to a time.Duration
  NaN        \* the number that compares with none

\* What the options and the arguments are parsed to; infinity is a large number.
Num == Int \cup {NaN}

\* An argument is a time, some other text, or text with the word FILENAME.
Arg == [kind : {"secs", "text", "marker"}, secs : Num]

\* The flags and the arguments of a command line.
WorkOptions ==
  [inc    : Num,       \* -backoff: increment of the back-off time, 0 to exit
   max    : Num,       \* -backoff-max
   limit  : Num,       \* -limit: run-time limit of the workload, 0 for none
   ignore : BOOLEAN,   \* -ignore: do not append the client's arguments
   once   : BOOLEAN,   \* -once: run the workload directly and exit
   glob   : {"none", "matching", "unmatched"},  \* -glob, for a (device) file
   work   : {"sleep", "path", "other"},         \* the first argument
   args   : Seq(Arg)]  \* the arguments of the workload behind it

ASSUME BackendAssumption ==
  /\ Options \subseteq WorkOptions
  /\ Request \subseteq Seq(Arg)
  /\ ReqLimit \subseteq Int /\ Duration \subseteq Nat
  /\ Milli \in Nat \ {0} /\ Longest \in Nat /\ NaN \notin Int

VARIABLES
  opts,    \* the options
  pc,      \* where the main loop is, or how the process ended
  total,   \* the next back-off time
  nap,     \* how long the last sleep since the last work item took, or 0
  item,    \* the work item in hand
  reply,   \* the reply to be sent
  signal,  \* a termination signal waits in the channel
  late     \* work items taken since it came (no state of the program)

vars == <<opts, pc, total, nap, item, reply, signal, late>>

\* late counts no further than this.
LateBound == 2

NoItem  == [args |-> <<>>, limit |-> 0, inHand |-> FALSE]
NoReply == [ret |-> 0, timeout |-> 0, ran |-> 0, error |-> FALSE]

Init ==
  /\ opts   \in Options
  /\ pc     = "parse"
  /\ total  = 0
  /\ nap    = 0
  /\ item   = NoItem
  /\ reply  = NoReply
  /\ signal = FALSE
  /\ late   = 0

-----------------------------------------------------------------------------
(* Numbers. *)

\* a > b, which is false of NaN.
Above(a, b) == a \in Int /\ b \in Int /\ a > b

\* A time without its fraction of a millisecond.
Whole(t) == Milli * (t \div Milli)

\* How long a sleep for t seconds can take: the conversion to an unsigned number
\* of milliseconds cuts the time off, and makes anything of one out of its range.
Slept(t) == IF t \in 0 .. Longest THEN {Whole(t)} ELSE Duration

-----------------------------------------------------------------------------
(* The options. *)

\* mapArgs fails: an argument is to name a file, and there is none.
Unmappable(args) ==
  opts.glob # "matching" /\ \E i \in DOMAIN args : args[i].kind = "marker"

\* What mapArgs makes of the arguments: FILENAME is replaced.
MapArgs(args) ==
  [i \in DOMAIN args |-> IF args[i].kind = "marker" THEN [args[i] EXCEPT !.kind = "text"]
                                                    ELSE args[i]]

Invalid ==
  \/ opts.glob = "unmatched" \/ Unmappable(opts.args) \/ opts.work = "other"
  \/ Above(0, opts.inc) \/ Above(opts.inc, opts.max)

ParseOptions ==
  /\ pc = "parse"
  /\ pc'    = IF Invalid THEN "failed" ELSE IF opts.once THEN "once" ELSE "ask"
  /\ opts'  = [opts EXCEPT !.args = MapArgs(@)]
  /\ total' = opts.inc
  /\ UNCHANGED <<nap, item, reply, signal, late>>

-----------------------------------------------------------------------------
(* Running the workload. *)

Result(ret, timeout, ran, error) ==
  [ret |-> ret, timeout |-> timeout, ran |-> ran, error |-> error]

\* MUTANT of TimedOut: a run that is cut off is not reported as a time-out.
TimedOutSilently(limit, ran) == Result(0, 0, ran, FALSE)

TimedOut(limit, ran) == Result(0, limit, ran, TRUE)

\* The first argument counts, so the command line goes before the request.
RunSleep(args, limit) ==
  IF args = <<>> \/ args[1].kind # "secs" THEN {Result(1, 0, 0, TRUE)}
  ELSE IF Above(limit, 0) /\ Above(args[1].secs, limit)
       THEN {TimedOut(limit, ran) : ran \in Slept(limit)}
  ELSE {Result(0, 0, ran, FALSE) : ran \in Slept(args[1].secs)}

\* The results that a binary can have; its run time has no limit.
RunPath == {Result(ret, 0, ran, ret # 0) : ret \in {0, 1}, ran \in Duration}

\* MUTANT of RunLimit: the worker's own limit wins over the request's.
RunLimitOwn(deflimit, limit) == IF Above(limit, 0) THEN limit ELSE deflimit

\* The limit that doWork enforces; NaN is neither low nor high.
RunLimit(deflimit, limit) ==
  IF limit # NaN /\ (limit <= 0 \/ limit > deflimit) THEN deflimit ELSE limit

DoWork(args, deflimit, limit) ==
  IF opts.work = "sleep" THEN RunSleep(args, RunLimit(deflimit, limit)) ELSE RunPath

-----------------------------------------------------------------------------
(* The main loop. *)

\* -once: the workload is run directly, and what doWork returns is discarded.
RunOnce ==
  /\ pc = "once"
  /\ pc' = "exited"
  /\ UNCHANGED <<opts, total, nap, item, reply, signal, late>>

\* Connecting, writing, reading or parsing failed, the frontend refused the
\* request, or a binary cannot be started: the process ends with an error.
Fail ==
  /\ pc \in {"once", "ask", "work", "reply"}
  /\ pc \in {"once", "work"} => opts.work # "sleep"
  /\ pc' = "failed"
  /\ UNCHANGED <<opts, total, nap, item, reply, signal, late>>

GetWork ==
  /\ pc = "ask"
  /\ \E args \in Request, limit \in ReqLimit :
       item' = [args |-> args, limit |-> limit, inHand |-> TRUE]
  /\ pc'    = "work"
  /\ total' = opts.inc
  /\ nap'   = 0
  /\ late'  = IF signal /\ late < LateBound THEN late + 1 ELSE late
  /\ UNCHANGED <<opts, reply, signal>>

AtMost(t, bound) == IF Above(t, bound) THEN bound ELSE t

\* MUTANT of Backoff: the time is not limited by -limit.
BackoffToMax == AtMost(total, opts.max)

\* How long to sleep now: no longer than -backoff-max, nor than -limit.
Backoff ==
  IF Above(opts.limit, 0) THEN AtMost(AtMost(total, opts.max), opts.limit)
                          ELSE AtMost(total, opts.max)

\* MUTANT of NextBackoff: each sleep starts over.
RestartBackoff == opts.inc

\* MUTANT of NextBackoff: the time grows on behind its bound.
GrowBackoff == total + opts.inc

\* Longest bounds the growth: times beyond it are all slept for alike.
NextBackoff == IF Backoff > Longest THEN Backoff ELSE Backoff + opts.inc

\* The queue is empty.  Without back-off that ends the process.
QueueEmpty ==
  /\ pc = "ask"
  /\ IF Above(opts.inc, 0)
     THEN pc' = "sleep" /\ nap' \in Slept(Backoff) /\ total' = NextBackoff
     ELSE pc' = "exited" /\ UNCHANGED <<total, nap>>
  /\ UNCHANGED <<opts, item, reply, signal, late>>

Wake ==
  /\ pc = "sleep"
  /\ pc' = "check"
  /\ UNCHANGED <<opts, total, nap, item, reply, signal, late>>

\* The arguments that the workload is run with.
RunArgs == IF opts.ignore THEN opts.args ELSE opts.args \o MapArgs(item.args)

\* doWork takes the request's limit for its default, and -limit for the limit.
Work ==
  /\ pc = "work"
  /\ pc' = "reply"
  /\ reply' \in IF ~opts.ignore /\ Unmappable(item.args)
                THEN {Result(0, 0, 0, TRUE)}
                ELSE DoWork(RunArgs, item.limit, opts.limit)
  /\ UNCHANGED <<opts, total, nap, item, signal, late>>

\* MUTANT of AfterReply: the next item is asked for without a look at ch.
AskAgain == "ask"

AfterReply == "check"

SendReply ==
  /\ pc = "reply"
  /\ pc'    = AfterReply
  /\ item'  = NoItem
  /\ reply' = NoReply
  /\ UNCHANGED <<opts, total, nap, signal, late>>

\* MUTANT of AtCheck: a signal is heeded wherever the loop is.
AnyTime == pc \in {"check", "ask", "work", "reply", "sleep"}

AtCheck == pc = "check"

Check ==
  /\ AtCheck
  /\ pc' = IF signal THEN "exited" ELSE "ask"
  /\ UNCHANGED <<opts, total, nap, item, reply, signal, late>>

\* A termination signal arrives; the channel holds one.
Signal ==
  /\ pc \notin {"parse", "once", "exited", "failed"} /\ ~signal
  /\ signal' = TRUE
  /\ UNCHANGED <<opts, pc, total, nap, item, reply, late>>

Main == \/ ParseOptions \/ RunOnce \/ Fail
        \/ GetWork \/ QueueEmpty \/ Wake \/ Work \/ SendReply \/ Check

Next == Main \/ Signal

Spec == Init /\ [][Next]_vars

\* The frontend answers, the workload ends and sleeps end.
FairSpec == Spec /\ WF_vars(Main)

-----------------------------------------------------------------------------
(* Properties. *)

\* The process got past its options.
Started == pc \notin {"parse", "failed"}

\* Every variable has its type, there is an item exactly while it is worked on
\* or replied to, and a process that got past its options has valid ones.
TypeOK ==
  /\ opts   \in WorkOptions
  /\ pc     \in {"parse", "once", "ask", "sleep", "work", "reply", "check",
                "exited", "failed"}
  /\ total  \in Num /\ nap \in Nat
  /\ item   \in [args : Seq(Arg), limit : Int, inHand : BOOLEAN]
  /\ reply  \in [ret : {0, 1}, timeout : Nat, ran : Nat, error : BOOLEAN]
  /\ signal \in BOOLEAN
  /\ late   \in 0 .. LateBound
  /\ pc \in {"work", "reply"} => item.inHand
  /\ Started => ~Invalid
  /\ Started /\ opts.inc \in Int =>
       total \in Nat /\ (opts.max \in Int => total <= opts.max + opts.inc)

\* One of the options keeps the back-off time in the range that converts.
Convertible == opts.max \in 0 .. Longest \/ opts.limit \in 1 .. Longest

\* The sleep is as long as one of the options allows, to the millisecond.
AtBound == \E bound \in {opts.max, opts.limit} \cap (1 .. Longest) : nap = Whole(bound)

\* A worker that polls an empty queue sleeps no longer in between than it was
\* told to, nor than a work item may take, if these bounds can be converted; and
\* it does sleep, unless it was started with an increment or a limit of less
\* than a millisecond, of which the code makes no time at all.
NapBounded ==
  pc = "sleep" =>
    /\ opts.max \in 0 .. Longest => nap <= opts.max
    /\ opts.limit \in 1 .. Longest => nap <= opts.limit
    /\ Convertible /\ opts.inc >= Milli /\ opts.limit \notin 1 .. Milli - 1 => nap > 0

\* While the queue stays empty, each sleep is at least as long as the last; it
\* is longer if it is not at its bound yet and the increment is a millisecond or
\* more.  (Of less, some are as long as the last, as times are cut off.)
BackoffGrows ==
  [][(pc # "sleep" /\ pc' = "sleep" /\ Convertible) =>
       \/ nap' > nap
       \/ nap' = nap /\ (AtBound \/ opts.inc < Milli)]_vars

\* A terminated worker does not walk away with a request: the item it had has
\* been replied to, and after the signal it took at most one more.
CleanExit ==
  /\ pc = "exited" => ~item.inHand
  /\ late <= 1

\* The workload is the built-in one, not for a time that is negative or NaN.
Sleeps == opts.work = "sleep" /\ (RunArgs # <<>> => RunArgs[1].secs \in Nat)

\* The built-in workload does not run longer than the limit that a request
\* states, large times included.  Nothing is said of negative times and NaN,
\* which pass the comparison with the limit and are converted to any time, of
\* binaries, which run without a limit, and of a worker whose -limit is NaN,
\* which disables the limits of requests too.
RequestLimitHolds ==
  (pc = "reply" /\ Sleeps /\ item.limit \in 1 .. Longest /\ opts.limit # NaN)
    => reply.ran <= item.limit

\* A reply tells what happened: without an error the return code is zero, and
\* the built-in workload slept for the time it was asked for, to the millisecond
\* below, if that can be converted; a time-out is an error, and tells a time
\* that is shorter than that asked for and for which the workload ran.  (An
\* error can have the return code zero, and of a time that cannot be converted
\* any other is slept for and reported without an error.)
ReplyTruthful ==
  pc = "reply" =>
    /\ ~reply.error => reply.ret = 0
    /\ ~reply.error /\ opts.work = "sleep" =>
         RunArgs # <<>> /\ reply.ran \in Slept(RunArgs[1].secs)
    /\ reply.timeout > 0 =>
         reply.error /\ reply.ran \in Slept(reply.timeout)
                     /\ Above(RunArgs[1].secs, reply.timeout)

\* A termination signal ends the process.
SignalEnds == signal ~> pc \in {"exited", "failed"}

\* The flag -limit and the docs: a request without a limit has the worker's.
DefaultLimitHolds ==
  (pc = "reply" /\ Sleeps /\ item.limit = 0 /\ opts.limit \in 1 .. Longest)
    => reply.ran <= opts.limit

=============================================================================
