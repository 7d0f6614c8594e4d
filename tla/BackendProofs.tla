--------------------------- MODULE BackendProofs ---------------------------
(***************************************************************************)
(* Proofs about a backend worker, for every command line, every request    *)
(* and every run time of a workload.                                       *)
(***************************************************************************)
EXTENDS Backend, TLAPS

-----------------------------------------------------------------------------
(* Numbers. *)

\* What is cut off a time is less than a millisecond (1000 * t to uint64).
LEMMA WholeBounds ==
  ASSUME NEW t \in Nat
  PROVE  Whole(t) \in Nat /\ Whole(t) <= t /\ t < Whole(t) + Milli
<1> Milli \in Nat \ {0}
  BY BackendAssumption DEF BackendAssumption
<1>1. /\ t % Milli \in 0 .. Milli - 1 /\ t \div Milli \in Nat
      /\ t = (Milli * (t \div Milli)) + (t % Milli)
  OBVIOUS
<1> QED BY <1>1 DEF Whole

\* A longer time is not cut off to a shorter one.
LEMMA WholeMonotonic ==
  ASSUME NEW a \in Nat, NEW b \in Nat, a <= b
  PROVE  Whole(a) <= Whole(b)
<1> DEFINE p == a \div Milli
           q == b \div Milli
<1> Milli \in Nat \ {0}
  BY BackendAssumption DEF BackendAssumption
<1>1. p \in Nat /\ q \in Nat /\ Whole(a) = Milli * p /\ Whole(b) = Milli * q
  BY DEF Whole
<1> HIDE DEF p, q
<1>2. Milli * p < Milli * q + Milli
  BY <1>1, WholeBounds
<1>3. p <= q
  <2> SUFFICES ASSUME p > q PROVE FALSE
    BY <1>1
  <2>1. PICK d \in Nat : p = q + 1 + d
    BY <1>1
  <2>2. Milli * p = Milli * q + Milli + Milli * d /\ Milli * d \in Nat
    BY <1>1, <2>1
  <2> QED BY <1>1, <1>2, <2>2
<1>4. PICK d \in Nat : q = p + d
  BY <1>1, <1>3
<1>5. Milli * q = Milli * p + Milli * d /\ Milli * d \in Nat
  BY <1>1, <1>4
<1> QED BY <1>1, <1>5

\* A sleep takes some time, and one that can be converted takes what is left of it.
LEMMA SleptTyped ==
  ASSUME NEW t \in Num, NEW ran \in Slept(t)
  PROVE  ran \in Nat /\ (t \in 0 .. Longest => ran = Whole(t) /\ ran <= t)
<1>1. CASE t \in 0 .. Longest
  <2>1. ran = Whole(t) /\ t \in Nat
    BY <1>1, BackendAssumption DEF Slept, BackendAssumption
  <2> QED BY <2>1, WholeBounds
<1>2. CASE t \notin 0 .. Longest
  BY <1>2, BackendAssumption DEF Slept, BackendAssumption
<1> QED BY <1>1, <1>2

-----------------------------------------------------------------------------
(* Arguments and results. *)

\* Replacing FILENAME leaves an argument an argument (mapArgs).
LEMMA ArgTyped ==
  ASSUME NEW arg \in Arg
  PROVE  [arg EXCEPT !.kind = "text"] \in Arg
  BY DEF Arg

\* Arguments stay arguments, and nothing is left to be replaced (mapArgs).
LEMMA MapArgsTyped ==
  ASSUME NEW args \in Seq(Arg)
  PROVE  /\ MapArgs(args) \in Seq(Arg)
         /\ DOMAIN MapArgs(args) = DOMAIN args
         /\ \A i \in DOMAIN args : MapArgs(args)[i].kind # "marker"
<1> DEFINE Mapped(i) == IF args[i].kind = "marker" THEN [args[i] EXCEPT !.kind = "text"]
                                                   ELSE args[i]
<1>1. DOMAIN args = 1 .. Len(args) /\ Len(args) \in Nat
  OBVIOUS
<1>2. \A i \in 1 .. Len(args) : args[i] \in Arg
  OBVIOUS
<1>3. \A i \in 1 .. Len(args) : Mapped(i) \in Arg /\ Mapped(i).kind # "marker"
  <2>1. TAKE i \in 1 .. Len(args)
  <2>2. args[i] \in Arg
    BY <1>2
  <2>3. [args[i] EXCEPT !.kind = "text"] \in Arg
    BY <2>2, ArgTyped
  <2>4. [args[i] EXCEPT !.kind = "text"].kind = "text"
    BY <2>2 DEF Arg
  <2> QED BY <2>2, <2>3, <2>4
<1>4. MapArgs(args) = [i \in 1 .. Len(args) |-> Mapped(i)]
  BY <1>1 DEF MapArgs
<1> HIDE DEF Mapped
<1> QED BY <1>1, <1>3, <1>4

\* What a reply can be.
ReplyType == [ret : {0, 1}, timeout : Nat, ran : Nat, error : BOOLEAN]

\* A result that is put together of typed parts is a reply (doWork).
LEMMA ResultTyped ==
  ASSUME NEW ret \in {0, 1}, NEW timeout \in Nat, NEW ran \in Nat, NEW error \in BOOLEAN
  PROVE  Result(ret, timeout, ran, error) \in ReplyType
  BY DEF Result, ReplyType

\* The limit that is enforced on the workload is one of the two; unless the
\* worker's is NaN, it is not above a request's own (doWork).
LEMMA RunLimitTyped ==
  ASSUME NEW deflimit \in Int, NEW limit \in Num
  PROVE  /\ RunLimit(deflimit, limit) \in Num
         /\ deflimit > 0 /\ limit # NaN =>
              /\ RunLimit(deflimit, limit) \in 1 .. deflimit
              /\ limit > 0 => RunLimit(deflimit, limit) <= limit
<1>1. CASE limit = NaN
  BY <1>1 DEF RunLimit
<1>2. CASE limit # NaN
  <2>1. limit \in Int
    BY <1>2 DEF Num
  <2> QED BY <1>2, <2>1 DEF RunLimit, Num
<1> QED BY <1>1, <1>2

\* The outcomes of the built-in workload: it is an error to ask for no time, and
\* a time is slept for or cut off at the limit, and that is a time-out (runSleep).
LEMMA SleepOutcomes ==
  ASSUME NEW args \in Seq(Arg), NEW limit \in Num, NEW r \in RunSleep(args, limit)
  PROVE  /\ r \in ReplyType
         /\ ~r.error => args # <<>> /\ r.ret = 0 /\ r.ran \in Slept(args[1].secs)
         /\ r.timeout > 0 => /\ r.error /\ r.ran \in Slept(r.timeout)
                             /\ Above(args[1].secs, r.timeout)
         /\ limit \in 1 .. Longest /\ (args # <<>> => args[1].secs \in Nat)
              => r.ran <= limit
<1>1. CASE args = <<>> \/ args[1].kind # "secs"
  <2>1. r = Result(1, 0, 0, TRUE)
    BY <1>1 DEF RunSleep
  <2> QED BY <2>1 DEF Result, ReplyType
<1>2. CASE ~(args = <<>> \/ args[1].kind # "secs")
  <2> DEFINE secs == args[1].secs
  <2>1. args[1] \in Arg
    BY <1>2
  <2>2. secs \in Num
    BY <2>1 DEF Arg
  <2>3. \/ /\ Above(limit, 0) /\ Above(secs, limit)
           /\ \E ran \in Slept(limit) : r = TimedOut(limit, ran)
        \/ /\ ~(Above(limit, 0) /\ Above(secs, limit))
           /\ \E ran \in Slept(secs) : r = Result(0, 0, ran, FALSE)
    BY <1>2 DEF RunSleep
  <2> HIDE DEF secs
  <2>4. CASE /\ Above(limit, 0) /\ Above(secs, limit)
             /\ \E ran \in Slept(limit) : r = TimedOut(limit, ran)
    <3>1. PICK ran \in Slept(limit) : r = Result(0, limit, ran, TRUE)
      BY <2>4 DEF TimedOut
    <3>2. limit \in Nat /\ ran \in Nat /\ (limit \in 0 .. Longest => ran <= limit)
      BY <2>4, SleptTyped DEF Above
    <3>3. r \in ReplyType
      BY <3>1, <3>2, ResultTyped
    <3>4. r.ret = 0 /\ r.timeout = limit /\ r.ran = ran /\ r.error
      BY <3>1 DEF Result
    <3>5. limit \in 1 .. Longest => r.ran <= limit
      BY <3>2, <3>4
    <3> QED BY <2>4, <3>1, <3>3, <3>4, <3>5 DEF secs
  <2>5. CASE /\ ~(Above(limit, 0) /\ Above(secs, limit))
             /\ \E ran \in Slept(secs) : r = Result(0, 0, ran, FALSE)
    <3>1. PICK ran \in Slept(secs) : r = Result(0, 0, ran, FALSE)
      BY <2>5
    <3>2. ran \in Nat /\ (secs \in 0 .. Longest => ran <= secs)
      BY <2>2, SleptTyped
    <3>3. r \in ReplyType
      BY <3>1, <3>2, ResultTyped
    <3>4. r.ret = 0 /\ r.timeout = 0 /\ r.ran = ran /\ ~r.error
      BY <3>1 DEF Result
    <3>5. limit \in 1 .. Longest /\ secs \in Nat => r.ran <= limit
      <4> SUFFICES ASSUME limit \in 1 .. Longest, secs \in Nat PROVE ran <= limit
        BY <3>4
      <4>1. Longest \in Nat /\ limit \in Nat \ {0} /\ limit <= Longest
        BY BackendAssumption DEF BackendAssumption
      <4>2. secs <= limit
        BY <2>5, <4>1 DEF Above
      <4> QED BY <3>2, <4>1, <4>2
    <3>6. args # <<>> /\ r.ran \in Slept(secs)
      BY <1>2, <3>1, <3>4
    <3> QED BY <3>3, <3>4, <3>5, <3>6 DEF secs
  <2> QED BY <2>3, <2>4, <2>5
<1> QED BY <1>1, <1>2

\* A binary reports its return code, and never a time-out (runPath).
LEMMA PathOutcomes ==
  ASSUME NEW r \in RunPath
  PROVE  r \in ReplyType /\ (~r.error => r.ret = 0) /\ r.timeout = 0
<1>1. PICK ret \in {0, 1}, ran \in Duration : r = Result(ret, 0, ran, ret # 0)
  BY DEF RunPath
<1>2. ran \in Nat
  BY BackendAssumption DEF BackendAssumption
<1>3. r \in ReplyType
  BY <1>1, <1>2, ResultTyped
<1> QED BY <1>1, <1>3 DEF Result

-----------------------------------------------------------------------------
(* Types. *)

\* The options that the process goes on with are those of a valid command
\* line, with nothing left to be replaced.
LEMMA ParseTyped ==
  ASSUME TypeOK, ParseOptions
  PROVE  TypeOK'
<1> USE DEF TypeOK
<1>1. opts.args \in Seq(Arg)
  BY DEF WorkOptions
<1>2. MapArgs(opts.args) \in Seq(Arg)
  BY <1>1, MapArgsTyped
<1>3. opts' \in WorkOptions /\ opts'.args = MapArgs(opts.args)
  BY <1>2 DEF ParseOptions, WorkOptions
<1>4. ~Unmappable(opts.args)'
  BY <1>1, <1>3, MapArgsTyped DEF Unmappable
<1>5. /\ opts'.glob = opts.glob /\ opts'.work = opts.work
      /\ opts'.inc = opts.inc /\ opts'.max = opts.max
  BY DEF ParseOptions, WorkOptions
<1>6. Started' => ~Invalid'
  BY <1>4, <1>5 DEF ParseOptions, Invalid, Started
<1>7. total' = opts.inc /\ opts.inc \in Num /\ opts.max \in Num
  BY DEF ParseOptions, WorkOptions
<1>8. Started' /\ opts'.inc \in Int =>
        total' \in Nat /\ (opts'.max \in Int => total' <= opts'.max + opts'.inc)
  BY <1>5, <1>6, <1>7 DEF Invalid, Above
<1> QED
  BY <1>3, <1>6, <1>7, <1>8 DEF ParseOptions

\* A workload is run with arguments, and ends with a reply of its type (doWork).
LEMMA WorkTyped ==
  ASSUME TypeOK, Work
  PROVE  RunArgs \in Seq(Arg) /\ reply' \in ReplyType
<1>1. /\ opts.args \in Seq(Arg) /\ item.args \in Seq(Arg)
      /\ item.limit \in Int /\ opts.limit \in Num
  BY DEF TypeOK, WorkOptions
<1>2. RunArgs \in Seq(Arg)
  BY <1>1, MapArgsTyped DEF RunArgs
<1>3. RunLimit(item.limit, opts.limit) \in Num
  BY <1>1, RunLimitTyped
<1>4. \/ reply' = Result(0, 0, 0, TRUE)
      \/ reply' \in RunSleep(RunArgs, RunLimit(item.limit, opts.limit))
      \/ reply' \in RunPath
  BY DEF Work, DoWork
<1>5. Result(0, 0, 0, TRUE) \in ReplyType
  BY ResultTyped
<1> QED
  BY <1>2, <1>3, <1>4, <1>5, SleepOutcomes, PathOutcomes

\* The next back-off time stays within the two options.
LEMMA BackoffTyped ==
  ASSUME TypeOK, Started, Above(opts.inc, 0)
  PROVE  /\ Backoff \in Nat /\ Backoff <= total
         /\ opts.max \in Int => Backoff <= opts.max
         /\ Above(opts.limit, 0) => Backoff <= opts.limit
         /\ \/ Backoff = total
            \/ Backoff = opts.max
            \/ Backoff = opts.limit /\ opts.limit > 0
         /\ opts.inc \in Nat \ {0} /\ (opts.max \in Int => opts.inc <= opts.max)
         /\ total \in Nat
<1>1. opts.inc \in Nat \ {0} /\ opts.max \in Num /\ opts.limit \in Num /\ total \in Nat
  BY DEF TypeOK, WorkOptions, Above
<1>2. opts.max \in Int => opts.max >= opts.inc
  BY <1>1 DEF TypeOK, Invalid, Above
<1> DEFINE capped == AtMost(total, opts.max)
<1>3. /\ capped \in Nat /\ capped <= total
      /\ opts.max \in Int => capped <= opts.max
      /\ capped = total \/ capped = opts.max
  BY <1>1, <1>2 DEF AtMost, Above
<1>4. Backoff = IF Above(opts.limit, 0) THEN AtMost(capped, opts.limit) ELSE capped
  BY DEF Backoff
<1> HIDE DEF capped
<1>5. CASE Above(opts.limit, 0)
  <2>1. opts.limit \in Nat \ {0}
    BY <1>5 DEF Above
  <2>2. /\ Backoff \in Nat /\ Backoff <= capped /\ Backoff <= opts.limit
        /\ Backoff = capped \/ Backoff = opts.limit
    BY <1>3, <1>4, <1>5, <2>1 DEF AtMost, Above
  <2> QED BY <1>1, <1>2, <1>3, <2>1, <2>2
<1>6. CASE ~Above(opts.limit, 0)
  BY <1>1, <1>2, <1>3, <1>4, <1>6
<1> QED BY <1>5, <1>6

\* Types hold in the beginning.
LEMMA TypeInit == Init => TypeOK
<1> SUFFICES ASSUME Init PROVE TypeOK
  OBVIOUS
<1>1. opts \in WorkOptions
  BY BackendAssumption DEF BackendAssumption, Init
<1>2. item \in [args : Seq(Arg), limit : Int, inHand : BOOLEAN]
  BY DEF Init, NoItem
<1>3. reply \in [ret : {0, 1}, timeout : Nat, ran : Nat, error : BOOLEAN]
  BY DEF Init, NoReply
<1>4. pc = "parse" /\ total = 0 /\ nap = 0 /\ late = 0
  BY DEF Init
<1>5. late \in 0 .. LateBound
  BY <1>4 DEF LateBound
<1>6. ~Started
  BY <1>4 DEF Started
<1>7. pc # "work" /\ pc # "reply"
  BY <1>4
<1>8. total \in Num /\ nap \in Nat
  BY <1>4 DEF Num
<1>9. signal \in BOOLEAN
  BY Zenon DEF Init
<1>10. pc \in {"parse", "once", "ask", "sleep", "work", "reply", "check", "exited", "failed"}
  BY <1>4
<1> QED
  BY <1>1, <1>2, <1>3, <1>5, <1>6, <1>7, <1>8, <1>9, <1>10, Zenon DEF TypeOK

\* Types are kept by every step.
LEMMA TypeNext ==
  ASSUME TypeOK, [Next]_vars
  PROVE  TypeOK'
<1>1. CASE ParseOptions
  BY <1>1, ParseTyped
<1>2. CASE RunOnce
  BY <1>2 DEF RunOnce, TypeOK, Started, Invalid, Unmappable
<1>3. CASE Fail
  BY <1>3 DEF Fail, TypeOK, Started, Invalid, Unmappable
<1>4. CASE GetWork
  <2>1. item' \in [args : Seq(Arg), limit : Int, inHand : BOOLEAN] /\ item'.inHand
    BY <1>4, BackendAssumption DEF BackendAssumption, GetWork
  <2>2. total' = opts.inc /\ opts' = opts /\ nap' = 0 /\ opts.inc \in Num /\ opts.max \in Num
    BY <1>4 DEF GetWork, TypeOK, WorkOptions
  <2>3. late' \in 0 .. LateBound
    BY <1>4 DEF GetWork, TypeOK, LateBound
  <2>4. Started
    BY <1>4 DEF GetWork, Started
  <2>5. opts.inc \in Int =>
          total' \in Nat /\ (opts.max \in Int => total' <= opts.max + opts.inc)
    BY <2>2, <2>4 DEF TypeOK, Invalid, Above
  <2>6. ~Invalid'
    BY <2>2, <2>4 DEF TypeOK, Invalid, Unmappable
  <2> QED
    BY <1>4, <2>1, <2>2, <2>3, <2>5, <2>6 DEF GetWork, TypeOK
<1>5. CASE QueueEmpty
  <2>1. UNCHANGED <<opts, item, reply, signal, late>> /\ pc = "ask" /\ pc' \in {"exited", "sleep"}
    BY <1>5 DEF QueueEmpty
  <2>2. Started
    BY <2>1 DEF Started
  <2>3. /\ total' \in Num /\ nap' \in Nat
        /\ opts.inc \in Int =>
             total' \in Nat /\ (opts.max \in Int => total' <= opts.max + opts.inc)
    <3>1. CASE Above(opts.inc, 0)
      <4>1. nap' \in Slept(Backoff) /\ total' = NextBackoff
        BY <1>5, <3>1 DEF QueueEmpty
      <4>2. /\ Backoff \in Nat /\ opts.inc \in Nat
            /\ opts.max \in Int => Backoff <= opts.max
        BY <2>2, <3>1, BackoffTyped
      <4>3. nap' \in Nat
        BY <4>1, <4>2, SleptTyped DEF Num
      <4>4. total' = Backoff \/ total' = Backoff + opts.inc
        BY <4>1 DEF NextBackoff
      <4> QED BY <4>2, <4>3, <4>4 DEF Num
    <3>2. CASE ~Above(opts.inc, 0)
      <4>1. total' = total /\ nap' = nap
        BY <1>5, <3>2 DEF QueueEmpty
      <4> QED BY <2>2, <4>1 DEF TypeOK
    <3> QED BY <3>1, <3>2
  <2>4. ~Invalid'
    BY <2>1, <2>2 DEF TypeOK, Invalid, Unmappable
  <2> QED
    BY <2>1, <2>3, <2>4 DEF TypeOK
<1>6. CASE Wake
  BY <1>6 DEF Wake, TypeOK, Started, Invalid, Unmappable
<1>7. CASE Work
  BY <1>7, WorkTyped DEF Work, TypeOK, Started, Invalid, Unmappable, ReplyType
<1>8. CASE SendReply
  BY <1>8 DEF SendReply, AfterReply, NoItem, NoReply, TypeOK, Started, Invalid, Unmappable
<1>9. CASE Check
  BY <1>9 DEF Check, AtCheck, TypeOK, Started, Invalid, Unmappable
<1>10. CASE Signal
  BY <1>10 DEF Signal, TypeOK, Started, Invalid, Unmappable
<1>11. CASE UNCHANGED vars
  BY <1>11 DEF vars, TypeOK, Started, Invalid, Unmappable
<1> QED
  BY <1>1, <1>2, <1>3, <1>4, <1>5, <1>6, <1>7, <1>8, <1>9, <1>10, <1>11 DEF Next, Main

\* In every reachable state of a worker its variables have their types, an
\* item is in hand while it is worked on, and the options are valid ones.
THEOREM BackendTypeCorrect == Spec => []TypeOK
<1>1. Init => TypeOK
  BY TypeInit
<1>2. TypeOK /\ [Next]_vars => TypeOK'
  BY TypeNext
<1> QED BY <1>1, <1>2, PTL DEF Spec

-----------------------------------------------------------------------------
(* Sleeps and termination. *)

\* The back-off time is that of the last nap and an increment, as long as it can
\* be converted, and a nap is no longer than the options allow.
NapInv ==
  /\ pc = "parse" => nap = 0
  /\ pc = "sleep" => Above(opts.inc, 0)
  /\ Started /\ Above(opts.inc, 0) /\ Convertible =>
       /\ opts.inc <= total
       /\ opts.max \in Int => total - opts.inc <= opts.max
       /\ Above(opts.limit, 0) => total - opts.inc <= opts.limit
       /\ nap = Whole(total - opts.inc)
       /\ pc = "sleep" =>
            /\ total - opts.inc <= Longest
            /\ opts.inc >= Milli /\ opts.limit \notin 1 .. Milli - 1 => nap > 0

\* There is no item without a loop that works on it, and one that was taken
\* after a signal is the last one.
ExitInv ==
  /\ pc \in {"parse", "once", "ask", "sleep", "check", "exited"} => ~item.inHand
  /\ late > 0 => signal /\ pc \in {"work", "reply", "check", "exited", "failed"}
  /\ late <= 1

\* If one of the two bounds can be converted, so can the next back-off time.
LEMMA ConvertibleBackoff ==
  ASSUME TypeOK, Started, Above(opts.inc, 0), Convertible
  PROVE  Backoff \in 0 .. Longest
<1>1. CASE opts.max \in 0 .. Longest
  <2>1. opts.max \in Int
    BY <1>1
  <2> QED BY <1>1, <2>1, BackoffTyped, BackendAssumption DEF BackendAssumption
<1>2. CASE opts.limit \in 1 .. Longest
  <2>1. Above(opts.limit, 0)
    BY <1>2 DEF Above
  <2> QED BY <1>2, <2>1, BackoffTyped, BackendAssumption DEF BackendAssumption
<1> QED BY <1>1, <1>2 DEF Convertible

\* An empty queue puts the worker to sleep for a proper time.
LEMMA QueueEmptyNap ==
  ASSUME TypeOK, NapInv, QueueEmpty
  PROVE  NapInv'
<1>1. Started /\ opts' = opts /\ Convertible' = Convertible /\ pc # "sleep"
  BY DEF QueueEmpty, Started, Convertible
<1>2. CASE ~Above(opts.inc, 0)
  BY <1>1, <1>2 DEF QueueEmpty, NapInv, Started
<1>3. CASE Above(opts.inc, 0) /\ ~Convertible
  BY <1>1, <1>3 DEF QueueEmpty, NapInv
<1>4. CASE Above(opts.inc, 0) /\ Convertible
  <2>1. pc' = "sleep" /\ nap' \in Slept(Backoff) /\ total' = NextBackoff
    BY <1>4 DEF QueueEmpty
  <2>2. Backoff \in 0 .. Longest
    BY <1>1, <1>4, ConvertibleBackoff
  <2>3. nap' = Whole(Backoff) /\ total' = Backoff + opts.inc
    <3>1. ~(Backoff > Longest)
      BY <2>2, BackendAssumption DEF BackendAssumption
    <3> QED BY <2>1, <2>2, <3>1 DEF Slept, NextBackoff
  <2>4. /\ opts.inc \in Nat \ {0} /\ total \in Nat /\ Milli \in Nat \ {0}
        /\ opts.limit \in Num /\ Longest \in Nat
    BY <1>1, <1>4, BackoffTyped, BackendAssumption DEF BackendAssumption, TypeOK, WorkOptions
  <2>5. total' - opts.inc = Backoff
    BY <2>2, <2>3, <2>4
  <2>6. opts.inc <= total
    BY <1>1, <1>4 DEF NapInv
  <2>7. ASSUME opts.inc >= Milli, opts.limit \notin 1 .. Milli - 1
        PROVE  nap' > 0
    <3>1. Backoff >= Milli
      <4>1. opts.max \in Int => opts.max >= Milli
        BY <1>1, <1>4, <2>4, <2>7, BackoffTyped
      <4>2. opts.max \in Num
        BY DEF TypeOK, WorkOptions
      <4>3. \/ Backoff = total
            \/ Backoff = opts.max
            \/ Backoff = opts.limit /\ opts.limit > 0
        BY <1>1, <1>4, BackoffTyped
      <4>4. opts.max = Backoff => opts.max \in Int
        BY <2>2
      <4>5. opts.limit = Backoff /\ opts.limit > 0 => opts.limit >= Milli
        BY <2>2, <2>4, <2>7
      <4> QED BY <2>4, <2>6, <2>7, <4>1, <4>3, <4>4, <4>5
    <3>2. Whole(Backoff) \in Nat /\ Backoff < Whole(Backoff) + Milli
      BY <2>2, WholeBounds
    <3> QED BY <2>2, <2>3, <2>4, <3>1, <3>2
  <2>8. /\ opts.inc <= total' /\ Backoff <= Longest
        /\ opts.max \in Int => Backoff <= opts.max
        /\ Above(opts.limit, 0) => Backoff <= opts.limit
    BY <1>1, <1>4, <2>2, <2>3, <2>4, BackoffTyped
  <2>9. total' - opts'.inc = Backoff /\ nap' = Whole(Backoff) /\ opts' = opts
    BY <1>1, <2>3, <2>5
  <2> QED BY <1>4, <2>1, <2>7, <2>8, <2>9 DEF NapInv
<1> QED BY <1>2, <1>3, <1>4

\* With the first increment nothing has been slept yet.
LEMMA FirstNap ==
  ASSUME TypeOK', pc' \notin {"parse", "sleep"}, total' = opts'.inc, nap' = 0
  PROVE  NapInv'
<1> SUFFICES ASSUME Started', Above(opts'.inc, 0), Convertible'
             PROVE  /\ opts'.inc <= total'
                    /\ opts'.max \in Int => total' - opts'.inc <= opts'.max
                    /\ Above(opts'.limit, 0) => total' - opts'.inc <= opts'.limit
                    /\ nap' = Whole(total' - opts'.inc)
  BY DEF NapInv
<1>1. opts'.inc \in Nat \ {0} /\ total' - opts'.inc = 0
  BY DEF Above
<1>2. opts'.max \in Int => opts'.max >= 0
  BY <1>1 DEF TypeOK, Invalid, Above
<1>3. Whole(0) = 0
  BY WholeBounds
<1> QED BY <1>1, <1>2, <1>3 DEF Above

\* Every step keeps the bounds of the naps.
LEMMA NapNext ==
  ASSUME TypeOK, NapInv, [Next]_vars
  PROVE  NapInv'
<1>1. TypeOK'
  BY TypeNext
<1>2. CASE ParseOptions \/ GetWork
  <2>1. pc' \notin {"parse", "sleep"} /\ total' = opts'.inc /\ nap' = 0
    BY <1>2 DEF ParseOptions, GetWork, TypeOK, WorkOptions, NapInv
  <2> QED BY <1>1, <2>1, FirstNap
<1>3. CASE QueueEmpty
  BY <1>3, QueueEmptyNap
<1>4. CASE \/ RunOnce \/ Fail \/ Wake \/ Work \/ SendReply \/ Check \/ Signal
           \/ UNCHANGED vars
  <2>1. /\ opts' = opts /\ total' = total /\ nap' = nap
        /\ pc' # "parse" \/ pc = "parse"
        /\ pc' = "sleep" => pc = "sleep"
        /\ Started' => Started
    BY <1>4 DEF RunOnce, Fail, Wake, Work, SendReply, AfterReply, Check, AtCheck, Signal,
                vars, Started
  <2>2. Convertible' = Convertible
    BY <2>1 DEF Convertible
  <2> QED BY <2>1, <2>2 DEF NapInv
<1> QED BY <1>2, <1>3, <1>4 DEF Next, Main

\* Every step keeps the worker's hands clean.
LEMMA ExitNext ==
  ASSUME TypeOK, ExitInv, [Next]_vars
  PROVE  ExitInv'
<1> USE DEF ExitInv
<1> late \in 0 .. 2
  BY DEF TypeOK, LateBound
<1>1. CASE ParseOptions
  BY <1>1 DEF ParseOptions
<1>2. CASE RunOnce
  BY <1>2 DEF RunOnce
<1>3. CASE Fail
  BY <1>3 DEF Fail
<1>4. CASE GetWork
  BY <1>4 DEF GetWork, LateBound
<1>5. CASE QueueEmpty
  BY <1>5 DEF QueueEmpty
<1>6. CASE Wake
  BY <1>6 DEF Wake
<1>7. CASE Work
  BY <1>7 DEF Work
<1>8. CASE SendReply
  BY <1>8 DEF SendReply, AfterReply, NoItem
<1>9. CASE Check
  BY <1>9 DEF Check, AtCheck
<1>10. CASE Signal
  BY <1>10 DEF Signal
<1>11. CASE UNCHANGED vars
  BY <1>11 DEF vars
<1> QED
  BY <1>1, <1>2, <1>3, <1>4, <1>5, <1>6, <1>7, <1>8, <1>9, <1>10, <1>11 DEF Next, Main

\* Both hold in the beginning.
LEMMA NapExitInit ==
  ASSUME Init
  PROVE  NapInv /\ ExitInv
<1>1. pc = "parse" /\ nap = 0 /\ late = 0
  BY DEF Init
<1>2. ~item.inHand
  BY DEF Init, NoItem
<1> QED BY <1>1, <1>2 DEF NapInv, ExitInv, Started

\* A worker that found the queue empty sleeps for no longer than -backoff-max and
\* -limit allow, cut off to milliseconds as the code does, and it does sleep
\* unless it was started with less than a millisecond.
THEOREM NapsAreBounded == Spec => []NapBounded
<1>1. Init => TypeOK /\ NapInv
  BY TypeInit, NapExitInit
<1>2. TypeOK /\ NapInv /\ [Next]_vars => TypeOK' /\ NapInv'
  BY TypeNext, NapNext
<1>3. TypeOK /\ NapInv => NapBounded
  <2> SUFFICES ASSUME TypeOK, NapInv, pc = "sleep"
               PROVE  /\ opts.max \in 0 .. Longest => nap <= opts.max
                      /\ opts.limit \in 1 .. Longest => nap <= opts.limit
                      /\ Convertible /\ opts.inc >= Milli /\ opts.limit \notin 1 .. Milli - 1
                           => nap > 0
    BY DEF NapBounded
  <2>1. Started /\ Above(opts.inc, 0)
    BY DEF NapInv, Started
  <2>2. opts.inc \in Nat /\ total \in Nat /\ nap \in Nat /\ Longest \in Nat
    BY <2>1, BackendAssumption DEF TypeOK, Above, BackendAssumption
  <2>3. CASE Convertible
    <3>1. total - opts.inc \in Nat /\ nap = Whole(total - opts.inc)
      BY <2>1, <2>2, <2>3 DEF NapInv
    <3>2. nap <= total - opts.inc
      BY <3>1, WholeBounds
    <3>3. opts.max \in 0 .. Longest => nap <= opts.max
      BY <2>1, <2>2, <2>3, <3>1, <3>2 DEF NapInv
    <3>4. opts.limit \in 1 .. Longest => nap <= opts.limit
      BY <2>1, <2>2, <2>3, <3>1, <3>2 DEF NapInv, Above
    <3>5. opts.inc >= Milli /\ opts.limit \notin 1 .. Milli - 1 => nap > 0
      BY <2>1, <2>3 DEF NapInv
    <3> QED BY <3>3, <3>4, <3>5
  <2>4. CASE ~Convertible
    BY <2>4 DEF Convertible
  <2> QED BY <2>3, <2>4
<1> QED BY <1>1, <1>2, <1>3, PTL DEF Spec

\* While the queue stays empty no sleep is shorter than the last, and if the
\* increment is a millisecond or more each is longer, until one of the options
\* bounds it: a growing back-off that never starts over.
THEOREM BackoffNeverShrinks == Spec => BackoffGrows
<1>1. Init => TypeOK /\ NapInv
  BY TypeInit, NapExitInit
<1>2. TypeOK /\ NapInv /\ [Next]_vars => TypeOK' /\ NapInv'
  BY TypeNext, NapNext
<1>3. ASSUME TypeOK, NapInv, [Next]_vars, pc # "sleep", pc' = "sleep", Convertible
      PROVE  \/ nap' > nap
             \/ nap' = nap /\ (AtBound \/ opts.inc < Milli)
  <2>1. QueueEmpty
    BY <1>3 DEF Next, Main, ParseOptions, RunOnce, Fail, GetWork, Wake, Work, SendReply,
                AfterReply, Check, AtCheck, Signal, vars
  <2>2. Started /\ Above(opts.inc, 0) /\ nap' \in Slept(Backoff)
    BY <1>3, <2>1 DEF QueueEmpty, Started
  <2>3. Backoff \in 0 .. Longest /\ Longest \in Nat /\ Milli \in Nat \ {0}
    BY <1>3, <2>2, ConvertibleBackoff, BackendAssumption DEF BackendAssumption
  <2>4. nap' = Whole(Backoff)
    BY <2>2, <2>3 DEF Slept
  <2> DEFINE last == total - opts.inc
  <2>5. /\ opts.inc \in Nat \ {0} /\ total \in Nat /\ Backoff <= total
        /\ \/ Backoff = total
           \/ Backoff = opts.max
           \/ Backoff = opts.limit /\ opts.limit > 0
    BY <1>3, <2>2, BackoffTyped
  <2>6. /\ last \in Nat /\ nap = Whole(last) /\ total = last + opts.inc
        /\ opts.max \in Int => last <= opts.max
        /\ Above(opts.limit, 0) => last <= opts.limit
    BY <1>3, <2>2, <2>5 DEF NapInv
  <2> HIDE DEF last
  <2>7. /\ nap \in Nat /\ nap <= last
        /\ nap' \in Nat /\ Backoff < nap' + Milli
    BY <2>3, <2>4, <2>6, WholeBounds
  <2>8. CASE Backoff = total
    <3>1. nap <= nap'
      BY <2>4, <2>5, <2>6, <2>8, WholeMonotonic
    <3>2. opts.inc >= Milli => nap' > nap
      BY <2>3, <2>5, <2>6, <2>7, <2>8
    <3> QED BY <2>3, <2>5, <2>7, <3>1, <3>2
  <2>9. CASE Backoff = opts.max \/ (Backoff = opts.limit /\ opts.limit > 0)
    <3>1. Backoff \in Nat /\ last <= Backoff
      BY <2>3, <2>6, <2>9 DEF Above
    <3>2. nap <= nap'
      BY <2>4, <2>6, <3>1, WholeMonotonic
    <3>3. CASE Backoff = 0
      <4>1. nap' = 0
        BY <2>3, <2>4, <3>3, WholeBounds
      <4>2. total # 0 /\ opts.max = 0
        BY <2>5, <2>9, <3>3, <2>6
      <4>3. FALSE
        BY <1>3, <2>2, <2>5, <4>2, BackoffTyped
      <4> QED BY <4>3
    <3>4. CASE Backoff # 0
      <4>1. Backoff \in {opts.max, opts.limit} \cap (1 .. Longest)
        BY <2>3, <2>9, <3>4
      <4>2. nap' = nap => AtBound
        BY <2>4, <4>1 DEF AtBound
      <4> QED BY <2>7, <3>2, <4>2
    <3> QED BY <3>3, <3>4
  <2>10. Backoff = total \/ (Backoff = opts.max \/ (Backoff = opts.limit /\ opts.limit > 0))
    BY <2>5
  <2> QED BY <2>8, <2>9, <2>10
<1>4. TypeOK /\ NapInv /\ [Next]_vars =>
        [(pc # "sleep" /\ pc' = "sleep" /\ Convertible) =>
           \/ nap' > nap
           \/ nap' = nap /\ (AtBound \/ opts.inc < Milli)]_vars
  BY <1>3
<1> QED BY <1>1, <1>2, <1>4, PTL DEF Spec, BackoffGrows

\* A worker exits with no item in hand, and takes at most one after a signal.
THEOREM ExitsAreClean == Spec => []CleanExit
<1>1. Init => TypeOK /\ ExitInv
  BY TypeInit, NapExitInit
<1>2. TypeOK /\ ExitInv /\ [Next]_vars => TypeOK' /\ ExitInv'
  BY TypeNext, ExitNext
<1>3. ExitInv => CleanExit
  BY DEF ExitInv, CleanExit
<1> QED BY <1>1, <1>2, <1>3, PTL DEF Spec

-----------------------------------------------------------------------------
(* Replies. *)

\* What is left of DefaultLimitHolds: to a request that states a limit of its own
\* the worker's applies as well, for the built-in workload and a time that is
\* neither negative nor NaN.
SmallerLimitHolds ==
  (pc = "reply" /\ Sleeps /\ item.limit > 0 /\ opts.limit \in 1 .. Longest)
    => reply.ran <= opts.limit

\* What is proved of replies.
RepliesInv == RequestLimitHolds /\ SmallerLimitHolds /\ ReplyTruthful

\* What a workload comes to is the truth about it, within the request's limit.
LEMMA WorkReplies ==
  ASSUME TypeOK, Work
  PROVE  RepliesInv'
<1>1. opts' = opts /\ item' = item
  BY DEF Work
<1>2. opts.limit \in Num /\ item.limit \in Int /\ Longest \in Nat /\ NaN \notin Int
  BY BackendAssumption DEF TypeOK, WorkOptions, BackendAssumption
<1>3. RunArgs' = RunArgs /\ RunArgs \in Seq(Arg) /\ reply' \in ReplyType
  BY <1>1, WorkTyped DEF RunArgs, MapArgs
<1>4. Sleeps' = (opts.work = "sleep" /\ (RunArgs # <<>> => RunArgs[1].secs \in Nat))
  BY <1>1, <1>3 DEF Sleeps
<1> DEFINE bound == RunLimit(item.limit, opts.limit)
<1>5. /\ bound \in Num
      /\ item.limit > 0 /\ opts.limit # NaN =>
           /\ bound \in 1 .. item.limit
           /\ opts.limit > 0 => bound <= opts.limit
  BY <1>2, RunLimitTyped
<1> HIDE DEF bound
<1>6. \/ reply' = Result(0, 0, 0, TRUE)
      \/ opts.work = "sleep" /\ reply' \in RunSleep(RunArgs, bound)
      \/ opts.work # "sleep" /\ reply' \in RunPath
  BY DEF Work, DoWork, bound
<1>7. CASE reply' = Result(0, 0, 0, TRUE)
  <2>1. reply'.ran = 0 /\ reply'.timeout = 0 /\ reply'.error
    BY <1>7 DEF Result
  <2> QED BY <1>1, <1>2, <2>1
          DEF RepliesInv, RequestLimitHolds, SmallerLimitHolds, ReplyTruthful
<1>8. CASE opts.work = "sleep" /\ reply' \in RunSleep(RunArgs, bound)
  <2>1. /\ ~reply'.error => /\ RunArgs # <<>> /\ reply'.ret = 0
                            /\ reply'.ran \in Slept(RunArgs[1].secs)
        /\ reply'.timeout > 0 => /\ reply'.error /\ reply'.ran \in Slept(reply'.timeout)
                                 /\ Above(RunArgs[1].secs, reply'.timeout)
        /\ bound \in 1 .. Longest /\ (RunArgs # <<>> => RunArgs[1].secs \in Nat)
             => reply'.ran <= bound
    BY <1>3, <1>5, <1>8, SleepOutcomes
  <2>2. ReplyTruthful'
    BY <1>1, <1>3, <2>1 DEF ReplyTruthful, Slept
  <2>3. reply'.ran \in Nat
    BY <1>3 DEF ReplyType
  <2>4. RequestLimitHolds'
    <3> SUFFICES ASSUME Sleeps', item.limit \in 1 .. Longest, opts.limit # NaN
                 PROVE  reply'.ran <= item.limit
      BY <1>1 DEF RequestLimitHolds
    <3>1. bound \in 1 .. item.limit /\ bound \in 1 .. Longest
      BY <1>2, <1>5
    <3>2. RunArgs # <<>> => RunArgs[1].secs \in Nat
      BY <1>4
    <3>3. bound \in 1 .. Longest
      BY <1>2, <3>1
    <3>4. reply'.ran <= bound
      BY <2>1, <3>2, <3>3
    <3> QED BY <1>2, <2>3, <3>1, <3>4
  <2>5. SmallerLimitHolds'
    <3> SUFFICES ASSUME Sleeps', item.limit > 0, opts.limit \in 1 .. Longest
                 PROVE  reply'.ran <= opts.limit
      BY <1>1 DEF SmallerLimitHolds
    <3>1. bound \in 1 .. item.limit /\ bound <= opts.limit
      BY <1>2, <1>5
    <3>2. RunArgs # <<>> => RunArgs[1].secs \in Nat
      BY <1>4
    <3>3. bound \in 1 .. Longest
      BY <1>2, <3>1
    <3>4. reply'.ran <= bound
      BY <2>1, <3>2, <3>3
    <3> QED BY <1>2, <2>3, <3>1, <3>4
  <2> QED BY <2>2, <2>4, <2>5 DEF RepliesInv
<1>9. CASE opts.work # "sleep" /\ reply' \in RunPath
  <2>1. (~reply'.error => reply'.ret = 0) /\ reply'.timeout = 0
    BY <1>9, PathOutcomes
  <2>2. opts'.work # "sleep"
    BY <1>1, <1>9
  <2> QED BY <2>1, <2>2 DEF RepliesInv, RequestLimitHolds, SmallerLimitHolds, ReplyTruthful, Sleeps
<1> QED BY <1>6, <1>7, <1>8, <1>9

\* The reply that is about to be sent stays what it is.
LEMMA RepliesNext ==
  ASSUME TypeOK, RepliesInv, [Next]_vars
  PROVE  RepliesInv'
<1>1. CASE Work
  BY <1>1, WorkReplies
<1>2. CASE Signal \/ UNCHANGED vars
  <2>1. pc' = pc /\ opts' = opts /\ item' = item /\ reply' = reply
    BY <1>2 DEF Signal, vars
  <2>2. RunArgs' = RunArgs
    BY <2>1 DEF RunArgs, MapArgs
  <2>3. Sleeps' = Sleeps
    BY <2>1, <2>2 DEF Sleeps
  <2> QED BY <2>1, <2>2, <2>3
          DEF RepliesInv, RequestLimitHolds, SmallerLimitHolds, ReplyTruthful, Slept
<1>3. CASE \/ ParseOptions \/ RunOnce \/ Fail \/ GetWork \/ QueueEmpty \/ Wake
           \/ SendReply \/ Check
  <2>1. pc' # "reply"
    BY <1>3 DEF ParseOptions, RunOnce, Fail, GetWork, QueueEmpty, Wake, SendReply,
                AfterReply, Check
  <2> QED BY <2>1 DEF RepliesInv, RequestLimitHolds, SmallerLimitHolds, ReplyTruthful
<1> QED BY <1>1, <1>2, <1>3 DEF Next, Main

\* It holds of every reply that is about to be sent.
LEMMA RepliesAlways == Spec => []RepliesInv
<1>1. Init => TypeOK /\ RepliesInv
  <2>1. Init => pc = "parse"
    BY DEF Init
  <2>2. pc = "parse" => RepliesInv
    BY DEF RepliesInv, RequestLimitHolds, SmallerLimitHolds, ReplyTruthful
  <2> QED BY <2>1, <2>2, TypeInit
<1>2. TypeOK /\ RepliesInv /\ [Next]_vars => TypeOK' /\ RepliesInv'
  BY TypeNext, RepliesNext
<1> QED BY <1>1, <1>2, PTL DEF Spec

\* A reply is an error, or has the return code zero and, for the built-in
\* workload, the run time that the conversion makes of the time asked for; a
\* time-out is told exactly of a run that was cut off (doWork, runSleep, runPath).
THEOREM RepliesAreTruthful == Spec => []ReplyTruthful
<1>1. RepliesInv => ReplyTruthful
  BY DEF RepliesInv
<1> QED BY <1>1, RepliesAlways, PTL

\* The built-in workload is not run for longer than the limit that its request
\* states, whatever limit but NaN the worker has, unless the time asked for is
\* negative or NaN (doWork); binaries have no limit.
THEOREM RequestLimitsHold == Spec => []RequestLimitHolds
<1>1. RepliesInv => RequestLimitHolds
  BY DEF RepliesInv
<1> QED BY <1>1, RepliesAlways, PTL

\* The worker's limit, which does not apply to a request without one, does apply
\* to one for the built-in workload that states its own, unless the time asked for
\* is negative or NaN: of the two limits the smaller one holds (doWork).
THEOREM SmallerLimitsHold == Spec => []SmallerLimitHolds
<1>1. RepliesInv => SmallerLimitHolds
  BY DEF RepliesInv
<1> QED BY <1>1, RepliesAlways, PTL

=============================================================================
