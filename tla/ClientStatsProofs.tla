------------------------- MODULE ClientStatsProofs -------------------------
(***************************************************************************)
(* Proofs about the client's statistics, for all numbers of threads, names *)
(* and times, and every width of the unsigned counters.                    *)
(***************************************************************************)
EXTENDS ClientStats, FiniteSetTheorems, TLAPS

-----------------------------------------------------------------------------
(* Arithmetic. *)

\* A number modulo w is one of 0 .. w - 1.
LEMMA ModTyped ==
  ASSUME NEW w \in Nat \ {0}, NEW a \in Int
  PROVE  a % w \in 0 .. w - 1
  OBVIOUS

\* A number that is in range is its own remainder.
LEMMA ModSmall ==
  ASSUME NEW w \in Nat \ {0}, NEW a \in 0 .. w - 1
  PROVE  a % w = a
<1>1. a = w * (a \div w) + (a % w) /\ a % w \in 0 .. w - 1 /\ a \div w \in Int
  OBVIOUS
<1> QED BY <1>1

\* Multiples of w do not change the remainder.
LEMMA ModMultiple ==
  ASSUME NEW w \in Nat \ {0}, NEW a \in Int, NEW b \in Int, NEW k \in Int, a = b + w * k
  PROVE  a % w = b % w
<1> DEFINE qa == a \div w
           qb == b \div w
           ra == a % w
           rb == b % w
<1>1. /\ a = w * qa + ra /\ ra \in 0 .. w - 1 /\ qa \in Int
      /\ b = w * qb + rb /\ rb \in 0 .. w - 1 /\ qb \in Int
  OBVIOUS
<1> HIDE DEF qa, qb, ra, rb
<1> DEFINE d == qb + k - qa
<1>2. d \in Int
  BY <1>1
<1>3. ra - rb = w * d
  BY <1>1
<1> HIDE DEF d
<1>4. CASE d >= 1
  <2>1. w * d >= w
    BY <1>2, <1>4
  <2> QED BY <1>1, <1>2, <1>3, <2>1
<1>5. CASE d <= -1
  <2>1. w * d <= -w
    BY <1>2, <1>5
  <2> QED BY <1>1, <1>2, <1>3, <2>1
<1>6. CASE d = 0
  BY <1>1, <1>3, <1>6 DEF ra, rb
<1> QED BY <1>2, <1>4, <1>5, <1>6

\* Counting up or down can be done before or after the remainder is taken.
LEMMA ModStep ==
  ASSUME NEW w \in Nat \ {0}, NEW a \in Int, NEW s \in Int
  PROVE  ((a % w) + s) % w = (a + s) % w
<1> DEFINE r == a % w
           q == a \div w
<1>1. a = w * q + r /\ r \in 0 .. w - 1 /\ q \in Int
  OBVIOUS
<1> HIDE DEF r, q
<1>2. a + s = (r + s) + w * q /\ a + s \in Int /\ r + s \in Int /\ q \in Int
  BY <1>1
<1>3. (a + s) % w = (r + s) % w
  BY <1>2, ModMultiple
<1> QED BY <1>3 DEF r

\* Multiplication with a natural number is monotonic.
LEMMA TimesMonotonic ==
  ASSUME NEW a \in Int, NEW b \in Int, NEW n \in Nat, a <= b
  PROVE  a * n <= b * n
<1>1. b = a + (b - a) /\ b - a \in Nat
  OBVIOUS
<1>2. b * n = a * n + (b - a) * n
  BY <1>1
<1>3. (b - a) * n >= 0
  BY <1>1
<1> QED BY <1>2, <1>3

-----------------------------------------------------------------------------
(* Types. *)

\* The counters have room for every thread.
LEMMA WrapPositive ==
  /\ Wrap \in Nat \ {0}
  /\ Cardinality(Thread) \in Nat /\ Cardinality(Thread) < Wrap
<1>1. Cardinality(Thread) \in Nat
  BY StatsAssumption, FS_CardinalityType DEF StatsAssumption
<1> QED BY <1>1, StatsAssumption DEF StatsAssumption

\* The unsigned counters stay in their range (sync of 64 bits in the code).
LEMMA CountersTyped ==
  ASSUME NEW n \in Int
  PROVE  Up(n) \in 0 .. Wrap - 1 /\ Down(n) \in 0 .. Wrap - 1
<1>1. n + 1 \in Int /\ n - 1 \in Int
  OBVIOUS
<1> QED BY <1>1, WrapPositive, ModTyped DEF Up, Down

\* An update of a time with another one gives a time (updateTime).
LEMMA TimesTyped ==
  ASSUME NEW t \in Times, NEW secs \in Int
  PROVE  UpdateTime(t, secs) \in Times
  BY DEF Times, UpdateTime

\* What a node's entry is before it is updated.
LEMMA RepliesTyped ==
  ASSUME TypeOK, NEW n \in Node
  PROVE  Replies(n) \in NodeStats
<1>1. NoReplies \in NodeStats
  BY DEF NoReplies, NodeStats
<1> QED BY <1>1 DEF Replies, TypeOK

\* The entries of the nodes with a new one among them.
LEMMA WithNodeTyped ==
  ASSUME TypeOK, NEW n \in Node, NEW replies \in NodeStats
  PROVE  /\ DOMAIN WithNode(n, replies) \subseteq Node
         /\ WithNode(n, replies) \in [DOMAIN WithNode(n, replies) -> NodeStats]
  BY DEF WithNode, TypeOK

\* A success is counted for its node, device and pod (statsSuccess).
LEMMA SuccessTyped ==
  ASSUME TypeOK, NEW n \in Node, NEW d \in Device, NEW p \in Pod
  PROVE  /\ DOMAIN WithSuccess(n, d, p) \subseteq Node
         /\ WithSuccess(n, d, p) \in [DOMAIN WithSuccess(n, d, p) -> NodeStats]
<1> DEFINE r == Replies(n)
<1>1. r \in NodeStats
  BY RepliesTyped
<1> HIDE DEF r
<1>2. /\ Counted(r.device, d) \in [Device -> Nat]
      /\ Counted(r.pod, p) \in [Pod -> Nat]
  BY <1>1 DEF NodeStats, Counted
<1> DEFINE r1 == [r EXCEPT !.success = @ + 1]
           r2 == [r1 EXCEPT !.device = Counted(@, d)]
           r3 == [r2 EXCEPT !.pod = Counted(@, p)]
<1>3. r1 \in NodeStats /\ r1.device = r.device /\ r1.pod = r.pod
  BY <1>1 DEF NodeStats
<1> HIDE DEF r1
<1>4. r2 \in NodeStats /\ r2.pod = r.pod
  BY <1>2, <1>3 DEF NodeStats
<1> HIDE DEF r2
<1>5. r3 \in NodeStats
  BY <1>2, <1>4 DEF NodeStats
<1>6. r3 = [r EXCEPT !.success = @ + 1, !.device = Counted(@, d), !.pod = Counted(@, p)]
  BY DEF r1, r2
<1> HIDE DEF r3
<1> QED BY <1>5, <1>6, WithNodeTyped DEF WithSuccess, r

\* A failure is counted for its node, if it names one (statsFailure).
LEMMA FailureTyped ==
  ASSUME TypeOK, NEW n \in Node \cup {NoNode}, NEW e \in Error
  PROVE  /\ DOMAIN WithFailure(n, e) \subseteq Node
         /\ WithFailure(n, e) \in [DOMAIN WithFailure(n, e) -> NodeStats]
<1>1. CASE n = NoNode
  BY <1>1 DEF WithFailure, TypeOK
<1>2. CASE n # NoNode
  <2>1. n \in Node
    BY <1>2
  <2> DEFINE r == Replies(n)
  <2>2. r \in NodeStats
    BY <2>1, RepliesTyped
  <2> HIDE DEF r
  <2>3. Counted(r.error, e) \in [Error -> Nat]
    BY <2>2 DEF NodeStats, Counted
  <2> DEFINE r1 == [r EXCEPT !.failure = @ + 1]
             r2 == [r1 EXCEPT !.error = Counted(@, e)]
  <2>4. r1 \in NodeStats /\ r1.error = r.error
    BY <2>2 DEF NodeStats
  <2> HIDE DEF r1
  <2>5. r2 \in NodeStats
    BY <2>3, <2>4 DEF NodeStats
  <2>6. r2 = [r EXCEPT !.failure = @ + 1, !.error = Counted(@, e)]
    BY DEF r1
  <2> HIDE DEF r2
  <2> QED BY <1>2, <2>1, <2>5, <2>6, WithNodeTyped DEF WithFailure, r
<1> QED BY <1>1, <1>2

\* Types hold in the beginning.
LEMMA TypeInit == Init => TypeOK
<1> SUFFICES ASSUME Init PROVE TypeOK
  OBVIOUS
<1>1. node = NoNodes /\ DOMAIN node = {} /\ node \in [DOMAIN node -> NodeStats]
  BY DEF Init, NoNodes
<1>2. 0 \in 0 .. Wrap - 1
  BY WrapPositive
<1>3. NoTimes \in Times
  BY DEF NoTimes, Times
<1>4. exited \in BOOLEAN
  BY Zenon DEF Init
<1>5. thread \in [Thread -> {"idle", "fresh", "stale"}]
      /\ query \in [Query -> {"none", "completed", "rejected"}]
  BY DEF Init
<1> QED BY <1>1, <1>2, <1>3, <1>4, <1>5 DEF Init, TypeOK

\* Types are kept by every step.
LEMMA TypeNext ==
  ASSUME TypeOK, [Next]_vars
  PROVE  TypeOK'
<1>1. ASSUME NEW t \in Thread, StatsStart(t)
      PROVE  TypeOK'
  <2>1. pending' \in 0 .. Wrap - 1
    BY <1>1, CountersTyped DEF StatsStart, TypeOK
  <2> QED BY <1>1, <2>1 DEF StatsStart, TypeOK, times
<1>2. ASSUME NEW t \in Thread, StatsSuccess(t) \/ StatsFailure(t)
      PROVE  /\ thread' \in [Thread -> {"idle", "fresh", "stale"}]
             /\ pending' \in 0 .. Wrap - 1
  <2>1. thread' = [thread EXCEPT ![t] = "idle"] /\ pending' = Down(pending)
    BY <1>2 DEF StatsSuccess, StatsFailure, AfterFailure
  <2> QED BY <2>1, CountersTyped DEF TypeOK
<1>3. ASSUME NEW t \in Thread, StatsSuccess(t)
      PROVE  TypeOK'
  <2>1. PICK n \in Node, d \in Device, p \in Pod : node' = WithSuccess(n, d, p)
    BY <1>3 DEF StatsSuccess
  <2>2. DOMAIN node' \subseteq Node /\ node' \in [DOMAIN node' -> NodeStats]
    BY <2>1, SuccessTyped
  <2>3. PICK r \in Runtime, w \in Waittime, e \in Elapsed :
          /\ run'  = UpdateTime(run, r)
          /\ wait' = UpdateTime(wait, w)
          /\ comm' = UpdateTime(comm, e - w - r)
    BY <1>3 DEF StatsSuccess
  <2>4. r \in Int /\ w \in Int /\ e - w - r \in Int
    BY StatsAssumption DEF StatsAssumption
  <2>5. run' \in Times /\ wait' \in Times /\ comm' \in Times
    BY <2>3, <2>4, TimesTyped DEF TypeOK
  <2>6. thread' \in [Thread -> {"idle", "fresh", "stale"}] /\ pending' \in 0 .. Wrap - 1
    BY <1>2, <1>3
  <2>7. success' = success + 1 /\ UNCHANGED <<failure, moved, query, http, exited>>
    BY <1>3 DEF StatsSuccess
  <2> QED BY <2>2, <2>5, <2>6, <2>7 DEF TypeOK
<1>4. ASSUME NEW t \in Thread, StatsFailure(t)
      PROVE  TypeOK'
  <2>1. PICK n \in Node \cup {NoNode}, e \in Error : node' = WithFailure(n, e)
    BY <1>4 DEF StatsFailure
  <2>2. DOMAIN node' \subseteq Node /\ node' \in [DOMAIN node' -> NodeStats]
    BY <2>1, FailureTyped
  <2>3. thread' \in [Thread -> {"idle", "fresh", "stale"}] /\ pending' \in 0 .. Wrap - 1
    BY <1>2, <1>4
  <2>4. failure' = failure + 1 /\ UNCHANGED <<success, times, moved, query, http, exited>>
    BY <1>4 DEF StatsFailure
  <2> QED BY <2>2, <2>3, <2>4 DEF TypeOK, times
<1>5. ASSUME NEW t \in Thread, Fatal(t)
      PROVE  TypeOK'
  BY <1>5 DEF Fatal, TypeOK, times
<1>6. ASSUME NEW h \in Query, StatsReset(h)
      PROVE  TypeOK'
  <2>1. node' = NoNodes /\ DOMAIN node' = {} /\ node' \in [DOMAIN node' -> NodeStats]
    BY <1>6 DEF StatsReset, AfterReset, NoNodes
  <2>2. 0 \in 0 .. Wrap - 1
    BY WrapPositive
  <2>3. NoTimes \in Times
    BY DEF NoTimes, Times
  <2> QED BY <1>6, <2>1, <2>2, <2>3 DEF StatsReset, Forgotten, TypeOK
<1>7. ASSUME NEW h \in Query, Serve(h)
      PROVE  TypeOK'
  BY <1>7 DEF Serve, TypeOK, times
<1>8. ASSUME NEW h \in Query, CountQuery(h)
      PROVE  TypeOK'
  <2>1. query[h] \in {"completed", "rejected"}
    BY <1>8 DEF CountQuery, TypeOK
  <2>2. http' \in [completed : 0 .. Wrap - 1, rejected : 0 .. Wrap - 1]
    BY <1>8, <2>1, CountersTyped DEF CountQuery, TypeOK
  <2> QED BY <1>8, <2>2 DEF CountQuery, TypeOK, times
<1>9. CASE UNCHANGED vars
  BY <1>9 DEF vars, times, TypeOK
<1> QED BY <1>1, <1>3, <1>4, <1>5, <1>6, <1>7, <1>8, <1>9 DEF Next

\* In every reachable state the statistics are of their types: unsigned
\* counters in range, and entries only for nodes that a reply has named.
THEOREM StatsTypeCorrect == Spec => []TypeOK
<1> QED BY TypeInit, TypeNext, PTL DEF Spec

-----------------------------------------------------------------------------
(* Requests in flight. *)

\* The threads with a request of either kind are no more than all threads.
LEMMA InFlightFinite ==
  /\ IsFiniteSet(Fresh) /\ Cardinality(Fresh) \in 0 .. Cardinality(Thread)
  /\ IsFiniteSet(Stale) /\ Cardinality(Stale) \in 0 .. Cardinality(Thread)
  /\ Cardinality(Fresh) = 0 <=> Fresh = {}
<1>1. Fresh \in SUBSET Thread /\ Stale \in SUBSET Thread /\ IsFiniteSet(Thread)
  BY StatsAssumption DEF StatsAssumption, Fresh, Stale
<1>2. /\ IsFiniteSet(Fresh) /\ Cardinality(Fresh) <= Cardinality(Thread)
      /\ IsFiniteSet(Stale) /\ Cardinality(Stale) <= Cardinality(Thread)
  BY <1>1, FS_Subset
<1> QED BY <1>2, FS_CardinalityType, FS_EmptySet, WrapPositive

\* The same after a step.
LEMMA FreshNext ==
  Cardinality(Fresh') \in 0 .. Cardinality(Thread)
<1>1. Fresh' \in SUBSET Thread /\ IsFiniteSet(Thread)
  BY StatsAssumption DEF StatsAssumption, Fresh
<1>2. IsFiniteSet(Fresh') /\ Cardinality(Fresh') <= Cardinality(Thread)
  BY <1>1, FS_Subset
<1> QED BY <1>2, FS_CardinalityType, WrapPositive

\* A request is started (statsStart): one more is in flight.
LEMMA StartFresh ==
  ASSUME TypeOK, NEW t \in Thread, StatsStart(t)
  PROVE  Fresh' # {} /\ Cardinality(Fresh') = Cardinality(Fresh) + 1 /\ Stale' = Stale
<1>1. Fresh' = Fresh \cup {t} /\ t \notin Fresh /\ Stale' = Stale
  BY DEF StatsStart, TypeOK, Fresh, Stale
<1> QED BY <1>1, InFlightFinite, FS_AddElement

\* A request ends (statsSuccess, statsFailure): one less of its kind is in flight.
LEMMA EndInFlight ==
  ASSUME TypeOK, NEW t \in Thread, thread[t] # "idle",
         thread' = [thread EXCEPT ![t] = "idle"]
  PROVE  \/ Cardinality(Fresh') = Cardinality(Fresh) - 1 /\ Stale' = Stale
         \/ Fresh' = Fresh /\ Cardinality(Stale') = Cardinality(Stale) - 1
<1>1. CASE thread[t] = "stale"
  <2>1. Fresh' = Fresh /\ Stale' = Stale \ {t} /\ t \in Stale
    BY <1>1 DEF TypeOK, Fresh, Stale
  <2> QED BY <2>1, InFlightFinite, FS_RemoveElement
<1>2. CASE thread[t] = "fresh"
  <2>1. Fresh' = Fresh \ {t} /\ t \in Fresh /\ Stale' = Stale
    BY <1>2 DEF TypeOK, Fresh, Stale
  <2> QED BY <2>1, InFlightFinite, FS_RemoveElement
<1> QED BY <1>1, <1>2 DEF TypeOK

\* The remainder of one more or one less, in the form of the actions.
LEMMA ModUpDown ==
  ASSUME NEW d \in Int
  PROVE  Up(d % Wrap) = (d + 1) % Wrap /\ Down(d % Wrap) = (d - 1) % Wrap
<1> DEFINE r == d % Wrap
<1>1. 1 \in Int /\ -1 \in Int /\ r \in Int
  BY WrapPositive, ModTyped
<1>2. (r + 1) % Wrap = (d + 1) % Wrap /\ (r + (-1)) % Wrap = (d + (-1)) % Wrap
  BY <1>1, WrapPositive, ModStep, Zenon
<1> HIDE DEF r
<1>3. r + (-1) = r - 1 /\ d + (-1) = d - 1
  BY <1>1
<1> QED BY <1>2, <1>3 DEF Up, Down, r

\* stats.pending errs by missed.
Misses(missed) ==
  /\ missed \in 0 .. Cardinality(Thread) - Cardinality(Stale)
  /\ pending = (Cardinality(Fresh) - missed) % Wrap

\* The error of stats.pending is bounded by one that it has.
LEMMA MissesSome == PendingErrorBounded <=> \E missed \in Nat : Misses(missed)
<1>1. Cardinality(Thread) - Cardinality(Stale) \in Int
  BY InFlightFinite, WrapPositive
<1> QED BY <1>1 DEF PendingErrorBounded, Misses

\* The end of a request of this period is taken off; that of an older one is the
\* one reason for another miss.
LEMMA EndMisses ==
  ASSUME TypeOK, NEW missed \in Nat, Misses(missed), NEW t \in Thread,
         StatsSuccess(t) \/ StatsFailure(t)
  PROVE  PendingErrorBounded'
<1>1. /\ thread[t] # "idle" /\ thread' = [thread EXCEPT ![t] = "idle"]
      /\ pending' = Down(pending)
  BY DEF StatsSuccess, StatsFailure, AfterFailure
<1> DEFINE f  == Cardinality(Fresh)
           s  == Cardinality(Stale)
           f1 == Cardinality(Fresh')
           s1 == Cardinality(Stale')
           n  == Cardinality(Thread)
<1>2. f \in Int /\ s \in Int /\ n \in Nat
  BY InFlightFinite, WrapPositive
<1>3. \/ f1 = f - 1 /\ s1 = s
      \/ f1 = f /\ s1 = s - 1
  BY <1>1, EndInFlight
<1>4. pending' = (f - missed - 1) % Wrap
  <2>1. f - missed \in Int
    BY <1>2
  <2> QED BY <1>1, <2>1, ModUpDown DEF Misses
<1>5. PendingErrorBounded' <=> \E k \in 0 .. n - s1 : pending' = (f1 - k) % Wrap
  BY DEF PendingErrorBounded
<1>6. missed \in 0 .. n - s
  BY DEF Misses
<1> HIDE DEF f, s, f1, s1, n
<1>7. CASE f1 = f - 1 /\ s1 = s
  <2>1. f1 - missed = f - missed - 1 /\ missed \in 0 .. n - s1
    BY <1>2, <1>6, <1>7
  <2> QED BY <1>4, <1>5, <2>1
<1>8. CASE f1 = f /\ s1 = s - 1
  <2>1. f1 - (missed + 1) = f - missed - 1 /\ missed + 1 \in 0 .. n - s1
    BY <1>2, <1>6, <1>8
  <2> QED BY <1>4, <1>5, <2>1
<1> QED BY <1>3, <1>7, <1>8

\* Every step keeps the error of stats.pending within its bound.
LEMMA PendingNext ==
  ASSUME TypeOK, PendingErrorBounded, [Next]_vars
  PROVE  PendingErrorBounded'
<1>1. PICK missed \in Nat : Misses(missed)
  BY MissesSome
<1>2. ASSUME NEW t \in Thread, StatsStart(t)
      PROVE  PendingErrorBounded'
  <2> DEFINE f == Cardinality(Fresh)
  <2>1. f \in Int /\ f - missed \in Int
    BY InFlightFinite
  <2>2. Cardinality(Fresh') = f + 1 /\ Stale' = Stale
    BY <1>2, StartFresh
  <2>3. pending' = Up(pending) /\ pending = (f - missed) % Wrap
    BY <1>1, <1>2 DEF StatsStart, Misses
  <2> HIDE DEF f
  <2>4. pending' = (f - missed + 1) % Wrap
    BY <2>1, <2>3, ModUpDown
  <2>5. f - missed + 1 = (f + 1) - missed
    BY <2>1
  <2> QED BY <1>1, <2>2, <2>4, <2>5 DEF Misses, PendingErrorBounded
<1>3. ASSUME NEW t \in Thread, StatsSuccess(t) \/ StatsFailure(t)
      PROVE  PendingErrorBounded'
  BY <1>1, <1>3, EndMisses
<1>4. ASSUME NEW h \in Query, StatsReset(h)
      PROVE  PendingErrorBounded'
  <2>1. pending' = 0 /\ Fresh' = {} /\ Stale' \in SUBSET Thread
    BY <1>4 DEF StatsReset, Forgotten, Fresh, Stale
  <2>2. Cardinality(Fresh') - 0 = 0
    BY <2>1, FS_EmptySet
  <2>3. 0 % Wrap = 0
    BY WrapPositive, ModSmall
  <2>4. Cardinality(Stale') \in 0 .. Cardinality(Thread)
    BY <2>1, StatsAssumption, FS_Subset, FS_CardinalityType, WrapPositive DEF StatsAssumption
  <2>5. 0 \in 0 .. Cardinality(Thread) - Cardinality(Stale')
    BY <2>4, WrapPositive
  <2> QED BY <2>1, <2>2, <2>3, <2>5 DEF PendingErrorBounded
<1>5. CASE UNCHANGED <<thread, pending>>
  BY <1>5 DEF PendingErrorBounded, Fresh, Stale
<1>6. CASE UNCHANGED vars
  BY <1>5, <1>6 DEF vars
<1>7. ASSUME NEW t \in Thread, Fatal(t)
      PROVE  PendingErrorBounded'
  BY <1>5, <1>7 DEF Fatal
<1>8. ASSUME NEW h \in Query, Serve(h) \/ CountQuery(h)
      PROVE  PendingErrorBounded'
  BY <1>5, <1>8 DEF Serve, CountQuery
<1> QED BY <1>2, <1>3, <1>4, <1>6, <1>7, <1>8 DEF Next

\* In the beginning nothing is in flight.
LEMMA PendingInit == Init => PendingErrorBounded
<1> SUFFICES ASSUME Init PROVE PendingErrorBounded
  OBVIOUS
<1>1. pending = 0 /\ Fresh = {} /\ Stale = {}
  BY DEF Init, Fresh, Stale
<1>2. Cardinality(Fresh) - 0 = 0 /\ Cardinality(Stale) = 0
  BY <1>1, FS_EmptySet
<1>3. 0 % Wrap = 0
  BY WrapPositive, ModSmall
<1>4. 0 \in 0 .. Cardinality(Thread) - Cardinality(Stale)
  BY <1>2, WrapPositive
<1> QED BY <1>1, <1>2, <1>3, <1>4 DEF PendingErrorBounded

\* However often and whenever the statistics are reset, stats.pending misses at
\* most one request for each thread, in unsigned arithmetic of any width.
THEOREM PendingErrsByThreads == Spec => []PendingErrorBounded
<1>1. Init => TypeOK /\ PendingErrorBounded
  BY TypeInit, PendingInit
<1>2. TypeOK /\ PendingErrorBounded /\ [Next]_vars => TypeOK' /\ PendingErrorBounded'
  BY TypeNext, PendingNext
<1> QED BY <1>1, <1>2, PTL DEF Spec

\* A reset finds no request in flight.
IdleReset == (\E h \in Query : StatsReset(h)) => Busy = {}

\* Without a request from before a reset, stats.pending is exact.
PendingExact == Stale = {} /\ pending = Cardinality(Fresh)

\* As long as resets find no request in flight, no request is from before one.
LEMMA ExactNext ==
  ASSUME TypeOK, PendingExact, [Next]_vars, [IdleReset]_vars
  PROVE  PendingExact'
<1>0. /\ Stale = {} /\ pending = Cardinality(Fresh)
      /\ Cardinality(Fresh) \in 0 .. Cardinality(Thread)
  BY InFlightFinite DEF PendingExact
<1>1. ASSUME NEW t \in Thread, StatsStart(t)
      PROVE  PendingExact'
  <2>1. Cardinality(Fresh') = Cardinality(Fresh) + 1 /\ Stale' = {}
    BY <1>0, <1>1, StartFresh
  <2>2. Cardinality(Fresh') \in 0 .. Wrap - 1
    BY FreshNext, WrapPositive
  <2>3. pending' = Cardinality(Fresh') % Wrap
    BY <1>0, <1>1, <2>1 DEF StatsStart, Up
  <2> QED BY <2>1, <2>2, <2>3, WrapPositive, ModSmall DEF PendingExact
<1>2. ASSUME NEW t \in Thread, StatsSuccess(t) \/ StatsFailure(t)
      PROVE  PendingExact'
  <2>1. /\ thread[t] # "idle" /\ thread' = [thread EXCEPT ![t] = "idle"]
        /\ pending' = Down(pending)
    BY <1>2 DEF StatsSuccess, StatsFailure, AfterFailure
  <2>2. t \in Fresh /\ Stale' = {} /\ Fresh' = Fresh \ {t}
    BY <1>0, <2>1 DEF TypeOK, Fresh, Stale
  <2>3. Cardinality(Fresh') = Cardinality(Fresh) - 1 /\ Cardinality(Fresh) # 0
    BY <2>2, InFlightFinite, FS_RemoveElement
  <2>4. Cardinality(Fresh') \in 0 .. Wrap - 1
    BY <1>0, <2>3, WrapPositive
  <2>5. pending' = Cardinality(Fresh') % Wrap
    BY <1>0, <2>1, <2>3 DEF Down
  <2> QED BY <2>2, <2>4, <2>5, WrapPositive, ModSmall DEF PendingExact
<1>3. CASE UNCHANGED <<thread, pending>>
  BY <1>3 DEF PendingExact, Fresh, Stale
<1>4. CASE UNCHANGED vars
  BY <1>3, <1>4 DEF vars
<1>5. ASSUME NEW h \in Query, StatsReset(h), ~UNCHANGED vars
      PROVE  PendingExact'
  <2>1. Busy = {}
    BY <1>5 DEF IdleReset
  <2>2. pending' = 0 /\ Fresh' = {} /\ Stale' = {}
    BY <1>5, <2>1 DEF StatsReset, Forgotten, Fresh, Stale, Busy
  <2>3. Cardinality(Fresh') = 0
    BY <2>2, FS_EmptySet
  <2> QED BY <2>2, <2>3 DEF PendingExact
<1>6. ASSUME NEW t \in Thread, Fatal(t)
      PROVE  PendingExact'
  BY <1>3, <1>6 DEF Fatal
<1>7. ASSUME NEW h \in Query, Serve(h) \/ CountQuery(h)
      PROVE  PendingExact'
  BY <1>3, <1>7 DEF Serve, CountQuery
<1> QED BY <1>1, <1>2, <1>4, <1>5, <1>6, <1>7 DEF Next

\* What is left of PendingWithinThreads: as long as no reset comes while a request
\* is in flight, stats.pending is the number of requests in flight.
THEOREM PendingRightIfIdleReset ==
  Spec /\ [][IdleReset]_vars => [](PendingWithinThreads /\ pending = Cardinality(Busy))
<1>1. Init => PendingExact
  <2> SUFFICES ASSUME Init PROVE PendingExact
    OBVIOUS
  <2>1. pending = 0 /\ Fresh = {} /\ Stale = {}
    BY DEF Init, Fresh, Stale
  <2>2. Cardinality(Fresh) = 0
    BY <2>1, FS_EmptySet
  <2> QED BY <2>1, <2>2 DEF PendingExact
<1>2. TypeOK /\ PendingExact /\ [Next]_vars /\ [IdleReset]_vars => PendingExact'
  BY ExactNext
<1>3. TypeOK /\ PendingExact => PendingWithinThreads /\ pending = Cardinality(Busy)
  <2> SUFFICES ASSUME TypeOK, PendingExact
               PROVE  PendingWithinThreads /\ pending = Cardinality(Busy)
    OBVIOUS
  <2>1. Busy = Fresh
    BY DEF TypeOK, PendingExact, Busy, Fresh, Stale
  <2>2. Cardinality(Busy) = Cardinality(Fresh)
    BY <2>1, Zenon
  <2> QED BY <2>2, InFlightFinite, WrapPositive DEF PendingExact, PendingWithinThreads
<1> QED BY <1>1, <1>2, <1>3, StatsTypeCorrect, PTL DEF Spec

-----------------------------------------------------------------------------
(* The start of the period that throughput is reported over. *)

\* Until a request has ended, stats.pending is exact, and the request that set
\* the start is in flight.
StartInv ==
  /\ success = 0 /\ failure = 0 =>
       pending = Cardinality(Fresh) /\ (moved > 0 => Fresh # {})
  /\ StartMovesOnce

\* The start is set by the first request, and by no other one.
LEMMA StartNext ==
  ASSUME TypeOK, StartInv, [Next]_vars
  PROVE  StartInv'
<1> USE DEF StartInv, StartMovesOnce
<1>0. moved \in Nat /\ success \in Nat /\ failure \in Nat
  BY DEF TypeOK
<1>1. ASSUME NEW t \in Thread, StatsStart(t)
      PROVE  StartInv'
  <2>1. Fresh' # {} /\ Cardinality(Fresh') = Cardinality(Fresh) + 1
    BY <1>1, StartFresh
  <2>2. success' = success /\ failure' = failure /\ pending' = Up(pending)
    BY <1>1 DEF StatsStart
  <2>3. success = 0 /\ failure = 0 => pending' = Cardinality(Fresh')
    <3> SUFFICES ASSUME success = 0, failure = 0 PROVE pending' = Cardinality(Fresh')
      OBVIOUS
    <3>1. Cardinality(Fresh') \in 0 .. Wrap - 1
      BY FreshNext, WrapPositive
    <3>2. Cardinality(Fresh') % Wrap = Cardinality(Fresh')
      BY <3>1, WrapPositive, ModSmall
    <3> QED BY <2>1, <2>2, <3>2 DEF Up
  <2>4. CASE FirstRequest
    <3>1. success = 0 /\ failure = 0 /\ pending = 0
      BY <2>4 DEF FirstRequest
    <3>2. Fresh = {}
      BY <3>1, InFlightFinite
    <3>3. moved = 0 /\ moved' = 1
      BY <1>0, <1>1, <2>4, <3>1, <3>2 DEF StatsStart
    <3> QED BY <2>1, <2>2, <2>3, <3>3
  <2>5. CASE ~FirstRequest
    BY <1>1, <2>1, <2>2, <2>3, <2>5 DEF StatsStart
  <2> QED BY <2>4, <2>5
<1>2. ASSUME NEW t \in Thread, StatsSuccess(t) \/ StatsFailure(t)
      PROVE  StartInv'
  <2>1. moved' = moved /\ (success' = success + 1 \/ failure' = failure + 1)
        /\ (success' = success \/ failure' = failure)
    BY <1>2 DEF StatsSuccess, StatsFailure
  <2>2. ~(success' = 0 /\ failure' = 0)
    BY <1>0, <2>1
  <2> QED BY <2>1, <2>2
<1>3. ASSUME NEW h \in Query, StatsReset(h)
      PROVE  StartInv'
  <2>1. pending' = 0 /\ moved' = 0 /\ Fresh' = {}
    BY <1>3 DEF StatsReset, Forgotten, Fresh
  <2>2. Cardinality(Fresh') = 0
    BY <2>1, FS_EmptySet
  <2> QED BY <2>1, <2>2
<1>4. CASE UNCHANGED <<thread, pending, success, failure, moved>>
  BY <1>4 DEF Fresh
<1>5. CASE UNCHANGED vars
  BY <1>4, <1>5 DEF vars
<1>6. ASSUME NEW t \in Thread, Fatal(t)
      PROVE  StartInv'
  BY <1>4, <1>6 DEF Fatal
<1>7. ASSUME NEW h \in Query, Serve(h) \/ CountQuery(h)
      PROVE  StartInv'
  BY <1>4, <1>7 DEF Serve, CountQuery
<1> QED BY <1>1, <1>2, <1>3, <1>5, <1>6, <1>7 DEF Next

\* Between two resets the start of the period is set at most once, however
\* often stats.pending comes back to zero and whatever ends late.
THEOREM StartIsSetOnce == Spec => []StartMovesOnce
<1>1. Init => TypeOK /\ StartInv
  <2>1. Init => StartInv
    <3> SUFFICES ASSUME Init PROVE StartInv
      OBVIOUS
    <3>1. pending = 0 /\ moved = 0 /\ Fresh = {}
      BY DEF Init, Fresh
    <3>2. Cardinality(Fresh) = 0
      BY <3>1, FS_EmptySet
    <3> QED BY <3>1, <3>2 DEF StartInv, StartMovesOnce
  <2> QED BY <2>1, TypeInit
<1>2. TypeOK /\ StartInv /\ [Next]_vars => TypeOK' /\ StartInv'
  BY TypeNext, StartNext
<1>3. StartInv => StartMovesOnce
  BY DEF StartInv
<1> QED BY <1>1, <1>2, <1>3, PTL DEF Spec

-----------------------------------------------------------------------------
(* The average times. *)

\* n times whose total is t.total are between the minimum and the maximum.
InRange(t, n) == t.min * n <= t.total /\ t.total <= t.max * n

\* One more time keeps the average between the two (updateTime).
LEMMA UpdateInRange ==
  ASSUME NEW t \in Times, NEW secs \in Int, NEW n \in Nat, InRange(t, n)
  PROVE  InRange(UpdateTime(t, secs), n + 1)
<1> DEFINE u == UpdateTime(t, secs)
<1>1. /\ t.min \in Int /\ t.max \in Int /\ t.total \in Int
      /\ u.min \in Int /\ u.max \in Int /\ u.total = t.total + secs
      /\ u.min <= t.min /\ u.min <= secs /\ t.max <= u.max /\ secs <= u.max
  BY DEF Times, UpdateTime
<1> HIDE DEF u
<1>2. u.min * n <= t.min * n /\ t.max * n <= u.max * n
  BY <1>1, TimesMonotonic
<1>3. u.min * (n + 1) = u.min * n + u.min /\ u.max * (n + 1) = u.max * n + u.max
  BY <1>1
<1>4. t.min * n <= t.total /\ t.total <= t.max * n
  BY DEF InRange
<1>5. /\ u.min * n \in Int /\ u.max * n \in Int
      /\ t.min * n \in Int /\ t.max * n \in Int
  BY <1>1
<1>6. u.min * (n + 1) <= u.total /\ u.total <= u.max * (n + 1)
  BY <1>1, <1>2, <1>3, <1>4, <1>5
<1> QED BY <1>6 DEF InRange, u

\* The property, one time after the other.
LEMMA AverageIsInRange ==
  AverageInRange <=> InRange(run, success) /\ InRange(wait, success) /\ InRange(comm, success)
  BY DEF AverageInRange, InRange

\* Nothing has been measured after a reset.
LEMMA NoTimesInRange == InRange(NoTimes, 0)
  BY DEF InRange, NoTimes

\* Every step keeps the averages in range.
LEMMA AverageNext ==
  ASSUME TypeOK, AverageInRange, [Next]_vars
  PROVE  AverageInRange'
<1>1. ASSUME NEW t \in Thread, StatsSuccess(t)
      PROVE  AverageInRange'
  <2>1. PICK r \in Runtime, w \in Waittime, e \in Elapsed :
          /\ run'  = UpdateTime(run, r)
          /\ wait' = UpdateTime(wait, w)
          /\ comm' = UpdateTime(comm, e - w - r)
    BY <1>1 DEF StatsSuccess
  <2>2. r \in Int /\ w \in Int /\ e - w - r \in Int
    BY StatsAssumption DEF StatsAssumption
  <2>3. success \in Nat /\ success' = success + 1
        /\ run \in Times /\ wait \in Times /\ comm \in Times
    BY <1>1 DEF StatsSuccess, TypeOK
  <2>4. InRange(run', success') /\ InRange(wait', success') /\ InRange(comm', success')
    BY <2>1, <2>2, <2>3, UpdateInRange, AverageIsInRange
  <2> QED BY <2>4 DEF AverageInRange, InRange
<1>2. ASSUME NEW h \in Query, StatsReset(h)
      PROVE  AverageInRange'
  <2>1. run' = NoTimes /\ wait' = NoTimes /\ comm' = NoTimes /\ success' = 0
    BY <1>2 DEF StatsReset
  <2> QED BY <2>1, NoTimesInRange DEF AverageInRange, InRange
<1>3. CASE UNCHANGED <<success, times>>
  BY <1>3 DEF AverageInRange, times
<1>4. CASE UNCHANGED vars
  BY <1>3, <1>4 DEF vars
<1>5. ASSUME NEW t \in Thread, StatsStart(t) \/ StatsFailure(t) \/ Fatal(t)
      PROVE  AverageInRange'
  BY <1>3, <1>5 DEF StatsStart, StatsFailure, Fatal
<1>6. ASSUME NEW h \in Query, Serve(h) \/ CountQuery(h)
      PROVE  AverageInRange'
  BY <1>3, <1>6 DEF Serve, CountQuery
<1> QED BY <1>1, <1>2, <1>4, <1>5, <1>6 DEF Next

\* The averages that the client prints are between the minimum and the maximum
\* that it prints, for all times, negative differences among them.
THEOREM AveragesInRange == Spec => []AverageInRange
<1>1. Init => TypeOK /\ AverageInRange
  <2>1. Init => InRange(run, success) /\ InRange(wait, success) /\ InRange(comm, success)
    BY NoTimesInRange DEF Init
  <2> QED BY <2>1, TypeInit, AverageIsInRange
<1>2. TypeOK /\ AverageInRange /\ [Next]_vars => TypeOK' /\ AverageInRange'
  BY TypeNext, AverageNext
<1> QED BY <1>1, <1>2, PTL DEF Spec

-----------------------------------------------------------------------------
(* Sums. *)

\* The units of the members of a set only.
UnitsIn(f, T) == UNION {{x} \X (1 .. f[x]) : x \in T}

\* They are the pairs of a member and one of its numbers.
LEMMA UnitsInAre ==
  ASSUME NEW f, NEW T
  PROVE  \A u : u \in UnitsIn(f, T) <=> \E x \in T : \E i \in 1 .. f[x] : u = <<x, i>>
<1>1. \A u : u \in UnitsIn(f, T) <=> \E x \in T : u \in {x} \X (1 .. f[x])
  BY DEF UnitsIn
<1>2. \A u, x : u \in {x} \X (1 .. f[x]) <=> \E i \in 1 .. f[x] : u = <<x, i>>
  OBVIOUS
<1> QED BY <1>1, <1>2

\* The empty sum.
LEMMA UnitsInNone ==
  ASSUME NEW f
  PROVE  UnitsIn(f, {}) = {}
  BY DEF UnitsIn

\* One argument has as many units as it counts.
LEMMA UnitsOfOne ==
  ASSUME NEW x, NEW n \in Nat
  PROVE  IsFiniteSet({x} \X (1 .. n)) /\ Cardinality({x} \X (1 .. n)) = n
<1>1. IsFiniteSet({x}) /\ Cardinality({x}) = 1
  BY FS_Singleton
<1>2. IsFiniteSet(1 .. n) /\ Cardinality(1 .. n) = n
  BY FS_Interval
<1>3. PICK S, T : S = {x} /\ T = 1 .. n
  OBVIOUS
<1>4. IsFiniteSet(S) /\ IsFiniteSet(T) /\ Cardinality(S) = 1 /\ Cardinality(T) = n
  BY <1>1, <1>2, <1>3, Zenon
<1>5. IsFiniteSet(S \X T) /\ Cardinality(S \X T) = Cardinality(S) * Cardinality(T)
  BY <1>4, FS_Product
<1>6. Cardinality(S \X T) = n
  BY <1>4, <1>5
<1> QED BY <1>3, <1>5, <1>6, Zenon

\* A summand more: it is added to the sum.
LEMMA SummandAdded ==
  ASSUME NEW f, NEW T, NEW x, x \notin T, f[x] \in Nat, IsFiniteSet(UnitsIn(f, T))
  PROVE  /\ IsFiniteSet(UnitsIn(f, T \cup {x}))
         /\ Cardinality(UnitsIn(f, T \cup {x})) = Cardinality(UnitsIn(f, T)) + f[x]
<1> DEFINE U == UnitsIn(f, T)
           V == {x} \X (1 .. f[x])
<1>1. UnitsIn(f, T \cup {x}) = U \cup V
  BY DEF UnitsIn
<1>2. U \cap V = {}
  <2>1. ASSUME NEW u \in V
        PROVE  u \notin U
    <3>1. PICK i \in 1 .. f[x] : u = <<x, i>>
      OBVIOUS
    <3> QED BY <3>1, UnitsInAre
  <2> QED BY <2>1
<1>3. IsFiniteSet(V) /\ Cardinality(V) = f[x]
  BY UnitsOfOne
<1> HIDE DEF U, V
<1>4. IsFiniteSet(U)
  BY DEF U
<1>5. IsFiniteSet(U \cup V) /\ Cardinality(U \cup V) = Cardinality(U) + Cardinality(V) - Cardinality({})
  BY <1>2, <1>3, <1>4, FS_Union
<1>6. Cardinality(U) \in Nat /\ Cardinality({}) = 0
  BY <1>4, FS_CardinalityType, FS_EmptySet
<1>7. Cardinality(UnitsIn(f, T \cup {x})) = Cardinality(U \cup V) /\ IsFiniteSet(UnitsIn(f, T \cup {x}))
  BY <1>1, <1>5, Zenon
<1>8. Cardinality(U \cup V) = Cardinality(U) + f[x]
  BY <1>3, <1>5, <1>6
<1> QED BY <1>7, <1>8 DEF U

\* A linear bound between the summands of two sums is one between the sums,
\* with the constant once for each summand.  The sets for which it fails have
\* a smallest one, from which a member can be taken out.
LEMMA SumsLinear ==
  ASSUME NEW S, IsFiniteSet(S), NEW f, NEW g, NEW a \in Int, NEW b \in Int, NEW c \in Int,
         \A x \in S : f[x] \in Nat /\ g[x] \in Nat /\ a * f[x] <= b * g[x] + c
  PROVE  /\ IsFiniteSet(UnitsIn(f, S)) /\ IsFiniteSet(UnitsIn(g, S))
         /\ a * Cardinality(UnitsIn(f, S)) <= b * Cardinality(UnitsIn(g, S)) + c * Cardinality(S)
<1> DEFINE Good(T) ==
      /\ IsFiniteSet(UnitsIn(f, T)) /\ IsFiniteSet(UnitsIn(g, T))
      /\ a * Cardinality(UnitsIn(f, T)) <= b * Cardinality(UnitsIn(g, T)) + c * Cardinality(T)
           Bad == {T \in SUBSET S : ~Good(T)}
<1> SUFFICES Bad = {}
  <2>1. S \in SUBSET S
    OBVIOUS
  <2> QED BY <2>1
<1> SUFFICES ASSUME Bad # {}
             PROVE  FALSE
  OBVIOUS
<1>1. PICK T \in Bad : \A Y \in Bad : ~(<<Y, T>> \in StrictSubsetOrdering(S))
  <2>1. IsWellFoundedOn(StrictSubsetOrdering(S), FiniteSubsetsOf(S))
    BY FS_StrictSubsetOrderingWellFounded
  <2>2. Bad \subseteq FiniteSubsetsOf(S)
    BY FS_FiniteSubsetsOfFinite
  <2> HIDE DEF Bad
  <2> QED BY <2>1, <2>2, WFMin
<1>2. T \in SUBSET S /\ ~Good(T)
  OBVIOUS
<1>3. T # {}
  <2>1. /\ IsFiniteSet(UnitsIn(f, {})) /\ Cardinality(UnitsIn(f, {})) = 0
        /\ IsFiniteSet(UnitsIn(g, {})) /\ Cardinality(UnitsIn(g, {})) = 0
    BY UnitsInNone, FS_EmptySet, Zenon
  <2>2. Cardinality({}) = 0 /\ a * 0 = 0 /\ b * 0 = 0 /\ c * 0 = 0
    BY FS_EmptySet
  <2>3. Good({})
    BY <2>1, <2>2
  <2> QED BY <1>2, <2>3
<1>4. PICK x \in T : TRUE
  BY <1>3
<1> DEFINE R == T \ {x}
<1>5. R \in SUBSET S /\ x \notin R /\ T = R \cup {x} /\ x \in S
  BY <1>2
<1>6. Good(R)
  <2>1. <<R, T>> \in StrictSubsetOrdering(S)
    BY <1>2, <1>5 DEF StrictSubsetOrdering
  <2>2. R \notin Bad
    BY <1>1, <2>1
  <2> QED BY <1>5, <2>2
<1>7. IsFiniteSet(R) /\ Cardinality(R) \in Nat /\ Cardinality(T) = Cardinality(R) + 1
  <2>1. IsFiniteSet(R)
    BY <1>5, FS_Subset
  <2>2. Cardinality(R \cup {x}) = Cardinality(R) + 1
    BY <1>5, <2>1, FS_AddElement
  <2> QED BY <1>5, <2>1, <2>2, FS_CardinalityType
<1> HIDE DEF R
<1> DEFINE F == Cardinality(UnitsIn(f, R))
           G == Cardinality(UnitsIn(g, R))
           r == Cardinality(R)
<1>8. F \in Nat /\ G \in Nat
  BY <1>6, FS_CardinalityType
<1>9. f[x] \in Nat /\ g[x] \in Nat /\ a * f[x] <= b * g[x] + c
  BY <1>5
<1>10. /\ IsFiniteSet(UnitsIn(f, T)) /\ Cardinality(UnitsIn(f, T)) = F + f[x]
       /\ IsFiniteSet(UnitsIn(g, T)) /\ Cardinality(UnitsIn(g, T)) = G + g[x]
  BY <1>5, <1>6, <1>9, SummandAdded
<1>11. a * F <= b * G + c * r
  BY <1>6
<1> HIDE DEF F, G, r
<1>12. a * (F + f[x]) <= b * (G + g[x]) + c * (r + 1)
  <2>1. r \in Nat
    BY <1>7 DEF r
  <2>2. PICK fx \in Nat, gx \in Nat : fx = f[x] /\ gx = g[x]
    BY <1>9
  <2>3. a * fx <= b * gx + c
    BY <1>9, <2>2
  <2>4. /\ a * (F + fx) = a * F + a * fx /\ b * (G + gx) = b * G + b * gx
        /\ c * (r + 1) = c * r + c
    BY <1>8, <2>1
  <2>5. a * F \in Int /\ a * fx \in Int /\ b * G \in Int /\ b * gx \in Int /\ c * r \in Int
    BY <1>8, <2>1
  <2>6. a * (F + fx) <= b * (G + gx) + c * (r + 1)
    BY <1>11, <2>3, <2>4, <2>5
  <2> QED BY <2>2, <2>6
<1>13. Good(T)
  BY <1>7, <1>10, <1>12 DEF r
<1> QED BY <1>2, <1>13

\* The units of all arguments.
LEMMA UnitsAreIn ==
  ASSUME NEW f
  PROVE  Units(f) = UnitsIn(f, DOMAIN f)
  BY DEF Units, UnitsIn

\* The same for functions.
LEMMA SumsBounded ==
  ASSUME NEW f, NEW g, DOMAIN g = DOMAIN f, IsFiniteSet(DOMAIN f),
         NEW a \in Int, NEW b \in Int, NEW c \in Int,
         \A x \in DOMAIN f : f[x] \in Nat /\ g[x] \in Nat /\ a * f[x] <= b * g[x] + c
  PROVE  /\ IsFiniteSet(Units(f)) /\ IsFiniteSet(Units(g))
         /\ a * SumOf(f) <= b * SumOf(g) + c * Cardinality(DOMAIN f)
<1>1. PICK S : S = DOMAIN f
  OBVIOUS
<1>2. /\ IsFiniteSet(UnitsIn(f, S)) /\ IsFiniteSet(UnitsIn(g, S))
      /\ a * Cardinality(UnitsIn(f, S)) <= b * Cardinality(UnitsIn(g, S)) + c * Cardinality(S)
  BY <1>1, SumsLinear
<1>3. UnitsIn(f, S) = Units(f) /\ UnitsIn(g, S) = Units(g)
  BY <1>1, UnitsAreIn
<1> QED BY <1>1, <1>2, <1>3, Zenon DEF SumOf

\* Something is counted, possibly for the first time: the sum goes up by one.
LEMMA CountedOnce ==
  ASSUME NEW f, NEW g, NEW x, DOMAIN g = DOMAIN f \cup {x}, IsFiniteSet(Units(f)),
         \A y \in DOMAIN f : f[y] \in Nat,
         \A y \in DOMAIN f \ {x} : g[y] = f[y],
         x \in DOMAIN f => g[x] = f[x] + 1,
         x \notin DOMAIN f => g[x] = 1
  PROVE  IsFiniteSet(Units(g)) /\ SumOf(g) = SumOf(f) + 1
<1> DEFINE v == <<x, g[x]>>
<1>1. g[x] \in Nat \ {0}
  OBVIOUS
<1>2. \A u : u \in Units(g) <=> u \in Units(f) \cup {v}
  <2>1. ASSUME NEW u, u \in Units(g)
        PROVE  u \in Units(f) \cup {v}
    <3>1. PICK y \in DOMAIN g : \E i \in 1 .. g[y] : u = <<y, i>>
      BY <2>1, UnitsInAre, UnitsAreIn
    <3>2. PICK i \in 1 .. g[y] : u = <<y, i>>
      BY <3>1
    <3>3. CASE y # x
      <4>1. y \in DOMAIN f /\ i \in 1 .. f[y]
        BY <3>3
      <4> QED BY <3>2, <4>1, UnitsInAre, UnitsAreIn
    <3>4. CASE y = x /\ i # g[x]
      <4>1. x \in DOMAIN f /\ i \in 1 .. f[x]
        BY <1>1, <3>4
      <4> QED BY <3>2, <3>4, <4>1, UnitsInAre, UnitsAreIn
    <3>5. CASE y = x /\ i = g[x]
      BY <3>2, <3>5
    <3> QED BY <3>3, <3>4, <3>5
  <2>2. ASSUME NEW u, u \in Units(f)
        PROVE  u \in Units(g)
    <3>1. PICK y \in DOMAIN f : \E i \in 1 .. f[y] : u = <<y, i>>
      BY <2>2, UnitsInAre, UnitsAreIn
    <3>2. PICK i \in 1 .. f[y] : u = <<y, i>>
      BY <3>1
    <3>3. y \in DOMAIN g /\ i \in 1 .. g[y]
      OBVIOUS
    <3> QED BY <3>2, <3>3, UnitsInAre, UnitsAreIn
  <2>3. v \in Units(g)
    <3>1. x \in DOMAIN g /\ g[x] \in 1 .. g[x]
      BY <1>1
    <3> QED BY <3>1, UnitsInAre, UnitsAreIn
  <2> QED BY <2>1, <2>2, <2>3
<1>3. v \notin Units(f)
  <2>1. ASSUME v \in Units(f)
        PROVE  FALSE
    <3>1. PICK y \in DOMAIN f : \E i \in 1 .. f[y] : v = <<y, i>>
      BY <2>1, UnitsInAre, UnitsAreIn
    <3>2. y = x /\ g[x] \in 1 .. f[x]
      BY <3>1
    <3> QED BY <3>1, <3>2
  <2> QED BY <2>1
<1> HIDE DEF v
<1>4. Units(g) = Units(f) \cup {v}
  BY <1>2
<1>5. Cardinality(Units(g)) = Cardinality(Units(f) \cup {v}) /\ IsFiniteSet(Units(g))
  <2>1. IsFiniteSet(Units(f) \cup {v})
    BY FS_AddElement
  <2> QED BY <1>4, <2>1, Zenon
<1>6. Cardinality(Units(f) \cup {v}) = Cardinality(Units(f)) + 1
  <2>1. PICK U : U = Units(f)
    OBVIOUS
  <2>2. IsFiniteSet(U) /\ v \notin U
    BY <1>3, <2>1
  <2>3. Cardinality(U \cup {v}) = Cardinality(U) + 1
    BY <2>2, FS_AddElement
  <2> QED BY <2>1, <2>3
<1> QED BY <1>5, <1>6 DEF SumOf

\* An entry that counts nothing adds nothing to the sum.
LEMMA CountedNothing ==
  ASSUME NEW f, NEW g, DOMAIN f \subseteq DOMAIN g,
         \A y \in DOMAIN f : g[y] = f[y],
         \A y \in DOMAIN g \ DOMAIN f : g[y] = 0
  PROVE  Units(g) = Units(f)
<1>1. \A u : u \in Units(g) <=> u \in Units(f)
  <2>1. ASSUME NEW u, u \in Units(g)
        PROVE  u \in Units(f)
    <3>1. PICK y \in DOMAIN g : \E i \in 1 .. g[y] : u = <<y, i>>
      BY <2>1, UnitsInAre, UnitsAreIn
    <3>2. y \in DOMAIN f
      BY <3>1
    <3> QED BY <3>1, <3>2, UnitsInAre, UnitsAreIn
  <2>2. ASSUME NEW u, u \in Units(f)
        PROVE  u \in Units(g)
    <3>1. PICK y \in DOMAIN f : \E i \in 1 .. f[y] : u = <<y, i>>
      BY <2>2, UnitsInAre, UnitsAreIn
    <3> QED BY <3>1, UnitsInAre, UnitsAreIn
  <2> QED BY <2>1, <2>2
<1> QED BY <1>1

\* No summand is larger than the sum.
LEMMA SummandBounded ==
  ASSUME NEW f, IsFiniteSet(Units(f)), NEW x \in DOMAIN f, f[x] \in Nat
  PROVE  f[x] <= SumOf(f)
<1> DEFINE V == {x} \X (1 .. f[x])
<1>1. V \in SUBSET Units(f)
  BY DEF Units
<1>2. Cardinality(V) = f[x]
  BY UnitsOfOne
<1> HIDE DEF V
<1>3. Cardinality(V) <= Cardinality(Units(f))
  BY <1>1, FS_Subset
<1> QED BY <1>2, <1>3 DEF SumOf

-----------------------------------------------------------------------------
(* The bars of the histograms. *)

\* A bar is as wide as its share of the full width, up to half a column
\* (printHistLine).
LEMMA BarBounds ==
  ASSUME NEW total \in Nat \ {0}, NEW part \in Nat, part <= total
  PROVE  /\ Bar(total, part) \in Nat /\ Bar(total, part) <= MaxCols
         /\ (2 * total) * Bar(total, part) <= (2 * MaxCols) * part + total
         /\ (2 * MaxCols) * part <= (2 * total) * Bar(total, part) + total
<1> DEFINE half == total \div 2
           all  == half + MaxCols * part
           q    == all \div total
<1>1. MaxCols \in Nat
  BY StatsAssumption DEF StatsAssumption
<1>2. half \in Nat /\ 2 * half <= total /\ total <= 2 * half + 1
  OBVIOUS
<1> DEFINE p == MaxCols * part
<1>3. p \in Nat /\ p <= MaxCols * total
  <2>1. part * MaxCols <= total * MaxCols
    BY <1>1, TimesMonotonic
  <2>2. part * MaxCols = p /\ total * MaxCols = MaxCols * total
    BY <1>1
  <2>3. p \in Nat
    BY <1>1
  <2> QED BY <2>1, <2>2, <2>3
<1> HIDE DEF half, p
<1>4. all = half + p
  BY DEF p
<1>5. all \in Nat
  BY <1>2, <1>3, <1>4
<1> HIDE DEF all
<1>6. q \in Int /\ total * q <= all /\ all < total * q + total
  <2>1. all = total * q + (all % total) /\ all % total \in 0 .. total - 1 /\ q \in Int
    BY <1>5
  <2> HIDE DEF q
  <2>2. PICK m \in 0 .. total - 1 : all = total * q + m
    BY <2>1
  <2>3. total * q \in Int /\ m \in Int /\ m >= 0 /\ m < total
    BY <2>1
  <2> QED BY <2>1, <2>2, <2>3
<1>7. Bar(total, part) = q
  BY DEF Bar, all, half
<1> HIDE DEF q
<1>8. q \in Nat
  <2>1. CASE q <= -1
    <3>1. total * q <= -total
      BY <1>6, <2>1
    <3> QED BY <1>5, <1>6, <3>1
  <2> QED BY <1>6, <2>1
<1>9. q <= MaxCols
  <2>1. CASE q >= MaxCols + 1
    <3>1. (MaxCols + 1) * total <= q * total
      BY <1>1, <1>6, <2>1, TimesMonotonic
    <3>2. (MaxCols + 1) * total = MaxCols * total + total /\ q * total = total * q
      BY <1>1, <1>6
    <3>3. MaxCols * total \in Int /\ total * q \in Int
      BY <1>1, <1>6
    <3> QED BY <1>2, <1>3, <1>4, <1>6, <3>1, <3>2, <3>3
  <2> QED BY <1>1, <1>6, <2>1
<1>10. (2 * total) * q = 2 * (total * q) /\ (2 * MaxCols) * part = 2 * p /\ total * q \in Int
  <2>1. (2 * MaxCols) * part = 2 * (MaxCols * part)
    BY <1>1
  <2> QED BY <1>6, <2>1 DEF p
<1>11. /\ 2 * (total * q) <= 2 * p + total
       /\ 2 * p <= 2 * (total * q) + total
  BY <1>2, <1>3, <1>4, <1>6, <1>10
<1> QED BY <1>7, <1>8, <1>9, <1>10, <1>11

\* What can be divided by: the factor is positive.
LEMMA Divided ==
  ASSUME NEW t \in Nat \ {0}, NEW a \in Int, NEW b \in Int, t * a <= t * b
  PROVE  a <= b
<1>1. CASE b + 1 <= a
  <2>1. (b + 1) * t <= a * t
    BY <1>1, TimesMonotonic
  <2>2. (b + 1) * t = t * b + t /\ a * t = t * a /\ t * a \in Int /\ t * b \in Int
    OBVIOUS
  <2> QED BY <2>1, <2>2
<1> QED BY <1>1

\* A histogram whose parts are no more than its total together is printed with
\* bars of the right widths, however many lines it has.
LEMMA HistogramFits ==
  ASSUME NEW total \in Nat, NEW parts, IsFiniteSet(DOMAIN parts), IsFiniteSet(Units(parts)),
         \A x \in DOMAIN parts : parts[x] \in Nat, SumOf(parts) <= total
  PROVE  Fits(Of(total, parts))
<1> DEFINE S     == DOMAIN parts
           bars  == [x \in S |-> Bar(total, parts[x])]
           lines == Cardinality(S)
<1>1. lines \in Nat /\ MaxCols \in Nat /\ SumOf(parts) \in Nat
  BY StatsAssumption, FS_CardinalityType DEF StatsAssumption, SumOf
<1>2. Of(total, parts).total = total /\ Of(total, parts).parts = parts
  BY DEF Of
<1>3. SUFFICES /\ \A x \in S : bars[x] <= MaxCols
               /\ 2 * SumOf(bars) <= 2 * MaxCols + lines
               /\ SumOf(parts) = total /\ total > 0 => 2 * SumOf(bars) >= 2 * MaxCols - lines
  BY <1>2 DEF Fits
<1>4. ASSUME total = 0
      PROVE  (\A x \in S : bars[x] = 0) /\ SumOf(bars) = 0
  <2>1. \A x \in S : bars[x] = 0
    BY <1>4 DEF Bar
  <2>2. Units(bars) = {}
    <3>1. ASSUME NEW u, u \in Units(bars)
          PROVE  FALSE
      <4>1. DOMAIN bars = S
        OBVIOUS
      <4> HIDE DEF bars
      <4>2. PICK x \in S : \E i \in 1 .. bars[x] : u = <<x, i>>
        BY <3>1, <4>1, UnitsInAre, UnitsAreIn
      <4> QED BY <2>1, <4>2
    <3> QED BY <3>1
  <2>3. Cardinality(Units(bars)) = 0
    BY <2>2, FS_EmptySet, Zenon
  <2> QED BY <2>1, <2>3 DEF SumOf
<1>5. CASE total = 0
  BY <1>1, <1>4, <1>5
<1>6. CASE total # 0
  <2>1. \A x \in S : parts[x] \in Nat /\ parts[x] <= total
    BY <1>1, SummandBounded
  <2>2. \A x \in S :
          /\ bars[x] \in Nat /\ parts[x] \in Nat /\ bars[x] <= MaxCols
          /\ (2 * total) * bars[x] <= (2 * MaxCols) * parts[x] + total
          /\ (2 * MaxCols) * parts[x] <= (2 * total) * bars[x] + total
    BY <1>6, <2>1, BarBounds
  <2>3. DOMAIN bars = S
    OBVIOUS
  <2> HIDE DEF bars
  <2>5. 2 * total \in Int /\ 2 * MaxCols \in Int /\ total \in Int
    BY <1>1
  <2> DEFINE B == SumOf(bars)
             P == SumOf(parts)
  <2>6. /\ IsFiniteSet(Units(bars))
        /\ (2 * total) * B <= (2 * MaxCols) * P + total * lines
    BY <2>2, <2>3, <2>5, SumsBounded
  <2>7. (2 * MaxCols) * P <= (2 * total) * B + total * lines
    BY <2>2, <2>3, <2>5, SumsBounded
  <2>8. B \in Nat /\ P \in Nat /\ P <= total
    BY <1>1, <2>6, FS_CardinalityType DEF SumOf
  <2> HIDE DEF B, P, lines
  <2>9. (2 * MaxCols) * P <= (2 * MaxCols) * total
    <3>1. P * (2 * MaxCols) <= total * (2 * MaxCols)
      BY <1>1, <2>8, TimesMonotonic
    <3> QED BY <1>1, <2>8, <3>1
  <2>10. /\ (2 * total) * B = total * (2 * B) /\ (2 * MaxCols) * total = total * (2 * MaxCols)
         /\ total * (2 * MaxCols + lines) = total * (2 * MaxCols) + total * lines
         /\ total * (2 * B + lines) = total * (2 * B) + total * lines
    BY <1>1, <2>8
  <2>11. /\ total * (2 * B) \in Int /\ total * (2 * MaxCols) \in Int /\ total * lines \in Int
         /\ (2 * MaxCols) * P \in Int
    BY <1>1, <2>8
  <2>12. 2 * B <= 2 * MaxCols + lines
    <3>1. total * (2 * B) <= total * (2 * MaxCols + lines)
      BY <2>6, <2>9, <2>10, <2>11
    <3>2. 2 * B \in Int /\ 2 * MaxCols + lines \in Int
      BY <1>1, <2>8
    <3> QED BY <1>6, <3>1, <3>2, Divided
  <2>13. ASSUME P = total
         PROVE  2 * MaxCols - lines <= 2 * B
    <3>1. total * (2 * MaxCols) <= total * (2 * B + lines)
      BY <2>7, <2>10, <2>11, <2>13
    <3>2. 2 * MaxCols \in Int /\ 2 * B + lines \in Int
      BY <1>1, <2>8
    <3>3. 2 * MaxCols <= 2 * B + lines
      BY <1>6, <3>1, <3>2, Divided
    <3> QED BY <1>1, <2>8, <3>3
  <2>14. \A x \in S : bars[x] <= MaxCols
    BY <2>2
  <2> QED BY <1>1, <2>8, <2>12, <2>13, <2>14 DEF B, P
<1> QED BY <1>5, <1>6

\* Only names that were counted have a line, which leaves the sum as it is.
LEMMA EntriesSum ==
  ASSUME NEW count, \A x \in DOMAIN count : count[x] \in Nat, IsFiniteSet(Units(count))
  PROVE  /\ Units(Entries(count)) = Units(count)
         /\ IsFiniteSet(DOMAIN Entries(count))
         /\ \A x \in DOMAIN Entries(count) : Entries(count)[x] \in Nat
<1> DEFINE e == Entries(count)
<1>1. /\ DOMAIN e = {x \in DOMAIN count : count[x] > 0}
      /\ \A x \in DOMAIN e : e[x] = count[x]
  BY DEF Entries
<1> HIDE DEF e
<1>2. Units(count) = Units(e)
  <2>1. DOMAIN e \subseteq DOMAIN count /\ \A x \in DOMAIN e : count[x] = e[x]
    BY <1>1
  <2>2. \A x \in DOMAIN count \ DOMAIN e : count[x] = 0
    BY <1>1
  <2> QED BY <2>1, <2>2, CountedNothing
<1>3. IsFiniteSet(DOMAIN e)
  <2> DEFINE name == [u \in Units(e) |-> u[1]]
  <2>1. ASSUME NEW u \in Units(e)
        PROVE  u[1] \in DOMAIN e
    BY UnitsInAre, UnitsAreIn
  <2>2. ASSUME NEW x \in DOMAIN e
        PROVE  \E u \in Units(e) : name[u] = x
    <3>1. 1 \in 1 .. e[x]
      BY <1>1
    <3>2. <<x, 1>> \in Units(e)
      BY <3>1, UnitsInAre, UnitsAreIn
    <3> QED BY <3>2
  <2>3. name \in Surjection(Units(e), DOMAIN e)
    BY <2>1, <2>2 DEF Surjection
  <2>4. IsFiniteSet(Units(e))
    BY <1>2, Zenon
  <2> QED BY <2>3, <2>4, FS_Surjection
<1> QED BY <1>1, <1>2, <1>3 DEF e

-----------------------------------------------------------------------------
(* The counts of the nodes. *)

\* An entry of stats.node adds up, and has counted finitely many names.
EntryInv(replies) ==
  /\ IsFiniteSet(Units(replies.device)) /\ IsFiniteSet(Units(replies.pod))
  /\ IsFiniteSet(Units(replies.error))
  /\ EntryAddsUp(replies)

\* So do all of them, and finitely many nodes have replied.
NodesInv ==
  /\ IsFiniteSet(DOMAIN node)
  /\ IsFiniteSet(Units(ByNode("success"))) /\ IsFiniteSet(Units(ByNode("failure")))
  /\ NodeSum("success") = success /\ NodeSum("failure") <= failure
  /\ \A n \in DOMAIN node : EntryInv(node[n])

\* Counting a name in one of the maps of an entry.
LEMMA CountedUp ==
  ASSUME NEW S, NEW count \in [S -> Nat], IsFiniteSet(Units(count)), NEW x \in S
  PROVE  /\ IsFiniteSet(Units(Counted(count, x)))
         /\ SumOf(Counted(count, x)) = SumOf(count) + 1
<1> DEFINE c == Counted(count, x)
<1>1. DOMAIN count = S /\ DOMAIN c = S /\ S = S \cup {x}
  BY DEF Counted
<1>2. c[x] = count[x] + 1 /\ \A y \in S \ {x} : c[y] = count[y]
  BY DEF Counted
<1>3. \A y \in S : count[y] \in Nat
  OBVIOUS
<1> HIDE DEF c
<1>4. DOMAIN c = DOMAIN count \cup {x}
  BY <1>1
<1>5. IsFiniteSet(Units(c)) /\ SumOf(c) = SumOf(count) + 1
  BY <1>1, <1>2, <1>3, <1>4, CountedOnce
<1> QED BY <1>5 DEF c

\* A new entry has counted nothing.
LEMMA EntryNew == EntryInv(NoReplies)
<1>1. ASSUME NEW S
      PROVE  IsFiniteSet(Units([x \in S |-> 0])) /\ SumOf([x \in S |-> 0]) = 0
  <2> DEFINE f == [x \in S |-> 0]
  <2>1. DOMAIN f = S /\ \A x \in S : f[x] = 0
    OBVIOUS
  <2> HIDE DEF f
  <2>2. \A u : u \notin Units(f)
    BY <2>1, UnitsInAre, UnitsAreIn
  <2>3. Units(f) = {}
    BY <2>2
  <2>4. IsFiniteSet(Units(f)) /\ Cardinality(Units(f)) = 0
    BY <2>3, FS_EmptySet, Zenon
  <2> QED BY <2>4 DEF SumOf, f
<1> DEFINE r == NoReplies
<1>2. /\ r.success = 0 /\ r.failure = 0 /\ r.device = [d \in Device |-> 0]
      /\ r.pod = [p \in Pod |-> 0] /\ r.error = [e \in Error |-> 0]
  BY DEF NoReplies
<1> HIDE DEF r
<1>3. EntryInv(r)
  BY <1>1, <1>2, Zenon DEF EntryInv, EntryAddsUp
<1> QED BY <1>3 DEF r

\* A success names one device and one pod.
LEMMA EntrySuccess ==
  ASSUME NEW r \in NodeStats, EntryInv(r), NEW d \in Device, NEW p \in Pod
  PROVE  EntryInv([r EXCEPT !.success = @ + 1, !.device = Counted(@, d),
                            !.pod = Counted(@, p)])
<1> DEFINE s == [r EXCEPT !.success = @ + 1, !.device = Counted(@, d), !.pod = Counted(@, p)]
<1>1. r.device \in [Device -> Nat] /\ r.pod \in [Pod -> Nat]
  BY DEF NodeStats
<1>2. /\ s.success = r.success + 1 /\ s.failure = r.failure /\ s.error = r.error
      /\ s.device = Counted(r.device, d) /\ s.pod = Counted(r.pod, p)
  BY DEF NodeStats
<1> HIDE DEF s
<1>3. /\ IsFiniteSet(Units(s.device)) /\ SumOf(s.device) = SumOf(r.device) + 1
      /\ IsFiniteSet(Units(s.pod)) /\ SumOf(s.pod) = SumOf(r.pod) + 1
  BY <1>1, <1>2, CountedUp DEF EntryInv
<1>4. EntryInv(s)
  BY <1>2, <1>3 DEF EntryInv, EntryAddsUp
<1> QED BY <1>4 DEF s

\* A failure names one error.
LEMMA EntryFailure ==
  ASSUME NEW r \in NodeStats, EntryInv(r), NEW e \in Error
  PROVE  EntryInv([r EXCEPT !.failure = @ + 1, !.error = Counted(@, e)])
<1> DEFINE s == [r EXCEPT !.failure = @ + 1, !.error = Counted(@, e)]
<1>1. r.error \in [Error -> Nat]
  BY DEF NodeStats
<1>2. /\ s.failure = r.failure + 1 /\ s.success = r.success /\ s.device = r.device
      /\ s.pod = r.pod /\ s.error = Counted(r.error, e)
  BY DEF NodeStats
<1> HIDE DEF s
<1>3. IsFiniteSet(Units(s.error)) /\ SumOf(s.error) = SumOf(r.error) + 1
  BY <1>1, <1>2, CountedUp DEF EntryInv
<1>4. EntryInv(s)
  BY <1>2, <1>3 DEF EntryInv, EntryAddsUp
<1> QED BY <1>4 DEF s

\* What a node's entry is before it is updated adds up.
LEMMA RepliesAddUp ==
  ASSUME NodesInv, NEW n
  PROVE  EntryInv(Replies(n))
  BY EntryNew DEF NodesInv, Replies

\* The sums over the nodes when one entry is replaced or added: a count that
\* goes up by one is one more in the sum, and one that stays leaves it.
LEMMA NodeCounted ==
  ASSUME TypeOK, NodesInv, NEW n \in Node, NEW r \in NodeStats, node' = WithNode(n, r),
         NEW kind \in {"success", "failure"}
  PROVE  /\ r[kind] = Replies(n)[kind] + 1
              => IsFiniteSet(Units(ByNode(kind)')) /\ NodeSum(kind)' = NodeSum(kind) + 1
         /\ r[kind] = Replies(n)[kind]
              => Units(ByNode(kind)') = Units(ByNode(kind))
<1> DEFINE f == ByNode(kind)
           g == ByNode(kind)'
<1>1. DOMAIN node' = DOMAIN node \cup {n} /\ node'[n] = r
      /\ \A m \in DOMAIN node \ {n} : node'[m] = node[m]
  BY DEF WithNode
<1>2. /\ DOMAIN f = DOMAIN node /\ \A m \in DOMAIN node : f[m] = node[m][kind]
      /\ DOMAIN g = DOMAIN node' /\ \A m \in DOMAIN node' : g[m] = node'[m][kind]
  BY DEF ByNode
<1>3. \A m \in DOMAIN node : node[m][kind] \in Nat
  BY DEF TypeOK, NodeStats
<1>4. n \notin DOMAIN node => Replies(n)[kind] = 0
  BY DEF Replies, NoReplies
<1>5. n \in DOMAIN node => Replies(n)[kind] = node[n][kind]
  BY DEF Replies
<1>6. IsFiniteSet(Units(f)) /\ NodeSum(kind) = SumOf(f) /\ NodeSum(kind)' = SumOf(g)
  BY DEF NodesInv, NodeSum, SumOf
<1> HIDE DEF f, g
<1>7. /\ DOMAIN g = DOMAIN f \cup {n} /\ \A m \in DOMAIN f : f[m] \in Nat
      /\ \A m \in DOMAIN f \ {n} : g[m] = f[m]
  BY <1>1, <1>2, <1>3
<1>8. g[n] = r[kind] /\ (n \in DOMAIN f => f[n] = Replies(n)[kind])
      /\ (n \notin DOMAIN f => Replies(n)[kind] = 0)
  BY <1>1, <1>2, <1>4, <1>5
<1>9. ASSUME r[kind] = Replies(n)[kind] + 1
      PROVE  IsFiniteSet(Units(g)) /\ SumOf(g) = SumOf(f) + 1
  BY <1>6, <1>7, <1>8, <1>9, CountedOnce
<1>10. ASSUME r[kind] = Replies(n)[kind]
       PROVE  Units(g) = Units(f)
  <2>1. DOMAIN f \subseteq DOMAIN g /\ \A m \in DOMAIN f : g[m] = f[m]
    BY <1>7, <1>8, <1>10
  <2>2. \A m \in DOMAIN g \ DOMAIN f : g[m] = 0
    BY <1>7, <1>8, <1>10
  <2> QED BY <2>1, <2>2, CountedNothing
<1> QED BY <1>6, <1>9, <1>10 DEF f, g

\* The rest of the invariant when one entry is replaced or added.
LEMMA EntriesKept ==
  ASSUME NodesInv, NEW n, NEW r, EntryInv(r), node' = WithNode(n, r)
  PROVE  IsFiniteSet(DOMAIN node') /\ \A m \in DOMAIN node' : EntryInv(node'[m])
<1>1. /\ DOMAIN node' = DOMAIN node \cup {n} /\ node'[n] = r
      /\ \A m \in DOMAIN node \ {n} : node'[m] = node[m]
  BY DEF WithNode
<1>2. IsFiniteSet(DOMAIN node \cup {n})
  BY FS_AddElement DEF NodesInv
<1>3. IsFiniteSet(DOMAIN node')
  BY <1>1, <1>2, Zenon
<1>4. \A m \in DOMAIN node' : EntryInv(node'[m])
  BY <1>1 DEF NodesInv
<1> QED BY <1>3, <1>4

\* A success is counted for its node, device and pod (statsSuccess).
LEMMA SuccessCounted ==
  ASSUME TypeOK, NodesInv, success' = success + 1, failure' = failure,
         NEW n \in Node, NEW d \in Device, NEW p \in Pod, node' = WithSuccess(n, d, p)
  PROVE  NodesInv'
<1> DEFINE q == Replies(n)
           r == [q EXCEPT !.success = @ + 1, !.device = Counted(@, d), !.pod = Counted(@, p)]
<1>1. q \in NodeStats /\ EntryInv(q)
  BY RepliesTyped, RepliesAddUp
<1> HIDE DEF q
<1>2. r.success = q.success + 1 /\ r.failure = q.failure /\ EntryInv(r)
  BY <1>1, EntrySuccess DEF NodeStats
<1> HIDE DEF r
<1>3. node' = WithNode(n, r)
  BY DEF WithSuccess, r, q
<1>4. r \in NodeStats
  <2>1. node' \in [DOMAIN node' -> NodeStats]
    BY SuccessTyped
  <2>2. n \in DOMAIN node' /\ node'[n] = r
    BY <1>3 DEF WithNode
  <2> QED BY <2>1, <2>2
<1>5. IsFiniteSet(Units(ByNode("success")')) /\ NodeSum("success")' = NodeSum("success") + 1
  BY <1>2, <1>3, <1>4, NodeCounted DEF q
<1>6. Units(ByNode("failure")') = Units(ByNode("failure"))
  BY <1>2, <1>3, <1>4, NodeCounted DEF q
<1>7. IsFiniteSet(Units(ByNode("failure")')) /\ NodeSum("failure")' = NodeSum("failure")
  BY <1>6, Zenon DEF NodesInv, NodeSum, SumOf
<1>8. IsFiniteSet(DOMAIN node') /\ \A m \in DOMAIN node' : EntryInv(node'[m])
  BY <1>2, <1>3, EntriesKept
<1> QED BY <1>5, <1>7, <1>8 DEF NodesInv

\* A failure is counted for its node and error, if it names a node
\* (statsFailure).
LEMMA FailureCounted ==
  ASSUME TypeOK, NodesInv, success' = success, failure' = failure + 1,
         NEW n \in Node \cup {NoNode}, NEW e \in Error, node' = WithFailure(n, e)
  PROVE  NodesInv'
<1>0. NodeSum("failure") \in Nat /\ failure \in Nat
  BY FS_CardinalityType DEF NodesInv, NodeSum, SumOf, TypeOK
<1>1. CASE n = NoNode
  <2>1. node' = node
    BY <1>1 DEF WithFailure
  <2>2. ByNode("success")' = ByNode("success") /\ ByNode("failure")' = ByNode("failure")
    BY <2>1 DEF ByNode
  <2>3. NodeSum("success")' = NodeSum("success") /\ NodeSum("failure")' = NodeSum("failure")
    BY <2>2 DEF NodeSum
  <2>4. NodeSum("failure") <= failure + 1
    BY <1>0 DEF NodesInv
  <2>5. IsFiniteSet(Units(ByNode("success")')) /\ IsFiniteSet(Units(ByNode("failure")'))
    BY <2>2 DEF NodesInv
  <2>6. IsFiniteSet(DOMAIN node') /\ \A m \in DOMAIN node' : EntryInv(node'[m])
    BY <2>1 DEF NodesInv
  <2> QED BY <2>3, <2>4, <2>5, <2>6 DEF NodesInv
<1>2. CASE n # NoNode
  <2>1. n \in Node
    BY <1>2
  <2> DEFINE q == Replies(n)
             r == [q EXCEPT !.failure = @ + 1, !.error = Counted(@, e)]
  <2>2. q \in NodeStats /\ EntryInv(q)
    BY <2>1, RepliesTyped, RepliesAddUp
  <2> HIDE DEF q
  <2>3. r.success = q.success /\ r.failure = q.failure + 1 /\ EntryInv(r)
    BY <2>2, EntryFailure DEF NodeStats
  <2> HIDE DEF r
  <2>4. node' = WithNode(n, r)
    BY <1>2 DEF WithFailure, r, q
  <2>5. r \in NodeStats
    <3>1. node' \in [DOMAIN node' -> NodeStats]
      BY FailureTyped
    <3>2. n \in DOMAIN node' /\ node'[n] = r
      BY <2>4 DEF WithNode
    <3> QED BY <3>1, <3>2
  <2>6. IsFiniteSet(Units(ByNode("failure")')) /\ NodeSum("failure")' = NodeSum("failure") + 1
    BY <2>1, <2>3, <2>4, <2>5, NodeCounted DEF q
  <2>7. Units(ByNode("success")') = Units(ByNode("success"))
    BY <2>1, <2>3, <2>4, <2>5, NodeCounted DEF q
  <2>8. IsFiniteSet(Units(ByNode("success")')) /\ NodeSum("success")' = NodeSum("success")
    BY <2>7, Zenon DEF NodesInv, NodeSum, SumOf
  <2>9. IsFiniteSet(DOMAIN node') /\ \A m \in DOMAIN node' : EntryInv(node'[m])
    BY <2>3, <2>4, EntriesKept
  <2>10. NodeSum("failure")' <= failure'
    BY <1>0, <2>6 DEF NodesInv
  <2> QED BY <2>6, <2>8, <2>9, <2>10 DEF NodesInv
<1> QED BY <1>1, <1>2

\* Without nodes all sums are zero.
LEMMA NoNodesAddUp == node = NoNodes /\ success = 0 /\ failure = 0 => NodesInv
<1> SUFFICES ASSUME node = NoNodes, success = 0, failure = 0
             PROVE  NodesInv
  OBVIOUS
<1>1. DOMAIN node = {}
  BY DEF NoNodes
<1>2. ASSUME NEW kind
      PROVE  IsFiniteSet(Units(ByNode(kind))) /\ NodeSum(kind) = 0
  <2>1. Units(ByNode(kind)) = {}
    BY <1>1 DEF Units, ByNode
  <2> QED BY <2>1, FS_EmptySet, Zenon DEF NodeSum, SumOf
<1>3. IsFiniteSet(DOMAIN node)
  BY <1>1, FS_EmptySet, Zenon
<1>4. NodeSum("success") = success /\ NodeSum("failure") <= failure
  <2>1. NodeSum("success") = 0 /\ NodeSum("failure") = 0
    BY <1>2
  <2> QED BY <2>1
<1> QED BY <1>1, <1>2, <1>3, <1>4 DEF NodesInv

\* Every step keeps the counts of the nodes.
LEMMA NodesNext ==
  ASSUME TypeOK, NodesInv, [Next]_vars
  PROVE  NodesInv'
<1>1. ASSUME NEW t \in Thread, StatsSuccess(t)
      PROVE  NodesInv'
  <2>1. success' = success + 1 /\ failure' = failure
    BY <1>1 DEF StatsSuccess
  <2>2. PICK n \in Node, d \in Device, p \in Pod : node' = WithSuccess(n, d, p)
    BY <1>1 DEF StatsSuccess
  <2> QED BY <2>1, <2>2, SuccessCounted
<1>2. ASSUME NEW t \in Thread, StatsFailure(t)
      PROVE  NodesInv'
  <2>1. success' = success /\ failure' = failure + 1
    BY <1>2 DEF StatsFailure
  <2>2. PICK n \in Node \cup {NoNode}, e \in Error : node' = WithFailure(n, e)
    BY <1>2 DEF StatsFailure
  <2> QED BY <2>1, <2>2, FailureCounted
<1>3. ASSUME NEW h \in Query, StatsReset(h)
      PROVE  NodesInv'
  <2>1. node' = NoNodes /\ success' = 0 /\ failure' = 0
    BY <1>3 DEF StatsReset, AfterReset
  <2>2. (node = NoNodes /\ success = 0 /\ failure = 0 => NodesInv)'
    BY NoNodesAddUp, PTL
  <2> QED BY <2>1, <2>2 DEF NoNodes
<1>4. CASE UNCHANGED <<node, success, failure>>
  BY <1>4 DEF NodesInv, NodeSum, ByNode
<1>5. CASE UNCHANGED vars
  BY <1>4, <1>5 DEF vars
<1>6. ASSUME NEW t \in Thread, StatsStart(t) \/ Fatal(t)
      PROVE  NodesInv'
  BY <1>4, <1>6 DEF StatsStart, Fatal
<1>7. ASSUME NEW h \in Query, Serve(h) \/ CountQuery(h)
      PROVE  NodesInv'
  BY <1>4, <1>7 DEF Serve, CountQuery
<1> QED BY <1>1, <1>2, <1>3, <1>5, <1>6, <1>7 DEF Next

\* The counts of the nodes are right in every reachable state.
LEMMA NodesAlwaysInv == Spec => [](TypeOK /\ NodesInv)
<1>1. Init => TypeOK /\ NodesInv
  BY TypeInit, NoNodesAddUp DEF Init
<1>2. TypeOK /\ NodesInv /\ [Next]_vars => TypeOK' /\ NodesInv'
  BY TypeNext, NodesNext
<1> QED BY <1>1, <1>2, PTL DEF Spec

\* The counts of nodes, devices, pods and errors add up to the totals that they
\* are shown as shares of, whatever was reset while requests were in flight.
THEOREM CountsOfNodesAddUp == Spec => []NodesAddUp
<1>1. NodesInv => NodesAddUp
  BY DEF NodesInv, NodesAddUp, EntryInv
<1> QED BY <1>1, NodesAlwaysInv, PTL

\* Each of the histograms that can be printed has parts that add up.
LEMMA HistogramsAddUp ==
  ASSUME TypeOK, NodesInv
  PROVE  HistogramsFit
<1>1. success \in Nat /\ failure \in Nat /\ \A n \in DOMAIN node : node[n] \in NodeStats
  BY DEF TypeOK
<1>2. ASSUME NEW kind \in {"success", "failure"}, NEW total \in Nat, NodeSum(kind) <= total
      PROVE  Fits(Of(total, ByNode(kind)))
  <2> DEFINE f == ByNode(kind)
  <2>1. DOMAIN f = DOMAIN node /\ \A n \in DOMAIN f : f[n] \in Nat
    BY <1>1 DEF ByNode, NodeStats
  <2>2. IsFiniteSet(DOMAIN f)
    BY <2>1, Zenon DEF NodesInv
  <2>3. IsFiniteSet(Units(f)) /\ SumOf(f) <= total
    BY <1>2 DEF NodesInv, NodeSum
  <2> HIDE DEF f
  <2>4. Fits(Of(total, f))
    BY <2>1, <2>2, <2>3, HistogramFits
  <2> QED BY <2>4 DEF f
<1>3. ASSUME NEW S, NEW count \in [S -> Nat], IsFiniteSet(Units(count)),
             NEW total \in Nat, SumOf(count) = total
      PROVE  Fits(Of(total, Entries(count)))
  <2>1. /\ Units(Entries(count)) = Units(count) /\ IsFiniteSet(DOMAIN Entries(count))
        /\ \A x \in DOMAIN Entries(count) : Entries(count)[x] \in Nat
    BY <1>3, EntriesSum
  <2>2. IsFiniteSet(Units(Entries(count))) /\ SumOf(Entries(count)) = total
    BY <1>3, <2>1, Zenon DEF SumOf
  <2>3. SumOf(Entries(count)) <= total
    BY <2>2
  <2> QED BY <2>1, <2>2, <2>3, HistogramFits
<1>4. Fits(Of(success, ByNode("success"))) /\ Fits(Of(failure, ByNode("failure")))
  <2>1. NodeSum("success") <= success /\ NodeSum("failure") <= failure
    BY <1>1 DEF NodesInv
  <2> QED BY <1>1, <1>2, <2>1
<1>5. ASSUME NEW n \in DOMAIN node
      PROVE  /\ Fits(Of(node[n].success, Entries(node[n].device)))
             /\ Fits(Of(node[n].success, Entries(node[n].pod)))
  <2>1. /\ node[n].device \in [Device -> Nat] /\ node[n].pod \in [Pod -> Nat]
        /\ node[n].success \in Nat
    BY <1>1 DEF NodeStats
  <2>2. EntryInv(node[n])
    BY DEF NodesInv
  <2> QED BY <1>3, <2>1, <2>2 DEF EntryInv, EntryAddsUp
<1> QED BY <1>4, <1>5 DEF HistogramsFit, Histograms

\* However many nodes, devices and pods there are, the bars of every histogram
\* that the client prints make up the full width, up to half a column each.
THEOREM BarsFit == Spec => []HistogramsFit
  BY HistogramsAddUp, NodesAlwaysInv, PTL

=============================================================================
