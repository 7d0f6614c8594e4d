------------------------ MODULE FrontendRefinement ------------------------
(***************************************************************************)
(* The frontend implements the abstract work queues, for any queues,       *)
(* clients, workers, limit and reporting mode: the initial states map to   *)
(* the initial state of WorkQueue, and each step to one of its steps or to *)
(* a stuttering step.  So it keeps what the queues promise.                *)
(***************************************************************************)
EXTENDS FrontendClientProofs

\* A listener that has released the mutex is idle.
USE DEF Unlocked

(* The refinement mapping of Frontend!Abstract, by names. *)

Waiting(q) ==
  [i \in 1 .. Len(items[q]) - Swept(q) |-> items[q][Swept(q) + i].client]

Pending  == [q \in Queue |-> Waiting(q)]
ServedBy == [w \in Worker |-> IF Serving(w) THEN job[w].client ELSE None]
Fates    == [c \in Client |-> Outcome(c)]

-----------------------------------------------------------------------------
(* Sequences given as functions. *)

\* A function on 1 .. n is a sequence of length n.
LEMMA FunctionIsSeq ==
  ASSUME NEW S, NEW n \in Nat, NEW s \in [1 .. n -> S]
  PROVE  s \in Seq(S) /\ Len(s) = n
  OBVIOUS

\* One element more.
LEMMA AppendToFunction ==
  ASSUME NEW S, NEW n \in Nat, NEW s \in [1 .. n -> S], NEW e \in S,
         NEW t \in [1 .. n + 1 -> S],
         \A i \in 1 .. n : t[i] = s[i], t[n + 1] = e
  PROVE  t = Append(s, e)
<1>1. /\ s \in Seq(S) /\ Len(s) = n
      /\ t \in Seq(S) /\ Len(t) = n + 1
  BY FunctionIsSeq
<1>2. /\ Append(s, e) \in Seq(S) /\ Len(Append(s, e)) = n + 1
      /\ \A i \in 1 .. n + 1 : Append(s, e)[i] = t[i]
  BY <1>1
<1> QED BY <1>1, <1>2, SeqEqual

-----------------------------------------------------------------------------
(* The steps of the abstract queues, in these names. *)

\* What moves nothing is a stuttering step.
LEMMA AbstractStutter ==
  ASSUME Pending' = Pending, ServedBy' = ServedBy, Fates' = Fates
  PROVE  UNCHANGED Abstract!vars
  BY DEF Abstract!vars, Pending, Waiting, ServedBy, Fates

\* A request is refused.
LEMMA AbstractRefuse ==
  ASSUME NEW c \in Client, Fates[c] = "none",
         \A q \in Queue : \A i \in DOMAIN Pending[q] : Pending[q][i] # c,
         \A w \in Worker : ServedBy[w] # c,
         Fates' = [Fates EXCEPT ![c] = "refused"],
         Pending' = Pending, ServedBy' = ServedBy
  PROVE  Abstract!Next
<1>1. Abstract!Refuse(c)
  BY DEF Abstract!Refuse, Abstract!IsPending, Abstract!IsServed, Pending, Waiting,
         ServedBy, Fates
<1> QED BY <1>1 DEF Abstract!Next

\* A request is queued.
LEMMA AbstractSubmit ==
  ASSUME NEW c \in Client, Target[c] \in Queue, Fates[c] = "none",
         \A q \in Queue : \A i \in DOMAIN Pending[q] : Pending[q][i] # c,
         \A w \in Worker : ServedBy[w] # c,
         QMax > 0 => Len(Pending[Target[c]]) < QMax,
         Pending' = [Pending EXCEPT ![Target[c]] = Append(@, c)],
         Fates' = Fates, ServedBy' = ServedBy
  PROVE  Abstract!Next
<1>1. Abstract!Submit(c)
  BY DEF Abstract!Submit, Abstract!IsPending, Abstract!IsServed, Pending, Waiting,
         ServedBy, Fates
<1> QED BY <1>1 DEF Abstract!Next

\* The oldest request of a queue is dropped.
LEMMA AbstractDrop ==
  ASSUME NEW q \in Queue, Pending[q] # <<>>,
         Pending' = [Pending EXCEPT ![q] = Tail(@)],
         Fates' = [Fates EXCEPT ![Head(Pending[q])] = "dropped"],
         ServedBy' = ServedBy
  PROVE  Abstract!Next
<1>1. Abstract!Drop(q)
  BY DEF Abstract!Drop, Pending, Waiting, ServedBy, Fates
<1> QED BY <1>1 DEF Abstract!Next

\* A worker takes the oldest request of a queue.
LEMMA AbstractTake ==
  ASSUME NEW q \in Queue, NEW w \in Worker, Pending[q] # <<>>, ServedBy[w] = None,
         Pending' = [Pending EXCEPT ![q] = Tail(@)],
         ServedBy' = [ServedBy EXCEPT ![w] = Head(Pending[q])],
         Fates' = Fates
  PROVE  Abstract!Next
<1>1. Abstract!Take(q, w)
  BY DEF Abstract!Take, Pending, Waiting, ServedBy, Fates
<1> QED BY <1>1 DEF Abstract!Next

\* A request that was taken is answered.
LEMMA AbstractAnswer ==
  ASSUME NEW w \in Worker, ServedBy[w] # None,
         Fates' = [Fates EXCEPT ![ServedBy[w]] = "answered"],
         ServedBy' = [ServedBy EXCEPT ![w] = None],
         Pending' = Pending
  PROVE  Abstract!Next
<1>1. Abstract!Answer(w)
  BY DEF Abstract!Answer, Pending, Waiting, ServedBy, Fates
<1> QED BY <1>1 DEF Abstract!Next

-----------------------------------------------------------------------------
(* The mapping in a reachable state. *)

\* What waits in a queue, as a function of its positions.
LEMMA WaitingIs ==
  ASSUME TypeOK, NEW q \in Queue
  PROVE  /\ Swept(q) \in Nat /\ Len(items[q]) - Swept(q) \in Nat
         /\ Waiting(q) \in [1 .. Len(items[q]) - Swept(q) -> Client]
         /\ \A i \in 1 .. Len(items[q]) - Swept(q) :
              QueuedAt(q, Swept(q) + i, Waiting(q)[i])
<1>1. items[q] \in Seq(Item) /\ Len(items[q]) \in Nat
  BY ClientTypes
<1>2. Swept(q) \in Nat /\ Swept(q) <= Len(items[q])
  BY <1>1 DEF Swept, Locked, TypeOK, ListenersTyped
<1>3. \A i \in 1 .. Len(items[q]) - Swept(q) :
        /\ Swept(q) + i \in Swept(q) + 1 .. Len(items[q])
        /\ items[q][Swept(q) + i].client \in Client
  <2> SUFFICES ASSUME NEW i \in 1 .. Len(items[q]) - Swept(q)
               PROVE  /\ Swept(q) + i \in Swept(q) + 1 .. Len(items[q])
                      /\ items[q][Swept(q) + i].client \in Client
    OBVIOUS
  <2>1. Swept(q) + i \in 1 .. Len(items[q]) /\ Swept(q) + i \in Swept(q) + 1 .. Len(items[q])
    BY <1>1, <1>2
  <2>2. items[q][Swept(q) + i] \in Item
    BY <1>1, <2>1
  <2> QED BY <2>1, <2>2 DEF Item
<1> QED BY <1>1, <1>2, <1>3 DEF Waiting, QueuedAt

\* Whoever the client listener holds is nowhere in the abstract queues.
LEMMA HeldByListener ==
  ASSUME TypeOK, ClientsInv, NEW c \in Client, cl.conn = c
  PROVE  /\ Fates[c] = "none"
         /\ \A q \in Queue : \A i \in DOMAIN Pending[q] : Pending[q][i] # c
         /\ \A w \in Worker : ServedBy[w] # c
<1>1. /\ conn[c] = "open"
      /\ \A q \in Queue : \A i \in Nat : ~QueuedAt(q, i, c)
      /\ \A w \in Worker : ~Serves(w, c)
  BY ClientHolder DEF ClientsInv
<1>2. Fates[c] = "none"
  BY <1>1 DEF Fates, Outcome
<1>3. ASSUME NEW q \in Queue, NEW i \in DOMAIN Pending[q]
      PROVE  Pending[q][i] # c
  <2>1. Pending[q] = Waiting(q)
    BY DEF Pending
  <2>2. i \in 1 .. Len(items[q]) - Swept(q)
    BY <1>3, <2>1, WaitingIs
  <2>3. Swept(q) + i \in Nat /\ QueuedAt(q, Swept(q) + i, Waiting(q)[i])
    BY <2>2, WaitingIs
  <2> QED BY <1>1, <2>1, <2>3
<1>4. ASSUME NEW w \in Worker
      PROVE  ServedBy[w] # c
  BY <1>1, NoneIsNone DEF ServedBy, Serves
<1> QED BY <1>2, <1>3, <1>4

\* As long as neither the queues nor the sweeps move, the same requests wait.
LEMMA PendingStays ==
  ASSUME UNCHANGED items, \A q \in Queue : Swept(q)' = Swept(q)
  PROVE  Pending' = Pending
  BY DEF Pending, Waiting

\* As long as no goroutine moves, the same requests are served.
LEMMA ServedStays ==
  ASSUME UNCHANGED job
  PROVE  ServedBy' = ServedBy
  BY DEF ServedBy, Serving

\* As long as no client's connection is closed, no fate is decided.
LEMMA FatesStay ==
  ASSUME \A c \in Client : conn'[c] = conn[c]
  PROVE  Fates' = Fates
  BY DEF Fates, Outcome

\* A step that closes the connection of one client decides its fate only.
LEMMA FateDecided ==
  ASSUME NEW d \in Client, NEW how \in {"refused", "dropped", "done", "failed"},
         conn \in [Peer -> ConnState],
         \A c \in Client : conn'[c] = IF c = d THEN how ELSE conn[c]
  PROVE  Fates' = [Fates EXCEPT ![d] =
                     IF how \in {"done", "failed"} THEN "answered" ELSE how]
<1>1. \A c \in Client \ {d} : Outcome(c)' = Outcome(c)
  BY DEF Outcome
<1>2. Outcome(d)' = IF how \in {"done", "failed"} THEN "answered" ELSE how
  BY DEF Outcome
<1> QED BY <1>1, <1>2 DEF Fates

-----------------------------------------------------------------------------
(* The steps. *)

\* Peers and reporters, and the acceptance of connections, are not seen.
LEMMA OthersStutter ==
  ASSUME TypeOK, ClientsInv,
         \/ \E x \in Peer : Dial(x) \/ Send(x) \/ Hangup(x)
         \/ \E w \in Worker : Reply(w) \/ AcceptWorker(w)
         \/ \E c \in Client : AcceptClient(c)
         \/ \E s \in Scraper : ScrapeStart(s) \/ \E q \in Queue : ScrapeQueue(s, q)
         \/ LogStart \/ \E q \in Queue : LogQueue(q)
  PROVE  UNCHANGED Abstract!vars
<1>1. ASSUME UNCHANGED <<items, job>>, Fates' = Fates,
             UNCHANGED <<wl.queue, wl.offset>>
      PROVE  UNCHANGED Abstract!vars
  BY <1>1, AbstractStutter, PendingStays, ServedStays DEF Swept, Locked
<1>2. ASSUME UNCHANGED <<items, job, conn, wl>>
      PROVE  UNCHANGED Abstract!vars
  BY <1>1, <1>2, FatesStay
<1>3. ASSUME NEW x \in Peer, Dial(x)
      PROVE  UNCHANGED Abstract!vars
  <2>1. UNCHANGED <<items, job, wl>> /\ Unused(x) /\ conn' = [conn EXCEPT ![x] = "none"]
    BY <1>3 DEF Dial
  <2>2. x \in Client => conn[x] = "none"
    BY <2>1, PeersDistinct DEF Unused, ClientsInv, ClientOwned
  <2>3. \A c \in Client : conn'[c] = conn[c]
    BY <2>1, <2>2, ClientTypes, PeersDistinct
  <2> QED BY <1>1, <2>1, <2>3, FatesStay
<1>4. ASSUME NEW x \in Peer, Send(x) \/ Hangup(x)
      PROVE  UNCHANGED Abstract!vars
  BY <1>2, <1>4 DEF Send, Hangup
<1>5. ASSUME NEW w \in Worker, Reply(w)
      PROVE  UNCHANGED Abstract!vars
  BY <1>2, <1>5 DEF Reply
<1>6. ASSUME NEW w \in Worker, AcceptWorker(w)
      PROVE  UNCHANGED Abstract!vars
  <2>1. /\ UNCHANGED <<items, job>> /\ conn' = [conn EXCEPT ![w] = "open"]
        /\ wl'.queue = wl.queue /\ wl'.offset = wl.offset
    BY <1>6 DEF AcceptWorker, TypeOK, ListenersTyped
  <2>2. \A c \in Client : conn'[c] = conn[c]
    BY <2>1, ClientTypes, PeersDistinct
  <2> QED BY <1>1, <2>1, <2>2, FatesStay
<1>7. ASSUME NEW d \in Client, AcceptClient(d)
      PROVE  UNCHANGED Abstract!vars
  <2>1. /\ UNCHANGED <<items, job, wl>> /\ conn[d] = "none"
        /\ conn' = [conn EXCEPT ![d] = "open"]
    BY <1>7 DEF AcceptClient
  <2>2. \A c \in Client : conn'[c] = conn[c] \/ (conn[c] = "none" /\ conn'[c] = "open")
    BY <2>1, ClientTypes, PeersDistinct
  <2>3. Fates' = Fates
    BY <2>2 DEF Fates, Outcome
  <2> QED BY <1>1, <2>1, <2>3
<1>8. ASSUME NEW s \in Scraper, ScrapeStart(s) \/ \E q \in Queue : ScrapeQueue(s, q)
      PROVE  UNCHANGED Abstract!vars
  BY <1>2, <1>8 DEF ScrapeStart, ScrapeQueue
<1>9. CASE LogStart \/ \E q \in Queue : LogQueue(q)
  BY <1>2, <1>9 DEF LogStart, LogQueue
<1> QED BY <1>3, <1>4, <1>5, <1>6, <1>7, <1>8, <1>9

\* A request that names no queue, or that finds its queue full, is refused.
LEMMA RefusalRefines ==
  ASSUME TypeOK, ClientsInv, cl.conn \in Client,
         conn' = [conn EXCEPT ![cl.conn] = "refused"], UNCHANGED <<items, wl, job>>
  PROVE  Abstract!Next
<1>1. PICK d \in Client : d = cl.conn
  OBVIOUS
<1>2. Fates' = [Fates EXCEPT ![d] = "refused"]
  <2>1. \A c \in Client : conn'[c] = IF c = d THEN "refused" ELSE conn[c]
    BY <1>1, ClientTypes, PeersDistinct
  <2> QED BY <2>1, ClientTypes, FateDecided
<1>3. Pending' = Pending /\ ServedBy' = ServedBy
  BY PendingStays, ServedStays DEF Swept, Locked
<1> QED BY <1>1, <1>2, <1>3, HeldByListener, AbstractRefuse

\* The client listener refuses a request or puts it into a queue.
LEMMA ListenerRefines ==
  ASSUME TypeOK, ClientsInv, ReadClient \/ EnqueueClient
  PROVE  Abstract!Next \/ UNCHANGED Abstract!vars
<1>1. cl.conn \in Client
  BY DEF ReadClient, EnqueueClient, TypeOK, ListenersTyped
<1>2. CASE ReadClient
  <2>1. UNCHANGED <<items, wl, job>>
    BY <1>2 DEF ReadClient
  <2>2. CASE Valid(cl.conn)
    <3>1. conn' = conn
      BY <1>2, <2>2 DEF ReadClient
    <3> QED BY <2>1, <3>1, AbstractStutter, PendingStays, ServedStays, FatesStay DEF Swept, Locked
  <2>3. CASE ~Valid(cl.conn)
    BY <1>1, <1>2, <2>1, <2>3, RefusalRefines DEF ReadClient
  <2> QED BY <2>2, <2>3
<1>3. CASE EnqueueClient
  <2>1. PICK d \in Client, t \in Queue :
          d = cl.conn /\ t = Target[d] /\ ~Locked(t) /\ UNCHANGED <<wl, job>>
    BY <1>1, <1>3 DEF EnqueueClient, TypeOK, ListenersTyped
  <2>2. CASE AtCapacity(t)
    BY <1>1, <1>3, <2>1, <2>2, RefusalRefines DEF EnqueueClient
  <2>3. CASE ~AtCapacity(t)
    <3> DEFINE item == [client |-> d, added |-> accepted[t]]
    <3>1. conn' = conn /\ items' = [items EXCEPT ![t] = Append(items[t], item)]
      BY <1>3, <2>1, <2>3 DEF EnqueueClient, Queued
    <3>2. PICK n \in Nat : n = Len(items[t])
      BY ClientTypes
    <3>3. /\ \A q \in Queue : Swept(q)' = Swept(q)
          /\ Swept(t) = 0
      BY <2>1 DEF Swept, Locked
    <3>4. item \in Item
      BY <2>1 DEF Item, TypeOK, QueuesTyped
    <3>5. /\ Len(items'[t]) = n + 1 /\ items'[t][n + 1] = item
          /\ \A i \in 1 .. n : items'[t][i] = items[t][i]
          /\ \A q \in Queue \ {t} : items'[q] = items[q]
      BY <2>1, <3>1, <3>2, <3>4, ClientTypes
    <3>6. Waiting(t) \in [1 .. n -> Client] /\ Waiting(t) = [i \in 1 .. n |-> items[t][i].client]
      <4>1. n - 0 = n /\ \A i \in 1 .. n : 0 + i = i
        OBVIOUS
      <4>2. Waiting(t) = [i \in 1 .. n - 0 |-> items[t][0 + i].client]
        BY <3>2, <3>3 DEF Waiting
      <4>3. Waiting(t) \in [1 .. n - 0 -> Client]
        BY <2>1, <3>2, <3>3, WaitingIs
      <4> QED BY <4>1, <4>2, <4>3
    <3>7. Waiting(t)' = [i \in 1 .. n + 1 |-> items'[t][i].client]
      <4>1. n + 1 - 0 = n + 1 /\ \A i \in 1 .. n + 1 : 0 + i = i
        OBVIOUS
      <4>2. Waiting(t)' = [i \in 1 .. n + 1 - 0 |-> items'[t][0 + i].client]
        BY <2>1, <3>3, <3>5 DEF Waiting
      <4> QED BY <4>1, <4>2
    <3>8. Waiting(t)' = Append(Waiting(t), d)
      <4>1. \A i \in 1 .. n : Waiting(t)'[i] = Waiting(t)[i]
        BY <3>5, <3>6, <3>7
      <4>2. Waiting(t)'[n + 1] = d
        BY <3>5, <3>7
      <4>3. Waiting(t)' \in [1 .. n + 1 -> Client]
        <5>1. \A i \in 1 .. n : Waiting(t)[i] \in Client
          BY <3>6
        <5>2. \A i \in 1 .. n + 1 : i \in 1 .. n \/ i = n + 1
          OBVIOUS
        <5>3. \A i \in 1 .. n + 1 : Waiting(t)'[i] \in Client
          BY <2>1, <4>1, <4>2, <5>1, <5>2
        <5> QED BY <3>7, <5>3
      <4> QED BY <2>1, <3>6, <4>1, <4>2, <4>3, AppendToFunction
    <3>9. Pending' = [Pending EXCEPT ![t] = Append(@, d)]
      <4>1. \A q \in Queue \ {t} : Waiting(q)' = Waiting(q)
        BY <3>3, <3>5 DEF Waiting
      <4> QED BY <2>1, <3>8, <4>1 DEF Pending
    <3>10. QMax > 0 => Len(Pending[t]) < QMax
      <4>1. Pending[t] = Waiting(t) /\ Len(Waiting(t)) = n
        BY <3>6, FunctionIsSeq DEF Pending
      <4>2. QMax \in Nat
        BY ConstantsAssumption DEF ConstantsAssumption
      <4> QED BY <2>3, <3>2, <4>1, <4>2 DEF AtCapacity
    <3>11. Fates' = Fates /\ ServedBy' = ServedBy
      BY <2>1, <3>1, FatesStay, ServedStays
    <3> QED BY <2>1, <3>9, <3>10, <3>11, HeldByListener, AbstractSubmit
  <2> QED BY <2>2, <2>3
<1> QED BY <1>2, <1>3

\* A pull request starts a sweep, and an empty queue ends it, unseen.
LEMMA WorkerListenerStutters ==
  ASSUME TypeOK, ReadWorker \/ QueueEmpty
  PROVE  UNCHANGED Abstract!vars
<1>1. wl.conn \in Worker /\ UNCHANGED job
  BY DEF ReadWorker, QueueEmpty, TypeOK, ListenersTyped
<1>2. Fates' = Fates /\ ServedBy' = ServedBy
  <2>1. conn' = conn \/ \E how : conn' = [conn EXCEPT ![wl.conn] = how]
    BY DEF ReadWorker, QueueEmpty
  <2>2. \A c \in Client : conn'[c] = conn[c]
    BY <1>1, <2>1, ClientTypes, PeersDistinct
  <2> QED BY <1>1, <2>2, FatesStay, ServedStays
<1>3. CASE ReadWorker
  <2>1. wl.offset = 0 /\ (wl'.offset = wl.offset \/ wl' = IdleWorkers) /\ UNCHANGED items
    BY <1>3 DEF ReadWorker, TypeOK, ListenersTyped
  <2>2. \A q \in Queue : Swept(q)' = Swept(q)
    BY <2>1 DEF Swept, IdleWorkers
  <2> QED BY <1>2, <2>1, <2>2, AbstractStutter, PendingStays
<1>4. CASE QueueEmpty
  <2>1. PICK t \in Queue :
          /\ t = wl.queue /\ wl.offset \in Nat /\ wl.offset <= Len(items[t])
          /\ wl.offset >= Len(items[t]) /\ Len(items[t]) \in Nat
    BY <1>4, ClientTypes DEF QueueEmpty, TypeOK, ListenersTyped
  <2>2. wl' = IdleWorkers /\ items' = [items EXCEPT ![t] = <<>>]
    BY <1>4, <2>1 DEF QueueEmpty
  <2>3. \A q \in Queue : Swept(q)' = 0
    BY <2>2, NoneIsNone DEF Swept, Locked, IdleWorkers
  <2>4. \A q \in Queue \ {t} : items'[q] = items[q] /\ Swept(q) = 0
    BY <2>1, <2>2, ClientTypes DEF Swept, Locked
  <2>5. Waiting(t)' = Waiting(t)
    <3>1. 1 .. Len(items[t]) - Swept(t) = {}
      BY <2>1 DEF Swept, Locked
    <3>2. items'[t] = <<>>
      BY <2>2, ClientTypes
    <3>3. Len(items'[t]) - Swept(t)' = 0
      BY <2>1, <2>3, <3>2
    <3>4. 1 .. (Len(items'[t]) - Swept(t)') = {}
      BY <3>3
    <3> QED BY <3>1, <3>4 DEF Waiting
  <2>6. Pending' = Pending
    <3>1. \A q \in Queue \ {t} : Waiting(q)' = Waiting(q)
      BY <2>3, <2>4 DEF Waiting
    <3> QED BY <2>5, <3>1 DEF Pending
  <2> QED BY <1>2, <2>6, AbstractStutter
<1> QED BY <1>3, <1>4

\* What the sweep has reached is the oldest request that waits.
LEMMA SweepAtHead ==
  ASSUME TypeOK, wl.pc \in {"sweep", "alive"}, wl.offset < Len(items[wl.queue]),
         NEW rest, rest = [i \in 1 .. Len(items[wl.queue]) - wl.offset - 1 |->
                             items[wl.queue][wl.offset + 1 + i].client]
  PROVE  /\ Pending[wl.queue] # <<>> /\ Tail(Pending[wl.queue]) = rest
         /\ Head(Pending[wl.queue]) = items[wl.queue][wl.offset + 1].client
<1>1. PICK t \in Queue, k \in Nat, n \in Nat :
        t = wl.queue /\ k = wl.offset /\ n = Len(items[t]) /\ k < n
  BY SweepTypes, ClientTypes
<1>2. Swept(t) = k
  BY <1>1 DEF Swept, Locked
<1>3. PICK m \in Nat : m = n - k /\ m # 0
  BY <1>1
<1>4. Waiting(t) \in [1 .. m -> Client] /\ Waiting(t) = [i \in 1 .. m |-> items[t][k + i].client]
  BY <1>1, <1>2, <1>3, WaitingIs DEF Waiting
<1>5. \A i \in 1 .. m - 1 : i + 1 \in 1 .. m /\ k + (i + 1) = k + 1 + i
  BY <1>3
<1>6. rest = [i \in 1 .. m - 1 |-> Waiting(t)[i + 1]]
  <2>1. \A i \in 1 .. m - 1 : Waiting(t)[i + 1] = items[t][k + 1 + i].client
    BY <1>4, <1>5
  <2>2. n - k - 1 = m - 1
    BY <1>3
  <2>3. rest = [i \in 1 .. n - k - 1 |-> items[t][k + 1 + i].client]
    BY <1>1
  <2> QED BY <2>1, <2>2, <2>3
<1>7. Waiting(t)[1] = items[t][k + 1].client
  BY <1>3, <1>4
<1>8. Pending[t] = Waiting(t)
  BY DEF Pending
<1>9. Pending[t] # <<>> /\ Head(Pending[t]) = Waiting(t)[1] /\ Tail(Pending[t]) = rest
  <2>1. PICK s \in [1 .. m -> Client] : s = Waiting(t)
    BY <1>4
  <2>2. rest \in [1 .. m - 1 -> Client] /\ \A i \in 1 .. m - 1 : rest[i] = s[i + 1]
    BY <1>5, <1>6, <2>1
  <2>3. s \in Seq(Client) /\ Len(s) = m /\ s # <<>>
    BY <1>3, FunctionIsSeq
  <2>4. /\ Tail(s) \in Seq(Client) /\ Len(Tail(s)) = m - 1
        /\ \A i \in 1 .. m - 1 : Tail(s)[i] = s[i + 1]
    BY <2>3, HeadTailProperties
  <2>5. rest \in Seq(Client) /\ Len(rest) = m - 1
    <3>1. PICK j \in Nat : j = m - 1
      BY <1>3
    <3>2. rest \in [1 .. j -> Client]
      BY <2>2, <3>1
    <3>3. rest \in Seq(Client) /\ Len(rest) = j
      BY <3>2, FunctionIsSeq
    <3> QED BY <3>1, <3>3
  <2>6. Tail(s) = rest
    BY <2>2, <2>4, <2>5, SeqEqual
  <2>7. Head(s) = s[1]
    BY <2>3
  <2> QED BY <1>8, <2>1, <2>3, <2>6, <2>7
<1> QED BY <1>1, <1>7, <1>9

\* A probe drops the oldest request, or finds it alive.
LEMMA ProbeRefines ==
  ASSUME TypeOK, ClientsInv, Probe
  PROVE  Abstract!Next \/ UNCHANGED Abstract!vars
<1>1. PICK t \in Queue, k \in Nat, n \in Nat, d \in Client :
        /\ t = wl.queue /\ k = wl.offset /\ n = Len(items[t]) /\ k < n
        /\ d = items[t][k + 1].client
  <2>1. Len(items[wl.queue]) \in Nat
    BY SweepTypes DEF Probe
  <2> QED BY <2>1, SweepTypes DEF Probe
<1>2. UNCHANGED <<items, job>> /\ ServedBy' = ServedBy
  BY ServedStays DEF Probe
<1>3. CASE ~Obsolete(d)
  <2>1. conn' = conn /\ wl'.queue = wl.queue /\ wl'.offset = wl.offset
    BY <1>1, <1>3, ProbeMeetsOpen DEF Probe, AfterProbe, TypeOK, ListenersTyped
  <2> QED BY <1>2, <2>1, AbstractStutter, PendingStays, FatesStay DEF Swept, Locked
<1>4. CASE Obsolete(d)
  <2>1. /\ conn' = [conn EXCEPT ![d] = "dropped"]
        /\ wl'.queue = t /\ wl'.offset = k + 1
    BY <1>1, <1>4, ProbeMeetsOpen DEF Probe, AfterProbe, TypeOK, ListenersTyped
  <2>2. Waiting(t)' = [i \in 1 .. n - k - 1 |-> items[t][k + 1 + i].client]
    <3>1. Swept(t)' = k + 1 /\ n - (k + 1) = n - k - 1
      BY <2>1 DEF Swept, Locked
    <3> QED BY <1>1, <1>2, <3>1 DEF Waiting
  <2>3. /\ Pending[t] # <<>> /\ Head(Pending[t]) = d
        /\ Tail(Pending[t]) = Waiting(t)'
    BY <1>1, <2>2, SweepAtHead DEF Probe
  <2>4. Pending' = [Pending EXCEPT ![t] = Tail(@)]
    <3>1. \A q \in Queue \ {t} : Swept(q)' = Swept(q)
      BY <1>1, <2>1 DEF Swept, Locked
    <3>2. \A q \in Queue \ {t} : Waiting(q)' = Waiting(q)
      BY <1>2, <3>1 DEF Waiting
    <3> QED BY <2>3, <3>2 DEF Pending
  <2>5. Fates' = [Fates EXCEPT ![d] = "dropped"]
    <3>1. \A c \in Client : conn'[c] = IF c = d THEN "dropped" ELSE conn[c]
      BY <2>1, ClientTypes, PeersDistinct
    <3> QED BY <3>1, ClientTypes, FateDecided
  <2> QED BY <1>2, <2>3, <2>4, <2>5, AbstractDrop
<1> QED BY <1>3, <1>4

\* A hand-out takes the oldest request.
LEMMA HandOutRefines ==
  ASSUME TypeOK, WorkersInv, HandOut
  PROVE  Abstract!Next
<1>1. wl.offset < Len(items[wl.queue])
  BY DEF HandOut, TypeOK, ListenersTyped
<1>2. PICK t \in Queue, k \in Nat, n \in Nat, d \in Client, v \in Worker :
        /\ t = wl.queue /\ k = wl.offset /\ n = Len(items[t]) /\ k < n
        /\ d = items[t][k + 1].client /\ v = wl.conn
  <2>1. Len(items[wl.queue]) \in Nat
    BY SweepTypes DEF HandOut
  <2> QED BY <1>1, <2>1, SweepTypes DEF HandOut
<1>3. /\ conn' = conn /\ wl' = IdleWorkers
      /\ items' = [items EXCEPT ![t] = Remaining(t, k)]
      /\ job' = [job EXCEPT ![v] = [IdleJob EXCEPT !.pc = "write", !.queue = t,
                   !.client = d, !.added = items[t][k + 1].added]]
  BY <1>2 DEF HandOut
<1>4. /\ Len(items'[t]) = n - (k + 1)
      /\ \A i \in 1 .. n - (k + 1) : items'[t][i] = items[t][k + 1 + i]
      /\ \A q \in Queue \ {t} : items'[q] = items[q]
  BY <1>2, <1>3, ClientTypes, RemainingIs DEF TypeOK
<1>5. \A q \in Queue : Swept(q)' = 0
  BY <1>3, NoneIsNone DEF Swept, Locked, IdleWorkers
<1>6. Waiting(t)' = [i \in 1 .. n - k - 1 |-> items[t][k + 1 + i].client]
  <2>1. n - (k + 1) - 0 = n - k - 1 /\ \A i \in 1 .. n - k - 1 : 0 + i = i /\ i \in 1 .. n - (k + 1)
    OBVIOUS
  <2>2. Waiting(t)' = [i \in 1 .. n - (k + 1) - 0 |-> items'[t][0 + i].client]
    BY <1>4, <1>5 DEF Waiting
  <2> QED BY <1>4, <2>1, <2>2
<1>7. Pending[t] # <<>> /\ Head(Pending[t]) = d /\ Tail(Pending[t]) = Waiting(t)'
  BY <1>1, <1>2, <1>6, SweepAtHead DEF HandOut
<1>8. Pending' = [Pending EXCEPT ![t] = Tail(@)]
  <2>1. \A q \in Queue \ {t} : Swept(q) = 0
    BY <1>2 DEF Swept, Locked
  <2>2. \A q \in Queue \ {t} : Waiting(q)' = Waiting(q)
    BY <1>4, <1>5, <2>1 DEF Waiting
  <2> QED BY <1>7, <2>2 DEF Pending
<1>9. ServedBy[v] = None /\ ServedBy' = [ServedBy EXCEPT ![v] = d]
  <2>1. job[v].pc = "idle"
    BY <1>2 DEF WorkersInv, WorkerOwned
  <2>2. job'[v].pc = "write" /\ job'[v].client = d
    BY <1>2, <1>3, ClientTypes DEF IdleJob
  <2>3. \A w \in Worker \ {v} : job'[w] = job[w]
    BY <1>2, <1>3, ClientTypes
  <2> QED BY <2>1, <2>2, <2>3 DEF ServedBy, Serving
<1>10. Fates' = Fates
  BY <1>3, FatesStay
<1> QED BY <1>7, <1>8, <1>9, <1>10, AbstractTake

\* A goroutine answers its client when it leaves processItem.
LEMMA ItemRefines ==
  ASSUME TypeOK, NEW v \in Worker, DoWrite(v) \/ DoRead(v) \/ DoStats(v)
  PROVE  Abstract!Next \/ UNCHANGED Abstract!vars
<1>1. UNCHANGED <<items, wl>> /\ \A w \in Worker \ {v} : job'[w] = job[w]
  BY ItemStep DEF DoWrite, DoRead, DoStats
<1>2. Pending' = Pending
  BY <1>1, PendingStays DEF Swept, Locked
<1>3. CASE conn' = conn /\ Serving(v) /\ job'[v].pc = "read"
  <2>1. job'[v].client = job[v].client
    BY <1>3, ItemClientKept
  <2>2. ServedBy' = ServedBy
    BY <1>1, <1>3, <2>1 DEF ServedBy, Serving
  <2> QED BY <1>2, <1>3, <2>2, AbstractStutter, FatesStay
<1>4. CASE job[v].pc = "stats" /\ job'[v].pc = "idle" /\ conn' = conn
  <2>1. ServedBy' = ServedBy
    BY <1>1, <1>4 DEF ServedBy, Serving
  <2> QED BY <1>2, <1>4, <2>1, AbstractStutter, FatesStay
<1>5. CASE /\ Serving(v) /\ job'[v].pc = "stats"
           /\ \E how \in {"done", "failed"} : conn' = Answered(v, how)
  <2>1. PICK d \in Client, how \in {"done", "failed"} :
          d = job[v].client /\ conn' = Answered(v, how)
    BY <1>5, ClientTypes DEF Serving
  <2>2. ServedBy[v] = d /\ ServedBy[v] # None /\ ServedBy' = [ServedBy EXCEPT ![v] = None]
    BY <1>1, <1>5, <2>1, NoneIsNone DEF ServedBy, Serving
  <2>3. Fates' = [Fates EXCEPT ![d] = "answered"]
    <3>1. \A c \in Client : conn'[c] = IF c = d THEN how ELSE conn[c]
      BY <2>1, ClientTypes, PeersDistinct DEF Answered
    <3>2. how \in {"refused", "dropped", "done", "failed"}
      OBVIOUS
    <3> QED BY <3>1, <3>2, ClientTypes, FateDecided
  <2> QED BY <1>2, <2>2, <2>3, AbstractAnswer
<1> QED BY <1>3, <1>4, <1>5, ItemStep

\* Every step of the frontend is one of the abstract queues, or unseen.
LEMMA StepRefines ==
  ASSUME TypeOK, WorkersInv, ClientsInv, [Next]_vars
  PROVE  [Abstract!Next]_(Abstract!vars)
<1>1. CASE UNCHANGED vars
  <2>1. UNCHANGED <<conn, items, wl, job>>
    BY <1>1 DEF vars
  <2> QED BY <2>1, AbstractStutter, PendingStays, ServedStays, FatesStay DEF Swept, Locked
<1>2. CASE Next
  BY <1>2, NextCases, OthersStutter, ListenerRefines, WorkerListenerStutters,
     ProbeRefines, HandOutRefines, ItemRefines
<1> QED BY <1>1, <1>2

\* At the start nothing waits, nothing is served and no fate is decided.
LEMMA InitRefines ==
  ASSUME Init
  PROVE  Abstract!Init
<1>1. Pending = [q \in Queue |-> <<>>]
  <2>1. \A q \in Queue : items[q] = <<>> /\ Swept(q) = 0
    BY NoneIsNone DEF Init, Swept, Locked, IdleWorkers
  <2>2. \A q \in Queue : Waiting(q) = <<>>
    BY <2>1 DEF Waiting
  <2> QED BY <2>2 DEF Pending
<1>2. ServedBy = [w \in Worker |-> None]
  BY DEF Init, ServedBy, Serving, IdleJob
<1>3. Fates = [c \in Client |-> "none"]
  BY PeersDistinct DEF Init, Fates, Outcome
<1> QED BY <1>1, <1>2, <1>3 DEF Abstract!Init, Pending, Waiting, ServedBy, Fates

-----------------------------------------------------------------------------
(* The theorem. *)

\* Behind its connections, mutexes and sweeps the frontend is a set of bounded
\* first-in first-out queues whose requests each end once, in one way.
THEOREM FrontendRefines == Spec => ImplementsWorkQueue
<1>1. Init => WorkersInv
  BY PeersDistinct DEF Init, WorkersInv, WorkerOwned, Serving, IdleWorkers, IdleJob
<1>2. TypeOK /\ WorkersInv /\ [Next]_vars => WorkersInv'
  BY WorkersNext
<1>3. Init => ClientsInv
  BY ClientsInit
<1>4. TypeOK /\ WorkersInv /\ ClientsInv /\ [Next]_vars => ClientsInv'
  BY ClientsNext
<1>5. Init => Abstract!Init
  BY InitRefines
<1>6. TypeOK /\ WorkersInv /\ ClientsInv /\ [Next]_vars => [Abstract!Next]_(Abstract!vars)
  BY StepRefines
<1> QED
  BY <1>1, <1>2, <1>3, <1>4, <1>5, <1>6, TypeCorrect, PTL
     DEF Spec, ImplementsWorkQueue, Abstract!Spec

-----------------------------------------------------------------------------
(* What the abstract queues promise, the frontend keeps. *)

Queues == INSTANCE WorkQueueProofs WITH
  pending <- Pending, serving <- ServedBy, fate <- Fates

\* They are those of the refinement.
LEMMA SameQueues ==
  /\ Abstract!Init <=> Queues!Init
  /\ [Abstract!Next]_(Abstract!vars) <=> [Queues!Next]_(Queues!vars)
<1>1. Abstract!Init <=> Queues!Init
  BY DEF Abstract!Init, Queues!Init, Pending, Waiting, ServedBy, Fates
<1>2. Abstract!vars = Queues!vars /\ Abstract!vars' = Queues!vars'
  BY DEF Abstract!vars, Queues!vars, Pending, Waiting, ServedBy, Fates
<1>3. Abstract!Next <=> Queues!Next
  BY DEF Abstract!Next, Queues!Next, Abstract!Refuse, Queues!Refuse, Abstract!Submit, Queues!Submit,
         Abstract!Drop, Queues!Drop, Abstract!Take, Queues!Take, Abstract!Answer, Queues!Answer,
         Abstract!IsPending, Queues!IsPending, Abstract!IsServed, Queues!IsServed,
         Pending, Waiting, ServedBy, Fates
<1> QED BY <1>1, <1>2, <1>3

\* The frontend behaves as the queues of the theorems.
LEMMA FrontendIsQueues ==
  Spec => Queues!Spec
<1>1. Abstract!Spec => Queues!Spec
  BY SameQueues, PTL DEF Abstract!Spec, Queues!Spec
<1>2. Spec => Abstract!Spec
  BY FrontendRefines DEF ImplementsWorkQueue
<1> QED BY <1>1, <1>2, PTL

LEMMA QueueConstants ==
  None \notin Client /\ QMax \in Nat
BY ConstantsAssumption DEF ConstantsAssumption, Peer

\* A client's request, as the frontend holds it, waits at one place of the queue that
\* it names, or is with one worker, or is nowhere: it is in two places never, in none
\* once its fate is decided, and no queue is longer than the limit.
THEOREM FrontendKeepsPromise == Spec => []Queues!Promise
<1>1. Queues!Spec => []Queues!Promise
  BY QueueConstants, Queues!PromiseIsKept
<1> QED BY <1>1, FrontendIsQueues, PTL

\* The frontend takes nothing back and lets no request overtake another: a fate
\* stays, a worker's request stays with it until it is answered, and a request that
\* waits moves forward only, or is dropped or taken when it is the first.
THEOREM FrontendUndoesNothing == Spec => [][Queues!Forward]_(Queues!vars)
<1>1. Queues!Spec => [][Queues!Forward]_(Queues!vars)
  BY QueueConstants, Queues!NothingIsUndone
<1> QED BY <1>1, FrontendIsQueues, PTL

=============================================================================
