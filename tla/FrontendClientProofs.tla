------------------------ MODULE FrontendClientProofs ------------------------
(***************************************************************************)
(* Who owns the clients' connections, and what follows from it: a closed   *)
(* connection stays as it is, the sweep never meets one that would end the *)
(* process, and the statistics are what the clients experienced.           *)
(***************************************************************************)
EXTENDS FrontendProofs

\* A listener that has released the mutex is idle.
USE DEF Unlocked

\* The goroutine of worker w is to reply to client c.
Serves(w, c) == Serving(w) /\ job[w].client = c

InQueue(c)  == \E q \in Queue : \E i \in Nat : QueuedAt(q, i, c)
OnWorker(c) == \E w \in Worker : Serves(w, c)

\* Client c is held in one way at most.
HeldOnce(c) ==
  /\ cl.conn = c => ~InQueue(c) /\ ~OnWorker(c)
  /\ InQueue(c) => ~OnWorker(c)
  /\ \A v, w \in Worker : Serves(v, c) /\ Serves(w, c) => v = w
  /\ \A p, q \in Queue : \A i, j \in Nat :
       QueuedAt(p, i, c) /\ QueuedAt(q, j, c) => p = q /\ i = j

\* What holds of client c's connection between any two steps.
ClientOwned(c) ==
  /\ conn[c] = "open" <=> (cl.conn = c \/ InQueue(c) \/ OnWorker(c))
  /\ HeldOnce(c)
  /\ peer[c] = "new" => conn[c] = "none"

ClientsInv == \A c \in Client : ClientOwned(c)

\* What the steps below need to know of the types.
LEMMA ClientTypes ==
  ASSUME TypeOK
  PROVE  /\ conn \in [Peer -> ConnState] /\ peer \in [Peer -> {"new", "open", "gone"}]
         /\ job \in [Worker -> Job] /\ items \in [Queue -> Seq(Item)]
         /\ cl.pc # "accept" <=> cl.conn \in Client
         /\ \A w \in Worker : job[w].pc # "idle" => job[w].client \in Client
  BY DEF TypeOK, ConnectionsTyped, JobsTyped, QueuesTyped, ListenersTyped

\* A step that does not concern client c keeps what holds of it.
LEMMA ClientStays ==
  ASSUME NEW c \in Client, ClientOwned(c), conn'[c] = conn[c],
         cl'.conn = c <=> cl.conn = c,
         \A q \in Queue : \A i \in Nat : QueuedAt(q, i, c)' <=> QueuedAt(q, i, c),
         \A w \in Worker : Serves(w, c)' <=> Serves(w, c),
         peer'[c] = "new" => peer[c] = "new"
  PROVE  ClientOwned(c)'
<1>1. InQueue(c)' <=> InQueue(c)
  BY DEF InQueue
<1>2. OnWorker(c)' <=> OnWorker(c)
  BY DEF OnWorker
<1>3. HeldOnce(c)'
  <2>1. HeldOnce(c)
    BY DEF ClientOwned
  <2> QED BY <1>1, <1>2, <2>1 DEF HeldOnce
<1> QED BY <1>1, <1>2, <1>3 DEF ClientOwned

\* A client that nothing holds any more is closed.
LEMMA ClientReleased ==
  ASSUME NEW c \in Client, conn'[c] \in Closed, cl'.conn # c,
         \A q \in Queue : \A i \in Nat : ~QueuedAt(q, i, c)',
         \A w \in Worker : ~Serves(w, c)', peer'[c] # "new"
  PROVE  ClientOwned(c)'
<1>1. ~InQueue(c)' /\ ~OnWorker(c)'
  BY DEF InQueue, OnWorker
<1>2. conn'[c] # "open"
  BY DEF Closed
<1>3. HeldOnce(c)'
  BY <1>1 DEF HeldOnce, OnWorker, InQueue
<1> QED BY <1>1, <1>2, <1>3 DEF ClientOwned

\* Who holds an open connection, told from who does not hold it.
LEMMA ClientHolder ==
  ASSUME NEW c \in Client, ClientOwned(c)
  PROVE  /\ cl.conn = c =>
              /\ conn[c] = "open"
              /\ \A q \in Queue : \A i \in Nat : ~QueuedAt(q, i, c)
              /\ \A w \in Worker : ~Serves(w, c)
         /\ \A q \in Queue : \A i \in Nat : QueuedAt(q, i, c) =>
              /\ conn[c] = "open" /\ cl.conn # c
              /\ \A w \in Worker : ~Serves(w, c)
              /\ \A p \in Queue : \A j \in Nat : QueuedAt(p, j, c) => p = q /\ j = i
         /\ \A w \in Worker : Serves(w, c) =>
              /\ conn[c] = "open" /\ cl.conn # c
              /\ \A q \in Queue : \A i \in Nat : ~QueuedAt(q, i, c)
              /\ \A v \in Worker : Serves(v, c) => v = w
         /\ conn[c] = "open" => peer[c] # "new"
         /\ conn[c] # "open" =>
              /\ cl.conn # c
              /\ \A q \in Queue : \A i \in Nat : ~QueuedAt(q, i, c)
              /\ \A w \in Worker : ~Serves(w, c)
  BY DEF ClientOwned, HeldOnce, InQueue, OnWorker

\* As long as neither the queues nor the sweep move, nobody moves in them.
LEMMA QueuesStay ==
  ASSUME UNCHANGED items,
         UNCHANGED <<wl.queue, wl.offset>> \/ \A q \in Queue : Swept(q)' = Swept(q)
  PROVE  \A c \in Client : \A q \in Queue : \A i \in Nat :
           QueuedAt(q, i, c)' <=> QueuedAt(q, i, c)
  BY DEF QueuedAt, Swept, Locked

\* As long as no goroutine moves, none gains or loses a client.
LEMMA GoroutinesStay ==
  ASSUME UNCHANGED job
  PROVE  \A c \in Client : \A w \in Worker : Serves(w, c)' <=> Serves(w, c)
  BY DEF Serves, Serving

-----------------------------------------------------------------------------
(* The steps. *)

\* The steps of peers and reporters.
LEMMA OthersKeepClients ==
  ASSUME TypeOK, ClientsInv, NEW c \in Client,
         \/ \E x \in Peer : Dial(x) \/ Send(x) \/ Hangup(x)
         \/ \E w \in Worker : Reply(w)
         \/ \E s \in Scraper : ScrapeStart(s) \/ \E q \in Queue : ScrapeQueue(s, q)
         \/ LogStart \/ \E q \in Queue : LogQueue(q)
  PROVE  ClientOwned(c)'
<1>1. ClientOwned(c)
  BY DEF ClientsInv
<1>2. c \in Peer /\ c \notin Worker
  BY PeersDistinct
<1>3. ASSUME UNCHANGED <<cl, wl, items, job>>, conn'[c] = conn[c],
             peer'[c] = "new" => peer[c] = "new"
      PROVE  ClientOwned(c)'
  BY <1>1, <1>3, ClientStays, QueuesStay, GoroutinesStay
<1>4. ASSUME NEW x \in Peer, Dial(x)
      PROVE  ClientOwned(c)'
  <2>1. /\ UNCHANGED <<cl, wl, items, job>> /\ Unused(x)
        /\ conn' = [conn EXCEPT ![x] = "none"] /\ peer' = [peer EXCEPT ![x] = "open"]
    BY <1>4 DEF Dial
  <2>2. x = c => conn[c] = "none"
    BY <1>1, <1>2, <2>1 DEF Unused, ClientOwned
  <2>3. conn'[c] = conn[c] /\ (peer'[c] = "new" => peer[c] = "new")
    BY <1>2, <2>1, <2>2, ClientTypes
  <2> QED BY <1>3, <2>1, <2>3
<1>5. ASSUME NEW x \in Peer, Hangup(x)
      PROVE  ClientOwned(c)'
  <2>1. UNCHANGED <<cl, wl, items, job, conn>> /\ peer' = [peer EXCEPT ![x] = "gone"]
    BY <1>5 DEF Hangup
  <2>2. peer'[c] = "new" => peer[c] = "new"
    BY <1>2, <2>1, ClientTypes
  <2> QED BY <1>3, <2>1, <2>2
<1>6. ASSUME UNCHANGED <<cl, wl, items, job, conn, peer>>
      PROVE  ClientOwned(c)'
  BY <1>3, <1>6
<1>7. ASSUME NEW x \in Peer, Send(x)
      PROVE  ClientOwned(c)'
  BY <1>6, <1>7 DEF Send
<1>8. ASSUME NEW w \in Worker, Reply(w)
      PROVE  ClientOwned(c)'
  BY <1>6, <1>8 DEF Reply
<1>9. ASSUME NEW s \in Scraper, ScrapeStart(s) \/ \E q \in Queue : ScrapeQueue(s, q)
      PROVE  ClientOwned(c)'
  BY <1>6, <1>9 DEF ScrapeStart, ScrapeQueue, net
<1>10. CASE LogStart \/ \E q \in Queue : LogQueue(q)
  BY <1>6, <1>10 DEF LogStart, LogQueue, net
<1> QED BY <1>4, <1>5, <1>7, <1>8, <1>9, <1>10

\* The client listener takes a connection, and gives it to a queue or closes it.
LEMMA ListenerKeepsClients ==
  ASSUME TypeOK, ClientsInv, NEW c \in Client,
         (\E d \in Client : AcceptClient(d)) \/ ReadClient \/ EnqueueClient
  PROVE  ClientOwned(c)'
<1>1. ClientOwned(c) /\ c \in Peer
  BY PeersDistinct DEF ClientsInv
<1>2. ASSUME NEW d \in Client, AcceptClient(d)
      PROVE  ClientOwned(c)'
  <2>1. /\ UNCHANGED <<peer, wl, items, job>> /\ cl.conn # c /\ cl'.conn = d
        /\ peer[d] # "new" /\ conn[d] = "none" /\ conn' = [conn EXCEPT ![d] = "open"]
    BY <1>2, ClientTypes DEF AcceptClient, net
  <2>2. CASE c = d
    <3>1. conn'[c] = "open" /\ cl'.conn = c /\ peer'[c] # "new" /\ conn[c] # "open"
      BY <1>1, <2>1, <2>2, ClientTypes
    <3>2. \A q \in Queue : \A i \in Nat : ~QueuedAt(q, i, c)'
      BY <1>1, <2>1, <3>1, ClientHolder, QueuesStay
    <3>3. \A w \in Worker : ~Serves(w, c)'
      BY <1>1, <2>1, <3>1, ClientHolder, GoroutinesStay
    <3> QED BY <3>1, <3>2, <3>3 DEF ClientOwned, HeldOnce, InQueue, OnWorker
  <2>3. CASE c # d
    <3>1. conn'[c] = conn[c] /\ cl'.conn # c
      BY <1>1, <2>1, <2>3, ClientTypes
    <3> QED BY <1>1, <2>1, <3>1, ClientStays, QueuesStay, GoroutinesStay
  <2> QED BY <2>2, <2>3
<1>3. ASSUME UNCHANGED <<peer, wl, items, job>>, cl.conn \in Client, cl' = IdleClients,
             conn' = [conn EXCEPT ![cl.conn] = "refused"]
      PROVE  ClientOwned(c)'
  <2>1. cl'.conn # c
    BY <1>3, PeersDistinct, NoneIsNone DEF IdleClients
  <2>2. CASE cl.conn = c
    <3>1. conn'[c] \in Closed /\ peer'[c] # "new"
      BY <1>1, <1>3, <2>2, ClientTypes, ClientHolder DEF Closed
    <3> QED BY <1>1, <1>3, <2>1, <2>2, <3>1, ClientHolder, QueuesStay, GoroutinesStay, ClientReleased
  <2>3. CASE cl.conn # c
    <3>1. conn'[c] = conn[c]
      BY <1>1, <1>3, <2>3, ClientTypes
    <3> QED BY <1>1, <1>3, <2>1, <2>3, <3>1, ClientStays, QueuesStay, GoroutinesStay
  <2> QED BY <2>2, <2>3
<1>4. CASE ReadClient
  <2>1. cl.conn \in Client /\ UNCHANGED <<peer, wl, items, job>>
    BY <1>4, ClientTypes DEF ReadClient
  <2>2. CASE Valid(cl.conn)
    <3>1. conn' = conn /\ cl'.conn = cl.conn
      BY <1>4, <2>2 DEF ReadClient, TypeOK, ListenersTyped
    <3> QED BY <1>1, <2>1, <3>1, ClientStays, QueuesStay, GoroutinesStay
  <2>3. CASE ~Valid(cl.conn)
    BY <1>3, <1>4, <2>1, <2>3 DEF ReadClient
  <2> QED BY <2>2, <2>3
<1>5. CASE EnqueueClient
  <2>0. cl.conn \in Client /\ Target[cl.conn] \in Queue
    BY <1>5 DEF EnqueueClient, TypeOK, ListenersTyped
  <2>1. PICK d \in Client, t \in Queue :
          /\ d = cl.conn /\ t = Target[d] /\ ~Locked(t) /\ cl' = IdleClients
          /\ UNCHANGED <<peer, wl, job>>
    BY <1>5, <2>0 DEF EnqueueClient, net
  <2>2. CASE AtCapacity(t)
    BY <1>3, <1>5, <2>1, <2>2 DEF EnqueueClient
  <2>3. CASE ~AtCapacity(t)
    <3>0. PICK n \in Nat : n = Len(items[t])
      BY ClientTypes
    <3> DEFINE item == [client |-> d, added |-> accepted[t]]
    <3>1. conn' = conn /\ items' = [items EXCEPT ![t] = Append(items[t], item)]
      BY <1>5, <2>1, <2>3 DEF EnqueueClient, Queued
    <3>2. /\ items[t] \in Seq(Item) /\ n \in Nat
          /\ \A p \in Queue \ {t} : items'[p] = items[p]
          /\ items'[t] = Append(items[t], item)
      BY <2>1, <3>0, <3>1, ClientTypes
    <3>3. item \in Item
      BY <2>1 DEF Item, TypeOK, QueuesTyped
    <3>4. Len(items'[t]) = n + 1 /\ items'[t][n + 1] = item
          /\ \A i \in 1 .. n : items'[t][i] = items[t][i]
      BY <3>0, <3>2, <3>3
    <3>5. /\ \A q \in Queue : Swept(q)' = Swept(q)
          /\ Swept(t) = 0
      BY <2>1 DEF Swept, Locked
    <3>6. \A p \in Queue \ {t} : \A i \in Nat : QueuedAt(p, i, c)' <=> QueuedAt(p, i, c)
      BY <3>2, <3>5 DEF QueuedAt
    <3>7. \A i \in Nat : QueuedAt(t, i, c)' <=> QueuedAt(t, i, c) \/ (i = n + 1 /\ c = d)
      <4> SUFFICES ASSUME NEW i \in Nat
                   PROVE  QueuedAt(t, i, c)' <=> QueuedAt(t, i, c) \/ (i = n + 1 /\ c = d)
        OBVIOUS
      <4>1. QueuedAt(t, i, c)' <=> i \in 1 .. n + 1 /\ items'[t][i].client = c
        BY <2>1, <3>4, <3>5 DEF QueuedAt
      <4>2. QueuedAt(t, i, c) <=> i \in 1 .. n /\ items[t][i].client = c
        BY <3>0, <3>5 DEF QueuedAt
      <4>3. i \in 1 .. n + 1 <=> i \in 1 .. n \/ i = n + 1
        BY <3>2
      <4>4. i \in 1 .. n => i # n + 1
        BY <3>2
      <4>5. item.client = d
        OBVIOUS
      <4> QED BY <3>4, <4>1, <4>2, <4>3, <4>4, <4>5
    <3>8. cl'.conn # c
      BY <2>1, NoneIsNone DEF IdleClients
    <3>9. CASE c = d
      <4>1. /\ conn'[c] = "open" /\ peer'[c] # "new"
            /\ \A q \in Queue : \A i \in Nat : ~QueuedAt(q, i, c)
            /\ \A w \in Worker : ~Serves(w, c)'
        BY <1>1, <2>1, <3>1, <3>9, ClientHolder, GoroutinesStay
      <4>2. \A q \in Queue : \A i \in Nat : QueuedAt(q, i, c)' <=> q = t /\ i = n + 1
        <5>1. ASSUME NEW q \in Queue \ {t}, NEW i \in Nat
              PROVE  ~QueuedAt(q, i, c)'
          BY <3>6, <4>1, <5>1
        <5>2. ASSUME NEW i \in Nat
              PROVE  QueuedAt(t, i, c)' <=> i = n + 1
          BY <2>1, <3>7, <3>9, <4>1, <5>2
        <5> QED BY <5>1, <5>2
      <4>3. InQueue(c)' /\ ~OnWorker(c)'
        <5>1. n + 1 \in Nat
          BY <3>2
        <5>2. QueuedAt(t, n + 1, c)'
          BY <2>1, <4>2, <5>1
        <5> QED BY <2>1, <4>1, <5>1, <5>2 DEF InQueue, OnWorker
      <4>4. HeldOnce(c)'
        BY <3>8, <4>1, <4>2, <4>3 DEF HeldOnce
      <4> QED BY <4>1, <4>3, <4>4 DEF ClientOwned
    <3>10. CASE c # d
      <4>1. \A q \in Queue : \A i \in Nat : QueuedAt(q, i, c)' <=> QueuedAt(q, i, c)
        <5>1. ASSUME NEW q \in Queue \ {t}, NEW i \in Nat
              PROVE  QueuedAt(q, i, c)' <=> QueuedAt(q, i, c)
          BY <3>6, <5>1
        <5>2. ASSUME NEW i \in Nat
              PROVE  QueuedAt(t, i, c)' <=> QueuedAt(t, i, c)
          BY <3>7, <3>10, <5>2
        <5> QED BY <5>1, <5>2
      <4> QED BY <1>1, <2>1, <3>1, <3>8, <3>10, <4>1, ClientStays, GoroutinesStay
    <3> QED BY <3>9, <3>10
  <2> QED BY <2>2, <2>3
<1> QED BY <1>2, <1>4, <1>5

\* What the worker listener works on.
LEMMA SweepTypes ==
  ASSUME TypeOK, wl.pc \in {"sweep", "alive"}
  PROVE  /\ wl.conn \in Worker /\ wl.queue \in Queue /\ wl.offset \in Nat
         /\ items[wl.queue] \in Seq(Item)
         /\ wl.offset < Len(items[wl.queue]) =>
              /\ items[wl.queue][wl.offset + 1].client \in Client
              /\ QueuedAt(wl.queue, wl.offset + 1, items[wl.queue][wl.offset + 1].client)
<1>1. /\ wl.conn \in Worker /\ wl.queue \in Queue /\ wl.offset \in Nat
      /\ items[wl.queue] \in Seq(Item)
  BY DEF TypeOK, ListenersTyped, QueuesTyped
<1>2. ASSUME wl.offset < Len(items[wl.queue])
      PROVE  wl.offset + 1 \in 1 .. Len(items[wl.queue])
  BY <1>1, <1>2
<1>3. ASSUME wl.offset < Len(items[wl.queue])
      PROVE  items[wl.queue][wl.offset + 1].client \in Client
  <2>1. items[wl.queue][wl.offset + 1] \in Item
    BY <1>1, <1>2, <1>3
  <2> QED BY <2>1 DEF Item
<1>4. ASSUME wl.offset < Len(items[wl.queue])
      PROVE  QueuedAt(wl.queue, wl.offset + 1, items[wl.queue][wl.offset + 1].client)
  BY <1>1, <1>2, <1>4 DEF QueuedAt, Swept, Locked
<1> QED BY <1>1, <1>3, <1>4

\* The sweep meets open connections only, so that it does not end the process.
LEMMA ProbeMeetsOpen ==
  ASSUME TypeOK, ClientsInv, Probe
  PROVE  conn[items[wl.queue][wl.offset + 1].client] = "open" /\ fatal' = fatal
<1>1. conn[items[wl.queue][wl.offset + 1].client] = "open"
  BY SweepTypes, ClientHolder DEF Probe, ClientsInv
<1> QED BY <1>1 DEF Probe

\* The probe closes the client it passes, which nothing else holds.
LEMMA ProbeKeepsClients ==
  ASSUME TypeOK, ClientsInv, NEW c \in Client, Probe
  PROVE  ClientOwned(c)'
<1>1. ClientOwned(c) /\ c \in Peer
  BY PeersDistinct DEF ClientsInv
<1>2. PICK t \in Queue, k \in Nat, d \in Client :
        /\ t = wl.queue /\ k = wl.offset /\ d = items[t][k + 1].client
        /\ QueuedAt(t, k + 1, d) /\ k < Len(items[t]) /\ items[t] \in Seq(Item)
  BY SweepTypes DEF Probe
<1>3. UNCHANGED <<peer, cl, items, job>>
  BY DEF Probe, net
<1>4. CASE ~Obsolete(d)
  <2>1. conn' = conn /\ wl'.queue = wl.queue /\ wl'.offset = wl.offset
    BY <1>2, <1>4, ProbeMeetsOpen DEF Probe, AfterProbe, TypeOK, ListenersTyped
  <2> QED BY <1>1, <1>3, <2>1, ClientStays, QueuesStay, GoroutinesStay
<1>5. CASE Obsolete(d)
  <2>1. /\ conn' = [conn EXCEPT ![d] = "dropped"]
        /\ wl'.queue = t /\ wl'.offset = k + 1
    BY <1>2, <1>5, ProbeMeetsOpen DEF Probe, AfterProbe, TypeOK, ListenersTyped
  <2>2. ASSUME NEW q \in Queue, NEW i \in Nat
        PROVE  QueuedAt(q, i, c)' <=> QueuedAt(q, i, c) /\ ~(q = t /\ i = k + 1)
    <3>1. CASE q = t
      <4>1. QueuedAt(q, i, c)' <=> i \in k + 2 .. Len(items[t]) /\ items[t][i].client = c
        BY <1>3, <2>1, <3>1 DEF QueuedAt, Swept, Locked
      <4>2. QueuedAt(q, i, c) <=> i \in k + 1 .. Len(items[t]) /\ items[t][i].client = c
        BY <1>2, <3>1 DEF QueuedAt, Swept, Locked
      <4>3. i \in k + 2 .. Len(items[t]) <=> i \in k + 1 .. Len(items[t]) /\ i # k + 1
        BY <1>2
      <4> QED BY <3>1, <4>1, <4>2, <4>3
    <3>2. CASE q # t
      BY <1>2, <1>3, <2>1, <3>2 DEF QueuedAt, Swept, Locked
    <3> QED BY <3>1, <3>2
  <2>3. CASE c = d
    <3>1. conn'[c] \in Closed
      BY <1>1, <2>1, <2>3, ClientTypes DEF Closed
    <3>2. QueuedAt(t, k + 1, c) /\ k + 1 \in Nat
      BY <1>2, <2>3
    <3>3. /\ conn[c] = "open" /\ cl.conn # c /\ \A w \in Worker : ~Serves(w, c)
          /\ \A q \in Queue : \A i \in Nat : QueuedAt(q, i, c) => q = t /\ i = k + 1
      BY <1>1, <3>2, ClientHolder
    <3>4. \A q \in Queue : \A i \in Nat : ~QueuedAt(q, i, c)'
      BY <2>2, <3>3
    <3>5. cl'.conn # c /\ peer'[c] # "new" /\ \A w \in Worker : ~Serves(w, c)'
      BY <1>1, <1>3, <3>3, ClientHolder, GoroutinesStay
    <3> QED BY <3>1, <3>4, <3>5, ClientReleased
  <2>4. CASE c # d
    <3>1. conn'[c] = conn[c]
      BY <1>1, <2>1, <2>4, ClientTypes
    <3>2. ~QueuedAt(t, k + 1, c)
      BY <1>2, <2>4 DEF QueuedAt
    <3>3. \A q \in Queue : \A i \in Nat : QueuedAt(q, i, c)' <=> QueuedAt(q, i, c)
      BY <2>2, <3>2
    <3> QED BY <1>1, <1>3, <3>1, <3>3, ClientStays, GoroutinesStay
  <2> QED BY <2>3, <2>4
<1> QED BY <1>4, <1>5

\* The worker listener takes and releases connections of workers.
LEMMA WorkerListenerKeepsClients ==
  ASSUME TypeOK, ClientsInv, NEW c \in Client,
         (\E w \in Worker : AcceptWorker(w)) \/ ReadWorker \/ QueueEmpty
  PROVE  ClientOwned(c)'
<1>1. ClientOwned(c) /\ c \in Peer /\ c \notin Worker
  BY PeersDistinct DEF ClientsInv
<1>2. ASSUME NEW w \in Worker, NEW how, conn' = [conn EXCEPT ![w] = how]
      PROVE  conn'[c] = conn[c]
  BY <1>1, <1>2, ClientTypes
<1>3. ASSUME NEW w \in Worker, AcceptWorker(w)
      PROVE  ClientOwned(c)'
  <2>1. /\ UNCHANGED <<peer, cl, items, job>> /\ conn' = [conn EXCEPT ![w] = "open"]
        /\ wl'.queue = wl.queue /\ wl'.offset = wl.offset
    BY <1>3 DEF AcceptWorker, net, TypeOK, ListenersTyped
  <2> QED BY <1>1, <1>2, <2>1, ClientStays, QueuesStay, GoroutinesStay
<1>4. CASE ReadWorker
  <2>1. /\ UNCHANGED <<peer, cl, items, job>> /\ wl.conn \in Worker
        /\ conn' = conn \/ conn' = [conn EXCEPT ![wl.conn] = "refused"]
    BY <1>4 DEF ReadWorker, TypeOK, ListenersTyped
  <2>2. conn'[c] = conn[c]
    BY <1>2, <2>1
  <2>3. \A q \in Queue : Swept(q)' = 0 /\ Swept(q) = 0
    <3>1. wl.offset = 0 /\ (wl'.offset = wl.offset \/ wl' = IdleWorkers)
      BY <1>4 DEF ReadWorker, TypeOK, ListenersTyped
    <3> QED BY <3>1 DEF Swept, IdleWorkers
  <2> QED BY <1>1, <2>1, <2>2, <2>3, ClientStays, QueuesStay, GoroutinesStay
<1>5. CASE QueueEmpty
  <2>1. PICK t \in Queue :
          /\ t = wl.queue /\ wl.offset \in Nat /\ wl.offset >= Len(items[t])
          /\ items[t] \in Seq(Item) /\ wl.conn \in Worker
    BY <1>5, SweepTypes DEF QueueEmpty
  <2>2. /\ UNCHANGED <<peer, cl, job>> /\ items' = [items EXCEPT ![t] = <<>>]
        /\ conn' = [conn EXCEPT ![wl.conn] = "empty"] /\ wl' = IdleWorkers
    BY <1>5, <2>1 DEF QueueEmpty, net
  <2>3. ASSUME NEW q \in Queue, NEW i \in Nat
        PROVE  QueuedAt(q, i, c)' <=> QueuedAt(q, i, c)
    <3>1. wl'.queue # q
      BY <2>2, NoneIsNone DEF IdleWorkers
    <3>2. CASE q = t
      <4>1. ~QueuedAt(q, i, c)
        BY <2>1, <3>2 DEF QueuedAt, Swept, Locked
      <4>2. items'[q] = <<>>
        BY <2>2, <3>2, ClientTypes
      <4>3. ~QueuedAt(q, i, c)'
        BY <3>1, <4>2 DEF QueuedAt, Swept, Locked
      <4> QED BY <4>1, <4>3
    <3>3. CASE q # t
      <4>1. items'[q] = items[q]
        BY <2>2, <3>3, ClientTypes
      <4> QED BY <2>1, <3>1, <3>3, <4>1 DEF QueuedAt, Swept, Locked
    <3> QED BY <3>2, <3>3
  <2>4. conn'[c] = conn[c]
    BY <1>2, <2>1, <2>2
  <2> QED BY <1>1, <2>2, <2>3, <2>4, ClientStays, GoroutinesStay
<1> QED BY <1>3, <1>4, <1>5

\* A hand-out moves one client from its place in the queue to a goroutine, and
\* the others forward in the queue.
LEMMA HandOutKeepsClients ==
  ASSUME TypeOK, WorkersInv, ClientsInv, NEW c \in Client, HandOut
  PROVE  ClientOwned(c)'
<1>1. ClientOwned(c) /\ c \in Peer
  BY PeersDistinct DEF ClientsInv
<1>2. wl.offset < Len(items[wl.queue])
  BY DEF HandOut, TypeOK, ListenersTyped
<1>3. PICK t \in Queue, k \in Nat, d \in Client, v \in Worker :
        /\ t = wl.queue /\ k = wl.offset /\ d = items[t][k + 1].client /\ v = wl.conn
        /\ QueuedAt(t, k + 1, d) /\ k < Len(items[t]) /\ items[t] \in Seq(Item)
  BY <1>2, SweepTypes DEF HandOut
<1>4. /\ UNCHANGED <<peer, conn, cl>> /\ wl' = IdleWorkers
      /\ items' = [items EXCEPT ![t] = Remaining(t, k)]
      /\ job' = [job EXCEPT ![v] = [IdleJob EXCEPT !.pc = "write", !.queue = t,
                   !.client = d, !.added = items[t][k + 1].added]]
  BY <1>3 DEF HandOut, net
<1>5. PICK n \in Nat : n = Len(items[t])
  BY <1>3
<1>6. /\ Len(items'[t]) = n - (k + 1)
      /\ \A i \in 1 .. n - (k + 1) : items'[t][i] = items[t][k + 1 + i]
      /\ \A q \in Queue \ {t} : items'[q] = items[q]
  <2>1. items'[t] = Remaining(t, k) /\ \A q \in Queue \ {t} : items'[q] = items[q]
    BY <1>4, ClientTypes
  <2>2. QueuesTyped
    BY DEF TypeOK
  <2>3. /\ Len(Remaining(t, k)) = n - (k + 1)
        /\ \A i \in 1 .. Len(Remaining(t, k)) : Remaining(t, k)[i] = items[t][k + 1 + i]
    BY <1>3, <1>5, <2>2, RemainingIs
  <2> QED BY <2>1, <2>3
<1>7. \A q \in Queue : wl'.queue # q
  BY <1>4, NoneIsNone DEF IdleWorkers
<1>8. ASSUME NEW i \in Nat
      PROVE  QueuedAt(t, i, c)' <=> i # 0 /\ QueuedAt(t, k + 1 + i, c)
  <2>1. QueuedAt(t, i, c)' <=> i \in 1 .. n - (k + 1) /\ items'[t][i].client = c
    BY <1>6, <1>7 DEF QueuedAt, Swept, Locked
  <2>2. QueuedAt(t, k + 1 + i, c) <=> k + 1 + i \in k + 1 .. n /\ items[t][k + 1 + i].client = c
    BY <1>3, <1>5 DEF QueuedAt, Swept, Locked
  <2>3. i # 0 /\ k + 1 + i \in k + 1 .. n <=> i \in 1 .. n - (k + 1)
    BY <1>3, <1>5
  <2> QED BY <1>6, <2>1, <2>2, <2>3
<1>9. ASSUME NEW q \in Queue \ {t}, NEW i \in Nat
      PROVE  QueuedAt(q, i, c)' <=> QueuedAt(q, i, c)
  BY <1>3, <1>6, <1>7, <1>9 DEF QueuedAt, Swept, Locked
<1>10. /\ ~Serves(v, c)
       /\ Serves(v, c)' <=> c = d
       /\ \A w \in Worker \ {v} : Serves(w, c)' <=> Serves(w, c)
  <2>1. job[v].pc = "idle"
    BY <1>3 DEF WorkersInv, WorkerOwned
  <2>2. job'[v].pc = "write" /\ job'[v].client = d /\ \A w \in Worker \ {v} : job'[w] = job[w]
    BY <1>4, ClientTypes DEF IdleJob
  <2> QED BY <2>1, <2>2 DEF Serves, Serving
<1>11. ASSUME NEW i \in Nat, QueuedAt(t, i, c)
       PROVE  i = k + 1 \/ \E j \in Nat : j # 0 /\ i = k + 1 + j
  <2>1. i >= k + 1
    BY <1>3, <1>11 DEF QueuedAt, Swept, Locked
  <2>2. i = k + 1 \/ (i - (k + 1) \in Nat /\ i - (k + 1) # 0 /\ i = k + 1 + (i - (k + 1)))
    BY <2>1
  <2> QED BY <2>2
<1>12. CASE c = d
  <2>1. /\ conn[c] = "open" /\ cl.conn # c /\ peer[c] # "new"
        /\ \A w \in Worker : ~Serves(w, c)
        /\ \A q \in Queue : \A i \in Nat : QueuedAt(q, i, c) => q = t /\ i = k + 1
    <3>1. QueuedAt(t, k + 1, c) /\ k + 1 \in Nat
      BY <1>3, <1>12
    <3> QED BY <1>1, <3>1, ClientHolder
  <2>2. ASSUME NEW i \in Nat
        PROVE  ~QueuedAt(t, i, c)'
    <3>1. i # 0 => k + 1 + i # k + 1 /\ k + 1 + i \in Nat
      OBVIOUS
    <3> QED BY <1>8, <2>1, <3>1
  <2>3. \A q \in Queue : \A i \in Nat : ~QueuedAt(q, i, c)'
    BY <1>9, <2>1, <2>2
  <2>4. ~InQueue(c)' /\ OnWorker(c)'
    BY <1>10, <1>12, <2>3 DEF InQueue, OnWorker
  <2>5. HeldOnce(c)'
    BY <1>4, <1>10, <2>1, <2>3, <2>4 DEF HeldOnce
  <2> QED BY <1>4, <2>1, <2>4, <2>5 DEF ClientOwned
<1>13. CASE c # d
  <2>1. ~QueuedAt(t, k + 1, c)
    BY <1>3, <1>13 DEF QueuedAt
  <2>2. InQueue(c)' <=> InQueue(c)
    <3>1. ASSUME NEW q \in Queue, NEW i \in Nat, QueuedAt(q, i, c)
          PROVE  InQueue(c)'
      <4>1. CASE q = t
        <5>1. PICK j \in Nat : j # 0 /\ i = k + 1 + j
          BY <1>11, <2>1, <3>1, <4>1
        <5>2. QueuedAt(t, j, c)'
          BY <1>8, <3>1, <4>1, <5>1
        <5> QED BY <5>2 DEF InQueue
      <4>2. CASE q # t
        BY <1>9, <3>1, <4>2 DEF InQueue
      <4> QED BY <4>1, <4>2
    <3>2. ASSUME NEW q \in Queue, NEW i \in Nat, QueuedAt(q, i, c)'
          PROVE  InQueue(c)
      <4>1. CASE q = t
        <5>1. QueuedAt(t, k + 1 + i, c) /\ k + 1 + i \in Nat
          BY <1>8, <3>2, <4>1
        <5> QED BY <5>1 DEF InQueue
      <4>2. CASE q # t
        BY <1>9, <3>2, <4>2 DEF InQueue
      <4> QED BY <4>1, <4>2
    <3> QED BY <3>1, <3>2 DEF InQueue
  <2>3. OnWorker(c)' <=> OnWorker(c)
    BY <1>10, <1>13 DEF OnWorker
  <2>4. ASSUME NEW p \in Queue, NEW q \in Queue, NEW i \in Nat, NEW j \in Nat,
               QueuedAt(p, i, c)', QueuedAt(q, j, c)'
        PROVE  p = q /\ i = j
    <3>1. \A a, b \in Queue : \A x, y \in Nat :
            QueuedAt(a, x, c) /\ QueuedAt(b, y, c) => a = b /\ x = y
      BY <1>1 DEF ClientOwned, HeldOnce
    <3>2. k + 1 + i \in Nat /\ k + 1 + j \in Nat /\ (k + 1 + i = k + 1 + j => i = j)
      OBVIOUS
    <3>3. p = t => QueuedAt(t, k + 1 + i, c)
      BY <1>8, <2>4
    <3>4. q = t => QueuedAt(t, k + 1 + j, c)
      BY <1>8, <2>4
    <3>5. p # t => QueuedAt(p, i, c)
      BY <1>9, <2>4
    <3>6. q # t => QueuedAt(q, j, c)
      BY <1>9, <2>4
    <3> QED BY <3>1, <3>2, <3>3, <3>4, <3>5, <3>6
  <2>5. \A w \in Worker : Serves(w, c)' <=> Serves(w, c)
    BY <1>10, <1>13
  <2>6. HeldOnce(c)'
    BY <1>1, <1>4, <2>2, <2>3, <2>4, <2>5 DEF ClientOwned, HeldOnce
  <2> QED BY <1>1, <1>4, <2>2, <2>3, <2>6 DEF ClientOwned
<1> QED BY <1>12, <1>13

\* A goroutine that has written its item still has the same client.
LEMMA ItemClientKept ==
  ASSUME TypeOK, NEW v \in Worker, DoWrite(v) \/ DoRead(v) \/ DoStats(v),
         Serving(v), job'[v].pc = "read"
  PROVE  job'[v].client = job[v].client
<1>1. ~DoStats(v)
  BY DEF DoStats, Serving
<1>2. ~DoRead(v)
  <2>1. job \in [Worker -> Job]
    BY ClientTypes
  <2>2. ASSUME DoRead(v)
        PROVE  job'[v].pc = "stats"
    BY <2>1, <2>2 DEF DoRead, NoReply, GotReply, WorkerFailed, Job
  <2> QED BY <2>2
<1>3. DoWrite(v) /\ job[v] \in Job
  BY <1>1, <1>2, ClientTypes
<1>4. PICK wait \in Duration :
        \/ job' = [job EXCEPT ![v] = [job[v] EXCEPT !.pc = "read", !.wait = wait]]
        \/ job' = [job EXCEPT ![v] = [job[v] EXCEPT !.pc = "stats", !.wait = wait]]
  BY <1>3 DEF DoWrite, WorkerFailed
<1>5. job'[v] = [job[v] EXCEPT !.pc = "read", !.wait = wait]
      \/ job'[v] = [job[v] EXCEPT !.pc = "stats", !.wait = wait]
  BY <1>4, ClientTypes
<1> QED BY <1>3, <1>5 DEF Job

\* A goroutine that answers closes the connection that it alone holds.
LEMMA ItemKeepsClients ==
  ASSUME TypeOK, ClientsInv, NEW c \in Client, NEW v \in Worker,
         DoWrite(v) \/ DoRead(v) \/ DoStats(v)
  PROVE  ClientOwned(c)'
<1>1. ClientOwned(c) /\ c \in Peer /\ c \notin Worker
  BY PeersDistinct DEF ClientsInv
<1>2. /\ UNCHANGED <<peer, wl, cl, items>>
      /\ \A w \in Worker \ {v} : job'[w] = job[w]
  BY ItemStep DEF DoWrite, DoRead, DoStats
<1>3. \A w \in Worker \ {v} : Serves(w, c)' <=> Serves(w, c)
  BY <1>2 DEF Serves, Serving
<1>4. \A q \in Queue : \A i \in Nat : QueuedAt(q, i, c)' <=> QueuedAt(q, i, c)
  BY <1>2, QueuesStay
<1>5. CASE job'[v].pc = "read" /\ Serving(v) /\ conn' = conn
  <2>1. job'[v].client = job[v].client
    BY <1>5, ItemClientKept
  <2>2. Serves(v, c)' <=> Serves(v, c)
    BY <1>5, <2>1 DEF Serves, Serving
  <2> QED BY <1>1, <1>2, <1>3, <1>4, <1>5, <2>2, ClientStays
<1>6. CASE job[v].pc = "stats" /\ job'[v].pc = "idle" /\ conn' = conn
  <2>1. ~Serves(v, c) /\ ~Serves(v, c)'
    BY <1>6 DEF Serves, Serving
  <2> QED BY <1>1, <1>2, <1>3, <1>4, <1>6, <2>1, ClientStays
<1>7. CASE /\ Serving(v) /\ job'[v].pc = "stats"
           /\ \E how \in {"done", "failed"} : conn' = Answered(v, how)
  <2>1. ~Serves(v, c)'
    BY <1>7 DEF Serves, Serving
  <2>2. PICK how \in {"done", "failed"} : conn' = Answered(v, how)
    BY <1>7
  <2>3. CASE job[v].client = c
    <3>1. Serves(v, c)
      BY <1>7, <2>3 DEF Serves
    <3>2. conn'[c] \in Closed
      BY <1>1, <2>2, <2>3, ClientTypes DEF Answered, Closed
    <3>3. /\ cl'.conn # c /\ peer'[c] # "new"
          /\ \A q \in Queue : \A i \in Nat : ~QueuedAt(q, i, c)'
          /\ \A w \in Worker : ~Serves(w, c)'
      BY <1>1, <1>2, <1>3, <1>4, <2>1, <3>1, ClientHolder
    <3> QED BY <3>2, <3>3, ClientReleased
  <2>4. CASE job[v].client # c
    <3>1. conn'[c] = conn[c]
      BY <1>1, <2>2, <2>4, ClientTypes DEF Answered
    <3>2. ~Serves(v, c)
      BY <2>4 DEF Serves
    <3> QED BY <1>1, <1>2, <1>3, <1>4, <2>1, <3>1, <3>2, ClientStays
  <2> QED BY <2>3, <2>4
<1> QED BY <1>5, <1>6, <1>7, ItemStep

\* Every step keeps what holds of the clients' connections.
LEMMA ClientsNext ==
  ASSUME TypeOK, WorkersInv, ClientsInv, [Next]_vars
  PROVE  ClientsInv'
<1> SUFFICES ASSUME NEW c \in Client
             PROVE  ClientOwned(c)'
  BY DEF ClientsInv
<1>1. CASE UNCHANGED vars
  <2>1. ClientOwned(c) /\ UNCHANGED <<conn, cl, wl, items, job, peer>>
    BY <1>1 DEF vars, net, ClientsInv
  <2> QED BY <2>1, ClientStays, QueuesStay, GoroutinesStay
<1>2. CASE Next
  BY <1>2, NextCases, OthersKeepClients, ListenerKeepsClients, ProbeKeepsClients,
     WorkerListenerKeepsClients, HandOutKeepsClients, ItemKeepsClients
<1> QED BY <1>1, <1>2

\* Nobody holds a client at the start.
LEMMA ClientsInit ==
  ASSUME Init
  PROVE  ClientsInv
<1> SUFFICES ASSUME NEW c \in Client
             PROVE  ClientOwned(c)
  BY DEF ClientsInv
<1>1. conn[c] = "none" /\ cl.conn # c
  BY PeersDistinct, NoneIsNone DEF Init, IdleClients
<1>2. ~InQueue(c) /\ ~OnWorker(c)
  BY DEF Init, InQueue, OnWorker, QueuedAt, Serves, Serving, IdleJob, Swept, Locked, IdleWorkers
<1>3. HeldOnce(c)
  BY <1>1, <1>2 DEF HeldOnce, InQueue, OnWorker
<1> QED BY <1>1, <1>2, <1>3 DEF ClientOwned

-----------------------------------------------------------------------------
(* The theorems. *)

\* The invariant says what OpenIffOwned says of the clients.
LEMMA ClientsInvOwned ==
  ASSUME TypeOK, ClientsInv
  PROVE  ClientsOwned
<1> SUFFICES ASSUME NEW c \in Client
             PROVE  /\ conn[c] = "open" <=> (cl.conn = c \/ IsQueued(c) \/ IsServed(c))
                    /\ cl.conn = c => ~IsQueued(c) /\ ~IsServed(c)
                    /\ IsQueued(c) => ~IsServed(c)
                    /\ \A v, w \in Worker :
                         Serving(v) /\ job[v].client = c /\ Serving(w) /\ job[w].client = c
                           => v = w
                    /\ \A p, q \in Queue : \A i \in DOMAIN items[p], j \in DOMAIN items[q] :
                         QueuedAt(p, i, c) /\ QueuedAt(q, j, c) => p = q /\ i = j
  BY DEF ClientsOwned
<1>1. ClientOwned(c)
  BY DEF ClientsInv
<1>2. \A q \in Queue : DOMAIN items[q] = 1 .. Len(items[q]) /\ Len(items[q]) \in Nat
  BY ClientTypes
<1>3. \A q \in Queue : \A i \in Nat : QueuedAt(q, i, c) => i \in DOMAIN items[q]
  <2> SUFFICES ASSUME NEW q \in Queue, NEW i \in Nat, QueuedAt(q, i, c)
               PROVE  i \in 1 .. Len(items[q])
    BY <1>2
  <2>1. Swept(q) \in Nat
    BY DEF Swept, TypeOK, ListenersTyped
  <2> QED BY <1>2, <2>1 DEF QueuedAt
<1>4. \A q \in Queue : DOMAIN items[q] \subseteq Nat
  BY <1>2
<1>5. IsQueued(c) <=> InQueue(c)
  BY <1>3, <1>4 DEF IsQueued, InQueue
<1>6. IsServed(c) <=> OnWorker(c)
  BY DEF IsServed, OnWorker, Serves
<1> QED BY <1>1, <1>4, <1>5, <1>6 DEF ClientOwned, HeldOnce, Serves

\* No other step than the probe can end the process.
LEMMA FatalOnlyInProbe ==
  ASSUME [Next]_vars
  PROVE  Probe \/ fatal' = fatal
<1>1. CASE UNCHANGED vars
  BY <1>1 DEF vars
<1>2. CASE Next
  <2>1. ASSUME NEW x \in Peer, Dial(x) \/ Send(x) \/ Hangup(x)
        PROVE  fatal' = fatal
    BY <2>1 DEF Dial, Send, Hangup
  <2>2. ASSUME NEW w \in Worker, Reply(w) \/ AcceptWorker(w)
        PROVE  fatal' = fatal
    BY <2>2 DEF Reply, AcceptWorker
  <2>3. ASSUME NEW c \in Client, AcceptClient(c)
        PROVE  fatal' = fatal
    BY <2>3 DEF AcceptClient
  <2>4. ASSUME ReadClient \/ EnqueueClient \/ ReadWorker \/ QueueEmpty \/ HandOut
        PROVE  fatal' = fatal
    BY <2>4 DEF ReadClient, EnqueueClient, ReadWorker, QueueEmpty, HandOut
  <2>5. ASSUME NEW w \in Worker, DoWrite(w) \/ DoRead(w) \/ DoStats(w)
        PROVE  fatal' = fatal
    BY <2>5 DEF DoWrite, DoRead, DoStats
  <2>6. ASSUME NEW s \in Scraper, ScrapeStart(s) \/ \E q \in Queue : ScrapeQueue(s, q)
        PROVE  fatal' = fatal
    BY <2>6 DEF ScrapeStart, ScrapeQueue
  <2>7. ASSUME LogStart \/ \E q \in Queue : LogQueue(q)
        PROVE  fatal' = fatal
    BY <2>7 DEF LogStart, LogQueue
  <2> QED BY <1>2, <2>1, <2>2, <2>3, <2>4, <2>5, <2>6, <2>7, NextCases
<1> QED BY <1>1, <1>2

\* Only open connections are answered or closed, and those of clients are
\* never dialled or accepted again.
LEMMA ClosedKept ==
  ASSUME TypeOK, ClientsInv, [Next]_vars
  PROVE  \A c \in Client : conn[c] \in Closed => conn'[c] = conn[c]
<1> SUFFICES ASSUME NEW c \in Client, conn[c] \in Closed
             PROVE  conn'[c] = conn[c]
  OBVIOUS
<1>1. ClientOwned(c) /\ c \in Peer /\ c \notin Worker
  BY PeersDistinct DEF ClientsInv
<1>2. conn[c] # "open" /\ conn[c] # "none" /\ peer[c] # "new"
  BY <1>1 DEF Closed, ClientOwned
<1>3. cl.conn # c /\ \A w \in Worker : ~Serves(w, c)
  BY <1>1, <1>2, ClientHolder
<1>4. ASSUME NEW x, x # c, NEW how, conn' = [conn EXCEPT ![x] = how]
      PROVE  conn'[c] = conn[c]
  BY <1>1, <1>4, ClientTypes
<1>5. CASE UNCHANGED vars
  BY <1>5 DEF vars
<1>6. CASE Next
  <2>1. ASSUME NEW x \in Peer, Dial(x)
        PROVE  conn'[c] = conn[c]
    BY <1>1, <1>2, <1>4, <2>1 DEF Dial, Unused
  <2>2. ASSUME NEW x \in Peer, Send(x) \/ Hangup(x)
        PROVE  conn'[c] = conn[c]
    BY <2>2 DEF Send, Hangup
  <2>3. ASSUME NEW w \in Worker, Reply(w) \/ AcceptWorker(w)
        PROVE  conn'[c] = conn[c]
    BY <1>1, <1>4, <2>3 DEF Reply, AcceptWorker
  <2>4. ASSUME NEW d \in Client, AcceptClient(d)
        PROVE  conn'[c] = conn[c]
    BY <1>2, <1>4, <2>4 DEF AcceptClient
  <2>5. ASSUME ReadClient \/ EnqueueClient
        PROVE  conn'[c] = conn[c]
    BY <1>3, <1>4, <2>5 DEF ReadClient, EnqueueClient
  <2>6. ASSUME ReadWorker \/ QueueEmpty
        PROVE  conn'[c] = conn[c]
    <3>1. wl.conn \in Worker
      BY <2>6, SweepTypes DEF ReadWorker, QueueEmpty, TypeOK, ListenersTyped
    <3> QED BY <1>1, <1>4, <2>6, <3>1 DEF ReadWorker, QueueEmpty
  <2>7. ASSUME Probe
        PROVE  conn'[c] = conn[c]
    <3>1. items[wl.queue][wl.offset + 1].client # c
      BY <1>2, <2>7, ProbeMeetsOpen
    <3> QED BY <1>4, <2>7, <3>1 DEF Probe, AfterProbe
  <2>8. ASSUME HandOut
        PROVE  conn'[c] = conn[c]
    BY <2>8 DEF HandOut
  <2>9. ASSUME NEW w \in Worker, DoWrite(w) \/ DoRead(w) \/ DoStats(w)
        PROVE  conn'[c] = conn[c]
    <3>1. Serving(w) => job[w].client # c
      BY <1>3 DEF Serves
    <3>2. ASSUME NEW how, conn' = Answered(w, how), Serving(w)
          PROVE  conn'[c] = conn[c]
      BY <1>1, <3>1, <3>2, ClientTypes DEF Answered
    <3> QED BY <2>9, <3>2, ItemStep
  <2>10. ASSUME NEW s \in Scraper, ScrapeStart(s) \/ \E q \in Queue : ScrapeQueue(s, q)
         PROVE  conn'[c] = conn[c]
    BY <2>10 DEF ScrapeStart, ScrapeQueue
  <2>11. ASSUME LogStart \/ \E q \in Queue : LogQueue(q)
         PROVE  conn'[c] = conn[c]
    BY <2>11 DEF LogStart, LogQueue
  <2> QED BY <1>6, <2>1, <2>2, <2>3, <2>4, <2>5, <2>6, <2>7, <2>8, <2>9, <2>10, <2>11, NextCases
<1> QED BY <1>5, <1>6

\* Every open connection, a client's or a worker's, is owned by exactly one
\* part of the frontend, for any number of peers and queues: none leaks, and
\* none is closed or written to by two goroutines.
THEOREM ConnectionsAreOwned == Spec => []OpenIffOwned
<1>1. Init => WorkersInv
  BY PeersDistinct DEF Init, WorkersInv, WorkerOwned, Serving, IdleWorkers, IdleJob
<1>2. TypeOK /\ WorkersInv /\ [Next]_vars => WorkersInv'
  BY WorkersNext
<1>3. Init => ClientsInv
  BY ClientsInit
<1>4. TypeOK /\ WorkersInv /\ ClientsInv /\ [Next]_vars => ClientsInv'
  BY ClientsNext
<1>5. TypeOK /\ WorkersInv /\ ClientsInv => OpenIffOwned
  BY ClientsInvOwned DEF OpenIffOwned, WorkersInv, WorkerOwned, WorkersOwned
<1> QED
  BY <1>1, <1>2, <1>3, <1>4, <1>5, TypeCorrect, PTL DEF Spec

\* The sweep's log.Fatalf is out of reach, for any number of peers: the process
\* does not end for a connection that it has closed itself.
THEOREM FrontendNeverFatal == Spec => []NeverFatal
<1>1. Init => WorkersInv
  BY PeersDistinct DEF Init, WorkersInv, WorkerOwned, Serving, IdleWorkers, IdleJob
<1>2. TypeOK /\ WorkersInv /\ [Next]_vars => WorkersInv'
  BY WorkersNext
<1>3. Init => ClientsInv /\ NeverFatal
  BY ClientsInit DEF Init, NeverFatal
<1>4. TypeOK /\ WorkersInv /\ ClientsInv /\ [Next]_vars => ClientsInv'
  BY ClientsNext
<1>5. TypeOK /\ ClientsInv /\ NeverFatal /\ [Next]_vars => NeverFatal'
  BY FatalOnlyInProbe, ProbeMeetsOpen DEF NeverFatal
<1> QED
  BY <1>1, <1>2, <1>3, <1>4, <1>5, TypeCorrect, PTL DEF Spec

\* Each client gets one outcome: a connection that is closed stays closed, in the
\* way in which it was closed first, for any number of clients and workers.
THEOREM ClosedStaysClosed == Spec => ClosedIsFinal
<1>1. Init => WorkersInv
  BY PeersDistinct DEF Init, WorkersInv, WorkerOwned, Serving, IdleWorkers, IdleJob
<1>2. TypeOK /\ WorkersInv /\ [Next]_vars => WorkersInv'
  BY WorkersNext
<1>3. Init => ClientsInv
  BY ClientsInit
<1>4. TypeOK /\ WorkersInv /\ ClientsInv /\ [Next]_vars => ClientsInv'
  BY ClientsNext
<1>5. TypeOK /\ ClientsInv /\ [Next]_vars
        => [\A c \in Client : conn[c] \in Closed => conn'[c] = conn[c]]_vars
  BY ClosedKept
<1> QED
  BY <1>1, <1>2, <1>3, <1>4, <1>5, TypeCorrect, PTL DEF Spec, ClosedIsFinal

-----------------------------------------------------------------------------
(* The queue's statistics are what its clients experienced. *)

\* Requests wait in, and are served from, the queue that they name; a work
\* item counts as failed until a reply says otherwise.
Named ==
  /\ \A w \in Worker : Serving(w) =>
       Target[job[w].client] = job[w].queue /\ job[w].ret = 1
  /\ \A q \in Queue : \A i \in 1 .. Len(items[q]) : Target[items[q][i].client] = q

EndedAs(q, how) == {c \in Client : Target[c] = q /\ conn[c] \in how}

\* The goroutines that have answered and wait for the mutex to count it, and
\* those of them that will count a failure.
Counting(q)    == {w \in InFlight(q) : job[w].pc = "stats"}
CountingBad(q) == {w \in Counting(q) : job[w].ret = 1}

\* OutcomesCounted of one queue, with the failures still to be counted told
\* apart from the successes, and with what makes the sets' sizes numbers.
OutcomesOf(q) ==
  /\ \A how \in {{"done", "failed"}, {"dropped"}, {"failed"}} : IsFiniteSet(EndedAs(q, how))
  /\ Cardinality(EndedAs(q, {"done", "failed"})) =
       success[q] + failure[q] + Cardinality(Counting(q))
  /\ Cardinality(EndedAs(q, {"dropped"})) = disconnect[q] + Swept(q)
  /\ failure[q] + Cardinality(CountingBad(q)) >= Cardinality(EndedAs(q, {"failed"}))

OutcomesInv == \A q \in Queue : OutcomesOf(q)

\* A step of a goroutine answers, or not, and then counts.
LEMMA AnswerStep ==
  ASSUME TypeOK, Named, NEW v \in Worker, DoWrite(v) \/ DoRead(v)
  PROVE  /\ Serving(v) /\ UNCHANGED <<wl, items, success, failure, disconnect>>
         /\ \A w \in Worker \ {v} : job'[w] = job[w]
         /\ job'[v].client = job[v].client /\ job'[v].queue = job[v].queue
         /\ \/ job'[v].pc = "read" /\ conn' = conn /\ job'[v].ret = 1
            \/ /\ job'[v].pc = "stats" /\ conn' = Answered(v, "failed") /\ job'[v].ret = 1
            \/ /\ job'[v].pc = "stats" /\ conn' = Answered(v, "done") /\ job'[v].ret \in {0, 1}
<1>1. job \in [Worker -> Job] /\ job[v] \in Job
  BY ClientTypes
<1>2. Serving(v) /\ UNCHANGED <<wl, items, success, failure, disconnect>>
  BY DEF DoWrite, DoRead, Serving, stats
<1>3. job[v].ret = 1
  BY <1>2 DEF Named
<1> DEFINE Went(new, pc, ret) == /\ new.client = job[v].client /\ new.queue = job[v].queue
                                 /\ new.pc = pc /\ new.ret = ret
<1>4. \A pc \in {"read", "stats"} : \A wait :
        Went([job[v] EXCEPT !.pc = pc, !.wait = wait], pc, 1)
  BY <1>1, <1>3 DEF Job
<1>5. \A run, ret : Went([job[v] EXCEPT !.pc = "stats", !.run = run, !.ret = ret], "stats", ret)
  BY <1>1 DEF Job
<1> HIDE DEF Went
<1>6. \E new : /\ job' = [job EXCEPT ![v] = new]
               /\ \/ Went(new, "read", 1) /\ conn' = conn
                  \/ Went(new, "stats", 1) /\ conn' = Answered(v, "failed")
                  \/ /\ \E ret \in {0, 1} : Went(new, "stats", ret)
                     /\ conn' = Answered(v, "done")
  <2>1. CASE DoWrite(v)
    BY <1>4, <2>1 DEF DoWrite, WorkerFailed
  <2>2. CASE DoRead(v) /\ NoReply(v)
    BY <1>4, <2>2 DEF DoRead, NoReply, WorkerFailed
  <2>3. CASE DoRead(v) /\ GotReply(v)
    <3>1. PICK kind \in ReplyKind, run \in Duration :
            /\ job' = [job EXCEPT ![v] = [job[v] EXCEPT !.pc = "stats", !.run = run,
                                                       !.ret = Retcode(kind)]]
            /\ conn' = Answered(v, IF kind = "malformed" THEN "failed" ELSE "done")
      BY <2>3 DEF GotReply
    <3>2. Retcode(kind) \in {0, 1} /\ (kind = "malformed" => Retcode(kind) = 1)
      BY DEF Retcode
    <3>3. Went([job[v] EXCEPT !.pc = "stats", !.run = run, !.ret = Retcode(kind)],
               "stats", Retcode(kind))
      BY <1>5
    <3> QED BY <3>1, <3>2, <3>3
  <2> QED BY <2>1, <2>2, <2>3 DEF DoRead
<1> QED BY <1>1, <1>2, <1>6 DEF Went

\* Queues that shrink or stay, and goroutines that stay or go on, keep the names.
LEMMA NamedNext ==
  ASSUME TypeOK, Named, [Next]_vars
  PROVE  Named'
<1>1. job \in [Worker -> Job] /\ items \in [Queue -> Seq(Item)]
  BY ClientTypes
<1>2. ASSUME UNCHANGED <<items, job>>
      PROVE  Named'
  BY <1>2 DEF Named, Serving
<1>3. CASE EnqueueClient
  <2>1. PICK d \in Client, t \in Queue : d = cl.conn /\ t = Target[d] /\ UNCHANGED job
    BY <1>3 DEF EnqueueClient, TypeOK, ListenersTyped
  <2>2. CASE AtCapacity(t)
    BY <1>2, <1>3, <2>1, <2>2 DEF EnqueueClient
  <2>3. CASE ~AtCapacity(t)
    <3> DEFINE item == [client |-> d, added |-> accepted[t]]
    <3>1. items' = [items EXCEPT ![t] = Append(items[t], item)]
      BY <1>3, <2>1, <2>3 DEF EnqueueClient, Queued
    <3>2. item \in Item
      BY <2>1 DEF Item, TypeOK, QueuesTyped
    <3>3. \A q \in Queue : \A i \in 1 .. Len(items'[q]) : Target[items'[q][i].client] = q
      <4>1. ASSUME NEW q \in Queue \ {t}
            PROVE  items'[q] = items[q]
        BY <1>1, <3>1
      <4>2. PICK n \in Nat : n = Len(items[t])
        BY <1>1
      <4>3. /\ Len(items'[t]) = n + 1 /\ items'[t][n + 1] = item
            /\ \A i \in 1 .. n : items'[t][i] = items[t][i]
        BY <1>1, <3>1, <3>2, <4>2
      <4>4. \A i \in 1 .. n + 1 : i \in 1 .. n \/ i = n + 1
        OBVIOUS
      <4>5. \A i \in 1 .. n : Target[items[t][i].client] = t
        BY <4>2 DEF Named
      <4>6. Target[item.client] = t
        BY <2>1
      <4> QED BY <4>1, <4>3, <4>4, <4>5, <4>6 DEF Named
    <3> QED BY <2>1, <3>3 DEF Named, Serving
  <2> QED BY <2>2, <2>3
<1>4. CASE QueueEmpty
  <2>1. UNCHANGED job /\ items' = [items EXCEPT ![wl.queue] = <<>>]
    BY <1>4 DEF QueueEmpty
  <2>2. \A q \in Queue : items'[q] = items[q] \/ Len(items'[q]) = 0
    BY <1>1, <2>1
  <2> QED BY <2>1, <2>2 DEF Named, Serving
<1>5. CASE HandOut
  <2>1. wl.offset < Len(items[wl.queue])
    BY <1>5 DEF HandOut, TypeOK, ListenersTyped
  <2>2. PICK t \in Queue, k \in Nat, n \in Nat, v \in Worker :
          t = wl.queue /\ k = wl.offset /\ n = Len(items[t]) /\ k < n /\ v = wl.conn
    <3>1. Len(items[wl.queue]) \in Nat
      BY <1>5, SweepTypes DEF HandOut
    <3> QED BY <1>5, <2>1, <3>1, SweepTypes DEF HandOut
  <2>3. /\ items' = [items EXCEPT ![t] = Remaining(t, k)]
        /\ job' = [job EXCEPT ![v] = [IdleJob EXCEPT !.pc = "write", !.queue = t,
                     !.client = items[t][k + 1].client, !.added = items[t][k + 1].added]]
    BY <1>5, <2>2 DEF HandOut
  <2>4. /\ Len(items'[t]) = n - (k + 1)
        /\ \A i \in 1 .. n - (k + 1) : items'[t][i] = items[t][k + 1 + i]
        /\ \A q \in Queue \ {t} : items'[q] = items[q]
    BY <1>1, <2>2, <2>3, RemainingIs DEF TypeOK
  <2>5. \A i \in 1 .. n : Target[items[t][i].client] = t
    BY <2>2 DEF Named
  <2>6. \A q \in Queue : \A i \in 1 .. Len(items'[q]) : Target[items'[q][i].client] = q
    <3>1. \A i \in 1 .. n - (k + 1) : k + 1 + i \in 1 .. n
      BY <2>2
    <3>2. \A i \in 1 .. Len(items'[t]) : Target[items'[t][i].client] = t
      BY <2>4, <2>5, <3>1
    <3>3. ASSUME NEW q \in Queue \ {t}
          PROVE  \A i \in 1 .. Len(items'[q]) : Target[items'[q][i].client] = q
      BY <2>4 DEF Named
    <3> QED BY <3>2, <3>3
  <2>7. /\ job'[v].client = items[t][k + 1].client /\ job'[v].queue = t /\ job'[v].ret = 1
        /\ \A w \in Worker \ {v} : job'[w] = job[w]
    BY <1>1, <2>2, <2>3 DEF IdleJob
  <2>8. k + 1 \in 1 .. n
    BY <2>2
  <2> QED BY <2>5, <2>6, <2>7, <2>8 DEF Named, Serving
<1>6. ASSUME NEW v \in Worker, DoWrite(v) \/ DoRead(v)
      PROVE  Named'
  BY <1>6, AnswerStep DEF Named, Serving
<1>7. ASSUME NEW v \in Worker, DoStats(v)
      PROVE  Named'
  <2>1. /\ UNCHANGED items /\ job'[v].pc = "idle"
        /\ \A w \in Worker \ {v} : job'[w] = job[w]
    BY <1>1, <1>7 DEF DoStats, IdleJob
  <2> QED BY <2>1 DEF Named, Serving
<1>8. CASE UNCHANGED vars
  BY <1>2, <1>8 DEF vars
<1>9. ASSUME NEW x \in Peer, Dial(x) \/ Send(x) \/ Hangup(x)
      PROVE  Named'
  BY <1>2, <1>9 DEF Dial, Send, Hangup
<1>10. ASSUME NEW w \in Worker, Reply(w) \/ AcceptWorker(w)
       PROVE  Named'
  BY <1>2, <1>10 DEF Reply, AcceptWorker
<1>11. ASSUME NEW c \in Client, AcceptClient(c)
       PROVE  Named'
  BY <1>2, <1>11 DEF AcceptClient
<1>12. CASE ReadClient \/ ReadWorker \/ Probe
  BY <1>2, <1>12 DEF ReadClient, ReadWorker, Probe
<1>13. ASSUME NEW s \in Scraper, ScrapeStart(s) \/ \E q \in Queue : ScrapeQueue(s, q)
       PROVE  Named'
  BY <1>2, <1>13 DEF ScrapeStart, ScrapeQueue
<1>14. CASE LogStart \/ \E q \in Queue : LogQueue(q)
  BY <1>2, <1>14 DEF LogStart, LogQueue
<1> QED BY <1>3, <1>4, <1>5, <1>6, <1>7, <1>8, <1>9, <1>10, <1>11, <1>12, <1>13, <1>14, NextCases

\* A step that decides no outcome in queue q and counts none keeps its sums.
LEMMA OutcomesKept ==
  ASSUME NEW q \in Queue, OutcomesOf(q),
         success'[q] = success[q], failure'[q] = failure[q],
         disconnect'[q] + Swept(q)' = disconnect[q] + Swept(q),
         \A c \in Client : \A how \in {"done", "failed", "dropped"} :
           Target[c] = q => (conn'[c] = how <=> conn[c] = how),
         Counting(q)' = Counting(q), CountingBad(q)' = CountingBad(q)
  PROVE  OutcomesOf(q)'
<1>1. /\ EndedAs(q, {"done", "failed"})' = EndedAs(q, {"done", "failed"})
      /\ EndedAs(q, {"dropped"})' = EndedAs(q, {"dropped"})
      /\ EndedAs(q, {"failed"})' = EndedAs(q, {"failed"})
  BY DEF EndedAs
<1> QED BY <1>1 DEF OutcomesOf

\* As long as no goroutine moves, the same ones wait to count.
LEMMA CountingStays ==
  ASSUME UNCHANGED job
  PROVE  \A q \in Queue : Counting(q)' = Counting(q) /\ CountingBad(q)' = CountingBad(q)
  BY DEF Counting, CountingBad, InFlight

\* They are finitely many.
LEMMA CountingFinite ==
  ASSUME NEW q \in Queue
  PROVE  /\ IsFiniteSet(Counting(q)) /\ Cardinality(Counting(q)) \in Nat
         /\ IsFiniteSet(CountingBad(q)) /\ Cardinality(CountingBad(q)) \in Nat
<1>1. Counting(q) \subseteq InFlight(q) /\ CountingBad(q) \subseteq InFlight(q)
  BY DEF Counting, CountingBad
<1> QED BY <1>1, InFlightFinite, FS_Subset, FS_CardinalityType

\* Peers, reporters and the client listener decide none of these outcomes.
LEMMA QuietOutcomes ==
  ASSUME TypeOK, ClientsInv, OutcomesInv,
         \/ \E x \in Peer : Dial(x) \/ Send(x) \/ Hangup(x)
         \/ \E w \in Worker : Reply(w) \/ AcceptWorker(w)
         \/ \E c \in Client : AcceptClient(c)
         \/ ReadClient \/ EnqueueClient
         \/ \E s \in Scraper : ScrapeStart(s) \/ \E q \in Queue : ScrapeQueue(s, q)
         \/ LogStart \/ \E q \in Queue : LogQueue(q)
  PROVE  OutcomesInv'
<1>1. ASSUME UNCHANGED <<job, success, failure, disconnect>>,
             wl'.queue = wl.queue, wl'.offset = wl.offset,
             \A c \in Client : conn'[c] = conn[c]
                               \/ (conn[c] \in {"none", "open"} /\ conn'[c] \in {"open", "refused"})
      PROVE  OutcomesInv'
  <2> SUFFICES ASSUME NEW q \in Queue
               PROVE  OutcomesOf(q)'
    BY DEF OutcomesInv
  <2>1. Swept(q)' = Swept(q)
    BY <1>1 DEF Swept, Locked
  <2>2. OutcomesOf(q)
    BY DEF OutcomesInv
  <2> QED BY <1>1, <2>1, <2>2, CountingStays, OutcomesKept
<1>2. ASSUME UNCHANGED <<job, success, failure, disconnect, wl, conn>>
      PROVE  OutcomesInv'
  BY <1>1, <1>2
<1>3. ASSUME NEW x \in Peer, Dial(x)
      PROVE  OutcomesInv'
  <2>1. /\ UNCHANGED <<job, success, failure, disconnect, wl>> /\ Unused(x)
        /\ conn' = [conn EXCEPT ![x] = "none"]
    BY <1>3 DEF Dial, stats
  <2>2. x \in Client => conn[x] = "none"
    BY <2>1, PeersDistinct DEF Unused, ClientsInv, ClientOwned
  <2>3. \A c \in Client : conn'[c] = conn[c]
    BY <2>1, <2>2, ClientTypes, PeersDistinct
  <2> QED BY <1>1, <2>1, <2>3
<1>4. ASSUME NEW x \in Peer, Send(x) \/ Hangup(x)
      PROVE  OutcomesInv'
  BY <1>2, <1>4 DEF Send, Hangup, stats
<1>5. ASSUME NEW w \in Worker, Reply(w)
      PROVE  OutcomesInv'
  BY <1>2, <1>5 DEF Reply, stats
<1>6. ASSUME NEW w \in Worker, AcceptWorker(w)
      PROVE  OutcomesInv'
  <2>1. /\ UNCHANGED <<job, success, failure, disconnect>>
        /\ conn' = [conn EXCEPT ![w] = "open"]
        /\ wl'.queue = wl.queue /\ wl'.offset = wl.offset
    BY <1>6 DEF AcceptWorker, stats, TypeOK, ListenersTyped
  <2>2. \A c \in Client : conn'[c] = conn[c]
    BY <2>1, ClientTypes, PeersDistinct
  <2> QED BY <1>1, <2>1, <2>2
<1>7. ASSUME NEW d \in Client, AcceptClient(d)
      PROVE  OutcomesInv'
  <2>1. /\ UNCHANGED <<job, success, failure, disconnect, wl>> /\ conn[d] = "none"
        /\ conn' = [conn EXCEPT ![d] = "open"]
    BY <1>7 DEF AcceptClient, stats
  <2>2. \A c \in Client : conn'[c] = conn[c] \/ (conn[c] = "none" /\ conn'[c] = "open")
    BY <2>1, ClientTypes, PeersDistinct
  <2> QED BY <1>1, <2>1, <2>2
<1>8. CASE ReadClient \/ EnqueueClient
  <2>1. PICK d \in Client : d = cl.conn
    BY <1>8 DEF ReadClient, EnqueueClient, TypeOK, ListenersTyped
  <2>2. UNCHANGED <<job, success, failure, disconnect, wl>>
    BY <1>8 DEF ReadClient, EnqueueClient, stats
  <2>3. conn' = conn \/ conn' = [conn EXCEPT ![d] = "refused"]
    BY <1>8, <2>1 DEF ReadClient, EnqueueClient
  <2>4. conn[d] = "open"
    BY <2>1, ClientHolder DEF ClientsInv
  <2>5. \A c \in Client : conn'[c] = conn[c] \/ (conn[c] = "open" /\ conn'[c] = "refused")
    BY <2>3, <2>4, ClientTypes, PeersDistinct
  <2> QED BY <1>1, <2>2, <2>5
<1>9. ASSUME NEW s \in Scraper, ScrapeStart(s) \/ \E q \in Queue : ScrapeQueue(s, q)
      PROVE  OutcomesInv'
  BY <1>2, <1>9 DEF ScrapeStart, ScrapeQueue, stats
<1>10. CASE LogStart \/ \E q \in Queue : LogQueue(q)
  BY <1>2, <1>10 DEF LogStart, LogQueue, stats
<1> QED BY <1>3, <1>4, <1>5, <1>6, <1>7, <1>8, <1>9, <1>10

\* The worker listener starts a sweep at zero, and hands its count to
\* disconnect when it ends.
LEMMA SweepOutcomes ==
  ASSUME TypeOK, WorkersInv, OutcomesInv, ReadWorker \/ QueueEmpty \/ HandOut
  PROVE  OutcomesInv'
<1> SUFFICES ASSUME NEW q \in Queue
             PROVE  OutcomesOf(q)'
  BY DEF OutcomesInv
<1>1. OutcomesOf(q) /\ wl.conn \in Worker /\ disconnect \in [Queue -> Nat]
  BY DEF OutcomesInv, ReadWorker, QueueEmpty, HandOut, TypeOK, ListenersTyped, QueuesTyped
<1>2. UNCHANGED <<success, failure>>
  BY DEF ReadWorker, QueueEmpty, HandOut, stats
<1>3. \A c \in Client : conn'[c] = conn[c]
  <2>1. conn' = conn \/ \E how : conn' = [conn EXCEPT ![wl.conn] = how]
    BY DEF ReadWorker, QueueEmpty, HandOut
  <2> QED BY <1>1, <2>1, ClientTypes, PeersDistinct
<1>4. disconnect'[q] + Swept(q)' = disconnect[q] + Swept(q)
  <2>1. CASE ReadWorker
    <3>1. wl.offset = 0 /\ (wl'.offset = wl.offset \/ wl' = IdleWorkers) /\ UNCHANGED disconnect
      BY <2>1 DEF ReadWorker, stats, TypeOK, ListenersTyped
    <3> QED BY <3>1 DEF Swept, IdleWorkers
  <2>2. CASE QueueEmpty \/ HandOut
    <3>1. wl' = IdleWorkers /\ disconnect' = Discarded /\ wl.queue \in Queue /\ wl.offset \in Nat
      BY <2>2, SweepTypes DEF QueueEmpty, HandOut
    <3>2. Swept(q)' = 0
      BY <3>1, NoneIsNone DEF Swept, Locked, IdleWorkers
    <3>3. disconnect'[q] = IF q = wl.queue THEN disconnect[q] + wl.offset ELSE disconnect[q]
      BY <1>1, <3>1 DEF Discarded
    <3> QED BY <1>1, <3>1, <3>2, <3>3 DEF Swept, Locked
  <2> QED BY <2>1, <2>2
<1>5. Counting(q)' = Counting(q) /\ CountingBad(q)' = CountingBad(q)
  <2>1. CASE UNCHANGED job
    BY <2>1, CountingStays
  <2>2. CASE HandOut
    <3>1. job[wl.conn].pc = "idle"
      BY <1>1 DEF WorkersInv, WorkerOwned
    <3>2. job'[wl.conn].pc = "write" /\ \A w \in Worker \ {wl.conn} : job'[w] = job[w]
      BY <1>1, <2>2, ClientTypes DEF HandOut, IdleJob
    <3> QED BY <1>1, <3>1, <3>2 DEF Counting, CountingBad, InFlight
  <2> QED BY <2>1, <2>2 DEF ReadWorker, QueueEmpty
<1> QED BY <1>1, <1>2, <1>3, <1>4, <1>5, OutcomesKept

\* Who is closed joins the clients that ended so, and no others.
LEMMA EndedMore ==
  ASSUME NEW q \in Queue, NEW d \in Client, NEW how, NEW hows,
         IsFiniteSet(EndedAs(q, hows)), Target[d] = q, conn[d] = "open", "open" \notin hows,
         \A c \in Client : conn'[c] = IF c = d THEN how ELSE conn[c]
  PROVE  /\ IsFiniteSet(EndedAs(q, hows)')
         /\ Cardinality(EndedAs(q, hows)) \in Nat
         /\ Cardinality(EndedAs(q, hows)') =
              Cardinality(EndedAs(q, hows)) + (IF how \in hows THEN 1 ELSE 0)
<1>1. d \notin EndedAs(q, hows) /\ Cardinality(EndedAs(q, hows)) \in Nat
  BY FS_CardinalityType DEF EndedAs
<1>2. CASE how \in hows
  <2>1. EndedAs(q, hows)' = EndedAs(q, hows) \cup {d}
    BY <1>2 DEF EndedAs
  <2> QED BY <1>1, <1>2, <2>1, FS_AddElement
<1>3. CASE how \notin hows
  <2>1. EndedAs(q, hows)' = EndedAs(q, hows)
    BY <1>3 DEF EndedAs
  <2> QED BY <1>1, <1>3, <2>1
<1> QED BY <1>2, <1>3

\* A probe that drops a client counts one more in the sweep.
LEMMA ProbeOutcomes ==
  ASSUME TypeOK, ClientsInv, Named, OutcomesInv, Probe
  PROVE  OutcomesInv'
<1> SUFFICES ASSUME NEW q \in Queue
             PROVE  OutcomesOf(q)'
  BY DEF OutcomesInv
<1>1. PICK t \in Queue, k \in Nat, n \in Nat, d \in Client :
        /\ t = wl.queue /\ k = wl.offset /\ n = Len(items[t]) /\ k < n
        /\ d = items[t][k + 1].client
  <2>1. Len(items[wl.queue]) \in Nat
    BY SweepTypes DEF Probe
  <2> QED BY <2>1, SweepTypes DEF Probe
<1>2. OutcomesOf(q) /\ UNCHANGED <<job, success, failure, disconnect>>
  BY DEF OutcomesInv, Probe, stats
<1>3. conn[d] = "open" /\ Target[d] = t
  <2>1. k + 1 \in 1 .. Len(items[t])
    BY <1>1
  <2> QED BY <1>1, <2>1, ProbeMeetsOpen DEF Named
<1>4. Counting(q)' = Counting(q) /\ CountingBad(q)' = CountingBad(q)
  BY <1>2, CountingStays
<1>5. CASE ~Obsolete(d)
  <2>1. conn' = conn /\ wl'.queue = wl.queue /\ wl'.offset = wl.offset
    BY <1>1, <1>5, ProbeMeetsOpen DEF Probe, AfterProbe, TypeOK, ListenersTyped
  <2>2. Swept(q)' = Swept(q)
    BY <2>1 DEF Swept, Locked
  <2> QED BY <1>2, <1>4, <2>1, <2>2, OutcomesKept
<1>6. CASE Obsolete(d)
  <2>1. /\ conn' = [conn EXCEPT ![d] = "dropped"]
        /\ wl'.queue = t /\ wl'.offset = k + 1
    BY <1>1, <1>6, ProbeMeetsOpen DEF Probe, AfterProbe, TypeOK, ListenersTyped
  <2>2. \A c \in Client : conn'[c] = IF c = d THEN "dropped" ELSE conn[c]
    BY <2>1, ClientTypes, PeersDistinct
  <2>3. CASE q # t
    <3>1. Swept(q)' = Swept(q)
      BY <1>1, <2>1, <2>3 DEF Swept, Locked
    <3>2. \A c \in Client : Target[c] = q => conn'[c] = conn[c]
      BY <1>3, <2>2, <2>3
    <3> QED BY <1>2, <1>4, <3>1, <3>2, OutcomesKept
  <2>4. CASE q = t
    <3>1. Swept(q) = k /\ Swept(q)' = k + 1 /\ disconnect[q] \in Nat
      BY <1>1, <2>1, <2>4 DEF Swept, Locked, TypeOK, QueuesTyped
    <3>2. /\ IsFiniteSet(EndedAs(q, {"dropped"})')
          /\ Cardinality(EndedAs(q, {"dropped"})') = Cardinality(EndedAs(q, {"dropped"})) + 1
      BY <1>2, <1>3, <2>2, <2>4, EndedMore DEF OutcomesOf
    <3>3. /\ EndedAs(q, {"done", "failed"})' = EndedAs(q, {"done", "failed"})
          /\ EndedAs(q, {"failed"})' = EndedAs(q, {"failed"})
      BY <1>3, <2>2 DEF EndedAs
    <3>4. Cardinality(EndedAs(q, {"dropped"})') = disconnect[q]' + Swept(q)'
      BY <1>2, <3>1, <3>2 DEF OutcomesOf
    <3> QED BY <1>2, <1>4, <3>2, <3>3, <3>4 DEF OutcomesOf
  <2> QED BY <2>3, <2>4
<1> QED BY <1>5, <1>6

\* A goroutine that answers waits to count what it answered.
LEMMA AnswerOutcomes ==
  ASSUME TypeOK, ClientsInv, Named, OutcomesInv, NEW v \in Worker, DoWrite(v) \/ DoRead(v)
  PROVE  OutcomesInv'
<1> SUFFICES ASSUME NEW q \in Queue
             PROVE  OutcomesOf(q)'
  BY DEF OutcomesInv
<1>1. PICK d \in Client, t \in Queue :
        d = job[v].client /\ t = job[v].queue /\ Target[d] = t /\ conn[d] = "open"
  <2>1. Serving(v)
    BY AnswerStep
  <2>2. job[v].client \in Client /\ job[v].queue \in Queue
    BY <2>1 DEF Serving, TypeOK, JobsTyped
  <2>3. conn[job[v].client] = "open"
    BY <2>1, <2>2, ClientHolder DEF ClientsInv, Serves
  <2> QED BY <2>1, <2>2, <2>3 DEF Named
<1>2. /\ OutcomesOf(q) /\ UNCHANGED <<success, failure, disconnect>>
      /\ disconnect'[q] + Swept(q)' = disconnect[q] + Swept(q)
  BY AnswerStep DEF OutcomesInv, Swept, Locked
<1>3. /\ Serving(v) /\ job'[v].queue = t
      /\ \A w \in Worker \ {v} : job'[w] = job[w]
  BY <1>1, AnswerStep
<1>4. CASE job'[v].pc = "read" /\ conn' = conn
  <2>1. Counting(q)' = Counting(q) /\ CountingBad(q)' = CountingBad(q)
    BY <1>3, <1>4 DEF Counting, CountingBad, InFlight, Serving
  <2> QED BY <1>2, <1>4, <2>1, OutcomesKept
<1>5. ASSUME NEW how \in {"done", "failed"}, job'[v].pc = "stats", conn' = Answered(v, how),
             job'[v].ret \in {0, 1}, how = "failed" => job'[v].ret = 1
      PROVE  OutcomesOf(q)'
  <2>1. \A c \in Client : conn'[c] = IF c = d THEN how ELSE conn[c]
    BY <1>1, <1>5, ClientTypes, PeersDistinct DEF Answered
  <2>2. CASE q # t
    <3>1. Counting(q)' = Counting(q) /\ CountingBad(q)' = CountingBad(q)
      BY <1>1, <1>3, <2>2 DEF Counting, CountingBad, InFlight
    <3>2. \A c \in Client : Target[c] = q => conn'[c] = conn[c]
      BY <1>1, <2>1, <2>2
    <3> QED BY <1>2, <3>1, <3>2, OutcomesKept
  <2>3. CASE q = t
    <3>1. /\ Counting(q)' = Counting(q) \cup {v} /\ v \notin Counting(q)
          /\ CountingBad(q)' = IF job'[v].ret = 1 THEN CountingBad(q) \cup {v} ELSE CountingBad(q)
          /\ v \notin CountingBad(q)
      BY <1>3, <1>5, <2>3 DEF Counting, CountingBad, InFlight, Serving
    <3>2. Cardinality(Counting(q)') = Cardinality(Counting(q)) + 1
      BY <3>1, CountingFinite, FS_AddElement
    <3>3. Cardinality(CountingBad(q)') =
            Cardinality(CountingBad(q)) + (IF job'[v].ret = 1 THEN 1 ELSE 0)
      <4>1. CASE job'[v].ret = 1
        <5>1. CountingBad(q)' = CountingBad(q) \cup {v}
          BY <3>1, <4>1
        <5>2. Cardinality(CountingBad(q) \cup {v}) = Cardinality(CountingBad(q)) + 1
          BY <3>1, CountingFinite, FS_AddElement
        <5> QED BY <4>1, <5>1, <5>2
      <4>2. CASE job'[v].ret # 1
        BY <3>1, <4>2, CountingFinite
      <4> QED BY <4>1, <4>2
    <3>4. /\ IsFiniteSet(EndedAs(q, {"done", "failed"})')
          /\ Cardinality(EndedAs(q, {"done", "failed"})') =
               Cardinality(EndedAs(q, {"done", "failed"})) + 1
      <4>1. PICK hows : hows = {"done", "failed"}
        OBVIOUS
      <4>2. IsFiniteSet(EndedAs(q, hows)) /\ "open" \notin hows /\ how \in hows
        BY <1>2, <4>1 DEF OutcomesOf
      <4>3. /\ IsFiniteSet(EndedAs(q, hows)')
            /\ Cardinality(EndedAs(q, hows)') = Cardinality(EndedAs(q, hows)) + 1
        BY <1>1, <2>1, <2>3, <4>2, EndedMore
      <4> QED BY <4>1, <4>3
    <3>5. /\ IsFiniteSet(EndedAs(q, {"failed"})')
          /\ Cardinality(EndedAs(q, {"failed"})) \in Nat
          /\ Cardinality(EndedAs(q, {"failed"})') =
               Cardinality(EndedAs(q, {"failed"})) + (IF how = "failed" THEN 1 ELSE 0)
      <4>1. PICK hows : hows = {"failed"}
        OBVIOUS
      <4>2. IsFiniteSet(EndedAs(q, hows)) /\ "open" \notin hows
        BY <1>2, <4>1 DEF OutcomesOf
      <4>3. /\ IsFiniteSet(EndedAs(q, hows)')
            /\ Cardinality(EndedAs(q, hows)) \in Nat
            /\ Cardinality(EndedAs(q, hows)') =
                 Cardinality(EndedAs(q, hows)) + (IF how \in hows THEN 1 ELSE 0)
        BY <1>1, <2>1, <2>3, <4>2, EndedMore
      <4> QED BY <4>1, <4>3
    <3>6. EndedAs(q, {"dropped"})' = EndedAs(q, {"dropped"})
      BY <1>1, <2>1 DEF EndedAs
    <3>7. /\ success[q] \in Nat /\ failure[q] \in Nat
          /\ Cardinality(Counting(q)) \in Nat /\ Cardinality(CountingBad(q)) \in Nat
      BY CountingFinite DEF TypeOK, QueuesTyped
    <3>8. Cardinality(EndedAs(q, {"done", "failed"})') =
            success'[q] + failure'[q] + Cardinality(Counting(q)')
      BY <1>2, <3>2, <3>4, <3>7 DEF OutcomesOf
    <3>9. failure'[q] + Cardinality(CountingBad(q)') >= Cardinality(EndedAs(q, {"failed"})')
      BY <1>2, <1>5, <3>3, <3>5, <3>7 DEF OutcomesOf
    <3> QED BY <1>2, <3>4, <3>5, <3>6, <3>8, <3>9 DEF OutcomesOf
  <2> QED BY <2>2, <2>3
<1> QED BY <1>4, <1>5, AnswerStep

\* A goroutine that has the mutex counts its outcome, once.
LEMMA StatsOutcomes ==
  ASSUME TypeOK, OutcomesInv, NEW v \in Worker, DoStats(v)
  PROVE  OutcomesInv'
<1> SUFFICES ASSUME NEW q \in Queue
             PROVE  OutcomesOf(q)'
  BY DEF OutcomesInv
<1>1. PICK t \in Queue : t = job[v].queue /\ job[v].pc = "stats" /\ job[v].ret \in {0, 1}
  BY DEF DoStats, TypeOK, JobsTyped, Job
<1>2. /\ job'[v].pc = "idle" /\ \A w \in Worker \ {v} : job'[w] = job[w]
      /\ UNCHANGED <<conn, wl, disconnect>>
  BY ClientTypes DEF DoStats, IdleJob
<1>3. /\ OutcomesOf(q) /\ Swept(q)' = Swept(q) /\ success[q] \in Nat /\ failure[q] \in Nat
      /\ Cardinality(Counting(q)) \in Nat /\ Cardinality(CountingBad(q)) \in Nat
  BY <1>2, CountingFinite DEF OutcomesInv, Swept, Locked, TypeOK, QueuesTyped
<1>4. /\ success' = [success EXCEPT ![t] = IF job[v].ret = 0 THEN @ + 1 ELSE @]
      /\ failure' = [failure EXCEPT ![t] = IF job[v].ret = 0 THEN @ ELSE @ + 1]
      /\ success \in [Queue -> Nat] /\ failure \in [Queue -> Nat]
  BY <1>1 DEF DoStats, TypeOK, QueuesTyped
<1>5. CASE q # t
  <2>1. Counting(q)' = Counting(q) /\ CountingBad(q)' = CountingBad(q)
    BY <1>1, <1>2, <1>5 DEF Counting, CountingBad, InFlight
  <2>2. success'[q] = success[q] /\ failure'[q] = failure[q]
    BY <1>4, <1>5
  <2> QED BY <1>2, <1>3, <2>1, <2>2, OutcomesKept
<1>6. CASE q = t
  <2>1. /\ success'[q] = success[q] + (IF job[v].ret = 0 THEN 1 ELSE 0)
        /\ failure'[q] = failure[q] + (IF job[v].ret = 0 THEN 0 ELSE 1)
    BY <1>3, <1>4, <1>6
  <2>2. /\ Counting(q)' = Counting(q) \ {v} /\ v \in Counting(q)
        /\ CountingBad(q)' = CountingBad(q) \ {v}
        /\ v \in CountingBad(q) <=> job[v].ret = 1
    BY <1>1, <1>2, <1>6 DEF Counting, CountingBad, InFlight
  <2>3. Cardinality(Counting(q)') = Cardinality(Counting(q)) - 1
    BY <2>2, CountingFinite, FS_RemoveElement
  <2>4. Cardinality(CountingBad(q)') =
          Cardinality(CountingBad(q)) - (IF job[v].ret = 1 THEN 1 ELSE 0)
    <3>1. CASE job[v].ret = 1
      BY <2>2, <3>1, CountingFinite, FS_RemoveElement
    <3>2. CASE job[v].ret = 0
      <4>1. CountingBad(q)' = CountingBad(q)
        BY <2>2, <3>2
      <4> QED BY <1>3, <3>2, <4>1
    <3> QED BY <1>1, <3>1, <3>2
  <2>5. \A hows : EndedAs(q, hows)' = EndedAs(q, hows)
    BY <1>2 DEF EndedAs
  <2>6. /\ Cardinality(EndedAs(q, {"done", "failed"})') =
             success'[q] + failure'[q] + Cardinality(Counting(q)')
        /\ failure'[q] + Cardinality(CountingBad(q)')
             = failure[q] + Cardinality(CountingBad(q))
    <3>1. Cardinality(EndedAs(q, {"done", "failed"})') =
            success[q] + failure[q] + Cardinality(Counting(q))
      BY <1>3, <2>5 DEF OutcomesOf
    <3>2. CASE job[v].ret = 0
      BY <1>3, <2>1, <2>3, <2>4, <3>1, <3>2
    <3>3. CASE job[v].ret = 1
      BY <1>3, <2>1, <2>3, <2>4, <3>1, <3>3
    <3> QED BY <1>1, <3>2, <3>3
  <2> QED BY <1>2, <1>3, <2>5, <2>6 DEF OutcomesOf
<1> QED BY <1>5, <1>6

\* Every step keeps the sums.
LEMMA OutcomesNext ==
  ASSUME TypeOK, WorkersInv, ClientsInv, Named, OutcomesInv, [Next]_vars
  PROVE  OutcomesInv'
<1>1. CASE UNCHANGED vars
  <2> SUFFICES ASSUME NEW q \in Queue
               PROVE  OutcomesOf(q)'
    BY DEF OutcomesInv
  <2>1. UNCHANGED <<conn, wl, job, success, failure, disconnect>> /\ OutcomesOf(q)
    BY <1>1 DEF vars, stats, OutcomesInv
  <2>2. Swept(q)' = Swept(q)
    BY <2>1 DEF Swept, Locked
  <2> QED BY <2>1, <2>2, CountingStays, OutcomesKept
<1>2. CASE Next
  BY <1>2, NextCases, QuietOutcomes, SweepOutcomes, ProbeOutcomes, AnswerOutcomes,
     StatsOutcomes
<1> QED BY <1>1, <1>2

\* Nobody has ended at the start.
LEMMA OutcomesInit ==
  ASSUME Init
  PROVE  Named /\ OutcomesInv
<1>1. Named
  BY DEF Init, Named, Serving, IdleJob
<1>2. ASSUME NEW q \in Queue
      PROVE  OutcomesOf(q)
  <2>1. \A hows : "none" \notin hows => EndedAs(q, hows) = {}
    BY PeersDistinct DEF Init, EndedAs
  <2>2. Counting(q) = {} /\ CountingBad(q) = {}
    BY DEF Init, Counting, CountingBad, InFlight, IdleJob
  <2>3. /\ success[q] = 0 /\ failure[q] = 0 /\ disconnect[q] = 0 /\ Swept(q) = 0
    BY NoneIsNone DEF Init, Swept, Locked, IdleWorkers
  <2>4. \A hows \in {{"done", "failed"}, {"dropped"}, {"failed"}} : EndedAs(q, hows) = {}
    BY <2>1
  <2>5. IsFiniteSet({}) /\ Cardinality({}) = 0
    BY FS_EmptySet
  <2> QED BY <2>2, <2>3, <2>4, <2>5 DEF OutcomesOf
<1> QED BY <1>1, <1>2 DEF OutcomesInv

\* The statistics of each queue are what its clients experienced, for any number
\* of clients and workers: replies are counted once, as a success or a failure,
\* when their goroutine gets the mutex, drops when their sweep ends.
THEOREM OutcomesAreCounted == Spec => []OutcomesCounted
<1>1. Init => WorkersInv
  BY PeersDistinct DEF Init, WorkersInv, WorkerOwned, Serving, IdleWorkers, IdleJob
<1>2. TypeOK /\ WorkersInv /\ [Next]_vars => WorkersInv'
  BY WorkersNext
<1>3. Init => ClientsInv
  BY ClientsInit
<1>4. TypeOK /\ WorkersInv /\ ClientsInv /\ [Next]_vars => ClientsInv'
  BY ClientsNext
<1>5. Init => Named /\ OutcomesInv
  BY OutcomesInit
<1>6. TypeOK /\ Named /\ [Next]_vars => Named'
  BY NamedNext
<1>7. TypeOK /\ WorkersInv /\ ClientsInv /\ Named /\ OutcomesInv /\ [Next]_vars => OutcomesInv'
  BY OutcomesNext
<1>8. TypeOK /\ OutcomesInv => OutcomesCounted
  <2> SUFFICES ASSUME TypeOK, OutcomesInv, NEW q \in Queue
               PROVE  /\ Cardinality(EndedAs(q, {"done", "failed"})) =
                           success[q] + failure[q] + Cardinality(Counting(q))
                      /\ Cardinality(EndedAs(q, {"dropped"})) = disconnect[q] + Swept(q)
                      /\ failure[q] + Cardinality(Counting(q))
                           >= Cardinality(EndedAs(q, {"failed"}))
    BY DEF OutcomesCounted, EndedAs, Counting
  <2>1. OutcomesOf(q) /\ failure[q] \in Nat
    BY DEF OutcomesInv, TypeOK, QueuesTyped
  <2>2. CountingBad(q) \subseteq Counting(q)
    BY DEF CountingBad
  <2>3. Cardinality(CountingBad(q)) <= Cardinality(Counting(q))
    BY <2>2, CountingFinite, FS_Subset
  <2>4. Cardinality(EndedAs(q, {"failed"})) \in Nat
    BY <2>1, FS_CardinalityType DEF OutcomesOf
  <2> QED BY <2>1, <2>3, <2>4, CountingFinite DEF OutcomesOf
<1> QED
  BY <1>1, <1>2, <1>3, <1>4, <1>5, <1>6, <1>7, <1>8, TypeCorrect, PTL DEF Spec

-----------------------------------------------------------------------------
(* Waiting.  The listeners and the goroutines of the items wait for peers, and   *)
(* for the mutex of a queue; everything else they do can be done at once.       *)

\* What is unread of a connection fits what will be done with it: the first message
\* until a listener has read it, and from then on anything but that.
InputInv ==
  /\ \A x \in Peer : conn[x] = "none" => inbox[x] \in {"silent", "request"}
  /\ cl.pc = "read" => inbox[cl.conn] \in {"silent", "request"}
  /\ wl.pc = "read" => inbox[wl.conn] \in {"silent", "request"}
  /\ wl.pc \in {"sweep", "alive"} => inbox[wl.conn] \in {"drained", "extra"}
  /\ \A w \in Worker : Serving(w) => inbox[w] \in {"drained", "extra", "reply"}

\* x is connected, and it is its turn to say something.
IsToSpeak(x, unread) == peer[x] = "open" /\ inbox[x] = unread

\* Probe, QueueEmpty or HandOut can be taken.
SweepReady ==
  \/ wl.pc = "sweep" /\ wl.offset < Len(items[wl.queue])
  \/ wl.pc = "sweep" /\ wl.offset >= Len(items[wl.queue])
  \/ wl.pc = "alive"

\* DoRead can be taken.
ReplyReady(w) ==
  /\ job[w].pc = "read"
  /\ \/ peer[w] = "gone" /\ inbox[w] = "drained"
     \/ inbox[w] \in {"reply", "extra"} /\ Duration # {}

WaitsForPeersOnly ==
  /\ cl.pc = "read"  => Readable(cl.conn) \/ IsToSpeak(cl.conn, "silent")
  /\ cl.pc = "lock"  => ~Locked(Target[cl.conn]) \/ SweepReady
  /\ wl.pc = "read"  => Readable(wl.conn) \/ IsToSpeak(wl.conn, "silent")
  /\ wl.pc \in {"sweep", "alive"} => SweepReady
  /\ \A w \in Worker :
       /\ job[w].pc = "read"  => ReplyReady(w) \/ IsToSpeak(w, "drained")
       /\ job[w].pc = "stats" => ~Locked(job[w].queue) \/ SweepReady

\* A step that reads nothing, and gives no connection to anybody.
LEMMA InputStays ==
  ASSUME InputInv, inbox' = inbox,
         \A x \in Peer : conn'[x] = "none" => conn[x] = "none",
         cl'.pc = "read" => cl.pc = "read" /\ cl'.conn = cl.conn,
         wl'.pc = "read" => wl.pc = "read" /\ wl'.conn = wl.conn,
         wl'.pc \in {"sweep", "alive"} => wl.pc \in {"sweep", "alive"} /\ wl'.conn = wl.conn,
         \A w \in Worker : Serving(w)' => Serving(w)
  PROVE  InputInv'
  BY DEF InputInv

\* Who has a connection, in terms of its state.
LEMMA InUse ==
  ASSUME TypeOK, WorkersInv, ClientsInv
  PROVE  /\ cl.pc # "accept" => /\ cl.conn \in Client /\ cl.conn \in Peer /\ cl.conn \notin Worker
                                /\ conn[cl.conn] = "open" /\ peer[cl.conn] # "new"
         /\ wl.pc # "accept" => /\ wl.conn \in Worker /\ wl.conn \in Peer /\ wl.conn \notin Client
                                /\ conn[wl.conn] = "open" /\ peer[wl.conn] # "new"
                                /\ ~Serving(wl.conn)
         /\ \A w \in Worker : Serving(w) =>
              /\ w \in Peer /\ w \notin Client /\ conn[w] = "open" /\ peer[w] # "new"
<1>1. cl.pc # "accept" => cl.conn \in Client
  BY ClientTypes
<1>2. wl.pc # "accept" => wl.conn \in Worker
  BY DEF TypeOK, ListenersTyped
<1>3. ASSUME NEW c \in Client, cl.conn = c
      PROVE  conn[c] = "open" /\ peer[c] # "new"
  BY <1>3 DEF ClientsInv, ClientOwned
<1>4. ASSUME NEW w \in Worker, wl.conn = w
      PROVE  conn[w] = "open" /\ peer[w] # "new" /\ ~Serving(w)
  BY <1>4 DEF WorkersInv, WorkerOwned, Serving
<1>5. ASSUME NEW w \in Worker, Serving(w)
      PROVE  conn[w] = "open" /\ peer[w] # "new"
  BY <1>5 DEF WorkersInv, WorkerOwned
<1> QED BY <1>1, <1>2, <1>3, <1>4, <1>5, PeersDistinct

\* The steps of the peers, which dial only when nobody uses their connection.
LEMMA PeersKeepInput ==
  ASSUME TypeOK, WorkersInv, ClientsInv, InputInv,
         \/ \E x \in Peer : Dial(x) \/ Send(x) \/ Hangup(x)
         \/ \E w \in Worker : Reply(w)
  PROVE  InputInv'
<1>1. /\ inbox \in [Peer -> InboxState] /\ conn \in [Peer -> ConnState]
  BY DEF TypeOK, ConnectionsTyped
<1>2. ASSUME NEW x \in Peer, Dial(x)
      PROVE  InputInv'
  <2>1. /\ inbox' = [inbox EXCEPT ![x] = "silent"] /\ conn' = [conn EXCEPT ![x] = "none"]
        /\ UNCHANGED <<cl, wl, job>> /\ Unused(x)
    BY <1>2 DEF Dial
  <2>2. conn[x] # "open" \/ peer[x] = "new"
    BY <2>1 DEF Unused, Closed
  <2>3. /\ cl.pc # "accept" => cl.conn # x
        /\ wl.pc # "accept" => wl.conn # x
        /\ \A w \in Worker : Serving(w) => w # x
    BY <2>2, InUse
  <2> QED BY <1>1, <2>1, <2>3, InUse DEF InputInv, Serving
<1>3. ASSUME NEW x \in Peer, Send(x)
      PROVE  InputInv'
  <2>1. /\ inbox' = [inbox EXCEPT ![x] = "request"] /\ inbox[x] = "silent"
        /\ UNCHANGED <<conn, cl, wl, job>>
    BY <1>3 DEF Send
  <2> QED BY <1>1, <2>1, InUse DEF InputInv, Serving
<1>4. ASSUME NEW x \in Peer, Hangup(x)
      PROVE  InputInv'
  BY <1>4, InputStays DEF Hangup, Serving
<1>5. ASSUME NEW v \in Worker, Reply(v)
      PROVE  InputInv'
  <2>1. /\ inbox' = [inbox EXCEPT ![v] = "reply"] /\ inbox[v] = "drained" /\ Serving(v)
        /\ UNCHANGED <<conn, cl, wl, job>>
    BY <1>5 DEF Reply, Serving
  <2>2. /\ cl.pc # "accept" => cl.conn # v
        /\ wl.pc # "accept" => wl.conn # v
        /\ conn[v] # "none"
    BY <2>1, InUse
  <2> QED BY <1>1, <2>1, <2>2, InUse DEF InputInv, Serving
<1> QED BY <1>2, <1>3, <1>4, <1>5

\* The steps that take a connection, read from it, or give it to a goroutine.
LEMMA ListenersKeepInput ==
  ASSUME TypeOK, WorkersInv, ClientsInv, InputInv,
         \/ \E c \in Client : AcceptClient(c)
         \/ \E w \in Worker : AcceptWorker(w)
         \/ ReadClient \/ ReadWorker \/ HandOut
  PROVE  InputInv'
<1>1. /\ inbox \in [Peer -> InboxState] /\ conn \in [Peer -> ConnState]
      /\ Client \subseteq Peer /\ Worker \subseteq Peer
      /\ job \in [Worker -> Job]
  BY PeersDistinct DEF TypeOK, ConnectionsTyped, JobsTyped
<1>2. ASSUME NEW c \in Client, AcceptClient(c)
      PROVE  InputInv'
  <2>1. /\ inbox' = inbox /\ conn' = [conn EXCEPT ![c] = "open"] /\ conn[c] = "none"
        /\ cl'.conn = c /\ UNCHANGED <<wl, job>>
    BY <1>2 DEF AcceptClient, net
  <2> QED BY <1>1, <2>1 DEF InputInv, Serving
<1>3. ASSUME NEW w \in Worker, AcceptWorker(w)
      PROVE  InputInv'
  <2>1. /\ inbox' = inbox /\ conn' = [conn EXCEPT ![w] = "open"] /\ conn[w] = "none"
        /\ wl'.conn = w /\ wl'.pc = "read" /\ UNCHANGED <<cl, job>>
    BY <1>3 DEF AcceptWorker, net, TypeOK, ListenersTyped
  <2> QED BY <1>1, <2>1 DEF InputInv, Serving
<1>4. CASE ReadClient
  <2> DEFINE c == cl.conn
  <2>1. /\ c \in Client /\ c \in Peer /\ conn[c] = "open"
        /\ wl.pc # "accept" => wl.conn # c
        /\ \A w \in Worker : w # c
    BY <1>4, InUse, PeersDistinct DEF ReadClient
  <2>2. \A x \in Peer \ {c} : inbox'[x] = inbox[x] /\ conn'[x] = conn[x]
    BY <1>1, <1>4 DEF ReadClient, AfterRead
  <2>3. conn'[c] # "none" /\ cl'.pc # "read" /\ UNCHANGED <<wl, job>>
    BY <1>1, <1>4, <2>1 DEF ReadClient, IdleClients, TypeOK, ListenersTyped
  <2> HIDE DEF c
  <2> QED BY <1>1, <2>1, <2>2, <2>3, InUse DEF InputInv, Serving
<1>5. CASE ReadWorker
  <2> DEFINE v == wl.conn
  <2>1. /\ v \in Worker /\ v \in Peer /\ conn[v] = "open" /\ ~Serving(v)
        /\ cl.pc # "accept" => cl.conn # v
    BY <1>5, InUse, PeersDistinct DEF ReadWorker
  <2>2. \A x \in Peer \ {v} : inbox'[x] = inbox[x] /\ conn'[x] = conn[x]
    BY <1>1, <1>5 DEF ReadWorker, AfterRead
  <2>3. conn'[v] # "none" /\ wl'.pc # "read" /\ UNCHANGED <<cl, job>>
    BY <1>1, <1>5, <2>1 DEF ReadWorker, IdleWorkers, TypeOK, ListenersTyped
  <2>4. wl'.pc \in {"sweep", "alive"} => wl'.conn = v /\ inbox'[v] \in {"drained", "extra"}
    <3>1. CASE Valid(v)
      BY <1>1, <1>5, <2>1, <3>1 DEF ReadWorker, AfterRead, Valid, TypeOK, ListenersTyped
    <3>2. CASE ~Valid(v)
      BY <1>5, <3>2 DEF ReadWorker, IdleWorkers
    <3> QED BY <3>1, <3>2
  <2> HIDE DEF v
  <2> QED BY <1>1, <2>1, <2>2, <2>3, <2>4, InUse DEF InputInv, Serving
<1>6. CASE HandOut
  <2>1. /\ UNCHANGED <<inbox, conn, cl>> /\ wl' = IdleWorkers /\ wl.pc = "alive"
        /\ \A w \in Worker \ {wl.conn} : job'[w] = job[w]
    BY <1>1, <1>6 DEF HandOut, net
  <2>2. inbox[wl.conn] \in {"drained", "extra"}
    BY <2>1 DEF InputInv
  <2>3. \A w \in Worker : Serving(w)' => Serving(w) \/ w = wl.conn
    BY <2>1 DEF Serving
  <2> QED BY <1>1, <2>1, <2>2, <2>3 DEF InputInv, IdleWorkers
<1> QED BY <1>2, <1>3, <1>4, <1>5, <1>6

\* Every step keeps what is unread in order.
LEMMA InputNext ==
  ASSUME TypeOK, WorkersInv, ClientsInv, InputInv, [Next]_vars
  PROVE  InputInv'
<1>1. /\ conn \in [Peer -> ConnState] /\ Client \subseteq Peer
      /\ \A x \in Peer : conn[x] # "none" \/ conn[x] = "none"
  BY PeersDistinct DEF TypeOK, ConnectionsTyped
<1>2. CASE EnqueueClient
  <2>1. /\ inbox' = inbox /\ cl' = IdleClients /\ UNCHANGED <<wl, job>>
        /\ conn' = conn \/ conn' = [conn EXCEPT ![cl.conn] = "refused"]
    BY <1>2 DEF EnqueueClient, net
  <2> QED BY <1>1, <2>1, InputStays DEF IdleClients, Serving
<1>3. CASE Probe
  <2>1. /\ inbox' = inbox /\ UNCHANGED <<cl, job>>
        /\ wl'.conn = wl.conn /\ wl'.pc \in {"sweep", "alive"} /\ wl.pc = "sweep"
        /\ \A x \in Peer : conn'[x] = "none" => conn[x] = "none"
    BY <1>1, <1>3 DEF Probe, AfterProbe, net, TypeOK, ListenersTyped
  <2> QED BY <2>1, InputStays DEF Serving
<1>4. CASE QueueEmpty
  <2>1. /\ inbox' = inbox /\ wl' = IdleWorkers /\ UNCHANGED <<cl, job>>
        /\ conn' = [conn EXCEPT ![wl.conn] = "empty"]
    BY <1>4 DEF QueueEmpty, net
  <2> QED BY <1>1, <2>1, InputStays DEF IdleWorkers, Serving
<1>5. ASSUME NEW v \in Worker, DoWrite(v) \/ DoRead(v) \/ DoStats(v)
      PROVE  InputInv'
  <2>1. /\ inbox' = inbox /\ UNCHANGED <<cl, wl>>
        /\ \A w \in Worker : Serving(w)' => Serving(w)
    BY <1>5, ItemStep DEF DoWrite, DoRead, DoStats, Serving, net
  <2>2. \A x \in Peer : conn'[x] = "none" => conn[x] = "none"
    BY <1>1, <1>5, ItemStep DEF Answered
  <2> QED BY <2>1, <2>2, InputStays
<1>6. CASE UNCHANGED <<inbox, conn, cl, wl, job>>
  BY <1>6, InputStays DEF Serving
<1>7. ASSUME NEW s \in Scraper, ScrapeStart(s) \/ \E q \in Queue : ScrapeQueue(s, q)
      PROVE  InputInv'
  BY <1>6, <1>7 DEF ScrapeStart, ScrapeQueue, net
<1>8. CASE LogStart \/ \E q \in Queue : LogQueue(q)
  BY <1>6, <1>8 DEF LogStart, LogQueue, net
<1>9. CASE UNCHANGED vars
  BY <1>6, <1>9 DEF vars, net
<1> QED
  BY <1>2, <1>3, <1>4, <1>5, <1>7, <1>8, <1>9, NextCases, PeersKeepInput, ListenersKeepInput

\* The listeners and the goroutines wait for nothing but peers that are connected
\* and whose turn it is to speak, which is what PeerFairness is about: the mutex
\* of a queue is held by a sweep that can always go on, and whoever has read a
\* request, or waits for a reply, does not wait for input that cannot come.
THEOREM OnlyPeersBlock ==
  ASSUME Duration # {}
  PROVE  Spec => []WaitsForPeersOnly
<1>1. Init => WorkersInv /\ ClientsInv /\ InputInv
  <2>1. Init => WorkersInv
    BY PeersDistinct DEF Init, WorkersInv, WorkerOwned, Serving, IdleWorkers, IdleJob
  <2>2. Init => InputInv
    BY DEF Init, InputInv, IdleClients, IdleWorkers, IdleJob, Serving
  <2> QED BY <2>1, <2>2, ClientsInit
<1>2. TypeOK /\ WorkersInv /\ ClientsInv /\ InputInv /\ [Next]_vars
        => WorkersInv' /\ ClientsInv' /\ InputInv'
  BY WorkersNext, ClientsNext, InputNext
<1>3. TypeOK /\ WorkersInv /\ ClientsInv /\ InputInv => WaitsForPeersOnly
  <2> SUFFICES ASSUME TypeOK, WorkersInv, ClientsInv, InputInv
               PROVE  WaitsForPeersOnly
    OBVIOUS
  <2>1. /\ peer \in [Peer -> {"new", "open", "gone"}]
        /\ \A q \in Queue : Len(items[q]) \in Nat
        /\ wl.offset \in Nat
        /\ wl.pc \in {"sweep", "alive"} <=> wl.queue \in Queue
    BY DEF TypeOK, ConnectionsTyped, QueuesTyped, ListenersTyped
  <2>2. wl.pc \in {"sweep", "alive"} => SweepReady
    BY <2>1 DEF SweepReady
  <2>3. \A q \in Queue : Locked(q) => SweepReady
    BY <2>1, <2>2 DEF Locked
  <2>4. cl.pc = "read" => Readable(cl.conn) \/ IsToSpeak(cl.conn, "silent")
    BY <2>1, InUse DEF InputInv, Readable, IsToSpeak
  <2>5. wl.pc = "read" => Readable(wl.conn) \/ IsToSpeak(wl.conn, "silent")
    BY <2>1, InUse DEF InputInv, Readable, IsToSpeak
  <2>6. cl.pc = "lock" => Target[cl.conn] \in Queue
    BY DEF TypeOK, ListenersTyped
  <2>7. ASSUME NEW w \in Worker
        PROVE  /\ job[w].pc = "read"  => ReplyReady(w) \/ IsToSpeak(w, "drained")
               /\ job[w].pc = "stats" => job[w].queue \in Queue
    BY <2>1, InUse DEF InputInv, Serving, ReplyReady, IsToSpeak, TypeOK, JobsTyped
  <2> QED BY <2>2, <2>3, <2>4, <2>5, <2>6, <2>7 DEF WaitsForPeersOnly
<1> QED BY <1>1, <1>2, <1>3, TypeCorrect, PTL DEF Spec

=============================================================================
