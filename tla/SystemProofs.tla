---------------------------- MODULE SystemProofs ----------------------------
(***************************************************************************)
(* Proofs about the three programs together, for any number of clients,    *)
(* threads, workers and queues, and however often processes are killed.    *)
(***************************************************************************)
EXTENDS System, FiniteSetTheorems, TLAPS

\* What a worker leaves when it closes its connection is a set like any other.
USE DEF Closed

-----------------------------------------------------------------------------
(* Types. *)

\* What holds of the connection of worker w between any two steps: a pull that
\* is not answered has no request yet, only a worker at work or one that has
\* gone has one, and nothing of a broken connection is left in the frontend.
WorkerLinked(w) ==
  /\ w \in pulls => serving[w] = None /\ worker[w] \in {"pull", "down"}
  /\ serving[w] # None => worker[w] \in {"work", "down"}
  /\ w \in cut => w \notin pulls /\ serving[w] = None

LinksInv == \A w \in Worker : WorkerLinked(w)

\* The request of a thread that has some left to make, and of one that waits.
LEMMA RequestsTyped ==
  ASSUME TypeOK, NEW t \in Thread
  PROVE  /\ left[t] > 0 => [thread |-> t, n |-> left[t]] \in Request
         /\ left[t] \in 0 .. MaxRequests
  BY DEF TypeOK, Request

\* A queue that a request or a worker names exists.
LEMMA QueuesTyped ==
  /\ \A r \in Request : QueueOf[r.thread] \in Queue
  /\ \A w \in Worker : QueueOf[w] \in Queue
  /\ \A r \in Request : r \notin {None} /\ [x \in Request |-> QueueOf[x.thread]][r] = QueueOf[r.thread]
  BY SystemAssumption DEF SystemAssumption, Request

\* What a step of the queues does to them (listenForClients, listenForWorkers, doItem), and that
\* it keeps their types.
LEMMA RefuseTyped ==
  ASSUME TypeOK, NEW r \in Request, WQ!Refuse(r)
  PROVE  pending' = pending /\ serving' = serving /\ fate' \in [Request -> WQ!Fate]
  BY DEF TypeOK, WQ!Refuse, WQ!Fate

\* A submitted request is appended to its queue.
LEMMA SubmitTyped ==
  ASSUME TypeOK, NEW r \in Request, WQ!Submit(r)
  PROVE  /\ pending' = [pending EXCEPT ![QueueOf[r.thread]] = Append(@, r)]
         /\ pending' \in [Queue -> Seq(Request)]
         /\ serving' = serving /\ fate' = fate
<1>1. pending' = [pending EXCEPT ![QueueOf[r.thread]] = Append(@, r)]
      /\ serving' = serving /\ fate' = fate
  BY QueuesTyped DEF WQ!Submit
<1>2. Append(pending[QueueOf[r.thread]], r) \in Seq(Request)
  BY QueuesTyped DEF TypeOK
<1> QED BY <1>1, <1>2 DEF TypeOK

\* The head of a queue is dropped and its fate is known.
LEMMA DropTyped ==
  ASSUME TypeOK, NEW q \in Queue, WQ!Drop(q)
  PROVE  /\ pending[q] # <<>> /\ Head(pending[q]) \in Request
         /\ pending' = [pending EXCEPT ![q] = Tail(@)]
         /\ pending' \in [Queue -> Seq(Request)]
         /\ fate' \in [Request -> WQ!Fate]
         /\ serving' = serving
<1>1. pending[q] # <<>> /\ pending[q] \in Seq(Request)
  BY DEF WQ!Drop, TypeOK
<1>2. Head(pending[q]) \in Request /\ Tail(pending[q]) \in Seq(Request)
  BY <1>1
<1> QED BY <1>1, <1>2 DEF WQ!Drop, WQ!Fate, TypeOK

\* The head of a queue is taken by a worker that serves nothing.
LEMMA TakeTyped ==
  ASSUME TypeOK, NEW w \in Worker, NEW q \in Queue, WQ!Take(q, w)
  PROVE  /\ pending[q] # <<>> /\ Head(pending[q]) \in Request /\ serving[w] = None
         /\ pending' = [pending EXCEPT ![q] = Tail(@)]
         /\ pending' \in [Queue -> Seq(Request)]
         /\ serving' = [serving EXCEPT ![w] = Head(pending[q])]
         /\ serving' \in [Worker -> Request \cup {None}]
         /\ fate' = fate
<1>1. pending[q] # <<>> /\ pending[q] \in Seq(Request)
  BY DEF WQ!Take, TypeOK
<1>2. Head(pending[q]) \in Request /\ Tail(pending[q]) \in Seq(Request)
  BY <1>1
<1> QED BY <1>1, <1>2 DEF WQ!Take, TypeOK

\* A worker's request is answered, and the worker serves nothing.
LEMMA AnswerTyped ==
  ASSUME TypeOK, NEW w \in Worker, WQ!Answer(w)
  PROVE  /\ serving[w] # None /\ serving[w] \in Request
         /\ serving' = [serving EXCEPT ![w] = None]
         /\ serving' \in [Worker -> Request \cup {None}]
         /\ fate' \in [Request -> WQ!Fate]
         /\ pending' = pending
  BY DEF WQ!Answer, WQ!Fate, TypeOK

\* A reply leaves its client a client (sendJSONClose).
LEMMA TellTyped ==
  ASSUME TypeOK, NEW r \in Request, NEW what \in Kinds, Tell(r, what)
  PROVE  /\ thread' \in [Thread -> {"idle", "waiting", "cut"}]
         /\ told' \in [Request -> {"none"} \cup Kinds]
         /\ \A t \in Thread : thread'[t] = thread[t] \/ thread'[t] = "idle"
  BY DEF Tell, TypeOK, Request

\* A counter of the statistics goes up by one.
LEMMA CountsTyped ==
  ASSUME NEW c \in [success : Nat, failure : Nat, disconnect : Nat]
  PROVE  /\ [c EXCEPT !.success = @ + 1] \in [success : Nat, failure : Nat, disconnect : Nat]
         /\ [c EXCEPT !.failure = @ + 1] \in [success : Nat, failure : Nat, disconnect : Nat]
         /\ [c EXCEPT !.disconnect = @ + 1] \in [success : Nat, failure : Nat, disconnect : Nat]
  OBVIOUS

\* One more process has been killed.
LEMMA StopsTyped ==
  ASSUME NEW s \in Stops
  PROVE  /\ s.client \in Nat /\ s.worker \in Nat /\ s.frontend \in Nat
         /\ [s EXCEPT !.client = @ + 1] \in Stops
         /\ [s EXCEPT !.worker = @ + 1] \in Stops
         /\ [s EXCEPT !.frontend = @ + 1] \in Stops
  BY DEF Stops

\* Types and links hold in the beginning.
LEMMA TypeInit == Init => TypeOK /\ LinksInv
<1> SUFFICES ASSUME Init PROVE TypeOK /\ LinksInv
  OBVIOUS
<1> USE DEF Init
<1>1. client \in [Client -> {"up", "down"}] /\ thread \in [Thread -> {"idle", "waiting", "cut"}]
      /\ left \in [Thread -> 0 .. MaxRequests]
  BY SystemAssumption DEF SystemAssumption
<1>2. /\ front \in {"up", "down"} /\ backlog \subseteq Request /\ pulls \subseteq Worker
      /\ counts \in [success : Nat, failure : Nat, disconnect : Nat]
  BY DEF NoCounts
<1>3. /\ pending \in [Queue -> Seq(Request)]
      /\ serving \in [Worker -> Request \cup {None}]
      /\ fate \in [Request -> WQ!Fate]
  BY DEF WQ!Init, WQ!Fate
<1>4. /\ worker \in [Worker -> {"down", "ask", "pull", "work", "check"}]
      /\ cut \subseteq {w \in Worker : worker[w] \in {"pull", "work"}}
  OBVIOUS
<1>5. signal \in [Worker -> BOOLEAN]
  OBVIOUS
<1>6. told \in [Request -> {"none"} \cup Kinds] /\ lost \in Nat /\ stops \in Stops
  BY DEF Stops
<1>7. \A t \in Thread : client[ClientOf[t]] = "down" => thread[t] = "idle"
  OBVIOUS
<1>8. LinksInv
  BY DEF WQ!Init, LinksInv, WorkerLinked
<1> QED BY <1>1, <1>2, <1>3, <1>4, <1>5, <1>6, <1>7, <1>8 DEF TypeOK

\* The steps of the clients.
LEMMA ClientsKeepTypes ==
  ASSUME TypeOK, LinksInv,
         \/ \E p \in Client : StopClient(p) \/ StartClient(p)
         \/ \E t \in Thread : Dial(t) \/ ClientFails(t)
  PROVE  TypeOK' /\ LinksInv'
<1>1. ASSUME NEW p \in Client, EndClient(p), stops' \in Stops
      PROVE  TypeOK'
  <2>1. thread' \in [Thread -> {"idle", "waiting", "cut"}]
        /\ \A t \in Thread : client'[ClientOf[t]] = "down" => thread'[t] = "idle"
    BY <1>1, SystemAssumption DEF SystemAssumption, EndClient, Orphaned, TypeOK
  <2> QED BY <1>1, <2>1 DEF EndClient, TypeOK, frontend, queues, workers
<1>2. ASSUME NEW p \in Client, StopClient(p)
      PROVE  TypeOK'
  <2>1. stops' \in Stops
    BY <1>2, StopsTyped DEF StopClient, TypeOK
  <2> QED BY <1>1, <1>2, <2>1 DEF StopClient
<1>3. ASSUME NEW t \in Thread, ClientFails(t)
      PROVE  TypeOK'
  <2>1. ClientOf[t] \in Client /\ stops' \in Stops
    BY <1>3, SystemAssumption DEF SystemAssumption, ClientFails, TypeOK
  <2> QED BY <1>1, <1>3, <2>1 DEF ClientFails
<1>4. ASSUME NEW p \in Client, StartClient(p)
      PROVE  TypeOK'
  BY <1>4, SystemAssumption DEF SystemAssumption, StartClient, TypeOK, frontend, queues,
       workers, history
<1>5. ASSUME NEW t \in Thread, Dial(t)
      PROVE  TypeOK'
  <2>0. left[t] > 0 /\ left[t] \in 0 .. MaxRequests /\ MaxRequests \in Nat
        /\ [thread |-> t, n |-> left[t]] \in Request
    BY <1>5, RequestsTyped, SystemAssumption DEF SystemAssumption, Dial
  <2>1. backlog' \subseteq Request /\ left' \in [Thread -> 0 .. MaxRequests]
    BY <1>5, <2>0 DEF Dial, TypeOK
  <2>2. thread' \in [Thread -> {"idle", "waiting", "cut"}]
        /\ \A s \in Thread : client[ClientOf[s]] = "down" => thread'[s] = "idle"
    BY <1>5 DEF Dial, TypeOK
  <2> QED BY <1>5, <2>1, <2>2 DEF Dial, TypeOK, queues, workers, history
<1>6. UNCHANGED <<pulls, serving, worker, cut>>
  BY DEF StopClient, StartClient, Dial, ClientFails, EndClient, frontend, queues, workers
<1>7. LinksInv'
  BY <1>6 DEF LinksInv, WorkerLinked
<1> QED BY <1>2, <1>3, <1>4, <1>5, <1>7

\* The steps of the client listener, and those that only move the queues on.
LEMMA AcceptKeepsTypes ==
  ASSUME TypeOK, LinksInv,
         \/ \E r \in Request : Accept(r)
         \/ \E q \in Queue : Drop(q)
         \/ StartFrontend
  PROVE  TypeOK' /\ LinksInv'
<1>1. ASSUME NEW r \in Request, Refuse(r)
      PROVE  TypeOK'
  <2>1. /\ thread' \in [Thread -> {"idle", "waiting", "cut"}]
        /\ told' \in [Request -> {"none"} \cup Kinds]
        /\ \A t \in Thread : thread'[t] = thread[t] \/ thread'[t] = "idle"
    BY <1>1, TellTyped DEF Refuse, Kinds
  <2>2. pending' = pending /\ serving' = serving /\ fate' \in [Request -> WQ!Fate]
    BY <1>1, RefuseTyped DEF Refuse
  <2> QED BY <1>1, <2>1, <2>2 DEF Refuse, TypeOK, workers
<1>2. ASSUME NEW r \in Request, Submit(r)
      PROVE  TypeOK'
  <2>1. pending' \in [Queue -> Seq(Request)] /\ serving' = serving /\ fate' = fate
    BY <1>2, SubmitTyped DEF Submit
  <2> QED BY <1>2, <2>1 DEF Submit, TypeOK, clients, workers, history
<1>3. ASSUME NEW q \in Queue, Drop(q)
      PROVE  TypeOK'
  <2>1. /\ pending' \in [Queue -> Seq(Request)] /\ serving' = serving
        /\ fate' \in [Request -> WQ!Fate]
    BY <1>3, DropTyped DEF Drop
  <2>2. counts' \in [success : Nat, failure : Nat, disconnect : Nat]
    BY <1>3, CountsTyped DEF Drop, TypeOK
  <2> QED BY <1>3, <2>1, <2>2 DEF Drop, TypeOK, clients, workers, history
<1>4. ASSUME StartFrontend
      PROVE  TypeOK'
  BY <1>4 DEF StartFrontend, TypeOK, clients, queues, workers, history
<1>5. UNCHANGED <<pulls, serving, worker, cut>>
  BY RefuseTyped, SubmitTyped, DropTyped
     DEF Accept, Refuse, Submit, Drop, StartFrontend, queues, workers
<1>6. LinksInv'
  BY <1>5 DEF LinksInv, WorkerLinked
<1> QED BY <1>1, <1>2, <1>3, <1>4, <1>6 DEF Accept

\* The steps of the worker listener and its goroutines.
LEMMA PullKeepsTypes ==
  ASSUME TypeOK, LinksInv, NEW w \in Worker, Take(w) \/ QueueEmpty(w) \/ Lose(w)
  PROVE  TypeOK' /\ LinksInv'
<1>1. QueueOf[w] \in Queue
  BY QueuesTyped
<1>2. \A v \in Worker : WorkerLinked(v)
  BY DEF LinksInv
<1>3. ASSUME Take(w)
      PROVE  TypeOK' /\ LinksInv'
  <2>1. /\ pending' \in [Queue -> Seq(Request)]
        /\ serving' \in [Worker -> Request \cup {None}]
        /\ serving[w] = None /\ serving' = [serving EXCEPT ![w] = Head(pending[QueueOf[w]])]
        /\ fate' = fate
    BY <1>1, <1>3, TakeTyped DEF Take
  <2>2. w \in pulls /\ pulls' = pulls \ {w} /\ cut' = cut /\ worker[w] \in {"pull", "down"}
        /\ worker' = [worker EXCEPT ![w] = IF worker[w] = "pull" THEN "work" ELSE worker[w]]
    BY <1>2, <1>3 DEF Take, Answered, WorkerLinked
  <2>3. /\ worker' \in [Worker -> {"down", "ask", "pull", "work", "check"}]
        /\ cut' \subseteq {v \in Worker : worker'[v] \in {"pull", "work"}}
    BY <2>2 DEF TypeOK
  <2>4. TypeOK'
    BY <1>3, <2>1, <2>2, <2>3 DEF Take, TypeOK, clients, history
  <2>5. ASSUME NEW v \in Worker
        PROVE  WorkerLinked(v)'
    BY <1>2, <2>1, <2>2 DEF WorkerLinked, TypeOK
  <2> QED BY <2>4, <2>5 DEF LinksInv
<1>4. ASSUME QueueEmpty(w)
      PROVE  TypeOK' /\ LinksInv'
  <2>1. w \in pulls /\ pulls' = pulls \ {w} /\ UNCHANGED <<cut, serving>>
        /\ w \notin cut /\ serving[w] = None
        /\ \E next \in {"check", "down"} :
             worker' = [worker EXCEPT ![w] = IF worker[w] = "pull" THEN next ELSE worker[w]]
    BY <1>2, <1>4 DEF QueueEmpty, Answered, WorkerLinked, queues
  <2>2. /\ worker' \in [Worker -> {"down", "ask", "pull", "work", "check"}]
        /\ cut' \subseteq {v \in Worker : worker'[v] \in {"pull", "work"}}
    BY <2>1 DEF TypeOK
  <2>3. signal' \in [Worker -> BOOLEAN]
    BY <1>4 DEF QueueEmpty, TypeOK
  <2>4. TypeOK'
    BY <1>4, <2>1, <2>2, <2>3 DEF QueueEmpty, TypeOK, clients, queues, history
  <2>5. ASSUME NEW v \in Worker
        PROVE  WorkerLinked(v)'
    BY <1>2, <2>1 DEF WorkerLinked, TypeOK
  <2> QED BY <2>4, <2>5 DEF LinksInv
<1>5. ASSUME Lose(w)
      PROVE  TypeOK' /\ LinksInv'
  <2>1. /\ serving[w] \in Request
        /\ serving' = [serving EXCEPT ![w] = None]
        /\ serving' \in [Worker -> Request \cup {None}]
        /\ fate' \in [Request -> WQ!Fate] /\ pending' = pending
    BY <1>5, AnswerTyped DEF Lose
  <2>2. /\ thread' \in [Thread -> {"idle", "waiting", "cut"}]
        /\ told' \in [Request -> {"none"} \cup Kinds]
        /\ \A t \in Thread : thread'[t] = thread[t] \/ thread'[t] = "idle"
    BY <1>5, <2>1, TellTyped DEF Lose, Apology, Kinds
  <2>3. counts' \in [success : Nat, failure : Nat, disconnect : Nat]
    BY <1>5, CountsTyped DEF Lose, TypeOK
  <2>6. lost' \in Nat
    BY <1>5 DEF Lose, TypeOK
  <2>4. TypeOK'
    BY <1>5, <2>1, <2>2, <2>3, <2>6 DEF Lose, TypeOK, workers
  <2>5. ASSUME NEW v \in Worker
        PROVE  WorkerLinked(v)'
    BY <1>2, <1>5, <2>1 DEF WorkerLinked, TypeOK, Lose, workers
  <2> QED BY <2>4, <2>5 DEF LinksInv
<1> QED BY <1>3, <1>4, <1>5

\* The end of the frontend breaks every link.
LEMMA StopKeepsTypes ==
  ASSUME TypeOK, LinksInv, StopFrontend
  PROVE  TypeOK' /\ LinksInv'
<1>1. /\ pending' \in [Queue -> Seq(Request)]
      /\ serving' \in [Worker -> Request \cup {None}]
      /\ fate' \in [Request -> WQ!Fate]
  BY DEF StopFrontend, WQ!Fate
<1>2. thread' \in [Thread -> {"idle", "waiting", "cut"}]
      /\ \A t \in Thread : thread[t] = "idle" => thread'[t] = "idle"
  BY DEF StopFrontend, CutOff, TypeOK
<1>3. counts' \in [success : Nat, failure : Nat, disconnect : Nat]
  BY DEF StopFrontend, NoCounts
<1>4. told' \in [Request -> {"none"} \cup Kinds] /\ stops' \in Stops
  BY StopsTyped DEF StopFrontend, TypeOK
<1>5. worker' = worker /\ cut' = {w \in Worker : worker[w] \in {"pull", "work"}}
  BY DEF StopFrontend
<1>6. TypeOK'
  BY <1>1, <1>2, <1>3, <1>4, <1>5 DEF StopFrontend, TypeOK
<1>7. ASSUME NEW w \in Worker
      PROVE  WorkerLinked(w)'
  <2>1. w \notin pulls' /\ serving'[w] = None
    BY DEF StopFrontend
  <2> QED BY <2>1 DEF WorkerLinked
<1> QED BY <1>6, <1>7 DEF LinksInv

\* The steps of the workers.
LEMMA WorkersKeepTypes ==
  ASSUME TypeOK, LinksInv, NEW w \in Worker,
         StartWorker(w) \/ Round(w) \/ Terminate(w) \/ KillWorker(w)
  PROVE  TypeOK' /\ LinksInv'
<1>1. \A v \in Worker : WorkerLinked(v)
  BY DEF LinksInv
<1>2. ASSUME StartWorker(w)
      PROVE  TypeOK' /\ LinksInv'
  <2>1. worker' = [worker EXCEPT ![w] = "ask"] /\ worker[w] = "down" /\ w \notin pulls
        /\ serving[w] = None
        /\ UNCHANGED <<pulls, serving, cut>>
    BY <1>2 DEF StartWorker, frontend, queues
  <2>2. /\ worker' \in [Worker -> {"down", "ask", "pull", "work", "check"}]
        /\ cut' \subseteq {v \in Worker : worker'[v] \in {"pull", "work"}}
    BY <2>1 DEF TypeOK
  <2>3. TypeOK'
    BY <1>2, <2>2 DEF StartWorker, TypeOK, clients, frontend, queues, history
  <2>4. ASSUME NEW v \in Worker
        PROVE  WorkerLinked(v)'
    BY <1>1, <2>1 DEF WorkerLinked, TypeOK
  <2> QED BY <2>3, <2>4 DEF LinksInv
<1>3. ASSUME Ask(w)
      PROVE  TypeOK' /\ LinksInv'
  <2>1. worker' = [worker EXCEPT ![w] = "pull"] /\ worker[w] \in {"ask", "check"}
        /\ pulls' = pulls \cup {w}
        /\ UNCHANGED <<serving, cut>>
    BY <1>3 DEF Ask, Asks, queues
  <2>2. /\ worker' \in [Worker -> {"down", "ask", "pull", "work", "check"}]
        /\ cut' \subseteq {v \in Worker : worker'[v] \in {"pull", "work"}}
        /\ w \notin cut
    BY <2>1 DEF TypeOK
  <2>3. TypeOK'
    BY <1>3, <2>1, <2>2 DEF Ask, TypeOK, clients, queues, history
  <2>4. ASSUME NEW v \in Worker
        PROVE  WorkerLinked(v)'
    BY <1>1, <2>1, <2>2 DEF WorkerLinked, TypeOK
  <2> QED BY <2>3, <2>4 DEF LinksInv
<1>4. ASSUME Finish(w)
      PROVE  TypeOK' /\ LinksInv'
  <2>1. /\ serving[w] \in Request
        /\ serving' = [serving EXCEPT ![w] = None]
        /\ serving' \in [Worker -> Request \cup {None}]
        /\ fate' \in [Request -> WQ!Fate] /\ pending' = pending
    BY <1>4, AnswerTyped DEF Finish
  <2>2. PICK kind \in Kinds : /\ Tell(serving[w], kind)
                              /\ counts' = [counts EXCEPT ![Outcome(kind)] = @ + 1]
    BY <1>4 DEF Finish
  <2>3. /\ thread' \in [Thread -> {"idle", "waiting", "cut"}]
        /\ told' \in [Request -> {"none"} \cup Kinds]
        /\ \A t \in Thread : thread'[t] = thread[t] \/ thread'[t] = "idle"
    BY <2>1, <2>2, TellTyped
  <2>4. counts' \in [success : Nat, failure : Nat, disconnect : Nat]
    <3>1. CASE kind = "failure"
      BY <2>2, <3>1, CountsTyped DEF Outcome, TypeOK
    <3>2. CASE kind # "failure"
      BY <2>2, <3>2, CountsTyped DEF Outcome, TypeOK
    <3> QED BY <3>1, <3>2
  <2>5. worker' = [worker EXCEPT ![w] = "check"] /\ worker[w] = "work"
        /\ w \notin cut /\ UNCHANGED <<pulls, cut>>
    BY <1>4 DEF Finish
  <2>6. /\ worker' \in [Worker -> {"down", "ask", "pull", "work", "check"}]
        /\ cut' \subseteq {v \in Worker : worker'[v] \in {"pull", "work"}}
    BY <2>5 DEF TypeOK
  <2>7. TypeOK'
    BY <1>4, <2>1, <2>3, <2>4, <2>6 DEF Finish, TypeOK
  <2>8. ASSUME NEW v \in Worker
        PROVE  WorkerLinked(v)'
    BY <1>1, <2>1, <2>5 DEF WorkerLinked, TypeOK
  <2> QED BY <2>7, <2>8 DEF LinksInv
<1>5. ASSUME FinishInVain(w)
      PROVE  TypeOK' /\ LinksInv'
  <2>1. worker' = [worker EXCEPT ![w] = "check"] /\ worker[w] = "work"
        /\ cut' = cut \ {w} /\ w \in cut
        /\ UNCHANGED <<pulls, serving>>
    BY <1>5 DEF FinishInVain, frontend, queues
  <2>2. /\ worker' \in [Worker -> {"down", "ask", "pull", "work", "check"}]
        /\ cut' \subseteq {v \in Worker : worker'[v] \in {"pull", "work"}}
    BY <2>1 DEF TypeOK
  <2>3. TypeOK'
    BY <1>5, <2>2 DEF FinishInVain, TypeOK, clients, frontend, queues, history
  <2>4. ASSUME NEW v \in Worker
        PROVE  WorkerLinked(v)'
    BY <1>1, <2>1 DEF WorkerLinked, TypeOK
  <2> QED BY <2>3, <2>4 DEF LinksInv
<1>6. ASSUME EndWorker(w), stops' \in Stops
      PROVE  TypeOK' /\ LinksInv'
  <2>1. worker' = [worker EXCEPT ![w] = "down"] /\ cut' = cut \ {w}
        /\ UNCHANGED <<pulls, serving>>
    BY <1>6 DEF EndWorker, frontend, queues
  <2>2. /\ worker' \in [Worker -> {"down", "ask", "pull", "work", "check"}]
        /\ cut' \subseteq {v \in Worker : worker'[v] \in {"pull", "work"}}
        /\ signal' \in [Worker -> BOOLEAN]
    BY <1>6, <2>1 DEF EndWorker, TypeOK
  <2>3. TypeOK'
    BY <1>6, <2>2 DEF EndWorker, TypeOK, clients, frontend, queues
  <2>4. ASSUME NEW v \in Worker
        PROVE  WorkerLinked(v)'
    BY <1>1, <2>1 DEF WorkerLinked, TypeOK
  <2> QED BY <2>3, <2>4 DEF LinksInv
<1>7. ASSUME WorkerFails(w) \/ HeedSignal(w)
      PROVE  TypeOK' /\ LinksInv'
  BY <1>6, <1>7 DEF WorkerFails, HeedSignal, TypeOK
<1>8. ASSUME KillWorker(w)
      PROVE  TypeOK' /\ LinksInv'
  <2>1. stops' \in Stops
    BY <1>8, StopsTyped DEF KillWorker, TypeOK
  <2> QED BY <1>6, <1>8, <2>1 DEF KillWorker
<1>9. ASSUME Terminate(w)
      PROVE  TypeOK' /\ LinksInv'
  <2>1. signal' \in [Worker -> BOOLEAN] /\ UNCHANGED <<pulls, serving, worker, cut>>
    BY <1>9 DEF Terminate, TypeOK, frontend, queues
  <2>2. TypeOK'
    BY <1>9, <2>1 DEF Terminate, TypeOK, clients, frontend, queues, history
  <2> QED BY <1>1, <2>1, <2>2 DEF LinksInv, WorkerLinked
<1> QED BY <1>2, <1>3, <1>4, <1>5, <1>7, <1>8, <1>9 DEF Round

\* Types and links are kept by every step.
LEMMA TypeNext ==
  ASSUME TypeOK, LinksInv, [Next]_vars
  PROVE  TypeOK' /\ LinksInv'
<1>1. CASE Next
  BY <1>1, ClientsKeepTypes, AcceptKeepsTypes, PullKeepsTypes, StopKeepsTypes,
     WorkersKeepTypes DEF Next, Faults, Restarts, Pull
<1>2. CASE UNCHANGED vars
  BY <1>2 DEF vars, clients, frontend, queues, workers, history, TypeOK, LinksInv, WorkerLinked
<1> QED BY <1>1, <1>2

\* In every reachable state the variables have their types; the threads of a
\* process that is not there are idle, and only a connected worker can be cut.
THEOREM SystemTypeCorrect == Spec => []TypeOK
<1>1. Init => TypeOK /\ LinksInv
  BY TypeInit
<1>2. TypeOK /\ LinksInv /\ [Next]_vars => TypeOK' /\ LinksInv'
  BY TypeNext
<1> QED BY <1>1, <1>2, PTL DEF Spec

-----------------------------------------------------------------------------
(* Faults. *)

\* As long as the frontend was not stopped it is there, and nothing is cut off.
Unbroken ==
  stops.frontend = 0 =>
    front = "up" /\ cut = {} /\ \A t \in Thread : thread[t] # "cut"

\* Every step keeps that.
LEMMA UnbrokenNext ==
  ASSUME TypeOK, Unbroken, [Next]_vars
  PROVE  Unbroken'
<1> USE DEF Unbroken
<1>1. stops.frontend \in Nat
  BY StopsTyped DEF TypeOK
<1>2. CASE StopFrontend
  <2>1. stops'.frontend = stops.frontend + 1
    BY <1>2 DEF StopFrontend, TypeOK, Stops
  <2> QED BY <1>1, <2>1
<1>3. ASSUME stops'.frontend = stops.frontend, front' = front \/ front' = "up",
             cut' \subseteq cut,
             \A t \in Thread : thread'[t] = "cut" => thread[t] = "cut"
      PROVE  Unbroken'
  BY <1>3
<1>4. ASSUME NEW p \in Client, EndClient(p)
      PROVE  /\ front' = front /\ cut' = cut
             /\ \A t \in Thread : thread'[t] = "cut" => thread[t] = "cut"
  BY <1>4 DEF EndClient, Orphaned, frontend, workers
<1>5. ASSUME NEW p \in Client, StopClient(p)
      PROVE  Unbroken'
  <2>1. stops'.frontend = stops.frontend
    BY <1>5 DEF StopClient, TypeOK, Stops
  <2> QED BY <1>3, <1>4, <1>5, <2>1 DEF StopClient
<1>6. ASSUME NEW t \in Thread, ClientFails(t)
      PROVE  Unbroken'
  <2>1. ClientOf[t] \in Client
    BY SystemAssumption DEF SystemAssumption
  <2> QED BY <1>3, <1>4, <1>6, <2>1 DEF ClientFails
<1>7. ASSUME NEW p \in Client, StartClient(p)
      PROVE  Unbroken'
  BY <1>3, <1>7 DEF StartClient, frontend, workers, history
<1>8. ASSUME NEW t \in Thread, Dial(t)
      PROVE  Unbroken'
  <2>1. \A s \in Thread : thread'[s] = "cut" => thread[s] = "cut"
    BY <1>8 DEF Dial, TypeOK
  <2> QED BY <1>3, <1>8, <2>1 DEF Dial, workers, history
<1>9. ASSUME NEW r, NEW what, Tell(r, what)
      PROVE  \A t \in Thread : thread'[t] = "cut" => thread[t] = "cut"
  BY <1>9 DEF Tell, TypeOK
<1>10. ASSUME NEW r \in Request, Refuse(r)
       PROVE  Unbroken'
  BY <1>3, <1>9, <1>10 DEF Refuse, workers
<1>11. CASE \/ \E r \in Request : Submit(r)
            \/ \E q \in Queue : Drop(q)
            \/ \E w \in Worker : Take(w) \/ QueueEmpty(w)
            \/ StartFrontend
  <2>1. UNCHANGED <<thread, cut, stops>> /\ (front' = front \/ front' = "up")
    BY <1>11 DEF Submit, Drop, Take, QueueEmpty, StartFrontend, clients, workers, history
  <2> QED BY <1>3, <2>1
<1>12. ASSUME NEW w \in Worker, Lose(w)
       PROVE  Unbroken'
  <2>1. \A t \in Thread : thread'[t] = "cut" => thread[t] = "cut"
    BY <1>9, <1>12 DEF Lose, Apology
  <2> QED BY <1>3, <1>12, <2>1 DEF Lose, workers
<1>13. ASSUME NEW w \in Worker, Finish(w)
       PROVE  Unbroken'
  <2>1. \A t \in Thread : thread'[t] = "cut" => thread[t] = "cut"
    BY <1>9, <1>13 DEF Finish
  <2> QED BY <1>3, <1>13, <2>1 DEF Finish
<1>14. CASE \E w \in Worker : \/ StartWorker(w) \/ Ask(w) \/ FinishInVain(w)
                              \/ WorkerFails(w) \/ HeedSignal(w) \/ Terminate(w)
  <2>1. UNCHANGED <<thread, front, stops>> /\ cut' \subseteq cut
    BY <1>14 DEF StartWorker, Ask, FinishInVain, WorkerFails, HeedSignal, EndWorker,
                 Terminate, clients, frontend, history
  <2> QED BY <1>3, <2>1
<1>15. ASSUME NEW w \in Worker, KillWorker(w)
       PROVE  Unbroken'
  <2>1. stops'.frontend = stops.frontend
    BY <1>15 DEF KillWorker, TypeOK, Stops
  <2> QED BY <1>3, <1>15, <2>1 DEF KillWorker, EndWorker, clients, frontend
<1>16. CASE UNCHANGED vars
  BY <1>3, <1>16 DEF vars, clients, frontend, workers, history
<1> QED
  BY <1>2, <1>5, <1>6, <1>7, <1>8, <1>10, <1>11, <1>12, <1>13, <1>14, <1>15, <1>16
     DEF Next, Faults, Restarts, Accept, Pull, Round

\* Who can take a client down while the frontend stays.
LEMMA ClientsStay ==
  ASSUME TypeOK, Unbroken, [Next]_vars, stops'.frontend = 0, stops'.client = stops.client,
         NEW p \in Client, client[p] = "up"
  PROVE  client'[p] = "up"
<1>1. stops.client \in Nat /\ stops.frontend \in Nat
  BY StopsTyped DEF TypeOK
<1>2. \A c \in Client : ~StopClient(c)
  <2> SUFFICES ASSUME NEW c \in Client, StopClient(c) PROVE FALSE
    OBVIOUS
  <2>1. stops'.client = stops.client + 1
    BY DEF StopClient, TypeOK, Stops
  <2> QED BY <1>1, <2>1
<1>3. ~StopFrontend
  <2> SUFFICES ASSUME StopFrontend PROVE FALSE
    OBVIOUS
  <2>1. stops'.frontend = stops.frontend + 1
    BY DEF StopFrontend, TypeOK, Stops
  <2> QED BY <1>1, <2>1
<1>4. ASSUME NEW t \in Thread, ClientFails(t)
      PROVE  FALSE
  <2>1. stops.frontend = 0
    BY <1>4 DEF ClientFails
  <2> QED BY <1>4, <2>1 DEF ClientFails, Unbroken
<1>5. ASSUME NEW c \in Client, StartClient(c)
      PROVE  client'[p] = "up"
  BY <1>5 DEF StartClient, TypeOK
<1>6. ASSUME client' = client
      PROVE  client'[p] = "up"
  BY <1>6
<1>7. CASE UNCHANGED vars
  BY <1>6, <1>7 DEF vars, clients
<1>8. ASSUME \/ \E t \in Thread : Dial(t)
             \/ StartFrontend
             \/ \E r \in Request : Accept(r)
             \/ Pull
      PROVE  client'[p] = "up"
  BY <1>6, <1>8 DEF Dial, StartFrontend, Accept, Refuse, Submit, Pull, Drop, Take, QueueEmpty,
                    clients
<1>9. ASSUME NEW w \in Worker, \/ Terminate(w) \/ KillWorker(w) \/ StartWorker(w)
                                \/ Lose(w) \/ Round(w)
      PROVE  client'[p] = "up"
  BY <1>6, <1>9 DEF Terminate, KillWorker, StartWorker, Lose, Round, Ask, Finish, FinishInVain,
                    WorkerFails, HeedSignal, EndWorker, clients
<1> QED
  BY <1>2, <1>3, <1>4, <1>5, <1>7, <1>8, <1>9 DEF Next, Faults, Restarts

\* Who can take a worker down while the frontend stays.
LEMMA WorkersStay ==
  ASSUME TypeOK, Unbroken, [Next]_vars, stops'.frontend = 0, stops'.worker = stops.worker,
         NEW w \in Worker, worker[w] # "down", worker'[w] = "down"
  PROVE  signal[w] \/ pending[QueueOf[w]] = <<>>
<1>1. stops.worker \in Nat /\ stops.frontend \in Nat
      /\ worker \in [Worker -> {"down", "ask", "pull", "work", "check"}]
  BY StopsTyped DEF TypeOK
<1>2. worker' # worker
  OBVIOUS
<1>3. \A v \in Worker : ~KillWorker(v)
  <2> SUFFICES ASSUME NEW v \in Worker, KillWorker(v) PROVE FALSE
    OBVIOUS
  <2>1. stops'.worker = stops.worker + 1
    BY DEF KillWorker, TypeOK, Stops
  <2> QED BY <1>1, <2>1
<1>4. ~StopFrontend
  BY <1>2 DEF StopFrontend
<1>5. ASSUME NEW v \in Worker, WorkerFails(v)
      PROVE  FALSE
  <2>1. stops.frontend = 0
    BY <1>5 DEF WorkerFails
  <2> QED BY <1>5, <2>1 DEF WorkerFails, Unbroken
<1>6. ASSUME NEW v \in Worker, HeedSignal(v)
      PROVE  signal[w]
  BY <1>1, <1>6 DEF HeedSignal, EndWorker
<1>7. ASSUME NEW v \in Worker, QueueEmpty(v)
      PROVE  pending[QueueOf[w]] = <<>>
  BY <1>1, <1>7 DEF QueueEmpty, Answered
<1>8. ASSUME NEW v \in Worker, \/ Take(v) \/ StartWorker(v) \/ Ask(v) \/ Finish(v)
                                \/ FinishInVain(v)
      PROVE  FALSE
  BY <1>1, <1>8 DEF Take, Answered, StartWorker, Ask, Finish, FinishInVain
<1>9. ASSUME NEW v \in Worker, Terminate(v) \/ Lose(v)
      PROVE  FALSE
  BY <1>2, <1>9 DEF Terminate, Lose, workers
<1>10. ASSUME \/ \E p \in Client : StopClient(p) \/ StartClient(p)
              \/ \E t \in Thread : Dial(t) \/ ClientFails(t)
              \/ StartFrontend
              \/ \E r \in Request : Accept(r)
              \/ \E q \in Queue : Drop(q)
       PROVE  FALSE
  BY <1>2, <1>10 DEF StopClient, StartClient, Dial, ClientFails, EndClient, StartFrontend,
                     Accept, Refuse, Submit, Drop, workers
<1>11. ~UNCHANGED vars
  BY <1>2 DEF vars, workers
<1> QED
  BY <1>3, <1>4, <1>5, <1>6, <1>7, <1>8, <1>9, <1>10, <1>11
     DEF Next, Faults, Restarts, Pull, Round

\* As long as the frontend stays, the end of a client or a worker is contained:
\* it takes nobody else down.
THEOREM FaultsAreContained == Spec => FaultsContained
<1>1. Init => TypeOK /\ LinksInv /\ Unbroken
  <2>1. Init => Unbroken
    BY DEF Init, Unbroken
  <2> QED BY <2>1, TypeInit
<1>2. TypeOK /\ LinksInv /\ Unbroken /\ [Next]_vars => TypeOK' /\ LinksInv' /\ Unbroken'
  BY TypeNext, UnbrokenNext
<1>3. TypeOK /\ Unbroken /\ [Next]_vars =>
        [stops'.frontend = 0 =>
           /\ stops'.client = stops.client =>
                \A p \in Client : client[p] = "up" => client'[p] = "up"
           /\ stops'.worker = stops.worker =>
                \A w \in Worker :
                  worker[w] # "down" /\ worker'[w] = "down"
                    => signal[w] \/ pending[QueueOf[w]] = <<>>]_vars
  BY ClientsStay, WorkersStay
<1> QED BY <1>1, <1>2, <1>3, PTL DEF Spec, FaultsContained

-----------------------------------------------------------------------------
(* Lost requests. *)

\* The workers that were killed while the frontend waits for them, or still has
\* a pull of theirs to answer: each can cost one request.
Owed == {w \in Worker : worker[w] = "down" /\ (w \in pulls \/ serving[w] # None)}

\* The requests lost and those that can still be are no more than the kills.
LossInv == lost + Cardinality(Owed) <= stops.worker

\* The workers that are owed are finitely many, and the fewer the less.
LEMMA OwedFinite ==
  /\ IsFiniteSet(Owed) /\ Cardinality(Owed) \in Nat
  /\ \A S \in SUBSET Owed : IsFiniteSet(S) /\ Cardinality(S) \in Nat
                            /\ Cardinality(S) <= Cardinality(Owed)
<1>1. Owed \in SUBSET Worker /\ IsFiniteSet(Worker)
  BY SystemAssumption DEF SystemAssumption, Owed
<1>2. IsFiniteSet(Owed)
  BY <1>1, FS_Subset
<1> QED BY <1>2, FS_Subset, FS_CardinalityType

\* A step that leaves no other worker owed and is no loss changes nothing.
LEMMA NotOwed ==
  ASSUME TypeOK, LossInv, Owed' \subseteq Owed, lost' = lost, stops'.worker = stops.worker
  PROVE  LossInv'
<1>1. Cardinality(Owed') <= Cardinality(Owed) /\ Cardinality(Owed') \in Nat
      /\ Cardinality(Owed) \in Nat
  BY OwedFinite
<1>2. lost \in Nat /\ stops.worker \in Nat
  BY StopsTyped DEF TypeOK
<1> QED BY <1>1, <1>2 DEF LossInv

\* Every step keeps the balance.
LEMMA LossNext ==
  ASSUME TypeOK, LinksInv, LossInv, [Next]_vars
  PROVE  LossInv'
<1>1. lost \in Nat /\ stops.worker \in Nat
      /\ worker \in [Worker -> {"down", "ask", "pull", "work", "check"}]
      /\ serving \in [Worker -> Request \cup {None}]
  BY StopsTyped DEF TypeOK
<1>2. \A v \in Worker : WorkerLinked(v)
  BY DEF LinksInv
<1>3. ASSUME NEW w \in Worker, Lose(w)
      PROVE  LossInv'
  <2>1. serving[w] # None /\ serving' = [serving EXCEPT ![w] = None]
        /\ worker' = worker /\ pulls' = pulls /\ lost' = lost + 1 /\ stops' = stops
    BY <1>3, AnswerTyped DEF Lose, workers
  <2>2. worker[w] = "down" /\ w \notin pulls
    BY <1>2, <1>3, <2>1 DEF Lose, WorkerLinked
  <2>3. Owed' = Owed \ {w} /\ w \in Owed
    BY <1>1, <2>1, <2>2 DEF Owed
  <2>4. Cardinality(Owed') = Cardinality(Owed) - 1 /\ Cardinality(Owed) \in Nat
    BY <2>3, OwedFinite, FS_RemoveElement
  <2> QED BY <1>1, <2>1, <2>4 DEF LossInv
<1>4. ASSUME NEW w \in Worker, EndWorker(w)
      PROVE  Owed' \subseteq Owed \cup {w}
  BY <1>1, <1>4 DEF EndWorker, Owed, frontend, queues
<1>5. ASSUME NEW w \in Worker, KillWorker(w)
      PROVE  LossInv'
  <2>1. Owed' \subseteq Owed \cup {w} /\ lost' = lost
    BY <1>4, <1>5 DEF KillWorker, EndWorker
  <2>2. stops'.worker = stops.worker + 1
    BY <1>5 DEF KillWorker, TypeOK, Stops
  <2>3. IsFiniteSet(Owed \cup {w}) /\ Cardinality(Owed \cup {w}) <= Cardinality(Owed) + 1
        /\ Cardinality(Owed) \in Nat
    BY OwedFinite, FS_AddElement
  <2>4. Cardinality(Owed') <= Cardinality(Owed \cup {w}) /\ Cardinality(Owed') \in Nat
        /\ Cardinality(Owed \cup {w}) \in Nat
    BY <2>1, <2>3, FS_Subset, FS_CardinalityType
  <2> QED BY <1>1, <2>1, <2>2, <2>3, <2>4 DEF LossInv
<1>6. ASSUME NEW w \in Worker, WorkerFails(w) \/ HeedSignal(w)
      PROVE  LossInv'
  <2>1. w \notin pulls /\ serving[w] = None
    BY <1>2, <1>6 DEF WorkerFails, HeedSignal, Asks, AtCheck, WorkerLinked
  <2>2. EndWorker(w) /\ stops' = stops
    BY <1>6 DEF WorkerFails, HeedSignal
  <2>3. UNCHANGED <<pulls, serving, lost>>
    BY <2>2 DEF EndWorker, frontend, queues
  <2>4. w \notin Owed'
    BY <2>1, <2>3 DEF Owed
  <2>5. Owed' \subseteq Owed
    BY <1>4, <2>2, <2>4
  <2> QED BY <2>2, <2>3, <2>5, NotOwed
<1>7. ASSUME NEW w \in Worker, Take(w)
      PROVE  LossInv'
  <2>1. w \in pulls /\ pulls' = pulls \ {w} /\ lost' = lost /\ stops' = stops
        /\ worker' = [worker EXCEPT ![w] = IF worker[w] = "pull" THEN "work" ELSE worker[w]]
    BY <1>7 DEF Take, Answered, history
  <2>2. serving' = [serving EXCEPT ![w] = Head(pending[QueueOf[w]])]
    BY <1>7, TakeTyped, QueuesTyped DEF Take
  <2>3. Owed' \subseteq Owed
    BY <1>1, <2>1, <2>2 DEF Owed
  <2> QED BY <2>1, <2>3, NotOwed
<1>8. ASSUME NEW w \in Worker, QueueEmpty(w)
      PROVE  LossInv'
  <2>1. w \in pulls /\ pulls' = pulls \ {w} /\ UNCHANGED <<serving, lost, stops>>
        /\ \E next : worker' = [worker EXCEPT ![w] = IF worker[w] = "pull" THEN next
                                                                       ELSE worker[w]]
    BY <1>8 DEF QueueEmpty, Answered, queues, history
  <2>2. serving[w] = None
    BY <1>2, <2>1 DEF WorkerLinked
  <2>3. Owed' \subseteq Owed
    BY <1>1, <2>1, <2>2 DEF Owed
  <2> QED BY <2>1, <2>3, NotOwed
<1>9. CASE StopFrontend
  <2>1. Owed' = {}
    BY <1>9 DEF StopFrontend, Owed
  <2>2. lost' = lost /\ stops'.worker = stops.worker
    BY <1>9 DEF StopFrontend, TypeOK, Stops
  <2> QED BY <2>1, <2>2, NotOwed
<1>10. ASSUME NEW w \in Worker, StartWorker(w) \/ Ask(w) \/ FinishInVain(w)
       PROVE  LossInv'
  <2>1. UNCHANGED <<serving, lost, stops>> /\ pulls' \subseteq pulls \cup {w}
        /\ \E next \in {"ask", "pull", "check"} : worker' = [worker EXCEPT ![w] = next]
    BY <1>10 DEF StartWorker, Ask, FinishInVain, frontend, queues, history
  <2>2. Owed' \subseteq Owed
    BY <1>1, <2>1 DEF Owed
  <2> QED BY <2>1, <2>2, NotOwed
<1>11. ASSUME NEW w \in Worker, Finish(w)
       PROVE  LossInv'
  <2>1. serving' = [serving EXCEPT ![w] = None] /\ pulls' = pulls
        /\ worker' = [worker EXCEPT ![w] = "check"] /\ UNCHANGED <<lost, stops>>
    BY <1>11, AnswerTyped DEF Finish
  <2>2. Owed' \subseteq Owed
    BY <1>1, <2>1 DEF Owed
  <2> QED BY <2>1, <2>2, NotOwed
<1>12. ASSUME UNCHANGED <<pulls, serving, worker, lost>>, stops'.worker = stops.worker
       PROVE  LossInv'
  <2>1. Owed' = Owed
    BY <1>12 DEF Owed
  <2> QED BY <1>12, <2>1, NotOwed
<1>13. ASSUME NEW p \in Client, StopClient(p)
       PROVE  LossInv'
  <2>1. stops'.worker = stops.worker
    BY <1>13 DEF StopClient, TypeOK, Stops
  <2> QED BY <1>12, <1>13, <2>1 DEF StopClient, EndClient, frontend, queues, workers
<1>14. CASE \/ \E p \in Client : StartClient(p)
            \/ \E t \in Thread : Dial(t) \/ ClientFails(t)
            \/ \E r \in Request : Accept(r)
            \/ \E q \in Queue : Drop(q)
            \/ StartFrontend
            \/ \E w \in Worker : Terminate(w)
            \/ UNCHANGED vars
  <2>1. UNCHANGED <<pulls, serving, worker, lost, stops>>
    BY <1>14, RefuseTyped, SubmitTyped, DropTyped
       DEF StartClient, Dial, ClientFails, EndClient, Accept, Refuse, Submit, Drop,
           StartFrontend, Terminate, vars, frontend, queues, workers, history
  <2> QED BY <1>12, <2>1
<1> QED
  BY <1>3, <1>5, <1>6, <1>7, <1>8, <1>9, <1>10, <1>11, <1>13, <1>14
     DEF Next, Faults, Restarts, Pull, Round

\* Scaling workers down, moving them and restarting them fails no request; a
\* worker that is killed fails at most one.
THEOREM OnlyKillsLose == Spec => []LostOnlyToKills
<1>1. Init => TypeOK /\ LinksInv /\ LossInv
  <2> SUFFICES ASSUME Init PROVE LossInv
    BY TypeInit
  <2>1. Owed = {} /\ lost = 0 /\ stops.worker = 0
    BY DEF Init, WQ!Init, Owed
  <2> QED BY <2>1, FS_EmptySet DEF LossInv
<1>2. TypeOK /\ LinksInv /\ LossInv /\ [Next]_vars => TypeOK' /\ LinksInv' /\ LossInv'
  BY TypeNext, LossNext
<1>3. TypeOK /\ LossInv => LostOnlyToKills
  <2> SUFFICES ASSUME TypeOK, LossInv PROVE LostOnlyToKills
    OBVIOUS
  <2>1. lost \in Nat /\ stops.worker \in Nat
    BY StopsTyped DEF TypeOK
  <2>2. Cardinality(Owed) \in Nat
    BY OwedFinite
  <2> QED BY <2>1, <2>2 DEF LossInv, LostOnlyToKills
<1> QED BY <1>1, <1>2, <1>3, PTL DEF Spec

-----------------------------------------------------------------------------
(* Where the requests are. *)

\* Request r waits at position i of queue q.
InQueue(r, q, i) == i \in DOMAIN pending[q] /\ pending[q][i] = r

\* The frontend has request r.
Somewhere(r) ==
  \/ r \in backlog
  \/ \E q \in Queue : \E i : InQueue(r, q, i)
  \/ \E w \in Worker : serving[w] = r

\* The frontend has request r no more than once.
Once(r) ==
  /\ r \in backlog => /\ \A q \in Queue : \A i : ~InQueue(r, q, i)
                      /\ \A w \in Worker : serving[w] # r
  /\ \A q \in Queue : \A i : InQueue(r, q, i) =>
       /\ \A w \in Worker : serving[w] # r
       /\ \A p \in Queue : \A j : InQueue(r, p, j) => p = q /\ j = i
  /\ \A v, w \in Worker : serving[v] = r /\ serving[w] = r => v = w

\* A thread that waits has its request in a running frontend.
Present(t) ==
  thread[t] = "waiting" => front = "up" /\ Current(t) \in Request /\ Somewhere(Current(t))

\* A request is in one place, and in none before it is made.
PlaceInv ==
  /\ \A r \in Request : Once(r) /\ (Somewhere(r) => r.n > left[r.thread])
  /\ \A t \in Thread : Present(t)

\* If no request gets a new place and the waiting threads keep theirs, then the
\* invariant is kept.
LEMMA NoNewPlaces ==
  ASSUME PlaceInv, left' = left,
         \A r \in Request : Once(r)' /\ (Somewhere(r)' => Somewhere(r)),
         \A t \in Thread : thread'[t] = "waiting" =>
            thread[t] = "waiting" /\ front' = "up" /\ Somewhere(Current(t))'
  PROVE  PlaceInv'
<1>1. \A t \in Thread : Current(t)' = Current(t)
  BY DEF Current
<1>2. ASSUME NEW t \in Thread
      PROVE  Present(t)'
  BY <1>1, <1>2 DEF PlaceInv, Present
<1> QED BY <1>2 DEF PlaceInv

\* Steps that do not touch the places.
LEMMA PlacesStay ==
  ASSUME PlaceInv, UNCHANGED <<left, backlog, pending, serving>>,
         front' = front \/ front' = "up",
         \A t \in Thread : thread'[t] = "waiting" => thread[t] = "waiting"
  PROVE  PlaceInv'
<1>1. ASSUME NEW r \in Request
      PROVE  Once(r)' = Once(r) /\ Somewhere(r)' = Somewhere(r)
  BY DEF Once, Somewhere, InQueue
<1>2. ASSUME NEW t \in Thread, thread'[t] = "waiting"
      PROVE  thread[t] = "waiting" /\ front' = "up" /\ Somewhere(Current(t))'
  <2>1. thread[t] = "waiting" /\ Current(t)' = Current(t)
    BY <1>2 DEF Current
  <2>2. front = "up" /\ Somewhere(Current(t))
    BY <2>1 DEF PlaceInv, Present
  <2> QED BY <2>1, <2>2 DEF Somewhere, InQueue
<1>3. \A r \in Request : Once(r)' /\ (Somewhere(r)' => Somewhere(r))
  BY <1>1 DEF PlaceInv
<1> QED BY <1>2, <1>3, NoNewPlaces

\* A thread that waits for r hears of it, and no other one is concerned.
LEMMA TellPlaces ==
  ASSUME TypeOK, NEW r \in Request, NEW what, Tell(r, what), left' = left
  PROVE  \A t \in Thread : thread'[t] = "waiting" => thread[t] = "waiting" /\ Current(t) # r
<1> SUFFICES ASSUME NEW t \in Thread, thread'[t] = "waiting"
             PROVE  thread[t] = "waiting" /\ Current(t) # r
  OBVIOUS
<1>1. r.thread \in Thread
  BY DEF Request
<1>2. Current(t) = r => r.thread = t
  BY DEF Current
<1> QED BY <1>1, <1>2 DEF Tell, Waits, TypeOK

\* A thread dials: its request is a new one.
LEMMA DialPlaces ==
  ASSUME TypeOK, PlaceInv, NEW t \in Thread, Dial(t)
  PROVE  PlaceInv'
<1> PICK r \in Request : r = [thread |-> t, n |-> left[t]]
  BY RequestsTyped DEF Dial
<1>1. /\ left[t] > 0 /\ left[t] \in 0 .. MaxRequests /\ MaxRequests \in Nat
      /\ left \in [Thread -> 0 .. MaxRequests]
  BY RequestsTyped, SystemAssumption DEF SystemAssumption, Dial, TypeOK
<1>2. /\ backlog' = backlog \cup {r} /\ pending' = pending /\ serving' = serving
      /\ left' = [left EXCEPT ![t] = @ - 1] /\ thread' = [thread EXCEPT ![t] = "waiting"]
      /\ front = "up" /\ front' = front
  BY DEF Dial, queues
<1>3. ~Somewhere(r)
  <2>1. r.n = left[r.thread] /\ left[t] \in Int
    BY <1>1
  <2> QED BY <1>1, <2>1 DEF PlaceInv
<1>4. left'[t] = left[t] - 1 /\ \A s \in Thread : s # t => left'[s] = left[s]
  BY <1>1, <1>2
<1>5. ASSUME NEW x \in Request
      PROVE  Once(x)' /\ (Somewhere(x)' => Somewhere(x) \/ x = r)
  BY <1>2, <1>3 DEF PlaceInv, Once, Somewhere, InQueue
<1>6. ASSUME NEW x \in Request, Somewhere(x)'
      PROVE  x.n > left'[x.thread]
  <2>1. x.thread \in Thread /\ x.n \in Int
    BY DEF Request
  <2>2. CASE x = r
    BY <1>1, <1>4, <2>2
  <2>3. CASE x # r
    <3>1. x.n > left[x.thread]
      BY <1>5, <1>6, <2>3 DEF PlaceInv
    <3>2. left[x.thread] \in Int /\ left'[x.thread] <= left[x.thread]
          /\ left'[x.thread] \in Int
      BY <1>1, <1>4, <2>1
    <3> QED BY <2>1, <3>1, <3>2
  <2> QED BY <2>2, <2>3
<1>7. ASSUME NEW s \in Thread
      PROVE  Present(s)'
  <2>1. CASE s = t
    <3>1. Current(s)' = r
      BY <1>1, <1>4, <2>1 DEF Current
    <3>2. Somewhere(r)'
      BY <1>2 DEF Somewhere
    <3> QED BY <1>1, <1>2, <3>1, <3>2 DEF Present
  <2>2. CASE s # t
    <3>1. Current(s)' = Current(s) /\ thread'[s] = thread[s]
      BY <1>2, <1>4, <2>2 DEF Current, TypeOK
    <3>2. Somewhere(Current(s)) => Somewhere(Current(s))'
      BY <1>2, <3>1 DEF Somewhere, InQueue
    <3> QED BY <1>2, <3>1, <3>2 DEF PlaceInv, Present
  <2> QED BY <2>1, <2>2
<1> QED BY <1>5, <1>6, <1>7 DEF PlaceInv

\* A request is refused: it is in no place any more, and its client knows.
LEMMA RefusePlaces ==
  ASSUME TypeOK, PlaceInv, NEW r \in Request, Refuse(r)
  PROVE  /\ PlaceInv'
         /\ \A x \in Request : Somewhere(x)' => Somewhere(x)
         /\ r \in backlog /\ ~Somewhere(r)'
<1>1. backlog' = backlog \ {r} /\ pending' = pending /\ serving' = serving
      /\ left' = left /\ front' = front
  BY RefuseTyped DEF Refuse
<1>2. ASSUME NEW x \in Request
      PROVE  Once(x)' /\ (Somewhere(x)' => Somewhere(x))
  BY <1>1 DEF PlaceInv, Once, Somewhere, InQueue
<1>3. \A t \in Thread : thread'[t] = "waiting" => thread[t] = "waiting" /\ Current(t) # r
  BY <1>1, TellPlaces DEF Refuse
<1>4. ASSUME NEW t \in Thread, thread'[t] = "waiting"
      PROVE  thread[t] = "waiting" /\ front' = "up" /\ Somewhere(Current(t))'
  <2>1. thread[t] = "waiting" /\ Current(t) # r /\ Current(t)' = Current(t)
    BY <1>1, <1>3, <1>4 DEF Current
  <2>2. front = "up" /\ Somewhere(Current(t))
    BY <2>1 DEF PlaceInv, Present
  <2> QED BY <1>1, <2>1, <2>2 DEF Somewhere, InQueue
<1>5. r \in backlog /\ ~Somewhere(r)'
  BY <1>1 DEF Refuse, PlaceInv, Once, Somewhere, InQueue
<1> QED BY <1>1, <1>2, <1>4, <1>5, NoNewPlaces

\* A request goes from the listener to the end of its queue.
LEMMA SubmitPlaces ==
  ASSUME TypeOK, PlaceInv, NEW r \in Request, Submit(r)
  PROVE  /\ PlaceInv'
         /\ \A x \in Request : Somewhere(x)' => Somewhere(x)
<1> PICK to \in Queue : to = QueueOf[r.thread]
  BY QueuesTyped
<1>1. /\ r \in backlog /\ backlog' = backlog \ {r} /\ serving' = serving
      /\ pending' = [pending EXCEPT ![to] = Append(@, r)]
      /\ left' = left /\ front' = front /\ thread' = thread
  BY SubmitTyped DEF Submit, clients
<1>2. \A q \in Queue : pending[q] \in Seq(Request)
  BY DEF TypeOK
<1>3. \A q \in Queue : q # to => pending'[q] = pending[q]
  BY <1>1 DEF TypeOK
<1> DEFINE s == pending[to]
<1>11. s \in Seq(Request) /\ pending'[to] = Append(s, r)
  BY <1>1, <1>2 DEF TypeOK
<1> HIDE DEF s
<1>12. /\ DOMAIN s = 1 .. Len(s) /\ Len(s) \in Nat
       /\ DOMAIN Append(s, r) = 1 .. Len(s) + 1
       /\ Append(s, r)[Len(s) + 1] = r
  BY <1>11
<1>13. ASSUME NEW i \in DOMAIN s
       PROVE  Append(s, r)[i] = s[i]
  BY <1>11
<1>4. /\ pending'[to] = Append(pending[to], r)
      /\ DOMAIN pending[to] = 1 .. Len(pending[to]) /\ Len(pending[to]) \in Nat
      /\ DOMAIN pending'[to] = 1 .. Len(pending[to]) + 1
      /\ pending'[to][Len(pending[to]) + 1] = r
      /\ \A i \in DOMAIN pending[to] : pending'[to][i] = pending[to][i]
  BY <1>11, <1>12, <1>13 DEF s
<1> PICK last \in Nat : last = Len(pending[to]) + 1
  BY <1>4
<1>5. ASSUME NEW x \in Request, NEW q \in Queue, NEW i
      PROVE  InQueue(x, q, i)' <=> InQueue(x, q, i) \/ (x = r /\ q = to /\ i = last)
  <2>1. CASE q # to
    BY <1>3, <2>1 DEF InQueue
  <2>2. CASE q = to
    <3>1. i \in DOMAIN pending'[to] <=> i \in DOMAIN pending[to] \/ i = last
      BY <1>4
    <3>2. last \notin DOMAIN pending[to]
      BY <1>4
    <3>3. CASE i = last
      BY <1>4, <2>2, <3>1, <3>2, <3>3 DEF InQueue
    <3>4. CASE i # last
      BY <1>4, <2>2, <3>1, <3>4 DEF InQueue
    <3> QED BY <3>3, <3>4
  <2> QED BY <2>1, <2>2
<1>6. Once(r) /\ (\A q \in Queue : \A i : ~InQueue(r, q, i)) /\ (\A w \in Worker : serving[w] # r)
  BY <1>1 DEF PlaceInv, Once
<1>7. Once(r)'
  <2>1. r \notin backlog' /\ \A w \in Worker : serving'[w] # r
    BY <1>1, <1>6
  <2>2. \A q \in Queue : \A i : InQueue(r, q, i)' => q = to /\ i = last
    BY <1>5, <1>6
  <2> QED BY <2>1, <2>2 DEF Once
<1>8. ASSUME NEW x \in Request, x # r
      PROVE  Once(x)' /\ (Somewhere(x)' <=> Somewhere(x))
  <2>1. \A q \in Queue : \A i : InQueue(x, q, i)' <=> InQueue(x, q, i)
    BY <1>5, <1>8
  <2>2. x \in backlog' <=> x \in backlog
    BY <1>1, <1>8
  <2> QED BY <1>1, <2>1, <2>2 DEF PlaceInv, Once, Somewhere
<1>9. Somewhere(r) /\ Somewhere(r)'
  <2>1. InQueue(r, to, last)'
    BY <1>5
  <2> QED BY <1>1, <2>1 DEF Somewhere
<1>10. ASSUME NEW t \in Thread, thread'[t] = "waiting"
       PROVE  thread[t] = "waiting" /\ front' = "up" /\ Somewhere(Current(t))'
  <2>1. thread[t] = "waiting" /\ Current(t)' = Current(t)
    BY <1>1, <1>10 DEF Current
  <2> PICK x \in Request : x = Current(t)
    BY <2>1 DEF PlaceInv, Present
  <2>2. front = "up" /\ Somewhere(x)
    BY <2>1 DEF PlaceInv, Present
  <2>3. Somewhere(x)'
    BY <1>8, <1>9, <2>2
  <2> QED BY <1>1, <2>1, <2>2, <2>3
<1> QED BY <1>1, <1>7, <1>8, <1>9, <1>10, NoNewPlaces

\* Where requests are in a queue whose head goes.
LEMMA TailPlaces ==
  ASSUME TypeOK, NEW from \in Queue, pending[from] # <<>>,
         pending' = [pending EXCEPT ![from] = Tail(@)]
  PROVE  /\ Head(pending[from]) \in Request /\ InQueue(Head(pending[from]), from, 1)
         /\ \A x \in Request, q \in Queue : \A i :
              InQueue(x, q, i)' => IF q = from THEN i \in Nat /\ InQueue(x, q, i + 1)
                                              ELSE InQueue(x, q, i)
         /\ \A x \in Request, q \in Queue : \A i :
              InQueue(x, q, i) => IF q = from THEN i = 1 \/ InQueue(x, q, i - 1)'
                                              ELSE InQueue(x, q, i)'
<1>1. pending[from] \in Seq(Request) /\ pending'[from] = Tail(pending[from])
      /\ \A q \in Queue : q # from => pending'[q] = pending[q]
  BY DEF TypeOK
<1> DEFINE s == pending[from]
<1>6. s \in Seq(Request) /\ s # <<>> /\ pending'[from] = Tail(s)
  BY <1>1
<1> HIDE DEF s
<1>7. /\ DOMAIN s = 1 .. Len(s) /\ Len(s) \in Nat /\ Len(s) > 0
      /\ Head(s) = s[1] /\ s[1] \in Request
  BY <1>6
<1>8. /\ DOMAIN Tail(s) = 1 .. Len(s) - 1
      /\ \A i \in 1 .. Len(s) - 1 : Tail(s)[i] = s[i + 1]
  BY <1>6
<1>2. /\ DOMAIN pending[from] = 1 .. Len(pending[from]) /\ Len(pending[from]) \in Nat
      /\ Len(pending[from]) > 0
      /\ DOMAIN pending'[from] = 1 .. Len(pending[from]) - 1
      /\ \A i \in 1 .. Len(pending[from]) - 1 : pending'[from][i] = pending[from][i + 1]
      /\ Head(pending[from]) = pending[from][1] /\ pending[from][1] \in Request
  BY <1>6, <1>7, <1>8 DEF s
<1>3. Head(pending[from]) \in Request /\ InQueue(Head(pending[from]), from, 1)
  BY <1>2 DEF InQueue
<1>4. ASSUME NEW x \in Request, NEW q \in Queue, NEW i, InQueue(x, q, i)'
      PROVE  IF q = from THEN i \in Nat /\ InQueue(x, q, i + 1) ELSE InQueue(x, q, i)
  <2>1. CASE q # from
    BY <1>1, <1>4, <2>1 DEF InQueue
  <2>2. CASE q = from
    BY <1>2, <1>4, <2>2 DEF InQueue
  <2> QED BY <2>1, <2>2
<1>5. ASSUME NEW x \in Request, NEW q \in Queue, NEW i, InQueue(x, q, i)
      PROVE  IF q = from THEN i = 1 \/ InQueue(x, q, i - 1)' ELSE InQueue(x, q, i)'
  <2>1. CASE q # from
    BY <1>1, <1>5, <2>1 DEF InQueue
  <2>2. CASE q = from /\ i # 1
    <3>1. i \in 1 .. Len(pending[from])
      BY <1>2, <1>5, <2>2 DEF InQueue
    <3>2. i - 1 \in 1 .. Len(pending[from]) - 1 /\ i - 1 + 1 = i
      BY <1>2, <2>2, <3>1
    <3>3. pending'[from][i - 1] = x
      BY <1>2, <1>5, <2>2, <3>2 DEF InQueue
    <3> QED BY <1>2, <2>2, <3>2, <3>3 DEF InQueue
  <2> QED BY <2>1, <2>2
<1> QED BY <1>3, <1>4, <1>5

\* The head of a queue is dropped, as nobody waits for it.
LEMMA DropPlaces ==
  ASSUME TypeOK, PlaceInv, NEW from \in Queue, Drop(from)
  PROVE  /\ PlaceInv'
         /\ \A x \in Request : Somewhere(x)' => Somewhere(x)
         /\ \E h \in Request : h = Head(pending[from]) /\ Somewhere(h) /\ ~Somewhere(h)'
<1> PICK h \in Request : h = Head(pending[from])
  BY DropTyped DEF Drop
<1>1. /\ pending[from] # <<>> /\ pending' = [pending EXCEPT ![from] = Tail(@)]
      /\ serving' = serving /\ backlog' = backlog /\ left' = left /\ front' = front
      /\ thread' = thread /\ Obsolete(h)
  BY DropTyped DEF Drop, clients
<1>2. InQueue(h, from, 1)
  BY <1>1, TailPlaces
<1>3. ASSUME NEW x \in Request
      PROVE  Once(x)' /\ (Somewhere(x)' => Somewhere(x))
  <2>1. \A q \in Queue : \A i : InQueue(x, q, i)' =>
          IF q = from THEN i \in Nat /\ InQueue(x, q, i + 1) ELSE InQueue(x, q, i)
    BY <1>1, TailPlaces
  <2>2. Once(x)
    BY DEF PlaceInv
  <2>3. \A q \in Queue : \A i : InQueue(x, q, i)' => \E j : InQueue(x, q, j)
    BY <2>1
  <2>4. ASSUME NEW q \in Queue, NEW i, InQueue(x, q, i)', NEW p \in Queue, NEW j, InQueue(x, p, j)'
        PROVE  p = q /\ j = i
    <3>1. p = q
      BY <2>2, <2>3, <2>4 DEF Once
    <3>2. CASE q = from
      <4>1. InQueue(x, q, i + 1) /\ InQueue(x, q, j + 1) /\ i \in Nat /\ j \in Nat
        BY <2>1, <2>4, <3>1, <3>2
      <4>2. i + 1 = j + 1
        BY <2>2, <4>1 DEF Once
      <4> QED BY <3>1, <4>1, <4>2
    <3>3. CASE q # from
      <4>1. InQueue(x, q, i) /\ InQueue(x, q, j)
        BY <2>1, <2>4, <3>1, <3>3
      <4> QED BY <2>2, <3>1, <4>1 DEF Once
    <3> QED BY <3>2, <3>3
  <2> QED BY <1>1, <2>2, <2>3, <2>4 DEF Once, Somewhere
<1>4. ASSUME NEW t \in Thread, thread'[t] = "waiting"
      PROVE  thread[t] = "waiting" /\ front' = "up" /\ Somewhere(Current(t))'
  <2>1. thread[t] = "waiting" /\ Current(t)' = Current(t)
    BY <1>1, <1>4 DEF Current
  <2> PICK x \in Request : x = Current(t)
    BY <2>1 DEF PlaceInv, Present
  <2>2. front = "up" /\ Somewhere(x)
    BY <2>1 DEF PlaceInv, Present
  <2>3. x # h
    BY <1>1, <2>1 DEF Obsolete, Waits, Current
  <2>4. Somewhere(x)'
    <3>1. ASSUME NEW q \in Queue, NEW i, InQueue(x, q, i)
          PROVE  \E j : InQueue(x, q, j)'
      <4>1. ~(q = from /\ i = 1)
        BY <1>2, <2>3, <3>1 DEF InQueue
      <4> QED BY <1>1, <3>1, <4>1, TailPlaces
    <3> QED BY <1>1, <2>2, <3>1 DEF Somewhere
  <2> QED BY <1>1, <2>1, <2>2, <2>4
<1>5. Once(h) /\ Somewhere(h)
  BY <1>2 DEF PlaceInv, Somewhere
<1>6. ASSUME NEW q \in Queue, NEW i, InQueue(h, q, i)'
      PROVE  FALSE
  <2>1. \E j : InQueue(h, q, j)
    BY <1>1, <1>6, TailPlaces
  <2>2. q = from
    BY <1>2, <1>5, <2>1 DEF Once
  <2>3. i \in Nat /\ InQueue(h, from, i + 1)
    BY <1>1, <1>6, <2>2, TailPlaces
  <2>4. i + 1 = 1
    BY <1>2, <1>5, <2>3 DEF Once
  <2>5. pending'[from] \in Seq(Request)
    BY DropTyped DEF Drop
  <2>6. 0 \notin DOMAIN pending'[from]
    BY <2>5
  <2> QED BY <1>6, <2>2, <2>3, <2>4, <2>6 DEF InQueue
<1>7. ~Somewhere(h)'
  BY <1>1, <1>2, <1>5, <1>6 DEF Once, Somewhere
<1>8. PlaceInv'
  BY <1>1, <1>3, <1>4, NoNewPlaces
<1> QED BY <1>3, <1>5, <1>7, <1>8

\* The head of a queue goes to a worker.
LEMMA TakePlaces ==
  ASSUME TypeOK, PlaceInv, NEW w \in Worker, Take(w)
  PROVE  /\ PlaceInv'
         /\ \A x \in Request : Somewhere(x)' => Somewhere(x)
<1> PICK from \in Queue : from = QueueOf[w]
  BY QueuesTyped
<1> PICK h \in Request : h = Head(pending[from])
  BY TakeTyped DEF Take
<1>1. /\ pending[from] # <<>> /\ pending' = [pending EXCEPT ![from] = Tail(@)]
      /\ serving[w] = None /\ serving' = [serving EXCEPT ![w] = h]
      /\ backlog' = backlog /\ left' = left /\ front' = front /\ thread' = thread
  BY TakeTyped DEF Take, clients
<1>2. InQueue(h, from, 1) /\ Once(h)
  BY <1>1, TailPlaces DEF PlaceInv
<1>3. /\ serving'[w] = h /\ \A v \in Worker : v # w => serving'[v] = serving[v]
      /\ \A x \in Request : x # None
  BY <1>1, SystemAssumption DEF SystemAssumption, TypeOK
<1>4. ASSUME NEW x \in Request
      PROVE  \A q \in Queue : \A i :
               /\ InQueue(x, q, i)' =>
                    IF q = from THEN i \in Nat /\ InQueue(x, q, i + 1) ELSE InQueue(x, q, i)
               /\ InQueue(x, q, i) =>
                    IF q = from THEN i = 1 \/ InQueue(x, q, i - 1)' ELSE InQueue(x, q, i)'
  BY <1>1, TailPlaces
<1>5. Once(h)'
  <2>1. \A q \in Queue : \A i : ~InQueue(h, q, i)'
    <3> SUFFICES ASSUME NEW q \in Queue, NEW i, InQueue(h, q, i)' PROVE FALSE
      OBVIOUS
    <3>1. CASE q = from
      <4>1. i \in Nat /\ InQueue(h, from, i + 1)
        BY <1>4, <3>1
      <4>2. i + 1 = 1
        BY <1>2, <4>1 DEF Once
      <4>3. i = 0
        BY <4>1, <4>2
      <4>4. pending'[from] \in Seq(Request)
        BY TakeTyped DEF Take
      <4>5. 0 \notin DOMAIN pending'[from]
        BY <4>4
      <4> QED BY <3>1, <4>3, <4>5 DEF InQueue
    <3>2. CASE q # from
      BY <1>2, <1>4, <3>2 DEF Once
    <3> QED BY <3>1, <3>2
  <2>2. h \notin backlog' /\ \A v \in Worker : v # w => serving'[v] # h
    BY <1>1, <1>2, <1>3 DEF Once
  <2> QED BY <2>1, <2>2 DEF Once
<1>6. ASSUME NEW x \in Request, x # h
      PROVE  Once(x)'
  <2>1. Once(x) /\ serving'[w] # x
    BY <1>3, <1>6 DEF PlaceInv
  <2>2. \A q \in Queue : \A i : InQueue(x, q, i)' => \E j : InQueue(x, q, j)
    BY <1>4
  <2>3. ASSUME NEW q \in Queue, NEW i, InQueue(x, q, i)', NEW p \in Queue, NEW j, InQueue(x, p, j)'
        PROVE  p = q /\ j = i
    <3>1. p = q
      BY <2>1, <2>2, <2>3 DEF Once
    <3>2. CASE q = from
      <4>1. InQueue(x, q, i + 1) /\ InQueue(x, q, j + 1) /\ i \in Nat /\ j \in Nat
        BY <1>4, <2>3, <3>1, <3>2
      <4>2. i + 1 = j + 1
        BY <2>1, <4>1 DEF Once
      <4> QED BY <3>1, <4>1, <4>2
    <3>3. CASE q # from
      <4>1. InQueue(x, q, i) /\ InQueue(x, q, j)
        BY <1>4, <2>3, <3>1, <3>3
      <4> QED BY <2>1, <3>1, <4>1 DEF Once
    <3> QED BY <3>2, <3>3
  <2> QED BY <1>1, <1>3, <2>1, <2>2, <2>3 DEF Once
<1>7. ASSUME NEW x \in Request
      PROVE  Somewhere(x)' <=> Somewhere(x)
  <2>1. CASE x = h
    BY <1>2, <1>3, <2>1 DEF Somewhere
  <2>2. CASE x # h
    <3>1. \A q \in Queue : \A i : InQueue(x, q, i)' => \E j : InQueue(x, q, j)
      BY <1>4
    <3>2. ASSUME NEW q \in Queue, NEW i, InQueue(x, q, i)
          PROVE  \E j : InQueue(x, q, j)'
      <4>1. ~(q = from /\ i = 1)
        BY <1>2, <2>2, <3>2 DEF InQueue
      <4> QED BY <1>4, <3>2, <4>1
    <3>3. \A v \in Worker : serving'[v] = x <=> serving[v] = x
      BY <1>1, <1>3, <2>2
    <3> QED BY <1>1, <3>1, <3>2, <3>3 DEF Somewhere
  <2> QED BY <2>1, <2>2
<1>8. ASSUME NEW t \in Thread, thread'[t] = "waiting"
      PROVE  thread[t] = "waiting" /\ front' = "up" /\ Somewhere(Current(t))'
  <2>1. thread[t] = "waiting" /\ Current(t)' = Current(t)
    BY <1>1, <1>8 DEF Current
  <2> PICK x \in Request : x = Current(t)
    BY <2>1 DEF PlaceInv, Present
  <2>2. front = "up" /\ Somewhere(x)
    BY <2>1 DEF PlaceInv, Present
  <2> QED BY <1>1, <1>7, <2>1, <2>2
<1> QED BY <1>1, <1>5, <1>6, <1>7, <1>8, NoNewPlaces

\* A reply goes to the client of a request that a worker had.
LEMMA AnswerPlaces ==
  ASSUME TypeOK, PlaceInv, NEW w \in Worker, NEW what, WQ!Answer(w), Tell(serving[w], what),
         UNCHANGED <<backlog, left, front>>
  PROVE  /\ PlaceInv'
         /\ \A x \in Request : Somewhere(x)' => Somewhere(x)
         /\ \E r \in Request : r = serving[w] /\ Somewhere(r) /\ ~Somewhere(r)'
<1> PICK r \in Request : r = serving[w]
  BY AnswerTyped
<1>1. pending' = pending /\ serving' = [serving EXCEPT ![w] = None]
  BY AnswerTyped
<1>2. /\ serving'[w] = None /\ \A v \in Worker : v # w => serving'[v] = serving[v]
      /\ \A x \in Request : x # None
  BY <1>1, SystemAssumption DEF SystemAssumption, TypeOK
<1>3. ASSUME NEW x \in Request
      PROVE  Once(x)' /\ (Somewhere(x)' => Somewhere(x))
  <2>1. \A v \in Worker : serving'[v] = x => serving[v] = x
    BY <1>2
  <2> QED BY <1>1, <2>1 DEF PlaceInv, Once, Somewhere, InQueue
<1>4. \A t \in Thread : thread'[t] = "waiting" => thread[t] = "waiting" /\ Current(t) # r
  BY TellPlaces
<1>5. ASSUME NEW t \in Thread, thread'[t] = "waiting"
      PROVE  thread[t] = "waiting" /\ front' = "up" /\ Somewhere(Current(t))'
  <2>1. thread[t] = "waiting" /\ Current(t)' = Current(t)
    BY <1>4, <1>5 DEF Current
  <2> PICK x \in Request : x = Current(t)
    BY <2>1 DEF PlaceInv, Present
  <2>2. front = "up" /\ Somewhere(x) /\ x # r
    BY <1>4, <1>5, <2>1 DEF PlaceInv, Present
  <2>3. \A v \in Worker : serving[v] = x => serving'[v] = x
    BY <1>2, <2>2
  <2>4. Somewhere(x)'
    BY <1>1, <2>2, <2>3 DEF Somewhere, InQueue
  <2> QED BY <2>1, <2>2, <2>4
<1>6. Somewhere(r) /\ ~Somewhere(r)'
  BY <1>1, <1>2 DEF PlaceInv, Once, Somewhere, InQueue
<1>7. PlaceInv'
  BY <1>3, <1>5, NoNewPlaces
<1> QED BY <1>3, <1>6, <1>7

\* With the frontend all places go, and nobody waits for it any more.
LEMMA StopPlaces ==
  ASSUME TypeOK, PlaceInv, StopFrontend
  PROVE  PlaceInv'
<1>1. /\ backlog' = {} /\ left' = left
      /\ \A q \in Queue : pending'[q] = <<>>
      /\ \A w \in Worker : serving'[w] = None
      /\ \A t \in Thread : thread'[t] # "waiting"
      /\ \A x \in Request : x # None
  BY SystemAssumption DEF SystemAssumption, StopFrontend, CutOff
<1>2. ASSUME NEW x \in Request
      PROVE  Once(x)' /\ ~Somewhere(x)'
  <2>1. \A q \in Queue : \A i : ~InQueue(x, q, i)'
    BY <1>1 DEF InQueue
  <2> QED BY <1>1, <2>1 DEF Once, Somewhere
<1> QED BY <1>1, <1>2, NoNewPlaces

\* Every step keeps every request in its one place.
LEMMA PlaceNext ==
  ASSUME TypeOK, PlaceInv, [Next]_vars
  PROVE  PlaceInv'
<1>1. ASSUME NEW t \in Thread, Dial(t)
      PROVE  PlaceInv'
  BY <1>1, DialPlaces
<1>2. ASSUME NEW r \in Request, Accept(r)
      PROVE  PlaceInv'
  BY <1>2, RefusePlaces, SubmitPlaces DEF Accept
<1>3. ASSUME NEW q \in Queue, Drop(q)
      PROVE  PlaceInv'
  BY <1>3, DropPlaces
<1>4. ASSUME NEW w \in Worker, Take(w)
      PROVE  PlaceInv'
  BY <1>4, TakePlaces
<1>5. ASSUME NEW w \in Worker, Lose(w) \/ Finish(w)
      PROVE  PlaceInv'
  BY <1>5, AnswerPlaces DEF Lose, Apology, Finish
<1>6. CASE StopFrontend
  BY <1>6, StopPlaces
<1>7. ASSUME NEW p \in Client, EndClient(p)
      PROVE  PlaceInv'
  BY <1>7, PlacesStay DEF EndClient, Orphaned, frontend, queues
<1>8. ASSUME \/ \E p \in Client : StopClient(p)
             \/ \E t \in Thread : ClientFails(t)
      PROVE  PlaceInv'
  BY <1>7, <1>8, SystemAssumption DEF SystemAssumption, StopClient, ClientFails
<1>9. ASSUME \/ StartFrontend
             \/ \E p \in Client : StartClient(p)
             \/ \E w \in Worker : \/ QueueEmpty(w) \/ StartWorker(w) \/ Ask(w) \/ FinishInVain(w)
                                   \/ WorkerFails(w) \/ HeedSignal(w) \/ Terminate(w)
                                   \/ KillWorker(w)
             \/ UNCHANGED vars
      PROVE  PlaceInv'
  <2>1. /\ UNCHANGED <<left, backlog, pending, serving, thread>>
        /\ front' = front \/ front' = "up"
    BY <1>9 DEF StartFrontend, StartClient, QueueEmpty, StartWorker, Ask, FinishInVain,
                WorkerFails, HeedSignal, Terminate, KillWorker, EndWorker, vars, clients,
                frontend, queues
  <2> QED BY <2>1, PlacesStay
<1> QED
  BY <1>1, <1>2, <1>3, <1>4, <1>5, <1>6, <1>8, <1>9 DEF Next, Faults, Restarts, Pull, Round

\* In the beginning there are no requests.
LEMMA PlaceInit == Init => PlaceInv
<1> SUFFICES ASSUME Init PROVE PlaceInv
  OBVIOUS
<1>1. /\ backlog = {}
      /\ \A q \in Queue : pending[q] = <<>>
      /\ \A w \in Worker : serving[w] = None
      /\ \A t \in Thread : thread[t] # "waiting"
      /\ \A x \in Request : x # None
  BY SystemAssumption DEF SystemAssumption, Init, WQ!Init
<1>2. ASSUME NEW x \in Request
      PROVE  Once(x) /\ ~Somewhere(x)
  <2>1. \A q \in Queue : \A i : ~InQueue(x, q, i)
    BY <1>1 DEF InQueue
  <2> QED BY <1>1, <2>1 DEF Once, Somewhere
<1> QED BY <1>1, <1>2 DEF PlaceInv, Present

\* What it is for a place to be one of a request.
LEMMA PlacesAre ==
  ASSUME NEW r, NEW x
  PROVE  x \in Places(r) <=>
           \/ r \in backlog /\ x = <<"backlog", r, 0>>
           \/ \E q \in Queue : \E i : InQueue(r, q, i) /\ x = <<"queue", q, i>>
           \/ \E w \in Worker : serving[w] = r /\ x = <<"worker", w, 0>>
<1>1. x \in Listed(r) <=> r \in backlog /\ x = <<"backlog", r, 0>>
  BY DEF Listed
<1>2. ASSUME NEW q \in Queue
      PROVE  x \in Queued(r, q) <=> \E i : InQueue(r, q, i) /\ x = <<"queue", q, i>>
  BY DEF Queued, InQueue
<1>3. x \in UNION {Queued(r, q) : q \in Queue} <=> \E q \in Queue : x \in Queued(r, q)
  OBVIOUS
<1>4. x \in Served(r) <=> \E w \in Worker : serving[w] = r /\ x = <<"worker", w, 0>>
  BY DEF Served
<1>5. x \in Places(r) <=>
        x \in Listed(r) \/ x \in UNION {Queued(r, q) : q \in Queue} \/ x \in Served(r)
  BY DEF Places
<1> QED BY <1>1, <1>2, <1>3, <1>4, <1>5, Zenon

\* A request in one place is counted once.
LEMMA OnePlace ==
  ASSUME NEW r \in Request, Once(r), Somewhere(r)
  PROVE  Cardinality(Places(r)) = 1
<1>2. CASE r \in backlog
  <2>1. \A x : x \in Places(r) <=> x = <<"backlog", r, 0>>
    BY <1>2, PlacesAre, Zenon DEF Once
  <2>2. Places(r) = {<<"backlog", r, 0>>}
    BY <2>1
  <2> QED BY <2>2, FS_Singleton
<1>3. ASSUME NEW q \in Queue, NEW i, InQueue(r, q, i)
      PROVE  Cardinality(Places(r)) = 1
  <2>1. /\ r \notin backlog /\ \A w \in Worker : serving[w] # r
        /\ \A p \in Queue : \A j : InQueue(r, p, j) => p = q /\ j = i
    BY <1>3 DEF Once
  <2>2. \A x : x \in Places(r) <=> x = <<"queue", q, i>>
    BY <1>3, <2>1, PlacesAre
  <2>3. Places(r) = {<<"queue", q, i>>}
    BY <2>2
  <2> QED BY <2>3, FS_Singleton
<1>4. ASSUME NEW w \in Worker, serving[w] = r
      PROVE  Cardinality(Places(r)) = 1
  <2>1. /\ r \notin backlog /\ \A q \in Queue : \A i : ~InQueue(r, q, i)
        /\ \A v \in Worker : serving[v] = r => v = w
    BY <1>4 DEF Once
  <2>2. \A x : x \in Places(r) <=> x = <<"worker", w, 0>>
    BY <1>4, <2>1, PlacesAre, Zenon
  <2>3. Places(r) = {<<"worker", w, 0>>}
    BY <2>2
  <2> QED BY <2>3, FS_Singleton
<1> QED BY <1>2, <1>3, <1>4 DEF Somewhere

\* A worker that is connected has a pull or a request in the frontend.
Awaited(w) ==
  /\ worker[w] = "pull" /\ w \notin cut => w \in pulls
  /\ worker[w] = "work" /\ w \notin cut => serving[w] # None

\* Every step keeps that.
LEMMA AwaitedNext ==
  ASSUME TypeOK, LinksInv, NEW w \in Worker, Awaited(w), [Next]_vars
  PROVE  Awaited(w)'
<1> USE DEF Awaited
<1>1. /\ worker \in [Worker -> {"down", "ask", "pull", "work", "check"}]
      /\ serving \in [Worker -> Request \cup {None}]
      /\ \A r \in Request : r # None
      /\ WorkerLinked(w)
  BY SystemAssumption DEF SystemAssumption, TypeOK, LinksInv
<1>2. ASSUME UNCHANGED <<pulls, serving, worker, cut>>
      PROVE  Awaited(w)'
  BY <1>2
<1>3. ASSUME NEW v \in Worker, Take(v)
      PROVE  Awaited(w)'
  <2>1. Head(pending[QueueOf[v]]) # None
        /\ serving' = [serving EXCEPT ![v] = Head(pending[QueueOf[v]])]
    BY <1>1, <1>3, TakeTyped, QueuesTyped DEF Take
  <2> QED BY <1>1, <1>3, <2>1 DEF Take, Answered
<1>4. ASSUME NEW v \in Worker, QueueEmpty(v)
      PROVE  Awaited(w)'
  BY <1>1, <1>4 DEF QueueEmpty, Answered, queues
<1>5. ASSUME NEW v \in Worker, Lose(v)
      PROVE  Awaited(w)'
  <2>1. serving' = [serving EXCEPT ![v] = None] /\ UNCHANGED <<pulls, worker, cut>>
        /\ worker[v] # "work"
    BY <1>5, AnswerTyped DEF Lose, workers
  <2> QED BY <1>1, <2>1
<1>6. ASSUME NEW v \in Worker, Finish(v)
      PROVE  Awaited(w)'
  <2>1. serving' = [serving EXCEPT ![v] = None] /\ UNCHANGED <<pulls, cut>>
        /\ worker' = [worker EXCEPT ![v] = "check"]
    BY <1>6, AnswerTyped DEF Finish
  <2> QED BY <1>1, <2>1
<1>7. ASSUME NEW v \in Worker, StartWorker(v) \/ Ask(v) \/ FinishInVain(v)
      PROVE  Awaited(w)'
  BY <1>1, <1>7 DEF StartWorker, Ask, FinishInVain, frontend, queues
<1>8. ASSUME NEW v \in Worker, WorkerFails(v) \/ HeedSignal(v) \/ KillWorker(v)
      PROVE  Awaited(w)'
  BY <1>1, <1>8 DEF WorkerFails, HeedSignal, KillWorker, EndWorker, frontend, queues
<1>9. CASE StopFrontend
  BY <1>9 DEF StopFrontend
<1>10. CASE \/ \E p \in Client : StopClient(p) \/ StartClient(p)
            \/ \E t \in Thread : Dial(t) \/ ClientFails(t)
            \/ \E r \in Request : Accept(r)
            \/ \E q \in Queue : Drop(q)
            \/ StartFrontend
            \/ \E v \in Worker : Terminate(v)
            \/ UNCHANGED vars
  <2>1. UNCHANGED <<pulls, serving, worker, cut>>
    BY <1>10, RefuseTyped, SubmitTyped, DropTyped
       DEF StopClient, StartClient, Dial, ClientFails, EndClient, Accept, Refuse, Submit, Drop,
           StartFrontend, Terminate, vars, frontend, queues, workers
  <2> QED BY <1>2, <2>1
<1> QED
  BY <1>3, <1>4, <1>5, <1>6, <1>7, <1>8, <1>9, <1>10 DEF Next, Faults, Restarts, Pull, Round

\* Whoever is killed and restarted, in whatever order: a thread that waits has its
\* request in exactly one place of a frontend that runs, and a connected worker
\* is waited for.
THEOREM NobodyIsForgotten == Spec => []NobodyForgotten
<1> DEFINE AwaitedInv == \A w \in Worker : Awaited(w)
<1>1. Init => TypeOK /\ LinksInv /\ PlaceInv /\ AwaitedInv
  <2>1. Init => AwaitedInv
    BY DEF Init, Awaited
  <2> QED BY <2>1, TypeInit, PlaceInit
<1>2. TypeOK /\ LinksInv /\ PlaceInv /\ AwaitedInv /\ [Next]_vars
        => TypeOK' /\ LinksInv' /\ PlaceInv' /\ AwaitedInv'
  BY TypeNext, PlaceNext, AwaitedNext
<1>3. PlaceInv /\ AwaitedInv => NobodyForgotten
  <2> SUFFICES ASSUME PlaceInv, AwaitedInv PROVE NobodyForgotten
    OBVIOUS
  <2>1. ASSUME NEW t \in Thread, thread[t] = "waiting"
        PROVE  front = "up" /\ Cardinality(Places(Current(t))) = 1
    BY <2>1, OnePlace DEF PlaceInv, Present
  <2> QED BY <2>1 DEF NobodyForgotten, Awaited
<1> HIDE DEF AwaitedInv
<1> QED BY <1>1, <1>2, <1>3, PTL DEF Spec

-----------------------------------------------------------------------------
(* The statistics of both sides. *)

\* What goes together for request r: it is in no place once its fate is decided,
\* its client learns of it only then, and of a dropped request never.
Fated(r) ==
  /\ Somewhere(r) => fate[r] = "none"
  /\ fate[r] # "none" => r.n > left[r.thread]
  /\ fate[r] = "none" => told[r] = "none"
  /\ fate[r] = "dropped" => told[r] = "none"
  /\ told[r] = "success" => fate[r] = "answered"

FatesInv == \A r \in Request : Fated(r)

Decided              == {r \in Request : fate[r] # "none"}
EndedSet(how, kinds) == {r \in Request : fate[r] = how /\ told[r] \in kinds}

\* The statistics count decided requests, of which there are finitely many.
CountsInv ==
  /\ IsFiniteSet(Decided)
  /\ counts.success >= Cardinality(EndedSet("answered", {"success", "error0"}))
  /\ counts.failure >= Cardinality(EndedSet("answered", {"failure"}))
  /\ counts.success + counts.failure = Cardinality(EndedSet("answered", Kinds \cup {"none"}))
  /\ counts.disconnect = Cardinality(EndedSet("dropped", {"none"}))

\* Steps that decide nothing.
LEMMA FatesStay ==
  ASSUME FatesInv, CountsInv, UNCHANGED <<fate, told, counts, left>>,
         \A x \in Request : Somewhere(x)' => Somewhere(x)
  PROVE  FatesInv' /\ CountsInv'
<1>1. FatesInv'
  BY DEF FatesInv, Fated
<1>2. Decided' = Decided
      /\ \A how, kinds : EndedSet(how, kinds)' = EndedSet(how, kinds)
  BY DEF Decided, EndedSet
<1> QED BY <1>1, <1>2 DEF CountsInv

\* The fate of request r is decided, and its client may learn of it.
LEMMA FatesDecided ==
  ASSUME PlaceInv, FatesInv, NEW r \in Request, NEW how \in {"refused", "dropped", "answered"},
         \A x \in Request : fate'[x] = IF x = r THEN how ELSE fate[x],
         \A x \in Request : x # r => told'[x] = told[x],
         how = "dropped" => told'[r] = "none",
         told'[r] = "success" => how = "answered",
         \A x \in Request : Somewhere(x)' => Somewhere(x),
         Somewhere(r), ~Somewhere(r)', left' = left
  PROVE  FatesInv'
<1>1. r.n > left'[r.thread]
  BY DEF PlaceInv
<1> SUFFICES ASSUME NEW x \in Request
             PROVE  Fated(x)'
  BY DEF FatesInv
<1>2. CASE x = r
  BY <1>1, <1>2 DEF Fated
<1>3. CASE x # r
  <2>1. fate'[x] = fate[x] /\ told'[x] = told[x]
    BY <1>3
  <2> QED BY <2>1 DEF FatesInv, Fated
<1> QED BY <1>2, <1>3

\* What the decision changes in the four numbers that the statistics are
\* compared with.
LEMMA CountsMore ==
  ASSUME IsFiniteSet(Decided), NEW r \in Request, NEW f, fate[r] = "none", f # "none",
         \A x \in Request : fate'[x] = IF x = r THEN f ELSE fate[x],
         \A x \in Request : x # r => told'[x] = told[x],
         counts \in [success : Nat, failure : Nat, disconnect : Nat], CountsInv,
         NEW s \in {0, 1}, NEW e \in {0, 1}, NEW d \in {0, 1},
         /\ counts'.success = counts.success + s
         /\ counts'.failure = counts.failure + e
         /\ counts'.disconnect = counts.disconnect + d,
         f = "answered" /\ told'[r] \in {"success", "error0"} => s = 1,
         f = "answered" /\ told'[r] \in {"failure"} => e = 1,
         s + e = IF f = "answered" /\ told'[r] \in Kinds \cup {"none"} THEN 1 ELSE 0,
         d = IF f = "dropped" /\ told'[r] \in {"none"} THEN 1 ELSE 0
  PROVE  CountsInv'
<1>1. ASSUME NEW how \in {"answered", "dropped"}, NEW kinds
      PROVE  /\ IsFiniteSet(Decided')
             /\ Cardinality(EndedSet(how, kinds)) \in Nat
             /\ Cardinality(EndedSet(how, kinds)') =
                  Cardinality(EndedSet(how, kinds))
                    + (IF f = how /\ told'[r] \in kinds THEN 1 ELSE 0)
  <2>1. Decided' = Decided \cup {r}
    BY DEF Decided
  <2>2. IsFiniteSet(Decided')
    BY <2>1, FS_AddElement
  <2>3. EndedSet(how, kinds) \subseteq Decided /\ r \notin EndedSet(how, kinds)
    BY DEF EndedSet, Decided
  <2>4. IsFiniteSet(EndedSet(how, kinds)) /\ Cardinality(EndedSet(how, kinds)) \in Nat
    BY <2>3, FS_Subset, FS_CardinalityType
  <2>5. CASE f = how /\ told'[r] \in kinds
    <3>1. EndedSet(how, kinds)' = EndedSet(how, kinds) \cup {r}
      BY <2>5 DEF EndedSet
    <3> PICK S : S = EndedSet(how, kinds)
      OBVIOUS
    <3>2. Cardinality(S \cup {r}) = Cardinality(S) + 1
      BY <2>3, <2>4, FS_AddElement
    <3> QED BY <2>2, <2>4, <2>5, <3>1, <3>2
  <2>6. CASE ~(f = how /\ told'[r] \in kinds)
    <3>1. EndedSet(how, kinds)' = EndedSet(how, kinds)
      BY <2>6 DEF EndedSet
    <3> QED BY <2>2, <2>4, <2>6, <3>1
  <2> QED BY <2>5, <2>6
<1> QED
  BY <1>1 DEF CountsInv, Kinds

\* What a client may learn of a request whose fate was open.
LEMMA TellOne ==
  ASSUME TypeOK, FatesInv, NEW r \in Request, fate[r] = "none", NEW what, Tell(r, what)
  PROVE  /\ told'[r] \in {what, "none"}
         /\ \A x \in Request : x # r => told'[x] = told[x]
  BY DEF Tell, TypeOK, FatesInv, Fated

\* A thread dials: nothing is decided of the request that it makes.
LEMMA DialCounts ==
  ASSUME TypeOK, PlaceInv, FatesInv, CountsInv, NEW t \in Thread, Dial(t)
  PROVE  FatesInv' /\ CountsInv'
<1> PICK r \in Request : r = [thread |-> t, n |-> left[t]]
  BY RequestsTyped DEF Dial
<1>1. /\ backlog' = backlog \cup {r} /\ UNCHANGED <<pending, serving, fate, told, counts>>
      /\ left' = [left EXCEPT ![t] = @ - 1]
      /\ left \in [Thread -> 0 .. MaxRequests] /\ MaxRequests \in Nat
  BY SystemAssumption DEF SystemAssumption, Dial, queues, history, TypeOK
<1>2. fate[r] = "none"
  <2>1. r.n = left[r.thread] /\ left[t] \in Int
    BY <1>1
  <2> QED BY <2>1 DEF FatesInv, Fated
<1>3. ASSUME NEW x \in Request
      PROVE  Fated(x)'
  <2>1. Somewhere(x)' => Somewhere(x) \/ x = r
    BY <1>1 DEF Somewhere, InQueue
  <2>2. x.thread \in Thread /\ x.n \in Int
    BY DEF Request
  <2>3. left[x.thread] \in Int /\ left'[x.thread] \in Int /\ left'[x.thread] <= left[x.thread]
    BY <1>1, <2>2
  <2> QED BY <1>1, <1>2, <2>1, <2>2, <2>3 DEF FatesInv, Fated
<1>4. Decided' = Decided
      /\ \A how, kinds : EndedSet(how, kinds)' = EndedSet(how, kinds)
  BY <1>1 DEF Decided, EndedSet
<1> QED BY <1>1, <1>3, <1>4 DEF FatesInv, CountsInv

\* A refusal is counted by nobody.
LEMMA RefuseCounts ==
  ASSUME TypeOK, PlaceInv, FatesInv, CountsInv, NEW r \in Request, Refuse(r)
  PROVE  FatesInv' /\ CountsInv'
<1>1. /\ Somewhere(r) /\ ~Somewhere(r)' /\ \A x \in Request : Somewhere(x)' => Somewhere(x)
  BY RefusePlaces DEF Somewhere
<1>2. fate[r] = "none" /\ fate' = [fate EXCEPT ![r] = "refused"]
      /\ left' = left /\ counts' = counts
  BY <1>1 DEF Refuse, WQ!Refuse
<1>3. \A x \in Request : fate'[x] = IF x = r THEN "refused" ELSE fate[x]
  BY <1>2 DEF TypeOK
<1>4. told'[r] \in {"failure", "none"} /\ \A x \in Request : x # r => told'[x] = told[x]
  BY <1>2, TellOne DEF Refuse
<1>5. FatesInv'
  BY <1>1, <1>2, <1>3, <1>4, FatesDecided
<1>6. /\ counts'.success = counts.success + 0
      /\ counts'.failure = counts.failure + 0
      /\ counts'.disconnect = counts.disconnect + 0
      /\ counts \in [success : Nat, failure : Nat, disconnect : Nat]
      /\ IsFiniteSet(Decided)
  BY <1>2 DEF TypeOK, CountsInv
<1>7. CountsInv'
  BY <1>2, <1>3, <1>4, <1>6, CountsMore
<1> QED BY <1>5, <1>7

\* A drop is counted, and nobody waits for its request.
LEMMA DropCounts ==
  ASSUME TypeOK, PlaceInv, FatesInv, CountsInv, NEW q \in Queue, Drop(q)
  PROVE  FatesInv' /\ CountsInv'
<1> PICK r \in Request : r = Head(pending[q]) /\ Somewhere(r) /\ ~Somewhere(r)'
  BY DropPlaces
<1>1. \A x \in Request : Somewhere(x)' => Somewhere(x)
  BY DropPlaces
<1>2. /\ fate[r] = "none" /\ fate' = [fate EXCEPT ![r] = "dropped"] /\ told[r] = "none"
      /\ left' = left /\ told' = told /\ counts' = [counts EXCEPT !.disconnect = @ + 1]
  BY DEF Drop, WQ!Drop, FatesInv, Fated, clients, history
<1>3. \A x \in Request : fate'[x] = IF x = r THEN "dropped" ELSE fate[x]
  BY <1>2 DEF TypeOK
<1>4. FatesInv'
  BY <1>1, <1>2, <1>3, FatesDecided
<1>5. /\ counts'.success = counts.success + 0
      /\ counts'.failure = counts.failure + 0
      /\ counts'.disconnect = counts.disconnect + 1
      /\ counts \in [success : Nat, failure : Nat, disconnect : Nat]
      /\ IsFiniteSet(Decided)
  BY <1>2 DEF TypeOK, CountsInv
<1>6. CountsInv'
  BY <1>2, <1>3, <1>5, CountsMore
<1> QED BY <1>4, <1>6

\* A reply is counted by its return code, an error for a lost worker as a failure.
LEMMA AnswerCounts ==
  ASSUME TypeOK, PlaceInv, FatesInv, CountsInv, NEW w \in Worker, Lose(w) \/ Finish(w)
  PROVE  FatesInv' /\ CountsInv'
<1>1. PICK kind \in Kinds :
        /\ WQ!Answer(w) /\ Tell(serving[w], kind) /\ UNCHANGED <<backlog, left, front>>
        /\ counts' = [counts EXCEPT ![Outcome(kind)] = @ + 1]
  BY DEF Lose, Apology, Finish, Outcome, Kinds
<1> PICK r \in Request : r = serving[w] /\ Somewhere(r) /\ ~Somewhere(r)'
  BY <1>1, AnswerPlaces
<1>2. \A x \in Request : Somewhere(x)' => Somewhere(x)
  BY <1>1, AnswerPlaces
<1>3. fate[r] = "none" /\ fate' = [fate EXCEPT ![r] = "answered"] /\ left' = left
  BY <1>1 DEF WQ!Answer, FatesInv, Fated
<1>4. \A x \in Request : fate'[x] = IF x = r THEN "answered" ELSE fate[x]
  BY <1>3 DEF TypeOK
<1>5. told'[r] \in {kind, "none"} /\ \A x \in Request : x # r => told'[x] = told[x]
  BY <1>1, <1>3, TellOne
<1>6. FatesInv'
  BY <1>2, <1>3, <1>4, <1>5, FatesDecided
<1>7. /\ counts \in [success : Nat, failure : Nat, disconnect : Nat]
      /\ IsFiniteSet(Decided)
  BY DEF TypeOK, CountsInv
<1>8. CASE kind = "failure"
  <2>1. /\ counts'.success = counts.success + 0
        /\ counts'.failure = counts.failure + 1
        /\ counts'.disconnect = counts.disconnect + 0
    BY <1>1, <1>7, <1>8 DEF Outcome
  <2>2. CountsInv'
    BY <1>3, <1>4, <1>5, <1>7, <1>8, <2>1, CountsMore DEF Kinds
  <2> QED BY <1>6, <2>2
<1>9. CASE kind # "failure"
  <2>1. /\ counts'.success = counts.success + 1
        /\ counts'.failure = counts.failure + 0
        /\ counts'.disconnect = counts.disconnect + 0
    BY <1>1, <1>7, <1>9 DEF Outcome
  <2>2. CountsInv'
    BY <1>3, <1>4, <1>5, <1>7, <1>9, <2>1, CountsMore DEF Kinds
  <2> QED BY <1>6, <2>2
<1> QED BY <1>8, <1>9

\* The statistics end with the frontend, and all fates with them.
LEMMA StopCounts ==
  ASSUME TypeOK, StopFrontend
  PROVE  FatesInv' /\ CountsInv'
<1>1. /\ \A r \in Request : fate'[r] = "none" /\ told'[r] = "none"
      /\ counts' = NoCounts
  BY DEF StopFrontend
<1>2. Decided' = {}
      /\ \A how \in {"answered", "dropped"} : \A kinds : EndedSet(how, kinds)' = {}
  BY <1>1 DEF Decided, EndedSet
<1> QED BY <1>1, <1>2, FS_EmptySet DEF FatesInv, Fated, CountsInv, NoCounts

\* Every step keeps the statistics of both sides together.
LEMMA CountsNext ==
  ASSUME TypeOK, PlaceInv, FatesInv, CountsInv, [Next]_vars
  PROVE  FatesInv' /\ CountsInv'
<1>1. ASSUME NEW t \in Thread, Dial(t)
      PROVE  FatesInv' /\ CountsInv'
  BY <1>1, DialCounts
<1>2. ASSUME NEW r \in Request, Accept(r)
      PROVE  FatesInv' /\ CountsInv'
  <2>1. CASE Refuse(r)
    BY <2>1, RefuseCounts
  <2>2. CASE Submit(r)
    <3>1. UNCHANGED <<fate, told, counts, left>>
      BY <2>2 DEF Submit, WQ!Submit, clients, history
    <3> QED BY <2>2, <3>1, SubmitPlaces, FatesStay
  <2> QED BY <1>2, <2>1, <2>2 DEF Accept
<1>3. ASSUME NEW q \in Queue, Drop(q)
      PROVE  FatesInv' /\ CountsInv'
  BY <1>3, DropCounts
<1>4. ASSUME NEW w \in Worker, Take(w)
      PROVE  FatesInv' /\ CountsInv'
  <2>1. UNCHANGED <<fate, told, counts, left>>
    BY <1>4 DEF Take, WQ!Take, clients, history
  <2> QED BY <1>4, <2>1, TakePlaces, FatesStay
<1>5. ASSUME NEW w \in Worker, Lose(w) \/ Finish(w)
      PROVE  FatesInv' /\ CountsInv'
  BY <1>5, AnswerCounts
<1>6. CASE StopFrontend
  BY <1>6, StopCounts
<1>7. ASSUME \/ StartFrontend
             \/ \E t \in Thread : ClientFails(t)
             \/ \E p \in Client : StopClient(p) \/ StartClient(p)
             \/ \E w \in Worker : \/ QueueEmpty(w) \/ StartWorker(w) \/ Ask(w) \/ FinishInVain(w)
                                   \/ WorkerFails(w) \/ HeedSignal(w) \/ Terminate(w)
                                   \/ KillWorker(w)
             \/ UNCHANGED vars
      PROVE  FatesInv' /\ CountsInv'
  <2>1. UNCHANGED <<backlog, pending, serving, fate, told, counts, left>>
    BY <1>7 DEF StartFrontend, ClientFails, StopClient, StartClient, EndClient, QueueEmpty,
                StartWorker, Ask, FinishInVain, WorkerFails, HeedSignal, Terminate, KillWorker,
                EndWorker, vars, clients, frontend, queues, history
  <2>2. \A x \in Request : Somewhere(x)' => Somewhere(x)
    BY <2>1 DEF Somewhere, InQueue
  <2> QED BY <2>1, <2>2, FatesStay
<1> QED
  BY <1>1, <1>2, <1>3, <1>4, <1>5, <1>6, <1>7 DEF Next, Faults, Restarts, Pull, Round

\* In the beginning nothing is decided, and nothing counted.
LEMMA CountsInit ==
  ASSUME Init
  PROVE  FatesInv /\ CountsInv
<1>1. /\ \A r \in Request : fate[r] = "none" /\ told[r] = "none"
      /\ counts = NoCounts
  BY DEF Init, WQ!Init
<1>2. Decided = {}
      /\ \A how \in {"answered", "dropped"} : \A kinds : EndedSet(how, kinds) = {}
  BY <1>1 DEF Decided, EndedSet
<1> QED BY <1>1, <1>2, FS_EmptySet DEF FatesInv, Fated, CountsInv, NoCounts

\* The frontend's statistics and what the clients learned are the same, but for
\* replies to clients that had gone, for any number of processes and restarts.
THEOREM BothSidesAgree == Spec => []CountsAgree
<1>1. Init => TypeOK /\ LinksInv /\ PlaceInv /\ FatesInv /\ CountsInv
  BY TypeInit, PlaceInit, CountsInit
<1>2. TypeOK /\ LinksInv /\ PlaceInv /\ FatesInv /\ CountsInv /\ [Next]_vars
        => TypeOK' /\ LinksInv' /\ PlaceInv' /\ FatesInv' /\ CountsInv'
  BY TypeNext, PlaceNext, CountsNext
<1>3. TypeOK /\ PlaceInv /\ FatesInv /\ CountsInv => CountsAgree
  <2> SUFFICES ASSUME TypeOK, PlaceInv, FatesInv, CountsInv PROVE CountsAgree
    OBVIOUS
  <2>1. ASSUME NEW r \in Request, Waits(r)
        PROVE  fate[r] = "none"
    <3>1. r.thread \in Thread
      BY DEF Request
    <3>2. Somewhere(r)
      BY <2>1, <3>1 DEF PlaceInv, Present, Waits
    <3> QED BY <3>2 DEF FatesInv, Fated
  <2>2. \A r \in Request : /\ fate[r] = "dropped" => told[r] = "none" /\ ~Waits(r)
                           /\ told[r] = "success" => fate[r] = "answered"
    BY <2>1 DEF FatesInv, Fated
  <2>3. \A how, kinds : Ended(how, kinds) = Cardinality(EndedSet(how, kinds))
    BY DEF Ended, EndedSet
  <2> QED BY <2>2, <2>3 DEF CountsAgree, CountsInv
<1> QED BY <1>1, <1>2, <1>3, PTL DEF Spec

-----------------------------------------------------------------------------
(* Waiting.  The guards of the steps by which a process goes on, as opposed to  *)
(* being stopped.                                                               *)

\* One of StartWorker, Lose, Ask, Finish, FinishInVain, WorkerFails and HeedSignal
\* can be taken for w.
WorkerReady(w) ==
  \/ worker[w] = "down" /\ w \notin pulls /\ serving[w] = None
  \/ worker[w] # "work" /\ serving[w] # None
  \/ Asks(w) /\ front \in {"up", "down"}
  \/ worker[w] = "work" /\ w \notin cut /\ serving[w] # None
  \/ w \in cut
  \/ AtCheck(w) /\ signal[w]

\* One of QueueEmpty, Drop and Take can be taken to answer the pull of w.
PullReady(w) ==
  /\ w \in pulls
  /\ \/ pending[QueueOf[w]] = <<>>
     \/ QueueOf[w] \in Queue /\ pending[QueueOf[w]] # <<>> /\ Obsolete(Head(pending[QueueOf[w]]))
     \/ pending[QueueOf[w]] # <<>> /\ serving[w] = None

\* One of Refuse and Submit can be taken for r.
AcceptReady(r) ==
  LET q == QueueOf[r.thread] IN
  /\ fate[r] = "none" /\ ~WQ!IsPending(r) /\ ~WQ!IsServed(r)
  /\ q \in Queue
  /\ Full(q) \/ (QMax > 0 => Len(pending[q]) < QMax)

NobodyStuck ==
  /\ \A w \in Worker : WorkerReady(w) \/ PullReady(w)
  /\ \A r \in backlog : AcceptReady(r)

\* The worker, the goroutine that serves it or the listener can go on.
LEMMA WorkerGoesOn ==
  ASSUME TypeOK, LinksInv, NEW w \in Worker, Awaited(w)
  PROVE  WorkerReady(w) \/ PullReady(w)
<1>1. /\ worker[w] \in {"down", "ask", "pull", "work", "check"} /\ front \in {"up", "down"}
      /\ signal[w] \in BOOLEAN /\ WorkerLinked(w)
  BY DEF TypeOK, LinksInv
<1>2. CASE w \in pulls
  <2>1. serving[w] = None
    BY <1>1, <1>2 DEF WorkerLinked
  <2> QED BY <1>2, <2>1 DEF PullReady
<1>3. CASE w \notin pulls
  BY <1>1, <1>3 DEF Awaited, WorkerLinked, WorkerReady, Asks, AtCheck
<1> QED BY <1>2, <1>3

\* What WorkQueue demands of a request that arrives is so.
LEMMA RequestGoesOn ==
  ASSUME TypeOK, PlaceInv, FatesInv, NEW r \in backlog
  PROVE  AcceptReady(r)
<1>1. /\ r \in Request /\ QueueOf[r.thread] \in Queue
      /\ QMax \in Nat /\ Len(pending[QueueOf[r.thread]]) \in Nat
  <2>1. r \in Request /\ r.thread \in Thread
    BY DEF TypeOK, Request
  <2>2. QueueOf[r.thread] \in Queue /\ QMax \in Nat
    BY <2>1, SystemAssumption DEF SystemAssumption
  <2> QED BY <2>1, <2>2 DEF TypeOK
<1>2. Somewhere(r) /\ Once(r)
  BY <1>1 DEF Somewhere, PlaceInv
<1>3. fate[r] = "none"
  BY <1>1, <1>2 DEF FatesInv, Fated
<1>4. ~WQ!IsPending(r)
  BY <1>2 DEF Once, InQueue, WQ!IsPending
<1>5. ~WQ!IsServed(r)
  BY <1>2 DEF Once, WQ!IsServed
<1>6. Full(QueueOf[r.thread]) \/ (QMax > 0 => Len(pending[QueueOf[r.thread]]) < QMax)
  BY <1>1 DEF Full
<1> QED BY <1>1, <1>3, <1>4, <1>5, <1>6 DEF AcceptReady

\* Nobody waits for anything but a step that can be taken: a worker can go on, or
\* the goroutine that serves it, or the listener that is to answer its pull; and
\* a request that has arrived can always be queued or refused, so that joining
\* the frontend's steps with those of WorkQueue takes none of them away.
THEOREM NobodyIsStuck == Spec => []NobodyStuck
<1> DEFINE Inv == /\ TypeOK /\ LinksInv /\ PlaceInv /\ FatesInv /\ CountsInv
                  /\ \A w \in Worker : Awaited(w)
<1>1. Init => Inv
  <2>1. Init => \A w \in Worker : Awaited(w)
    BY DEF Init, Awaited
  <2> QED BY <2>1, TypeInit, PlaceInit, CountsInit
<1>2. Inv /\ [Next]_vars => Inv'
  BY TypeNext, PlaceNext, CountsNext, AwaitedNext
<1>3. Inv => NobodyStuck
  BY WorkerGoesOn, RequestGoesOn DEF NobodyStuck
<1> HIDE DEF Inv
<1> QED BY <1>1, <1>2, <1>3, PTL DEF Spec

=============================================================================
