-------------------------- MODULE WorkQueueProofs --------------------------
(***************************************************************************)
(* What the abstract work queues promise to those who use them, for any    *)
(* queues, requests, workers and limit.  FrontendRefinement carries this   *)
(* over to the frontend.                                                   *)
(***************************************************************************)
EXTENDS WorkQueue, SequenceTheorems, TLAPS

QueuesTyped ==
  /\ pending \in [Queue -> Seq(Client)]
  /\ serving \in [Worker -> Client \cup {None}]
  /\ fate    \in [Client -> Fate]

Waiting(q) == {pending[q][i] : i \in DOMAIN pending[q]}

\* A request has one place at most, and none once its fate is decided; it waits
\* in the queue that it names.
WaitsOnce ==
  \A p, q \in Queue : \A i \in DOMAIN pending[p], j \in DOMAIN pending[q] :
    /\ pending[p][i] = pending[q][j] => p = q /\ i = j
    /\ Target[pending[p][i]] = p

ServedOnce ==
  \A v \in Worker : serving[v] # None =>
    /\ \A w \in Worker : serving[w] = serving[v] => v = w
    /\ \A q \in Queue : serving[v] \notin Waiting(q)

UndecidedHere ==
  /\ \A q \in Queue : \A c \in Waiting(q) : fate[c] = "none"
  /\ \A w \in Worker : serving[w] # None => fate[serving[w]] = "none"

\* No queue is longer than the limit.
WithinLimit == QMax > 0 => \A q \in Queue : Len(pending[q]) <= QMax

Promise == QueuesTyped /\ WaitsOnce /\ ServedOnce /\ UndecidedHere /\ WithinLimit

\* Nothing is undone and nobody is overtaken: a fate that is decided stays, a
\* request that a worker has taken stays with it until it is answered, and one that
\* waits moves forward only, or is dropped or taken when it is the first.
Forward ==
  /\ \A c \in Client : fate[c] # "none" => fate'[c] = fate[c]
  /\ \A w \in Worker : serving[w] # None =>
       serving'[w] = serving[w] \/ fate'[serving[w]] = "answered"
  /\ \A q \in Queue : \A i \in DOMAIN pending[q] :
       \/ \E j \in {i, i - 1} \cap DOMAIN pending'[q] : pending'[q][j] = pending[q][i]
       \/ /\ i = 1
          /\ \/ fate'[pending[q][i]] = "dropped"
             \/ \E w \in Worker : serving'[w] = pending[q][i]

-----------------------------------------------------------------------------
(* The steps. *)

\* A queue without its oldest request.
LEMMA TailIs ==
  ASSUME QueuesTyped, NEW q \in Queue, pending[q] # <<>>
  PROVE  /\ Head(pending[q]) = pending[q][1] /\ 1 \in DOMAIN pending[q]
         /\ Head(pending[q]) \in Client
         /\ Tail(pending[q]) \in Seq(Client)
         /\ Len(Tail(pending[q])) = Len(pending[q]) - 1
         /\ \A i \in DOMAIN Tail(pending[q]) :
              /\ i \in Nat /\ i + 1 \in DOMAIN pending[q] /\ i + 1 # 1
              /\ Tail(pending[q])[i] = pending[q][i + 1]
<1>1. pending[q] \in Seq(Client)
  BY DEF QueuesTyped
<1> QED BY <1>1, HeadTailProperties

\* What waits are requests.
LEMMA WaitingTyped ==
  ASSUME QueuesTyped
  PROVE  \A q \in Queue : Waiting(q) \subseteq Client
  BY DEF QueuesTyped, Waiting

\* A queue with one more request.
LEMMA AppendIs ==
  ASSUME QueuesTyped, NEW q \in Queue, NEW c \in Client
  PROVE  /\ Append(pending[q], c) \in Seq(Client)
         /\ Len(Append(pending[q], c)) = Len(pending[q]) + 1
         /\ DOMAIN Append(pending[q], c) = DOMAIN pending[q] \cup {Len(pending[q]) + 1}
         /\ Len(pending[q]) + 1 \notin DOMAIN pending[q]
         /\ Append(pending[q], c)[Len(pending[q]) + 1] = c
         /\ \A i \in DOMAIN pending[q] : Append(pending[q], c)[i] = pending[q][i]
<1>1. pending[q] \in Seq(Client)
  BY DEF QueuesTyped
<1> QED BY <1>1, AppendProperties

\* A request that is refused.
LEMMA RefuseKeeps ==
  ASSUME Promise, NEW c \in Client, Refuse(c)
  PROVE  Promise'
<1>1. /\ pending' = pending /\ serving' = serving /\ fate' = [fate EXCEPT ![c] = "refused"]
      /\ \A q \in Queue : c \notin Waiting(q) /\ Waiting(q)' = Waiting(q)
      /\ \A w \in Worker : serving[w] # c
  BY DEF Refuse, IsPending, IsServed, Waiting
<1>2. QueuesTyped'
  BY <1>1 DEF Promise, QueuesTyped, Fate
<1>3. \A d \in Client : d # c => fate'[d] = fate[d]
  BY <1>1 DEF Promise, QueuesTyped
<1>4. UndecidedHere'
  <2>1. \A q \in Queue : Waiting(q) \subseteq Client
    BY WaitingTyped DEF Promise
  <2>2. \A w \in Worker : serving[w] # None => serving[w] \in Client
    BY DEF Promise, QueuesTyped
  <2> QED BY <1>1, <1>3, <2>1, <2>2 DEF Promise, UndecidedHere
<1> QED BY <1>1, <1>2, <1>4 DEF Promise, WaitsOnce, ServedOnce, WithinLimit

\* A request that is queued.
LEMMA SubmitKeeps ==
  ASSUME None \notin Client, Promise, NEW c \in Client, Submit(c), QMax \in Nat
  PROVE  Promise'
<1>1. PICK t \in Queue : t = Target[c]
  BY DEF Submit
<1>2. /\ pending' = [pending EXCEPT ![t] = Append(@, c)] /\ serving' = serving /\ fate' = fate
      /\ fate[c] = "none" /\ (QMax > 0 => Len(pending[t]) < QMax)
      /\ \A q \in Queue : \A i \in DOMAIN pending[q] : pending[q][i] # c
      /\ \A w \in Worker : serving[w] # c
  BY <1>1 DEF Submit, IsPending, IsServed
<1>3. QueuesTyped
  BY DEF Promise
<1>4. /\ pending'[t] = Append(pending[t], c)
      /\ \A q \in Queue \ {t} : pending'[q] = pending[q]
  BY <1>2, <1>3 DEF QueuesTyped
<1>5. QueuesTyped'
  BY <1>2, <1>3, AppendIs DEF QueuesTyped
<1>6. \A q \in Queue : \A i \in DOMAIN pending'[q] :
        \/ i \in DOMAIN pending[q] /\ pending'[q][i] = pending[q][i]
        \/ q = t /\ i = Len(pending[t]) + 1 /\ pending'[q][i] = c
  BY <1>3, <1>4, AppendIs
<1>7. \A q \in Queue : c \notin Waiting(q) /\ Waiting(q)' \subseteq Waiting(q) \cup {c}
  BY <1>2, <1>6 DEF Waiting
<1>8. WaitsOnce'
  BY <1>1, <1>2, <1>6 DEF Promise, WaitsOnce
<1>9. ServedOnce'
  BY <1>2, <1>7 DEF Promise, ServedOnce
<1>10. UndecidedHere'
  BY <1>2, <1>7 DEF Promise, UndecidedHere
<1>11. WithinLimit'
  <2>1. Len(pending[t]) \in Nat /\ Len(pending'[t]) = Len(pending[t]) + 1
    BY <1>3, <1>4, AppendIs DEF QueuesTyped
  <2> QED BY <1>2, <1>4, <2>1 DEF Promise, WithinLimit
<1> QED BY <1>5, <1>8, <1>9, <1>10, <1>11 DEF Promise

\* The queues after the oldest request of queue t has left.
LEMMA FirstLeaves ==
  ASSUME Promise, NEW t \in Queue, pending[t] # <<>>, QMax \in Nat,
         pending' = [pending EXCEPT ![t] = Tail(@)], NEW c, c = Head(pending[t])
  PROVE  /\ pending' \in [Queue -> Seq(Client)]
         /\ WaitsOnce'
         /\ WithinLimit'
         /\ c \in Client /\ fate[c] = "none"
         /\ \A w \in Worker : serving[w] # None => serving[w] # c
         /\ \A q \in Queue : Waiting(q)' \subseteq Waiting(q) \ {c}
<1>1. QueuesTyped /\ WaitsOnce /\ ServedOnce /\ UndecidedHere
  BY DEF Promise
<1>2. /\ pending'[t] = Tail(pending[t])
      /\ \A q \in Queue \ {t} : pending'[q] = pending[q]
  BY <1>1 DEF QueuesTyped
<1>3. pending' \in [Queue -> Seq(Client)]
  BY <1>1, TailIs DEF QueuesTyped
<1>4. \A q \in Queue : \A i \in DOMAIN pending'[q] :
        \/ q # t /\ i \in DOMAIN pending[q] /\ pending'[q][i] = pending[q][i]
        \/ /\ q = t /\ i \in Nat /\ i + 1 \in DOMAIN pending[q] /\ i + 1 # 1
           /\ pending'[q][i] = pending[q][i + 1]
  <2>1. \A i \in DOMAIN Tail(pending[t]) :
          /\ i \in Nat /\ i + 1 \in DOMAIN pending[t] /\ i + 1 # 1
          /\ Tail(pending[t])[i] = pending[t][i + 1]
    BY <1>1, TailIs
  <2> QED BY <1>2, <2>1
<1>5. c = pending[t][1] /\ 1 \in DOMAIN pending[t] /\ c \in Client
  BY <1>1, TailIs
<1>6. WaitsOnce'
  <2>1. ASSUME NEW p \in Queue, NEW q \in Queue,
               NEW i \in DOMAIN pending'[p], NEW j \in DOMAIN pending'[q]
        PROVE  /\ pending'[p][i] = pending'[q][j] => p = q /\ i = j
               /\ Target[pending'[p][i]] = p
    <3>1. PICK k \in DOMAIN pending[p] :
            /\ pending'[p][i] = pending[p][k]
            /\ (p # t /\ k = i) \/ (p = t /\ i \in Nat /\ k = i + 1)
      BY <1>4
    <3>2. PICK l \in DOMAIN pending[q] :
            /\ pending'[q][j] = pending[q][l]
            /\ (q # t /\ l = j) \/ (q = t /\ j \in Nat /\ l = j + 1)
      BY <1>4
    <3>3. /\ pending[p][k] = pending[q][l] => p = q /\ k = l
          /\ Target[pending[p][k]] = p
      BY <1>1 DEF WaitsOnce
    <3> QED BY <3>1, <3>2, <3>3
  <2> QED BY <2>1 DEF WaitsOnce
<1>7. WithinLimit'
  <2>1. Len(pending[t]) \in Nat /\ Len(pending'[t]) = Len(pending[t]) - 1
    BY <1>1, <1>2, TailIs DEF QueuesTyped
  <2> QED BY <1>2, <2>1 DEF Promise, WithinLimit
<1>8. \A w \in Worker : serving[w] # None => serving[w] # c
  BY <1>1, <1>5 DEF ServedOnce, Waiting
<1>9. fate[c] = "none"
  BY <1>1, <1>5 DEF UndecidedHere, Waiting
<1>10. ASSUME NEW q \in Queue, NEW i \in DOMAIN pending'[q]
       PROVE  /\ \E j \in DOMAIN pending[q] : pending'[q][i] = pending[q][j]
              /\ pending'[q][i] # c
  <2>1. PICK j \in DOMAIN pending[q] : pending'[q][i] = pending[q][j] /\ (q = t => j # 1)
    BY <1>4
  <2>2. pending[q][j] = pending[t][1] => q = t /\ j = 1
    BY <1>1, <1>5 DEF WaitsOnce
  <2> QED BY <1>5, <2>1, <2>2
<1>11. \A q \in Queue : Waiting(q)' \subseteq Waiting(q) \ {c}
  BY <1>10 DEF Waiting
<1> QED BY <1>3, <1>5, <1>6, <1>7, <1>8, <1>9, <1>11

\* A request that is dropped.
LEMMA DropKeeps ==
  ASSUME Promise, NEW t \in Queue, Drop(t), QMax \in Nat
  PROVE  Promise'
<1>1. PICK c : c = Head(pending[t])
  OBVIOUS
<1>2. /\ pending[t] # <<>> /\ pending' = [pending EXCEPT ![t] = Tail(@)]
      /\ serving' = serving /\ fate' = [fate EXCEPT ![c] = "dropped"]
  BY <1>1 DEF Drop
<1>3. QueuesTyped /\ ServedOnce /\ UndecidedHere
  BY DEF Promise
<1>4. /\ pending' \in [Queue -> Seq(Client)] /\ WaitsOnce' /\ WithinLimit' /\ c \in Client
      /\ \A w \in Worker : serving[w] # None => serving[w] # c
      /\ \A q \in Queue : Waiting(q)' \subseteq Waiting(q) \ {c}
  BY <1>1, <1>2, FirstLeaves
<1>5. fate' \in [Client -> Fate] /\ \A d \in Client : d # c => fate'[d] = fate[d]
  BY <1>2, <1>3 DEF QueuesTyped, Fate
<1>6. QueuesTyped'
  BY <1>2, <1>3, <1>4, <1>5 DEF QueuesTyped
<1>7. ServedOnce'
  BY <1>2, <1>3, <1>4 DEF ServedOnce
<1>8. UndecidedHere'
  <2>1. \A q \in Queue : Waiting(q) \subseteq Client
    BY <1>3, WaitingTyped
  <2>2. \A w \in Worker : serving[w] # None => serving[w] \in Client
    BY <1>3 DEF QueuesTyped
  <2> QED BY <1>2, <1>3, <1>4, <1>5, <2>1, <2>2 DEF UndecidedHere
<1> QED BY <1>4, <1>6, <1>7, <1>8 DEF Promise

\* A request that a worker takes.
LEMMA TakeKeeps ==
  ASSUME None \notin Client, Promise, NEW t \in Queue, NEW v \in Worker, Take(t, v), QMax \in Nat
  PROVE  Promise'
<1>1. PICK c : c = Head(pending[t])
  OBVIOUS
<1>2. /\ pending[t] # <<>> /\ pending' = [pending EXCEPT ![t] = Tail(@)]
      /\ serving' = [serving EXCEPT ![v] = c] /\ fate' = fate /\ serving[v] = None
  BY <1>1 DEF Take
<1>3. QueuesTyped /\ ServedOnce /\ UndecidedHere
  BY DEF Promise
<1>4. /\ pending' \in [Queue -> Seq(Client)] /\ WaitsOnce' /\ WithinLimit'
      /\ c \in Client /\ fate[c] = "none"
      /\ \A w \in Worker : serving[w] # None => serving[w] # c
      /\ \A q \in Queue : Waiting(q)' \subseteq Waiting(q) \ {c}
  BY <1>1, <1>2, FirstLeaves
<1>5. /\ serving' \in [Worker -> Client \cup {None}] /\ serving'[v] = c /\ c # None
      /\ \A w \in Worker : w # v => serving'[w] = serving[w]
  BY <1>2, <1>3, <1>4 DEF QueuesTyped
<1>6. QueuesTyped'
  BY <1>2, <1>3, <1>4, <1>5 DEF QueuesTyped
<1>7. ServedOnce'
  <2> SUFFICES ASSUME NEW u \in Worker, serving'[u] # None
               PROVE  /\ \A w \in Worker : serving'[w] = serving'[u] => u = w
                      /\ \A q \in Queue : serving'[u] \notin Waiting(q)'
    BY DEF ServedOnce
  <2>1. CASE u = v
    BY <1>4, <1>5, <2>1
  <2>2. CASE u # v
    <3>1. serving'[u] = serving[u] /\ serving[u] # None /\ serving[u] # c
      BY <1>4, <1>5, <2>2
    <3>2. \A w \in Worker : serving'[w] = serving'[u] => u = w
      BY <1>3, <1>5, <3>1 DEF ServedOnce
    <3>3. \A q \in Queue : serving'[u] \notin Waiting(q)'
      BY <1>3, <1>4, <3>1 DEF ServedOnce
    <3> QED BY <3>2, <3>3
  <2> QED BY <2>1, <2>2
<1>8. UndecidedHere'
  BY <1>2, <1>3, <1>4, <1>5 DEF UndecidedHere
<1> QED BY <1>4, <1>6, <1>7, <1>8 DEF Promise

\* A request that is answered.
LEMMA AnswerKeeps ==
  ASSUME Promise, NEW v \in Worker, Answer(v)
  PROVE  Promise'
<1>1. PICK c : c = serving[v]
  OBVIOUS
<1>2. /\ pending' = pending /\ serving' = [serving EXCEPT ![v] = None]
      /\ fate' = [fate EXCEPT ![c] = "answered"] /\ c # None
  BY <1>1 DEF Answer
<1>3. QueuesTyped /\ ServedOnce /\ UndecidedHere
  BY DEF Promise
<1>4. /\ c \in Client /\ serving'[v] = None
      /\ \A w \in Worker : w # v => serving'[w] = serving[w] /\ serving[w] # c
  BY <1>1, <1>2, <1>3 DEF QueuesTyped, ServedOnce
<1>5. \A q \in Queue : /\ c \notin Waiting(q) /\ Waiting(q) \subseteq Client
                      /\ Waiting(q)' = Waiting(q)
  BY <1>1, <1>2, <1>3, WaitingTyped DEF ServedOnce, Waiting
<1>6. fate' \in [Client -> Fate] /\ \A d \in Client : d # c => fate'[d] = fate[d]
  BY <1>2, <1>3 DEF QueuesTyped, Fate
<1>7. QueuesTyped'
  BY <1>2, <1>3, <1>6 DEF QueuesTyped
<1>8. ServedOnce'
  BY <1>2, <1>3, <1>4, <1>5 DEF ServedOnce
<1>9. UndecidedHere'
  <2>1. \A w \in Worker : serving[w] # None => serving[w] \in Client
    BY <1>3 DEF QueuesTyped
  <2> QED BY <1>2, <1>3, <1>4, <1>5, <1>6, <2>1 DEF UndecidedHere
<1> QED BY <1>2, <1>7, <1>8, <1>9 DEF Promise, WaitsOnce, WithinLimit

\* Every step keeps the promise.
LEMMA PromiseNext ==
  ASSUME None \notin Client, QMax \in Nat, Promise, [Next]_vars
  PROVE  Promise'
<1>1. CASE UNCHANGED vars
  BY <1>1 DEF vars, Promise, QueuesTyped, WaitsOnce, ServedOnce, UndecidedHere, WithinLimit,
     Waiting
<1>2. CASE Next
  BY <1>2, RefuseKeeps, SubmitKeeps, DropKeeps, TakeKeeps, AnswerKeeps DEF Next
<1> QED BY <1>1, <1>2

\* In the beginning there are no requests.
LEMMA PromiseInit ==
  ASSUME QMax \in Nat, Init
  PROVE  Promise
<1>1. \A q \in Queue : pending[q] = <<>> /\ Len(pending[q]) = 0 /\ DOMAIN pending[q] = {}
  <2> SUFFICES ASSUME NEW q \in Queue
               PROVE  pending[q] = <<>> /\ Len(pending[q]) = 0 /\ DOMAIN pending[q] = {}
    OBVIOUS
  <2>1. pending[q] = <<>>
    BY DEF Init
  <2> QED BY <2>1
<1>2. QueuesTyped
  BY DEF Init, QueuesTyped, Fate
<1> QED
  BY <1>1, <1>2 DEF Init, Promise, WaitsOnce, ServedOnce, UndecidedHere, WithinLimit,
                    Waiting

\* Every request is in one place at most, in its own queue, and in none once it has
\* ended; and no queue is longer than the limit.
THEOREM PromiseIsKept ==
  ASSUME None \notin Client, QMax \in Nat
  PROVE  Spec => []Promise
<1>1. Init => Promise
  BY PromiseInit
<1>2. Promise /\ [Next]_vars => Promise'
  BY PromiseNext
<1> QED BY <1>1, <1>2, PTL DEF Spec

-----------------------------------------------------------------------------
(* Nothing is undone. *)

\* The three parts of Forward.
Decided  == \A c \in Client : fate[c] # "none" => fate'[c] = fate[c]
Held     == \A w \in Worker : serving[w] # None =>
              serving'[w] = serving[w] \/ fate'[serving[w]] = "answered"
Moves(q) == \A i \in DOMAIN pending[q] :
              \/ \E j \in {i, i - 1} \cap DOMAIN pending'[q] : pending'[q][j] = pending[q][i]
              \/ /\ i = 1
                 /\ \/ fate'[pending[q][i]] = "dropped"
                    \/ \E w \in Worker : serving'[w] = pending[q][i]

\* The first request of queue t leaves it, and the others move forward.
LEMMA OneLeaves ==
  ASSUME QueuesTyped, NEW t \in Queue, pending[t] # <<>>, NEW q \in Queue,
         pending' = [pending EXCEPT ![t] = Tail(@)],
         \/ fate'[Head(pending[t])] = "dropped"
         \/ \E w \in Worker : serving'[w] = Head(pending[t])
  PROVE  Moves(q)
<1>1. CASE q # t
  BY <1>1 DEF Moves, QueuesTyped
<1>2. CASE q = t
  <2>1. pending'[t] = Tail(pending[t]) /\ Head(pending[t]) = pending[t][1]
    BY TailIs DEF QueuesTyped
  <2>2. ASSUME NEW i \in DOMAIN pending[t], i # 1
        PROVE  /\ i - 1 \in DOMAIN Tail(pending[t])
               /\ Tail(pending[t])[i - 1] = pending[t][i]
    <3>1. pending[t] \in Seq(Client) /\ Len(pending[t]) \in Nat
      BY DEF QueuesTyped
    <3> QED BY <2>2, <3>1, HeadTailProperties
  <2>3. ASSUME NEW i \in DOMAIN pending[t], i # 1
        PROVE  \E j \in {i, i - 1} \cap DOMAIN pending'[t] : pending'[t][j] = pending[t][i]
    BY <2>1, <2>2, <2>3
  <2> QED BY <1>2, <2>1, <2>3 DEF Moves
<1> QED BY <1>1, <1>2

\* What a step does to one request, it does not do to the others.
LEMMA ForwardStep ==
  ASSUME None \notin Client, QMax \in Nat, Promise, Next
  PROVE  Forward
<1>0. /\ QueuesTyped /\ fate \in [Client -> Fate] /\ serving \in [Worker -> Client \cup {None}]
      /\ UndecidedHere
  BY DEF Promise, QueuesTyped
<1>1. ASSUME UNCHANGED pending
      PROVE  \A q \in Queue : Moves(q)
  BY <1>1 DEF Moves
<1>2. ASSUME NEW c \in Client, Refuse(c)
      PROVE  Decided /\ Held /\ \A q \in Queue : Moves(q)
  BY <1>0, <1>1, <1>2 DEF Refuse, Decided, Held
<1>3. ASSUME NEW c \in Client, Submit(c)
      PROVE  Decided /\ Held /\ \A q \in Queue : Moves(q)
  <2>1. PICK t \in Queue : pending' = [pending EXCEPT ![t] = Append(@, c)]
    BY <1>3 DEF Submit
  <2>2. \A q \in Queue : \A i \in DOMAIN pending[q] :
          i \in DOMAIN pending'[q] /\ pending'[q][i] = pending[q][i]
    BY <1>0, <2>1, AppendIs DEF QueuesTyped
  <2> QED BY <1>3, <2>2 DEF Submit, Decided, Held, Moves
<1>4. ASSUME NEW t \in Queue, Drop(t)
      PROVE  Decided /\ Held /\ \A q \in Queue : Moves(q)
  <2>1. PICK c : c = Head(pending[t])
    OBVIOUS
  <2>2. /\ pending[t] # <<>> /\ pending' = [pending EXCEPT ![t] = Tail(@)]
        /\ fate' = [fate EXCEPT ![c] = "dropped"] /\ serving' = serving
    BY <1>4, <2>1 DEF Drop
  <2>3. c \in Client /\ fate[c] = "none"
    BY <2>1, <2>2, FirstLeaves
  <2>4. \A q \in Queue : Moves(q)
    BY <1>0, <2>1, <2>2, <2>3, OneLeaves
  <2> QED BY <1>0, <2>2, <2>3, <2>4 DEF Decided, Held
<1>5. ASSUME NEW t \in Queue, NEW v \in Worker, Take(t, v)
      PROVE  Decided /\ Held /\ \A q \in Queue : Moves(q)
  <2>1. /\ pending[t] # <<>> /\ pending' = [pending EXCEPT ![t] = Tail(@)] /\ fate' = fate
        /\ serving' = [serving EXCEPT ![v] = Head(pending[t])] /\ serving[v] = None
    BY <1>5 DEF Take
  <2>2. serving'[v] = Head(pending[t]) /\ \A w \in Worker : w # v => serving'[w] = serving[w]
    BY <1>0, <2>1
  <2>3. \A q \in Queue : Moves(q)
    BY <1>0, <2>1, <2>2, OneLeaves
  <2> QED BY <2>1, <2>2, <2>3 DEF Decided, Held
<1>6. ASSUME NEW v \in Worker, Answer(v)
      PROVE  Decided /\ Held /\ \A q \in Queue : Moves(q)
  <2>1. /\ serving[v] # None /\ fate' = [fate EXCEPT ![serving[v]] = "answered"]
        /\ serving' = [serving EXCEPT ![v] = None] /\ UNCHANGED pending
    BY <1>6 DEF Answer
  <2>2. serving[v] \in Client /\ fate[serving[v]] = "none"
    BY <1>0, <2>1 DEF UndecidedHere
  <2>3. Decided /\ fate'[serving[v]] = "answered"
    BY <1>0, <2>1, <2>2 DEF Decided
  <2>4. Held
    BY <1>0, <2>1, <2>3 DEF Held
  <2> QED BY <1>1, <2>1, <2>3, <2>4
<1> QED BY <1>2, <1>3, <1>4, <1>5, <1>6 DEF Next, Forward, Decided, Held, Moves

\* Fates are final, a request is taken once, and nobody is overtaken.
THEOREM NothingIsUndone ==
  ASSUME None \notin Client, QMax \in Nat
  PROVE  Spec => [][Forward]_vars
<1>1. Init => Promise
  BY PromiseInit
<1>2. Promise /\ [Next]_vars => Promise'
  BY PromiseNext
<1>3. Promise /\ [Next]_vars => [Forward]_vars
  BY ForwardStep
<1> QED BY <1>1, <1>2, <1>3, PTL DEF Spec

=============================================================================
