----------------------------- MODULE WorkQueue -----------------------------
(***************************************************************************)
(* What the frontend promises: bounded first-in first-out queues of client *)
(* requests.  A request is refused, or waits until it is dropped or taken  *)
(* by one worker, and a taken request is answered.  Nothing else happens   *)
(* to it, and it happens once.                                             *)
(***************************************************************************)
EXTENDS Naturals, Sequences

CONSTANTS
  Queue,   \* the queues
  Client,  \* the requests, each from a client of its own
  Worker,  \* the workers
  Target,  \* Target[c] is the queue that c asks for
  QMax,    \* the most requests that wait in a queue, 0 for no limit
  None     \* no client

VARIABLES
  pending,  \* the requests that wait in each queue, oldest first
  serving,  \* the request that each worker has taken
  fate      \* how each request has ended: "none" while it has not

vars == <<pending, serving, fate>>

Fate == {"none", "refused", "dropped", "answered"}

Init ==
  /\ pending = [q \in Queue |-> <<>>]
  /\ serving = [w \in Worker |-> None]
  /\ fate    = [c \in Client |-> "none"]

IsPending(c) == \E q \in Queue : \E i \in DOMAIN pending[q] : pending[q][i] = c
IsServed(c)  == \E w \in Worker : serving[w] = c

Refuse(c) ==
  /\ fate[c] = "none" /\ ~IsPending(c) /\ ~IsServed(c)
  /\ fate' = [fate EXCEPT ![c] = "refused"]
  /\ UNCHANGED <<pending, serving>>

Submit(c) ==
  LET q == Target[c] IN
  /\ fate[c] = "none" /\ ~IsPending(c) /\ ~IsServed(c)
  /\ q \in Queue
  /\ QMax > 0 => Len(pending[q]) < QMax
  /\ pending' = [pending EXCEPT ![q] = Append(@, c)]
  /\ UNCHANGED <<serving, fate>>

\* Only the oldest request can be found to be obsolete.
Drop(q) ==
  /\ pending[q] # <<>>
  /\ pending' = [pending EXCEPT ![q] = Tail(@)]
  /\ fate'    = [fate EXCEPT ![Head(pending[q])] = "dropped"]
  /\ UNCHANGED serving

Take(q, w) ==
  /\ pending[q] # <<>> /\ serving[w] = None
  /\ pending' = [pending EXCEPT ![q] = Tail(@)]
  /\ serving' = [serving EXCEPT ![w] = Head(pending[q])]
  /\ UNCHANGED fate

Answer(w) ==
  /\ serving[w] # None
  /\ fate'    = [fate EXCEPT ![serving[w]] = "answered"]
  /\ serving' = [serving EXCEPT ![w] = None]
  /\ UNCHANGED pending

Next ==
  \/ \E c \in Client : Refuse(c) \/ Submit(c)
  \/ \E q \in Queue : Drop(q) \/ \E w \in Worker : Take(q, w)
  \/ \E w \in Worker : Answer(w)

Spec == Init /\ [][Next]_vars

=============================================================================
