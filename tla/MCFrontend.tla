----------------------------- MODULE MCFrontend -----------------------------
(* Small instances of the frontend for TLC. *)
EXTENDS Frontend, TLC

CONSTANTS q1, q2, c1, c2, c3, w1, w2, unknown, s1, s2

\* Peers of a kind that use one queue can be exchanged for one another.
Symmetry == Permutations(Client) \cup Permutations(Worker)

OneQueue  == {q1}
TwoQueues == {q1, q2}

\* Everyone uses the one queue.
SameTarget == [x \in Peer |-> q1]

\* Two clients and a worker use one queue; the third client asks for a queue
\* that does not exist.
MixedTarget == [x \in Peer |-> IF x = c3 THEN unknown ELSE q1]

=============================================================================
