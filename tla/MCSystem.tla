------------------------------ MODULE MCSystem ------------------------------
(* Small instances of the whole system for TLC. *)
EXTENDS System, TLC

CONSTANTS p1, p2, t1, t2, t3, w1, w2, q1

\* Two clients, of which the first may have two threads.
ClientOfThread == [t \in Thread |-> IF t = t3 THEN p2 ELSE p1]
SameQueue      == [x \in Thread \cup Worker |-> q1]

\* A client that asks twice, or each client once.
Loads == {[t \in Thread |-> IF t = t1 THEN 2 ELSE 0], [t \in Thread |-> 1]}

OneOfEach == [client |-> 1, worker |-> 1, frontend |-> 1]

=============================================================================
