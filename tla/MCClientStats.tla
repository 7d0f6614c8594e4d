--------------------------- MODULE MCClientStats ---------------------------
(* Small instances of the client's statistics for TLC. *)
EXTENDS ClientStats, TLC

\* Threads, nodes and devices can be exchanged for one another.
Symmetry == Permutations(Thread) \cup Permutations(Node) \cup Permutations(Device)

=============================================================================
