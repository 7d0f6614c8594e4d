-------------------------- MODULE MCClientControl --------------------------
(* Small instances of the client's request throttling for TLC. *)
EXTENDS ClientControl, TLC

CONSTANTS h1, h2

Symmetry == Permutations(Handler)

\* Too small, off, one of two threads, both, too many.
AllValues == {-1, 0, 1, 2, 3}

\* Too small, one of two threads, too many.
SomeValues == {-1, 1, 3}

\* Too small, too many.
Extremes == {-1, 3}

=============================================================================
