----------------------------- MODULE MCFecLink -----------------------------
(***************************************************************************)
(* Groups of two over two or three connections.                            *)
(***************************************************************************)
EXTENDS FecLink

CONSTANTS p1, p2, p3

TwoPaths == {p1, p2}
ThreePaths == {p1, p2, p3}
MCWindows == {4, 8}

\* A receiver slow enough, and queues short enough, that fences get lost.
SlowReceiver ==
    /\ Cardinality(arrived) <= 1
    /\ \A p \in Paths : Len(stream[p]) <= 3

PathSymmetry == Permutations(Paths)
=============================================================================
