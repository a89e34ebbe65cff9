----------------------------- MODULE MCRxWorker -----------------------------
(***************************************************************************)
(* Instances of RxWorker for TLC: two connections, a queue of one element, *)
(* so that readers, rotation and Close all meet a full queue.              *)
(***************************************************************************)
EXTENDS RxWorker, TLC

CONSTANTS c1, c2

MCConns == {c1, c2}
MCWindows == {2, 4}
MCSent == {1, 3}

ConnSymmetry == Permutations(MCConns)
=============================================================================
