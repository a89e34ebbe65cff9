----------------------------- MODULE MCSession -----------------------------
(***************************************************************************)
(* Session with small sets for TLC.                                        *)
(***************************************************************************)
EXTENDS Session, TLC

CONSTANTS c1, c2, c3

TwoConns == {c1, c2}
ThreeConns == {c1, c2, c3}

ConnSymmetry == Permutations(Conns)
=============================================================================
