--------------------------- MODULE MCPortRotation ---------------------------
(***************************************************************************)
(* PortRotation with small sets for TLC.                                   *)
(***************************************************************************)
EXTENDS PortRotation, TLC

CONSTANTS c1, c2

TwoConns == {c1, c2}

ConnSymmetry == Permutations(Conns)
=============================================================================
