-------------------------- MODULE MCReorderBuffer --------------------------
(***************************************************************************)
(* Instances of ReorderBuffer for TLC: a ring of two slots that may grow to*)
(* four, numbers far enough apart to force growth and rejection.           *)
(***************************************************************************)
EXTENDS ReorderBuffer, TLC

CONSTANTS r1, r2

MCReaders == {r1, r2}
MCWindows == {2, 4}
MCSent == {1, 2, 4}
MCSentToTheEnd == 13 .. 15

ReaderSymmetry == Permutations(MCReaders)
=============================================================================
