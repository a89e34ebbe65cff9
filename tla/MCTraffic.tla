----------------------------- MODULE MCTraffic -----------------------------
(***************************************************************************)
(* One client and two session objects, so that one session of it can be    *)
(* retired, or still counting, while the next is active.                   *)
(***************************************************************************)
EXTENDS Traffic

Symmetry == {[s \in Sessions |-> s], [s \in Sessions |-> CHOOSE t \in Sessions : t # s]}
=============================================================================
