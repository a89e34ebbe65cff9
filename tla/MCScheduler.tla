---------------------------- MODULE MCScheduler ----------------------------
(***************************************************************************)
(* Two backend slots, channels of three batches.  A data batch is two      *)
(* units, the bonus of a corked tail one.  The round trips are two that    *)
(* are close to each other and one outside their envelope.                 *)
(***************************************************************************)
EXTENDS Scheduler

CONSTANTS b1, b2

MCSlots == {b1, b2}
MCSizes == {2}
MCThresholds == <<4, 8>>
MCRTTs == {10000, 70000}
=============================================================================
