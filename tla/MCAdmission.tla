---------------------------- MODULE MCAdmission ----------------------------
(***************************************************************************)
(* Admission and the switch with small sets for TLC.                       *)
(***************************************************************************)
EXTENDS Admission, TLC

CONSTANTS c1, c2, m1, m2, p1, p2

TwoConns == {c1, c2}
TwoMACs == {m1, m2}
TwoPSKs == {p1, p2}
Identities == MACs \X PSKs

\* Three IPv4 hosts and two IPv6 hosts besides the gateway, so that the second pool runs
\* out when the first still has an address.
V4Hosts == 0 .. 4
V6Hosts == 0 .. 3

AdmissionSymmetry == Permutations(Conns) \cup Permutations(MACs) \cup Permutations(PSKs)
=============================================================================
