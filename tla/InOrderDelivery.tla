-------------------------- MODULE InOrderDelivery --------------------------
(***************************************************************************)
(* What the receive path promises the TAP device or the switch behind it,  *)
(* whichever of its two implementations is in use (buffer.go: "outputs the *)
(* received frames in order"): frames arrive in any order and some are     *)
(* given up, but what is handed on is a strictly increasing sequence of    *)
(* frames that did arrive.                                                 *)
(***************************************************************************)
EXTENDS Integers, Sequences

VARIABLES
    received,    \* the frames that have arrived
    delivered    \* the frames handed on, in order

Precedes(f, g) == f.gen < g.gen \/ (f.gen = g.gen /\ f.seq < g.seq)

Init == received = {} /\ delivered = <<>>

Receive ==
    /\ received \subseteq received'
    /\ UNCHANGED delivered

\* One batch is handed on, perhaps as its last frame arrives: it extends the history
\* and keeps it increasing.
HandOn ==
    /\ received \subseteq received'
    /\ Len(delivered') > Len(delivered)
    /\ SubSeq(delivered', 1, Len(delivered)) = delivered
    /\ \A i \in Len(delivered) + 1 .. Len(delivered') : delivered'[i] \in received'
    /\ \A i \in Len(delivered) .. Len(delivered') - 1 :
           i > 0 => Precedes(delivered'[i], delivered'[i + 1])

Next == Receive \/ HandOn

Spec == Init /\ [][Next]_<<received, delivered>>
=============================================================================
