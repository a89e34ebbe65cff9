---------------------------- MODULE ReorderCore ----------------------------
(***************************************************************************)
(* The sequential state machine inside ReorderBuffer (buffer.go): what one *)
(* critical section does to the ring.  ReorderBuffer wraps these operators *)
(* in the two mutexes and three kinds of goroutine of the single-path      *)
(* build; RxWorker wraps the same operators in the lock-free actor of the  *)
(* multi-path build (rx_actor.go calls the same Locked functions).         *)
(*                                                                         *)
(* A frame is [seq, gen]: its wire sequence number and the session epoch   *)
(* its sender numbered it in.  The ring is the set of frames it holds: a   *)
(* frame sits in slot seq % window, so ring[idx] # nil is "some held frame *)
(* has that slot".                                                         *)
(***************************************************************************)
EXTENDS Integers, Sequences, FiniteSets

CONSTANTS
    SeqSpace,  \* 2^32: sequence numbers are uint32, 0 is never data
    Windows    \* the ring sizes: ReorderWindowSize doubled up to ReorderMaxWindowSize

ASSUME SeqSpaceAssumption == SeqSpace \in Nat /\ SeqSpace > 1

ASSUME WindowsAssumption ==
    /\ Windows # {}
    /\ Windows \subseteq {w \in Nat : 0 < w /\ 2 * w <= SeqSpace /\ SeqSpace % w = 0}

Seqs == 1 .. SeqSpace - 1

U32Add(a, b) == IF a + b < SeqSpace THEN a + b ELSE a + b - SeqSpace

U32Sub(a, b) == IF a >= b THEN a - b ELSE a - b + SeqSpace

\* int32(a - b) < 0
Behind(a, b) == 2 * U32Sub(a, b) >= SeqSpace

ReorderWindowSize == CHOOSE w \in Windows : \A x \in Windows : w <= x

ReorderMaxWindowSize == CHOOSE w \in Windows : \A x \in Windows : x <= w

(***************************************************************************)
(* rb.expected  expectedSeq, 0 before the first frame of an epoch          *)
(* rb.window    len(ring)                                                  *)
(* rb.ring      the held frames                                            *)
(* rb.gap       gapSince: "none", "fresh" (younger than reorderSkipDelay)  *)
(*              or "due"                                                   *)
(* rb.pending   the frames collected for delivery, in order                *)
(***************************************************************************)
ReorderStates(F) ==
    [expected : 0 .. SeqSpace - 1, window : Windows, ring : SUBSET F,
     gap : {"none", "fresh", "due"}, pending : Seq(F)]

NewReorder ==
    [expected |-> 0, window |-> ReorderWindowSize, ring |-> {},
     gap |-> "none", pending |-> <<>>]

InSlot(ring, window, seq) == {f \in ring : f.seq % window = seq % window}

Occupied(rb, seq) == InSlot(rb.ring, rb.window, seq) # {}

\* refreshGapLocked: a gap is timed only while a later frame is being held.
HasGap(rb) ==
    rb.ring # {} /\ rb.expected # 0 /\ ~Occupied(rb, rb.expected)

RefreshGap(rb) ==
    [rb EXCEPT !.gap = IF ~HasGap(rb) THEN "none"
                       ELSE IF @ = "none" THEN "fresh" ELSE @]

(***************************************************************************)
(* drainLocked: move the frames that continue the sequence to pending, then*)
(* time the next gap, if any, from now.                                    *)
(***************************************************************************)
RunLength(rb) ==
    CHOOSE n \in 0 .. rb.window :
        /\ \A i \in 0 .. n - 1 : Occupied(rb, U32Add(rb.expected, i))
        /\ n = rb.window \/ ~Occupied(rb, U32Add(rb.expected, n))

Run(rb) ==
    [i \in 1 .. RunLength(rb) |->
        CHOOSE f \in InSlot(rb.ring, rb.window, U32Add(rb.expected, i - 1)) : TRUE]

\* Mutant: the gap behind the drained run is not timed.
DrainUntimed(rb) ==
    LET run == Run(rb)
    IN  [rb EXCEPT !.expected = U32Add(@, Len(run)), !.ring = @ \ {run[i] : i \in DOMAIN run},
                   !.gap = "none", !.pending = @ \o run]

Drain(rb) ==
    LET run == Run(rb)
    IN  RefreshGap([rb EXCEPT !.expected = U32Add(@, Len(run)),
                              !.ring = @ \ {run[i] : i \in DOMAIN run},
                              !.gap = "none",
                              !.pending = @ \o run])

(***************************************************************************)
(* growWindowLocked(distance + 1): the ring sizes that would do.  One that *)
(* is only just large enough is refused, so distance ReorderMaxWindowSize-1*)
(* is accepted only by a ring that has already grown to the maximum.       *)
(***************************************************************************)
Larger(window, distance) == {w \in Windows : w > window /\ w > distance + 1}

Grow(window, distance) ==
    IF distance < window THEN window
    ELSE CHOOSE w \in Larger(window, distance) :
             \A x \in Larger(window, distance) : w <= x

(***************************************************************************)
(* insertLocked.  Every rejected frame goes back to the pool.              *)
(***************************************************************************)
Accepts(rb, f) ==
    LET distance == U32Sub(f.seq, rb.expected)
    IN  /\ ~Behind(f.seq, rb.expected)
        /\ distance < rb.window \/ Larger(rb.window, distance) # {}

Store(rb, f) ==
    LET grown  == [rb EXCEPT !.window = Grow(@, U32Sub(f.seq, rb.expected))]
        stored == [grown EXCEPT !.ring = @ \cup {f}]
    IN  IF Occupied(grown, f.seq) THEN grown
        ELSE IF f.seq = rb.expected THEN Drain(stored)
        ELSE RefreshGap(stored)

InsertLocked(rb, f) ==
    LET based == [rb EXCEPT !.expected = IF @ = 0 THEN f.seq ELSE @]
    IN  IF Accepts(based, f) THEN Store(based, f) ELSE based

(***************************************************************************)
(* The gap timeout (timeoutWorker, ExpireGapActor): give up on the missing *)
(* frames and continue from the first one held.                            *)
(***************************************************************************)
Expirable(rb) ==
    rb.gap = "due" /\ rb.ring # {} /\ rb.expected # 0 /\ ~Occupied(rb, rb.expected)

SkipTo(rb) ==
    {i \in 1 .. rb.window - 1 :
        /\ Occupied(rb, U32Add(rb.expected, i))
        /\ \A j \in 1 .. i - 1 : ~Occupied(rb, U32Add(rb.expected, j))}

ExpireGap(rb) ==
    IF SkipTo(rb) = {} THEN [rb EXCEPT !.gap = "none"]
    ELSE Drain([rb EXCEPT !.expected = U32Add(@, CHOOSE i \in SkipTo(rb) : TRUE)])

\* Mutant: Reset leaves the ring as it is.
ResetKeepsRing(rb) ==
    [rb EXCEPT !.expected = 0, !.gap = "none", !.pending = <<>>]

\* Reset, ResetActor: forget the epoch; frames in flight are released.
ResetReorder(rb) ==
    [rb EXCEPT !.expected = 0, !.ring = {}, !.gap = "none", !.pending = <<>>]

TakePending(rb) == [rb EXCEPT !.pending = <<>>]

\* Mutant: a gap that opens does not wake the worker.
WakesOnlyOnDelivery(before, after) ==
    after.pending # before.pending /\ before.gap # "none"

\* What insertLocked returns: the gap worker must recompute its deadline.
WakesGapWorker(before, after) ==
    \/ (before.gap = "none") # (after.gap = "none")
    \/ (after.pending # before.pending /\ before.gap # "none")
=============================================================================
