-------------------------- MODULE ReorderTheorems --------------------------
(***************************************************************************)
(* What one critical section of the reorder buffer preserves, for every    *)
(* ring size and every set of frames: lemmas about the operators of        *)
(* ReorderCore, cited by the proofs about the modules that wrap them.      *)
(***************************************************************************)
EXTENDS ReorderCore, TLAPS, WellFoundedInduction

\* A non-empty set of natural numbers has a least element.
LEMMA LeastNatural ==
    ASSUME NEW T, T \subseteq Nat, T # {}
    PROVE  \E x \in T : \A y \in T : x <= y
<1>1. PICK x \in T : \A y \in T : ~(<<y, x>> \in OpToRel(<, Nat))
  BY NatLessThanWellFounded, WFMin, Zenon
<1>2. \A y \in T : ~(y < x)
  BY <1>1, Zenon DEF OpToRel
<1>3. \A y \in T : x <= y
  BY <1>2
<1> QED
  BY <1>3, Zenon

\* Sequence numbers stay uint32.
LEMMA U32AddType ==
    ASSUME NEW a \in 0 .. SeqSpace - 1, NEW b \in 0 .. SeqSpace
    PROVE  U32Add(a, b) \in 0 .. SeqSpace - 1
BY SeqSpaceAssumption DEF U32Add

\* Every ring size is positive and at most half the sequence space.
LEMMA WindowBounds ==
    ASSUME NEW w \in Windows
    PROVE  w \in Nat /\ w > 0 /\ w < SeqSpace
BY WindowsAssumption, SeqSpaceAssumption

\* A buffer starts with the smallest ring size.
LEMMA SmallestWindow == ReorderWindowSize \in Windows
<1>1. \E w \in Windows : \A x \in Windows : w <= x
  BY LeastNatural, WindowsAssumption, WindowBounds, Zenon
<1> QED
  BY <1>1, Zenon DEF ReorderWindowSize

\* growWindowLocked only ever picks one of the ring sizes.
LEMMA GrowType ==
    ASSUME NEW window \in Windows, NEW distance \in Nat,
           distance < window \/ Larger(window, distance) # {}
    PROVE  Grow(window, distance) \in Windows /\ distance < Grow(window, distance)
                                              /\ window <= Grow(window, distance)
<1>1. CASE distance < window
  BY <1>1, WindowBounds DEF Grow
<1>2. CASE ~(distance < window)
  <2>1. Larger(window, distance) # {} /\ Larger(window, distance) \subseteq Nat
    BY <1>2, WindowBounds, Zenon DEF Larger
  <2>2. \E w \in Larger(window, distance) : \A x \in Larger(window, distance) : w <= x
    BY <2>1, LeastNatural, Zenon
  <2>3. Grow(window, distance) \in Larger(window, distance)
    BY <1>2, <2>2, Zenon DEF Grow
  <2> QED
    BY <2>3, WindowBounds DEF Larger
<1> QED
  BY <1>1, <1>2, Zenon

\* drainLocked stops at the first empty slot, or after going once round the ring.
LEMMA RunLengthStops ==
    ASSUME NEW rb, rb.window \in Nat
    PROVE  /\ RunLength(rb) \in 0 .. rb.window
           /\ \A i \in 0 .. RunLength(rb) - 1 : Occupied(rb, U32Add(rb.expected, i))
           /\ RunLength(rb) = rb.window \/ ~Occupied(rb, U32Add(rb.expected, RunLength(rb)))
<1> DEFINE Stops == {n \in 0 .. rb.window :
                        n = rb.window \/ ~Occupied(rb, U32Add(rb.expected, n))}
<1>1. rb.window \in Stops /\ Stops \subseteq Nat
  OBVIOUS
<1>2. PICK n \in Stops : \A m \in Stops : n <= m
  BY <1>1, LeastNatural, Zenon
<1>3. \A i \in 0 .. n - 1 : Occupied(rb, U32Add(rb.expected, i))
  BY <1>2
<1>4. \E m \in 0 .. rb.window :
         /\ \A i \in 0 .. m - 1 : Occupied(rb, U32Add(rb.expected, i))
         /\ m = rb.window \/ ~Occupied(rb, U32Add(rb.expected, m))
  BY <1>2, <1>3, Zenon
<1> QED
  BY <1>4, Zenon DEF RunLength

\* The drained frames are frames of the ring, a sequence of RunLength of them.
LEMMA RunType ==
    ASSUME NEW F, NEW rb \in ReorderStates(F)
    PROVE  /\ Run(rb) \in Seq(F) /\ Len(Run(rb)) = RunLength(rb)
           /\ Len(Run(rb)) \in 0 .. SeqSpace
           /\ \A i \in 1 .. RunLength(rb) :
                 Run(rb)[i] \in InSlot(rb.ring, rb.window, U32Add(rb.expected, i - 1))
<1>1. rb.window \in Nat /\ rb.window < SeqSpace /\ rb.ring \subseteq F
  BY WindowBounds, Zenon DEF ReorderStates
<1>2. /\ RunLength(rb) \in Nat /\ RunLength(rb) <= rb.window
      /\ \A i \in 0 .. RunLength(rb) - 1 : Occupied(rb, U32Add(rb.expected, i))
  BY <1>1, RunLengthStops
<1> DEFINE Slot(i) == InSlot(rb.ring, rb.window, U32Add(rb.expected, i - 1))
<1>3. \A i \in 1 .. RunLength(rb) : Slot(i) # {}
  <2> TAKE i \in 1 .. RunLength(rb)
  <2>1. i - 1 \in 0 .. RunLength(rb) - 1
    BY <1>2
  <2> QED
    BY <2>1, <1>2, Zenon DEF Occupied
<1>4. \A i \in 1 .. RunLength(rb) : (CHOOSE f \in Slot(i) : TRUE) \in Slot(i)
  BY <1>3, Zenon
<1>5. \A i \in 1 .. RunLength(rb) : Slot(i) \subseteq F
  BY <1>1, Zenon DEF InSlot
<1>6. Run(rb) = [i \in 1 .. RunLength(rb) |-> CHOOSE f \in Slot(i) : TRUE]
  BY Zenon DEF Run
<1> HIDE DEF Slot
<1>7. Run(rb) \in [1 .. RunLength(rb) -> F]
  BY <1>4, <1>5, <1>6, Zenon
<1>8. Run(rb) \in Seq(F) /\ Len(Run(rb)) = RunLength(rb)
  BY <1>2, <1>7
<1>9. \A i \in 1 .. RunLength(rb) : Run(rb)[i] \in Slot(i)
  BY <1>4, <1>6, Zenon
<1> QED
  BY <1>1, <1>2, <1>8, <1>9, SeqSpaceAssumption DEF Slot

-----------------------------------------------------------------------------
(***************************************************************************)
(* Types.                                                                  *)
(***************************************************************************)
LEMMA RefreshGapType ==
    ASSUME NEW F, NEW rb \in ReorderStates(F)
    PROVE  /\ RefreshGap(rb) \in ReorderStates(F)
           /\ RefreshGap(rb).expected = rb.expected /\ RefreshGap(rb).window = rb.window
           /\ RefreshGap(rb).ring = rb.ring /\ RefreshGap(rb).pending = rb.pending
           /\ RefreshGap(rb).gap = "none" <=> ~HasGap(rb)
BY Zenon DEF RefreshGap, ReorderStates

\* A buffer of some frames is a buffer of more frames.
LEMMA MoreFrames ==
    ASSUME NEW F, NEW G, F \subseteq G, NEW r \in ReorderStates(F)
    PROVE  r \in ReorderStates(G)
<1>1. r.pending \in Seq(G)
  BY DEF ReorderStates
<1>2. r.ring \in SUBSET G
  BY Zenon DEF ReorderStates
<1> QED
  BY <1>1, <1>2, Zenon DEF ReorderStates

\* takePendingLocked empties pending and touches nothing else.
LEMMA TakePendingType ==
    ASSUME NEW F, NEW rb \in ReorderStates(F)
    PROVE  /\ TakePending(rb) \in ReorderStates(F) /\ TakePending(rb).pending = <<>>
           /\ TakePending(rb).expected = rb.expected /\ TakePending(rb).window = rb.window
           /\ TakePending(rb).ring = rb.ring /\ TakePending(rb).gap = rb.gap
<1> DEFINE none == <<>>
<1>1. none \in Seq(F)
  OBVIOUS
<1>2. TakePending(rb) = [rb EXCEPT !.pending = none]
  BY Zenon DEF TakePending
<1> HIDE DEF none
<1>3. /\ TakePending(rb) \in ReorderStates(F) /\ TakePending(rb).pending = none
      /\ TakePending(rb).expected = rb.expected /\ TakePending(rb).window = rb.window
      /\ TakePending(rb).ring = rb.ring /\ TakePending(rb).gap = rb.gap
  BY <1>1, <1>2, Zenon DEF ReorderStates
<1> QED
  BY <1>3, Zenon DEF none

\* Reset keeps the buffer well typed.
LEMMA ResetType ==
    ASSUME NEW F, NEW rb \in ReorderStates(F)
    PROVE  /\ ResetReorder(rb) \in ReorderStates(F) /\ ResetReorder(rb).pending = <<>>
           /\ ResetReorder(rb).ring = {} /\ ResetReorder(rb).gap = "none"
<1> DEFINE r == [rb EXCEPT !.expected = 0, !.ring = {}, !.gap = "none"]
<1>1. r \in ReorderStates(F) /\ r.ring = {} /\ r.gap = "none"
  <2>1. 0 \in 0 .. SeqSpace - 1
    BY SeqSpaceAssumption
  <2> QED
    BY <2>1, Zenon DEF ReorderStates
<1>2. ResetReorder(rb) = TakePending(r)
  BY Zenon DEF ResetReorder, TakePending, ReorderStates
<1> HIDE DEF r
<1> QED
  BY <1>1, <1>2, TakePendingType

\* What drainLocked leaves, before the next gap is timed.
Drained(rb) ==
    [rb EXCEPT !.expected = U32Add(@, Len(Run(rb))),
               !.ring = @ \ {Run(rb)[i] : i \in DOMAIN Run(rb)},
               !.gap = "none",
               !.pending = @ \o Run(rb)]

\* The state before the trailing refreshGapLocked of drainLocked is well typed.
LEMMA DrainedType ==
    ASSUME NEW F, NEW rb \in ReorderStates(F)
    PROVE  Drain(rb) = RefreshGap(Drained(rb)) /\ Drained(rb) \in ReorderStates(F)
<1>1. Drain(rb) = RefreshGap(Drained(rb))
  BY Zenon DEF Drain, Drained
<1>2. Run(rb) \in Seq(F) /\ Len(Run(rb)) \in 0 .. SeqSpace
  BY RunType, Zenon
<1>3. U32Add(rb.expected, Len(Run(rb))) \in 0 .. SeqSpace - 1
  BY <1>2, U32AddType, Zenon DEF ReorderStates
<1>4. rb.pending \o Run(rb) \in Seq(F)
  BY <1>2 DEF ReorderStates
<1>5. Drained(rb) \in ReorderStates(F)
  BY <1>3, <1>4, Zenon DEF Drained, ReorderStates
<1> QED
  BY <1>1, <1>5, Zenon

\* drainLocked keeps the buffer well typed; it adds nothing to the ring.
LEMMA DrainType ==
    ASSUME NEW F, NEW rb \in ReorderStates(F)
    PROVE  Drain(rb) \in ReorderStates(F) /\ Drain(rb).ring \subseteq rb.ring
<1>1. Drain(rb) = RefreshGap(Drained(rb)) /\ Drained(rb) \in ReorderStates(F)
  BY DrainedType, Zenon
<1>2. RefreshGap(Drained(rb)) \in ReorderStates(F)
      /\ RefreshGap(Drained(rb)).ring = Drained(rb).ring
  BY <1>1, RefreshGapType, Zenon
<1>3. Drained(rb).ring \subseteq rb.ring
  BY Zenon DEF Drained, ReorderStates
<1> QED
  BY <1>1, <1>2, <1>3, Zenon

\* The state a frame that opens an epoch is inserted into.
Based(rb, f) == [rb EXCEPT !.expected = IF @ = 0 THEN f.seq ELSE @]

Grown(rb, f) == [rb EXCEPT !.window = Grow(@, U32Sub(f.seq, rb.expected))]

Stored(rb, f) == [Grown(rb, f) EXCEPT !.ring = @ \cup {f}]

\* Taking the first number of an epoch as the one awaited is well typed.
LEMMA BasedType ==
    ASSUME NEW F, \A f \in F : f.seq \in Seqs,
           NEW rb \in ReorderStates(F), NEW f \in F
    PROVE  /\ Based(rb, f) \in ReorderStates(F)
           /\ Based(rb, f).expected = IF rb.expected = 0 THEN f.seq ELSE rb.expected
           /\ Based(rb, f).window = rb.window /\ Based(rb, f).ring = rb.ring
           /\ Based(rb, f).gap = rb.gap /\ Based(rb, f).pending = rb.pending
<1> DEFINE e == IF rb.expected = 0 THEN f.seq ELSE rb.expected
<1>1. e \in 0 .. SeqSpace - 1
  BY SeqSpaceAssumption DEF ReorderStates, Seqs
<1>2. Based(rb, f) = [rb EXCEPT !.expected = e]
  BY Zenon DEF Based
<1> HIDE DEF e
<1>3. /\ Based(rb, f) \in ReorderStates(F) /\ Based(rb, f).expected = e
      /\ Based(rb, f).window = rb.window /\ Based(rb, f).ring = rb.ring
      /\ Based(rb, f).gap = rb.gap /\ Based(rb, f).pending = rb.pending
  BY <1>1, <1>2, Zenon DEF ReorderStates
<1> QED
  BY <1>3, Zenon DEF e

\* Growing the window and filling a slot is well typed.
LEMMA StoredType ==
    ASSUME NEW F, \A f \in F : f.seq \in Seqs,
           NEW rb \in ReorderStates(F), NEW f \in F, Accepts(rb, f)
    PROVE  /\ Grown(rb, f) \in ReorderStates(F) /\ Stored(rb, f) \in ReorderStates(F)
           /\ U32Sub(f.seq, rb.expected) \in 0 .. Grown(rb, f).window - 1
           /\ rb.window <= Grown(rb, f).window
<1> DEFINE distance == U32Sub(f.seq, rb.expected)
<1>1. distance \in Nat
  BY SeqSpaceAssumption DEF U32Sub, ReorderStates, Seqs
<1>2. distance < rb.window \/ Larger(rb.window, distance) # {}
  BY Zenon DEF Accepts
<1>3. rb.window \in Windows
  BY Zenon DEF ReorderStates
<1> HIDE DEF distance
<1>4. /\ Grow(rb.window, distance) \in Windows /\ distance < Grow(rb.window, distance)
      /\ rb.window <= Grow(rb.window, distance)
  BY <1>1, <1>2, <1>3, GrowType, Zenon
<1>5. Grown(rb, f) \in ReorderStates(F) /\ Grown(rb, f).window = Grow(rb.window, distance)
  BY <1>4, Zenon DEF Grown, ReorderStates, distance
<1>6. Stored(rb, f) \in ReorderStates(F)
  BY <1>5, SMTT(30) DEF Stored, ReorderStates
<1>7. Grow(rb.window, distance) \in Nat
  BY <1>4, WindowBounds, Zenon
<1>8. distance \in 0 .. Grown(rb, f).window - 1
  BY <1>1, <1>4, <1>5, <1>7
<1> QED
  BY <1>4, <1>5, <1>6, <1>8, Zenon DEF distance

\* insertLocked keeps the buffer well typed, and the ring gains the new frame at most.
LEMMA InsertType ==
    ASSUME NEW F, \A f \in F : f.seq \in Seqs,
           NEW rb \in ReorderStates(F), NEW f \in F
    PROVE  /\ InsertLocked(rb, f) \in ReorderStates(F)
           /\ InsertLocked(rb, f).ring \subseteq rb.ring \cup {f}
<1> DEFINE b == Based(rb, f)
<1>1. b \in ReorderStates(F) /\ b.ring = rb.ring
  BY BasedType, ZenonT(30)
<1>2. InsertLocked(rb, f) = IF Accepts(b, f) THEN Store(b, f) ELSE b
  BY Zenon DEF InsertLocked, Based
<1> HIDE DEF b
<1>3. CASE ~Accepts(b, f)
  BY <1>1, <1>2, <1>3, Zenon
<1>4. CASE Accepts(b, f)
  <2>1. Grown(b, f) \in ReorderStates(F) /\ Stored(b, f) \in ReorderStates(F)
    BY <1>1, <1>4, StoredType, ZenonT(30)
  <2>2. Grown(b, f).ring = b.ring /\ Stored(b, f).ring = b.ring \cup {f}
    BY <1>1, <2>1, Zenon DEF Grown, Stored, ReorderStates
  <2>3. Store(b, f) = IF Occupied(Grown(b, f), f.seq) THEN Grown(b, f)
                      ELSE IF f.seq = b.expected THEN Drain(Stored(b, f))
                      ELSE RefreshGap(Stored(b, f))
    BY Zenon DEF Store, Grown, Stored
  <2>4. /\ Drain(Stored(b, f)) \in ReorderStates(F)
        /\ Drain(Stored(b, f)).ring \subseteq Stored(b, f).ring
    BY <2>1, DrainType, Zenon
  <2>5. /\ RefreshGap(Stored(b, f)) \in ReorderStates(F)
        /\ RefreshGap(Stored(b, f)).ring = Stored(b, f).ring
    BY <2>1, RefreshGapType, ZenonT(30)
  <2> QED
    BY <1>1, <1>2, <1>4, <2>1, <2>2, <2>3, <2>4, <2>5, Zenon
<1> QED
  BY <1>3, <1>4, Zenon

\* So does the gap timeout, which adds nothing.
LEMMA ExpireType ==
    ASSUME NEW F, NEW rb \in ReorderStates(F)
    PROVE  ExpireGap(rb) \in ReorderStates(F) /\ ExpireGap(rb).ring \subseteq rb.ring
<1>1. CASE SkipTo(rb) = {}
  BY <1>1, ZenonT(30) DEF ExpireGap, ReorderStates
<1>2. CASE SkipTo(rb) # {}
  <2> DEFINE i == CHOOSE i \in SkipTo(rb) : TRUE
             s == [rb EXCEPT !.expected = U32Add(@, i)]
  <2>1. i \in SkipTo(rb)
    BY <1>2, Zenon
  <2>2. i \in 0 .. SeqSpace
    BY <2>1, WindowBounds, SeqSpaceAssumption DEF SkipTo, ReorderStates
  <2> HIDE DEF i
  <2>3. U32Add(rb.expected, i) \in 0 .. SeqSpace - 1
    BY <2>2, U32AddType, Zenon DEF ReorderStates
  <2>4. s \in ReorderStates(F) /\ s.ring = rb.ring
    BY <2>3, Zenon DEF ReorderStates
  <2>5. ExpireGap(rb) = Drain(s)
    BY <1>2, Zenon DEF ExpireGap, i
  <2> HIDE DEF s
  <2> QED
    BY <2>4, <2>5, DrainType, ZenonT(30)
<1> QED
  BY <1>1, <1>2, Zenon

-----------------------------------------------------------------------------
(***************************************************************************)
(* Slots.  A ring size divides the sequence space, so that the slot of a   *)
(* number tells its distance from the number awaited, as long as all held  *)
(* numbers are less than a ring size away; also across the wrap to 0.      *)
(***************************************************************************)
LEMMA DivMod ==
    ASSUME NEW a \in Nat, NEW w \in Nat, w > 0
    PROVE  /\ a \div w \in Nat /\ a % w \in 0 .. w - 1
           /\ a = w * (a \div w) + (a % w)
OBVIOUS

\* A number has one quotient and one remainder.
LEMMA QuotientUnique ==
    ASSUME NEW w \in Nat, w > 0, NEW p \in Int, NEW q \in Int,
           NEW r \in 0 .. w - 1, NEW s \in 0 .. w - 1, w * p + r = w * q + s
    PROVE  p = q /\ r = s
<1>1. w * (p - q) = s - r
  OBVIOUS
<1>2. s - r < w /\ r - s < w
  OBVIOUS
<1>3. ~(p - q >= 1)
  <2> SUFFICES ASSUME p - q >= 1 PROVE FALSE
    BY Zenon
  <2>1. w * (p - q) >= w
    OBVIOUS
  <2> QED
    BY <1>1, <1>2, <2>1
<1>4. ~(q - p >= 1)
  <2> SUFFICES ASSUME q - p >= 1 PROVE FALSE
    BY Zenon
  <2>1. w * (q - p) >= w
    OBVIOUS
  <2>2. w * (q - p) = r - s
    BY <1>1
  <2> QED
    BY <1>2, <2>1, <2>2
<1>5. p = q
  BY <1>3, <1>4
<1> QED
  BY <1>1, <1>5

\* Two numbers that share a slot and are less than a window apart are equal.
LEMMA SameSlot ==
    ASSUME NEW w \in Nat, w > 0, NEW a \in Nat, NEW b \in Nat,
           a < b + w, b < a + w, a % w = b % w
    PROVE  a = b
<1> DEFINE p == a \div w
           q == b \div w
<1>1. /\ p \in Nat /\ q \in Nat
      /\ a = w * p + (a % w) /\ b = w * q + (b % w)
      /\ a % w \in Nat /\ b % w \in Nat
  BY DivMod
<1> HIDE DEF p, q
<1>2. a - b = w * (p - q)
  BY <1>1
<1>3. ~(p - q >= 1)
  <2> SUFFICES ASSUME p - q >= 1 PROVE FALSE
    BY Zenon
  <2>1. w * (p - q) >= w
    BY <1>1
  <2> QED
    BY <1>2, <2>1
<1>4. ~(q - p >= 1)
  <2> SUFFICES ASSUME q - p >= 1 PROVE FALSE
    BY ZenonT(30)
  <2>1. w * (q - p) >= w
    BY <1>1
  <2>2. b - a = w * (q - p)
    BY <1>1
  <2> QED
    BY <2>1, <2>2
<1>5. p = q
  BY <1>1, <1>3, <1>4
<1> QED
  BY <1>1, <1>5, Zenon

\* The wrap of uint32 keeps slots: every ring size divides the sequence space.
LEMMA WrapKeepsSlot ==
    ASSUME NEW w \in Windows, NEW a \in Nat, a >= SeqSpace
    PROVE  (a - SeqSpace) % w = a % w
<1>1. w \in Nat /\ w > 0 /\ SeqSpace \in Nat /\ SeqSpace % w = 0
  BY WindowsAssumption, SeqSpaceAssumption, Zenon
<1> DEFINE b == a - SeqSpace
           p == a \div w
           q == b \div w
           k == SeqSpace \div w
<1>2. b \in Nat
  BY <1>1
<1>3. /\ p \in Nat /\ q \in Nat /\ k \in Nat
      /\ a = w * p + (a % w) /\ b = w * q + (b % w) /\ SeqSpace = w * k
      /\ a % w \in 0 .. w - 1 /\ b % w \in 0 .. w - 1
  <2>1. p \in Nat /\ a % w \in 0 .. w - 1 /\ a = w * p + (a % w)
    BY <1>1, DivMod, Zenon
  <2>2. q \in Nat /\ b % w \in 0 .. w - 1 /\ b = w * q + (b % w)
    BY <1>1, <1>2, DivMod, Zenon
  <2>3. k \in Nat /\ SeqSpace = w * k + (SeqSpace % w)
    BY <1>1, DivMod, ZenonT(30)
  <2>4. w * k \in Nat
    BY <1>1, <2>3
  <2> QED
    BY <1>1, <2>1, <2>2, <2>3, <2>4
<1>4. a = b + SeqSpace
  BY <1>1
<1> HIDE DEF b, p, q, k
<1>5. w * p + (a % w) = w * (q + k) + (b % w)
  BY <1>1, <1>2, <1>3, <1>4
<1>6. a % w = b % w
  <2> DEFINE r == a % w
             t == b % w
             m == q + k
  <2>1. p \in Int /\ m \in Int /\ r \in 0 .. w - 1 /\ t \in 0 .. w - 1
    BY <1>3
  <2>2. w * p + r = w * m + t
    BY <1>5, ZenonT(30)
  <2> HIDE DEF r, t, m
  <2>3. r = t
    BY <1>1, <2>1, <2>2, QuotientUnique
  <2> QED
    BY <2>3, Zenon DEF r, t
<1> QED
  BY <1>6, ZenonT(30) DEF b

\* Distances stay uint32.
LEMMA U32SubType ==
    ASSUME NEW s \in 0 .. SeqSpace - 1, NEW e \in 0 .. SeqSpace - 1
    PROVE  /\ U32Sub(s, e) \in 0 .. SeqSpace - 1
           /\ s = e + U32Sub(s, e) \/ s = e + U32Sub(s, e) - SeqSpace
           /\ U32Sub(s, e) = 0 <=> s = e
BY SeqSpaceAssumption DEF U32Sub

\* Moving the number awaited forward by n shortens the distance to a later number by n.
LEMMA ShiftedDistance ==
    ASSUME NEW s \in 0 .. SeqSpace - 1, NEW e \in 0 .. SeqSpace - 1,
           NEW i \in 0 .. U32Sub(s, e)
    PROVE  U32Sub(s, U32Add(e, i)) = U32Sub(s, e) - i
BY SeqSpaceAssumption DEF U32Sub, U32Add

\* A frame inside the window sits in the slot its distance says.
LEMMA SlotDistance ==
    ASSUME NEW w \in Windows, NEW s \in 0 .. SeqSpace - 1, NEW e \in 0 .. SeqSpace - 1,
           U32Sub(s, e) \in 0 .. w - 1, NEW i \in 0 .. w - 1
    PROVE  s % w = U32Add(e, i) % w <=> U32Sub(s, e) = i
<1> DEFINE d == U32Sub(s, e)
<1>1. w \in Nat /\ w > 0 /\ w < SeqSpace /\ SeqSpace \in Nat
  BY WindowBounds, SeqSpaceAssumption, ZenonT(30)
<1>2. d \in 0 .. w - 1 /\ (s = e + d \/ s = e + d - SeqSpace)
  BY U32SubType, ZenonT(30)
<1> HIDE DEF d
<1>3. e + d \in Nat /\ e + i \in Nat
  BY <1>1, <1>2
<1>4. s % w = (e + d) % w
  <2>1. CASE s = e + d
    BY <2>1, Zenon
  <2>2. CASE s = e + d - SeqSpace
    <3> DEFINE x == e + d
    <3>1. x \in Nat /\ x >= SeqSpace /\ s = x - SeqSpace
      BY <1>1, <1>2, <1>3, <2>2
    <3> HIDE DEF x
    <3>2. (x - SeqSpace) % w = x % w
      BY <3>1, WrapKeepsSlot, Zenon
    <3>3. s % w = x % w
      BY <3>1, <3>2, ZenonT(30)
    <3> QED
      BY <3>3, ZenonT(30) DEF x
  <2> QED
    BY <1>2, <2>1, <2>2, ZenonT(30)
<1>5. U32Add(e, i) % w = (e + i) % w
  <2>1. CASE e + i < SeqSpace
    BY <2>1, ZenonT(30) DEF U32Add
  <2>2. CASE ~(e + i < SeqSpace)
    <3> DEFINE x == e + i
    <3>1. x \in Nat /\ x >= SeqSpace /\ U32Add(e, i) = x - SeqSpace
      BY <1>1, <1>3, <2>2 DEF U32Add
    <3> HIDE DEF x
    <3>2. (x - SeqSpace) % w = x % w
      BY <3>1, WrapKeepsSlot, ZenonT(30)
    <3> QED
      BY <3>1, <3>2, ZenonT(30) DEF x
  <2> QED
    BY <2>1, <2>2, Zenon
<1>6. (e + d) % w = (e + i) % w => d = i
  <2> DEFINE x == e + d
             y == e + i
  <2>1. x \in Nat /\ y \in Nat /\ x < y + w /\ y < x + w
    BY <1>1, <1>2, <1>3
  <2> HIDE DEF x, y
  <2>2. x % w = y % w => x = y
    BY <1>1, <2>1, SameSlot, Zenon
  <2> QED
    BY <1>1, <1>2, <2>2 DEF x, y
<1> QED
  BY <1>4, <1>5, <1>6, ZenonT(30) DEF d

-----------------------------------------------------------------------------
(***************************************************************************)
(* What is held.  Distinct: a number is held once.  Fits: what is held is  *)
(* less than a ring size ahead of the number awaited.  WellHeld: it is     *)
(* strictly ahead, and being timed.                                        *)
(***************************************************************************)
Distinct(rb) == \A f, g \in rb.ring : f.seq = g.seq => f = g

Fits(rb) == \A f \in rb.ring : U32Sub(f.seq, rb.expected) \in 0 .. rb.window - 1

WellHeld(rb) ==
    /\ Distinct(rb)
    /\ \A f \in rb.ring : U32Sub(f.seq, rb.expected) \in 1 .. rb.window - 1
    /\ rb.ring # {} => rb.gap # "none" /\ rb.expected # 0

\* Only the pending chain and the timer's view of the gap differ: what is held is the same.
LEMMA SameHeld ==
    ASSUME NEW a, NEW b, WellHeld(a), b.ring \subseteq a.ring, b.expected = a.expected,
           b.window = a.window, a.gap # "none" => b.gap # "none"
    PROVE  WellHeld(b)
BY ZenonT(30) DEF WellHeld, Distinct

\* The frame in the slot i places after the number awaited is the i-th one to come.
LEMMA SlotHolds ==
    ASSUME NEW F, \A f \in F : f.seq \in Seqs, NEW rb \in ReorderStates(F), Fits(rb),
           NEW i \in 0 .. rb.window - 1
    PROVE  InSlot(rb.ring, rb.window, U32Add(rb.expected, i))
               = {f \in rb.ring : U32Sub(f.seq, rb.expected) = i}
<1>1. rb.window \in Windows /\ rb.expected \in 0 .. SeqSpace - 1 /\ rb.ring \subseteq F
  BY ZenonT(30) DEF ReorderStates
<1>2. ASSUME NEW f \in rb.ring
      PROVE  f.seq % rb.window = U32Add(rb.expected, i) % rb.window
                 <=> U32Sub(f.seq, rb.expected) = i
  <2>1. f.seq \in 0 .. SeqSpace - 1
    BY <1>1 DEF Seqs
  <2>2. U32Sub(f.seq, rb.expected) \in 0 .. rb.window - 1
    BY Zenon DEF Fits
  <2> QED
    BY <1>1, <2>1, <2>2, SlotDistance
<1> QED
  BY <1>2, Zenon DEF InSlot

\* While everything held is strictly ahead, the slot of the number awaited is empty.
LEMMA AwaitedIsFree ==
    ASSUME NEW F, \A f \in F : f.seq \in Seqs, NEW rb \in ReorderStates(F),
           \A f \in rb.ring : U32Sub(f.seq, rb.expected) \in 1 .. rb.window - 1
    PROVE  ~Occupied(rb, rb.expected)
<1>1. Fits(rb)
  BY WindowBounds DEF Fits, ReorderStates
<1>2. 0 \in 0 .. rb.window - 1
  BY WindowBounds DEF ReorderStates
<1>3. U32Add(rb.expected, 0) = rb.expected
  BY SeqSpaceAssumption DEF U32Add, ReorderStates
<1>4. InSlot(rb.ring, rb.window, rb.expected)
          = {f \in rb.ring : U32Sub(f.seq, rb.expected) = 0}
  BY <1>1, <1>2, <1>3, SlotHolds
<1> QED
  BY <1>4, WindowBounds DEF Occupied, ReorderStates

\* drainLocked hands on a run of frames and leaves the rest held and timed, provided the
\* peer never uses the last number of the sequence space.
LEMMA DrainHolds ==
    ASSUME NEW F, \A f \in F : f.seq \in 1 .. SeqSpace - 2,
           NEW rb \in ReorderStates(F), Distinct(rb), Fits(rb), rb.expected # 0
    PROVE  WellHeld(Drain(rb)) /\ Drain(rb).expected # 0
<1> DEFINE n == RunLength(rb)
           e == rb.expected
           w == rb.window
           d == Drained(rb)
           Off(f) == U32Sub(f.seq, e)
<1>1. /\ w \in Nat /\ w > 0 /\ w < SeqSpace /\ w \in Windows
      /\ e \in 0 .. SeqSpace - 1 /\ e # 0 /\ rb.ring \subseteq F
      /\ \A f \in F : f.seq \in Seqs /\ f.seq \in 0 .. SeqSpace - 1
  BY WindowBounds, SeqSpaceAssumption DEF ReorderStates, Seqs
<1>2. /\ n \in 0 .. w /\ \A i \in 0 .. n - 1 : Occupied(rb, U32Add(e, i))
      /\ n = w \/ ~Occupied(rb, U32Add(e, n))
  BY <1>1, RunLengthStops, ZenonT(30)
<1>3. /\ Run(rb) \in Seq(F) /\ Len(Run(rb)) = n
      /\ \A i \in 1 .. n : Run(rb)[i] \in InSlot(rb.ring, w, U32Add(e, i - 1))
  BY RunType, SMTT(30)
<1>4. /\ d \in ReorderStates(F) /\ d.window = w /\ d.expected = U32Add(e, n)
      /\ d.ring = rb.ring \ {Run(rb)[i] : i \in 1 .. n}
  <2>1. d \in ReorderStates(F)
    BY DrainedType, ZenonT(30)
  <2>2. DOMAIN Run(rb) = 1 .. n
    BY <1>3
  <2> QED
    BY <1>3, <2>1, <2>2, Zenon DEF Drained, ReorderStates
<1>5. \A i \in 0 .. w - 1 : InSlot(rb.ring, w, U32Add(e, i)) = {f \in rb.ring : Off(f) = i}
  BY <1>1, SlotHolds
<1>6. \A f \in rb.ring : Off(f) \in 0 .. w - 1
  BY Zenon DEF Fits
<1> HIDE DEF n, e, w, d, Off
<1>7. \A i \in 1 .. n : Run(rb)[i] \in rb.ring /\ Off(Run(rb)[i]) = i - 1
  <2> TAKE i \in 1 .. n
  <2>1. i - 1 \in 0 .. w - 1
    BY <1>1, <1>2
  <2> QED
    BY <1>3, <1>5, <2>1, ZenonT(30)
<1>8. \A f, g \in rb.ring : Off(f) = Off(g) => f = g
  <2> TAKE f, g \in rb.ring
  <2>1. f.seq \in 0 .. SeqSpace - 1 /\ g.seq \in 0 .. SeqSpace - 1
    BY <1>1, ZenonT(30)
  <2>2. Off(f) = Off(g) => f.seq = g.seq
    BY <1>1, <2>1, SeqSpaceAssumption DEF Off, U32Sub
  <2> QED
    BY <2>2, ZenonT(30) DEF Distinct
<1>9. \A f \in d.ring : Off(f) \in n + 1 .. w - 1
  <2> TAKE f \in d.ring
  <2>1. f \in rb.ring /\ Off(f) \in 0 .. w - 1
    BY <1>4, <1>6, ZenonT(30)
  <2>2. ~(Off(f) \in 0 .. n - 1)
    <3> SUFFICES ASSUME Off(f) \in 0 .. n - 1 PROVE FALSE
      BY ZenonT(30)
    <3>1. Off(f) + 1 \in 1 .. n /\ (Off(f) + 1) - 1 = Off(f)
      BY <1>2
    <3>2. f = Run(rb)[Off(f) + 1]
      BY <1>7, <1>8, <2>1, <3>1, ZenonT(30)
    <3> QED
      BY <1>4, <3>1, <3>2, Zenon
  <2>3. Off(f) # n
    <3> SUFFICES ASSUME Off(f) = n PROVE FALSE
      BY ZenonT(30)
    <3>1. n \in 0 .. w - 1 /\ n # w
      BY <1>1, <2>1
    <3>2. f \in InSlot(rb.ring, w, U32Add(e, n))
      BY <1>5, <2>1, <3>1, ZenonT(30)
    <3> QED
      BY <1>2, <3>1, <3>2, ZenonT(30) DEF Occupied, w
  <2> QED
    BY <1>1, <1>2, <2>1, <2>2, <2>3
<1>10. \A f \in d.ring : U32Sub(f.seq, d.expected) \in 1 .. d.window - 1
  <2> TAKE f \in d.ring
  <2>1. f \in F /\ Off(f) \in n + 1 .. w - 1
    BY <1>1, <1>4, <1>9, ZenonT(30)
  <2>2. f.seq \in 0 .. SeqSpace - 1 /\ n \in 0 .. U32Sub(f.seq, e)
    BY <1>1, <1>2, <2>1 DEF Off
  <2>3. U32Sub(f.seq, U32Add(e, n)) = U32Sub(f.seq, e) - n
    BY <1>1, <2>2, ShiftedDistance, ZenonT(30)
  <2> QED
    BY <1>1, <1>2, <1>4, <2>1, <2>3 DEF Off
<1>11. d.expected # 0
  <2>1. CASE n = 0
    BY <1>1, <1>4, <2>1, SeqSpaceAssumption DEF U32Add
  <2>2. CASE n # 0
    <3> DEFINE f == Run(rb)[n]
    <3>1. n \in 1 .. n
      BY <1>2, <2>2
    <3>2. f \in F /\ U32Sub(f.seq, e) = n - 1
      BY <1>1, <1>7, <3>1, ZenonT(30) DEF Off
    <3>3. f.seq \in 1 .. SeqSpace - 2
      BY <3>2, ZenonT(30)
    <3> HIDE DEF f
    <3>4. U32Add(e, n) = f.seq + 1
      BY <1>1, <1>2, <3>1, <3>2, <3>3, SeqSpaceAssumption DEF U32Add, U32Sub
    <3> QED
      BY <1>4, <3>3, <3>4
  <2> QED
    BY <2>1, <2>2, ZenonT(30)
<1>12. ~Occupied(d, d.expected)
  BY <1>1, <1>4, <1>10, AwaitedIsFree, ZenonT(30)
<1>13. Distinct(d)
  BY <1>4, ZenonT(30) DEF Distinct
<1>14. Drain(rb) = RefreshGap(d)
  BY DrainedType, ZenonT(30) DEF d
<1>15. /\ RefreshGap(d).expected = d.expected /\ RefreshGap(d).window = d.window
       /\ RefreshGap(d).ring = d.ring /\ (RefreshGap(d).gap = "none" <=> ~HasGap(d))
  BY <1>4, RefreshGapType, ZenonT(30)
<1>16. d.ring # {} => HasGap(d)
  BY <1>11, <1>12, ZenonT(30) DEF HasGap
<1> HIDE DEF d
<1> QED
  BY <1>10, <1>11, <1>13, <1>14, <1>15, <1>16, ZenonT(30) DEF WellHeld, Distinct

\* insertLocked keeps what is held ahead of the number awaited, once each, and timed.
LEMMA InsertHolds ==
    ASSUME NEW F, \A f \in F : f.seq \in 1 .. SeqSpace - 2,
           NEW rb \in ReorderStates(F), WellHeld(rb), NEW f \in F
    PROVE  WellHeld(InsertLocked(rb, f))
<1> DEFINE b == Based(rb, f)
           g == Grown(b, f)
           t == Stored(b, f)
<1>1. \A x \in F : x.seq \in Seqs /\ x.seq \in 0 .. SeqSpace - 1 /\ x.seq # 0
  BY SeqSpaceAssumption DEF Seqs
<1>2. /\ b \in ReorderStates(F) /\ b.window = rb.window /\ b.ring = rb.ring
      /\ b.gap = rb.gap /\ b.expected = IF rb.expected = 0 THEN f.seq ELSE rb.expected
  BY <1>1, BasedType
<1>3. InsertLocked(rb, f) = IF Accepts(b, f) THEN Store(b, f) ELSE b
  BY Zenon DEF InsertLocked, Based
<1>4. WellHeld(b) /\ b.expected # 0
  BY <1>1, <1>2, Zenon DEF WellHeld, Distinct
<1> HIDE DEF b
<1>5. CASE ~Accepts(b, f)
  BY <1>3, <1>4, <1>5, ZenonT(30)
<1>6. CASE Accepts(b, f)
  <2>1. /\ g \in ReorderStates(F) /\ t \in ReorderStates(F)
        /\ U32Sub(f.seq, b.expected) \in 0 .. g.window - 1 /\ b.window <= g.window
    BY <1>1, <1>2, <1>6, StoredType, ZenonT(30)
  <2>2. /\ g.expected = b.expected /\ g.ring = b.ring /\ g.gap = b.gap
        /\ t.expected = b.expected /\ t.ring = b.ring \cup {f} /\ t.window = g.window
    BY <1>2, <2>1, Zenon DEF Grown, Stored, ReorderStates
  <2>3. Store(b, f) = IF Occupied(g, f.seq) THEN g
                      ELSE IF f.seq = b.expected THEN Drain(t) ELSE RefreshGap(t)
    BY ZenonT(30) DEF Store, Grown, Stored
  <2>4. /\ b.window \in Nat /\ g.window \in Nat /\ g.window > 0
        /\ b.expected \in 0 .. SeqSpace - 1
    BY <1>2, <2>1, WindowBounds, SMTT(30) DEF ReorderStates
  <2> HIDE DEF g, t
  <2>5. \A x \in g.ring : U32Sub(x.seq, g.expected) \in 1 .. g.window - 1
    BY <1>4, <2>1, <2>2, <2>4 DEF WellHeld
  <2>6. CASE Occupied(g, f.seq)
    BY <1>3, <1>4, <1>6, <2>2, <2>3, <2>5, <2>6, ZenonT(30) DEF WellHeld, Distinct
  <2>7. CASE ~Occupied(g, f.seq)
    <3>1. \A x \in g.ring : x.seq # f.seq
      BY <2>7, ZenonT(30) DEF Occupied, InSlot
    <3>2. Distinct(t)
      BY <1>4, <2>2, <3>1, ZenonT(30) DEF WellHeld, Distinct
    <3>3. CASE f.seq = b.expected
      <4>1. Fits(t)
        BY <2>1, <2>2, <2>4, <2>5 DEF Fits
      <4>2. WellHeld(Drain(t))
        BY <1>4, <2>1, <2>2, <3>2, <4>1, DrainHolds, Zenon
      <4> QED
        BY <1>3, <1>6, <2>3, <2>7, <3>3, <4>2, Zenon
    <3>4. CASE f.seq # b.expected
      <4>1. U32Sub(f.seq, b.expected) # 0
        BY <1>1, <2>4, <3>4, U32SubType, SMTT(30)
      <4>2. \A x \in t.ring : U32Sub(x.seq, t.expected) \in 1 .. t.window - 1
        BY <2>1, <2>2, <2>4, <2>5, <4>1
      <4>3. ~Occupied(t, t.expected)
        BY <1>1, <2>1, <4>2, AwaitedIsFree, ZenonT(30)
      <4>4. HasGap(t)
        BY <1>4, <2>2, <4>3, ZenonT(30) DEF HasGap
      <4>5. /\ RefreshGap(t).expected = t.expected /\ RefreshGap(t).window = t.window
            /\ RefreshGap(t).ring = t.ring /\ RefreshGap(t).gap # "none"
        BY <2>1, <4>4, RefreshGapType, Zenon
      <4>6. WellHeld(RefreshGap(t))
        BY <1>4, <2>2, <3>2, <4>2, <4>5, ZenonT(30) DEF WellHeld, Distinct
      <4> QED
        BY <1>3, <1>6, <2>3, <2>7, <3>4, <4>6, ZenonT(30)
    <3> QED
      BY <3>3, <3>4, ZenonT(30)
  <2> QED
    BY <2>6, <2>7, Zenon
<1> QED
  BY <1>5, <1>6, ZenonT(30)

\* The gap timeout skips to the first frame held and hands on from there.
LEMMA ExpireSkips ==
    ASSUME NEW F, \A f \in F : f.seq \in 1 .. SeqSpace - 2,
           NEW rb \in ReorderStates(F), WellHeld(rb), rb.ring # {}
    PROVE  \E s \in ReorderStates(F) :
               /\ ExpireGap(rb) = Drain(s) /\ Fits(s) /\ Distinct(s)
               /\ s.pending = rb.pending /\ \E f \in rb.ring : s.expected = f.seq
<1> DEFINE e == rb.expected
           w == rb.window
           Off(f) == U32Sub(f.seq, e)
           Offs == {Off(f) : f \in rb.ring}
<1>1. /\ w \in Nat /\ w > 0 /\ w < SeqSpace /\ e \in 0 .. SeqSpace - 1 /\ e # 0
      /\ rb.ring \subseteq F
      /\ \A f \in F : f.seq \in Seqs /\ f.seq \in 0 .. SeqSpace - 1 /\ f.seq # 0
  BY WindowBounds, SeqSpaceAssumption DEF ReorderStates, WellHeld, Seqs
<1>2. \A f \in rb.ring : Off(f) \in 1 .. w - 1
  BY ZenonT(30) DEF WellHeld
<1>3. Fits(rb)
  BY <1>1, <1>2 DEF Fits
<1>4. \A i \in 0 .. w - 1 : InSlot(rb.ring, w, U32Add(e, i)) = {f \in rb.ring : Off(f) = i}
  BY <1>1, <1>3, SlotHolds, ZenonT(30)
<1>5. \A i \in 1 .. w - 1 : Occupied(rb, U32Add(e, i)) <=> i \in Offs
  <2> TAKE i \in 1 .. w - 1
  <2>1. i \in 0 .. w - 1
    BY <1>1
  <2> QED
    BY <1>4, <2>1, ZenonT(30) DEF Occupied
<1>6. PICK m \in Offs : \A k \in Offs : m <= k
  <2>1. Offs # {} /\ Offs \subseteq Nat
    BY <1>1, <1>2
  <2> HIDE DEF Offs
  <2> QED
    BY <2>1, LeastNatural, Zenon
<1>7. m \in 1 .. w - 1
  BY <1>2, ZenonT(30)
<1>8. \A j \in 1 .. m - 1 : ~Occupied(rb, U32Add(e, j))
  BY <1>1, <1>5, <1>6, <1>7
<1>9. m \in SkipTo(rb)
  BY <1>5, <1>7, <1>8, ZenonT(30) DEF SkipTo
<1> DEFINE i == CHOOSE i \in SkipTo(rb) : TRUE
           s == [rb EXCEPT !.expected = U32Add(e, i)]
<1>10. i \in SkipTo(rb)
  BY <1>9, ZenonT(30)
<1> HIDE DEF i
<1>11. i \in 1 .. w - 1 /\ i \in Offs /\ \A j \in 1 .. i - 1 : j \notin Offs
  <2>1. /\ i \in 1 .. w - 1 /\ Occupied(rb, U32Add(e, i))
        /\ \A j \in 1 .. i - 1 : ~Occupied(rb, U32Add(e, j))
    BY <1>10, ZenonT(30) DEF SkipTo
  <2> QED
    BY <1>1, <1>5, <2>1
<1>12. \A f \in rb.ring : Off(f) \in i .. w - 1
  BY <1>1, <1>2, <1>11
<1>13. U32Add(e, i) \in 0 .. SeqSpace - 1 /\ \E f \in rb.ring : U32Add(e, i) = f.seq
  <2>1. PICK f \in rb.ring : U32Sub(f.seq, e) = i
    BY <1>11, ZenonT(30)
  <2>2. U32Add(e, i) = f.seq
    BY <1>1, <1>11, <2>1, SeqSpaceAssumption DEF U32Add, U32Sub
  <2> QED
    BY <1>1, <2>2, ZenonT(30)
<1>14. /\ s \in ReorderStates(F) /\ s.ring = rb.ring /\ s.window = w
       /\ s.expected = U32Add(e, i) /\ s.pending = rb.pending
  BY <1>13, ZenonT(30) DEF ReorderStates
<1>15. ExpireGap(rb) = Drain(s)
  BY <1>9, ZenonT(30) DEF ExpireGap, i
<1> HIDE DEF s
<1>16. Fits(s)
  <2> SUFFICES ASSUME NEW f \in s.ring PROVE U32Sub(f.seq, s.expected) \in 0 .. s.window - 1
    BY ZenonT(30) DEF Fits
  <2>1. f.seq \in 0 .. SeqSpace - 1 /\ i \in 0 .. U32Sub(f.seq, e) /\ U32Sub(f.seq, e) < w
    BY <1>1, <1>11, <1>12, <1>14
  <2>2. U32Sub(f.seq, U32Add(e, i)) = U32Sub(f.seq, e) - i
    BY <1>1, <2>1, ShiftedDistance, ZenonT(30)
  <2>3. U32Sub(f.seq, e) \in Nat
    BY <1>11, <1>12, <1>14
  <2> QED
    BY <1>1, <1>11, <1>14, <2>1, <2>2, <2>3
<1>17. Distinct(s)
  BY <1>14, ZenonT(30) DEF WellHeld, Distinct
<1> QED
  BY <1>13, <1>14, <1>15, <1>16, <1>17, Zenon

\* So what it leaves is held and timed as before.
LEMMA ExpireHolds ==
    ASSUME NEW F, \A f \in F : f.seq \in 1 .. SeqSpace - 2,
           NEW rb \in ReorderStates(F), WellHeld(rb), rb.ring # {}
    PROVE  WellHeld(ExpireGap(rb))
<1>1. PICK s \in ReorderStates(F) :
         /\ ExpireGap(rb) = Drain(s) /\ Fits(s) /\ Distinct(s)
         /\ s.pending = rb.pending /\ \E f \in rb.ring : s.expected = f.seq
  BY ExpireSkips, Zenon
<1>2. s.expected # 0
  BY <1>1 DEF ReorderStates
<1> QED
  BY <1>1, <1>2, DrainHolds, ZenonT(30)

-----------------------------------------------------------------------------
(***************************************************************************)
(* Order.  While the numbers in use lie less than the sequence space apart *)
(* by a ring size, a number inside the window is not below the one awaited,*)
(* so that what a critical section hands on continues what it handed on    *)
(* before.  Ordered(rb, from, F): the number awaited has only moved forward*)
(* since it was from, and not past the numbers of F; what was collected    *)
(* since lies between the two, in increasing order.                        *)
(***************************************************************************)
Spread(F) == \A f, g \in F, w \in Windows : f.seq - g.seq + w < SeqSpace

Ordered(rb, from, F) ==
    /\ from <= rb.expected
    /\ rb.expected # 0 => \E g \in F : rb.expected <= g.seq + 1
    /\ \A i \in DOMAIN rb.pending :
           from <= rb.pending[i].seq /\ rb.pending[i].seq < rb.expected
    /\ \A i, j \in DOMAIN rb.pending : i < j => rb.pending[i].seq < rb.pending[j].seq

\* What stands where in a concatenation.
LEMMA Joined ==
    ASSUME NEW S, NEW s \in Seq(S), NEW t \in Seq(S)
    PROVE  /\ s \o t \in Seq(S) /\ Len(s) \in Nat /\ Len(t) \in Nat
           /\ Len(s \o t) = Len(s) + Len(t) /\ DOMAIN (s \o t) = 1 .. Len(s) + Len(t)
           /\ \A i \in 1 .. Len(s) : (s \o t)[i] = s[i]
           /\ \A i \in Len(s) + 1 .. Len(s) + Len(t) : (s \o t)[i] = t[i - Len(s)]
<1>1. s \o t \in Seq(S) /\ Len(s) \in Nat /\ Len(t) \in Nat /\ Len(s \o t) = Len(s) + Len(t)
  OBVIOUS
<1>2. DOMAIN (s \o t) = 1 .. Len(s \o t)
  BY <1>1
<1>3. \A i \in 1 .. Len(s) : (s \o t)[i] = s[i]
  OBVIOUS
<1>4. \A i \in Len(s) + 1 .. Len(s) + Len(t) : (s \o t)[i] = t[i - Len(s)]
  OBVIOUS
<1> QED
  BY <1>1, <1>2, <1>3, <1>4, ZenonT(30)

\* Inside the window there is no wrap: distance is difference.
LEMMA NoWrapInWindow ==
    ASSUME NEW F, \A f \in F : f.seq \in 1 .. SeqSpace - 2, Spread(F),
           NEW e \in 0 .. SeqSpace - 1, NEW g \in F, e <= g.seq + 1,
           NEW f \in F, NEW w \in Windows, U32Sub(f.seq, e) \in 0 .. w - 1
    PROVE  f.seq = e + U32Sub(f.seq, e)
<1>1. f.seq \in Nat /\ g.seq \in Nat /\ w \in Nat /\ SeqSpace \in Nat
  BY WindowBounds, SeqSpaceAssumption
<1>2. g.seq - f.seq + w < SeqSpace
  BY ZenonT(30) DEF Spread
<1>3. ~(f.seq < e)
  BY <1>1, <1>2 DEF U32Sub
<1> QED
  BY <1>1, <1>3 DEF U32Sub

\* drainLocked collects the frames from the number awaited on, one number after the other.
LEMMA DrainOrders ==
    ASSUME NEW F, \A f \in F : f.seq \in 1 .. SeqSpace - 2, Spread(F),
           NEW rb \in ReorderStates(F), Distinct(rb), Fits(rb), rb.expected # 0,
           NEW from \in Nat, Ordered(rb, from, F)
    PROVE  Ordered(Drain(rb), from, F)
<1> DEFINE n == RunLength(rb)
           e == rb.expected
           w == rb.window
           r == Run(rb)
           q == rb.pending
           d == Drain(rb)
<1>1. /\ w \in Nat /\ w > 0 /\ w < SeqSpace /\ w \in Windows
      /\ e \in 0 .. SeqSpace - 1 /\ e # 0 /\ rb.ring \subseteq F /\ q \in Seq(F)
      /\ \A f \in F : f.seq \in Seqs
  BY WindowBounds, SeqSpaceAssumption DEF ReorderStates, Seqs
<1>2. n \in 0 .. w
  BY <1>1, RunLengthStops, ZenonT(30)
<1>3. /\ r \in Seq(F) /\ Len(r) = n
      /\ \A i \in 1 .. n : r[i] \in InSlot(rb.ring, w, U32Add(e, i - 1))
  BY RunType, ZenonT(30)
<1>4. d.expected = U32Add(e, n) /\ d.pending = q \o r
  <2>1. Drain(rb) = RefreshGap(Drained(rb)) /\ Drained(rb) \in ReorderStates(F)
    BY DrainedType, ZenonT(30)
  <2>2. Drained(rb).expected = U32Add(e, n) /\ Drained(rb).pending = q \o r
    BY <1>3, ZenonT(30) DEF Drained, ReorderStates
  <2> QED
    BY <2>1, <2>2, RefreshGapType
<1>5. PICK g \in F : e <= g.seq + 1
  BY <1>1, ZenonT(30) DEF Ordered
<1>6. \A i \in 1 .. n : r[i] \in F /\ r[i].seq = e + (i - 1)
  <2> TAKE i \in 1 .. n
  <2>1. i - 1 \in 0 .. w - 1
    BY <1>1, <1>2
  <2>2. InSlot(rb.ring, w, U32Add(e, i - 1)) = {f \in rb.ring : U32Sub(f.seq, e) = i - 1}
    BY <1>1, <2>1, SlotHolds
  <2>3. r[i] \in F /\ U32Sub(r[i].seq, e) = i - 1
    BY <1>1, <1>3, <2>2, ZenonT(30)
  <2> QED
    BY <1>1, <1>5, <2>1, <2>3, NoWrapInWindow
<1>7. /\ \A i \in 1 .. Len(q) : q[i] \in F /\ from <= q[i].seq /\ q[i].seq < e
      /\ \A i, j \in 1 .. Len(q) : i < j => q[i].seq < q[j].seq
      /\ from <= e
  <2>1. DOMAIN q = 1 .. Len(q) /\ \A i \in 1 .. Len(q) : q[i] \in F
    BY <1>1
  <2>2. /\ from <= e
        /\ \A i \in DOMAIN q : from <= q[i].seq /\ q[i].seq < e
        /\ \A i, j \in DOMAIN q : i < j => q[i].seq < q[j].seq
    BY Zenon DEF Ordered
  <2> QED
    BY <2>1, <2>2, Zenon
<1> HIDE DEF n, e, w, r, q, d
<1>8. U32Add(e, n) = e + n /\ \E f \in F : e + n <= f.seq + 1
  <2>1. CASE n = 0
    BY <1>1, <1>5, <2>1, SeqSpaceAssumption DEF U32Add
  <2>2. CASE n # 0
    <3>1. n \in 1 .. n
      BY <1>2, <2>2
    <3>2. r[n] \in F /\ r[n].seq = e + (n - 1) /\ r[n].seq \in 1 .. SeqSpace - 2
      BY <1>6, <3>1, ZenonT(30)
    <3> QED
      BY <1>1, <1>2, <3>2, SeqSpaceAssumption DEF U32Add
  <2> QED
    BY <2>1, <2>2, ZenonT(30)
<1>9. /\ Len(q \o r) = Len(q) + n /\ DOMAIN (q \o r) = 1 .. Len(q) + n /\ Len(q) \in Nat
      /\ \A i \in 1 .. Len(q) : (q \o r)[i] = q[i]
      /\ \A i \in Len(q) + 1 .. Len(q) + n : (q \o r)[i] = r[i - Len(q)]
  <2>1. q \in Seq(F) /\ r \in Seq(F)
    BY <1>1, <1>3, ZenonT(30)
  <2>2. /\ Len(q \o r) = Len(q) + Len(r) /\ DOMAIN (q \o r) = 1 .. Len(q) + Len(r)
        /\ Len(q) \in Nat /\ \A i \in 1 .. Len(q) : (q \o r)[i] = q[i]
        /\ \A i \in Len(q) + 1 .. Len(q) + Len(r) : (q \o r)[i] = r[i - Len(q)]
    BY <2>1, Joined, Zenon
  <2> QED
    BY <1>3, <2>2, Zenon
<1>10. \A i \in Len(q) + 1 .. Len(q) + n : (q \o r)[i].seq = e + (i - Len(q) - 1)
  BY <1>2, <1>6, <1>9
<1>11. \A i \in DOMAIN d.pending : from <= d.pending[i].seq /\ d.pending[i].seq < e + n
  <2> TAKE i \in DOMAIN d.pending
  <2>1. CASE i \in 1 .. Len(q)
    BY <1>1, <1>2, <1>4, <1>7, <1>9, <2>1
  <2>2. CASE i \in Len(q) + 1 .. Len(q) + n
    <3>1. d.pending[i].seq = e + (i - Len(q) - 1)
      BY <1>4, <1>10, <2>2, Zenon
    <3>2. e \in Int /\ from \in Int /\ from <= e /\ n \in Nat /\ Len(q) \in Nat
      BY <1>1, <1>2, <1>7, <1>9
    <3>3. from <= e + (i - Len(q) - 1) /\ e + (i - Len(q) - 1) < e + n
      BY <2>2, <3>2
    <3> QED
      BY <3>1, <3>3, Zenon
  <2> QED
    BY <1>2, <1>4, <1>9, <2>1, <2>2
<1>12. \A i, j \in DOMAIN d.pending : i < j => d.pending[i].seq < d.pending[j].seq
  <2> SUFFICES ASSUME NEW i \in 1 .. Len(q) + n, NEW j \in 1 .. Len(q) + n, i < j
               PROVE  (q \o r)[i].seq < (q \o r)[j].seq
    BY <1>4, <1>9, ZenonT(30)
  <2>1. CASE j \in 1 .. Len(q)
    BY <1>7, <1>9, <2>1
  <2>2. CASE i \in 1 .. Len(q) /\ j \in Len(q) + 1 .. Len(q) + n
    <3> DEFINE k == j - Len(q) - 1
               x == (q \o r)[i].seq
               y == (q \o r)[j].seq
    <3>1. x < e /\ x \in Nat
      BY <1>1, <1>7, <1>9, <2>2, SeqSpaceAssumption DEF Seqs
    <3>2. y = e + k
      BY <1>10, <2>2, ZenonT(30)
    <3>3. k \in Nat /\ e \in Nat
      BY <1>1, <1>2, <1>9, <2>2, SeqSpaceAssumption
    <3> HIDE DEF k, x, y
    <3>4. x < y
      BY <3>1, <3>2, <3>3
    <3> QED
      BY <3>4, ZenonT(30) DEF x, y
  <2>3. CASE i \in Len(q) + 1 .. Len(q) + n /\ j \in Len(q) + 1 .. Len(q) + n
    <3>1. (q \o r)[i].seq = e + (i - Len(q) - 1) /\ (q \o r)[j].seq = e + (j - Len(q) - 1)
      BY <1>10, <2>3, Zenon
    <3>2. e \in Int /\ n \in Nat /\ Len(q) \in Nat
      BY <1>1, <1>2, <1>9
    <3>3. e + (i - Len(q) - 1) < e + (j - Len(q) - 1)
      BY <2>3, <3>2
    <3> QED
      BY <3>1, <3>3, Zenon
  <2> QED
    BY <1>2, <1>9, <2>1, <2>2, <2>3
<1>13. from <= e + n
  BY <1>1, <1>2, <1>7
<1> QED
  BY <1>4, <1>8, <1>11, <1>12, <1>13, Zenon DEF Ordered, d

\* Order is a matter of the number awaited and of what was collected.
LEMMA SameOrder ==
    ASSUME NEW F, NEW a, NEW b, NEW from, Ordered(a, from, F),
           b.expected = a.expected, b.pending = a.pending
    PROVE  Ordered(b, from, F)
BY Zenon DEF Ordered

\* insertLocked keeps the order of what is collected.
LEMMA InsertOrders ==
    ASSUME NEW F, \A f \in F : f.seq \in 1 .. SeqSpace - 2, Spread(F),
           NEW rb \in ReorderStates(F), WellHeld(rb), NEW f \in F,
           NEW from \in Nat, Ordered(rb, from, F)
    PROVE  Ordered(InsertLocked(rb, f), from, F)
<1> DEFINE b == Based(rb, f)
           g == Grown(b, f)
           t == Stored(b, f)
<1>1. \A x \in F : x.seq \in Seqs /\ x.seq \in 0 .. SeqSpace - 1 /\ x.seq # 0 /\ x.seq \in Nat
  BY SeqSpaceAssumption DEF Seqs
<1>2. /\ b \in ReorderStates(F) /\ b.window = rb.window /\ b.ring = rb.ring
      /\ b.gap = rb.gap /\ b.expected = IF rb.expected = 0 THEN f.seq ELSE rb.expected
      /\ b.pending = rb.pending
  BY <1>1, BasedType
<1>3. InsertLocked(rb, f) = IF Accepts(b, f) THEN Store(b, f) ELSE b
  BY ZenonT(30) DEF InsertLocked, Based
<1>4. WellHeld(b) /\ b.expected # 0
  BY <1>1, <1>2, ZenonT(30) DEF WellHeld, Distinct
<1> HIDE DEF b
<1>5. Ordered(b, from, F)
  <2>1. CASE rb.expected # 0
    BY <1>2, <2>1, SameOrder, ZenonT(30)
  <2>2. CASE rb.expected = 0
    <3>1. from = 0 /\ b.expected = f.seq
      BY <1>2, <2>2 DEF Ordered
    <3>2. rb.pending \in Seq(F)
      BY ZenonT(30) DEF ReorderStates
    <3>3. \A i \in DOMAIN rb.pending : FALSE
      BY <1>1, <2>2, <3>2 DEF Ordered
    <3> QED
      BY <1>1, <1>2, <3>1, <3>3 DEF Ordered
  <2> QED
    BY <2>1, <2>2, ZenonT(30)
<1>6. CASE ~Accepts(b, f)
  BY <1>3, <1>5, <1>6, ZenonT(30)
<1>7. CASE Accepts(b, f)
  <2>1. /\ g \in ReorderStates(F) /\ t \in ReorderStates(F)
        /\ U32Sub(f.seq, b.expected) \in 0 .. g.window - 1 /\ b.window <= g.window
    BY <1>1, <1>2, <1>7, StoredType, ZenonT(30)
  <2>2. /\ g.expected = b.expected /\ g.ring = b.ring /\ g.pending = b.pending
        /\ t.expected = b.expected /\ t.ring = b.ring \cup {f} /\ t.window = g.window
        /\ t.pending = b.pending
    BY <1>2, <2>1, ZenonT(30) DEF Grown, Stored, ReorderStates
  <2>3. Store(b, f) = IF Occupied(g, f.seq) THEN g
                      ELSE IF f.seq = b.expected THEN Drain(t) ELSE RefreshGap(t)
    BY ZenonT(30) DEF Store, Grown, Stored
  <2>4. /\ b.window \in Nat /\ g.window \in Nat /\ g.window > 0
    BY <1>2, <2>1, WindowBounds, SMTT(30) DEF ReorderStates
  <2> HIDE DEF g, t
  <2>5. Ordered(g, from, F) /\ Ordered(t, from, F)
    BY <1>5, <2>2, SameOrder, ZenonT(30)
  <2>6. Ordered(RefreshGap(t), from, F)
    <3>1. RefreshGap(t).expected = t.expected /\ RefreshGap(t).pending = t.pending
      BY <2>1, RefreshGapType, ZenonT(30)
    <3> QED
      BY <2>5, <3>1, SameOrder, ZenonT(30)
  <2>7. ASSUME ~Occupied(g, f.seq) PROVE Ordered(Drain(t), from, F)
    <3>1. \A x \in g.ring : x.seq # f.seq
      BY <2>7, ZenonT(30) DEF Occupied, InSlot
    <3>2. Distinct(t)
      BY <1>4, <2>2, <3>1 DEF WellHeld, Distinct
    <3>3. Fits(t)
      BY <1>4, <2>1, <2>2, <2>4 DEF Fits, WellHeld
    <3> QED
      BY <1>4, <2>1, <2>2, <2>5, <3>2, <3>3, DrainOrders, ZenonT(30)
  <2> QED
    BY <1>3, <1>7, <2>3, <2>5, <2>6, <2>7, ZenonT(30)
<1> QED
  BY <1>6, <1>7, ZenonT(30)

\* So does the gap timeout.
LEMMA ExpireOrders ==
    ASSUME NEW F, \A f \in F : f.seq \in 1 .. SeqSpace - 2, Spread(F),
           NEW rb \in ReorderStates(F), WellHeld(rb), rb.ring # {},
           NEW from \in Nat, Ordered(rb, from, F)
    PROVE  Ordered(ExpireGap(rb), from, F)
<1>1. PICK s \in ReorderStates(F) :
         /\ ExpireGap(rb) = Drain(s) /\ Fits(s) /\ Distinct(s)
         /\ s.pending = rb.pending /\ \E f \in rb.ring : s.expected = f.seq
  BY ExpireSkips, Zenon
<1>2. PICK f \in rb.ring : s.expected = f.seq
  BY <1>1, ZenonT(30)
<1>3. /\ rb.expected \in 0 .. SeqSpace - 1 /\ rb.expected # 0 /\ rb.window \in Windows
      /\ rb.window \in Nat /\ f \in F /\ f.seq \in Nat /\ f.seq # 0 /\ rb.pending \in Seq(F)
      /\ \A x \in F : x.seq \in Nat
  BY WindowBounds, SeqSpaceAssumption DEF ReorderStates, WellHeld
<1>4. PICK g \in F : rb.expected <= g.seq + 1
  BY <1>3, ZenonT(30) DEF Ordered
<1>5. U32Sub(f.seq, rb.expected) \in 0 .. rb.window - 1
  BY <1>3 DEF WellHeld
<1>6. f.seq = rb.expected + U32Sub(f.seq, rb.expected)
  BY <1>3, <1>4, <1>5, NoWrapInWindow, ZenonT(30)
<1>7. rb.expected <= s.expected /\ rb.expected \in Nat
  BY <1>2, <1>3, <1>5, <1>6, SeqSpaceAssumption
<1>8. \A i \in DOMAIN s.pending :
         from <= s.pending[i].seq /\ s.pending[i].seq < s.expected
  <2> TAKE i \in DOMAIN s.pending
  <2>1. from <= rb.pending[i].seq /\ rb.pending[i].seq < rb.expected
        /\ rb.pending[i].seq \in Nat
    BY <1>1, <1>3 DEF Ordered
  <2> QED
    BY <1>1, <1>2, <1>3, <1>7, <2>1
<1>9. Ordered(s, from, F)
  <2>1. from <= s.expected
    BY <1>2, <1>3, <1>7 DEF Ordered
  <2>2. \E x \in F : s.expected <= x.seq + 1
    BY <1>2, <1>3
  <2>3. \A i, j \in DOMAIN s.pending : i < j => s.pending[i].seq < s.pending[j].seq
    BY <1>1, ZenonT(30) DEF Ordered
  <2> QED
    BY <1>8, <2>1, <2>2, <2>3, ZenonT(30) DEF Ordered
<1> QED
  BY <1>1, <1>2, <1>3, <1>9, DrainOrders, ZenonT(30)
=============================================================================
