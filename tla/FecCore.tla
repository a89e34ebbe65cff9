------------------------------ MODULE FecCore ------------------------------
(***************************************************************************)
(* The sequential parts of XOR forward error correction (fec.go,           *)
(* fec_control.go, and the lock-free copies of the decoder's entry points  *)
(* in rx_actor.go): the sender's encoder and the receiver's decoder.       *)
(*                                                                         *)
(* A frame's payload is abstracted to the frame's own number, and an XOR of*)
(* payloads to the set of the numbers combined: XOR-ing two such values is *)
(* their symmetric difference, so a recovered payload is right exactly when*)
(* it is the singleton of the number it is delivered under.                *)
(***************************************************************************)
EXTENDS ReorderCore, SequencesExt

CONSTANTS
    K,               \* the negotiated group size, fecMinGroup .. fecMaxGroup
    MaxPending,      \* fecMaxPendingGroups
    DoneSlots,       \* fecDoneRing
    CleanupProbe     \* 256: bypassed data probes the reorder progress this often

ASSUME FecCoreAssumption ==
    /\ K \in Nat /\ K > 1
    /\ {MaxPending, DoneSlots, CleanupProbe} \subseteq Nat \ {0}

\* Groups are arithmetic: they start at the numbers congruent to 1 modulo K.
FecGroupStart(seq) == IF seq = 0 THEN 0 ELSE seq - ((seq - 1) % K)

FecNextGroupStart(seq) ==
    IF seq = 0 THEN 0
    ELSE IF (seq - 1) % K = 0 THEN seq
    ELSE LET next == FecGroupStart(seq) + K IN IF next < SeqSpace THEN next ELSE 0

Members(start) == start .. start + K - 1

-----------------------------------------------------------------------------
(***************************************************************************)
(* The encoder, run by AsyncPort's goroutine alone.                        *)
(*   multipath, armed   is FEC on; has it reached a group boundary         *)
(*   last               lastSeq                                            *)
(*   open               the numbers in the group being filled              *)
(*   gen, op, boundary  the latest fence published; gen 0: none            *)
(***************************************************************************)
NewFECEncoder ==
    [multipath |-> TRUE, armed |-> TRUE, last |-> 0, open |-> <<>>,
     gen |-> 0, op |-> "none", boundary |-> 0]

PublishModeControl(enc, op, boundary) ==
    IF boundary = 0 THEN enc
    ELSE [enc EXCEPT !.gen = @ + 1, !.op = op, !.boundary = boundary]

\* Mutant: the half-filled group survives the suspension.
SuspendKeepsGroup(enc, firstSeq) ==
    LET boundary   == IF enc.open # <<>> THEN Head(enc.open) ELSE FecGroupStart(firstSeq)
        suppressed == [enc EXCEPT !.multipath = FALSE, !.armed = FALSE]
    IN  IF enc.last # 0 \/ enc.open # <<>> THEN PublishModeControl(suppressed, "suspend", boundary)
        ELSE suppressed

Suspend(enc, firstSeq) ==
    LET hadTraffic == enc.last # 0 \/ enc.open # <<>>
        boundary   == IF enc.open # <<>> THEN Head(enc.open) ELSE FecGroupStart(firstSeq)
        suppressed == [enc EXCEPT !.multipath = FALSE, !.armed = FALSE, !.open = <<>>]
    IN  IF hadTraffic THEN PublishModeControl(suppressed, "suspend", boundary)
        ELSE suppressed

\* Mutant: the boundary announced is one group past the one the encoder arms at.
ResumeLate(enc, firstSeq) ==
    LET resumed == [enc EXCEPT !.multipath = TRUE, !.armed = FALSE]
    IN  IF enc.gen = 0 THEN resumed
        ELSE PublishModeControl(resumed, "resume", FecNextGroupStart(firstSeq) + K)

Resume(enc, firstSeq) ==
    LET resumed == [enc EXCEPT !.multipath = TRUE, !.armed = FALSE]
    IN  IF enc.gen = 0 THEN resumed
        ELSE PublishModeControl(resumed, "resume", FecNextGroupStart(firstSeq))

SetPhysicalPathCount(enc, paths) ==
    LET firstSeq == IF enc.last = SeqSpace - 1 THEN 0 ELSE enc.last + 1
    IN  IF (paths >= 2) = enc.multipath THEN enc
        ELSE IF paths >= 2 THEN Resume(enc, firstSeq) ELSE Suspend(enc, firstSeq)

\* add, over the frames of a batch: fed.parities collects the parity frames built.
Add(fed, seq) ==
    LET enc     == [fed.enc EXCEPT !.last = seq]
        arms    == enc.armed \/ (seq - 1) % K = 0
        open    == Append(enc.open, seq)
        parity  == [kind |-> "parity", start |-> Head(open), members |-> Range(open)]
    IN  IF ~enc.multipath \/ ~arms THEN [fed EXCEPT !.enc = enc]
        ELSE IF Len(open) < K
        THEN [fed EXCEPT !.enc = [enc EXCEPT !.armed = TRUE, !.open = open]]
        ELSE [enc |-> [enc EXCEPT !.armed = TRUE, !.open = <<>>],
              parities |-> Append(fed.parities, parity)]

AddBatch(enc, seqs) == FoldLeft(Add, [enc |-> enc, parities |-> <<>>], seqs)

-----------------------------------------------------------------------------
(***************************************************************************)
(* The decoder, one per session.                                           *)
(*   gen, from, until   fecRXFenceState: bypass from <= seq < until,       *)
(*                      from = 0 is none, until = 0 is no upper end        *)
(*   cleanup, retired   cleanupBefore, retiredBefore                       *)
(*   groups             the pending groups: members got, and the members   *)
(*                      the parity covers, {} before it arrives            *)
(*   order              groupOrder, stale entries included                 *)
(*   done               doneRing                                           *)
(***************************************************************************)
NewFECDecoder ==
    [gen |-> 0, from |-> 0, until |-> 0, cleanup |-> 0, retired |-> 0,
     groups |-> {}, order |-> <<>>, done |-> [i \in 0 .. DoneSlots - 1 |-> 0]]

Starts(groups) == {g.start : g \in groups}

GroupAt(fec, start) == CHOOSE g \in fec.groups : g.start = start

Put(fec, g) ==
    [fec EXCEPT !.groups = {x \in @ : x.start # g.start} \cup {g}]

\* pruneGroupOrderLocked: drop finished entries from the head.
PruneGroupOrder(order, groups) ==
    LET live == {i \in DOMAIN order : order[i] \in Starts(groups)}
    IN  IF live = {} THEN <<>>
        ELSE SubSeq(order, CHOOSE i \in live : \A j \in live : i <= j, Len(order))

Without(fec, starts) ==
    LET groups == {g \in fec.groups : g.start \notin starts}
    IN  [fec EXCEPT !.groups = groups, !.order = PruneGroupOrder(@, groups)]

\* newGroupLocked: at the limit the oldest pending group is evicted, not marked done.
NewGroup(fec, start) ==
    LET pruned == [fec EXCEPT !.order = PruneGroupOrder(@, fec.groups)]
        roomy  == IF Cardinality(fec.groups) < MaxPending THEN pruned
                  ELSE Without([pruned EXCEPT !.order = Tail(@)], {Head(pruned.order)})
    IN  [roomy EXCEPT !.groups = @ \cup {[start |-> start, got |-> {}, parity |-> {}]},
                      !.order = Append(@, start)]

Open(fec, start) ==
    IF start \in Starts(fec.groups) THEN fec ELSE NewGroup(fec, start)

IsDone(fec, start) == fec.done[start % DoneSlots] = start

\* finishGroupLocked; the order entry stays, to be pruned later.
FinishGroup(fec, g) ==
    [fec EXCEPT !.groups = {x \in @ : x.start # g.start},
                !.done[g.start % DoneSlots] = g.start]

\* Mutant: a group is only finished once nothing is missing.
TryRecoverNothing(fec, g) ==
    IF g.parity = {} \/ g.got # Members(g.start)
    THEN [fec |-> Put(fec, g), rec |-> {}]
    ELSE [fec |-> FinishGroup(fec, g), rec |-> {}]

\* tryRecoverLocked, tryRecoverActor: what becomes of the decoder, and the frame rebuilt.
TryRecover(fec, g) ==
    LET missing == Members(g.start) \ g.got
    IN  IF g.parity = {} \/ Cardinality(missing) > 1
        THEN [fec |-> Put(fec, g), rec |-> {}]
        ELSE [fec |-> FinishGroup(fec, g),
              rec |-> {[seq |-> s, payload |-> SymDiff(g.parity, g.got)] : s \in missing}]

BypassData(fec, seq) ==
    fec.from # 0 /\ seq >= fec.from /\ (fec.until = 0 \/ seq < fec.until)

\* Mutant: retires at once, wherever the reorder buffer is.
RetireAtOnce(fec, expected) ==
    IF fec.cleanup = 0 \/ fec.retired >= fec.cleanup THEN fec
    ELSE Without([fec EXCEPT !.retired = fec.cleanup],
                 {s \in Starts(fec.groups) : s < fec.cleanup})

\* maybeRetireOldGroupsLocked: expected is the reorder buffer's progress.
MaybeRetireOldGroups(fec, expected) ==
    IF fec.cleanup = 0 \/ fec.retired >= fec.cleanup \/ expected < fec.cleanup THEN fec
    ELSE Without([fec EXCEPT !.retired = fec.cleanup],
                 {s \in Starts(fec.groups) : s < fec.cleanup})

OnData(fec, seq, expected) ==
    LET start  == FecGroupStart(seq)
        opened == Open(fec, start)
        got    == GroupAt(opened, start).got \cup {seq}
        added  == [GroupAt(opened, start) EXCEPT !.got = got]
    IN  CASE BypassData(fec, seq) ->
               [fec |-> IF seq % CleanupProbe = 0 THEN MaybeRetireOldGroups(fec, expected)
                        ELSE fec, rec |-> {}]
          [] ~BypassData(fec, seq) /\ (seq < fec.retired \/ IsDone(fec, start)) ->
               [fec |-> fec, rec |-> {}]
          [] OTHER ->
               IF seq \in GroupAt(opened, start).got THEN [fec |-> opened, rec |-> {}]
               ELSE IF got = Members(start)
               THEN [fec |-> FinishGroup(opened, added), rec |-> {}]
               ELSE TryRecover(opened, added)

OnParity(fec, parity, expected) ==
    LET start   == parity.start
        cleaned == MaybeRetireOldGroups(fec, expected)
        opened  == Open(cleaned, start)
        tried   == TryRecover(opened, [GroupAt(opened, start) EXCEPT !.parity = parity.members])
    IN  IF (start - 1) % K # 0 THEN [fec |-> fec, rec |-> {}]
        ELSE IF \/ start < cleaned.retired
                \/ IsDone(cleaned, start)
                \/ start \in Starts(cleaned.groups) /\ GroupAt(cleaned, start).parity # {}
        THEN [fec |-> cleaned, rec |-> {}]
        ELSE [tried EXCEPT !.fec = MaybeRetireOldGroups(@, expected)]

\* fecRXFenceState.Apply: a RESUME whose SUSPEND was never seen leaves FEC fully active.
ApplyFence(fec, c) ==
    CASE c.op = "suspend" -> [fec EXCEPT !.gen = c.gen, !.from = c.boundary, !.until = 0]
      [] c.op = "resume" /\ (fec.from = 0 \/ c.boundary <= fec.from) ->
             [fec EXCEPT !.gen = c.gen, !.from = 0, !.until = 0]
      [] c.op = "resume" /\ fec.from # 0 /\ c.boundary > fec.from ->
             [fec EXCEPT !.gen = c.gen, !.until = c.boundary]

InWindow(fec, start) == start >= fec.from /\ (fec.until = 0 \/ start < fec.until)

HandleModeControl(fec, c, expected) ==
    LET applied == ApplyFence(fec, c)
        swept   == Without([applied EXCEPT !.cleanup = IF @ < applied.from THEN applied.from ELSE @],
                           {s \in Starts(fec.groups) : InWindow(applied, s)})
    IN  IF c.gen <= fec.gen THEN fec
        ELSE IF applied.from = 0 THEN applied
        ELSE MaybeRetireOldGroups(swept, expected)
=============================================================================
