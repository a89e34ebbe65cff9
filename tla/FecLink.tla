------------------------------ MODULE FecLink ------------------------------
(***************************************************************************)
(* One direction of a multi-path session: AsyncPort's dispatch loop        *)
(* (client.go) with its FEC encoder, the physical connections that come and*)
(* go under it, and the receiving session worker with its FEC decoder and  *)
(* reorder ring.  Each connection is a FIFO byte stream; frames on         *)
(* different connections overtake one another, and a connection that dies  *)
(* loses whatever its peer had not received.                               *)
(***************************************************************************)
EXTENDS FecCore

CONSTANTS
    Paths,         \* incarnations of physical connections, each used once
    MaxSeq,        \* bound: data frames sent
    MaxBatch,      \* bound: data frames in one dispatch
    MaxOutages     \* bound: dispatches that find no connection left

ASSUME FecLinkAssumption ==
    /\ {MaxSeq, MaxBatch, MaxOutages} \subseteq Nat
    /\ MaxSeq < SeqSpace

VARIABLES
    enc,         \* AsyncPort.encoder
    txSeq,       \* AsyncPort.txSeq
    batch,       \* the number of frames in the batch being put together
    backends,    \* the registered backends
    fenceGen,    \* each backend's fecFenceGen
    outages,     \* dispatches made with no connection left
    stream,      \* what is queued, written or in flight on each connection
    fec,         \* the session's decoder
    rb,          \* its reorder ring
    protected,   \* history: numbers some parity sent on a connection covers
    arrived,     \* history: data frames and parities that reached the decoder
    recovered,   \* history: the frames rebuilt
    bypassed,    \* history: numbers the decoder was told to ignore
    givenUp,     \* history: the pending groups dropped, and why
    skipped      \* history: a fence was applied without the one before it

vars == <<enc, txSeq, batch, backends, fenceGen, outages, stream, fec, rb, protected,
          arrived, recovered, bypassed, givenUp, skipped>>

receiver == <<fec, rb, arrived, recovered, bypassed, givenUp, skipped>>

Init ==
    /\ enc = NewFECEncoder
    /\ txSeq = 0
    /\ batch = 0
    /\ backends = {}
    /\ fenceGen = [p \in Paths |-> 0]
    /\ outages = 0
    /\ stream = [p \in Paths |-> <<>>]
    /\ fec = NewFECDecoder
    /\ rb = NewReorder
    /\ protected = {}
    /\ arrived = {}
    /\ recovered = {}
    /\ bypassed = {}
    /\ givenUp = {}
    /\ skipped = FALSE

(***************************************************************************)
(* RegisterOwnedBackend and UnregisterOwnedBackend.  A connection that is  *)
(* gone delivers a prefix of what it was given; once that is consumed its  *)
(* place is free for a new one.                                            *)
(***************************************************************************)
RegisterBackend(p) ==
    /\ p \notin backends /\ stream[p] = <<>>
    /\ backends' = backends \cup {p}
    /\ fenceGen' = [fenceGen EXCEPT ![p] = 0]
    /\ UNCHANGED <<enc, txSeq, batch, outages, stream, protected, receiver>>

UnregisterBackend(p) ==
    /\ p \in backends
    /\ backends' = backends \ {p}
    /\ \E n \in 0 .. Len(stream[p]) : stream' = [stream EXCEPT ![p] = SubSeq(@, 1, n)]
    /\ UNCHANGED <<enc, txSeq, batch, fenceGen, outages, protected, receiver>>

(***************************************************************************)
(* AsyncPort.run: with some backend ready, take numbers for a batch; then, *)
(* after a pause that lets more frames join it, dispatch it.               *)
(***************************************************************************)
TakeNumbers(n) ==
    /\ batch = 0
    /\ backends # {}
    /\ txSeq + n <= MaxSeq
    /\ txSeq' = txSeq + n
    /\ batch' = n
    /\ UNCHANGED <<enc, backends, fenceGen, outages, stream, protected, receiver>>

Batch == [i \in 1 .. batch |-> txSeq - batch + i]

\* dispatchOwnedBatch with every backend gone: the encoder never sees the batch.
DispatchToNobody ==
    /\ batch > 0
    /\ backends = {}
    /\ outages < MaxOutages
    /\ outages' = outages + 1
    /\ batch' = 0
    /\ UNCHANGED <<enc, txSeq, backends, fenceGen, stream, protected, receiver>>

\* Mutant: a backend is only ever given its first fence.
FencedOnce(p, e, frames) ==
    (IF fenceGen[p] = 0 /\ e.gen > 0
     THEN <<[kind |-> "fence", gen |-> e.gen, op |-> e.op, boundary |-> e.boundary]>>
     ELSE <<>>)
    \o [i \in DOMAIN frames |-> [kind |-> "data", seq |-> frames[i], gen |-> e.gen]]

\* sendOwnedBatchToAnyFenced: the current fence goes first, once per backend.
Fenced(p, e, frames) ==
    (IF fenceGen[p] < e.gen
     THEN <<[kind |-> "fence", gen |-> e.gen, op |-> e.op, boundary |-> e.boundary]>>
     ELSE <<>>)
    \o [i \in DOMAIN frames |-> [kind |-> "data", seq |-> frames[i], gen |-> e.gen]]

\* The batch goes to p and its parities to q; either is dropped if its queue is full.
Dispatch(p, q) ==
    LET paths == SetPhysicalPathCount(enc, Cardinality(backends))
        fed   == AddBatch(paths, Batch)
    IN  /\ batch > 0
        /\ {p, q} \subseteq backends
        /\ batch' = 0
        /\ enc' = fed.enc
        /\ \E sent, paritySent \in BOOLEAN :
              LET data   == IF sent THEN Fenced(p, paths, Batch) ELSE <<>>
                  parity == IF paritySent THEN fed.parities ELSE <<>>
              IN  /\ stream' = [r \in Paths |-> stream[r] \o (IF r = p THEN data ELSE <<>>)
                                                       \o (IF r = q THEN parity ELSE <<>>)]
                  /\ fenceGen' = IF sent THEN [fenceGen EXCEPT ![p] = paths.gen] ELSE fenceGen
                  /\ protected' = protected \cup UNION {par.members : par \in Range(parity)}
        /\ UNCHANGED <<txSeq, backends, outages, receiver>>

(***************************************************************************)
(* rxSessionWorker.process, frame by frame.  A frame rebuilt from the      *)
(* group of the data frame just received enters the ring in number order.  *)
(***************************************************************************)
Frame(s) == [seq |-> s, gen |-> 1]

InsertOriginalAndRecovery(seqs) ==
    TakePending(FoldLeft(LAMBDA ring, s : InsertLocked(ring, Frame(s)), rb,
                         SetToSortSeq(seqs, <)))

Receive(p, after, seqs) ==
    /\ stream' = [stream EXCEPT ![p] = Tail(@)]
    /\ fec' = after.fec
    /\ rb' = InsertOriginalAndRecovery(seqs \cup {r.seq : r \in after.rec})
    /\ recovered' = recovered \cup after.rec
    /\ LET gone == {s \in Starts(fec.groups) \ Starts(after.fec.groups) :
                       ~IsDone(after.fec, s) /\ s >= after.fec.retired}
       IN  givenUp' = givenUp \cup
               [start : gone, why : {IF after.fec.gen > fec.gen THEN "swept" ELSE "evicted"}]
    /\ UNCHANGED <<enc, txSeq, batch, backends, fenceGen, outages, protected>>

ReceiveData(p) ==
    LET m == Head(stream[p])
    IN  /\ stream[p] # <<>> /\ m.kind = "data"
        /\ Receive(p, OnData(fec, m.seq, rb.expected), {m.seq})
        /\ arrived' = arrived \cup {[kind |-> "data", seq |-> m.seq]}
        /\ bypassed' = IF BypassData(fec, m.seq) THEN bypassed \cup {m.seq} ELSE bypassed
        /\ UNCHANGED skipped

ReceiveParity(p) ==
    LET m == Head(stream[p])
    IN  /\ stream[p] # <<>> /\ m.kind = "parity"
        /\ Receive(p, OnParity(fec, m, rb.expected), {})
        /\ arrived' = arrived \cup {[kind |-> "parity", seq |-> m.start]}
        /\ UNCHANGED <<bypassed, skipped>>

ReceiveFence(p) ==
    LET m == Head(stream[p])
    IN  /\ stream[p] # <<>> /\ m.kind = "fence"
        /\ Receive(p, [fec |-> HandleModeControl(fec, m, rb.expected), rec |-> {}], {})
        /\ skipped' = (skipped \/ m.gen > fec.gen + 1)
        /\ UNCHANGED <<arrived, bypassed>>

ExpireGapActor ==
    /\ rb.gap # "none"
    /\ rb' = TakePending(ExpireGap([rb EXCEPT !.gap = "due"]))
    /\ UNCHANGED <<enc, txSeq, batch, backends, fenceGen, outages, stream, fec, protected, arrived,
                   recovered, bypassed, givenUp, skipped>>

Next ==
    \/ \E p \in Paths :
          \/ RegisterBackend(p) \/ UnregisterBackend(p)
          \/ ReceiveData(p) \/ ReceiveParity(p) \/ ReceiveFence(p)
    \/ \E n \in 1 .. MaxBatch : TakeNumbers(n)
    \/ \E p, q \in Paths : Dispatch(p, q)
    \/ DispatchToNobody
    \/ ExpireGapActor

Spec == Init /\ [][Next]_vars

-----------------------------------------------------------------------------
Groups == {s \in 1 .. MaxSeq : s = FecGroupStart(s)}

\* Every variable stays in its range; the decoder keeps at most fecMaxPendingGroups groups,
\* each with an entry in groupOrder and with members of its own only.
TypeOK ==
    /\ enc.last \in 0 .. txSeq /\ Len(enc.open) < K /\ enc.boundary \in 0 .. SeqSpace - 1
    /\ txSeq \in 0 .. MaxSeq /\ batch \in 0 .. MaxBatch /\ outages \in 0 .. MaxOutages
    /\ backends \subseteq Paths
    /\ \A p \in Paths : fenceGen[p] \in 0 .. enc.gen
    /\ Cardinality(fec.groups) <= MaxPending
    /\ \A g \in fec.groups : g.start \in Groups /\ g.got \subseteq Members(g.start)
    /\ Starts(fec.groups) \subseteq Range(fec.order)
    /\ fec.gen \in 0 .. enc.gen

\* A frame rebuilt from parity is the frame that was lost: whatever came and went while
\* its group was being filled, sender and receiver agree on which numbers it covers.
RecoversWhatWasSent == \A r \in recovered : r.payload = {r.seq}

\* The same, as long as no batch was dispatched with every connection gone.
RecoversWithoutOutage == outages = 0 => RecoversWhatWasSent

\* Every data frame finds the decoder at least at the fence generation it was sent under,
\* whichever connection carries it: the fence was queued before it on that connection.
FenceBeforeData ==
    \A p \in Paths :
        stream[p] # <<>> /\ Head(stream[p]).kind = "data" => fec.gen >= Head(stream[p]).gen

\* "RX may bypass a data sequence only after the sender has authoritatively declared that
\* the group containing that sequence will not receive useful parity"
\* (dynamic_rx_fec_bypass.md).
BypassesOnlyUnprotected == bypassed \cap protected = {}

\* The same, as long as the receiver sees every fence and no batch was dispatched with every
\* connection gone: it bypasses nothing that parity protects, even when fences and data
\* overtake one another.
BypassSafeWithEveryFence == ~skipped /\ outages = 0 => bypassed \cap protected = {}

\* Bookkeeping is retired only for frames whose turn has passed in the reorder buffer.
RetiredIsBehind == fec.retired > 0 => fec.retired <= rb.expected

\* The decoder repairs whatever it can: once a group's parity and all but one of its
\* members have arrived, in any order, the missing one has been rebuilt; unless the group
\* was retired, swept by a fence, or evicted at fecMaxPendingGroups, or a batch found no
\* connection to leave on.
RepairsSingleLoss ==
    \A s \in Groups :
        LET got == {n \in Members(s) : [kind |-> "data", seq |-> n] \in arrived}
        IN  /\ [kind |-> "parity", seq |-> s] \in arrived
            /\ Cardinality(got) = K - 1
            /\ s >= fec.retired /\ \A g \in givenUp : g.start # s
            /\ bypassed \cap Members(s) = {} /\ outages = 0
            => \E r \in recovered : r.seq \in Members(s) \ got

\* The pending groups a fence releases are "sender-declared unrecoverable"
\* (dynamic_rx_fec_bypass.md).
SweepsOnlyUnprotected ==
    \A g \in givenUp : g.why = "swept" => g.start \notin protected
=============================================================================
