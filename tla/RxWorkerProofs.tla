--------------------------- MODULE RxWorkerProofs ---------------------------
(***************************************************************************)
(* Proofs about the receive actor of RxWorker, for any number of           *)
(* connections, epochs and frames, and any queue and batch capacities.     *)
(***************************************************************************)
EXTENDS RxWorker, ReorderTheorems

-----------------------------------------------------------------------------
(***************************************************************************)
(* The inductive invariant.                                                *)
(***************************************************************************)
Read == [seq : Sent \cup {0}, gen : Int]

Works == [barrier : BOOLEAN, generation : Int, frames : Seq(Read)]

ConnStates ==
    [pc : {"dialing", "joined", "reading", "holding", "leaving", "flushing", "sending", "gone"},
     epoch : Int, generation : Int, batch : Seq(Read), reads : Int, leaving : BOOLEAN]

Typed ==
    /\ epoch \in Int /\ generation \in Int /\ rxEpoch \in Int
    /\ rotator \in {"idle", "advancing", "sending", "waiting", "released"}
    /\ worker \in {"run", "closed", "exit"}
    /\ queue \in Seq(Works)
    /\ conn \in [Conns -> ConnStates]

\* Once Close has the write lock, nobody is left inside enqueue, and nobody enters.
CloseInv ==
    /\ Closed => rotator # "sending" /\ \A c \in Conns : conn[c].pc # "sending"
    /\ worker # "run" => Closed
    /\ worker = "exit" => queue = <<>>

\* The queue holds at most one barrier, and the worker has still to perform its reset.
\* Before Close, where the rotator is says how far the three counters have got.
BarrierInv ==
    /\ rxEpoch <= generation
    /\ \A i \in DOMAIN queue : queue[i].barrier => rxEpoch < generation
    /\ \A i, j \in DOMAIN queue : queue[i].barrier /\ queue[j].barrier => i = j
    /\ ~Closed =>
          /\ rotator # "waiting" => \A i \in DOMAIN queue : ~queue[i].barrier
          /\ generation = IF rotator = "idle" THEN epoch ELSE epoch + 1
          /\ rxEpoch = IF rotator = "released" THEN epoch + 1 ELSE epoch

\* What is queued was read by a connection of the generation it is tagged with, after the
\* worker's reset for it.
QueuedInv ==
    \A i \in DOMAIN queue : \A j \in DOMAIN queue[i].frames :
        queue[i].frames[j].gen = queue[i].generation /\ queue[i].generation <= rxEpoch

\* Before Close, a reader holds frames only if its connection's epoch is its generation:
\* one that captured a later generation fails the epoch check.
HeldBy(c) ==
    /\ conn[c].pc # "dialing" => conn[c].epoch <= epoch
    /\ conn[c].pc \in {"dialing", "joined", "gone"} => conn[c].batch = <<>>
    /\ conn[c].pc \in {"reading", "holding", "leaving", "flushing", "sending"} =>
          conn[c].epoch <= conn[c].generation /\ conn[c].generation <= generation
    /\ conn[c].pc = "holding" \/ conn[c].batch # <<>> =>
          conn[c].epoch = conn[c].generation /\ conn[c].epoch <= rxEpoch
    /\ \A j \in DOMAIN conn[c].batch : conn[c].batch[j].gen = conn[c].epoch

ReadersInv == ~Closed => \A c \in Conns : HeldBy(c)

-----------------------------------------------------------------------------
(***************************************************************************)
(* Types.                                                                  *)
(***************************************************************************)
\* Nothing is queued or held initially.
LEMMA TypedInit == Init => Typed
<1> SUFFICES ASSUME Init PROVE Typed
  OBVIOUS
<1>1. [pc |-> "dialing", epoch |-> 0, generation |-> 0, batch |-> <<>>, reads |-> 0,
       leaving |-> FALSE] \in ConnStates
  BY DEF ConnStates
<1> QED
  BY <1>1 DEF Init, Typed

\* What a reader does to its own record.
LEMMA ReaderTypes ==
    ASSUME Typed, NEW c \in Conns, Reader(c)
    PROVE  /\ conn' \in [Conns -> ConnStates]
           /\ \A d \in Conns \ {c} : conn'[d] = conn[d]
<1>0. /\ conn \in [Conns -> ConnStates]
      /\ conn[c] \in ConnStates
      /\ epoch \in Int /\ generation \in Int
  BY DEF Typed
<1>1. CASE Join(c)
  BY <1>0, <1>1, Zenon DEF Join, ConnStates
<1>2. CASE NewProducer(c)
  BY <1>0, <1>2, Zenon DEF NewProducer, ConnStates
<1>3. CASE CheckEpoch(c)
  <2> DEFINE pc == IF ChecksEpoch /\ conn[c].epoch # epoch THEN "leaving" ELSE "holding"
  <2>1. conn' = [conn EXCEPT ![c].reads = @ + 1, ![c].pc = pc]
    BY <1>3 DEF CheckEpoch
  <2>2. pc \in {"leaving", "holding"}
    OBVIOUS
  <2> HIDE DEF pc
  <2>3. conn[c].reads + 1 \in Int
    BY <1>0 DEF ConnStates
  <2>4. [conn[c] EXCEPT !.reads = conn[c].reads + 1, !.pc = pc] \in ConnStates
    BY <1>0, <2>2, <2>3, Zenon DEF ConnStates
  <2> QED
    BY <1>0, <2>1, <2>4
<1>4. ASSUME NEW s \in Sent \cup {0}, Push(c, s)
      PROVE  conn' \in [Conns -> ConnStates] /\ \A d \in Conns \ {c} : conn'[d] = conn[d]
  <2> DEFINE batch == Append(conn[c].batch, [seq |-> s, gen |-> conn[c].epoch])
  <2>1. [seq |-> s, gen |-> conn[c].epoch] \in Read
    BY <1>0, RxWorkerAssumption DEF ConnStates, Read
  <2>2. batch \in Seq(Read)
    BY <1>0, <2>1 DEF ConnStates
  <2>3. PICK pc \in {"reading", "flushing"} : conn' = [conn EXCEPT ![c].batch = batch, ![c].pc = pc]
    BY <1>4, Zenon DEF Push
  <2> HIDE DEF batch
  <2> QED
    BY <1>0, <2>2, <2>3, Zenon DEF ConnStates
<1>5. CASE Leave(c)
  <2>1. PICK pc \in {"gone", "flushing"} : conn' = [conn EXCEPT ![c].leaving = TRUE, ![c].pc = pc]
    BY <1>5, Zenon DEF Leave
  <2> QED
    BY <1>0, <2>1, Zenon DEF ConnStates
<1>6. CASE FlushBegin(c) \/ FlushSend(c)
  <2>1. PICK pc \in {"gone", "reading"} :
           \/ conn' = [conn EXCEPT ![c].batch = <<>>, ![c].pc = pc]
           \/ conn' = [conn EXCEPT ![c].pc = "sending"]
    BY <1>6 DEF FlushBegin, FlushSend, AfterFlush
  <2>2. <<>> \in Seq(Read)
    OBVIOUS
  <2>3. CASE conn' = [conn EXCEPT ![c].batch = <<>>, ![c].pc = pc]
    BY <1>0, <2>2, <2>3, Zenon DEF ConnStates
  <2>4. CASE conn' = [conn EXCEPT ![c].pc = "sending"]
    BY <1>0, <2>4, Zenon DEF ConnStates
  <2> QED
    BY <2>1, <2>3, <2>4
<1> QED
  BY <1>1, <1>2, <1>3, <1>4, <1>5, <1>6 DEF Reader

\* The head of the queue leaves, or an element joins it at the end.
LEMMA QueueTypes ==
    ASSUME NEW q \in Seq(Works), NEW w \in Works
    PROVE  /\ Append(q, w) \in Seq(Works) /\ Len(Append(q, w)) = Len(q) + 1
           /\ \A i \in 1 .. Len(q) : Append(q, w)[i] = q[i]
           /\ Append(q, w)[Len(q) + 1] = w
           /\ q # <<>> => /\ Tail(q) \in Seq(Works) /\ Len(Tail(q)) = Len(q) - 1
                          /\ \A i \in 1 .. Len(Tail(q)) : Tail(q)[i] = q[i + 1]
                          /\ Head(q) = q[1] /\ Len(q) > 0
OBVIOUS

\* What each kind of step does to the queue.
LEMMA QueueMoves ==
    ASSUME Typed, Next
    PROVE  \/ queue' = queue
           \/ queue # <<>> /\ queue' = Tail(queue)
           \/ rotator = "sending" /\ queue' = Append(queue, Barrier)
           \/ \E c \in Conns : /\ conn[c].pc = "sending"
                               /\ queue' = Append(queue, [barrier |-> FALSE,
                                     generation |-> conn[c].generation, frames |-> conn[c].batch])
<1>1. ASSUME NEW c \in Conns, Reader(c), ~FlushSend(c) PROVE queue' = queue
  BY <1>1, Zenon DEF Reader, Join, NewProducer, CheckEpoch, Push, Leave, FlushBegin
<1>2. CASE Rotate \/ RotateBegin \/ RotateSend \/ RotateDone
  BY <1>2 DEF Rotate, RotateBegin, RotateSend, RotateDone
<1>3. CASE ProcessBarrier \/ ProcessBatch \/ ExpireGapActor \/ WorkerDrain
  BY <1>3 DEF ProcessBarrier, ProcessBatch, ExpireGapActor, WorkerDrain
<1>4. CASE Close \/ CloseLocked \/ CloseDone \/ Terminated
  BY <1>4 DEF Close, CloseLocked, CloseDone, CloserUnchanged, Terminated, vars
<1> QED
  BY <1>1, <1>2, <1>3, <1>4, Zenon DEF Next, FlushSend

\* Every step keeps the types.
LEMMA TypedStep == Typed /\ [Next]_vars => Typed'
<1> SUFFICES ASSUME Typed, [Next]_vars PROVE Typed'
  OBVIOUS
<1>1. CASE UNCHANGED vars
  BY <1>1 DEF vars, Typed
<1>2. CASE Next
  <2>1. queue' \in Seq(Works)
    <3>1. Barrier \in Works
      BY DEF Barrier, Works
    <3>2. \A c \in Conns : [barrier |-> FALSE, generation |-> conn[c].generation,
                            frames |-> conn[c].batch] \in Works
      BY DEF Typed, ConnStates, Works
    <3> QED
      BY <1>2, <3>1, <3>2, QueueMoves, QueueTypes, ZenonT(60) DEF Typed
  <2>2. ASSUME NEW c \in Conns, Reader(c) PROVE Typed'
    <3>1. UNCHANGED <<epoch, rotator, generation, worker, rxEpoch>>
      BY <2>2, Zenon
         DEF Reader, Join, NewProducer, CheckEpoch, Push, Leave, FlushBegin, FlushSend,
                  ReaderUnchanged
    <3> QED
      BY <2>1, <2>2, <3>1, ReaderTypes DEF Typed
  <2>3. CASE Rotate \/ RotateBegin \/ RotateSend \/ RotateDone
    <3>1. UNCHANGED <<worker, conn, rxEpoch>>
      BY <2>3 DEF Rotate, RotateBegin, RotateSend, RotateDone, RotatorUnchanged
    <3>2. /\ epoch' \in {epoch, epoch + 1} /\ generation' \in {generation, generation + 1}
          /\ rotator' \in {"idle", "advancing", "sending", "waiting", rotator}
      BY <2>3 DEF Rotate, RotateBegin, RotateSend, RotateDone
    <3> QED
      BY <2>1, <3>1, <3>2 DEF Typed
  <2>4. CASE ProcessBarrier \/ ProcessBatch \/ ExpireGapActor \/ WorkerDrain
    <3>1. UNCHANGED <<epoch, generation, conn>>
      BY <2>4 DEF ProcessBarrier, ProcessBatch, ExpireGapActor, WorkerDrain, WorkerUnchanged
    <3>2. /\ rxEpoch' \in {rxEpoch, rxEpoch + 1} /\ rotator' \in {rotator, "released"}
          /\ worker' \in {worker, "exit", "closed"}
      BY <2>4 DEF ProcessBarrier, ProcessBatch, ExpireGapActor, WorkerDrain
    <3> QED
      BY <2>1, <3>1, <3>2 DEF Typed
  <2>5. CASE Close \/ CloseLocked \/ CloseDone \/ Terminated
    BY <2>5 DEF Close, CloseLocked, CloseDone, CloserUnchanged, Terminated, vars, Typed
  <2> QED
    BY <1>2, <2>2, <2>3, <2>4, <2>5 DEF Next
<1> QED
  BY <1>1, <1>2

-----------------------------------------------------------------------------
(***************************************************************************)
(* Close.                                                                  *)
(***************************************************************************)
LEMMA CloseStep == Typed /\ CloseInv /\ [Next]_vars => CloseInv'
<1> SUFFICES ASSUME Typed, CloseInv, [Next]_vars PROVE CloseInv'
  OBVIOUS
<1>1. ASSUME NEW c \in Conns, Reader(c) PROVE CloseInv'
  <2>1. UNCHANGED <<rotator, closer, worker>>
    BY <1>1, ZenonT(60)
       DEF Reader, Join, NewProducer, CheckEpoch, Push, Leave, FlushBegin, FlushSend,
                ReaderUnchanged
  <2>2. \A d \in Conns \ {c} : conn'[d] = conn[d]
    BY <1>1, ReaderTypes
  <2>3. Closed => conn'[c].pc # "sending"
    <3>1. conn[c] \in ConnStates /\ conn \in [Conns -> ConnStates]
      BY DEF Typed
    <3>2. CASE Join(c) \/ NewProducer(c) \/ CheckEpoch(c) \/ Leave(c)
      BY <3>1, <3>2 DEF Join, NewProducer, CheckEpoch, Leave, ConnStates
    <3>3. ASSUME NEW s \in Sent \cup {0}, Push(c, s) PROVE conn'[c].pc # "sending"
      BY <3>1, <3>3 DEF Push, ConnStates
    <3>4. CASE FlushBegin(c) \/ FlushSend(c)
      BY <3>1, <3>4 DEF FlushBegin, FlushSend, AfterFlush, ConnStates
    <3> QED
      BY <1>1, <3>2, <3>3, <3>4 DEF Reader
  <2>4. worker = "exit" => queue' = queue
    <3>1. worker = "exit" => ~FlushSend(c)
      BY DEF CloseInv, FlushSend
    <3> QED
      BY <1>1, <3>1, Zenon DEF Reader, Join, NewProducer, CheckEpoch, Push, Leave, FlushBegin
  <2> QED
    BY <2>1, <2>2, <2>3, <2>4, SMTT(30) DEF CloseInv, Closed
<1>2. CASE Rotate \/ RotateBegin \/ RotateSend \/ RotateDone
  BY <1>2 DEF Rotate, RotateBegin, RotateSend, RotateDone, RotatorUnchanged, CloseInv, Closed
<1>3. CASE ProcessBarrier \/ ProcessBatch \/ ExpireGapActor
  BY <1>3 DEF ProcessBarrier, ProcessBatch, ExpireGapActor, WorkerUnchanged, CloseInv, Closed
<1>4. CASE WorkerDrain
  BY <1>4 DEF WorkerDrain, WorkerUnchanged, CloseInv, Closed
<1>5. CASE Close \/ CloseLocked \/ CloseDone
  BY <1>5 DEF Close, CloseLocked, CloseDone, CloserUnchanged, CloseInv, Closed
<1>6. CASE UNCHANGED vars
  BY <1>6 DEF vars, CloseInv, Closed
<1> QED
  BY <1>1, <1>2, <1>3, <1>4, <1>5, <1>6 DEF Next, Terminated

(***************************************************************************)
(* Close strands nothing: the worker returns only when no reader and no    *)
(* rotation is inside enqueue, and leaves an empty queue (rx_batch.go,     *)
(* Close and the drain after it).                                          *)
(***************************************************************************)
THEOREM CloseStrandsNothing == Spec => []NothingStranded
<1>1. Init => Typed /\ CloseInv
  BY TypedInit DEF Init, CloseInv, Closed
<1>2. Typed /\ CloseInv /\ [Next]_vars => (Typed /\ CloseInv)'
  BY TypedStep, CloseStep
<1>3. CloseInv => NothingStranded
  BY DEF CloseInv, NothingStranded
<1> QED
  BY <1>1, <1>2, <1>3, PTL DEF Spec

-----------------------------------------------------------------------------
(***************************************************************************)
(* The barrier.                                                            *)
(***************************************************************************)
LEMMA BarrierStep == Typed /\ CloseInv /\ BarrierInv /\ [Next]_vars => BarrierInv'
<1> SUFFICES ASSUME Typed, CloseInv, BarrierInv, [Next]_vars PROVE BarrierInv'
  OBVIOUS
<1>0. queue \in Seq(Works) /\ epoch \in Int /\ generation \in Int /\ rxEpoch \in Int
  BY SMTT(30) DEF Typed
<1>1. ASSUME NEW c \in Conns, Reader(c) PROVE BarrierInv'
  <2>1. UNCHANGED <<epoch, rotator, generation, closer, rxEpoch>>
    BY <1>1, ZenonT(60)
       DEF Reader, Join, NewProducer, CheckEpoch, Push, Leave, FlushBegin, FlushSend,
                ReaderUnchanged
  <2>2. CASE queue' = queue
    BY <2>1, <2>2 DEF BarrierInv, Closed
  <2>3. CASE FlushSend(c)
    <3> DEFINE w == [barrier |-> FALSE, generation |-> conn[c].generation,
                     frames |-> conn[c].batch]
    <3>1. w \in Works /\ ~w.barrier
      BY DEF Typed, ConnStates, Works
    <3>2. queue' = Append(queue, w)
      BY <2>3 DEF FlushSend
    <3> HIDE DEF w
    <3>3. \A i \in DOMAIN queue' : queue'[i].barrier => i \in DOMAIN queue /\ queue[i].barrier
      BY <1>0, <3>1, <3>2, QueueTypes
    <3> QED
      BY <2>1, <3>3 DEF BarrierInv, Closed
  <2> QED
    BY <1>1, <2>2, <2>3, Zenon DEF Reader, Join, NewProducer, CheckEpoch, Push, Leave, FlushBegin
<1>2. CASE Rotate
  BY <1>0, <1>2 DEF Rotate, RotatorUnchanged, BarrierInv, Closed
<1>3. CASE RotateBegin
  BY <1>0, <1>3 DEF RotateBegin, RotatorUnchanged, BarrierInv, Closed
<1>4. CASE RotateSend
  <2>1. Barrier \in Works /\ Barrier.barrier
    BY DEF Barrier, Works
  <2>2. /\ queue' = Append(queue, Barrier) /\ rotator' = "waiting" /\ ~Closed
        /\ UNCHANGED <<epoch, generation, closer, rxEpoch>>
    BY <1>4 DEF RotateSend, RotatorUnchanged, CloseInv
  <2>3. rxEpoch < generation /\ \A i \in DOMAIN queue : ~queue[i].barrier
    BY <1>0, <1>4, <2>2 DEF RotateSend, BarrierInv
  <2>4. \A i \in DOMAIN queue' : queue'[i].barrier => i = Len(queue) + 1
    BY <1>0, <2>1, <2>2, <2>3, QueueTypes
  <2>5. generation = epoch + 1 /\ rxEpoch = epoch
    BY <1>4, <2>2 DEF RotateSend, BarrierInv
  <2> QED
    BY <1>0, <2>2, <2>3, <2>4, <2>5 DEF BarrierInv, Closed
<1>5. CASE RotateDone
  BY <1>0, <1>5 DEF RotateDone, RotatorUnchanged, BarrierInv, Closed
<1>6. CASE ProcessBarrier
  <2>1. /\ queue # <<>> /\ Head(queue).barrier /\ queue' = Tail(queue) /\ rxEpoch' = rxEpoch + 1
        /\ rotator' = IF rotator = "waiting" THEN "released" ELSE rotator
        /\ UNCHANGED <<epoch, generation, closer>>
    BY <1>6 DEF ProcessBarrier, WorkerUnchanged
  <2>2. 1 \in DOMAIN queue /\ queue[1].barrier
    BY <1>0, <2>1
  <2>3. \A i \in DOMAIN queue' : ~queue'[i].barrier
    <3> SUFFICES ASSUME NEW i \in DOMAIN queue', queue'[i].barrier PROVE FALSE
      OBVIOUS
    <3>1. i + 1 \in DOMAIN queue /\ queue[i + 1].barrier /\ i + 1 # 1
      BY <1>0, <2>1
    <3> QED
      BY <2>2, <3>1 DEF BarrierInv
  <2>4. ~Closed => rotator = "waiting"
    BY <2>2 DEF BarrierInv
  <2>5. rxEpoch < generation
    BY <2>2 DEF BarrierInv
  <2> QED
    BY <1>0, <2>1, <2>3, <2>4, <2>5 DEF BarrierInv, Closed
<1>7. CASE ProcessBatch \/ WorkerDrain
  <2>1. /\ queue' = queue \/ (queue # <<>> /\ queue' = Tail(queue))
        /\ UNCHANGED <<epoch, generation, closer, rxEpoch>>
        /\ ~Closed => rotator' = rotator
    BY <1>7 DEF ProcessBatch, WorkerDrain, WorkerUnchanged
  <2>2. CASE queue' = queue
    BY <2>1, <2>2 DEF BarrierInv, Closed
  <2>3. CASE queue # <<>> /\ queue' = Tail(queue)
    <3>1. \A i \in DOMAIN queue' : i + 1 \in DOMAIN queue /\ queue'[i] = queue[i + 1] /\ i \in Int
      BY <1>0, <2>3
    <3>2. \A i, j \in DOMAIN queue' : queue'[i].barrier /\ queue'[j].barrier => i = j
      <4> SUFFICES ASSUME NEW i \in DOMAIN queue', NEW j \in DOMAIN queue',
                          queue'[i].barrier, queue'[j].barrier
                   PROVE  i = j
        OBVIOUS
      <4>1. i + 1 = j + 1
        BY <3>1 DEF BarrierInv
      <4> QED
        BY <3>1, <4>1
    <3> QED
      BY <2>1, <3>1, <3>2 DEF BarrierInv, Closed
  <2> QED
    BY <2>1, <2>2, <2>3
<1>8. CASE ExpireGapActor
  BY <1>8 DEF ExpireGapActor, WorkerUnchanged, BarrierInv, Closed
<1>9. CASE Close \/ CloseLocked \/ CloseDone
  BY <1>9 DEF Close, CloseLocked, CloseDone, CloserUnchanged, BarrierInv, Closed
<1>10. CASE UNCHANGED vars
  BY <1>10 DEF vars, BarrierInv, Closed
<1> QED
  BY <1>1, <1>2, <1>3, <1>4, <1>5, <1>6, <1>7, <1>8, <1>9, <1>10, SMTT(30) DEF Next, Terminated

\* The counters start together, and no barrier is queued.
LEMMA SafeInit == Init => Typed /\ CloseInv /\ BarrierInv
<1> SUFFICES ASSUME Init PROVE CloseInv /\ BarrierInv
  BY TypedInit
<1>1. queue = <<>> /\ DOMAIN queue = {}
  BY DEF Init
<1> QED
  BY <1>1 DEF Init, CloseInv, BarrierInv, Closed

(***************************************************************************)
(* advanceEpoch is a barrier: when it has returned and the worker is not   *)
(* closed, the worker has performed the reset of the current epoch and     *)
(* nothing of the rotation is left in the queue (rx_batch.go).             *)
(***************************************************************************)
THEOREM RotationsComplete == Spec => []RotationIsComplete
<1>1. Init => Typed /\ CloseInv /\ BarrierInv
  BY SafeInit
<1>2. Typed /\ CloseInv /\ BarrierInv /\ [Next]_vars => (Typed /\ CloseInv /\ BarrierInv)'
  BY TypedStep, CloseStep, BarrierStep
<1>3. BarrierInv => RotationIsComplete
  BY DEF BarrierInv, RotationIsComplete
<1> QED
  BY <1>1, <1>2, <1>3, PTL DEF Spec

-----------------------------------------------------------------------------
(***************************************************************************)
(* The data.  What follows is about the server's reader, which checks the  *)
(* epoch before it takes a frame.                                          *)
(***************************************************************************)
SafeInv == Typed /\ CloseInv /\ BarrierInv /\ QueuedInv /\ ReadersInv

\* What is applied is a prefix of the batch.
LEMMA DataIsPrefix ==
    ASSUME NEW frames \in Seq(Read)
    PROVE  /\ Data(frames) \in Seq(Read) /\ DOMAIN Data(frames) \subseteq DOMAIN frames
           /\ \A i \in DOMAIN Data(frames) : Data(frames)[i] = frames[i] /\ frames[i].seq # 0
<1> DEFINE Stops == {n \in 0 .. Len(frames) : n = Len(frames) \/ frames[n + 1].seq = 0}
           IsData(n) == /\ \A i \in 1 .. n : frames[i].seq # 0
                        /\ n = Len(frames) \/ frames[n + 1].seq = 0
<1>1. Len(frames) \in Stops /\ Stops \subseteq Nat
  OBVIOUS
<1>2. PICK n \in Stops : \A m \in Stops : n <= m
  BY <1>1, LeastNatural, Zenon
<1>3. \A i \in 1 .. n : frames[i].seq # 0
  <2> SUFFICES ASSUME NEW i \in 1 .. n, frames[i].seq = 0 PROVE FALSE
    OBVIOUS
  <2>1. i - 1 \in Stops
    BY <1>2
  <2>2. n <= i - 1
    BY <1>2, <2>1, Zenon
  <2>3. n \in Nat
    BY <1>1, <1>2, Zenon
  <2> HIDE DEF Stops
  <2> QED
    BY <2>2, <2>3
<1>4. \E m \in 0 .. Len(frames) : IsData(m)
  BY <1>2, <1>3
<1>5. PICK m \in 0 .. Len(frames) : IsData(m) /\ Data(frames) = SubSeq(frames, 1, m)
  BY <1>4, ZenonT(60) DEF Data
<1>6. SubSeq(frames, 1, m) \in Seq(Read) /\ Len(SubSeq(frames, 1, m)) = m
  BY <1>5
<1>7. \A i \in 1 .. m : SubSeq(frames, 1, m)[i] = frames[i] /\ i \in DOMAIN frames
  BY <1>5
<1> QED
  BY <1>5, <1>6, <1>7

\* A frame reaches the queue only through a reader that passed the epoch check.
LEMMA QueuedStep == SafeInv /\ [Next]_vars => QueuedInv'
<1> SUFFICES ASSUME SafeInv, [Next]_vars PROVE QueuedInv'
  OBVIOUS
<1>0. Typed /\ CloseInv /\ BarrierInv /\ QueuedInv /\ ReadersInv
  BY DEF SafeInv
<1>1. queue \in Seq(Works) /\ rxEpoch \in Int
  BY <1>0 DEF Typed
<1>2. rxEpoch' \in Int /\ rxEpoch <= rxEpoch'
  <2>1. rxEpoch' = rxEpoch \/ rxEpoch' = rxEpoch + 1
    <3>1. ASSUME NEW c \in Conns, Reader(c) PROVE rxEpoch' = rxEpoch
      BY <3>1, ZenonT(60)
         DEF Reader, Join, NewProducer, CheckEpoch, Push, Leave, FlushBegin, FlushSend,
                  ReaderUnchanged
    <3>2. CASE Rotate \/ RotateBegin \/ RotateSend \/ RotateDone
      BY <3>2 DEF Rotate, RotateBegin, RotateSend, RotateDone, RotatorUnchanged
    <3>3. CASE ProcessBarrier \/ ProcessBatch \/ ExpireGapActor \/ WorkerDrain
      BY <3>3 DEF ProcessBarrier, ProcessBatch, ExpireGapActor, WorkerDrain
    <3>4. CASE Close \/ CloseLocked \/ CloseDone \/ UNCHANGED vars
      BY <3>4 DEF Close, CloseLocked, CloseDone, CloserUnchanged, vars
    <3> QED
      BY <3>1, <3>2, <3>3, <3>4 DEF Next, Terminated
  <2> QED
    BY <1>1, <2>1
<1> DEFINE Tagged(w) == \A j \in DOMAIN w.frames :
                            w.frames[j].gen = w.generation /\ w.generation <= rxEpoch
<1>3. \A i \in DOMAIN queue : Tagged(queue[i])
  BY <1>0, Zenon DEF QueuedInv
<1>4. ASSUME NEW w \in Works, Tagged(w)
      PROVE  \A j \in DOMAIN w.frames :
                w.frames[j].gen = w.generation /\ w.generation <= rxEpoch'
  BY <1>1, <1>2, <1>4 DEF Works
<1>5. ASSUME \A i \in DOMAIN queue' : queue'[i] \in Works /\ Tagged(queue'[i])
      PROVE  QueuedInv'
  BY <1>4, <1>5 DEF QueuedInv
<1>6. CASE queue' = queue
  BY <1>1, <1>3, <1>5, <1>6
<1>7. CASE queue # <<>> /\ queue' = Tail(queue)
  <2>1. \A i \in DOMAIN queue' : i + 1 \in DOMAIN queue /\ queue'[i] = queue[i + 1]
    BY <1>1, <1>7
  <2> QED
    BY <1>1, <1>3, <1>5, <2>1
<1>8. ASSUME NEW w \in Works, Tagged(w), queue' = Append(queue, w) PROVE QueuedInv'
  <2> HIDE DEF Tagged
  <2>0. queue' = Append(queue, w)
    BY <1>8
  <2>1. \A i \in DOMAIN queue' : queue'[i] = w \/ (i \in DOMAIN queue /\ queue'[i] = queue[i])
    BY <1>1, <2>0
  <2> QED
    BY <1>1, <1>3, <1>5, <1>8, <2>1
<1>9. Barrier \in Works /\ Tagged(Barrier)
  BY DEF Barrier, Works
<1>10. ASSUME NEW c \in Conns, conn[c].pc = "sending"
       PROVE  LET w == [barrier |-> FALSE, generation |-> conn[c].generation,
                        frames |-> conn[c].batch]
              IN  w \in Works /\ Tagged(w)
  <2>1. conn[c] \in ConnStates /\ HeldBy(c)
    BY <1>0, <1>10 DEF Typed, CloseInv, ReadersInv
  <2>2. [barrier |-> FALSE, generation |-> conn[c].generation, frames |-> conn[c].batch] \in Works
    BY <2>1 DEF ConnStates, Works
  <2>3. \A j \in DOMAIN conn[c].batch :
           conn[c].batch[j].gen = conn[c].generation /\ conn[c].generation <= rxEpoch
    BY <2>1 DEF HeldBy, ConnStates
  <2> QED
    BY <2>2, <2>3
<1>11. CASE Next
  <2> HIDE DEF Tagged
  <2> QED
    BY <1>0, <1>6, <1>7, <1>8, <1>9, <1>10, <1>11, QueueMoves, Zenon
<1>12. CASE UNCHANGED vars
  BY <1>6, <1>12 DEF vars
<1> QED
  BY <1>11, <1>12

\* The counters only grow, and HeldBy allows them to.
LEMMA HeldLater ==
    ASSUME Typed, Typed', NEW c \in Conns, HeldBy(c), conn'[c] = conn[c], epoch <= epoch',
           generation <= generation', rxEpoch <= rxEpoch'
    PROVE  HeldBy(c)'
<1>1. conn[c] \in ConnStates
  BY DEF Typed
<1>2. conn[c].epoch \in Int /\ conn[c].generation \in Int /\ conn[c].batch \in Seq(Read)
  BY <1>1 DEF ConnStates
<1> QED
  BY <1>2, SMTT(30) DEF HeldBy, Typed

\* Each step of a reader keeps what is said of it, until Close.
LEMMA ReaderHolds ==
    ASSUME ChecksEpoch, SafeInv, ~Closed, NEW c \in Conns, Reader(c)
    PROVE  HeldBy(c)'
<1>0. /\ conn \in [Conns -> ConnStates] /\ conn[c] \in ConnStates /\ HeldBy(c)
      /\ epoch \in Int /\ generation \in Int /\ rxEpoch \in Int
  BY DEF SafeInv, Typed, ReadersInv
<1>1. /\ conn[c].epoch \in Int /\ conn[c].generation \in Int /\ conn[c].batch \in Seq(Read)
      /\ conn[c].reads \in Int
  BY <1>0, SMTT(30) DEF ConnStates
<1>2. UNCHANGED <<epoch, generation, rxEpoch>>
  BY ZenonT(60)
     DEF Reader, Join, NewProducer, CheckEpoch, Push, Leave, FlushBegin, FlushSend, ReaderUnchanged
<1>3. epoch <= generation /\ (rotator = "idle" => generation = epoch /\ rxEpoch = epoch)
  BY <1>0 DEF SafeInv, BarrierInv
<1>4. CASE Join(c)
  <2>1. /\ conn'[c].pc = "joined" /\ conn'[c].epoch = epoch /\ conn'[c].batch = conn[c].batch
        /\ conn[c].pc = "dialing"
    BY <1>0, <1>4, SMTT(30) DEF Join, ConnStates
  <2> QED
    BY <1>0, <1>1, <1>2, <2>1 DEF HeldBy
<1>5. CASE NewProducer(c)
  <2>1. /\ conn'[c].pc = "reading" /\ conn'[c].epoch = conn[c].epoch
        /\ conn'[c].batch = conn[c].batch /\ conn'[c].generation = generation
        /\ conn[c].pc = "joined"
    BY <1>0, <1>5, SMTT(30) DEF NewProducer, ConnStates
  <2> QED
    BY <1>0, <1>1, <1>2, <1>3, <2>1 DEF HeldBy
<1>6. CASE CheckEpoch(c)
  <2>1. /\ conn'[c].pc = IF conn[c].epoch # epoch THEN "leaving" ELSE "holding"
        /\ conn'[c].epoch = conn[c].epoch /\ conn'[c].batch = conn[c].batch
        /\ conn'[c].generation = conn[c].generation
        /\ conn[c].pc = "reading" /\ rotator = "idle"
    BY <1>0, <1>6 DEF CheckEpoch, ConnStates
  <2>2. conn[c].epoch = epoch => conn[c].generation = epoch
    BY <1>0, <1>1, <1>3, <2>1, SMTT(30) DEF HeldBy
  <2> QED
    BY <1>0, <1>1, <1>2, <1>3, <2>1, <2>2 DEF HeldBy
<1>7. ASSUME NEW s \in Sent \cup {0}, Push(c, s) PROVE HeldBy(c)'
  <2>1. /\ conn'[c].pc \in {"reading", "flushing"} /\ conn'[c].epoch = conn[c].epoch
        /\ conn'[c].batch = Append(conn[c].batch, [seq |-> s, gen |-> conn[c].epoch])
        /\ conn'[c].generation = conn[c].generation
        /\ conn[c].pc = "holding"
    BY <1>0, <1>7 DEF Push, ConnStates
  <2>2. \A j \in DOMAIN conn'[c].batch : conn'[c].batch[j].gen = conn[c].epoch
    BY <1>0, <1>1, <2>1, SMTT(30) DEF HeldBy
  <2> QED
    BY <1>0, <1>1, <1>2, <2>1, <2>2, SMTT(30) DEF HeldBy
<1>8. CASE Leave(c)
  <2>1. /\ conn'[c].pc = IF conn[c].batch = <<>> THEN "gone" ELSE "flushing"
        /\ conn'[c].epoch = conn[c].epoch /\ conn'[c].batch = conn[c].batch
        /\ conn'[c].generation = conn[c].generation
        /\ conn[c].pc \in {"reading", "joined", "leaving"}
    BY <1>0, <1>8, SMTT(30) DEF Leave, ConnStates
  <2> QED
    BY <1>0, <1>1, <1>2, <2>1 DEF HeldBy
<1>9. CASE FlushBegin(c)
  <2>1. /\ conn'[c].pc = "sending"
        /\ conn'[c].epoch = conn[c].epoch /\ conn'[c].batch = conn[c].batch
        /\ conn'[c].generation = conn[c].generation
        /\ conn[c].pc = "flushing"
    BY <1>0, <1>9, SMTT(30) DEF FlushBegin, ConnStates
  <2> QED
    BY <1>0, <1>1, <1>2, <2>1 DEF HeldBy
<1>10. CASE FlushSend(c)
  <2>1. /\ conn'[c].pc \in {"gone", "reading"}
        /\ conn'[c].epoch = conn[c].epoch /\ conn'[c].batch = <<>>
        /\ conn'[c].generation = conn[c].generation
        /\ conn[c].pc = "sending"
    BY <1>0, <1>10 DEF FlushSend, AfterFlush, ConnStates
  <2> QED
    BY <1>0, <1>1, <1>2, <2>1 DEF HeldBy
<1> QED
  BY <1>4, <1>5, <1>6, <1>7, <1>8, <1>9, <1>10, SMTT(30) DEF Reader

\* Readers keep to their generation whatever the others do.
LEMMA ReadersStep ==
    ASSUME ChecksEpoch
    PROVE  SafeInv /\ [Next]_vars => ReadersInv'
<1> SUFFICES ASSUME SafeInv, [Next]_vars, ~Closed', NEW d \in Conns PROVE HeldBy(d)'
  BY DEF ReadersInv
<1>0. Typed /\ Typed'
  BY TypedStep DEF SafeInv
<1>1. ASSUME NEW c \in Conns, Reader(c) PROVE HeldBy(d)'
  <2>1. UNCHANGED <<epoch, generation, rxEpoch, closer>>
    BY <1>1, ZenonT(60)
       DEF Reader, Join, NewProducer, CheckEpoch, Push, Leave, FlushBegin, FlushSend,
                ReaderUnchanged
  <2>2. ~Closed
    BY <2>1 DEF Closed
  <2>3. CASE d = c
    BY <1>1, <2>2, <2>3, ReaderHolds
  <2>4. CASE d # c
    <3>1. conn'[d] = conn[d] /\ HeldBy(d)
      BY <1>0, <1>1, <2>2, <2>4, ReaderTypes DEF SafeInv, ReadersInv
    <3> QED
      BY <1>0, <2>1, <3>1, HeldLater DEF Typed
  <2> QED
    BY <2>3, <2>4, SMTT(30)
<1>2. ASSUME conn' = conn, epoch' \in {epoch, epoch + 1}, ~Closed,
             generation' \in {generation, generation + 1}, rxEpoch' \in {rxEpoch, rxEpoch + 1}
      PROVE  HeldBy(d)'
  <2>1. HeldBy(d)
    BY <1>2 DEF SafeInv, ReadersInv
  <2> QED
    BY <1>0, <1>2, <2>1, HeldLater DEF Typed
<1>3. CASE Rotate \/ RotateBegin \/ RotateSend \/ RotateDone
  BY <1>2, <1>3 DEF Rotate, RotateBegin, RotateSend, RotateDone, RotatorUnchanged, Closed
<1>4. CASE ProcessBarrier \/ ProcessBatch \/ ExpireGapActor \/ WorkerDrain
  BY <1>2, <1>4 DEF ProcessBarrier, ProcessBatch, ExpireGapActor, WorkerDrain, WorkerUnchanged,
                    Closed
<1>5. CASE Close \/ CloseLocked \/ CloseDone
  BY <1>2, <1>5 DEF Close, CloseLocked, CloseDone, CloserUnchanged, Closed
<1>6. CASE UNCHANGED vars
  BY <1>2, <1>6 DEF vars, Closed
<1> QED
  BY <1>1, <1>3, <1>4, <1>5, <1>6 DEF Next, Terminated

\* The invariant holds from the start.
LEMMA AllSafeInit == Init => SafeInv
<1> SUFFICES ASSUME Init PROVE QueuedInv /\ ReadersInv
  BY SafeInit DEF SafeInv
<1>1. DOMAIN queue = {}
  BY DEF Init
<1>2. \A c \in Conns : conn[c].pc = "dialing" /\ conn[c].batch = <<>>
  BY DEF Init
<1> QED
  BY <1>1, <1>2 DEF QueuedInv, ReadersInv, HeldBy

\* Every step keeps it.
LEMMA AllSafeStep ==
    ASSUME ChecksEpoch
    PROVE  SafeInv /\ [Next]_vars => SafeInv'
BY TypedStep, CloseStep, BarrierStep, QueuedStep, ReadersStep, SMTT(30) DEF SafeInv

\* Only the worker inserts.
LEMMA OnlyBatchesInsert ==
    ASSUME [Next]_vars, ~ProcessBatch
    PROVE  UNCHANGED received
<1>1. \A c \in Conns : Reader(c) => UNCHANGED received
  BY ZenonT(60) DEF Reader, Join, NewProducer, CheckEpoch, Push, Leave, FlushBegin, FlushSend,
         ReaderUnchanged
<1>2. Rotate \/ RotateBegin \/ RotateSend \/ RotateDone => UNCHANGED received
  BY DEF Rotate, RotateBegin, RotateSend, RotateDone, RotatorUnchanged
<1>3. ProcessBarrier \/ ExpireGapActor \/ WorkerDrain => UNCHANGED received
  BY DEF ProcessBarrier, ExpireGapActor, WorkerDrain
<1>4. Close \/ CloseLocked \/ CloseDone \/ UNCHANGED vars => UNCHANGED received
  BY SMTT(30) DEF Close, CloseLocked, CloseDone, CloserUnchanged, vars
<1> QED
  BY <1>1, <1>2, <1>3, <1>4, SMTT(30) DEF Next, Terminated

\* A batch that is applied carries numbered frames of the epoch of the worker's last reset.
LEMMA AppliedIsCurrent ==
    ASSUME SafeInv, ProcessBatch, Head(queue).generation = generation
    PROVE  /\ Data(Head(queue).frames) \in Seq(Read)
           /\ \A i \in DOMAIN Data(Head(queue).frames) :
                  /\ Data(Head(queue).frames)[i].gen = rxEpoch
                  /\ Data(Head(queue).frames)[i].seq \in Sent
<1> DEFINE work == Head(queue)
           data == Data(work.frames)
<1>1. queue \in Seq(Works) /\ queue # <<>> /\ rxEpoch \in Int /\ generation \in Int
  BY DEF ProcessBatch, SafeInv, Typed
<1>2. work = queue[1] /\ 1 \in DOMAIN queue /\ work \in Works
  BY <1>1, SMTT(30)
<1>3. work.generation = generation
  OBVIOUS
<1> HIDE DEF work
<1>4. work.frames \in Seq(Read)
  BY <1>2 DEF Works
<1>5. data \in Seq(Read)
  BY <1>4, DataIsPrefix
<1> SUFFICES ASSUME NEW i \in DOMAIN data PROVE data[i].gen = rxEpoch /\ data[i].seq \in Sent
  BY <1>5 DEF work
<1>6. i \in DOMAIN work.frames /\ data[i] = work.frames[i] /\ work.frames[i].seq # 0
  BY <1>4, DataIsPrefix
<1>7. data[i].gen = generation /\ generation <= rxEpoch
  BY <1>2, <1>3, <1>6 DEF SafeInv, QueuedInv
<1>8. data[i] \in Read /\ data[i].seq # 0
  BY <1>5, <1>6
<1> QED
  BY <1>1, <1>7, <1>8 DEF SafeInv, BarrierInv, Read

(***************************************************************************)
(* No connection of a previous epoch injects data into the new one, on the *)
(* server: neither a batch that was queued before the barrier nor an old   *)
(* connection that captured the new generation gets a frame inserted       *)
(* (rx_batch.go, server.go; protocol_v3.md, section 6).                    *)
(***************************************************************************)
THEOREM ServerInsertsNothingStale ==
    ASSUME ChecksEpoch
    PROVE  Spec => NoStaleInsert
<1>1. Init => SafeInv
  BY AllSafeInit
<1>2. SafeInv /\ [Next]_vars => SafeInv'
  BY AllSafeStep
<1>3. SafeInv /\ [Next]_vars => [\A f \in received' \ received : f.gen = rxEpoch]_vars
  <2> SUFFICES ASSUME SafeInv, [Next]_vars, NEW f \in received' \ received PROVE f.gen = rxEpoch
    OBVIOUS
  <2> DEFINE data == Data(Head(queue).frames)
  <2>1. ProcessBatch
    BY OnlyBatchesInsert
  <2>2. /\ Head(queue).generation = generation
        /\ \E i \in DOMAIN data : f = data[i]
    BY <2>1, SMTT(30) DEF ProcessBatch
  <2> QED
    BY <2>1, <2>2, AppliedIsCurrent, Zenon
<1> QED
  BY <1>1, <1>2, <1>3, PTL DEF Spec, NoStaleInsert

-----------------------------------------------------------------------------
(***************************************************************************)
(* The promise.  As in the locked buffer, the last number of the sequence  *)
(* space must be unused and the numbers of an epoch must not be spread over*)
(* the whole of it.  What was handed on is past: its epoch is over, or the *)
(* number awaited has moved beyond it.                                     *)
(***************************************************************************)
LastNumberUnused == SeqSpace - 1 \notin Sent

NumbersSpread == \A a, b \in Sent, w \in Windows : a - b + w < SeqSpace

Arrived == [seq : Sent, gen : Int]

Current == {f \in received : f.gen = rxEpoch}

Past ==
    \A i \in DOMAIN delivered :
        \/ delivered[i].gen < rxEpoch
        \/ delivered[i].gen = rxEpoch /\ delivered[i].seq < rb.expected

InLine ==
    /\ received \subseteq Arrived
    /\ rb \in ReorderStates(Current) /\ rb.pending = <<>> /\ WellHeld(rb)
    /\ rb.expected # 0 => \E g \in Current : rb.expected <= g.seq + 1
    /\ delivered \in Seq(received)
    /\ Past

\* The recursion of processBatch is well founded: there is such a sequence of states.
LEMMA InsertAllStates ==
    ASSUME NEW frames, Len(frames) \in Nat
    PROVE  \E h : /\ h = [n \in 0 .. Len(frames) |->
                            IF n = 0 THEN rb ELSE InsertLocked(h[n - 1], frames[n])]
                  /\ InsertAll(frames) = h[Len(frames)]
<1> DEFINE IsRun(h, m) == h = [n \in 0 .. m |->
                                  IF n = 0 THEN rb ELSE InsertLocked(h[n - 1], frames[n])]
           Without == {m \in Nat : \A h : ~IsRun(h, m)}
<1>1. Without = {}
  <2> SUFFICES ASSUME Without # {} PROVE FALSE
    OBVIOUS
  <2>1. PICK m \in Without : \A k \in Without : m <= k
    BY LeastNatural, Zenon
  <2>2. IsRun([n \in 0 .. 0 |-> rb], 0)
    OBVIOUS
  <2>3. m # 0 /\ m \in Nat /\ \A h : ~IsRun(h, m)
    BY <2>1, <2>2, Zenon
  <2>4. m - 1 \in Nat /\ ~(m <= m - 1)
    BY <2>3
  <2>5. m - 1 \notin Without
    BY <2>1, <2>4, Zenon
  <2>6. PICK h : IsRun(h, m - 1)
    BY <2>4, <2>5, Zenon
  <2> DEFINE g == [n \in 0 .. m |-> IF n = m THEN InsertLocked(h[m - 1], frames[m]) ELSE h[n]]
  <2>7. DOMAIN h = 0 .. m - 1
    BY <2>6, Zenon
  <2>8. \A n \in 0 .. m - 1 : h[n] = IF n = 0 THEN rb ELSE InsertLocked(h[n - 1], frames[n])
    BY <2>6
  <2>9. \A n \in 0 .. m : n # m => n \in 0 .. m - 1
    BY <2>3
  <2>10. \A n \in 0 .. m : n # 0 => n - 1 \in 0 .. m - 1 /\ n - 1 \in 0 .. m /\ n - 1 # m
    BY <2>3
  <2>11. \A n \in 0 .. m : n # m => g[n] = h[n]
    OBVIOUS
  <2>12. \A n \in 0 .. m : n # 0 => g[n - 1] = h[n - 1]
    BY <2>10, <2>11, Zenon
  <2>13. m \in 0 .. m /\ g[m] = InsertLocked(h[m - 1], frames[m])
    BY <2>3
  <2>14. ASSUME NEW n \in 0 .. m
         PROVE  g[n] = IF n = 0 THEN rb ELSE InsertLocked(g[n - 1], frames[n])
    <3>1. CASE n = m
      BY <2>3, <2>12, <2>13, <3>1, Zenon
    <3>2. CASE n # m
      BY <2>8, <2>9, <2>11, <2>12, <3>2, Zenon
    <3> QED
      BY <3>1, <3>2
  <2>15. IsRun(g, m)
    <3>1. g = [n \in 0 .. m |-> g[n]]
      OBVIOUS
    <3> HIDE DEF g
    <3> QED
      BY <2>14, <3>1, Zenon
  <2> QED
    BY <2>3, <2>15, Zenon
<1>2. \E h : IsRun(h, Len(frames))
  <2> HIDE DEF IsRun
  <2> QED
    BY <1>1
<1> DEFINE r == CHOOSE h : IsRun(h, Len(frames))
<1>3. IsRun(r, Len(frames))
  BY <1>2, Zenon
<1>4. InsertAll(frames) = r[Len(frames)]
  BY Zenon DEF InsertAll
<1> HIDE DEF r
<1> QED
  BY <1>3, <1>4, Zenon

\* A batch leaves the buffer as one frame after the other does: well formed, in order.
LEMMA BatchOrders ==
    ASSUME NEW F, \A f \in F : f.seq \in 1 .. SeqSpace - 2, Spread(F),
           rb \in ReorderStates(F), WellHeld(rb), rb.expected \in Nat,
           Ordered(rb, rb.expected, F), NEW frames \in Seq(F)
    PROVE  /\ InsertAll(frames) \in ReorderStates(F) /\ WellHeld(InsertAll(frames))
           /\ Ordered(InsertAll(frames), rb.expected, F)
<1> DEFINE e == rb.expected
           L == Len(frames)
           Kept(s) == s \in ReorderStates(F) /\ WellHeld(s) /\ Ordered(s, e, F)
<1>1. L \in Nat /\ \A n \in 1 .. L : frames[n] \in F
  OBVIOUS
<1>2. PICK h : /\ h = [n \in 0 .. L |-> IF n = 0 THEN rb ELSE InsertLocked(h[n - 1], frames[n])]
               /\ InsertAll(frames) = h[L]
  BY <1>1, InsertAllStates
<1> DEFINE Lost == {n \in Nat : n <= L /\ ~Kept(h[n])}
<1>3. ASSUME NEW s, Kept(s), NEW f \in F PROVE Kept(InsertLocked(s, f))
  <2>1. \A g \in F : g.seq \in Seqs
    BY SeqSpaceAssumption DEF Seqs
  <2>2. InsertLocked(s, f) \in ReorderStates(F)
    BY <1>3, <2>1, InsertType
  <2>3. WellHeld(InsertLocked(s, f))
    BY <1>3, InsertHolds
  <2>4. Ordered(InsertLocked(s, f), e, F)
    BY <1>3, InsertOrders
  <2> QED
    BY <2>2, <2>3, <2>4
<1>4. Kept(rb)
  OBVIOUS
<1> HIDE DEF Kept
<1>5. Lost = {}
  <2> SUFFICES ASSUME Lost # {} PROVE FALSE
    OBVIOUS
  <2>1. PICK m \in Lost : \A k \in Lost : m <= k
    BY LeastNatural, Zenon
  <2>2. 0 \in 0 .. L /\ h[0] = rb
    BY <1>1, <1>2
  <2>3. m # 0 /\ m \in Nat /\ m <= L /\ ~Kept(h[m])
    BY <1>4, <2>1, <2>2, Zenon
  <2>4. m - 1 \in Nat /\ m - 1 <= L /\ ~(m <= m - 1) /\ m \in 1 .. L
    BY <1>1, <2>3
  <2>5. Kept(h[m - 1])
    BY <2>1, <2>4, Zenon
  <2>6. h[m] = InsertLocked(h[m - 1], frames[m])
    <3>1. m \in 0 .. L
      BY <2>4
    <3> HIDE DEF L
    <3> QED
      BY <1>2, <2>3, <3>1, Zenon
  <2>7. frames[m] \in F
    BY <1>1, <2>4, Zenon
  <2> QED
    BY <1>3, <2>3, <2>5, <2>6, <2>7, Zenon
<1>6. L <= L
  BY <1>1
<1>7. Kept(h[L])
  BY <1>1, <1>5, <1>6, Zenon
<1> QED
  BY <1>2, <1>7 DEF Kept

\* The frames that arrived have numbers that are sent, and these lie close together.
LEMMA ArrivedNumbers ==
    ASSUME LastNumberUnused, NumbersSpread, NEW F \in SUBSET Arrived
    PROVE  /\ Spread(F)
           /\ \A f \in F : f.seq \in 1 .. SeqSpace - 2 /\ f.seq \in Nat /\ f.gen \in Int
<1>1. \A s \in Sent : s \in 1 .. SeqSpace - 1 /\ s # SeqSpace - 1
  BY RxWorkerAssumption DEF LastNumberUnused, Seqs
<1>2. \A s \in Sent : s \in 1 .. SeqSpace - 2 /\ s \in Nat
  BY <1>1, SeqSpaceAssumption
<1>3. \A f \in F : f.seq \in Sent /\ f.gen \in Int
  BY DEF Arrived
<1>4. Spread(F)
  BY <1>3, Zenon DEF Spread, NumbersSpread
<1> QED
  BY <1>2, <1>3, <1>4, Zenon

\* The worker hands on the first frames of the first epoch, or nothing.
LEMMA InLineInit == Init => InLine
<1> SUFFICES ASSUME Init PROVE InLine
  OBVIOUS
<1>1. NewReorder \in ReorderStates(Current) /\ NewReorder.expected = 0
  BY SmallestWindow, SeqSpaceAssumption DEF NewReorder, ReorderStates
<1>2. WellHeld(NewReorder) /\ NewReorder.pending = <<>>
  BY DEF NewReorder, WellHeld, Distinct
<1>3. delivered \in Seq(received) /\ DOMAIN delivered = {}
  BY DEF Init
<1> QED
  BY <1>1, <1>2, <1>3 DEF Init, InLine, Past

\* What the worker flushes continues what it has handed on.
LEMMA FlushInLine ==
    ASSUME LastNumberUnused, NumbersSpread, InLine, rxEpoch \in Int, UNCHANGED rxEpoch,
           received \subseteq received', received' \subseteq Arrived,
           NEW after \in ReorderStates(Current'), WellHeld(after),
           Ordered(after, rb.expected, Current'), Flush(after)
    PROVE  InLine' /\ Promise!Next
<1> DEFINE e == rb.expected
           d == after.expected
           t == after.pending
           n == Len(delivered)
<1>1. /\ e \in Nat /\ d \in Nat /\ e <= d
  <2>1. e \in 0 .. SeqSpace - 1 /\ d \in 0 .. SeqSpace - 1
    BY Zenon DEF InLine, ReorderStates
  <2> QED
    BY <2>1, SeqSpaceAssumption DEF Ordered
<1>2. /\ rb' \in ReorderStates(Current') /\ rb'.pending = <<>> /\ rb'.expected = d
      /\ rb'.ring = after.ring /\ rb'.window = after.window /\ rb'.gap = after.gap
  BY TakePendingType DEF Flush
<1>3. WellHeld(rb')
  BY <1>2, SameHeld
<1>4. d # 0 => \E g \in Current' : d <= g.seq + 1
  BY DEF Ordered
<1>5. t \in Seq(Current') /\ t \in Seq(received')
  BY DEF ReorderStates, Current
<1>6. \A i \in DOMAIN t : /\ t[i] \in received' /\ t[i].gen = rxEpoch /\ t[i].seq \in Nat
                          /\ e <= t[i].seq /\ t[i].seq < d
  <2>1. \A i \in DOMAIN t : t[i] \in Current'
    BY <1>5
  <2>2. \A f \in Current' : f \in received' /\ f.gen = rxEpoch /\ f.seq \in Nat
    BY ArrivedNumbers DEF Current
  <2> QED
    BY <2>1, <2>2, Zenon DEF Ordered
<1>7. \A i, j \in DOMAIN t : i < j => t[i].seq < t[j].seq
  BY DEF Ordered
<1>8. delivered \in Seq(received) /\ delivered \in Seq(received')
  <2>1. delivered \in Seq(received)
    BY DEF InLine
  <2> QED
    BY <2>1
<1>9. \A i \in DOMAIN delivered :
         /\ delivered[i] \in received' /\ delivered[i].gen \in Int /\ delivered[i].seq \in Nat
         /\ delivered[i].gen < rxEpoch \/ (delivered[i].gen = rxEpoch /\ delivered[i].seq < e)
  <2>1. \A i \in DOMAIN delivered : delivered[i] \in received'
    BY <1>8
  <2>2. \A f \in received' : f.gen \in Int /\ f.seq \in Nat
    BY ArrivedNumbers
  <2> QED
    BY <2>1, <2>2, Zenon DEF InLine, Past
<1>10. delivered' = delivered \/ delivered' = delivered \o t
  BY DEF Flush
<1> HIDE DEF d, e, t
<1>11. CASE delivered' = delivered
  <2>1. Past'
    BY <1>1, <1>2, <1>9, <1>11 DEF Past
  <2>2. InLine'
    BY <1>2, <1>3, <1>4, <1>8, <1>11, <2>1, Zenon DEF InLine
  <2> QED
    BY <1>11, <2>2 DEF Promise!Next, Promise!Receive
<1>12. CASE delivered' = delivered \o t
  <2>1. /\ delivered \o t \in Seq(received') /\ n \in Nat /\ Len(t) \in Nat
        /\ Len(delivered \o t) = n + Len(t) /\ DOMAIN (delivered \o t) = 1 .. n + Len(t)
        /\ \A i \in 1 .. n : (delivered \o t)[i] = delivered[i]
        /\ \A i \in n + 1 .. n + Len(t) : (delivered \o t)[i] = t[i - n]
    BY <1>5, <1>8, Joined
  <2>2. DOMAIN delivered = 1 .. n /\ DOMAIN t = 1 .. Len(t)
    BY <1>5, <1>8
  <2>3. /\ delivered' \in Seq(received') /\ Len(delivered') = n + Len(t)
        /\ DOMAIN delivered' = 1 .. n + Len(t)
        /\ \A i \in 1 .. n : delivered'[i] = delivered[i]
        /\ \A i \in n + 1 .. n + Len(t) : delivered'[i] = t[i - n]
    BY <1>12, <2>1, Zenon
  <2> DEFINE k == Len(t)
  <2>4. n \in Nat /\ k \in Nat
    BY <2>1
  <2>a. Len(delivered) = n /\ Len(t) = k
    OBVIOUS
  <2> HIDE DEF n, k
  <2>5. \A i \in 1 .. n + k : i \in 1 .. n \/ (i \in n + 1 .. n + k /\ i - n \in 1 .. k)
    BY <2>4
  <2>6. ASSUME NEW i \in 1 .. n + k
        PROVE  \/ i \in 1 .. n /\ i \in DOMAIN delivered /\ delivered'[i] = delivered[i]
               \/ i \in n + 1 .. n + k /\ i - n \in DOMAIN t /\ delivered'[i] = t[i - n]
    BY <2>2, <2>3, <2>5, <2>a, Zenon
  <2>7. Past'
    <3> SUFFICES ASSUME NEW i \in 1 .. n + k
                 PROVE  \/ delivered'[i].gen < rxEpoch
                        \/ delivered'[i].gen = rxEpoch /\ delivered'[i].seq < d
      BY <1>2, <2>3, <2>a, Zenon DEF Past
    <3>1. CASE i \in DOMAIN delivered /\ delivered'[i] = delivered[i]
      BY <1>1, <1>9, <3>1
    <3>2. CASE i - n \in DOMAIN t /\ delivered'[i] = t[i - n]
      BY <1>6, <3>2, Zenon
    <3> QED
      BY <2>6, <3>1, <3>2, Zenon
  <2>8. InLine'
    BY <1>2, <1>3, <1>4, <2>3, <2>7, Zenon DEF InLine
  <2>9. CASE k = 0
    <3>1. delivered' = delivered
      BY <1>8, <1>5, <1>12, <2>a, <2>9
    <3> QED
      BY <2>8, <3>1 DEF Promise!Next, Promise!Receive
  <2>10. CASE k # 0
    <3>1. Len(delivered') > Len(delivered)
      BY <2>3, <2>4, <2>a, <2>10
    <3>2. SubSeq(delivered', 1, Len(delivered)) = delivered
      BY <1>8, <2>3, <2>4, <2>a
    <3>3. \A i \in n + 1 .. n + k : delivered'[i] \in received'
      BY <2>3, <2>4, <2>a
    <3>4. ASSUME NEW i \in n .. n + k - 1, i > 0
          PROVE  Promise!Precedes(delivered'[i], delivered'[i + 1])
      <4>1. i + 1 \in n + 1 .. n + k /\ (i + 1) - n \in 1 .. k
        BY <2>4
      <4>2. delivered'[i + 1] = t[(i + 1) - n] /\ (i + 1) - n \in DOMAIN t
        BY <2>2, <2>3, <2>a, <4>1, Zenon
      <4>3. CASE i = n
        <5>1. i \in DOMAIN delivered /\ delivered'[i] = delivered[i]
          BY <2>2, <2>3, <2>4, <2>a, <3>4, <4>3
        <5> QED
          BY <1>1, <1>6, <1>9, <4>2, <5>1 DEF Promise!Precedes
      <4>4. CASE i # n
        <5>1. i \in n + 1 .. n + k /\ i - n \in 1 .. k /\ i - n < (i + 1) - n
          BY <2>4, <3>4, <4>4
        <5>2. delivered'[i] = t[i - n] /\ i - n \in DOMAIN t
          BY <2>2, <2>3, <2>a, <5>1, Zenon
        <5>3. t[i - n].seq < t[(i + 1) - n].seq
          BY <1>7, <4>2, <5>1, <5>2, Zenon
        <5> QED
          BY <1>6, <4>2, <5>2, <5>3, Zenon DEF Promise!Precedes
      <4> QED
        BY <4>3, <4>4
    <3>5. Promise!HandOn
      BY <2>3, <2>a, <3>1, <3>2, <3>3, <3>4 DEF Promise!HandOn
    <3> QED
      BY <2>8, <3>5 DEF Promise!Next
  <2> QED
    BY <2>9, <2>10
<1> QED
  BY <1>10, <1>11, <1>12

\* Every step keeps the line and is a step of the promise.
LEMMA InLineStep ==
    ASSUME LastNumberUnused, NumbersSpread, SafeInv, InLine, [Next]_vars
    PROVE  InLine' /\ [Promise!Next]_<<received, delivered>>
<1>0. rxEpoch \in Int /\ rb.expected \in Nat
  <2>1. rxEpoch \in Int /\ rb.expected \in 0 .. SeqSpace - 1
    BY Zenon DEF SafeInv, Typed, InLine, ReorderStates
  <2> QED
    BY <2>1, SeqSpaceAssumption
<1>1. ASSUME UNCHANGED <<rb, rxEpoch, received, delivered>>
      PROVE  InLine' /\ [Promise!Next]_<<received, delivered>>
  BY <1>1, Zenon DEF InLine, Past, Current
<1>2. ASSUME NEW c \in Conns, Reader(c) PROVE UNCHANGED <<rb, rxEpoch, received, delivered>>
  BY <1>2, ZenonT(60)
     DEF Reader, Join, NewProducer, CheckEpoch, Push, Leave, FlushBegin, FlushSend,
         ReaderUnchanged
<1>3. ASSUME Rotate \/ RotateBegin \/ RotateSend \/ RotateDone
      PROVE  UNCHANGED <<rb, rxEpoch, received, delivered>>
  BY <1>3, Zenon DEF Rotate, RotateBegin, RotateSend, RotateDone, RotatorUnchanged
<1>4. ASSUME WorkerDrain \/ Close \/ CloseLocked \/ CloseDone \/ UNCHANGED vars
      PROVE  UNCHANGED <<rb, rxEpoch, received, delivered>>
  BY <1>4, Zenon DEF WorkerDrain, Close, CloseLocked, CloseDone, CloserUnchanged, vars
<1>5. CASE ProcessBarrier
  <2>1. rb' = ResetReorder(rb) /\ rxEpoch' = rxEpoch + 1 /\ UNCHANGED <<received, delivered>>
    BY <1>5, Zenon DEF ProcessBarrier
  <2>2. /\ rb' \in ReorderStates(Current) /\ rb'.ring = {} /\ rb'.pending = <<>>
        /\ rb'.gap = "none"
    BY <2>1, ResetType DEF InLine
  <2>3. rb'.expected = 0
    BY <2>1 DEF InLine, ReorderStates, ResetReorder
  <2>4. rb' \in ReorderStates(Current')
    <3>1. rb'.ring \in SUBSET Current' /\ rb'.pending \in Seq(Current')
      BY <2>2
    <3> QED
      BY <2>2, <3>1, Zenon DEF ReorderStates
  <2>5. WellHeld(rb')
    BY <2>2 DEF WellHeld, Distinct
  <2>6. Past'
    <3> SUFFICES ASSUME NEW i \in DOMAIN delivered PROVE delivered[i].gen < rxEpoch + 1
      BY <2>1, Zenon DEF Past
    <3>1. delivered[i] \in Arrived
      BY DEF InLine
    <3>2. delivered[i].gen \in Int
      BY <3>1 DEF Arrived
    <3>3. delivered[i].gen < rxEpoch \/ delivered[i].gen = rxEpoch
      BY DEF InLine, Past
    <3> QED
      BY <1>0, <3>2, <3>3
  <2> QED
    BY <2>1, <2>2, <2>3, <2>4, <2>5, <2>6, Zenon DEF InLine
<1>6. ASSUME UNCHANGED rxEpoch, received \subseteq received', received' \subseteq Arrived
      PROVE  /\ rb \in ReorderStates(Current') /\ WellHeld(rb) /\ Spread(Current')
             /\ Ordered(rb, rb.expected, Current')
             /\ \A f \in Current' : f.seq \in 1 .. SeqSpace - 2
  <2>1. Current \subseteq Current' /\ Current' \in SUBSET Arrived
    BY <1>6 DEF Current
  <2>2. rb \in ReorderStates(Current')
    BY <2>1, MoreFrames DEF InLine
  <2>3. DOMAIN rb.pending = {} /\ WellHeld(rb)
    BY DEF InLine
  <2>4. Ordered(rb, rb.expected, Current')
    BY <1>0, <2>1, <2>3 DEF Ordered, InLine
  <2> QED
    BY <2>1, <2>2, <2>3, <2>4, ArrivedNumbers, Zenon
<1>7. CASE ProcessBatch
  <2> DEFINE work == Head(queue)
             data == Data(work.frames)
  <2>1. CASE work.generation # generation
    <3>1. UNCHANGED <<rb, rxEpoch, received, delivered>>
      BY <1>7, <2>1, Zenon DEF ProcessBatch
    <3> QED
      BY <1>1, <3>1
  <2>2. CASE work.generation = generation
    <3>1. /\ Flush(InsertAll(data)) /\ received' = received \cup {data[i] : i \in DOMAIN data}
          /\ UNCHANGED rxEpoch
      BY <1>7, <2>2, Zenon DEF ProcessBatch
    <3>2. /\ data \in Seq(Read)
          /\ \A i \in DOMAIN data : data[i].gen = rxEpoch /\ data[i].seq \in Sent
      BY <1>7, <2>2, AppliedIsCurrent
    <3> HIDE DEF data
    <3>3. \A i \in DOMAIN data : data[i] \in Arrived /\ data[i] \in Current'
      <4>1. \A i \in DOMAIN data : data[i] \in Read
        BY <3>2
      <4>2. \A f \in Read : f.seq \in Sent => f \in Arrived
        BY DEF Read, Arrived
      <4> QED
        BY <3>1, <3>2, <4>1, <4>2 DEF Current
    <3>4. received \subseteq received' /\ received' \subseteq Arrived
      BY <3>1, <3>3 DEF InLine
    <3>5. data \in Seq(Current')
      BY <3>2, <3>3
    <3>6. /\ InsertAll(data) \in ReorderStates(Current') /\ WellHeld(InsertAll(data))
          /\ Ordered(InsertAll(data), rb.expected, Current')
      BY <1>0, <1>6, <3>1, <3>4, <3>5, BatchOrders
    <3> QED
      BY <1>0, <3>1, <3>4, <3>6, FlushInLine
  <2> QED
    BY <2>1, <2>2
<1>8. CASE ExpireGapActor
  <2> DEFINE due == [rb EXCEPT !.gap = "due"]
             after == IF Expirable(due) THEN ExpireGap(due) ELSE due
  <2>1. Flush(after) /\ rb.gap # "none" /\ UNCHANGED <<rxEpoch, received>>
    BY <1>8, Zenon DEF ExpireGapActor
  <2>2. received \subseteq received' /\ received' \subseteq Arrived
    BY <2>1 DEF InLine
  <2>3. /\ due \in ReorderStates(Current') /\ due.expected = rb.expected
        /\ due.pending = rb.pending /\ due.ring = rb.ring /\ due.window = rb.window
        /\ due.gap = "due"
    BY <1>6, <2>1, <2>2, Zenon DEF ReorderStates
  <2> HIDE DEF due
  <2>4. WellHeld(due) /\ Ordered(due, rb.expected, Current')
    BY <1>6, <2>1, <2>2, <2>3, SameHeld, SameOrder
  <2>5. /\ after \in ReorderStates(Current') /\ WellHeld(after)
        /\ Ordered(after, rb.expected, Current')
    <3>1. CASE Expirable(due)
      <4>1. due.ring # {}
        BY <3>1 DEF Expirable
      <4>2. /\ Spread(Current') /\ \A f \in Current' : f.seq \in 1 .. SeqSpace - 2
        BY <1>6, <2>1, <2>2
      <4>3. ExpireGap(due) \in ReorderStates(Current')
        BY <2>3, ExpireType
      <4>4. WellHeld(ExpireGap(due))
        BY <2>3, <2>4, <4>1, <4>2, ExpireHolds
      <4>5. Ordered(ExpireGap(due), rb.expected, Current')
        BY <1>0, <2>3, <2>4, <4>1, <4>2, ExpireOrders
      <4> QED
        BY <3>1, <4>3, <4>4, <4>5
    <3>2. CASE ~Expirable(due)
      BY <2>3, <2>4, <3>2
    <3> QED
      BY <3>1, <3>2
  <2> HIDE DEF after
  <2> QED
    BY <1>0, <2>1, <2>2, <2>5, FlushInLine
<1> QED
  BY <1>1, <1>2, <1>3, <1>4, <1>5, <1>7, <1>8, Zenon DEF Next, Terminated

(***************************************************************************)
(* The actor keeps the promise of the locked buffer, on the server: what it*)
(* hands on is a behaviour of the sequential InOrderDelivery, whatever the *)
(* connections read, in whichever order their batches reach the queue, and *)
(* wherever a rotation, a gap timeout or Close comes in between            *)
(* (rx_actor.go, rx_batch.go).                                             *)
(***************************************************************************)
THEOREM ActorKeepsPromise ==
    ASSUME ChecksEpoch, LastNumberUnused, NumbersSpread
    PROVE  Spec => ImplementsInOrderDelivery
<1>1. Init => SafeInv /\ InLine
  BY AllSafeInit, InLineInit
<1>2. SafeInv /\ InLine /\ [Next]_vars => (SafeInv /\ InLine)'
  BY AllSafeStep, InLineStep
<1>3. Init => Promise!Init
  BY DEF Init, Promise!Init
<1>4. SafeInv /\ InLine /\ [Next]_vars => [Promise!Next]_<<received, delivered>>
  BY InLineStep
<1> QED
  BY <1>1, <1>2, <1>3, <1>4, PTL DEF Spec, ImplementsInOrderDelivery, Promise!Spec
=============================================================================
