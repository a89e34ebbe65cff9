------------------------------ MODULE RxWorker ------------------------------
(***************************************************************************)
(* The multi-path receive actor: rxSessionWorker (rx_batch.go), the reorder*)
(* and gap code it alone runs (rx_actor.go), and what the connections of a *)
(* logical session do to it: each one's reader collects frames in a batch  *)
(* tagged with the generation its producer captured; an epoch rotation     *)
(* bumps the generation and sends a barrier through the same queue.        *)
(*                                                                         *)
(* The two peers run the same worker under different readers.  The server's*)
(* reader compares its connection's epoch with the session's under         *)
(* sessionMu before every frame (server.go); the client's does not         *)
(* (client.go).  ChecksEpoch tells them apart.                             *)
(*                                                                         *)
(* A frame is [seq, gen]; seq 0 stands for a control the decoder rejects   *)
(* (controls it accepts are the subject of FecLink).  outChan and outWorker*)
(* are those of ReorderBuffer: here a flushed batch is handed on or, the   *)
(* queue being full, dropped.                                              *)
(***************************************************************************)
EXTENDS ReorderCore

CONSTANTS
    Conns,         \* physical connections, each used for one attempt
    Sent,          \* the numbers the peer may send in one epoch
    QueueDepth,    \* rxSessionQueueDepth
    BatchCap,      \* rxSessionBatchCap
    MaxEpoch,      \* bound: epochs of the session
    MaxReads,      \* bound: frames read by one connection
    ChecksEpoch    \* TRUE: the server's reader, FALSE: the client's

ASSUME RxWorkerAssumption ==
    /\ Sent \subseteq Seqs
    /\ {QueueDepth, BatchCap, MaxEpoch, MaxReads} \subseteq Nat \ {0}
    /\ ChecksEpoch \in BOOLEAN

VARIABLES
    epoch,         \* session.Epoch, c.sessionEpoch
    rotator,       \* where the goroutine that rotates the epoch is
    generation,    \* the worker's generation counter
    queue,         \* the worker's queue
    closer,        \* where Close is: "idle", "locking", "waiting" or "done"
    worker,        \* "run", "closed" (draining) or "exit"
    conn,          \* the readers
    rb,            \* reorder state, touched by the worker alone
    rxEpoch,       \* history: the epoch whose reset the worker last performed
    received,      \* history: the frames inserted
    delivered      \* history: the frames handed on, in order

vars == <<epoch, rotator, generation, queue, closer, worker, conn, rb, rxEpoch,
          received, delivered>>

Closed == closer \in {"waiting", "done"}

Frames == [seq : Seqs, gen : 1 .. MaxEpoch]

Barrier == [barrier |-> TRUE, generation |-> 0, frames |-> <<>>]

Init ==
    /\ epoch = 1
    /\ rotator = "idle"
    /\ generation = 1
    /\ queue = <<>>
    /\ closer = "idle"
    /\ worker = "run"
    /\ conn = [c \in Conns |-> [pc |-> "dialing", epoch |-> 0, generation |-> 0,
                                batch |-> <<>>, reads |-> 0, leaving |-> FALSE]]
    /\ rb = NewReorder
    /\ rxEpoch = 1
    /\ received = {}
    /\ delivered = <<>>

ReaderUnchanged ==
    UNCHANGED <<epoch, rotator, generation, closer, worker, rb, rxEpoch, received, delivered>>

(***************************************************************************)
(* A connection joins the session at its current epoch, and only later, on *)
(* its own goroutine, creates its producer, which captures the generation. *)
(***************************************************************************)
Join(c) ==
    /\ conn[c].pc = "dialing"
    /\ rotator = "idle"
    /\ conn' = [conn EXCEPT ![c].pc = "joined", ![c].epoch = epoch]
    /\ UNCHANGED queue
    /\ ReaderUnchanged

NewProducer(c) ==
    /\ conn[c].pc = "joined"
    /\ conn' = [conn EXCEPT ![c].pc = "reading", ![c].generation = generation]
    /\ UNCHANGED queue
    /\ ReaderUnchanged

(***************************************************************************)
(* The reader: ReadFrame, the epoch check under sessionMu, then Push.  The *)
(* check waits for a rotation that holds sessionMu; a connection of another*)
(* epoch drops its frame and leaves.                                       *)
(***************************************************************************)
CheckEpoch(c) ==
    /\ conn[c].pc = "reading"
    /\ conn[c].reads < MaxReads
    /\ ChecksEpoch => rotator = "idle"
    /\ conn' = [conn EXCEPT ![c].reads = @ + 1,
                            ![c].pc = IF ChecksEpoch /\ conn[c].epoch # epoch
                                      THEN "leaving" ELSE "holding"]
    /\ UNCHANGED queue
    /\ ReaderUnchanged

\* Push, and Flush when the batch is full or the scanner has nothing more buffered.
Push(c, s) ==
    /\ conn[c].pc = "holding"
    /\ \E more \in BOOLEAN :
          /\ more => Len(conn[c].batch) + 1 < BatchCap
          /\ conn' = [conn EXCEPT ![c].batch = Append(@, [seq |-> s, gen |-> conn[c].epoch]),
                                  ![c].pc = IF more THEN "reading" ELSE "flushing"]
    /\ UNCHANGED queue
    /\ ReaderUnchanged

\* The connection breaks, or the loop returns: the deferred Flush runs.
Leave(c) ==
    /\ \/ conn[c].pc \in {"reading", "joined"}
       \/ conn[c].pc = "leaving"
    /\ conn' = [conn EXCEPT ![c].leaving = TRUE,
                            ![c].pc = IF conn[c].batch = <<>> THEN "gone" ELSE "flushing"]
    /\ UNCHANGED queue
    /\ ReaderUnchanged

AfterFlush(c) == IF conn[c].leaving THEN "gone" ELSE "reading"

\* enqueue: RLock waits for a Close that asked for the write lock.
FlushBegin(c) ==
    /\ conn[c].pc = "flushing"
    /\ closer # "locking"
    /\ conn' = IF Closed
               THEN [conn EXCEPT ![c].batch = <<>>, ![c].pc = AfterFlush(c)]
               ELSE [conn EXCEPT ![c].pc = "sending"]
    /\ UNCHANGED queue
    /\ ReaderUnchanged

FlushSend(c) ==
    /\ conn[c].pc = "sending"
    /\ Len(queue) < QueueDepth
    /\ queue' = Append(queue, [barrier |-> FALSE, generation |-> conn[c].generation,
                               frames |-> conn[c].batch])
    /\ conn' = [conn EXCEPT ![c].batch = <<>>, ![c].pc = AfterFlush(c)]
    /\ ReaderUnchanged

(***************************************************************************)
(* advanceEpoch, under sessionMu: bump the generation, put a barrier in the*)
(* queue, wait for the worker to reach it (or for Close).                  *)
(***************************************************************************)
RotatorUnchanged == UNCHANGED <<closer, worker, conn, rb, rxEpoch, received, delivered>>

Rotate ==
    /\ rotator = "idle"
    /\ epoch < MaxEpoch
    /\ IF Closed
       THEN /\ epoch' = epoch + 1
            /\ UNCHANGED <<generation, rotator>>
       ELSE /\ generation' = generation + 1
            /\ rotator' = "advancing"
            /\ UNCHANGED epoch
    /\ UNCHANGED queue
    /\ RotatorUnchanged

RotateBegin ==
    /\ rotator = "advancing"
    /\ closer # "locking"
    /\ IF Closed
       THEN rotator' = "idle" /\ epoch' = epoch + 1
       ELSE rotator' = "sending" /\ UNCHANGED epoch
    /\ UNCHANGED <<generation, queue>>
    /\ RotatorUnchanged

\* Mutant: the rotation does not wait for the worker to reach the barrier.
RotateSendOnly ==
    /\ rotator = "sending"
    /\ Len(queue) < QueueDepth
    /\ queue' = Append(queue, Barrier)
    /\ rotator' = "released"
    /\ UNCHANGED <<epoch, generation>>
    /\ RotatorUnchanged

RotateSend ==
    /\ rotator = "sending"
    /\ Len(queue) < QueueDepth
    /\ queue' = Append(queue, Barrier)
    /\ rotator' = "waiting"
    /\ UNCHANGED <<epoch, generation>>
    /\ RotatorUnchanged

RotateDone ==
    /\ \/ rotator = "released"
       \/ rotator = "waiting" /\ Closed
    /\ rotator' = "idle"
    /\ epoch' = epoch + 1
    /\ UNCHANGED <<generation, queue>>
    /\ RotatorUnchanged

(***************************************************************************)
(* The worker.                                                             *)
(***************************************************************************)
WorkerUnchanged == UNCHANGED <<epoch, generation, closer>>

\* FlushActor: outChan takes the batch, or is full and the batch is dropped.
Flush(after) ==
    /\ rb' = TakePending(after)
    /\ delivered' \in {delivered \o after.pending, delivered}

\* InsertActorBuffered frame by frame, up to a control that fails the batch.  failBatch
\* also closes the connection, whose reader may Leave at any time as it is.
Data(frames) ==
    SubSeq(frames, 1, CHOOSE n \in 0 .. Len(frames) :
                          /\ \A i \in 1 .. n : frames[i].seq # 0
                          /\ n = Len(frames) \/ frames[n + 1].seq = 0)

InsertAll(frames) ==
    LET after[n \in 0 .. Len(frames)] ==
            IF n = 0 THEN rb ELSE InsertLocked(after[n - 1], frames[n])
    IN  after[Len(frames)]

ProcessBarrier ==
    /\ worker = "run" /\ queue # <<>> /\ Head(queue).barrier
    /\ queue' = Tail(queue)
    /\ rb' = ResetReorder(rb)
    /\ rxEpoch' = rxEpoch + 1
    /\ rotator' = IF rotator = "waiting" THEN "released" ELSE rotator
    /\ UNCHANGED <<worker, conn, received, delivered>>
    /\ WorkerUnchanged

\* Mutant: the worker applies batches of every generation.
ProcessAnyGeneration ==
    LET data == Data(Head(queue).frames)
    IN  /\ worker = "run" /\ queue # <<>> /\ ~Head(queue).barrier
        /\ queue' = Tail(queue)
        /\ Flush(InsertAll(data))
        /\ received' = received \cup {data[i] : i \in DOMAIN data}
        /\ UNCHANGED <<conn, rotator, worker, rxEpoch>>
        /\ WorkerUnchanged

ProcessBatch ==
    LET work == Head(queue)
        data == Data(work.frames)
    IN  /\ worker = "run" /\ queue # <<>> /\ ~Head(queue).barrier
        /\ queue' = Tail(queue)
        /\ IF work.generation # generation
           THEN UNCHANGED <<rb, received, delivered>>
           ELSE /\ Flush(InsertAll(data))
                /\ received' = received \cup {data[i] : i \in DOMAIN data}
        /\ UNCHANGED <<conn, rotator, worker, rxEpoch>>
        /\ WorkerUnchanged

\* The gap timer fires: ExpireGapActor.
ExpireGapActor ==
    /\ worker = "run"
    /\ rb.gap # "none"
    /\ LET due == [rb EXCEPT !.gap = "due"]
       IN  Flush(IF Expirable(due) THEN ExpireGap(due) ELSE due)
    /\ UNCHANGED <<queue, rotator, worker, conn, rxEpoch, received>>
    /\ WorkerUnchanged

\* Mutant: the worker stops as soon as Close is called, before the senders are through.
WorkerDrainEarly ==
    /\ worker \in {"run", "closed"}
    /\ closer # "idle"
    /\ IF queue = <<>>
       THEN worker' = "exit" /\ UNCHANGED <<queue, rotator>>
       ELSE /\ worker' = "closed"
            /\ queue' = Tail(queue)
            /\ rotator' = IF Head(queue).barrier /\ rotator = "waiting"
                          THEN "released" ELSE rotator
    /\ UNCHANGED <<conn, rb, rxEpoch, received, delivered>>
    /\ WorkerUnchanged

\* Closed: free what is queued, release its barriers, return.
WorkerDrain ==
    /\ worker \in {"run", "closed"}
    /\ Closed
    /\ IF queue = <<>>
       THEN worker' = "exit" /\ UNCHANGED <<queue, rotator>>
       ELSE /\ worker' = "closed"
            /\ queue' = Tail(queue)
            /\ rotator' = IF Head(queue).barrier /\ rotator = "waiting"
                          THEN "released" ELSE rotator
    /\ UNCHANGED <<conn, rb, rxEpoch, received, delivered>>
    /\ WorkerUnchanged

(***************************************************************************)
(* Close: the write lock waits for the senders inside enqueue.             *)
(***************************************************************************)
CloserUnchanged ==
    UNCHANGED <<epoch, rotator, generation, queue, worker, conn, rb, rxEpoch, received,
                delivered>>

Close == closer = "idle" /\ closer' = "locking" /\ CloserUnchanged

\* Mutant: Close does not wait for the senders inside enqueue.
CloseAtOnce ==
    /\ closer = "locking"
    /\ closer' = "waiting"
    /\ CloserUnchanged

CloseLocked ==
    /\ closer = "locking"
    /\ rotator # "sending" /\ \A c \in Conns : conn[c].pc # "sending"
    /\ closer' = "waiting"
    /\ CloserUnchanged

CloseDone == closer = "waiting" /\ worker = "exit" /\ closer' = "done" /\ CloserUnchanged

Terminated ==
    /\ closer = "done" /\ rotator = "idle" /\ epoch = MaxEpoch
    /\ \A c \in Conns : conn[c].pc = "gone"
    /\ UNCHANGED vars

Reader(c) ==
    \/ Join(c) \/ NewProducer(c) \/ CheckEpoch(c) \/ Leave(c)
    \/ \E s \in Sent \cup {0} : Push(c, s)
    \/ FlushBegin(c) \/ FlushSend(c)

Next ==
    \/ \E c \in Conns : Reader(c)
    \/ Rotate \/ RotateBegin \/ RotateSend \/ RotateDone
    \/ ProcessBarrier \/ ProcessBatch \/ ExpireGapActor \/ WorkerDrain
    \/ Close \/ CloseLocked \/ CloseDone
    \/ Terminated

Spec == Init /\ [][Next]_vars

(***************************************************************************)
(* The worker and every goroutine inside enqueue, advanceEpoch or Close is *)
(* scheduled; nothing makes a connection read, rotate or close.  Only the  *)
(* worker takes from the queue (ProcessBarrier, ProcessBatch, WorkerDrain) *)
(* and one of these can whenever WorkerTakes says so: its fairness is the  *)
(* fairness of the three, in a form TLC evaluates cheaply.  Each subscript *)
(* is the variable that every step of its goroutine changes.               *)
(***************************************************************************)
WorkerTakes == worker # "exit" /\ queue # <<>> /\ queue' = Tail(queue)

Fairness ==
    /\ \A c \in Conns : WF_conn(FlushBegin(c) \/ FlushSend(c))
    /\ WF_rotator(RotateBegin \/ RotateSend \/ RotateDone)
    /\ WF_queue(WorkerTakes)
    /\ WF_worker(WorkerDrain)
    /\ WF_closer(CloseLocked \/ CloseDone)

FairSpec == Spec /\ Fairness

-----------------------------------------------------------------------------
\* Every variable stays in its range; the queue and the batches never exceed their capacity.
TypeOK ==
    /\ epoch \in 1 .. MaxEpoch
    /\ rotator \in {"idle", "advancing", "sending", "waiting", "released"}
    /\ generation \in 1 .. MaxEpoch
    /\ Len(queue) <= QueueDepth
    /\ \A i \in DOMAIN queue :
          /\ queue[i].barrier \in BOOLEAN
          /\ queue[i].generation \in 0 .. MaxEpoch
          /\ queue[i].frames \in Seq([seq : Seqs \cup {0}, gen : 1 .. MaxEpoch])
    /\ closer \in {"idle", "locking", "waiting", "done"}
    /\ worker \in {"run", "closed", "exit"}
    /\ \A c \in Conns :
          /\ conn[c].pc \in {"dialing", "joined", "reading", "holding", "leaving", "flushing",
                             "sending", "gone"}
          /\ {conn[c].epoch, conn[c].generation} \subseteq 0 .. MaxEpoch
          /\ conn[c].batch \in Seq([seq : Seqs \cup {0}, gen : 1 .. MaxEpoch])
          /\ Len(conn[c].batch) <= BatchCap
    /\ rb.ring \subseteq Frames /\ rb.window \in Windows /\ rb.pending = <<>>
    /\ rxEpoch \in 1 .. MaxEpoch

\* No connection of a previous epoch injects data into the new one: whatever its reader
\* had read, checked or batched when the epoch rotated, the worker inserts only frames of
\* the epoch it was last reset for (protocol_v3.md, section 6).
NoStaleInsert == [][\A f \in received' \ received : f.gen = rxEpoch]_vars

\* advanceEpoch is a barrier: once a rotation has returned, the worker has reset its
\* state for the new epoch, and no work queued before it is still to be applied.
RotationIsComplete ==
    rotator = "idle" /\ ~Closed =>
        /\ rxEpoch = epoch
        /\ \A i \in DOMAIN queue : ~queue[i].barrier

\* Close strands nothing: when the worker has returned its queue is empty and no sender
\* is past the closing check, so no batch leaks and no barrier is waited for in vain.
NothingStranded ==
    worker = "exit" =>
        queue = <<>> /\ rotator # "sending" /\ \A c \in Conns : conn[c].pc # "sending"

\* A rotation, which holds the session's locks, always returns, and so does Close: a full
\* queue, readers blocked in enqueue and the other of the two cannot keep it waiting.
RotationAndCloseReturn ==
    /\ []<>(rotator = "idle")
    /\ []<>(closer \in {"idle", "done"})

Promise == INSTANCE InOrderDelivery

\* The actor keeps the same promise as the locked buffer: what it hands on is one
\* increasing sequence of received frames, epoch after epoch.
ImplementsInOrderDelivery == Promise!Spec
=============================================================================
