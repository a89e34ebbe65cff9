---------------------------- MODULE PortRotation ----------------------------
(***************************************************************************)
(* An epoch rotation on the server while traffic flows: the handshake that *)
(* rotates (rotateSessionEpochLocked, server.go), the session's AsyncPort  *)
(* (client.go) whose run goroutine numbers and dispatches the downstream   *)
(* frames, and the reader and writer goroutines of every connection.       *)
(*                                                                         *)
(* The rotating handshake holds s.mu and sessionMu from closing the old    *)
(* connections until the run goroutine has taken its reset; both locks are *)
(* modelled by rotator # Nobody.  A batch is represented by the epoch      *)
(* whose sequence its frames were numbered in, and a connection by the     *)
(* epoch whose key its goroutines captured.  Sealing and the contents of   *)
(* the receive path are not modelled here.                                 *)
(***************************************************************************)
EXTENDS Integers, Sequences

CONSTANTS
    Conns,        \* slots for physical connections
    Nobody,       \* no rotation is in progress
    QueueCap,     \* capacity of connTxChan
    InputCap,     \* capacity of AsyncPort.ch
    ReadAhead,    \* upstream frames a scanner may hold in its buffer
    MaxEpoch      \* bound: epochs of the session

ASSUME PortRotationAssumption ==
    /\ Nobody \notin Conns
    /\ {QueueCap, InputCap, ReadAhead, MaxEpoch} \subseteq Nat
    /\ QueueCap > 0

VARIABLES
    epoch,        \* session.Epoch
    rotator,      \* the connection whose handshake is rotating, or Nobody
    run,          \* where AsyncPort.run is
    numbering,    \* the epoch its txSeq counts in
    input,        \* frames in AsyncPort.ch
    conn,         \* the handler of each connection, its socket and its buffer
    backend       \* the registered backend of each connection: its queue and writer

vars == <<epoch, rotator, run, numbering, input, conn, backend>>

NoConn == [pc |-> "none", epoch |-> 0, open |-> FALSE, buffered |-> 0]

NoBackend == [registered |-> FALSE, writing |-> FALSE, queue |-> <<>>]

Init ==
    /\ epoch = 1 /\ numbering = 1
    /\ rotator = Nobody
    /\ run = "select"
    /\ input = 0
    /\ conn = [c \in Conns |-> NoConn]
    /\ backend = [c \in Conns |-> NoBackend]

-----------------------------------------------------------------------------
\* A connection of the current instance joins: it is in session.conns from here on.
Join(c) ==
    /\ rotator = Nobody /\ conn[c].pc = "none"
    /\ conn' = [conn EXCEPT ![c] = [pc |-> "joined", epoch |-> epoch, open |-> TRUE, buffered |-> 0]]
    /\ UNCHANGED <<epoch, rotator, run, numbering, input, backend>>

\* Mutant: the old connections are left to notice the new epoch themselves.
RotateKeepsSockets(c) ==
    /\ rotator = Nobody /\ conn[c].pc = "none" /\ epoch < MaxEpoch
    /\ rotator' = c
    /\ epoch' = epoch + 1
    /\ UNCHANGED <<run, numbering, input, conn, backend>>

\* A new instance rotates: the sockets are closed, then the port has to take the reset.
RotateBegin(c) ==
    /\ rotator = Nobody /\ conn[c].pc = "none" /\ epoch < MaxEpoch
    /\ rotator' = c
    /\ epoch' = epoch + 1
    /\ conn' = [d \in Conns |-> [conn[d] EXCEPT !.open = FALSE]]
    /\ UNCHANGED <<run, numbering, input, backend>>

\* Port.ResetEpoch returned: the locks are released and the response is sent.
RotateDone ==
    /\ rotator # Nobody /\ numbering = epoch
    /\ rotator' = Nobody
    /\ conn' = [conn EXCEPT ![rotator] = [pc |-> "joined", epoch |-> epoch, open |-> TRUE,
                                          buffered |-> 0]]
    /\ UNCHANGED <<epoch, run, numbering, input, backend>>

-----------------------------------------------------------------------------
(***************************************************************************)
(* The handler of one connection: register, read, leave.                   *)
(***************************************************************************)
Register(c) ==
    /\ conn[c].pc = "joined"
    /\ conn' = [conn EXCEPT ![c].pc = "read"]
    /\ backend' = [backend EXCEPT ![c] = [registered |-> TRUE, writing |-> TRUE, queue |-> <<>>]]
    /\ UNCHANGED <<epoch, rotator, run, numbering, input>>

Arrive(c) ==
    /\ conn[c].open /\ conn[c].buffered < ReadAhead
    /\ conn' = [conn EXCEPT ![c].buffered = @ + 1]
    /\ UNCHANGED <<epoch, rotator, run, numbering, input, backend>>

\* scanner.ReadFrame: a buffered frame first, the error of a dead socket only after it.
ReadFrame(c) ==
    /\ conn[c].pc = "read"
    /\ \/ /\ conn[c].buffered > 0
          /\ conn' = [conn EXCEPT ![c].pc = "check", ![c].buffered = @ - 1]
       \/ /\ conn[c].buffered = 0 /\ ~conn[c].open
          /\ conn' = [conn EXCEPT ![c].pc = "leave"]
    /\ UNCHANGED <<epoch, rotator, run, numbering, input, backend>>

\* sessionMu.RLock, the epoch check, sessionMu.RUnlock.
CheckEpoch(c) ==
    /\ conn[c].pc = "check" /\ rotator = Nobody
    /\ conn' = [conn EXCEPT ![c].pc = IF conn[c].epoch = epoch THEN "read" ELSE "leave"]
    /\ UNCHANGED <<epoch, rotator, run, numbering, input, backend>>

\* The deferred UnregisterOwnedBackend; connCtx ends the writer.
Unregister(c) ==
    /\ conn[c].pc = "leave"
    /\ conn' = [conn EXCEPT ![c].pc = "cleanup", ![c].open = FALSE]
    /\ backend' = [backend EXCEPT ![c] = NoBackend]
    /\ UNCHANGED <<epoch, rotator, run, numbering, input>>

\* The deferred session cleanup, under s.mu and sessionMu.
Cleanup(c) ==
    /\ conn[c].pc = "cleanup" /\ rotator = Nobody
    /\ conn' = [conn EXCEPT ![c] = NoConn]
    /\ UNCHANGED <<epoch, rotator, run, numbering, input, backend>>

\* The network breaks the connection.
Break(c) ==
    /\ conn[c].open
    /\ conn' = [conn EXCEPT ![c].open = FALSE]
    /\ UNCHANGED <<epoch, rotator, run, numbering, input, backend>>

-----------------------------------------------------------------------------
(***************************************************************************)
(* The writer of one connection drains its queue in one write.  A write to *)
(* a dead socket, or one that passes its deadline, ends the writer.        *)
(***************************************************************************)
Write(c) ==
    /\ backend[c].writing /\ backend[c].queue # <<>> /\ conn[c].open
    /\ backend' = [backend EXCEPT ![c].queue = <<>>]
    /\ UNCHANGED <<epoch, rotator, run, numbering, input, conn>>

WriteFails(c) ==
    /\ backend[c].writing
    /\ backend' = [backend EXCEPT ![c].writing = FALSE,
                                  ![c].queue = IF @ = <<>> THEN @ ELSE Tail(@)]
    /\ conn' = [conn EXCEPT ![c].open = FALSE]
    /\ UNCHANGED <<epoch, rotator, run, numbering, input>>

-----------------------------------------------------------------------------
(***************************************************************************)
(* AsyncPort.                                                              *)
(***************************************************************************)
\* WriteOwnedFrame; a frame that finds the queue full is dropped.
WriteOwnedFrame ==
    /\ input < InputCap
    /\ input' = input + 1
    /\ UNCHANGED <<epoch, rotator, run, numbering, conn, backend>>

RunFrame ==
    /\ run = "select" /\ input > 0
    /\ input' = input - 1
    /\ run' = "wait"
    /\ UNCHANGED <<epoch, rotator, numbering, conn, backend>>

RunReset ==
    /\ run = "select" /\ rotator # Nobody /\ numbering # epoch
    /\ numbering' = epoch
    /\ UNCHANGED <<epoch, rotator, run, input, conn, backend>>

Backends == {c \in Conns : backend[c].registered}

HasRoom(c) == Len(backend[c].queue) < QueueCap

\* waitForBackendSlot: gives up without backends, otherwise waits until one has room.
WaitForBackendSlot ==
    /\ run = "wait"
    /\ \/ /\ Backends = {}
          /\ run' = "select"
       \/ /\ \E c \in Backends : HasRoom(c)
          /\ run' = "dispatch"
    /\ UNCHANGED <<epoch, rotator, numbering, input, conn, backend>>

\* dispatchOwnedBatch: a frame that no backend takes in time is dropped.
DispatchOwnedBatch ==
    /\ run = "dispatch"
    /\ run' = "select"
    /\ \/ \E c \in Backends :
             /\ HasRoom(c)
             /\ backend' = [backend EXCEPT ![c].queue = Append(@, numbering)]
       \/ /\ \A c \in Backends : ~HasRoom(c)
          /\ UNCHANGED backend
    /\ UNCHANGED <<epoch, rotator, numbering, input, conn>>

Next ==
    \/ \E c \in Conns :
          \/ Join(c) \/ RotateBegin(c)
          \/ Register(c) \/ Arrive(c) \/ ReadFrame(c) \/ CheckEpoch(c) \/ Unregister(c)
          \/ Cleanup(c) \/ Break(c)
          \/ Write(c) \/ WriteFails(c)
    \/ RotateDone
    \/ WriteOwnedFrame \/ RunFrame \/ RunReset \/ WaitForBackendSlot \/ DispatchOwnedBatch

Spec == Init /\ [][Next]_vars

(***************************************************************************)
(* Fairness: every goroutine keeps running, and a pending write ends by    *)
(* succeeding or at its deadline.                                          *)
(***************************************************************************)
Fairness ==
    /\ \A c \in Conns :
          /\ WF_vars(Register(c)) /\ WF_vars(ReadFrame(c)) /\ WF_vars(CheckEpoch(c))
          /\ WF_vars(Unregister(c)) /\ WF_vars(Cleanup(c))
          /\ WF_vars(Write(c) \/ WriteFails(c))
    /\ WF_vars(RotateDone)
    /\ WF_vars(WaitForBackendSlot) /\ WF_vars(DispatchOwnedBatch)
    /\ WF_vars(RunFrame)
    /\ SF_vars(RunReset)

FairSpec == Spec /\ Fairness

-----------------------------------------------------------------------------
(***************************************************************************)
(* Properties.                                                             *)
(***************************************************************************)
\* Every variable stays in its range, and no queue exceeds its capacity.
TypeOK ==
    /\ epoch \in 1..MaxEpoch /\ numbering \in 1..MaxEpoch
    /\ rotator \in Conns \cup {Nobody}
    /\ run \in {"select", "wait", "dispatch"}
    /\ input \in 0..InputCap
    /\ conn \in [Conns -> [pc : {"none", "joined", "read", "check", "leave", "cleanup"},
                           epoch : 0..MaxEpoch, open : BOOLEAN, buffered : 0..ReadAhead]]
    /\ \A c \in Conns :
          /\ backend[c].registered \in BOOLEAN /\ backend[c].writing \in BOOLEAN
          /\ backend[c].queue \in Seq(1..MaxEpoch) /\ Len(backend[c].queue) <= QueueCap

(***************************************************************************)
(* The sequence is never restarted under an old key: whatever was queued   *)
(* or dispatched around a rotation, a batch only reaches the wire on a     *)
(* connection of the epoch it was numbered in.                             *)
(***************************************************************************)
NumbersMatchKey ==
    [][\A c \in Conns : Write(c)
          => \A i \in DOMAIN backend[c].queue : backend[c].queue[i] = conn[c].epoch]_vars

(***************************************************************************)
(* A rotation that has begun completes: the run goroutine's wait for a     *)
(* queue slot is short, since the writers drain their queues.              *)
(***************************************************************************)
RotationCompletes == rotator # Nobody ~> rotator = Nobody
=============================================================================
