------------------------- MODULE PortRotationProofs -------------------------
(***************************************************************************)
(* NumbersMatchKey of PortRotation, for any number of connections and of   *)
(* rotations and any queue capacities.                                     *)
(***************************************************************************)
EXTENDS PortRotation, TLAPS

ConnStates ==
    [pc : {"none", "joined", "read", "check", "leave", "cleanup"}, epoch : Int, open : BOOLEAN,
     buffered : Int]

BackendStates == [registered : BOOLEAN, writing : BOOLEAN, queue : Seq(Int)]

Typed ==
    /\ epoch \in Int /\ numbering \in Int
    /\ rotator \in Conns \cup {Nobody}
    /\ conn \in [Conns -> ConnStates]
    /\ backend \in [Conns -> BackendStates]

\* Outside a rotation the port counts in the current epoch, and during one no socket is open.
RotationInv ==
    /\ rotator = Nobody => numbering = epoch
    /\ rotator # Nobody => conn[rotator].pc = "none"
    /\ \A c \in Conns : conn[c].open => rotator = Nobody /\ conn[c].epoch = epoch

\* An open connection has only batches of its epoch queued; one without a handler that
\* reads has no backend, so that no queue outlives its connection.
QueueInv ==
    \A c \in Conns :
        /\ conn[c].pc \in {"none", "joined", "cleanup"} => backend[c] = NoBackend
        /\ conn[c].open => \A i \in DOMAIN backend[c].queue : backend[c].queue[i] = epoch

KeyInv == Typed /\ RotationInv /\ QueueInv

-----------------------------------------------------------------------------
\* The port starts with nothing open and nothing queued.
LEMMA KeyInit == Init => KeyInv
<1> SUFFICES ASSUME Init PROVE KeyInv
  OBVIOUS
<1>1. NoConn \in ConnStates /\ NoBackend \in BackendStates
  BY DEF NoConn, NoBackend, ConnStates, BackendStates
<1>2. Typed
  BY <1>1 DEF Init, Typed
<1>3. RotationInv /\ QueueInv
  BY DEF Init, RotationInv, QueueInv, NoConn
<1> QED
  BY <1>2, <1>3 DEF KeyInv

\* Every step keeps the types.
LEMMA TypedStep == Typed /\ [Next]_vars => Typed'
<1> SUFFICES ASSUME Typed, [Next]_vars PROVE Typed'
  OBVIOUS
<1>0. NoConn \in ConnStates /\ NoBackend \in BackendStates
  BY DEF NoConn, NoBackend, ConnStates, BackendStates
<1>1. ASSUME NEW c \in Conns, Join(c) PROVE Typed'
  BY <1>1 DEF Join, Typed, ConnStates
<1>2. ASSUME NEW c \in Conns, RotateBegin(c) PROVE Typed'
  <2>1. \A d \in Conns : [conn[d] EXCEPT !.open = FALSE] \in ConnStates
    BY Zenon DEF Typed, ConnStates
  <2>2. conn' \in [Conns -> ConnStates]
    BY <1>2, <2>1, Zenon DEF RotateBegin
  <2> QED
    BY <1>2, <2>2 DEF RotateBegin, Typed
<1>3. CASE RotateDone
  BY <1>3 DEF RotateDone, Typed, ConnStates
<1>4. ASSUME NEW c \in Conns, Register(c) PROVE Typed'
  <2>1. [registered |-> TRUE, writing |-> TRUE, queue |-> <<>>] \in BackendStates
    BY DEF BackendStates
  <2>2. conn' \in [Conns -> ConnStates]
    BY <1>4, ZenonT(60) DEF Register, Typed, ConnStates
  <2> QED
    BY <1>4, <2>1, <2>2 DEF Register, Typed
<1>5. ASSUME NEW c \in Conns, Arrive(c) PROVE Typed'
  BY <1>5 DEF Arrive, Typed, ConnStates
<1>6. ASSUME NEW c \in Conns, ReadFrame(c) PROVE Typed'
  BY <1>6 DEF ReadFrame, Typed, ConnStates
<1>7. ASSUME NEW c \in Conns, CheckEpoch(c) PROVE Typed'
  BY <1>7 DEF CheckEpoch, Typed, ConnStates
<1>8. ASSUME NEW c \in Conns, Break(c) PROVE Typed'
  BY <1>8, ZenonT(60) DEF Break, Typed, ConnStates
<1>9. ASSUME NEW c \in Conns, Unregister(c) PROVE Typed'
  BY <1>0, <1>9, ZenonT(60) DEF Unregister, Typed, ConnStates
<1>10. ASSUME NEW c \in Conns, Cleanup(c) PROVE Typed'
  BY <1>0, <1>10 DEF Cleanup, Typed
<1>11. ASSUME NEW c \in Conns, Write(c) PROVE Typed'
  <2>1. backend[c] \in BackendStates /\ <<>> \in Seq(Int)
    BY DEF Typed
  <2>2. [backend[c] EXCEPT !.queue = <<>>] \in BackendStates
    BY <2>1, Zenon DEF BackendStates
  <2> QED
    BY <1>11, <2>2 DEF Write, Typed
<1>12. ASSUME NEW c \in Conns, WriteFails(c) PROVE Typed'
  <2>1. backend[c] \in BackendStates
    BY DEF Typed
  <2> DEFINE q == IF backend[c].queue = <<>> THEN <<>> ELSE Tail(backend[c].queue)
  <2>2. q \in Seq(Int)
    BY <2>1 DEF BackendStates
  <2>3. backend' = [backend EXCEPT ![c].writing = FALSE, ![c].queue = q]
    BY <1>12, Zenon DEF WriteFails
  <2> HIDE DEF q
  <2>4. backend' \in [Conns -> BackendStates]
    BY <2>2, <2>3, ZenonT(60) DEF Typed, BackendStates
  <2> QED
    BY <1>12, <2>4, ZenonT(60) DEF WriteFails, Typed, ConnStates
<1>13. CASE WriteOwnedFrame
  BY <1>13 DEF WriteOwnedFrame, Typed
<1>14. CASE RunFrame
  BY <1>14 DEF RunFrame, Typed
<1>15. CASE RunReset
  BY <1>15 DEF RunReset, Typed
<1>16. CASE WaitForBackendSlot
  BY <1>16 DEF WaitForBackendSlot, Typed
<1>17. CASE DispatchOwnedBatch
  <2>1. ASSUME NEW c \in Conns, backend' = [backend EXCEPT ![c].queue = Append(@, numbering)]
        PROVE  backend' \in [Conns -> BackendStates]
    <3>1. Append(backend[c].queue, numbering) \in Seq(Int)
      BY DEF Typed, BackendStates
    <3> QED
      BY <2>1, <3>1, Zenon DEF Typed, BackendStates
  <2> QED
    BY <1>17, <2>1 DEF DispatchOwnedBatch, Backends, Typed
<1>18. CASE UNCHANGED vars
  BY <1>18 DEF vars, Typed
<1> QED
  BY <1>1, <1>2, <1>3, <1>4, <1>5, <1>6, <1>7, <1>8, <1>9, <1>10, <1>11, <1>12, <1>13, <1>14,
     <1>15, <1>16, <1>17, <1>18 DEF Next

-----------------------------------------------------------------------------
(***************************************************************************)
(* A rotation closes every socket before the port counts in the new epoch, *)
(* and a connection opens only when no rotation is in progress.            *)
(***************************************************************************)
LEMMA RotationStep == KeyInv /\ [Next]_vars => RotationInv'
<1> SUFFICES ASSUME Typed, RotationInv, [Next]_vars PROVE RotationInv'
  BY DEF KeyInv
<1>1. ASSUME NEW c \in Conns, Join(c) PROVE RotationInv'
  BY <1>1 DEF Join, Typed, ConnStates, RotationInv
<1>2. ASSUME NEW c \in Conns, RotateBegin(c) PROVE RotationInv'
  <2>1. \A d \in Conns : ~conn'[d].open /\ conn'[d].pc = conn[d].pc
    BY <1>2 DEF RotateBegin, Typed, ConnStates
  <2>2. rotator' = c /\ c # Nobody /\ conn[c].pc = "none"
    BY <1>2, PortRotationAssumption DEF RotateBegin
  <2> QED
    BY <2>1, <2>2 DEF RotationInv
<1>3. CASE RotateDone
  BY <1>3 DEF RotateDone, Typed, ConnStates, RotationInv
<1>4. ASSUME NEW c \in Conns, Register(c) PROVE RotationInv'
  BY <1>4 DEF Register, Typed, ConnStates, RotationInv
<1>5. ASSUME NEW c \in Conns, Arrive(c) PROVE RotationInv'
  BY <1>5 DEF Arrive, Typed, ConnStates, RotationInv
<1>6. ASSUME NEW c \in Conns, ReadFrame(c) PROVE RotationInv'
  BY <1>6, SMTT(30) DEF ReadFrame, Typed, ConnStates, RotationInv
<1>7. ASSUME NEW c \in Conns, CheckEpoch(c) PROVE RotationInv'
  BY <1>7 DEF CheckEpoch, Typed, ConnStates, RotationInv
<1>8. ASSUME NEW c \in Conns, Break(c) PROVE RotationInv'
  BY <1>8 DEF Break, Typed, ConnStates, RotationInv
<1>9. ASSUME NEW c \in Conns, Unregister(c) PROVE RotationInv'
  BY <1>9 DEF Unregister, Typed, ConnStates, RotationInv
<1>10. ASSUME NEW c \in Conns, Cleanup(c) PROVE RotationInv'
  BY <1>10 DEF Cleanup, Typed, RotationInv, NoConn
<1>11. ASSUME NEW c \in Conns, Write(c) PROVE RotationInv'
  BY <1>11 DEF Write, RotationInv
<1>12. ASSUME NEW c \in Conns, WriteFails(c) PROVE RotationInv'
  BY <1>12 DEF WriteFails, Typed, ConnStates, RotationInv
<1>13. CASE WriteOwnedFrame \/ RunFrame \/ WaitForBackendSlot \/ DispatchOwnedBatch
  BY <1>13 DEF WriteOwnedFrame, RunFrame, WaitForBackendSlot, DispatchOwnedBatch, RotationInv
<1>14. CASE RunReset
  BY <1>14 DEF RunReset, RotationInv
<1>15. CASE UNCHANGED vars
  BY <1>15 DEF vars, RotationInv
<1> QED
  BY <1>1, <1>2, <1>3, <1>4, <1>5, <1>6, <1>7, <1>8, <1>9, <1>10, <1>11, <1>12, <1>13, <1>14,
     <1>15 DEF Next

(***************************************************************************)
(* Batches are queued in the epoch the port counts in, and a queue is gone *)
(* before its slot is used by another connection.                          *)
(***************************************************************************)
LEMMA QueueStep == KeyInv /\ [Next]_vars => QueueInv'
<1> SUFFICES ASSUME Typed, RotationInv, QueueInv, [Next]_vars PROVE QueueInv'
  BY DEF KeyInv
<1>0. NoBackend.queue = <<>> /\ ~NoBackend.registered /\ ~NoBackend.writing
  BY DEF NoBackend
<1>1. ASSUME NEW c \in Conns, Join(c) PROVE QueueInv'
  BY <1>0, <1>1 DEF Join, Typed, ConnStates, QueueInv
<1>2. ASSUME NEW c \in Conns, RotateBegin(c) PROVE QueueInv'
  <2>1. \A d \in Conns : ~conn'[d].open /\ conn'[d].pc = conn[d].pc
    BY <1>2 DEF RotateBegin, Typed, ConnStates
  <2> QED
    BY <1>2, <2>1 DEF RotateBegin, QueueInv
<1>3. CASE RotateDone
  BY <1>0, <1>3 DEF RotateDone, Typed, ConnStates, RotationInv, QueueInv
<1>4. ASSUME NEW c \in Conns, Register(c) PROVE QueueInv'
  <2>1. backend'[c].queue = <<>> /\ \A d \in Conns \ {c} : backend'[d] = backend[d]
    BY <1>4 DEF Register, Typed
  <2>2. conn'[c].pc = "read" /\ \A d \in Conns \ {c} : conn'[d] = conn[d]
    BY <1>4 DEF Register, Typed, ConnStates
  <2> QED
    BY <1>4, <2>1, <2>2 DEF Register, QueueInv
<1>5. ASSUME NEW c \in Conns, Arrive(c) PROVE QueueInv'
  BY <1>5 DEF Arrive, Typed, ConnStates, QueueInv
<1>6. ASSUME NEW c \in Conns, ReadFrame(c) PROVE QueueInv'
  BY <1>6 DEF ReadFrame, Typed, ConnStates, QueueInv
<1>7. ASSUME NEW c \in Conns, CheckEpoch(c) PROVE QueueInv'
  BY <1>7 DEF CheckEpoch, Typed, ConnStates, QueueInv
<1>8. ASSUME NEW c \in Conns, Break(c) PROVE QueueInv'
  BY <1>8 DEF Break, Typed, ConnStates, QueueInv
<1>9. ASSUME NEW c \in Conns, Unregister(c) PROVE QueueInv'
  BY <1>9 DEF Unregister, Typed, ConnStates, QueueInv
<1>10. ASSUME NEW c \in Conns, Cleanup(c) PROVE QueueInv'
  BY <1>10 DEF Cleanup, Typed, QueueInv, NoConn
<1>11. ASSUME NEW c \in Conns, Write(c) PROVE QueueInv'
  <2>1. backend'[c].queue = <<>> /\ \A d \in Conns \ {c} : backend'[d] = backend[d]
    BY <1>11 DEF Write, Typed, BackendStates
  <2>2. conn[c].pc \notin {"none", "joined", "cleanup"}
    BY <1>0, <1>11 DEF Write, QueueInv
  <2> QED
    BY <1>11, <2>1, <2>2 DEF Write, QueueInv
<1>12. ASSUME NEW c \in Conns, WriteFails(c) PROVE QueueInv'
  <2>1. ~conn'[c].open /\ conn'[c].pc = conn[c].pc
    BY <1>12 DEF WriteFails, Typed, ConnStates
  <2>2. \A d \in Conns \ {c} : backend'[d] = backend[d] /\ conn'[d] = conn[d]
    BY <1>12 DEF WriteFails, Typed
  <2>3. conn[c].pc \notin {"none", "joined", "cleanup"}
    BY <1>0, <1>12 DEF WriteFails, QueueInv
  <2>4. epoch' = epoch
    BY <1>12 DEF WriteFails
  <2> QED
    BY <2>1, <2>2, <2>3, <2>4 DEF QueueInv
<1>13. CASE WriteOwnedFrame \/ RunFrame \/ RunReset \/ WaitForBackendSlot
  BY <1>13 DEF WriteOwnedFrame, RunFrame, RunReset, WaitForBackendSlot, QueueInv
<1>14. CASE DispatchOwnedBatch
  <2>1. CASE UNCHANGED backend
    BY <1>14, <2>1 DEF DispatchOwnedBatch, QueueInv
  <2>2. ASSUME NEW c \in Backends, backend' = [backend EXCEPT ![c].queue = Append(@, numbering)]
        PROVE  QueueInv'
    <3>1. c \in Conns /\ conn[c].pc \notin {"none", "joined", "cleanup"}
      BY <1>0, <2>2 DEF Backends, QueueInv
    <3>2. \A d \in Conns \ {c} : backend'[d] = backend[d]
      BY <2>2, <3>1 DEF Typed
    <3>3. backend'[c].queue = Append(backend[c].queue, numbering)
          /\ backend[c].queue \in Seq(Int)
      BY <2>2, <3>1 DEF Typed, BackendStates
    <3>4. conn[c].open => numbering = epoch
      BY <3>1 DEF RotationInv
    <3>5. conn[c].open => \A i \in DOMAIN backend'[c].queue : backend'[c].queue[i] = epoch
      BY <3>1, <3>3, <3>4 DEF QueueInv, Typed
    <3> QED
      BY <1>14, <3>1, <3>2, <3>5 DEF DispatchOwnedBatch, QueueInv
  <2> QED
    BY <1>14, <2>1, <2>2 DEF DispatchOwnedBatch
<1>15. CASE UNCHANGED vars
  BY <1>15 DEF vars, QueueInv
<1> QED
  BY <1>1, <1>2, <1>3, <1>4, <1>5, <1>6, <1>7, <1>8, <1>9, <1>10, <1>11, <1>12, <1>13, <1>14,
     <1>15 DEF Next

(***************************************************************************)
(* No batch is sealed with the key of another epoch: what a writer takes   *)
(* from its queue (client.go) was numbered in the epoch of its connection, *)
(* wherever rotateSessionEpochLocked met the port's run goroutine.         *)
(***************************************************************************)
THEOREM NumbersStayWithKey == Spec => NumbersMatchKey
<1>1. Init => KeyInv
  BY KeyInit
<1>2. KeyInv /\ [Next]_vars => KeyInv'
  BY TypedStep, RotationStep, QueueStep DEF KeyInv
<1>3. KeyInv => \A c \in Conns : Write(c)
                   => \A i \in DOMAIN backend[c].queue : backend[c].queue[i] = conn[c].epoch
  BY DEF KeyInv, RotationInv, QueueInv, Write
<1> QED
  BY <1>1, <1>2, <1>3, PTL DEF Spec, NumbersMatchKey
=============================================================================
