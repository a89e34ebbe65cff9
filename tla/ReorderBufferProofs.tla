------------------------ MODULE ReorderBufferProofs ------------------------
(***************************************************************************)
(* Proofs about ReorderBuffer, for any number of readers, any ring sizes,  *)
(* any queue capacity and any set of numbers sent.                         *)
(***************************************************************************)
EXTENDS ReorderBuffer, ReorderTheorems

\* Frames carry data numbers.
LEMMA FramesHaveNumbers == \A f \in Frames : f.seq \in Seqs
BY ReorderBufferAssumption, ZenonT(30) DEF Frames

\* A new buffer is well typed.
LEMMA NewReorderType == NewReorder \in ReorderStates(Frames)
BY SmallestWindow, SeqSpaceAssumption DEF NewReorder, ReorderStates

\* What a goroutine leaves with is a batch of frames, and the buffer stays well typed.
LEMMA LeaveType ==
    ASSUME TypeOK, NEW p \in Procs, NEW after \in ReorderStates(Frames), LeaveWith(p, after)
    PROVE  /\ rb' \in ReorderStates(Frames) /\ rb'.pending = <<>>
           /\ batch' \in [Procs -> Seq(Frames)]
           /\ mu' \in Procs \cup {"none"}
<1>1. rb' \in ReorderStates(Frames) /\ rb'.pending = <<>>
  BY TakePendingType, Zenon DEF LeaveWith
<1>2. after.pending \in Seq(Frames)
  BY Zenon DEF ReorderStates
<1>3. batch' \in [Procs -> Seq(Frames)] /\ mu' \in Procs \cup {"none"}
  BY <1>2, ZenonT(30) DEF LeaveWith, TypeOK
<1> QED
  BY <1>1, <1>3, Zenon

\* Type correctness holds initially.
LEMMA TypeInit == Init => TypeOK
<1> SUFFICES ASSUME Init PROVE TypeOK
  BY Zenon
<1> USE DEF Labels
<1>1. rb \in ReorderStates(Frames) /\ rb.pending = <<>>
  BY NewReorderType, ZenonT(30) DEF Init, NewReorder
<1>2. arrived \in [Gens -> [Sent -> 0 .. Copies]] /\ gen \in Gens
  BY ReorderBufferAssumption DEF Init, Gens
<1>3. /\ outChan \in Seq(Seq(Frames)) /\ Len(outChan) <= OutQueue
      /\ delivered \in Seq(Frames) /\ batch \in [Procs -> Seq(Frames)]
  BY ReorderBufferAssumption DEF Init
<1> QED
  BY <1>1, <1>2, <1>3, Zenon DEF Init, TypeOK

\* Every step of every goroutine keeps the types.
LEMMA TypeStep == TypeOK /\ [Next]_vars => TypeOK'
<1> SUFFICES ASSUME TypeOK, [Next]_vars PROVE TypeOK'
  BY ZenonT(30)
<1> USE DEF Goto, Labels
<1>1. ASSUME NEW p \in Readers, NEW s \in Sent, Insert(p, s) PROVE TypeOK'
  <2> DEFINE f == [seq |-> s, gen |-> gen]
             after == InsertLocked(rb, f)
  <2>1. after \in ReorderStates(Frames)
    <3>1. f \in Frames /\ rb \in ReorderStates(Frames)
      BY ZenonT(30) DEF TypeOK, Frames
    <3> HIDE DEF f
    <3> QED
      BY <3>1, FramesHaveNumbers, InsertType, Zenon
  <2>2. p \in Procs
    BY ZenonT(30) DEF Procs
  <2> HIDE DEF after
  <2>3. arrived' \in [Gens -> [Sent -> 0 .. Copies]]
    BY <1>1, ReorderBufferAssumption, SMTT(30) DEF Insert, TypeOK
  <2>4. CASE shutting
    BY <1>1, <2>3, <2>4, ZenonT(30) DEF Insert, TypeOK
  <2>5. CASE ~shutting
    <3>1. LeaveWith(p, after) /\ wakes' = [wakes EXCEPT ![p] = WakesGapWorker(rb, after)]
      BY <1>1, <2>5, ZenonT(30) DEF Insert, after
    <3>2. WakesGapWorker(rb, after) \in BOOLEAN
      BY Zenon DEF WakesGapWorker
    <3>3. wakes' \in [Procs -> BOOLEAN]
      BY <3>1, <3>2, ZenonT(60) DEF TypeOK
    <3>4. pc' = [pc EXCEPT ![p] = IF after.pending # <<>> THEN "locked"
                                  ELSE IF wakes'[p] THEN "signal" ELSE "idle"]
      BY <1>1, <2>5, ZenonT(30) DEF Insert, after
    <3>5. UNCHANGED <<shutting, deliverMu, gapWake, closed, outChan, outWorker, gen, delivered>>
      BY <1>1, ZenonT(30) DEF Insert
    <3>6. /\ rb' \in ReorderStates(Frames) /\ rb'.pending = <<>>
          /\ batch' \in [Procs -> Seq(Frames)] /\ mu' \in Procs \cup {"none"}
      BY <2>1, <2>2, <3>1, LeaveType, Zenon
    <3> QED
      BY <2>3, <3>3, <3>4, <3>5, <3>6, Zenon DEF TypeOK
  <2> QED
    BY <2>4, <2>5, ZenonT(30)
<1>2. ASSUME NEW p \in Procs, LockDeliver(p) PROVE TypeOK'
  BY <1>2, ZenonT(30) DEF LockDeliver, TypeOK, Procs
<1>3. ASSUME NEW p \in Procs, Signal(p) PROVE TypeOK'
  BY <1>3, ZenonT(30) DEF Signal, TypeOK
<1>4. ASSUME NEW p \in Procs, Deliver(p) PROVE TypeOK'
  <2>1. batch[p] \in Seq(Frames) /\ batch' \in [Procs -> Seq(Frames)]
    BY <1>4 DEF Deliver, TypeOK
  <2>2. outChan' \in Seq(Seq(Frames)) /\ Len(outChan') <= OutQueue
    <3>1. CASE Len(outChan) < OutQueue /\ outChan' = Append(outChan, batch[p])
      BY <2>1, <3>1, ReorderBufferAssumption DEF TypeOK
    <3>2. CASE UNCHANGED outChan
      BY <3>2, Zenon DEF TypeOK
    <3> QED
      BY <1>4, <3>1, <3>2, ZenonT(30) DEF Deliver
  <2> QED
    BY <1>4, <2>1, <2>2, ZenonT(30) DEF Deliver, TypeOK
<1>5. CASE TimerCheck
  BY <1>5, Zenon DEF TimerCheck, TimerUnchanged, TypeOK, ReorderStates
<1>6. CASE TimerWoken
  BY <1>6, Zenon DEF TimerWoken, TimerUnchanged, TypeOK
<1>7. CASE TimerFires
  BY <1>7, Zenon DEF TimerFires, TimerUnchanged, TypeOK
<1>8. CASE TimerExpire
  <2> DEFINE after == IF Expirable(rb) THEN ExpireGap(rb) ELSE rb
  <2>1. after \in ReorderStates(Frames) /\ "timer" \in Procs
    BY ExpireType, Zenon DEF TypeOK, Procs
  <2>2. /\ LeaveWith("timer", after)
        /\ pc' = [pc EXCEPT !["timer"] = IF after.pending = <<>> THEN "check" ELSE "locked"]
        /\ UNCHANGED <<shutting, deliverMu, wakes, gapWake, closed, outChan, outWorker, gen,
                       arrived, delivered>>
    BY <1>8, Zenon DEF TimerExpire, TimerUnchanged
  <2> HIDE DEF after
  <2>3. /\ rb' \in ReorderStates(Frames) /\ rb'.pending = <<>>
        /\ batch' \in [Procs -> Seq(Frames)] /\ mu' \in Procs \cup {"none"}
    BY <2>1, <2>2, LeaveType, ZenonT(30)
  <2> QED
    BY <2>2, <2>3, Zenon DEF TypeOK
<1>9. CASE GapComesDue
  <2>1. rb' \in ReorderStates(Frames) /\ rb'.pending = <<>>
    BY <1>9, ZenonT(60) DEF GapComesDue, TypeOK, ReorderStates
  <2> QED
    BY <1>9, <2>1, ZenonT(30) DEF GapComesDue, TypeOK
<1>10. CASE Output
  <2>1. /\ Head(outChan) \in Seq(Frames)
        /\ Tail(outChan) \in Seq(Seq(Frames)) /\ Len(Tail(outChan)) <= OutQueue
    BY <1>10, ReorderBufferAssumption DEF Output, TypeOK
  <2>2. delivered \o Head(outChan) \in Seq(Frames)
    BY <2>1 DEF TypeOK
  <2> QED
    BY <1>10, <2>1, <2>2, ZenonT(30) DEF Output, TypeOK
<1>11. CASE OutputExit
  BY <1>11, Zenon DEF OutputExit, TypeOK
<1>12. CASE Reset
  <2>1. rb' \in ReorderStates(Frames) /\ rb'.pending = <<>>
    BY <1>12, ResetType, Zenon DEF Reset, TypeOK
  <2>2. gen' \in Gens
    BY <1>12, ReorderBufferAssumption DEF Reset, TypeOK, Gens
  <2> QED
    BY <1>12, <2>1, <2>2, ZenonT(60) DEF Reset, TypeOK
<1>13. CASE Close
  <2>1. rb' \in ReorderStates(Frames) /\ rb'.pending = <<>>
    BY <1>13, Zenon DEF Close, TypeOK, ReorderStates
  <2>2. "ctl" \in Procs
    BY Zenon DEF Procs
  <2> QED
    BY <1>13, <2>1, <2>2, ZenonT(30) DEF Close, TypeOK
<1>14. CASE CloseDone
  BY <1>14, Zenon DEF CloseDone, TypeOK
<1>15. CASE UNCHANGED vars
  BY <1>15, ZenonT(30) DEF vars, TypeOK
<1> QED
  BY <1>1, <1>2, <1>3, <1>4, <1>5, <1>6, <1>7, <1>8, <1>9, <1>10, <1>11, <1>12, <1>13, <1>14,
     <1>15, ZenonT(30) DEF Next, Terminated

(***************************************************************************)
(* Every variable of ReorderBuffer stays in its range: sequence numbers    *)
(* stay uint32, the ring one of the sizes growWindowLocked allows, outChan *)
(* within reorderOutQueue, and no critical section leaves frames behind in *)
(* the pending chain.                                                      *)
(***************************************************************************)
THEOREM TypeCorrect == Spec => []TypeOK
<1>1. Init => TypeOK
  BY TypeInit, ZenonT(30)
<1>2. TypeOK /\ [Next]_vars => TypeOK'
  BY TypeStep, Zenon
<1> QED
  BY <1>1, <1>2, PTL DEF Spec

-----------------------------------------------------------------------------
(***************************************************************************)
(* The two mutexes.  Holds(p): p is between taking deliverMu and releasing *)
(* it.  A goroutine waits for deliverMu holding mu; Close leaves with both *)
(* free, and after it nobody takes a batch again, since the ring is empty  *)
(* and Insert returns at once.                                             *)
(***************************************************************************)
Holds(p) == pc[p] \in {"deliver", "close"} \/ (pc[p] = "signal" /\ batch[p] # <<>>)

Places ==
    /\ \A p \in Readers : pc[p] \in {"idle", "locked", "signal", "deliver"}
    /\ pc["timer"] \in {"check", "asleep", "armed", "expire", "locked", "deliver", "exit"}
    /\ pc["ctl"] \in {"idle", "locked", "signal", "close", "done"}
    /\ \A p \in Readers \cup {"timer"} : pc[p] = "locked" => batch[p] # <<>>
    /\ batch["ctl"] = <<>>

Locking ==
    /\ \A p \in Procs : (pc[p] = "locked" <=> mu = p) /\ (Holds(p) <=> deliverMu = p)
    /\ shutting <=> pc["ctl"] \in {"locked", "close", "done"}
    /\ closed <=> pc["ctl"] = "done"
    /\ pc["ctl"] \in {"close", "done"} => mu = "none"
    /\ closed => deliverMu = "none"
    /\ shutting => rb.ring = {}
    /\ outWorker = "exit" => closed /\ outChan = <<>>

CloseInv == TypeOK /\ Places /\ Locking

\* The goroutines have different names, and none is called "none".
LEMMA ProcNames ==
    /\ "timer" \in Procs /\ "ctl" \in Procs /\ Readers \subseteq Procs
    /\ "none" \notin Procs /\ "timer" \notin Readers /\ "ctl" \notin Readers
    /\ Procs = Readers \cup {"timer", "ctl"}
BY ReorderBufferAssumption, Zenon DEF Procs

\* The invariant behind Close holds initially.
LEMMA CloseInit == Init => CloseInv
<1> SUFFICES ASSUME Init PROVE CloseInv
  BY Zenon
<1>1. TypeOK
  BY TypeInit, ZenonT(30)
<1>2. Places
  BY ProcNames, Zenon DEF Init, Places
<1>3. Locking
  BY ProcNames, ZenonT(30) DEF Init, Locking, Holds
<1> QED
  BY <1>1, <1>2, <1>3, ZenonT(30) DEF CloseInv

\* Every step keeps it.
LEMMA CloseStep == CloseInv /\ [Next]_vars => CloseInv'
<1> SUFFICES ASSUME CloseInv, [Next]_vars PROVE CloseInv'
  BY Zenon
<1> USE ProcNames DEF Goto
<1>0. TypeOK /\ TypeOK'
  BY TypeStep, ZenonT(30) DEF CloseInv
<1> SUFFICES Places' /\ Locking'
  BY <1>0, ZenonT(30) DEF CloseInv
<1>a. /\ pc \in [Procs -> Labels] /\ batch \in [Procs -> Seq(Frames)]
      /\ rb \in ReorderStates(Frames) /\ rb.pending = <<>>
  BY <1>0, SMTT(30) DEF TypeOK
<1>1. ASSUME NEW p \in Readers, NEW s \in Sent, Insert(p, s) PROVE Places' /\ Locking'
  <2> DEFINE after == InsertLocked(rb, [seq |-> s, gen |-> gen])
  <2>1. CASE shutting
    BY <1>1, <2>1 DEF Insert, CloseInv, Places, Locking, Holds
  <2>2. CASE ~shutting
    <3>1. /\ pc[p] = "idle" /\ mu = "none" /\ batch' = [batch EXCEPT ![p] = after.pending]
          /\ mu' = IF after.pending = <<>> THEN mu ELSE p
          /\ pc' = [pc EXCEPT ![p] = IF after.pending # <<>> THEN "locked"
                                     ELSE IF wakes'[p] THEN "signal" ELSE "idle"]
          /\ UNCHANGED <<shutting, deliverMu, closed, outChan, outWorker>>
      BY <1>1, <2>2, Zenon DEF Insert, LeaveWith
    <3> HIDE DEF after
    <3>2. Places'
      BY <1>a, <3>1, Zenon DEF CloseInv, Places
    <3>3. Locking'
      BY <1>a, <2>2, <3>1 DEF CloseInv, Places, Locking, Holds
    <3> QED
      BY <3>2, <3>3, Zenon
  <2> QED
    BY <2>1, <2>2, ZenonT(30)
<1>2. ASSUME NEW p \in Procs, LockDeliver(p) PROVE Places' /\ Locking'
  BY <1>2, <1>a DEF LockDeliver, CloseInv, Places, Locking, Holds
<1>3. ASSUME NEW p \in Procs, Signal(p) PROVE Places' /\ Locking'
  BY <1>3, <1>a DEF Signal, CloseInv, Places, Locking, Holds
<1>4. ASSUME NEW p \in Procs, Deliver(p) PROVE Places' /\ Locking'
  <2>1. deliverMu = p /\ ~closed /\ outWorker # "exit"
    BY <1>4, ZenonT(30) DEF Deliver, CloseInv, Locking, Holds
  <2>2. p # "ctl"
    BY <1>4, Zenon DEF Deliver, CloseInv, Places
  <2> QED
    BY <1>4, <1>a, <2>1, <2>2 DEF Deliver, CloseInv, Places, Locking, Holds
<1>5. CASE TimerCheck
  <2>1. rb.gap \in {"none", "fresh", "due"} /\ shutting \in BOOLEAN
    BY <1>0, <1>a, ZenonT(30) DEF TypeOK, ReorderStates
  <2>2. /\ pc["timer"] = "check"
        /\ \E l \in {"exit", "asleep", "armed", "expire"} : pc' = [pc EXCEPT !["timer"] = l]
        /\ UNCHANGED <<rb, mu, batch, shutting, deliverMu, closed, outChan, outWorker>>
    BY <1>5, <2>1, ZenonT(60) DEF TimerCheck, TimerUnchanged
  <2> QED
    BY <1>a, <2>2 DEF CloseInv, Places, Locking, Holds
<1>6. CASE TimerWoken
  BY <1>6, <1>a, SMTT(30) DEF TimerWoken, TimerUnchanged, CloseInv, Places, Locking, Holds
<1>7. CASE TimerFires
  BY <1>7, <1>a DEF TimerFires, TimerUnchanged, CloseInv, Places, Locking, Holds
<1>8. CASE TimerExpire
  <2> DEFINE after == IF Expirable(rb) THEN ExpireGap(rb) ELSE rb
  <2>1. /\ pc["timer"] = "expire" /\ mu = "none"
        /\ rb' = TakePending(after)
        /\ batch' = [batch EXCEPT !["timer"] = after.pending]
        /\ mu' = IF after.pending = <<>> THEN mu ELSE "timer"
        /\ pc' = [pc EXCEPT !["timer"] = IF after.pending = <<>> THEN "check" ELSE "locked"]
        /\ UNCHANGED <<shutting, deliverMu, wakes, gapWake, closed, outChan, outWorker>>
    BY <1>8, Zenon DEF TimerExpire, TimerUnchanged, LeaveWith
  <2>2. shutting => after.pending = <<>> /\ rb'.ring = {}
    <3> SUFFICES ASSUME shutting PROVE after.pending = <<>> /\ rb'.ring = {}
      BY Zenon
    <3>1. after = rb /\ rb.ring = {}
      BY Zenon DEF CloseInv, Locking, Expirable
    <3> QED
      BY <1>a, <2>1, <3>1, TakePendingType, ZenonT(30)
  <2> HIDE DEF after
  <2>3. Places'
    BY <1>a, <2>1, ZenonT(30) DEF CloseInv, Places
  <2>4. Locking'
    BY <1>a, <2>1, <2>2, SMTT(30) DEF CloseInv, Places, Locking, Holds
  <2> QED
    BY <2>3, <2>4, Zenon
<1>9. CASE GapComesDue
  <2>1. rb'.ring = rb.ring
    BY <1>9, <1>a, Zenon DEF GapComesDue, ReorderStates
  <2> QED
    BY <1>9, <2>1 DEF GapComesDue, CloseInv, Places, Locking, Holds
<1>10. CASE Output
  BY <1>10, ZenonT(30) DEF Output, CloseInv, Places, Locking, Holds
<1>11. CASE OutputExit
  BY <1>11, ZenonT(30) DEF OutputExit, CloseInv, Places, Locking, Holds
<1>12. CASE Reset
  BY <1>12, <1>a DEF Reset, CloseInv, Places, Locking, Holds
<1>13. CASE Close
  <2>1. rb'.ring = {}
    BY <1>13, <1>a, Zenon DEF Close, ReorderStates
  <2> QED
    BY <1>13, <1>a, <2>1 DEF Close, CloseInv, Places, Locking, Holds
<1>14. CASE CloseDone
  BY <1>14, <1>a DEF CloseDone, CloseInv, Places, Locking, Holds
<1>15. CASE UNCHANGED vars
  BY <1>15, ZenonT(30) DEF vars, CloseInv, Places, Locking, Holds
<1> QED
  BY <1>1, <1>2, <1>3, <1>4, <1>5, <1>6, <1>7, <1>8, <1>9, <1>10, <1>11, <1>12, <1>13, <1>14,
     <1>15, SMTT(30) DEF Next, Terminated

(***************************************************************************)
(* Close strands no batch: outWorker returns only when outChan is empty    *)
(* and nothing is put there afterwards, because Close waited for deliverMu *)
(* before it closed the channel (buffer.go, Close and deliver).            *)
(***************************************************************************)
THEOREM CloseStrandsNothing == Spec => []NoStrandedBatch
<1>1. Init => CloseInv
  BY CloseInit, Zenon
<1>2. CloseInv /\ [Next]_vars => CloseInv'
  BY CloseStep, Zenon
<1>3. CloseInv => NoStrandedBatch
  BY Zenon DEF CloseInv, Locking, NoStrandedBatch
<1> QED
  BY <1>1, <1>2, <1>3, PTL DEF Spec

-----------------------------------------------------------------------------
(***************************************************************************)
(* The wake token.  A goroutine that owes the gap worker a wake is on its  *)
(* way to Signal, so a later Insert of the same goroutine cannot forget it.*)
(***************************************************************************)
Owing ==
    /\ \A p \in Readers : wakes[p] => pc[p] \in {"locked", "signal"}
    /\ wakes["ctl"] => pc["ctl"] = "signal"
    /\ ~wakes["timer"]

WakeInv == TypeOK /\ Owing /\ NoLostWakeup

\* The invariant behind the wake-ups holds initially.
LEMMA WakeInit == Init => WakeInv
<1> SUFFICES ASSUME Init PROVE WakeInv
  BY Zenon
<1>1. TypeOK
  BY TypeInit, Zenon
<1>2. Owing /\ NoLostWakeup
  BY ProcNames, ZenonT(30) DEF Init, Owing, NoLostWakeup, NewReorder
<1> QED
  BY <1>1, <1>2, Zenon DEF WakeInv

\* Every step keeps it.
LEMMA WakeStep == WakeInv /\ [Next]_vars => WakeInv'
<1> SUFFICES ASSUME WakeInv, [Next]_vars PROVE WakeInv'
  BY Zenon
<1> USE ProcNames DEF Goto
<1>0. TypeOK /\ TypeOK'
  BY TypeStep, ZenonT(30) DEF WakeInv
<1> SUFFICES Owing' /\ NoLostWakeup'
  BY <1>0, ZenonT(30) DEF WakeInv
<1>a. /\ pc \in [Procs -> Labels] /\ wakes \in [Procs -> BOOLEAN]
      /\ rb \in ReorderStates(Frames)
  BY <1>0, SMTT(30) DEF TypeOK
<1>1. ASSUME NEW p \in Readers, NEW s \in Sent, Insert(p, s) PROVE Owing' /\ NoLostWakeup'
  <2> DEFINE f == [seq |-> s, gen |-> gen]
             after == InsertLocked(rb, f)
  <2>1. CASE shutting
    BY <1>1, <2>1, ZenonT(30) DEF Insert, WakeInv, Owing, NoLostWakeup
  <2>2. CASE ~shutting
    <3>1. f \in Frames
      BY <1>0, ZenonT(30) DEF TypeOK, Frames
    <3> HIDE DEF f
    <3>2. after \in ReorderStates(Frames)
      BY <1>a, <3>1, FramesHaveNumbers, InsertType, SMTT(30)
    <3>3. /\ pc[p] = "idle" /\ rb' = TakePending(after)
          /\ wakes' = [wakes EXCEPT ![p] = WakesGapWorker(rb, after)]
          /\ pc' = [pc EXCEPT ![p] = IF after.pending # <<>> THEN "locked"
                                     ELSE IF wakes'[p] THEN "signal" ELSE "idle"]
          /\ UNCHANGED <<gapWake, closed>>
      BY <1>1, <2>2, ZenonT(30) DEF Insert, LeaveWith, f
    <3> HIDE DEF after
    <3>4. rb'.gap = after.gap
      BY <3>2, <3>3, TakePendingType, ZenonT(30)
    <3>5. ~wakes[p]
      BY <3>3, Zenon DEF WakeInv, Owing
    <3>6. Owing'
      BY <1>a, <3>3, ZenonT(30) DEF WakeInv, Owing
    <3>7. NoLostWakeup'
      <4> SUFFICES ASSUME pc'["timer"] = "asleep", rb'.gap # "none"
                   PROVE  gapWake' \/ closed' \/ \E q \in Procs : wakes'[q]
        BY Zenon DEF NoLostWakeup
      <4>1. pc["timer"] = "asleep"
        BY <1>a, <3>3, ZenonT(30)
      <4>2. CASE rb.gap = "none"
        <5>1. WakesGapWorker(rb, after)
          BY <3>4, <4>2, Zenon DEF WakesGapWorker
        <5> QED
          BY <1>a, <3>3, <5>1, ZenonT(30)
      <4>3. CASE rb.gap # "none"
        BY <1>a, <3>3, <3>5, <4>1, <4>3, ZenonT(30) DEF WakeInv, NoLostWakeup
      <4> QED
        BY <4>2, <4>3, ZenonT(30)
    <3> QED
      BY <3>6, <3>7, Zenon
  <2> QED
    BY <2>1, <2>2, ZenonT(30)
<1>2. ASSUME NEW p \in Procs, LockDeliver(p) PROVE Owing' /\ NoLostWakeup'
  BY <1>2, <1>a, ZenonT(30) DEF LockDeliver, WakeInv, Owing, NoLostWakeup
<1>3. ASSUME NEW p \in Procs, Signal(p) PROVE Owing' /\ NoLostWakeup'
  BY <1>3, <1>a, ZenonT(60) DEF Signal, WakeInv, Owing, NoLostWakeup
<1>4. ASSUME NEW p \in Procs, Deliver(p) PROVE Owing' /\ NoLostWakeup'
  BY <1>4, <1>a, ZenonT(30) DEF Deliver, WakeInv, Owing, NoLostWakeup
<1>5. CASE TimerCheck
  <2>1. /\ rb.gap \in {"none", "fresh", "due"} /\ shutting \in BOOLEAN
    BY <1>0, <1>a, Zenon DEF TypeOK, ReorderStates
  <2>2. /\ \E l \in {"exit", "asleep", "armed", "expire"} :
              pc' = [pc EXCEPT !["timer"] = l] /\ (l = "asleep" => rb.gap = "none")
        /\ UNCHANGED <<rb, wakes, gapWake, closed>>
    BY <1>5, <2>1, Zenon DEF TimerCheck, TimerUnchanged
  <2> QED
    BY <1>a, <2>2, ZenonT(30) DEF WakeInv, Owing, NoLostWakeup
<1>6. CASE TimerWoken
  BY <1>6, <1>a, ZenonT(30) DEF TimerWoken, TimerUnchanged, WakeInv, Owing, NoLostWakeup
<1>7. CASE TimerFires
  BY <1>7, <1>a, Zenon DEF TimerFires, TimerUnchanged, WakeInv, Owing, NoLostWakeup
<1>8. CASE TimerExpire
  <2>1. /\ \E l \in {"check", "locked"} : pc' = [pc EXCEPT !["timer"] = l]
        /\ UNCHANGED <<wakes, gapWake, closed>>
    BY <1>8, ZenonT(60) DEF TimerExpire, TimerUnchanged
  <2> QED
    BY <1>a, <2>1, ZenonT(30) DEF WakeInv, Owing, NoLostWakeup
<1>9. CASE GapComesDue
  BY <1>9, Zenon DEF GapComesDue, WakeInv, Owing, NoLostWakeup
<1>10. CASE Output
  BY <1>10, ZenonT(30) DEF Output, WakeInv, Owing, NoLostWakeup
<1>11. CASE OutputExit
  BY <1>11, ZenonT(30) DEF OutputExit, WakeInv, Owing, NoLostWakeup
<1>12. CASE Reset
  <2>1. rb'.gap = "none"
    BY <1>12, <1>a, ResetType, ZenonT(30) DEF Reset
  <2>2. /\ pc' = [pc EXCEPT !["ctl"] = "signal"]
        /\ wakes' = [wakes EXCEPT !["ctl"] = rb.gap # "none"]
    BY <1>12, ZenonT(30) DEF Reset
  <2>3. Owing'
    BY <1>a, <2>2, Zenon DEF WakeInv, Owing
  <2> QED
    BY <2>1, <2>3, Zenon DEF NoLostWakeup
<1>13. CASE Close
  <2>1. rb'.gap = rb.gap
    BY <1>13, <1>a, ZenonT(30) DEF Close, ReorderStates
  <2> QED
    BY <1>13, <1>a, <2>1, ZenonT(30) DEF Close, WakeInv, Owing, NoLostWakeup
<1>14. CASE CloseDone
  BY <1>14, <1>a, Zenon DEF CloseDone, WakeInv, Owing, NoLostWakeup
<1>15. CASE UNCHANGED vars
  BY <1>15, ZenonT(30) DEF vars, WakeInv, Owing, NoLostWakeup
<1> QED
  BY <1>1, <1>2, <1>3, <1>4, <1>5, <1>6, <1>7, <1>8, <1>9, <1>10, <1>11, <1>12, <1>13, <1>14,
     <1>15, SMTT(30) DEF Next, Terminated

(***************************************************************************)
(* timeoutWorker never sleeps without a deadline through an open gap: the  *)
(* wake that insertLocked asks for is in gapWake or about to be put there, *)
(* although it is sent after mu was released (buffer.go, Insert and        *)
(* timeoutWorker).                                                         *)
(***************************************************************************)
THEOREM WakeupsAreKept == Spec => []NoLostWakeup
<1>1. Init => WakeInv
  BY WakeInit, Zenon
<1>2. WakeInv /\ [Next]_vars => WakeInv'
  BY WakeStep, Zenon
<1>3. WakeInv => NoLostWakeup
  BY Zenon DEF WakeInv
<1> QED
  BY <1>1, <1>2, <1>3, PTL DEF Spec

-----------------------------------------------------------------------------
(***************************************************************************)
(* The window.  expectedSeq = 0 stands for "no frame yet", so everything   *)
(* below needs the peer not to use the last number of the sequence space,  *)
(* after which expectedSeq becomes 0 again.                                *)
(***************************************************************************)
LastNumberUnused == SeqSpace - 1 \notin Sent

HeldInv == TypeOK /\ WellHeld(rb) /\ \A f \in rb.ring : f.gen = gen

\* With the last number unused, the successor of every number sent is a number.
LEMMA NumbersBeforeLast ==
    ASSUME LastNumberUnused
    PROVE  \A f \in Frames : f.seq \in 1 .. SeqSpace - 2
<1>1. \A s \in Sent : s \in 1 .. SeqSpace - 1 /\ s # SeqSpace - 1
  BY ReorderBufferAssumption, ZenonT(30) DEF LastNumberUnused, Seqs
<1>2. \A s \in Sent : s \in 1 .. SeqSpace - 2
  BY <1>1, SeqSpaceAssumption
<1> QED
  BY <1>2, Zenon DEF Frames

\* Every step keeps the held frames ahead of the number awaited, once each, and timed.
LEMMA HeldStep ==
    ASSUME LastNumberUnused
    PROVE  HeldInv /\ [Next]_vars => HeldInv'
<1> SUFFICES ASSUME HeldInv, [Next]_vars PROVE HeldInv'
  BY Zenon
<1>0. TypeOK /\ TypeOK'
  BY TypeStep, ZenonT(30) DEF HeldInv
<1> SUFFICES WellHeld(rb)' /\ (\A f \in rb.ring : f.gen = gen)'
  BY <1>0, Zenon DEF HeldInv
<1>a. /\ rb \in ReorderStates(Frames) /\ rb.pending = <<>> /\ WellHeld(rb)
      /\ \A f \in rb.ring : f.gen = gen
  BY Zenon DEF HeldInv, TypeOK
<1>b. \A f \in Frames : f.seq \in 1 .. SeqSpace - 2 /\ f.seq \in Seqs
  BY NumbersBeforeLast, FramesHaveNumbers, ZenonT(30)
<1>c. ASSUME UNCHANGED <<rb, gen>> PROVE WellHeld(rb)' /\ (\A f \in rb.ring : f.gen = gen)'
  BY <1>a, <1>c, ZenonT(30) DEF WellHeld, Distinct
<1>1. ASSUME NEW p \in Readers, NEW s \in Sent, Insert(p, s)
      PROVE  WellHeld(rb)' /\ (\A f \in rb.ring : f.gen = gen)'
  <2> DEFINE f == [seq |-> s, gen |-> gen]
             after == InsertLocked(rb, f)
  <2>1. CASE shutting
    BY <1>1, <1>c, <2>1, SMTT(30) DEF Insert
  <2>2. CASE ~shutting
    <3>1. f \in Frames /\ f.gen = gen
      BY <1>0, SMTT(30) DEF TypeOK, Frames
    <3>2. rb' = TakePending(after) /\ gen' = gen
      BY <1>1, <2>2, SMTT(30) DEF Insert, LeaveWith
    <3> HIDE DEF f
    <3>3. /\ after \in ReorderStates(Frames) /\ after.ring \subseteq rb.ring \cup {f}
          /\ WellHeld(after)
      BY <1>a, <1>b, <3>1, InsertType, InsertHolds, SMTT(30)
    <3> HIDE DEF after
    <3>4. /\ rb'.ring = after.ring /\ rb'.expected = after.expected
          /\ rb'.window = after.window /\ rb'.gap = after.gap
      BY <3>2, <3>3, TakePendingType, SMTT(30)
    <3>5. WellHeld(rb')
      BY <3>3, <3>4, SameHeld, ZenonT(30)
    <3> QED
      BY <1>a, <3>1, <3>2, <3>3, <3>4, <3>5, SMTT(30)
  <2> QED
    BY <2>1, <2>2, ZenonT(30)
<1>2. ASSUME NEW p \in Procs, LockDeliver(p) \/ Signal(p) \/ Deliver(p)
      PROVE  WellHeld(rb)' /\ (\A f \in rb.ring : f.gen = gen)'
  BY <1>2, <1>c, ZenonT(30) DEF LockDeliver, Signal, Deliver
<1>3. CASE TimerCheck \/ TimerWoken \/ TimerFires
  BY <1>3, <1>c, ZenonT(30) DEF TimerCheck, TimerWoken, TimerFires, TimerUnchanged
<1>4. CASE TimerExpire
  <2> DEFINE after == IF Expirable(rb) THEN ExpireGap(rb) ELSE rb
  <2>1. rb' = TakePending(after) /\ gen' = gen
    BY <1>4, SMTT(30) DEF TimerExpire, TimerUnchanged, LeaveWith
  <2>2. /\ after \in ReorderStates(Frames) /\ after.ring \subseteq rb.ring
        /\ WellHeld(after)
    <3>1. CASE Expirable(rb)
      <4>1. rb.ring # {}
        BY <3>1, Zenon DEF Expirable
      <4> QED
        BY <1>a, <1>b, <3>1, <4>1, ExpireType, ExpireHolds, SMTT(30)
    <3>2. CASE ~Expirable(rb)
      BY <1>a, <3>2, ZenonT(30)
    <3> QED
      BY <3>1, <3>2, SMTT(30)
  <2> HIDE DEF after
  <2>3. /\ rb'.ring = after.ring /\ rb'.expected = after.expected
        /\ rb'.window = after.window /\ rb'.gap = after.gap
    BY <2>1, <2>2, TakePendingType, ZenonT(30)
  <2>4. WellHeld(rb')
    BY <2>2, <2>3, SameHeld, Zenon
  <2> QED
    BY <1>a, <2>1, <2>2, <2>3, <2>4, SMTT(30)
<1>5. CASE GapComesDue
  <2>1. /\ rb'.ring = rb.ring /\ rb'.expected = rb.expected /\ rb'.window = rb.window
        /\ rb'.gap = "due" /\ gen' = gen
    BY <1>5, <1>a, ZenonT(30) DEF GapComesDue, ReorderStates
  <2>2. WellHeld(rb')
    BY <1>a, <2>1, SameHeld, ZenonT(30)
  <2> QED
    BY <1>a, <2>1, <2>2, ZenonT(30)
<1>6. CASE Output \/ OutputExit \/ CloseDone
  BY <1>6, <1>c, ZenonT(30) DEF Output, OutputExit, CloseDone
<1>7. CASE Reset \/ Close
  <2>1. rb'.ring = {}
    <3>1. CASE Reset
      BY <1>a, <3>1, ResetType, ZenonT(30) DEF Reset
    <3>2. CASE Close
      BY <1>a, <3>2, ZenonT(30) DEF Close, ReorderStates
    <3> QED
      BY <1>7, <3>1, <3>2, SMTT(30)
  <2> QED
    BY <2>1, ZenonT(30) DEF WellHeld, Distinct
<1>8. CASE UNCHANGED vars
  BY <1>8, <1>c, Zenon DEF vars
<1> QED
  BY <1>1, <1>2, <1>3, <1>4, <1>5, <1>6, <1>7, <1>8, SMTT(30) DEF Next, Terminated

\* Nothing is held initially.
LEMMA HeldInit == Init => HeldInv
<1> SUFFICES ASSUME Init PROVE HeldInv
  BY Zenon
<1>1. rb.ring = {}
  BY ZenonT(30) DEF Init, NewReorder
<1> QED
  BY <1>1, TypeInit, ZenonT(30) DEF HeldInv, WellHeld, Distinct

(***************************************************************************)
(* Two numbers never compete for a slot of the ring: everything held lies  *)
(* strictly inside the window and belongs to the current epoch, across     *)
(* growth, skips and resets (the case insertLocked calls impossible).      *)
(***************************************************************************)
THEOREM HeldFramesStayInside ==
    ASSUME LastNumberUnused
    PROVE  Spec => []HeldInsideWindow
<1>1. Init => HeldInv
  BY HeldInit, ZenonT(30)
<1>2. HeldInv /\ [Next]_vars => HeldInv'
  BY HeldStep, ZenonT(30)
<1>3. HeldInv => HeldInsideWindow
  BY ZenonT(30) DEF HeldInv, WellHeld, HeldInsideWindow
<1> QED
  BY <1>1, <1>2, <1>3, PTL DEF Spec

(***************************************************************************)
(* No frame is held back untimed: whenever the ring is not empty, gapSince *)
(* is set, so that timeoutWorker will release what is held even if nothing *)
(* more arrives (buffer.go, refreshGapLocked).                             *)
(***************************************************************************)
THEOREM HeldFramesStayTimed ==
    ASSUME LastNumberUnused
    PROVE  Spec => []HeldFramesAreTimed
<1>1. Init => HeldInv
  BY HeldInit, ZenonT(30)
<1>2. HeldInv /\ [Next]_vars => HeldInv'
  BY HeldStep, Zenon
<1>3. HeldInv => HeldFramesAreTimed
  BY Zenon DEF HeldInv, WellHeld, HeldFramesAreTimed
<1> QED
  BY <1>1, <1>2, <1>3, PTL DEF Spec

-----------------------------------------------------------------------------
(***************************************************************************)
(* The promise.  A number so late that the whole sequence space but a ring *)
(* size lies behind it would count as one to come, so the numbers of an    *)
(* epoch must not be spread that far.                                      *)
(*                                                                         *)
(* A frame is past when its epoch is over or the number awaited has moved  *)
(* beyond it.  What is past is on its way out in one line: delivered, then *)
(* the batches of outChan, then the batch of the goroutine that holds      *)
(* deliverMu, then the one of the goroutine that waits for it holding mu.  *)
(***************************************************************************)
NumbersSpread == \A a, b \in Sent, w \in Windows : a - b + w < SeqSpace

Known == {f \in Frames : arrived[f.gen][f.seq] > 0}

Current == {f \in Known : f.gen = gen}

Past(s, known, epoch, awaited) ==
    \A i \in DOMAIN s :
        /\ s[i] \in known
        /\ s[i].gen < epoch \/ (s[i].gen = epoch /\ s[i].seq < awaited)

Increasing(s) == \A i, j \in DOMAIN s : i < j => Before(s[i], s[j])

Ahead(s, t) == \A i \in DOMAIN s, j \in DOMAIN t : Before(s[i], t[j])

Ring ==
    /\ rb \in ReorderStates(Current)
    /\ rb.expected # 0 => \E g \in Current : rb.expected <= g.seq + 1

Loaded ==
    \A p \in Procs :
        /\ pc[p] \in {"locked", "signal", "deliver"} \/ batch[p] = <<>>
        /\ pc[p] = "deliver" => batch[p] # <<>>

Line ==
    /\ Past(delivered, Known, gen, rb.expected) /\ Increasing(delivered)
    /\ \A k \in DOMAIN outChan :
           /\ outChan[k] # <<>>
           /\ Past(outChan[k], Known, gen, rb.expected) /\ Increasing(outChan[k])
           /\ Ahead(delivered, outChan[k])
           /\ \A l \in DOMAIN outChan : k < l => Ahead(outChan[k], outChan[l])
    /\ \A p \in Procs :
           /\ Past(batch[p], Known, gen, rb.expected) /\ Increasing(batch[p])
           /\ Ahead(delivered, batch[p])
           /\ \A k \in DOMAIN outChan : Ahead(outChan[k], batch[p])
           /\ \A q \in Procs : deliverMu = p /\ mu = q => Ahead(batch[p], batch[q])

OrderInv == CloseInv /\ HeldInv /\ Ring /\ Loaded /\ Line

\* The numbers of the frames of one epoch are as spread as the numbers sent.
LEMMA FramesSpread ==
    ASSUME NumbersSpread, NEW F \in SUBSET Frames
    PROVE  Spread(F)
BY Zenon DEF NumbersSpread, Spread, Frames

\* Epochs and sequence numbers are counted.
LEMMA FramesCount == \A f \in Frames : f.gen \in Nat /\ f.seq \in Nat
<1>1. Sent \subseteq Nat /\ Gens \subseteq Nat
  BY ReorderBufferAssumption, SeqSpaceAssumption DEF Gens, Seqs
<1> QED
  BY <1>1, ZenonT(30) DEF Frames

\* What is past stays past: frames only arrive, the number awaited only moves forward
\* within an epoch, and a Reset ends the epoch.
LEMMA PastStays ==
    ASSUME NEW s, NEW K \in SUBSET Frames, NEW L, K \subseteq L,
           NEW g \in Nat, NEW h \in Nat, NEW e \in Nat, NEW d \in Nat,
           (g = h /\ e <= d) \/ g < h, Past(s, K, g, e)
    PROVE  Past(s, L, h, d)
<1> SUFFICES ASSUME NEW i \in DOMAIN s
             PROVE  s[i] \in L /\ (s[i].gen < h \/ (s[i].gen = h /\ s[i].seq < d))
  BY Zenon DEF Past
<1>1. s[i] \in K /\ (s[i].gen < g \/ (s[i].gen = g /\ s[i].seq < e))
  BY ZenonT(30) DEF Past
<1>2. s[i].gen \in Nat /\ s[i].seq \in Nat
  BY <1>1, FramesCount, ZenonT(30)
<1> QED
  BY <1>1, <1>2

\* What is past comes before everything from the number awaited on.
LEMMA PastAhead ==
    ASSUME NEW s, NEW t, NEW K \in SUBSET Frames, NEW g \in Nat, NEW e \in Nat,
           Past(s, K, g, e),
           \A j \in DOMAIN t : t[j].gen = g /\ t[j].seq \in Nat /\ e <= t[j].seq
    PROVE  Ahead(s, t)
<1> SUFFICES ASSUME NEW i \in DOMAIN s, NEW j \in DOMAIN t
             PROVE  Before(s[i], t[j])
  BY ZenonT(30) DEF Ahead
<1>1. s[i] \in K /\ (s[i].gen < g \/ (s[i].gen = g /\ s[i].seq < e))
  BY Zenon DEF Past
<1>2. s[i].gen \in Nat /\ s[i].seq \in Nat
  BY <1>1, FramesCount, ZenonT(30)
<1> QED
  BY <1>1, <1>2 DEF Before

\* Nothing is in order with anything.
LEMMA NothingInLine ==
    ASSUME NEW s, NEW K, NEW g, NEW e
    PROVE  /\ Past(<<>>, K, g, e) /\ Increasing(<<>>)
           /\ Ahead(s, <<>>) /\ Ahead(<<>>, s)
BY DEF Past, Increasing, Ahead

\* Arrivals are only ever counted up.
LEMMA KnownGrows ==
    ASSUME TypeOK, [Next]_vars
    PROVE  Known \subseteq Known'
<1>1. CASE UNCHANGED arrived
  BY <1>1, ZenonT(30) DEF Known
<1>2. ASSUME NEW p \in Readers, NEW s \in Sent, Insert(p, s) PROVE Known \subseteq Known'
  <2>1. arrived' = [arrived EXCEPT ![gen][s] = @ + 1]
    BY <1>2, Zenon DEF Insert
  <2>2. arrived \in [Gens -> [Sent -> 0 .. Copies]] /\ gen \in Gens /\ Copies \in Nat
    BY ReorderBufferAssumption, ZenonT(30) DEF TypeOK
  <2>3. ASSUME NEW g \in Gens, NEW x \in Sent, arrived[g][x] > 0 PROVE arrived'[g][x] > 0
    BY <2>1, <2>2, <2>3
  <2> QED
    BY <2>3, ZenonT(30) DEF Known, Frames
<1> QED
  BY <1>1, <1>2, ZenonT(30) DEF Next, vars, LockDeliver, Signal, Deliver, TimerCheck, TimerWoken,
     TimerFires, TimerExpire, TimerUnchanged, GapComesDue, Output, OutputExit, Reset, Close,
     CloseDone, Terminated

\* What one stretch of code under mu collects joins the line at its end.
LEMMA Collected ==
    ASSUME OrderInv, TypeOK', Known \subseteq Known',
           NEW p \in Procs, mu = "none", pc[p] \notin {"locked", "signal", "deliver", "close"},
           NEW after \in ReorderStates(Current'), Ordered(after, rb.expected, Current'),
           LeaveWith(p, after), UNCHANGED <<gen, deliverMu, outChan, delivered>>,
           NEW l, pc' = [pc EXCEPT ![p] = l], l # "deliver",
           after.pending # <<>> => l = "locked"
    PROVE  Ring' /\ Loaded' /\ Line'
<1> USE ProcNames
<1> DEFINE e == rb.expected
           d == after.expected
           t == after.pending
<1>1. /\ TypeOK /\ Locking /\ Loaded /\ Line /\ Ring
  BY ZenonT(30) DEF OrderInv, CloseInv
<1>2. /\ pc \in [Procs -> Labels] /\ batch \in [Procs -> Seq(Frames)] /\ gen \in Nat
      /\ Known \in SUBSET Frames /\ Known' \in SUBSET Frames
  <2>1. gen \in Gens /\ pc \in [Procs -> Labels] /\ batch \in [Procs -> Seq(Frames)]
    BY <1>1, Zenon DEF TypeOK
  <2> QED
    BY <2>1, ReorderBufferAssumption DEF Gens, Known
<1>3. e \in Nat /\ d \in Nat /\ e <= d
  <2>1. e \in 0 .. SeqSpace - 1 /\ d \in 0 .. SeqSpace - 1
    BY <1>1, Zenon DEF Ring, ReorderStates
  <2> QED
    BY <2>1, SeqSpaceAssumption DEF Ordered
<1>4. /\ rb' = TakePending(after) /\ batch' = [batch EXCEPT ![p] = t]
      /\ mu' = IF t = <<>> THEN mu ELSE p
  BY ZenonT(30) DEF LeaveWith
<1>5. /\ rb' \in ReorderStates(Current') /\ rb'.expected = d
  BY <1>4, TakePendingType, ZenonT(30)
<1>6. t \in Seq(Current') /\ Current' = {f \in Known' : f.gen = gen}
  BY Zenon DEF ReorderStates, Current
<1>7. \A j \in DOMAIN t : /\ t[j] \in Known' /\ t[j].gen = gen /\ t[j].seq \in Nat
                          /\ e <= t[j].seq /\ t[j].seq < d
  BY <1>2, <1>6, FramesCount DEF Ordered
<1>8. Ring'
  BY <1>5, Zenon DEF Ring, Ordered
<1>9. deliverMu # p
  BY <1>1, ZenonT(30) DEF Locking, Holds
<1>10. Loaded'
  <2>1. ASSUME NEW q \in Procs
        PROVE  /\ pc'[q] \in {"locked", "signal", "deliver"} \/ batch'[q] = <<>>
               /\ pc'[q] = "deliver" => batch'[q] # <<>>
    BY <1>1, <1>2, <1>4, ZenonT(30) DEF Loaded
  <2> QED
    BY <2>1, ZenonT(30) DEF Loaded
<1> HIDE DEF e, d, t
<1>11. ASSUME NEW s, Past(s, Known, gen, e)
       PROVE  Past(s, Known', gen, d) /\ Ahead(s, t)
  <2>1. Past(s, Known', gen, d)
    BY <1>2, <1>3, <1>11, PastStays, ZenonT(30)
  <2>2. Ahead(s, t)
    BY <1>2, <1>3, <1>7, <1>11, PastAhead, ZenonT(30)
  <2> QED
    BY <2>1, <2>2, ZenonT(30)
<1>12. Past(t, Known', gen, d)
  BY <1>7, ZenonT(30) DEF Past
<1>13. Increasing(t)
  <2> SUFFICES ASSUME NEW i \in DOMAIN t, NEW j \in DOMAIN t, i < j PROVE Before(t[i], t[j])
    BY ZenonT(30) DEF Increasing
  <2>1. t[i].seq < t[j].seq
    BY ZenonT(30) DEF Ordered, t
  <2> QED
    BY <1>7, <2>1, Zenon DEF Before
<1>14. /\ Past(delivered, Known, gen, e) /\ Increasing(delivered)
       /\ \A k \in DOMAIN outChan :
             /\ outChan[k] # <<>> /\ Past(outChan[k], Known, gen, e) /\ Increasing(outChan[k])
             /\ Ahead(delivered, outChan[k])
             /\ \A m \in DOMAIN outChan : k < m => Ahead(outChan[k], outChan[m])
       /\ \A q \in Procs :
             /\ Past(batch[q], Known, gen, e) /\ Increasing(batch[q])
             /\ Ahead(delivered, batch[q])
             /\ \A k \in DOMAIN outChan : Ahead(outChan[k], batch[q])
  BY <1>1, Zenon DEF Line, e
<1>15. \A q \in Procs : batch'[q] = IF q = p THEN t ELSE batch[q]
  BY <1>2, <1>4, ZenonT(30)
<1>16. ASSUME NEW q \in Procs
       PROVE  /\ Past(batch'[q], Known', gen, d) /\ Increasing(batch'[q])
              /\ Ahead(delivered, batch'[q])
              /\ \A k \in DOMAIN outChan : Ahead(outChan[k], batch'[q])
              /\ \A r \in Procs : deliverMu = q /\ mu' = r => Ahead(batch'[q], batch'[r])
  <2>1. CASE q = p
    <3>1. batch'[q] = t
      BY <1>15, <2>1, ZenonT(30)
    <3> QED
      BY <1>9, <1>11, <1>12, <1>13, <1>14, <2>1, <3>1, Zenon
  <2>2. CASE q # p
    <3>1. batch'[q] = batch[q]
      BY <1>15, <2>2, Zenon
    <3>2. ASSUME NEW r \in Procs, mu' = r PROVE Ahead(batch[q], batch'[r])
      <4>1. r = p /\ batch'[r] = t
        BY <1>4, <1>15, <3>2, ZenonT(30)
      <4> QED
        BY <1>11, <1>14, <4>1, Zenon
    <3> QED
      BY <1>11, <1>14, <3>1, <3>2, Zenon
  <2> QED
    BY <2>1, <2>2, ZenonT(30)
<1>17. ASSUME NEW k \in DOMAIN outChan
       PROVE  /\ outChan[k] # <<>> /\ Past(outChan[k], Known', gen, d)
              /\ Increasing(outChan[k]) /\ Ahead(delivered, outChan[k])
              /\ \A m \in DOMAIN outChan : k < m => Ahead(outChan[k], outChan[m])
  BY <1>11, <1>14, Zenon
<1>18. Past(delivered, Known', gen, d) /\ Increasing(delivered)
  BY <1>11, <1>14, Zenon
<1>19. Line'
  BY <1>5, <1>16, <1>17, <1>18, Zenon DEF Line
<1> QED
  BY <1>8, <1>10, <1>19, ZenonT(30)
\* A batch that is sent goes to the end of outChan, where its holder's turn was.
LEMMA DeliverInLine ==
    ASSUME OrderInv, NEW p \in Procs, Deliver(p)
    PROVE  Ring' /\ Loaded' /\ Line'
<1> USE ProcNames DEF Goto
<1> DEFINE b == batch[p]
<1>1. TypeOK /\ Places /\ Locking /\ Ring /\ Loaded /\ Line
  BY Zenon DEF OrderInv, CloseInv
<1>2. /\ pc \in [Procs -> Labels] /\ batch \in [Procs -> Seq(Frames)]
      /\ outChan \in Seq(Seq(Frames))
  BY <1>1, Zenon DEF TypeOK
<1>3. /\ pc[p] = "deliver" /\ deliverMu' = "none" /\ batch' = [batch EXCEPT ![p] = <<>>]
      /\ pc' = [pc EXCEPT ![p] = IF p = "timer" THEN "check" ELSE "idle"]
      /\ outChan' = outChan \/ outChan' = Append(outChan, b)
      /\ UNCHANGED <<rb, gen, arrived, mu, delivered>>
  BY Zenon DEF Deliver
<1>4. Ring' /\ Known' = Known
  BY <1>1, <1>3, Zenon DEF Ring, Known, Current
<1>5. Loaded'
  BY <1>1, <1>2, <1>3, ZenonT(30) DEF Loaded
<1>6. b # <<>> /\ deliverMu = p
  BY <1>1, <1>3, ZenonT(30) DEF Loaded, Locking, Holds
<1>7. \A q \in Procs : batch'[q] = IF q = p THEN <<>> ELSE batch[q]
  BY <1>2, <1>3, ZenonT(30)
<1>8. \A q \in Procs : Ahead(b, batch'[q])
  <2> TAKE q \in Procs
  <2>1. CASE batch'[q] = <<>>
    BY <2>1, NothingInLine, ZenonT(30)
  <2>2. CASE batch'[q] # <<>>
    <3>1. q # p /\ batch'[q] = batch[q] /\ batch[q] # <<>>
      BY <1>7, <2>2, ZenonT(30)
    <3>2. pc[q] \in {"locked", "signal", "deliver"}
      BY <1>1, <3>1, ZenonT(30) DEF Loaded
    <3>3. mu = q
      BY <1>1, <1>6, <3>1, <3>2, ZenonT(30) DEF Locking, Holds
    <3> QED
      BY <1>1, <1>6, <3>1, <3>3, Zenon DEF Line
  <2> QED
    BY <2>1, <2>2, ZenonT(30)
<1> HIDE DEF b
<1>9. /\ Past(b, Known, gen, rb.expected) /\ Increasing(b) /\ Ahead(delivered, b)
      /\ \A k \in DOMAIN outChan : Ahead(outChan[k], b)
  BY <1>1, Zenon DEF Line, b
<1>10. \A q \in Procs :
          /\ Past(batch'[q], Known, gen, rb.expected) /\ Increasing(batch'[q])
          /\ Ahead(delivered, batch'[q])
          /\ \A k \in DOMAIN outChan : Ahead(outChan[k], batch'[q])
  <2> TAKE q \in Procs
  <2>1. CASE q = p
    <3>1. batch'[q] = <<>>
      BY <1>7, <2>1, ZenonT(30)
    <3> QED
      BY <3>1, NothingInLine, Zenon
  <2>2. CASE q # p
    <3>1. batch'[q] = batch[q]
      BY <1>7, <2>2, ZenonT(30)
    <3> QED
      BY <1>1, <3>1, Zenon DEF Line
  <2> QED
    BY <2>1, <2>2, ZenonT(30)
<1>11. \A q \in Procs : deliverMu' # q
  BY <1>3, ZenonT(30)
<1>12. CASE outChan' = outChan
  <2>1. Line'
    BY <1>1, <1>3, <1>4, <1>10, <1>11, <1>12, Zenon DEF Line
  <2> QED
    BY <1>4, <1>5, <2>1, ZenonT(30)
<1>13. CASE outChan' = Append(outChan, b)
  <2> DEFINE n == Len(outChan)
  <2>1. /\ n \in Nat /\ DOMAIN outChan = 1 .. n /\ DOMAIN outChan' = 1 .. n + 1
        /\ outChan'[n + 1] = b /\ \A k \in 1 .. n : outChan'[k] = outChan[k]
    <3>1. b \in Seq(Frames)
      BY <1>2, ZenonT(30) DEF b
    <3> QED
      BY <1>2, <1>13, <3>1
  <2> HIDE DEF n
  <2>2. \A k \in 1 .. n + 1 : k = n + 1 \/ k \in 1 .. n
    BY <2>1
  <2>3. \A k \in 1 .. n : k < n + 1 /\ ~(n + 1 < k)
    BY <2>1
  <2>4. ~(n + 1 < n + 1)
    BY <2>1
  <2>5. ASSUME NEW k \in 1 .. n + 1
        PROVE  /\ outChan'[k] # <<>> /\ Past(outChan'[k], Known, gen, rb.expected)
               /\ Increasing(outChan'[k]) /\ Ahead(delivered, outChan'[k])
               /\ \A q \in Procs : Ahead(outChan'[k], batch'[q])
    <3>1. CASE k = n + 1
      BY <1>6, <1>8, <1>9, <2>1, <3>1, Zenon DEF b
    <3>2. CASE k \in 1 .. n
      BY <1>1, <1>10, <2>1, <3>2, Zenon DEF Line
    <3> QED
      BY <2>2, <3>1, <3>2, Zenon
  <2>6. ASSUME NEW k \in 1 .. n + 1, NEW m \in 1 .. n + 1, k < m
        PROVE  Ahead(outChan'[k], outChan'[m])
    <3>1. k \in 1 .. n
      BY <2>2, <2>3, <2>4, <2>6, ZenonT(30)
    <3>2. CASE m = n + 1
      BY <1>9, <2>1, <3>1, <3>2, Zenon
    <3>3. CASE m \in 1 .. n
      BY <1>1, <2>1, <2>6, <3>1, <3>3, Zenon DEF Line
    <3> QED
      BY <2>2, <3>2, <3>3, ZenonT(30)
  <2>7. Past(delivered, Known, gen, rb.expected) /\ Increasing(delivered)
    BY <1>1, Zenon DEF Line
  <2>8. \A k \in DOMAIN outChan' :
           /\ outChan'[k] # <<>> /\ Past(outChan'[k], Known, gen, rb.expected)
           /\ Increasing(outChan'[k]) /\ Ahead(delivered, outChan'[k])
           /\ \A m \in DOMAIN outChan' : k < m => Ahead(outChan'[k], outChan'[m])
    BY <2>1, <2>5, <2>6, Zenon
  <2>9. \A q \in Procs :
           /\ Past(batch'[q], Known, gen, rb.expected) /\ Increasing(batch'[q])
           /\ Ahead(delivered, batch'[q])
           /\ \A k \in DOMAIN outChan' : Ahead(outChan'[k], batch'[q])
    BY <1>10, <2>1, <2>5, Zenon
  <2>10. Line'
    BY <1>3, <1>4, <1>11, <2>7, <2>8, <2>9, Zenon DEF Line
  <2> QED
    BY <1>4, <1>5, <2>10, Zenon
<1> QED
  BY <1>3, <1>12, <1>13, ZenonT(30)

\* outWorker hands on the first batch of the line, and the rest moves up.
LEMMA OutputInLine ==
    ASSUME OrderInv, Output
    PROVE  Ring' /\ Loaded' /\ Line'
<1> DEFINE h == outChan[1]
           m == Len(outChan) - 1
           n == Len(delivered)
<1>1. TypeOK /\ Ring /\ Loaded /\ Line
  BY Zenon DEF OrderInv, CloseInv
<1>2. delivered \in Seq(Frames) /\ outChan \in Seq(Seq(Frames)) /\ outChan # <<>>
  BY <1>1, Zenon DEF TypeOK, Output
<1>3. /\ UNCHANGED <<rb, gen, arrived, pc, batch, deliverMu, mu>>
      /\ delivered' = delivered \o Head(outChan) /\ outChan' = Tail(outChan)
  BY Zenon DEF Output
<1>4. /\ h \in Seq(Frames) /\ Head(outChan) = h /\ 1 \in DOMAIN outChan /\ m \in Nat
      /\ DOMAIN outChan' = 1 .. m
      /\ \A k \in 1 .. m : /\ outChan'[k] = outChan[k + 1] /\ k + 1 \in DOMAIN outChan
                           /\ 1 < k + 1 /\ \A l \in 1 .. m : k < l => k + 1 < l + 1
  <2>1. Len(outChan) \in Nat /\ Len(outChan) > 0 /\ DOMAIN outChan = 1 .. Len(outChan)
    BY <1>2
  <2>2. h \in Seq(Frames) /\ Head(outChan) = h
    BY <1>2, <2>1
  <2>3. outChan' \in Seq(Seq(Frames)) /\ Len(outChan') = m
    BY <1>2, <1>3
  <2>4. \A k \in 1 .. m : outChan'[k] = outChan[k + 1]
    BY <1>2, <1>3
  <2> QED
    BY <2>1, <2>2, <2>3, <2>4
<1> HIDE DEF h, m
<1>5. /\ n \in Nat /\ DOMAIN delivered = 1 .. n /\ DOMAIN delivered' = 1 .. n + Len(h)
      /\ \A i \in 1 .. n : delivered'[i] = delivered[i]
      /\ \A i \in n + 1 .. n + Len(h) : delivered'[i] = h[i - n] /\ i - n \in DOMAIN h
  <2>1. /\ n \in Nat /\ Len(h) \in Nat
        /\ DOMAIN (delivered \o h) = 1 .. n + Len(h)
        /\ \A i \in 1 .. n : (delivered \o h)[i] = delivered[i]
        /\ \A i \in n + 1 .. n + Len(h) : (delivered \o h)[i] = h[i - n]
    <3>1. delivered \in Seq(Frames) /\ h \in Seq(Frames)
      BY <1>2, <1>4, Zenon
    <3> QED
      BY <3>1, Joined
  <2>2. delivered' = delivered \o h
    BY <1>3, <1>4, ZenonT(30)
  <2>3. DOMAIN delivered = 1 .. n /\ DOMAIN h = 1 .. Len(h)
    BY <1>2, <1>4
  <2>4. \A i \in n + 1 .. n + Len(h) : i - n \in 1 .. Len(h)
    BY <2>1
  <2> HIDE DEF n
  <2> QED
    BY <2>1, <2>2, <2>3, <2>4, Zenon
<1>6. Len(h) \in Nat
  BY <1>4
<1> HIDE DEF n
<1>7. \A i \in DOMAIN delivered' :
         \/ i \in DOMAIN delivered /\ delivered'[i] = delivered[i]
         \/ i \in n + 1 .. n + Len(h) /\ delivered'[i] = h[i - n] /\ i - n \in DOMAIN h
  BY <1>5, <1>6
<1>8. /\ Past(h, Known, gen, rb.expected) /\ Increasing(h) /\ Ahead(delivered, h)
      /\ \A p \in Procs : Ahead(h, batch[p])
      /\ \A k \in DOMAIN outChan : 1 < k => Ahead(h, outChan[k])
  BY <1>1, <1>4, Zenon DEF Line, h
<1>9. Past(delivered', Known, gen, rb.expected)
  <2> SUFFICES ASSUME NEW i \in DOMAIN delivered'
               PROVE  /\ delivered'[i] \in Known
                      /\ \/ delivered'[i].gen < gen
                         \/ delivered'[i].gen = gen /\ delivered'[i].seq < rb.expected
    BY Zenon DEF Past
  <2>1. CASE i \in DOMAIN delivered /\ delivered'[i] = delivered[i]
    <3>1. Past(delivered, Known, gen, rb.expected)
      BY <1>1, Zenon DEF Line
    <3> QED
      BY <2>1, <3>1, Zenon DEF Past
  <2>2. CASE delivered'[i] = h[i - n] /\ i - n \in DOMAIN h
    BY <1>8, <2>2, Zenon DEF Past
  <2> QED
    BY <1>7, <2>1, <2>2, Zenon
<1>10. Increasing(delivered')
  <2> SUFFICES ASSUME NEW i \in DOMAIN delivered', NEW j \in DOMAIN delivered', i < j
               PROVE  Before(delivered'[i], delivered'[j])
    BY ZenonT(30) DEF Increasing
  <2>1. CASE i \in DOMAIN delivered /\ j \in DOMAIN delivered
    BY <1>1, <1>5, <2>1, Zenon DEF Line, Increasing
  <2>2. CASE i \in DOMAIN delivered /\ j \in n + 1 .. n + Len(h)
    BY <1>5, <1>8, <2>2, Zenon DEF Ahead
  <2>3. CASE i \in n + 1 .. n + Len(h) /\ j \in n + 1 .. n + Len(h)
    <3>1. i - n < j - n
      BY <1>5, <1>6, <2>3
    <3> QED
      BY <1>5, <1>8, <2>3, <3>1, Zenon DEF Increasing
  <2>4. CASE i \in n + 1 .. n + Len(h) /\ j \in DOMAIN delivered
    BY <1>5, <1>6, <2>4
  <2> QED
    BY <1>7, <2>1, <2>2, <2>3, <2>4, Zenon
<1>11. ASSUME NEW x, Ahead(delivered, x), Ahead(h, x) PROVE Ahead(delivered', x)
  BY <1>7, <1>11, Zenon DEF Ahead
<1>12. ASSUME NEW k \in 1 .. m
       PROVE  /\ outChan'[k] # <<>> /\ Past(outChan'[k], Known, gen, rb.expected)
              /\ Increasing(outChan'[k]) /\ Ahead(delivered', outChan'[k])
              /\ \A l \in 1 .. m : k < l => Ahead(outChan'[k], outChan'[l])
              /\ \A p \in Procs : Ahead(outChan'[k], batch[p])
  <2>1. /\ outChan'[k] = outChan[k + 1] /\ k + 1 \in DOMAIN outChan /\ 1 < k + 1
        /\ \A l \in 1 .. m : k < l => k + 1 < l + 1
    BY <1>4, ZenonT(30)
  <2>2. Ahead(delivered, outChan[k + 1]) /\ Ahead(h, outChan[k + 1])
    BY <1>1, <1>8, <2>1, Zenon DEF Line
  <2>3. /\ outChan[k + 1] # <<>> /\ Past(outChan[k + 1], Known, gen, rb.expected)
        /\ Increasing(outChan[k + 1]) /\ \A p \in Procs : Ahead(outChan[k + 1], batch[p])
    BY <1>1, <2>1, Zenon DEF Line
  <2>4. ASSUME NEW l \in 1 .. m, k < l PROVE Ahead(outChan'[k], outChan'[l])
    <3>1. outChan'[l] = outChan[l + 1] /\ l + 1 \in DOMAIN outChan /\ k + 1 < l + 1
      BY <1>4, <2>1, <2>4, ZenonT(30)
    <3> QED
      BY <1>1, <2>1, <3>1, Zenon DEF Line
  <2> QED
    BY <1>11, <2>1, <2>2, <2>3, <2>4, Zenon
<1>13. \A p \in Procs : /\ Past(batch[p], Known, gen, rb.expected) /\ Increasing(batch[p])
                        /\ Ahead(delivered', batch[p])
                        /\ \A q \in Procs : deliverMu = p /\ mu = q => Ahead(batch[p], batch[q])
  BY <1>1, <1>8, <1>11, Zenon DEF Line
<1>14. Ring' /\ Loaded' /\ Known' = Known
  BY <1>1, <1>3, Zenon DEF Ring, Loaded, Known, Current
<1>15. Line'
  BY <1>3, <1>4, <1>9, <1>10, <1>12, <1>13, <1>14, Zenon DEF Line
<1> QED
  BY <1>14, <1>15, ZenonT(30)

\* Everything is in order before the first frame.
LEMMA OrderInit == Init => OrderInv
<1> SUFFICES ASSUME Init PROVE OrderInv
  BY Zenon
<1>1. Ring
  <2>1. NewReorder \in ReorderStates(Current) /\ NewReorder.expected = 0
    BY SmallestWindow, SeqSpaceAssumption DEF NewReorder, ReorderStates
  <2> QED
    BY <2>1, ZenonT(30) DEF Init, Ring
<1>2. Loaded
  BY Zenon DEF Init, Loaded
<1>3. delivered = <<>> /\ outChan = <<>> /\ \A p \in Procs : batch[p] = <<>>
  BY Zenon DEF Init
<1>4. \A k \in DOMAIN outChan : FALSE
  BY <1>3
<1>5. Line
  BY <1>3, <1>4, NothingInLine, Zenon DEF Line
<1> QED
  BY <1>1, <1>2, <1>5, CloseInit, HeldInit, ZenonT(30) DEF OrderInv

\* Every step keeps the order.
LEMMA OrderStep ==
    ASSUME LastNumberUnused, NumbersSpread
    PROVE  OrderInv /\ [Next]_vars => OrderInv'
<1> SUFFICES ASSUME OrderInv, [Next]_vars PROVE OrderInv'
  BY ZenonT(30)
<1> USE ProcNames DEF Goto
<1>0. /\ CloseInv' /\ HeldInv'
  BY CloseStep, HeldStep, Zenon DEF OrderInv
<1> SUFFICES Ring' /\ Loaded' /\ Line'
  BY <1>0, Zenon DEF OrderInv
<1>a. /\ TypeOK /\ TypeOK' /\ Places /\ Locking /\ Ring /\ Loaded /\ Line /\ WellHeld(rb)
  BY <1>0, Zenon DEF OrderInv, CloseInv, HeldInv
<1>b. /\ pc \in [Procs -> Labels] /\ batch \in [Procs -> Seq(Frames)] /\ gen \in Gens
      /\ gen \in Nat /\ Known \in SUBSET Frames /\ Known' \in SUBSET Frames
      /\ delivered \in Seq(Frames) /\ outChan \in Seq(Seq(Frames)) /\ rb.pending = <<>>
  <2>1. /\ gen \in Gens /\ pc \in [Procs -> Labels] /\ batch \in [Procs -> Seq(Frames)]
        /\ delivered \in Seq(Frames) /\ outChan \in Seq(Seq(Frames)) /\ rb.pending = <<>>
    BY <1>a, Zenon DEF TypeOK
  <2> QED
    BY <2>1, ReorderBufferAssumption DEF Gens, Known
<1>c. Known \subseteq Known'
  BY <1>a, KnownGrows, Zenon
<1>d. rb.expected \in Nat
  BY <1>a, SeqSpaceAssumption DEF Ring, ReorderStates
<1>e. \A F \in SUBSET Frames : Spread(F) /\ \A f \in F : f.seq \in 1 .. SeqSpace - 2 /\ f.seq \in Seqs
  BY FramesSpread, NumbersBeforeLast, FramesHaveNumbers, Zenon
<1>f. ASSUME UNCHANGED <<rb, gen, arrived, pc, batch, deliverMu, mu, outChan, delivered>>
      PROVE  Ring' /\ Loaded' /\ Line'
  BY <1>a, <1>f, Zenon DEF Ring, Loaded, Line, Known, Current
<1>g. ASSUME gen' = gen
      PROVE  /\ rb \in ReorderStates(Current') /\ Ordered(rb, rb.expected, Current')
             /\ Current' \in SUBSET Frames
  <2>1. Current \subseteq Current' /\ Current' \in SUBSET Frames
    BY <1>b, <1>c, <1>g, Zenon DEF Current
  <2>2. rb \in ReorderStates(Current')
    BY <1>a, <2>1, MoreFrames, ZenonT(30) DEF Ring
  <2>3. DOMAIN rb.pending = {}
    BY <1>b
  <2> QED
    BY <1>a, <1>d, <2>1, <2>2, <2>3 DEF Ordered, Ring
<1>1. ASSUME NEW p \in Readers, NEW s \in Sent, Insert(p, s) PROVE Ring' /\ Loaded' /\ Line'
  <2> DEFINE f == [seq |-> s, gen |-> gen]
             after == InsertLocked(rb, f)
             l == IF after.pending # <<>> THEN "locked" ELSE IF wakes'[p] THEN "signal" ELSE "idle"
  <2>1. CASE shutting
    <3>1. UNCHANGED <<rb, gen, pc, batch, deliverMu, mu, outChan, delivered>>
      BY <1>1, <2>1, Zenon DEF Insert
    <3>2. Ring' /\ Loaded'
      <4>1. Current \subseteq Current'
        BY <1>c, <3>1, ZenonT(30) DEF Current
      <4> QED
        BY <1>a, <1>g, <3>1, <4>1, ZenonT(30) DEF Ring, Loaded
    <3>3. \A x : Past(x, Known, gen, rb.expected) => Past(x, Known', gen, rb.expected)
      BY <1>c, Zenon DEF Past
    <3> QED
      BY <1>a, <3>1, <3>2, <3>3, Zenon DEF Line
  <2>2. CASE ~shutting
    <3>1. /\ pc[p] = "idle" /\ mu = "none" /\ arrived' = [arrived EXCEPT ![gen][s] = @ + 1]
          /\ LeaveWith(p, after) /\ pc' = [pc EXCEPT ![p] = l]
          /\ UNCHANGED <<gen, deliverMu, outChan, delivered>>
      BY <1>1, <2>2, Zenon DEF Insert
    <3>2. f \in Current'
      <4>1. f \in Frames /\ f.gen = gen /\ f.seq = s
        BY <1>b, ZenonT(30) DEF Frames
      <4>2. arrived'[gen][s] > 0
        <5>1. arrived \in [Gens -> [Sent -> 0 .. Copies]] /\ Copies \in Nat
          BY <1>a, ReorderBufferAssumption, Zenon DEF TypeOK
        <5>2. arrived[gen][s] \in Nat
          BY <1>b, <5>1
        <5>3. arrived'[gen][s] = arrived[gen][s] + 1
          BY <1>b, <3>1, <5>1, Zenon
        <5> QED
          BY <5>2, <5>3
      <4> QED
        BY <3>1, <4>1, <4>2, ZenonT(30) DEF Current, Known
    <3> HIDE DEF f
    <3>3. /\ rb \in ReorderStates(Current') /\ Ordered(rb, rb.expected, Current')
          /\ Current' \in SUBSET Frames
      BY <1>g, <3>1, ZenonT(30)
    <3>4. after \in ReorderStates(Current')
      BY <1>e, <3>2, <3>3, InsertType, ZenonT(30)
    <3>5. Ordered(after, rb.expected, Current')
      BY <1>a, <1>d, <1>e, <3>2, <3>3, InsertOrders, Zenon
    <3> HIDE DEF after
    <3>6. p \in Procs /\ l # "deliver" /\ (after.pending # <<>> => l = "locked")
      BY ZenonT(30)
    <3> HIDE DEF l
    <3> QED
      BY <1>a, <1>c, <3>1, <3>4, <3>5, <3>6, Collected, ZenonT(30)
  <2> QED
    BY <2>1, <2>2, ZenonT(30)
<1>2. ASSUME NEW p \in Procs, LockDeliver(p) PROVE Ring' /\ Loaded' /\ Line'
  <2>1. /\ pc[p] = "locked" /\ mu' = "none"
        /\ UNCHANGED <<rb, gen, arrived, batch, outChan, delivered>>
    BY <1>2, Zenon DEF LockDeliver
  <2>2. Ring' /\ Line'
    BY <1>a, <2>1, Zenon DEF Ring, Line, Known, Current
  <2>3. Loaded'
    BY <1>2, <1>a, <1>b DEF LockDeliver, Loaded, Places
  <2> QED
    BY <2>2, <2>3, ZenonT(30)
<1>3. ASSUME NEW p \in Procs, Signal(p) PROVE Ring' /\ Loaded' /\ Line'
  <2>1. UNCHANGED <<rb, gen, arrived, batch, deliverMu, mu, outChan, delivered>>
    BY <1>3, Zenon DEF Signal
  <2>2. Ring' /\ Line'
    BY <1>a, <2>1, Zenon DEF Ring, Line, Known, Current
  <2>3. Loaded'
    BY <1>3, <1>a, <1>b, ZenonT(30) DEF Signal, Loaded
  <2> QED
    BY <2>2, <2>3, Zenon
<1>5. CASE TimerCheck \/ TimerWoken \/ TimerFires
  <2>1. UNCHANGED <<rb, gen, arrived, batch, deliverMu, mu, outChan, delivered>>
    BY <1>5, Zenon DEF TimerCheck, TimerWoken, TimerFires, TimerUnchanged
  <2>2. Ring' /\ Line'
    BY <1>a, <2>1, Zenon DEF Ring, Line, Known, Current
  <2>3. pc["timer"] \in {"check", "asleep", "armed"} /\ pc'["timer"] # "deliver"
    BY <1>5, <1>b, ZenonT(30) DEF TimerCheck, TimerWoken, TimerFires
  <2>4. \A q \in Procs : q # "timer" => pc'[q] = pc[q]
    BY <1>5, <1>b, ZenonT(30) DEF TimerCheck, TimerWoken, TimerFires
  <2>5. Loaded'
    BY <1>a, <2>1, <2>3, <2>4, ZenonT(30) DEF Loaded
  <2> QED
    BY <2>2, <2>5, Zenon
<1>6. CASE TimerExpire
  <2> DEFINE after == IF Expirable(rb) THEN ExpireGap(rb) ELSE rb
             l == IF after.pending = <<>> THEN "check" ELSE "locked"
  <2>1. /\ pc["timer"] = "expire" /\ mu = "none" /\ LeaveWith("timer", after)
        /\ pc' = [pc EXCEPT !["timer"] = l]
        /\ UNCHANGED <<gen, deliverMu, outChan, delivered>>
    BY <1>6, Zenon DEF TimerExpire, TimerUnchanged
  <2>2. /\ rb \in ReorderStates(Current') /\ Ordered(rb, rb.expected, Current')
        /\ Current' \in SUBSET Frames
    BY <1>g, <2>1, ZenonT(30)
  <2>3. after \in ReorderStates(Current') /\ Ordered(after, rb.expected, Current')
    <3>1. CASE Expirable(rb)
      <4>1. rb.ring # {}
        BY <3>1, ZenonT(30) DEF Expirable
      <4>2. ExpireGap(rb) \in ReorderStates(Current')
        BY <2>2, ExpireType, Zenon
      <4>3. Ordered(ExpireGap(rb), rb.expected, Current')
        BY <1>a, <1>d, <1>e, <2>2, <4>1, ExpireOrders, ZenonT(30)
      <4> QED
        BY <3>1, <4>2, <4>3, ZenonT(30)
    <3>2. CASE ~Expirable(rb)
      BY <2>2, <3>2, Zenon
    <3> QED
      BY <3>1, <3>2, Zenon
  <2> HIDE DEF after
  <2>4. l # "deliver" /\ (after.pending # <<>> => l = "locked")
    BY ZenonT(30)
  <2> HIDE DEF l
  <2> QED
    BY <1>a, <1>c, <2>1, <2>3, <2>4, Collected, Zenon
<1>7. CASE GapComesDue
  <2>1. /\ rb' = [rb EXCEPT !.gap = "due"]
        /\ UNCHANGED <<gen, arrived, pc, batch, deliverMu, mu, outChan, delivered>>
    BY <1>7, Zenon DEF GapComesDue
  <2>2. rb' \in ReorderStates(Current) /\ rb'.expected = rb.expected
    BY <1>a, <2>1, Zenon DEF Ring, ReorderStates
  <2> QED
    BY <1>a, <2>1, <2>2, Zenon DEF Ring, Loaded, Line, Known, Current
<1>8. CASE OutputExit \/ UNCHANGED vars \/ Terminated
  BY <1>8, <1>f, Zenon DEF OutputExit, vars, Terminated
<1>9. CASE Reset
  <2>1. /\ rb' = ResetReorder(rb) /\ gen' = gen + 1 /\ pc' = [pc EXCEPT !["ctl"] = "signal"]
        /\ UNCHANGED <<arrived, batch, deliverMu, mu, outChan, delivered>>
    BY <1>9, Zenon DEF Reset
  <2>2. rb'.ring = {} /\ rb'.pending = <<>> /\ rb' \in ReorderStates(Frames) /\ rb'.expected = 0
    BY <1>a, <2>1, ResetType, ZenonT(30) DEF TypeOK, ResetReorder, ReorderStates
  <2>3. rb' \in ReorderStates(Current')
    <3>1. rb' \in ReorderStates(Current) /\ rb'.ring \in SUBSET Current'
      BY <1>a, <2>1, <2>2, ResetType, ZenonT(30) DEF Ring
    <3>2. rb'.pending \in Seq(Current')
      BY <2>2
    <3> QED
      BY <3>1, <3>2, Zenon DEF ReorderStates
  <2>4. Ring'
    BY <2>2, <2>3, ZenonT(30) DEF Ring
  <2>5. Loaded'
    BY <1>a, <1>b, <2>1, ZenonT(30) DEF Loaded, Places
  <2>6. \A x : Past(x, Known, gen, rb.expected) => Past(x, Known', gen', rb'.expected)
    <3>1. gen < gen' /\ gen' \in Nat /\ rb'.expected \in Nat
      BY <1>b, <2>1, <2>2
    <3> QED
      BY <1>b, <1>c, <1>d, <3>1, PastStays, ZenonT(30)
  <2> QED
    BY <1>a, <2>1, <2>4, <2>5, <2>6, Zenon DEF Line
<1>10. CASE Close
  <2>1. /\ rb' = [rb EXCEPT !.ring = {}, !.pending = <<>>] /\ mu' = "ctl"
        /\ pc' = [pc EXCEPT !["ctl"] = "locked"]
        /\ UNCHANGED <<gen, arrived, batch, deliverMu, outChan, delivered>>
    BY <1>10, Zenon DEF Close
  <2>2. rb' = TakePending([rb EXCEPT !.ring = {}])
    BY <1>a, <2>1, ZenonT(30) DEF TakePending, Ring, ReorderStates
  <2>3. [rb EXCEPT !.ring = {}] \in ReorderStates(Current)
        /\ [rb EXCEPT !.ring = {}].expected = rb.expected
    BY <1>a, Zenon DEF Ring, ReorderStates
  <2>4. rb' \in ReorderStates(Current) /\ rb'.expected = rb.expected
    BY <2>2, <2>3, TakePendingType, ZenonT(30)
  <2>5. Ring'
    BY <1>a, <2>1, <2>4, Zenon DEF Ring, Current, Known
  <2>6. Loaded'
    BY <1>a, <1>b, <2>1, Zenon DEF Loaded, Places
  <2>7. batch["ctl"] = <<>>
    BY <1>a, ZenonT(30) DEF Places
  <2>8. \A q \in Procs : Ahead(batch[q], batch["ctl"])
    BY <2>7, NothingInLine, Zenon
  <2>9. \A q, r \in Procs : mu' = r => Ahead(batch[q], batch[r])
    BY <2>1, <2>8, Zenon
  <2> QED
    BY <1>a, <2>1, <2>4, <2>5, <2>6, <2>9, Zenon DEF Line, Known
<1>11. CASE CloseDone
  <2>1. /\ pc["ctl"] = "close" /\ pc' = [pc EXCEPT !["ctl"] = "done"] /\ deliverMu' = "none"
        /\ UNCHANGED <<rb, gen, arrived, batch, mu, outChan, delivered>>
    BY <1>11, Zenon DEF CloseDone
  <2>2. Loaded'
    BY <1>a, <1>b, <2>1, Zenon DEF Loaded
  <2> QED
    BY <1>a, <2>1, <2>2, Zenon DEF Ring, Line, Known, Current
<1>12. ASSUME NEW p \in Procs, Deliver(p) PROVE Ring' /\ Loaded' /\ Line'
  BY <1>12, DeliverInLine, Zenon
<1>13. CASE Output
  BY <1>13, OutputInLine, Zenon
<1> QED
  BY <1>1, <1>2, <1>3, <1>5, <1>6, <1>7, <1>8, <1>9, <1>10, <1>11, <1>12, <1>13, Zenon DEF Next
\* A batch that outWorker hands on extends the history in order.
LEMMA OutputHandsOn ==
    ASSUME OrderInv, OrderInv', Known \subseteq Known', Output
    PROVE  Promise!HandOn
<1> DEFINE h == Head(outChan)
           n == Len(delivered)
<1>1. delivered \in Seq(Frames) /\ outChan \in Seq(Seq(Frames)) /\ outChan # <<>>
  BY Zenon DEF OrderInv, CloseInv, TypeOK, Output
<1>2. delivered' = delivered \o h
  BY ZenonT(30) DEF Output
<1>3. h \in Seq(Frames) /\ h # <<>>
  <2>1. 1 \in DOMAIN outChan /\ h = outChan[1] /\ outChan[1] \in Seq(Frames)
    BY <1>1
  <2> QED
    BY <2>1, Zenon DEF OrderInv, Line
<1>4. Len(h) \in Nat /\ Len(h) > 0
  BY <1>3
<1> HIDE DEF h
<1>5. /\ delivered' \in Seq(Frames) /\ n \in Nat /\ Len(delivered') = n + Len(h)
      /\ \A i \in 1 .. n : delivered'[i] = delivered[i]
  BY <1>1, <1>2, <1>3, Joined
<1>6. Len(delivered') > Len(delivered)
  BY <1>4, <1>5
<1>7. SubSeq(delivered', 1, Len(delivered)) = delivered
  BY <1>1, <1>4, <1>5
<1>8. /\ Past(delivered', Known', gen', rb'.expected) /\ Increasing(delivered')
  BY Zenon DEF OrderInv, Line
<1>9. \A i \in Len(delivered) + 1 .. Len(delivered') : delivered'[i] \in Known'
  BY <1>5, <1>8 DEF Past
<1>10. \A i \in Len(delivered) .. Len(delivered') - 1 :
          i > 0 => Before(delivered'[i], delivered'[i + 1])
  <2> DEFINE m == Len(delivered')
  <2>1. m \in Nat /\ DOMAIN delivered' = 1 .. m
    BY <1>5
  <2> HIDE DEF m, n
  <2>2. \A i \in n .. m - 1 : i > 0 => i \in 1 .. m /\ i + 1 \in 1 .. m /\ i < i + 1
    BY <1>5, <2>1
  <2> QED
    BY <1>8, <2>1, <2>2, Zenon DEF Increasing, n, m
<1> QED
  BY <1>6, <1>7, <1>9, <1>10, ZenonT(30)
     DEF Promise!HandOn, Promise!Precedes, Before, Known, Frames

(***************************************************************************)
(* The buffer keeps its promise: what outFunc sees is a behaviour of the   *)
(* sequential InOrderDelivery, although any number of readers and the gap  *)
(* worker take batches from the ring and race for deliverMu, and Reset and *)
(* Close come in between (buffer.go: "outputs the received frames in       *)
(* order").  Each step maps to a step of the promise or to a stutter: only *)
(* outWorker hands on, and what it hands on is the head of the line that   *)
(* OrderInv describes.                                                     *)
(***************************************************************************)
THEOREM KeepsPromise ==
    ASSUME LastNumberUnused, NumbersSpread
    PROVE  Spec => ImplementsInOrderDelivery
<1>1. Init => OrderInv
  BY OrderInit, ZenonT(30)
<1>2. OrderInv /\ [Next]_vars => OrderInv'
  BY OrderStep, Zenon
<1>3. Init => Promise!Init
  <2> SUFFICES ASSUME Init PROVE Promise!Init
    BY ZenonT(30)
  <2>1. \A f \in [seq : Sent, gen : Gens] : ~(arrived[f.gen][f.seq] > 0)
    BY DEF Init
  <2> QED
    BY <2>1, ZenonT(30) DEF Init, Promise!Init
<1>4. OrderInv /\ OrderInv' /\ [Next]_vars
        => [Promise!Next]_<<{f \in [seq : Sent, gen : Gens] : arrived[f.gen][f.seq] > 0}, delivered>>
  <2> SUFFICES ASSUME OrderInv, OrderInv', [Next]_vars
               PROVE  Promise!Next
    BY ZenonT(30)
  <2>1. Known \subseteq Known'
    BY KnownGrows, ZenonT(30) DEF OrderInv, CloseInv
  <2>2. CASE Output
    BY <2>1, <2>2, OutputHandsOn, Zenon DEF Promise!Next
  <2>3. CASE UNCHANGED delivered
    BY <2>1, <2>3, Zenon DEF Promise!Next, Promise!Receive, Known, Frames
  <2> QED
    BY <2>2, <2>3, Zenon DEF Next, vars, Insert, LockDeliver, Signal, Deliver, TimerCheck,
       TimerWoken, TimerFires, TimerExpire, TimerUnchanged, GapComesDue, OutputExit, Reset,
       Close, CloseDone, Terminated
<1> QED
  BY <1>1, <1>2, <1>3, <1>4, PTL DEF Spec, ImplementsInOrderDelivery, Promise!Spec
=============================================================================
