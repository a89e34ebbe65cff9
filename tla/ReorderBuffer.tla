--------------------------- MODULE ReorderBuffer ---------------------------
(***************************************************************************)
(* The mutex-protected ReorderBuffer of buffer.go, with the goroutines that*)
(* share it: the connection readers that Insert, the timeoutWorker that    *)
(* gives up on a gap, the outWorker that is the only consumer of outChan,  *)
(* and the goroutine ("ctl") that calls Reset and Close.                   *)
(*                                                                         *)
(* One action is one stretch of code between two blocking points: a        *)
(* critical section under mu, the hand-over from mu to deliverMu, the wake *)
(* of the gap worker, the non-blocking send to outChan.                    *)
(***************************************************************************)
EXTENDS ReorderCore

CONSTANTS
    Readers,     \* goroutines that call Insert
    Sent,        \* the sequence numbers the peer sends in one epoch
    Copies,      \* bound: arrivals of one number (the original, its FEC recovery)
    OutQueue,    \* reorderOutQueue, the capacity of outChan in batches
    MaxResets,   \* bound: epochs after the first
    MaxFrames    \* bound: different frames that arrive in all

ASSUME ReorderBufferAssumption ==
    /\ Sent \subseteq Seqs
    /\ {Copies, OutQueue, MaxResets, MaxFrames} \subseteq Nat
    /\ OutQueue > 0
    /\ Readers \cap {"timer", "ctl", "none"} = {}

VARIABLES
    rb,          \* the state mu protects
    shutting,    \* set by Close under mu
    mu,          \* the holder of mu across a blocking point, or "none"
    deliverMu,   \* the holder of deliverMu, or "none"
    pc,          \* where each goroutine is
    batch,       \* the chunk chain a goroutine took from rb.pending
    wakes,       \* the goroutine still has to signal the gap worker
    gapWake,     \* the one-element wake channel holds a token
    closed,      \* the closed channel is closed
    outChan,     \* the delivery queue
    outWorker,   \* "run" or "exit"
    gen,         \* the epoch the peer sends in
    arrived,     \* history: arrivals so far of each number in each epoch
    delivered    \* history: the frames handed to outFunc, in order

vars == <<rb, shutting, mu, deliverMu, pc, batch, wakes, gapWake, closed,
          outChan, outWorker, gen, arrived, delivered>>

Procs == Readers \cup {"timer", "ctl"}

Gens == 1 .. MaxResets + 1

Frames == [seq : Sent, gen : Gens]

Init ==
    /\ rb = NewReorder
    /\ shutting = FALSE
    /\ mu = "none"
    /\ deliverMu = "none"
    /\ pc = [p \in Procs |-> IF p = "timer" THEN "check" ELSE "idle"]
    /\ batch = [p \in Procs |-> <<>>]
    /\ wakes = [p \in Procs |-> FALSE]
    /\ gapWake = FALSE
    /\ closed = FALSE
    /\ outChan = <<>>
    /\ outWorker = "run"
    /\ gen = 1
    /\ arrived = [g \in Gens |-> [s \in Sent |-> 0]]
    /\ delivered = <<>>

Labels == {"idle", "locked", "signal", "deliver", "check", "asleep", "armed", "expire",
           "close", "done", "exit"}

Goto(p, label) == pc' = [pc EXCEPT ![p] = label]

\* Mutant: mu is released before deliverMu is taken.
LeaveUnlocked(p, after) ==
    /\ rb' = TakePending(after)
    /\ batch' = [batch EXCEPT ![p] = after.pending]
    /\ UNCHANGED mu

(***************************************************************************)
(* The end of a critical section that took a batch: deliverMu is requested *)
(* BEFORE mu is released, so batches leave in the order they were taken.   *)
(***************************************************************************)
LeaveWith(p, after) ==
    /\ rb' = TakePending(after)
    /\ batch' = [batch EXCEPT ![p] = after.pending]
    /\ mu' = IF after.pending = <<>> THEN mu ELSE p

Insert(p, s) ==
    LET after == InsertLocked(rb, [seq |-> s, gen |-> gen])
    IN  /\ pc[p] = "idle"
        /\ mu = "none"
        /\ arrived[gen][s] < Copies
        /\ Cardinality({f \in Frames : arrived[f.gen][f.seq] > 0}) < MaxFrames
        /\ arrived' = [arrived EXCEPT ![gen][s] = @ + 1]
        /\ IF shutting
           THEN UNCHANGED <<rb, mu, pc, batch, wakes>>
           ELSE /\ LeaveWith(p, after)
                /\ wakes' = [wakes EXCEPT ![p] = WakesGapWorker(rb, after)]
                /\ Goto(p, IF after.pending # <<>> THEN "locked"
                           ELSE IF wakes'[p] THEN "signal" ELSE "idle")
        /\ UNCHANGED <<shutting, deliverMu, gapWake, closed, outChan, outWorker,
                       gen, delivered>>

LockDeliver(p) ==
    /\ pc[p] = "locked"
    /\ deliverMu = "none"
    /\ deliverMu' = p
    /\ mu' = "none"
    /\ Goto(p, CASE p = "ctl"    -> "close"
                 [] p = "timer"  -> "deliver"
                 [] p \in Readers -> "signal")
    /\ UNCHANGED <<rb, shutting, batch, wakes, gapWake, closed, outChan, outWorker,
                   gen, arrived, delivered>>

\* signalGapWorker: a non-blocking send on a channel of capacity one.
Signal(p) ==
    /\ pc[p] = "signal"
    /\ gapWake' = (gapWake \/ wakes[p])
    /\ wakes' = [wakes EXCEPT ![p] = FALSE]
    /\ Goto(p, IF batch[p] # <<>> THEN "deliver" ELSE "idle")
    /\ UNCHANGED <<rb, shutting, mu, deliverMu, batch, closed, outChan, outWorker,
                   gen, arrived, delivered>>

\* deliver: outChan is never waited for; a full one drops the whole batch.
Deliver(p) ==
    /\ pc[p] = "deliver"
    /\ \/ /\ Len(outChan) < OutQueue
          /\ outChan' = Append(outChan, batch[p])
       \/ /\ closed \/ Len(outChan) = OutQueue
          /\ UNCHANGED outChan
    /\ deliverMu' = "none"
    /\ batch' = [batch EXCEPT ![p] = <<>>]
    /\ Goto(p, IF p = "timer" THEN "check" ELSE "idle")
    /\ UNCHANGED <<rb, shutting, mu, wakes, gapWake, closed, outWorker, gen, arrived,
                   delivered>>

(***************************************************************************)
(* timeoutWorker.                                                          *)
(***************************************************************************)
TimerUnchanged ==
    UNCHANGED <<shutting, deliverMu, wakes, closed, outChan, outWorker, gen, arrived,
                delivered>>

TimerCheck ==
    /\ pc["timer"] = "check"
    /\ mu = "none"
    /\ Goto("timer", IF shutting THEN "exit"
                      ELSE IF rb.gap = "none" THEN "asleep"
                      ELSE IF rb.gap = "fresh" THEN "armed" ELSE "expire")
    /\ UNCHANGED <<rb, mu, batch, gapWake>>
    /\ TimerUnchanged

\* Mutant: the worker does not wait for the closed channel.
TimerIgnoresClosed ==
    /\ pc["timer"] \in {"asleep", "armed"}
    /\ gapWake /\ gapWake' = FALSE /\ Goto("timer", "check")
    /\ UNCHANGED <<rb, mu, batch>>
    /\ TimerUnchanged

TimerWoken ==
    /\ pc["timer"] \in {"asleep", "armed"}
    /\ \/ closed /\ Goto("timer", "exit") /\ UNCHANGED gapWake
       \/ gapWake /\ gapWake' = FALSE /\ Goto("timer", "check")
    /\ UNCHANGED <<rb, mu, batch>>
    /\ TimerUnchanged

\* A deadline that passed for a gap since refilled only sends the worker round its loop.
TimerFires ==
    /\ pc["timer"] = "armed"
    /\ rb.gap # "fresh"
    /\ Goto("timer", "expire")
    /\ UNCHANGED <<rb, mu, batch, gapWake>>
    /\ TimerUnchanged

TimerExpire ==
    /\ pc["timer"] = "expire"
    /\ mu = "none"
    /\ \E after \in {IF Expirable(rb) THEN ExpireGap(rb) ELSE rb} :
           /\ LeaveWith("timer", after)
           /\ Goto("timer", IF after.pending = <<>> THEN "check" ELSE "locked")
    /\ UNCHANGED gapWake
    /\ TimerUnchanged

\* reorderSkipDelay passes since gapSince.
GapComesDue ==
    /\ rb.gap = "fresh"
    /\ rb' = [rb EXCEPT !.gap = "due"]
    /\ UNCHANGED <<shutting, mu, deliverMu, pc, batch, wakes, gapWake, closed, outChan,
                   outWorker, gen, arrived, delivered>>

(***************************************************************************)
(* outWorker: the single consumer.  Once closed it drains and exits.       *)
(***************************************************************************)
Output ==
    /\ outWorker = "run"
    /\ outChan # <<>>
    /\ delivered' = delivered \o Head(outChan)
    /\ outChan' = Tail(outChan)
    /\ UNCHANGED <<rb, shutting, mu, deliverMu, pc, batch, wakes, gapWake, closed,
                   outWorker, gen, arrived>>

OutputExit ==
    /\ outWorker = "run"
    /\ closed
    /\ outChan = <<>>
    /\ outWorker' = "exit"
    /\ UNCHANGED <<rb, shutting, mu, deliverMu, pc, batch, wakes, gapWake, closed,
                   outChan, gen, arrived, delivered>>

(***************************************************************************)
(* Reset and Close, called by the goroutine that owns the session.         *)
(***************************************************************************)
Reset ==
    /\ pc["ctl"] = "idle"
    /\ mu = "none"
    /\ gen <= MaxResets
    /\ rb' = ResetReorder(rb)
    /\ wakes' = [wakes EXCEPT !["ctl"] = rb.gap # "none"]
    /\ Goto("ctl", "signal")
    /\ gen' = gen + 1
    /\ UNCHANGED <<shutting, mu, deliverMu, batch, gapWake, closed, outChan, outWorker,
                   arrived, delivered>>

\* Mutant: Close does not wait for the batch being delivered.
CloseUnserialised ==
    /\ pc["ctl"] = "idle"
    /\ mu = "none"
    /\ shutting' = TRUE
    /\ rb' = [rb EXCEPT !.ring = {}, !.pending = <<>>]
    /\ Goto("ctl", "close")
    /\ UNCHANGED <<mu, deliverMu, batch, wakes, gapWake, closed, outChan, outWorker, gen,
                   arrived, delivered>>

Close ==
    /\ pc["ctl"] = "idle"
    /\ mu = "none"
    /\ shutting' = TRUE
    /\ rb' = [rb EXCEPT !.ring = {}, !.pending = <<>>]
    /\ mu' = "ctl"
    /\ Goto("ctl", "locked")
    /\ UNCHANGED <<deliverMu, batch, wakes, gapWake, closed, outChan, outWorker, gen,
                   arrived, delivered>>

CloseDone ==
    /\ pc["ctl"] = "close"
    /\ closed' = TRUE
    /\ deliverMu' = "none"
    /\ Goto("ctl", "done")
    /\ UNCHANGED <<rb, shutting, mu, batch, wakes, gapWake, outChan, outWorker, gen,
                   arrived, delivered>>

Terminated ==
    /\ pc["ctl"] = "done" /\ outWorker = "exit" /\ pc["timer"] = "exit"
    /\ UNCHANGED vars

Next ==
    \/ \E p \in Readers, s \in Sent : Insert(p, s)
    \/ \E p \in Procs : LockDeliver(p) \/ Signal(p) \/ Deliver(p)
    \/ TimerCheck \/ TimerWoken \/ TimerFires \/ TimerExpire
    \/ GapComesDue
    \/ Output \/ OutputExit
    \/ Reset \/ Close \/ CloseDone
    \/ Terminated

Spec == Init /\ [][Next]_vars

(***************************************************************************)
(* Goroutines are scheduled and timers fire; nothing makes the peer send   *)
(* or the session end.                                                     *)
(***************************************************************************)
Fairness ==
    /\ \A p \in Readers : WF_pc(LockDeliver(p) \/ Signal(p) \/ Deliver(p))
    /\ WF_pc(\/ TimerCheck \/ TimerWoken \/ TimerFires \/ TimerExpire
             \/ LockDeliver("timer") \/ Deliver("timer"))
    /\ WF_pc(LockDeliver("ctl") \/ Signal("ctl") \/ CloseDone)
    /\ WF_rb(GapComesDue)
    /\ WF_<<outChan, outWorker>>(Output \/ OutputExit)

FairSpec == Spec /\ Fairness

-----------------------------------------------------------------------------
Before(f, g) == f.gen < g.gen \/ (f.gen = g.gen /\ f.seq < g.seq)

\* Every variable stays in its range; outChan never exceeds reorderOutQueue, and outside
\* the critical sections no frame waits in rb.pending.
TypeOK ==
    /\ rb \in ReorderStates(Frames) /\ rb.pending = <<>>
    /\ shutting \in BOOLEAN /\ closed \in BOOLEAN /\ gapWake \in BOOLEAN
    /\ {mu, deliverMu} \subseteq Procs \cup {"none"}
    /\ pc \in [Procs -> Labels]
    /\ batch \in [Procs -> Seq(Frames)]
    /\ wakes \in [Procs -> BOOLEAN]
    /\ outChan \in Seq(Seq(Frames)) /\ Len(outChan) <= OutQueue
    /\ outWorker \in {"run", "exit"}
    /\ gen \in Gens
    /\ arrived \in [Gens -> [Sent -> 0 .. Copies]]
    /\ delivered \in Seq(Frames)

\* outFunc sees the frames of an epoch in strictly increasing sequence order, an epoch
\* after the one before it, and no frame twice, whichever goroutine took each batch
\* from the ring ("ReorderBuffer outputs the received frames in order").
DeliveredInOrder ==
    \A i, j \in DOMAIN delivered : i < j => Before(delivered[i], delivered[j])

\* Two different numbers never compete for one slot (the case insertLocked calls
\* mathematically impossible): every held frame lies strictly inside the window
\* that starts at the number awaited, across growth, gap skips and resets.
HeldInsideWindow ==
    \A f \in rb.ring :
        /\ U32Sub(f.seq, rb.expected) \in 1 .. rb.window - 1
        /\ f.gen = gen

\* A frame held back is always being timed: no sequence of inserts, skips and resets
\* leaves frames in the ring with gapSince zero, where only new traffic could free them.
HeldFramesAreTimed == rb.ring # {} => rb.gap # "none"

\* The gap worker never sleeps through a gap: while it waits without a deadline and a
\* gap is open, a wake token is in the channel or about to be put there.
NoLostWakeup ==
    pc["timer"] = "asleep" /\ rb.gap # "none" =>
        gapWake \/ closed \/ \E p \in Procs : wakes[p]

\* Close leaves nothing behind: once outWorker has drained and returned, no batch is in
\* outChan ("no batch is left that nobody consumes after outWorker exits").
NoStrandedBatch == outWorker = "exit" => outChan = <<>>

\* A gap that has been open for reorderSkipDelay is filled or given up: together with
\* HeldFramesAreTimed, no frame is held back for ever, even when nothing more arrives.
DueGapEnds == rb.gap = "due" ~> rb.gap # "due" \/ shutting

\* Close ends both background goroutines, whatever the readers and the worker hold.
CloseCompletes == shutting ~> outWorker = "exit" /\ pc["timer"] = "exit"

\* The promise, as a specification of its own.
Promise == INSTANCE InOrderDelivery WITH
    received <- {f \in [seq : Sent, gen : Gens] : arrived[f.gen][f.seq] > 0},
    delivered <- delivered

\* What the concurrent buffer shows outFunc is a behaviour of the sequential promise.
ImplementsInOrderDelivery == Promise!Spec
=============================================================================
