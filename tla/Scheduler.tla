----------------------------- MODULE Scheduler -----------------------------
(***************************************************************************)
(* The multipath scheduler of an AsyncPort (client.go and                  *)
(* adaptive_multipath.go): the run goroutine takes a frame, waits for a    *)
(* queue slot, numbers the frame, picks a backend and queues the batch,    *)
(* then its parity.  The writer goroutine of every backend drains its      *)
(* queue, and handlers register and unregister backends meanwhile.         *)
(*                                                                         *)
(* Bytes, debt and the carry bonus share one unit: the scheduler turns     *)
(* bytes into service time at one fixed rate, so they are proportional.    *)
(* Whatever enters the size of the active set besides the queued bytes     *)
(* (the input backlog, the demand rate) is an arbitrary level, and so is   *)
(* the state of a cork at the moment it is read.  The counters and         *)
(* estimates shown in the web interface, and the fence that FecLink        *)
(* models, are left out.                                                   *)
(***************************************************************************)
EXTENDS Integers, FiniteSets, SequencesExt

CONSTANTS
    Slots,           \* slots for registered backends
    None,            \* no backend
    QueueCap,        \* capacity of a backend's channel
    WriteLimit,      \* bytes after which a writer stops draining into one write
    Sizes,           \* bytes of a data batch
    ParityBytes,     \* bytes of a parity frame
    Thresholds,      \* queued bytes from which a 2nd, 3rd, 4th path is active
    CarryBonus,      \* adaptiveCarryBonusUS
    RTTs             \* round trips TCP_INFO may report, in microseconds

UnknownRTT == 50000
HysteresisMin == 5000
StickyMin == 500
StickyMax == 5000

ASSUME SchedulerAssumption ==
    /\ None \notin Slots
    /\ {QueueCap, WriteLimit, ParityBytes, CarryBonus} \subseteq Nat
    /\ QueueCap > 2 /\ WriteLimit > 0 /\ ParityBytes > 0
    /\ Sizes \subseteq Nat \ {0} /\ IsFiniteSet(Sizes) /\ Sizes # {}
    /\ Thresholds \in Seq(Nat)
    /\ RTTs \subseteq Nat \ {0, UnknownRTT} /\ IsFiniteSet(RTTs)

VARIABLES
    backends,        \* p.backends, in order of registration
    preferred,       \* p.preferred
    path,            \* each Backend and the writer goroutine that drains it
    run              \* where the run goroutine is, and its locals

vars == <<backends, preferred, path, run>>

NoPath == [rtt |-> UnknownRTT, cold |-> TRUE, active |-> FALSE, debt |-> 0,
           queue |-> <<>>, queued |-> 0, hand |-> 0, alive |-> TRUE]

\* left: a backend has been unregistered since the slot was seen.
AtSelect == [pc |-> "select", bytes |-> 0, minRTT |-> 0, todo |-> <<>>, parity |-> FALSE,
             best |-> None, left |-> FALSE]

Init ==
    /\ backends = <<>> /\ preferred = None
    /\ path = [c \in Slots |-> NoPath]
    /\ run = AtSelect

Registered == ToSet(backends)

\* dispatchOwnedBatch holds backendsMu for reading from beginning to end.
Locked == run.pc \in {"pick", "send", "queue", "parity"}

-----------------------------------------------------------------------------
(***************************************************************************)
(* Handlers and writers.                                                   *)
(***************************************************************************)
RegisterOwnedBackend(c) ==
    /\ ~Locked /\ c \notin Registered
    /\ backends' = Append(backends, c)
    /\ path' = [path EXCEPT ![c] = NoPath]
    /\ UNCHANGED <<preferred, run>>

\* Mutant: the preferred pointer keeps naming the backend that left.
UnregisterKeepsPreferred(c) ==
    /\ ~Locked /\ c \in Registered
    /\ backends' = SelectSeq(backends, LAMBDA d : d # c)
    /\ path' = [path EXCEPT ![c] = NoPath]
    /\ run' = [run EXCEPT !.left = run.pc \in {"ask", "slot"}]
    /\ UNCHANGED preferred

UnregisterOwnedBackend(c) ==
    /\ ~Locked /\ c \in Registered
    /\ backends' = SelectSeq(backends, LAMBDA d : d # c)
    /\ preferred' = IF preferred = c THEN None ELSE preferred
    /\ path' = [path EXCEPT ![c] = NoPath]
    /\ run' = [run EXCEPT !.left = run.pc \in {"ask", "slot"}]

\* The ticker stores what TCP_INFO reports.
RefreshRTT(c) ==
    /\ c \in Registered /\ path[c].alive /\ path[c].hand = 0
    /\ \E r \in RTTs : path' = [path EXCEPT ![c].rtt = r]
    /\ UNCHANGED <<backends, preferred, run>>

SumSeq(s) == FoldLeft(+, 0, s)

\* drainBatches stops at the limit or at an empty queue.
Drained(q) ==
    LET full == {n \in 1..Len(q) : SumSeq(SubSeq(q, 1, n)) >= WriteLimit}
    IN  IF full = {} THEN Len(q) ELSE Min(full)

\* Mutant: only the last batch drained is accounted for.
TakeCountsLast(c) ==
    LET n == Drained(path[c].queue)
    IN  /\ c \in Registered /\ path[c].alive /\ path[c].hand = 0 /\ path[c].queue # <<>>
        /\ path' = [path EXCEPT ![c].queue = SubSeq(@, n + 1, Len(@)), ![c].hand = path[c].queue[n]]
        /\ UNCHANGED <<backends, preferred, run>>

WriterTakes(c) ==
    LET n == Drained(path[c].queue)
    IN  /\ c \in Registered /\ path[c].alive /\ path[c].hand = 0 /\ path[c].queue # <<>>
        /\ path' = [path EXCEPT ![c].queue = SubSeq(@, n + 1, Len(@)),
                                ![c].hand = SumSeq(SubSeq(path[c].queue, 1, n))]
        /\ UNCHANGED <<backends, preferred, run>>

\* atomicSubSaturating.
SubSaturating(old, n) == IF n < old THEN old - n ELSE 0

\* completeQueuedBytes, then observeDelivered: enough bytes give the path its first rate.
WriteSucceeds(c) ==
    /\ path[c].alive /\ path[c].hand > 0
    /\ \E cold \in {path[c].cold, FALSE} :
          path' = [path EXCEPT ![c].queued = SubSaturating(@, path[c].hand),
                               ![c].hand = 0, ![c].cold = cold]
    /\ UNCHANGED <<backends, preferred, run>>

\* The writer returns; its backend stays registered until the handler has noticed.
WriteFails(c) ==
    /\ path[c].alive /\ path[c].hand > 0
    /\ path' = [path EXCEPT ![c].alive = FALSE]
    /\ UNCHANGED <<backends, preferred, run>>

-----------------------------------------------------------------------------
(***************************************************************************)
(* The run goroutine up to the dispatch.                                   *)
(***************************************************************************)
HasRoom(c) == Len(path[c].queue) < QueueCap

\* A frame arrived: the preferred pointer is loaded, without a lock.
LoadPreferred ==
    /\ run.pc = "select" /\ preferred # None
    /\ run' = [run EXCEPT !.pc = "ask", !.best = preferred]
    /\ UNCHANGED <<backends, preferred, path>>

\* The backend loaded may have been unregistered since; its channel is then in any state.
PreferredHasRoom ==
    /\ run.pc = "ask"
    /\ HasRoom(run.best) \/ run.left
    /\ run' = [run EXCEPT !.pc = "slot", !.best = None]
    /\ UNCHANGED <<backends, preferred, path>>

\* No preferred backend, or it is full: all of them are asked under the lock.  Without backends
\* the frame is dropped unnumbered; without room the wait starts again after 50 us.
AskBackends ==
    /\ \/ run.pc = "select" /\ preferred = None
       \/ run.pc = "ask" /\ (~HasRoom(run.best) \/ run.left)
    /\ run' = [AtSelect EXCEPT !.pc = IF \E c \in Registered : HasRoom(c) THEN "slot" ELSE "select"]
    /\ UNCHANGED <<backends, preferred, path>>

\* The frame is numbered, and no backend is left when the dispatch takes the lock.
DispatchWithoutBackends ==
    /\ run.pc = "slot" /\ backends = <<>>
    /\ run' = AtSelect
    /\ UNCHANGED <<backends, preferred, path>>

-----------------------------------------------------------------------------
(***************************************************************************)
(* pickAdaptiveBackend.  Round trips are read once for the reference and   *)
(* again for the candidates, while the writers go on: two steps.           *)
(***************************************************************************)
Healthy(c) == Len(path[c].queue) < QueueCap - 2

FairStart(c) == path[c].rtt = UnknownRTT \/ path[c].cold

\* The batch is offered to the chosen backend, then to the others in order.
Offers(best) == <<best>> \o SelectSeq(backends, LAMBDA d : d # best)

Chosen(best) == [run EXCEPT !.pc = "send", !.minRTT = 0, !.best = best, !.todo = Offers(best)]

\* Only the chosen path is active and no debt is kept.
Alone(best) ==
    [c \in Slots |-> IF c \in Registered THEN [path[c] EXCEPT !.active = c = best, !.debt = 0]
                     ELSE path[c]]

\* The frame is numbered, others coalesce with it, and the dispatch takes the lock.
Scan ==
    LET warmed == {c \in Registered : Healthy(c) /\ ~FairStart(c)}
    IN  /\ run.pc = "slot"
        /\ \E c \in Registered : Healthy(c)
        /\ \E n \in Sizes :
              run' = [run EXCEPT !.pc = "pick", !.bytes = n,
                                 !.minRTT = IF warmed = {} THEN UnknownRTT
                                            ELSE Min({path[c].rtt : c \in warmed})]
        /\ UNCHANGED <<backends, preferred, path>>

\* No queue is healthy: the first backend, alone.
ScanNoneHealthy ==
    /\ run.pc = "slot" /\ backends # <<>>
    /\ \A c \in Registered : ~Healthy(c)
    /\ \E n \in Sizes : run' = [Chosen(backends[1]) EXCEPT !.bytes = n]
    /\ path' = Alone(backends[1])
    /\ preferred' = backends[1]
    /\ UNCHANGED backends

RTTOf(c) == IF FairStart(c) THEN run.minRTT ELSE path[c].rtt

Envelope == run.minRTT + Max({HysteresisMin, run.minRTT \div 4})

\* The candidates, best unloaded quality first; ties keep the order of registration.
Candidates ==
    LET cands == SelectSeq(backends, LAMBDA c : Healthy(c) /\ (FairStart(c) \/ path[c].rtt <= Envelope))
        Position(c) == CHOOSE i \in DOMAIN backends : backends[i] = c
        Before(c, d) == \/ RTTOf(c) < RTTOf(d)
                        \/ RTTOf(c) = RTTOf(d) /\ Position(c) < Position(d)
    IN  SortSeq(cands, Before)

Pressure == run.bytes + FoldLeft(LAMBDA n, c : n + path[c].queued, 0, backends)

\* The input backlog and the demand rate can only ask for more paths.
ActivePathTarget(level, eligible) ==
    LET want == 1 + Cardinality({i \in DOMAIN Thresholds : Pressure >= Thresholds[i]})
    IN  Min({eligible, Max({want, level})})

StickySlack(rtt) == Min({StickyMax, Max({StickyMin, rtt \div 16})})

\* One active path: the current one as long as it is close to the best.
PickSingle(cands) ==
    LET Base(c) == RTTOf(c) \div 2
        sticks == /\ preferred \in ToSet(cands)
                  /\ Base(preferred) <= Base(cands[1]) + StickySlack(RTTOf(preferred))
        chosen == IF sticks THEN preferred ELSE cands[1]
    IN  /\ path' = Alone(chosen)
        /\ preferred' = chosen
        /\ run' = Chosen(chosen)

\* The debts of the active set: a path that joins starts level with the least one.
Joined(members) ==
    LET staying == {c \in members : path[c].active}
        epoch == IF staying = {} THEN 0 ELSE Min({path[c].debt : c \in staying})
    IN  [c \in members |-> IF path[c].active THEN path[c].debt ELSE epoch]

\* Mutant: the debts are never brought back to zero.
NeverRebased(members) == Joined(members)

\* Rebased so that the least debt is zero.
Rebased(members) ==
    LET joined == Joined(members)
        least == Min({joined[c] : c \in members})
    IN  [c \in members |-> joined[c] - least]

\* Mutant: the chosen path is not charged for the batch.
NoCharge(c, best) == 0

\* addVirtualServiceAtRate.
Charge(c, best) == IF c = best THEN run.bytes ELSE 0

\* logicalDispatchScoreNS.
LogicalDispatchScore(c, debt, carry) ==
    debt[c] + path[c].queued - (IF c \in carry THEN CarryBonus ELSE 0)

\* Several active paths: the least debt plus queued bytes takes the batch and is charged.
PickStriped(cands, active) ==
    \E carry \in SUBSET Registered :
       LET ranked == SubSeq(cands, 1, active)
           members == ToSet(ranked)
           debt == Rebased(members)
           Score(c) == LogicalDispatchScore(c, debt, carry)
           first == Min({i \in DOMAIN ranked : \A c \in members : Score(ranked[i]) <= Score(c)})
           chosen == ranked[first]
       IN  /\ path' = [c \in Slots |->
                         IF c \in members
                           THEN [path[c] EXCEPT !.active = TRUE, !.debt = debt[c] + Charge(c, chosen)]
                         ELSE [path[c] EXCEPT !.active = FALSE, !.debt = 0]]
           /\ preferred' = chosen
           /\ run' = Chosen(chosen)

\* pickBackend, when every path has left the envelope between the two readings.
PickBackend ==
    LET Score(c) == path[c].rtt + 1000 * Max({0, Len(path[c].queue) - 10})
        healthy == {i \in DOMAIN backends : Healthy(backends[i])}
        best == Min({i \in healthy : \A j \in healthy : Score(backends[i]) <= Score(backends[j])})
        sticks == /\ preferred \in Registered /\ Healthy(preferred)
                  /\ Score(preferred) <= Score(backends[best])
                                         + Max({HysteresisMin, path[preferred].rtt \div 8})
        chosen == IF sticks THEN preferred ELSE backends[best]
    IN  /\ path' = Alone(None)
        /\ preferred' = chosen
        /\ run' = Chosen(chosen)

PickAdaptiveBackend ==
    LET cands == Candidates
    IN  /\ run.pc = "pick"
        /\ \/ cands = <<>> /\ PickBackend
           \/ /\ cands # <<>>
              /\ \E level \in 1..Len(cands) :
                    LET active == ActivePathTarget(level, Len(cands))
                    IN  IF active = 1 THEN PickSingle(cands) ELSE PickStriped(cands, active)
        /\ UNCHANGED backends

-----------------------------------------------------------------------------
(***************************************************************************)
(* sendOwnedBatchToAnyFenced and sendOwnedFrameTo: the bytes are counted   *)
(* before the batch is offered to the channel, and uncounted if it is full.*)
(***************************************************************************)
AddQueuedBytes ==
    /\ run.pc = "send" /\ run.todo # <<>>
    /\ path' = [path EXCEPT ![Head(run.todo)].queued = @ + run.bytes]
    /\ run' = [run EXCEPT !.pc = "queue"]
    /\ UNCHANGED <<backends, preferred>>

\* After the data batch come its parities.
DataSent == [AtSelect EXCEPT !.pc = "parity", !.best = run.best]

TryQueueOwnedBatch ==
    LET c == Head(run.todo)
    IN  /\ run.pc = "queue"
        /\ IF HasRoom(c)
             THEN /\ path' = [path EXCEPT ![c].queue = Append(@, run.bytes)]
                  /\ run' = IF run.parity THEN AtSelect ELSE DataSent
             ELSE /\ path' = [path EXCEPT ![c].queued = SubSaturating(@, run.bytes)]
                  /\ run' = IF run.parity THEN AtSelect
                            ELSE [run EXCEPT !.pc = "send", !.todo = Tail(@)]
        /\ UNCHANGED <<backends, preferred>>

\* tryAll is repeated for 5 ms.
Retry ==
    /\ run.pc = "send" /\ run.todo = <<>>
    /\ run' = [run EXCEPT !.todo = Offers(run.best)]
    /\ UNCHANGED <<backends, preferred, path>>

GiveUp ==
    /\ run.pc = "send" /\ run.todo = <<>>
    /\ run' = DataSent
    /\ UNCHANGED <<backends, preferred, path>>

\* pickParityBackend from the position of its cursor: off the data path if it can.
PickParityBackend(start) ==
    LET turn == SubSeq(backends, start, Len(backends)) \o SubSeq(backends, 1, start - 1)
        others == SelectSeq(turn, LAMBDA c : c # run.best /\ Healthy(c))
    IN  IF others # <<>> THEN others[1]
        ELSE IF Healthy(run.best) THEN run.best
        ELSE turn[1]

\* The encoder completed a group; a parity needs a second path.
SendParity ==
    /\ run.pc = "parity" /\ Len(backends) >= 2
    /\ \E start \in DOMAIN backends :
          LET c == PickParityBackend(start)
          IN  /\ path' = [path EXCEPT ![c].queued = @ + ParityBytes]
              /\ run' = [AtSelect EXCEPT !.pc = "queue", !.parity = TRUE, !.bytes = ParityBytes,
                                         !.todo = <<c>>]
    /\ UNCHANGED <<backends, preferred>>

NoParity ==
    /\ run.pc = "parity"
    /\ run' = AtSelect
    /\ UNCHANGED <<backends, preferred, path>>

-----------------------------------------------------------------------------
Next ==
    \/ \E c \in Slots :
          \/ RegisterOwnedBackend(c) \/ UnregisterOwnedBackend(c)
          \/ RefreshRTT(c) \/ WriterTakes(c) \/ WriteSucceeds(c) \/ WriteFails(c)
    \/ LoadPreferred \/ PreferredHasRoom \/ AskBackends \/ DispatchWithoutBackends
    \/ Scan \/ ScanNoneHealthy \/ PickAdaptiveBackend
    \/ AddQueuedBytes \/ TryQueueOwnedBatch \/ Retry \/ GiveUp \/ SendParity \/ NoParity

Spec == Init /\ [][Next]_vars

-----------------------------------------------------------------------------
(***************************************************************************)
(* Properties.                                                             *)
(***************************************************************************)
\* The most a healthy path can have queued, its writer's share included.
MaxQueued ==
    (QueueCap - 3) * Max(Sizes \cup {ParityBytes}) + WriteLimit - 1 + Max(Sizes \cup {ParityBytes})

(***************************************************************************)
(* Every variable stays in its range.                                      *)
(***************************************************************************)
TypeOK ==
    /\ backends \in Seq(Slots) /\ IsInjective(backends)
    /\ preferred \in Slots \cup {None}
    /\ run.pc \in {"select", "ask", "slot", "pick", "send", "queue", "parity"}
    /\ \A c \in Slots :
          /\ path[c].rtt \in RTTs \cup {UnknownRTT}
          /\ Len(path[c].queue) <= QueueCap
          /\ path[c].debt \in Nat /\ path[c].queued \in Nat /\ path[c].hand \in Nat

(***************************************************************************)
(* The debt of a path, which only grows by charges, stays within what one  *)
(* path may have queued ahead of another, plus one batch, plus the bonus,  *)
(* however long the session lives (pickAdaptiveBackend's rebasing), and a  *)
(* path outside the active set owes nothing.                               *)
(***************************************************************************)
DebtsBounded ==
    \A c \in Slots :
       /\ path[c].debt <= MaxQueued + CarryBonus + Max(Sizes)
       /\ path[c].active \/ path[c].debt = 0

(***************************************************************************)
(* queuedBytes is exact: whatever was offered, refused, drained or         *)
(* completed, it counts the batches in the channel, the ones in the        *)
(* writer's hands and the one being offered, so the saturating subtraction *)
(* never has to saturate and no path looks loaded for ever.                *)
(***************************************************************************)
QueuedBytesExact ==
    \A c \in Registered :
       path[c].queued = SumSeq(path[c].queue) + path[c].hand
                        + (IF run.pc = "queue" /\ Head(run.todo) = c THEN run.bytes ELSE 0)

(***************************************************************************)
(* A numbered batch finds its slot (the comment of waitForBackendSlot): it *)
(* is dropped, leaving a hole in the sequence, only if a backend has been  *)
(* unregistered between the wait and the dispatch.                         *)
(***************************************************************************)
SlotHolds ==
    [][DispatchWithoutBackends \/ GiveUp => run.left]_vars

ActiveSet == {c \in Registered : path[c].active}

(***************************************************************************)
(* Striping: while a set of several paths stays active and batches come,   *)
(* no member of it is left without work for ever, although the writers may *)
(* drain every queue before the next batch is scheduled.                   *)
(***************************************************************************)
ActivePathsShare ==
    \A S \in {T \in SUBSET Slots : Cardinality(T) > 1} :
       (<>[](ActiveSet = S) /\ []<><<PickAdaptiveBackend>>_vars)
          => \A c \in S : []<>(path[c].queued > 0)
=============================================================================
