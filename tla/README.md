# TLSVPN: a verification project in TLA+

TLSVPN (`src/`) carries Ethernet frames between a client's TAP device and a
server's virtual switch over *several* TLS connections at once. A logical
session outlives its connections. Both directions number their frames with a
32-bit sequence that restarts with every *epoch* of the session, spread them over
the connections, protect them with XOR parity, and put them back in order at the
other end.

This directory models the concurrent core of that program, checks it with TLC on
small instances and proves part of it with TLAPS for every instance.

## 1. The system and its parts

    TAP / VSwitch -> AsyncPort.run -> connTxChan ... TLS ... reader -> rxSessionWorker -> TAP / VSwitch
                     number, FEC       one per                         or (FEC +) ReorderBuffer
                     encode, fence     connection

| Part | Source | Role | Module |
|---|---|---|---|
| Reorder buffer | `buffer.go` | ring, 50 ms gap skip, two mutexes, gap worker, output worker | `ReorderCore`, `ReorderBuffer` |
| Receive session worker | `rx_batch.go`, `rx_actor.go` | one goroutine owns FEC and reordering of a multi-path session; generations and barriers | `RxWorker` |
| XOR FEC | `fec.go`, `fec_control.go`, `rx_actor.go` | groups of K, dynamic SUSPEND/RESUME fences, recovery | `FecCore`, `FecLink` |
| AsyncPort | `client.go` | numbering, batching, queueing on a backend, epoch reset | `Scheduler`, `FecLink`, `PortRotation` |
| Server session | `server.go` | handshake, resume tokens, epoch rotation, connection count, 120 s retention | `Session`, `PortRotation` |
| Client session | `client.go`, `client_state.go` | dialling, applying responses, state file, restart | `Session` |
| Multipath scheduler | `adaptive_multipath.go` | which backend a batch goes to | `Scheduler` |
| Virtual switch | `server.go` | ports, static and learned MACs, unicast, flooding | `VSwitch` |
| Admission control | `server.go` | authentication, bans, limits, address pools, MAC bindings | `Admission` (extends `VSwitch`) |
| Client process | `client.go`, `netifd.go`, `hooks.go` | reconnect supervisors, hot configuration, netifd and hooks, shutdown | `ClientProcess` |
| Policy routing | `net_linux.go`, `client.go` | rules and routes of a configuration, installed, recorded, removed | `PolicyRouting` (extended by `ClientProcess`) |
| Traffic accounting | `traffic.go`, `stats_accounting.go`, `server.go` | daily counters in total and per client, saved to two files | `Traffic` |
| Codec, AEAD, TLS, TAP, web, MCP, configuration | the rest | I/O and sequential code | not modelled, see section 7 |

How they interact:

* A handshake (server) runs under `s.mu` and `sessionMu`. It creates, resumes or
  *rotates* the session. A rotation closes the old connections, draws new salts,
  increments the epoch, sends a barrier through the receive worker and waits for
  the port's run goroutine to take its reset.
* A client connection applies the response under the client's `sessionMu`; a
  session or epoch it has not seen resets the same machinery on its side.
* Every session owns a port of the switch. Its creation and destruction change the
  port table, the MAC table, the address pools and the MAC bindings, in several critical
  sections, while the TAP reader and other sessions forward frames.
* Every handshake of the client sets up the host's network with the configuration its
  supervisor had read before it dialled, while the panel may replace that configuration;
  what was installed is recorded, and removed when the process ends.
* The traffic ledger samples the byte counters of the sessions, also of those destroyed
  since the last sample.
* The receive path has two implementations of one promise. A single-path session
  uses the mutex-protected `ReorderBuffer`; a multi-path session hands batches to
  one worker. Both call the same `...Locked` functions, which is why their
  operators are in one module, `ReorderCore`.

## 2. The modules

**`ReorderCore`** - the sequential state machine of one critical section: insert,
drain, growth, gap skip, reset. A frame is `[seq, gen]`, where `gen` (the epoch its
sender numbered it in) is a history the code does not carry. The ring is a set of
frames; "slot occupied" is "some held frame has that residue". `U32Add`, `U32Sub`
and `Behind` keep the arithmetic modulo `SeqSpace` (2^32 in the code).

**`ReorderBuffer`** - `mu`, `deliverMu`, the one-element `gapWake` channel,
`outChan`, `closed`, and the goroutines around them. One action is one stretch of
code between blocking points. `InsertBatch` is its `Insert`s.

**`InOrderDelivery`** - what the receive path promises: a strictly increasing
sequence of frames that did arrive. `ReorderBuffer` and `RxWorker` are both checked
to implement it (the history `arrived`/`received` and `delivered` are the mapping).

**`RxWorker`** - readers that join, capture a generation, check the epoch, batch and
enqueue; a rotation that bumps the generation and waits for its barrier; `Close`; and
the worker. `ChecksEpoch` tells the server's reader from the client's.

**`FecCore`** - encoder and decoder as operators: open group, fences and their
boundaries; pending groups with eviction, the done ring, the fence window, sweeping,
retirement and recovery. A payload is the set of numbers XORed into it, so XOR is
symmetric difference and a correct recovery of number `n` has payload `{n}`.

**`FecLink`** - one direction of a session: the dispatch loop with the encoder,
connections that come and go (each a FIFO; a dead one delivers a prefix), and the
worker with decoder and ring. The scheduler's choice is any registered backend, a
full queue is a drop.

**`Scheduler`** - how that choice is made: the run goroutine waits for a queue slot (it loads
the preferred backend, asks it without the lock, and otherwise asks all of them under it),
numbers a batch, scans the backends (round-trip envelope, active set, debts), picks one,
adds the bytes to its `queuedBytes`, offers the batch, and retries on the others; writers
drain and complete, backends come and go at every step. Bytes, debt and the carry bonus
share a unit, since one fixed rate relates them. The input backlog, the demand rate, the
state of a cork and the parity cursor are arbitrary choices; one parity is placed per
dispatch.

**`Session`** - one client identity: the server's table entry (epoch, active and
pending token, `ActiveConns`, retention timer) and one handler per connection; the
client's memory, its state file and one attempt per connection; requests and
responses in flight; kills, restarts, lost responses, operator kicks, sequence
exhaustion. A response is applied, compared with the memory and saved in three steps, as
`sessionMu` and `stateMu` are taken one after the other. A key is the session and epoch its salts were drawn for. `Fec` and
`Encrypt` select the code paths that reset the sequence at different places.

**`PortRotation`** - an epoch rotation under load: the rotating handshake with its
locks, `AsyncPort.run`, and the reader and writer of each connection. A batch is the
epoch it was numbered in.

**`VSwitch`** - the port table, the MAC table and `processFrame`. A port is an instance
`[id, n]`, so that an old port is told from the new one of the same client. `RemovePort`
takes its locks one after the other, and each is an action. Flood budgets are left out, and
an entry may be due for refresh or purge whenever it is looked at.

**`Admission`** - the handshake's checks before and inside `s.mu`, address assignment, the
creation of a session table by table, retention, `Ban`, `Kick`, a reload of PSK, session limit
and rates (which collects connections under `s.mu` and closes them afterwards), and
`destroySessionLocked`, composed with the switch by EXTENDS. An identity is
`<<mac, psk>>`, as `client_id` is derived from both; one MAC can thus have two sessions
around a reload. Epochs and tokens are `Session`'s.

**`PolicyRouting`** - the kernel as a set of rules `[sel, table, fam]` and a set of routes
`[table, dst, fam, gw]`, and the operations on it: install a specification, clean one, the record
of what was installed (`prInstalled` and the `pr...` fields) and what is cleaned at exit.
A gateway, a prefix and an address are values. A second `RuleAdd` of the same rule with a fixed priority is
refused, as the kernel does; every other netlink call succeeds.

**`ClientProcess`** - the supervisors of `Client.Run`, each with the program counter of its
attempt, the configuration it read (`lv`), the response and its registered socket;
`ApplyConfig` in its two steps (store, then `ForceReconnect`), the single wake token and the
poll of `forceGen` (`forced` is "`forceGen` differs from my `seenGen`"); `liveConns` and the
netifd notifications with a helper that may fail; the hooks; cancellation, the deferred
clean-up and the down hook.

**`Traffic`** - counter, buckets per day, per-client buckets, two files, hot changes of
`traffic_file` and `traffic_days`, and the session objects whose bytes are sampled (active,
retired, sampled for the last time). Up and down are one number. The histories `carried`,
`gone`, `durable` and `excused` account for every byte: carried ever, trimmed with its day,
in the file, or lost as the code accepts.

**`ReorderTheorems`**, **`ReorderBufferProofs`**, **`RxWorkerProofs`**, **`PortRotationProofs`**,
**`SessionProofs`**, **`SessionTokenProofs`**, **`AdmissionProofs`**, **`ClientProcessProofs`** -
lemmas and theorems (section 5).
**`MC...`** - the instances for TLC. Operators commented *Mutant* are faulty variants
kept to show that each property can fail.

`PROJECT.json` maps every definition to the lines it models.

## 3. The runs

| Run | Shows | Distinct states |
|---|---|---|
| `reorder_buffer` | in-order delivery (refinement), held frames inside the window and timed, no lost wake-up, nothing stranded by Close; a due gap ends; Close ends both goroutines | 173,740 |
| `rx_worker` | barrier complete, no stale insert (server), nothing stranded, the same promise; rotation and Close return despite a full queue | 1,164,924 |
| `fec_link` | groups agree, fences precede data, bypass and retirement are safe, single losses repaired | 95,325 |
| `session` | count, timer and identities consistent; the client returns to service | 770,886 |
| `session_tokens` | the two-phase token rollover survives lost responses, restarts and refusals, with three connections | 1,471,007 |
| `port_rotation` | no batch leaves under the key of another epoch | 97,922 |
| `admission` | no frame reaches a closed port; the latest session of a MAC keeps it; pools exact; a ban takes effect; no connection outlives its session | 836,968 |
| `scheduler` | queued bytes exact, debts bounded, a numbered batch finds its slot, every active path gets work | 707,360 |
| `client` | the kernel is clean at exit; netifd follows the links; an old configuration ends; a forced reconnect ends every back-off; shutdown completes | 61,704 |
| `traffic` | no byte counted twice, none lost but what one period had in memory, in total and per client | 123,972 |
| `port_rotation_stuck` | **violated**: a rotation can wait for ever | - |
| `fec_outage` | **violated**: a wrong payload is rebuilt after an outage | - |

The two violated properties are quoted from the repository's documents and comments;
`PROJECT.json` ("findings") gives the lines.

* *port_rotation_stuck.* `waitForBackendSlot` polls until some registered backend has
  room. A rotation closes the sockets while holding both locks, so the writers end
  with full queues; it then waits for the run goroutine, which is in that poll; the
  readers, whose exit would unregister the backends, wait for the lock to check the
  epoch of a frame they had already buffered. With nothing buffered
  (`MCPortRotationIdle.cfg`) the rotation always completes.
* *fec_outage.* A batch that finds no backend is numbered but never reaches the
  encoder, so an open group continues with later numbers. `RecoversWithoutOutage`
  holds: this is the only way.

### Further configurations

These instances answer side questions; each is expected to be violated, except
`MCPortRotationIdle`.

| Configuration | Property | What it shows |
|---|---|---|
| `MCSessionNoFec` | `LiveEpochHasOneRun` | without FEC the sequence is reset after `sessionMu` is released, so one key sees two runs of numbers (`docs/protocol_v3.md:194`) |
| `MCFecSkippedFence` | `BypassesOnlyUnprotected` | a RESUME whose SUSPEND was lost extends an older window (`docs/dynamic_rx_fec_bypass.md:19`); `BypassSafeWithEveryFence` holds, so this is the only way |
| `MCReorderWrap` | `DeliveredInOrder` | after the last uint32, `expectedSeq` wraps to 0 = "no frame yet" and a second copy is delivered again |
| `MCRxWorkerClient` | `NoStaleInsert` | the client's reader has no epoch check; an old connection whose producer was created late feeds the new epoch |
| `MCFecSwept` | `SweepsOnlyUnprotected` | a fence sweeps a pending group whose parity was sent |
| `MCSessionLate` | `EpochNeverRegresses` | responses applied in reverse order step the client back; it recovers by reconnecting, but the newer response is not saved, so `SettledIsResumable` excepts this client |
| `MCSessionStale` | `SavedNeverRegresses` | a response that was current when it was compared with the memory (`client.go:2415`) is written after another connection has saved one of the next session: the file's own comparison is within one session only, so the file goes back. The client's memory is right, and the next handshake saves again; section 5 says what follows for a restart |
| `MCSessionReuse` | `NoSequenceReuse` | after a kick, a connection of the replaced session that is still up sends the numbers its client restarted for the new session, under its own old key (`docs/protocol_v3.md:194`); the server has closed that session |
| `MCSessionPlain` | `NewEpochRestartsSequence` | FEC without encryption: salts do not change, so a rotation does not reset the client's sequence |
| `MCClientHotConfig` | `HotConfigArrives` | a supervisor reads the configuration before it dials and registers its socket after: a hot change in between is lost for this connection until something else ends it (`client.go:1086` says it wakes every supervisor) |
| `MCClientHookEnv` | `HookEnvironmentKept` | a later handshake whose network setup fails calls `Activate` again (`client.go:2034`), so the down hook gets another environment than the up hook had (`hooks.go:103`) |
| `MCTrafficPath` | `NextSampleUsesNewPath` | after a hot change of `traffic_file` an unchanged ledger is not written to the new path: `saved` still holds the old path's content (`traffic.go:200`) |
| `MCTrafficRetention` | `SameRetention` | a client keeps days whose totals were trimmed: its days are counted by themselves, and looked at only when the totals had one too many (`traffic.go:182`) |
| `MCSessionCrash` | `RestartResumes` | killed before the state file is written, the client waits for the retention to pass |

## 4. Bounds and fairness

Bounds are constants, named in each module.

* *Reordering*: rings of 2 growing to 4, numbers {1, 2, 4}, three insertions (`MaxFrames`) and each
  number at most twice (`Copies`): a hole, growth, a frame too far ahead, a frame that comes again
  (recovered by FEC, then received) before or after its number was passed, and two readers that both hold batches;
  `OutQueue = 1` makes both "delivered" and "dropped" happen. One reset is one old and
  one new epoch. `SeqSpace = 16` is the smallest that leaves room beyond the window;
  the proofs cover every size.
* *Receive worker*: a queue of one element, batches of two, two connections, two epochs:
  readers, rotation and `Close` all meet a full queue. A second rotation that meets leftovers
  of the first is covered by the proofs, for safety.
* *FEC*: groups of two over two connections, four numbers (two groups), one pending
  group, so that eviction happens. Two connections suffice for every relative order of
  data, parity and fence. The skipped fence needs three groups and is run with a
  constraint that keeps queues short.
* *Session*: two connections, two session identities, and `MaxFaults` kills, kicks or
  exhaustions beside any number of lost connections and responses. The bound on epochs is
  greater than what one fault can bring about, so `EventuallyInService` excepts only behaviours
  that use up the session identities, and the rotation after an exhaustion, with the refusals
  around it, is judged. `session_tokens` follows the tokens of one session with
  three connections, of which the server admits one at a time, without FEC and with one fault: two responses
  may be under way while a third connection presents a token. Several sessions at once are left to the theorem.
* *Port rotation*: two connections, three epochs, queues of one or two batches.
* *Admission and switch*: two connections, two MACs, two PSKs (four identities), two
  sessions created, one operator action; the IPv4 network has a spare host and the IPv6
  network runs out, so that refusals and give-backs happen. Clients ask for a free, a
  taken or a foreign address. The session limit is none or one, and a reload changes it. The
  limit of connections per session is not reached; it drops the connection and changes no table. Connections, MACs and
  PSKs are symmetric; the run has only invariants, for which symmetry is sound.
* *Scheduler*: two backends with queues of three, one batch size, thresholds at two and
  four batches, and two round trips of which the greater is outside the envelope of the
  smaller. One batch size keeps the space small; `DebtsBounded` is stated
  for any set of sizes.
* *Client process*: two connections; a configuration with a fwmark and a configured route
  and one with a source rule, one hot change between them (`Reloads`), any number of forced
  reconnects and losses. Two connections suffice for a token taken by the other supervisor and
  for a loss racing a recovery. More changes and gateways are covered by the proofs.
* *Traffic*: one client with two session objects, so that one is retired or still counting
  while the next is active; two bytes (`MaxBytes`), two days (`MaxDay`), a retention of one
  or two days. Any subset of the two saves may fail and the clients' file may be damaged.
  The run has one path, since with two the bound of one period is false: a hot change of
  `traffic_file` does not reset `saved` (`traffic.go:200`), so a ledger that does not change
  afterwards is never written to the new path, and a process restarted with that path starts without it. `MCTrafficPath` shows
  the step; the two properties are about a ledger that keeps its path.

CHECK_DEADLOCK is off only where a bound or the finding itself stops the system:
`FecLink` ends when its numbers are used up; in `PortRotation` the stuck rotation *is* a
deadlock.

Fairness is weak fairness of goroutines and timers: a runnable goroutine runs, a timer
that is due fires, a lock that is free is granted, a blocked TLS write succeeds or ends at
its deadline. In `ReorderBuffer`, `RxWorker` and `Session` there is one condition per goroutine, whose
subscript is the variable that every step of it changes, and the one of `RxWorker`'s worker speaks of the queue it
alone shortens; these are the fairness of the goroutines in a form TLC evaluates quickly. Two places ask for more.

* `PortRotation` gives the run goroutine's reset *strong* fairness: Go's `select` chooses
  among ready cases at random, so traffic cannot starve it for ever.
* `Session` assumes `NetworkSettles`: from some time on no connection fails by itself
  (`EventuallyInService` cannot hold on a network that never stays up). An end whose peer
  is gone notices it, since every read has a deadline. The client keeps dialling, as its
  reconnect loop does.

`ActivePathsShare` of the scheduler needs no fairness: it speaks of behaviours in which
batches keep coming and the active set has settled.

`ClientProcess` assumes that a supervisor runs, that the reader of a closed socket and the
`select` on a cancelled context return, that `ApplyConfig` goes on to `ForceReconnect` and that the
clean-up runs once the supervisors are gone. It assumes nothing of the network or of the
back-off timer: `ForcedRedial` and `ShutdownCompletes` do not need the timer to fire.

Nothing makes a peer send, an operator act or a connection break.

## 5. Proofs

### The reorder buffer

`ReorderBufferProofs` proves, for any number of readers, any set of numbers, any ring
sizes and any queue capacity allowed by the named assumptions:

| Theorem | States | Invariant |
|---|---|---|
| `TypeCorrect` | `Spec => []TypeOK` | `TypeOK` is inductive |
| `CloseStrandsNothing` | `Spec => []NoStrandedBatch` | `CloseInv = TypeOK /\ Places /\ Locking` |
| `WakeupsAreKept` | `Spec => []NoLostWakeup` | `WakeInv = TypeOK /\ Owing /\ NoLostWakeup` |
| `HeldFramesStayInside` | `Spec => []HeldInsideWindow` | `HeldInv = TypeOK /\ WellHeld(rb) /\ ...` |
| `HeldFramesStayTimed` | `Spec => []HeldFramesAreTimed` | the same |
| `KeepsPromise` | `Spec => ImplementsInOrderDelivery` | `OrderInv`: `CloseInv`, `HeldInv`, `Ring`, `Loaded` and `Line` |

*Why the strengthenings.* `NoStrandedBatch` says nothing of a batch still in a reader's
hands; `Locking` adds who holds which mutex at each program point, so that once `Close`
has passed `deliverMu` nobody is between taking a batch and sending it. `NoLostWakeup`
needs `Owing`: a pending signal belongs to a goroutine that is on its way to send it.
`HeldInsideWindow` needs the *ring* facts of `WellHeld`: one frame per slot, every frame
within one window of the number awaited, and the gap timed.

*The argument for the ring.* The lemmas of `ReorderTheorems` go from arithmetic to the
operators: division with remainder is unique (`DivMod`, `QuotientUnique`); a slot depends
only on the distance from the awaited number, also across the wrap, since every window
divides the sequence space (`WrapKeepsSlot`, `SlotDistance`); hence in a window no two
numbers share a slot (`SlotHolds`); `DrainHolds`, `InsertHolds` and `ExpireHolds` carry
this through the three operations.

*The argument for the promise.* `delivered` is a history of the whole behaviour, so nothing
about the ring alone gives the order. `Line` puts everything that has left the ring in one
line: what outFunc saw, the batches in `outChan`, the batch of whoever holds `deliverMu`, the
batch of whoever holds `mu`. Each is increasing and lies ahead of what comes after it, and all
of it is behind the number the ring awaits. A reader that took a batch and waits for
`deliverMu` keeps `mu` until it has it; this is what keeps the line a line. Then `Output`,
the only step that changes `delivered`, is a step of `InOrderDelivery`, and every other step
receives or stutters. That the number awaited moves only forward (`Ring`) is shown for a
whole run of drained slots by taking the least number at which it would fail.

*The assumptions.* The last three theorems assume `LastNumberUnused`, that the peer does not
send number `SeqSpace - 1`. The code needs it, since `expectedSeq` 0 also means "no frame
yet"; but `nextSeq` hands that number out before it reports exhaustion (`client.go:140`),
and `MCReorderWrap` shows what then happens. A sender reaches it only after 2^32 - 1
frames of one epoch. `KeepsPromise` also assumes `NumbersSpread`: two numbers of one epoch are
less than the sequence space apart, less a window. A number still later than that would
count as one to come.

### The client process

`ClientProcessProofs` proves, for any finite set of connections and any configurations,
hot changes and handshake responses:

| Theorem | States | Invariant |
|---|---|---|
| `TypeCorrect` | `Spec => []TypeOK` | `TypeOK` is inductive |
| `OldConfigurationsEnd` | `Spec => []OldConfigOnlyIfDialing` | `ConfigInv` |
| `NetifdIsRight` | `Spec => []NetifdFollowsLinks` | `LinkInv` |
| `ExitIsClean` | `Spec => []ExitUndoesSetup` | `HostInv` |

`ConfigInv` extends the property to connections that still dial, which have no socket to
close. `LinkInv` says that `liveConns` is the number of linked connections, and that netifd
left UP without one means that somebody is on the way to publish DOWN. `HostInv` says that every
rule and route in the kernel is one that some recorded specification would remove, up to the
gateway of a default route; the lemmas at the head of the module say what installing,
recording and cleaning do to a single rule or route. The last theorem also excludes what a
small instance cannot: a long sequence of hot changes that orphans a rule.

### The receive worker

`RxWorkerProofs` proves, for any number of connections, epochs and frames and any queue and
batch capacities:

| Theorem | States | Invariant |
|---|---|---|
| `CloseStrandsNothing` | `Spec => []NothingStranded` | `Typed /\ CloseInv` |
| `RotationsComplete` | `Spec => []RotationIsComplete` | the same and `BarrierInv` |
| `ServerInsertsNothingStale` | `ChecksEpoch` gives `Spec => NoStaleInsert` | `SafeInv`: the same and `QueuedInv /\ ReadersInv` |
| `ActorKeepsPromise` | `ChecksEpoch` gives `Spec => ImplementsInOrderDelivery` | `SafeInv /\ InLine` |

`BarrierInv` fixes, for every place the rotating goroutine can be at, how far the three counters
(session epoch, generation, the worker's own epoch) have got, and that the queue holds at most
one barrier, whose reset is still to come. `ReadersInv` is the heart of `NoStaleInsert`: a
reader may capture a generation later than its connection's epoch, but then every frame it
reads fails the epoch check, so what it holds was read in the epoch it is tagged with. The
client's reader has no such check; hence the assumption `ChecksEpoch`, and `MCRxWorkerClient`.

`ActorKeepsPromise` shows that the actor keeps the promise of the locked buffer without its
locks, under the assumptions of `KeepsPromise`. One goroutine applies a whole batch in a
step, so `InLine` is only about the ring and what was handed on; but what it applies has to
be of the present epoch, which is `SafeInv`. `ReorderTheorems` has the facts on the ring that
both proofs use.

### Numbering across a rotation

`PortRotationProofs` proves `NumbersStayWithKey`, `Spec => NumbersMatchKey`, for any number of
connections and rotations and any queue capacities. `KeyInv` says that outside a rotation the
port counts in the session's epoch, that during one no socket is open, and that an open
connection has only batches of its own epoch queued. The queue of a closed one may hold
anything: nothing of it is written any more.

### Sessions and tokens

`SessionProofs` and `SessionTokenProofs` prove, for any finite set of connections and any
bounds, with and without FEC and encryption:

| Theorem | States | Invariant |
|---|---|---|
| `ConnectionsAreCounted` | `Spec => []ActiveCountsHandlers` | `Typed /\ HandlerInv /\ CountInv` |
| `IdleSessionsAreTimed` | `Spec => []IdleSessionIsTimed` | the same |
| `RetentionIsSafe` | `Spec => RetentionSparesLiveSession` | the same, for every step |
| `KeysAreExclusive` | `Spec => []EpochHasOneTokenAndInstance` | the same and `IssuedInv` |
| `SavedClientsResume` | `~KillAnytime` gives `Spec => []SettledIsResumable` | these and `TokenInv /\ GivenInv /\ SavedInv` |

`HandlerInv` says that no handler belongs to a session or an epoch still to come, so that a
rotation starts counting at zero and a late clean-up is never taken for one of the new epoch.
`Typed` bounds the history of sends, so that a run of numbers without a trace always exists (`RunsSuffice`).
`IssuedInv` ties every response to the counters that made it unique. For the tokens, `TokenInv` says
that within a session they are drawn in increasing order and that one not older than the
confirmed token is that token or the pending one; `SavedInv` says that the state file is not ahead of
the client, that what is not saved is about to be, that a response about to be saved is not newer than
the client's, and that only the client's own token can be presented as the pending one.

*The restrictions.* `~KillAnytime` excludes a kill between storing a response and saving it;
`MCSessionCrash` shows what happens there. `late` excludes two ways back to an older response, both
found by trying to prove the invariant without them, and both needing three connections:

* A client that applied a response after a newer one (`client.go:1933` compares nothing): the
  older identity replaces the newer one before it is saved, and a third connection may have
  presented the newer token, so that the server accepts only that.
* A file that was taken back (`MCSessionStale`). A connection compares its response of session 1
  with the memory and is delayed. After a kick a second one does the same with the first epoch of session 2,
  and a third rotates session 2, saves its new token, and the next handshake confirms it. Now the first writes
  session 1 over the file, and the second finds another session in the file, so that nothing keeps it
  from writing its old token back. TLC finds this behaviour, too, with two sessions, two epochs and two faults.

In both cases a restarted process is refused until the retained session expires, unless a later
handshake saves first.

### Admission and the switch

`AdmissionProofs` proves, for any sets of MACs, keys and addresses, any finite set of
connections and any limits:

| Theorem | States |
|---|---|
| `TablesLeadToOpenPorts` | `Spec => []NoClosedPort` |
| `MACsHaveTheirOwner` | `Spec => []LatestOwnsMAC` |
| `PoolsAreExact` | `Spec => []AddressesExact` |
| `BansTakeEffect` | `Spec => []BannedIsOffline` |
| `NoConnectionIsOrphaned` | `Spec => []NoOrphanConn` |

The five follow from one inductive invariant, `AdmissionInv`, whose parts need each other.
`CreatorInv` says who holds `s.mu` in the middle of a creation, `SwitchInv` what the tables hold then and what
`RemovePort` has already left behind; both are needed because the tables are wrong for a
moment and right again when the lock is released. `NumberInv` says that instances are never reused, so that a
destroy meant for one session cannot hit its successor; `OwnerInv`, `PoolInv` and `BanInv` are
the properties with the exceptions spelled out; `ServeInv` says that a session counts the
handlers that hold its port, which is what keeps retention from destroying a session in use. `PoolInv` is
about a function from sessions to addresses, so that adding and removing a session are two
lemmas on cardinalities, used for both families.

### Assumptions and what is left

The constants are constrained only by the named assumptions: sizes are natural numbers, sets of
connections are finite, and the marker `None` (a nil pointer, a missing map entry) is none of
the values it stands beside. TLC evaluates each of them on the runs' instances. Every inductive
invariant was checked with TLC on such an instance before it was proved.

Types are part of the inductive invariants, so no run lists a type invariant beside the
properties; `ReorderBufferProofs` and `ClientProcessProofs` also state theirs (`TypeCorrect`).

*Only model-checked*:

* the liveness properties: fairness and ENABLED are beyond the prover;
* `FecLink`: encoder and decoder are folds over frames and groups, and what a fold computes for
  every input needs induction over data, which the prover cannot instantiate;
* `Traffic`: the same for its sums over days and clients;
* `Scheduler`: `QueuedBytesExact` is a sum over queues of any length, again a fold, and
  `DebtsBounded` rests on a least element of a computed set; `SlotHolds` is not proved yet.

## 6. Reading the models against the code

* Locks are modelled where a goroutine can block while holding them. A critical section
  without a blocking point is one action.
* Time is abstract: a gap is *fresh* or *due*, a retention timer may fire whenever it is
  armed. No property depends on a duration.
* Histories (`arrived`, `received`, `delivered`, `recovered`, `protected`, `bypassed`,
  `givenUp`, `skipped`, `helper`, `missed`, `late`, `offers`, `carried`, `gone`, `durable`, `excused`) are never read by an action's guard, except as a bound.
* Both peers are honest runs of this program. Frames on the wire are what the other side
  sent; what a connection loses is a suffix of its stream.

## 7. Not modelled, and why

* Bytes: framing, padding, AEAD, TLS, parity encoding. Frames are values, sealing is the
  name of the key.
* Errors of the random source and of the ciphers during a rotation (`server.go:1542-1556`):
  `crypto/rand` does not fail in Go, and the session's algorithm has already been set up
  once with a key of the same length. After such an error the old connections would be closed and the epoch,
  or the token, not be renewed. A failing write of the state file, which is logged and leaves
  the old file, is left out too: for a restart it is a kill before the save.
* Estimates of rate and demand: they set only the size of the scheduler's active set, and
  the model allows every size.
* The limiter's count per remote host, the PSK failure buckets and the flood budgets: each
  only refuses earlier, and leaves the tables alone.
* The single-path reader: it checks the epoch under `sessionMu`, releases it and then
  inserts, so a rotation can reset the buffer in between (`server.go:1998`). Listed as a
  hazard.
* Statistics. Two observations from reading: a rotation's new decoder is not given the
  server's lifetime counters (`server.go:705`), and `dialAndServe` never sets `linkedAt`
  (`client.go:1716`), so a long-lived link does not reset the back-off.
* Two more observations from the switch. A comment says TAP frames never reach
  `validateSrcMAC` (`server.go:2104`), but `processFrame` calls it for them too. When the
  newer of two sessions of one MAC ends first, the older one is left without a static entry
  and binding; `LatestOwnsMAC` is therefore stated for the latest session.
* The lengths of the reconnect delays, the trend rings of the traffic panel, the older
  per-client sampler, and interface addresses (`assignTapAddr` never removes an old one).
* Observations from the client process. When `notifyNetifdUp` fails while the last other
  connection drops, nobody publishes DOWN and netifd stays UP without a live connection
  (`client.go:2080`); `NetifdFollowsLinks` excepts a failed helper call. `setupFwmarkRoutes`
  adds the rule of a family once per route, which the kernel refuses under a fixed priority,
  as the comment at `net_linux.go:473` knows for source rules. `installPolicyRouting`
  overwrites the recorded gateway with the new one before it cleans, so a default route
  through an older gateway can stay; `ExitUndoesSetup` excepts it. With mark 0,
  `cleanPolicyRouting` still asks to delete default routes of table 0 (`net_linux.go:527`).
* An observation from FEC: a comment in `newGroupLocked` says that an evicted group can never
  meet the condition for recovery (`fec.go:693`). It can, when its missing pieces come late;
  what it rebuilds is right (`RecoversWithoutOutage`).
* An observation from the ledger: when the totals cannot be read, `loadLocked` returns before
  the clients' file (`traffic.go:432`), whose history the next save then replaces.
* Operating-system integration, web panel, MCP server, configuration.

## 8. Plan

1. The single-path reader against a rotation; PSK failure buckets and the limiter per host.
2. Proofs: `SlotHolds` of `Scheduler`; `FenceBeforeData` of `FecLink`.
