--------------------------- MODULE ClientProcess ---------------------------
(***************************************************************************)
(* The client process around its sessions: one supervisor per physical     *)
(* connection (Client.Run, dialAndServe), hot configuration and forced     *)
(* reconnects from the panel (ApplyConfig, ForceReconnect), the host       *)
(* network each handshake sets up (interface, policy routing, up hook, or  *)
(* netifd), and the clean-up when the process ends.                        *)
(*                                                                         *)
(* What a handshake negotiates for the data plane is modelled in Session   *)
(* and RxWorker; here it yields the address and gateways of the response.  *)
(* The lengths of the retry delays are not modelled: a wait ends by the    *)
(* wake token, by the poll of forceGen, by its timer or by cancellation.   *)
(***************************************************************************)
EXTENDS PolicyRouting

CONSTANTS
    Conns,      \* the supervisors, fixed at start
    Configs,    \* configurations: [mark, fixed, extra, src]
    Reloads,    \* bound: the hot changes the panel makes, pairs of configurations
    Responses,  \* what a handshake may return: [addr, gw]
    Modes       \* "netifd", "self" (no hooks), "hooks"

ASSUME ClientProcessAssumption ==
    /\ IsFiniteSet(Conns)
    /\ \A k \in Configs : k.mark \in Nat
    /\ Modes \subseteq {"netifd", "self", "hooks"}

VARIABLES
    mode,       \* interface manager, and whether hooks are configured
    live,       \* c.live
    panel,      \* "idle", or "applying" between live.Store and ForceReconnect
    conn,       \* the supervisors: [pc, lv, resp, sock, forced]
    wake,       \* a token is in c.wake
    quit,       \* the context is cancelled
    liveConns,
    netifd,     \* c.netifdState: [up, resp]
    helper,     \* history: the last netifd helper call succeeded
    kernel,
    record,     \* prMark, prGw*, prExtra, prSrc, prInstalled
    gw,         \* c.gwV4, c.gwV6
    hooks,      \* [active, resp, up, down]: up in "no", "ok", "failed"
    proc,       \* "running", "cleaned" (Run has returned), "exited"
    missed,     \* history: a reconnect found the connection without a socket
    offers      \* history: the gateways that handshakes have returned

vars == <<mode, live, panel, conn, wake, quit, liveConns, netifd, helper,
          kernel, record, gw, offers, hooks, proc, missed>>

gateway == <<gw, offers>>

host == <<kernel, record, hooks>>
link == <<liveConns, netifd, helper>>
ctl == <<mode, live, panel, quit, proc>>

NoGw == [f \in Families |-> "none"]

NoResp == [addr |-> "none", gw |-> NoGw]

SpecFor(lv, g) ==
    [mark |-> lv.mark, fixed |-> lv.fixed, extra |-> lv.extra, src |-> lv.src, gw |-> g]

NoConfig == [mark |-> 0, fixed |-> FALSE, extra |-> {}, src |-> {}]

NoSpec == SpecFor(NoConfig, NoGw)

Pcs == {"idle", "dialing", "handshaking", "setup", "notifying", "up",
        "downing", "waiting", "gone"}

\* No attempt in progress; a socket the registry still holds is closed.
Attempt(pc, forced) ==
    [pc |-> pc, lv |-> NoConfig, resp |-> NoResp, sock |-> "none", forced |-> forced]

Init ==
    /\ mode \in Modes /\ live \in Configs
    /\ panel = "idle" /\ wake = FALSE /\ quit = FALSE /\ proc = "running"
    /\ conn = [c \in Conns |-> Attempt("idle", FALSE)]
    /\ liveConns = 0 /\ netifd = [up |-> FALSE, resp |-> NoResp] /\ helper = TRUE
    /\ kernel = [rules |-> {}, routes |-> {}] /\ record = NoRecord(NoSpec)
    /\ gw = NoGw /\ offers = {}
    /\ hooks = [active |-> FALSE, resp |-> NoResp, up |-> "no", down |-> FALSE]
    /\ missed = [c \in Conns |-> FALSE]

Goto(c, pc) == conn' = [conn EXCEPT ![c].pc = pc] /\ UNCHANGED missed

\* dialAndServe returns: its deferred calls have closed the socket.
Ended(c) ==
    /\ conn' = [conn EXCEPT ![c] = Attempt("waiting", @.forced)]
    /\ missed' = [missed EXCEPT ![c] = FALSE]

(***************************************************************************)
(* The panel.                                                              *)
(***************************************************************************)
ApplyConfig(k) ==
    /\ panel = "idle" /\ proc = "running" /\ <<live, k>> \in Reloads
    /\ live' = k /\ panel' = "applying"
    /\ UNCHANGED <<mode, conn, wake, quit, link, host, gateway, proc, missed>>

(***************************************************************************)
(* forceGen moves, every stored socket is closed, one token is left.       *)
(* forced[c] stands for forceGen # seenGen of supervisor c.                *)
(***************************************************************************)
ForceReconnect ==
    /\ proc = "running"
    /\ panel' = "idle" /\ wake' = TRUE
    /\ conn' = [c \in Conns |->
                  [conn[c] EXCEPT !.forced = TRUE,
                                  !.sock = IF @ = "open" THEN "closed" ELSE @]]
    /\ missed' = [c \in Conns |-> missed[c] \/ conn[c].pc = "dialing"]
    /\ UNCHANGED <<mode, live, quit, link, host, gateway, proc>>

\* A signal cancels the context.
Cancel ==
    /\ ~quit /\ quit' = TRUE
    /\ UNCHANGED <<mode, live, panel, conn, wake, link, host, gateway, proc, missed>>

(***************************************************************************)
(* A supervisor.                                                           *)
(***************************************************************************)
\* Mutant: the back-off does not listen to the context.
StopWhenIdle(c) ==
    /\ conn[c].pc = "idle" /\ quit
    /\ Goto(c, "gone")
    /\ UNCHANGED <<ctl, wake, link, host, gateway>>

Stop(c) ==
    /\ conn[c].pc \in {"idle", "waiting"} /\ quit
    /\ Goto(c, "gone")
    /\ UNCHANGED <<ctl, wake, link, host, gateway>>

\* The configuration is read, then the registry gets a row without a socket.
Dial(c) ==
    /\ conn[c].pc = "idle" /\ ~quit
    /\ conn' = [conn EXCEPT ![c] = [@ EXCEPT !.pc = "dialing", !.lv = live]]
    /\ UNCHANGED <<ctl, wake, link, host, gateway, missed>>

\* Mutant: the socket is registered only once the link is up.
ConnectedUnregistered(c) ==
    /\ conn[c].pc = "dialing"
    /\ Goto(c, "handshaking")
    /\ UNCHANGED <<ctl, wake, link, host, gateway, missed>>

Connected(c) ==
    /\ conn[c].pc = "dialing"
    /\ conn' = [conn EXCEPT ![c] = [@ EXCEPT !.pc = "handshaking", !.sock = "open"]]
    /\ UNCHANGED <<ctl, wake, link, host, gateway, missed>>

\* A failed dial or handshake, or a closed socket under it.
DialFails(c) ==
    /\ conn[c].pc \in {"dialing", "handshaking"}
    /\ Ended(c)
    /\ UNCHANGED <<ctl, wake, link, host, gateway>>

\* The response is read: from here to the link the socket is not looked at.
\* netifd mode has no network to set up: the backend is registered and counted,
\* and netifd is told next.
Handshaken(c) ==
    /\ conn[c].pc = "handshaking" /\ conn[c].sock # "closed"
    /\ \E r \in Responses :
          /\ conn' = [conn EXCEPT ![c] =
                        [@ EXCEPT !.pc = IF mode = "netifd" THEN "notifying" ELSE "setup",
                                  !.resp = r]]
          /\ gw' = r.gw /\ offers' = offers \cup {r.gw}
    /\ liveConns' = IF mode = "netifd" THEN liveConns + 1 ELSE liveConns
    /\ UNCHANGED <<ctl, wake, netifd, helper, host, missed>>

\* The hooks after Up(resp): the up hook runs once, its result stays.
HooksUp(resp, result) ==
    IF hooks.up # "no" THEN hooks
    ELSE [hooks EXCEPT !.active = TRUE, !.resp = resp, !.up = result]

\* Under networkSetup: interface, policy routing, hooks.  A failure ends the
\* process, but only when hooks are configured; else the connection is up.
SetupNetwork(c) ==
    LET resp == conn[c].resp
        spec == SpecFor(conn[c].lv, resp.gw)
    IN  /\ conn[c].pc = "setup"
        /\ kernel' = Install(kernel, record, spec)
        /\ record' = Record(record, spec)
        /\ \E ready \in {b \in BOOLEAN : b => ~SetupFails(spec)}, result \in {"ok", "failed"} :
              /\ hooks' = CASE mode = "self" -> hooks
                            [] mode = "hooks" /\ ready -> HooksUp(resp, result)
                            [] OTHER -> [hooks EXCEPT !.active = TRUE, !.resp = resp]
              /\ IF mode = "self" \/ (ready /\ hooks'.up = "ok")
                 THEN Goto(c, "up") /\ liveConns' = liveConns + 1 /\ UNCHANGED quit
                 ELSE Ended(c) /\ quit' = TRUE /\ UNCHANGED liveConns
        /\ UNCHANGED <<mode, live, panel, proc, wake, netifd, helper, gateway>>

\* notifyNetifdUp, under netifdMu: an update the helper must make, and may fail to.
NotifyUp(c) ==
    LET state == [up |-> TRUE, resp |-> conn[c].resp]
    IN  /\ conn[c].pc = "notifying"
        /\ \/ netifd = state /\ Goto(c, "up") /\ UNCHANGED link
           \/ /\ netifd # state
              /\ Goto(c, "up") /\ netifd' = state /\ helper' = TRUE
              /\ UNCHANGED liveConns
           \/ /\ netifd # state
              /\ Ended(c) /\ liveConns' = liveConns - 1 /\ helper' = FALSE
              /\ UNCHANGED netifd
        /\ UNCHANGED <<ctl, wake, host, gateway>>

\* The reader or the writer fails, the peer closes, or the context ends.
Drop(c) ==
    /\ conn[c].pc = "up"
    /\ liveConns' = liveConns - 1
    /\ IF liveConns = 1 /\ mode = "netifd" THEN Goto(c, "downing") ELSE Ended(c)
    /\ UNCHANGED <<ctl, wake, netifd, helper, host, gateway>>

\* Mutant: a recovery between the last loss and the lock is not noticed.
PublishDownStale ==
    \/ ~netifd.up /\ UNCHANGED <<netifd, helper>>
    \/ netifd.up /\ netifd' = [up |-> FALSE, resp |-> NoResp] /\ helper' = TRUE
    \/ netifd.up /\ helper' = FALSE /\ UNCHANGED netifd

\* notifyNetifdDown, under netifdMu: nothing while a connection is live.
PublishDown ==
    \/ (~netifd.up \/ liveConns # 0) /\ UNCHANGED <<netifd, helper>>
    \/ /\ netifd.up /\ liveConns = 0
       /\ netifd' = [up |-> FALSE, resp |-> NoResp] /\ helper' = TRUE
    \/ netifd.up /\ liveConns = 0 /\ helper' = FALSE /\ UNCHANGED netifd

NotifyDown(c) ==
    /\ conn[c].pc = "downing"
    /\ PublishDown
    /\ Ended(c)
    /\ UNCHANGED <<ctl, wake, liveConns, host, gateway>>

\* The end of a wait: the token, which one supervisor takes ...
Woken(c) ==
    /\ conn[c].pc = "waiting" /\ wake
    /\ wake' = FALSE
    /\ conn' = [conn EXCEPT ![c] = [@ EXCEPT !.pc = "idle", !.forced = FALSE]]
    /\ UNCHANGED <<ctl, link, host, gateway, missed>>

\* Mutant: without the 250 ms poll.
NoPoll(c) == FALSE /\ UNCHANGED vars

\* ... the poll of forceGen ...
Poll(c) ==
    /\ conn[c].pc = "waiting" /\ conn[c].forced
    /\ conn' = [conn EXCEPT ![c] = [@ EXCEPT !.pc = "idle", !.forced = FALSE]]
    /\ UNCHANGED <<ctl, wake, link, host, gateway, missed>>

\* ... or the timer.
BackoffOver(c) ==
    /\ conn[c].pc = "waiting"
    /\ Goto(c, "idle")
    /\ UNCHANGED <<ctl, wake, link, host, gateway>>

(***************************************************************************)
(* The end: Run's deferred clean-up once every supervisor has returned,    *)
(* then the down hook.                                                     *)
(***************************************************************************)
\* Mutant: only the configuration in force is cleaned.
CleanupLive ==
    /\ proc = "running" /\ \A c \in Conns : conn[c].pc = "gone"
    /\ IF mode = "netifd" THEN PublishDown ELSE UNCHANGED <<netifd, helper>>
    /\ kernel' = CleanPolicyRouting(kernel, SpecFor(live, gw))
    /\ proc' = "cleaned"
    /\ UNCHANGED <<mode, live, panel, quit, conn, wake, liveConns, record, hooks, gateway, missed>>

Cleanup ==
    /\ proc = "running" /\ \A c \in Conns : conn[c].pc = "gone"
    /\ IF mode = "netifd" THEN PublishDown ELSE UNCHANGED <<netifd, helper>>
    /\ kernel' = CleanAll(kernel, SpecsAtExit(record, SpecFor(live, gw)))
    /\ record' = [record EXCEPT !.installed = {}]
    /\ proc' = "cleaned"
    /\ UNCHANGED <<mode, live, panel, quit, conn, wake, liveConns, hooks, gateway, missed>>

HooksDown ==
    /\ proc = "cleaned"
    /\ hooks' = [hooks EXCEPT !.down = hooks.active]
    /\ proc' = "exited"
    /\ UNCHANGED <<mode, live, panel, quit, conn, wake, link, kernel, record, gateway, missed>>

Exited == proc = "exited" /\ UNCHANGED vars

Supervisor(c) ==
    \/ Stop(c) \/ Dial(c) \/ Connected(c) \/ DialFails(c) \/ Handshaken(c)
    \/ SetupNetwork(c) \/ NotifyUp(c) \/ NotifyDown(c) \/ Woken(c) \/ Poll(c)

Next ==
    \/ \E k \in Configs : ApplyConfig(k)
    \/ ForceReconnect \/ Cancel
    \/ \E c \in Conns : Supervisor(c) \/ Drop(c) \/ BackoffOver(c)
    \/ Cleanup \/ HooksDown \/ Exited

Spec == Init /\ [][Next]_vars

(***************************************************************************)
(* The goroutines are scheduled; the reader of a closed socket and the     *)
(* select on a cancelled context return; ApplyConfig goes on to            *)
(* ForceReconnect.  Nothing is assumed of the network, of the panel or of  *)
(* the length of a back-off.                                               *)
(***************************************************************************)
Runs(c) == Supervisor(c) \/ (Drop(c) /\ (conn[c].sock = "closed" \/ quit))

FairSpec ==
    /\ Spec
    /\ \A c \in Conns : WF_vars(Runs(c))
    /\ WF_vars(ForceReconnect /\ panel = "applying")
    /\ WF_vars(Cleanup \/ HooksDown)

-----------------------------------------------------------------------------
ConnStates ==
    [pc : Pcs, lv : Configs \cup {NoConfig}, resp : Responses \cup {NoResp},
     sock : {"none", "open", "closed"}, forced : BOOLEAN]

HookStates ==
    [active : BOOLEAN, resp : Responses \cup {NoResp}, up : {"no", "ok", "failed"}, down : BOOLEAN]

(***************************************************************************)
(* The type invariant.                                                     *)
(***************************************************************************)
TypeOK ==
    /\ mode \in Modes /\ live \in Configs /\ panel \in {"idle", "applying"}
    /\ conn \in [Conns -> ConnStates] /\ missed \in [Conns -> BOOLEAN]
    /\ wake \in BOOLEAN /\ quit \in BOOLEAN /\ helper \in BOOLEAN
    /\ liveConns \in Int
    /\ netifd \in [up : BOOLEAN, resp : Responses \cup {NoResp}]
    /\ hooks \in HookStates
    /\ gw \in {NoGw} \cup offers /\ offers \subseteq {r.gw : r \in Responses}
    /\ proc \in {"running", "cleaned", "exited"}

(***************************************************************************)
(* However often the configuration was replaced, whichever handshake last  *)
(* wrote the host's network and wherever the end met the others, the       *)
(* process leaves no rule and no configured route behind (prInstalled,     *)
(* Run's deferred clean-up).  A default route can only stay when the       *)
(* server changed its gateway.  netifd is told that the link is down,      *)
(* unless its helper failed.                                               *)
(***************************************************************************)
ExitUndoesSetup ==
    proc = "exited" =>
        /\ kernel.rules = {}
        /\ \A r \in kernel.routes : r.gw # "none" /\ \E g, h \in offers : g # h
        /\ helper => ~netifd.up

(***************************************************************************)
(* Between updates netifd shows the interface up exactly when a connection *)
(* is live, unless the last helper call failed: a loss and a recovery      *)
(* racing for netifdMu publish neither a stale DOWN nor a stale UP         *)
(* (notifyNetifdUp, notifyNetifdDown, liveConns).                          *)
(***************************************************************************)
NetifdFollowsLinks ==
    (\A c \in Conns : conn[c].pc \notin {"notifying", "downing"}) /\ mode = "netifd" /\ helper
        => (netifd.up <=> liveConns > 0)

(***************************************************************************)
(* A connection past its dial that runs on a replaced configuration has    *)
(* had its socket closed, and so will redial: ApplyConfig stores the       *)
(* configuration before it closes the sockets.  The one exception is a     *)
(* reconnect that came while the connection was dialing, when the registry *)
(* holds no socket to close.                                               *)
(***************************************************************************)
OldConfigOnlyIfDialing ==
    \A c \in Conns :
        conn[c].pc \in {"handshaking", "setup", "notifying", "up"} /\ conn[c].lv # live
            => conn[c].sock = "closed" \/ panel = "applying" \/ missed[c]

(***************************************************************************)
(* ForceReconnect ends every back-off, although one supervisor takes the   *)
(* only token of c.wake: the others see forceGen move.  No timer is needed.*)
(***************************************************************************)
ForcedRedial ==
    \A c \in Conns : (conn[c].pc = "waiting" /\ conn[c].forced) ~> (conn[c].pc # "waiting")

(***************************************************************************)
(* A cancelled context, from a signal or from failProcess in the middle of *)
(* another connection's handshake, ends the process with its clean-up.     *)
(***************************************************************************)
ShutdownCompletes == quit ~> (proc = "exited")

(***************************************************************************)
(* "Atomically replaces the configuration and wakes every supervisor"      *)
(* (ApplyConfig): no connection stays on a configuration that was replaced.*)
(***************************************************************************)
HotConfigArrives ==
    \A c \in Conns : []<>(conn[c].pc # "up" \/ conn[c].lv = live)

(***************************************************************************)
(* "using the exact environment snapshot that activated the tunnel"        *)
(* (LifecycleHooks.Down): once the up hook has run, its environment stays. *)
(***************************************************************************)
HookEnvironmentKept == [][hooks.up # "no" => hooks'.resp = hooks.resp]_vars
=============================================================================
