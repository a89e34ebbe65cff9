----------------------------- MODULE Admission -----------------------------
(***************************************************************************)
(* Who gets a session, an address and a port on the server (server.go):    *)
(* the limiter, the checks of handleConnection before and inside           *)
(* s.mu, the address pools, the MAC bindings, bans and kicks, the          *)
(* retention timer, a reload of the configuration, and destroySession-     *)
(* Locked - composed with the switch, whose port table they change while   *)
(* frames are forwarded.                                                   *)
(*                                                                         *)
(* A client identity is <<mac, psk>>, as client_id is derived from both:   *)
(* after a reload of the PSK one MAC has two identities, and a session     *)
(* whose MAC or PSK differs from the request's is never found.  Epochs,    *)
(* tokens and process restarts are in Session.  The limiter's total is the *)
(* number of Conns; its count per remote host is left out.                 *)
(***************************************************************************)
EXTENDS VSwitch, FiniteSetsExt

CONSTANTS
    Conns,            \* slots of the accept limiter
    PSKs,             \* pre-shared keys the operator uses
    MaxPerSession,    \* maxConnectionsPerIP, which also limits the connections of a session
    SessionLimits,    \* values of maxSessions, 0 for no limit
    V4Net, V6Net,     \* the two networks, sets of numbers; 0 stands for x.0 and x.255
    V4Asked, V6Asked, \* addresses clients ask for
    MaxCreated,       \* bound: sessions created
    MaxOperations     \* bound: bans, kicks and reloads

\* What the server's tables hold; None is none of it.
Instances == [id : Clients, n : Nat]
SessionSet == [n : Nat, v4 : Nat, v6 : Nat, conns : Int, despiteBan : BOOLEAN]
BindingSet == [v4 : Nat, v6 : Nat]
LockSet == [op : {"add", "map", "remove"}, conn : Conns \cup {None}, port : Instances]

ASSUME AdmissionAssumption ==
    /\ Clients = MACs \X PSKs
    /\ IsFiniteSet(Conns)
    /\ None \notin Nat \cup SessionSet \cup BindingSet \cup LockSet
    /\ {MaxPerSession, MaxCreated, MaxOperations} \cup SessionLimits \subseteq Nat
    /\ {0, 1} \subseteq V4Net /\ {0, 1} \subseteq V6Net
    /\ V4Net \cup V6Net \cup V4Asked \cup V6Asked \subseteq Nat

VARIABLES
    psk,              \* s.psk
    maxSessions,      \* s.maxSessions
    active,           \* s.activeClients: identity -> session
    usedV4, usedV6,   \* the pools
    macToIP,          \* MAC -> addresses of its latest session
    banned,           \* s.banned: identities with a ban in force
    conn,             \* the handler of each connection
    mu,               \* what s.mu is write-locked for across several critical sections, or None
    timers,           \* retention timers: armed, or fired and waiting for s.mu
    operator,         \* the panel's Ban or kick in progress
    created, latest,  \* history: sessions created; number of the latest per MAC
    operations        \* what the last bound counts

tables == <<active, usedV4, usedV6, macToIP, created, latest>>
admissionVars == <<tables, psk, maxSessions, banned, conn, mu, timers, operator, operations>>
vars == <<switchVars, admissionVars>>

Gateway == 1
NoConn == [pc |-> "none", id |-> None, port |-> None]
NoOperator == [pc |-> "idle", id |-> None, port |-> None, closing |-> {}]

Init ==
    /\ SwitchInit
    /\ psk \in PSKs
    /\ maxSessions \in SessionLimits
    /\ active = [id \in Clients |-> None]
    /\ usedV4 = {Gateway} /\ usedV6 = {Gateway}
    /\ macToIP = [m \in MACs |-> None]
    /\ banned = {}
    /\ conn = [c \in Conns |-> NoConn]
    /\ mu = None
    /\ timers = [armed |-> {}, fired |-> {}]
    /\ operator = NoOperator
    /\ created = 0 /\ latest = [m \in MACs |-> 0]
    /\ operations = 0

MacOf(id) == id[1]
PortOf(id) == [id |-> id, n |-> active[id].n]
Current(port) == active[port.id] # None /\ active[port.id].n = port.n
Step(c, pc) == [conn EXCEPT ![c].pc = pc]

-----------------------------------------------------------------------------
(* Authenticating a connection.                                            *)

\* The first frame: the PSK is read under s.mu.RLock and compared, client_id must be derived
\* from the MAC and that PSK.  Then IsBanned, under bannedMu; a step between the two looks can
\* be moved before or after both.  A connection that is refused leaves no trace.
Authenticate(c, mac, key) ==
    LET id == <<mac, key>> IN
    /\ conn[c].pc = "none" /\ mu = None
    /\ key = psk /\ id \notin banned
    /\ conn' = [conn EXCEPT ![c] = [pc |-> "admitted", id |-> id, port |-> None]]
    /\ UNCHANGED <<switchVars, tables, psk, maxSessions, banned, mu, timers, operator, operations>>

-----------------------------------------------------------------------------
(* The critical section of the handshake.                                  *)

\* An existing session gains a connection; a retention timer that has not fired is stopped.
Resume(c) ==
    LET id == conn[c].id IN
    /\ conn[c].pc = "admitted" /\ mu = None /\ active[id] # None
    /\ timers' = [timers EXCEPT !.armed = @ \ {PortOf(id)}]
    /\ IF active[id].conns >= MaxPerSession
       THEN conn' = [conn EXCEPT ![c] = NoConn] /\ UNCHANGED active
       ELSE /\ active' = [active EXCEPT ![id].conns = @ + 1]
            /\ conn' = [conn EXCEPT ![c].pc = "serving", ![c].port = PortOf(id)]
    /\ UNCHANGED <<switchVars, usedV4, usedV6, macToIP, created, latest, psk, maxSessions, banned, mu,
                   operator, operations>>

\* alloc of assignIPsLocked: the address asked for if it is free, or the first free host.
Assign(asked, net, used) ==
    LET hosts == {a \in net \ used : a # 0}
    IN IF asked \in net \ used THEN asked
       ELSE IF hosts # {} THEN Min(hosts) ELSE None

Sessions == {id \in Clients : active[id] # None}
Full == maxSessions > 0 /\ Cardinality(Sessions) >= maxSessions

\* Mutant: an IPv4 address taken for a client that gets no IPv6 address is kept.
RefuseNewLeaks(c, v4, v6) ==
    /\ Full \/ None \in {v4, v6}
    /\ conn' = [conn EXCEPT ![c] = NoConn]
    /\ usedV4' = IF ~Full /\ v4 # None THEN usedV4 \cup {v4} ELSE usedV4
    /\ UNCHANGED <<active, usedV6, macToIP, created, latest, mu>>

\* Too many sessions, or no address: an IPv4 address already taken is given back.
RefuseNew(c, v4, v6) ==
    /\ Full \/ None \in {v4, v6}
    /\ conn' = [conn EXCEPT ![c] = NoConn]
    /\ UNCHANGED <<tables, mu>>

\* The tables of a new session; the switch follows, still under s.mu.
AdmitNew(c, v4, v6) ==
    LET id == conn[c].id
        n == created + 1
    IN /\ ~Full /\ None \notin {v4, v6}
       /\ created < MaxCreated
       /\ active' = [active EXCEPT ![id] = [n |-> n, v4 |-> v4, v6 |-> v6, conns |-> 1,
                                            despiteBan |-> id \in banned]]
       /\ usedV4' = usedV4 \cup {v4} /\ usedV6' = usedV6 \cup {v6}
       /\ macToIP' = [macToIP EXCEPT ![MacOf(id)] = [v4 |-> v4, v6 |-> v6]]
       /\ conn' = [conn EXCEPT ![c].port = [id |-> id, n |-> n]]
       /\ mu' = [op |-> "add", conn |-> c, port |-> [id |-> id, n |-> n]]
       /\ created' = n
       /\ latest' = [latest EXCEPT ![MacOf(id)] = n]

\* No session yet: the addresses bound to the MAC replace the ones asked for.
Create(c, asked4, asked6) ==
    LET bound == macToIP[MacOf(conn[c].id)]
        v4 == Assign(IF bound = None THEN asked4 ELSE bound.v4, V4Net, usedV4)
        v6 == Assign(IF bound = None THEN asked6 ELSE bound.v6, V6Net, usedV6)
    IN /\ conn[c].pc = "admitted" /\ mu = None /\ active[conn[c].id] = None
       /\ \/ RefuseNew(c, v4, v6)
          \/ AdmitNew(c, v4, v6)
       /\ UNCHANGED <<switchVars, psk, maxSessions, banned, timers, operator, operations>>

CreateAddsPort ==
    /\ mu # None /\ mu.op = "add"
    /\ AddPort(mu.port)
    /\ mu' = [mu EXCEPT !.op = "map"]
    /\ UNCHANGED <<tables, psk, maxSessions, banned, conn, timers, operator, operations>>

\* The MAC is mapped, the connection is registered and s.mu released.
CreateMapsMAC ==
    /\ mu # None /\ mu.op = "map"
    /\ AddStaticMAC(mu.port.id, MacOf(mu.port.id))
    /\ conn' = Step(mu.conn, "serving")
    /\ mu' = None
    /\ UNCHANGED <<tables, psk, maxSessions, banned, timers, operator, operations>>

-----------------------------------------------------------------------------
(* The end of connections and sessions.                                    *)

\* The deferred cleanup of a registered connection: only for the current session does it
\* count, and the last one arms the retention timer.
Cleanup(c) ==
    LET port == conn[c].port
        last == active[port.id].conns = 1
    IN /\ conn[c].pc \in {"serving", "reconnect", "closed"} /\ mu = None
       /\ conn' = [conn EXCEPT ![c] = NoConn]
       /\ IF Current(port)
          THEN /\ active' = [active EXCEPT ![port.id].conns = @ - 1]
               /\ timers' = IF last THEN [timers EXCEPT !.armed = @ \cup {port}] ELSE timers
          ELSE UNCHANGED <<active, timers>>
       /\ UNCHANGED <<switchVars, usedV4, usedV6, macToIP, created, latest, psk, maxSessions, banned, mu,
                      operator, operations>>

TimerFires(port) ==
    /\ port \in timers.armed
    /\ timers' = [armed |-> timers.armed \ {port}, fired |-> timers.fired \cup {port}]
    /\ UNCHANGED <<switchVars, tables, psk, maxSessions, banned, conn, mu, operator, operations>>

\* destroySessionLocked up to RemovePort, with macToIPCleanLocked.
ReleaseTables(port) ==
    LET s == active[port.id]
        mac == MacOf(port.id)
    IN /\ usedV4' = usedV4 \ {s.v4} /\ usedV6' = usedV6 \ {s.v6}
       /\ active' = [active EXCEPT ![port.id] = None]
       /\ macToIP' = [macToIP EXCEPT ![mac] = IF @ # None /\ @.v4 = s.v4 THEN None ELSE @]

Destroy(port) ==
    /\ ReleaseTables(port)
    /\ RemoveBegin(port.id)
    /\ mu' = [op |-> "remove", conn |-> None, port |-> port]
    /\ UNCHANGED <<created, latest, psk, maxSessions, banned, operations>>

\* Mutant: the callback does not look at the session again.
TimerTrustsItself(port) ==
    /\ port \in timers.fired /\ mu = None
    /\ timers' = [timers EXCEPT !.fired = @ \ {port}]
    /\ IF Current(port)
       THEN Destroy(port) /\ UNCHANGED <<conn, operator>>
       ELSE UNCHANGED <<switchVars, tables, psk, maxSessions, banned, conn, mu, operator, operations>>

\* The retention timer's callback has s.mu: the session is destroyed if it still is the
\* current one and has no connection.
TimerCallback(port) ==
    /\ port \in timers.fired /\ mu = None
    /\ timers' = [timers EXCEPT !.fired = @ \ {port}]
    /\ IF Current(port) /\ active[port.id].conns = 0
       THEN Destroy(port) /\ UNCHANGED <<conn, operator>>
       ELSE UNCHANGED <<switchVars, tables, psk, maxSessions, banned, conn, mu, operator, operations>>

\* RemovePort's later critical sections.
DestroyUnmaps ==
    /\ \E m \in MACs : RemoveShard(m)
    /\ UNCHANGED admissionVars

\* Mutant: the port is closed first and then removed from the switch.
CloseBeforeRemove ==
    /\ mu # None /\ mu.op = "remove"
    /\ IF mu.port \in live
       THEN /\ live' = live \ {mu.port}
            /\ UNCHANGED <<ports, macTable, learning, removing, lateWrite, mu>>
       ELSE ClosePort(mu.port) /\ mu' = None
    /\ UNCHANGED <<tables, psk, maxSessions, banned, conn, timers, operator, operations>>

\* The receive worker and the reorder buffer are closed, then session.Port, and s.mu is released.
DestroyClosesPort ==
    /\ mu # None /\ mu.op = "remove"
    /\ ClosePort(mu.port)
    /\ mu' = None
    /\ UNCHANGED <<tables, psk, maxSessions, banned, conn, timers, operator, operations>>

-----------------------------------------------------------------------------
(* The operator.                                                           *)

\* Ban: the entry is made under bannedMu.
Ban(id) ==
    /\ operations < MaxOperations /\ operations' = operations + 1
    /\ operator.pc = "idle"
    /\ banned' = banned \cup {id}
    /\ operator' = [NoOperator EXCEPT !.pc = "lookup", !.id = id]
    /\ UNCHANGED <<switchVars, tables, psk, maxSessions, conn, mu, timers>>

\* A kick from the panel looks a session up in the same way.
Kick(id) ==
    /\ operations < MaxOperations /\ operations' = operations + 1
    /\ operator.pc = "idle"
    /\ operator' = [NoOperator EXCEPT !.pc = "lookup", !.id = id]
    /\ UNCHANGED <<switchVars, tables, psk, maxSessions, banned, conn, mu, timers>>

\* The session is looked up under s.mu.RLock.
LookUp ==
    /\ operator.pc = "lookup" /\ mu = None
    /\ operator' = IF active[operator.id] = None THEN NoOperator
                   ELSE [operator EXCEPT !.pc = "kick", !.port = PortOf(operator.id)]
    /\ UNCHANGED <<switchVars, tables, psk, maxSessions, banned, conn, mu, timers, operations>>

Registry(port) == {c \in Conns : conn[c].pc \in {"serving", "reconnect", "closed"} /\ conn[c].port = port}

\* Mutant: the connections are closed, the session is left to its retention timer.
KickOnlyCloses ==
    /\ operator.pc = "kick" /\ mu = None
    /\ operator' = [operator EXCEPT !.pc = "close", !.closing = Registry(operator.port)]
    /\ UNCHANGED <<switchVars, tables, psk, maxSessions, banned, conn, mu, timers, operations>>

\* kickSession: the connections are collected and the session destroyed under s.mu.
KickSession ==
    /\ operator.pc = "kick" /\ mu = None
    /\ IF Current(operator.port)
       THEN /\ Destroy(operator.port)
            /\ operator' = [operator EXCEPT !.pc = "close", !.closing = Registry(operator.port)]
            /\ timers' = [timers EXCEPT !.armed = @ \ {operator.port}]
            /\ UNCHANGED conn
       ELSE /\ operator' = NoOperator
            /\ UNCHANGED <<switchVars, tables, psk, maxSessions, banned, conn, mu, timers, operations>>

\* After kickSession has released s.mu, the collected connections are closed.
CloseKicked ==
    /\ operator.pc = "close"
    /\ mu # None => mu.port # operator.port
    /\ conn' = [c \in Conns |-> IF c \in operator.closing /\ conn[c].port = operator.port
                                THEN [conn[c] EXCEPT !.pc = "closed"] ELSE conn[c]]
    /\ operator' = NoOperator
    /\ UNCHANGED <<switchVars, tables, psk, maxSessions, banned, mu, timers, operations>>

\* Unban, or the end of a ban's time, which IsBanned and BanList notice.
Unban(id) ==
    /\ id \in banned
    /\ banned' = banned \ {id}
    /\ UNCHANGED <<switchVars, tables, psk, maxSessions, conn, mu, timers, operator, operations>>

\* ApplyConfig under s.mu: a new PSK and session limit for later handshakes; new rates collect
\* the connections of all sessions.
ApplyConfig(key, limit, brutalChanged) ==
    /\ mu = None
    /\ operations < MaxOperations /\ operations' = operations + 1
    /\ psk' = key /\ maxSessions' = limit
    /\ conn' = [c \in Conns |-> IF brutalChanged /\ conn[c].pc = "serving" /\ Current(conn[c].port)
                                THEN [conn[c] EXCEPT !.pc = "reconnect"] ELSE conn[c]]
    /\ UNCHANGED <<switchVars, tables, banned, mu, timers, operator>>

\* After it has released s.mu, the collected connections are closed one after the other.
CloseReconnect(c) ==
    /\ conn[c].pc = "reconnect"
    /\ conn' = Step(c, "closed")
    /\ UNCHANGED <<switchVars, tables, psk, maxSessions, banned, mu, timers, operator, operations>>

-----------------------------------------------------------------------------
(* Frames.                                                                 *)

\* validateSrcMAC: a session port may only use its registered MAC; TAP has no session.
ValidateSrcMAC(id, mac) == id \in Clients /\ active[id] # None => MacOf(id) = mac

\* validateMAC is asked between the two looks at the entry, when s.mu is free.
LearnFrame ==
    /\ \/ \E m \in MACs : mu = None /\ ValidateSrcMAC(Tap, m) /\ TapReads(m)
       \/ TapLearns
    /\ UNCHANGED admissionVars

\* A frame of TAP or of a session, possibly one whose last frames are still being delivered.
ForwardFrame ==
    /\ \E id \in {Tap} \cup {p.id : p \in live} :
          Flood(id) \/ \E dst \in MACs : Unicast(id, dst)
    /\ UNCHANGED admissionVars

PurgeMAC ==
    /\ \E m \in MACs : Purge(m)
    /\ UNCHANGED admissionVars

-----------------------------------------------------------------------------
Handshake(c) ==
    \/ \E mac \in MACs, key \in PSKs : Authenticate(c, mac, key)
    \/ Resume(c)
    \/ \E a4 \in V4Asked \cup {None}, a6 \in V6Asked \cup {None} : Create(c, a4, a6)
    \/ Cleanup(c)

Operate ==
    \/ \E id \in Clients : Ban(id) \/ Unban(id) \/ Kick(id)
    \/ LookUp \/ KickSession \/ CloseKicked
    \/ \E key \in PSKs, limit \in SessionLimits, brutalChanged \in BOOLEAN :
          ApplyConfig(key, limit, brutalChanged)
    \/ \E c \in Conns : CloseReconnect(c)

Next ==
    \/ \E c \in Conns : Handshake(c)
    \/ CreateAddsPort \/ CreateMapsMAC
    \/ DestroyUnmaps \/ DestroyClosesPort
    \/ \E port \in timers.armed : TimerFires(port)
    \/ \E port \in timers.fired : TimerCallback(port)
    \/ Operate
    \/ LearnFrame \/ ForwardFrame \/ PurgeMAC

Spec == Init /\ [][Next]_vars

-----------------------------------------------------------------------------
ConnSet ==
    [pc : {"none", "admitted", "serving", "reconnect", "closed"}, id : Clients \cup {None},
     port : Instances \cup {None}]

OperatorSet ==
    [pc : {"idle", "lookup", "kick", "close"}, id : Clients \cup {None},
     port : Instances \cup {None}, closing : SUBSET Conns]

\* Every table holds values of its kind.
TypeOK ==
    /\ ports \in [Clients \cup {Tap} -> PortSet \cup {None}]
    /\ macTable \in [MACs -> EntrySet \cup {None}]
    /\ learning \in MACs \cup {None}
    /\ removing \in RemovalSet \cup {None}
    /\ live \subseteq Instances
    /\ psk \in PSKs /\ maxSessions \in SessionLimits
    /\ active \in [Clients -> SessionSet \cup {None}]
    /\ usedV4 \subseteq Nat /\ usedV6 \subseteq Nat
    /\ macToIP \in [MACs -> BindingSet \cup {None}]
    /\ banned \subseteq Clients
    /\ conn \in [Conns -> ConnSet]
    /\ mu \in LockSet \cup {None}
    /\ timers \in [armed : SUBSET Instances, fired : SUBSET Instances]
    /\ operator \in OperatorSet
    /\ created \in Nat /\ latest \in [MACs -> Nat]

\* The send inside the shard lock, and RemovePort before Port.Close, mean that neither the
\* port table nor a MAC entry leads to a closed port, so no frame is written to one.
NoClosedPort ==
    /\ ~lateWrite
    /\ \A id \in Clients : ports[id] # None => ~Closed(ports[id])
    /\ \A m \in MACs : macTable[m] # None => ~Closed(macTable[m].port)

\* The latest session of a MAC keeps the MAC: its static entry and its address binding
\* survive learning on TAP, the purge, and the removal of an older session of the same MAC.
LatestOwnsMAC ==
    \A id \in Sessions :
        /\ active[id].n = latest[MacOf(id)]
        /\ mu = None \/ mu.port # PortOf(id)
        => /\ macTable[MacOf(id)] = Registered(PortOf(id))
           /\ macToIP[MacOf(id)] = [v4 |-> active[id].v4, v6 |-> active[id].v6]

\* The pools hold the gateway and the addresses of the sessions, each once: nothing leaks
\* on a refusal, and no address is handed out twice.
AddressesExact ==
    /\ usedV4 = {Gateway} \cup {active[id].v4 : id \in Sessions}
    /\ usedV6 = {Gateway} \cup {active[id].v6 : id \in Sessions}
    /\ Cardinality(usedV4) = Cardinality(Sessions) + 1
    /\ Cardinality(usedV6) = Cardinality(Sessions) + 1

\* Once Ban has returned, the client has no session, unless its handshake had passed the
\* ban check before and created the session afterwards.
BannedIsOffline ==
    \A id \in Sessions \cap banned : operator.id = id \/ active[id].despiteBan

\* A connection that serves belongs to the current session of its client, or the kick that
\* destroyed the session is still going to close it.
NoOrphanConn ==
    \A c \in Conns : conn[c].pc = "serving" =>
        Current(conn[c].port) \/ c \in operator.closing
=============================================================================
