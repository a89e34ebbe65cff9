-------------------------- MODULE AdmissionProofs --------------------------
(***************************************************************************)
(* Proofs about Admission and the switch, for any sets of MACs, keys and   *)
(* addresses and any bounds: the port and MAC tables lead to open ports,   *)
(* the latest session of a MAC owns it, the pools are exact, bans take     *)
(* effect, and no connection is left behind.                               *)
(***************************************************************************)
EXTENDS Admission, FiniteSetTheorems, WellFoundedInduction, TLAPS

Creating == mu # None /\ mu.op \in {"add", "map"}

\* Sessions are numbered in the order of their creation, and no number is used twice.
NumberInv ==
    /\ \A id \in Sessions : active[id].n <= created
    /\ \A id, other \in Sessions : active[id].n = active[other].n => id = other
    /\ \A c \in Conns : conn[c].port # None => conn[c].port.n <= created
    /\ operator.port # None => operator.port.n <= created

\* The handler that creates a session holds s.mu; only it has a port before it serves.
CreatorInv ==
    /\ \A c \in Conns :
          /\ conn[c].pc = "none" => conn[c].port = None
          /\ conn[c].pc = "admitted" =>
                conn[c].id \in Clients /\ (conn[c].port = None \/ (Creating /\ mu.conn = c))
          /\ conn[c].pc \in {"serving", "reconnect", "closed"} => conn[c].port # None
    /\ Creating =>
          /\ mu.conn \in Conns
          /\ conn[mu.conn].pc = "admitted" /\ conn[mu.conn].port = mu.port
          /\ Current(mu.port) /\ mu.port.n = latest[MacOf(mu.port.id)]

(***************************************************************************)
(* The port table holds the ports of the sessions, but for one that is     *)
(* being created, and the MAC table only open ports.  While RemovePort is  *)
(* under way, the shards it has left have no entry of the port.            *)
(***************************************************************************)
SwitchInv ==
    /\ ports[Tap] = TapPort
    /\ \A id \in Clients :
          /\ ports[id] # None => ports[id].id = id /\ ports[id] \in live
          /\ active[id] = None => ports[id] = None
          /\ active[id] # None =>
                ports[id] = PortOf(id) \/ (mu # None /\ mu.op = "add" /\ mu.port.id = id)
    /\ \A m \in MACs :
          macTable[m] # None => macTable[m].port = TapPort \/ macTable[m].port \in live
    /\ removing # None <=> (mu # None /\ mu.op = "remove")
    /\ removing # None =>
          /\ removing.id = mu.port.id /\ active[removing.id] = None
          /\ \A m \in MACs \ removing.shards : ~OnPort(m, removing.id)
    /\ ~lateWrite

\* The latest session of a MAC has its binding at once, and its entry when s.mu is released.
OwnerInv ==
    \A id \in Sessions : active[id].n = latest[MacOf(id)] =>
        /\ macToIP[MacOf(id)] = [v4 |-> active[id].v4, v6 |-> active[id].v6]
        /\ macTable[MacOf(id)] = Registered(PortOf(id)) \/ (Creating /\ mu.port.id = id)

\* A pool holds the gateway and one address for each session.
Exact(used, sessions, addr) ==
    /\ IsFiniteSet(sessions) /\ IsFiniteSet(used)
    /\ used = {Gateway} \cup {addr[id] : id \in sessions}
    /\ Cardinality(used) = Cardinality(sessions) + 1
    /\ \A id \in sessions : addr[id] # Gateway
    /\ \A id, other \in sessions : addr[id] = addr[other] => id = other

V4Of == [id \in Clients |-> active[id].v4]
V6Of == [id \in Clients |-> active[id].v6]

PoolInv == Exact(usedV4, Sessions, V4Of) /\ Exact(usedV6, Sessions, V6Of)

\* A banned client with a session was admitted despite the ban, or the operator is about to
\* destroy just that session.
BanInv ==
    /\ operator.pc = "lookup" => operator.id \in Clients
    /\ operator.pc \in {"kick", "close"} => operator.port # None
    /\ \A id \in Sessions \cap banned :
          \/ active[id].despiteBan
          \/ /\ operator.id = id
             /\ operator.pc = "lookup" \/ (operator.pc = "kick" /\ operator.port = PortOf(id))

Holders(port) == {c \in Conns : conn[c].port = port}

(***************************************************************************)
(* A session counts the handlers that hold its port.  A handler that       *)
(* serves does so for a current session, or was collected by the kick that *)
(* destroyed its session.                                                  *)
(***************************************************************************)
ServeInv ==
    /\ \A id \in Sessions : active[id].conns = Cardinality(Holders(PortOf(id)))
    /\ operator.pc = "close" => ~Current(operator.port)
    /\ \A c \in Conns : conn[c].pc = "serving" =>
          \/ Current(conn[c].port)
          \/ operator.pc = "close" /\ c \in operator.closing /\ conn[c].port = operator.port

-----------------------------------------------------------------------------
(* Types.                                                                  *)

\* Instances are ports, and none of the tables' values is None.
LEMMA Values ==
    /\ Instances \subseteq PortSet /\ TapPort \in PortSet /\ TapPort \notin Instances
    /\ None \notin Instances /\ None \notin PortSet /\ None \notin EntrySet
    /\ None \notin RemovalSet /\ None \notin SessionSet /\ None \notin BindingSet
    /\ None \notin LockSet /\ None \notin Nat /\ None \notin MACs /\ Tap \notin Clients
    /\ \A id \in Clients : MacOf(id) \in MACs
<1>1. Instances \subseteq PortSet /\ TapPort \in PortSet
  BY Zenon DEF Instances, PortSet, TapPort
<1>2. TapPort \notin Instances
  BY VSwitchAssumption, Zenon DEF Instances, TapPort
<1>3. None \notin Instances
  BY <1>1, VSwitchAssumption, Zenon
<1>4. \A id \in Clients : MacOf(id) \in MACs
  BY AdmissionAssumption, Zenon DEF MacOf
<1> QED
  BY <1>1, <1>2, <1>3, <1>4, VSwitchAssumption, AdmissionAssumption, Zenon

\* The least element of a set of numbers is one of them.
LEMMA LeastIsIn ==
    ASSUME NEW S, S \subseteq Nat, S # {}
    PROVE  Min(S) \in S
<1>1. PICK x \in S : \A y \in S : ~(<<y, x>> \in OpToRel(<, Nat))
  <2> HIDE DEF OpToRel
  <2>1. IsWellFoundedOn(OpToRel(<, Nat), Nat)
    BY NatLessThanWellFounded, Zenon
  <2> QED
    BY <2>1, WFMin, Zenon
<1>2. \A y \in S : ~(y < x)
  BY <1>1, Zenon DEF OpToRel
<1>3. \A y \in S : x =< y
  BY <1>2
<1> QED
  BY <1>3, Zenon DEF Min

\* An address that is assigned is a free one of the network.
LEMMA AssignIsFree ==
    ASSUME NEW asked, NEW net, net \subseteq Nat, NEW used, Assign(asked, net, used) # None
    PROVE  /\ Assign(asked, net, used) \in net
           /\ Assign(asked, net, used) \notin used
<1> DEFINE hosts == {a \in net \ used : a # 0}
<1>1. hosts # {} => Min(hosts) \in hosts
  BY LeastIsIn, Zenon
<1>2. Assign(asked, net, used) \in {asked} \cap (net \ used)
      \/ (hosts # {} /\ Assign(asked, net, used) = Min(hosts))
  BY Zenon DEF Assign
<1> QED
  BY <1>1, <1>2, Zenon

\* What a session's port and the current session are.
LEMMA PortFacts ==
    ASSUME TypeOK
    PROVE  /\ \A id \in Clients : active[id] # None =>
                 /\ active[id] \in SessionSet /\ PortOf(id) \in Instances
                 /\ PortOf(id).id = id /\ PortOf(id).n = active[id].n
           /\ \A port \in Instances :
                 /\ port.id \in Clients /\ port.n \in Nat
                 /\ Current(port) <=> active[port.id] # None /\ port = PortOf(port.id)
<1>1. \A id \in Clients : active[id] # None => active[id] \in SessionSet
  BY Zenon DEF TypeOK
<1>2. \A id \in Clients : active[id] # None =>
          /\ PortOf(id) \in Instances /\ PortOf(id).id = id /\ PortOf(id).n = active[id].n
  BY <1>1, Zenon DEF PortOf, Instances, SessionSet
<1>3. \A port \in Instances :
          /\ port.id \in Clients /\ port.n \in Nat
          /\ Current(port) <=> active[port.id] # None /\ port = PortOf(port.id)
  BY DEF Current, PortOf, Instances
<1> QED
  BY <1>1, <1>2, <1>3, Zenon

\* A session that is admitted gets a number, addresses of the networks and one connection.
LEMMA AdmitFacts ==
    ASSUME TypeOK, CreatorInv, NEW c \in Conns, NEW asked4, NEW asked6,
           conn[c].pc = "admitted", NEW v4, NEW v6,
           v4 = Assign(asked4, V4Net, usedV4), v6 = Assign(asked6, V6Net, usedV6),
           None \notin {v4, v6}
    PROVE  /\ conn[c].id \in Clients /\ v4 \in Nat /\ v6 \in Nat
           /\ v4 \notin usedV4 /\ v6 \notin usedV6
           /\ [n |-> created + 1, v4 |-> v4, v6 |-> v6, conns |-> 1,
               despiteBan |-> conn[c].id \in banned] \in SessionSet
           /\ [id |-> conn[c].id, n |-> created + 1] \in Instances
<1>1. conn[c].id \in Clients
  BY Zenon DEF TypeOK, ConnSet, CreatorInv
<1>2. v4 \in V4Net /\ v4 \notin usedV4 /\ v6 \in V6Net /\ v6 \notin usedV6
  BY AssignIsFree, AdmissionAssumption, Zenon
<1>3. v4 \in Nat /\ v6 \in Nat
  BY <1>2, AdmissionAssumption, Zenon
<1>4. [n |-> created + 1, v4 |-> v4, v6 |-> v6, conns |-> 1,
       despiteBan |-> conn[c].id \in banned] \in SessionSet
  BY <1>3 DEF SessionSet, TypeOK
<1>5. [id |-> conn[c].id, n |-> created + 1] \in Instances
  BY <1>1 DEF Instances, TypeOK
<1> QED
  BY <1>1, <1>2, <1>3, <1>4, <1>5, Zenon

\* The steps that destroy a session have the types of the tables.
LEMMA DestroyTypes ==
    ASSUME TypeOK, NEW port \in Instances, Destroy(port), Current(port)
    PROVE  /\ ports' \in [Clients \cup {Tap} -> PortSet \cup {None}]
           /\ removing' \in RemovalSet \cup {None}
           /\ active' \in [Clients -> SessionSet \cup {None}]
           /\ usedV4' \subseteq Nat /\ usedV6' \subseteq Nat
           /\ macToIP' \in [MACs -> BindingSet \cup {None}]
           /\ mu' \in LockSet \cup {None}
           /\ UNCHANGED <<macTable, learning, live, lateWrite, created, latest, psk, maxSessions,
                          banned>>
<1>1. port.id \in Clients
  BY Zenon DEF Instances
<1>2. ports' \in [Clients \cup {Tap} -> PortSet \cup {None}]
  BY Zenon DEF Destroy, RemoveBegin, TypeOK
<1>3. removing' \in RemovalSet
  BY <1>1, Zenon DEF Destroy, RemoveBegin, RemovalSet
<1>4. active' \in [Clients -> SessionSet \cup {None}] /\ usedV4' \subseteq Nat /\ usedV6' \subseteq Nat
  BY Zenon DEF Destroy, ReleaseTables, TypeOK
<1>5. macToIP' \in [MACs -> BindingSet \cup {None}]
  BY Zenon DEF Destroy, ReleaseTables, TypeOK
<1>6. mu' \in LockSet
  BY Zenon DEF Destroy, LockSet
<1> QED
  BY <1>2, <1>3, <1>4, <1>5, <1>6, Zenon DEF Destroy, RemoveBegin

\* Every step keeps the types.
LEMMA TypeStep ==
    ASSUME TypeOK, CreatorInv, SwitchInv, BanInv, [Next]_vars
    PROVE  TypeOK'
<1>0. /\ conn \in [Conns -> ConnSet] /\ operator \in OperatorSet /\ created \in Nat
      /\ timers \in [armed : SUBSET Instances, fired : SUBSET Instances]
      /\ active \in [Clients -> SessionSet \cup {None}] /\ latest \in [MACs -> Nat]
  BY Zenon DEF TypeOK
<1>n. NoConn \in ConnSet /\ NoOperator \in OperatorSet
  BY Zenon DEF NoConn, ConnSet, NoOperator, OperatorSet
<1>t. timers.armed \subseteq Instances /\ timers.fired \subseteq Instances
  BY <1>0, Zenon
<1>d. \A s \in SUBSET Instances :
         [timers EXCEPT !.armed = s] \in [armed : SUBSET Instances, fired : SUBSET Instances]
  BY <1>0, Zenon
<1>e. \A s \in SUBSET Instances :
         [timers EXCEPT !.fired = s] \in [armed : SUBSET Instances, fired : SUBSET Instances]
  BY <1>0, Zenon
<1>1. ASSUME NEW c \in Conns, NEW mac \in MACs, NEW key \in PSKs, Authenticate(c, mac, key)
      PROVE  TypeOK'
  <2>1. <<mac, key>> \in Clients
    BY AdmissionAssumption, Zenon
  <2>2. [pc |-> "admitted", id |-> <<mac, key>>, port |-> None] \in ConnSet
    BY <2>1, Zenon DEF ConnSet
  <2>3. conn' \in [Conns -> ConnSet]
    BY <1>0, <1>1, <2>2, Zenon DEF Authenticate
  <2> QED
    BY <1>1, <2>3, Zenon DEF Authenticate, TypeOK, switchVars, tables
<1>2. ASSUME NEW c \in Conns, Resume(c) PROVE TypeOK'
  <2> DEFINE id == conn[c].id
  <2>0. id \in Clients /\ active[id] # None
    BY <1>0, <1>2, Zenon DEF Resume, CreatorInv, ConnSet
  <2>1. active[id] \in SessionSet /\ PortOf(id) \in Instances
    BY <2>0, PortFacts, Zenon
  <2>2. timers' \in [armed : SUBSET Instances, fired : SUBSET Instances]
    BY <1>d, <1>t, <1>2, Zenon DEF Resume
  <2>3. conn' \in [Conns -> ConnSet]
    <3>1. conn[c] \in ConnSet /\ [conn[c] EXCEPT !.pc = "serving"] \in ConnSet
      BY <1>0, Zenon DEF ConnSet
    <3>2. [conn[c] EXCEPT !.pc = "serving", !.port = PortOf(id)] \in ConnSet
      BY <2>1, <3>1, Zenon DEF ConnSet
    <3>3. conn' \in {[conn EXCEPT ![c] = NoConn],
                    [conn EXCEPT ![c] = [conn[c] EXCEPT !.pc = "serving", !.port = PortOf(id)]]}
      BY <1>0, <1>2 DEF Resume
    <3> QED
      BY <1>0, <1>n, <3>2, <3>3, Zenon
  <2>4. active' \in [Clients -> SessionSet \cup {None}]
    <3>1. [active[id] EXCEPT !.conns = @ + 1] \in SessionSet
      BY <2>1 DEF SessionSet
    <3> QED
      BY <1>0, <1>2, <3>1, Zenon DEF Resume
  <2> QED
    BY <1>2, <2>2, <2>3, <2>4, Zenon DEF Resume, TypeOK, switchVars
<1>3. ASSUME NEW c \in Conns, NEW a4, NEW a6, Create(c, a4, a6) PROVE TypeOK'
  <2> DEFINE bound == macToIP[MacOf(conn[c].id)]
             v4 == Assign(IF bound = None THEN a4 ELSE bound.v4, V4Net, usedV4)
             v6 == Assign(IF bound = None THEN a6 ELSE bound.v6, V6Net, usedV6)
  <2>1. CASE RefuseNew(c, v4, v6)
    <3>1. conn' \in [Conns -> ConnSet]
      BY <1>0, <1>n, <2>1, Zenon DEF RefuseNew
    <3> QED
      BY <1>3, <2>1, <3>1, Zenon DEF Create, RefuseNew, TypeOK, switchVars, tables
  <2>2. CASE AdmitNew(c, v4, v6)
    <3>0. conn[c].pc = "admitted" /\ None \notin {v4, v6}
      BY <1>3, <2>2, Zenon DEF Create, AdmitNew
    <3> DEFINE id == conn[c].id
               new == [n |-> created + 1, v4 |-> v4, v6 |-> v6, conns |-> 1,
                       despiteBan |-> id \in banned]
               port == [id |-> id, n |-> created + 1]
    <3>1. id \in Clients /\ v4 \in Nat /\ v6 \in Nat /\ new \in SessionSet /\ port \in Instances
      BY <3>0, AdmitFacts, Zenon
    <3>2. /\ active' = [active EXCEPT ![id] = new]
          /\ usedV4' = usedV4 \cup {v4} /\ usedV6' = usedV6 \cup {v6}
          /\ macToIP' = [macToIP EXCEPT ![MacOf(id)] = [v4 |-> v4, v6 |-> v6]]
          /\ conn' = [conn EXCEPT ![c].port = port]
          /\ mu' = [op |-> "add", conn |-> c, port |-> port]
          /\ created' = created + 1
          /\ latest' = [latest EXCEPT ![MacOf(id)] = created + 1]
      BY <2>2, Zenon DEF AdmitNew
    <3> HIDE DEF v4, v6, new, port
    <3>3. active' \in [Clients -> SessionSet \cup {None}]
      BY <1>0, <3>1, <3>2, Zenon
    <3>4. usedV4' \subseteq Nat /\ usedV6' \subseteq Nat
      BY <3>1, <3>2, Zenon DEF TypeOK
    <3>5. macToIP' \in [MACs -> BindingSet \cup {None}]
      <4>1. [v4 |-> v4, v6 |-> v6] \in BindingSet
        BY <3>1, Zenon DEF BindingSet
      <4> QED
        BY <3>2, <4>1, Zenon DEF TypeOK
    <3>6. conn' \in [Conns -> ConnSet]
      BY <1>0, <3>1, <3>2 DEF ConnSet
    <3>7. mu' \in LockSet
      BY <3>1, <3>2, Zenon DEF LockSet
    <3>8. created' \in Nat
      BY <1>0, <3>2
    <3>9. latest' \in [MACs -> Nat]
      <4>1. created + 1 \in Nat
        BY <1>0
      <4> QED
        BY <1>0, <3>2, <4>1, Zenon
    <3> QED
      BY <1>3, <3>3, <3>4, <3>5, <3>6, <3>7, <3>8, <3>9, Zenon DEF Create, TypeOK, switchVars
  <2> QED
    BY <1>3, <2>1, <2>2, Zenon DEF Create
<1>4. ASSUME NEW c \in Conns, Cleanup(c) PROVE TypeOK'
  <2> DEFINE port == conn[c].port
  <2>0. port \in Instances
    BY <1>0, <1>4, Zenon DEF Cleanup, CreatorInv, ConnSet
  <2>1. conn' \in [Conns -> ConnSet]
    BY <1>0, <1>n, <1>4, Zenon DEF Cleanup
  <2>2. timers' \in [armed : SUBSET Instances, fired : SUBSET Instances]
    BY <1>0, <1>d, <1>t, <1>4, <2>0 DEF Cleanup
  <2>3. active' \in [Clients -> SessionSet \cup {None}]
    <3>1. Current(port) => [active[port.id] EXCEPT !.conns = @ - 1] \in SessionSet
      BY <2>0, PortFacts DEF SessionSet
    <3> QED
      BY <1>0, <1>4, <2>0, <3>1, Zenon DEF Cleanup
  <2> QED
    BY <1>4, <2>1, <2>2, <2>3, Zenon DEF Cleanup, TypeOK, switchVars
<1>5. ASSUME CreateAddsPort PROVE TypeOK'
  <2>1. mu \in LockSet
    BY <1>5, Zenon DEF CreateAddsPort, TypeOK
  <2>2. mu.port \in Instances /\ mu.port \in PortSet /\ mu' \in LockSet
    BY <1>5, <2>1, Values, Zenon DEF CreateAddsPort, LockSet
  <2>3. ports' \in [Clients \cup {Tap} -> PortSet \cup {None}] /\ live' \subseteq Instances
    BY <1>5, <2>2, Zenon DEF CreateAddsPort, AddPort, TypeOK
  <2> QED
    BY <1>5, <2>2, <2>3, Zenon DEF CreateAddsPort, AddPort, TypeOK, tables
<1>6. ASSUME CreateMapsMAC PROVE TypeOK'
  <2>1. mu \in LockSet /\ Creating /\ mu.op # "add"
    BY <1>6, Zenon DEF CreateMapsMAC, TypeOK, Creating
  <2>2. mu.port \in Instances /\ mu.conn \in Conns /\ Current(mu.port)
    BY <2>1, Zenon DEF LockSet, CreatorInv
  <2>3. ports[mu.port.id] = mu.port
    BY <2>1, <2>2, PortFacts, Zenon DEF SwitchInv
  <2>4. Registered(mu.port) \in EntrySet
    BY <2>2, Values, Zenon DEF Registered, EntrySet
  <2>5. macTable' \in [MACs -> EntrySet \cup {None}]
    BY <1>6, <2>3, <2>4, Zenon DEF CreateMapsMAC, AddStaticMAC, TypeOK
  <2>6. conn' \in [Conns -> ConnSet]
    BY <1>0, <1>6, <2>2 DEF CreateMapsMAC, Step, ConnSet
  <2> QED
    BY <1>6, <2>5, <2>6, Zenon DEF CreateMapsMAC, AddStaticMAC, TypeOK, tables
<1>7. ASSUME DestroyUnmaps PROVE TypeOK'
  <2>1. PICK m \in MACs : RemoveShard(m)
    BY <1>7, Zenon DEF DestroyUnmaps
  <2>2. removing \in RemovalSet
    BY <2>1, Zenon DEF RemoveShard, TypeOK
  <2>3. removing' \in RemovalSet
    BY <2>1, <2>2, Zenon DEF RemoveShard, RemovalSet
  <2>4. macTable' \in [MACs -> EntrySet \cup {None}]
    BY <2>1, Zenon DEF RemoveShard, TypeOK
  <2> QED
    BY <1>7, <2>1, <2>3, <2>4, Zenon DEF DestroyUnmaps, RemoveShard, TypeOK, admissionVars, tables
<1>8. ASSUME DestroyClosesPort PROVE TypeOK'
  BY <1>8, Zenon DEF DestroyClosesPort, ClosePort, TypeOK, tables
<1>9. ASSUME NEW port \in timers.armed, TimerFires(port) PROVE TypeOK'
  <2>1. timers' \in [armed : SUBSET Instances, fired : SUBSET Instances]
    BY <1>t, <1>9, Zenon DEF TimerFires
  <2> QED
    BY <1>9, <2>1, Zenon DEF TimerFires, TypeOK, switchVars, tables
<1>10. ASSUME NEW port \in timers.fired, TimerCallback(port) PROVE TypeOK'
  <2>0. port \in Instances
    BY <1>t, Zenon
  <2>1. timers' \in [armed : SUBSET Instances, fired : SUBSET Instances]
    BY <1>e, <1>t, <1>10, Zenon DEF TimerCallback
  <2>2. CASE Current(port) /\ active[port.id].conns = 0
    <3>1. Destroy(port) /\ UNCHANGED <<conn, operator>>
      BY <1>10, <2>2, Zenon DEF TimerCallback
    <3> QED
      BY <2>0, <2>1, <2>2, <3>1, DestroyTypes, Zenon DEF TypeOK
  <2>3. CASE ~(Current(port) /\ active[port.id].conns = 0)
    BY <1>10, <2>1, <2>3, Zenon DEF TimerCallback, TypeOK, switchVars, tables
  <2> QED
    BY <2>2, <2>3, Zenon
<1>11. ASSUME NEW id \in Clients, Ban(id) \/ Kick(id) PROVE TypeOK'
  <2>1. operator' = [NoOperator EXCEPT !.pc = "lookup", !.id = id]
    BY <1>11, Zenon DEF Ban, Kick
  <2>2. operator' \in OperatorSet
    BY <2>1, Zenon DEF NoOperator, OperatorSet
  <2>3. banned' \subseteq Clients
    BY <1>11, Zenon DEF Ban, Kick, TypeOK
  <2> QED
    BY <1>11, <2>2, <2>3, Zenon DEF Ban, Kick, TypeOK, switchVars, tables
<1>12. ASSUME NEW id \in Clients, Unban(id) PROVE TypeOK'
  BY <1>12, Zenon DEF Unban, TypeOK, switchVars, tables
<1>13. ASSUME LookUp PROVE TypeOK'
  <2>1. operator.id \in Clients
    BY <1>0, <1>13, Zenon DEF LookUp, BanInv, OperatorSet
  <2>2. active[operator.id] # None => PortOf(operator.id) \in Instances
    BY <2>1, PortFacts, Zenon
  <2>3. operator' \in OperatorSet
    BY <1>0, <1>n, <1>13, <2>2, Zenon DEF LookUp, OperatorSet
  <2> QED
    BY <1>13, <2>3, Zenon DEF LookUp, TypeOK, switchVars, tables
<1>14. ASSUME KickSession PROVE TypeOK'
  <2>0. operator.port \in Instances
    BY <1>0, <1>14, Zenon DEF KickSession, BanInv, OperatorSet
  <2>1. CASE Current(operator.port)
    <3>1. /\ Destroy(operator.port) /\ UNCHANGED conn
          /\ operator' = [operator EXCEPT !.pc = "close", !.closing = Registry(operator.port)]
          /\ timers' = [timers EXCEPT !.armed = @ \ {operator.port}]
      BY <1>14, <2>1, Zenon DEF KickSession
    <3>2. operator' \in OperatorSet
      BY <1>0, <3>1, Zenon DEF OperatorSet, Registry
    <3>3. timers' \in [armed : SUBSET Instances, fired : SUBSET Instances]
      BY <1>d, <1>t, <3>1, Zenon
    <3> QED
      BY <2>0, <2>1, <3>1, <3>2, <3>3, DestroyTypes, Zenon DEF TypeOK
  <2>2. CASE ~Current(operator.port)
    BY <1>14, <1>n, <2>2, Zenon DEF KickSession, TypeOK, switchVars, tables
  <2> QED
    BY <2>1, <2>2, Zenon
<1>15. ASSUME CloseKicked PROVE TypeOK'
  <2>1. conn' \in [Conns -> ConnSet]
    BY <1>0, <1>15 DEF CloseKicked, ConnSet
  <2> QED
    BY <1>15, <1>n, <2>1, Zenon DEF CloseKicked, TypeOK, switchVars, tables
<1>16. ASSUME NEW key \in PSKs, NEW limit \in SessionLimits, NEW b \in BOOLEAN,
              ApplyConfig(key, limit, b)
       PROVE  TypeOK'
  <2>1. conn' \in [Conns -> ConnSet]
    BY <1>0, <1>16 DEF ApplyConfig, ConnSet
  <2> QED
    BY <1>16, <2>1, Zenon DEF ApplyConfig, TypeOK, switchVars, tables
<1>21. ASSUME NEW c \in Conns, CloseReconnect(c) PROVE TypeOK'
  <2>1. conn' \in [Conns -> ConnSet]
    BY <1>0, <1>21 DEF CloseReconnect, Step, ConnSet
  <2> QED
    BY <1>21, <2>1, Zenon DEF CloseReconnect, TypeOK, switchVars, tables
<1>17. ASSUME LearnFrame PROVE TypeOK'
  <2>1. learning' \in MACs \cup {None}
    BY <1>17, Zenon DEF LearnFrame, TapReads, TapLearns
  <2>2. Learned(ports[Tap]) \in EntrySet
    BY Values, Zenon DEF SwitchInv, Learned, EntrySet
  <2>3. macTable' \in [MACs -> EntrySet \cup {None}]
    BY <1>17, <2>2, Zenon DEF LearnFrame, TapReads, TapLearns, TypeOK
  <2> QED
    BY <1>17, <2>1, <2>3, Zenon DEF LearnFrame, TapReads, TapLearns, TypeOK, admissionVars, tables
<1>18. ASSUME ForwardFrame PROVE TypeOK'
  BY <1>18, Zenon DEF ForwardFrame, Flood, Unicast, TypeOK, admissionVars, tables
<1>19. ASSUME PurgeMAC PROVE TypeOK'
  <2>1. PICK m \in MACs : Purge(m)
    BY <1>19, Zenon DEF PurgeMAC
  <2>2. macTable' \in [MACs -> EntrySet \cup {None}]
    BY <2>1, Zenon DEF Purge, TypeOK
  <2> QED
    BY <1>19, <2>1, <2>2, Zenon DEF PurgeMAC, Purge, TypeOK, admissionVars, tables
<1>20. CASE UNCHANGED vars
  BY <1>20, Zenon DEF vars, switchVars, admissionVars, tables, TypeOK
<1> QED
  BY <1>1, <1>2, <1>3, <1>4, <1>5, <1>6, <1>7, <1>8, <1>9, <1>10, <1>11, <1>12, <1>13, <1>14,
     <1>15, <1>16, <1>17, <1>18, <1>19, <1>20, <1>21, ZenonT(30) DEF Next, Handshake, Operate
-----------------------------------------------------------------------------
(* The steps, by what they change.                                         *)

\* The closes that follow a kick or a reload need no lock.
Closes == CloseKicked \/ \E c \in Conns : CloseReconnect(c)

\* With s.mu held, only its holder, the closes and the switch's readers change anything here.
LEMMA LockedSteps ==
    ASSUME [Next]_vars, mu # None
    PROVE  /\ UNCHANGED tables
           /\ \/ mu' = mu \/ CreateAddsPort \/ CreateMapsMAC \/ DestroyClosesPort
           /\ conn' = conn \/ CreateMapsMAC \/ (Closes /\ mu' = mu)
<1>1. ASSUME NEW c \in Conns, Handshake(c) PROVE FALSE
  BY <1>1, Zenon DEF Handshake, Authenticate, Resume, Create, Cleanup
<1>2. ASSUME NEW port, TimerCallback(port) PROVE FALSE
  BY <1>2, Zenon DEF TimerCallback
<1>3. ASSUME NEW port, TimerFires(port) PROVE UNCHANGED <<tables, mu, conn>>
  BY <1>3, Zenon DEF TimerFires
<1>4. ASSUME Operate, ~Closes PROVE UNCHANGED <<tables, mu, conn>>
  BY <1>4, Zenon DEF Operate, Closes, Ban, Unban, Kick, LookUp, KickSession, ApplyConfig
<1>5. ASSUME Closes PROVE UNCHANGED <<tables, mu>>
  BY <1>5, Zenon DEF Closes, CloseKicked, CloseReconnect
<1>6. ASSUME CreateAddsPort \/ DestroyClosesPort PROVE UNCHANGED <<tables, conn>>
  BY <1>6, Zenon DEF CreateAddsPort, DestroyClosesPort
<1>7. ASSUME CreateMapsMAC PROVE UNCHANGED tables
  BY <1>7, Zenon DEF CreateMapsMAC
<1>8. ASSUME DestroyUnmaps \/ LearnFrame \/ ForwardFrame \/ PurgeMAC \/ UNCHANGED vars
      PROVE  UNCHANGED <<tables, mu, conn>>
  BY <1>8, Zenon DEF DestroyUnmaps, LearnFrame, ForwardFrame, PurgeMAC, vars, admissionVars
<1> QED
  BY <1>1, <1>2, <1>3, <1>4, <1>5, <1>6, <1>7, <1>8, Zenon DEF Next

\* The sessions after a step: the same, one more, or one less.
NewPort(c) == [id |-> conn[c].id, n |-> created + 1]

Created(c) ==
    /\ mu = None /\ conn[c].pc = "admitted" /\ active[conn[c].id] = None
    /\ \E a4, a6 :
          LET v4 == Assign(a4, V4Net, usedV4)
              v6 == Assign(a6, V6Net, usedV6)
          IN None \notin {v4, v6} /\ AdmitNew(c, v4, v6)
    /\ UNCHANGED <<switchVars, psk, banned, timers, operator>>

Destroyed(port) ==
    /\ mu = None /\ port \in Instances /\ Current(port)
    /\ Destroy(port) /\ UNCHANGED conn
    /\ \/ active[port.id].conns = 0 /\ UNCHANGED operator
       \/ /\ operator.pc = "kick" /\ operator.port = port
          /\ operator' = [operator EXCEPT !.pc = "close", !.closing = Registry(operator.port)]

Joined(c) ==
    /\ mu = None /\ conn[c].pc = "admitted" /\ active[conn[c].id] # None
    /\ active' = [active EXCEPT ![conn[c].id].conns = @ + 1]
    /\ conn' = [conn EXCEPT ![c].pc = "serving", ![c].port = PortOf(conn[c].id)]
    /\ UNCHANGED <<switchVars, usedV4, usedV6, macToIP, created, latest, banned, mu, operator>>

Left(c) ==
    /\ mu = None /\ conn[c].pc \in {"serving", "reconnect", "closed"} /\ Current(conn[c].port)
    /\ active' = [active EXCEPT ![conn[c].port.id].conns = @ - 1]
    /\ conn' = [conn EXCEPT ![c] = NoConn]
    /\ UNCHANGED <<switchVars, usedV4, usedV6, macToIP, created, latest, banned, mu, operator>>

Released(c) ==
    /\ mu = None /\ conn[c].pc # "none"
    /\ conn[c].pc # "admitted" => ~Current(conn[c].port)
    /\ conn' = [conn EXCEPT ![c] = NoConn]
    /\ UNCHANGED <<switchVars, banned, mu, operator>>

Admitted(c, id) ==
    /\ mu = None /\ conn[c].pc = "none"
    /\ conn' = [conn EXCEPT ![c] = [pc |-> "admitted", id |-> id, port |-> None]]
    /\ UNCHANGED <<switchVars, banned, mu, operator>>

Quiet ==
    /\ UNCHANGED tables
    /\ mu = None => mu' = None
    /\ \/ conn' = conn
       \/ \E c \in Conns : Released(c) \/ \E id \in Clients : Admitted(c, id)
       \/ CreateMapsMAC \/ Closes
       \/ \E key \in PSKs, limit \in SessionLimits, b \in BOOLEAN : ApplyConfig(key, limit, b)

\* A step that changes the tables creates a session, destroys one, or changes its count.
LEMMA TableSteps ==
    ASSUME TypeOK, BanInv, [Next]_vars
    PROVE  \/ Quiet
           \/ \E c \in Conns : Created(c) \/ Joined(c) \/ Left(c)
           \/ \E port : Destroyed(port)
<1> DEFINE Goal == \/ Quiet
                   \/ \E c \in Conns : Created(c) \/ Joined(c) \/ Left(c)
                   \/ \E port : Destroyed(port)
<1>1. ASSUME NEW c \in Conns, NEW mac \in MACs, NEW key \in PSKs, Authenticate(c, mac, key)
      PROVE  Quiet
  <2>1. <<mac, key>> \in Clients
    BY AdmissionAssumption, Zenon
  <2>2. Admitted(c, <<mac, key>>) /\ UNCHANGED <<tables, mu>>
    BY <1>1, Zenon DEF Authenticate, Admitted
  <2> QED
    BY <2>1, <2>2, Zenon DEF Quiet
<1>2. ASSUME NEW c \in Conns, Resume(c) PROVE Quiet \/ Joined(c)
  <2>1. CASE active[conn[c].id].conns >= MaxPerSession
    <3>1. Released(c) /\ UNCHANGED <<tables, mu>>
      BY <1>2, <2>1, Zenon DEF Resume, tables, Released
    <3> QED
      BY <3>1, Zenon DEF Quiet
  <2>2. CASE ~(active[conn[c].id].conns >= MaxPerSession)
    BY <1>2, <2>2, Zenon DEF Resume, Joined
  <2> QED
    BY <2>1, <2>2, Zenon
<1>3. ASSUME NEW c \in Conns, NEW a4, NEW a6, Create(c, a4, a6) PROVE Quiet \/ Created(c)
  <2> DEFINE bound == macToIP[MacOf(conn[c].id)]
             k4 == IF bound = None THEN a4 ELSE bound.v4
             k6 == IF bound = None THEN a6 ELSE bound.v6
             v4 == Assign(k4, V4Net, usedV4)
             v6 == Assign(k6, V6Net, usedV6)
  <2>1. RefuseNew(c, v4, v6) \/ AdmitNew(c, v4, v6)
    BY <1>3, Zenon DEF Create
  <2>2. /\ mu = None /\ conn[c].pc = "admitted" /\ active[conn[c].id] = None
        /\ UNCHANGED <<switchVars, psk, banned, timers, operator>>
    BY <1>3, Zenon DEF Create
  <2>3. CASE RefuseNew(c, v4, v6)
    <3>1. Released(c) /\ UNCHANGED <<tables, mu>>
      BY <2>2, <2>3, Zenon DEF RefuseNew, Released
    <3> QED
      BY <3>1, Zenon DEF Quiet
  <2> HIDE DEF k4, k6
  <2>4. CASE AdmitNew(c, v4, v6)
    <3>1. None \notin {v4, v6}
      BY <2>4, Zenon DEF AdmitNew
    <3> QED
      BY <2>2, <2>4, <3>1, Zenon DEF Created
  <2> QED
    BY <2>1, <2>3, <2>4, Zenon
<1>4. ASSUME NEW c \in Conns, Cleanup(c) PROVE Quiet \/ Left(c)
  <2>1. CASE Current(conn[c].port)
    BY <1>4, <2>1, Zenon DEF Cleanup, Left
  <2>2. CASE ~Current(conn[c].port)
    <3>1. Released(c) /\ UNCHANGED <<tables, mu>>
      BY <1>4, <2>2, Zenon DEF Cleanup, tables, Released
    <3> QED
      BY <3>1, Zenon DEF Quiet
  <2> QED
    BY <2>1, <2>2, Zenon
<1>5. ASSUME NEW c \in Conns, Handshake(c) PROVE Goal
  BY <1>1, <1>2, <1>3, <1>4, <1>5, Zenon DEF Handshake
<1>6. ASSUME NEW port \in timers.fired, TimerCallback(port) PROVE Goal
  <2>1. port \in Instances
    BY Zenon DEF TypeOK
  <2>2. CASE Current(port) /\ active[port.id].conns = 0
    BY <1>6, <2>1, <2>2, Zenon DEF TimerCallback, Destroyed
  <2>3. CASE ~(Current(port) /\ active[port.id].conns = 0)
    BY <1>6, <2>3, Zenon DEF TimerCallback, Quiet
  <2> QED
    BY <2>2, <2>3, Zenon
<1>7. ASSUME KickSession PROVE Goal
  <2>1. operator.port \in Instances /\ mu = None /\ operator.pc = "kick"
    BY <1>7, Zenon DEF KickSession, BanInv, TypeOK, OperatorSet
  <2>2. CASE Current(operator.port)
    BY <1>7, <2>1, <2>2, Zenon DEF KickSession, Destroyed
  <2>3. CASE ~Current(operator.port)
    BY <1>7, <2>3, Zenon DEF KickSession, Quiet
  <2> QED
    BY <2>2, <2>3, Zenon
<1>8. ASSUME Operate, ~KickSession PROVE Quiet
  <2>1. ASSUME NEW id, Ban(id) \/ Unban(id) \/ Kick(id) PROVE UNCHANGED <<tables, mu, conn>>
    BY <2>1, Zenon DEF Ban, Unban, Kick
  <2>2. ASSUME LookUp PROVE UNCHANGED <<tables, mu, conn>>
    BY <2>2, Zenon DEF LookUp
  <2>3. ASSUME Closes PROVE UNCHANGED <<tables, mu>>
    BY <2>3, Zenon DEF Closes, CloseKicked, CloseReconnect
  <2>4. ASSUME NEW key, NEW limit, NEW b, ApplyConfig(key, limit, b) PROVE UNCHANGED <<tables, mu>>
    BY <2>4, Zenon DEF ApplyConfig
  <2>5. \/ Closes \/ LookUp
        \/ \E id \in Clients : Ban(id) \/ Unban(id) \/ Kick(id)
        \/ \E key \in PSKs, limit \in SessionLimits, b \in BOOLEAN : ApplyConfig(key, limit, b)
    BY <1>8, Zenon DEF Operate, Closes
  <2> QED
    BY <2>1, <2>2, <2>3, <2>4, <2>5, Zenon DEF Quiet
<1>9. ASSUME NEW port, TimerFires(port) PROVE Quiet
  BY <1>9, Zenon DEF TimerFires, Quiet
<1>10. ASSUME \/ CreateAddsPort \/ CreateMapsMAC \/ DestroyUnmaps \/ DestroyClosesPort
              \/ LearnFrame \/ ForwardFrame \/ PurgeMAC \/ UNCHANGED vars
       PROVE  Quiet
  <2>1. UNCHANGED tables /\ (mu = None => mu' = None) /\ (conn' = conn \/ CreateMapsMAC)
    BY <1>10, Zenon DEF CreateAddsPort, CreateMapsMAC, DestroyUnmaps, DestroyClosesPort, LearnFrame,
                 ForwardFrame, PurgeMAC, vars, admissionVars
  <2> QED
    BY <2>1, Zenon DEF Quiet
<1> QED
  BY <1>5, <1>6, <1>7, <1>8, <1>9, <1>10, Zenon DEF Next

\* What a new session looks like.
Fresh(c, v4, v6) ==
    [n |-> created + 1, v4 |-> v4, v6 |-> v6, conns |-> 1, despiteBan |-> conn[c].id \in banned]

Gains(c, v4, v6) ==
    /\ v4 \notin usedV4 /\ usedV4' = usedV4 \cup {v4}
    /\ v6 \notin usedV6 /\ usedV6' = usedV6 \cup {v6}
    /\ macToIP' = [macToIP EXCEPT ![MacOf(conn[c].id)] = [v4 |-> v4, v6 |-> v6]]
    /\ Fresh(c, v4, v6) \in SessionSet
    /\ active' = [active EXCEPT ![conn[c].id] = Fresh(c, v4, v6)]

\* What creating a session changes.
LEMMA CreatedFacts ==
    ASSUME TypeOK, CreatorInv, NEW c \in Conns, Created(c)
    PROVE  /\ mu = None /\ conn[c].pc = "admitted" /\ conn[c].id \in Clients
           /\ conn[c].port = None /\ active[conn[c].id] = None
           /\ NewPort(c) \in Instances /\ NewPort(c).id = conn[c].id /\ NewPort(c).n = created + 1
           /\ created' = created + 1
           /\ latest' = [latest EXCEPT ![MacOf(conn[c].id)] = created + 1]
           /\ conn' = [conn EXCEPT ![c].port = NewPort(c)]
           /\ mu' # None /\ mu'.op = "add" /\ mu'.conn = c /\ mu'.port = NewPort(c)
           /\ UNCHANGED <<ports, macTable, removing, live, lateWrite, banned, operator>>
           /\ \E v4, v6 \in Nat : Gains(c, v4, v6)
<1> DEFINE id == conn[c].id
<1>1. PICK a4, a6 : LET v4 == Assign(a4, V4Net, usedV4)
                        v6 == Assign(a6, V6Net, usedV6)
                    IN None \notin {v4, v6} /\ AdmitNew(c, v4, v6)
  BY Zenon DEF Created
<1> DEFINE v4 == Assign(a4, V4Net, usedV4)
           v6 == Assign(a6, V6Net, usedV6)
<1>2. mu = None /\ conn[c].pc = "admitted" /\ active[id] = None
  BY Zenon DEF Created
<1>3. /\ id \in Clients /\ v4 \in Nat /\ v6 \in Nat /\ v4 \notin usedV4 /\ v6 \notin usedV6
      /\ Fresh(c, v4, v6) \in SessionSet /\ NewPort(c) \in Instances
  BY <1>1, <1>2, AdmitFacts, Zenon DEF Fresh, NewPort
<1>4. /\ active' = [active EXCEPT ![id] = Fresh(c, v4, v6)]
      /\ usedV4' = usedV4 \cup {v4} /\ usedV6' = usedV6 \cup {v6}
      /\ macToIP' = [macToIP EXCEPT ![MacOf(id)] = [v4 |-> v4, v6 |-> v6]]
  BY <1>1, Zenon DEF AdmitNew, Fresh
<1> HIDE DEF v4, v6
<1>5. /\ conn' = [conn EXCEPT ![c].port = NewPort(c)]
      /\ mu' = [op |-> "add", conn |-> c, port |-> NewPort(c)]
      /\ created' = created + 1
      /\ latest' = [latest EXCEPT ![MacOf(id)] = created + 1]
  BY <1>1, Zenon DEF AdmitNew, NewPort
<1>6. mu' # None /\ mu'.op = "add" /\ mu'.conn = c /\ mu'.port = NewPort(c)
  <2>1. mu' \in LockSet
    BY <1>3, <1>5, Zenon DEF LockSet
  <2> QED
    BY <1>5, <2>1, Values, Zenon
<1>7. conn[c].port = None
  BY <1>2, Zenon DEF CreatorInv, Creating
<1>8. UNCHANGED <<ports, macTable, removing, live, lateWrite, banned, operator>>
  BY Zenon DEF Created, switchVars
<1>9. NewPort(c).id = id /\ NewPort(c).n = created + 1
  BY Zenon DEF NewPort
<1>10. Gains(c, v4, v6)
  BY <1>3, <1>4, Zenon DEF Gains
<1> QED
  BY <1>2, <1>3, <1>5, <1>6, <1>7, <1>8, <1>9, <1>10, Zenon

-----------------------------------------------------------------------------
\* Every step keeps the creator of a session in s.mu.
LEMMA CreatorStep ==
    ASSUME TypeOK, CreatorInv, BanInv, ServeInv, [Next]_vars
    PROVE  CreatorInv'
<1>0. conn \in [Conns -> ConnSet] /\ created \in Nat
  BY Zenon DEF TypeOK
<1>n. NoConn.pc = "none" /\ NoConn.port = None
  BY Zenon DEF NoConn
<1>i. \A c \in Conns : conn[c].port # None => conn[c].port \in Instances
  BY <1>0, Zenon DEF ConnSet
<1>p. \A c \in Conns : conn[c].pc \in {"none", "admitted", "serving", "reconnect", "closed"}
  BY <1>0, Zenon DEF ConnSet
<1> DEFINE Up == {"serving", "reconnect", "closed"}
           Keeps == \A c \in Conns : conn'[c] = conn[c] \/
                       /\ conn[c].pc \in Up /\ conn'[c].pc \in Up /\ conn'[c].port = conn[c].port
<1>c. ASSUME Closes PROVE Keeps
  <2>1. ASSUME CloseKicked, NEW c \in Conns, conn'[c] # conn[c]
        PROVE  conn[c].pc \in Up /\ conn'[c].pc \in Up /\ conn'[c].port = conn[c].port
    <3>1. /\ conn[c].port = operator.port /\ conn'[c] = [conn[c] EXCEPT !.pc = "closed"]
          /\ operator.pc = "close"
      BY <2>1, Zenon DEF CloseKicked
    <3>2. conn[c].port # None /\ ~Current(conn[c].port)
      BY <3>1, Zenon DEF BanInv, ServeInv
    <3>3. conn[c].pc \notin {"none", "admitted"}
      BY <3>2, Zenon DEF CreatorInv
    <3> QED
      BY <1>0, <1>p, <3>1, <3>3 DEF ConnSet
  <2>2. ASSUME NEW d \in Conns, CloseReconnect(d) PROVE Keeps
    <3>1. conn[d].pc = "reconnect" /\ conn' = [conn EXCEPT ![d].pc = "closed"]
      BY <2>2, Zenon DEF CloseReconnect, Step
    <3>2. /\ conn'[d].pc = "closed" /\ conn'[d].port = conn[d].port
          /\ \A x \in Conns : x # d => conn'[x] = conn[x]
      BY <1>0, <3>1 DEF ConnSet
    <3> QED
      BY <3>1, <3>2, Zenon
  <2> QED
    BY <1>c, <2>1, <2>2, Zenon DEF Closes
<1>k. ASSUME NEW key, NEW limit, NEW b, ApplyConfig(key, limit, b) PROVE Keeps
  BY <1>0, <1>k, Zenon DEF ApplyConfig, ConnSet
<1>1. CASE mu # None
  <2>0. UNCHANGED tables
    BY <1>1, LockedSteps, Zenon
  <2>a. active' = active /\ latest' = latest
    BY <2>0, Zenon DEF tables
  <2>1. CASE CreateAddsPort
    <3>1. conn' = conn /\ Creating /\ Creating' /\ mu'.port = mu.port /\ mu'.conn = mu.conn
      <4>1. mu \in LockSet
        BY <2>1, Zenon DEF CreateAddsPort, TypeOK
      <4>2. mu' = [mu EXCEPT !.op = "map"]
        BY <2>1, Zenon DEF CreateAddsPort
      <4>3. mu' \in LockSet /\ mu'.op = "map" /\ mu'.port = mu.port /\ mu'.conn = mu.conn
        BY <4>1, <4>2, Zenon DEF LockSet
      <4> QED
        BY <2>1, <4>3, Values, Zenon DEF CreateAddsPort, Creating
    <3> HIDE DEF Creating
    <3> QED
      BY <2>a, <3>1 DEF CreatorInv, Current
  <2>2. CASE CreateMapsMAC
    <3>1. Creating /\ mu' = None /\ ~Creating' /\ conn' = [conn EXCEPT ![mu.conn].pc = "serving"]
      BY <2>2, Zenon DEF CreateMapsMAC, Creating, Step
    <3>2. mu.conn \in Conns /\ mu.port \in Instances /\ conn[mu.conn].port = mu.port
      BY <1>1, <3>1, Zenon DEF CreatorInv, TypeOK, LockSet
    <3>3. conn'[mu.conn].pc = "serving" /\ conn'[mu.conn].port = mu.port
      BY <1>0, <3>1, <3>2, Zenon DEF ConnSet
    <3>4. \A c \in Conns : c # mu.conn => conn'[c] = conn[c]
      BY <1>0, <3>1, Zenon
    <3> HIDE DEF Creating
    <3> QED
      BY <3>1, <3>2, <3>3, <3>4, Values, ZenonT(30) DEF CreatorInv
  <2>3. CASE DestroyClosesPort
    BY <2>3, Zenon DEF DestroyClosesPort, CreatorInv, Creating
  <2>4. CASE Closes /\ mu' = mu
    <3>1. Creating' = Creating
      BY <2>4, Zenon DEF Creating
    <3> HIDE DEF Creating
    <3> QED
      BY <1>c, <2>4, <2>a, <3>1 DEF CreatorInv, Current
  <2>5. CASE conn' = conn /\ mu' = mu
    BY <2>5, <2>a, Zenon DEF CreatorInv, Current, Creating
  <2>6. \/ CreateAddsPort \/ CreateMapsMAC \/ DestroyClosesPort
        \/ (Closes /\ mu' = mu) \/ (conn' = conn /\ mu' = mu)
    BY <1>1, LockedSteps, Zenon
  <2> QED
    BY <2>1, <2>2, <2>3, <2>4, <2>5, <2>6, Zenon
<1>2. CASE mu = None
  <2>0. ~Creating
    BY <1>2, Zenon DEF Creating
  <2>1. ASSUME Quiet PROVE CreatorInv'
    <3>1. ~Creating' /\ ~CreateMapsMAC
      BY <1>2, <2>1, Zenon DEF Quiet, Creating, CreateMapsMAC
    <3> HIDE DEF Creating
    <3>2. CASE conn' = conn
      BY <2>0, <3>1, <3>2, Zenon DEF CreatorInv
    <3>3. ASSUME NEW c \in Conns, Released(c) PROVE CreatorInv'
      <4>1. conn'[c] = NoConn /\ \A d \in Conns \ {c} : conn'[d] = conn[d]
        BY <1>0, <3>3, Zenon DEF Released
      <4> QED
        BY <1>n, <2>0, <3>1, <4>1, Zenon DEF CreatorInv
    <3>4. ASSUME NEW c \in Conns, NEW id \in Clients, Admitted(c, id) PROVE CreatorInv'
      <4>1. /\ conn'[c] = [pc |-> "admitted", id |-> id, port |-> None]
            /\ \A d \in Conns \ {c} : conn'[d] = conn[d]
        BY <1>0, <3>4, Zenon DEF Admitted
      <4>2. conn'[c].pc = "admitted" /\ conn'[c].id = id /\ conn'[c].port = None
        BY <4>1
      <4> QED
        BY <2>0, <3>1, <4>1, <4>2, Zenon DEF CreatorInv
    <3>5. CASE \/ Closes
               \/ \E key \in PSKs, limit \in SessionLimits, b \in BOOLEAN : ApplyConfig(key, limit, b)
      BY <1>c, <1>k, <2>0, <3>1, <3>5, Zenon DEF CreatorInv
    <3> QED
      BY <2>1, <3>1, <3>2, <3>3, <3>4, <3>5, Zenon DEF Quiet
  <2>2. ASSUME NEW c \in Conns, Created(c) PROVE CreatorInv'
    <3> DEFINE id == conn[c].id
    <3>1. PICK v4, v6 \in Nat : Gains(c, v4, v6)
      BY <2>2, CreatedFacts, Zenon
    <3>2. /\ conn[c].pc = "admitted" /\ id \in Clients /\ NewPort(c).id = id
          /\ NewPort(c).n = created + 1
          /\ conn' = [conn EXCEPT ![c].port = NewPort(c)]
          /\ latest' = [latest EXCEPT ![MacOf(id)] = created + 1]
          /\ mu' # None /\ mu'.op = "add" /\ mu'.conn = c /\ mu'.port = NewPort(c)
      BY <2>2, CreatedFacts, Zenon
    <3>3. Creating'
      BY <3>2, Zenon DEF Creating
    <3>4. /\ conn'[c].pc = "admitted" /\ conn'[c].id = id /\ conn'[c].port = NewPort(c)
          /\ \A d \in Conns \ {c} : conn'[d] = conn[d]
      BY <1>0, <3>2, Zenon DEF ConnSet
    <3>5. latest'[MacOf(id)] = created + 1
      BY <3>2, Values, Zenon DEF TypeOK
    <3>6. active'[id] = Fresh(c, v4, v6) /\ active'[id] # None
      BY <3>1, <3>2, Values, Zenon DEF TypeOK, Gains
    <3>7. Current(mu.port)'
      BY <3>2, <3>6 DEF Current, Fresh
    <3> HIDE DEF Creating
    <3>8. \A d \in Conns :
             /\ conn'[d].pc = "none" => conn'[d].port = None
             /\ conn'[d].pc = "admitted" =>
                   conn'[d].id \in Clients /\ (conn'[d].port = None \/ (Creating' /\ mu'.conn = d))
             /\ conn'[d].pc \in {"serving", "reconnect", "closed"} => conn'[d].port # None
      BY <2>0, <3>2, <3>3, <3>4 DEF CreatorInv
    <3>9. /\ mu'.conn \in Conns
          /\ conn'[mu'.conn].pc = "admitted" /\ conn'[mu'.conn].port = mu'.port
          /\ Current(mu.port)' /\ mu'.port.n = latest'[MacOf(mu'.port.id)]
      BY <3>2, <3>4, <3>5, <3>7, Zenon
    <3> QED
      BY <3>8, <3>9, Zenon DEF CreatorInv, MacOf
  <2>3. ASSUME NEW c \in Conns, Joined(c) PROVE CreatorInv'
    <3>1. /\ conn'[c].pc = "serving" /\ conn'[c].port = PortOf(conn[c].id)
          /\ \A d \in Conns \ {c} : conn'[d] = conn[d]
      BY <1>0, <2>3, Zenon DEF Joined, ConnSet
    <3>2. conn[c].id \in Clients /\ active[conn[c].id] # None
      BY <2>3, Zenon DEF Joined, CreatorInv
    <3>3. PortOf(conn[c].id) # None
      BY <3>2, PortFacts, Values, Zenon
    <3>4. ~Creating'
      BY <2>3, Zenon DEF Joined, Creating
    <3> HIDE DEF Creating
    <3> QED
      BY <2>0, <3>1, <3>3, <3>4, Zenon DEF CreatorInv
  <2>4. ASSUME NEW c \in Conns, Left(c) PROVE CreatorInv'
    <3>1. conn'[c] = NoConn /\ \A d \in Conns \ {c} : conn'[d] = conn[d]
      BY <1>0, <2>4, Zenon DEF Left
    <3>2. ~Creating'
      BY <2>4, Zenon DEF Left, Creating
    <3> HIDE DEF Creating
    <3> QED
      BY <1>n, <2>0, <3>1, <3>2, Zenon DEF CreatorInv
  <2>5. ASSUME NEW port, Destroyed(port) PROVE CreatorInv'
    <3>1. conn' = conn /\ ~Creating'
      BY <2>5, Zenon DEF Destroyed, Destroy, Creating
    <3> HIDE DEF Creating
    <3> QED
      BY <2>0, <3>1, Zenon DEF CreatorInv
  <2> QED
    BY <2>1, <2>2, <2>3, <2>4, <2>5, TableSteps, Zenon
<1> QED
  BY <1>1, <1>2, Zenon

-----------------------------------------------------------------------------
\* The session of a client is the same but for its connections.
SameSession(id) ==
    /\ active'[id] # None <=> active[id] # None
    /\ active[id] # None =>
          /\ active'[id].n = active[id].n /\ active'[id].v4 = active[id].v4
          /\ active'[id].v6 = active[id].v6 /\ active'[id].despiteBan = active[id].despiteBan

\* The sessions after a session was created.
LEMMA SessionsCreated ==
    ASSUME TypeOK, CreatorInv, NEW c \in Conns, Created(c)
    PROVE  /\ Sessions' = Sessions \cup {conn[c].id} /\ conn[c].id \notin Sessions
           /\ \A id \in Clients : id # conn[c].id => active'[id] = active[id]
           /\ active'[conn[c].id].n = created + 1 /\ active'[conn[c].id].conns = 1
           /\ active'[conn[c].id].despiteBan = (conn[c].id \in banned)
<1>1. PICK v4, v6 \in Nat : Gains(c, v4, v6)
  BY CreatedFacts, Zenon
<1>2. conn[c].id \in Clients /\ active[conn[c].id] = None
  BY CreatedFacts, Zenon
<1>3. /\ active'[conn[c].id] = Fresh(c, v4, v6) /\ active'[conn[c].id] # None
      /\ \A id \in Clients : id # conn[c].id => active'[id] = active[id]
  BY <1>1, <1>2, Values DEF Gains, TypeOK
<1>4. Sessions' = Sessions \cup {conn[c].id} /\ conn[c].id \notin Sessions
  BY <1>2, <1>3, Zenon DEF Sessions
<1>5. active'[conn[c].id].n = created + 1 /\ active'[conn[c].id].conns = 1
  BY <1>3 DEF Fresh
<1>6. active'[conn[c].id].despiteBan = (conn[c].id \in banned)
  BY <1>3 DEF Fresh
<1> QED
  BY <1>3, <1>4, <1>5, <1>6, Zenon

\* The sessions after a session was destroyed.
LEMMA SessionsDestroyed ==
    ASSUME TypeOK, NEW port, Destroyed(port)
    PROVE  /\ port \in Instances /\ port.id \in Sessions /\ port = PortOf(port.id)
           /\ Sessions' = Sessions \ {port.id} /\ active'[port.id] = None
           /\ \A id \in Clients : id # port.id => active'[id] = active[id]
<1>1. port \in Instances /\ Current(port) /\ active' = [active EXCEPT ![port.id] = None]
  BY Zenon DEF Destroyed, Destroy, ReleaseTables
<1>2. port.id \in Clients /\ active[port.id] # None /\ port = PortOf(port.id)
  BY <1>1, PortFacts, Zenon
<1>3. active'[port.id] = None /\ \A id \in Clients : id # port.id => active'[id] = active[id]
  BY <1>1, <1>2, Zenon DEF TypeOK
<1> QED
  BY <1>1, <1>2, <1>3, Zenon DEF Sessions

\* The sessions after a connection joined or left one.
LEMMA SessionsCounted ==
    ASSUME TypeOK, CreatorInv, NEW c \in Conns, Joined(c) \/ Left(c)
    PROVE  /\ Sessions' = Sessions
           /\ \A id \in Clients : SameSession(id)
<1>1. PICK id \in Clients, k \in {1, -1} :
         active[id] # None /\ active' = [active EXCEPT ![id].conns = active[id].conns + k]
  <2>1. CASE Joined(c)
    BY <2>1, Zenon DEF Joined, CreatorInv
  <2>2. CASE Left(c)
    <3>1. conn[c].port \in Instances /\ Current(conn[c].port)
      BY <2>2, Zenon DEF Left, CreatorInv, TypeOK, ConnSet
    <3>2. conn[c].port.id \in Clients /\ active[conn[c].port.id] # None
      BY <3>1, PortFacts, Zenon
    <3>3. active[conn[c].port.id].conns - 1 = active[conn[c].port.id].conns + (-1)
      BY <3>1, <3>2, PortFacts, Zenon DEF SessionSet
    <3> QED
      BY <2>2, <3>2, <3>3, Zenon DEF Left
  <2> QED
    BY <2>1, <2>2, Zenon
<1>2. active[id] \in SessionSet
  BY <1>1, PortFacts, Zenon
<1>3. /\ active'[id] = [active[id] EXCEPT !.conns = active[id].conns + k]
      /\ \A other \in Clients : other # id => active'[other] = active[other]
  BY <1>1, Zenon DEF TypeOK
<1>4. /\ active'[id] \in SessionSet /\ active'[id].n = active[id].n
      /\ active'[id].v4 = active[id].v4 /\ active'[id].v6 = active[id].v6
      /\ active'[id].despiteBan = active[id].despiteBan
  <2>1. active[id].conns + k \in Int
    BY <1>2 DEF SessionSet
  <2> QED
    BY <1>2, <1>3, <2>1, Zenon DEF SessionSet
<1>5. \A other \in Clients : SameSession(other)
  BY <1>1, <1>3, <1>4, Values, ZenonT(30) DEF SameSession
<1> QED
  BY <1>5, Zenon DEF Sessions, SameSession

-----------------------------------------------------------------------------
\* Every step keeps the numbers of the sessions apart.
LEMMA NumberStep ==
    ASSUME TypeOK, CreatorInv, BanInv, NumberInv, [Next]_vars
    PROVE  NumberInv'
<1> DEFINE Low(port) == port # None => port.n <= created
<1>0. /\ conn \in [Conns -> ConnSet] /\ created \in Nat /\ operator \in OperatorSet
      /\ active \in [Clients -> SessionSet \cup {None}]
  BY Zenon DEF TypeOK
<1>i. \A id \in Sessions : id \in Clients /\ active[id].n \in Nat
  BY <1>0, Zenon DEF Sessions, SessionSet
<1>s. Sessions \subseteq Clients
  BY Zenon DEF Sessions
<1>n. NoConn.port = None /\ NoOperator.port = None
  BY Zenon DEF NoConn, NoOperator
\* The operator takes the number of a session.
<1>1. operator'.port = operator.port \/ operator'.port = None
      \/ \E id \in Sessions : operator'.port = PortOf(id)
  <2>1. ASSUME LookUp PROVE operator'.port = operator.port \/ operator'.port = None
                            \/ \E id \in Sessions : operator'.port = PortOf(id)
    <3>1. operator.id \in Clients
      BY <2>1, Zenon DEF LookUp, BanInv
    <3>2. CASE active[operator.id] = None
      BY <1>n, <2>1, <3>2, Zenon DEF LookUp
    <3>3. CASE active[operator.id] # None
      <4>1. operator' = [operator EXCEPT !.pc = "kick", !.port = PortOf(operator.id)]
        BY <2>1, <3>3, Zenon DEF LookUp
      <4>2. operator'.port = PortOf(operator.id)
        BY <1>0, <4>1, Zenon DEF OperatorSet
      <4> QED
        BY <3>1, <3>3, <4>2, Zenon DEF Sessions
    <3> QED
      BY <3>2, <3>3, Zenon
  <2>2. ASSUME NEW id, Ban(id) \/ Kick(id) PROVE operator'.port = None
    <3>1. operator' = [NoOperator EXCEPT !.pc = "lookup", !.id = id]
      BY <2>2, Zenon DEF Ban, Kick
    <3> QED
      BY <3>1, Zenon DEF NoOperator
  <2>3. ASSUME KickSession PROVE operator'.port \in {operator.port, None}
    BY <1>0, <1>n, <2>3, Zenon DEF KickSession, OperatorSet
  <2>4. ASSUME CloseKicked PROVE operator'.port = None
    BY <1>n, <2>4, Zenon DEF CloseKicked
  <2>5. ASSUME \/ \E c \in Conns : Handshake(c)
               \/ CreateAddsPort \/ CreateMapsMAC \/ DestroyUnmaps \/ DestroyClosesPort
               \/ \E port \in timers.armed : TimerFires(port)
               \/ \E port \in timers.fired : TimerCallback(port)
               \/ \E id \in Clients : Unban(id)
               \/ \E key \in PSKs, limit \in SessionLimits, b \in BOOLEAN : ApplyConfig(key, limit, b)
               \/ \E c \in Conns : CloseReconnect(c)
               \/ LearnFrame \/ ForwardFrame \/ PurgeMAC \/ UNCHANGED vars
        PROVE  operator' = operator
    BY <2>5, ZenonT(30) DEF Handshake, Authenticate, Resume, Create, Cleanup, CreateAddsPort,
       CreateMapsMAC,
                DestroyUnmaps, DestroyClosesPort, TimerFires, TimerCallback, Unban, ApplyConfig,
                CloseReconnect, LearnFrame, ForwardFrame, PurgeMAC, vars, admissionVars
  <2> QED
    BY <2>1, <2>2, <2>3, <2>4, <2>5, Zenon DEF Next, Operate
<1>2. Low(operator'.port)
  BY <1>1, <1>s, PortFacts DEF NumberInv, Sessions
<1>3. ASSUME Quiet PROVE NumberInv'
  <2>1. active' = active /\ created' = created /\ Sessions' = Sessions
    BY <1>3, Zenon DEF Quiet, tables, Sessions
  <2>2. \A c \in Conns : conn'[c].port = conn[c].port \/ conn'[c].port = None
    <3>1. ASSUME NEW c \in Conns, Released(c) \/ \E id \in Clients : Admitted(c, id)
          PROVE  \A d \in Conns : conn'[d].port = conn[d].port \/ conn'[d].port = None
      BY <1>0, <1>n, <3>1 DEF Released, Admitted
    <3>2. ASSUME \/ CreateMapsMAC \/ Closes
                 \/ \E key \in PSKs, limit \in SessionLimits, b \in BOOLEAN :
                       ApplyConfig(key, limit, b)
          PROVE  \A d \in Conns : conn'[d].port = conn[d].port
      BY <1>0, <3>2 DEF CreateMapsMAC, Step, Closes, CloseKicked, CloseReconnect, ApplyConfig, ConnSet
    <3> QED
      BY <1>3, <3>1, <3>2, Zenon DEF Quiet
  <2> QED
    BY <1>2, <2>1, <2>2, Zenon DEF NumberInv
<1>4. ASSUME NEW c \in Conns, Created(c) PROVE NumberInv'
  <2>1. /\ created' = created + 1 /\ operator' = operator
        /\ conn' = [conn EXCEPT ![c].port = NewPort(c)] /\ NewPort(c).n = created + 1
    BY <1>4, CreatedFacts, Zenon
  <2>2. /\ Sessions' = Sessions \cup {conn[c].id} /\ conn[c].id \notin Sessions
        /\ \A id \in Clients : id # conn[c].id => active'[id] = active[id]
        /\ active'[conn[c].id].n = created + 1
    BY <1>4, SessionsCreated, Zenon
  <2>3. \A id \in Sessions : active'[id].n = active[id].n
    BY <1>i, <2>2, Zenon
  <2>4. \A id \in Sessions' : active'[id].n <= created'
    BY <1>0, <1>i, <2>1, <2>2, <2>3 DEF NumberInv
  <2>5. \A id, other \in Sessions' : active'[id].n = active'[other].n => id = other
    BY <1>0, <1>i, <2>2, <2>3 DEF NumberInv
  <2>6. \A d \in Conns : conn'[d].port # None => conn'[d].port.n <= created'
    <3>1. conn'[c].port = NewPort(c) /\ \A d \in Conns \ {c} : conn'[d] = conn[d]
      BY <1>0, <2>1, Zenon DEF ConnSet
    <3>2. \A d \in Conns : conn[d].port # None => conn[d].port.n \in Nat
      BY <1>0, Zenon DEF ConnSet, Instances
    <3> QED
      BY <1>0, <2>1, <3>1, <3>2 DEF NumberInv
  <2>7. operator'.port # None => operator'.port.n <= created'
    <3>1. operator.port # None => operator.port.n \in Nat
      BY <1>0, Zenon DEF OperatorSet, Instances
    <3> QED
      BY <1>0, <2>1, <3>1 DEF NumberInv
  <2> QED
    BY <2>4, <2>5, <2>6, <2>7, Zenon DEF NumberInv
<1>5. ASSUME NEW c \in Conns, Joined(c) \/ Left(c) PROVE NumberInv'
  <2>1. created' = created
    BY <1>5, Zenon DEF Joined, Left
  <2>2. Sessions' = Sessions /\ \A id \in Sessions : active'[id].n = active[id].n
    BY <1>5, SessionsCounted, Zenon DEF SameSession, Sessions
  <2>3. \A d \in Conns : conn'[d].port # None => conn'[d].port.n <= created
    <3>1. CASE Joined(c)
      <4>1. conn[c].id \in Sessions
        BY <3>1, Zenon DEF Joined, CreatorInv, Sessions
      <4>2. conn'[c].port = PortOf(conn[c].id) /\ \A d \in Conns \ {c} : conn'[d] = conn[d]
        BY <1>0, <3>1, Zenon DEF Joined, ConnSet
      <4>3. PortOf(conn[c].id).n = active[conn[c].id].n
        BY Zenon DEF PortOf
      <4> QED
        BY <4>1, <4>2, <4>3, Zenon DEF NumberInv
    <3>2. CASE Left(c)
      <4>1. conn'[c] = NoConn /\ \A d \in Conns \ {c} : conn'[d] = conn[d]
        BY <1>0, <3>2, Zenon DEF Left
      <4> QED
        BY <1>n, <4>1, Zenon DEF NumberInv
    <3> QED
      BY <1>5, <3>1, <3>2, Zenon
  <2> QED
    BY <1>2, <2>1, <2>2, <2>3 DEF NumberInv
<1>6. ASSUME NEW port, Destroyed(port) PROVE NumberInv'
  <2>1. created' = created /\ conn' = conn
    BY <1>6, Zenon DEF Destroyed, Destroy
  <2>2. Sessions' \subseteq Sessions /\ \A id \in Sessions' : active'[id] = active[id]
    BY <1>6, <1>s, SessionsDestroyed, Zenon
  <2> QED
    BY <1>2, <2>1, <2>2, Zenon DEF NumberInv
<1> QED
  BY <1>3, <1>4, <1>5, <1>6, TableSteps, Zenon

-----------------------------------------------------------------------------
\* What a quiet step of the server leaves alone.
LEMMA QuietSteps ==
    ASSUME TypeOK, BanInv, [Next]_vars, Quiet,
           ~CreateAddsPort, ~CreateMapsMAC, ~DestroyUnmaps, ~DestroyClosesPort,
           ~LearnFrame, ~ForwardFrame, ~PurgeMAC
    PROVE  UNCHANGED <<switchVars, tables, mu>>
<1>1. UNCHANGED tables
  BY Zenon DEF Quiet
<1>2. ASSUME NEW c \in Conns, Handshake(c) PROVE UNCHANGED <<switchVars, mu>>
  <2>1. mu = None /\ mu' = None
    BY <1>2, Zenon DEF Quiet, Handshake, Authenticate, Resume, Create, Cleanup
  <2> QED
    BY <1>2, <2>1, Zenon DEF Handshake, Authenticate, Resume, Create, Cleanup
<1>3. ASSUME NEW port, TimerFires(port) PROVE UNCHANGED <<switchVars, mu>>
  BY <1>3, Zenon DEF TimerFires
<1>4. ASSUME NEW port \in timers.fired, TimerCallback(port) PROVE UNCHANGED <<switchVars, mu>>
  <2>1. mu = None /\ mu' = None /\ port \in Instances
    BY <1>4, Zenon DEF Quiet, TimerCallback, TypeOK
  <2>2. ~Destroy(port)
    <3>1. [op |-> "remove", conn |-> None, port |-> port] \in LockSet
      BY <2>1, Zenon DEF LockSet
    <3> QED
      BY Values, <2>1, <3>1, Zenon DEF Destroy
  <2> QED
    BY <1>4, <2>2, Zenon DEF TimerCallback
<1>5. ASSUME Operate PROVE UNCHANGED <<switchVars, mu>>
  <2>1. ASSUME KickSession PROVE UNCHANGED <<switchVars, mu>>
    <3>1. mu = None /\ mu' = None /\ operator.port \in Instances
      BY <2>1, Zenon DEF Quiet, KickSession, BanInv, TypeOK, OperatorSet
    <3>2. ~Destroy(operator.port)
      <4>1. [op |-> "remove", conn |-> None, port |-> operator.port] \in LockSet
        BY <3>1, Zenon DEF LockSet
      <4> QED
        BY Values, <3>1, <4>1, Zenon DEF Destroy
    <3> QED
      BY <2>1, <3>2, Zenon DEF KickSession
  <2> QED
    BY <1>5, <2>1, Zenon DEF Operate, Ban, Unban, Kick, LookUp, CloseKicked, ApplyConfig,
       CloseReconnect
<1>6. ASSUME UNCHANGED vars PROVE UNCHANGED <<switchVars, mu>>
  BY <1>6, Zenon DEF vars, admissionVars
<1> QED
  BY <1>1, <1>2, <1>3, <1>4, <1>5, <1>6, Zenon DEF Next

\* Frames are written to ports of the tables.
LEMMA NoLateWrite ==
    ASSUME TypeOK, SwitchInv, NEW id, Flood(id) \/ \E dst \in MACs : Unicast(id, dst)
    PROVE  ~lateWrite'
<1>1. \A p \in PortSet : p = TapPort \/ p \in live => ~Closed(p)
  BY Zenon DEF Closed
<1>2. CASE Flood(id)
  <2>1. DOMAIN ports = Clients \cup {Tap}
    BY Zenon DEF TypeOK
  <2>2. \A i \in DOMAIN ports : ports[i] # None => ~Closed(ports[i])
    BY <2>1, Zenon DEF SwitchInv, Closed
  <2>3. lateWrite' = (lateWrite
          \/ \E p \in {ports[i] : i \in {j \in DOMAIN ports : j # id /\ ports[j] # None}} : Closed(p))
    BY <1>2, Zenon DEF Flood, Writes
  <2>4. ~lateWrite
    BY Zenon DEF SwitchInv
  <2> QED
    BY <2>2, <2>3, <2>4, Zenon
<1>3. ASSUME NEW dst \in MACs, Unicast(id, dst) PROVE ~lateWrite'
  <2>1. ~Closed(macTable[dst].port) /\ ~lateWrite
    BY <1>3, Zenon DEF Unicast, SwitchInv, Closed
  <2>2. lateWrite' = (lateWrite \/ \E p \in {q \in {macTable[dst].port} : q.id # id} : Closed(p))
    BY <1>3, Zenon DEF Unicast, Writes
  <2> QED
    BY <2>1, <2>2, Zenon
<1> QED
  BY <1>2, <1>3, Zenon

\* Every step keeps the port table and the MAC table in step with the sessions.
LEMMA SwitchStep ==
    ASSUME TypeOK, CreatorInv, BanInv, SwitchInv, [Next]_vars
    PROVE  SwitchInv'
<1>0. /\ ports \in [Clients \cup {Tap} -> PortSet \cup {None}] /\ live \subseteq Instances
      /\ macTable \in [MACs -> EntrySet \cup {None}] /\ mu \in LockSet \cup {None}
      /\ removing \in RemovalSet \cup {None} /\ learning \in MACs \cup {None}
  BY Zenon DEF TypeOK
<1>t. Tap \notin Clients /\ None \notin LockSet /\ None \notin RemovalSet
  BY Values, Zenon
<1>m. mu # None => mu.port \in Instances /\ mu.port.id \in Clients /\ mu.op \in {"add", "map", "remove"}
  BY <1>0, PortFacts, Zenon DEF LockSet
<1> DEFINE Adding(id) == mu # None /\ mu.op = "add" /\ mu.port.id = id
           P(id) == /\ ports[id] # None => ports[id].id = id /\ ports[id] \in live
                    /\ active[id] = None => ports[id] = None
                    /\ active[id] # None => ports[id] = PortOf(id) \/ Adding(id)
           M(m) == macTable[m] # None => macTable[m].port = TapPort \/ macTable[m].port \in live
           R1 == removing # None <=> (mu # None /\ mu.op = "remove")
           R2 == removing # None =>
                    /\ removing.id = mu.port.id /\ active[removing.id] = None
                    /\ \A m \in MACs \ removing.shards : ~OnPort(m, removing.id)
<1>s. /\ ports[Tap] = TapPort /\ (\A id \in Clients : P(id)) /\ (\A m \in MACs : M(m))
      /\ R1 /\ R2 /\ ~lateWrite
  BY Zenon DEF SwitchInv
<1> SUFFICES /\ ports'[Tap] = TapPort /\ (\A id \in Clients : P(id)') /\ (\A m \in MACs : M(m)')
             /\ R1' /\ R2' /\ ~lateWrite'
  BY Zenon DEF SwitchInv
<1> DEFINE Goal == /\ ports'[Tap] = TapPort /\ (\A id \in Clients : P(id)')
                   /\ (\A m \in MACs : M(m)') /\ R1' /\ R2' /\ ~lateWrite'
<1>1. ASSUME UNCHANGED <<switchVars, mu>>, \A id \in Clients : SameSession(id) PROVE Goal
  <2>1. UNCHANGED <<ports, macTable, removing, live, lateWrite, mu>>
    BY <1>1, Zenon DEF switchVars
  <2>2. \A id \in Clients : P(id)'
    <3> SUFFICES ASSUME NEW id \in Clients PROVE P(id)'
      BY Zenon
    <3>1. active[id] # None => PortOf(id)' = PortOf(id)
      BY <1>1, Zenon DEF SameSession, PortOf
    <3> QED
      BY <1>1, <1>s, <2>1, <3>1, Zenon DEF SameSession
  <2>3. R1' /\ R2'
    <3>1. removing # None => removing.id \in Clients
      BY <1>0, Zenon DEF RemovalSet
    <3> QED
      BY <1>1, <1>s, <2>1, <3>1, Zenon DEF SameSession, OnPort
  <2> QED
    BY <1>s, <2>1, <2>2, <2>3, Zenon
<1>2. ASSUME UNCHANGED tables PROVE \A id \in Clients : SameSession(id)
  BY <1>2, Zenon DEF tables, SameSession
<1>3. ASSUME UNCHANGED <<tables, ports, live, removing, mu>>, ~lateWrite',
             NEW m \in MACs,
             \A x \in MACs : x # m => macTable'[x] = macTable[x],
             macTable'[m] = macTable[m] \/ macTable'[m] = None \/ macTable'[m].port = TapPort
      PROVE  Goal
  <2>1. active' = active
    BY <1>3, Zenon DEF tables
  <2>2. \A id \in Clients : P(id)'
    BY <1>3, <1>s, <2>1, Zenon DEF PortOf
  <2>3. \A x \in MACs : M(x)'
    BY <1>3, <1>s
  <2>4. R1'
    BY <1>3, <1>s, Zenon
  <2>5. R2'
    <3>1. removing # None => removing.id # Tap
      BY <1>0, <1>t, Zenon DEF RemovalSet
    <3>2. TapPort.id = Tap
      BY Zenon DEF TapPort
    <3> QED
      BY <1>3, <1>s, <2>1, <3>1, <3>2 DEF OnPort
  <2> QED
    BY <1>3, <1>s, <2>2, <2>3, <2>4, <2>5, Zenon
<1>4. ASSUME CreateAddsPort PROVE Goal
  <2>1. /\ mu # None /\ mu.op = "add" /\ mu.port \in Instances /\ mu.port.id \in Clients
        /\ mu' = [mu EXCEPT !.op = "map"] /\ mu \in LockSet
    BY <1>4, <1>0, <1>m, Zenon DEF CreateAddsPort
  <2>2. mu' # None /\ mu'.op = "map" /\ mu'.port = mu.port
    <3>1. mu' \in LockSet /\ mu'.op = "map" /\ mu'.port = mu.port
      BY <2>1, Zenon DEF LockSet
    <3> QED
      BY <1>t, <3>1, Zenon
  <2>3. /\ ports' = [ports EXCEPT ![mu.port.id] = mu.port] /\ live' = live \cup {mu.port}
        /\ UNCHANGED <<macTable, removing, lateWrite, active>>
    BY <1>4, Zenon DEF CreateAddsPort, AddPort, tables
  <2>4. active[mu.port.id] # None /\ mu.port = PortOf(mu.port.id)
    BY <2>1, PortFacts, Zenon DEF CreatorInv, Creating
  <2>5. ports'[Tap] = TapPort
    BY <1>0, <1>s, <1>t, <2>1, <2>3, Zenon
  <2>6. \A id \in Clients : P(id)'
    BY <1>0, <1>s, <2>1, <2>2, <2>3, <2>4, Zenon DEF PortOf
  <2>7. \A m \in MACs : M(m)'
    BY <1>s, <2>3, Zenon
  <2>8. R1' /\ R2'
    BY <1>s, <2>1, <2>2, <2>3, Zenon
  <2> QED
    BY <1>s, <2>3, <2>5, <2>6, <2>7, <2>8, Zenon
<1>5. ASSUME CreateMapsMAC PROVE Goal
  <2>1. /\ mu # None /\ mu.op = "map" /\ mu' = None
        /\ mu.port \in Instances /\ mu.port.id \in Clients
    BY <1>5, <1>m, Zenon DEF CreateMapsMAC
  <2>2. /\ UNCHANGED <<ports, removing, live, lateWrite, active>>
        /\ macTable' = [macTable EXCEPT ![MacOf(mu.port.id)] = Registered(ports[mu.port.id])]
    BY <1>5, Zenon DEF CreateMapsMAC, AddStaticMAC, tables
  <2>3. Current(mu.port) /\ active[mu.port.id] # None
    BY <2>1, Zenon DEF CreatorInv, Creating, Current
  <2>4. ports[mu.port.id] = PortOf(mu.port.id) /\ PortOf(mu.port.id) = mu.port
    BY <1>s, <2>1, <2>3, PortFacts, ZenonT(30)
  <2>5. mu.port \in live
    BY <1>s, <2>1, <2>4, Values
  <2>6. \A m \in MACs : M(m)'
    <3>1. Registered(mu.port).port = mu.port
      BY Zenon DEF Registered
    <3> QED
      BY <1>0, <1>s, <2>2, <2>4, <2>5, <3>1
  <2>7. \A id \in Clients : P(id)'
    BY <1>s, <2>1, <2>2, Zenon DEF PortOf
  <2>8. R1' /\ R2'
    BY <1>s, <2>1, <2>2, Zenon
  <2> QED
    BY <1>s, <2>2, <2>6, <2>7, <2>8, Zenon
<1>6. ASSUME DestroyUnmaps PROVE Goal
  <2>1. PICK m \in MACs : RemoveShard(m)
    BY <1>6, Zenon DEF DestroyUnmaps
  <2>2. /\ removing # None /\ UNCHANGED <<ports, live, lateWrite, mu, active>>
        /\ macTable' = [macTable EXCEPT ![m] = IF OnPort(m, removing.id) THEN None ELSE @]
        /\ removing' = [removing EXCEPT !.shards = @ \ {m}]
    BY <1>6, <2>1, Zenon DEF DestroyUnmaps, RemoveShard, admissionVars, tables
  <2>3. removing' # None /\ removing'.id = removing.id /\ removing'.shards = removing.shards \ {m}
    <3>1. /\ removing' \in RemovalSet /\ removing'.id = removing.id
          /\ removing'.shards = removing.shards \ {m}
      BY <1>0, <2>2, Zenon DEF RemovalSet
    <3> QED
      BY <1>t, <3>1, Zenon
  <2>4. \A x \in MACs : macTable'[x] = IF x = m /\ OnPort(m, removing.id) THEN None ELSE macTable[x]
    BY <1>0, <2>2, Zenon
  <2>5. \A x \in MACs : M(x)'
    BY <1>s, <2>2, <2>4
  <2>6. R1'
    BY <1>s, <2>2, <2>3, ZenonT(30)
  <2>7. R2'
    BY <1>s, <2>2, <2>3, <2>4 DEF OnPort
  <2>8. \A id \in Clients : P(id)'
    BY <1>s, <2>2, Zenon DEF PortOf
  <2> QED
    BY <1>s, <2>2, <2>5, <2>6, <2>7, <2>8, ZenonT(30)
<1>7. ASSUME DestroyClosesPort PROVE Goal
  <2>1. /\ mu # None /\ mu.op = "remove" /\ mu' = None /\ mu.port.id \in Clients
        /\ removing # None /\ removing.shards = {} /\ removing' = None
        /\ live' = live \ {mu.port} /\ UNCHANGED <<ports, macTable, lateWrite, active>>
    BY <1>7, <1>m, Zenon DEF DestroyClosesPort, ClosePort, Removed, tables
  <2>2. active[mu.port.id] = None /\ ports[mu.port.id] = None
    BY <1>s, <2>1, Zenon
  <2>3. \A id \in Clients : P(id)'
    BY <1>s, <2>1, <2>2, Zenon DEF PortOf
  <2>4. \A m \in MACs : M(m)'
    <3>1. \A m \in MACs : ~OnPort(m, mu.port.id)
      BY <1>s, <2>1, Zenon
    <3> QED
      BY <1>s, <2>1, <3>1, Zenon DEF OnPort
  <2> QED
    BY <1>s, <2>1, <2>3, <2>4, Zenon
<1>8. ASSUME NEW c \in Conns, Created(c) PROVE Goal
  <2>1. /\ mu = None /\ mu' # None /\ mu'.op = "add" /\ mu'.port = NewPort(c)
        /\ NewPort(c).id = conn[c].id /\ active[conn[c].id] = None /\ conn[c].id \in Clients
        /\ UNCHANGED <<ports, macTable, removing, live, lateWrite>>
    BY <1>8, CreatedFacts, Zenon
  <2>2. \A id \in Clients : id # conn[c].id => active'[id] = active[id]
    BY <1>8, SessionsCreated, Zenon
  <2>3. conn[c].id \in Sessions'
    BY <1>8, SessionsCreated, Zenon
  <2>4. active'[conn[c].id] # None
    BY <2>3, Zenon DEF Sessions
  <2>5. \A id \in Clients : P(id)'
    <3>1. ASSUME NEW id \in Clients, id = conn[c].id PROVE P(id)'
      BY <1>s, <2>1, <2>4, <3>1, Zenon
    <3>2. ASSUME NEW id \in Clients, id # conn[c].id PROVE P(id)'
      BY <1>s, <2>1, <2>2, <3>2, ZenonT(30) DEF PortOf
    <3> QED
      BY <3>1, <3>2, Zenon
  <2> QED
    BY <1>s, <2>1, <2>5, Zenon
<1>9. ASSUME NEW port, Destroyed(port) PROVE Goal
  <2>1. /\ mu = None /\ mu' = [op |-> "remove", conn |-> None, port |-> port]
        /\ ports' = [ports EXCEPT ![port.id] = None]
        /\ removing' = [id |-> port.id, shards |-> MACs]
        /\ UNCHANGED <<macTable, live, lateWrite>>
    BY <1>9, Zenon DEF Destroyed, Destroy, RemoveBegin
  <2>2. /\ port \in Instances /\ port.id \in Clients /\ active'[port.id] = None
        /\ \A id \in Clients : id # port.id => active'[id] = active[id]
    BY <1>9, SessionsDestroyed, Zenon DEF Sessions
  <2>3. mu' # None /\ mu'.op = "remove" /\ mu'.port = port
    <3>1. mu' \in LockSet
      BY <2>1, <2>2, Zenon DEF LockSet
    <3> QED
      BY <1>t, <2>1, <3>1, Zenon
  <2>4. removing' # None /\ removing'.id = port.id /\ removing'.shards = MACs
    <3>1. removing' \in RemovalSet
      BY <2>1, <2>2, Zenon DEF RemovalSet
    <3> QED
      BY <1>t, <2>1, <3>1, Zenon
  <2>5. \A id \in Clients : P(id)'
    <3>1. P(port.id)'
      BY <1>0, <2>1, <2>2, Zenon
    <3>2. ASSUME NEW id \in Clients, id # port.id PROVE P(id)'
      BY <1>0, <1>s, <2>1, <2>2, <3>2, ZenonT(30) DEF PortOf
    <3> QED
      BY <3>1, <3>2, Zenon
  <2>6. R1' /\ R2'
    BY <2>2, <2>3, <2>4, Zenon
  <2>7. ports'[Tap] = TapPort
    BY <1>0, <1>s, <1>t, <2>1, <2>2, Zenon
  <2> QED
    BY <1>s, <2>1, <2>5, <2>6, <2>7, Zenon
<1>10. ASSUME NEW c \in Conns, Joined(c) \/ Left(c) PROVE Goal
  <2>1. UNCHANGED <<switchVars, mu>>
    BY <1>10, Zenon DEF Joined, Left
  <2> QED
    BY <1>1, <1>10, <2>1, SessionsCounted, Zenon
<1>11. ASSUME LearnFrame PROVE Goal
  <2>1. UNCHANGED <<tables, mu, ports, live, removing, lateWrite>>
    BY <1>11, Zenon DEF LearnFrame, TapReads, TapLearns, admissionVars
  <2>2. CASE macTable' = macTable
    BY <1>s, <2>1, <2>2, Zenon DEF tables, OnPort, PortOf
  <2>3. CASE TapLearns
    <3>1. learning \in MACs
      BY <1>0, <2>3, Zenon DEF TapLearns
    <3>2. /\ \A x \in MACs : x # learning => macTable'[x] = macTable[x]
          /\ macTable'[learning] = macTable[learning] \/ macTable'[learning] = Learned(TapPort)
      BY <1>0, <1>s, <2>3, <3>1, Zenon DEF TapLearns
    <3>3. Learned(TapPort).port = TapPort
      BY Zenon DEF Learned
    <3> QED
      BY <1>3, <1>s, <2>1, <3>1, <3>2, <3>3, ZenonT(30)
  <2> QED
    BY <1>11, <2>2, <2>3, Zenon DEF LearnFrame, TapReads
<1>12. ASSUME ForwardFrame PROVE Goal
  <2>1. UNCHANGED <<tables, mu, ports, live, removing, macTable>>
    BY <1>12, Zenon DEF ForwardFrame, Flood, Unicast, admissionVars
  <2>2. ~lateWrite'
    BY <1>12, NoLateWrite, Zenon DEF ForwardFrame
  <2> QED
    BY <1>s, <2>1, <2>2, Zenon DEF tables, OnPort, PortOf
<1>13. ASSUME PurgeMAC PROVE Goal
  <2>1. PICK m \in MACs : Purge(m)
    BY <1>13, Zenon DEF PurgeMAC
  <2>2. /\ UNCHANGED <<tables, mu, ports, live, removing, lateWrite>>
        /\ macTable' = [macTable EXCEPT ![m] = None]
    BY <1>13, <2>1, Zenon DEF PurgeMAC, Purge, admissionVars
  <2>3. macTable'[m] = None /\ \A x \in MACs : x # m => macTable'[x] = macTable[x]
    BY <1>0, <2>2, Zenon
  <2> QED
    BY <1>3, <1>s, <2>2, <2>3, Zenon
<1>14. ASSUME UNCHANGED <<switchVars, tables, mu>> PROVE Goal
  BY <1>1, <1>2, <1>14, Zenon
<1> HIDE DEF Goal
<1>15. Goal
  BY <1>4, <1>5, <1>6, <1>7, <1>8, <1>9, <1>10, <1>11, <1>12, <1>13, <1>14, QuietSteps,
     TableSteps, ZenonT(30)
<1> QED
  BY <1>15, Zenon DEF Goal

-----------------------------------------------------------------------------
\* An address that is free, for a client that has no session.
LEMMA ExactGrows ==
    ASSUME NEW used, NEW S, NEW addr, Exact(used, S, addr), NEW id, id \notin S,
           NEW a, a \notin used, NEW addr2, addr2[id] = a, \A o \in S : addr2[o] = addr[o]
    PROVE  Exact(used \cup {a}, S \cup {id}, addr2)
<1>1. /\ IsFiniteSet(S) /\ IsFiniteSet(used) /\ Cardinality(used) = Cardinality(S) + 1
      /\ used = {Gateway} \cup {addr[o] : o \in S}
      /\ \A o \in S : addr[o] # Gateway
      /\ \A o, other \in S : addr[o] = addr[other] => o = other
  BY Zenon DEF Exact
<1>2. IsFiniteSet(S \cup {id}) /\ Cardinality(S \cup {id}) = Cardinality(S) + 1
  BY <1>1, FS_AddElement, Zenon
<1>3. IsFiniteSet(used \cup {a}) /\ Cardinality(used \cup {a}) = Cardinality(used) + 1
  BY <1>1, FS_AddElement, Zenon
<1>4. used \cup {a} = {Gateway} \cup {addr2[o] : o \in S \cup {id}}
  <2>1. \A x : x \in used <=> x = Gateway \/ \E o \in S : x = addr[o]
    BY <1>1
  <2> QED
    BY <2>1
<1>5. a # Gateway /\ \A o \in S : addr[o] # a
  BY <1>1
<1>6. \A o \in S \cup {id} : addr2[o] # Gateway
  BY <1>1, <1>5, Zenon
<1>7. \A o, other \in S \cup {id} : addr2[o] = addr2[other] => o = other
  BY <1>1, <1>5, Zenon
<1> QED
  BY <1>1, <1>2, <1>3, <1>4, <1>6, <1>7, Zenon DEF Exact

\* The address of a session that ends.
LEMMA ExactShrinks ==
    ASSUME NEW used, NEW S, NEW addr, Exact(used, S, addr), NEW id \in S,
           NEW addr2, \A o \in S \ {id} : addr2[o] = addr[o]
    PROVE  Exact(used \ {addr[id]}, S \ {id}, addr2)
<1>1. /\ IsFiniteSet(S) /\ IsFiniteSet(used) /\ Cardinality(used) = Cardinality(S) + 1
      /\ used = {Gateway} \cup {addr[o] : o \in S}
      /\ \A o \in S : addr[o] # Gateway
      /\ \A o, other \in S : addr[o] = addr[other] => o = other
  BY Zenon DEF Exact
<1>2. IsFiniteSet(S \ {id}) /\ Cardinality(S \ {id}) = Cardinality(S) - 1
  BY <1>1, FS_RemoveElement, Zenon
<1>3. IsFiniteSet(used \ {addr[id]}) /\ Cardinality(used \ {addr[id]}) = Cardinality(used) - 1
  <2>1. addr[id] \in used
    BY <1>1
  <2> QED
    BY <1>1, <2>1, FS_RemoveElement, Zenon
<1>4. used \ {addr[id]} = {Gateway} \cup {addr2[o] : o \in S \ {id}}
  <2>1. \A x : x \in used <=> x = Gateway \/ \E o \in S : x = addr[o]
    BY <1>1
  <2>2. \A o \in S : addr[o] = addr[id] <=> o = id
    BY <1>1
  <2>3. addr[id] # Gateway
    BY <1>1
  <2> QED
    BY <2>1, <2>2, <2>3
<1>5. Cardinality(S) \in Nat
  BY <1>1, FS_CardinalityType
<1>6. Cardinality(used \ {addr[id]}) = Cardinality(S \ {id}) + 1
  BY <1>1, <1>2, <1>3, <1>5
<1>7. \A o \in S \ {id} : addr2[o] # Gateway
  BY <1>1, Zenon
<1>8. \A o, other \in S \ {id} : addr2[o] = addr2[other] => o = other
  BY <1>1, Zenon
<1> QED
  BY <1>2, <1>3, <1>4, <1>6, <1>7, <1>8, ZenonT(30) DEF Exact

\* An unchanged pool.
LEMMA ExactSame ==
    ASSUME NEW used, NEW S, NEW addr, Exact(used, S, addr), NEW addr2, \A o \in S : addr2[o] = addr[o]
    PROVE  Exact(used, S, addr2)
<1>1. {addr2[o] : o \in S} = {addr[o] : o \in S}
  OBVIOUS
<1> QED
  BY <1>1, Zenon DEF Exact

\* Every step keeps the pools exact.
LEMMA PoolStep ==
    ASSUME TypeOK, CreatorInv, BanInv, PoolInv, [Next]_vars
    PROVE  PoolInv'
<1>s. Sessions \subseteq Clients
  BY Zenon DEF Sessions
<1>v. \A id \in Clients : /\ V4Of[id] = active[id].v4 /\ V4Of'[id] = active'[id].v4
                          /\ V6Of[id] = active[id].v6 /\ V6Of'[id] = active'[id].v6
  BY Zenon DEF V4Of, V6Of
<1>p. Exact(usedV4, Sessions, V4Of) /\ Exact(usedV6, Sessions, V6Of)
  BY Zenon DEF PoolInv
<1> SUFFICES Exact(usedV4', Sessions', V4Of') /\ Exact(usedV6', Sessions', V6Of')
  BY Zenon DEF PoolInv, Exact
<1>1. ASSUME Sessions' = Sessions, UNCHANGED <<usedV4, usedV6>>,
             \A id \in Sessions : active'[id].v4 = active[id].v4 /\ active'[id].v6 = active[id].v6
      PROVE  Exact(usedV4', Sessions', V4Of') /\ Exact(usedV6', Sessions', V6Of')
  <2>1. \A id \in Sessions : V4Of'[id] = V4Of[id] /\ V6Of'[id] = V6Of[id]
    BY <1>1, <1>s, <1>v, Zenon
  <2>2. Exact(usedV4, Sessions, V4Of') /\ Exact(usedV6, Sessions, V6Of')
    BY <1>p, <2>1, ExactSame, Zenon
  <2> QED
    BY <1>1, <2>2, Zenon
<1>2. ASSUME Quiet PROVE Exact(usedV4', Sessions', V4Of') /\ Exact(usedV6', Sessions', V6Of')
  <2>1. UNCHANGED <<active, usedV4, usedV6>>
    BY <1>2, Zenon DEF Quiet, tables
  <2> QED
    BY <1>1, <2>1, Zenon DEF Sessions
<1>3. ASSUME NEW c \in Conns, Joined(c) \/ Left(c)
      PROVE  Exact(usedV4', Sessions', V4Of') /\ Exact(usedV6', Sessions', V6Of')
  <2>1. UNCHANGED <<usedV4, usedV6>>
    BY <1>3, Zenon DEF Joined, Left
  <2>2. /\ Sessions' = Sessions
        /\ \A id \in Sessions : active'[id].v4 = active[id].v4 /\ active'[id].v6 = active[id].v6
    BY <1>3, SessionsCounted, Zenon DEF SameSession, Sessions
  <2> QED
    BY <1>1, <2>1, <2>2, Zenon
<1>4. ASSUME NEW c \in Conns, Created(c)
      PROVE  Exact(usedV4', Sessions', V4Of') /\ Exact(usedV6', Sessions', V6Of')
  <2> DEFINE id == conn[c].id
  <2>1. PICK v4, v6 \in Nat : Gains(c, v4, v6)
    BY <1>4, CreatedFacts, Zenon
  <2>2. /\ Sessions' = Sessions \cup {id} /\ id \notin Sessions
        /\ \A o \in Clients : o # id => active'[o] = active[o]
    BY <1>4, SessionsCreated, Zenon
  <2>3. id \in Clients
    BY <1>4, CreatedFacts, Zenon
  <2>4. active'[id] = Fresh(c, v4, v6)
    BY <2>1, <2>3, Zenon DEF Gains, TypeOK
  <2>5. V4Of'[id] = v4 /\ V6Of'[id] = v6
    <3>1. Fresh(c, v4, v6).v4 = v4 /\ Fresh(c, v4, v6).v6 = v6
      BY Zenon DEF Fresh
    <3> QED
      BY <1>v, <2>3, <2>4, <3>1, Zenon
  <2>6. \A o \in Sessions : V4Of'[o] = V4Of[o] /\ V6Of'[o] = V6Of[o]
    BY <1>s, <1>v, <2>2, ZenonT(30)
  <2>7. /\ v4 \notin usedV4 /\ usedV4' = usedV4 \cup {v4}
        /\ v6 \notin usedV6 /\ usedV6' = usedV6 \cup {v6}
    BY <2>1, Zenon DEF Gains
  <2> HIDE DEF id
  <2>8. Exact(usedV4 \cup {v4}, Sessions \cup {id}, V4Of')
    BY <1>p, <2>2, <2>5, <2>6, <2>7, ExactGrows, Zenon
  <2>9. Exact(usedV6 \cup {v6}, Sessions \cup {id}, V6Of')
    BY <1>p, <2>2, <2>5, <2>6, <2>7, ExactGrows, Zenon
  <2> QED
    BY <2>2, <2>7, <2>8, <2>9, Zenon
<1>5. ASSUME NEW port, Destroyed(port)
      PROVE  Exact(usedV4', Sessions', V4Of') /\ Exact(usedV6', Sessions', V6Of')
  <2>1. /\ port.id \in Sessions /\ Sessions' = Sessions \ {port.id}
        /\ \A id \in Clients : id # port.id => active'[id] = active[id]
    BY <1>5, SessionsDestroyed, Zenon
  <2>2. /\ usedV4' = usedV4 \ {active[port.id].v4}
        /\ usedV6' = usedV6 \ {active[port.id].v6}
    BY <1>5, Zenon DEF Destroyed, Destroy, ReleaseTables
  <2>3. \A o \in Sessions \ {port.id} : V4Of'[o] = V4Of[o] /\ V6Of'[o] = V6Of[o]
    BY <1>s, <1>v, <2>1
  <2>4. active[port.id].v4 = V4Of[port.id] /\ active[port.id].v6 = V6Of[port.id]
    BY <1>s, <1>v, <2>1, Zenon
  <2>5. Exact(usedV4 \ {V4Of[port.id]}, Sessions \ {port.id}, V4Of')
    BY <1>p, <2>1, <2>3, ExactShrinks, Zenon
  <2>6. Exact(usedV6 \ {V6Of[port.id]}, Sessions \ {port.id}, V6Of')
    BY <1>p, <2>1, <2>3, ExactShrinks, Zenon
  <2> QED
    BY <2>1, <2>2, <2>4, <2>5, <2>6, ZenonT(30)
<1> QED
  BY <1>2, <1>3, <1>4, <1>5, TableSteps, Zenon

-----------------------------------------------------------------------------
\* Every step keeps the entry and the binding of a MAC with its latest session.
LEMMA OwnerStep ==
    ASSUME TypeOK, CreatorInv, BanInv, NumberInv, SwitchInv, PoolInv, OwnerInv, [Next]_vars
    PROVE  OwnerInv'
<1> DEFINE Bound(id) == macToIP[MacOf(id)] = [v4 |-> active[id].v4, v6 |-> active[id].v6]
           Mapped(id) == macTable[MacOf(id)] = Registered(PortOf(id))
           Own(id) == active[id].n = latest[MacOf(id)] =>
                         Bound(id) /\ (Mapped(id) \/ (Creating /\ mu.port.id = id))
<1>0. /\ macTable \in [MACs -> EntrySet \cup {None}] /\ macToIP \in [MACs -> BindingSet \cup {None}]
      /\ latest \in [MACs -> Nat] /\ mu \in LockSet \cup {None} /\ learning \in MACs \cup {None}
      /\ created \in Nat /\ removing \in RemovalSet \cup {None}
  BY Zenon DEF TypeOK
<1>i. \A id \in Sessions : id \in Clients /\ active[id] # None /\ MacOf(id) \in MACs
  BY Values, Zenon DEF Sessions
<1>n. \A id \in Sessions : active[id].n \in Nat /\ active[id] \in SessionSet
  BY <1>i, PortFacts, Zenon DEF SessionSet
<1>o. \A id \in Sessions : Own(id)
  BY Zenon DEF OwnerInv
<1>r. \A id \in Sessions : /\ Registered(PortOf(id)).port.id = id /\ Registered(PortOf(id)).static
                           /\ Registered(PortOf(id)) # None
  <2> SUFFICES ASSUME NEW id \in Sessions
               PROVE  /\ Registered(PortOf(id)).port.id = id /\ Registered(PortOf(id)).static
                      /\ Registered(PortOf(id)) # None
    BY Zenon
  <2>1. PortOf(id) \in PortSet /\ PortOf(id).id = id
    BY <1>i, PortFacts, Values, Zenon
  <2>2. Registered(PortOf(id)) \in EntrySet
    BY <2>1, Zenon DEF Registered, EntrySet
  <2>3. Registered(PortOf(id)).port = PortOf(id) /\ Registered(PortOf(id)).static = TRUE
    BY Zenon DEF Registered
  <2> QED
    BY <2>1, <2>2, <2>3, Values, Zenon
<1> SUFFICES \A id \in Sessions' : Own(id)'
  BY Zenon DEF OwnerInv
\* The sessions and their bindings stay; the entries that name them must stay as well.
<1>1. ASSUME UNCHANGED tables,
             \A id \in Sessions : /\ active[id].n = latest[MacOf(id)]
                                  /\ Mapped(id) \/ (Creating /\ mu.port.id = id)
                => \/ macTable'[MacOf(id)] = Registered(PortOf(id))
                   \/ Creating' /\ mu'.port.id = id
      PROVE  \A id \in Sessions' : Own(id)'
  <2>1. active' = active /\ latest' = latest /\ macToIP' = macToIP /\ Sessions' = Sessions
    BY <1>1, Zenon DEF tables, Sessions
  <2>2. \A id \in Sessions : PortOf(id)' = PortOf(id)
    BY <2>1, Zenon DEF PortOf
  <2> QED
    BY <1>1, <1>o, <2>1, <2>2, ZenonT(30)
<1>2. ASSUME UNCHANGED <<tables, mu, macTable>> PROVE \A id \in Sessions' : Own(id)'
  BY <1>1, <1>2, Zenon DEF Creating
<1>3. ASSUME CreateAddsPort PROVE \A id \in Sessions' : Own(id)'
  <2>1. /\ UNCHANGED <<tables, macTable>> /\ mu # None /\ mu' = [mu EXCEPT !.op = "map"]
    BY <1>3, Zenon DEF CreateAddsPort, AddPort
  <2>2. mu' \in LockSet /\ mu'.op = "map" /\ mu'.port = mu.port
    BY <1>0, <2>1, Zenon DEF LockSet
  <2>3. Creating'
    BY <2>2, Values, Zenon DEF Creating
  <2> QED
    BY <1>1, <2>1, <2>2, <2>3, Zenon
<1>4. ASSUME CreateMapsMAC PROVE \A id \in Sessions' : Own(id)'
  <2>1. /\ mu # None /\ mu.op = "map" /\ UNCHANGED tables
        /\ macTable' = [macTable EXCEPT ![MacOf(mu.port.id)] = Registered(ports[mu.port.id])]
    BY <1>4, Zenon DEF CreateMapsMAC, AddStaticMAC
  <2>2. mu.port \in Instances /\ Current(mu.port) /\ mu.port.n = latest[MacOf(mu.port.id)]
    BY <1>0, <2>1, Zenon DEF CreatorInv, Creating, LockSet
  <2>3. mu.port.id \in Sessions /\ mu.port = PortOf(mu.port.id) /\ mu.port.n = active[mu.port.id].n
    BY <2>2, PortFacts, Zenon DEF Sessions
  <2>4. ports[mu.port.id] = PortOf(mu.port.id)
    BY <1>i, <2>1, <2>3, Zenon DEF SwitchInv
  <2>5. \A id \in Sessions : active[id].n = latest[MacOf(id)] /\ id # mu.port.id
                             => MacOf(id) # MacOf(mu.port.id)
    BY <2>2, <2>3, ZenonT(30) DEF NumberInv
  <2>6. macTable'[MacOf(mu.port.id)] = Registered(PortOf(mu.port.id))
    BY <1>0, <1>i, <2>1, <2>3, <2>4, Zenon
  <2>7. \A m \in MACs : m # MacOf(mu.port.id) => macTable'[m] = macTable[m]
    BY <1>0, <2>1, Zenon
  <2>8. \A id \in Sessions : /\ active[id].n = latest[MacOf(id)]
                             /\ Mapped(id) \/ (Creating /\ mu.port.id = id)
           => macTable'[MacOf(id)] = Registered(PortOf(id))
    BY <1>i, <2>5, <2>6, <2>7, Zenon
  <2> QED
    BY <1>1, <2>1, <2>8, Zenon
<1>5. ASSUME DestroyUnmaps PROVE \A id \in Sessions' : Own(id)'
  <2>1. PICK m \in MACs : RemoveShard(m)
    BY <1>5, Zenon DEF DestroyUnmaps
  <2>2. /\ removing # None /\ UNCHANGED <<tables, mu>>
        /\ macTable' = [macTable EXCEPT ![m] = IF OnPort(m, removing.id) THEN None ELSE @]
    BY <1>5, <2>1, Zenon DEF DestroyUnmaps, RemoveShard, admissionVars
  <2>3. active[removing.id] = None
    BY <2>2, Zenon DEF SwitchInv
  <2>4. \A x \in MACs : ~OnPort(x, removing.id) => macTable'[x] = macTable[x]
    BY <1>0, <2>2, Zenon
  <2>5. \A id \in Sessions : Mapped(id) => macTable'[MacOf(id)] = macTable[MacOf(id)]
    <3> SUFFICES ASSUME NEW id \in Sessions, Mapped(id)
                 PROVE  macTable'[MacOf(id)] = macTable[MacOf(id)]
      BY Zenon
    <3>1. macTable[MacOf(id)].port.id = id /\ id # removing.id
      BY <1>i, <1>r, <2>3, Zenon
    <3> QED
      BY <1>i, <2>4, <3>1, Zenon DEF OnPort
  <2> QED
    BY <1>1, <2>2, <2>5, Zenon DEF Creating
<1>6. ASSUME DestroyClosesPort PROVE \A id \in Sessions' : Own(id)'
  <2>1. mu.op = "remove" /\ UNCHANGED <<tables, macTable>>
    BY <1>6, Zenon DEF DestroyClosesPort, ClosePort
  <2>2. ~Creating
    BY <2>1, Zenon DEF Creating
  <2> QED
    BY <1>1, <2>1, <2>2, Zenon
<1>7. ASSUME LearnFrame PROVE \A id \in Sessions' : Own(id)'
  <2>1. UNCHANGED <<tables, mu>>
    BY <1>7, Zenon DEF LearnFrame, admissionVars
  <2>2. CASE macTable' = macTable
    BY <1>2, <2>1, <2>2, Zenon
  <2>3. CASE TapLearns
    <3>1. \A x \in MACs : macTable[x] # None /\ macTable[x].static => macTable'[x] = macTable[x]
      BY <1>0, <2>3, Zenon DEF TapLearns
    <3>2. \A id \in Sessions : Mapped(id) => macTable'[MacOf(id)] = macTable[MacOf(id)]
      BY <1>i, <1>r, <3>1, Zenon
    <3> QED
      BY <1>1, <2>1, <3>2, Zenon DEF Creating
  <2> QED
    BY <1>7, <2>2, <2>3, Zenon DEF LearnFrame, TapReads
<1>8. ASSUME ForwardFrame PROVE \A id \in Sessions' : Own(id)'
  <2>1. UNCHANGED <<tables, mu, macTable>>
    BY <1>8, Zenon DEF ForwardFrame, Flood, Unicast, admissionVars
  <2> QED
    BY <1>2, <2>1, Zenon
<1>9. ASSUME PurgeMAC PROVE \A id \in Sessions' : Own(id)'
  <2>1. PICK m \in MACs : Purge(m)
    BY <1>9, Zenon DEF PurgeMAC
  <2>2. /\ UNCHANGED <<tables, mu>> /\ ~macTable[m].static
        /\ macTable' = [macTable EXCEPT ![m] = None]
    BY <1>9, <2>1, Zenon DEF PurgeMAC, Purge, admissionVars
  <2>3. \A x \in MACs : macTable[x].static => macTable'[x] = macTable[x]
    BY <1>0, <2>2, Zenon
  <2>4. \A id \in Sessions : Mapped(id) => macTable'[MacOf(id)] = macTable[MacOf(id)]
    BY <1>i, <1>r, <2>3, Zenon
  <2> QED
    BY <1>1, <2>2, <2>4, ZenonT(30) DEF Creating
<1>10. ASSUME NEW c \in Conns, Created(c) PROVE \A id \in Sessions' : Own(id)'
  <2> DEFINE new == conn[c].id
             mac == MacOf(new)
  <2>1. /\ mu = None /\ new \in Clients /\ mac \in MACs
        /\ mu' # None /\ mu'.op = "add" /\ mu'.port = NewPort(c) /\ NewPort(c).id = new
        /\ latest' = [latest EXCEPT ![mac] = created + 1]
        /\ UNCHANGED macTable
    BY <1>10, CreatedFacts, Values, Zenon
  <2>2. PICK v4, v6 \in Nat : Gains(c, v4, v6)
    BY <1>10, CreatedFacts, Zenon
  <2>3. /\ Sessions' = Sessions \cup {new} /\ new \notin Sessions
        /\ \A id \in Clients : id # new => active'[id] = active[id]
    BY <1>10, SessionsCreated, Zenon
  <2>4. /\ latest'[mac] = created + 1
        /\ \A m \in MACs : m # mac => latest'[m] = latest[m] /\ macToIP'[m] = macToIP[m]
        /\ macToIP'[mac] = [v4 |-> v4, v6 |-> v6]
    BY <1>0, <2>1, <2>2, Zenon DEF Gains
  <2>5. active'[new] = Fresh(c, v4, v6)
    BY <2>1, <2>2, Zenon DEF Gains, TypeOK
  <2>6. Fresh(c, v4, v6).v4 = v4 /\ Fresh(c, v4, v6).v6 = v6
    BY Zenon DEF Fresh
  <2>7. ASSUME NEW id, id = new PROVE Own(id)'
    <3>1. Creating' /\ mu'.port.id = id
      BY <2>1, <2>7, Zenon DEF Creating
    <3>2. macToIP'[mac] = [v4 |-> active'[new].v4, v6 |-> active'[new].v6]
      BY <2>4, <2>5, <2>6, Zenon
    <3> QED
      BY <2>7, <3>1, <3>2, Zenon
  <2>8. ASSUME NEW id \in Sessions PROVE Own(id)'
    <3>1. id # new /\ active'[id] = active[id] /\ MacOf(id) \in MACs
      BY <1>i, <2>3, Zenon
    <3>2. PortOf(id)' = PortOf(id)
      BY <3>1, Zenon DEF PortOf
    <3>3. CASE MacOf(id) = mac
      <4>1. active[id].n \in Nat /\ active[id].n <= created
        BY <1>n, Zenon DEF NumberInv
      <4>2. active'[id].n # latest'[MacOf(id)]
        BY <1>0, <2>4, <3>1, <3>3, <4>1
      <4> QED
        BY <4>2, Zenon
    <3>4. CASE MacOf(id) # mac
      <4>1. ~Creating
        BY <2>1, Zenon DEF Creating
      <4> QED
        BY <1>o, <2>1, <2>4, <3>1, <3>2, <3>4, <4>1, ZenonT(30)
    <3> QED
      BY <3>3, <3>4, Zenon
  <2> QED
    BY <2>3, <2>7, <2>8, Zenon
<1>11. ASSUME NEW port, Destroyed(port) PROVE \A id \in Sessions' : Own(id)'
  <2>1. /\ mu = None /\ UNCHANGED <<macTable, latest>>
        /\ macToIP' = [macToIP EXCEPT ![MacOf(port.id)] =
                          IF @ # None /\ @.v4 = active[port.id].v4 THEN None ELSE @]
    BY <1>11, Zenon DEF Destroyed, Destroy, ReleaseTables, RemoveBegin
  <2>2. /\ port.id \in Sessions /\ Sessions' = Sessions \ {port.id}
        /\ \A id \in Clients : id # port.id => active'[id] = active[id]
    BY <1>11, SessionsDestroyed, Zenon
  <2>3. \A m \in MACs : macToIP[m].v4 # active[port.id].v4 => macToIP'[m] = macToIP[m]
    BY <1>0, <2>1, Zenon
  <2>4. \A id \in Sessions : id # port.id => active[id].v4 # active[port.id].v4
    BY <1>i, <2>2, Zenon DEF PoolInv, Exact, V4Of
  <2>5. ~Creating
    BY <2>1, Zenon DEF Creating
  <2>6. ASSUME NEW id \in Sessions, id # port.id PROVE Own(id)'
    <3>1. active'[id] = active[id] /\ MacOf(id) \in MACs
      BY <1>i, <2>2, <2>6, Zenon
    <3>2. PortOf(id)' = PortOf(id)
      BY <3>1, Zenon DEF PortOf
    <3>3. Bound(id) => macToIP[MacOf(id)].v4 = active[id].v4
      OBVIOUS
    <3>4. Bound(id) => macToIP'[MacOf(id)] = macToIP[MacOf(id)]
      BY <2>3, <2>4, <2>6, <3>1, <3>3, Zenon
    <3> QED
      BY <1>o, <2>1, <2>5, <3>1, <3>2, <3>4, Zenon
  <2> QED
    BY <2>2, <2>6, Zenon
<1>12. ASSUME NEW c \in Conns, Joined(c) \/ Left(c) PROVE \A id \in Sessions' : Own(id)'
  <2>1. UNCHANGED <<macTable, mu, macToIP, latest>>
    BY <1>12, Zenon DEF Joined, Left, switchVars
  <2>2. Sessions' = Sessions /\ \A id \in Sessions : SameSession(id)
    BY <1>12, <1>i, SessionsCounted, Zenon
  <2>3. ASSUME NEW id \in Sessions PROVE Own(id)'
    <3>1. /\ active'[id].n = active[id].n /\ active'[id].v4 = active[id].v4
          /\ active'[id].v6 = active[id].v6
      BY <1>i, <2>2, Zenon DEF SameSession
    <3>2. PortOf(id)' = PortOf(id)
      BY <3>1, Zenon DEF PortOf
    <3> QED
      BY <1>o, <2>1, <3>1, <3>2, Zenon DEF Creating
  <2> QED
    BY <2>2, <2>3, Zenon
<1>13. ASSUME UNCHANGED <<switchVars, tables, mu>> PROVE \A id \in Sessions' : Own(id)'
  BY <1>2, <1>13, Zenon DEF switchVars
<1> HIDE DEF Own
<1> QED
  BY <1>3, <1>4, <1>5, <1>6, <1>7, <1>8, <1>9, <1>10, <1>11, <1>12, <1>13, QuietSteps, TableSteps,
     ZenonT(30)

-----------------------------------------------------------------------------
\* Only the operator changes the bans and the operator's own state.
LEMMA OperatorSteps ==
    ASSUME [Next]_vars, ~LookUp, ~KickSession, ~CloseKicked,
           \A id \in Clients : ~Ban(id) /\ ~Unban(id) /\ ~Kick(id)
    PROVE  UNCHANGED <<operator, banned>>
<1>1. ASSUME NEW c \in Conns, Handshake(c) PROVE UNCHANGED <<operator, banned>>
  BY <1>1, Zenon DEF Handshake, Authenticate, Resume, Create, Cleanup
<1>2. ASSUME NEW port, TimerFires(port) \/ TimerCallback(port) PROVE UNCHANGED <<operator, banned>>
  BY <1>2, Zenon DEF TimerFires, TimerCallback, Destroy
<1>3. ASSUME \/ \E key \in PSKs, limit \in SessionLimits, b \in BOOLEAN : ApplyConfig(key, limit, b)
             \/ \E c \in Conns : CloseReconnect(c)
      PROVE  UNCHANGED <<operator, banned>>
  BY <1>3, Zenon DEF ApplyConfig, CloseReconnect
<1>4. ASSUME \/ CreateAddsPort \/ CreateMapsMAC \/ DestroyUnmaps \/ DestroyClosesPort
             \/ LearnFrame \/ ForwardFrame \/ PurgeMAC \/ UNCHANGED vars
      PROVE  UNCHANGED <<operator, banned>>
  BY <1>4, Zenon DEF CreateAddsPort, CreateMapsMAC, DestroyUnmaps, DestroyClosesPort, LearnFrame,
     ForwardFrame, PurgeMAC, vars, admissionVars
<1> QED
  BY <1>1, <1>2, <1>3, <1>4, Zenon DEF Next, Operate

\* What the operator's steps do to its state; only KickSession touches the sessions.
LEMMA OperatorMoves ==
    ASSUME TypeOK, BanInv
    PROVE  /\ \A id \in Clients : Ban(id) \/ Kick(id) =>
                 /\ operator.pc = "idle" /\ operator'.pc = "lookup" /\ operator'.id = id
                 /\ UNCHANGED active
           /\ LookUp => /\ operator.pc = "lookup" /\ operator.id \in Clients
                        /\ UNCHANGED <<active, banned>>
                        /\ \/ active[operator.id] = None /\ operator' = NoOperator
                           \/ /\ active[operator.id] # None /\ operator'.pc = "kick"
                              /\ operator'.id = operator.id
                              /\ operator'.port = PortOf(operator.id)
           /\ KickSession => /\ operator.pc = "kick" /\ operator.port \in Instances
                             /\ UNCHANGED banned
                             /\ \/ /\ ~Current(operator.port) /\ operator' = NoOperator
                                   /\ UNCHANGED active
                                \/ /\ Destroyed(operator.port)
                                   /\ operator'.pc = "close" /\ operator'.port = operator.port
                                   /\ operator'.closing = Registry(operator.port)
           /\ CloseKicked => /\ operator.pc = "close" /\ operator' = NoOperator
                             /\ UNCHANGED <<active, banned>>
<1>0. operator \in OperatorSet
  BY Zenon DEF TypeOK
<1>1. ASSUME NEW id \in Clients, Ban(id) \/ Kick(id)
      PROVE  /\ operator.pc = "idle" /\ operator'.pc = "lookup" /\ operator'.id = id
             /\ UNCHANGED active
  <2>1. operator' = [NoOperator EXCEPT !.pc = "lookup", !.id = id]
    BY <1>1, Zenon DEF Ban, Kick
  <2>2. operator'.pc = "lookup" /\ operator'.id = id
    BY <2>1 DEF NoOperator
  <2> QED
    BY <1>1, <2>2, Zenon DEF Ban, Kick, tables
<1>2. ASSUME LookUp
      PROVE  /\ operator.pc = "lookup" /\ operator.id \in Clients /\ UNCHANGED <<active, banned>>
             /\ \/ active[operator.id] = None /\ operator' = NoOperator
                \/ /\ active[operator.id] # None /\ operator'.pc = "kick"
                   /\ operator'.id = operator.id /\ operator'.port = PortOf(operator.id)
  <2>1. /\ operator.pc = "lookup" /\ operator.id \in Clients /\ UNCHANGED <<active, banned>>
    BY <1>2, Zenon DEF LookUp, BanInv, tables
  <2>2. CASE active[operator.id] = None
    BY <1>2, <2>1, <2>2, Zenon DEF LookUp
  <2>3. CASE active[operator.id] # None
    <3>1. operator' = [operator EXCEPT !.pc = "kick", !.port = PortOf(operator.id)]
      BY <1>2, <2>3, Zenon DEF LookUp
    <3>2. /\ operator'.pc = "kick" /\ operator'.id = operator.id
          /\ operator'.port = PortOf(operator.id)
      BY <1>0, <3>1 DEF OperatorSet
    <3> QED
      BY <2>1, <2>3, <3>2, Zenon
  <2> QED
    BY <2>2, <2>3, Zenon
<1>3. ASSUME KickSession
      PROVE  /\ operator.pc = "kick" /\ operator.port \in Instances /\ UNCHANGED banned
             /\ \/ /\ ~Current(operator.port) /\ operator' = NoOperator /\ UNCHANGED active
                \/ /\ Destroyed(operator.port)
                   /\ operator'.pc = "close" /\ operator'.port = operator.port
                   /\ operator'.closing = Registry(operator.port)
  <2>1. /\ operator.pc = "kick" /\ operator.port \in Instances /\ UNCHANGED banned /\ mu = None
    BY <1>0, <1>3, Zenon DEF KickSession, BanInv, OperatorSet, Destroy
  <2>2. CASE Current(operator.port)
    <3>1. /\ operator' = [operator EXCEPT !.pc = "close", !.closing = Registry(operator.port)]
          /\ Destroy(operator.port) /\ UNCHANGED conn
      BY <1>3, <2>2, Zenon DEF KickSession
    <3>2. /\ operator'.pc = "close" /\ operator'.port = operator.port
          /\ operator'.closing = Registry(operator.port)
      BY <1>0, <3>1 DEF OperatorSet
    <3>3. Destroyed(operator.port)
      BY <2>1, <2>2, <3>1, Zenon DEF Destroyed
    <3> QED
      BY <2>1, <3>2, <3>3, Zenon
  <2>3. CASE ~Current(operator.port)
    BY <1>3, <2>1, <2>3, Zenon DEF KickSession, tables
  <2> QED
    BY <2>2, <2>3, Zenon
<1>4. ASSUME CloseKicked
      PROVE  operator.pc = "close" /\ operator' = NoOperator /\ UNCHANGED <<active, banned>>
  BY <1>4, Zenon DEF CloseKicked, tables
<1> QED
  BY <1>1, <1>2, <1>3, <1>4, Zenon

\* Every step keeps the operator about to end the session of a client it banned.
LEMMA BanStep ==
    ASSUME TypeOK, CreatorInv, BanInv, [Next]_vars
    PROVE  BanInv'
<1> DEFINE Ending(id) == /\ operator.id = id
                         /\ operator.pc = "lookup" \/ (operator.pc = "kick" /\ operator.port = PortOf(id))
           Ok(id) == active[id].despiteBan \/ Ending(id)
           Op == /\ operator.pc = "lookup" => operator.id \in Clients
                 /\ operator.pc \in {"kick", "close"} => operator.port # None
<1>0. Op /\ \A id \in Sessions \cap banned : Ok(id)
  BY Zenon DEF BanInv
<1>i. \A id \in Sessions : id \in Clients /\ active[id] # None
  BY Zenon DEF Sessions
<1> SUFFICES Op' /\ \A id \in (Sessions \cap banned)' : Ok(id)'
  BY Zenon DEF BanInv
<1> DEFINE Goal == Op' /\ \A id \in (Sessions \cap banned)' : Ok(id)'
\* The operator does nothing.
<1>1. ASSUME UNCHANGED <<operator, banned>> PROVE Goal
  <2>1. Op'
    BY <1>0, <1>1, Zenon
  <2>2. ASSUME NEW id \in Sessions \cap banned, SameSession(id) PROVE Ok(id)'
    <3>1. PortOf(id)' = PortOf(id) /\ active'[id].despiteBan = active[id].despiteBan
      BY <1>i, <2>2, Zenon DEF SameSession, PortOf
    <3> QED
      BY <1>0, <1>1, <2>2, <3>1, Zenon
  <2>3. ASSUME Quiet PROVE Goal
    <3>1. active' = active /\ Sessions' = Sessions
      BY <2>3, Zenon DEF Quiet, tables, Sessions
    <3> QED
      BY <1>1, <2>1, <2>2, <3>1, Zenon DEF SameSession
  <2>4. ASSUME NEW c \in Conns, Joined(c) \/ Left(c) PROVE Goal
    <3>1. Sessions' = Sessions /\ \A id \in Sessions : SameSession(id)
      BY <1>i, <2>4, SessionsCounted, Zenon
    <3> QED
      BY <1>1, <2>1, <2>2, <3>1, Zenon
  <2>5. ASSUME NEW c \in Conns, Created(c) PROVE Goal
    <3>1. /\ Sessions' = Sessions \cup {conn[c].id} /\ conn[c].id \notin Sessions
          /\ \A id \in Clients : id # conn[c].id => active'[id] = active[id]
          /\ active'[conn[c].id].despiteBan = (conn[c].id \in banned)
      BY <2>5, SessionsCreated, Zenon
    <3>2. \A id \in Sessions : SameSession(id)
      BY <1>i, <3>1, Zenon DEF SameSession
    <3>3. ASSUME NEW id \in banned, id = conn[c].id PROVE Ok(id)'
      BY <3>1, <3>3, Zenon
    <3> QED
      BY <1>1, <2>1, <2>2, <3>1, <3>2, <3>3, ZenonT(30)
  <2>6. ASSUME NEW port, Destroyed(port) PROVE Goal
    <3>1. Sessions' \subseteq Sessions /\ \A id \in Sessions' : SameSession(id)
      BY <1>i, <2>6, SessionsDestroyed, Zenon DEF SameSession
    <3> QED
      BY <1>1, <2>1, <2>2, <3>1, Zenon
  <2> HIDE DEF Goal
  <2> QED
    BY <2>3, <2>4, <2>5, <2>6, TableSteps, Zenon
<1>2. ASSUME NEW id \in Clients, Ban(id) PROVE Goal
  <2>1. /\ operator.pc = "idle" /\ operator'.pc = "lookup" /\ operator'.id = id
        /\ active' = active /\ banned' = banned \cup {id}
    BY <1>2, OperatorMoves, Zenon DEF Ban
  <2>2. \A other \in Sessions \cap banned : active[other].despiteBan
    BY <1>0, <2>1, Zenon
  <2>3. Sessions' = Sessions
    BY <2>1, Zenon DEF Sessions
  <2> QED
    BY <2>1, <2>2, <2>3, Zenon
<1>3. ASSUME NEW id \in Clients, Kick(id) PROVE Goal
  <2>1. /\ operator.pc = "idle" /\ operator'.pc = "lookup" /\ operator'.id = id
        /\ active' = active /\ banned' = banned
    BY <1>3, OperatorMoves, Zenon DEF Kick
  <2>2. \A other \in Sessions \cap banned : active[other].despiteBan
    BY <1>0, <2>1, Zenon
  <2>3. Sessions' = Sessions
    BY <2>1, Zenon DEF Sessions
  <2> QED
    BY <2>1, <2>2, <2>3, Zenon
<1>4. ASSUME NEW id \in Clients, Unban(id) PROVE Goal
  <2>1. operator' = operator /\ active' = active /\ banned' \subseteq banned
    BY <1>4, Zenon DEF Unban, tables
  <2>2. Sessions' = Sessions
    BY <2>1, Zenon DEF Sessions
  <2> QED
    BY <1>0, <2>1, <2>2, Zenon DEF PortOf
<1>5. ASSUME operator' = NoOperator, active' = active, banned' = banned,
             \A id \in Sessions \cap banned : active[id].despiteBan
      PROVE  Goal
  <2>1. NoOperator.pc = "idle"
    BY Zenon DEF NoOperator
  <2>2. Sessions' = Sessions
    BY <1>5, Zenon DEF Sessions
  <2> QED
    BY <1>5, <2>1, <2>2, Zenon
<1>6. ASSUME LookUp PROVE Goal
  <2>1. /\ operator.pc = "lookup" /\ operator.id \in Clients /\ UNCHANGED <<active, banned>>
        /\ \/ active[operator.id] = None /\ operator' = NoOperator
           \/ /\ active[operator.id] # None /\ operator'.pc = "kick"
              /\ operator'.id = operator.id /\ operator'.port = PortOf(operator.id)
    BY <1>6, OperatorMoves, Zenon
  <2>2. CASE active[operator.id] = None /\ operator' = NoOperator
    <3>1. \A id \in Sessions \cap banned : active[id].despiteBan
      BY <1>0, <1>i, <2>2, Zenon
    <3> QED
      BY <1>5, <2>1, <2>2, <3>1, Zenon
  <2>3. CASE /\ active[operator.id] # None /\ operator'.pc = "kick"
             /\ operator'.id = operator.id /\ operator'.port = PortOf(operator.id)
    <3>1. operator'.port # None
      BY <2>1, <2>3, PortFacts, Values, Zenon
    <3>2. Sessions' = Sessions /\ \A id \in Clients : PortOf(id)' = PortOf(id)
      BY <2>1, Zenon DEF Sessions, PortOf
    <3>3. \A id \in Sessions \cap banned : active[id].despiteBan \/ operator.id = id
      BY <1>0, Zenon
    <3>4. \A id \in Sessions \cap banned : Ok(id)'
      BY <1>i, <2>1, <2>3, <3>2, <3>3, Zenon
    <3> QED
      BY <2>1, <2>3, <3>1, <3>2, <3>4, Zenon
  <2> QED
    BY <2>1, <2>2, <2>3, Zenon
<1>7. ASSUME KickSession PROVE Goal
  <2>1. /\ operator.pc = "kick" /\ operator.port \in Instances /\ UNCHANGED banned
        /\ \/ /\ ~Current(operator.port) /\ operator' = NoOperator /\ UNCHANGED active
           \/ /\ Destroyed(operator.port)
              /\ operator'.pc = "close" /\ operator'.port = operator.port
    BY <1>7, OperatorMoves, Zenon
  <2>2. \A id \in Sessions \cap banned : active[id].despiteBan \/ operator.port = PortOf(id)
    BY <1>0, <2>1, Zenon
  <2>3. CASE ~Current(operator.port) /\ operator' = NoOperator /\ UNCHANGED active
    <3>1. \A id \in Sessions \cap banned : active[id].despiteBan
      BY <1>i, <2>1, <2>2, <2>3, PortFacts
    <3> QED
      BY <1>5, <2>1, <2>3, <3>1, ZenonT(30)
  <2>4. CASE /\ Destroyed(operator.port)
             /\ operator'.pc = "close" /\ operator'.port = operator.port
    <3>1. /\ Sessions' = Sessions \ {operator.port.id} /\ operator.port.id \in Sessions
          /\ \A id \in Clients : id # operator.port.id => active'[id] = active[id]
      BY <2>4, SessionsDestroyed, Zenon
    <3>2. \A id \in (Sessions \cap banned)' : active'[id].despiteBan
      <4> SUFFICES ASSUME NEW id \in Sessions, id \in banned, id # operator.port.id
                   PROVE  active'[id].despiteBan
        BY <2>1, <3>1, Zenon
      <4>1. PortOf(id).id = id /\ active'[id] = active[id]
        BY <1>i, <3>1, PortFacts, Zenon
      <4> QED
        BY <2>2, <4>1, Zenon
    <3>3. operator'.port # None
      BY <2>1, <2>4, Values, Zenon
    <3> QED
      BY <2>4, <3>2, <3>3, Zenon
  <2> QED
    BY <2>1, <2>3, <2>4, Zenon
<1>8. ASSUME CloseKicked PROVE Goal
  <2>1. operator.pc = "close" /\ operator' = NoOperator /\ UNCHANGED <<active, banned>>
    BY <1>8, OperatorMoves, Zenon
  <2>2. \A id \in Sessions \cap banned : active[id].despiteBan
    BY <1>0, <2>1, Zenon
  <2> QED
    BY <1>5, <2>1, <2>2, Zenon
<1> HIDE DEF Goal
<1>9. Goal
  BY <1>1, <1>2, <1>3, <1>4, <1>6, <1>7, <1>8, OperatorSteps, ZenonT(30)
<1> QED
  BY <1>9, Zenon DEF Goal

-----------------------------------------------------------------------------
\* The session with this port, after the step.
StillCurrent(port) == active'[port.id] # None /\ active'[port.id].n = port.n

\* A step that changes no session takes a port only from a handler whose session has ended.
LEMMA QuietPorts ==
    ASSUME TypeOK, CreatorInv, Quiet
    PROVE  \A c \in Conns :
              \/ conn'[c].port = conn[c].port
              \/ conn'[c].port = None /\ ~Current(conn[c].port)
<1>0. conn \in [Conns -> ConnSet]
  BY Zenon DEF TypeOK
<1>n. NoConn.port = None
  BY Zenon DEF NoConn
<1>1. ASSUME NEW c \in Conns, Released(c)
      PROVE  \A d \in Conns : \/ conn'[d].port = conn[d].port
                              \/ conn'[d].port = None /\ ~Current(conn[d].port)
  <2>1. /\ mu = None
        /\ conn[c].pc # "admitted" => ~Current(conn[c].port)
        /\ conn'[c].port = None /\ \A d \in Conns : d # c => conn'[d] = conn[d]
    BY <1>0, <1>1, <1>n, Zenon DEF Released
  <2>2. conn[c].pc = "admitted" => conn[c].port = None
    BY <2>1, Zenon DEF CreatorInv, Creating
  <2> QED
    BY <2>1, <2>2, Zenon
<1>2. ASSUME NEW c \in Conns, NEW id, Admitted(c, id)
      PROVE  \A d \in Conns : conn'[d].port = conn[d].port
  <2>1. conn'[c].port = None /\ \A d \in Conns : d # c => conn'[d] = conn[d]
    BY <1>0, <1>2 DEF Admitted
  <2>2. conn[c].port = None
    BY <1>2, Zenon DEF Admitted, CreatorInv
  <2> QED
    BY <2>1, <2>2, Zenon
<1>3. ASSUME \/ CreateMapsMAC \/ Closes
             \/ \E key \in PSKs, limit \in SessionLimits, b \in BOOLEAN : ApplyConfig(key, limit, b)
      PROVE  \A d \in Conns : conn'[d].port = conn[d].port
  BY <1>0, <1>3 DEF CreateMapsMAC, Step, Closes, CloseKicked, CloseReconnect, ApplyConfig, ConnSet
<1> QED
  BY <1>1, <1>2, <1>3, Zenon DEF Quiet

\* Every step keeps the number of connections of each session.
LEMMA HoldersStep ==
    ASSUME TypeOK, CreatorInv, BanInv, NumberInv, ServeInv, [Next]_vars
    PROVE  (\A id \in Sessions : active[id].conns = Cardinality(Holders(PortOf(id))))'
<1> DEFINE After(port) == {c \in Conns : conn'[c].port = port}
           PortAfter(id) == [id |-> id, n |-> active'[id].n]
<1>0. conn \in [Conns -> ConnSet] /\ created \in Nat
  BY Zenon DEF TypeOK
<1>i. \A id \in Sessions : /\ id \in Clients /\ active[id] # None /\ PortOf(id).id = id
                           /\ PortOf(id).n = active[id].n /\ PortOf(id) # None /\ Current(PortOf(id))
  BY PortFacts, Values, Zenon DEF Sessions
<1>c. \A id \in Sessions : active[id].conns = Cardinality(Holders(PortOf(id)))
  BY Zenon DEF ServeInv
<1>f. \A port : IsFiniteSet(Holders(port))
  <2>1. \A port : Holders(port) \subseteq Conns
    BY Zenon DEF Holders
  <2> QED
    BY <2>1, AdmissionAssumption, FS_Subset, Zenon
<1> SUFFICES \A id \in Sessions' : active'[id].conns = Cardinality(After(PortAfter(id)))
  BY Zenon DEF Holders, PortOf
<1>1. ASSUME NEW id \in Sessions, active'[id].n = active[id].n, active'[id].conns = active[id].conns,
             \A c \in Conns : conn'[c].port = PortOf(id) <=> conn[c].port = PortOf(id)
      PROVE  active'[id].conns = Cardinality(After(PortAfter(id)))
  <2>1. PortAfter(id) = PortOf(id)
    BY <1>1, Zenon DEF PortOf
  <2>2. After(PortOf(id)) = Holders(PortOf(id))
    BY <1>1, Zenon DEF Holders
  <2> QED
    BY <1>1, <1>c, <2>1, <2>2, Zenon
<1>2. ASSUME Quiet PROVE \A id \in Sessions' : active'[id].conns = Cardinality(After(PortAfter(id)))
  <2>1. active' = active /\ Sessions' = Sessions
    BY <1>2, Zenon DEF Quiet, tables, Sessions
  <2>2. \A id \in Sessions, c \in Conns : conn'[c].port = PortOf(id) <=> conn[c].port = PortOf(id)
    BY <1>2, <1>i, QuietPorts, Zenon
  <2> QED
    BY <1>1, <2>1, <2>2, Zenon
<1>3. ASSUME NEW c \in Conns, Created(c)
      PROVE  \A id \in Sessions' : active'[id].conns = Cardinality(After(PortAfter(id)))
  <2>1. /\ conn' = [conn EXCEPT ![c].port = NewPort(c)] /\ conn[c].port = None
        /\ NewPort(c).n = created + 1
    BY <1>3, CreatedFacts, Zenon
  <2>2. /\ Sessions' = Sessions \cup {conn[c].id} /\ conn[c].id \notin Sessions
        /\ \A id \in Clients : id # conn[c].id => active'[id] = active[id]
        /\ active'[conn[c].id].n = created + 1 /\ active'[conn[c].id].conns = 1
    BY <1>3, SessionsCreated, Zenon
  <2>3. conn'[c].port = NewPort(c) /\ \A d \in Conns : d # c => conn'[d] = conn[d]
    BY <1>0, <2>1 DEF ConnSet
  <2>4. \A d \in Conns : conn[d].port # NewPort(c)
    <3> SUFFICES ASSUME NEW d \in Conns, conn[d].port = NewPort(c) PROVE FALSE
      BY Zenon
    <3>1. NewPort(c) # None
      BY <1>3, CreatedFacts, Values, ZenonT(30)
    <3>2. created + 1 <= created
      BY <2>1, <3>1, Zenon DEF NumberInv
    <3> QED
      BY <1>0, <3>2
  <2>5. ASSUME NEW id \in Sessions PROVE active'[id].conns = Cardinality(After(PortAfter(id)))
    <3>1. active'[id] = active[id]
      BY <1>i, <2>2, Zenon
    <3>2. PortOf(id) # NewPort(c)
      <4>1. active[id].n <= created /\ active[id].n \in Nat
        BY <1>i, PortFacts, Zenon DEF NumberInv, SessionSet
      <4> QED
        BY <1>0, <1>i, <2>1, <4>1
    <3>3. \A d \in Conns : conn'[d].port = PortOf(id) <=> conn[d].port = PortOf(id)
      BY <1>i, <2>1, <2>3, <3>2, Zenon
    <3> QED
      BY <1>1, <3>1, <3>3, Zenon
  <2>6. active'[conn[c].id].conns = Cardinality(After(PortAfter(conn[c].id)))
    <3>1. PortAfter(conn[c].id) = NewPort(c)
      BY <2>2, Zenon DEF NewPort
    <3>2. After(NewPort(c)) = {c}
      BY <2>3, <2>4, Zenon
    <3>3. Cardinality({c}) = 1
      BY FS_Singleton, Zenon
    <3> QED
      BY <2>2, <3>1, <3>2, <3>3, Zenon
  <2> QED
    BY <2>2, <2>5, <2>6, Zenon
<1>4. ASSUME NEW c \in Conns, Joined(c) \/ Left(c)
      PROVE  \A id \in Sessions' : active'[id].conns = Cardinality(After(PortAfter(id)))
  <2>1. Sessions' = Sessions /\ \A id \in Sessions : active'[id].n = active[id].n
    BY <1>4, SessionsCounted, Zenon DEF SameSession, Sessions
  <2>2. \A id \in Sessions : PortAfter(id) = PortOf(id)
    BY <2>1, Zenon DEF PortOf
  <2>3. CASE Joined(c)
    <3>1. conn[c].id \in Sessions /\ conn[c].port = None
      BY <2>3, Zenon DEF Joined, CreatorInv, Creating, Sessions
    <3>2. conn'[c].port = PortOf(conn[c].id) /\ \A d \in Conns : d # c => conn'[d] = conn[d]
      BY <1>0, <2>3, ZenonT(30) DEF Joined, ConnSet
    <3>3. ASSUME NEW id \in Sessions, id # conn[c].id
          PROVE  active'[id].conns = Cardinality(After(PortAfter(id)))
      <4>1. active'[id] = active[id]
        BY <1>i, <2>3, <3>3, ZenonT(30) DEF Joined, TypeOK
      <4>2. \A d \in Conns : conn'[d].port = PortOf(id) <=> conn[d].port = PortOf(id)
        BY <1>i, <3>1, <3>2, <3>3
      <4> QED
        BY <1>1, <4>1, <4>2, Zenon
    <3>4. ASSUME NEW id \in Sessions, id = conn[c].id
          PROVE  active'[id].conns = Cardinality(After(PortAfter(id)))
      <4>1. active'[id].conns = active[id].conns + 1
        <5>1. active[id] \in SessionSet /\ active'[id] = [active[id] EXCEPT !.conns = @ + 1]
          BY <1>i, <2>3, <3>4, PortFacts, ZenonT(30) DEF Joined, TypeOK
        <5> QED
          BY <5>1 DEF SessionSet
      <4>2. After(PortOf(id)) = Holders(PortOf(id)) \cup {c}
        BY <3>2, <3>4, Zenon DEF Holders
      <4>3. c \notin Holders(PortOf(id))
        BY <1>i, <3>1, ZenonT(30) DEF Holders
      <4>4. Cardinality(Holders(PortOf(id)) \cup {c}) = Cardinality(Holders(PortOf(id))) + 1
        BY <1>f, <4>3, FS_AddElement, ZenonT(30)
      <4> QED
        BY <1>c, <2>2, <4>1, <4>2, <4>4, ZenonT(30)
    <3> QED
      BY <2>1, <3>3, <3>4, ZenonT(30)
  <2>4. CASE Left(c)
    <3> DEFINE port == conn[c].port
    <3>1. port \in Instances /\ Current(port)
      BY <2>4, ZenonT(30) DEF Left, CreatorInv, TypeOK, ConnSet
    <3>2. port.id \in Sessions /\ port = PortOf(port.id)
      BY <3>1, PortFacts, Zenon DEF Sessions
    <3>3. conn'[c].port = None /\ \A d \in Conns : d # c => conn'[d] = conn[d]
      <4>1. NoConn.port = None
        BY Zenon DEF NoConn
      <4> QED
        BY <1>0, <2>4, <4>1, Zenon DEF Left
    <3>4. active' = [active EXCEPT ![port.id].conns = @ - 1]
      BY <2>4, ZenonT(30) DEF Left
    <3> HIDE DEF port
    <3>5. ASSUME NEW id \in Sessions, id # port.id
          PROVE  active'[id].conns = Cardinality(After(PortAfter(id)))
      <4>1. active'[id] = active[id]
        BY <1>i, <3>4, <3>5, ZenonT(30) DEF TypeOK
      <4>2. port # PortOf(id)
        BY <1>i, <3>5
      <4>3. \A d \in Conns : conn'[d].port = PortOf(id) <=> conn[d].port = PortOf(id)
        BY <1>i, <3>3, <4>2, ZenonT(30) DEF port
      <4> QED
        BY <1>1, <4>1, <4>3, Zenon
    <3>6. ASSUME NEW id \in Sessions, id = port.id
          PROVE  active'[id].conns = Cardinality(After(PortAfter(id)))
      <4>1. active'[id].conns = active[id].conns - 1
        <5>1. active[id] \in SessionSet /\ active'[id] = [active[id] EXCEPT !.conns = @ - 1]
          BY <1>i, <3>4, <3>6, PortFacts, ZenonT(30) DEF TypeOK
        <5> QED
          BY <5>1 DEF SessionSet
      <4>2. After(PortOf(id)) = Holders(PortOf(id)) \ {c}
        BY <1>i, <3>3 DEF Holders
      <4>3. c \in Holders(PortOf(id))
        BY <3>2, <3>6, Zenon DEF Holders, port
      <4>4. Cardinality(Holders(PortOf(id)) \ {c}) = Cardinality(Holders(PortOf(id))) - 1
        BY <1>f, <4>3, FS_RemoveElement, Zenon
      <4> QED
        BY <1>c, <2>2, <4>1, <4>2, <4>4, ZenonT(30)
    <3> QED
      BY <2>1, <3>5, <3>6, ZenonT(30)
  <2> QED
    BY <1>4, <2>3, <2>4, Zenon
<1>5. ASSUME NEW port, Destroyed(port)
      PROVE  \A id \in Sessions' : active'[id].conns = Cardinality(After(PortAfter(id)))
  <2>1. conn' = conn
    BY <1>5, Zenon DEF Destroyed
  <2>2. Sessions' \subseteq Sessions /\ \A id \in Sessions' : active'[id] = active[id]
    BY <1>5, <1>i, SessionsDestroyed, ZenonT(30)
  <2> QED
    BY <1>1, <2>1, <2>2, Zenon
<1> QED
  BY <1>2, <1>3, <1>4, <1>5, TableSteps, Zenon

\* A port becomes current only as a new one, and ceases to be when its session is destroyed.
LEMMA CurrentAfter ==
    ASSUME TypeOK, CreatorInv, BanInv, [Next]_vars, NEW p \in Instances
    PROVE  /\ ~Current(p) /\ p.n <= created => ~StillCurrent(p)
           /\ Current(p) => StillCurrent(p) \/ Destroyed(p)
<1> DEFINE Goal == /\ ~Current(p) /\ p.n <= created => ~StillCurrent(p)
                   /\ Current(p) => StillCurrent(p) \/ Destroyed(p)
<1>0. p.id \in Clients /\ p.n \in Nat /\ created \in Nat
  BY PortFacts, Zenon DEF TypeOK
<1>1. ASSUME Quiet PROVE Goal
  BY <1>1, Zenon DEF Quiet, tables, Current, StillCurrent
<1>2. ASSUME NEW c \in Conns, Created(c) PROVE Goal
  <2>1. /\ conn[c].id \notin Sessions /\ active'[conn[c].id].n = created + 1
        /\ \A id \in Clients : id # conn[c].id => active'[id] = active[id]
    BY <1>2, SessionsCreated, Zenon
  <2>2. CASE p.id = conn[c].id
    <3>1. ~Current(p)
      BY <1>0, <2>1, <2>2, ZenonT(30) DEF Current, Sessions
    <3>2. p.n <= created => active'[p.id].n # p.n
      BY <1>0, <2>1, <2>2
    <3> QED
      BY <3>1, <3>2, Zenon DEF StillCurrent
  <2>3. CASE p.id # conn[c].id
    BY <1>0, <2>1, <2>3, ZenonT(30) DEF Current, StillCurrent
  <2> QED
    BY <2>2, <2>3, Zenon
<1>3. ASSUME NEW c \in Conns, Joined(c) \/ Left(c) PROVE Goal
  <2>1. SameSession(p.id)
    BY <1>0, <1>3, SessionsCounted, Zenon
  <2> QED
    BY <2>1, Zenon DEF SameSession, Current, StillCurrent
<1>4. ASSUME NEW port, Destroyed(port) PROVE Goal
  <2>1. /\ port = PortOf(port.id) /\ active'[port.id] = None
        /\ \A id \in Clients : id # port.id => active'[id] = active[id]
    BY <1>4, SessionsDestroyed, Zenon
  <2>2. CASE p.id = port.id
    <3>1. ~StillCurrent(p)
      BY <2>1, <2>2, Zenon DEF StillCurrent
    <3>2. Current(p) => p = port
      BY <2>1, <2>2, PortFacts, Zenon
    <3> QED
      BY <1>4, <3>1, <3>2, Zenon
  <2>3. CASE p.id # port.id
    BY <1>0, <2>1, <2>3, Zenon DEF Current, StillCurrent
  <2> QED
    BY <2>2, <2>3, Zenon
<1> HIDE DEF Goal
<1>5. Goal
  BY <1>1, <1>2, <1>3, <1>4, TableSteps, Zenon
<1> QED
  BY <1>5, Zenon DEF Goal

\* A connection that serves after a step did so before, or has just been given a current port.
LEMMA ServingAfter ==
    ASSUME TypeOK, CreatorInv, BanInv, [Next]_vars, NEW c \in Conns, conn'[c].pc = "serving"
    PROVE  \/ /\ conn[c].pc = "serving" /\ conn'[c] = conn[c]
              /\ CloseKicked => ~(c \in operator.closing /\ conn[c].port = operator.port)
           \/ StillCurrent(conn'[c].port)
<1> DEFINE Stays == /\ conn[c].pc = "serving" /\ conn'[c] = conn[c]
                    /\ CloseKicked => ~(c \in operator.closing /\ conn[c].port = operator.port)
<1>0. conn \in [Conns -> ConnSet]
  BY Zenon DEF TypeOK
<1>1. ASSUME CloseKicked PROVE Stays
  <2>1. conn'[c] = IF c \in operator.closing /\ conn[c].port = operator.port
                   THEN [conn[c] EXCEPT !.pc = "closed"] ELSE conn[c]
    BY <1>1, Zenon DEF CloseKicked
  <2>2. [conn[c] EXCEPT !.pc = "closed"].pc # "serving"
    BY <1>0 DEF ConnSet
  <2> QED
    BY <2>1, <2>2, Zenon
<1>2. ASSUME conn' = conn PROVE Stays
  BY <1>1, <1>2, Zenon
<1>3. ASSUME NEW d \in Conns, conn'[d].pc # "serving", \A x \in Conns : x # d => conn'[x] = conn[x]
      PROVE  Stays
  <2>1. conn[c].pc = "serving" /\ conn'[c] = conn[c]
    BY <1>3, Zenon
  <2> QED
    BY <1>1, <2>1, Zenon
<1>n. NoConn.pc = "none"
  BY Zenon DEF NoConn
<1>4. ASSUME NEW d \in Conns, Released(d) PROVE Stays
  <2>1. conn'[d] = NoConn /\ \A x \in Conns : x # d => conn'[x] = conn[x]
    BY <1>0, <1>4, Zenon DEF Released
  <2> QED
    BY <1>3, <1>n, <2>1, ZenonT(30)
<1>5. ASSUME NEW d \in Conns, NEW id, Admitted(d, id) PROVE Stays
  <2>1. conn'[d].pc = "admitted" /\ \A x \in Conns : x # d => conn'[x] = conn[x]
    BY <1>0, <1>5 DEF Admitted
  <2> QED
    BY <1>3, <2>1, ZenonT(30)
<1>6. ASSUME NEW key, NEW limit, NEW b, ApplyConfig(key, limit, b) PROVE Stays
  <2>1. conn'[c] = IF b /\ conn[c].pc = "serving" /\ Current(conn[c].port)
                   THEN [conn[c] EXCEPT !.pc = "reconnect"] ELSE conn[c]
    BY <1>6, Zenon DEF ApplyConfig
  <2>2. [conn[c] EXCEPT !.pc = "reconnect"].pc # "serving"
    BY <1>0 DEF ConnSet
  <2> QED
    BY <1>1, <2>1, <2>2, Zenon
<1>14. ASSUME NEW d \in Conns, CloseReconnect(d) PROVE Stays
  <2>1. conn'[d].pc = "closed" /\ \A x \in Conns : x # d => conn'[x] = conn[x]
    BY <1>0, <1>14 DEF CloseReconnect, Step, ConnSet
  <2> QED
    BY <1>3, <2>1, ZenonT(30)
<1>7. ASSUME CreateMapsMAC PROVE Stays \/ StillCurrent(conn'[c].port)
  <2>1. /\ mu # None /\ mu.op = "map" /\ active' = active
        /\ conn' = [conn EXCEPT ![mu.conn].pc = "serving"]
    BY <1>7, Zenon DEF CreateMapsMAC, Step, tables
  <2>2. mu.conn \in Conns /\ conn[mu.conn].port = mu.port /\ Current(mu.port)
    BY <2>1, Zenon DEF CreatorInv, Creating
  <2>3. CASE c = mu.conn
    <3>1. conn'[c].port = mu.port
      BY <1>0, <2>1, <2>2, <2>3 DEF ConnSet
    <3> QED
      BY <2>1, <2>2, <3>1, ZenonT(30) DEF Current, StillCurrent
  <2>4. CASE c # mu.conn
    BY <1>0, <1>1, <2>1, <2>4, ZenonT(30)
  <2> QED
    BY <2>3, <2>4, Zenon
<1>8. ASSUME Quiet PROVE Stays \/ StillCurrent(conn'[c].port)
  BY <1>1, <1>2, <1>4, <1>5, <1>6, <1>7, <1>8, <1>14, ZenonT(30) DEF Quiet, Closes
<1>9. ASSUME NEW d \in Conns, Created(d) PROVE Stays
  <2>1. conn[d].pc = "admitted" /\ conn' = [conn EXCEPT ![d].port = NewPort(d)]
    BY <1>9, CreatedFacts, Zenon
  <2>2. conn'[d].pc = "admitted" /\ \A x \in Conns : x # d => conn'[x] = conn[x]
    BY <1>0, <2>1 DEF ConnSet
  <2> QED
    BY <1>3, <2>2, Zenon
<1>10. ASSUME NEW d \in Conns, Joined(d) PROVE Stays \/ StillCurrent(conn'[c].port)
  <2>1. /\ conn'[d].port = PortOf(conn[d].id) /\ \A x \in Conns : x # d => conn'[x] = conn[x]
    BY <1>0, <1>10 DEF Joined, ConnSet
  <2>2. conn[d].id \in Clients /\ active[conn[d].id] # None
    BY <1>10, Zenon DEF Joined, CreatorInv
  <2>3. SameSession(conn[d].id)
    BY <1>10, <2>2, SessionsCounted, Zenon
  <2>4. StillCurrent(PortOf(conn[d].id))
    BY <2>2, <2>3, PortFacts, ZenonT(30) DEF SameSession, StillCurrent
  <2> QED
    BY <1>1, <2>1, <2>4, ZenonT(30)
<1>11. ASSUME NEW d \in Conns, Left(d) PROVE Stays
  <2>1. conn'[d] = NoConn /\ \A x \in Conns : x # d => conn'[x] = conn[x]
    BY <1>0, <1>11, Zenon DEF Left
  <2> QED
    BY <1>3, <1>n, <2>1, Zenon
<1>12. ASSUME NEW port, Destroyed(port) PROVE Stays
  BY <1>2, <1>12, Zenon DEF Destroyed
<1> HIDE DEF Stays
<1>13. Stays \/ StillCurrent(conn'[c].port)
  BY <1>8, <1>9, <1>10, <1>11, <1>12, TableSteps, ZenonT(30)
<1> QED
  BY <1>13, Zenon DEF Stays

\* Every step keeps the connections that serve with a current session, or collected.
LEMMA ServeStep ==
    ASSUME TypeOK, CreatorInv, BanInv, NumberInv, ServeInv, [Next]_vars
    PROVE  ServeInv'
<1>0. conn \in [Conns -> ConnSet] /\ operator \in OperatorSet
  BY Zenon DEF TypeOK
<1>n. NoOperator.pc = "idle"
  BY Zenon DEF NoOperator
\* While the collected connections wait, the operator does nothing else.
<1>1. operator.pc = "close" => operator' = operator \/ CloseKicked
  <2> SUFFICES ASSUME operator.pc = "close", ~CloseKicked PROVE operator' = operator
    BY Zenon
  <2>1. ~LookUp /\ ~KickSession /\ \A id \in Clients : ~Ban(id) /\ ~Kick(id)
    BY Zenon DEF LookUp, KickSession, Ban, Kick
  <2>2. ASSUME NEW id \in Clients, Unban(id) PROVE operator' = operator
    BY <2>2, Zenon DEF Unban
  <2> QED
    BY <2>1, <2>2, OperatorSteps, Zenon
<1>2. operator'.pc = "close" => ~StillCurrent(operator'.port)
  <2> SUFFICES ASSUME operator'.pc = "close" PROVE ~StillCurrent(operator'.port)
    BY Zenon
  <2>1. CASE operator' = operator
    <3>1. operator.port # None /\ ~Current(operator.port) /\ operator.port.n <= created
      BY <2>1, Zenon DEF ServeInv, BanInv, NumberInv
    <3>2. operator.port \in Instances
      BY <1>0, <3>1, Zenon DEF OperatorSet
    <3> QED
      BY <2>1, <3>1, <3>2, CurrentAfter, ZenonT(30)
  <2>2. CASE KickSession
    <3>1. Destroyed(operator.port) /\ operator'.port = operator.port
      BY <1>n, <2>2, OperatorMoves, Zenon
    <3>2. active'[operator.port.id] = None
      BY <3>1, SessionsDestroyed, Zenon
    <3> QED
      BY <3>1, <3>2, Zenon DEF StillCurrent
  <2>3. ~LookUp
    <3> SUFFICES ASSUME LookUp PROVE FALSE
      BY Zenon
    <3>1. operator'.pc \in {"kick", "idle"}
      BY <1>n, OperatorMoves, Zenon
    <3> QED
      BY <3>1, Zenon
  <2>4. ~CloseKicked
    BY <1>n, OperatorMoves, Zenon
  <2>5. \A id \in Clients : ~Ban(id) /\ ~Kick(id)
    BY OperatorMoves, Zenon
  <2>6. ASSUME NEW id \in Clients, Unban(id) PROVE operator' = operator
    BY <2>6, Zenon DEF Unban
  <2> QED
    BY <2>1, <2>2, <2>3, <2>4, <2>5, <2>6, OperatorSteps, ZenonT(30)
<1>3. ASSUME NEW c \in Conns, conn'[c].pc = "serving"
      PROVE  \/ StillCurrent(conn'[c].port)
             \/ /\ operator'.pc = "close" /\ c \in operator'.closing
                /\ conn'[c].port = operator'.port
  <2> SUFFICES ASSUME /\ conn[c].pc = "serving" /\ conn'[c] = conn[c]
                      /\ CloseKicked => ~(c \in operator.closing /\ conn[c].port = operator.port)
               PROVE  \/ StillCurrent(conn[c].port)
                      \/ /\ operator'.pc = "close" /\ c \in operator'.closing
                         /\ conn[c].port = operator'.port
    BY <1>3, ServingAfter, Zenon
  <2>1. conn[c].port \in Instances
    BY <1>0, Zenon DEF CreatorInv, ConnSet
  <2>2. CASE operator.pc = "close" /\ c \in operator.closing /\ conn[c].port = operator.port
    BY <1>1, <2>2, Zenon
  <2>3. CASE Destroyed(conn[c].port)
    <3> DEFINE port == conn[c].port
    <3>1. c \in Holders(port) /\ IsFiniteSet(Holders(port))
      <4>1. Holders(port) \subseteq Conns /\ c \in Holders(port)
        BY Zenon DEF Holders
      <4> QED
        BY <4>1, AdmissionAssumption, FS_Subset, Zenon
    <3>2. Cardinality(Holders(port)) # 0
      BY <3>1, FS_EmptySet
    <3>3. port.id \in Sessions /\ port = PortOf(port.id)
      BY <2>3, SessionsDestroyed, Zenon
    <3>4. active[port.id].conns # 0
      BY <3>2, <3>3, Zenon DEF ServeInv
    <3>5. /\ operator.port = port
          /\ operator' = [operator EXCEPT !.pc = "close", !.closing = Registry(operator.port)]
      BY <2>3, <3>4, Zenon DEF Destroyed
    <3>6. /\ operator'.pc = "close" /\ operator'.port = operator.port
          /\ operator'.closing = Registry(operator.port)
      BY <1>0, <3>5 DEF OperatorSet
    <3>7. c \in Registry(port)
      BY Zenon DEF Registry
    <3> QED
      BY <3>5, <3>6, <3>7, Zenon
  <2> QED
    BY <2>1, <2>2, <2>3, CurrentAfter, ZenonT(30) DEF ServeInv
<1> QED
  BY <1>2, <1>3, HoldersStep, ZenonT(30) DEF ServeInv, StillCurrent, Current

-----------------------------------------------------------------------------
(***************************************************************************)
(* The inductive invariant.                                                *)
(***************************************************************************)
AdmissionInv ==
    /\ TypeOK /\ NumberInv /\ CreatorInv /\ SwitchInv /\ OwnerInv /\ PoolInv /\ BanInv /\ ServeInv

\* No client is connected yet, and only the TAP port exists.
LEMMA Initially == Init => AdmissionInv
<1> SUFFICES ASSUME Init PROVE AdmissionInv
  BY Zenon
<1>1. TypeOK
  <2>1. Gateway \in Nat /\ TapPort \in PortSet
    BY Values DEF Gateway
  <2>2. /\ ports \in [Clients \cup {Tap} -> PortSet \cup {None}] /\ live \subseteq Instances
        /\ macTable \in [MACs -> EntrySet \cup {None}] /\ learning \in MACs \cup {None}
        /\ removing \in RemovalSet \cup {None}
    BY <2>1 DEF Init, SwitchInit
  <2>3. NoConn \in ConnSet
    BY DEF NoConn, ConnSet
  <2>4. NoOperator \in OperatorSet
    BY DEF NoOperator, OperatorSet
  <2>5. /\ timers \in [armed : SUBSET Instances, fired : SUBSET Instances]
        /\ created \in Nat /\ latest \in [MACs -> Nat]
    BY DEF Init
  <2> QED
    BY <2>1, <2>2, <2>3, <2>4, <2>5, ZenonT(30) DEF Init, TypeOK
<1>2. Sessions = {}
  BY Zenon DEF Init, Sessions
<1>n. NoConn.port = None /\ NoConn.pc = "none" /\ NoOperator.port = None /\ NoOperator.pc = "idle"
  BY Zenon DEF NoConn, NoOperator
<1>3. \A c \in Conns : conn[c] = NoConn
  BY Zenon DEF Init
<1>4. NumberInv
  BY <1>2, <1>3, <1>n, Zenon DEF NumberInv, Init
<1>5. CreatorInv
  BY <1>3, <1>n, Zenon DEF CreatorInv, Creating, Init
<1>6. SwitchInv
  <2>1. ports[Tap] = TapPort /\ \A id \in Clients : ports[id] = None /\ active[id] = None
    BY Values, Zenon DEF Init, SwitchInit
  <2>2. \A m \in MACs : macTable[m] = None
    BY Zenon DEF Init, SwitchInit
  <2>3. removing = None /\ mu = None /\ ~lateWrite
    BY Zenon DEF Init, SwitchInit
  <2> QED
    BY <2>1, <2>2, <2>3, ZenonT(30) DEF SwitchInv
<1>7. OwnerInv
  BY <1>2, Zenon DEF OwnerInv
<1>8. PoolInv
  <2>1. IsFiniteSet({}) /\ Cardinality({}) = 0 /\ IsFiniteSet({Gateway}) /\ Cardinality({Gateway}) = 1
    BY FS_EmptySet, FS_Singleton, Zenon
  <2>2. \A addr : {addr[id] : id \in {}} = {}
    OBVIOUS
  <2>3. \A addr : Exact({Gateway}, {}, addr)
    BY <2>1, <2>2 DEF Exact
  <2> QED
    BY <1>2, <2>3, Zenon DEF Init, PoolInv
<1>9. BanInv
  BY <1>2, <1>n, Zenon DEF BanInv, Init
<1>10. ServeInv
  BY <1>2, <1>3, <1>n, ZenonT(30) DEF ServeInv, Init
<1> QED
  BY <1>1, <1>4, <1>5, <1>6, <1>7, <1>8, <1>9, <1>10, ZenonT(30) DEF AdmissionInv

\* It holds in every reachable state.
LEMMA AdmissionIsSound == Spec => []AdmissionInv
<1>1. AdmissionInv /\ [Next]_vars => AdmissionInv'
  BY TypeStep, NumberStep, CreatorStep, SwitchStep, OwnerStep, PoolStep, BanStep, ServeStep,
     ZenonT(30) DEF AdmissionInv
<1> QED
  BY Initially, <1>1, PTL DEF Spec

-----------------------------------------------------------------------------
(***************************************************************************)
(* Neither the port table nor a MAC entry leads to a closed port, and no   *)
(* frame is written to one: RemovePort precedes Port.Close, and writes are *)
(* made inside the table's locks.                                          *)
(***************************************************************************)
THEOREM TablesLeadToOpenPorts == Spec => []NoClosedPort
<1>1. AdmissionInv => NoClosedPort
  BY ZenonT(30) DEF AdmissionInv, SwitchInv, NoClosedPort, Closed
<1> QED
  BY <1>1, AdmissionIsSound, PTL

(***************************************************************************)
(* The latest session of a MAC keeps its static entry and its addresses,   *)
(* whatever older sessions of the same MAC are removed meanwhile.          *)
(***************************************************************************)
THEOREM MACsHaveTheirOwner == Spec => []LatestOwnsMAC
<1>1. AdmissionInv => LatestOwnsMAC
  <2> SUFFICES ASSUME AdmissionInv, NEW id \in Sessions, active[id].n = latest[MacOf(id)],
                      mu = None \/ mu.port # PortOf(id)
               PROVE  /\ macTable[MacOf(id)] = Registered(PortOf(id))
                      /\ macToIP[MacOf(id)] = [v4 |-> active[id].v4, v6 |-> active[id].v6]
    BY Zenon DEF LatestOwnsMAC
  <2>1. ~(Creating /\ mu.port.id = id)
    <3> SUFFICES ASSUME Creating, mu.port.id = id PROVE FALSE
      BY Zenon
    <3>1. mu # None /\ mu.port \in Instances /\ Current(mu.port)
      BY ZenonT(30) DEF AdmissionInv, TypeOK, LockSet, CreatorInv, Creating
    <3> QED
      BY <3>1, PortFacts, Zenon DEF AdmissionInv
  <2> QED
    BY <2>1, Zenon DEF AdmissionInv, OwnerInv
<1> QED
  BY <1>1, AdmissionIsSound, PTL

(***************************************************************************)
(* The address pools hold the gateway and exactly the addresses of the     *)
(* sessions, each used once, for any networks and any refusals.            *)
(***************************************************************************)
THEOREM PoolsAreExact == Spec => []AddressesExact
<1>1. AdmissionInv => AddressesExact
  <2> SUFFICES ASSUME AdmissionInv PROVE AddressesExact
    BY Zenon
  <2>1. /\ {V4Of[id] : id \in Sessions} = {active[id].v4 : id \in Sessions}
        /\ {V6Of[id] : id \in Sessions} = {active[id].v6 : id \in Sessions}
    BY DEF V4Of, V6Of, Sessions
  <2> QED
    BY <2>1, Zenon DEF AdmissionInv, PoolInv, Exact, AddressesExact
<1> QED
  BY <1>1, AdmissionIsSound, PTL

(***************************************************************************)
(* Once Ban has returned, the client has no session, except one whose      *)
(* handshake had passed the ban check before.                              *)
(***************************************************************************)
THEOREM BansTakeEffect == Spec => []BannedIsOffline
<1>1. AdmissionInv => BannedIsOffline
  BY ZenonT(30) DEF AdmissionInv, BanInv, BannedIsOffline
<1> QED
  BY <1>1, AdmissionIsSound, PTL

(***************************************************************************)
(* A connection that serves belongs to the current session of its client,  *)
(* or is going to be closed by the kick that destroyed the session.        *)
(***************************************************************************)
THEOREM NoConnectionIsOrphaned == Spec => []NoOrphanConn
<1>1. AdmissionInv => NoOrphanConn
  BY Zenon DEF AdmissionInv, ServeInv, NoOrphanConn
<1> QED
  BY <1>1, AdmissionIsSound, PTL
=============================================================================
