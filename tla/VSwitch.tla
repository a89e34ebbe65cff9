------------------------------ MODULE VSwitch ------------------------------
(***************************************************************************)
(* The server's virtual switch (server.go): the port table under portsMu,  *)
(* the MAC table under its shard locks, and processFrame as run by the TAP *)
(* reader and by the receive goroutine of every session.  One action is    *)
(* one critical section.                                                   *)
(*                                                                         *)
(* A port is an instance [id, n]: a client that comes back gets a new      *)
(* AsyncPort under its old identity.  Every MAC has a shard of its own, a  *)
(* refinement of the code's hash into 16 shards.  Time is abstract: a      *)
(* learned entry may be due for refresh or for the purge whenever it is    *)
(* looked at.  The flood budgets, which only decide whether a broadcast    *)
(* frame is dropped, are left out.                                         *)
(*                                                                         *)
(* A session always registers a MAC (isValidMACString), so only the TAP    *)
(* reader learns, and an entry always caches its port: AddPort precedes    *)
(* AddStaticMAC.  Hence sendToPort and sendOwnedToPort, the lookups for    *)
(* entries without one, are not reached.  A session's frame with a foreign *)
(* source MAC is dropped and changes nothing.                              *)
(***************************************************************************)
EXTENDS Integers, FiniteSets

CONSTANTS
    MACs,          \* unicast addresses
    Tap,           \* tapPortID, the trusted port
    Clients,       \* identities of session ports
    None           \* absent table entry

\* What the tables hold; None is none of it.
PortSet == [id : Clients \cup {Tap}, n : Nat]
EntrySet == [port : PortSet, static : BOOLEAN]
RemovalSet == [id : Clients, shards : SUBSET MACs]

ASSUME VSwitchAssumption ==
    /\ Tap \notin Clients
    /\ None \notin MACs \cup PortSet \cup EntrySet \cup RemovalSet

VARIABLES
    ports,         \* vs.ports: identity -> port
    macTable,      \* the shards: MAC -> entry
    learning,      \* the MAC the TAP reader has decided to learn, or None
    removing,      \* the RemovePort call in progress: its identity and the tables left, or None
    live,          \* session ports that are not closed
    lateWrite      \* history: some frame was written to a closed port

switchVars == <<ports, macTable, learning, removing, live, lateWrite>>

TapPort == [id |-> Tap, n |-> 0]
Learned(port) == [port |-> port, static |-> FALSE]
Registered(port) == [port |-> port, static |-> TRUE]

\* NewVSwitch, and the TAP port that runServer adds before it listens.
SwitchInit ==
    /\ ports = [id \in Clients \cup {Tap} |-> IF id = Tap THEN TapPort ELSE None]
    /\ macTable = [m \in MACs |-> None]
    /\ live = {}
    /\ learning = None /\ removing = None
    /\ lateWrite = FALSE

Closed(port) == port # TapPort /\ port \notin live

-----------------------------------------------------------------------------
(* The table's operations, called with s.mu held (see Admission).          *)

AddPort(port) ==
    /\ ports' = [ports EXCEPT ![port.id] = port]
    /\ live' = live \cup {port}
    /\ UNCHANGED <<macTable, learning, removing, lateWrite>>

AddStaticMAC(id, mac) ==
    /\ macTable' = [macTable EXCEPT ![mac] = Registered(ports[id])]
    /\ UNCHANGED <<ports, learning, removing, live, lateWrite>>

\* RemovePort, first critical section: the port table.
RemoveBegin(id) ==
    /\ ports' = [ports EXCEPT ![id] = None]
    /\ removing' = [id |-> id, shards |-> MACs]
    /\ UNCHANGED <<macTable, learning, live, lateWrite>>

OnPort(m, id) == macTable[m] # None /\ macTable[m].port.id = id

\* RemovePort, then one shard after the other.
RemoveShard(m) ==
    /\ removing # None /\ m \in removing.shards
    /\ macTable' = [macTable EXCEPT ![m] = IF OnPort(m, removing.id) THEN None ELSE @]
    /\ removing' = [removing EXCEPT !.shards = @ \ {m}]
    /\ UNCHANGED <<ports, learning, live, lateWrite>>

Removed(id) == removing # None /\ removing.id = id /\ removing.shards = {}

\* RemovePort returned, and session.Port.Close() follows.
ClosePort(port) ==
    /\ Removed(port.id)
    /\ live' = live \ {port}
    /\ removing' = None
    /\ UNCHANGED <<ports, macTable, learning, lateWrite>>

\* purgeExpiredMACsAt, in the shard of m.
Purge(m) ==
    /\ macTable[m] # None /\ ~macTable[m].static
    /\ macTable' = [macTable EXCEPT ![m] = None]
    /\ UNCHANGED <<ports, learning, removing, live, lateWrite>>

-----------------------------------------------------------------------------
(* processFrame.                                                           *)

\* A frame of the TAP device with source m: needUpdate is decided under the shard's read lock.
\* A static entry is left alone, a learned one is refreshed when it is old enough.
TapReads(m) ==
    /\ learning = None
    /\ macTable[m] # None => ~macTable[m].static
    /\ learning' = m
    /\ UNCHANGED <<ports, macTable, removing, live, lateWrite>>

\* Mutant: the decision made under the read lock is acted on without a second look.
TapLearnsUnchecked ==
    /\ learning # None
    /\ macTable' = [macTable EXCEPT ![learning] = Learned(ports[Tap])]
    /\ learning' = None
    /\ UNCHANGED <<ports, removing, live, lateWrite>>

\* The entry is written under portsMu and the shard's lock, unless it has become static.
TapLearns ==
    /\ learning # None
    /\ macTable' = [macTable EXCEPT ![learning] = IF @ # None /\ @.static THEN @ ELSE Learned(ports[Tap])]
    /\ learning' = None
    /\ UNCHANGED <<ports, removing, live, lateWrite>>

\* Writing to some ports; a closed one is remembered.
Writes(targets) == lateWrite' = (lateWrite \/ \E p \in targets : Closed(p))

\* Unicast to a known address, written inside the destination shard's read lock.
Unicast(id, dst) ==
    /\ macTable[dst] # None
    /\ Writes({p \in {macTable[dst].port} : p.id # id})
    /\ UNCHANGED <<ports, macTable, learning, removing, live>>

\* flood, unless allowFlood found no token: a write to every other port under portsMu.
Flood(id) ==
    /\ Writes({ports[i] : i \in {j \in DOMAIN ports : j # id /\ ports[j] # None}})
    /\ UNCHANGED <<ports, macTable, learning, removing, live>>
=============================================================================
