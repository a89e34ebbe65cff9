------------------------------ MODULE Session ------------------------------
(***************************************************************************)
(* The life of one client's logical session: the server's side of the      *)
(* handshake (handleConnection in server.go), its two-phase resume tokens, *)
(* key epochs and 120 s retention, and the client's side (dialAndServe in  *)
(* client.go) with the state file a restarted process resumes from.        *)
(*                                                                         *)
(* Several physical connections of the client handshake and die            *)
(* independently.  A key is <<session, epoch>>: the salts are drawn anew   *)
(* exactly when a session is created or its epoch rotates.  The client's   *)
(* data sequence is abstracted to the run it belongs to: a run starts at 1 *)
(* with every AsyncPort.ResetEpoch and with every process.                 *)
(***************************************************************************)
EXTENDS Integers, FiniteSets

CONSTANTS
    Conns,        \* slots for physical connections
    Fec,          \* FEC is negotiated
    Encrypt,      \* inner encryption is negotiated: responses carry salts
    KillAnytime,  \* the process may be killed between storing a response and saving it
    MaxActive,    \* maxConnectionsPerIP
    MaxSid,       \* bound: sessions created
    MaxEpoch,     \* bound: epochs of one session
    MaxFaults,    \* bound: kicks, exhausted sequences and process restarts
    MaxSent       \* bound: sends the history tells apart

ASSUME SessionAssumption ==
    /\ {Fec, Encrypt, KillAnytime} \subseteq BOOLEAN
    /\ {MaxActive, MaxSid, MaxEpoch, MaxFaults, MaxSent} \subseteq Nat
    /\ MaxActive > 0
    /\ IsFiniteSet(Conns)

VARIABLES
    sess,         \* the server's session of this client, or NoSession
    firing,       \* sessions whose retention timer fired, its callback still to lock s.mu
    handler,      \* the server's handler of each connection
    wire,         \* the handshake message in flight on each connection
    conn,         \* the client's goroutine for each connection
    client,       \* the client process
    disk,         \* its state file
    fresh,        \* counters of the random identities drawn so far
    faults,       \* kicks, exhaustions and restarts so far
    issued,       \* history: the response of every handshake, with the instance it went to
    used,         \* history: the <<key, run>> pairs data was sent under
    late          \* history: a response was applied, or saved, after a newer one

vars == <<sess, firing, handler, wire, conn, client, disk, fresh, faults, issued, used, late>>

NoSession == [sid |-> 0, instance |-> 0, epoch |-> 0, token |-> 0, pending |-> 0,
              active |-> 0, timer |-> FALSE]

Nothing == [kind |-> "none"]

NoIdentity == [sid |-> 0, epoch |-> 0, token |-> 0]

NoHandler == [serving |-> FALSE, sid |-> 0, epoch |-> 0]

Idle == [pc |-> "idle", resp |-> NoIdentity, cut |-> FALSE]

Init ==
    /\ sess = NoSession
    /\ firing = {}
    /\ handler = [c \in Conns |-> NoHandler]
    /\ wire = [c \in Conns |-> Nothing]
    /\ conn = [c \in Conns |-> Idle]
    /\ client = [instance |-> 1, id |-> NoIdentity, salt |-> <<>>, run |-> 1]
    /\ disk = NoIdentity
    /\ fresh = [sid |-> 0, token |-> 0, instance |-> 1]
    /\ faults = 0
    /\ issued = {}
    /\ used = {}
    /\ late = FALSE

-----------------------------------------------------------------------------
(***************************************************************************)
(* The client.                                                             *)
(***************************************************************************)
\* refreshSessionStateFromDisk: take over a newer epoch of the same session.
Refreshed(id) ==
    IF disk.sid = id.sid /\ disk.sid # 0 /\ disk.token # 0 /\ disk.epoch >= id.epoch
    THEN disk ELSE id

Dial(c) ==
    /\ conn[c].pc = "idle" /\ wire[c] = Nothing /\ ~handler[c].serving
    /\ client' = [client EXCEPT !.id = Refreshed(@)]
    /\ wire' = [wire EXCEPT ![c] = [kind |-> "request", instance |-> client.instance,
                                    token |-> client'.id.token]]
    /\ conn' = [conn EXCEPT ![c].pc = "waiting"]
    /\ UNCHANGED <<sess, firing, handler, disk, fresh, faults, issued, used, late>>

ReadResponse(c) ==
    /\ conn[c].pc = "waiting" /\ wire[c].kind = "response"
    /\ conn' = [conn EXCEPT ![c].pc = "read", ![c].resp = wire[c].id]
    /\ wire' = [wire EXCEPT ![c] = Nothing]
    /\ UNCHANGED <<sess, firing, handler, client, disk, fresh, faults, issued, used, late>>

Key(id) == <<id.sid, id.epoch>>

\* resp.EncSalt: empty when there is no inner AEAD.
Salt(id) == IF Encrypt THEN Key(id) ELSE <<0, 0>>

\* An earlier session, or an earlier epoch of the same one.
Older(id, than) == id.sid < than.sid \/ (id.sid = than.sid /\ id.epoch < than.epoch)

\* A run that neither is under way nor has left a trace.
NextRun ==
    CHOOSE n \in 1..(MaxSent + 2) : n # client.run /\ \A u \in used : n # u[2]

(***************************************************************************)
(* The response is applied under sessionMu.  With FEC, the port restarts   *)
(* its sequence there, if the salt is new to this client; without FEC it   *)
(* does so after sessionMu is released, if the session or epoch was new.   *)
(***************************************************************************)
Apply(c) ==
    LET resp   == conn[c].resp
        isNew  == Key(client.id) # Key(resp)
        resets == Fec /\ client.salt # Salt(resp)
    IN  /\ conn[c].pc = "read"
        /\ client' = [client EXCEPT !.id = resp,
                                    !.salt = IF resets THEN Salt(resp) ELSE @,
                                    !.run = IF resets THEN NextRun ELSE @]
        /\ conn' = [conn EXCEPT ![c].pc = IF isNew /\ ~Fec THEN "resetting" ELSE "applied"]
        /\ late' = (late \/ Older(resp, client.id))
        /\ UNCHANGED <<sess, firing, handler, wire, disk, fresh, faults, issued, used>>

ResetEpoch(c) ==
    /\ conn[c].pc = "resetting"
    /\ client' = [client EXCEPT !.run = NextRun]
    /\ conn' = [conn EXCEPT ![c].pc = "applied"]
    /\ UNCHANGED <<sess, firing, handler, wire, disk, fresh, faults, issued, used, late>>

(***************************************************************************)
(* persistSessionState, then the connection registers as a backend.  The   *)
(* response is compared with the client's memory under sessionMu, and with *)
(* the file under stateMu, after sessionMu was released.                   *)
(***************************************************************************)
CheckCurrent(c) ==
    /\ conn[c].pc = "applied"
    /\ conn' = [conn EXCEPT ![c].pc = IF client.id = conn[c].resp THEN "saving" ELSE "up"]
    /\ UNCHANGED <<sess, firing, handler, wire, client, disk, fresh, faults, issued, used, late>>

Outdated(resp) ==
    /\ disk.sid = resp.sid
    /\ disk.epoch > resp.epoch \/ (disk.epoch = resp.epoch /\ disk.token \notin {0, resp.token})

Persist(c) ==
    /\ conn[c].pc = "saving"
    /\ disk' = IF Outdated(conn[c].resp) THEN disk ELSE conn[c].resp
    /\ late' = (late \/ Older(disk', disk))
    /\ conn' = [conn EXCEPT ![c].pc = "up"]
    /\ UNCHANGED <<sess, firing, handler, wire, client, fresh, faults, issued, used>>

\* A batch leaves on connection c, sealed with the key c was given at its handshake.
Send(c) ==
    /\ conn[c].pc = "up" /\ ~conn[c].cut
    /\ Cardinality(used) < MaxSent
    /\ used' = used \cup {<<Key(conn[c].resp), client.run>>}
    /\ UNCHANGED <<sess, firing, handler, wire, conn, client, disk, fresh, faults, issued, late>>

\* What is left on a connection whose client end is closed: a request may still arrive.
Unsent(c) == IF wire[c].kind = "response" THEN Nothing ELSE wire[c]

\* The client's end fails: during the handshake, or later in one of its loops.
Break(c) ==
    /\ conn[c].pc \in {"waiting", "up"}
    /\ conn' = [conn EXCEPT ![c] = Idle]
    /\ wire' = [wire EXCEPT ![c] = Unsent(c)]
    /\ UNCHANGED <<sess, firing, handler, client, disk, fresh, faults, issued, used, late>>

(***************************************************************************)
(* The exhausted handler: a new instance identity, then ForceReconnect.  A *)
(* goroutine that is processing a response finds its connection cut later. *)
(***************************************************************************)
ClientExhausted ==
    /\ faults < MaxFaults
    /\ faults' = faults + 1
    /\ fresh' = [fresh EXCEPT !.instance = @ + 1]
    /\ client' = [client EXCEPT !.instance = fresh'.instance]
    /\ conn' = [c \in Conns |-> IF conn[c].pc \in {"waiting", "up"}
                                THEN Idle ELSE [conn[c] EXCEPT !.cut = conn[c].pc # "idle"]]
    /\ wire' = [c \in Conns |-> Unsent(c)]
    /\ UNCHANGED <<sess, firing, handler, disk, issued, used, late>>

\* No goroutine of the client is between storing a response and saving it.
Settled == \A c \in Conns : conn[c].pc \notin {"resetting", "applied", "saving"}

\* The process dies; a new one restores its identity from the state file.
Restart ==
    /\ faults < MaxFaults
    /\ KillAnytime \/ Settled
    /\ faults' = faults + 1
    /\ fresh' = [fresh EXCEPT !.instance = @ + 1]
    /\ client' = [instance |-> fresh'.instance, id |-> disk, salt |-> <<>>, run |-> NextRun]
    /\ conn' = [c \in Conns |-> Idle]
    /\ wire' = [c \in Conns |-> Unsent(c)]
    /\ UNCHANGED <<sess, firing, handler, disk, issued, used, late>>

-----------------------------------------------------------------------------
(***************************************************************************)
(* The server.  Every action is one critical section under s.mu.           *)
(***************************************************************************)
\* A new session keeps a token of the right form that the client presents.
NewSession(req) ==
    [sid |-> fresh.sid + 1, instance |-> req.instance, epoch |-> 1,
     token |-> IF req.token # 0 THEN req.token ELSE fresh.token + 1,
     pending |-> 0, active |-> 1, timer |-> FALSE]

\* acceptSessionResumeToken: presenting the pending token confirms it.
Confirmed(req) ==
    IF sess.pending # 0 /\ req.token = sess.pending
    THEN [sess EXCEPT !.token = sess.pending, !.pending = 0] ELSE sess

AcceptsToken(req) == req.token # 0 /\ req.token \in {sess.token, sess.pending}

\* Mutant: the connections of the old epoch are still counted.
RotatedKeepsCount(req) ==
    LET s == IF req.token = sess.token THEN sess ELSE Confirmed(req)
    IN  [s EXCEPT !.instance = req.instance, !.epoch = @ + 1, !.active = @ + 1, !.timer = FALSE,
                  !.pending = IF @ # 0 THEN @ ELSE fresh.token + 1]

\* Mutant: the new token replaces the old one at once.
RotatedSinglePhase(req) ==
    [sess EXCEPT !.instance = req.instance, !.epoch = @ + 1, !.active = 1, !.timer = FALSE,
                 !.token = fresh.token + 1, !.pending = 0]

\* rotateSessionEpochLocked, then ensurePendingResumeToken.
Rotated(req) ==
    LET s == IF req.token = sess.token THEN sess ELSE Confirmed(req)
    IN  [s EXCEPT !.instance = req.instance, !.epoch = @ + 1, !.active = 1, !.timer = FALSE,
                  !.pending = IF @ # 0 THEN @ ELSE fresh.token + 1]

Joined(req) == [Confirmed(req) EXCEPT !.active = @ + 1, !.timer = FALSE]

\* responseResumeToken, and the rest of the snapshot the response is made from.
Response(s) ==
    [sid |-> s.sid, epoch |-> s.epoch, token |-> IF s.pending # 0 THEN s.pending ELSE s.token]

Accept(c, s) ==
    /\ sess' = s
    /\ handler' = [handler EXCEPT ![c] = [serving |-> TRUE, sid |-> s.sid, epoch |-> s.epoch]]
    /\ wire' = [wire EXCEPT ![c] = IF conn[c].pc = "waiting"
                                   THEN [kind |-> "response", id |-> Response(s)] ELSE Nothing]
    /\ issued' = issued \cup {[id |-> Response(s), instance |-> wire[c].instance]}
    /\ UNCHANGED <<firing, conn, client, disk, faults, used, late>>

CreateSession(c) ==
    /\ wire[c].kind = "request" /\ sess = NoSession
    /\ fresh.sid < MaxSid
    /\ Accept(c, NewSession(wire[c]))
    /\ fresh' = [fresh EXCEPT !.sid = @ + 1,
                              !.token = IF wire[c].token # 0 THEN @ ELSE @ + 1]

RotateSession(c) ==
    /\ wire[c].kind = "request" /\ sess # NoSession
    /\ sess.instance # wire[c].instance
    /\ AcceptsToken(wire[c])
    /\ sess.epoch < MaxEpoch
    /\ Accept(c, Rotated(wire[c]))
    /\ fresh' = [fresh EXCEPT !.token = IF Response(Rotated(wire[c])).token > @ THEN @ + 1 ELSE @]

\* Mutant: the current token admits any instance to the current epoch.
JoinAnyInstance(c) ==
    /\ wire[c].kind = "request" /\ sess # NoSession
    /\ sess.instance = wire[c].instance \/ wire[c].token = sess.token
    /\ sess.active < MaxActive
    /\ Accept(c, Joined(wire[c]))
    /\ UNCHANGED fresh

JoinSession(c) ==
    /\ wire[c].kind = "request" /\ sess # NoSession
    /\ sess.instance = wire[c].instance
    /\ sess.active < MaxActive
    /\ Accept(c, Joined(wire[c]))
    /\ UNCHANGED fresh

\* A new instance with an invalid token is turned away.
RefuseToken(c) ==
    /\ wire[c].kind = "request" /\ sess # NoSession
    /\ sess.instance # wire[c].instance
    /\ ~AcceptsToken(wire[c])
    /\ wire' = [wire EXCEPT ![c] = Nothing]
    /\ UNCHANGED <<sess, firing, handler, conn, client, disk, fresh, faults, issued, used, late>>

\* One connection too many: refused after its token confirmed and the timer was stopped.
RefuseExtra(c) ==
    /\ wire[c].kind = "request" /\ sess # NoSession
    /\ sess.instance = wire[c].instance
    /\ sess.active >= MaxActive
    /\ sess' = [Confirmed(wire[c]) EXCEPT !.timer = FALSE]
    /\ wire' = [wire EXCEPT ![c] = Nothing]
    /\ UNCHANGED <<firing, handler, conn, client, disk, fresh, faults, issued, used, late>>

\* Mutant: whether this was the last connection is tested before it is counted out.
CleanupTestsFirst(c) ==
    /\ handler[c].serving
    /\ handler' = [handler EXCEPT ![c] = NoHandler]
    /\ sess' = IF Key(handler[c]) # Key(sess) THEN sess
               ELSE [sess EXCEPT !.active = @ - 1, !.timer = @ \/ sess.active = 0]
    /\ UNCHANGED <<firing, wire, conn, client, disk, fresh, faults, issued, used, late>>

\* The handler returns and its deferred cleanup runs.
Cleanup(c) ==
    /\ handler[c].serving
    /\ handler' = [handler EXCEPT ![c] = NoHandler]
    /\ sess' = IF Key(handler[c]) # Key(sess) THEN sess
               ELSE [sess EXCEPT !.active = @ - 1, !.timer = @ \/ sess.active = 1]
    /\ UNCHANGED <<firing, wire, conn, client, disk, fresh, faults, issued, used, late>>

\* 120 s after the last connection left; the callback still has to lock s.mu.
TimerFires ==
    /\ sess.timer
    /\ sess' = [sess EXCEPT !.timer = FALSE]
    /\ firing' = firing \cup {sess.sid}
    /\ UNCHANGED <<handler, wire, conn, client, disk, fresh, faults, issued, used, late>>

\* Mutant: the callback does not look whether a connection came back.
CallbackAnyActive(sid) ==
    /\ sid \in firing
    /\ firing' = firing \ {sid}
    /\ sess' = IF sess.sid = sid THEN NoSession ELSE sess
    /\ UNCHANGED <<handler, wire, conn, client, disk, fresh, faults, issued, used, late>>

TimerCallback(sid) ==
    /\ sid \in firing
    /\ firing' = firing \ {sid}
    /\ sess' = IF sess.sid = sid /\ sess.active <= 0 THEN NoSession ELSE sess
    /\ UNCHANGED <<handler, wire, conn, client, disk, fresh, faults, issued, used, late>>

Kick ==
    /\ sess # NoSession /\ faults < MaxFaults
    /\ faults' = faults + 1
    /\ sess' = NoSession
    /\ UNCHANGED <<firing, handler, wire, conn, client, disk, fresh, issued, used, late>>

\* The server's sequence is exhausted: no instance matches any more.
ServerExhausted ==
    /\ sess # NoSession /\ faults < MaxFaults
    /\ faults' = faults + 1
    /\ sess' = [sess EXCEPT !.instance = 0]
    /\ UNCHANGED <<firing, handler, wire, conn, client, disk, fresh, issued, used, late>>

\* The bounds on sessions and epochs end the exploration here.
NoMoreSessions == sess = NoSession /\ fresh.sid = MaxSid

BoundReached == (NoMoreSessions \/ sess.epoch = MaxEpoch) /\ UNCHANGED vars

\* The next step of the client's goroutine for connection c, and of the server's.
Supervise(c) ==
    Dial(c) \/ ReadResponse(c) \/ Apply(c) \/ ResetEpoch(c) \/ CheckCurrent(c) \/ Persist(c)

Handle(c) ==
    CreateSession(c) \/ RotateSession(c) \/ JoinSession(c) \/ RefuseToken(c) \/ RefuseExtra(c)

Next ==
    \/ \E c \in Conns : Supervise(c) \/ Send(c) \/ Break(c) \/ Handle(c) \/ Cleanup(c)
    \/ ClientExhausted \/ Restart
    \/ TimerFires \/ \E sid \in firing : TimerCallback(sid)
    \/ Kick \/ ServerExhausted \/ BoundReached

Spec == Init /\ [][Next]_vars

(***************************************************************************)
(* Fairness.  The goroutines of both sides keep running; the retention     *)
(* timer runs out; the end of a connection whose other end is gone sees it *)
(* (a read fails or reaches its deadline), and so does a handler whose     *)
(* connection was closed by a rotation, a kick or an exhausted sequence.   *)
(***************************************************************************)
PeerGone(c) ==
    conn[c].cut \/ (~handler[c].serving /\ (conn[c].pc = "waiting" => wire[c] = Nothing))

Closed(c) ==
    conn[c].pc = "idle" \/ conn[c].cut \/ Key(handler[c]) # Key(sess) \/ sess.instance = 0

Fairness ==
    /\ \A c \in Conns :
          /\ WF_conn(Supervise(c)) /\ WF_wire(Handle(c))
          /\ WF_conn(PeerGone(c) /\ Break(c))
          /\ WF_handler(Closed(c) /\ Cleanup(c))
    /\ WF_firing(TimerFires)
    /\ WF_firing(\E sid \in firing : TimerCallback(sid))

\* From some time on no connection fails by itself.
NetworkSettles ==
    <>[][\A c \in Conns : (Break(c) => PeerGone(c)) /\ (Cleanup(c) => Closed(c))]_<<conn, handler>>

FairSpec == Spec /\ Fairness /\ NetworkSettles

-----------------------------------------------------------------------------
(***************************************************************************)
(* Properties.                                                             *)
(***************************************************************************)
Identities ==
    [sid : 0..MaxSid, epoch : 0..MaxEpoch, token : 0..fresh.token]

\* Every variable stays in its range; ActiveConns never exceeds the limit or goes below zero.
TypeOK ==
    /\ sess \in [sid : 0..MaxSid, instance : 0..fresh.instance, epoch : 0..MaxEpoch,
                 token : 0..fresh.token, pending : 0..fresh.token,
                 active : 0..MaxActive, timer : BOOLEAN]
    /\ firing \subseteq 1..MaxSid
    /\ handler \in [Conns -> [serving : BOOLEAN, sid : 0..MaxSid, epoch : 0..MaxEpoch]]
    /\ wire \in [Conns -> {Nothing}
                     \cup [kind : {"request"}, instance : 1..fresh.instance, token : 0..fresh.token]
                     \cup [kind : {"response"}, id : Identities]]
    /\ conn \in [Conns -> [pc : {"idle", "waiting", "read", "resetting", "applied", "saving", "up"},
                           resp : Identities, cut : BOOLEAN]]
    /\ client.id \in Identities /\ disk \in Identities
    /\ client.instance \in 1..fresh.instance /\ client.run \in 1..(MaxSent + 2)
    /\ faults \in 0..MaxFaults

\* Serving(s): the handlers that joined the current epoch of session s and have not left it.
Serving(s) == {c \in Conns : handler[c].serving /\ Key(handler[c]) = Key(s)}

(***************************************************************************)
(* ActiveConns counts exactly the handlers of the current epoch, across    *)
(* rotations, kicks and the late cleanups of connections of older epochs.  *)
(***************************************************************************)
ActiveCountsHandlers ==
    sess # NoSession => sess.active = Cardinality(Serving(sess))

(***************************************************************************)
(* A session without connections is on its way out: its retention timer    *)
(* runs or its callback is about to.  A session that escaped this would    *)
(* hold its addresses for ever.                                            *)
(***************************************************************************)
IdleSessionIsTimed ==
    sess # NoSession /\ sess.active = 0 => sess.timer \/ sess.sid \in firing

(***************************************************************************)
(* Retention never destroys a session that a connection came back to, even *)
(* when the timer had already fired at that moment.                        *)
(***************************************************************************)
RetentionSparesLiveSession ==
    [][sess # NoSession /\ sess' = NoSession /\ faults' = faults => Serving(sess) = {}]_vars

(***************************************************************************)
(* The key and the token of a response are tied together and to one client *)
(* instance.  persistSessionState relies on it when it keeps the token     *)
(* already on disk for the same epoch, and the sequence discipline does:   *)
(* no two processes number their frames under one key, whatever requests   *)
(* of a dead process are still in flight.                                  *)
(***************************************************************************)
EpochHasOneTokenAndInstance ==
    \A a, b \in issued : Key(a.id) = Key(b.id) => a = b

\* A restarted process is let back into the session its state file names.
Resumable ==
    disk.sid # 0 /\ disk.sid = sess.sid => disk.token \in {sess.token, sess.pending}

(***************************************************************************)
(* Two-phase rollover loses no client whose responses are all saved:       *)
(* whatever responses were lost, the server still accepts the saved token, *)
(* unless the client, or its file, stepped back to a response older than   *)
(* the one it had.  Such a step keeps the newer response from being saved, *)
(* or lets an older one of its session replace it, and a third connection  *)
(* may have presented the newer token in the meantime.                     *)
(***************************************************************************)
SettledIsResumable == Settled /\ ~late => Resumable

(***************************************************************************)
(* A killed process resumes with its first handshake, whenever it is       *)
(* killed: what the comment above the call of persistSessionState says.    *)
(***************************************************************************)
RestartResumes == Resumable

(***************************************************************************)
(* A response that arrives late does not take the client back to an older  *)
(* epoch of the same session.                                              *)
(***************************************************************************)
EpochNeverRegresses ==
    [][\A c \in Conns : Apply(c) /\ client'.id.sid = client.id.sid
                         => client'.id.epoch >= client.id.epoch]_vars

(***************************************************************************)
(* The state file does not go back to an older session or epoch while the  *)
(* client does not: a response another handshake has overtaken is dropped, *)
(* as the comment in persistSessionState says.                             *)
(***************************************************************************)
SavedNeverRegresses ==
    [][disk' # disk /\ ~late => ~Older(disk', disk)]_vars

(***************************************************************************)
(* Sequence values are not reused inside one epoch: the numbers sent under *)
(* one key are of one run of the sequence.                                 *)
(***************************************************************************)
NoSequenceReuse ==
    \A a, b \in used : a[1] = b[1] => a = b

\* The same for the epoch the server is in: the one whose frames it delivers.
LiveEpochHasOneRun ==
    \A a, b \in used : a[1] = Key(sess) /\ b[1] = Key(sess) => a = b

(***************************************************************************)
(* Entering a new epoch restarts the data sequence: no run of it carries   *)
(* over into a later epoch that the client has settled in.                 *)
(***************************************************************************)
NewEpochRestartsSequence ==
    [][Key(client'.id) # Key(client.id) => client'.run # client.run]_vars

\* Connection c is up on both sides, in the server's current epoch.
InService(c) ==
    /\ conn[c].pc = "up" /\ handler[c].serving
    /\ Key(conn[c].resp) = Key(handler[c]) /\ Key(handler[c]) = Key(sess)

(***************************************************************************)
(* Once the network and the operators leave the client alone, all its      *)
(* connections come to be in service in one epoch and stay there: requests *)
(* of a former instance, lost responses and refused tokens delay this at   *)
(* most until the retained session expires.  Only behaviours that use up   *)
(* the sessions are excepted; no bound on epochs is.                       *)
(***************************************************************************)
EventuallyInService ==
    <>[](\A c \in Conns : InService(c)) \/ <>NoMoreSessions
=============================================================================
