--------------------------- MODULE SessionProofs ---------------------------
(***************************************************************************)
(* Proofs about Session, for any finite set of connections and any bounds: *)
(* the connection count and the retention of a session, and the key and    *)
(* token of every response.  SessionTokenProofs continues.                 *)
(***************************************************************************)
EXTENDS Session, FiniteSetTheorems, TLAPS

Names == [sid : Nat, epoch : Nat, token : Nat]

Requests == [kind : {"request"}, instance : Nat \ {0}, token : Nat]

Entries == [sid : Nat, instance : Nat, epoch : Nat, token : Nat, pending : Nat,
            active : Int, timer : BOOLEAN]

Handlers == [serving : BOOLEAN, sid : Nat, epoch : Nat]

ConnStates == {"idle", "waiting", "read", "resetting", "applied", "saving", "up"}

Ends == [pc : ConnStates, resp : Names, cut : BOOLEAN]

Answers == [id : Names, instance : Nat \ {0}]

Messages == {Nothing} \cup Requests \cup [kind : {"response"}, id : Names]

Salts == {<<>>} \cup (Nat \X Nat)

Typed ==
    /\ sess \in Entries
    /\ firing \subseteq Nat
    /\ handler \in [Conns -> Handlers]
    /\ wire \in [Conns -> Messages]
    /\ conn \in [Conns -> Ends]
    /\ client \in [instance : Nat \ {0}, id : Names, salt : Salts, run : Nat]
    /\ disk \in Names
    /\ fresh \in [sid : Nat, token : Nat, instance : Nat]
    /\ faults \in Nat
    /\ issued \subseteq Answers
    /\ IsFiniteSet(used) /\ Cardinality(used) <= MaxSent
    /\ late \in BOOLEAN

-----------------------------------------------------------------------------
\* What a message of each kind carries.
LEMMA Kinds ==
    ASSUME Typed, NEW c \in Conns
    PROVE  /\ wire[c].kind = "request" => wire[c] \in Requests
           /\ wire[c].kind = "response" => wire[c].id \in Names
  BY DEF Typed, Messages, Requests, Nothing

\* Counting a connection, and starting or stopping the timer, keep a session well-formed.
LEMMA Counted ==
    ASSUME NEW s \in Entries, NEW n \in Int, NEW t \in BOOLEAN
    PROVE  [s EXCEPT !.active = n, !.timer = t] \in Entries
  BY Zenon DEF Entries

\* The values a handshake makes of the session.
LEMMA EntryTypes ==
    ASSUME Typed, NEW req \in Requests
    PROVE  /\ NewSession(req) \in Entries /\ Confirmed(req) \in Entries
           /\ Rotated(req) \in Entries /\ Joined(req) \in Entries
<1> req.instance \in Nat /\ req.token \in Nat
  BY Zenon DEF Requests
<1> sess \in Entries /\ fresh.sid + 1 \in Nat /\ fresh.token + 1 \in Nat
  BY DEF Typed
<1>1. NewSession(req) \in Entries
  BY DEF NewSession, Entries
<1>2. Confirmed(req) \in Entries
  BY Zenon DEF Confirmed, Entries
<1>3. Joined(req) \in Entries
  <2>1. \A s \in Entries : s.active + 1 \in Int
    BY DEF Entries
  <2> QED
    BY <1>2, <2>1, Counted, Zenon DEF Joined
<1>4. Rotated(req) \in Entries
  <2> DEFINE s == IF req.token = sess.token THEN sess ELSE Confirmed(req)
             p == IF s.pending # 0 THEN s.pending ELSE fresh.token + 1
  <2>1. s \in Entries
    BY <1>2, Zenon
  <2> HIDE DEF s
  <2>2. s.epoch + 1 \in Nat /\ p \in Nat
    BY <2>1 DEF Entries
  <2> DEFINE s1 == [s EXCEPT !.instance = req.instance, !.epoch = s.epoch + 1]
             s2 == [s1 EXCEPT !.active = 1, !.timer = FALSE]
  <2>3. Rotated(req) = [s2 EXCEPT !.pending = p]
    BY Zenon DEF Rotated, s
  <2>4. s1 \in Entries
    BY <2>1, <2>2, Zenon DEF Entries
  <2> HIDE DEF p, s1
  <2>5. s2 \in Entries
    <3>1. 1 \in Int /\ FALSE \in BOOLEAN
      OBVIOUS
    <3> QED
      BY <2>4, <3>1, Counted, Zenon
  <2> HIDE DEF s2
  <2>6. [s2 EXCEPT !.pending = p] \in Entries
    BY <2>2, <2>5, Zenon DEF Entries
  <2> QED
    BY <2>3, <2>6, Zenon
<1> QED
  BY <1>1, <1>2, <1>3, <1>4, Zenon

\* So does accepting a request: the session, the handler, the response and the history.
LEMMA AcceptTypes ==
    ASSUME Typed, NEW c \in Conns, wire[c] \in Requests, NEW s \in Entries, Accept(c, s)
    PROVE  /\ sess' \in Entries /\ handler' \in [Conns -> Handlers]
           /\ wire' \in [Conns -> Messages] /\ issued' \subseteq Answers
<1>1. Response(s) \in Names
  BY Zenon DEF Response, Entries, Names
<1>2. [id |-> Response(s), instance |-> wire[c].instance] \in Answers
  BY <1>1, Zenon DEF Answers, Requests
<1>3. [kind |-> "response", id |-> Response(s)] \in Messages /\ Nothing \in Messages
  BY <1>1, Zenon DEF Messages
<1>4. [serving |-> TRUE, sid |-> s.sid, epoch |-> s.epoch] \in Handlers
  BY Zenon DEF Handlers, Entries
<1> QED
  BY <1>2, <1>3, <1>4, Zenon DEF Typed, Accept

\* There is always a run that has left no trace, as the history is bounded.
LEMMA RunsSuffice ==
    ASSUME Typed
    PROVE  NextRun \in Nat
<1> DEFINE runs == {u[2] : u \in used}
           taken == runs \cup {client.run}
           all == 1..(MaxSent + 2)
<1>1. IsFiniteSet(used) /\ Cardinality(used) <= MaxSent /\ MaxSent \in Nat
  BY SessionAssumption, Zenon DEF Typed
<1>2. IsFiniteSet(runs) /\ Cardinality(runs) <= Cardinality(used)
  <2> DEFINE f == [u \in used |-> u[2]]
  <2>1. f \in Surjection(used, runs)
    BY DEF Surjection
  <2> HIDE DEF f, runs
  <2> QED
    BY <1>1, <2>1, FS_Surjection
<1>3. IsFiniteSet(taken) /\ Cardinality(taken) <= Cardinality(runs) + 1
  <2> HIDE DEF runs
  <2>1. IsFiniteSet(taken) /\ Cardinality(taken) \in {Cardinality(runs), Cardinality(runs) + 1}
    BY <1>2, FS_AddElement
  <2>2. Cardinality(runs) \in Nat
    BY <1>2, FS_CardinalityType
  <2> QED
    BY <2>1, <2>2
<1>4. Cardinality(all) = MaxSent + 2
  BY <1>1, FS_Interval
<1>5. PICK n \in all : n \notin taken
  <2> HIDE DEF taken, all
  <2> SUFFICES ASSUME all \subseteq taken PROVE FALSE
    BY Zenon
  <2>1. Cardinality(all) <= Cardinality(taken)
    BY <1>3, FS_Subset
  <2>2. Cardinality(taken) \in Nat /\ Cardinality(runs) \in Nat /\ Cardinality(used) \in Nat
    BY <1>1, <1>2, <1>3, FS_CardinalityType, Zenon
  <2> HIDE DEF runs
  <2> QED
    BY <1>1, <1>2, <1>3, <1>4, <2>1, <2>2
<1>6. n # client.run /\ \A u \in used : n # u[2]
  BY <1>5, Zenon
<1>7. NextRun \in all
  BY <1>6, Zenon DEF NextRun
<1> QED
  BY <1>1, <1>7

\* Every step keeps the types.
LEMMA TypedStep ==
    ASSUME Typed, [Next]_vars
    PROVE  Typed'
<1> USE DEF Typed
<1> USE SessionAssumption
<1>0. /\ Nothing \in Messages /\ NoHandler \in Handlers /\ Idle \in Ends /\ NoIdentity \in Names
      /\ NoSession \in Entries
  BY DEF Messages, NoHandler, Handlers, Idle, Ends, NoIdentity, Names, NoSession, Entries,
     ConnStates
<1>a. \A c \in Conns : Unsent(c) \in Messages
  BY <1>0, Zenon DEF Unsent
<1>1. ASSUME NEW c \in Conns, Dial(c) PROVE Typed'
  <2>1. Refreshed(client.id) \in Names
    BY Zenon DEF Refreshed
  <2>2. client'.id \in Names /\ client' \in [instance : Nat \ {0}, id : Names, salt : Salts, run : Nat]
    BY <1>1, <2>1, Zenon DEF Dial
  <2>3. [kind |-> "request", instance |-> client.instance, token |-> client'.id.token] \in Messages
    BY <2>2, Zenon DEF Messages, Requests, Names
  <2>4. [conn[c] EXCEPT !.pc = "waiting"] \in Ends
    BY DEF Ends, ConnStates
  <2> QED
    BY <1>1, <2>2, <2>3, <2>4, Zenon DEF Dial
<1>2. ASSUME NEW c \in Conns, ReadResponse(c) PROVE Typed'
  <2>1. [conn[c] EXCEPT !.pc = "read", !.resp = wire[c].id] \in Ends
    BY <1>2, Kinds, ZenonT(30) DEF Ends, ConnStates, ReadResponse
  <2> QED
    BY <1>2, <1>0, <2>1, Zenon DEF ReadResponse
<1>3. ASSUME NEW c \in Conns, Apply(c) PROVE Typed'
  <2> DEFINE resp == conn[c].resp
             resets == Fec /\ client.salt # Salt(resp)
  <2>1. resp \in Names /\ Salt(resp) \in Salts
    BY Zenon DEF Ends, Salt, Salts, Key, Names
  <2>3. client' \in [instance : Nat \ {0}, id : Names, salt : Salts, run : Nat]
    BY <1>3, <2>1, RunsSuffice, Zenon DEF Apply
  <2>4. \A pc \in ConnStates : [conn[c] EXCEPT !.pc = pc] \in Ends
    BY Zenon DEF Ends
  <2>5. conn' \in [Conns -> Ends]
    BY <1>3, <2>4, Zenon DEF Apply, ConnStates
  <2>6. late' \in BOOLEAN
    BY <1>3, Zenon DEF Apply
  <2> QED
    BY <1>3, <2>3, <2>5, <2>6, Zenon DEF Apply
<1>4. ASSUME NEW c \in Conns, ResetEpoch(c) PROVE Typed'
  <2>1. [conn[c] EXCEPT !.pc = "applied"] \in Ends
    BY DEF Ends, ConnStates
  <2> QED
    BY <1>4, <2>1, RunsSuffice, Zenon DEF ResetEpoch
<1>5. ASSUME NEW c \in Conns, CheckCurrent(c) \/ Persist(c) PROVE Typed'
  <2>1. /\ [conn[c] EXCEPT !.pc = "up"] \in Ends /\ [conn[c] EXCEPT !.pc = "saving"] \in Ends
        /\ conn[c].resp \in Names
    BY ZenonT(30) DEF Ends, ConnStates
  <2>2. late' \in BOOLEAN
    BY <1>5, Zenon DEF CheckCurrent, Persist
  <2> QED
    BY <1>5, <2>1, <2>2, Zenon DEF CheckCurrent, Persist
<1>6. ASSUME NEW c \in Conns, Send(c) PROVE Typed'
  <2>1. IsFiniteSet(used') /\ Cardinality(used') <= MaxSent
    <3>1. Cardinality(used) < MaxSent /\ used' = used \cup {<<Key(conn[c].resp), client.run>>}
      BY <1>6, Zenon DEF Send
    <3>2. /\ IsFiniteSet(used')
          /\ Cardinality(used') \in {Cardinality(used), Cardinality(used) + 1}
      BY <3>1, FS_AddElement, Zenon
    <3>3. Cardinality(used) \in Nat /\ MaxSent \in Nat
      BY FS_CardinalityType, Zenon
    <3> QED
      BY <3>1, <3>2, <3>3
  <2> QED
    BY <1>6, <2>1, Zenon DEF Send
<1>7. ASSUME NEW c \in Conns, Break(c) PROVE Typed'
  BY <1>7, <1>0, <1>a, Zenon DEF Break
<1>8. ASSUME NEW c \in Conns, CreateSession(c) PROVE Typed'
  <2>1. wire[c] \in Requests
    BY <1>8, Kinds, Zenon DEF CreateSession
  <2>2. fresh' \in [sid : Nat, token : Nat, instance : Nat]
    <3> DEFINE t == IF wire[c].token # 0 THEN fresh.token ELSE fresh.token + 1
    <3>1. t \in Nat /\ fresh.sid + 1 \in Nat
      OBVIOUS
    <3>2. fresh' = [fresh EXCEPT !.sid = fresh.sid + 1, !.token = t]
      BY <1>8, Zenon DEF CreateSession
    <3> HIDE DEF t
    <3> QED
      BY <3>1, <3>2, Zenon
  <2> QED
    BY <1>8, <2>1, <2>2, EntryTypes, AcceptTypes, Zenon DEF CreateSession, Accept
<1>9. ASSUME NEW c \in Conns, RotateSession(c) PROVE Typed'
  <2>1. wire[c] \in Requests
    BY <1>9, Kinds, Zenon DEF RotateSession
  <2>2. fresh' \in [sid : Nat, token : Nat, instance : Nat]
    BY <1>9 DEF RotateSession
  <2> QED
    BY <1>9, <2>1, <2>2, EntryTypes, AcceptTypes, Zenon DEF RotateSession, Accept
<1>10. ASSUME NEW c \in Conns, JoinSession(c) PROVE Typed'
  <2>1. wire[c] \in Requests
    BY <1>10, Kinds, Zenon DEF JoinSession
  <2> QED
    BY <1>10, <2>1, EntryTypes, AcceptTypes, Zenon DEF JoinSession, Accept
<1>11. ASSUME NEW c \in Conns, RefuseToken(c) PROVE Typed'
  BY <1>11, <1>0, Zenon DEF RefuseToken
<1>12. ASSUME NEW c \in Conns, RefuseExtra(c) PROVE Typed'
  <2>1. Confirmed(wire[c]) \in Entries
    BY <1>12, Kinds, EntryTypes, Zenon DEF RefuseExtra
  <2>2. [Confirmed(wire[c]) EXCEPT !.timer = FALSE] \in Entries
    BY <2>1, Zenon DEF Entries
  <2> QED
    BY <1>12, <1>0, <2>2, Zenon DEF RefuseExtra
<1>13. ASSUME NEW c \in Conns, Cleanup(c) PROVE Typed'
  <2>1. sess' \in Entries
    <3>1. sess.active - 1 \in Int /\ (sess.timer \/ sess.active = 1) \in BOOLEAN
      BY DEF Entries
    <3> QED
      BY <1>13, <3>1, Counted, Zenon DEF Cleanup
  <2> QED
    BY <1>13, <1>0, <2>1, Zenon DEF Cleanup
<1>14. ASSUME ClientExhausted PROVE Typed'
  <2>1. \A c \in Conns : [conn[c] EXCEPT !.cut = conn[c].pc # "idle"] \in Ends
    BY ZenonT(30) DEF Ends
  <2> QED
    BY <1>14, <1>0, <1>a, <2>1 DEF ClientExhausted
<1>15. ASSUME Restart PROVE Typed'
  <2>1. <<>> \in Salts
    BY Zenon DEF Salts
  <2>2. fresh' = [fresh EXCEPT !.instance = fresh.instance + 1]
    BY <1>15, Zenon DEF Restart
  <2>3. fresh.instance + 1 \in Nat \ {0}
    OBVIOUS
  <2>4. fresh' \in [sid : Nat, token : Nat, instance : Nat]
        /\ fresh'.instance \in Nat \ {0}
    BY <2>2, <2>3, Zenon
  <2>5. client' \in [instance : Nat \ {0}, id : Names, salt : Salts, run : Nat]
    BY <1>15, <2>1, <2>4, RunsSuffice, Zenon DEF Restart
  <2>6. conn' \in [Conns -> Ends] /\ wire' \in [Conns -> Messages]
    BY <1>15, <1>0, <1>a, Zenon DEF Restart
  <2>7. faults' \in Nat
    BY <1>15, <1>0 DEF Restart
  <2> QED
    BY <1>15, <2>4, <2>5, <2>6, <2>7, Zenon DEF Restart
<1>16. ASSUME TimerFires PROVE Typed'
  <2>1. sess' \in Entries /\ sess.sid \in Nat
    BY <1>16, Zenon DEF TimerFires, Entries
  <2> QED
    BY <1>16, <2>1, Zenon DEF TimerFires
<1>17. ASSUME NEW sid \in firing, TimerCallback(sid) PROVE Typed'
  BY <1>17, <1>0, Zenon DEF TimerCallback
<1>18. ASSUME Kick PROVE Typed'
  BY <1>18, <1>0 DEF Kick
<1>19. ASSUME ServerExhausted PROVE Typed'
  <2>1. sess' \in Entries
    BY <1>19, Zenon DEF ServerExhausted, Entries
  <2> QED
    BY <1>19, <2>1 DEF ServerExhausted
<1>20. ASSUME UNCHANGED vars PROVE Typed'
  BY <1>20, Zenon DEF vars
<1> QED
  BY <1>1, <1>2, <1>3, <1>4, <1>5, <1>6, <1>7, <1>8, <1>9, <1>10, <1>11, <1>12, <1>13, <1>14,
     <1>15, <1>16, <1>17, <1>18, <1>19, <1>20, ZenonT(30)
     DEF Next, Supervise, Handle, BoundReached

-----------------------------------------------------------------------------
(***************************************************************************)
(* The connection count.  A handler belongs to an epoch that the session   *)
(* has reached, so that a rotation starts with none, and a connection      *)
(* whose request is in flight has no handler yet.                          *)
(***************************************************************************)
HandlerInv ==
    /\ sess.sid <= fresh.sid
    /\ sess # NoSession => sess.sid > 0
    /\ \A c \in Conns :
          /\ handler[c].serving =>
                /\ handler[c].sid > 0 /\ handler[c].sid <= fresh.sid
                /\ handler[c].sid = sess.sid => handler[c].epoch <= sess.epoch
          /\ wire[c].kind = "request" => ~handler[c].serving

CountInv == ActiveCountsHandlers /\ IdleSessionIsTimed

(***************************************************************************)
(* Responses.  Those of the current epoch agree with what the session      *)
(* would answer now; ServerExhausted only forgets the instance.            *)
(***************************************************************************)
IssuedInv ==
    \A a \in issued :
       /\ a.id.sid > 0 /\ a.id.sid <= fresh.sid
       /\ a.id.sid = sess.sid => a.id.epoch <= sess.epoch
       /\ Key(a.id) = Key(sess) =>
             a.id.token = Response(sess).token /\ sess.instance \in {0, a.instance}

-----------------------------------------------------------------------------
\* No handler is ahead of the session, and dead sessions are gone: every step keeps it.
LEMMA HandlerStep ==
    ASSUME Typed, HandlerInv, [Next]_vars
    PROVE  HandlerInv'
<1> USE DEF HandlerInv
<1>0. /\ sess \in Entries /\ handler \in [Conns -> Handlers] /\ fresh.sid \in Nat
      /\ wire \in [Conns -> Messages]
  BY Zenon DEF Typed
<1>t. sess.sid \in Nat /\ sess.epoch \in Nat
  BY <1>0, Zenon DEF Entries
<1>h. \A c \in Conns : handler[c].sid \in Nat /\ handler[c].epoch \in Nat
  BY <1>0, Zenon DEF Handlers
<1>u. \A c \in Conns : Unsent(c).kind = "request" => ~handler[c].serving
  BY Zenon DEF Unsent, Nothing
<1>n. Nothing.kind # "request" /\ NoSession.sid = 0 /\ ~NoHandler.serving
  BY Zenon DEF Nothing, NoSession, NoHandler
<1>1. ASSUME NEW c \in Conns, Dial(c) PROVE HandlerInv'
  <2>1. UNCHANGED <<sess, handler, fresh>>
    BY <1>1, Zenon DEF Dial
  <2>2. \A d \in Conns : wire'[d].kind = "request" => ~handler[d].serving
    BY <1>0, <1>1, Zenon DEF Dial
  <2> QED
    BY <2>1, <2>2, Zenon
<1>2. ASSUME NEW c \in Conns, ReadResponse(c) PROVE HandlerInv'
  BY <1>2, <1>0, <1>n, Zenon DEF ReadResponse
<1>3. ASSUME NEW c \in Conns, Apply(c) PROVE HandlerInv'
  <2>1. UNCHANGED <<sess, handler, wire>> /\ fresh'.sid = fresh.sid
    BY <1>3, Zenon DEF Apply, Typed
  <2> QED
    BY <2>1, Zenon
<1>4. ASSUME NEW c \in Conns, ResetEpoch(c) PROVE HandlerInv'
  <2>1. UNCHANGED <<sess, handler, wire>> /\ fresh'.sid = fresh.sid
    BY <1>4, Zenon DEF ResetEpoch, Typed
  <2> QED
    BY <2>1, Zenon
<1>5. ASSUME NEW c \in Conns, CheckCurrent(c) \/ Persist(c) \/ Send(c) PROVE HandlerInv'
  <2>1. UNCHANGED <<sess, handler, wire, fresh>>
    BY <1>5, Zenon DEF CheckCurrent, Persist, Send
  <2> QED
    BY <2>1, Zenon
<1>7. ASSUME NEW c \in Conns, Break(c) PROVE HandlerInv'
  BY <1>7, <1>0, <1>u, Zenon DEF Break
<1>8. ASSUME NEW c \in Conns, CreateSession(c) PROVE HandlerInv'
  <2>1. sess'.sid = fresh.sid + 1 /\ sess'.epoch = 1 /\ fresh'.sid = fresh.sid + 1
    BY <1>8, Zenon DEF CreateSession, Accept, NewSession, Typed
  <2>2. handler' = [handler EXCEPT ![c] = [serving |-> TRUE, sid |-> sess'.sid, epoch |-> sess'.epoch]]
    BY <1>8, Zenon DEF CreateSession, Accept
  <2>3. \A d \in Conns : wire'[d].kind = "request" => d # c /\ wire'[d] = wire[d]
    BY <1>8, <1>0, <1>n, Zenon DEF CreateSession, Accept
  <2> QED
    BY <1>0, <1>t, <1>h, <2>1, <2>2, <2>3
<1>9. ASSUME NEW c \in Conns, RotateSession(c) PROVE HandlerInv'
  <2>1. sess'.sid = sess.sid /\ sess'.epoch = sess.epoch + 1 /\ fresh'.sid = fresh.sid
    BY <1>9, <1>0, Zenon DEF RotateSession, Accept, Rotated, Confirmed, Typed, Entries
  <2>2. handler' = [handler EXCEPT ![c] = [serving |-> TRUE, sid |-> sess'.sid, epoch |-> sess'.epoch]]
    BY <1>9, Zenon DEF RotateSession, Accept
  <2>3. \A d \in Conns : wire'[d].kind = "request" => d # c /\ wire'[d] = wire[d]
    BY <1>9, <1>0, <1>n, Zenon DEF RotateSession, Accept
  <2> QED
    BY <1>9, <1>0, <1>t, <1>h, <2>1, <2>2, <2>3 DEF RotateSession
<1>10. ASSUME NEW c \in Conns, JoinSession(c) PROVE HandlerInv'
  <2>1. sess'.sid = sess.sid /\ sess'.epoch = sess.epoch /\ fresh'.sid = fresh.sid
    BY <1>10, <1>0, Zenon DEF JoinSession, Accept, Joined, Confirmed, Typed, Entries
  <2>2. handler' = [handler EXCEPT ![c] = [serving |-> TRUE, sid |-> sess'.sid, epoch |-> sess'.epoch]]
    BY <1>10, Zenon DEF JoinSession, Accept
  <2>3. \A d \in Conns : wire'[d].kind = "request" => d # c /\ wire'[d] = wire[d]
    BY <1>10, <1>0, <1>n, Zenon DEF JoinSession, Accept
  <2> QED
    BY <1>10, <1>0, <1>t, <1>h, <2>1, <2>2, <2>3 DEF JoinSession
<1>11. ASSUME NEW c \in Conns, RefuseToken(c) PROVE HandlerInv'
  BY <1>11, <1>0, <1>n, Zenon DEF RefuseToken
<1>12. ASSUME NEW c \in Conns, RefuseExtra(c) PROVE HandlerInv'
  <2>1. sess'.sid = sess.sid /\ sess'.epoch = sess.epoch
    BY <1>12, <1>0, Zenon DEF RefuseExtra, Confirmed, Entries
  <2>2. UNCHANGED <<handler, fresh>>
    BY <1>12, Zenon DEF RefuseExtra
  <2>3. \A d \in Conns : wire'[d].kind = "request" => wire'[d] = wire[d]
    BY <1>12, <1>0, <1>n, Zenon DEF RefuseExtra
  <2> QED
    BY <1>12, <2>1, <2>2, <2>3, Zenon DEF RefuseExtra
<1>13. ASSUME NEW c \in Conns, Cleanup(c) PROVE HandlerInv'
  <2>1. sess'.sid = sess.sid /\ sess'.epoch = sess.epoch /\ (sess = NoSession => sess' = NoSession)
    BY <1>13, <1>0, <1>n DEF Cleanup, Entries, Key
  <2>2. UNCHANGED <<wire, fresh>> /\ handler' = [handler EXCEPT ![c] = NoHandler]
    BY <1>13, Zenon DEF Cleanup
  <2> QED
    BY <1>0, <1>n, <2>1, <2>2, Zenon
<1>14. ASSUME ClientExhausted \/ Restart PROVE HandlerInv'
  <2>1. UNCHANGED <<sess, handler>> /\ fresh'.sid = fresh.sid /\ wire' = [c \in Conns |-> Unsent(c)]
    BY <1>14, Zenon DEF ClientExhausted, Restart, Typed
  <2> QED
    BY <1>u, <2>1, Zenon
<1>16. ASSUME TimerFires PROVE HandlerInv'
  <2>1. sess'.sid = sess.sid /\ sess'.epoch = sess.epoch /\ sess # NoSession
    BY <1>16, <1>0 DEF TimerFires, Entries, NoSession
  <2> QED
    BY <1>16, <2>1, Zenon DEF TimerFires
<1>17. ASSUME NEW sid \in firing, TimerCallback(sid) PROVE HandlerInv'
  <2>1. sess' \in {sess, NoSession} /\ UNCHANGED <<handler, wire, fresh>>
    BY <1>17, Zenon DEF TimerCallback
  <2> QED
    BY <2>1, <1>n, <1>0
<1>18. ASSUME Kick PROVE HandlerInv'
  <2>1. sess' = NoSession /\ UNCHANGED <<handler, wire, fresh>>
    BY <1>18, Zenon DEF Kick
  <2> QED
    BY <2>1, <1>n, <1>0
<1>19. ASSUME ServerExhausted PROVE HandlerInv'
  <2>1. sess'.sid = sess.sid /\ sess'.epoch = sess.epoch /\ sess # NoSession
    BY <1>19, <1>0, Zenon DEF ServerExhausted, Entries
  <2> QED
    BY <1>19, <2>1, Zenon DEF ServerExhausted
<1>20. ASSUME UNCHANGED vars PROVE HandlerInv'
  BY <1>20, Zenon DEF vars
<1> QED
  BY <1>1, <1>2, <1>3, <1>4, <1>5, <1>7, <1>8, <1>9, <1>10, <1>11, <1>12, <1>13, <1>14,
     <1>16, <1>17, <1>18, <1>19, <1>20, ZenonT(30)
     DEF Next, Supervise, Handle, BoundReached

-----------------------------------------------------------------------------
\* The handlers of an epoch are finitely many.
LEMMA ServingIsFinite ==
    ASSUME NEW s
    PROVE  IsFiniteSet(Serving(s)) /\ Cardinality(Serving(s)) \in Nat
<1>1. IsFiniteSet(Conns)
  BY SessionAssumption, Zenon
<1>2. Serving(s) \subseteq Conns
  BY Zenon DEF Serving
<1> QED
  BY <1>1, <1>2, FS_Subset, FS_CardinalityType, Zenon

\* What a connection that is accepted does to the set of handlers.
LEMMA AcceptServes ==
    ASSUME Typed, HandlerInv, NEW c \in Conns, wire[c].kind = "request",
           NEW s \in Entries, Accept(c, s)
    PROVE  /\ Key(s) = Key(sess) => Cardinality(Serving(sess)') = Cardinality(Serving(sess)) + 1
           /\ (\A d \in Conns : handler[d].serving => Key(handler[d]) # Key(s))
              => Cardinality(Serving(sess)') = 1
<1>1. sess' = s
  BY Zenon DEF Accept
<1>2. \A d \in Conns : handler'[d] = IF d = c THEN [serving |-> TRUE, sid |-> s.sid, epoch |-> s.epoch]
                                             ELSE handler[d]
  BY Zenon DEF Typed, Accept
<1>3. c \notin Serving(sess)
  BY Zenon DEF HandlerInv, Serving
<1>4. Serving(sess)' = {d \in Conns : d = c \/ (handler[d].serving /\ Key(handler[d]) = Key(s))}
  BY <1>1, <1>2 DEF Serving, Key
<1>5. ASSUME Key(s) = Key(sess) PROVE Cardinality(Serving(sess)') = Cardinality(Serving(sess)) + 1
  <2>1. Serving(sess)' = Serving(sess) \cup {c}
    BY <1>4, <1>5, Zenon DEF Serving
  <2> QED
    BY <1>3, <2>1, ServingIsFinite, FS_AddElement, Zenon
<1>6. ASSUME \A d \in Conns : handler[d].serving => Key(handler[d]) # Key(s)
      PROVE  Cardinality(Serving(sess)') = 1
  <2>1. Serving(sess)' = {c}
    BY <1>4, <1>6, Zenon
  <2> QED
    BY <2>1, FS_Singleton, Zenon
<1> QED
  BY <1>5, <1>6, Zenon

\* Every step keeps the connection count exact and an idle session timed.
LEMMA CountStep ==
    ASSUME Typed, HandlerInv, CountInv, [Next]_vars
    PROVE  CountInv'
<1> USE DEF CountInv, ActiveCountsHandlers, IdleSessionIsTimed
<1>0. sess \in Entries /\ handler \in [Conns -> Handlers]
  BY Zenon DEF Typed
<1>t. sess.sid \in Nat /\ sess.epoch \in Nat /\ sess.active \in Int /\ sess.timer \in BOOLEAN
  BY <1>0, Zenon DEF Entries
<1>n. /\ Cardinality(Serving(sess)) \in Nat
      /\ sess # NoSession => sess.active \in Nat
  BY ServingIsFinite, Zenon
<1>k. MaxActive \in Nat /\ MaxActive > 0
  BY SessionAssumption, Zenon
<1>1. ASSUME UNCHANGED <<sess, handler, firing>> PROVE CountInv'
  BY <1>1, Zenon DEF Serving
<1>2. ASSUME sess' = NoSession PROVE CountInv'
  BY <1>2, Zenon
<1>8. ASSUME NEW c \in Conns, CreateSession(c) PROVE CountInv'
  <2>1. wire[c].kind = "request" /\ NewSession(wire[c]) \in Entries
    BY <1>8, Kinds, EntryTypes, Zenon DEF CreateSession
  <2>2. NewSession(wire[c]).sid = fresh.sid + 1 /\ NewSession(wire[c]).active = 1
    BY Zenon DEF NewSession
  <2>3. \A d \in Conns : handler[d].serving => Key(handler[d]) # Key(NewSession(wire[c]))
    BY <1>0, <2>2 DEF HandlerInv, Typed, Key, Handlers
  <2>4. Accept(c, NewSession(wire[c])) /\ sess' = NewSession(wire[c])
    BY <1>8, Zenon DEF CreateSession, Accept
  <2> QED
    BY <2>1, <2>2, <2>3, <2>4, AcceptServes
<1>9. ASSUME NEW c \in Conns, RotateSession(c) PROVE CountInv'
  <2>1. wire[c].kind = "request" /\ Rotated(wire[c]) \in Entries /\ sess # NoSession
    BY <1>9, Kinds, EntryTypes, Zenon DEF RotateSession
  <2>2. /\ Rotated(wire[c]).sid = sess.sid /\ Rotated(wire[c]).epoch = sess.epoch + 1
        /\ Rotated(wire[c]).active = 1
    BY <1>0, Zenon DEF Rotated, Confirmed, Entries
  <2>3. \A d \in Conns : handler[d].serving => Key(handler[d]) # Key(Rotated(wire[c]))
    BY <1>0, <1>t, <2>2 DEF HandlerInv, Key, Handlers
  <2>4. Accept(c, Rotated(wire[c])) /\ sess' = Rotated(wire[c])
    BY <1>9, Zenon DEF RotateSession, Accept
  <2> QED
    BY <2>1, <2>2, <2>3, <2>4, AcceptServes
<1>10. ASSUME NEW c \in Conns, JoinSession(c) PROVE CountInv'
  <2>1. wire[c].kind = "request" /\ Joined(wire[c]) \in Entries /\ sess # NoSession
    BY <1>10, Kinds, EntryTypes, Zenon DEF JoinSession
  <2>2. /\ Joined(wire[c]).sid = sess.sid /\ Joined(wire[c]).epoch = sess.epoch
        /\ Joined(wire[c]).active = sess.active + 1
    BY <1>0, Zenon DEF Joined, Confirmed, Entries
  <2>3. Key(Joined(wire[c])) = Key(sess)
    BY <2>2, Zenon DEF Key
  <2>4. Accept(c, Joined(wire[c])) /\ sess' = Joined(wire[c])
    BY <1>10, Zenon DEF JoinSession, Accept
  <2>5. sess'.active = Cardinality(Serving(sess)')
    BY <2>1, <2>2, <2>3, <2>4, AcceptServes, Zenon
  <2> QED
    BY <1>n, <2>1, <2>2, <2>4, <2>5
<1>12. ASSUME NEW c \in Conns, RefuseExtra(c) PROVE CountInv'
  <2>1. /\ sess # NoSession /\ sess'.sid = sess.sid /\ sess'.epoch = sess.epoch
        /\ sess'.active = sess.active /\ sess.active >= MaxActive /\ handler' = handler
    BY <1>12, <1>0, Zenon DEF RefuseExtra, Confirmed, Entries
  <2>2. Serving(sess)' = Serving(sess)
    BY <2>1, Zenon DEF Serving, Key
  <2> QED
    BY <1>n, <1>k, <2>1, <2>2
<1>13. ASSUME NEW c \in Conns, Cleanup(c) PROVE CountInv'
  <2>1. \A d \in Conns : handler'[d] = IF d = c THEN NoHandler ELSE handler[d]
    BY <1>13, <1>0, Zenon DEF Cleanup
  <2>2. handler[c].serving /\ firing' = firing /\ ~NoHandler.serving
    BY <1>13, Zenon DEF Cleanup, NoHandler
  <2>3. CASE Key(handler[c]) # Key(sess)
    <3>1. sess' = sess
      BY <1>13, <2>3, Zenon DEF Cleanup
    <3>2. Serving(sess)' = Serving(sess)
      BY <2>1, <2>2, <2>3, <3>1, Zenon DEF Serving
    <3> QED
      BY <2>2, <3>1, <3>2, Zenon
  <2>4. CASE Key(handler[c]) = Key(sess)
    <3>1. sess' = [sess EXCEPT !.active = sess.active - 1, !.timer = sess.timer \/ sess.active = 1]
      BY <1>13, <2>4, Zenon DEF Cleanup
    <3>2. /\ sess'.sid = sess.sid /\ sess'.epoch = sess.epoch /\ sess'.active = sess.active - 1
          /\ sess'.timer = (sess.timer \/ sess.active = 1)
      BY <1>0, <3>1, Zenon DEF Entries
    <3>3. sess # NoSession
      BY <2>2, <2>4 DEF HandlerInv, Key, NoSession
    <3>4. Serving(sess)' = Serving(sess) \ {c} /\ c \in Serving(sess)
      BY <2>1, <2>2, <2>4, <3>2, Zenon DEF Serving, Key
    <3>5. Cardinality(Serving(sess)') = Cardinality(Serving(sess)) - 1
      BY <3>4, ServingIsFinite, FS_RemoveElement, Zenon
    <3>6. sess'.active = Cardinality(Serving(sess)') /\ (sess'.active = 0 => sess.active = 1)
      BY <1>n, <1>t, <3>2, <3>3, <3>5
    <3>7. sess'.active = 0 => sess'.timer
      BY <3>2, <3>6, Zenon
    <3> QED
      BY <3>6, <3>7, Zenon
  <2> QED
    BY <2>3, <2>4, Zenon
<1>16. ASSUME TimerFires PROVE CountInv'
  <2>1. /\ sess # NoSession /\ sess'.sid = sess.sid /\ sess'.epoch = sess.epoch
        /\ sess'.active = sess.active /\ handler' = handler /\ sess'.sid \in firing'
    BY <1>16, <1>0 DEF TimerFires, Entries, NoSession
  <2>2. Serving(sess)' = Serving(sess)
    BY <2>1, Zenon DEF Serving, Key
  <2> QED
    BY <2>1, <2>2, Zenon
<1>17. ASSUME NEW sid \in firing, TimerCallback(sid) PROVE CountInv'
  <2>1. handler' = handler /\ firing' = firing \ {sid}
    BY <1>17, Zenon DEF TimerCallback
  <2>2. CASE sess' = sess /\ ~(sess.sid = sid /\ sess.active <= 0)
    BY <1>n, <2>1, <2>2 DEF Serving
  <2> QED
    BY <1>17, <1>2, <2>2, Zenon DEF TimerCallback
<1>18. ASSUME Kick PROVE CountInv'
  BY <1>18, <1>2, Zenon DEF Kick
<1>19. ASSUME ServerExhausted PROVE CountInv'
  <2>1. /\ sess # NoSession /\ sess'.sid = sess.sid /\ sess'.epoch = sess.epoch
        /\ sess'.active = sess.active /\ sess'.timer = sess.timer /\ UNCHANGED <<handler, firing>>
    BY <1>19, <1>0, Zenon DEF ServerExhausted, Entries
  <2>2. Serving(sess)' = Serving(sess)
    BY <2>1, Zenon DEF Serving, Key
  <2> QED
    BY <2>1, <2>2, Zenon
<1>20. ASSUME NEW c \in Conns,
              \/ Dial(c) \/ ReadResponse(c) \/ Apply(c) \/ ResetEpoch(c)
              \/ CheckCurrent(c) \/ Persist(c) \/ Send(c) \/ Break(c) \/ RefuseToken(c)
       PROVE  CountInv'
  BY <1>1, <1>20, Zenon DEF Dial, ReadResponse, Apply, ResetEpoch, CheckCurrent, Persist, Send,
     Break, RefuseToken
<1>21. ASSUME ClientExhausted \/ Restart \/ UNCHANGED vars PROVE CountInv'
  BY <1>1, <1>21, Zenon DEF ClientExhausted, Restart, vars
<1> QED
  BY <1>8, <1>9, <1>10, <1>12, <1>13, <1>16, <1>17, <1>18, <1>19, <1>20, <1>21, Zenon
     DEF Next, Supervise, Handle, BoundReached

(***************************************************************************)
(* Only the retention's callback and a kick, which counts as a fault, end  *)
(* a session; the callback does so when the count is zero.                 *)
(***************************************************************************)
LEMMA RetentionStep ==
    ASSUME Typed, HandlerInv, CountInv, [Next]_vars,
           sess # NoSession, sess' = NoSession, faults' = faults
    PROVE  Serving(sess) = {}
<1>0. sess \in Entries /\ sess.sid > 0 /\ NoSession.sid = 0 /\ NoSession.timer = FALSE
  BY Zenon DEF Typed, HandlerInv, NoSession
<1>1. ASSUME NEW sid \in firing, TimerCallback(sid) PROVE Serving(sess) = {}
  <2>1. Cardinality(Serving(sess)) <= 0
    BY <1>1, Zenon DEF TimerCallback, CountInv, ActiveCountsHandlers
  <2> QED
    BY <2>1, ServingIsFinite, FS_EmptySet
<1>2. ASSUME NEW c \in Conns, CreateSession(c) PROVE FALSE
  BY <1>2, Zenon DEF CreateSession
<1>3. ASSUME NEW c \in Conns, RotateSession(c) PROVE FALSE
  <2>1. sess'.sid = sess.sid
    BY <1>3, <1>0, ZenonT(30) DEF RotateSession, Accept, Rotated, Confirmed, Entries
  <2> QED
    BY <1>0, <2>1
<1>4. ASSUME NEW c \in Conns, JoinSession(c) PROVE FALSE
  <2>1. sess'.sid = sess.sid
    BY <1>4, <1>0, Zenon DEF JoinSession, Accept, Joined, Confirmed, Entries
  <2> QED
    BY <1>0, <2>1
<1>5. ASSUME NEW c \in Conns, RefuseExtra(c) PROVE FALSE
  <2>1. sess'.sid = sess.sid
    BY <1>5, <1>0, Zenon DEF RefuseExtra, Confirmed, Entries
  <2> QED
    BY <1>0, <2>1
<1>6. ASSUME NEW c \in Conns, Cleanup(c) PROVE FALSE
  <2>1. sess'.sid = sess.sid
    BY <1>6, <1>0, Zenon DEF Cleanup, Entries
  <2> QED
    BY <1>0, <2>1
<1>7. ASSUME TimerFires \/ ServerExhausted PROVE FALSE
  <2>1. sess'.sid = sess.sid
    BY <1>7, <1>0, Zenon DEF TimerFires, ServerExhausted, Entries
  <2> QED
    BY <1>0, <2>1
<1>8. ASSUME Kick PROVE FALSE
  BY <1>8 DEF Kick, Typed
<1>9. ASSUME NEW c \in Conns,
              \/ Dial(c) \/ ReadResponse(c) \/ Apply(c) \/ ResetEpoch(c)
              \/ CheckCurrent(c) \/ Persist(c) \/ Send(c) \/ Break(c) \/ RefuseToken(c)
      PROVE  FALSE
  <2>1. sess' = sess
    BY <1>9, Zenon DEF Dial, ReadResponse, Apply, ResetEpoch, CheckCurrent, Persist, Send, Break,
       RefuseToken
  <2> QED
    BY <2>1, Zenon
<1>10. ASSUME ClientExhausted \/ Restart \/ UNCHANGED vars PROVE FALSE
  <2>1. sess' = sess
    BY <1>10, Zenon DEF ClientExhausted, Restart, vars
  <2> QED
    BY <2>1, Zenon
<1> QED
  BY <1>1, <1>2, <1>3, <1>4, <1>5, <1>6, <1>7, <1>8, <1>9, <1>10, ZenonT(30)
     DEF Next, Supervise, Handle, BoundReached

-----------------------------------------------------------------------------
\* A confirmation changes neither the epoch nor the token the session answers with.
LEMMA ConfirmedAnswers ==
    ASSUME Typed, NEW req \in Requests
    PROVE  /\ Confirmed(req) \in Entries /\ Confirmed(req).sid = sess.sid
           /\ Confirmed(req).epoch = sess.epoch /\ Confirmed(req).instance = sess.instance
           /\ Response(Confirmed(req)).token = Response(sess).token
<1>1. sess \in Entries
  BY Zenon DEF Typed
<1> QED
  BY <1>1, EntryTypes, Zenon DEF Confirmed, Response, Entries

\* Every step keeps one token and one instance for each key.
LEMMA IssuedStep ==
    ASSUME Typed, HandlerInv, IssuedInv, EpochHasOneTokenAndInstance, [Next]_vars
    PROVE  IssuedInv' /\ EpochHasOneTokenAndInstance'
<1> DEFINE Both == IssuedInv /\ EpochHasOneTokenAndInstance
<1>0. sess \in Entries /\ fresh.sid \in Nat /\ issued \subseteq Answers
  BY Zenon DEF Typed
<1>t. sess.sid \in Nat /\ sess.epoch \in Nat /\ sess.sid <= fresh.sid
  BY <1>0, Zenon DEF Entries, HandlerInv
<1>a. \A a \in issued : a.id.sid \in Nat /\ a.id.epoch \in Nat
  BY <1>0, Zenon DEF Answers, Names
<1>1. ASSUME issued' = issued, fresh'.sid = fresh.sid, Key(sess)' = Key(sess),
             Response(sess)'.token = Response(sess).token, sess'.instance \in {sess.instance, 0}
      PROVE  Both'
  BY <1>1, Zenon DEF IssuedInv, EpochHasOneTokenAndInstance, Key
<1>2. ASSUME issued' = issued, fresh'.sid = fresh.sid, sess' = NoSession
      PROVE  Both'
  BY <1>2 DEF IssuedInv, EpochHasOneTokenAndInstance, Key, NoSession
<1>3. ASSUME issued' = issued, fresh'.sid = fresh.sid, sess' = sess
      PROVE  Both'
  BY <1>3, Zenon DEF IssuedInv, EpochHasOneTokenAndInstance, Key, Response
<1>8. ASSUME NEW c \in Conns, CreateSession(c) PROVE Both'
  <2> DEFINE s == NewSession(wire[c])
             new == [id |-> Response(s), instance |-> wire[c].instance]
  <2>1. sess' = s /\ issued' = issued \cup {new}
    BY <1>8, Zenon DEF CreateSession, Accept
  <2>2. s.sid = fresh.sid + 1 /\ s.instance = wire[c].instance /\ fresh'.sid = fresh.sid + 1
    BY <1>8, Zenon DEF CreateSession, NewSession, Typed
  <2>3. new.id.sid = s.sid /\ new.id.epoch = s.epoch /\ new.id.token = Response(s).token
        /\ new.instance = s.instance
    BY <2>2, Zenon DEF Response
  <2>4. s.epoch = 1
    BY Zenon DEF NewSession
  <2> HIDE DEF s, new
  <2>5. \A a \in issued : a.id.sid # s.sid
    BY <1>0, <1>a, <2>2 DEF IssuedInv
  <2>6. IssuedInv'
    BY <1>0, <1>a, <2>1, <2>2, <2>3, <2>4, <2>5 DEF IssuedInv, Key
  <2>7. EpochHasOneTokenAndInstance'
    BY <2>1, <2>3, <2>5 DEF EpochHasOneTokenAndInstance, Key
  <2> QED
    BY <2>6, <2>7, Zenon
<1>9. ASSUME NEW c \in Conns, RotateSession(c) PROVE Both'
  <2> DEFINE s == Rotated(wire[c])
             new == [id |-> Response(s), instance |-> wire[c].instance]
  <2>1. sess' = s /\ issued' = issued \cup {new} /\ fresh'.sid = fresh.sid
    BY <1>9, Zenon DEF RotateSession, Accept, Typed
  <2>2. s.sid = sess.sid /\ s.epoch = sess.epoch + 1 /\ s.instance = wire[c].instance
    BY <1>0, Zenon DEF Rotated, Confirmed, Entries
  <2>3. new.id.sid = s.sid /\ new.id.epoch = s.epoch /\ new.id.token = Response(s).token
        /\ new.instance = s.instance
    BY <2>2, Zenon DEF Response
  <2>4. sess.sid > 0
    BY <1>9, ZenonT(30) DEF RotateSession, HandlerInv
  <2> HIDE DEF s, new
  <2>5. \A a \in issued : Key(a.id) # Key(s)
    BY <1>0, <1>t, <1>a, <2>2 DEF IssuedInv, Key
  <2>6. IssuedInv'
    BY <1>0, <1>t, <1>a, <2>1, <2>2, <2>3, <2>4, <2>5 DEF IssuedInv, Key
  <2>7. EpochHasOneTokenAndInstance'
    BY <2>1, <2>3, <2>5 DEF EpochHasOneTokenAndInstance, Key
  <2> QED
    BY <2>6, <2>7, Zenon
<1>10. ASSUME NEW c \in Conns, JoinSession(c) PROVE Both'
  <2> DEFINE s == Joined(wire[c])
             new == [id |-> Response(s), instance |-> wire[c].instance]
  <2>0. wire[c] \in Requests /\ sess.instance = wire[c].instance /\ sess.sid > 0
    BY <1>10, Kinds, Zenon DEF JoinSession, HandlerInv
  <2>1. sess' = s /\ issued' = issued \cup {new} /\ fresh' = fresh
    BY <1>10, Zenon DEF JoinSession, Accept
  <2>2. s.sid = sess.sid /\ s.epoch = sess.epoch /\ s.instance = sess.instance
        /\ Response(s).token = Response(sess).token
    BY <2>0, ConfirmedAnswers, Zenon DEF Joined, Response, Entries
  <2>3. new.id.sid = s.sid /\ new.id.epoch = s.epoch /\ new.id.token = Response(sess).token
        /\ new.instance = s.instance /\ s.instance # 0 /\ new \in Answers
    <3>1. Response(s) \in Names /\ wire[c].instance \in Nat \ {0}
      BY <2>0, EntryTypes, Zenon DEF Response, Entries, Names, Requests
    <3> QED
      BY <2>0, <2>2, <3>1, Zenon DEF Response, Answers
  <2> HIDE DEF s, new
  <2>4. \A a \in issued : Key(a.id) = Key(s) => a = new
    <3> SUFFICES ASSUME NEW a \in issued, Key(a.id) = Key(s) PROVE a = new
      BY Zenon
    <3>1. a.id.token = Response(sess).token /\ a.instance = s.instance /\ a \in Answers
      BY <1>0, <2>2, <2>3, Zenon DEF IssuedInv, Key
    <3>2. a.id = new.id
      BY <2>2, <2>3, <3>1 DEF Key, Answers, Names
    <3> QED
      BY <2>3, <3>1, <3>2 DEF Answers
  <2>5. IssuedInv'
    BY <1>0, <1>t, <1>a, <2>0, <2>1, <2>2, <2>3 DEF IssuedInv, Key
  <2>6. EpochHasOneTokenAndInstance'
    BY <2>1, <2>3, <2>4 DEF EpochHasOneTokenAndInstance, Key
  <2> QED
    BY <2>5, <2>6, Zenon
<1>12. ASSUME NEW c \in Conns, RefuseExtra(c) PROVE Both'
  <2>1. wire[c] \in Requests
    BY <1>12, Kinds, Zenon DEF RefuseExtra
  <2>2. /\ Key(sess)' = Key(sess) /\ Response(sess)'.token = Response(sess).token
        /\ sess'.instance = sess.instance
    BY <1>12, <2>1, ConfirmedAnswers, Zenon DEF RefuseExtra, Response, Entries, Key
  <2> QED
    BY <1>1, <1>12, <2>2, Zenon DEF RefuseExtra
<1>13. ASSUME NEW c \in Conns, Cleanup(c) PROVE Both'
  <2>1. /\ Key(sess)' = Key(sess) /\ Response(sess)'.token = Response(sess).token
        /\ sess'.instance = sess.instance
    BY <1>0, <1>13, Zenon DEF Cleanup, Response, Entries, Key
  <2> QED
    BY <1>1, <1>13, <2>1, Zenon DEF Cleanup
<1>16. ASSUME TimerFires \/ ServerExhausted PROVE Both'
  <2>1. /\ Key(sess)' = Key(sess) /\ Response(sess)'.token = Response(sess).token
        /\ sess'.instance \in {sess.instance, 0}
    BY <1>0, <1>16, Zenon DEF TimerFires, ServerExhausted, Response, Entries, Key
  <2> QED
    BY <1>1, <1>16, <2>1, Zenon DEF TimerFires, ServerExhausted
<1>17. ASSUME NEW sid \in firing, TimerCallback(sid) PROVE Both'
  BY <1>2, <1>3, <1>17, Zenon DEF TimerCallback
<1>18. ASSUME Kick PROVE Both'
  BY <1>2, <1>18, Zenon DEF Kick
<1>20. ASSUME NEW c \in Conns,
              \/ Dial(c) \/ ReadResponse(c) \/ Apply(c) \/ ResetEpoch(c)
              \/ CheckCurrent(c) \/ Persist(c) \/ Send(c) \/ Break(c) \/ RefuseToken(c)
       PROVE  Both'
  <2>1. UNCHANGED <<sess, issued>> /\ fresh'.sid = fresh.sid
    BY <1>20, Zenon DEF Dial, ReadResponse, Apply, ResetEpoch, CheckCurrent, Persist, Send, Break,
       RefuseToken, Typed
  <2> QED
    BY <1>3, <2>1, Zenon
<1>21. ASSUME ClientExhausted \/ Restart \/ UNCHANGED vars PROVE Both'
  <2>1. UNCHANGED <<sess, issued>> /\ fresh'.sid = fresh.sid
    BY <1>21, Zenon DEF ClientExhausted, Restart, vars, Typed
  <2> QED
    BY <1>3, <2>1, Zenon
<1> HIDE DEF Both
<1>22. Both'
  BY <1>8, <1>9, <1>10, <1>12, <1>13, <1>16, <1>17, <1>18, <1>20, <1>21, ZenonT(30)
     DEF Next, Supervise, Handle, BoundReached
<1> QED
  BY <1>22, Zenon DEF Both

-----------------------------------------------------------------------------
(***************************************************************************)
(* The inductive invariants.                                               *)
(***************************************************************************)
\* Nothing has happened yet: no session, no handler, no response.
LEMMA Initially ==
    ASSUME Init
    PROVE  Typed /\ HandlerInv /\ CountInv /\ IssuedInv /\ EpochHasOneTokenAndInstance
<1>1. Typed
  <2>1. NoSession \in Entries
    BY DEF NoSession, Entries
  <2>2. NoHandler \in Handlers /\ NoIdentity \in Names
    BY Zenon DEF NoHandler, Handlers, NoIdentity, Names
  <2>3. Idle \in Ends
    BY <2>2, Zenon DEF Idle, Ends, ConnStates
  <2>4. Nothing \in Messages
    BY Zenon DEF Messages
  <2>5. client \in [instance : Nat \ {0}, id : Names, salt : Salts, run : Nat]
    BY <2>2 DEF Init, Salts
  <2>6. fresh \in [sid : Nat, token : Nat, instance : Nat] /\ faults \in Nat
    BY Zenon DEF Init
  <2>7. IsFiniteSet(used) /\ Cardinality(used) <= MaxSent
    <3>1. IsFiniteSet({}) /\ Cardinality({}) = 0
      BY FS_EmptySet
    <3> QED
      BY <3>1, SessionAssumption DEF Init
  <2> QED
    BY <2>1, <2>2, <2>3, <2>4, <2>5, <2>6, <2>7, ZenonT(30) DEF Init, Typed
<1>2. HandlerInv
  BY DEF Init, HandlerInv, NoSession, NoHandler
<1>3. CountInv
  BY Zenon DEF Init, CountInv, ActiveCountsHandlers, IdleSessionIsTimed
<1>4. IssuedInv /\ EpochHasOneTokenAndInstance
  BY Zenon DEF Init, IssuedInv, EpochHasOneTokenAndInstance
<1> QED
  BY <1>1, <1>2, <1>3, <1>4, Zenon

\* Types and the handlers' bookkeeping hold in every reachable state.
LEMMA ServerIsSound == Spec => [](Typed /\ HandlerInv /\ CountInv)
<1>1. Init => Typed /\ HandlerInv /\ CountInv
  BY Initially, Zenon
<1>2. Typed /\ HandlerInv /\ CountInv /\ [Next]_vars => (Typed /\ HandlerInv /\ CountInv)'
  BY TypedStep, HandlerStep, CountStep, Zenon
<1> QED
  BY <1>1, <1>2, PTL DEF Spec

\* So does what is known of the responses.
LEMMA ResponsesAreSound ==
    Spec => [](Typed /\ HandlerInv /\ IssuedInv /\ EpochHasOneTokenAndInstance)
<1> DEFINE Inv == Typed /\ HandlerInv /\ IssuedInv /\ EpochHasOneTokenAndInstance
<1>1. Init => Inv
  BY Initially, Zenon
<1>2. Inv /\ [Next]_vars => Inv'
  BY TypedStep, HandlerStep, IssuedStep, Zenon
<1> QED
  BY <1>1, <1>2, PTL DEF Spec

-----------------------------------------------------------------------------
(***************************************************************************)
(* ActiveConns of the session is the number of handlers that joined its    *)
(* current epoch and have not left it, for any number of connections.      *)
(***************************************************************************)
THEOREM ConnectionsAreCounted == Spec => []ActiveCountsHandlers
<1>1. CountInv => ActiveCountsHandlers
  BY Zenon DEF CountInv
<1> QED
  BY <1>1, ServerIsSound, PTL

(***************************************************************************)
(* A session that no connection serves has its retention timer running, or *)
(* the timer's callback is about to take s.mu: no session is kept for ever.*)
(***************************************************************************)
THEOREM IdleSessionsAreTimed == Spec => []IdleSessionIsTimed
<1>1. CountInv => IdleSessionIsTimed
  BY Zenon DEF CountInv
<1> QED
  BY <1>1, ServerIsSound, PTL

(***************************************************************************)
(* The retention callback removes a session only while no handler serves   *)
(* it, also when a connection joined between the timer and its callback.   *)
(***************************************************************************)
THEOREM RetentionIsSafe == Spec => RetentionSparesLiveSession
<1>1. Typed /\ HandlerInv /\ CountInv /\ [Next]_vars
      => [sess # NoSession /\ sess' = NoSession /\ faults' = faults => Serving(sess) = {}]_vars
  BY RetentionStep, Zenon
<1> QED
  BY <1>1, ServerIsSound, PTL DEF Spec, RetentionSparesLiveSession

(***************************************************************************)
(* A session key (session and epoch) is given out with one token and to    *)
(* one client instance only, whatever old requests are still in flight.    *)
(***************************************************************************)
THEOREM KeysAreExclusive == Spec => []EpochHasOneTokenAndInstance
  BY ResponsesAreSound, PTL
=============================================================================
