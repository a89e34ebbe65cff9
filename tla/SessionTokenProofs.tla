------------------------ MODULE SessionTokenProofs ------------------------
(***************************************************************************)
(* Proofs about Session, continued: the rollover of the token, and the     *)
(* resumption of a client whose state is saved.                            *)
(***************************************************************************)
EXTENDS SessionProofs

-----------------------------------------------------------------------------
(***************************************************************************)
(* Tokens.  Within a session they are drawn in increasing order; one that  *)
(* is not older than the confirmed token is that token or the pending one, *)
(* which no other session has.                                             *)
(***************************************************************************)
TokenInv ==
    /\ sess # NoSession => sess.token > 0 /\ sess.sid = fresh.sid
    /\ sess.token <= fresh.token /\ sess.pending <= fresh.token
    /\ sess.pending # 0 => sess.token < sess.pending
    /\ \A c \in Conns : wire[c].kind = "request" => wire[c].token <= fresh.token
    /\ \A a \in issued :
          /\ a.id.token > 0 /\ a.id.token <= fresh.token
          /\ a.id.sid = sess.sid => a.id.token <= sess.token \/ a.id.token = sess.pending
          /\ a.id.token = sess.pending => a.id.sid = sess.sid
    /\ \A a, b \in issued :
          a.id.sid = b.id.sid /\ a.id.epoch <= b.id.epoch => a.id.token <= b.id.token

Given(id) == id = NoIdentity \/ \E a \in issued : a.id = id

\* Every identity the client holds was issued.
GivenInv ==
    /\ Given(disk) /\ Given(client.id)
    /\ \A c \in Conns : Given(conn[c].resp) /\ (wire[c].kind = "response" => Given(wire[c].id))

Unsaved(c) == conn[c].pc \in {"resetting", "applied", "saving"}

(***************************************************************************)
(* As long as neither the client nor its state file has stepped back: the  *)
(* file and the responses about to be saved are not ahead of the client,   *)
(* and what it holds is saved or about to be.  A pending token in a        *)
(* request is the client's own, and every response that would not take the *)
(* client back carries a token the server accepts.                         *)
(***************************************************************************)
SavedInv ==
    ~late =>
       /\ ~Older(client.id, disk)
       /\ disk = client.id \/ \E c \in Conns : Unsaved(c) /\ conn[c].resp = client.id
       /\ \A c \in Conns : conn[c].pc = "saving" => ~Older(client.id, conn[c].resp)
       /\ \A c \in Conns :
             wire[c].kind = "request" /\ sess.pending # 0 /\ wire[c].token = sess.pending
             => client.id.sid = sess.sid /\ client.id.token = sess.pending
       /\ \A a \in issued :
             a.id.sid = sess.sid /\ ~Older(a.id, client.id) => a.id.token >= sess.token

-----------------------------------------------------------------------------
\* The token and the pending token after a confirmation, and after a rotation.
LEMMA ConfirmCases ==
    ASSUME Typed, NEW req \in Requests
    PROVE  \/ Confirmed(req) = sess
           \/ /\ sess.pending # 0 /\ req.token = sess.pending
              /\ Confirmed(req).token = sess.pending /\ Confirmed(req).pending = 0
<1>1. sess \in Entries
  BY Zenon DEF Typed
<1> QED
  BY <1>1, Zenon DEF Confirmed, Entries

\* The tokens of the session after a rotation, by the token that was presented.
LEMMA RotateCases ==
    ASSUME Typed, NEW req \in Requests, AcceptsToken(req)
    PROVE  LET s == Rotated(req) IN
           /\ \/ s.token = sess.token /\ sess.pending # 0 /\ s.pending = sess.pending
              \/ s.token = sess.token /\ sess.pending = 0 /\ s.pending = fresh.token + 1
              \/ /\ sess.pending # 0 /\ req.token = sess.pending
                 /\ s.token = sess.pending /\ s.pending = fresh.token + 1
           /\ s.sid = sess.sid /\ s.epoch = sess.epoch + 1
           /\ Response(s).token = s.pending
<1>1. sess \in Entries /\ fresh.token \in Nat
  BY Zenon DEF Typed
<1>2. /\ Rotated(req).sid = sess.sid /\ Rotated(req).epoch = sess.epoch + 1
  BY <1>1, Zenon DEF Rotated, Confirmed, Entries
<1>3. CASE req.token = sess.token
  <2>1. Rotated(req).token = sess.token
    BY <1>1, <1>3, Zenon DEF Rotated, Entries
  <2>2. Rotated(req).pending = IF sess.pending # 0 THEN sess.pending ELSE fresh.token + 1
    BY <1>1, <1>3, Zenon DEF Rotated, Entries
  <2> QED
    BY <1>1, <1>2, <2>1, <2>2 DEF Response
<1>4. CASE req.token # sess.token
  <2>1. req.token = sess.pending /\ sess.pending # 0
    BY <1>4, Zenon DEF AcceptsToken
  <2>2. /\ Confirmed(req) \in Entries /\ Confirmed(req).token = sess.pending
        /\ Confirmed(req).pending = 0
    BY <1>1, <2>1, EntryTypes, Zenon DEF Confirmed, Entries
  <2>3. Rotated(req).token = sess.pending
    BY <1>4, <2>2, Zenon DEF Rotated, Entries
  <2>4. Rotated(req).pending = fresh.token + 1
    BY <1>4, <2>2, Zenon DEF Rotated, Entries
  <2> QED
    BY <1>1, <1>2, <2>1, <2>3, <2>4 DEF Response
<1> QED
  BY <1>3, <1>4, Zenon

\* Every step keeps the identities of the client among the issued ones.
LEMMA GivenStep ==
    ASSUME Typed, GivenInv, [Next]_vars
    PROVE  GivenInv'
<1> USE DEF GivenInv
<1>0. /\ wire \in [Conns -> Messages] /\ conn \in [Conns -> Ends] /\ Nothing.kind # "response"
      /\ Idle.resp = NoIdentity
      /\ client \in [instance : Nat \ {0}, id : Names, salt : Salts, run : Nat]
  BY Zenon DEF Typed, Nothing, Idle
<1>u. \A c \in Conns : Unsent(c).kind = "response" => FALSE
  BY <1>0, Zenon DEF Unsent
<1>1. ASSUME NEW c \in Conns, Dial(c) PROVE GivenInv'
  <2>1. client'.id \in {client.id, disk} /\ UNCHANGED <<disk, issued>>
    BY <1>0, <1>1, Zenon DEF Dial, Refreshed
  <2>2. \A d \in Conns : /\ conn'[d].resp = conn[d].resp
                         /\ wire'[d].kind = "response" => wire'[d] = wire[d]
    BY <1>0, <1>1, Zenon DEF Dial, Ends
  <2> QED
    BY <2>1, <2>2 DEF Given
<1>2. ASSUME NEW c \in Conns, ReadResponse(c) PROVE GivenInv'
  <2>1. UNCHANGED <<client, disk, issued>> /\ wire[c].kind = "response"
    BY <1>2, Zenon DEF ReadResponse
  <2>2. \A d \in Conns : /\ conn'[d].resp = IF d = c THEN wire[c].id ELSE conn[d].resp
                         /\ wire'[d].kind = "response" => wire'[d] = wire[d]
    BY <1>0, <1>2, Zenon DEF ReadResponse, Ends
  <2> QED
    BY <2>1, <2>2 DEF Given
<1>3. ASSUME NEW c \in Conns, Apply(c) PROVE GivenInv'
  <2>1. client'.id = conn[c].resp /\ UNCHANGED <<disk, issued, wire>>
    BY <1>0, <1>3, Zenon DEF Apply
  <2>2. \A d \in Conns : conn'[d].resp = conn[d].resp
    BY <1>0, <1>3, Zenon DEF Apply, Ends
  <2> QED
    BY <2>1, <2>2, Zenon DEF Given
<1>4. ASSUME NEW c \in Conns, ResetEpoch(c) PROVE GivenInv'
  <2>1. client'.id = client.id /\ UNCHANGED <<disk, issued, wire>>
    BY <1>0, <1>4, Zenon DEF ResetEpoch
  <2>2. \A d \in Conns : conn'[d].resp = conn[d].resp
    BY <1>0, <1>4, Zenon DEF ResetEpoch, Ends
  <2> QED
    BY <2>1, <2>2, Zenon DEF Given
<1>5. ASSUME NEW c \in Conns, CheckCurrent(c) \/ Persist(c) PROVE GivenInv'
  <2>1. disk' \in {disk, conn[c].resp} /\ UNCHANGED <<client, issued, wire>>
    BY <1>5, Zenon DEF CheckCurrent, Persist
  <2>2. \A d \in Conns : conn'[d].resp = conn[d].resp
    <3>1. CASE CheckCurrent(c)
      BY <1>0, <3>1, Zenon DEF CheckCurrent, Ends
    <3>2. CASE Persist(c)
      BY <1>0, <3>2, Zenon DEF Persist, Ends
    <3> QED
      BY <1>5, <3>1, <3>2, Zenon
  <2> QED
    BY <2>1, <2>2, Zenon DEF Given
<1>7. ASSUME NEW c \in Conns, Break(c) PROVE GivenInv'
  <2>1. UNCHANGED <<client, disk, issued>>
    BY <1>7, Zenon DEF Break
  <2>2. \A d \in Conns : /\ conn'[d].resp \in {NoIdentity, conn[d].resp}
                         /\ wire'[d].kind = "response" => wire'[d] = wire[d]
    BY <1>0, <1>7, <1>u, Zenon DEF Break
  <2> QED
    BY <2>1, <2>2 DEF Given
<1>8. ASSUME NEW c \in Conns, NEW s, Accept(c, s) PROVE GivenInv'
  <2>1. UNCHANGED <<client, conn, disk>> /\ issued \subseteq issued'
    BY <1>8, Zenon DEF Accept
  <2>2. \E a \in issued' : a.id = Response(s)
    <3> DEFINE new == [id |-> Response(s), instance |-> wire[c].instance]
    <3>1. new.id = Response(s) /\ new \in issued'
      BY <1>8, Zenon DEF Accept
    <3> HIDE DEF new
    <3> QED
      BY <3>1, Zenon
  <2>3. \A d \in Conns : wire'[d].kind = "response" => wire'[d] = wire[d] \/ wire'[d].id = Response(s)
    BY <1>0, <1>8, Zenon DEF Accept
  <2>4. \A d \in Conns : wire'[d].kind = "response" =>
                            wire'[d].id = NoIdentity \/ \E a \in issued' : a.id = wire'[d].id
    BY <2>1, <2>2, <2>3, Zenon DEF Given
  <2> QED
    BY <2>1, <2>4, Zenon DEF Given
<1>11. ASSUME NEW c \in Conns, RefuseToken(c) \/ RefuseExtra(c) PROVE GivenInv'
  <2>1. UNCHANGED <<client, conn, disk, issued>>
    BY <1>11, Zenon DEF RefuseToken, RefuseExtra
  <2>2. \A d \in Conns : wire'[d].kind = "response" => wire'[d] = wire[d]
    BY <1>0, <1>11, Zenon DEF RefuseToken, RefuseExtra
  <2> QED
    BY <2>1, <2>2, ZenonT(30) DEF Given
<1>14. ASSUME ClientExhausted PROVE GivenInv'
  <2>1. client'.id = client.id /\ UNCHANGED <<disk, issued>>
    BY <1>0, <1>14, Zenon DEF ClientExhausted
  <2>2. \A d \in Conns : /\ conn'[d].resp \in {NoIdentity, conn[d].resp}
                         /\ wire'[d].kind # "response"
    BY <1>0, <1>14, <1>u, ZenonT(30) DEF ClientExhausted, Ends
  <2> QED
    BY <2>1, <2>2, Zenon DEF Given
<1>15. ASSUME Restart PROVE GivenInv'
  <2>1. client'.id = disk /\ UNCHANGED <<disk, issued>>
    BY <1>15, Zenon DEF Restart
  <2>2. \A d \in Conns : conn'[d].resp = NoIdentity /\ wire'[d].kind # "response"
    BY <1>0, <1>15, <1>u, Zenon DEF Restart
  <2> QED
    BY <2>1, <2>2, Zenon DEF Given
<1>16. ASSUME UNCHANGED <<client, disk, issued, conn, wire>> PROVE GivenInv'
  BY <1>16, Zenon DEF Given
<1>17. ASSUME NEW c \in Conns, Send(c) \/ Cleanup(c) PROVE GivenInv'
  BY <1>16, <1>17, Zenon DEF Send, Cleanup
<1>18. ASSUME NEW sid \in firing, TimerCallback(sid) PROVE GivenInv'
  BY <1>16, <1>18, Zenon DEF TimerCallback
<1>19. ASSUME TimerFires \/ Kick \/ ServerExhausted \/ UNCHANGED vars PROVE GivenInv'
  BY <1>16, <1>19, Zenon DEF TimerFires, Kick, ServerExhausted, vars
<1> QED
  BY <1>1, <1>2, <1>3, <1>4, <1>5, <1>7, <1>8, <1>11, <1>14, <1>15, <1>17, <1>18, <1>19, ZenonT(30)
     DEF Next, Supervise, Handle, BoundReached, CreateSession, RotateSession, JoinSession

\* Every step keeps the order of the tokens of a session.
LEMMA TokenStep ==
    ASSUME Typed, HandlerInv, IssuedInv, TokenInv, GivenInv, [Next]_vars
    PROVE  TokenInv'
<1>0. /\ sess \in Entries /\ issued \subseteq Answers /\ wire \in [Conns -> Messages]
      /\ fresh.token \in Nat /\ fresh.sid \in Nat
  BY Zenon DEF Typed
<1>t. /\ sess.sid \in Nat /\ sess.epoch \in Nat /\ sess.token \in Nat /\ sess.pending \in Nat
  BY <1>0, Zenon DEF Entries
<1>a. \A a \in issued : a.id.sid \in Nat /\ a.id.epoch \in Nat /\ a.id.token \in Nat
  BY <1>0, Zenon DEF Answers, Names
<1>u. \A c \in Conns : Unsent(c).kind = "request" => Unsent(c) = wire[c]
  BY Zenon DEF Unsent, Nothing
<1>n. Nothing.kind # "request"
  BY Zenon DEF Nothing
<1>w. \A c \in Conns : wire[c].kind = "request" => wire[c].token \in Nat
  BY Kinds, Zenon DEF Requests
<1> DEFINE Requested(k) == \A c \in Conns : wire'[c].kind = "request" => wire'[c].token <= k
           Fewer == \A c \in Conns : wire'[c].kind = "request" => wire'[c] = wire[c]
<1>1. ASSUME sess' = NoSession \/ (/\ sess'.sid = sess.sid /\ sess'.token = sess.token
                                   /\ sess'.pending = sess.pending
                                   /\ sess' # NoSession => sess # NoSession),
             issued' = issued, fresh'.sid = fresh.sid, fresh'.token = fresh.token,
             Requested(fresh.token)
      PROVE  TokenInv'
  <2>1. CASE sess' = NoSession
    <3>1. sess'.sid = 0 /\ sess'.token = 0 /\ sess'.pending = 0
      BY <2>1, Zenon DEF NoSession
    <3> QED
      BY <1>1, <1>0, <1>a, <2>1, <3>1 DEF TokenInv, IssuedInv
  <2>2. CASE sess' # NoSession
    BY <1>1, <2>2, Zenon DEF TokenInv
  <2> QED
    BY <2>1, <2>2, Zenon
<1>2. ASSUME Fewer PROVE Requested(fresh.token)
  BY <1>2, Zenon DEF TokenInv
<1>3. ASSUME NEW c \in Conns, Dial(c) PROVE TokenInv'
  <2>1. UNCHANGED <<sess, issued, fresh>> /\ client'.id \in {client.id, disk}
    BY <1>3, Zenon DEF Dial, Refreshed, Typed
  <2>2. client'.id.token <= fresh.token
    BY <1>0, <1>a, <2>1 DEF GivenInv, Given, NoIdentity, TokenInv
  <2>3. Requested(fresh.token)
    BY <1>0, <1>3, <2>2, Zenon DEF Dial, TokenInv
  <2> QED
    BY <1>1, <2>1, <2>3, Zenon
<1>4. ASSUME NEW c \in Conns, ReadResponse(c) \/ RefuseToken(c) PROVE TokenInv'
  <2>1. UNCHANGED <<sess, issued, fresh>> /\ Fewer
    BY <1>0, <1>n, <1>4, Zenon DEF ReadResponse, RefuseToken
  <2> QED
    BY <1>1, <1>2, <2>1, Zenon
<1>5. ASSUME NEW c \in Conns, Apply(c) \/ ResetEpoch(c) \/ CheckCurrent(c) \/ Persist(c) \/ Send(c)
      PROVE  TokenInv'
  <2>1. UNCHANGED <<sess, issued, wire>> /\ fresh'.token = fresh.token /\ fresh'.sid = fresh.sid
    BY <1>5, Zenon DEF Apply, ResetEpoch, CheckCurrent, Persist, Send, Typed
  <2> QED
    BY <1>1, <1>2, <2>1, Zenon
<1>6. ASSUME NEW c \in Conns, Break(c) PROVE TokenInv'
  <2>1. UNCHANGED <<sess, issued, fresh>> /\ Fewer
    BY <1>0, <1>u, <1>6, Zenon DEF Break
  <2> QED
    BY <1>1, <1>2, <2>1, Zenon
<1>7. ASSUME ClientExhausted \/ Restart PROVE TokenInv'
  <2>1. UNCHANGED <<sess, issued>> /\ fresh'.token = fresh.token /\ fresh'.sid = fresh.sid /\ Fewer
    BY <1>0, <1>u, <1>7, ZenonT(30) DEF ClientExhausted, Restart, Typed
  <2> QED
    BY <1>1, <1>2, <2>1, Zenon
<1>8. ASSUME NEW c \in Conns, CreateSession(c) PROVE TokenInv'
  <2> DEFINE s == NewSession(wire[c])
             new == [id |-> Response(s), instance |-> wire[c].instance]
  <2>1. sess' = s /\ issued' = issued \cup {new} /\ wire[c].kind = "request"
    BY <1>8, Zenon DEF CreateSession, Accept
  <2>2. Fewer
    BY <1>8, <1>0, <1>n, Zenon DEF CreateSession, Accept
  <2>3. /\ s.sid = fresh.sid + 1 /\ fresh'.sid = fresh.sid + 1 /\ s.pending = 0 /\ s.epoch = 1
        /\ \/ s.token = wire[c].token /\ wire[c].token # 0 /\ fresh'.token = fresh.token
           \/ s.token = fresh.token + 1 /\ fresh'.token = fresh.token + 1
    BY <1>8, Zenon DEF CreateSession, NewSession, Typed
  <2>4. new.id.sid = s.sid /\ new.id.epoch = s.epoch /\ new.id.token = s.token
    BY <2>3, Zenon DEF Response
  <2> HIDE DEF s, new
  <2>5. /\ s.token > 0 /\ s.token <= fresh'.token /\ s.token \in Nat
        /\ fresh.token <= fresh'.token /\ fresh'.token \in Nat
    BY <1>0, <1>w, <2>1, <2>3 DEF TokenInv
  <2>6. \A a \in issued : a.id.sid # s.sid
    BY <1>0, <1>a, <2>3 DEF IssuedInv
  <2>7. \A d \in Conns : wire'[d].kind = "request" => wire'[d].token <= fresh'.token
    BY <1>0, <1>w, <2>2, <2>5 DEF TokenInv
  <2>8. \A a \in issued' :
           /\ a.id.token > 0 /\ a.id.token <= fresh'.token
           /\ a.id.sid = s.sid => a.id.token <= s.token \/ a.id.token = s.pending
           /\ a.id.token = s.pending => a.id.sid = s.sid
    BY <1>0, <1>a, <2>1, <2>3, <2>4, <2>5, <2>6 DEF TokenInv
  <2>9. \A a, b \in issued' :
           a.id.sid = b.id.sid /\ a.id.epoch <= b.id.epoch => a.id.token <= b.id.token
    BY <1>a, <2>1, <2>4, <2>5, <2>6 DEF TokenInv
  <2> QED
    BY <1>0, <2>1, <2>3, <2>5, <2>7, <2>8, <2>9 DEF TokenInv
<1>9. ASSUME NEW c \in Conns, RotateSession(c) PROVE TokenInv'
  <2> DEFINE s == Rotated(wire[c])
             new == [id |-> Response(s), instance |-> wire[c].instance]
  <2>0. wire[c] \in Requests /\ AcceptsToken(wire[c]) /\ sess # NoSession
    BY <1>9, Kinds, Zenon DEF RotateSession
  <2>1. sess' = s /\ issued' = issued \cup {new} /\ fresh'.sid = fresh.sid
    BY <1>9, Zenon DEF RotateSession, Accept, Typed
  <2>2. Fewer
    BY <1>9, <1>0, <1>n, Zenon DEF RotateSession, Accept
  <2>3. /\ \/ s.token = sess.token /\ sess.pending # 0 /\ s.pending = sess.pending
           \/ s.token = sess.token /\ sess.pending = 0 /\ s.pending = fresh.token + 1
           \/ sess.pending # 0 /\ s.token = sess.pending /\ s.pending = fresh.token + 1
        /\ s.sid = sess.sid /\ s.epoch = sess.epoch + 1
        /\ Response(s).token = s.pending
    BY <2>0, RotateCases, Zenon
  <2>4. new.id.sid = s.sid /\ new.id.epoch = s.epoch /\ new.id.token = s.pending
    BY <2>3, Zenon DEF Response
  <2>5. fresh'.token = IF s.pending > fresh.token THEN fresh.token + 1 ELSE fresh.token
    BY <1>9, <2>3, Zenon DEF RotateSession, Typed
  <2> HIDE DEF s, new
  <2>6. /\ s.token \in Nat /\ s.pending \in Nat /\ s.token > 0 /\ s.token < s.pending
        /\ s.pending <= fresh'.token /\ fresh.token <= fresh'.token /\ fresh'.token \in Nat
    BY <1>0, <1>t, <2>0, <2>3, <2>5 DEF TokenInv
  <2>7. \A d \in Conns : wire'[d].kind = "request" => wire'[d].token <= fresh'.token
    BY <1>0, <1>w, <2>2, <2>6 DEF TokenInv
  <2>8. \A a \in issued :
           /\ a.id.token > 0 /\ a.id.token <= fresh'.token
           /\ a.id.sid = s.sid => a.id.token <= s.token \/ a.id.token = s.pending
           /\ a.id.token = s.pending => a.id.sid = s.sid
    BY <1>0, <1>t, <1>a, <2>3, <2>6 DEF TokenInv
  <2>9. \A a, b \in issued' :
           a.id.sid = b.id.sid /\ a.id.epoch <= b.id.epoch => a.id.token <= b.id.token
    <3>1. \A a \in issued : a.id.sid = s.sid => a.id.epoch < s.epoch /\ a.id.token <= s.pending
      BY <1>t, <1>a, <2>3, <2>6, <2>8 DEF IssuedInv
    <3> QED
      BY <1>a, <1>t, <2>1, <2>3, <2>4, <2>6, <3>1 DEF TokenInv
  <2>10. \A a \in issued' :
           /\ a.id.token > 0 /\ a.id.token <= fresh'.token
           /\ a.id.sid = s.sid => a.id.token <= s.token \/ a.id.token = s.pending
           /\ a.id.token = s.pending => a.id.sid = s.sid
    BY <2>1, <2>4, <2>6, <2>8
  <2>11. s.token <= fresh'.token /\ s.sid = fresh'.sid
    BY <2>0, <2>1, <2>3, <2>6 DEF TokenInv
  <2> QED
    BY <2>1, <2>6, <2>7, <2>9, <2>10, <2>11, Zenon DEF TokenInv
<1>10. ASSUME NEW c \in Conns, JoinSession(c) \/ RefuseExtra(c) PROVE TokenInv'
  <2> DEFINE s == Confirmed(wire[c])
  <2>0. wire[c] \in Requests /\ sess # NoSession
    BY <1>10, Kinds, Zenon DEF JoinSession, RefuseExtra
  <2>1. s \in Entries /\ s.sid = sess.sid /\ Response(s).token = Response(sess).token
    BY <2>0, ConfirmedAnswers, Zenon
  <2>2. sess'.token = s.token /\ sess'.pending = s.pending /\ sess'.sid = s.sid /\ fresh' = fresh
    BY <1>10, <2>1, Zenon DEF JoinSession, RefuseExtra, Accept, Joined, Entries
  <2>3. \/ s.token = sess.token /\ s.pending = sess.pending
        \/ sess.pending # 0 /\ s.token = sess.pending /\ s.pending = 0
    BY <2>0, ConfirmCases, Zenon
  <2>4. \A a \in issued' \ issued :
           a.id.sid = sess.sid /\ a.id.epoch = sess.epoch /\ a.id.token = Response(sess).token
    <3>1. CASE JoinSession(c)
      <4>1. Joined(wire[c]).sid = sess.sid /\ Joined(wire[c]).epoch = sess.epoch
            /\ Response(Joined(wire[c])).token = Response(sess).token
        BY <2>0, ConfirmedAnswers, Zenon DEF Joined, Response, Entries
      <4>2. issued' = issued \cup {[id |-> Response(Joined(wire[c])), instance |-> wire[c].instance]}
        BY <3>1, Zenon DEF JoinSession, Accept
      <4> QED
        BY <4>1, <4>2 DEF Response
    <3>2. CASE RefuseExtra(c)
      BY <3>2, Zenon DEF RefuseExtra
    <3> QED
      BY <1>10, <3>1, <3>2, ZenonT(30)
  <2>5. issued \subseteq issued' /\ Fewer
    BY <1>0, <1>n, <1>10 DEF JoinSession, RefuseExtra, Accept
  <2> HIDE DEF s
  <2>6. Response(sess).token = IF sess.pending # 0 THEN sess.pending ELSE sess.token
    BY Zenon DEF Response
  <2>7. \A a \in issued' :
           /\ a.id.token > 0 /\ a.id.token <= fresh'.token
           /\ a.id.sid = s.sid => a.id.token <= s.token \/ a.id.token = s.pending
           /\ a.id.token = s.pending => a.id.sid = s.sid
    BY <1>0, <1>t, <1>a, <2>0, <2>1, <2>2, <2>3, <2>4, <2>5, <2>6 DEF TokenInv
  <2>8. \A a, b \in issued' :
           a.id.sid = b.id.sid /\ a.id.epoch <= b.id.epoch => a.id.token <= b.id.token
    <3> DEFINE r == Response(sess).token
    <3>1. \A a \in issued : a.id.sid = sess.sid => a.id.epoch <= sess.epoch /\ a.id.token <= r
      BY <1>t, <1>a, <2>6 DEF TokenInv, IssuedInv
    <3>2. \A a \in issued : a.id.sid = sess.sid /\ sess.epoch <= a.id.epoch => a.id.token = r
      BY <1>t, <1>a DEF IssuedInv, Key
    <3>3. r \in Nat
      BY <1>t, <2>6, Zenon
    <3> HIDE DEF r
    <3>4. \A a \in issued' :
             a \in issued \/ (a.id.sid = sess.sid /\ a.id.epoch = sess.epoch /\ a.id.token = r)
      BY <2>4, Zenon DEF r
    <3> QED
      BY <1>a, <3>1, <3>2, <3>3, <3>4 DEF TokenInv
  <2>9. \A d \in Conns : wire'[d].kind = "request" => wire'[d].token <= fresh'.token
    BY <1>2, <2>2, <2>5, Zenon
  <2>10. /\ s.token > 0 /\ s.sid = fresh'.sid /\ s.token <= fresh'.token /\ s.pending <= fresh'.token
         /\ s.pending # 0 => s.token < s.pending
    BY <1>0, <1>t, <2>0, <2>1, <2>2, <2>3 DEF TokenInv
  <2> QED
    BY <2>2, <2>7, <2>8, <2>9, <2>10, Zenon DEF TokenInv
<1>13. ASSUME NEW c \in Conns, Cleanup(c) PROVE TokenInv'
  <2>1. /\ sess'.sid = sess.sid /\ sess'.token = sess.token /\ sess'.pending = sess.pending
        /\ UNCHANGED <<issued, fresh, wire>>
    BY <1>0, <1>13, Zenon DEF Cleanup, Entries
  <2>2. sess = NoSession => sess' = NoSession
    BY <1>13 DEF Cleanup, HandlerInv, Key, NoSession
  <2> QED
    BY <1>1, <1>2, <2>1, <2>2, Zenon
<1>16. ASSUME TimerFires \/ ServerExhausted PROVE TokenInv'
  <2>1. /\ sess'.sid = sess.sid /\ sess'.token = sess.token /\ sess'.pending = sess.pending
        /\ UNCHANGED <<issued, fresh, wire>> /\ sess # NoSession
    BY <1>0, <1>16 DEF TimerFires, ServerExhausted, Entries, NoSession
  <2> QED
    BY <1>1, <1>2, <2>1, Zenon
<1>17. ASSUME NEW sid \in firing, TimerCallback(sid) PROVE TokenInv'
  <2>1. UNCHANGED <<issued, fresh, wire>> /\ sess' \in {sess, NoSession}
    BY <1>17, Zenon DEF TimerCallback
  <2> QED
    BY <1>1, <1>2, <2>1, Zenon
<1>18. ASSUME Kick \/ UNCHANGED vars PROVE TokenInv'
  <2>1. UNCHANGED <<issued, fresh, wire>> /\ sess' \in {sess, NoSession}
    BY <1>18, Zenon DEF Kick, vars
  <2> QED
    BY <1>1, <1>2, <2>1, Zenon
<1> QED
  BY <1>3, <1>4, <1>5, <1>6, <1>7, <1>8, <1>9, <1>10, <1>13, <1>16, <1>17, <1>18, ZenonT(30)
     DEF Next, Supervise, Handle, BoundReached

-----------------------------------------------------------------------------
\* Order among identities.
LEMMA OlderOrder ==
    ASSUME NEW x \in Names, NEW y \in Names, NEW z \in Names, ~Older(y, x)
    PROVE  ~Older(x, x) /\ (~Older(z, y) => ~Older(z, x))
  BY DEF Older, Names

\* What the client holds is the answer it was given, or nothing.
LEMMA GivenAnswers ==
    ASSUME IssuedInv, TokenInv, NEW id, Given(id), id.sid > 0 \/ id.token > 0
    PROVE  \E a \in issued : a.id = id
  BY DEF Given, NoIdentity

\* Two identities of one epoch are the same.
LEMMA SameKeySameIdentity ==
    ASSUME EpochHasOneTokenAndInstance, IssuedInv, TokenInv,
           NEW x, NEW y, Given(x), Given(y), x.sid > 0, Key(x) = Key(y)
    PROVE  x = y
<1>1. PICK a \in issued : a.id = x
  BY GivenAnswers, Zenon
<1>2. y.sid > 0
  BY Zenon DEF Key
<1>3. PICK b \in issued : b.id = y
  BY <1>2, GivenAnswers, Zenon
<1> QED
  BY <1>1, <1>3, Zenon DEF EpochHasOneTokenAndInstance

\* A client that has not stepped back finds nothing newer in its state file.
LEMMA RefreshesNothing ==
    ASSUME Typed, EpochHasOneTokenAndInstance, IssuedInv, TokenInv, GivenInv, SavedInv, ~late
    PROVE  Refreshed(client.id) = client.id
<1> SUFFICES ASSUME disk.sid = client.id.sid, disk.sid # 0, disk.epoch >= client.id.epoch
             PROVE  disk = client.id
  BY Zenon DEF Refreshed
<1>1. disk \in Names /\ client.id \in Names
  BY Zenon DEF Typed
<1>2. Key(disk) = Key(client.id) /\ disk.sid > 0
  BY <1>1 DEF SavedInv, Older, Key, Names
<1> QED
  BY <1>2, SameKeySameIdentity, Zenon DEF GivenInv

\* The request presents the token the server has not confirmed yet.
Confirms(req) == sess.pending # 0 /\ req.token = sess.pending

\* Every step keeps what the client holds saved or about to be, as long as none steps back.
LEMMA SavedStep ==
    ASSUME Typed, HandlerInv, EpochHasOneTokenAndInstance, IssuedInv, TokenInv, GivenInv, SavedInv,
           ~KillAnytime, [Next]_vars
    PROVE  SavedInv'
<1> SUFFICES ASSUME ~late' PROVE SavedInv'
  BY Zenon DEF SavedInv
<1>l. late' = late \/ (\E c \in Conns : Apply(c)) \/ (\E c \in Conns : Persist(c))
  BY ZenonT(30) DEF Next, Supervise, Handle, vars, BoundReached, Dial, ReadResponse, ResetEpoch,
     CheckCurrent, Send, Break, CreateSession, RotateSession, JoinSession, Accept, RefuseToken,
     RefuseExtra, Cleanup, ClientExhausted, Restart, TimerFires, TimerCallback, Kick,
     ServerExhausted
<1>2. ~late
  BY <1>l, Zenon DEF Apply, Persist
<1> DEFINE S1 == ~Older(client.id, disk)
           S2 == disk = client.id \/ \E c \in Conns : Unsaved(c) /\ conn[c].resp = client.id
           S5 == \A c \in Conns : conn[c].pc = "saving" => ~Older(client.id, conn[c].resp)
           S3 == \A c \in Conns :
                    wire[c].kind = "request" /\ sess.pending # 0 /\ wire[c].token = sess.pending
                    => client.id.sid = sess.sid /\ client.id.token = sess.pending
           S4 == \A a \in issued :
                    a.id.sid = sess.sid /\ ~Older(a.id, client.id) => a.id.token >= sess.token
<1>s. S1 /\ S2 /\ S3 /\ S4 /\ S5
  BY <1>2, Zenon DEF SavedInv
<1> SUFFICES S1' /\ S2' /\ S3' /\ S4' /\ S5'
  BY Zenon DEF SavedInv
<1>0. /\ sess \in Entries /\ issued \subseteq Answers /\ wire \in [Conns -> Messages]
      /\ conn \in [Conns -> Ends] /\ disk \in Names /\ client.id \in Names
      /\ client \in [instance : Nat \ {0}, id : Names, salt : Salts, run : Nat]
      /\ fresh.token \in Nat /\ fresh.sid \in Nat
  BY Zenon DEF Typed
<1>t. /\ sess.sid \in Nat /\ sess.epoch \in Nat /\ sess.token \in Nat /\ sess.pending \in Nat
  BY <1>0, Zenon DEF Entries
<1>a. \A a \in issued : a.id \in Names
  BY <1>0, Zenon DEF Answers
<1>b. \A a \in issued : a.id.sid \in Nat /\ a.id.epoch \in Nat /\ a.id.token \in Nat
  BY <1>a, Zenon DEF Names
<1>u. \A c \in Conns : Unsent(c).kind = "request" => Unsent(c) = wire[c]
  BY Zenon DEF Unsent, Nothing
<1>n. Nothing.kind # "request"
  BY Zenon DEF Nothing
<1>w. \A c \in Conns : wire[c].kind = "request" => wire[c].token \in Nat
  BY Kinds, Zenon DEF Requests
<1> DEFINE Fewer == \A c \in Conns : wire'[c].kind = "request" => wire'[c] = wire[c]
           SameTokens == /\ sess'.sid = sess.sid /\ sess'.token = sess.token
                         /\ sess'.pending = sess.pending
           Stays == UNCHANGED <<client, disk, conn>>
\* The client's side is left alone: what remains to show is about the session.
<1>p. ASSUME client'.id = client.id, disk' = disk,
             \A c \in Conns : Unsaved(c) => Unsaved(c)' /\ conn'[c].resp = conn[c].resp,
             \A c \in Conns : conn'[c].pc = "saving" =>
                                conn[c].pc = "saving" /\ conn'[c].resp = conn[c].resp
      PROVE  S1' /\ S2' /\ S5'
  <2>1. S1'
    BY <1>p, <1>s, Zenon DEF Older
  <2>2. S2'
    BY <1>p, <1>s, Zenon
  <2>3. S5'
    BY <1>p, <1>s, Zenon DEF Older
  <2> QED
    BY <2>1, <2>2, <2>3, Zenon
<1>q. ASSUME client'.id = client.id, issued' = issued, Fewer, SameTokens \/ sess' = NoSession
      PROVE  S3' /\ S4'
  <2>1. CASE SameTokens
    BY <1>q, <1>s, <2>1, Zenon DEF Older
  <2>2. CASE sess' = NoSession
    <3>1. sess'.sid = 0 /\ sess'.pending = 0
      BY <2>2, Zenon DEF NoSession
    <3> QED
      BY <1>q, <1>b, <3>1 DEF IssuedInv
  <2> QED
    BY <1>q, <2>1, <2>2, Zenon
<1> HIDE DEF S1, S2, S3, S4, S5
<1>3. ASSUME NEW c \in Conns, Dial(c) PROVE S1' /\ S2' /\ S3' /\ S4' /\ S5'
  <2>1. client'.id = client.id
    BY <1>0, <1>2, <1>3, RefreshesNothing, Zenon DEF Dial
  <2>2. UNCHANGED <<sess, issued, disk>>
    BY <1>3, Zenon DEF Dial
  <2>3. \A d \in Conns : Unsaved(d) => Unsaved(d)' /\ conn'[d].resp = conn[d].resp
    BY <1>0, <1>3, Zenon DEF Dial, Unsaved
  <2>4. \A d \in Conns : wire'[d].kind = "request" =>
           wire'[d] = wire[d] \/ wire'[d].token = client.id.token
    BY <1>0, <1>3, <2>1, Zenon DEF Dial
  <2>5. ASSUME sess.pending # 0, client.id.token = sess.pending PROVE client.id.sid = sess.sid
    <3>1. PICK a \in issued : a.id = client.id
      BY <1>t, <2>5, GivenAnswers DEF GivenInv
    <3> QED
      BY <2>5, <3>1, Zenon DEF TokenInv
  <2>6. S3'
    BY <1>s, <2>1, <2>2, <2>4, <2>5, Zenon DEF S3
  <2>7. S4'
    BY <1>s, <2>1, <2>2, Zenon DEF S4, Older
  <2>8. \A d \in Conns : conn'[d].pc = "saving" =>
           conn[d].pc = "saving" /\ conn'[d].resp = conn[d].resp
    BY <1>0, <1>3, ZenonT(30) DEF Dial, Idle, Ends
  <2> QED
    BY <1>p, <2>1, <2>2, <2>3, <2>6, <2>7, <2>8, Zenon
<1>4. ASSUME NEW c \in Conns, ReadResponse(c) PROVE S1' /\ S2' /\ S3' /\ S4' /\ S5'
  <2>1. UNCHANGED <<sess, issued, disk, client>> /\ Fewer
    BY <1>0, <1>n, <1>4, Zenon DEF ReadResponse
  <2>2. \A d \in Conns : Unsaved(d) => Unsaved(d)' /\ conn'[d].resp = conn[d].resp
    BY <1>0, <1>4, Zenon DEF ReadResponse, Unsaved
  <2>3. \A d \in Conns : conn'[d].pc = "saving" =>
           conn[d].pc = "saving" /\ conn'[d].resp = conn[d].resp
    BY <1>0, <1>4, ZenonT(30) DEF ReadResponse, Idle, Ends
  <2> QED
    BY <1>p, <1>q, <2>1, <2>2, <2>3, Zenon
<1>5. ASSUME NEW c \in Conns, Apply(c) PROVE S1' /\ S2' /\ S3' /\ S4' /\ S5'
  <2> DEFINE resp == conn[c].resp
  <2>1. client'.id = resp /\ UNCHANGED <<sess, disk, wire, issued>> /\ resp \in Names
    BY <1>0, <1>5, Zenon DEF Apply, Ends
  <2>2. ~Older(resp, client.id) /\ Given(resp)
    BY <1>5, Zenon DEF Apply, GivenInv
  <2>3. Unsaved(c)' /\ conn'[c].resp = resp
    BY <1>0, <1>5, Zenon DEF Apply, Unsaved, Ends
  <2> HIDE DEF resp
  <2>4. S1'
    BY <1>0, <1>s, <2>1, <2>2, OlderOrder, Zenon DEF S1, Older
  <2>5. S2'
    BY <2>1, <2>3, Zenon DEF S2
  <2>6. S3'
    <3> SUFFICES ASSUME NEW d \in Conns, wire[d].kind = "request", sess.pending # 0,
                        wire[d].token = sess.pending
                 PROVE  resp.sid = sess.sid /\ resp.token = sess.pending
      BY <2>1, Zenon DEF S3
    <3>1. client.id.sid = sess.sid /\ client.id.token = sess.pending
      BY <1>s, Zenon DEF S3
    <3>2. sess.sid = fresh.sid /\ sess.sid > 0 /\ sess.token < sess.pending
      BY DEF TokenInv, HandlerInv, NoSession
    <3>3. PICK a \in issued : a.id = client.id
      BY <3>1, <3>2, GivenAnswers, ZenonT(30) DEF GivenInv
    <3>4. resp.sid > 0
      BY <1>0, <2>1, <2>2, <3>1, <3>2 DEF Older, Names
    <3>5. PICK b \in issued : b.id = resp
      BY <2>2, <3>4, GivenAnswers, ZenonT(30)
    <3>6. resp.sid = sess.sid /\ client.id.epoch <= resp.epoch
      BY <1>0, <1>t, <2>1, <2>2, <3>1, <3>2, <3>5 DEF Older, Names, IssuedInv
    <3>7. client.id.token <= resp.token
      BY <3>1, <3>3, <3>5, <3>6, Zenon DEF TokenInv
    <3>8. resp.token <= sess.token \/ resp.token = sess.pending
      BY <3>5, <3>6, Zenon DEF TokenInv
    <3> QED
      BY <1>t, <2>1, <3>1, <3>2, <3>6, <3>7, <3>8 DEF Names
  <2>7. S4'
    <3> SUFFICES ASSUME NEW a \in issued, a.id.sid = sess.sid, ~Older(a.id, resp)
                 PROVE  a.id.token >= sess.token
      BY <2>1, Zenon DEF S4, Older
    <3>1. ~Older(a.id, client.id)
      BY <1>0, <1>a, <2>1, <2>2, OlderOrder, Zenon
    <3> QED
      BY <1>s, <3>1, Zenon DEF S4
  <2>8. S5'
    <3> SUFFICES ASSUME NEW d \in Conns, conn'[d].pc = "saving" PROVE ~Older(resp, conn'[d].resp)
      BY <2>1, Zenon DEF S5, Older
    <3>1. conn[d].pc = "saving" /\ conn'[d].resp = conn[d].resp /\ conn[d].resp \in Names
      BY <1>0, <1>5, ZenonT(30) DEF Apply, Ends
    <3> QED
      BY <1>0, <1>s, <2>1, <2>2, <3>1, OlderOrder, Zenon DEF S5
  <2> QED
    BY <2>4, <2>5, <2>6, <2>7, <2>8, Zenon
<1>6. ASSUME NEW c \in Conns, ResetEpoch(c) PROVE S1' /\ S2' /\ S3' /\ S4' /\ S5'
  <2>1. UNCHANGED <<sess, issued, disk, wire>> /\ client'.id = client.id
    BY <1>0, <1>6, Zenon DEF ResetEpoch
  <2>2. \A d \in Conns : Unsaved(d) => Unsaved(d)' /\ conn'[d].resp = conn[d].resp
    BY <1>0, <1>6, ZenonT(30) DEF ResetEpoch, Unsaved, Ends
  <2>3. \A d \in Conns : conn'[d].pc = "saving" =>
           conn[d].pc = "saving" /\ conn'[d].resp = conn[d].resp
    BY <1>0, <1>6, ZenonT(30) DEF ResetEpoch, Idle, Ends
  <2> QED
    BY <1>p, <1>q, <2>1, <2>2, <2>3, Zenon
<1>20. ASSUME NEW c \in Conns, CheckCurrent(c) PROVE S1' /\ S2' /\ S3' /\ S4' /\ S5'
  <2>1. UNCHANGED <<sess, issued, client, disk, wire>>
    BY <1>20, Zenon DEF CheckCurrent
  <2>2. \A d \in Conns : conn'[d].resp = conn[d].resp
    BY <1>0, <1>20, Zenon DEF CheckCurrent, Ends
  <2>3. \A d \in Conns : Unsaved(d) /\ conn[d].resp = client.id => Unsaved(d)'
    BY <1>0, <1>20, ZenonT(30) DEF CheckCurrent, Unsaved, Ends
  <2>4. \A d \in Conns : conn'[d].pc = "saving" => conn[d].pc = "saving" \/ conn[d].resp = client.id
    BY <1>0, <1>20, ZenonT(30) DEF CheckCurrent, Ends
  <2>5. S1'
    BY <1>s, <2>1, Zenon DEF S1, Older
  <2>6. S2'
    BY <1>s, <2>1, <2>2, <2>3, Zenon DEF S2
  <2>7. S5'
    <3>1. ~Older(client.id, client.id)
      BY <1>0 DEF Older, Names
    <3> QED
      BY <1>s, <2>1, <2>2, <2>4, <3>1, Zenon DEF S5, Older
  <2> QED
    BY <1>q, <2>1, <2>5, <2>6, <2>7, Zenon
<1>7. ASSUME NEW c \in Conns, Persist(c) PROVE S1' /\ S2' /\ S3' /\ S4' /\ S5'
  <2> DEFINE resp == conn[c].resp
  <2>1. UNCHANGED <<sess, issued, client, wire>> /\ conn[c].pc = "saving" /\ Unsaved(c)
    BY <1>7, Zenon DEF Persist, Unsaved
  <2>2. S3' /\ S4'
    BY <1>q, <2>1, Zenon
  <2>3. \A d \in Conns : d # c => conn'[d] = conn[d]
    BY <1>0, <1>7, Zenon DEF Persist
  <2>4. resp \in Names /\ Given(resp) /\ ~Older(client.id, resp)
    BY <1>0, <1>s, <2>1, Zenon DEF Ends, GivenInv, S5
  <2>5. S5'
    <3>1. conn'[c].pc = "up"
      BY <1>0, <1>7 DEF Persist, Ends
    <3> QED
      BY <1>s, <2>1, <2>3, <3>1, ZenonT(30) DEF S5, Older
  <2> HIDE DEF resp
\* What another connection is about to save is still about to be.
  <2>6. ASSUME client.id # resp, disk # client.id PROVE S2'
    <3>1. PICK d \in Conns : Unsaved(d) /\ conn[d].resp = client.id
      BY <1>s, <2>6, Zenon DEF S2
    <3>2. conn'[d] = conn[d]
      BY <2>3, <2>6, <3>1, Zenon DEF resp
    <3> QED
      BY <2>1, <3>1, <3>2, Zenon DEF S2, Unsaved
  <2>7. CASE ~Outdated(resp)
    <3>1. disk' = resp /\ ~Older(resp, disk)
      BY <1>7, <2>7, Zenon DEF Persist, resp
    <3>2. S1'
      BY <2>1, <2>4, <3>1, Zenon DEF S1, Older
    <3>3. ASSUME client.id # resp, disk = client.id PROVE FALSE
      <4>1. Key(resp) = Key(client.id)
        BY <1>0, <2>4, <3>1, <3>3 DEF Older, Key, Names
      <4>2. CASE resp.sid > 0
        BY <2>4, <3>3, <4>1, <4>2, SameKeySameIdentity, Zenon DEF GivenInv
      <4>3. CASE ~(resp.sid > 0)
        <5>1. ~(client.id.sid > 0)
          BY <4>1, <4>3, Zenon DEF Key
        <5>2. resp = NoIdentity /\ client.id = NoIdentity
          BY <2>4, <4>3, <5>1, Zenon DEF Given, GivenInv, IssuedInv
        <5> QED
          BY <3>3, <5>2, Zenon
      <4> QED
        BY <4>2, <4>3, Zenon
    <3>4. S2'
      BY <2>1, <2>6, <3>1, <3>3, Zenon DEF S2
    <3> QED
      BY <2>2, <2>5, <3>2, <3>4, Zenon
  <2>8. CASE Outdated(resp)
    <3>1. disk' = disk
      BY <1>7, <2>8, Zenon DEF Persist, resp
    <3>2. S1'
      BY <1>s, <2>1, <3>1, Zenon DEF S1, Older
    <3>3. ASSUME client.id = resp PROVE disk = client.id
      <4>1. /\ disk.sid = client.id.sid /\ disk.epoch = client.id.epoch
            /\ disk.token \notin {0, client.id.token}
        BY <1>0, <1>s, <2>8, <3>3 DEF Outdated, S1, Older, Names
      <4>2. disk.token > 0
        BY <1>0, <4>1 DEF Names
      <4>3. PICK a \in issued : a.id = disk
        BY <4>2, GivenAnswers, Zenon DEF GivenInv
      <4>4. disk.sid > 0
        BY <4>3, Zenon DEF IssuedInv
      <4>5. Key(disk) = Key(client.id)
        BY <4>1, Zenon DEF Key
      <4> QED
        BY <4>4, <4>5, SameKeySameIdentity, Zenon DEF GivenInv
    <3>4. S2'
      BY <2>1, <2>6, <3>1, <3>3, Zenon DEF S2
    <3> QED
      BY <2>2, <2>5, <3>2, <3>4, Zenon
  <2> QED
    BY <2>7, <2>8, Zenon
<1>8. ASSUME NEW c \in Conns, Break(c) PROVE S1' /\ S2' /\ S3' /\ S4' /\ S5'
  <2>1. UNCHANGED <<sess, issued, disk, client>> /\ Fewer
    BY <1>0, <1>u, <1>8, Zenon DEF Break
  <2>2. \A d \in Conns : Unsaved(d) => Unsaved(d)' /\ conn'[d].resp = conn[d].resp
    BY <1>0, <1>8, Zenon DEF Break, Unsaved
  <2>3. \A d \in Conns : conn'[d].pc = "saving" =>
           conn[d].pc = "saving" /\ conn'[d].resp = conn[d].resp
    BY <1>0, <1>8, ZenonT(30) DEF Break, Idle, Ends
  <2> QED
    BY <1>p, <1>q, <2>1, <2>2, <2>3, Zenon
<1>9. ASSUME ClientExhausted PROVE S1' /\ S2' /\ S3' /\ S4' /\ S5'
  <2>1. UNCHANGED <<sess, issued, disk>> /\ client'.id = client.id /\ Fewer
    BY <1>0, <1>u, <1>9, Zenon DEF ClientExhausted
  <2>2. \A d \in Conns : Unsaved(d) => Unsaved(d)' /\ conn'[d].resp = conn[d].resp
    BY <1>0, <1>9, ZenonT(30) DEF ClientExhausted, Unsaved, Ends
  <2>3. \A d \in Conns : conn'[d].pc = "saving" =>
           conn[d].pc = "saving" /\ conn'[d].resp = conn[d].resp
    BY <1>0, <1>9, ZenonT(30) DEF ClientExhausted, Idle, Ends
  <2> QED
    BY <1>p, <1>q, <2>1, <2>2, <2>3, Zenon
<1>10. ASSUME Restart PROVE S1' /\ S2' /\ S3' /\ S4' /\ S5'
  <2>1. UNCHANGED <<sess, issued, disk>> /\ client'.id = disk /\ Fewer
    BY <1>0, <1>u, <1>10, Zenon DEF Restart
  <2>2. disk = client.id
    BY <1>10, <1>s, Zenon DEF Restart, Settled, S2, Unsaved
  <2>3. S1' /\ S2'
    BY <1>0, <2>1 DEF S1, S2, Older, Names
  <2>4. S5'
    BY <1>10, Zenon DEF Restart, S5, Idle
  <2> QED
    BY <1>q, <2>1, <2>2, <2>3, <2>4, Zenon
<1>11. ASSUME NEW c \in Conns, CreateSession(c) PROVE S1' /\ S2' /\ S3' /\ S4' /\ S5'
  <2> DEFINE s == NewSession(wire[c])
             new == [id |-> Response(s), instance |-> wire[c].instance]
  <2>1. sess' = s /\ issued' = issued \cup {new} /\ Stays
    BY <1>11, Zenon DEF CreateSession, Accept
  <2>2. s.sid = fresh.sid + 1 /\ s.pending = 0 /\ s.token \in Nat
    BY <1>11, Kinds DEF CreateSession, NewSession, Typed, Requests
  <2>3. new.id.token = s.token
    BY <2>2, Zenon DEF Response
  <2> HIDE DEF s, new
  <2>4. \A a \in issued : a.id.sid # s.sid
    BY <1>0, <1>b, <2>2 DEF IssuedInv
  <2>5. S3'
    BY <2>1, <2>2, ZenonT(30) DEF S3
  <2>6. S4'
    BY <2>1, <2>2, <2>3, <2>4 DEF S4
  <2> QED
    BY <1>p, <2>1, <2>5, <2>6, Zenon DEF Unsaved
\* A request that confirms the pending token is the client's own: what it holds is as new.
<1>12. ASSUME NEW c \in Conns, wire[c].kind = "request", Confirms(wire[c]),
              NEW a \in issued, a.id.sid = sess.sid, ~Older(a.id, client.id)
       PROVE  a.id.token >= sess.pending
  <2>1. client.id.sid = sess.sid /\ client.id.token = sess.pending
    BY <1>s, <1>12, Zenon DEF S3, Confirms
  <2>2. PICK b \in issued : b.id = client.id
    BY <1>t, <1>12, <2>1, GivenAnswers DEF GivenInv, Confirms
  <2>3. client.id.epoch <= a.id.epoch
    BY <1>0, <1>b, <1>12, <2>1 DEF Older, Names
  <2> QED
    BY <1>b, <1>t, <1>12, <2>1, <2>2, <2>3, Zenon DEF TokenInv
<1>13. ASSUME NEW c \in Conns, RotateSession(c) PROVE S1' /\ S2' /\ S3' /\ S4' /\ S5'
  <2> DEFINE s == Rotated(wire[c])
             new == [id |-> Response(s), instance |-> wire[c].instance]
  <2>0. wire[c] \in Requests /\ AcceptsToken(wire[c]) /\ wire[c].kind = "request" /\ sess # NoSession
    BY <1>13, Kinds, Zenon DEF RotateSession
  <2>1. sess' = s /\ issued' = issued \cup {new} /\ Stays /\ Fewer
    BY <1>0, <1>n, <1>13, Zenon DEF RotateSession, Accept
  <2>2. /\ \/ s.token = sess.token /\ sess.pending # 0 /\ s.pending = sess.pending
           \/ s.token = sess.token /\ sess.pending = 0 /\ s.pending = fresh.token + 1
           \/ Confirms(wire[c]) /\ s.token = sess.pending /\ s.pending = fresh.token + 1
        /\ s.sid = sess.sid
        /\ Response(s).token = s.pending
    BY <2>0, RotateCases, Zenon DEF Confirms
  <2>3. new.id.token = s.pending
    BY <2>2, ZenonT(30) DEF Response
  <2> HIDE DEF s, new
  <2>4. s.token <= s.pending /\ s.token \in Nat /\ s.pending \in Nat
    BY <1>0, <1>t, <2>2 DEF TokenInv
  <2>5. \A d \in Conns : wire'[d].kind = "request" => wire'[d].token # fresh.token + 1
    BY <1>0, <1>w, <2>1 DEF TokenInv
  <2>6. S3'
    BY <1>s, <2>1, <2>2, <2>5, Zenon DEF S3
  <2>7. \A a \in issued : a.id.sid = s.sid /\ ~Older(a.id, client.id) => a.id.token >= s.token
    BY <1>s, <1>12, <2>0, <2>2, Zenon DEF S4
  <2>8. S4'
    BY <2>1, <2>3, <2>4, <2>7, Zenon DEF S4, Older
  <2> QED
    BY <1>p, <2>1, <2>6, <2>8, Zenon DEF Unsaved
<1>14. ASSUME NEW c \in Conns, JoinSession(c) \/ RefuseExtra(c) PROVE S1' /\ S2' /\ S3' /\ S4' /\ S5'
  <2> DEFINE s == Confirmed(wire[c])
  <2>0. wire[c] \in Requests /\ wire[c].kind = "request"
    BY <1>14, Kinds, Zenon DEF JoinSession, RefuseExtra
  <2>1. s \in Entries /\ s.sid = sess.sid /\ Response(s).token = Response(sess).token
    BY <2>0, ConfirmedAnswers, Zenon
  <2>2. sess'.token = s.token /\ sess'.pending = s.pending /\ sess'.sid = s.sid
    BY <1>14, <2>1, Zenon DEF JoinSession, RefuseExtra, Accept, Joined, Entries
  <2>3. \/ s.token = sess.token /\ s.pending = sess.pending
        \/ Confirms(wire[c]) /\ s.token = sess.pending /\ s.pending = 0
    BY <2>0, ConfirmCases, Zenon DEF Confirms
  <2>4. \A a \in issued' \ issued : a.id.token = Response(sess).token
    <3>1. CASE JoinSession(c)
      <4>1. Response(Joined(wire[c])).token = Response(sess).token
        BY <2>0, ConfirmedAnswers, Zenon DEF Joined, Response, Entries
      <4>2. issued' = issued \cup {[id |-> Response(Joined(wire[c])), instance |-> wire[c].instance]}
        BY <3>1, Zenon DEF JoinSession, Accept
      <4> QED
        BY <4>1, <4>2
    <3>2. CASE RefuseExtra(c)
      BY <3>2, Zenon DEF RefuseExtra
    <3> QED
      BY <1>14, <3>1, <3>2, Zenon
  <2>5. issued \subseteq issued' /\ Stays
    BY <1>14, Zenon DEF JoinSession, RefuseExtra, Accept
  <2>f. Fewer
    BY <1>0, <1>n, <1>14 DEF JoinSession, RefuseExtra, Accept
  <2> HIDE DEF s
  <2>6. Response(sess).token >= s.token
    BY <1>t, <2>3 DEF Response, TokenInv, Confirms
  <2>7. S3'
    BY <1>s, <2>1, <2>2, <2>3, <2>5, <2>f, ZenonT(30) DEF S3
  <2>8. \A a \in issued : a.id.sid = s.sid /\ ~Older(a.id, client.id) => a.id.token >= s.token
    BY <1>s, <1>12, <2>0, <2>1, <2>3, Zenon DEF S4
  <2>9. S4'
    BY <2>2, <2>4, <2>5, <2>6, <2>8, ZenonT(30) DEF S4, Older
  <2> QED
    BY <1>p, <2>5, <2>7, <2>9, Zenon DEF Unsaved
<1>15. ASSUME NEW c \in Conns, RefuseToken(c) \/ Send(c) PROVE S1' /\ S2' /\ S3' /\ S4' /\ S5'
  <2>1. UNCHANGED <<sess, issued>> /\ Fewer /\ Stays
    BY <1>0, <1>n, <1>15, Zenon DEF RefuseToken, Send
  <2> QED
    BY <1>p, <1>q, <2>1, Zenon DEF Unsaved
<1>16. ASSUME NEW c \in Conns, Cleanup(c) PROVE S1' /\ S2' /\ S3' /\ S4' /\ S5'
  <2>1. SameTokens /\ issued' = issued /\ wire' = wire /\ Stays
    BY <1>0, <1>16, Zenon DEF Cleanup, Entries
  <2> QED
    BY <1>p, <1>q, <2>1, Zenon DEF Unsaved
<1>17. ASSUME TimerFires \/ ServerExhausted PROVE S1' /\ S2' /\ S3' /\ S4' /\ S5'
  <2>1. SameTokens /\ issued' = issued /\ wire' = wire /\ Stays
    BY <1>0, <1>17, Zenon DEF TimerFires, ServerExhausted, Entries
  <2> QED
    BY <1>p, <1>q, <2>1, Zenon DEF Unsaved
<1>18. ASSUME NEW sid \in firing, TimerCallback(sid) PROVE S1' /\ S2' /\ S3' /\ S4' /\ S5'
  <2>1. sess' \in {sess, NoSession} /\ issued' = issued /\ wire' = wire /\ Stays
    BY <1>18, Zenon DEF TimerCallback
  <2> QED
    BY <1>p, <1>q, <2>1, Zenon DEF Unsaved
<1>19. ASSUME Kick \/ UNCHANGED vars PROVE S1' /\ S2' /\ S3' /\ S4' /\ S5'
  <2>1. sess' \in {sess, NoSession} /\ issued' = issued /\ wire' = wire /\ Stays
    BY <1>19, Zenon DEF Kick, vars
  <2> QED
    BY <1>p, <1>q, <2>1, Zenon DEF Unsaved
<1> QED
  BY <1>3, <1>4, <1>5, <1>6, <1>7, <1>8, <1>9, <1>10, <1>11, <1>13, <1>14, <1>15, <1>16,
     <1>17, <1>18, <1>19, <1>20, ZenonT(30) DEF Next, Supervise, Handle, BoundReached

-----------------------------------------------------------------------------
\* Nothing has happened yet: an empty state file, and no token drawn.
LEMMA TokensInitially ==
    ASSUME Init
    PROVE  TokenInv /\ GivenInv /\ SavedInv
<1>1. TokenInv
  BY DEF Init, TokenInv, NoSession, Nothing
<1>2. GivenInv
  BY ZenonT(30) DEF Init, GivenInv, Given, Idle, Nothing
<1>3. SavedInv
  <2>1. \A c \in Conns : conn[c].pc = "idle" /\ wire[c].kind = "none"
    BY Zenon DEF Init, Idle, Nothing
  <2> QED
    BY <2>1 DEF Init, SavedInv, NoSession, NoIdentity, Older
<1> QED
  BY <1>1, <1>2, <1>3, ZenonT(30)

\* What is known of the tokens and of the client's identities holds in every reachable state.
LEMMA AnswersAreSound ==
    Spec => [](/\ Typed /\ HandlerInv /\ IssuedInv /\ EpochHasOneTokenAndInstance
               /\ TokenInv /\ GivenInv)
<1> DEFINE Inv == /\ Typed /\ HandlerInv /\ IssuedInv /\ EpochHasOneTokenAndInstance
                  /\ TokenInv /\ GivenInv
<1>1. Init => Inv
  BY Initially, TokensInitially, Zenon
<1>2. Inv /\ [Next]_vars => Inv'
  BY TypedStep, HandlerStep, IssuedStep, TokenStep, GivenStep, Zenon
<1> QED
  BY <1>1, <1>2, PTL DEF Spec

(***************************************************************************)
(* A client that saved every response it applied, and applied none after a *)
(* newer one, holds in its state file a token that the server accepts for  *)
(* that session, however many responses were lost: the two phases of the   *)
(* token rollover suffice.  Kills between apply and save are excluded.     *)
(***************************************************************************)
THEOREM SavedClientsResume ==
    ASSUME ~KillAnytime
    PROVE  Spec => []SettledIsResumable
<1> DEFINE Answered == /\ Typed /\ HandlerInv /\ IssuedInv /\ EpochHasOneTokenAndInstance
                       /\ TokenInv /\ GivenInv
<1>1. Init => SavedInv
  BY TokensInitially, Zenon
<1>2. Answered /\ SavedInv /\ [Next]_vars => SavedInv'
  BY SavedStep, Zenon
<1>3. Answered /\ SavedInv => SettledIsResumable
  <2> SUFFICES ASSUME Answered, SavedInv, Settled, ~late, disk.sid # 0, disk.sid = sess.sid
               PROVE  disk.token \in {sess.token, sess.pending}
    BY Zenon DEF SettledIsResumable, Resumable
  <2>1. disk = client.id
    BY Zenon DEF SavedInv, Settled, Unsaved
  <2>2. disk \in Names /\ sess.token \in Nat
    BY Zenon DEF Typed, Entries
  <2>3. PICK a \in issued : a.id = disk
    BY <2>2, GivenAnswers DEF GivenInv, Names
  <2>4. disk.token >= sess.token
    BY <2>1, <2>2, <2>3, OlderOrder, Zenon DEF SavedInv, Older, Names
  <2>5. disk.token <= sess.token \/ disk.token = sess.pending
    BY <2>3, Zenon DEF TokenInv
  <2> QED
    BY <2>2, <2>4, <2>5 DEF Names
<1> HIDE DEF Answered
<1>4. Spec => []Answered
  BY AnswersAreSound, Zenon DEF Answered
<1> QED
  BY <1>1, <1>2, <1>3, <1>4, PTL DEF Spec
=============================================================================
