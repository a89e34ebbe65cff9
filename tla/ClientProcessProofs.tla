------------------------ MODULE ClientProcessProofs ------------------------
(***************************************************************************)
(* Proofs about ClientProcess, for any number of connections and any       *)
(* configurations, reloads and handshake responses.                        *)
(***************************************************************************)
EXTENDS ClientProcess, FiniteSetTheorems, TLAPS

-----------------------------------------------------------------------------
(***************************************************************************)
(* What setupPolicyRouting, cleanPolicyRouting and the record of the       *)
(* installed specs do, for any kernel and any specs.                       *)
(*                                                                         *)
(* A rule or a route belongs to a spec when a clean-up of that spec would  *)
(* find it: a rule by its selector and its table, a configured route by    *)
(* its table and destination, a default route only with the gateway it     *)
(* was written with, here one of gws.                                      *)
(***************************************************************************)
RuleOf(r, s) ==
    \/ s.mark > 0 /\ r.sel = s.mark /\ r.table = s.mark
    \/ \E x \in s.src : r.sel = x.from /\ r.table = x.table

RouteOf(r, s, gws) ==
    /\ ~SpecEmpty(s)
    /\ \/ \E e \in s.extra : r = Extra(s.mark, e)
       \/ \E x \in s.src : \E e \in x.routes : r = Extra(x.table, e)
       \/ \E t \in {s.mark} \cup {x.table : x \in s.src}, f \in Families, g \in gws :
             g[f] # "none" /\ r = Default(t, f, g[f])

\* What a spec owns does not depend on its own gateways.
LEMMA SameOwns ==
    ASSUME NEW s, NEW t, SamePolicySpec(s, t), NEW r, NEW gws
    PROVE  (RuleOf(r, s) <=> RuleOf(r, t)) /\ (RouteOf(r, s, gws) <=> RouteOf(r, t, gws))
BY DEF SamePolicySpec, RuleOf, RouteOf, SpecEmpty

\* A clean-up only removes.
LEMMA CleanShrinks ==
    ASSUME NEW k, NEW s
    PROVE  /\ CleanPolicyRouting(k, s).rules \subseteq k.rules
           /\ CleanPolicyRouting(k, s).routes \subseteq k.routes
BY DEF CleanPolicyRouting, Without

\* setupPolicyRouting adds rules of the spec only.
LEMMA SetupAddsRules ==
    ASSUME NEW k, NEW s, s.mark \in Nat, NEW r \in SetupPolicyRouting(k, s).rules
    PROVE  r \in k.rules \/ RuleOf(r, s)
<1>1. CASE SpecEmpty(s)
  BY <1>1 DEF SetupPolicyRouting
<1>2. CASE ~SpecEmpty(s)
  <2>1. \/ r \in k.rules
        \/ s.mark # 0 /\ r \in FwmarkRules(s)
        \/ r \in {[sel |-> x.from, table |-> x.table, fam |-> x.fam] : x \in UsableSources(s)}
    BY <1>2 DEF SetupPolicyRouting, Without
  <2>2. s.mark # 0 /\ r \in FwmarkRules(s) => RuleOf(r, s)
    BY DEF FwmarkRules, RuleOf
  <2>3. r \in {[sel |-> x.from, table |-> x.table, fam |-> x.fam] : x \in UsableSources(s)}
            => RuleOf(r, s)
    BY DEF UsableSources, RuleOf
  <2> QED
    BY <2>1, <2>2, <2>3
<1> QED
  BY <1>1, <1>2

\* setupPolicyRouting adds routes of the spec, through the gateways of the spec, only.
LEMMA SetupAddsRoutes ==
    ASSUME NEW k, NEW s, NEW gws, s.gw \in gws, NEW r \in SetupPolicyRouting(k, s).routes
    PROVE  r \in k.routes \/ RouteOf(r, s, gws)
<1>1. CASE SpecEmpty(s)
  BY <1>1 DEF SetupPolicyRouting
<1>2. CASE ~SpecEmpty(s)
  <2>1. r \in k.routes \/ r \in FwmarkRoutes(s) \/ r \in SourceRoutes(s)
    BY <1>2 DEF SetupPolicyRouting, Without, Replaced
  <2>2. r \in FwmarkRoutes(s) => RouteOf(r, s, gws)
    <3>1. ASSUME NEW f \in Offered(s), r = Default(s.mark, f, s.gw[f]) PROVE RouteOf(r, s, gws)
      BY <1>2, <3>1 DEF RouteOf, Offered
    <3>2. ASSUME NEW e \in s.extra, r = Extra(s.mark, e) PROVE RouteOf(r, s, gws)
      BY <1>2, <3>2 DEF RouteOf
    <3> QED
      BY <3>1, <3>2 DEF FwmarkRoutes
  <2>3. r \in SourceRoutes(s) => RouteOf(r, s, gws)
    <3>1. ASSUME NEW x \in UsableSources(s), r = Default(x.table, x.fam, s.gw[x.fam])
          PROVE  RouteOf(r, s, gws)
      BY <1>2, <3>1 DEF RouteOf, UsableSources, Offered
    <3>2. ASSUME NEW x \in UsableSources(s), NEW e \in x.routes, r = Extra(x.table, e)
          PROVE  RouteOf(r, s, gws)
      BY <1>2, <3>2 DEF RouteOf, UsableSources
    <3> QED
      BY <3>1, <3>2 DEF SourceRoutes
  <2> QED
    BY <2>1, <2>2, <2>3
<1> QED
  BY <1>1, <1>2

\* cleanPolicyRouting removes every rule of the spec.
LEMMA CleanRemovesRule ==
    ASSUME NEW k, NEW s, s.mark \in Nat, NEW r, RuleOf(r, s)
    PROVE  r \notin CleanPolicyRouting(k, s).rules
<1>1. ~SpecEmpty(s)
  BY DEF RuleOf, SpecEmpty
<1>2. CleanPolicyRouting(k, s).rules = k.rules \ (MarkRules(k, s.mark) \cup SourceRules(k, s.src))
  BY <1>1 DEF CleanPolicyRouting, Without
<1> QED
  BY <1>2 DEF RuleOf, MarkRules, SourceRules

\* It removes every configured route, and the default routes with the gateway it knows.
LEMMA CleanRemovesRoute ==
    ASSUME NEW k, NEW s, NEW gws, NEW r, RouteOf(r, s, gws),
           r.gw = "none" \/ \A g \in gws : g = s.gw
    PROVE  r \notin CleanPolicyRouting(k, s).routes
<1>1. ~SpecEmpty(s)
  BY DEF RouteOf
<1> DEFINE tables == {x.table : x \in s.src}
           gone == {Default(t, f, s.gw[f]) : t \in {s.mark} \cup tables, f \in Offered(s)}
                   \cup {Extra(s.mark, e) : e \in s.extra}
                   \cup UNION {{Extra(x.table, e) : e \in x.routes} : x \in s.src}
<1>2. CleanPolicyRouting(k, s).routes = k.routes \ gone
  BY <1>1 DEF CleanPolicyRouting, Without
<1>3. ASSUME NEW e \in s.extra, r = Extra(s.mark, e) PROVE r \in gone
  BY <1>3
<1>4. ASSUME NEW x \in s.src, NEW e \in x.routes, r = Extra(x.table, e) PROVE r \in gone
  BY <1>4
<1>5. ASSUME NEW t \in {s.mark} \cup tables, NEW f \in Families, NEW g \in gws,
             g[f] # "none", r = Default(t, f, g[f])
      PROVE  r \in gone
  <2>1. g = s.gw
    BY <1>5 DEF Default
  <2>2. f \in Offered(s)
    BY <1>5, <2>1 DEF Offered
  <2> QED
    BY <1>5, <2>1, <2>2
<1>6. r \in gone
  <2> HIDE DEF gone
  <2> QED
    BY <1>3, <1>4, <1>5 DEF RouteOf
<1> QED
  BY <1>2, <1>6

\* Installing a spec leaves what was there and what the spec owns.
LEMMA InstallAdds ==
    ASSUME NEW k, NEW rec, NEW s, s.mark \in Nat, NEW gws, s.gw \in gws
    PROVE  /\ \A r \in Install(k, rec, s).rules : r \in k.rules \/ RuleOf(r, s)
           /\ \A r \in Install(k, rec, s).routes : r \in k.routes \/ RouteOf(r, s, gws)
<1> DEFINE cleaned == CleanPolicyRouting(k, [rec.cur EXCEPT !.gw = s.gw])
<1>1. Install(k, rec, s) \in {SetupPolicyRouting(cleaned, s), SetupPolicyRouting(k, s)}
  BY DEF Install
<1>2. cleaned.rules \subseteq k.rules /\ cleaned.routes \subseteq k.routes
  BY CleanShrinks
<1> HIDE DEF cleaned
<1>3. \A r \in Install(k, rec, s).rules : r \in k.rules \/ RuleOf(r, s)
  BY <1>1, <1>2, SetupAddsRules
<1>4. \A r \in Install(k, rec, s).routes : r \in k.routes \/ RouteOf(r, s, gws)
  BY <1>1, <1>2, SetupAddsRoutes, Zenon
<1> QED
  BY <1>3, <1>4

\* The record keeps what it had and holds a spec equal to the installed one.
LEMMA RecordHolds ==
    ASSUME NEW rec, NEW s
    PROVE  /\ rec.installed \subseteq Record(rec, s).installed
           /\ \E t \in Record(rec, s).installed : SamePolicySpec(t, s)
BY DEF Record, ContainsSpec, SamePolicySpec

\* A clean-up of several specs removes what the clean-up of one of them removes.
LEMMA CleanAllRemoves ==
    ASSUME NEW k, NEW specs, NEW s \in specs
    PROVE  /\ CleanAll(k, specs).rules \subseteq k.rules \cap CleanPolicyRouting(k, s).rules
           /\ CleanAll(k, specs).routes \subseteq k.routes \cap CleanPolicyRouting(k, s).routes
BY DEF CleanAll

-----------------------------------------------------------------------------
(***************************************************************************)
(* Types.                                                                  *)
(***************************************************************************)
\* An attempt that has not begun, or has ended, is a state of a connection.
LEMMA AttemptType ==
    ASSUME NEW pc \in Pcs, NEW forced \in BOOLEAN
    PROVE  Attempt(pc, forced) \in ConnStates
BY DEF Attempt, ConnStates

\* What Ended and Goto do to conn and missed is well typed.
LEMMA MoveType ==
    ASSUME TypeOK, NEW c \in Conns, NEW pc \in Pcs, Ended(c) \/ Goto(c, pc)
    PROVE  conn' \in [Conns -> ConnStates] /\ missed' \in [Conns -> BOOLEAN]
<1>1. conn \in [Conns -> ConnStates] /\ missed \in [Conns -> BOOLEAN]
  BY DEF TypeOK
<1>2. CASE Ended(c)
  <2>1. Attempt("waiting", conn[c].forced) \in ConnStates
    BY <1>1, AttemptType DEF ConnStates, Pcs
  <2> QED
    BY <1>1, <1>2, <2>1 DEF Ended
<1>3. CASE Goto(c, pc)
  BY <1>1, <1>3 DEF Goto, ConnStates
<1> QED
  BY <1>2, <1>3

\* PublishDown keeps the types of what it writes.
LEMMA PublishDownType ==
    ASSUME TypeOK, PublishDown
    PROVE  netifd' \in [up : BOOLEAN, resp : Responses \cup {NoResp}] /\ helper' \in BOOLEAN
<1>1. netifd \in [up : BOOLEAN, resp : Responses \cup {NoResp}] /\ helper \in BOOLEAN
  BY DEF TypeOK
<1>2. [up |-> FALSE, resp |-> NoResp] \in [up : BOOLEAN, resp : Responses \cup {NoResp}]
  OBVIOUS
<1>3. netifd' \in [up : BOOLEAN, resp : Responses \cup {NoResp}]
  BY <1>1, <1>2, Zenon DEF PublishDown
<1>4. helper' \in BOOLEAN
  BY <1>1, Zenon DEF PublishDown
<1> QED
  BY <1>3, <1>4

\* The types hold initially.
LEMMA TypeInit == Init => TypeOK
<1> SUFFICES ASSUME Init PROVE TypeOK
  OBVIOUS
<1>1. conn \in [Conns -> ConnStates]
  BY AttemptType, Zenon DEF Init, Pcs
<1>2. hooks \in HookStates /\ netifd \in [up : BOOLEAN, resp : Responses \cup {NoResp}]
  BY DEF Init, HookStates
<1>3. missed \in [Conns -> BOOLEAN]
  BY DEF Init
<1>4. /\ wake \in BOOLEAN /\ quit \in BOOLEAN /\ helper \in BOOLEAN
      /\ gw \in {NoGw} \cup offers /\ offers \subseteq {r.gw : r \in Responses}
  BY Zenon DEF Init
<1>5. /\ mode \in Modes /\ live \in Configs /\ panel \in {"idle", "applying"}
      /\ liveConns \in Int /\ proc \in {"running", "cleaned", "exited"}
  BY DEF Init
<1> QED
  BY <1>1, <1>2, <1>3, <1>4, <1>5 DEF TypeOK

\* Every step keeps the types.
LEMMA TypeStep == TypeOK /\ [Next]_vars => TypeOK'
<1> SUFFICES ASSUME TypeOK, [Next]_vars PROVE TypeOK'
  OBVIOUS
<1> USE DEF ctl, link, host, gateway
<1>1. conn \in [Conns -> ConnStates]
  BY DEF TypeOK
<1>2. ASSUME NEW k \in Configs, ApplyConfig(k) PROVE TypeOK'
  BY <1>2 DEF ApplyConfig, TypeOK
<1>3. CASE ForceReconnect
  <2>1. conn' \in [Conns -> ConnStates]
    BY <1>1, <1>3, ZenonT(60) DEF ForceReconnect, ConnStates
  <2> QED
    BY <1>3, <2>1, ZenonT(60) DEF ForceReconnect, TypeOK
<1>4. CASE Cancel
  BY <1>4 DEF Cancel, TypeOK
<1>5. ASSUME NEW c \in Conns, Supervisor(c) \/ Drop(c) \/ BackoffOver(c) PROVE TypeOK'
  <2>1. CASE Stop(c)
    <3>1. conn' \in [Conns -> ConnStates] /\ missed' \in [Conns -> BOOLEAN]
      BY <2>1, MoveType DEF Stop, Pcs
    <3> QED
      BY <2>1, <3>1 DEF Stop, TypeOK
  <2>2. CASE Dial(c)
    <3> live \in Configs
      BY DEF TypeOK
    <3>1. [conn[c] EXCEPT !.pc = "dialing", !.lv = live] \in ConnStates
      BY <1>1, ZenonT(60) DEF ConnStates, Pcs
    <3>2. conn' \in [Conns -> ConnStates]
      BY <1>1, <2>2, <3>1 DEF Dial
    <3> QED
      BY <2>2, <3>2 DEF Dial, TypeOK
  <2>3. CASE Connected(c)
    <3>1. conn' \in [Conns -> ConnStates]
      BY <1>1, <2>3, ZenonT(60) DEF Connected, ConnStates, Pcs
    <3> QED
      BY <2>3, <3>1 DEF Connected, TypeOK
  <2>4. CASE DialFails(c)
    <3>1. conn' \in [Conns -> ConnStates] /\ missed' \in [Conns -> BOOLEAN]
      BY <2>4, MoveType DEF DialFails, Pcs
    <3> QED
      BY <2>4, <3>1 DEF DialFails, TypeOK
  <2>5. CASE Handshaken(c)
    <3>1. PICK r \in Responses :
             /\ conn' = [conn EXCEPT ![c] =
                           [@ EXCEPT !.pc = IF mode = "netifd" THEN "notifying" ELSE "setup",
                                     !.resp = r]]
             /\ gw' = r.gw /\ offers' = offers \cup {r.gw}
      BY <2>5, Zenon DEF Handshaken
    <3> DEFINE new == [conn[c] EXCEPT !.pc = IF mode = "netifd" THEN "notifying" ELSE "setup",
                                      !.resp = r]
    <3>2. new \in ConnStates
      BY <1>1, ZenonT(60) DEF ConnStates, Pcs
    <3>3. conn' \in [Conns -> ConnStates]
      BY <1>1, <3>1, <3>2
    <3>4. liveConns' \in Int
      BY <2>5 DEF Handshaken, TypeOK
    <3>5. gw' \in {NoGw} \cup offers' /\ offers' \subseteq {x.gw : x \in Responses}
      BY <3>1 DEF TypeOK
    <3> QED
      BY <2>5, <3>3, <3>4, <3>5 DEF Handshaken, TypeOK
  <2>6. CASE SetupNetwork(c)
    <3>1. conn' \in [Conns -> ConnStates] /\ missed' \in [Conns -> BOOLEAN]
      BY <2>6, MoveType DEF SetupNetwork, Pcs
    <3>2. conn[c].resp \in Responses \cup {NoResp}
      BY <1>1 DEF ConnStates
    <3>3. hooks' \in HookStates
      <4> DEFINE resp == conn[c].resp
      <4>1. /\ hooks \in HookStates
            /\ [hooks EXCEPT !.active = TRUE, !.resp = resp] \in HookStates
        BY <3>2, Zenon DEF TypeOK, HookStates
      <4>2. ASSUME NEW result \in {"ok", "failed"} PROVE HooksUp(resp, result) \in HookStates
        BY <3>2, <4>1, Zenon DEF HooksUp, HookStates
      <4>3. \/ hooks' = hooks
            \/ hooks' = [hooks EXCEPT !.active = TRUE, !.resp = resp]
            \/ \E result \in {"ok", "failed"} : hooks' = HooksUp(resp, result)
        BY <2>6 DEF SetupNetwork
      <4> QED
        BY <4>1, <4>2, <4>3
    <3>4. quit' \in BOOLEAN
      BY <2>6, Zenon DEF SetupNetwork, TypeOK
    <3>5. liveConns' \in Int
      BY <2>6 DEF SetupNetwork, TypeOK
    <3> QED
      BY <2>6, <3>1, <3>3, <3>4, <3>5 DEF SetupNetwork, TypeOK
  <2>7. CASE NotifyUp(c)
    <3>1. conn' \in [Conns -> ConnStates] /\ missed' \in [Conns -> BOOLEAN]
      BY <2>7, MoveType DEF NotifyUp, Pcs
    <3>2. [up |-> TRUE, resp |-> conn[c].resp] \in [up : BOOLEAN, resp : Responses \cup {NoResp}]
      BY <1>1 DEF ConnStates
    <3>3. netifd' \in [up : BOOLEAN, resp : Responses \cup {NoResp}]
      BY <2>7, <3>2, Zenon DEF NotifyUp, TypeOK
    <3>4. helper' \in BOOLEAN
      BY <2>7, Zenon DEF NotifyUp, TypeOK
    <3>5. liveConns' \in Int
      BY <2>7 DEF NotifyUp, TypeOK
    <3> QED
      BY <2>7, <3>1, <3>3, <3>4, <3>5, SMTT(30) DEF NotifyUp, TypeOK
  <2>8. CASE NotifyDown(c)
    <3>1. conn' \in [Conns -> ConnStates] /\ missed' \in [Conns -> BOOLEAN]
      BY <2>8, MoveType DEF NotifyDown, Pcs
    <3> QED
      BY <2>8, <3>1, PublishDownType DEF NotifyDown, TypeOK
  <2>9. CASE Woken(c) \/ Poll(c)
    <3>1. [conn[c] EXCEPT !.pc = "idle", !.forced = FALSE] \in ConnStates
      BY <1>1, ZenonT(60) DEF ConnStates, Pcs
    <3>2. conn' \in [Conns -> ConnStates]
      BY <1>1, <2>9, <3>1 DEF Woken, Poll
    <3> QED
      BY <2>9, <3>2, ZenonT(60) DEF Woken, Poll, TypeOK
  <2>10. CASE Drop(c)
    <3>1. conn' \in [Conns -> ConnStates] /\ missed' \in [Conns -> BOOLEAN]
      BY <2>10, MoveType DEF Drop, Pcs
    <3> QED
      BY <2>10, <3>1 DEF Drop, TypeOK
  <2>11. CASE BackoffOver(c)
    <3>1. conn' \in [Conns -> ConnStates] /\ missed' \in [Conns -> BOOLEAN]
      BY <2>11, MoveType DEF BackoffOver, Pcs
    <3> QED
      BY <2>11, <3>1 DEF BackoffOver, TypeOK
  <2> QED
    BY <1>5, <2>1, <2>2, <2>3, <2>4, <2>5, <2>6, <2>7, <2>8, <2>9, <2>10, <2>11 DEF Supervisor
<1>6. CASE Cleanup
  BY <1>6, PublishDownType DEF Cleanup, TypeOK
<1>7. CASE HooksDown
  BY <1>7 DEF HooksDown, TypeOK, HookStates
<1>8. CASE Exited \/ UNCHANGED vars
  BY <1>8 DEF Exited, vars, TypeOK
<1> QED
  BY <1>2, <1>3, <1>4, <1>5, <1>6, <1>7, <1>8 DEF Next

\* Every reachable state of the client process is well typed.
THEOREM TypeCorrect == Spec => []TypeOK
BY TypeInit, TypeStep, PTL DEF Spec

-----------------------------------------------------------------------------
(***************************************************************************)
(* Hot configuration.  The inductive invariant also speaks of a connection *)
(* that is still dialing, which has no socket yet.                         *)
(***************************************************************************)
Dialed == {"handshaking", "setup", "notifying", "up"}

ConfigInv ==
    \A c \in Conns :
        /\ conn[c].pc \in {"idle", "dialing", "waiting"} => conn[c].sock = "none"
        /\ conn[c].pc \in Dialed => conn[c].sock \in {"open", "closed"}
        /\ conn[c].pc \in Dialed \cup {"dialing"} /\ conn[c].lv # live
              => conn[c].sock = "closed" \/ panel = "applying" \/ missed[c]

\* The configuration invariant is preserved by every step.
LEMMA ConfigStep == TypeOK /\ ConfigInv /\ [Next]_vars => ConfigInv'
<1> SUFFICES ASSUME TypeOK, ConfigInv, [Next]_vars PROVE ConfigInv'
  OBVIOUS
<1> USE DEF ctl, Dialed
<1>1. conn \in [Conns -> ConnStates] /\ missed \in [Conns -> BOOLEAN]
  BY DEF TypeOK
<1>2. ASSUME NEW k \in Configs, ApplyConfig(k) PROVE ConfigInv'
  BY <1>2, SMTT(30) DEF ApplyConfig, ConfigInv
<1>3. CASE ForceReconnect
  BY <1>1, <1>3, ZenonT(60) DEF ForceReconnect, ConfigInv, ConnStates
<1>4. CASE Cancel
  BY <1>4 DEF Cancel, ConfigInv
<1>5. ASSUME NEW c \in Conns, Supervisor(c) \/ Drop(c) \/ BackoffOver(c) PROVE ConfigInv'
  <2> USE DEF ConnStates
  <2>0. ASSUME live' = live, panel' = panel, Ended(c) PROVE ConfigInv'
    BY <1>1, <2>0 DEF Ended, Attempt, ConfigInv
  <2>1. CASE Stop(c)
    BY <1>1, <2>1 DEF Stop, Goto, ConfigInv
  <2>2. CASE Dial(c)
    BY <1>1, <2>2 DEF Dial, ConfigInv
  <2>3. CASE Connected(c)
    BY <1>1, <2>3 DEF Connected, ConfigInv
  <2>4. CASE DialFails(c)
    BY <2>0, <2>4 DEF DialFails
  <2>5. CASE Handshaken(c)
    BY <1>1, <2>5 DEF Handshaken, ConfigInv
  <2>6. CASE SetupNetwork(c)
    <3>1. live' = live /\ panel' = panel /\ conn[c].pc = "setup" /\ (Goto(c, "up") \/ Ended(c))
      BY <2>6 DEF SetupNetwork
    <3> QED
      BY <1>1, <2>0, <3>1 DEF Goto, ConfigInv
  <2>7. CASE NotifyUp(c)
    <3>1. live' = live /\ panel' = panel /\ conn[c].pc = "notifying" /\ (Goto(c, "up") \/ Ended(c))
      BY <2>7 DEF NotifyUp
    <3> QED
      BY <1>1, <2>0, <3>1 DEF Goto, ConfigInv
  <2>8. CASE NotifyDown(c)
    BY <2>0, <2>8 DEF NotifyDown
  <2>9. CASE Woken(c) \/ Poll(c)
    <3>1. conn' = [conn EXCEPT ![c] = [@ EXCEPT !.pc = "idle", !.forced = FALSE]]
      BY <2>9 DEF Woken, Poll
    <3>2. conn[c].pc = "waiting" /\ live' = live /\ panel' = panel /\ missed' = missed
      BY <2>9 DEF Woken, Poll
    <3> QED
      BY <1>1, <3>1, <3>2 DEF ConfigInv
  <2>10. CASE Drop(c)
    <3>1. live' = live /\ panel' = panel /\ (Goto(c, "downing") \/ Ended(c))
      BY <2>10 DEF Drop
    <3> QED
      BY <1>1, <2>0, <3>1 DEF Goto, ConfigInv
  <2>11. CASE BackoffOver(c)
    BY <1>1, <2>11 DEF BackoffOver, Goto, ConfigInv
  <2> QED
    BY <1>5, <2>1, <2>2, <2>3, <2>4, <2>5, <2>6, <2>7, <2>8, <2>9, <2>10, <2>11 DEF Supervisor
<1>6. CASE Cleanup \/ HooksDown \/ Exited \/ UNCHANGED vars
  BY <1>6 DEF Cleanup, HooksDown, Exited, vars, ConfigInv
<1> QED
  BY <1>2, <1>3, <1>4, <1>5, <1>6 DEF Next

(***************************************************************************)
(* For any number of connections and any reloads, a connection past its    *)
(* dial that runs on a replaced configuration has lost its socket, is      *)
(* about to, or was dialing when the reconnect came (ApplyConfig,          *)
(* ForceReconnect, dialAndServe).                                          *)
(***************************************************************************)
THEOREM OldConfigurationsEnd == Spec => []OldConfigOnlyIfDialing
<1>1. Init => ConfigInv
  BY DEF Init, Attempt, ConfigInv, Dialed
<1>2. ConfigInv => OldConfigOnlyIfDialing
  BY DEF ConfigInv, OldConfigOnlyIfDialing, Dialed
<1> QED
  BY <1>1, <1>2, TypeCorrect, ConfigStep, PTL DEF Spec

-----------------------------------------------------------------------------
(***************************************************************************)
(* netifd.  liveConns counts the connections between their registration    *)
(* and their loss; the interface may be up without one only while the      *)
(* connection that was lost last is on its way to notifyNetifdDown.        *)
(***************************************************************************)
Linked == {c \in Conns : conn[c].pc \in {"notifying", "up"}}

LinkInv ==
    /\ liveConns = Cardinality(Linked)
    /\ mode = "netifd" => \A c \in Conns : conn[c].pc # "setup"
    /\ mode # "netifd" => ~netifd.up /\ \A c \in Conns : conn[c].pc \notin {"notifying", "downing"}
    /\ mode = "netifd" /\ (\E c \in Conns : conn[c].pc = "up") => netifd.up
    /\ mode = "netifd" /\ helper /\ netifd.up /\ liveConns = 0
          => \E c \in Conns : conn[c].pc = "downing"

\* The linked connections are finitely many, so that liveConns is zero only without one.
LEMMA LinkedCount ==
    /\ IsFiniteSet(Linked) /\ Cardinality(Linked) \in Nat
    /\ Cardinality(Linked) = 0 <=> Linked = {}
<1>1. IsFiniteSet(Linked)
  BY ClientProcessAssumption, FS_Subset DEF Linked
<1> QED
  BY <1>1, FS_CardinalityType, FS_EmptySet

\* A connection that links, or is lost, changes the count by one.
LEMMA LinkedStep ==
    ASSUME NEW c \in Conns,
           \A d \in Conns \ {c} : conn'[d].pc = conn[d].pc
    PROVE  /\ c \notin Linked /\ c \in Linked' => Cardinality(Linked') = Cardinality(Linked) + 1
           /\ c \in Linked /\ c \notin Linked' => Cardinality(Linked') = Cardinality(Linked) - 1
           /\ (c \in Linked <=> c \in Linked') => Linked' = Linked
<1>1. c \in Linked' => Linked' = Linked \cup {c}
  BY DEF Linked
<1>2. c \notin Linked' => Linked' = Linked \ {c}
  BY DEF Linked
<1>3. IsFiniteSet(Linked)
  BY LinkedCount
<1>4. CASE c \notin Linked /\ c \in Linked'
  BY <1>1, <1>3, <1>4, FS_AddElement
<1>5. CASE c \in Linked /\ c \notin Linked'
  BY <1>2, <1>3, <1>5, FS_RemoveElement
<1>6. CASE c \in Linked <=> c \in Linked'
  BY <1>1, <1>2, <1>6
<1> QED
  BY <1>4, <1>5, <1>6

\* PublishDown leaves the interface up only with a live connection or a failed helper.
LEMMA PublishedDown ==
    ASSUME TypeOK, PublishDown
    PROVE  /\ helper' /\ netifd'.up => liveConns # 0 /\ UNCHANGED <<netifd, helper>>
           /\ liveConns # 0 => UNCHANGED <<netifd, helper>>
<1>1. CASE (~netifd.up \/ liveConns # 0) /\ UNCHANGED <<netifd, helper>>
  BY <1>1
<1>2. CASE netifd.up /\ liveConns = 0 /\ netifd' = [up |-> FALSE, resp |-> NoResp] /\ helper' = TRUE
  BY <1>2
<1>3. CASE netifd.up /\ liveConns = 0 /\ helper' = FALSE /\ UNCHANGED netifd
  BY <1>3
<1> QED
  BY <1>1, <1>2, <1>3 DEF PublishDown

\* The link invariant is preserved by every step.
LEMMA LinkStep == TypeOK /\ LinkInv /\ [Next]_vars => LinkInv'
<1> SUFFICES ASSUME TypeOK, LinkInv, [Next]_vars PROVE LinkInv'
  OBVIOUS
<1> USE DEF ctl, link, host
<1>1. conn \in [Conns -> ConnStates] /\ liveConns \in Int
  BY DEF TypeOK
<1>2. Cardinality(Linked) \in Nat /\ (Cardinality(Linked) = 0 <=> Linked = {})
  BY LinkedCount
\* A step that keeps every pc, and the link.
<1>3. ASSUME \A d \in Conns : conn'[d].pc = conn[d].pc,
             UNCHANGED <<mode, liveConns, netifd, helper>>
      PROVE  LinkInv'
  <2>1. Linked' = Linked
    BY <1>3 DEF Linked
  <2> QED
    BY <1>3, <2>1 DEF LinkInv
\* A step of a connection that is not linked and will not be.
<1>4. ASSUME NEW c \in Conns, \A d \in Conns \ {c} : conn'[d].pc = conn[d].pc,
             conn[c].pc \notin {"notifying", "up", "downing"},
             conn'[c].pc \in {"idle", "dialing", "handshaking", "waiting", "gone"},
             UNCHANGED <<mode, liveConns, netifd, helper>>
      PROVE  LinkInv'
  <2>1. Linked' = Linked
    BY <1>4 DEF Linked
  <2> QED
    BY <1>4, <2>1 DEF LinkInv
<1>5. CASE (\E k \in Configs : ApplyConfig(k)) \/ Cancel \/ HooksDown \/ Exited \/ UNCHANGED vars
  BY <1>3, <1>5, Zenon DEF ApplyConfig, Cancel, HooksDown, Exited, vars
<1>6. CASE ForceReconnect
  BY <1>1, <1>3, <1>6, ZenonT(60) DEF ForceReconnect, ConnStates
<1>7. CASE Cleanup
  <2>1. Linked = {} /\ liveConns = 0 /\ \A d \in Conns : conn[d].pc = "gone"
    BY <1>2, <1>7 DEF Cleanup, Linked, LinkInv
  <2>2. Linked' = Linked /\ conn' = conn /\ liveConns' = liveConns /\ mode' = mode
    BY <1>7 DEF Cleanup, Linked
  <2>3. mode = "netifd" => ~(helper' /\ netifd'.up)
    BY <1>7, <2>1, PublishedDown DEF Cleanup
  <2>4. mode # "netifd" => netifd' = netifd
    BY <1>7 DEF Cleanup
  <2> QED
    BY <2>1, <2>2, <2>3, <2>4 DEF LinkInv
<1>8. ASSUME NEW c \in Conns, Supervisor(c) \/ Drop(c) \/ BackoffOver(c) PROVE LinkInv'
  <2> USE DEF ConnStates
  <2>1. CASE Stop(c) \/ BackoffOver(c)
    BY <1>1, <1>4, <2>1 DEF Stop, BackoffOver, Goto
  <2>2. CASE Dial(c)
    BY <1>1, <1>4, <2>2 DEF Dial
  <2>3. CASE Connected(c)
    BY <1>1, <1>4, <2>3 DEF Connected
  <2>4. CASE DialFails(c)
    BY <1>1, <1>4, <2>4 DEF DialFails, Ended, Attempt
  <2>5. CASE Handshaken(c)
    <3>1. /\ \A d \in Conns \ {c} : conn'[d].pc = conn[d].pc
          /\ conn[c].pc = "handshaking"
          /\ conn'[c].pc = IF mode = "netifd" THEN "notifying" ELSE "setup"
      BY <1>1, <2>5 DEF Handshaken
    <3>2. UNCHANGED <<mode, netifd, helper>>
      BY <2>5 DEF Handshaken
    <3>3. CASE mode = "netifd"
      <4>1. Cardinality(Linked') = Cardinality(Linked) + 1
        BY <3>1, <3>3, LinkedStep DEF Linked
      <4>2. liveConns' = liveConns + 1
        BY <2>5, <3>3 DEF Handshaken
      <4> QED
        BY <1>2, <3>1, <3>2, <3>3, <4>1, <4>2, SMTT(30) DEF LinkInv
    <3>4. CASE mode # "netifd"
      <4>1. Linked' = Linked
        BY <3>1, <3>4, LinkedStep DEF Linked
      <4>2. liveConns' = liveConns
        BY <2>5, <3>4 DEF Handshaken
      <4> QED
        BY <3>1, <3>2, <3>4, <4>1, <4>2 DEF LinkInv
    <3> QED
      BY <3>3, <3>4
  <2>6. CASE SetupNetwork(c)
    <3>1. conn[c].pc = "setup" /\ mode # "netifd" /\ UNCHANGED <<mode, netifd, helper>>
      BY <2>6 DEF SetupNetwork, LinkInv
    <3>2. CASE Goto(c, "up") /\ liveConns' = liveConns + 1
      <4>1. (\A d \in Conns \ {c} : conn'[d].pc = conn[d].pc) /\ conn'[c].pc = "up"
        BY <1>1, <3>2 DEF Goto
      <4>2. Cardinality(Linked') = Cardinality(Linked) + 1
        BY <3>1, <4>1, LinkedStep DEF Linked
      <4> QED
        BY <3>1, <3>2, <4>1, <4>2 DEF LinkInv
    <3>3. CASE Ended(c) /\ UNCHANGED liveConns
      BY <1>1, <1>4, <3>1, <3>3 DEF Ended, Attempt
    <3> QED
      BY <2>6, <3>2, <3>3 DEF SetupNetwork
  <2>7. CASE NotifyUp(c)
    <3>1. conn[c].pc = "notifying" /\ mode = "netifd" /\ mode' = mode /\ c \in Linked
      BY <2>7 DEF NotifyUp, LinkInv, Linked
    <3>2. CASE Goto(c, "up") /\ netifd'.up /\ liveConns' = liveConns
      <4>1. (\A d \in Conns \ {c} : conn'[d].pc = conn[d].pc) /\ conn'[c].pc = "up"
        BY <1>1, <3>2 DEF Goto
      <4>2. Linked' = Linked /\ liveConns' # 0
        BY <1>2, <3>1, <3>2, <4>1 DEF Linked, LinkInv
      <4> QED
        BY <3>1, <3>2, <4>1, <4>2 DEF LinkInv
    <3>3. CASE Ended(c) /\ liveConns' = liveConns - 1 /\ ~helper' /\ netifd' = netifd
      <4>1. (\A d \in Conns \ {c} : conn'[d].pc = conn[d].pc) /\ conn'[c].pc = "waiting"
        BY <1>1, <3>3 DEF Ended, Attempt
      <4>2. Cardinality(Linked') = Cardinality(Linked) - 1
        BY <3>1, <4>1, LinkedStep, SMTT(30) DEF Linked
      <4> QED
        BY <3>1, <3>3, <4>1, <4>2 DEF LinkInv
    <3> QED
      BY <2>7, <3>2, <3>3, SMTT(30) DEF NotifyUp
  <2>8. CASE NotifyDown(c)
    <3>1. conn[c].pc = "downing" /\ PublishDown /\ UNCHANGED <<mode, liveConns>>
      BY <2>8 DEF NotifyDown
    <3>2. (\A d \in Conns \ {c} : conn'[d].pc = conn[d].pc) /\ conn'[c].pc = "waiting"
      BY <1>1, <2>8 DEF NotifyDown, Ended, Attempt
    <3>3. Linked' = Linked
      BY <3>1, <3>2 DEF Linked
    <3>4. mode = "netifd"
      BY <3>1 DEF LinkInv
    <3>5. (\E d \in Conns : conn'[d].pc = "up") => netifd'.up
      <4> SUFFICES ASSUME NEW d \in Conns, conn'[d].pc = "up" PROVE netifd'.up
        OBVIOUS
      <4>1. conn[d].pc = "up" /\ d \in Linked
        BY <3>1, <3>2 DEF Linked
      <4>2. netifd.up /\ liveConns # 0
        BY <1>2, <3>4, <4>1 DEF LinkInv
      <4> QED
        BY <3>1, <4>2, PublishedDown
    <3>6. ~(helper' /\ netifd'.up /\ liveConns' = 0)
      BY <3>1, PublishedDown
    <3> QED
      BY <3>1, <3>2, <3>3, <3>4, <3>5, <3>6 DEF LinkInv
  <2>9. CASE Woken(c) \/ Poll(c)
    <3>1. conn' = [conn EXCEPT ![c] = [@ EXCEPT !.pc = "idle", !.forced = FALSE]]
      BY <2>9 DEF Woken, Poll
    <3>2. conn[c].pc = "waiting" /\ UNCHANGED <<mode, liveConns, netifd, helper>>
      BY <2>9 DEF Woken, Poll
    <3> QED
      BY <1>1, <1>4, <3>1, <3>2
  <2>10. CASE Drop(c)
    <3>1. conn[c].pc = "up" /\ liveConns' = liveConns - 1 /\ UNCHANGED <<mode, netifd, helper>>
      BY <2>10 DEF Drop
    <3>2. /\ \A d \in Conns \ {c} : conn'[d].pc = conn[d].pc
          /\ conn'[c].pc = IF liveConns = 1 /\ mode = "netifd" THEN "downing" ELSE "waiting"
      BY <1>1, <2>10, SMTT(30) DEF Drop, Goto, Ended, Attempt
    <3>3. Cardinality(Linked') = Cardinality(Linked) - 1
      BY <3>1, <3>2, LinkedStep DEF Linked
    <3> QED
      BY <1>1, <3>1, <3>2, <3>3 DEF LinkInv
  <2> QED
    BY <1>8, <2>1, <2>2, <2>3, <2>4, <2>5, <2>6, <2>7, <2>8, <2>9, <2>10, SMTT(30) DEF Supervisor
<1> QED
  BY <1>5, <1>6, <1>7, <1>8 DEF Next

\* The link invariant holds in every reachable state.
LEMMA LinkInvariant == Spec => []LinkInv
<1>1. Init => LinkInv
  <2> SUFFICES ASSUME Init PROVE LinkInv
    OBVIOUS
  <2>1. /\ \A c \in Conns : conn[c].pc = "idle"
        /\ ~netifd.up /\ liveConns = 0
    BY DEF Init, Attempt
  <2>2. Linked = {}
    BY <2>1 DEF Linked
  <2> QED
    BY <2>1, <2>2, FS_EmptySet DEF LinkInv
<1> QED
  BY <1>1, TypeCorrect, LinkStep, PTL DEF Spec

(***************************************************************************)
(* For any number of connections, once no update is on its way netifd      *)
(* shows the interface up exactly when a connection is live, unless the    *)
(* last helper call failed (notifyNetifdUp, notifyNetifdDown, liveConns).  *)
(***************************************************************************)
THEOREM NetifdIsRight == Spec => []NetifdFollowsLinks
<1>1. LinkInv => NetifdFollowsLinks
  BY LinkedCount DEF LinkInv, NetifdFollowsLinks, Linked
<1> QED
  BY <1>1, LinkInvariant, PTL

-----------------------------------------------------------------------------
(***************************************************************************)
(* The host's network.  While the process runs, every rule and route in    *)
(* the kernel belongs to a recorded spec, whatever was installed since,    *)
(* and every recorded gateway was returned by a handshake.  After the      *)
(* clean-up nothing is left but default routes through an older gateway.   *)
(***************************************************************************)
Specs(gws) == {SpecFor(lv, g) : lv \in Configs \cup {NoConfig}, g \in gws}

RunningInv ==
    /\ record.cur \in Specs({NoGw} \cup offers) /\ record.installed \subseteq Specs(offers)
    /\ \A r \in kernel.rules : \E s \in record.installed : RuleOf(r, s)
    /\ \A r \in kernel.routes : \E s \in record.installed : RouteOf(r, s, offers)

CleanedInv ==
    /\ \A c \in Conns : conn[c].pc = "gone"
    /\ kernel.rules = {}
    /\ \A r \in kernel.routes : r.gw # "none" /\ \E g, h \in offers : g # h
    /\ helper => ~netifd.up

HostInv ==
    /\ \A c \in Conns : conn[c].pc = "setup" => conn[c].resp.gw \in offers
    /\ proc = "running" => RunningInv
    /\ proc # "running" => CleanedInv

\* Specs have natural marks, and another gateway makes another spec.
LEMMA SpecFacts ==
    ASSUME NEW gws, NEW s \in Specs(gws), NEW hws, NEW g \in hws
    PROVE  s.mark \in Nat /\ s.gw \in gws /\ [s EXCEPT !.gw = g] \in Specs(hws)
<1>1. PICK lv \in Configs \cup {NoConfig}, h \in gws : s = SpecFor(lv, h)
  BY DEF Specs
<1>2. lv.mark \in Nat
  BY ClientProcessAssumption DEF NoConfig
<1>3. [s EXCEPT !.gw = g] = SpecFor(lv, g)
  BY <1>1, SMTT(30) DEF SpecFor
<1> QED
  BY <1>1, <1>2, <1>3 DEF SpecFor, Specs

\* More gateways only make more specs and more routes.
LEMMA MoreGateways ==
    ASSUME NEW gws, NEW hws, gws \subseteq hws
    PROVE  /\ Specs(gws) \subseteq Specs(hws)
           /\ \A r, s : RouteOf(r, s, gws) => RouteOf(r, s, hws)
BY SMTT(30) DEF Specs, RouteOf

\* Installing and recording a spec keeps the record complete.
LEMMA InstallRecorded ==
    ASSUME RunningInv, NEW s \in Specs(offers), offers' = offers,
           kernel' = Install(kernel, record, s), record' = Record(record, s)
    PROVE  RunningInv'
<1>1. s.mark \in Nat /\ s.gw \in offers
  BY SpecFacts, ZenonT(60)
<1>2. record'.cur \in Specs({NoGw} \cup offers)
  BY MoreGateways DEF Record
<1>3. record'.installed \subseteq Specs(offers)
  <2>1. [record.cur EXCEPT !.gw = s.gw] \in Specs(offers)
    BY <1>1, SpecFacts DEF RunningInv
  <2> QED
    BY <2>1 DEF Record, RunningInv
<1>4. PICK t \in record'.installed : SamePolicySpec(t, s)
  BY RecordHolds
<1>5. record.installed \subseteq record'.installed
  BY RecordHolds
<1>6. ASSUME NEW r \in kernel'.rules PROVE \E u \in record'.installed : RuleOf(r, u)
  <2>1. r \in kernel.rules \/ RuleOf(r, s)
    BY <1>1, InstallAdds, SMTT(30)
  <2> QED
    BY <1>4, <1>5, <2>1, SameOwns DEF RunningInv
<1>7. ASSUME NEW r \in kernel'.routes PROVE \E u \in record'.installed : RouteOf(r, u, offers)
  <2>1. r \in kernel.routes \/ RouteOf(r, s, offers)
    BY <1>1, InstallAdds, SMTT(30)
  <2> QED
    BY <1>4, <1>5, <2>1, SameOwns, SMTT(30) DEF RunningInv
<1> QED
  BY <1>2, <1>3, <1>6, <1>7 DEF RunningInv

\* Run's deferred clean-up leaves nothing but default routes through an older gateway.
LEMMA CleanupUndoes ==
    ASSUME RunningInv, NEW now, offers' = offers,
           kernel' = CleanAll(kernel, SpecsAtExit(record, now))
    PROVE  /\ kernel'.rules = {}
           /\ \A r \in kernel'.routes : r.gw # "none" /\ \E g, h \in offers : g # h
<1>1. record.installed \subseteq SpecsAtExit(record, now)
  BY DEF SpecsAtExit
<1>2. ASSUME NEW s \in record.installed
      PROVE  /\ s.mark \in Nat /\ s.gw \in offers
             /\ kernel'.rules \subseteq kernel.rules \cap CleanPolicyRouting(kernel, s).rules
             /\ kernel'.routes \subseteq kernel.routes \cap CleanPolicyRouting(kernel, s).routes
  BY <1>1, <1>2, CleanAllRemoves, SpecFacts, ZenonT(60) DEF RunningInv
<1>3. kernel'.rules \subseteq kernel.rules /\ kernel'.routes \subseteq kernel.routes
  BY DEF CleanAll
<1>4. ASSUME NEW r \in kernel'.rules PROVE FALSE
  <2>1. PICK s \in record.installed : RuleOf(r, s)
    BY <1>3 DEF RunningInv
  <2> QED
    BY <1>2, <2>1, CleanRemovesRule
<1>5. ASSUME NEW r \in kernel'.routes
      PROVE  r.gw # "none" /\ \E g, h \in offers : g # h
  <2>1. PICK s \in record.installed : RouteOf(r, s, offers)
    BY <1>3 DEF RunningInv
  <2>2. r \in CleanPolicyRouting(kernel, s).routes
    BY <1>2
  <2>3. ~(r.gw = "none" \/ \A g \in offers : g = s.gw)
    BY <2>1, <2>2, CleanRemovesRoute, ZenonT(60)
  <2> QED
    BY <1>2, <2>3, SMTT(30)
<1> QED
  BY <1>4, <1>5, SMTT(30)

\* The host invariant is preserved by every step.
LEMMA HostStep == TypeOK /\ LinkInv /\ HostInv /\ [Next]_vars => HostInv'
<1> SUFFICES ASSUME TypeOK, LinkInv, HostInv, [Next]_vars PROVE HostInv'
  OBVIOUS
<1> USE DEF ctl, link, host, gateway
<1>1. conn \in [Conns -> ConnStates]
  BY DEF TypeOK
\* A running process, a step that leaves the kernel and the record.
<1>2. ASSUME proc = "running", proc' = proc, UNCHANGED <<kernel, record>>, offers \subseteq offers',
             \A c \in Conns : conn'[c].pc = "setup" => conn'[c].resp.gw \in offers'
      PROVE  HostInv'
  <2>1. Specs({NoGw} \cup offers) \subseteq Specs({NoGw} \cup offers')
    BY <1>2, MoreGateways
  <2>2. /\ Specs(offers) \subseteq Specs(offers')
        /\ \A r, s : RouteOf(r, s, offers) => RouteOf(r, s, offers')
    BY <1>2, MoreGateways, SMTT(30)
  <2>3. RunningInv'
    BY <1>2, <2>1, <2>2, SMTT(30) DEF HostInv, RunningInv
  <2> QED
    BY <1>2, <2>3 DEF HostInv
<1>3. CASE \E k \in Configs : ApplyConfig(k)
  BY <1>2, <1>3 DEF ApplyConfig, HostInv
<1>4. CASE ForceReconnect
  BY <1>1, <1>2, <1>4, ZenonT(60) DEF ForceReconnect, HostInv, ConnStates
<1>5. CASE Cancel \/ Exited \/ UNCHANGED vars
  <2>1. UNCHANGED <<conn, kernel, record, offers, proc, helper, netifd>>
    BY <1>5 DEF Cancel, Exited, vars
  <2> QED
    BY <2>1 DEF HostInv, RunningInv, CleanedInv
<1>6. ASSUME NEW c \in Conns, Supervisor(c) \/ Drop(c) \/ BackoffOver(c) PROVE HostInv'
  <2> USE DEF ConnStates
  <2>1. proc = "running"
    <3>1. conn[c].pc # "gone"
      BY <1>6, ZenonT(60) DEF Supervisor, Stop, Dial, Connected, DialFails, Handshaken,
                  SetupNetwork, NotifyUp, NotifyDown, Woken, Poll, Drop, BackoffOver
    <3> QED
      BY <3>1, SMTT(30) DEF HostInv, CleanedInv
  \* The other connections stay, this one does not go to its network set-up.
  <2>2. ASSUME \A d \in Conns \ {c} : conn'[d] = conn[d], conn'[c].pc # "setup",
               UNCHANGED <<kernel, record, offers, proc>>
        PROVE  HostInv'
    <3>1. \A d \in Conns : conn'[d].pc = "setup" => conn'[d].resp.gw \in offers'
      BY <2>2 DEF HostInv
    <3> QED
      BY <1>2, <2>1, <2>2, <3>1, SMTT(30)
  <2>3. CASE Stop(c) \/ BackoffOver(c)
    BY <1>1, <2>2, <2>3 DEF Stop, BackoffOver, Goto
  <2>4. CASE Dial(c)
    BY <1>1, <2>2, <2>4 DEF Dial
  <2>5. CASE Connected(c)
    BY <1>1, <2>2, <2>5, SMTT(30) DEF Connected
  <2>6. CASE DialFails(c)
    BY <1>1, <2>2, <2>6 DEF DialFails, Ended, Attempt
  <2>7. CASE Handshaken(c)
    <3>1. PICK r \in Responses :
             /\ conn' = [conn EXCEPT ![c] =
                           [@ EXCEPT !.pc = IF mode = "netifd" THEN "notifying" ELSE "setup",
                                     !.resp = r]]
             /\ offers' = offers \cup {r.gw}
      BY <2>7, ZenonT(60) DEF Handshaken
    <3>2. UNCHANGED <<kernel, record, proc>>
      BY <2>7 DEF Handshaken
    <3>3. ASSUME NEW d \in Conns, conn'[d].pc = "setup" PROVE conn'[d].resp.gw \in offers'
      BY <1>1, <3>1, <3>3, SMTT(30) DEF HostInv
    <3> QED
      BY <1>2, <2>1, <3>1, <3>2, <3>3, SMTT(30)
  <2>8. CASE SetupNetwork(c)
    <3> DEFINE spec == SpecFor(conn[c].lv, conn[c].resp.gw)
    <3>1. /\ kernel' = Install(kernel, record, spec) /\ record' = Record(record, spec)
          /\ offers' = offers /\ proc' = proc
      BY <2>8 DEF SetupNetwork
    <3>2. spec \in Specs(offers)
      <4>1. conn[c].resp.gw \in offers
        BY <2>8 DEF SetupNetwork, HostInv
      <4>2. conn[c].lv \in Configs \cup {NoConfig}
        BY <1>1
      <4> QED
        BY <4>1, <4>2 DEF Specs
    <3> HIDE DEF spec
    <3>3. RunningInv'
      BY <2>1, <3>1, <3>2, InstallRecorded DEF HostInv
    <3>4. Goto(c, "up") \/ Ended(c)
      BY <2>8 DEF SetupNetwork
    <3>5. \A d \in Conns : conn'[d].pc = "setup" => conn'[d] = conn[d]
      BY <1>1, <3>4 DEF Goto, Ended, Attempt
    <3> QED
      BY <2>1, <3>1, <3>3, <3>5 DEF HostInv
  <2>9. CASE NotifyUp(c)
    <3>1. (Goto(c, "up") \/ Ended(c)) /\ UNCHANGED <<kernel, record, offers, proc>>
      BY <2>9 DEF NotifyUp
    <3> QED
      BY <1>1, <2>2, <3>1, SMTT(30) DEF Goto, Ended, Attempt
  <2>10. CASE NotifyDown(c)
    BY <1>1, <2>2, <2>10 DEF NotifyDown, Ended, Attempt
  <2>11. CASE Woken(c) \/ Poll(c)
    <3>1. conn' = [conn EXCEPT ![c] = [@ EXCEPT !.pc = "idle", !.forced = FALSE]]
      BY <2>11 DEF Woken, Poll
    <3>2. UNCHANGED <<kernel, record, offers, proc>>
      BY <2>11 DEF Woken, Poll
    <3> QED
      BY <1>1, <2>2, <3>1, <3>2
  <2>12. CASE Drop(c)
    <3>1. (Goto(c, "downing") \/ Ended(c)) /\ UNCHANGED <<kernel, record, offers, proc>>
      BY <2>12, SMTT(30) DEF Drop
    <3> QED
      BY <1>1, <2>2, <3>1, SMTT(30) DEF Goto, Ended, Attempt
  <2> QED
    BY <1>6, <2>3, <2>4, <2>5, <2>6, <2>7, <2>8, <2>9, <2>10, <2>11, <2>12, SMTT(30) DEF Supervisor
<1>7. CASE Cleanup
  <2>1. /\ RunningInv /\ offers' = offers /\ conn' = conn /\ proc' = "cleaned"
        /\ kernel' = CleanAll(kernel, SpecsAtExit(record, SpecFor(live, gw)))
        /\ \A c \in Conns : conn[c].pc = "gone"
    BY <1>7, SMTT(30) DEF Cleanup, HostInv
  <2>2. /\ kernel'.rules = {}
        /\ \A r \in kernel'.routes : r.gw # "none" /\ \E g, h \in offers : g # h
    BY <2>1, CleanupUndoes, SMTT(30)
  <2>3. liveConns = 0
    BY <2>1, LinkedCount DEF LinkInv, Linked
  <2>4. helper' => ~netifd'.up
    <3>1. CASE mode = "netifd"
      BY <1>7, <2>3, <3>1, PublishedDown DEF Cleanup
    <3>2. CASE mode # "netifd"
      BY <1>7, <3>2 DEF Cleanup, LinkInv
    <3> QED
      BY <3>1, <3>2
  <2> QED
    BY <2>1, <2>2, <2>4 DEF HostInv, CleanedInv
<1>8. CASE HooksDown
  BY <1>8 DEF HooksDown, HostInv, CleanedInv
<1> QED
  BY <1>3, <1>4, <1>5, <1>6, <1>7, <1>8 DEF Next

(***************************************************************************)
(* For any number of connections, configurations, reloads and responses:   *)
(* a process that has ended leaves no rule and no configured route, a      *)
(* default route only when the server changed its gateway, and no          *)
(* interface up at netifd unless its helper failed (Run's deferred         *)
(* clean-up, prInstalled).                                                 *)
(***************************************************************************)
THEOREM ExitIsClean == Spec => []ExitUndoesSetup
<1>1. Init => HostInv
  <2> SUFFICES ASSUME Init PROVE HostInv
    OBVIOUS
  <2>1. NoSpec \in Specs({NoGw} \cup offers)
    BY DEF NoSpec, Specs
  <2>2. RunningInv
    BY <2>1, SMTT(30) DEF Init, NoRecord, RunningInv
  <2> QED
    BY <2>2 DEF Init, Attempt, HostInv
<1>2. HostInv => ExitUndoesSetup
  BY DEF HostInv, CleanedInv, ExitUndoesSetup
<1> QED
  BY <1>1, <1>2, TypeCorrect, LinkInvariant, HostStep, PTL DEF Spec
=============================================================================
