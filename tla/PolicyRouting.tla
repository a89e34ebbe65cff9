--------------------------- MODULE PolicyRouting ---------------------------
(***************************************************************************)
(* The client's policy routing: what net_linux.go writes into the kernel   *)
(* and takes out again, and the record client.go keeps of it (prMark,      *)
(* prGw*, prExtra, prSrc, prInstalled) so that the rules of a configuration*)
(* no longer in force can still be removed.                                *)
(*                                                                         *)
(* A kernel is [rules, routes].  A rule selects a table by mark or by      *)
(* source prefix; a table holds one route per destination and family.  A   *)
(* spec is a policyRoutingSpec: mark 0 turns the fwmark rules off, table 0 *)
(* is the main table, gw[f] is "none" when the server offered no gateway.  *)
(* netlink calls succeed, but for RuleAdd of a rule that exists.           *)
(***************************************************************************)
EXTENDS Integers, FiniteSets

Families == {"v4", "v6"}

Without(k, rules, routes) == [rules |-> k.rules \ rules, routes |-> k.routes \ routes]

\* RouteReplace: a table has one route to a destination.
Replaced(old, new) ==
    {r \in old : ~\E n \in new : n.table = r.table /\ n.dst = r.dst /\ n.fam = r.fam} \cup new

Default(table, f, gw) == [table |-> table, dst |-> "default", fam |-> f, gw |-> gw]

\* parsePolicyRoute: a route without a gateway, through the tunnel device.
Extra(table, e) == [table |-> table, dst |-> e.dst, fam |-> e.fam, gw |-> "none"]

Offered(s) == {f \in Families : s.gw[f] # "none"}

SpecEmpty(s) == s.mark = 0 /\ s.src = {}

\* The gateways are not compared: they come with the handshake and change.
SamePolicySpec(a, b) == a.mark = b.mark /\ a.extra = b.extra /\ a.src = b.src

ContainsSpec(specs, s) == \E t \in specs : SamePolicySpec(t, s)

\* removePolicyRules: by mark and table, never by priority.
MarkRules(k, mark) == {r \in k.rules : mark > 0 /\ r.sel = mark /\ r.table = mark}

\* removeSourceRules: by prefix and table.
SourceRules(k, src) == {r \in k.rules : \E x \in src : r.sel = x.from /\ r.table = x.table}

(***************************************************************************)
(* setupFwmarkRoutes adds the rule of a family for its gateway and again   *)
(* for each extra route; the repetition is refused when the priority is    *)
(* fixed.                                                                  *)
(***************************************************************************)
FwmarkRules(s) ==
    {[sel |-> s.mark, table |-> s.mark, fam |-> f] :
        f \in Offered(s) \cup {e.fam : e \in s.extra}}

FwmarkRoutes(s) ==
    {Default(s.mark, f, s.gw[f]) : f \in Offered(s)} \cup {Extra(s.mark, e) : e \in s.extra}

RuleAddRefused(s) ==
    /\ s.mark > 0 /\ s.fixed
    /\ \E f \in Families :
          Cardinality({e \in s.extra : e.fam = f}) + (IF f \in Offered(s) THEN 1 ELSE 0) > 1

\* setupSourceRuleRoutes: a rule whose family has no gateway is an error and is skipped.
UsableSources(s) == {x \in s.src : x.fam \in Offered(s)}

SourceRoutes(s) ==
    UNION {{Default(x.table, x.fam, s.gw[x.fam])} \cup {Extra(x.table, e) : e \in x.routes} :
              x \in UsableSources(s)}

SetupFails(s) == RuleAddRefused(s) \/ UsableSources(s) # s.src

SetupPolicyRouting(k, s) ==
    LET cleared == Without(k, MarkRules(k, s.mark) \cup SourceRules(k, s.src), {})
        marked == IF s.mark = 0 THEN [rules |-> {}, routes |-> {}]
                  ELSE [rules |-> FwmarkRules(s), routes |-> FwmarkRoutes(s)]
    IN  IF SpecEmpty(s) THEN k
        ELSE [rules |-> cleared.rules \cup marked.rules
                        \cup {[sel |-> x.from, table |-> x.table, fam |-> x.fam] :
                                 x \in UsableSources(s)},
              routes |-> Replaced(Replaced(cleared.routes, marked.routes), SourceRoutes(s))]

(***************************************************************************)
(* cleanPolicyRouting.  RouteDel needs the gateway of the route it deletes.*)
(* The fwmark part also runs for mark 0, that is, on the main table.       *)
(***************************************************************************)
CleanPolicyRouting(k, s) ==
    LET tables == {x.table : x \in s.src}
    IN  IF SpecEmpty(s) THEN k
        ELSE Without(k, MarkRules(k, s.mark) \cup SourceRules(k, s.src),
                     {Default(t, f, s.gw[f]) : t \in {s.mark} \cup tables, f \in Offered(s)}
                     \cup {Extra(s.mark, e) : e \in s.extra}
                     \cup UNION {{Extra(x.table, e) : e \in x.routes} : x \in s.src})

\* The deletions of several specs do not depend on one another or on their order.
CleanAll(k, specs) ==
    LET cleaned == {CleanPolicyRouting(k, s) : s \in specs}
    IN  [rules |-> {r \in k.rules : \A c \in cleaned : r \in c.rules},
         routes |-> {r \in k.routes : \A c \in cleaned : r \in c.routes}]

(***************************************************************************)
(* The record: cur is the spec installed last, installed what has to be    *)
(* removed at exit (its order and repetitions do not matter).              *)
(***************************************************************************)
NoRecord(none) == [cur |-> none, installed |-> {}]

Record(rec, s) ==
    LET again == IF ~SpecEmpty(rec.cur) /\ SamePolicySpec(rec.cur, s)
                 THEN {[rec.cur EXCEPT !.gw = s.gw]} ELSE {}
        kept == rec.installed \cup again
    IN  [cur |-> s, installed |-> IF ContainsSpec(kept, s) THEN kept ELSE kept \cup {s}]

\* installPolicyRouting: what the same spec wrote before is removed first.
Install(k, rec, s) ==
    IF ~SpecEmpty(rec.cur) /\ SamePolicySpec(rec.cur, s)
    THEN SetupPolicyRouting(CleanPolicyRouting(k, [rec.cur EXCEPT !.gw = s.gw]), s)
    ELSE SetupPolicyRouting(k, s)

\* What Run's deferred cleanup removes.
SpecsAtExit(rec, now) ==
    LET kept == rec.installed \cup (IF SpecEmpty(rec.cur) THEN {} ELSE {rec.cur})
    IN  IF SpecEmpty(now) \/ ContainsSpec(kept, now) THEN kept ELSE kept \cup {now}
=============================================================================
