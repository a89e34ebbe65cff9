-------------------------- MODULE MCClientProcess --------------------------
(***************************************************************************)
(* Two connections; a configuration with a fwmark and a configured route,  *)
(* one with a source rule instead; a server that may change its gateway.   *)
(***************************************************************************)
EXTENDS ClientProcess

Gateway(g) == [f \in Families |-> IF f = "v4" THEN g ELSE "none"]

Marked == [mark |-> 1, fixed |-> FALSE, src |-> {},
           extra |-> {[dst |-> "lan", fam |-> "v4"]}]

Sourced == [mark |-> 0, fixed |-> FALSE, extra |-> {},
            src |-> {[from |-> 7, fam |-> "v4", table |-> 7, routes |-> {}]}]

MCConfigs == {Marked, Sourced}

OneReload == {<<Marked, Sourced>>}

OneResponse == {[addr |-> "a", gw |-> Gateway("g")]}

TwoResponses == OneResponse \cup {[addr |-> "b", gw |-> Gateway("h")]}

TwoModes == {"netifd", "hooks"}
=============================================================================
