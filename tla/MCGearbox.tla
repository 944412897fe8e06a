----------------------------- MODULE MCGearbox -----------------------------
(* One client side and two line side interfaces; n1 at pin-mode nrz        *)
(* excludes n2. The edits are those whose treatment differs.               *)
EXTENDS GearboxProps

MCIndex == [i \in Ifs |-> IF i = "n2" THEN 2 ELSE 1]
MCConflicts == [i \in Ifs |-> IF i = "n1" THEN {"n2"} ELSE {}]
MCEdits == {[i |-> "n1", l |-> "admin", v |-> "UP"], [i |-> "n1", l |-> "type", v |-> "OTN"],
            [i |-> "n1", l |-> "pin", v |-> "nrz"], [i |-> "n1", l |-> "pin", v |-> Unset],
            [i |-> "n2", l |-> "loop", v |-> "shallow"], [i |-> "n2", l |-> "loop", v |-> Unset]}
MCGConfs == {[flex |-> TRUE, conns |-> {<<"n2", "h1">>}, admin |-> "up"],
             [flex |-> TRUE, conns |-> {}, admin |-> "down"]}
=============================================================================
