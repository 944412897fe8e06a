------------------------------ MODULE MCOcnos ------------------------------
(***************************************************************************)
(* One interface, one VLAN, and configurations that exercise every leaf,   *)
(* their removal and the changes of mode.                                  *)
(***************************************************************************)
EXTENDS OcnosProps
CONSTANTS e1, v1, s1

Plain == [admin |-> "UP", mtu |-> None, speed |-> None, auto |-> None, mode |-> None, access |-> None, trunk |-> {}]
Target(c, v) == [intf |-> [i \in Ifs |-> c], vlan |-> [w \in Vids |-> v]]
MCTargets ==
  {Target(None, "named"), Target(Plain, None),
   Target([Plain EXCEPT !.admin = None, !.mtu = "m"], "unnamed"),
   Target([Plain EXCEPT !.auto = "off", !.speed = s1, !.mode = "ACCESS"], "named"),
   Target([Plain EXCEPT !.auto = "on"], "named"),
   Target([Plain EXCEPT !.auto = "on", !.mtu = "m", !.mode = "ACCESS", !.access = v1], "named"),
   Target([Plain EXCEPT !.admin = "DOWN", !.speed = s1, !.mode = "TRUNK", !.trunk = {v1}], "unnamed"),
   Target([Plain EXCEPT !.mode = "TRUNK", !.trunk = {v1}], None)}
=============================================================================
