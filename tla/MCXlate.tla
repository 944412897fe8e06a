------------------------------ MODULE MCXlate ------------------------------
(***************************************************************************)
(* Instance: two modules; one client port, which the gearbox connects to   *)
(* one of two network interfaces; one client circuit pack whose host       *)
(* interface depends on its pin mode; an optical interface that is         *)
(* configured on either module.                                            *)
(***************************************************************************)
EXTENDS XlateProps

MCModules == {"piu1", "piu2"}
MCHostOf == [c \in {"port1"} |-> "if1"]
MCNets == {"net1", "net2"}
MCPortMap == [p \in {"cp1"} |-> ("NRZ" :> "host1") @@ ("PAM4" :> "host2")]
MCModes == ("m1" :> [rate |-> "100g", mod |-> "dp-qpsk", fec |-> "sc-fec", map |-> "otu4"])
           @@ ("m2" :> [rate |-> "400g", mod |-> "dp-16-qam", fec |-> "ofec", map |-> "otu4"])
MCOtsi == {"ots1"}
MCEths == {"eth1"}

Set1(s, o, l, v) == [s |-> s, chg |-> <<[lf |-> Leaf(s, o, l), v |-> v]>>]
Set2(s, o, l, v, p, k, w) == [s |-> s, chg |-> <<[lf |-> Leaf(s, o, l), v |-> v], [lf |-> Leaf(s, p, k), v |-> w]>>]
MCRequests ==
  <<Set2("ocp", "piu1", "admin-state", "MAINT", "port1", "admin-state", "ENABLED"),
    Set1("ocp", "port1", "admin-state", Unset),
    Set2("ocp", "piu1", "operational-mode", "m1", "piu1", "frequency", 193),
    Set2("ocp", "piu1", "operational-mode", Unset, "piu1", "target-output-power", 0),
    Set1("ocp", "piu1", "target-output-power", Unset), Set1("ocp", "piu1", "operational-mode", "m9"),
    Set1("oci", "if1", "enabled", FALSE), Set1("oci", "if1", "enabled", Unset),
    Set2("oci", "if1", "fec-mode", "FEC_RS544", "if1", "enabled", TRUE),
    Set2("or", "ots1", "pack", "piu1", "ots1", "otsi-rate", "R200G"),
    Set2("or", "ots1", "pack", "piu2", "ots1", "otsi-rate", "R100G"),
    Set2("or", "ots1", "otsi-rate", Unset, "ots1", "pack", Unset),
    Set2("or", "ots1", "optical-operational-mode", "m2", "ots1", "modulation-format", "dp-qpsk"),
    Set2("or", "ots1", "frequency", 19300, "ots1", "fec", "scfec"),
    Set2("or", "ots1", "loopback", "fac2", "ots1", "transmit-power", 3), Set1("or", "ots1", "loopback", Unset),
    Set2("or", "eth1", "pack", "cp1", "eth1", "speed", 200000), Set1("or", "eth1", "eth-fec", "baser")>>

Env(net, pin, mods) == [conn |-> [c \in {"port1"} |-> net], pin |-> [p \in {"cp1"} |-> pin], mods |-> mods]
MCEnvs == {Env("net1", "PAM4", {"piu1", "piu2"}), Env("net2", "NRZ", {"piu1"})}
=============================================================================
