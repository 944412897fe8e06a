----------------------------- MODULE MCOcState -----------------------------
(***************************************************************************)
(* Two transceiver slots, three modules (with one network interface, with  *)
(* two and with none), one fan and one power supply. The hardware moves    *)
(* between a selection of states with every kind of irregularity.          *)
(***************************************************************************)
EXTENDS OcStateProps

P1 == <<"port", "1">>
P2 == <<"port", "2">>
MCXcvrs == <<P1, P2>>
MCIfOf == (P1 :> "c1") @@ (P2 :> "c2")
M1 == <<"piu", "1">>
M2 == <<"piu", "2">>
M3 == <<"piu", "3">>
MCMods == <<M1, M2, M3>>
MCNetifs == <<[mod |-> M1, netif |-> "0"], [mod |-> M2, netif |-> "0"], [mod |-> M2, netif |-> "1"]>>
MCTpOf == [l1 |-> [mod |-> M1, host |-> "0"], l2 |-> [mod |-> M2, host |-> "0"],
            l3 |-> [mod |-> M3, host |-> "0"]]
MCOthers == (<<"FAN", "1">> :> "FAN") @@ (<<"PSU", "1">> :> "POWER_SUPPLY")
MCModes == <<[id |-> 1, rate |-> 100, map |-> "otu4-lr"], [id |-> 2, rate |-> 200, map |-> "flexo-lr"]>>
MCOrIfs == [otsi |-> [type |-> "otsi", pack |-> M1, mod |-> M1, sup |-> None],
            eth |-> [type |-> "eth", pack |-> P2, mod |-> M2, sup |-> None],
            odu |-> [type |-> "odu", pack |-> P2, mod |-> None, sup |-> "eth"]]

Netif(rate, map) == [status |-> "ready", rate |-> rate, map |-> map]
Module(status, netifs, hostrate) == [status |-> status, netifs |-> netifs, hosts |-> ("0" :> hostrate)]
Base ==
  [components |-> (P1 :> "PRESENT") @@ (P2 :> "PRESENT") @@ (<<"FAN", "1">> :> "RUNNING") @@ (<<"PSU", "1">> :> "FAILED"),
   modules |-> (M1 :> Module("ready", "0" :> Netif(100, "otu4-lr"), 100))
               @@ (M2 :> Module("ready", ("0" :> Netif(200, "flexo-lr")) @@ ("1" :> Netif(400, "flexo-lr")), 200)),
   interfaces |-> [c1 |-> [admin |-> "UP", oper |-> "UP", fec |-> "RS", counters |-> <<3, None, 2>>],
                   c2 |-> [admin |-> "UP", oper |-> "DORMANT", fec |-> "FC", counters |-> <<>>],
                   l1 |-> [admin |-> "DOWN", oper |-> "DOWN", fec |-> "NONE", counters |-> <<1>>],
                   l2 |-> [admin |-> "UP", oper |-> "UP", fec |-> "NONE", counters |-> <<2, 2, 2>>]],
   gearboxes |-> {<<"c1", "l1">>, <<"c2", "l2">>},
   subscriptions |-> {<<0, 1>>, <<1, 0>>, <<1, 1>>}]
Without(f, k) == [x \in DOMAIN f \ {k} |-> f[x]]
\* a module without a network interface behind c1
Bare ==
  [Base EXCEPT !.modules = (M3 :> Module("ready", <<>>, 200)) @@ @, !.gearboxes = {<<"c1", "l3">>, <<"c2", "l2">>},
               !.interfaces = [l3 |-> [admin |-> "UP", oper |-> "UP", fec |-> "NONE", counters |-> <<>>]] @@ @]
\* no component data, a slot that is not listed, one that is configured and not reported
MCHardware ==
  {Base, Bare,
   [Base EXCEPT !.components = <<>>],
   [Base EXCEPT !.components = Without(@, P2)],
   [Base EXCEPT !.components[P1] = None],
   [Base EXCEPT !.components[P1] = "UNPLUGGED"],
   [Base EXCEPT !.components[P2] = "UNPLUGGED", !.gearboxes = {<<"c1", "l1">>}],
   [Base EXCEPT !.modules = Without(@, M1)],
   [Base EXCEPT !.modules = Without(@, M2), !.subscriptions = {}],
   [Base EXCEPT !.modules = <<>>, !.components[P2] = "UNPLUGGED"],
   [Base EXCEPT !.modules[M1].status = "initialize", !.modules[M1].netifs["0"].rate = None],
   [Base EXCEPT !.modules[M2].hosts["0"] = None, !.modules[M2].netifs["0"] = Netif(100, None)],
   [Base EXCEPT !.modules[M2].netifs["0"] = Netif(400, "flexo-lr"), !.modules[M2].netifs["1"] = Netif(400, "otu4-lr"), !.modules[M2].hosts["0"] = 400],
   [Base EXCEPT !.gearboxes = {<<"c1", "l2">>, <<"c2", "l1">>}],
   [Base EXCEPT !.gearboxes = {<<"c1", "l1">>, <<"c1", "l2">>}],
   [Base EXCEPT !.gearboxes = {<<"c2", "l2">>}, !.components[P1] = "UNPLUGGED"],
   [Base EXCEPT !.interfaces = Without(@, "l1")],
   [Base EXCEPT !.interfaces = Without(@, "c2"), !.modules[M1].status = "unknown"]}
=============================================================================
