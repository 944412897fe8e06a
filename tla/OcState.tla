------------------------------ MODULE OcState ------------------------------
(***************************************************************************)
(* The operational data of the translators. A request reads the native     *)
(* datasets one after the other while the hardware changes, and builds     *)
(* objects of a service model from what it read: the component tree of     *)
(* openconfig-platform, the logical channels of openconfig-terminal-       *)
(* device, the interfaces of openconfig-interfaces, the circuit packs and  *)
(* interfaces of org-openroadm-device, the monitored resources of          *)
(* org-openroadm-pm and the subscriptions of openconfig-telemetry.         *)
(*                                                                         *)
(* A name is the sequence of its parts, the pieces between its dashes.     *)
(***************************************************************************)
EXTENDS Integers, Sequences, SequencesExt, FiniteSets, TLC

CONSTANTS Xcvrs,       \* transceiver slots, in the order the platform lists them
          IfOf,        \* transceiver slot -> the client side interface behind it
          Mods,        \* transponder modules, in order
          Netifs,      \* their network interfaces, in order: [mod, netif]
          TpOf,        \* line side interface -> [mod, host], the transponder port behind it
          Others,      \* fans and power supplies: name -> type
          Modes,       \* operational modes, in order: [id, rate, map]
          OrIfs,       \* org-openroadm-device interfaces: name -> [type, pack, mod, sup], mod is the
                       \* module the pack stands for
          Hardware,    \* states of the hardware, see hw
          MaxCounter,  \* the counters are taken modulo this
          IdRange,     \* the ids of subscribe requests and of subscriptions are below it: 2 ^ 32
          MaxEvents, MaxRequests,
          None

VARIABLES hw,      \* [components, modules, interfaces, gearboxes, subscriptions]: what each dataset would answer now
          req,     \* the request being answered: its kind, the datasets still to read, those read
          answer,  \* the last answer
          count

vars == <<hw, req, answer, count>>

SetOf(s) == {s[i] : i \in DOMAIN s}
Kinds == {"platform", "terminal", "interfaces", "openroadm", "pm", "telemetry"}
Datasets(ds) == [i \in DOMAIN ds |-> [set |-> ds[i], mod |-> None]]
Modular(set, ms) == [i \in DOMAIN ms |-> [set |-> set, mod |-> ms[i]]]
\* the interfaces whose module _oper_interfaces asks for
OrAsked == SetToSeq({x \in DOMAIN OrIfs : OrIfs[x].type \in {"otsi", "eth"}})
\* required_data of the factories; DeviceServer reads the modules one by one, for the circuit
\* packs and again for each interface
Required == [platform |-> Datasets(<<"components", "modules", "interfaces">>),
             terminal |-> Datasets(<<"components", "modules", "interfaces", "gearboxes">>),
             interfaces |-> Datasets(<<"components", "interfaces">>),
             openroadm |-> Datasets(<<"components">>) \o Modular("modules", Mods)
                           \o Modular("again", [i \in DOMAIN OrAsked |-> OrIfs[OrAsked[i]].mod]),
             pm |-> Datasets(<<"modules">>),
             telemetry |-> Datasets(<<"subscriptions">>)]

-----------------------------------------------------------------------------
(* ComponentNameResolver                                                   *)
LinePort(m) == <<"line">> \o m
LineTransceiver(m) == <<"transceiver">> \o LinePort(m)
OpticalChannelName(m, n) == <<"och">> \o LineTransceiver(m) \o <<n>>
ClientPort(c) == <<"client">> \o c
ClientTransceiver(c) == <<"transceiver">> \o ClientPort(c)
\* name.split(part)[1]: what stands between its first and its second occurrence
Find(name, part) == LET I == {i \in DOMAIN name : name[i] = part} IN IF I = {} THEN 0 ELSE Min(I)
Split1(name, part) ==
  LET rest == SubSeq(name, Find(name, part) + 1, Len(name))
      j == Find(rest, part)
  IN IF j = 0 THEN rest ELSE SubSeq(rest, 1, j - 1)
\* the module is taken to be a single part
ParseOpticalChannelShort(name) == [mod |-> <<name[4]>>, netif |-> name[5]]
ParseOpticalChannel(name) ==
  LET s == Split1(name, "och")
  IN [mod |-> Split1(Split1(Front(s), "transceiver"), "line"), netif |-> Last(s)]
ParseClientPort(name) == Split1(name, "client")
Chassis == <<"CHASSIS">>

\* the network interfaces of a module, and list(module["network-interface"])[0]
NetifsOf(m) == {Netifs[i].netif : i \in {j \in DOMAIN Netifs : Netifs[j].mod = m}}
FirstNetif(m) == Netifs[Min({i \in DOMAIN Netifs : Netifs[i].mod = m})].netif

\* the parts of a name are none of the words that composed names begin with
Reserved == {"line", "client", "transceiver", "och"}
IsName(name) == name \in Seq(SetOf(name)) /\ SetOf(name) \cap Reserved = {}
Names == SetOf(Mods) \cup SetOf(Xcvrs) \cup DOMAIN Others
ASSUME StAssumption ==
  /\ \A name \in Names : IsName(name) /\ name # Chassis
  /\ SetOf(Mods) \cap SetOf(Xcvrs) = {} /\ DOMAIN Others \cap (SetOf(Mods) \cup SetOf(Xcvrs)) = {}
  /\ Xcvrs \in Seq(SetOf(Xcvrs)) /\ \A i, j \in DOMAIN Xcvrs : Xcvrs[i] = Xcvrs[j] => i = j
  /\ Netifs \in Seq([mod : SetOf(Mods), netif : {Netifs[i].netif : i \in DOMAIN Netifs} \ Reserved])
  /\ \A i, j \in DOMAIN Netifs : Netifs[i] = Netifs[j] => i = j
  /\ DOMAIN Modes \subseteq Nat /\ \A o \in DOMAIN Others : Others[o] \in {"FAN", "POWER_SUPPLY"}
  /\ \A h \in Hardware : h.subscriptions \subseteq (0 .. IdRange - 1) \X (0 .. IdRange - 1)
  /\ None \notin Kinds \cup {ClientTransceiver(c) : c \in SetOf(Xcvrs)}
  /\ Hardware # {} /\ {MaxCounter, IdRange, MaxEvents, MaxRequests} \subseteq Nat \ {0}

-----------------------------------------------------------------------------
(* openconfig-platform: g is what the request read                         *)

ModsIn(g) == {m \in SetOf(Mods) : m \in DOMAIN g.modules}
\* the components that were read, with their status, or None if they are configured and no server
\* reports a state of them; there are none at all when the dataset has no data
XcvrsIn(g) == {c \in SetOf(Xcvrs) : c \in DOMAIN g.components}
OthersIn(g) == {o \in DOMAIN Others : o \in DOMAIN g.components}
Component(name, type, parent, status) ==
  [name |-> name, type |-> type, parent |-> parent, status |-> status, mode |-> None]
ChassisComponent == Component(Chassis, "CHASSIS", None, "ACTIVE")
ModuleStatus(s) == CASE s = "ready" -> "ACTIVE" [] s = "initialize" -> "INACTIVE" [] OTHER -> "DISABLED"
NetifStatus(s) == CASE s = "ready" -> "ACTIVE" [] s = "unknown" -> "DISABLED" [] OTHER -> "INACTIVE"
TerminalLinePort(g, m) == Component(LinePort(m), "PORT", Chassis, ModuleStatus(g.modules[m].status))
\* update_by_parent: a transceiver takes the status of its port
LineTransceiverOf(g, m) ==
  Component(LineTransceiver(m), "TRANSCEIVER", LinePort(m), TerminalLinePort(g, m).status)
\* _operational_mode: the first mode with the parameters of the interface
OperationalMode(n) ==
  LET I == {i \in DOMAIN Modes : Modes[i].rate = n.rate /\ Modes[i].map = n.map}
  IN IF n.rate = None \/ n.map = None \/ I = {} THEN None ELSE Modes[Min(I)].id
OpticalChannel(g, m, n) ==
  [Component(OpticalChannelName(m, n), "OPTICAL_CHANNEL", LineTransceiver(m), NetifStatus(g.modules[m].netifs[n].status))
     EXCEPT !.mode = OperationalMode(g.modules[m].netifs[n])]
\* _get_interface: the interface connected to a platform component, if it was read
InterfaceOf(g, c) == IF IfOf[c] \in DOMAIN g.interfaces THEN g.interfaces[IfOf[c]] ELSE None
ClientStatus(presence, i) ==
  IF i = None THEN None
  ELSE CASE presence = "PRESENT" /\ i.oper = "UP" -> "ACTIVE"
         [] presence = "PRESENT" /\ i.oper \in {"DOWN", "DORMANT"} -> "INACTIVE"
         [] OTHER -> "DISABLED"
TerminalClientPort(g, c) ==
  Component(ClientPort(c), "PORT", Chassis, ClientStatus(g.components[c], InterfaceOf(g, c)))
Plugged(g, c) == c \in XcvrsIn(g) /\ g.components[c] # "UNPLUGGED"
\* the status is not taken from the port
ClientTransceiverAlone(g, c) ==
  Component(ClientTransceiver(c), "TRANSCEIVER", ClientPort(c), IF g.components[c] = "PRESENT" THEN "ACTIVE" ELSE "DISABLED")
ClientTransceiverOf(g, c) ==
  Component(ClientTransceiver(c), "TRANSCEIVER", ClientPort(c), TerminalClientPort(g, c).status)
OtherStatus(s) == CASE s = "RUNNING" -> "ACTIVE" [] s = "FAILED" -> "INACTIVE" [] OTHER -> "DISABLED"
FanOrPowerSupply(g, o) == Component(o, Others[o], Chassis, OtherStatus(g.components[o]))

CreateComponents(g) ==
  LET ms == ModsIn(g)
      cs == XcvrsIn(g)
  IN {ChassisComponent}
     \cup {TerminalLinePort(g, m) : m \in ms} \cup {LineTransceiverOf(g, m) : m \in ms}
     \cup (UNION {{OpticalChannel(g, m, n) : n \in NetifsOf(m)} : m \in ms})
     \cup {TerminalClientPort(g, c) : c \in cs} \cup {ClientTransceiverOf(g, c) : c \in {d \in cs : Plugged(g, d)}}
     \cup {FanOrPowerSupply(g, o) : o \in OthersIn(g)}
\* component["state"] of a component without one
ComponentsFail(g) == \E c \in DOMAIN g.components : g.components[c] = None
-----------------------------------------------------------------------------
(* openconfig-terminal-device: logical channels and their assignments      *)

DefaultSignalRate == 100
DefaultLineRate == 100
DefaultMapping == "flexo-lr"
Or(v, default) == IF v = None THEN default ELSE v

\* _create_client_side_mapping: the ports whose transceiver is plugged and whose line side
\* interfaces were all read, with those interfaces
LineIfsOf(g, c) == {p[2] : p \in {q \in g.gearboxes : IfOf[c] \in DOMAIN g.interfaces /\ q[1] = IfOf[c]}}
ClientMapped(g) == {k \in DOMAIN Xcvrs : Plugged(g, Xcvrs[k]) /\ LineIfsOf(g, Xcvrs[k]) \subseteq DOMAIN g.interfaces}
\* _get_tp: the module behind a line side interface and its first network interface, if it has one
TransponderOf(g, l) ==
  IF l \in DOMAIN TpOf /\ TpOf[l].mod \in DOMAIN g.modules /\ NetifsOf(TpOf[l].mod) # {}
  THEN [mod |-> TpOf[l].mod, host |-> TpOf[l].host, netif |-> FirstNetif(TpOf[l].mod)] ELSE None
TpOfPort(g, c) == TransponderOf(g, CHOOSE l \in LineIfsOf(g, c) : TRUE)

Channel(proto, rate, ingress) == [proto |-> proto, rate |-> rate, ingress |-> ingress]
\* LogicalChannelClientSignal, LogicalChannelODU, LogicalChannelOTU and their subclasses
ClientSignal(rate, transceiver) == Channel("ETHERNET", rate, transceiver)
Odu(proto, rate) == Channel(proto, rate, None)
Otu(proto, rate) == Channel(proto, rate, None)
\* _create_client_side_logical_channels: a pair for a client signal, or nothing
ClientPair(g, c) ==
  LET tp == TpOfPort(g, c)
      rate == IF tp = None THEN DefaultSignalRate ELSE Or(g.modules[tp.mod].hosts[tp.host], DefaultSignalRate)
      map == IF tp = None THEN DefaultMapping ELSE Or(g.modules[tp.mod].netifs[tp.netif].map, DefaultMapping)
      client == ClientSignal(rate, ClientTransceiver(c))
  IN IF rate = 100 /\ map \in {"otu4-lr", "flexo-lr"} THEN <<client, Odu("ODU4", 100)>>
     ELSE IF rate \in {200, 400} /\ map = "flexo-lr" THEN <<client, Odu("ODUFLEX", rate)>>
     ELSE <<>>
\* _create_line_side_logical_channels
LinePair(g, m, n) ==
  LET netif == g.modules[m].netifs[n]
      rate == Or(netif.rate, DefaultLineRate)
      map == Or(netif.map, DefaultMapping)
  IN IF rate = 100 /\ map = "otu4-lr" THEN <<Odu("ODU4", 100), Otu("OTU4", 100)>>
     ELSE IF rate \in {100, 200, 400} /\ map = "flexo-lr"
          THEN <<Odu("ODUCN", rate), Otu("OTUCN", rate)>>
          ELSE <<>>
\* _create_line_side_mapping, from the names of the optical channels
LineMapped(g) ==
  [j \in {i \in DOMAIN Netifs : Netifs[i].mod \in DOMAIN g.modules} |->
     ParseOpticalChannel(OpticalChannelName(Netifs[j].mod, Netifs[j].netif))]

\* the pairs in the order in which they are made: for the client ports, then for the optical channels
LinePosition(j) == Len(Xcvrs) + j
Pairs(g) ==
  LET lines == LineMapped(g)
      line(k) == k - Len(Xcvrs)
  IN [k \in 1 .. Len(Xcvrs) + Len(Netifs) |->
        IF k \in ClientMapped(g) THEN ClientPair(g, Xcvrs[k])
        ELSE IF line(k) \in DOMAIN lines THEN LinePair(g, lines[line(k)].mod, lines[line(k)].netif) ELSE <<>>]
Made(g) == {k \in DOMAIN Pairs(g) : Pairs(g)[k] # <<>>}
\* _get_index: two more for every pair
StartOf(g, k) == 2 * Cardinality({i \in Made(g) : i < k})
Channels(g) ==
  UNION {{[index |-> StartOf(g, k), is |-> Pairs(g)[k][1]], [index |-> StartOf(g, k) + 1, is |-> Pairs(g)[k][2]]} : k \in Made(g)}
\* the optical channels of the module, whatever their network interface
JoinedByModule(g, k, j) ==
  LET tp == TpOfPort(g, Xcvrs[k]) IN tp # None /\ LineMapped(g)[j].mod = tp.mod
\* _connect_client_and_line: the optical channel of the module behind the line side interface
Joined(g, k, j) ==
  LET tp == TpOfPort(g, Xcvrs[k]) IN tp # None /\ LineMapped(g)[j] = [mod |-> tp.mod, netif |-> tp.netif]
Edges(g) ==
  {<<StartOf(g, k), StartOf(g, k) + 1>> : k \in Made(g)}
  \cup UNION {{<<StartOf(g, k) + 1, StartOf(g, LinePosition(j))>> :
                 j \in {i \in DOMAIN LineMapped(g) : LinePosition(i) \in Made(g) /\ Joined(g, k, i)}} :
               k \in ClientMapped(g) \cap Made(g)}
Optical(g) ==
  {<<StartOf(g, LinePosition(j)) + 1, OpticalChannelName(LineMapped(g)[j].mod, LineMapped(g)[j].netif)>> :
     j \in {i \in DOMAIN LineMapped(g) : LinePosition(i) \in Made(g)}}

\* an assertion, the rate of an OTU channel that is looked up without its default, or the components
TerminalFails(g) ==
  \/ ComponentsFail(g)
  \/ \E k \in ClientMapped(g) : ~ \E l \in LineIfsOf(g, Xcvrs[k]) : LineIfsOf(g, Xcvrs[k]) = {l}
  \/ \E j \in DOMAIN LineMapped(g) :
       LET l == LineMapped(g)[j]
       IN l.mod \notin DOMAIN g.modules \/ (g.modules[l.mod].netifs[l.netif].rate = None /\ LinePair(g, l.mod, l.netif) # <<>>)
\* assignments lead from a channel to a channel or, by name, to an optical channel
CreateChannels(g) == [channels |-> Channels(g), edges |-> Edges(g), optical |-> Optical(g)]

-----------------------------------------------------------------------------
(* openconfig-interfaces                                                   *)
FecMode(f) == CASE f = "FC" -> "FEC_FC" [] f = "RS" -> "FEC_RS528" [] OTHER -> "FEC_DISABLED"
AdminStatus(s) == IF s \in {"UP", "DOWN", "TESTING"} THEN s ELSE "DOWN"
\* _in_pkts and _out_pkts: the sum of the counters there are
Packets(counters) == FoldLeft(LAMBDA a, n : a + n, 0, SelectSeq(counters, LAMBDA n : n # None)) % MaxCounter
\* the hardware port of an interface is named if its component was read
PortNameOf(g, i) ==
  LET cs == {c \in XcvrsIn(g) : IfOf[c] = i} IN IF cs = {} THEN None ELSE ClientPort(CHOOSE c \in cs : TRUE)
EthernetCSMACD(g, i) ==
  LET n == g.interfaces[i]
  IN [name |-> i, port |-> PortNameOf(g, i), enabled |-> n.admin = "UP", admin |-> AdminStatus(n.admin),
      oper |-> n.oper, pkts |-> Packets(n.counters), fec |-> FecMode(n.fec)]
CreateInterfaces(g) == {EthernetCSMACD(g, i) : i \in DOMAIN g.interfaces}

-----------------------------------------------------------------------------
(* org-openroadm-device and org-openroadm-pm                               *)
PackState(s) == CASE s = "ready" -> "inService" [] s = "initialize" -> "outOfService" [] OTHER -> "degraded"
\* _oper_circuit_packs: every transceiver slot and power supply with a state, and the modules among
\* the components that answered
Stated(g, cs) == {c \in cs : g.components[c] # None}
CircuitPacks(g) ==
  {<<Chassis, "inService">>}
  \cup {<<o, None>> : o \in Stated(g, {p \in OthersIn(g) : Others[p] = "POWER_SUPPLY"})}
  \cup {<<c, IF g.components[c] = "PRESENT" THEN "inService" ELSE "outOfService">> : c \in Stated(g, XcvrsIn(g))}
  \cup {<<m, PackState(g.modules[m].status)>> : m \in {n \in ModsIn(g) : DOMAIN g.components # {}}}
IsOdu(x) == OrIfs[x].type = "odu" /\ OrIfs[x].sup # None /\ OrIfs[OrIfs[x].sup].type \in {"odu", "eth"}
\* _oper_interfaces: optical and Ethernet interfaces whose module answers, and ODU interfaces
OrInterfaces(g) ==
  {x \in SetOf(OrAsked) : OrIfs[x].mod \in DOMAIN g.again} \cup {x \in DOMAIN OrIfs : IsOdu(x)}

\* find_otsi and find_port of _oper_current_pm_list: the port of a module no interface is on is
\* named all the same
FindOtsi(m) == LET xs == {x \in DOMAIN OrIfs : OrIfs[x].type = "otsi" /\ OrIfs[x].pack = m}
               IN IF xs = {} THEN None ELSE CHOOSE x \in xs : TRUE
FindPort(m) == LET x == FindOtsi(m) IN <<"port", IF x = None THEN None ELSE OrIfs[x].pack>>
CurrentPm(g) ==
  {FindPort(m) : m \in DOMAIN g.modules} \cup {<<"interface", x>> : x \in {FindOtsi(m) : m \in DOMAIN g.modules} \ {None}}

\* DynamicSubscription._id
DynamicId(srid, sid) == srid * IdRange + sid
DynamicSubscriptions(g) == {[id |-> DynamicId(p[1], p[2]), of |-> p] : p \in g.subscriptions}

-----------------------------------------------------------------------------
NothingRead == [components |-> None, modules |-> <<>>, interfaces |-> <<>>, gearboxes |-> {},
                subscriptions |-> {}, again |-> <<>>]
NoRequest == [kind |-> None, todo |-> <<>>, got |-> NothingRead]

Init ==
  /\ hw \in Hardware /\ req = NoRequest
  /\ answer = [kind |-> None, got |-> NothingRead, ok |-> TRUE, value |-> None]
  /\ count = [events |-> 0, requests |-> 0]

\* the hardware changes: a transceiver, a module, a connection or a setting
Event(h) ==
  /\ hw # h /\ hw' = h
  /\ count.events < MaxEvents /\ count' = [count EXCEPT !.events = @ + 1]
  /\ UNCHANGED <<req, answer>>

Ask(k) ==
  /\ req = NoRequest
  /\ count.requests < MaxRequests /\ count' = [count EXCEPT !.requests = @ + 1]
  /\ req' = [NoRequest EXCEPT !.kind = k, !.todo = Required[k]]
  /\ UNCHANGED <<hw, answer>>

\* get_operational_data of the next dataset, or of one module
Read ==
  /\ req.todo # <<>>
  /\ LET d == Head(req.todo)
         got == CASE d.mod = None -> hw[d.set]
                  [] d.mod # None /\ d.mod \in DOMAIN hw.modules -> (d.mod :> hw.modules[d.mod]) @@ req.got[d.set]
                  [] OTHER -> req.got[d.set]
     IN req' = [req EXCEPT !.todo = Tail(@), !.got[d.set] = got]
  /\ UNCHANGED <<hw, answer, count>>

\* the objects are created without a further read; an exception fails the request
Created(kind, g) ==
  CASE kind = "platform" -> CreateComponents(g)
    [] kind = "terminal" -> CreateChannels(g)
    [] kind = "interfaces" -> CreateInterfaces(g)
    [] kind = "openroadm" -> [packs |-> CircuitPacks(g), ifs |-> OrInterfaces(g)]
    [] kind = "pm" -> CurrentPm(g)
    [] kind = "telemetry" -> DynamicSubscriptions(g)
Fails(kind, g) == (kind = "platform" /\ ComponentsFail(g)) \/ (kind = "terminal" /\ TerminalFails(g))
Answer ==
  /\ req.kind # None /\ req.todo = <<>>
  /\ LET ok == ~ Fails(req.kind, req.got)
     IN answer' = [kind |-> req.kind, got |-> req.got, ok |-> ok, value |-> IF ok THEN Created(req.kind, req.got) ELSE None]
  /\ req' = NoRequest
  /\ UNCHANGED <<hw, count>>

Next == (\E h \in Hardware : Event(h)) \/ (\E k \in Kinds : Ask(k)) \/ Read \/ Answer
Spec == Init /\ [][Next]_vars /\ WF_vars(Read) /\ WF_vars(Answer)
=============================================================================
