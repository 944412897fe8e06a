------------------------------- MODULE Ocnos -------------------------------
(***************************************************************************)
(* The OcNOS south server: an interface server and a VLAN server of one    *)
(* process that turn changes of the running configuration into edits of    *)
(* the candidate datastore of one NETCONF connection, which they share.    *)
(* A handler edits the candidate, post() commits it; the device refuses a  *)
(* commit that deletes what is not there or that refers to a missing VLAN. *)
(*                                                                         *)
(* Nothing in a callback awaits, so the two servers take turns by whole    *)
(* callbacks; clients, the device and the death of the process interleave  *)
(* with every edit.                                                        *)
(***************************************************************************)
EXTENDS Integers, FiniteSets

CONSTANTS Ifs, Vids, Speeds,
          Targets,    \* configurations clients ask for
          MaxTxns, MaxFaults, MaxCrashes, MaxResets,
          None

VARIABLES conf,   \* running configuration: [intf, vlan]
          dev,    \* the device's running datastore
          cand,   \* its candidate: [data, bad: an edit in it deletes what is not there, left: items a lost answer left edited]
          srv,    \* the process: [pc, todo: items still to reconcile, mode: gs_if_mode, open: its NETCONF session]
          txn,    \* the transaction being delivered
          loose,  \* interfaces and VLANs a known weakness has separated from their configuration
          count

vars == <<conf, dev, cand, srv, txn, loose, count>>

\* a leaf of the configuration is None when it is not configured; admin-status is then DOWN,
\* auto-negotiation off. The YANG model allows speed, access-vlan and trunk-vlans in their mode only.
IfConf == [admin: {None, "UP", "DOWN"}, mtu: {None, "m"}, speed: Speeds \cup {None}, auto: {None, "on", "off"},
           mode: {None, "ACCESS", "TRUNK"}, access: Vids \cup {None}, trunk: SUBSET Vids]
IfValid(c) == /\ c.speed # None => c.auto # "on"
              /\ c.access # None => c.mode = "ACCESS"
              /\ c.trunk # {} => c.mode = "TRUNK"
Confs == [intf: [Ifs -> {None} \cup {c \in IfConf : IfValid(c)}], vlan: [Vids -> {None, "unnamed", "named"}]]
StringValues == {"UP", "DOWN", "m", "on", "off", "auto", "ACCESS", "TRUNK", "access", "trunk", "vlan", "named", "unnamed"}

ASSUME OcnosAssumption ==
  /\ {MaxTxns, MaxFaults, MaxCrashes, MaxResets} \subseteq Nat
  /\ None \notin Ifs \cup Vids \cup Speeds \cup StringValues /\ "auto" \notin Speeds
  /\ Targets \subseteq Confs

Admin(c) == IF c.admin = None THEN "DOWN" ELSE c.admin
AutoNeg(c) == c.auto = "on"

Datastore == [shut: SUBSET Ifs, mtu: [Ifs -> {None, "m"}], port: [Ifs -> Speeds \cup {None, "auto"}],
              sw: [Ifs -> {None, "access", "trunk"}], vid: [Ifs -> Vids \cup {None}], allowed: [Ifs -> SUBSET Vids],
              bridge: SUBSET Ifs, vlan: [Vids -> {None, "unnamed", "named"}], ni: BOOLEAN]
Fresh == [shut |-> {}, mtu |-> [i \in Ifs |-> None], port |-> [i \in Ifs |-> None], sw |-> [i \in Ifs |-> None],
          vid |-> [i \in Ifs |-> None], allowed |-> [i \in Ifs |-> {}], bridge |-> {},
          vlan |-> [v \in Vids |-> None], ni |-> FALSE]
Clean(d) == [data |-> d, bad |-> FALSE, left |-> {}]

-----------------------------------------------------------------------------
(* The changes sysrepo reports, implicit defaults included.                *)
Change(leaf, key, old, new) ==
  IF old = new THEN {}
  ELSE {[leaf |-> leaf, key |-> key, old |-> old, new |-> new,
         type |-> IF old = None THEN "created" ELSE IF new = None THEN "deleted" ELSE "modified"]}
IfLeaves == {"admin", "mtu", "speed", "auto", "mode", "access"}
Value(leaf, c) ==
  IF c = None THEN None
  ELSE CASE leaf = "admin" -> Admin(c) [] leaf = "auto" -> (IF AutoNeg(c) THEN "on" ELSE "off") [] OTHER -> c[leaf]
Trunk(c) == IF c = None THEN {} ELSE c.trunk
In(v, S) == IF v \in S THEN v ELSE None
IfChanges(i, o, n) ==
  (UNION {Change(l, i, Value(l, o), Value(l, n)) : l \in IfLeaves})
  \cup (UNION {Change("trunk", i, In(v, Trunk(o)), In(v, Trunk(n))) : v \in Vids})
VlanName(v) == IF v = "named" THEN "named" ELSE None
VlanChanges(v, o, n) ==
  Change("vlan", v, IF o = None THEN None ELSE "vlan", IF n = None THEN None ELSE "vlan")
  \cup Change("name", v, VlanName(o), VlanName(n))
Changes(s, n) ==
  IF s = "intf" THEN UNION {IfChanges(i, conf.intf[i], n.intf[i]) : i \in Ifs}
  ELSE UNION {VlanChanges(v, conf.vlan[v], n.vlan[v]) : v \in Vids}
\* the changes of an item come in the order of the model, the items in any order
Rank == [admin |-> 1, mtu |-> 2, speed |-> 3, auto |-> 4, mode |-> 5, access |-> 6, trunk |-> 7, vlan |-> 8, name |-> 9]
FirstOf(chs) == {ch \in chs : \A other \in chs : other.key = ch.key => Rank[ch.leaf] <= Rank[other.leaf]}

-----------------------------------------------------------------------------
(* Edits of the candidate datastore.                                       *)
Set(c, d) == [c EXCEPT !.data = d]
Delete(c, present, d) == [c EXCEPT !.data = d, !.bad = @ \/ ~ present]

\* shutdown is removed when an interface comes up, unless the interface is new
AdminStatus(c, ch) ==
  IF ch.new # "UP" THEN Set(c, [c.data EXCEPT !.shut = @ \cup {ch.key}])
  ELSE IF ch.type = "created" THEN c
  ELSE Delete(c, ch.key \in c.data.shut, [c.data EXCEPT !.shut = @ \ {ch.key}])
MTU(c, ch) ==
  IF ch.new = None THEN Delete(c, c.data.mtu[ch.key] # None, [c.data EXCEPT !.mtu[ch.key] = None])
  ELSE Set(c, [c.data EXCEPT !.mtu[ch.key] = ch.new])

\* speed and auto-negotiation are one attribute of the device: each handler looks at the other leaf
\* of the configuration the transaction leads to
NewIf(ch, leaf) == Value(leaf, txn.new.intf[ch.key])
DeletePort(c, i) == Delete(c, c.data.port[i] # None, [c.data EXCEPT !.port[i] = None])
Speed(c, ch) ==
  IF ch.new # None THEN Set(c, [c.data EXCEPT !.port[ch.key] = ch.new])
  ELSE IF NewIf(ch, "auto") = "on" THEN c ELSE DeletePort(c, ch.key)
AutonegotiateBlind(c, ch) ==
  IF ch.new = "on" THEN Set(c, [c.data EXCEPT !.port[ch.key] = "auto"])
  ELSE IF ch.type = "created" THEN c ELSE DeletePort(c, ch.key)
Autonegotiate(c, ch) ==
  IF ch.type # "deleted" /\ NewIf(ch, "auto") = "off" /\ NewIf(ch, "speed") # None THEN c
  ELSE IF ch.new = "on" THEN Set(c, [c.data EXCEPT !.port[ch.key] = "auto"])
  ELSE IF ch.type = "created" THEN c ELSE DeletePort(c, ch.key)

\* a port that changes its mode loses its VLANs
SetMode(d, i, mode) ==
  [d EXCEPT !.sw[i] = mode, !.vid[i] = IF d.sw[i] = mode THEN @ ELSE None,
            !.allowed[i] = IF d.sw[i] = mode THEN @ ELSE {}]
Lower(mode) == CASE mode = "ACCESS" -> "access" [] mode = "TRUNK" -> "trunk" [] OTHER -> None
SetInterfaceMode(d, i, mode) == [SetMode(d, i, mode) EXCEPT !.bridge = @ \cup {i}]
\* the mode to remove is the one of the running configuration, else the cached one
OldMode(ch) ==
  IF conf.intf[ch.key] # None /\ conf.intf[ch.key].mode # None THEN Lower(conf.intf[ch.key].mode)
  ELSE srv.mode[ch.key]
InterfaceMode(c, ch) ==
  IF ch.type # "deleted" THEN Set(c, SetInterfaceMode(c.data, ch.key, Lower(ch.new)))
  ELSE Delete(c, c.data.sw[ch.key] = OldMode(ch) /\ ch.key \in c.data.bridge,
              [SetMode(c.data, ch.key, None) EXCEPT !.bridge = @ \ {ch.key}])
\* a VLAN that goes with its mode needs no edit
SameMode(ch) == Value("mode", conf.intf[ch.key]) = NewIf(ch, "mode")
AccessVlans(c, ch) ==
  IF ch.type # "deleted" THEN Set(c, [SetMode(c.data, ch.key, "access") EXCEPT !.vid[ch.key] = ch.new])
  ELSE IF ~ SameMode(ch) THEN c
  ELSE Delete(c, c.data.vid[ch.key] # None, [c.data EXCEPT !.vid[ch.key] = None])
TrunkVlans(c, ch) ==
  IF ch.type # "deleted" THEN Set(c, [SetMode(c.data, ch.key, "trunk") EXCEPT !.allowed[ch.key] = @ \cup {ch.new}])
  ELSE IF ~ SameMode(ch) THEN c
  ELSE Delete(c, ch.old \in c.data.allowed[ch.key], [c.data EXCEPT !.allowed[ch.key] = @ \ {ch.old}])

SetVlan(d, v) == [d EXCEPT !.vlan[v] = IF @ = None THEN "unnamed" ELSE @]
VlanId(c, ch) ==
  IF ch.type # "deleted" THEN Set(c, SetVlan(c.data, ch.key))
  ELSE Delete(c, c.data.vlan[ch.key] # None, [c.data EXCEPT !.vlan[ch.key] = None])
\* the name goes with its VLAN
VlanNameEdit(c, ch) ==
  IF ch.type # "deleted" THEN Set(c, [c.data EXCEPT !.vlan[ch.key] = "named"])
  ELSE IF txn.new.vlan[ch.key] = None THEN c
  ELSE Delete(c, c.data.vlan[ch.key] = "named", [c.data EXCEPT !.vlan[ch.key] = "unnamed"])

Edit(c, ch) ==
  CASE ch.leaf = "admin" -> AdminStatus(c, ch) [] ch.leaf = "mtu" -> MTU(c, ch)
    [] ch.leaf = "speed" -> Speed(c, ch) [] ch.leaf = "auto" -> Autonegotiate(c, ch)
    [] ch.leaf = "mode" -> InterfaceMode(c, ch) [] ch.leaf = "access" -> AccessVlans(c, ch)
    [] ch.leaf = "trunk" -> TrunkVlans(c, ch) [] ch.leaf = "vlan" -> VlanId(c, ch)
    [] ch.leaf = "name" -> VlanNameEdit(c, ch)

\* the VLANs interfaces use on the device
InUse(d) == UNION {d.allowed[i] \cup ({d.vid[i]} \ {None}) : i \in Ifs}
Valid(ch) == ch.leaf = "vlan" /\ ch.type = "deleted" => ch.key \notin InUse(dev)
Committable(c) == ~ c.bad /\ \A v \in InUse(c.data) : c.data.vlan[v] # None

-----------------------------------------------------------------------------
(* Transactions.                                                           *)
Servers == {"intf", "vlan"}
Subscribed(s) == srv.pc = "run" \/ (s = "vlan" /\ srv.pc \in {"read_intf", "intf"})
Idle == [phase |-> "idle", new |-> None, waiting |-> {}, accepted |-> {}, who |-> None, chs |-> {}]
Touched(s, n) ==
  IF s = "intf" THEN {i \in Ifs : IfChanges(i, conf.intf[i], n.intf[i]) # {}}
  ELSE {v \in Vids : VlanChanges(v, conf.vlan[v], n.vlan[v]) # {}}
AllTouched(n) == Touched("intf", n) \cup Touched("vlan", n)
\* an interface that comes back as UP keeps the shutdown its removal left on the device
LeftShut(n) == {i \in dev.shut : conf.intf[i] = None /\ n.intf[i] # None /\ n.intf[i].admin = "UP"}

Begin ==
  \E n \in Targets \ {conf} :
    /\ txn.phase = "idle" /\ count.txns < MaxTxns
    /\ txn' = [Idle EXCEPT !.phase = "wait", !.new = n,
                           !.waiting = {s \in Servers : Subscribed(s) /\ Touched(s, n) # {}}]
    /\ loose' = loose \cup LeftShut(n)
    /\ count' = [count EXCEPT !.txns = @ + 1]
    /\ UNCHANGED <<conf, dev, cand, srv>>

\* the servers that accepted are told to abort; their handlers' revert() does nothing
Refuse ==
  /\ txn' = Idle
  /\ loose' = loose \cup IF txn.accepted = {} THEN {} ELSE AllTouched(txn.new)
\* what raises is not an RPCError: nothing is discarded, the next commit carries the edits to the device
RefuseLeaving(c) ==
  LET items == Touched(txn.who, txn.new)
  IN /\ cand' = [c EXCEPT !.left = @ \cup items]
     /\ txn' = Idle
     /\ loose' = loose \cup items \cup IF txn.accepted = {} THEN {} ELSE AllTouched(txn.new)
Fault == count.faults < MaxFaults /\ count' = [count EXCEPT !.faults = @ + 1]
\* a request gets no answer in time, or there is no session to send it on
Unanswered == IF srv.open THEN Fault ELSE UNCHANGED count

\* the changes are validated one by one before any is applied; a VLAN that goes is looked up on the device
Asks(chs) == \E ch \in chs : ch.leaf = "vlan" /\ ch.type = "deleted"
Deliver(s) ==
  /\ txn.phase = "wait" /\ s \in txn.waiting /\ srv.pc = "run"
  /\ LET chs == Changes(s, txn.new)
         valid == \A ch \in chs : Valid(ch)
     IN \/ /\ valid /\ (Asks(chs) => srv.open)
           /\ txn' = [txn EXCEPT !.phase = "apply", !.who = s, !.waiting = @ \ {s}, !.chs = chs]
           /\ UNCHANGED <<loose, count>>
        \/ ~ valid /\ srv.open /\ Refuse /\ UNCHANGED count
        \/ Asks(chs) /\ Unanswered /\ Refuse
  /\ UNCHANGED <<conf, dev, cand, srv>>
ApplyOne ==
  /\ txn.phase = "apply" /\ srv.open
  /\ \E ch \in FirstOf(txn.chs) :
       /\ cand' = Edit(cand, ch)
       /\ srv' = IF ch.leaf = "mode" /\ ch.type # "deleted" THEN [srv EXCEPT !.mode[ch.key] = Lower(ch.new)] ELSE srv
       /\ txn' = [txn EXCEPT !.chs = @ \ {ch}]
  /\ UNCHANGED <<conf, dev, loose, count>>
\* an edit fails with an RPCError
EditKept ==
  /\ txn.phase = "apply" /\ txn.chs # {} /\ srv.open /\ Fault
  /\ Refuse
  /\ UNCHANGED <<conf, dev, cand, srv>>
EditFails ==
  /\ txn.phase = "apply" /\ txn.chs # {} /\ srv.open /\ Fault
  /\ cand' = Clean(dev)
  /\ Refuse
  /\ UNCHANGED <<conf, dev, srv>>
\* an edit fails with anything else, executed or not
EditRaises ==
  /\ txn.phase = "apply" /\ Unanswered
  /\ \E ch \in FirstOf(txn.chs) : \E c \in {cand} \cup {d \in {Edit(cand, ch)} : srv.open} : RefuseLeaving(c)
  /\ UNCHANGED <<conf, dev, srv>>
Post ==
  /\ txn.phase = "apply" /\ txn.chs = {}
  /\ srv.open /\ Committable(cand)
  /\ dev' = cand.data
  /\ cand' = Clean(cand.data)
  /\ txn' = [txn EXCEPT !.phase = "wait", !.accepted = @ \cup {txn.who}]
  /\ UNCHANGED <<conf, srv, loose, count>>
PostFails ==
  /\ txn.phase = "apply" /\ txn.chs = {}
  /\ srv.open /\ IF Committable(cand) THEN Fault ELSE UNCHANGED count
  /\ cand' = Clean(dev)
  /\ Refuse
  /\ UNCHANGED <<conf, dev, srv>>
\* the commit is lost, or only its answer
PostRaises ==
  /\ txn.phase = "apply" /\ txn.chs = {} /\ Unanswered
  /\ \/ RefuseLeaving(cand) /\ UNCHANGED dev
     \/ srv.open /\ Committable(cand) /\ dev' = cand.data /\ RefuseLeaving(Clean(cand.data))
  /\ UNCHANGED <<conf, srv>>
\* the device drops the session, and its candidate with it or not; the process opens no other
SessionDrops ==
  /\ srv.pc # "down" /\ srv.open /\ Fault
  /\ srv' = [srv EXCEPT !.open = FALSE]
  /\ cand' \in {cand, Clean(dev)}
  /\ UNCHANGED <<conf, dev, txn, loose>>

\* what reconcile() restores: only configured values, and auto-negotiation only next to other settings
Restorable(c) == c.admin # None /\ (AutoNeg(c) => c.mtu # None)
\* a change made while its server does not listen is reconciled only if it adds an item, before the read
Differing(s, n) == IF s = "intf" THEN {i \in Ifs : conf.intf[i] # n.intf[i]} ELSE {v \in Vids : conf.vlan[v] # n.vlan[v]}
MissedBy(s, n) ==
  {x \in IF srv.pc = "run" THEN Touched(s, n) ELSE Differing(s, n) :
     ~ (srv.pc = "down" /\ IF s = "intf" THEN conf.intf[x] = None /\ Restorable(n.intf[x]) ELSE conf.vlan[x] = None)}
Commit ==
  /\ txn.phase = "wait" /\ txn.waiting = {}
  /\ conf' = txn.new
  /\ loose' = loose \cup UNION {MissedBy(s, txn.new) : s \in Servers \ txn.accepted}
  /\ txn' = Idle
  /\ UNCHANGED <<dev, cand, srv, count>>

-----------------------------------------------------------------------------
(* The life of the process.                                                *)

\* VlanServer() creates the network instance and commits, with whatever the candidate holds
Boot ==
  /\ srv.pc = "down"
  /\ Committable(cand)
  /\ dev' = [cand.data EXCEPT !.ni = TRUE]
  /\ cand' = Clean(dev')
  /\ srv' = [srv EXCEPT !.pc = "read_vlan", !.mode = [i \in Ifs |-> None], !.open = TRUE]
  /\ UNCHANGED <<conf, txn, loose, count>>
ReadVlans ==
  /\ srv.pc = "read_vlan"
  /\ srv' = [srv EXCEPT !.pc = "vlan", !.todo = {<<v, conf.vlan[v]>> : v \in {w \in Vids : conf.vlan[w] # None}}]
  /\ UNCHANGED <<conf, dev, cand, txn, loose, count>>
ReadIntfs ==
  /\ srv.pc = "read_intf"
  /\ srv' = [srv EXCEPT !.pc = "intf", !.todo = {<<i, conf.intf[i]>> : i \in {j \in Ifs : conf.intf[j] # None}}]
  /\ UNCHANGED <<conf, dev, cand, txn, loose, count>>

RestoreVlan(d, v, c) == IF c = "named" THEN [d EXCEPT !.vlan[v] = "named"] ELSE SetVlan(d, v)
RestoreAdmin(d, i, c) == [d EXCEPT !.shut = IF c.admin = "DOWN" THEN @ \cup {i} ELSE @]
RestoreMTU(d, i, c) == [d EXCEPT !.mtu[i] = IF c.mtu = None THEN @ ELSE c.mtu]
RestorePort(d, i, c) ==
  IF c.speed # None THEN [d EXCEPT !.port[i] = c.speed]
  ELSE IF c.mtu # None /\ AutoNeg(c) THEN [d EXCEPT !.port[i] = "auto"] ELSE d
RestoreMode(d, i, c) == IF c.mode = None THEN d ELSE SetInterfaceMode(d, i, Lower(c.mode))
RestoreAccess(d, i, c) == IF c.access = None THEN d ELSE [SetMode(d, i, "access") EXCEPT !.vid[i] = c.access]
RestoreTrunk(d, i, vs) == IF vs = {} THEN d ELSE [SetMode(d, i, "trunk") EXCEPT !.allowed[i] = @ \cup vs]
RestoreLeaves(d, i, c) == RestorePort(RestoreMTU(RestoreAdmin(d, i, c), i, c), i, c)
RestoreVlans(d, i, c) == RestoreAccess(RestoreMode(d, i, c), i, c)
Restore(d, i, c) == RestoreTrunk(RestoreVlans(RestoreLeaves(d, i, c), i, c), i, c.trunk)
\* the candidate after some of the edits of an item
VlanStages(d, v, c) == {d, SetVlan(d, v), RestoreVlan(d, v, c)}
LeafStages(d, i, c) == {d, RestoreAdmin(d, i, c), RestoreMTU(RestoreAdmin(d, i, c), i, c), RestoreLeaves(d, i, c)}
IfStages(d, i, c) ==
  LET e == RestoreLeaves(d, i, c)
  IN LeafStages(d, i, c) \cup {RestoreMode(e, i, c)} \cup {RestoreTrunk(RestoreVlans(e, i, c), i, vs) : vs \in SUBSET c.trunk}
\* Ethernet settings without a speed and without auto-negotiation: the look-up of the latter raises
StumblesBeforeSpeed(c) == (c.mtu # None \/ c.speed # None) /\ c.auto = None
Stumbles(c) == c.mtu # None /\ c.speed = None /\ c.auto = None

Die == srv' = [srv EXCEPT !.pc = "down", !.todo = {}]
\* the process ends with its session, and the device drops the candidate with it or not
DieLeaving(stages) == Die /\ cand' \in {Clean(dev)} \cup {Set(cand, d) : d \in stages}
\* an item is written and committed; only a commit that is refused is discarded, every failure ends the process
WriteItem(item, stages, new, mode) ==
  /\ \/ /\ srv.open /\ Committable(Set(cand, new))
        /\ dev' = new /\ cand' = Clean(new)
        /\ srv' = [srv EXCEPT !.todo = @ \ {item}, !.mode = mode]
        /\ UNCHANGED count
     \/ /\ srv.open /\ IF Committable(Set(cand, new)) THEN Fault ELSE UNCHANGED count
        /\ cand' = Clean(dev) /\ Die
        /\ UNCHANGED dev
     \/ /\ Unanswered
        /\ DieLeaving(IF srv.open THEN stages ELSE {cand.data})
        /\ UNCHANGED dev
     \/ /\ srv.open /\ Committable(Set(cand, new)) /\ Fault
        /\ dev' = new /\ cand' = Clean(new) /\ Die
  /\ UNCHANGED <<conf, txn, loose>>
ReconcileVlan ==
  /\ srv.pc = "vlan"
  /\ \E item \in srv.todo :
       LET v == item[1]
           c == item[2]
       IN WriteItem(item, VlanStages(cand.data, v, c), RestoreVlan(cand.data, v, c), srv.mode)
ReconcileIntf ==
  /\ srv.pc = "intf"
  /\ \E item \in srv.todo :
       LET i == item[1]
           c == item[2]
       IN /\ ~ Stumbles(c)
          /\ WriteItem(item, IfStages(cand.data, i, c), Restore(cand.data, i, c),
                       IF c.mode = None THEN srv.mode ELSE [srv.mode EXCEPT ![i] = Lower(c.mode)])
ReconcileStumbles ==
  /\ srv.pc = "intf"
  /\ \E item \in srv.todo :
       /\ Stumbles(item[2])
       /\ \/ srv.open /\ DieLeaving({RestoreLeaves(cand.data, item[1], item[2])}) /\ UNCHANGED count
          \/ Unanswered /\ DieLeaving(IF srv.open THEN LeafStages(cand.data, item[1], item[2]) ELSE {cand.data})
  /\ UNCHANGED <<conf, dev, txn, loose>>
Subscribe ==
  /\ srv.pc \in {"vlan", "intf"} /\ srv.todo = {}
  /\ srv' = [srv EXCEPT !.pc = IF srv.pc = "vlan" THEN "read_intf" ELSE "run"]
  /\ UNCHANGED <<conf, dev, cand, txn, loose, count>>

\* the process is killed: the candidate may outlive the session, sysrepo gives the transaction up
Crash ==
  /\ srv.pc # "down" /\ count.crashes < MaxCrashes
  /\ count' = [count EXCEPT !.crashes = @ + 1]
  /\ Die
  /\ cand' \in {cand, Clean(dev)}
  /\ IF txn.phase # "idle" /\ (txn.waiting # {} \/ txn.phase = "apply" \/ txn.accepted # {})
     THEN txn' = Idle /\ loose' = loose \cup AllTouched(txn.new)
     ELSE UNCHANGED <<txn, loose>>
  /\ UNCHANGED <<conf, dev>>
\* stop() removes the network instance, and commits with it what the candidate holds; the device may
\* refuse, or remove with the instance what refers to it. No failure is discarded.
NoInstance(d) == [d EXCEPT !.ni = FALSE, !.vlan = [v \in Vids |-> None], !.bridge = {}, !.sw = [i \in Ifs |-> None],
                           !.vid = [i \in Ifs |-> None], !.allowed = [i \in Ifs |-> {}]]
Stop ==
  /\ srv.pc = "run" /\ txn.phase = "idle" /\ count.crashes < MaxCrashes
  /\ count' = [count EXCEPT !.crashes = @ + 1]
  /\ \/ /\ srv.open /\ ~ cand.bad
        /\ dev' = NoInstance(cand.data) /\ cand' = Clean(dev') /\ Die
     \/ /\ DieLeaving({IF srv.open THEN NoInstance(cand.data) ELSE cand.data})
        /\ UNCHANGED dev
  /\ UNCHANGED <<conf, txn, loose>>
\* the device returns to its factory settings while the process is away
ResetDevice ==
  /\ srv.pc = "down" /\ count.resets < MaxResets
  /\ count' = [count EXCEPT !.resets = @ + 1]
  /\ dev' = Fresh /\ cand' = Clean(Fresh)
  /\ loose' = loose \cup {i \in Ifs : conf.intf[i] # None /\ ~ Restorable(conf.intf[i])}
  /\ UNCHANGED <<conf, srv, txn>>

-----------------------------------------------------------------------------
(* oper_cb: what the server reports for an interface. A port-speed "auto" *)
(* is not in SPEED_MAP: its look-up raises, for every interface asked for. *)
OperRaises(d, S) == \E i \in S : d.port[i] = "auto"
OperState(d, i) ==
  [admin |-> IF i \in d.shut THEN "DOWN" ELSE "UP", mtu |-> d.mtu[i], speed |-> d.port[i],
   mode |-> CASE d.sw[i] = "access" -> "ACCESS" [] d.sw[i] = "trunk" -> "TRUNK" [] OTHER -> None,
   access |-> IF d.sw[i] = "access" THEN d.vid[i] ELSE None,
   trunk |-> IF d.sw[i] = "trunk" THEN d.allowed[i] ELSE {}]

Init ==
  /\ conf = [intf |-> [i \in Ifs |-> None], vlan |-> [v \in Vids |-> None]]
  /\ dev = Fresh /\ cand = Clean(Fresh)
  /\ srv = [pc |-> "down", todo |-> {}, mode |-> [i \in Ifs |-> None], open |-> FALSE]
  /\ txn = Idle /\ loose = {}
  /\ count = [txns |-> 0, faults |-> 0, crashes |-> 0, resets |-> 0]

Transact ==
  \/ \E s \in Servers : Deliver(s)
  \/ ApplyOne \/ EditFails \/ EditRaises \/ Post \/ PostFails \/ PostRaises \/ Commit
Start == Boot \/ ReadVlans \/ ReadIntfs \/ ReconcileVlan \/ ReconcileIntf \/ ReconcileStumbles \/ Subscribe
Next == Begin \/ Transact \/ Start \/ SessionDrops \/ Crash \/ Stop \/ ResetDevice
Spec == Init /\ [][Next]_vars /\ WF_vars(Start)
=============================================================================
