---------------------------- MODULE OcnosProps -----------------------------
(***************************************************************************)
(* What the OcNOS south server owes the configuration and the device.      *)
(***************************************************************************)
EXTENDS Ocnos

\* The device has the settings c of interface i. A request for the interface's state is answered with
\* them, unless its speed is negotiated: then oper_cb raises.
IfAgrees(i, c) ==
  LET o == OperState(dev, i)
  IN IF c = None THEN ~ OperRaises(dev, {i}) /\ <<o.mtu, o.speed, o.mode, o.access, o.trunk>> = <<None, None, None, None, {}>>
     ELSE /\ dev.port[i] = IF AutoNeg(c) THEN "auto" ELSE c.speed
          /\ OperRaises(dev, {i}) = AutoNeg(c)
          /\ <<o.admin, o.mtu, o.mode, o.access, o.trunk>> = <<Admin(c), c.mtu, c.mode, c.access, c.trunk>>

\* While the servers run, the device has the whole of the configuration, or the whole of what a server
\* has just accepted: no transaction, refused by the device, half applied or raced by a restart, leaves
\* a part of itself; and the state of an interface that does not negotiate its speed is reported so.
\* Left out are the items of a known weakness: those of a transaction one server had accepted, or whose
\* callback died or ended in an exception other than an RPCError, and what reconcile() does not restore.
DeviceFollows ==
  srv.pc = "run" =>
    /\ \A i \in Ifs \ loose : IfAgrees(i, IF "intf" \in txn.accepted THEN txn.new.intf[i] ELSE conf.intf[i])
    /\ \A v \in Vids \ loose : dev.vlan[v] = IF "vlan" \in txn.accepted THEN txn.new.vlan[v] ELSE conf.vlan[v]

SameIf(d, e, i) ==
  /\ <<d.mtu[i], d.port[i], d.sw[i], d.vid[i], d.allowed[i]>> = <<e.mtu[i], e.port[i], e.sw[i], e.vid[i], e.allowed[i]>>
  /\ i \in d.shut <=> i \in e.shut
  /\ i \in d.bridge <=> i \in e.bridge
\* Between callbacks the candidate the two servers share holds nothing that is not committed: the edits
\* of a transaction the device refused never wait for the commit of another. Only the items of a
\* transaction that ended in an exception other than an RPCError can differ.
CandidateClean ==
  srv.pc # "down" /\ txn.phase # "apply" =>
    /\ \A i \in Ifs \ cand.left : SameIf(cand.data, dev, i)
    /\ \A v \in Vids \ cand.left : cand.data.vlan[v] = dev.vlan[v]
    /\ cand.left = {} => cand = Clean(dev)

\* Whatever error ends the handling of a change, what it did before is undone: the comment of change_cb
\* (core.py:106) says so. A timeout leaves the edits in the candidate.
AnyErrorUndone == srv.pc = "run" /\ srv.open /\ txn.phase # "apply" => cand = Clean(dev)

\* What keeps the process from starting: a candidate left behind that cannot be committed, an
\* interface whose reconciliation raises, a VLAN that is used and not configured.
Blocked ==
  \/ ~ Committable(cand)
  \/ \E i \in Ifs : conf.intf[i] # None /\
       \/ conf.intf[i].mtu # None /\ conf.intf[i].speed = None /\ conf.intf[i].auto = None
       \/ \E v \in conf.intf[i].trunk \cup ({conf.intf[i].access} \ {None}) : conf.vlan[v] = None
\* A process that went down runs again, reconciled and subscribed, unless it is blocked.
Recovers == srv.pc = "down" ~> (srv.pc = "run" \/ Blocked)

=============================================================================
