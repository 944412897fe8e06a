------------------------------- MODULE Sonic -------------------------------
(***************************************************************************)
(* The SONiC south server: four servers of one process that write to the   *)
(* configuration database of uSONiC, the reconciliation that may reboot    *)
(* uSONiC, and the uplink failure detection driven by link events.         *)
(*                                                                         *)
(* A handler that does not await is one step with its neighbours; the      *)
(* event loop runs the reconciliation, the link events and the callbacks   *)
(* of another transaction only at an await.                                *)
(***************************************************************************)
EXTENDS Integers, Sequences, SequencesExt, FiniteSets, TLC

CONSTANTS Parents,    \* ports as delivered
          Subs,       \* function: a parent that can be split -> its further channel
          Vids, Pids, \* VLANs and port channels
          Requests,   \* transactions clients send: sequence of sequences of changes
          Flapping,   \* the interfaces whose link goes up and down
          MaxTxns, MaxLinks, MaxCrashes, MaxFaults,
          None

VARIABLES conf,   \* running configuration
          db,     \* CONFIG_DB: port settings, VLANs with their members@ list, VLAN_MEMBER, PORTCHANNEL
          bcm,    \* auto-negotiation as set with bcmcmd
          pods,   \* [cm: the split ports in the config map, live: those uSONiC runs, pod]
          srv,    \* the process: [up, rebooting, queue, subscribed, deleted]
          rec,    \* the reconciliation: [stage, todo, held]
          link,   \* [oper, notif, dirty]
          txn,    \* the transaction being delivered
          ghost,  \* [loose: settings separated from their writer by a known weakness, overtaken,
          \*  unrestarted: the config map was changed and uSONiC was not told to restart]
          count

vars == <<conf, db, bcm, pods, srv, rec, link, txn, ghost, count>>

Ifs == Parents \cup {Subs[p] : p \in DOMAIN Subs}
ASSUME SonicAssumption ==
  /\ DOMAIN Subs \subseteq Parents /\ {Subs[p] : p \in DOMAIN Subs} \cap Parents = {}
  /\ Flapping \subseteq Ifs
  /\ {MaxTxns, MaxLinks, MaxCrashes, MaxFaults} \subseteq Nat

\* create_usonic_port_config: every port, with a further one for each channel of a split port
PortsOf(split) == Parents \cup {Subs[p] : p \in split}
Ports == PortsOf(pods.live)
Or(v, default) == IF v = None THEN default ELSE v

-----------------------------------------------------------------------------
(* Configuration. A change is [leaf, key, val, on]: val is the new value   *)
(* or None, or the entry of a leaf-list; on tells whether a list entry is  *)
(* created or deleted.                                                     *)
NewConf(c, ch) ==
  CASE ch.leaf = "admin" -> [c EXCEPT !.admin[ch.key] = ch.val]
    [] ch.leaf = "an" -> [c EXCEPT !.an[ch.key] = ch.val]
    [] ch.leaf = "access" -> [c EXCEPT !.access[ch.key] = ch.val]
    [] ch.leaf = "trunk" -> [c EXCEPT !.trunk[ch.key] = IF ch.on THEN @ \cup {ch.val} ELSE @ \ {ch.val}]
    [] ch.leaf = "split" -> [c EXCEPT !.split = IF ch.on THEN @ \cup {ch.key} ELSE @ \ {ch.key}]
    [] ch.leaf = "vlan" -> [c EXCEPT !.vlans = IF ch.on THEN @ \cup {ch.key} ELSE @ \ {ch.key}]
    [] ch.leaf = "lag" -> [c EXCEPT !.lags = IF ch.on THEN @ \cup {ch.key} ELSE @ \ {ch.key}]
    [] ch.leaf = "lagif" -> [c EXCEPT !.lagifs[ch.key] = IF ch.on THEN @ \cup {ch.val} ELSE @ \ {ch.val}]
    [] ch.leaf = "up" -> [c EXCEPT !.up = IF ch.on THEN @ \cup {ch.key} ELSE @ \ {ch.key}]
    [] ch.leaf = "down" -> [c EXCEPT !.down = IF ch.on THEN @ \cup {ch.key} ELSE @ \ {ch.key}]
After(c, chs) == FoldLeft(NewConf, c, chs)
\* sysrepo reports only what changes
Effective(c, chs) == \A k \in DOMAIN chs : NewConf(c, chs[k]) # c
ServerOf(ch) == CASE ch.leaf = "vlan" -> "vlan" [] ch.leaf \in {"lag", "lagif"} -> "pc"
                  [] ch.leaf \in {"up", "down"} -> "ufd" [] OTHER -> "intf"
Servers == {"intf", "vlan", "pc", "ufd"}
ChangesFor(s, chs) == SelectSeq(chs, LAMBDA ch : ServerOf(ch) = s)

-----------------------------------------------------------------------------
(* SONiC: the VLAN tables. A VLAN is None or [listed, members]: whether it *)
(* has a members@ field, and the interfaces in it.                         *)
CreateVlan(d, v) == [d EXCEPT !.vlan[v] = IF @ = None THEN [listed |-> FALSE, members |-> {}] ELSE @]
HasMembers(d, v) == \E i \in Ifs : d.member[v][i] # None
\* set_vlan_member and remove_vlan_member; a set that fails leaves the tables as they are
SetVlanMember(d, i, v, mode) ==
  IF d.vlan[v] = None THEN d
  ELSE [d EXCEPT !.vlan[v] = [listed |-> TRUE, members |-> @.members \cup {i}], !.member[v][i] = mode]
RemoveVlanMember(d, i, v) ==
  IF d.vlan[v] = None \/ ~ d.vlan[v].listed THEN d
  ELSE [d EXCEPT !.vlan[v].members = @ \ {i}, !.member[v][i] = None]

-----------------------------------------------------------------------------
(* Handlers. n is the configuration the transaction leads to.              *)

\* _init and validate of every change, against CONFIG_DB and running data
IfValid(ch, n) ==
  /\ ch.key \in Ports
  /\ ch.leaf \in {"access", "trunk"} => n.access[ch.key] = None \/ n.trunk[ch.key] = {}
  /\ ch.leaf = "split" /\ ch.on => ch.key \in DOMAIN Subs /\ ch.key \notin conf.up \cup conf.down
VlanValid(ch) == ch.on \/ (db.vlan[ch.key] # None /\ ~ HasMembers(db, ch.key))
PcValid(ch) == ch.leaf = "lagif" /\ ch.on => \A p \in Pids : ch.val \notin conf.lagifs[p]
\* only one uplink, and no interface on both sides
UfdValid(ch, n) ==
  /\ ch.key \in Ports
  /\ IF ch.leaf = "up" THEN Cardinality(n.up) <= 1 /\ ch.key \notin n.down ELSE ch.key \notin n.up
Valid(ch, n) ==
  CASE ServerOf(ch) = "vlan" -> VlanValid(ch) [] ServerOf(ch) = "pc" -> PcValid(ch)
    [] ServerOf(ch) = "ufd" -> UfdValid(ch, n) [] OTHER -> IfValid(ch, n)

\* apply of the handlers that write to CONFIG_DB
AdminStatus(d, ch) == [d EXCEPT !.admin[ch.key] = Or(ch.val, "down")]
AccessVLAN(d, ch) ==
  LET old == {v \in Vids : d.member[v][ch.key] = "untagged"}
      cleared == FoldLeft(LAMBDA e, v : RemoveVlanMember(e, ch.key, v), d, SetToSeq(old))
  IN IF ch.val = None THEN cleared ELSE SetVlanMember(cleared, ch.key, ch.val, "untagged")
\* the entry of a VLAN that was left is removed whatever its mode
TrunkVLANsAny(d, ch) ==
  IF ch.on THEN SetVlanMember(d, ch.key, ch.val, "tagged") ELSE RemoveVlanMember(d, ch.key, ch.val)
TrunkVLANs(d, ch) ==
  IF ch.on THEN SetVlanMember(d, ch.key, ch.val, "tagged")
  ELSE IF d.member[ch.val][ch.key] = "tagged" THEN RemoveVlanMember(d, ch.key, ch.val) ELSE d
VLANID(d, ch) == IF ch.on THEN CreateVlan(d, ch.key) ELSE [d EXCEPT !.vlan[ch.key] = None]
PortChannel(d, ch) ==
  IF ch.leaf = "lag" THEN [d EXCEPT !.lags = IF ch.on THEN @ \cup {ch.key} ELSE @ \ {ch.key}]
  ELSE [d EXCEPT !.lagifs[ch.key] = IF ch.on THEN @ \cup {ch.val} ELSE @ \ {ch.val}]
SetAdmin(d, f) == [d EXCEPT !.admin = f @@ @]
UplinkIsDown(c) == \E u \in c.up : link.oper[u] = "down"
\* UFDUplinkHandler, UFDDownlinkHandler: down with the uplink, back to what the running data say
UFDUplink(d, ch, n) ==
  IF ch.on THEN IF link.oper[ch.key] = "down" THEN SetAdmin(d, [i \in n.down |-> "down"]) ELSE d
  ELSE SetAdmin(d, [i \in n.down |-> Or(conf.admin[i], "down")])
UFDDownlink(d, ch, n) ==
  IF ch.on THEN IF UplinkIsDown(n) THEN [d EXCEPT !.admin[ch.key] = "down"] ELSE d
  ELSE [d EXCEPT !.admin[ch.key] = Or(conf.admin[ch.key], "down")]
Apply(d, ch, n) ==
  CASE ch.leaf = "admin" -> AdminStatus(d, ch)
    [] ch.leaf = "access" -> AccessVLAN(d, ch)
    [] ch.leaf = "trunk" -> TrunkVLANs(d, ch)
    [] ch.leaf = "vlan" -> VLANID(d, ch)
    [] ch.leaf \in {"lag", "lagif"} -> PortChannel(d, ch)
    [] ch.leaf = "up" -> UFDUplink(d, ch, n)
    [] ch.leaf = "down" -> UFDDownlink(d, ch, n)
    [] OTHER -> d                       \* split: post(); an: with bcmcmd
ApplyFails(d, ch) ==
  \/ ch.leaf = "access" /\ ch.val # None /\ d.vlan[ch.val] = None
  \/ ch.leaf = "trunk" /\ ch.on /\ d.vlan[ch.val] = None
  \/ ch.leaf = "vlan" /\ ~ ch.on /\ HasMembers(d, ch.key)
\* the settings that changes write, for ghost.loose
Cell(leaf) == CASE leaf \in {"access", "trunk"} -> "member" [] leaf = "lagif" -> "lag" [] OTHER -> leaf
Cells(chs) == {<<Cell(chs[k].leaf), chs[k].key>> : k \in DOMAIN chs}
UfdCells(chs) == {<<"ufd", chs[k].key>> : k \in {j \in DOMAIN chs : chs[j].leaf = "admin"}}
DownlinkCells(n) == {<<"admin", i>> : i \in conf.down \cup n.down} \cup {<<"ufd", i>> : i \in conf.down \cup n.down}
Touched(chs, ss, n) ==
  LET mine == SelectSeq(chs, LAMBDA ch : ServerOf(ch) \in ss)
  IN Cells(mine) \cup UfdCells(mine) \cup IF "ufd" \in ss THEN DownlinkCells(n) ELSE {}
\* the changes a reconciliation does not find: it removes nothing
Lost(chs) == Cells(SelectSeq(chs, LAMBDA ch : ch.leaf = "access" \/ (ch.leaf \in {"trunk", "vlan", "lag", "lagif"} /\ ~ ch.on)))

-----------------------------------------------------------------------------
NoTxn == [req |-> 0, left |-> {}, await |-> FALSE, todo |-> <<>>, raced |-> FALSE]
Changes == Requests[txn.req]
Target == After(conf, Changes)
Involved(r) == {s \in Servers : ChangesFor(s, Requests[r]) # <<>>}

Begin(r) ==
  /\ txn = NoTxn /\ count.txns < MaxTxns
  /\ Effective(conf, Requests[r])
  /\ count' = [count EXCEPT !.txns = @ + 1]
  /\ IF srv.subscribed
     THEN /\ txn' = [NoTxn EXCEPT !.req = r, !.left = Involved(r)]
          /\ UNCHANGED <<conf, ghost>>
     ELSE \* nobody is asked: the start-up reconciliation has to find the change
          /\ conf' = After(conf, Requests[r])
          /\ ghost' = [ghost EXCEPT !.loose = @ \cup Lost(Requests[r]),
                                    !.overtaken = @ \/ rec.stage # "idle"]
          /\ UNCHANGED txn
  /\ UNCHANGED <<db, bcm, pods, srv, rec, link>>

\* the whole transaction is refused; revert() of these handlers does nothing
Refuse(d, begun) ==
  /\ txn' = NoTxn /\ db' = d
  /\ ghost' = [ghost EXCEPT !.loose = @ \cup Touched(Changes, begun \cup (Involved(txn.req) \ txn.left), Target)]

\* pre() of the four servers
PreRefuses == srv.rebooting
\* InterfaceServer.post(): a breakout change reboots uSONiC
PostUnqueued == [srv EXCEPT !.rebooting = TRUE]
PostBreakout == [srv EXCEPT !.rebooting = TRUE, !.queue = @ + 1]

\* change_cb of one server from pre() to its first await or its end, and post()
RunUntilAwait(s, todo) ==
  LET stop == SelectInSeq(todo, LAMBDA ch : ch.leaf = "an")
      now == IF stop = 0 THEN todo ELSE SubSeq(todo, 1, stop)
      rest == IF stop = 0 THEN <<>> ELSE SubSeq(todo, stop + 1, Len(todo))
      run == FoldLeft(LAMBDA a, ch : IF a.failed \/ ApplyFails(a.d, ch) THEN [a EXCEPT !.failed = TRUE]
                                     ELSE [a EXCEPT !.d = Apply(@, ch, Target)], [d |-> db, failed |-> FALSE], now)
      posted == stop = 0
      reboots == posted /\ s = "intf" /\ \E k \in DOMAIN Changes : Changes[k].leaf = "split"
      \* the handlers of a group restore what the running data say, not what is being configured
      stale == {c \in DownlinkCells(Target) : c[1] = "admin" /\ run.d.admin[c[2]] # Or(Target.admin[c[2]], "down")}
  IN IF run.failed THEN Refuse(run.d, {s}) /\ UNCHANGED <<bcm, srv>>
     ELSE /\ db' = run.d
          /\ bcm' = IF stop = 0 THEN bcm ELSE [bcm EXCEPT ![todo[stop].key] = Or(todo[stop].val, "no")]
          /\ txn' = [txn EXCEPT !.await = ~ posted, !.todo = rest, !.left = IF posted THEN @ \ {s} ELSE @]
          /\ srv' = IF reboots THEN PostBreakout ELSE srv
          /\ ghost' = [ghost EXCEPT !.loose = @ \cup IF s = "ufd" THEN stale ELSE UfdCells(ChangesFor(s, Changes))]

\* between the patch of the config map and that of the deployments the event loop runs nothing else
InSync == rec.stage = "patched"

Deliver(s) ==
  /\ s \in txn.left /\ ~ txn.await /\ srv.up /\ ~ InSync
  /\ LET mine == ChangesFor(s, Changes)
     IN IF PreRefuses \/ \E k \in DOMAIN mine : ~ Valid(mine[k], Target)
        THEN Refuse(db, {}) /\ UNCHANGED <<bcm, srv>>
        ELSE RunUntilAwait(s, mine)
  /\ UNCHANGED <<conf, pods, rec, link, count>>
\* the call of bcmcmd returns; only the server of the interfaces makes one
Resume == txn.await /\ ~ InSync /\ RunUntilAwait("intf", txn.todo) /\ UNCHANGED <<conf, pods, rec, link, count>>
BcmcmdFails ==
  /\ txn.await /\ ~ InSync /\ count.faults < MaxFaults
  /\ count' = [count EXCEPT !.faults = @ + 1]
  /\ Refuse(db, {"intf"})
  /\ UNCHANGED <<conf, bcm, pods, srv, rec, link>>
Commit ==
  /\ txn # NoTxn /\ txn.left = {}
  /\ conf' = Target /\ txn' = NoTxn
  /\ ghost' = [ghost EXCEPT
       !.loose = IF txn.raced THEN @ \cup Lost(Changes)
                 ELSE @ \ {c \in Cells(Changes) \ DownlinkCells(Target) : c[1] \in {"admin", "an", "vlan"}},
       !.overtaken = @ \/ txn.raced]
  /\ UNCHANGED <<db, bcm, pods, srv, rec, link, count>>

-----------------------------------------------------------------------------
(* InterfaceServer.reconcile()                                             *)
Idle == [stage |-> "idle", todo |-> <<>>, held |-> None]
PortTodo == [Idle EXCEPT !.stage = "ports", !.todo = SetToSeq(Ports)]

\* handle_tasks takes the task, or start() calls it: running data are read, update_usonic_config
\* compares with the config map, not with what uSONiC runs, and patches it
Reconcile ==
  /\ srv.up /\ rec = Idle
  /\ srv.queue > 0 \/ ~ srv.subscribed
  /\ srv' = [srv EXCEPT !.rebooting = TRUE]
  /\ IF pods.cm # conf.split
     THEN /\ pods' = [pods EXCEPT !.cm = conf.split]
          /\ rec' = [Idle EXCEPT !.stage = "patched"]
     ELSE rec' = PortTodo /\ UNCHANGED pods
  /\ ghost' = [ghost EXCEPT !.overtaken = FALSE]
  /\ txn' = IF txn = NoTxn THEN txn ELSE [txn EXCEPT !.raced = TRUE]
  /\ UNCHANGED <<conf, db, bcm, link, count>>
\* restart_usonic patches the deployments
RestartUsonic ==
  /\ InSync /\ rec' = [rec EXCEPT !.stage = "restarted"]
  /\ pods' = [pods EXCEPT !.pod = "old"]
  /\ UNCHANGED <<conf, db, bcm, srv, link, txn, ghost, count>>
\* watch_pods
OpenWatch ==
  /\ rec.stage = "restarted" /\ rec' = [rec EXCEPT !.stage = "watch"]
  /\ UNCHANGED <<conf, db, bcm, pods, srv, link, txn, ghost, count>>
PodDeleted ==
  /\ pods.pod = "old" /\ pods' = [pods EXCEPT !.pod = "gone"]
  /\ srv' = [srv EXCEPT !.deleted = @ \/ rec.stage = "watch"]
  /\ UNCHANGED <<conf, db, bcm, rec, link, txn, ghost, count>>
\* uSONiC starts with the ports of the config map and an empty database
EmptyDb == [admin |-> [i \in Ifs |-> "down"], vlan |-> [v \in Vids |-> None],
            member |-> [v \in Vids |-> [i \in Ifs |-> None]], lags |-> {}, lagifs |-> [p \in Pids |-> {}]]
PodRunning ==
  /\ pods.pod = "gone"
  /\ pods' = [pods EXCEPT !.pod = "new", !.live = pods.cm]
  /\ db' = EmptyDb /\ bcm' = [i \in Ifs |-> "no"]
  /\ LET seen == rec.stage = "watch" /\ srv.deleted
     IN /\ rec' = IF seen THEN [Idle EXCEPT !.stage = "ports", !.todo = SetToSeq(PortsOf(pods.cm))] ELSE rec
        /\ srv' = IF seen THEN [srv EXCEPT !.deleted = FALSE] ELSE srv
        /\ ghost' = [ghost EXCEPT !.loose = {}, !.overtaken = @ \/ ~ seen, !.unrestarted = FALSE]
  /\ UNCHANGED <<conf, link, txn, count>>
\* the settings of one port: running data, auto-negotiation, and after the await CONFIG_DB
ReconcilePort ==
  /\ rec.stage = "ports" /\ rec.todo # <<>>
  /\ bcm' = [bcm EXCEPT ![Head(rec.todo)] = Or(conf.an[Head(rec.todo)], "no")]
  /\ rec' = [rec EXCEPT !.stage = "await", !.held = Or(conf.admin[Head(rec.todo)], "down")]
  /\ UNCHANGED <<conf, db, pods, srv, link, txn, ghost, count>>
ReconcilePortDb ==
  /\ rec.stage = "await"
  /\ db' = [db EXCEPT !.admin[Head(rec.todo)] = rec.held]
  /\ rec' = [stage |-> "ports", todo |-> Tail(rec.todo), held |-> None]
  /\ ghost' = [ghost EXCEPT !.loose =
       (@ \ {<<"admin", Head(rec.todo)>>, <<"an", Head(rec.todo)>>}) \cup {<<"ufd", Head(rec.todo)>>}]
  /\ UNCHANGED <<conf, bcm, pods, srv, link, txn, count>>
\* VLANServer.reconcile and PortChannelServer.reconcile
Members(i) ==
  LET modes == [v \in Vids |-> IF v \in conf.trunk[i] THEN "tagged" ELSE IF conf.access[i] = v THEN "untagged" ELSE None]
  IN {<<i, v, modes[v]>> : v \in {w \in Vids : modes[w] # None}}
\* the VLANs that exist get their members; none is created
ReconcileVlansMembersOnly ==
  FoldLeft(LAMBDA d, m : SetVlanMember(d, m[1], m[2], m[3]), db, SetToSeq(UNION {Members(i) : i \in Ports}))
ReconcileVlans ==
  LET d0 == FoldLeft(CreateVlan, db, SetToSeq(conf.vlans))
  IN FoldLeft(LAMBDA d, m : SetVlanMember(d, m[1], m[2], m[3]), d0, SetToSeq(UNION {Members(i) : i \in Ports}))
ReconcileLags(d) == [d EXCEPT !.lags = @ \cup conf.lags,
                              !.lagifs = [p \in Pids |-> @[p] \cup IF p \in conf.lags THEN conf.lagifs[p] ELSE {}]]
\* a member of a VLAN that is not there: set_vlan_member raises
Dangling == \E i \in Ports : \E m \in Members(i) : m[2] \notin conf.vlans /\ db.vlan[m[2]] = None
ReconcileServers ==
  /\ rec.stage = "ports" /\ rec.todo = <<>> /\ ~ Dangling
  /\ db' = ReconcileLags(ReconcileVlans)
  /\ rec' = Idle
  /\ srv' = [srv EXCEPT !.rebooting = FALSE, !.subscribed = TRUE, !.queue = IF srv.subscribed THEN @ - 1 ELSE @]
  /\ UNCHANGED <<conf, bcm, pods, link, txn, ghost, count>>

\* the process ends: the transaction is refused, unless every server has accepted it
Down ==
  /\ srv' = [up |-> FALSE, rebooting |-> FALSE, queue |-> 0, subscribed |-> FALSE, deleted |-> FALSE]
  /\ rec' = Idle
  /\ txn' = IF txn.left = {} THEN txn ELSE NoTxn
  /\ ghost' = [ghost EXCEPT
       !.unrestarted = @ \/ (InSync /\ pods.live # pods.cm),
       !.loose = @ \cup IF txn.left = {} THEN {}
                 ELSE Touched(Changes, (IF txn.await THEN {"intf"} ELSE {}) \cup (Involved(txn.req) \ txn.left), Target)]
  /\ link' = [link EXCEPT !.notif = [i \in Ifs |-> "unknown"], !.dirty = {}]
  /\ UNCHANGED <<conf, db, bcm, pods>>
\* a call of the Kubernetes API in restart_usonic raises: the task of handle_tasks or start() ends
ApiFails ==
  /\ InSync /\ count.faults < MaxFaults /\ count' = [count EXCEPT !.faults = @ + 1]
  /\ Down
ReconcileFails == rec.stage = "ports" /\ rec.todo = <<>> /\ Dangling /\ Down /\ UNCHANGED count
Crash == srv.up /\ count.crashes < MaxCrashes /\ count' = [count EXCEPT !.crashes = @ + 1] /\ Down
Restart == /\ ~ srv.up /\ srv' = [srv EXCEPT !.up = TRUE]
           /\ UNCHANGED <<conf, db, bcm, pods, rec, link, txn, ghost, count>>

-----------------------------------------------------------------------------
(* Link events                                                             *)
LinkChange(i) ==
  /\ i \in Ports \cap Flapping /\ count.links < MaxLinks /\ count' = [count EXCEPT !.links = @ + 1]
  /\ link' = [link EXCEPT !.oper[i] = IF @ = "up" THEN "down" ELSE "up",
                          !.dirty = IF srv.subscribed THEN @ \cup {i} ELSE @]
  /\ UNCHANGED <<conf, db, bcm, pods, srv, rec, txn, ghost>>

\* ufd_handler, while the configuration is that of the running data; what a transaction in
\* progress has set is overwritten
Downlinks(i) == IF i \in conf.up THEN conf.down ELSE {}
\* a transition to up is left to the client
UfdHandlerDownOnly(i) == IF link.oper[i] = "down" THEN SetAdmin(db, [j \in Downlinks(i) |-> "down"]) ELSE db
UfdHandler(i) ==
  IF link.oper[i] = "down" THEN SetAdmin(db, [j \in Downlinks(i) |-> "down"])
  ELSE SetAdmin(db, [j \in {k \in Downlinks(i) : conf.admin[k] = "up"} |-> "up"])
\* event_handler: the status is read when the event is taken
EventHandler(i) ==
  /\ srv.subscribed /\ ~ InSync /\ i \in link.dirty
  /\ LET news == link.oper[i] # link.notif[i]
     IN /\ link' = [link EXCEPT !.dirty = @ \ {i}, !.notif[i] = link.oper[i]]
        /\ db' = IF news THEN UfdHandler(i) ELSE db
        /\ ghost' = [ghost EXCEPT !.loose =
                      LET js == {<<l, j>> : <<l, j>> \in {"admin", "ufd"} \X Downlinks(i)}
                      IN IF ~ news THEN @ ELSE IF txn = NoTxn THEN @ \ js ELSE @ \cup js]
  /\ UNCHANGED <<conf, bcm, pods, srv, rec, txn, count>>

-----------------------------------------------------------------------------
EmptyConf == [admin |-> [i \in Ifs |-> None], an |-> [i \in Ifs |-> None], access |-> [i \in Ifs |-> None],
              trunk |-> [i \in Ifs |-> {}], split |-> {}, vlans |-> {}, lags |-> {},
              lagifs |-> [p \in Pids |-> {}], up |-> {}, down |-> {}]
Init ==
  /\ conf = EmptyConf /\ db = EmptyDb /\ bcm = [i \in Ifs |-> "no"]
  /\ pods = [cm |-> {}, live |-> {}, pod |-> "new"]
  /\ srv = [up |-> TRUE, rebooting |-> FALSE, queue |-> 0, subscribed |-> TRUE, deleted |-> FALSE]
  /\ rec = Idle /\ txn = NoTxn
  /\ link = [oper |-> [i \in Ifs |-> "up"], notif |-> [i \in Ifs |-> "unknown"], dirty |-> {}]
  /\ ghost = [loose |-> {}, overtaken |-> FALSE, unrestarted |-> FALSE]
  /\ count = [txns |-> 0, links |-> 0, crashes |-> 0, faults |-> 0]

Next ==
  \/ \E r \in DOMAIN Requests : Begin(r)
  \/ \E s \in Servers : Deliver(s)
  \/ Resume \/ BcmcmdFails \/ Commit
  \/ Reconcile \/ RestartUsonic \/ ApiFails \/ OpenWatch \/ PodDeleted \/ PodRunning
  \/ ReconcilePort \/ ReconcilePortDb \/ ReconcileServers
  \/ ReconcileFails \/ Crash \/ Restart
  \/ \E i \in Ifs : LinkChange(i) \/ EventHandler(i)

Spec ==
  /\ Init /\ [][Next]_vars
  /\ WF_vars(Reconcile) /\ WF_vars(RestartUsonic) /\ WF_vars(OpenWatch) /\ WF_vars(PodDeleted) /\ WF_vars(PodRunning)
  /\ WF_vars(ReconcilePort) /\ WF_vars(ReconcilePortDb) /\ WF_vars(ReconcileServers)
  /\ WF_vars(ReconcileFails) /\ WF_vars(Restart) /\ WF_vars(Resume)
=============================================================================
