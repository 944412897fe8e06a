# Verification of the Goldstone management layer

TLA+ models of the parts of `goldstone-mgmt` that carry its concurrency and its failure
handling, checked with TLC on small instances, and theorems about them proved with TLAPS.
Paths in this document are relative to the repository; a file name with a line, such as
`core.py:149`, is the file of that name in the component the text is about.

## 1. Inventory

Goldstone management is a set of daemons around sysrepo, a datastore that is not part
of the repository. *South* servers own hardware or an operating system and make it
follow the running datastore; *translators* present the same data in other YANG models;
*north* servers give clients access to the datastore; *system* servers do both.
They never call each other. They interact through

- **transactions**: a client applies changes to the running datastore; every server that
  subscribes to a changed model gets `change`, later `done` or `abort`, in a callback;
- **operational reads**: sysrepo asks the server that owns the data (`oper_cb`);
- **notifications** and **RPCs** through sysrepo.

| Part | State | Operations | What is hard | Correct when |
|---|---|---|---|---|
| Change-handling engine, `lib/core.py` | `_current_handlers`, `revert_task`, `lock` | `start`, `change_cb` (`change`, `done`, `abort`), `do_revert`, `stop` | handlers that fail half way, client timeouts, a revert timer beside the callbacks, crashes between events | the device follows the datastore, every server ends each transaction the same way |
| Connectors, `lib/connector`, `lib/server_connector` | sessions with pending changes, a shared NETCONF candidate | `get`, `set`, `delete`, `apply`, `discard_changes` | a session shared by callers; errors that discard what others have pending | a failed operation leaves nothing pending |
| Transponder server, `south/tai`, with the PIU monitor of `south/onlp` | `modules`, monitor tasks, TAI objects | plug and unplug, `initialize_piu`, `cleanup_piu`, line-rate handler, start | plugging races start-up and configuration | a plugged module ends up configured, an unplugged one leaves nothing |
| Gearbox server, `south/gearbox` | TAI objects and attributes, tributary mapping | two servers' handlers, reconciliation, `oper_cb` | two servers, one device; objects that come and go with a pin mode | attributes and mapping follow the configuration |
| SONiC server, `south/sonic` | a deployment in Kubernetes, a task queue, CONFIG_DB, bcmcmd | four servers' handlers, `post`, `reconcile`, reboot of uSONiC, link events | a reboot in the middle of configuration | configuration survives the reboot, every reboot ends |
| OcNOS server, `south/ocnos` | the candidate datastore of one NETCONF session | handlers of interfaces and VLANs, commit, discard, reconcile | two servers share one candidate; commits that are refused | the device has all of the configuration and nothing else |
| Streaming telemetry, `system/telemetry` | subscription store, telemetry store, loop tasks | created, deleted requests, samples, poll, reverts | data that changes between samples, failures that are swallowed, restarts | a collector ends up knowing the data |
| gNMI Subscribe, `north/gnmi` | `_subscribe_requests`, a list of notifications per call | `Subscribe`, `_notification_cb`, `exec`, `clear`, polls | three threads and another process, clients that vanish | answers are complete, nothing is left behind, threads come back |
| OpenConfig and OpenROADM translators, `xlate` | a second session, a reconcile task | change handlers, `post`, reconcile; factories for `oper_cb` | a transaction inside a transaction; data read in several reads | the native configuration is what the service model asks for; answers are consistent |
| SNMP agent, `north/snmp` | connection, session, cached tables | open, register, GetNext, updaters, shutdown | restarts of snmpd, a table that changes during a walk | walks are complete, the agent comes back and ends |
| DPLL, system, netlink servers; gNMI Get and Set; CLI; notification forwarder; path parser | nothing between two callbacks | see section 5 | - | - |

`PROJECT.json` lists all of them, with what is modelled, and the hazards with their lines.

## 2. Modules

```
AtomicConfig <-(implements)- ServerBaseProps
ServerBase  <- ServerBaseProps <- ServerBaseProofs, MCServerBase
Telemetry   <- TelemetryProps  <- TelemetryProofs, MCTelemetry
            <- GnmiSubscribe   <- GnmiSubscribeProps <- TelemetryProofs, MCGnmiSubscribe
Piu         <- PiuProps        <- MCPiu
Gearbox     <- GearboxProps    <- GearboxProofs, MCGearbox
Ocnos       <- OcnosProps      <- MCOcnos
Sonic       <- SonicProps      <- MCSonic
Xlate       <- XlateProps      <- XlateProofs, MCXlate
OcState     <- OcStateProps    <- OcStateProofs, MCOcState
Snmp        <- SnmpProps       <- SnmpProofs, MCSnmp
```

An arrow is EXTENDS; TelemetryProofs is about both of its modules, because a subscription is a feed of Telemetry. No specification uses the operators `PROJECT.json` names as the mutated
form of a definition (`NoConflictUnchecked`, `RateTxnUnchecked`, ...): each is what the definition
after it would be with a plausible bug, and shows that a property would notice it.

### AtomicConfig

The abstract specification of the engine: per server a configuration and a device, which is
`Working` while the server is busy. `Disturb(B)`: the servers B become busy, and only their
configuration may change. `Settle(S, B)`: busy servers S hold their configuration again, while
others may become busy. `Settles`: no server stays busy. `ServerBaseProps!Abstract` maps
ServerBase to it: a server that is not `Quiet` is busy.

### ServerBase

`goldstone.lib.core.ServerBase` together with sysrepo, for any number of servers in one
transaction. The state of a server is its inbox of events, `pc`, `idx` and `handlers` (where
the `change_cb` that holds the lock is), `cur` (`_current_handlers`, by the id of its
transaction), `timer` and `tidx` (`revert_task`), `orig` (what the handlers saved) and `hw`
(the device). One action is what happens between two awaits: `ChangeBegin`, `ApplyOk`,
`ApplyRaises`, `RevertStep`, `ChangeEnd`, `FinishEvent`, `TimerFires`, ...

sysrepo (`Begin`, `NotifyChange`, `Commit`, `Finish`, `ClientTimeout`, `Accept`,
`Refuse`) is external and modelled from how `core.py` uses it and what its comments
say of it (`core.py:95-119`): `change` goes to one server after the other, `done` only
after all have accepted, `abort` only to those that had, and neither if the client gave up.

The handlers are the ones of the transponder server (`TAIHandler`): `apply` saves the
device's value and then writes its own, `revert` writes the saved one. `Reconcile` and
`Subscribe` are the two halves of a server's `start()`. The device and the
datastore are functions from leaves to values; xpaths and value conversions are left out.

Four flags say what the environment may do: `SlowPeers` (a transaction outlives
`revert_timeout`), `RevertMayRaise`, `PostMayRaise`, `ConfigDuringStart`. `Defaulted`
are the leaves `start()` writes even when they are not configured.

### Telemetry

The telemetry server of `system/telemetry`: requests are created, deleted, amended and reverted
(`SubscribeRequestChangeHandler`), feeds are sampled by loop tasks (`Sample` is
`_sample_and_notify`, `Tick` lets time pass, in units of the update interval), polls
answer from the store. `feeds` is the subscription store, `store` the telemetry store with
the age of every entry, `out` the notifications that sysrepo has not delivered and `view`
what the collector of a request knows. The engine is reduced to one stored handler
(`pend`) that is committed or reverted. Paths are a constant: the leaves below each of
them. `faults` records what went wrong: an `abort`, a `start` or `sample` that raises, a `crash`,
an `amend` and, in GnmiSubscribe, a `giveup`. A property that some kind of fault is known to
break is stated for histories without that kind (`OnlyFaults`).

`since` counts the ticks since a feed was started and only serves to state `SilenceBounded`. The requests are typed as
`goldstone-telemetry.yang` does, with parameters that may be absent (`RequestAssumption`); leaves and
subscription ids are finite sets.

Whether a heartbeat that is exactly over counts as expired depends on microseconds, so both
outcomes are allowed (the set `X` of `Sample`). `stop()` is one step:
it waits until the cancelled tasks are done, and nothing else of the request happens in
between.

### GnmiSubscribe

The `Subscribe` service composed with Telemetry. `call` is what the worker thread of a call
does: `exec` (registered, nothing configured), `applying`, `initial` (waits for the
SYNC_RESPONSE), `synced` (empties the list), `stream`, `polling`, `clear`,
`clearing`, `ended`. The actions of Telemetry happen as they are; the worker threads make
its transactions, and a notification takes two steps to the client: `NotificationCb` in
sysrepo's thread, `Yield` in the worker thread. Clients (`Subscribe`, `Leave`, polls)
do what they want at any time; `Asks` gives the requests each may make. `GiveUp` is an `apply()`
that times out while the telemetry server still
stores the handler; until its timer reverts it, the engine refuses every transaction.
`ExecUnserved` is a request that is configured while the telemetry server is down.
A crash in the middle of a transaction is left to ServerBase. `ConfigOf` of what a call
asks for is one of Telemetry's `Configs` (`GnmiAssumption`); in the instance `Configs` is nothing else. Request ids are
random 32-bit numbers in the code and never repeated here.

### Piu

The life of a pluggable module in one slot: the platform server polls it and notifies
(`MonitorPiu`, `south/onlp`), the transponder server handles every notification in a task of its
own (`job`: `initialize_piu` and `cleanup_piu`, step by step between awaits; `Jobs` says how many at once), starts, crashes, and runs
transactions of the line rate, whose handler removes and creates host interfaces. `mons` are the
monitor tasks, `ents` the entries of `self.modules` (each with its lock), `tai` the objects TAI
has; a module object that is created again has another oid. A callback and a transaction decide from the host
interfaces the module object had when they got it from taish, before they hold the lock, and not from what taish has now; objects are
removed and created one at a time, in `cleanup_piu` as well as in `apply` and `revert` of the line rate, so that
an operational request meets every intermediate state.

`count` records what the code has no answer to, and every property that exempts it says so:
`skew` (the server started, or read the configuration of a module, while the slot or the datastore was changing under it),
`raced` (a callback failed the assertion of `initialize_piu`, overtook the one before it, or cleaned up an entry that was no longer in
`self.modules`), `stale` (a transaction met other host interfaces than its module object had), `stuck` (a `cleanup_piu` failed
between two removals) and `cut` (the server ended in the middle of a transaction). The default line rate of the instance uses all the host interfaces.

### Gearbox

The two servers of the gearbox daemon, which configure one device under two locks. A transaction of
InterfaceServer is a sequence of changed leaves; each stands for the leaves that are treated alike.
`attrs` are the TAI objects that exist with their attributes; a mapping refers to an object by interface and `oid`, so that a reference
to an object that was removed stays dead when the interface gets another one. `PinModeHandler` is modelled call by call (`job`): `remove()` reads the mapping, sets it
without the interface and removes the object (`RemoveRead`, `RemoveUnmap`, `RemoveDrop`); `create()` creates the object, gives
it its attributes and sets the default mapping of the module object from before the creation (`CreateObject`, `CreateFill`, `CreateMap`).
GearboxServer, operational requests and crashes come between any two of them, and any of them may fail.
`raced` is what GearboxServer put into the mapping of an object that InterfaceServer had already taken out of it, or that was gone: `SetMapping`
writes what `Post` looked up before, and TAI may accept it.
Creating an object that exists is refused by TAI. The rollback of a refused change is modelled as the code does it, `revert()` that
raises included (see section 3), and `torn` records what such a transaction leaves behind.
Aborts of an accepted transaction are not modelled here.

### Ocnos

Both servers of the OcNOS daemon and the device behind NETCONF. `cand` is the candidate of the one
session both use, `dev` the running datastore of the device. A transaction is applied edit by
edit to the candidate and committed by `post`; edits and commits fail, the process dies
between two edits, the device is reset or drops the session (`srv.open`). An error the device reports (`RPCError`) discards the
candidate and refuses the transaction. Any other exception (a timeout, whose edit or commit may have been done or not, a session
that is closed, an assertion) refuses it and leaves the edits where they are; `cand.left` are the items so left. In
`reconcile()` an edit that fails ends the process without a discard. Whether the candidate outlives the NETCONF session
depends on the device, so both happen. A commit is refused for a delete of what is not there (comment
`interfaces.py:48-50`) and for a VLAN that does not exist (`main.py:42-43`). The changes of an interface or VLAN are
applied in the order of the YANG model (`Rank`), the items, and those that reconcile() writes, in any order. An operational request
raises as a whole when an interface it is about negotiates its speed (`OperRaises`). `loose` names items that
a weakness of section 3 has separated: an interface that comes back as UP, the items of an accepted transaction that another
server refuses, what another exception than `RPCError` left, what a dead or starting process misses and reconcile() does not restore (`MissedBy`).

### Sonic

The interface, VLAN, port channel and UFD servers of the SONiC daemon with CONFIG_DB (`db`), the bcmcmd
settings (`bcm`), the config map and the deployment with its pod (`pods`), the task queue (`srv.queue`), link events and
the reboot (`rec`: patch of the config map, scale down, watch of the pods, scale up, set everything again). The patch of the config map and
those of the deployments are separate calls (`rec.stage = "patched"` between them): one may fail, or the process end, after the
other, and `ghost.unrestarted` records it. The restart of uSONiC is
external and empties CONFIG_DB. `admin` stands for MTU and FEC too, `an` for all
settings made through bcmcmd. `ghost.loose` names the settings that a race of section 3 has separated.

### Xlate

The configuration path of the translators: `openconfig-platform`, `openconfig-interfaces` and
`org-openroadm-device` are three servers (`ocp`, `oci`, `or`) that write the same native leaves. A change handler
computes native edits, `post()` applies them in a session of its own, and the outer transaction is
committed or aborted after that. The hardware a leaf refers to changes (`env`), native clients
write too, and the reconcile loop of `openconfig-interfaces` writes again and again until one of its writes fails, which ends
the process (`ReconcileFails`). A process that ended is started again (`down`, `Started`), but one whose server is stuck (section 3) does not
end by itself: only somebody's kill frees it (`Killed`), which nothing obliges. What is committed while a process is down is stored
untranslated (`Unheard`). `by` records which leaf was
the last to write a native leaf, `loose` what an abort or a reading race has separated. A handler is split the way the classes
of the code are: `Nodes` resolves a leaf to hardware (`_setup`, `validate_modules`, `_translate_circuit_pack_name`), `Translate` is what
it makes of the value, and `Skips` the one condition under which `apply()` does nothing. A session is the last edit of each native leaf.

### OcState

The answers of the translators to operational requests: the datasets of a request are read one after the
other (`Read`), while components, modules, interfaces and connections come and go (`Event`), and the
factories then compute the answer from whatever mixture was read: components, logical channels, interfaces,
packed ids of dynamic subscriptions, and the circuit packs and interfaces of OpenROADM.
A name is the sequence of its parts, so that composing a name and taking it apart again are what the code does
with the separators; a component without state and a dataset
that is missing are among the data; the network interfaces are listed in the order in which the code numbers their channels.

### Snmp

The agent: connection and session with snmpd (`conn`), the updater task that replaces the cached table, GetNext over
the lexicographic tree of OIDs (relative to mib-2), walks, restarts of snmpd, PDUs that are cut in two,
and shutdown at any time. The wire encoding is left out; a column with a row
that lacks a value ends at that row (`mib.py:321-332`). Indexes of interfaces are positions, as in the code. A request
for the system description raises when the datastore does not answer (`DescrFails`).

## 3. Runs

Every run ends within five minutes with two workers, most within one. Deadlock is not checked:
the counters of the bounds, and clients that do nothing more, let every model stop.

| Run | Instance | Shows |
|---|---|---|
| `sb_benign` | 2 servers, 2 transactions, 1 crash, lists of two changes with deletions and an unsupported leaf | `QuietServerInSync`, `DeviceInv`: the device follows the datastore through failures, aborts, client timeouts and a crash at any point. `CommitOnlyApplied`: the datastore is only written after the devices. `ConfigIsAtomic`: the engine implements AtomicConfig, so that no server refuses changes for ever |
| `sb_faults` | the same with all four flags | `ProtocolInv`: whatever goes wrong, events and stored handlers belong to the current transaction |
| `sb_slow` | `SlowPeers`, 1 transaction | violation of `QuietServerInSync` |
| `tm_feed` | 1 request of every mode and some that are refused, 2 subscriptions, 2 leaves, 2 transactions, 1 change of data, 1 fault of any of five kinds | `FeedConsistent`, `NoRepeats`, `FeedsMatchConfig`, `SilenceBounded`, `SampleComplete`, `CollectorsCatchUp` |
| `gn_calls` | 2 calls (STREAM, ONCE, a path that does not exist; POLL, ONCE), clients that leave, 1 fault, 1 change of data, 1 poll | `AnswersConsistent`, `AnswersComplete`, `NothingLeft`, `CallsEndIfServed` |
| `pi_life` | 3 host interfaces, 2 line rates, 3 moves of the module, 2 notification callbacks at once, 2 transactions, 1 fault, crash or restart of the platform server; only `Regular` histories | `HostConfigFits`, `MonitorsExact`, `OperFailsOnlyMidway`, `SlotSettles` |
| `gb_config` | 2 line side and 1 client side interface, 2 transactions of up to two leaves, 2 of the other server or operational requests, 1 fault or crash | `ConfiguredExists`, `AttributesMatch`, `MappingLive`, `OperAnswersConfig` |
| `on_life` | 1 interface, 1 VLAN, 3 transactions, 1 fault (an edit or commit refused or unanswered, a session closed), 1 crash, 1 reset of the device | `DeviceFollows`, `CandidateClean`, `Recovers` |
| `sn_life` | 2 ports, one of which splits, 1 VLAN, 1 port channel, 3 transactions, 2 link events, 1 crash, 1 fault | `SonicInForce`, `UfdHolds`, `RebootEnds` |
| `xl_config` | 3 servers, 3 transactions, 1 disturbance (hardware, native client, abort, a write that fails, a process killed) | `ConfiguredInForce`, `PortReachesBothEnds`, `EnabledEnforced` |
| `oc_state` | 3 events of the hardware around 1 request of any kind | `HierarchySound`, `ChannelsSound`, `AnsweredUnlessOdd` |
| `sp_agent` | 2 interfaces, 1 change of them, 1 restart of snmpd, 1 bad PDU, 1 walk | `NextIsSuccessor`, `WalkComplete`, `Registers`, `TableFollows`, `ShutdownEnds` |

**Bounds.** Two servers are needed for an abort (one accepts, the other refuses), two
transactions for the second one to meet what the first left behind, lists of two changes
for a failure between two handlers, one crash for a restart at every point. Creating a request and
deleting it takes two transactions; the second subscription and leaf let one update overtake another.
`MaxAge` is above the longest heartbeat plus period, so that `SilenceBounded` is not cut off (the theorem holds for
every `MaxAge`);
`MaxOut` keeps a slow collector from growing its queue for ever.
Two calls suffice for one to make the engine refuse the other. In `pi_life` three moves are plug, unplug
and plug again while the tasks of the first still run; two line rates with different host interfaces
make the handler remove some and keep others. Its `CONSTRAINT Regular` stops a history at the state from which every property
of the run exempts it; the defects behind that are below. In `gb_config` one pin mode excludes one other interface; two
transactions are one that fails and one that meets what it left. In `on_life` and `sn_life` three transactions
create, change and remove an item. In `xl_config` three transactions let those of all three servers overlap. In `oc_state`
three events put a change between any two of the reads of a request; the modules have one, two and no network interfaces.

**Fairness.** Weak fairness of the steps of event loops and threads, of sysrepo's steps
and of time: asyncio runs every ready task, a blocked `apply()` returns or times out, and
containers are restarted. Clients, crashes, faults and changes of data are never obliged
to happen. Per model: Piu for the platform monitor, start, delivery, tasks and transactions; GnmiSubscribe
for the worker threads, the notification callback and the engine's timer; Sonic for the reconciliation and the
steps of Kubernetes; Xlate for `post`, the end of transactions, the restart of a process that ended and the reconcile loop, and none for the kill that frees
a stuck server: nothing sets the stop event (`core.py:149`, `153-157`), so that `EnabledEnforced` is about the loop, which a stuck server does not stop; OcState for the reads and the answer; Ocnos for the start alone;
Snmp for updaters and a master that starts again, and strong fairness for opening the session and for receiving a
response, because the restarts and lost PDUs that interrupt them are bounded.

### Where the code and its documentation disagree

The violation run `sb_slow` is in `PROJECT.json` under `findings`: a transaction longer than
`revert_timeout` is undone under its own feet.

Four statements of the code are definitions that TLC refutes when they are put into the cfg of the run of their model.
They are no runs:

| Definition | Run to put it in | What the code says, and does |
|---|---|---|
| `LocationIsNew` (PiuProps) | `pi_life` | the assertion at `transponder.py:367`: the location is not in `self.modules`. A plug whose predecessor is still being handled fails it; the callback pops the entry the other one works on, and the plugged module stays uninitialised |
| `AnyErrorUndone` (OcnosProps) | `on_life` | `core.py:106`: if any error happens, the changes made in advance are reverted. After a timeout the edits stay in the candidate, and the next commit of either server takes them along |
| `RestartedIfUpdated` (SonicProps) | `sn_life` | `interfaces.py:328`: uSONiC is restarted when its configuration changed. When the process ends, or a call fails, after the patch of the config map (`k8s_api.py:358`), every later run finds no changes (`346-348`) and uSONiC keeps the old ports |
| `WatchEnds` (SonicProps) | `sn_life` | `k8s_api.py:415-416`: the pod is deleted, then running. The watch begins after the restart was asked for (`418`); if the pod is gone by then, the event never comes |

The properties of these runs exempt what follows (`InTurn`; `left` and `loose`; `ghost.unrestarted`; `WatchMissed`), so that they show that nothing
else goes wrong. The models show more of this kind when their constants or the conditions of the properties are changed:

- **ServerBase.** With `RevertMayRaise`: an `abort` whose `revert()` raises leaves `_current_handlers` set
  (`core.py:149`), and every later change is refused (`core.py:153-157`); a rollback stops half way. With
  `PostMayRaise`: `post()` that raises leaves all handlers applied
  (`core.py:190`). With `ConfigDuringStart`: what is committed between the read of the datastore and
  the subscription in `start()` is missed (`transponder.py:661`). With a leaf outside
  `Defaulted`: its value survives a crash although it is not configured.
- **Gearbox, DPLL.** That `revert()` raises is no theory: `interfaces.py:119` and `dpll.py:102` print `self.name`, which no
  handler has, so that reverting anything that had changed raises `AttributeError`, where `core.py:102` says "if any
  error happens, revert the changes made in advance". A refused change stays on the device as far as it got
  (`AttributesMatch` without `torn`), and an `abort` blocks the server as above. The two servers
  look at the mapping and write it under different locks, with awaits in between (`interfaces.py:242-247`, `gearbox.py:156`): GearboxServer can put an object back into
  the mapping that InterfaceServer is about to remove (`MappingLive` without `raced`). The tributary
  mapping is set after a change of connections from the connections before it (`gearbox.py:142`).
- **Telemetry.** Configured requests are not fed after a restart and cannot be deleted (`telemetry.py:530`,
  `444-448`), although the server "manages telemetry subscriptions requested via goldstone-telemetry" (`:503`). A value whose notification could not be sent is never sent (`telemetry.py:273-281`, `304`), where
  `goldstone-telemetry.yang:59` promises updates on change. Subscriptions
  that are added later are accepted and ignored; a request whose `start()` raised stays in the store.
  A heartbeat is only looked at when a sample is taken, so the bound is the heartbeat
  plus a period (`SilenceBounded`), where `goldstone-telemetry.yang:90` says "Maximum
  allowable silent period". A leaf that was deleted is still sent by a poll, and by the start
  of a request whose id is used again, from what the store kept (`telemetry.py:115-135`).
  A POLL request with updates-only is answered with values, although
  `goldstone-telemetry.yang:177-179` says none are sent. When a deletion is reverted, a feed with updates-only
  starts again and stores what it does not send, so that the collector is never told what changed in
  between (`telemetry.py:122-135`). An id that is used again starts with the entries and ages of its last use,
  until its first sample (the second half of `SilenceBounded`).
- **GnmiSubscribe.** A call made while the telemetry server is down never ends (`server.py:690-699`).
  When the deletion in `clear()` times out, or is refused because another call gave up, the request and
  its feed stay without a call; the tests expect none to be left (`test_gnmi.py:4207-4213`).
- **Piu.** `cleanup_piu` and a failing `initialize_piu` pop the entry and with it the lock that a transaction waits for
  (`transponder.py:532`), where the comment at `:264` says it is the lock "for mutating TAI objects".
  After a crash between set and commit a line rate that is not configured stays
  on the device, where the comment at `:391` says "reconcile with the running configuration". If the module is
  unplugged while the server is away, the objects stay as well, a host interface that only the lost rate has can be configured,
  and `HostConfigFits` is false without its exemption (`count.cut`). Every notification is handled in a task of its own
  (`server_connector/sysrepo.py:105-109`): `MonitorsExact` and `SlotSettles` are false without `InTurn`. A transaction opened while `initialize_piu` has created
  some of the host interfaces decides from those (`transponder.py:38`, `182`), and ends with others than its line rate has (`UpToDate`).
  A `cleanup_piu` that fails between two removals (`transponder.py:500-507`) has cancelled monitor tasks of objects that stay (`count.stuck`).
- **Sonic.** `post()` leaves the rest of its settings to the reboot (`interfaces.py:343`, "usonic will reboot. no need to
  proceed"), but the reboot may read the configuration of before the transaction. `portchannel.py:66` looks at the running configuration, so one transaction can put an interface into two
  port channels. Configuration of a sub-interface that has gone cannot be deleted (`interfaces.py:38`). The handlers of UFD restore
  a stale value (`ufd.py:77`). The reverts do nothing (`interfaces.py:61`).
- **Xlate.** Native edits are applied before the outer transaction is committed (`lib.py:302`): an abort leaves them, where
  `core.py:102-103` expects handlers to undo their work. An output power of 0 is not removed
  (`lib.py:153`).
- **OcState.** A component without state fails the request for all components (`platform.py:1603`). One port without exactly one line side interface fails the request for all channels (assertion at
  `terminal_device.py:589`), and so does a network interface without line rate (`:323`) although there is a `DEFAULT_LINE_RATE`.
- **Snmp.** A Get of row 0 of a table answers with a value (`rfc1213.py:171-174`), where the PDU layer expects none
  for an OID that is no instance. `get_counters` ignores which counter is asked for (`rfc1213.py:239`). A session that is refused is only logged although
  the message says "closing" (`protocol.py:80-81`). `close()` while a connection is being opened makes
  shutdown wait for ever (`socket_io.py:182`), and so can an update period of 9 seconds and more (`agent.py:51`).
- **Ocnos.** An interface that is created again with admin-status UP stays shut down (`interfaces.py:53`). Removing an interface whose auto-negotiation
  is off deletes its port speed twice, and the commit is refused. An MTU without speed and
  auto-negotiation makes reconciliation raise (`interfaces.py:648`). A candidate that cannot be committed and
  outlives the process keeps it from starting. An interface that negotiates its speed makes every operational request that
  includes it fail (`interfaces.py:835-839`).

One disagreement is outside of the models: an operation of a gNMI Set that deletes what is not there is ignored on purpose
(`north/gnmi`, `DeleteRequest.exec`), but the connector discards the pending changes of the session on any error
(`connector/sysrepo.py:24-49`), so that the operations of the same Set before it are reported as done and are not.

## 4. Proofs

Six modules hold proofs. The theorems hold for every value of the constants that satisfies the
assumptions of the module (`ConstantsAssumption` for ServerBase, `TelemetryAssumption`, `RequestAssumption` and
`NoneAssumption` for Telemetry, these and `GnmiAssumption` for GnmiSubscribe, `GearAssumption`,
`XlAssumption`, `StAssumption`, `SnmpAssumption`); the last column names what is assumed besides.

| Theorem | Module | States | Assumes |
|---|---|---|---|
| `TypeCorrect` | ServerBaseProofs | `TypeOK` | - (all four flags included) |
| `ProtocolCorrect` | ServerBaseProofs | `ProtocolInv` | - |
| `NeverMismatched` | ServerBaseProofs | the test of ids in `change_cb` never fails | - |
| `DeviceCorrect` | ServerBaseProofs | `DeviceInv` | `Benign` |
| `DevicesFollowDatastore` | ServerBaseProofs | `QuietServerInSync` | `Benign` |
| `ImplementsAtomicConfig` | ServerBaseProofs | `SafelyAtomic`: the engine implements the safety part of AtomicConfig | `Benign` |
| `CommitsOnlyApplied` | ServerBaseProofs | `CommitOnlyApplied`, an action property | `~SlowPeers` |
| `TelemetryTypeCorrect` | TelemetryProofs | `TelemetryTypeOK` | - |
| `FeedsAlwaysMatch` | TelemetryProofs | `FeedsMatchConfig` | - |
| `FeedAlwaysConsistent` | TelemetryProofs | `FeedConsistent` | - |
| `SampleAlwaysComplete` | TelemetryProofs | `SampleComplete`, an action property | - |
| `SilenceAlwaysBounded` | TelemetryProofs | `SilenceBounded` | - |
| `NeverRepeats` | TelemetryProofs | `NoRepeats` | - |
| `GnmiCorrect` | TelemetryProofs | `GnmiInv`, the inductive invariant | - |
| `NothingIsLeft` | TelemetryProofs | `NothingLeft` | - |
| `AnswersAlwaysConsistent` | TelemetryProofs | `AnswersConsistent` | - |
| `AnswersAlwaysComplete` | TelemetryProofs | `AnswersComplete`, an action property | - |
| `GearCorrect` | GearboxProofs | `GearInv`, the inductive invariant | - |
| `ConfiguredAlwaysExists` | GearboxProofs | `ConfiguredExists` | - |
| `AttributesAlwaysMatch` | GearboxProofs | `AttributesMatch` | - |
| `OperAnswersAlwaysConfig` | GearboxProofs | `OperAnswersConfig` | - |
| `MappingAlwaysLive` | GearboxProofs | `MappingLive` | - |
| `XlateInv` | XlateProofs | `XInv`, the inductive invariant | - |
| `ConfiguredAlwaysInForce` | XlateProofs | `ConfiguredInForce` | - |
| `PortAlwaysReachesBothEnds` | XlateProofs | `PortReachesBothEnds` | - |
| `StInvHolds` | OcStateProofs | `StInv`, the inductive invariant | - |
| `AnswersAreValid` | OcStateProofs | `HierarchySound` | - |
| `ChannelsAreSound` | OcStateProofs | `ChannelsSound` | - |
| `FailsOnlyOnOddData` | OcStateProofs | `AnsweredUnlessOdd` | - |
| `GetNextIsClosest` | SnmpProofs | what `MIBTable.get_next` returns, for every table and starting OID | - |
| `SnmpInvHolds` | SnmpProofs | `SnmpInv`, the inductive invariant | - |
| `GetNextAnswersSuccessor` | SnmpProofs | `NextIsSuccessor` | - |
| `WalksAreComplete` | SnmpProofs | `WalkComplete` | - |

`Benign`: transactions end within `revert_timeout`, `revert()` and `post()` do
not raise, no transaction passes a starting server unnoticed, and `start()` writes every
leaf that is handled. `sb_slow` and the list of section 3 show that none of these can be dropped. `CommitsOnlyApplied`
needs only the first of them.

**The engine.** `QuietServerInSync` speaks of servers that have nothing to do and is far
from inductive. Layer 1, `ProtocolInv`, says where the current transaction stands with a
server: events come in order and one per transaction (`EventOrder`), a `done` or `abort` is alone in the inbox
and meets the handlers of its own transaction or none (`FinishExpected`), who has been asked, waits or
has accepted (`ChangeProgress`), and which combinations of callback, stored handlers and
timer exist (`CallbackState`). It needs nothing of the environment.
Layer 2, `DeviceInv`, says what is on the device: at position *m* of the list the first *m*
handlers are applied and have saved the configured values, and every other leaf holds what is
configured (`AppliedUpTo`); the changes being handled are the client's (`OwnChanges`);
no transaction passes a server by (`NotMissed`). Applying extends *m* by one, reverting
shrinks it, `Commit` turns "all applied" into "in line with the datastore"
(`ApplyExtends`, `RevertShrinks`, `CommitSyncs`). `NoIdMismatch` follows from
`FinishExpected`. Every action has a lemma per layer; `ProtocolStep` and `DeviceStep`
put them together.

**The refinement.** It rests on what is proved before it: a quiet server holds its configuration (`QuietServerInSync`). Only
`Commit` writes the datastore (`RunningKept`), it makes no busy server quiet (`CommitKeepsBusy`), and a server that is quiet after
a step has the configuration it had (`ChangedAreBusy`). So a step that changes what a device should hold is a `Disturb`, any other one a
`Settle` of the servers that were busy, or a stutter (`StepIsAtomic`). That no server stays busy (`Settles`) is only model-checked.

**What is committed.** `CommitOnlyApplied` holds even when `revert()` and `post()` raise. `CommitInv` adds to the protocol
invariant that the changes being handled are the client's (`OwnChanges`), that what a server accepted is on its device
while it stores the handlers (`AcceptedWritten`), and that without a crash it stores them until it hears the end of the transaction
(`AcceptedStored`). A server that stores what it accepted cannot be running a revert task at the same time, unless the
transaction outlives the timer: that is what `~SlowPeers` is for.

**Telemetry.** `FeedsMatchConfig` says nothing of the middle of a transaction, where the feeds are a step ahead of
the datastore. The inductive invariant adds `PendingFits`: the stored handler's request is either fed and not
configured yet, or configured and stopped, with the subscription that a revert restores. `TelemetryTypeOK` goes beyond
types: a loop task belongs to a subscription of a stream feed and sleeps for at most its period (`TaskFits`).
`FeedConsistent` is made inductive by `TracksInv`, which says the same of the feed a revert may start again, and
of feeds with updates-only as far as it is true of them. What several actions do to the store and to the queue of a collector (a
start, a sample, a delivery) is a lemma of its own (`SentBy`, `Together`). `SilenceInv` adds to the age of
a leaf the time its task still sleeps (`HeardOf`). For `NoRepeats` the invariant `OnlyNews` looks at every position of the
queue; a sample only appends what differs from the store, and by `TracksInv` from what the collector will know.

**GnmiSubscribe.** `GnmiInv` says, per call, who may change what it has: before its transaction a call has nothing, and its feed is
the one it asked for (`CallOK`); a stored handler belongs to a call that applies or is ending (`PendFits`); a call
has a configured request exactly if it has a feed, but for the one the transaction in progress adds or
removes (`PairOK`). What is on its way is the concatenation of two queues: it leads to what is stored (`Answered`), and
contains one SYNC_RESPONSE, which is last (`SyncOK`, `OneSync`), for modes ONCE and POLL. So the worker thread
that sees it has drained everything, which is `AnswersComplete`. The lemmas about starts and samples of a feed are used again.

**Gearbox.** `GearInv` looks at a transaction from both ends. Seen from the old configuration, whatever differs from it was done by a
handler that is not reverted yet and has recorded what restores it, or is in `torn` (`Recorded`, `Restores`, `Differs`). Seen from the
new one, the handlers applied so far have set what it asks for (`Changes`, `Reaches`, `Handled`). Together they give
`Settled` at rest: after the last handler the second view, after the last revert the first. Between its calls a pin-mode handler is in
neither: `JobApplies` and `JobReverts` say what it may still remove and create, that it removes only what the pin-mode excludes (or
`apply` had created), and that an object that has no attributes yet is not one the transaction configures. Every call is a lemma of its
own; what a call does to the sequence of handlers to revert is stated once (`DevicePushed`, `DevicePopped`, `HeadStep`, `JobStep`).
An answer to an operational request (`OperInv`) is of a request during which nothing changed, so that what it has read still holds.
`MappingLive` needs to know of what the interface server has read and not yet written: the mapping it is about to set names living
objects, and not the one it is to remove, and once that is set, only what the gearbox server wrote since does (`MapInv`).

**Xlate.** `ConfiguredInForce` speaks of settled native leaves and of the running configuration, so it says nothing while
post() has written and 'done' has not come. `XInv` gives every native leaf that is not lost sight of the configuration it is to follow
(`Cfg`): the one its writer's transaction leads to if that transaction is posted and hit it, else the running one. Four facts
about a transaction make this inductive: what it recorded as hit is what its leaves resolve to, in the surroundings it was
validated in (`HitsOK`); the session holds what the last handler that wrote a native leaf asks for (`EditsOK`); whatever it changes it
hits, unless an interface moves to another circuit pack, which post() finds out (`Covered`); and what it hits without writing is not there and is
not to be there (`Skipped`). The last one is where `apply()` could go wrong: two client ports may share a native leaf, and
removing one must not be skipped while the other is set in the same transaction; the proof is that only ports share native leaves
(`OnlyPortsShare`) and that no translated port state counts as absent. `PortReachesBothEnds` needs to know of the leaves nobody wrote
(`Untouched`). `XlAssumption` says that sysrepo reports a leaf once per transaction, that a component is of one kind, and that the model values are
none of the names.

**OcState.** The invariant is short: an answer is what is created from what its request read, or fails with it (`StInv`). The work is
in what is created, for any mixture of datasets. A component is known by its name, because a
composed name can be taken apart again (`SplitOff`, `ParseInverts`, `IsNamed`); so keys and parents are unique and the tree is closed, and
a parent whose status is inherited is there (`KeysAreUnique`, `ParentsCreated`, `TreeSound`). Two subscription ids are packed into one without
loss (`IdIsUnique`). The pairs of logical channels are numbered in steps of two in the order of their creation, client ports first
(`StartGrows`, `StartsApart`), so that an index names one channel (`ChannelsApart`), an assignment leads to
a channel created after it (`EdgesForward`), and three steps from a client port reach the optical channels of
the module it is joined to and no other (`Reached`, `JoinedIs`). A request fails only for a component that was read without its state, a plugged port without
exactly one line side interface, or a network interface without a line rate (`FailsWhenOdd`). `StAssumption` says that the words the code puts into names
(`line`, `client`, `transceiver`, `och`) are no parts of the names it is given, that no name is used for two things, that a slot and
a network interface are listed once, and that ids of subscriptions fit into the width they are packed with.

**Snmp.** The first half of the proof has no steps in it. The order of OIDs is strict, transitive and total (`LessTransitive`, `LessTotal`);
what lies between a prefix and its `inc()` extends the prefix (`PrefixOrder`, `IncBounds`); no registered subtree lies within another
(`Antichain`), so that all of one comes before all of the next (`SubtreeOrder`), and `_find_parent_prefix`, which looks at one candidate
only, finds the subtree (`ParentOf`). In a column the next variable is the next row (`RowOrder`, `NextSubMeans`); the empty
sub-identifier that the updater returns at the end of a column (`rfc1213.py:160`) has no value, and the search goes on behind it.
`GetNextIsClosest` puts the three places together where `get_next` looks: the OID itself, its entry, the entries behind it. It holds for tables with holes as well, of the
columns without one, which is what a walk needs. The second half is `SnmpInv`. A question on its way is the one the walk waits for, unless its
session has ended (`InboxFits`): so the answer belongs to the position of the walk, also after a question was lost in a cut PDU and
asked again. `WalkFits`: a walk that met no update has seen what lies before its position; an answer moves the position to the closest
variable (`AnsweredFits`), an end of the range to the next region, and between the two lies nothing that is not seen.
`SnmpAssumption` says that indexes and columns are positive numbers and that the value for "nothing" is none of them.

**Only model-checked**: everything about liveness, which is out of the prover's reach (`CollectorsCatchUp`, `CallsEndIfServed`,
`SlotSettles`, `Recovers`, `RebootEnds`, `EnabledEnforced`, `Registers`, `TableFollows`, `ShutdownEnds`, and `Settles` of AtomicConfig);
the two invariants of Sonic (`SonicInForce`, `UfdHolds`), whose edits are folds over lists of changes, so that a proof would be
an induction over data; those of Piu (`HostConfigFits`, `MonitorsExact`, `OperFailsOnlyMidway`), where two notification callbacks,
a transaction and a request interleave at every call; and those of Ocnos (`CandidateClean`, `DeviceFollows`). Every other invariant and
action property of the runs that pass is a theorem.

## 5. Not modelled

- **Operational data** is modelled where an answer can be wrong although each read is right (OcState, Gearbox, Piu, Ocnos,
  Snmp). The remaining `oper_cb`s convert what they read and keep no state: SONiC counters, conversions of
  optical values (`platform.py:994-1103`), OpenROADM shelves, ports and device information, ONLP components.
- **DPLL**: a server without state of its own whose four handlers each set one attribute, as those of ServerBase do, with
  the `revert()` of the gearbox. **System**: writes PAM and TACACS files and calls systemd; what matters is their text.
  **Netlink**: Rust; its change callback sets the status of a link at once and has no revert.
- **gNMI Get and Set**: a session used by one thread and discarded with it. What remains is the translation of paths
  and JSON values; all or nothing is sysrepo's commit.
- **Gearbox**: reference clocks (`gearbox.py:49-79`), notification tasks, parsing of counters. **Ocnos**: the description leaf, the
  IPv4 check of the mode handler. **Xlate**: shelf, circuit-pack and port names (`device.py:32-111`).
- A path of the telemetry model itself, whose data the blocked event loop would have to provide
  (`telemetry.py:93`): a request for it would make the server wait for itself; in Telemetry the data belong to others.
- The path parser, CLI, notification forwarder and utilities keep no state between calls. sysrepo, TAI, ONLP, Kubernetes, Redis
  and NETCONF devices are external and appear as the components use them.

## 6. What could follow

1. Aborts of accepted transactions in Gearbox and the composition of its two servers with ServerBase.
2. `TelemetryPath`: `PathParser` as recursive functions against a reference definition.
3. An abstract specification of Telemetry (a collector's view moves to the data), implemented by Telemetry and by GnmiSubscribe.
4. Theorems: the invariants of Ocnos, and those of Piu call by call, with any number of notification callbacks.
