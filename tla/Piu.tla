-------------------------------- MODULE Piu --------------------------------
(***************************************************************************)
(* The life of one PIU (pluggable transponder module), from the slot to    *)
(* the TAI objects:                                                        *)
(*  - the hardware in the slot, polled by the platform server (ONLP);      *)
(*  - the piu-notify-event notifications it sends;                         *)
(*  - TransponderServer, whose asyncio tasks (start, the notification      *)
(*    callbacks, a configuration transaction, an operational request)      *)
(*    interleave at every await;                                           *)
(*  - taish, the TAI daemon, whose objects outlive the server.             *)
(*                                                                         *)
(* One location is modelled: self.modules, the locks and the objects of    *)
(* two locations are disjoint. "gen" numbers the dictionaries the server   *)
(* has stored in self.modules[location]; a callback keeps the one it       *)
(* looked up even after another callback has popped it.                    *)
(***************************************************************************)
EXTENDS Integers, FiniteSets, Sequences

CONSTANTS NHostifs,      \* num-host-interfaces of the module
          Rates,         \* line rates with platform information
          RateWidth,     \* number of host interfaces each rate uses
          DefaultRate,   \* line-rate of a new netif, and when unconfigured
          Jobs,          \* notification callbacks that may run at once
          FaultPoints,   \* where taish may fail: subset of {"init", "set", "cleanup"}
          MaxMoves, MaxTxns, MaxGens,
          MaxFaults      \* failed calls, crashes and platform restarts, together

NoRate == "none"
Hostifs == 0 .. NHostifs - 1

ASSUME PiuAssumption ==
  /\ Jobs \subseteq Nat \ {0}
  /\ NHostifs \in Nat \ {0}
  /\ NoRate \notin Rates /\ DefaultRate \in Rates
  /\ RateWidth \in [Rates -> 0 .. NHostifs]
  /\ FaultPoints \subseteq {"init", "set", "cleanup"}
  /\ MaxGens \in Nat

VARIABLES
  hw,       \* what is in the slot: "none", "piu" (no CFP2) or "both"
  seen,     \* PlatformServer.onlp_piu_status
  events,   \* notifications sent and not yet delivered
  srv,      \* TransponderServer: "down", "start", "subscribe", "up"
  cur,      \* generation of self.modules[location], 0 if absent
  ents,     \* the dictionaries: gen -> [keys, hostifs, lock]
  mons,     \* live monitor tasks <<object, gen that owns the task>>
  tai,      \* objects in taish: [module, netif, rate, hostifs, oid]
  running,  \* running datastore: [rate, hosts]
  job,      \* notification callbacks (and start's initialisation)
  txn,      \* the configuration transaction in progress
  count     \* how often each bounded thing has happened

vars == <<hw, seen, events, srv, cur, ents, mons, tai, running, job, txn, count>>

Gens == 1 .. MaxGens
NoEnt == [keys |-> {}, hostifs |-> {}, lock |-> 0]
Keys == {"notif_task", "netifs", "hostifs"}
NoTai == [module |-> FALSE, netif |-> FALSE, rate |-> DefaultRate, hostifs |-> {}, oid |-> 0]
\* a callback and a transaction work on the module object they got from taish: "oid"
\* and, in "hostifs" and "netif", the interfaces it had at that moment
IdleJob == [pc |-> "idle", from |-> "event", gen |-> 0, cfg |-> NoRate, use |-> {}, idx |-> 0,
            oid |-> 0, netif |-> FALSE, hostifs |-> {}, before |-> {}]
IdleTxn == [pc |-> "idle", gen |-> 0, new |-> [rate |-> NoRate, hosts |-> {}],
            rate |-> NoRate, orig |-> NoRate, idx |-> 0, oid |-> 0, hostifs |-> {},
            created |-> {}, removed |-> {}]
Txn == -1                           \* the holder of a lock: a job, the transaction or 0
ModuleObj == -1                     \* monitored objects: the module, its netif,
NetifObj == -2                      \* and the host interfaces by index

\* rate_info[rate]: the platform file gives every rate a prefix of the host interfaces
SetMin(S) == CHOOSE i \in S : \A k \in S : i <= k
RateInfo(r) == 0 .. RateWidth[r] - 1
Effective(r) == IF r = NoRate THEN DefaultRate ELSE r

Init ==
  /\ hw = "none" /\ seen = "none" /\ events = <<>>
  /\ srv = "down" /\ cur = 0 /\ ents = [g \in Gens |-> NoEnt] /\ mons = {}
  /\ tai = NoTai
  /\ running = [rate |-> NoRate, hosts |-> {}]
  /\ job = [j \in Jobs |-> IdleJob] /\ txn = IdleTxn
  /\ count = [moves |-> 0, txns |-> 0, faults |-> 0, crashes |-> 0, onlp |-> 0, gens |-> 0, skew |-> 0,
              cut |-> 0, raced |-> 0, stuck |-> 0, stale |-> 0]

Bump(f, max) == count[f] < max /\ count' = [count EXCEPT ![f] = @ + 1]

Disturb(f) == count.faults + count.crashes + count.onlp < MaxFaults /\ Bump(f, MaxFaults)

-----------------------------------------------------------------------------
(* Hardware and platform server.                                           *)

HwMove(s) ==
  /\ s # hw /\ hw' = s /\ count.moves < MaxMoves
  /\ count' = [count EXCEPT !.moves = @ + 1,
                            !.skew = IF srv \in {"start", "subscribe"} THEN 1 ELSE @]
  /\ UNCHANGED <<seen, events, srv, cur, ents, mons, tai, running, job, txn>>

\* monitor_piu: a change of the status bits is notified once; a notification
\* nobody subscribes to is gone
MonitorPiu ==
  /\ hw # seen /\ seen' = hw
  /\ events' = IF srv = "up" THEN Append(events, hw) ELSE events
  /\ UNCHANGED <<hw, srv, cur, ents, mons, tai, running, job, txn, count>>

\* initialise_component_piu: a restarted platform server has seen nothing
OnlpRestart ==
  /\ seen # "none" /\ Disturb("onlp") /\ seen' = "none"
  /\ UNCHANGED <<hw, events, srv, cur, ents, mons, tai, running, job, txn>>

-----------------------------------------------------------------------------
(* TransponderServer.start, and the process ending (a failed ping ends it) *)

NextJob(j) == job[j].pc = "idle" /\ \A k \in Jobs : k < j => job[k].pc # "idle"

\* the present PIUs are read, and initialised one by one
Start ==
  /\ srv = "down"
  /\ IF hw = "both"
     THEN /\ srv' = "start"
          /\ \E j \in Jobs : NextJob(j) /\ job' = [job EXCEPT
               ![j] = [IdleJob EXCEPT !.pc = "plug", !.from = "start"]]
     ELSE srv' = "subscribe" /\ UNCHANGED job
  /\ count' = [count EXCEPT !.skew = IF hw # seen THEN 1 ELSE @]
  /\ UNCHANGED <<hw, seen, events, cur, ents, mons, tai, running, txn>>

InitDone ==
  /\ srv = "start" /\ \A j \in Jobs : job[j].pc = "idle"
  /\ srv' = "subscribe"
  /\ UNCHANGED <<hw, seen, events, cur, ents, mons, tai, running, job, txn, count>>

\* subscribe_notification, then ServerBase.start and is_initializing = False
Subscribe ==
  /\ srv = "subscribe" /\ srv' = "up"
  /\ UNCHANGED <<hw, seen, events, cur, ents, mons, tai, running, job, txn, count>>

\* a failed start or ping ends the process: the tasks and the dictionaries go,
\* the TAI objects and the datastore stay
Crash ==
  /\ srv # "down" /\ count.faults + count.crashes + count.onlp < MaxFaults
  /\ count' = [count EXCEPT !.crashes = @ + 1, !.cut = IF txn.pc # "idle" THEN 1 ELSE @]
  /\ srv' = "down" /\ events' = <<>> /\ cur' = 0 /\ mons' = {}
  /\ ents' = [g \in Gens |-> NoEnt]
  /\ job' = [j \in Jobs |-> IdleJob] /\ txn' = IdleTxn
  /\ UNCHANGED <<hw, seen, tai, running>>

-----------------------------------------------------------------------------
(* piu_notify_event_cb, initialize_piu and cleanup_piu.                    *)

Waiting(j) == job[j].pc \in {"plug", "unplug"}

\* every callback is a task of its own, which first asks taish for the location
Deliver(j) ==
  /\ srv = "up" /\ events # <<>> /\ NextJob(j)
  /\ job' = [job EXCEPT ![j] = [IdleJob EXCEPT
                 !.pc = IF Head(events) = "both" THEN "plug" ELSE "unplug",
                 !.before = {k \in Jobs : Waiting(k)}]]
  /\ events' = Tail(events)
  /\ UNCHANGED <<hw, seen, srv, cur, ents, mons, tai, running, txn, count>>

JobEnds(j) == job' = [job EXCEPT ![j] = IdleJob]
JobAt(j, pc) == job' = [job EXCEPT ![j].pc = pc]
Unlock(g) == ents' = [ents EXCEPT ![g].lock = 0]

\* the module object that j works on is still in taish
Known(o) == tai.module /\ tai.oid = o

\* the callbacks do not follow the order of their notifications
Overtakes(j) == \E k \in job[j].before : Waiting(k)
Raced(bad) == count' = [count EXCEPT !.raced = IF bad THEN 1 ELSE @]

\* initialize_piu fails: piu_notify_event_cb pops whatever entry is there, while
\* start leaves it; "async with" releases the lock, the monitors stay
InitFails(j) ==
  /\ JobEnds(j)
  /\ cur' = IF job[j].from = "event" THEN 0 ELSE cur
  /\ IF job[j].gen = 0 THEN UNCHANGED ents ELSE Unlock(job[j].gen)

\* the running configuration is read, then "assert location not in self.modules"
InitEnter(j) ==
  /\ job[j].pc = "plug"
  /\ IF cur # 0
     THEN InitFails(j) /\ Raced(TRUE)
     ELSE /\ count.gens < MaxGens
          /\ count' = [count EXCEPT !.gens = @ + 1,
                                    !.skew = IF txn.pc # "idle" THEN 1 ELSE @,
                                    !.raced = IF Overtakes(j) THEN 1 ELSE @]
          /\ cur' = count.gens + 1
          /\ ents' = [ents EXCEPT ![cur'] = [NoEnt EXCEPT !.lock = j]]
          /\ job' = [job EXCEPT ![j].pc = "module", ![j].gen = cur', ![j].cfg = running.rate]
  /\ UNCHANGED <<hw, seen, events, srv, mons, tai, running, txn>>

\* a part of the initialisation ends with self.modules[location][key] = ..., which
\* raises KeyError if another callback has popped the entry meanwhile
Store(j, key, objs, next) ==
  IF cur = 0
  THEN InitFails(j) /\ mons' = mons \cup {<<o, 0>> : o \in objs}
  ELSE /\ ents' = [ents EXCEPT ![cur].keys = @ \cup {key},
                               ![cur].hostifs = IF key = "hostifs" THEN objs ELSE @]
       /\ mons' = (mons \ {<<o, 0>> : o \in objs}) \cup {<<o, cur>> : o \in objs}
       /\ job' = next /\ UNCHANGED cur

\* taish.get_module, or create_module; an existing one has its attributes set
InitModule(j) ==
  /\ job[j].pc = "module"
  /\ tai' = IF tai.module THEN tai ELSE [NoTai EXCEPT !.module = TRUE, !.oid = tai.oid + 1]
  /\ Store(j, "notif_task", {ModuleObj},
           [job EXCEPT ![j].pc = "netif", ![j].oid = tai'.oid,
                       ![j].netif = tai'.netif, ![j].hostifs = tai'.hostifs])
  /\ UNCHANGED <<hw, seen, events, srv, running, txn, count>>

\* the netif gets the configured attributes; a line-rate that is not configured
\* is left as it is
InitNetif(j) ==
  /\ job[j].pc = "netif"
  /\ IF Known(job[j].oid) /\ tai.netif = job[j].netif
     THEN /\ tai' = [tai EXCEPT !.netif = TRUE,
                                !.rate = IF job[j].cfg # NoRate THEN job[j].cfg
                                         ELSE IF tai.netif THEN @ ELSE DefaultRate]
          /\ Store(j, "netifs", {NetifObj}, [job EXCEPT ![j].pc = "rate"])
     ELSE InitFails(j) /\ UNCHANGED <<tai, mons>>
  /\ UNCHANGED <<hw, seen, events, srv, running, txn, count>>

\* the host interfaces to create follow from the line rate read once; all of them
\* if it cannot be read
InitRate(j) ==
  /\ job[j].pc = "rate"
  /\ IF Known(job[j].oid)
     THEN /\ job' = [job EXCEPT ![j].pc = "hostifs",
                                ![j].use = IF tai.netif THEN RateInfo(tai.rate) ELSE Hostifs]
          /\ UNCHANGED <<cur, ents>>
     ELSE InitFails(j)
  /\ UNCHANGED <<hw, seen, events, srv, mons, tai, running, txn, count>>

\* one host interface after the other: one to create is looked up in the module
\* object, or created, and gets its monitor task; another one that the module object
\* has is removed (that it is gone already is ignored)
InitHostif(j) ==
  LET i == job[j].idx  must == i \in job[j].use  is == i \in job[j].hostifs IN
  /\ job[j].pc = "hostifs" /\ i < NHostifs
  /\ IF must /\ ~is /\ (~Known(job[j].oid) \/ i \in tai.hostifs)
     THEN InitFails(j) /\ UNCHANGED <<mons, tai>>
     ELSE /\ tai' = IF Known(job[j].oid)
                    THEN [tai EXCEPT !.hostifs = IF must THEN @ \cup {i}
                                                 ELSE IF is THEN @ \ {i} ELSE @]
                    ELSE tai
          /\ mons' = mons \cup (IF must THEN {<<i, 0>>} ELSE {})
          /\ job' = [job EXCEPT ![j].idx = @ + 1] /\ UNCHANGED <<cur, ents>>
  /\ UNCHANGED <<hw, seen, events, srv, running, txn, count>>

InitEnds(j) ==
  /\ job[j].pc = "hostifs" /\ job[j].idx = NHostifs
  /\ Store(j, "hostifs", job[j].use, [job EXCEPT ![j].pc = "release"])
  /\ UNCHANGED <<hw, seen, events, srv, tai, running, txn, count>>

Release(j) ==
  /\ job[j].pc = "release"
  /\ JobEnds(j) /\ Unlock(job[j].gen)
  /\ UNCHANGED <<hw, seen, events, srv, cur, mons, tai, running, txn, count>>

\* mutant: a location whose lock is held is left alone
CleanupEnterUnlessBusy(j) ==
  /\ job[j].pc = "unplug"
  /\ IF cur = 0 \/ ents[cur].lock # 0 THEN JobEnds(j)
     ELSE job' = [job EXCEPT ![j].pc = "lock", ![j].gen = cur]
  /\ Raced(Overtakes(j))
  /\ UNCHANGED <<hw, seen, events, srv, cur, ents, mons, tai, running, txn>>

\* cleanup_piu: m = self.modules[location]; KeyError is only logged
CleanupEnter(j) ==
  /\ job[j].pc = "unplug"
  /\ IF cur = 0 THEN JobEnds(j)
     ELSE job' = [job EXCEPT ![j].pc = "lock", ![j].gen = cur]
  /\ Raced(Overtakes(j))
  /\ UNCHANGED <<hw, seen, events, srv, cur, ents, mons, tai, running, txn>>

\* once locked: a module taish does not know is left in self.modules; m may be no
\* longer the entry of the location
CleanupLock(j) ==
  LET g == job[j].gen IN
  /\ job[j].pc = "lock" /\ ents[g].lock = 0
  /\ IF tai.module
     THEN /\ ents' = [ents EXCEPT ![g].lock = j]
          /\ job' = [job EXCEPT ![j].pc = "cancel", ![j].oid = tai.oid,
                                ![j].netif = tai.netif, ![j].hostifs = tai.hostifs]
     ELSE UNCHANGED ents /\ JobEnds(j)
  /\ Raced(tai.module /\ g # cur)
  /\ UNCHANGED <<hw, seen, events, srv, cur, mons, tai, running, txn>>

\* an exception in cleanup_piu leaves the entry as it is
CleanupFails(j) == JobEnds(j) /\ Unlock(job[j].gen)

\* mutant: the task of the module itself is not cancelled
CleanupCancelInterfaces(j) ==
  /\ job[j].pc = "cancel"
  /\ mons' = {m \in mons : m[2] # job[j].gen \/ m[1] = ModuleObj}
  /\ JobAt(j, "remove")
  /\ UNCHANGED <<hw, seen, events, srv, cur, ents, tai, running, txn, count>>

\* every task of the dictionary is cancelled and awaited, under the lock; a key that
\* the initialisation never stored raises KeyError
CleanupCancel(j) ==
  LET g == job[j].gen IN
  /\ job[j].pc = "cancel"
  /\ IF ents[g].keys = Keys
     THEN /\ mons' = {m \in mons : m[2] # g}
          /\ JobAt(j, "remove") /\ UNCHANGED ents
     ELSE /\ mons' = {m \in mons : ~(m = <<NetifObj, g>> /\ "netifs" \in ents[g].keys)}
          /\ CleanupFails(j)
  /\ UNCHANGED <<hw, seen, events, srv, cur, tai, running, txn, count>>

\* the objects of the module object are removed one by one, the host interfaces first;
\* one that is gone raises
CleanupRemove(j) ==
  /\ job[j].pc = "remove"
  /\ \/ \E i \in job[j].hostifs :
          IF Known(job[j].oid) /\ i \in tai.hostifs
          THEN /\ tai' = [tai EXCEPT !.hostifs = @ \ {i}]
               /\ job' = [job EXCEPT ![j].hostifs = @ \ {i}] /\ UNCHANGED ents
          ELSE CleanupFails(j) /\ UNCHANGED tai
     \/ /\ job[j].hostifs = {} /\ job[j].netif
        /\ IF Known(job[j].oid) /\ tai.netif
           THEN /\ tai' = [tai EXCEPT !.netif = FALSE]
                /\ job' = [job EXCEPT ![j].netif = FALSE] /\ UNCHANGED ents
           ELSE CleanupFails(j) /\ UNCHANGED tai
  /\ UNCHANGED <<hw, seen, events, srv, cur, mons, running, txn, count>>

\* then the module; the lock is released and the entry of the location is popped,
\* whichever it is
CleanupEnds(j) ==
  /\ job[j].pc = "remove" /\ job[j].hostifs = {} /\ ~job[j].netif
  /\ CleanupFails(j)
  /\ IF Known(job[j].oid)
     THEN tai' = [NoTai EXCEPT !.oid = tai.oid] /\ cur' = 0
     ELSE UNCHANGED <<cur, tai>>
  /\ UNCHANGED <<hw, seen, events, srv, mons, running, txn, count>>

\* a call of taish fails
JobFault(j) ==
  /\ count.faults + count.crashes + count.onlp < MaxFaults
  /\ \/ /\ job[j].pc \in {"module", "netif", "rate", "hostifs"} /\ "init" \in FaultPoints
        /\ InitFails(j)
        /\ count' = [count EXCEPT !.faults = @ + 1]
     \/ /\ job[j].pc = "remove" /\ "cleanup" \in FaultPoints
        /\ CleanupFails(j) /\ UNCHANGED cur
        /\ count' = [count EXCEPT !.faults = @ + 1, !.stuck = 1]
  /\ UNCHANGED <<hw, seen, events, srv, mons, tai, running, txn>>

-----------------------------------------------------------------------------
(* A configuration transaction: TAIHandler and InterfaceHandler.           *)

TxnEnds == txn' = IdleTxn
TxnAt(pc) == txn' = [txn EXCEPT !.pc = pc]

\* mutant: validate does not look at the configured host interfaces
RateTxnUnchecked(r) ==
  /\ srv = "up" /\ txn.pc = "idle" /\ r # running.rate
  /\ tai.module /\ tai.netif /\ Bump("txns", MaxTxns)
  /\ txn' = [IdleTxn EXCEPT !.pc = "apply", !.rate = Effective(r), !.oid = tai.oid,
                            !.hostifs = tai.hostifs, !.new = [running EXCEPT !.rate = r]]
  /\ UNCHANGED <<hw, seen, events, srv, cur, ents, mons, tai, running, job>>

\* _init finds the module object, its netif and host interfaces; validate refuses a rate whose
\* host interfaces do not include every configured one
RateTxn(r) ==
  /\ srv = "up" /\ txn.pc = "idle" /\ r # running.rate
  /\ tai.module /\ tai.netif
  /\ running.hosts \subseteq RateInfo(Effective(r))
  /\ Bump("txns", MaxTxns)
  /\ txn' = [IdleTxn EXCEPT !.pc = "apply", !.rate = Effective(r), !.oid = tai.oid,
                            !.hostifs = tai.hostifs, !.new = [running EXCEPT !.rate = r]]
  /\ UNCHANGED <<hw, seen, events, srv, cur, ents, mons, tai, running, job>>

\* the configuration of a host interface appears or disappears: _init needs the
\* TAI object of the interface
HostTxn(h) ==
  /\ srv = "up" /\ txn.pc = "idle"
  /\ tai.module /\ h \in tai.hostifs
  /\ Bump("txns", MaxTxns)
  /\ txn' = [IdleTxn EXCEPT !.pc = "done",
       !.new = [running EXCEPT !.hosts = IF h \in @ THEN @ \ {h} ELSE @ \cup {h}]]
  /\ UNCHANGED <<hw, seen, events, srv, cur, ents, mons, tai, running, job>>

\* modules = self.server.modules[location] (KeyError fails the handler), then the lock
LockEntry(at, wait, next) ==
  /\ txn.pc \in {at, wait}
  /\ LET g == IF txn.pc = wait THEN txn.gen ELSE cur IN
     IF g = 0 THEN TxnEnds /\ UNCHANGED ents
     ELSE IF ents[g].lock # 0
          THEN txn.pc = at /\ txn' = [txn EXCEPT !.pc = wait, !.gen = g] /\ UNCHANGED ents
          ELSE /\ ents' = [ents EXCEPT ![g].lock = Txn]
               /\ txn' = [txn EXCEPT !.pc = next, !.gen = g]
  /\ UNCHANGED <<hw, seen, events, srv, cur, mons, tai, running, job>>

\* the module object is not looked up again: its interfaces may have changed meanwhile
ApplyLock ==
  /\ LockEntry("apply", "wait", "hostifs")
  /\ count' = [count EXCEPT !.stale = IF Known(txn.oid) /\ txn'.pc = "hostifs"
                                         /\ txn.hostifs # tai.hostifs THEN 1 ELSE @]

RevertLock == LockEntry("revert", "rewait", "undo") /\ UNCHANGED count

\* an exception under the lock
TxnFails == TxnEnds /\ Unlock(txn.gen)

\* create_hostif and its monitor task, stored in the dictionary of the entry
Create(i, next) ==
  IF ~Known(txn.oid) \/ i \in tai.hostifs
  THEN TxnFails /\ UNCHANGED <<mons, tai>>
  ELSE /\ tai' = [tai EXCEPT !.hostifs = @ \cup {i}]
       /\ IF "hostifs" \in ents[txn.gen].keys
          THEN /\ ents' = [ents EXCEPT ![txn.gen].hostifs = @ \cup {i}]
               /\ mons' = mons \cup {<<i, txn.gen>>} /\ txn' = next
          ELSE TxnFails /\ mons' = mons \cup {<<i, 0>>}

\* host interfaces are visited in ascending order: one of the module object that the new
\* rate has no use for loses its monitor and its object (that it is gone already is
\* ignored), one that the module object lacks is created
ApplyHostif ==
  LET i == txn.idx  must == i \in RateInfo(txn.rate)  is == i \in txn.hostifs  g == txn.gen
      on == [txn EXCEPT !.idx = @ + 1] IN
  /\ txn.pc = "hostifs" /\ i < NHostifs
  /\ CASE must = is -> txn' = on /\ UNCHANGED <<ents, mons, tai>>
       [] is /\ ~must ->
            IF i \in ents[g].hostifs
            THEN /\ mons' = mons \ {<<i, g>>} /\ UNCHANGED ents
                 /\ IF Known(txn.oid) /\ i \in tai.hostifs
                    THEN /\ tai' = [tai EXCEPT !.hostifs = @ \ {i}]
                         /\ txn' = [on EXCEPT !.removed = @ \cup {i}]
                    ELSE txn' = on /\ UNCHANGED tai
            ELSE TxnFails /\ UNCHANGED <<mons, tai>>
       [] must /\ ~is -> Create(i, [on EXCEPT !.created = @ \cup {i}])
  /\ UNCHANGED <<hw, seen, events, srv, cur, running, job, count>>

\* mutant: the loop stops one host interface early
ApplyUnlockEarly ==
  /\ txn.pc = "hostifs" /\ txn.idx = NHostifs - 1
  /\ Unlock(txn.gen) /\ TxnAt("set")
  /\ UNCHANGED <<hw, seen, events, srv, cur, mons, tai, running, job, count>>

ApplyUnlock ==
  /\ txn.pc = "hostifs" /\ txn.idx = NHostifs
  /\ Unlock(txn.gen) /\ TxnAt("set")
  /\ UNCHANGED <<hw, seen, events, srv, cur, mons, tai, running, job, count>>

\* TAIHandler.apply, after the lock is released: the attribute of the netif object
\* found by _init is set; a handler whose apply fails is not reverted
ApplySet ==
  /\ txn.pc = "set"
  /\ \/ /\ Known(txn.oid) /\ tai.netif
        /\ tai' = [tai EXCEPT !.rate = txn.rate]
        /\ txn' = [txn EXCEPT !.pc = "other", !.orig = tai.rate]
        /\ UNCHANGED count
     \/ /\ ~(Known(txn.oid) /\ tai.netif)
        /\ TxnEnds /\ UNCHANGED <<tai, count>>
     \/ /\ "set" \in FaultPoints /\ Disturb("faults")
        /\ TxnEnds /\ UNCHANGED tai
  /\ UNCHANGED <<hw, seen, events, srv, cur, ents, mons, running, job>>

\* the remaining handlers of the transaction succeed, or one fails and the
\* line-rate handler is reverted: first the attribute ...
OtherHandlers ==
  /\ txn.pc = "other"
  /\ \/ TxnAt("done") /\ UNCHANGED tai
     \/ IF Known(txn.oid) /\ tai.netif
        THEN tai' = [tai EXCEPT !.rate = txn.orig] /\ TxnAt("revert")
        ELSE TxnEnds /\ UNCHANGED tai
  /\ UNCHANGED <<hw, seen, events, srv, cur, ents, mons, running, job, count>>

\* ... then, under the lock, the created objects go and the removed ones return, one
\* by one
RevertHostifs ==
  LET g == txn.gen IN
  /\ txn.pc = "undo"
  /\ \/ /\ txn.created # {}
        /\ LET i == SetMin(txn.created) IN
           IF i \notin ents[g].hostifs THEN TxnFails /\ UNCHANGED <<mons, tai>>
           ELSE /\ mons' = mons \ {<<i, g>>}
                /\ IF Known(txn.oid) /\ i \in tai.hostifs
                   THEN /\ tai' = [tai EXCEPT !.hostifs = @ \ {i}]
                        /\ txn' = [txn EXCEPT !.created = @ \ {i}] /\ UNCHANGED ents
                   ELSE TxnFails /\ UNCHANGED tai
     \/ /\ txn.created = {} /\ txn.removed # {}
        /\ LET i == SetMin(txn.removed) IN Create(i, [txn EXCEPT !.removed = @ \ {i}])
     \/ txn.created = {} /\ txn.removed = {} /\ TxnFails /\ UNCHANGED <<mons, tai>>
  /\ UNCHANGED <<hw, seen, events, srv, cur, running, job, count>>

\* the datastore commits
TxnDone ==
  /\ txn.pc = "done"
  /\ running' = txn.new /\ TxnEnds
  /\ UNCHANGED <<hw, seen, events, srv, cur, ents, mons, tai, job, count>>

\* oper_cb at this moment: the host interfaces of the module object are read by the
\* indexes 0 .. len - 1; an index that is not there fails the whole request
OperFails == srv = "up" /\ tai.module /\ 0 .. Cardinality(tai.hostifs) - 1 # tai.hostifs

-----------------------------------------------------------------------------
JobStep(j) ==
  \/ InitEnter(j) \/ InitModule(j) \/ InitNetif(j) \/ InitRate(j) \/ InitHostif(j)
  \/ InitEnds(j) \/ Release(j)
  \/ CleanupEnter(j) \/ CleanupLock(j) \/ CleanupCancel(j) \/ CleanupRemove(j)
  \/ CleanupEnds(j)

TxnStep ==
  \/ ApplyLock \/ ApplyHostif \/ ApplyUnlock \/ ApplySet
  \/ OtherHandlers \/ RevertLock \/ RevertHostifs \/ TxnDone

Next ==
  \/ \E s \in {"none", "piu", "both"} : HwMove(s)
  \/ MonitorPiu \/ OnlpRestart
  \/ Start \/ InitDone \/ Subscribe \/ Crash
  \/ \E j \in Jobs : Deliver(j) \/ JobStep(j) \/ JobFault(j)
  \/ \E r \in Rates \cup {NoRate} : RateTxn(r)
  \/ \E h \in Hostifs : HostTxn(h)
  \/ TxnStep

(* The event loop runs every ready task, the platform server polls every  *)
(* second, and the pod is restarted when it ends.                          *)
Fairness ==
  /\ WF_vars(MonitorPiu) /\ WF_vars(Start) /\ WF_vars(InitDone) /\ WF_vars(Subscribe)
  /\ \A j \in Jobs : WF_vars(Deliver(j)) /\ WF_vars(JobStep(j))
  /\ WF_vars(TxnStep)

Spec == Init /\ [][Next]_vars /\ Fairness
=============================================================================
