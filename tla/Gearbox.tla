------------------------------ MODULE Gearbox ------------------------------
(***************************************************************************)
(* The gearbox south server: InterfaceServer and GearboxServer, two        *)
(* servers of one process that configure the same TAI objects of a gearbox *)
(* module. Each serves one transaction at a time; the two interleave at    *)
(* every call to TAI that one of them waits for and the other can tell.    *)
(*                                                                         *)
(* The leaves of an interface are represented by those that differ in      *)
(* their treatment: admin-status and interface-type (which share the TAI   *)
(* attribute provision-mode), pin-mode (which creates and removes TAI      *)
(* objects), "fec" for the leaves that are reconciled at start and "loop"  *)
(* for those that are not (loopback-mode, prbs-mode, tx-timing-mode).      *)
(***************************************************************************)
EXTENDS Integers, FiniteSets, Sequences

CONSTANTS Nets, Hosts,   \* line side and client side interfaces
          Index,         \* position of an interface on its side
          Conflicts,     \* interfaces that cannot exist if this one has pin-mode nrz
          Edits,         \* leaf edits clients make: [i, l, v], v a value or Unset
          GConfs,        \* gearbox configurations clients set
          MaxTxns,       \* transactions of InterfaceServer
          MaxSide,       \* transactions of GearboxServer and operational requests
          MaxFaults

Ifs == Nets \cup Hosts
Leaves == {"admin", "type", "pin", "fec", "loop"}
Unset == "unset"
None == "none"
DefaultOf == [admin |-> "DOWN", type |-> "ETH", pin |-> "pam4", fec |-> "rs", loop |-> "none"]
Values == [admin |-> {"UP", "DOWN"}, type |-> {"ETH", "OTN"}, pin |-> {"pam4", "nrz"},
           fec |-> {"rs", "fc"}, loop |-> {"none", "shallow"}]

ASSUME GearAssumption ==
  /\ Nets \cap Hosts = {} /\ Index \in [Ifs -> Nat]
  /\ Conflicts \in [Ifs -> SUBSET Ifs] /\ \A i \in Ifs : i \notin Conflicts[i]
  /\ Edits \subseteq {e \in [i : Ifs, l : Leaves, v : (UNION {Values[l] : l \in Leaves}) \cup {Unset}] :
                       e.v \in Values[e.l] \cup {Unset}}
  /\ GConfs \subseteq [flex : BOOLEAN, conns : SUBSET (Nets \X Hosts), admin : {"up", "down"}]

VARIABLES running,   \* configuration of the interfaces: [Ifs -> [Leaves -> value or Unset]]
          gconf,     \* configuration of the gearbox: flexible connection, connections, admin status
          attrs,     \* TAI objects that exist, with their attributes
          oid,       \* how many objects each interface has had
          mapping,   \* tributary-mapping: pairs of references to a net and a host object
          madmin,    \* admin-status of the TAI module
          itxn,      \* transaction of InterfaceServer
          gtxn,      \* transaction of GearboxServer
          oper,      \* request for the operational data of all interfaces
          srv,       \* "up", or "down" until started again
          torn,      \* history: the attributes, <<interface, name>>, a transaction that failed
                     \* or was cut off may have left as it had set them
          raced,     \* history: what GearboxServer put into the mapping of an object on its way out
          count

gvars == <<gconf, madmin, gtxn>>
vars == <<running, gconf, attrs, oid, mapping, madmin, itxn, gtxn, oper, srv, torn, raced, count>>
device == <<attrs, oid, mapping, raced>>

Objects == DOMAIN attrs
NoConfig == [i \in Ifs |-> [l \in Leaves |-> Unset]]
\* what PinModeHandler is at: the interfaces still to treat, the one it treats, and the mapping to set
JobOf(at, todo) == [at |-> at, todo |-> todo, i |-> None, map |-> {}]
NoJob == JobOf("none", {})
Idle == [pc |-> "idle", chg |-> <<>>, k |-> 0, new |-> NoConfig, undo |-> <<>>, job |-> NoJob]
NoGConf == [flex |-> FALSE, conns |-> {}, admin |-> "up"]
GIdle == [pc |-> "idle", new |-> NoGConf, set |-> {}]
NoOper == [pc |-> "idle", todo |-> {}, got |-> <<>>, quiet |-> TRUE]
Configured(c) == {i \in Ifs : \E l \in Leaves : c[i][l] # Unset}
Eff(c, l) == IF c[l] = Unset THEN DefaultOf[l] ELSE c[l]

\* get_conflicting_ifnames
ConflictsWith(i, pin) == IF pin = "nrz" THEN Conflicts[i] ELSE {}

\* to_tai_value of the admin-status and interface-type handlers, from the
\* configuration the transaction leads to
ProvisionMode(c) ==
  IF Eff(c, "admin") = "DOWN" THEN "none"
  ELSE IF Eff(c, "type") = "ETH" THEN "normal" ELSE "serdes-only"
SignalRate(c) == IF Eff(c, "type") = "ETH" THEN "100-gbe" ELSE "otu4"

\* the attributes an interface's configuration asks for
Wanted(c) == [prov |-> ProvisionMode(c), rate |-> SignalRate(c), pin |-> Eff(c, "pin"),
              fec |-> Eff(c, "fec"), loop |-> Eff(c, "loop")]
\* tai_attr_name of the handler of each leaf
AttrNamesTypeRateOnly == [admin |-> {"prov"}, type |-> {"rate"}, pin |-> {"pin"},
                          fec |-> {"fec"}, loop |-> {"loop"}]
AttrNames == [admin |-> {"prov"}, type |-> {"prov", "rate"}, pin |-> {"pin"},
              fec |-> {"fec"}, loop |-> {"loop"}]
Reconciled == {"prov", "rate", "pin", "fec"}
AllNames == Reconciled \cup {"loop"}
\* a set_multiple of the named attributes
SetAttrs(a, names, v) == [n \in DOMAIN a |-> IF n \in names THEN v[n] ELSE a[n]]
\* an object TAI has just created
Fresh == [prov |-> "none", rate |-> "100-gbe", pin |-> "pam4", fec |-> "rs", loop |-> "none"]

\* a reference to the object an interface has; it is dead once that object is removed
Ref(i) == <<i, oid[i]>>
Alive(ref) == ref[1] \in Objects /\ ref[2] = oid[ref[1]]
Live(m) == \A p \in m : Alive(p[1]) /\ Alive(p[2])
Refs(conns) == {<<Ref(p[1]), Ref(p[2])>> : p \in conns}
\* get_default_mapping
DefaultMapping(objs) == Refs({p \in (Nets \cap objs) \X (Hosts \cap objs) : Index[p[1]] = Index[p[2]]})
\* get_new_mapping: without the entries of an interface
Names(p, i) == i \in {p[1][1], p[2][1]}
WithoutNet(m, i) == {p \in m : p[2][1] # i}
Without(m, i) == {p \in m : ~ Names(p, i)}

Init ==
  /\ running = NoConfig /\ gconf = NoGConf
  /\ attrs = [i \in Ifs |-> Fresh] /\ oid = [i \in Ifs |-> 0]
  /\ mapping = DefaultMapping(Ifs) /\ madmin = "up"
  /\ itxn = Idle /\ gtxn = GIdle /\ oper = NoOper /\ srv = "up" /\ torn = {} /\ raced = {}
  /\ count = [txns |-> 0, side |-> 0, faults |-> 0]

Bump(f, max) == count[f] < max /\ count' = [count EXCEPT ![f] = @ + 1]
\* a change of the hardware is seen by the request that is being answered
Disturb == oper' = [oper EXCEPT !.quiet = FALSE]

-----------------------------------------------------------------------------
(* InterfaceServer: a transaction is a sequence of changed leaves. The     *)
(* entry of a handler in undo is made when it starts.                      *)

\* an interface that conflicts with a pin-mode has no configuration
NoConflictUnchecked(c, i, l) == TRUE
NoConflict(c, i, l) ==
  l = "pin" => ConflictsWith(i, Eff(c[i], "pin")) \cap Configured(c) = {}

\* IfChangeHandler._init needs the object of every changed interface, validate the
\* absence of conflicts
Begin(chg, new) ==
  /\ srv = "up" /\ itxn.pc = "idle" /\ Bump("txns", MaxTxns)
  /\ \A n \in DOMAIN chg : chg[n].i \in Objects /\ NoConflict(new, chg[n].i, chg[n].l)
  /\ itxn' = [Idle EXCEPT !.pc = "apply", !.chg = chg, !.k = 1, !.new = new]
  /\ Disturb
  /\ UNCHANGED <<running, device, gvars, srv, torn>>

Change == itxn.chg[itxn.k]
Busy == itxn.job.at # "none"
Applying == itxn.pc = "apply" /\ itxn.k <= Len(itxn.chg)
\* the attributes of a handler's object, and its entry in undo
Configured1(e) == [attrs EXCEPT ![e.i] = SetAttrs(@, AttrNames[e.l], Wanted(itxn.new[e.i]))]
Entry(e, names) == [i |-> e.i, attrs |-> IF e.i \in Objects THEN attrs[e.i] ELSE Fresh, names |-> names, gone |-> {}, back |-> {}]

\* IfChangeHandler.apply
Apply ==
  /\ Applying /\ Change.l # "pin" /\ Change.i \in Objects
  /\ attrs' = Configured1(Change)
  /\ itxn' = [itxn EXCEPT !.k = @ + 1, !.undo = <<Entry(Change, AttrNames[Change.l])>> \o @]
  /\ UNCHANGED <<running, oid, mapping, raced, gvars, oper, srv, torn, count>>

\* PinModeHandler.apply removes the objects its pin-mode excludes, sets the attribute, and creates those
\* only the former one excluded; revert removes what apply created, and creates what it removed
Gone(e) == ConflictsWith(e.i, Wanted(itxn.new[e.i]).pin) \cap Objects
Back(e) == ConflictsWith(e.i, attrs[e.i].pin) \ ConflictsWith(e.i, Wanted(itxn.new[e.i]).pin)
PinStart ==
  /\ Applying /\ Change.l = "pin" /\ ~ Busy
  /\ itxn' = [itxn EXCEPT !.undo = <<Entry(Change, {})>> \o @, !.job = JobOf("remove", Gone(Change))]
  /\ UNCHANGED <<running, device, gvars, oper, srv, torn, count>>
RevertStart ==
  /\ itxn.pc = "revert" /\ ~ Busy
  /\ itxn' = IF itxn.undo = <<>> THEN Idle
             ELSE [itxn EXCEPT !.job = JobOf("remove", Head(itxn.undo).back)]
  /\ UNCHANGED <<running, device, gvars, oper, srv, torn, count>>

\* remove(): for each interface the mapping is read, set without the interface, and the object removed.
\* Reading raises if it names an object that is gone.
RemoveRead ==
  /\ itxn.job.at = "remove"
  /\ \E i \in itxn.job.todo :
       itxn' = [itxn EXCEPT !.job =
         IF i \in Objects THEN [at |-> "unmap", todo |-> @.todo, i |-> i, map |-> Without(mapping, i)]
         ELSE JobOf("remove", @.todo \ {i})]
  /\ Live(mapping)
  /\ UNCHANGED <<running, device, gvars, oper, srv, torn, count>>
RemoveUnmap ==
  /\ itxn.job.at = "unmap"
  /\ mapping' = itxn.job.map /\ raced' = {}
  /\ itxn' = [itxn EXCEPT !.job = [at |-> "drop", todo |-> @.todo, i |-> @.i, map |-> {}]]
  /\ UNCHANGED <<running, attrs, oid, gvars, oper, srv, torn, count>>
RemoveDrop ==
  /\ itxn.job.at = "drop"
  /\ LET i == itxn.job.i
         job == JobOf("remove", itxn.job.todo \ {i})
     IN /\ attrs' = [j \in Objects \ {i} |-> attrs[j]]
        /\ itxn' = IF itxn.pc = "apply" THEN [itxn EXCEPT !.undo[1].gone = @ \cup {i}, !.job = job]
                   ELSE [itxn EXCEPT !.undo[1].back = @ \ {i}, !.job = job]
  /\ UNCHANGED <<running, oid, mapping, raced, gvars, oper, srv, torn, count>>

\* the attributes a handler changed: apply and revert leave out those that had the wanted value already
ChangedBy(u) == {n \in u.names : u.attrs[n] # Wanted(itxn.new[u.i])[n]}
PinSet ==
  /\ itxn.pc = "apply" /\ itxn.job.at = "remove" /\ itxn.job.todo = {} /\ Change.i \in Objects
  /\ attrs' = Configured1(Change)
  /\ itxn' = [itxn EXCEPT !.undo[1].attrs = attrs[Change.i], !.undo[1].names = {"pin"},
                          !.job = JobOf("create", Back(Change))]
  /\ UNCHANGED <<running, oid, mapping, raced, gvars, oper, srv, torn, count>>
\* IfChangeHandler.revert sets nothing if nothing was changed
RevertSet ==
  /\ itxn.pc = "revert" /\ itxn.job.at = "remove" /\ itxn.job.todo = {} /\ ChangedBy(Head(itxn.undo)) = {}
  /\ itxn' = [itxn EXCEPT !.job = JobOf("create", Head(itxn.undo).gone)]
  /\ UNCHANGED <<running, device, gvars, oper, srv, torn, count>>

\* create(): the object is created, gets its attributes, and the default mapping is set: that of the
\* module object from before the creation, which lists the new object or not. The configuration is the
\* one the transaction leads to, the pin-mode the one of the running datastore.
CreateObject ==
  /\ itxn.job.at = "create"
  /\ \E i \in itxn.job.todo \ Objects :
       LET job(m) == [at |-> "fill", todo |-> itxn.job.todo \ {i}, i |-> i, map |-> m]
       IN /\ attrs' = [j \in Objects \cup {i} |-> IF j = i THEN Fresh ELSE attrs[j]]
          /\ oid' = [oid EXCEPT ![i] = @ + 1]
          /\ \E m \in {DefaultMapping(Objects), DefaultMapping(Objects \cup {i})'} :
               itxn' = IF itxn.pc = "apply" THEN [itxn EXCEPT !.undo[1].back = @ \cup {i}, !.job = job(m)]
                       ELSE [itxn EXCEPT !.undo[1].gone = @ \ {i}, !.job = job(m)]
          /\ torn' = IF itxn.pc = "apply" THEN torn ELSE torn \cup ({i} \X AllNames)
  /\ UNCHANGED <<running, mapping, raced, gvars, oper, srv, count>>
NewAttrs(i) == SetAttrs(Fresh, Reconciled, [Wanted(itxn.new[i]) EXCEPT !.pin = Eff(running[i], "pin")])
CreateFill ==
  /\ itxn.job.at = "fill"
  /\ attrs' = [attrs EXCEPT ![itxn.job.i] = NewAttrs(itxn.job.i)]
  /\ itxn' = [itxn EXCEPT !.job = [at |-> "map", todo |-> @.todo, i |-> @.i, map |-> @.map]]
  /\ UNCHANGED <<running, oid, mapping, raced, gvars, oper, srv, torn, count>>
CreateMap ==
  /\ itxn.job.at = "map"
  /\ mapping' = itxn.job.map /\ raced' = {}
  /\ itxn' = [itxn EXCEPT !.job = JobOf("create", itxn.job.todo)]
  /\ UNCHANGED <<running, attrs, oid, gvars, oper, srv, torn, count>>

PinEnd ==
  /\ itxn.job.at = "create" /\ itxn.job.todo = {}
  /\ itxn' = IF itxn.pc = "apply" THEN [itxn EXCEPT !.k = @ + 1, !.job = NoJob]
             ELSE [itxn EXCEPT !.undo = Tail(@), !.job = NoJob]
  /\ UNCHANGED <<running, device, gvars, oper, srv, torn, count>>

\* what handlers that are not reverted leave behind
Left(undo) == UNION {({u.i} \X ChangedBy(u)) \cup ((u.gone \cup u.back) \X AllNames) :
                       u \in {undo[n] : n \in DOMAIN undo}}
\* a step that cannot succeed: a removed object is in the mapping, the object of the handler was removed
\* by one before it, the object to create exists; and a revert that would restore an attribute raises,
\* because its message names self.name, which no handler has
Hopeless ==
  \/ itxn.job.at = "remove" /\ itxn.job.todo # {} /\ ~ Live(mapping)
  \/ Applying /\ Change.i \notin Objects /\ IF Change.l = "pin" THEN itxn.job.at = "remove" /\ itxn.job.todo = {} ELSE TRUE
  \/ itxn.job.at = "create" /\ itxn.job.todo \cap Objects # {}
  \/ itxn.pc = "revert" /\ itxn.job.at = "remove" /\ itxn.job.todo = {} /\ ChangedBy(Head(itxn.undo)) # {}
\* TAI may refuse to remove an object that has come back into the mapping
MayBeRefused == itxn.job.at = "drop" /\ \E p \in mapping : Names(p, itxn.job.i)
StepFails == IF Hopeless \/ MayBeRefused THEN UNCHANGED count ELSE Bump("faults", MaxFaults)
\* a handler that fails is not reverted, those before it are
ApplyFails ==
  /\ Applying /\ StepFails
  /\ itxn' = [itxn EXCEPT !.pc = "revert", !.undo = IF Busy THEN Tail(@) ELSE @, !.job = NoJob]
  /\ torn' = torn \cup IF Busy THEN Left(<<Head(itxn.undo)>>) ELSE {}
  /\ UNCHANGED <<running, device, gvars, oper, srv>>
\* a revert that fails ends them all
RevertFails ==
  /\ itxn.pc = "revert" /\ Busy /\ StepFails
  /\ itxn' = Idle /\ torn' = torn \cup Left(itxn.undo)
  /\ UNCHANGED <<running, device, gvars, oper, srv>>

Commit ==
  /\ itxn.pc = "apply" /\ itxn.k > Len(itxn.chg)
  /\ running' = itxn.new
  /\ torn' = torn \ UNION {{e.i} \X AttrNames[e.l] : e \in {itxn.chg[n] : n \in DOMAIN itxn.chg}}
  /\ itxn' = Idle
  /\ UNCHANGED <<device, gvars, oper, srv, count>>

-----------------------------------------------------------------------------
(* GearboxServer: admin status, connections and the tributary mapping.     *)

\* UpdateTributaryMapping only records that the mapping has to be set; the handler of
\* admin-status sets the attribute of the module
GBegin(c) ==
  /\ srv = "up" /\ gtxn.pc = "idle" /\ c # gconf /\ Bump("side", MaxSide)
  /\ madmin' = c.admin
  /\ gtxn' = [pc |-> IF <<c.flex, c.conns>> = <<gconf.flex, gconf.conns>> THEN "done" ELSE "post",
              new |-> c, set |-> {}]
  /\ Disturb
  /\ UNCHANGED <<running, gconf, device, itxn, srv, torn>>

\* set_tributary_mapping: the flag is the one the transaction leads to, while the
\* connections are read from the running datastore, which is not yet changed. An
\* interface without object fails the transaction, and nothing is reverted: post runs
\* after the handlers.
Post ==
  /\ gtxn.pc = "post"
  /\ LET want == IF gtxn.new.flex THEN Refs(gconf.conns) ELSE DefaultMapping(Objects) IN
     gtxn' = IF Live(want) THEN [gtxn EXCEPT !.pc = "set", !.set = want] ELSE GIdle
  /\ UNCHANGED <<running, gconf, madmin, device, itxn, oper, srv, torn, count>>

\* m.set("tributary-mapping", ...): InterfaceServer may have removed an object meanwhile, and TAI may
\* refuse the mapping then; or it has taken an object out of the mapping and is about to remove it
SetMapping ==
  /\ gtxn.pc = "set"
  /\ \/ /\ mapping' = gtxn.set
        /\ raced' = {p \in gtxn.set : ~ Live({p}) \/ (itxn.job.at = "drop" /\ Names(p, itxn.job.i))}
        /\ gtxn' = [gtxn EXCEPT !.pc = "done", !.set = {}]
     \/ ~ Live(gtxn.set) /\ gtxn' = GIdle /\ UNCHANGED <<mapping, raced>>
  /\ UNCHANGED <<running, gconf, madmin, attrs, oid, itxn, oper, srv, torn, count>>

GCommit ==
  /\ gtxn.pc = "done"
  /\ gconf' = gtxn.new /\ gtxn' = GIdle
  /\ UNCHANGED <<running, device, madmin, itxn, oper, srv, torn, count>>

-----------------------------------------------------------------------------
(* Operational data: the interfaces are listed once and then read one by   *)
(* one; transactions and other requests run in between.                    *)

OperBegin ==
  /\ srv = "up" /\ oper.pc # "read" /\ Bump("side", MaxSide)
  /\ oper' = [pc |-> "read", todo |-> Objects, got |-> <<>>,
              quiet |-> itxn.pc = "idle" /\ gtxn.pc = "idle"]
  /\ UNCHANGED <<running, device, gvars, itxn, srv, torn>>

\* what an interface reports
OperStateModuleIgnored(a) ==
  [admin |-> IF a.prov = "none" THEN "DOWN" ELSE "UP",
   kind |-> IF a.rate = "otu4" THEN "otn" ELSE "ethernet", pin |-> a.pin]
OperState(a) ==
  IF madmin # "up" THEN [admin |-> "DOWN"]
  ELSE [admin |-> IF a.prov = "none" THEN "DOWN" ELSE "UP",
        kind |-> IF a.rate = "otu4" THEN "otn" ELSE "ethernet", pin |-> a.pin]

\* oper_cb_intf; an object that is gone fails the whole request
OperRead(i) ==
  /\ oper.pc = "read" /\ i \in oper.todo
  /\ oper' = IF i \in Objects
             THEN [oper EXCEPT !.todo = @ \ {i},
                     !.got = [j \in DOMAIN @ \cup {i} |-> IF j = i THEN OperState(attrs[i]) ELSE @[j]]]
             ELSE [oper EXCEPT !.pc = "failed"]
  /\ UNCHANGED <<running, device, gvars, itxn, srv, torn, count>>

OperAnswer ==
  /\ oper.pc = "read" /\ oper.todo = {}
  /\ oper' = [oper EXCEPT !.pc = "answered"]
  /\ UNCHANGED <<running, device, gvars, itxn, srv, torn, count>>

-----------------------------------------------------------------------------
(* The process ends and starts again; TAI objects and datastore stay.      *)

Crash ==
  /\ srv = "up" /\ Bump("faults", MaxFaults)
  /\ srv' = "down" /\ torn' = torn \cup Left(itxn.undo)
  /\ itxn' = Idle /\ gtxn' = GIdle /\ oper' = NoOper
  /\ UNCHANGED <<running, gconf, device, madmin>>

\* start: ifserver.reconcile sets the attributes of every object that exists from the
\* running configuration, then GearboxServer.reconcile the mapping and the admin status.
\* Its "config" is the list below the xpath, in which the full xpath of the flag finds
\* nothing: the default mapping is used.
Reconcile ==
  /\ srv = "down" /\ srv' = "up"
  /\ attrs' = [i \in Objects |-> SetAttrs(attrs[i], Reconciled, Wanted(running[i]))]
  /\ mapping' = DefaultMapping(Objects) /\ raced' = {}
  /\ madmin' = gconf.admin
  /\ torn' = {p \in torn : p[1] \notin Objects \/ p[2] \notin Reconciled}
  /\ UNCHANGED <<running, gconf, oid, itxn, gtxn, oper, count>>

-----------------------------------------------------------------------------
Edited(c, e) == [c EXCEPT ![e.i][e.l] = e.v]

\* a transaction changes one leaf, or two in either order
IfTxn ==
  \E e \in {d \in Edits : d.v # running[d.i][d.l]} :
    \/ Begin(<<e>>, Edited(running, e))
    \/ \E f \in {d \in Edits : d.v # running[d.i][d.l]} :
         <<e.i, e.l>> # <<f.i, f.l>> /\ Begin(<<e, f>>, Edited(Edited(running, e), f))

Remove == RemoveRead \/ RemoveUnmap \/ RemoveDrop
Create == CreateObject \/ CreateFill \/ CreateMap
Handle ==
  \/ Apply \/ PinStart \/ RevertStart \/ Remove \/ PinSet \/ RevertSet \/ Create \/ PinEnd
  \/ ApplyFails \/ RevertFails \/ Commit
Next ==
  \/ IfTxn \/ Handle
  \/ \E c \in GConfs : GBegin(c)
  \/ Post \/ SetMapping \/ GCommit
  \/ OperBegin \/ (\E i \in Ifs : OperRead(i)) \/ OperAnswer
  \/ Crash \/ Reconcile

Fairness ==
  /\ WF_vars(Handle)
  /\ WF_vars(Post \/ SetMapping \/ GCommit)
  /\ WF_vars((\E i \in Ifs : OperRead(i)) \/ OperAnswer)
  /\ WF_vars(Reconcile)
Spec == Init /\ [][Next]_vars /\ Fairness
=============================================================================
