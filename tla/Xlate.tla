------------------------------- MODULE Xlate -------------------------------
(***************************************************************************)
(* The configuration path of the translators. The servers of the           *)
(* OpenConfig translator ("ocp" for openconfig-platform, "oci" for         *)
(* openconfig-interfaces) and of the OpenROADM translator ("or") turn each *)
(* change of a service leaf into edits of native Goldstone leaves, made in *)
(* a session of their own that post() applies before the service           *)
(* configuration itself is committed. The servers, native clients and the  *)
(* reconcile loop of "oci" interleave.                                     *)
(*                                                                         *)
(* A service leaf is [s, o, l]: server, object, leaf. A native leaf is     *)
(* <<node, leaf>>; a module stands for its only network interface too.     *)
(***************************************************************************)
EXTENDS Integers, Sequences, TLC

CONSTANTS Modules,      \* transponder modules, which are circuit packs too
          HostOf,       \* OpenConfig client port -> the interface behind it
          Nets,         \* line side interfaces of the gearbox
          PortMap,      \* OpenROADM client circuit pack -> pin mode -> transponder host interface
          Modes,        \* operational modes: name -> line-rate, modulation-format, fec-type, mapping
          Otsi, Eths,   \* names of OpenROADM interfaces
          Requests,     \* transactions clients make, a sequence of [s, chg], chg a sequence of [lf, v]
          Envs,         \* surroundings: [conn, pin, mods], see env
          MaxTxns,      \* transactions
          MaxUpsets,    \* native edits, changes of the surroundings, failures
          Unset, Unresolved, NativeClient

Clients == DOMAIN HostOf
Packs == DOMAIN PortMap
Ifs == {HostOf[c] : c \in Clients} \cup Nets
HostIfs == UNION {{PortMap[p][k] : k \in DOMAIN PortMap[p]} : p \in Packs}

Leaf(s, o, l) == [s |-> s, o |-> o, l |-> l]
Ports == {Leaf("ocp", o, "admin-state") : o \in Modules \cup Clients}
Channels == {Leaf("ocp", m, l) : m \in Modules, l \in {"frequency", "target-output-power", "operational-mode"}}
Interfaces == {Leaf("oci", i, l) : i \in Ifs, l \in {"enabled", "fec-mode"}}
OtsiLeaves == {Leaf("or", x, l) : x \in Otsi, l \in {"otsi-rate", "modulation-format", "transmit-power", "fec",
                                                   "frequency", "optical-operational-mode", "loopback"}}
EthLeaves == {Leaf("or", x, l) : x \in Eths, l \in {"speed", "eth-fec"}}
\* supporting-circuit-pack-name
Pointers == {Leaf("or", x, "pack") : x \in Otsi \cup Eths}
SvcLeaves == Ports \cup Channels \cup Interfaces \cup OtsiLeaves \cup EthLeaves \cup Pointers

Servers == {"ocp", "oci", "or"}
LeavesOf(s) == {lf \in SvcLeaves : lf.s = s}
\* the value of a leaf in a configuration of the service models
At(c, lf) == c[lf.s][lf]
Pack(c, x) == At(c, Leaf("or", x, "pack"))

Native == (Modules \X {"admin", "rate", "mod", "fec", "map", "freq", "power", "loop"})
          \cup (HostIfs \X {"rate", "fec"}) \cup (Ifs \X {"admin", "fec"})

\* a transaction is about one server and reports a leaf once
ASSUME XlAssumption ==
  /\ \A q \in DOMAIN Requests :
       LET chg == Requests[q].chg
       IN /\ Requests[q].s \in Servers /\ Len(chg) \in Nat /\ DOMAIN chg = 1..Len(chg)
          /\ \A k \in DOMAIN chg : /\ chg[k].lf \in LeavesOf(Requests[q].s)
                                   /\ \A j \in DOMAIN chg : chg[j].lf = chg[k].lf => j = k
  /\ Envs # {} /\ \A e \in Envs : e.conn \in [Clients -> Nets \cup {Unset}] /\ e.mods \subseteq Modules
  /\ {MaxTxns, MaxUpsets} \subseteq Nat
  /\ Modules \cap Clients = {}
  /\ {Unset, NativeClient} \cap SvcLeaves = {} /\ NativeClient # Unset
  /\ {Unset, Unresolved} \cap Modules = {} /\ Unset \notin Packs \cup Ifs \cup {"UP", "DOWN", "up", "down", Unresolved}

VARIABLES svc,     \* running configuration of the service models
          gs,      \* running configuration of the native models
          env,     \* operational state the handlers consult: the gearbox connection of every
                   \* client, the pin mode of every client pack, the modules that are present
          otsi,    \* DeviceServer.otsi_sup_cpname
          txn,     \* per server: the transaction between validate() and 'done' or 'abort'
          down,    \* servers whose process does not run
          by,      \* history: who wrote a native leaf last: a service leaf or NativeClient
          loose,   \* history: native leaves whose writer has lost sight of them (Abort,
                   \* Astray, LeftBehind, Overtaken, EnvChange, Reconcile, Unheard)
          count

vars == <<svc, gs, env, otsi, txn, down, by, loose, count>>

Idle == [pc |-> "idle", q |-> 0, edits |-> <<>>, env |-> Unset, hits |-> {}, wrote |-> {}]

-----------------------------------------------------------------------------
(* The handlers. One resolves its leaf to native nodes (Nodes; none: the   *)
(* change is refused), and translates its value to a setting for each of   *)
(* the native leaves of a node that it writes (Translate). new is the      *)
(* configuration the transaction leads to.                                 *)

\* the values of a table, where nothing is configured if nothing is to be, and a value that is
\* missing is refused
Known(table, v) == IF v = Unset THEN Unset ELSE IF v \in DOMAIN table THEN table[v] ELSE Unresolved

AdminStates == {"ENABLED", "DISABLED", "MAINT"}
AdminOf == [v \in AdminStates |-> IF v = "ENABLED" THEN "UP" ELSE "DOWN"]
TpAdminOf == [v \in AdminStates |-> IF v = "ENABLED" THEN "up" ELSE "down"]
PortAdminState(lf, v) == [admin |-> Known(IF lf.o \in Modules THEN TpAdminOf ELSE AdminOf, v)]
\* a port whose network interface is forgotten
PortNodesHostOnly(lf) ==
  IF lf.o \in Modules THEN {lf.o} ELSE IF env.conn[lf.o] = Unset THEN {} ELSE {HostOf[lf.o]}
\* a line port is its module, a client port its host interface and the network interface
\* the gearbox connects it to now
PortNodes(lf) ==
  IF lf.o \in Modules THEN {lf.o} ELSE IF env.conn[lf.o] = Unset THEN {} ELSE {HostOf[lf.o], env.conn[lf.o]}

\* MHz to Hz
ChannelFrequency(v) == [freq |-> IF v = Unset THEN Unset ELSE v * 1000000]
TargetOutputPower(v) == [power |-> v]
ModeLeaves == {"rate", "mod", "fec", "map"}
OperationalMode(v) ==
  [l \in ModeLeaves |-> IF v = Unset THEN Unset ELSE IF v \in DOMAIN Modes THEN Modes[v][l] ELSE Unresolved]

Enabled(v) == [admin |-> IF v = Unset THEN Unset ELSE IF v = TRUE THEN "UP" ELSE "DOWN"]
FecOf == ("FEC_FC" :> "FC") @@ ("FEC_RS528" :> "RS") @@ ("FEC_RS544" :> "RS")
         @@ ("FEC_RS544_2X_INTERLEAVE" :> "RS") @@ ("FEC_DISABLED" :> "NONE")
FECMode(v) == [fec |-> Known(FecOf, v)]

\* the module of an optical interface: its circuit pack in the configuration the transaction
\* leads to or, when the interface is removed with it, the one remembered for its name
PackOf(x, v, new) ==
  LET p == Pack(new, x)
  IN IF p # Unset THEN p
     ELSE IF v = Unset /\ x \in DOMAIN otsi THEN otsi[x] ELSE Unresolved
\* IfChangeHandler.validate_modules: the module has to be present
PackNodes(lf, v, new) == {PackOf(lf.o, v, new)} \cap env.mods

RateOf == ("R100G" :> "100g") @@ ("R200G" :> "200g") @@ ("R300G" :> "300g") @@ ("R400G" :> "400g")
OtsiRate(v) == [rate |-> Known(RateOf, v)]
ModulationOf == [v \in {"bpsk", "qpsk", "dp-qpsk"} |-> v] @@ ("dc-dp-bpsk" :> "dp-bpsk") @@ ("qam16" :> "16-qam")
                @@ ("dp-qam16" :> "dp-16-qam") @@ ("qam8" :> "8-qam") @@ ("dp-qam8" :> "dp-8-qam")
                @@ ("dc-dp-qam16" :> "unknown")
ModulationFormat(v) == [mod |-> Known(ModulationOf, v)]
OrFecOf == ("off" :> "none") @@ ("scfec" :> "sc-fec") @@ ("ofec" :> "ofec")
           @@ [v \in {"off-fec", "rsfec", "efec", "ufec", "sdfec", "sdfeca1", "sdfecb1", "baser"} |-> "unknown"]
Fec(v) == [fec |-> Known(OrFecOf, v)]
TxPwr(v) == [power |-> v]
\* THz with eight decimals to Hz
Frequency(v) == [freq |-> IF v = Unset THEN Unset ELSE v * 10000]
OpticalOperationalMode(v) == [l \in ModeLeaves \ {"map"} |-> OperationalMode(v)[l]]
\* the type exists while the loopback is enabled; without it the loopback is set to none
LoopbackOf == ("fac" :> "shallow") @@ ("fac2" :> "deep")
OtuMaintLoopbackType(v) == [loop |-> IF v = Unset THEN "none" ELSE Known(LoopbackOf, v)]

\* _translate_circuit_pack_name: the host interface of the pack in its present pin mode
HostIfNow(lf, new) ==
  LET p == Pack(new, lf.o)
  IN IF p \in Packs /\ env.pin[p] \in DOMAIN PortMap[p] THEN {PortMap[p][env.pin[p]]} ELSE {}
SpeedOf == (100000 :> "100-gbe") @@ (200000 :> "200-gbe") @@ (400000 :> "400-gbe") @@ (0 :> "unknown")
EthSpd(v) == [rate |-> Known(SpeedOf, v)]
EthFecOf == ("off" :> "none") @@ ("rsfec" :> "rs") @@ ("baser" :> "fc")
EthFec(v) == [fec |-> Known(EthFecOf, v)]

Nodes(lf, v, new) ==
  IF lf \in Ports THEN PortNodes(lf)
  ELSE IF lf \in OtsiLeaves THEN PackNodes(lf, v, new)
  ELSE IF lf \in EthLeaves THEN HostIfNow(lf, new) ELSE {lf.o}
\* a pointer is only looked at
Translate(lf, v) ==
  CASE lf.l = "admin-state" -> PortAdminState(lf, v)
    [] lf.l = "frequency" -> IF lf.s = "ocp" THEN ChannelFrequency(v) ELSE Frequency(v)
    [] lf.l = "target-output-power" -> TargetOutputPower(v)
    [] lf.l = "operational-mode" -> OperationalMode(v)
    [] lf.l = "enabled" -> Enabled(v)
    [] lf.l = "fec-mode" -> FECMode(v)
    [] lf.l = "otsi-rate" -> OtsiRate(v)
    [] lf.l = "modulation-format" -> ModulationFormat(v)
    [] lf.l = "fec" -> Fec(v)
    [] lf.l = "transmit-power" -> TxPwr(v)
    [] lf.l = "optical-operational-mode" -> OpticalOperationalMode(v)
    [] lf.l = "loopback" -> OtuMaintLoopbackType(v)
    [] lf.l = "speed" -> EthSpd(v)
    [] lf.l = "eth-fec" -> EthFec(v)
    [] lf.l = "pack" -> <<>>
\* the native leaves a change sets, with their values
Effect(lf, v, new) ==
  LET f == Translate(lf, v) IN [n \in Nodes(lf, v, new) \X DOMAIN f |-> f[n[2]]]
Supported(lf, v, new) ==
  Nodes(lf, v, new) # {} /\ \A l \in DOMAIN Translate(lf, v) : Translate(lf, v)[l] # Unresolved

\* OpenConfigChangeHandler.apply: nothing is removed unless the value read by validate() is
\* true, and 0 is not; the OpenROADM handlers always remove
Truthy(n) == gs[n] # Unset /\ (n[2] = "power" => gs[n] # 0)
Skips(lf, v, e) == lf.s # "or" /\ v = Unset /\ \A n \in DOMAIN e : ~ Truthy(n)
Edits(lf, v, e) == IF Skips(lf, v, e) THEN <<>> ELSE e

-----------------------------------------------------------------------------
Init ==
  /\ svc = [s \in Servers |-> [lf \in LeavesOf(s) |-> Unset]] /\ gs = [n \in Native |-> Unset]
  /\ env \in Envs /\ otsi = <<>>
  /\ txn = [s \in Servers |-> Idle] /\ down = {}
  /\ by = [n \in Native |-> Unset] /\ loose = {}
  /\ count = [txns |-> 0, upsets |-> 0]

Bump(f, max) == count[f] < max /\ count' = [count EXCEPT ![f] = @ + 1]
\* the configuration a transaction leads to
Assigned(chg, lf, v) ==
  IF \E k \in DOMAIN chg : chg[k].lf = lf THEN chg[CHOOSE k \in DOMAIN chg : chg[k].lf = lf].v ELSE v
Update(c, r) == [c EXCEPT ![r.s] = [lf \in DOMAIN @ |-> Assigned(r.chg, lf, @[lf])]]
\* the edits in the session after every handler has been applied: a later one overrides
\* an earlier one
Last(ks) == CHOOSE k \in ks : \A j \in ks : j <= k
First(ks) == CHOOSE k \in ks : \A j \in ks : k <= j
EditedBy(edits, n) == {k \in DOMAIN edits : n \in DOMAIN edits[k]}
SessionFirstWins(edits) ==
  [n \in UNION {DOMAIN edits[k] : k \in DOMAIN edits} |-> edits[First(EditedBy(edits, n))][n]]
Session(edits) ==
  [n \in UNION {DOMAIN edits[k] : k \in DOMAIN edits} |-> edits[Last(EditedBy(edits, n))][n]]
\* pairs of a native leaf and the service leaf whose handler sets it
Reached(effects, chg) == UNION {{<<n, chg[k].lf>> : n \in DOMAIN effects[k]} : k \in DOMAIN chg}

\* the servers of the OpenConfig translator and its reconcile loop share an event loop, and
\* nothing suspends between validate() and post()
Process(s) == IF s = "or" THEN {"or"} ELSE {"ocp", "oci"}
Alone(s) == \A p \in Process(s) : txn[p].pc # "session"

\* what the models and sysrepo let a client change in its running configuration
Allowed(r, new) ==
  /\ new # svc /\ \A k \in DOMAIN r.chg : At(svc, r.chg[k].lf) # r.chg[k].v
  /\ r.s = "or" => \A lf \in OtsiLeaves \cup EthLeaves : Pack(new, lf.o) = Unset => At(new, lf) = Unset
  /\ \A lf \in Ports : lf.o \in Clients => At(new, lf) \in AdminStates \cup {Unset}

\* change_cb: pre(), then validate() and apply() of every handler; nothing is written yet
Change(q) ==
  LET r == Requests[q]
      new == Update(svc, r)
      effects == [k \in DOMAIN r.chg |-> Effect(r.chg[k].lf, r.chg[k].v, new)]
      edits == [k \in DOMAIN r.chg |-> Edits(r.chg[k].lf, r.chg[k].v, effects[k])]
  IN /\ r.s \notin down /\ txn[r.s].pc = "idle" /\ Alone(r.s) /\ Bump("txns", MaxTxns)
     /\ Allowed(r, new)
     /\ \A k \in DOMAIN r.chg : Supported(r.chg[k].lf, r.chg[k].v, new)
     /\ txn' = [txn EXCEPT ![r.s] =
          [pc |-> "session", q |-> q, edits |-> Session(edits), env |-> env,
           hits |-> Reached(effects, r.chg), wrote |-> Reached(edits, r.chg)]]
     /\ UNCHANGED <<svc, gs, env, otsi, down, by, loose>>

\* while the process does not run nobody translates: the configuration is stored as it is, and the
\* native leaves of what it changes keep what they have
Unheard(q) ==
  LET r == Requests[q]
      new == Update(svc, r)
      same(lf) == At(svc, lf) = At(new, lf) /\ (lf.s = "or" => Pack(svc, lf.o) = Pack(new, lf.o))
  IN /\ r.s \in down /\ txn[r.s].pc = "idle" /\ Bump("txns", MaxTxns)
     /\ Allowed(r, new)
     /\ svc' = new
     /\ loose' = loose \cup {n \in Native : by[n] \in SvcLeaves /\ ~ same(by[n])}
                       \cup {<<i, "admin">> : i \in Ifs \cap UNION {PortNodes(lf) : lf \in {p \in Ports : ~ same(p)}}}
     /\ UNCHANGED <<gs, env, otsi, txn, down, by>>

\* the last handler of a transaction that wrote a native leaf
Writer(t, n) ==
  LET chg == Requests[t.q].chg IN chg[Last({k \in DOMAIN chg : <<n, chg[k].lf>> \in t.wrote})].lf

New(t) == Update(svc, Requests[t.q])
HitBy(t) == {h[1] : h \in t.hits}
\* native leaves a transaction removes on a module its interface is not on: the circuit pack
\* remembered for the name of a removed interface was that of an earlier one
Astray(t) ==
  LET new == New(t)
  IN {h[1] : h \in {g \in t.hits : /\ g[2] \in OtsiLeaves
                                   /\ g[1][1] \notin {Pack(svc, g[2].o), Pack(new, g[2].o)}}}
\* native leaves of interfaces that a transaction removes or moves to another circuit pack
LeftBehind(t) ==
  LET new == New(t)
  IN {n \in Native : by[n] \in OtsiLeaves \cup EthLeaves /\ Pack(svc, by[n].o) # Pack(new, by[n].o)}
\* native leaves resolved in surroundings that have changed since
Overtaken(t) == {h[1] : h \in {g \in t.hits : g[2] \in Ports \cup EthLeaves /\ t.env # env}}

\* post() applies the session and closes it
Post(s) ==
  LET t == txn[s] IN
  /\ t.pc = "session"
  /\ gs' = [n \in Native |-> IF n \in DOMAIN t.edits THEN t.edits[n] ELSE gs[n]]
  /\ by' = [n \in Native |-> IF n \in DOMAIN t.edits /\ n \notin Astray(t) THEN Writer(t, n) ELSE by[n]]
  /\ loose' = (loose \ DOMAIN t.edits) \cup Astray(t) \cup Overtaken(t) \cup (LeftBehind(t) \ HitBy(t))
  /\ txn' = [txn EXCEPT ![s].pc = "posted"]
  /\ UNCHANGED <<svc, env, otsi, down, count>>

\* the native server refuses: the change is refused too
PostFails(s) ==
  /\ txn[s].pc = "session" /\ Bump("upsets", MaxUpsets)
  /\ txn' = [txn EXCEPT ![s] = Idle]
  /\ UNCHANGED <<svc, gs, env, otsi, down, by, loose>>

\* sysrepo stores the service configuration and sends 'done'
Done(s) ==
  /\ txn[s].pc = "posted"
  /\ svc' = New(txn[s])
  /\ txn' = [txn EXCEPT ![s] = Idle]
  /\ UNCHANGED <<gs, env, otsi, down, by, loose, count>>

\* another subscriber refused, or the client gave up: revert() of the handlers edits the session
\* that post() closed and nothing applies it, so nothing is written; the call either returns or
\* raises, and then the handlers stay and every later change is refused
Abort(s) ==
  /\ txn[s].pc = "posted" /\ Bump("upsets", MaxUpsets)
  /\ \E pc \in {"idle", "stuck"} : /\ s \in down => pc = "idle"
                                  /\ txn' = [txn EXCEPT ![s] = [Idle EXCEPT !.pc = pc]]
  /\ loose' = loose \cup HitBy(txn[s])
  /\ UNCHANGED <<svc, gs, env, otsi, down, by>>

\* the process ends, with the callbacks, handlers and loops of its servers; a configuration that
\* post() has accepted is left to sysrepo
Ends(s) ==
  /\ down' = down \cup Process(s)
  /\ txn' = [r \in Servers |-> IF r \in Process(s) /\ txn[r].pc # "posted" THEN Idle ELSE txn[r]]
  /\ otsi' = IF s = "or" THEN <<>> ELSE otsi
  /\ UNCHANGED <<svc, gs, env, by, loose>>
\* it is killed: at any time, and by an operator when a server is stuck, for which nobody else cares
Killed(s) ==
  /\ s \notin down
  /\ IF txn[s].pc = "stuck" THEN UNCHANGED count ELSE Bump("upsets", MaxUpsets)
  /\ Ends(s)
\* the DaemonSet starts it again
Started(s) ==
  /\ s \in down /\ \A r \in Process(s) : txn[r].pc # "posted"
  /\ down' = down \ Process(s)
  /\ UNCHANGED <<svc, gs, env, otsi, txn, by, loose, count>>

\* a client of the native models
NativeEdit(n, v) ==
  /\ gs[n] # v /\ Bump("upsets", MaxUpsets)
  /\ gs' = [gs EXCEPT ![n] = v] /\ by' = [by EXCEPT ![n] = NativeClient]
  /\ loose' = loose \ {n}
  /\ UNCHANGED <<svc, env, otsi, txn, down>>

\* a gearbox connection, a pin mode or the modules present change: leaves that resolve to
\* other native leaves now are not moved
EnvChange(e) ==
  /\ env # e /\ Bump("upsets", MaxUpsets) /\ env' = e
  /\ loose' = loose \cup {<<i, "admin">> : i \in UNION {{HostOf[c], env.conn[c], e.conn[c]} \cap Ifs :
                                                        c \in {d \in Clients : env.conn[d] # e.conn[d]}}}
                    \cup (IF env.pin # e.pin THEN HostIfs \X {"rate", "fec"} ELSE {})
  /\ UNCHANGED <<svc, gs, otsi, txn, down, by>>

\* InterfaceServer.reconcile: the interfaces follow the stored configuration again, also while
\* a transaction of this server is between post() and 'done'
EnabledLeaf(i) == Leaf("oci", i, "enabled")
AdminLeavesUpOnly == {<<i, "admin">> : i \in {j \in Ifs : At(svc, EnabledLeaf(j)) = TRUE}}
AdminLeaves == {<<i, "admin">> : i \in {j \in Ifs : At(svc, EnabledLeaf(j)) # Unset}}
Reconcile ==
  /\ "oci" \notin down /\ Alone("oci")
  /\ gs' = [n \in Native |-> IF n \in AdminLeaves THEN Enabled(At(svc, EnabledLeaf(n[1]))).admin ELSE gs[n]]
  /\ by' = [n \in Native |-> IF n \in AdminLeaves THEN EnabledLeaf(n[1]) ELSE by[n]]
  /\ loose' = (loose \ AdminLeaves)
              \cup (IF txn["oci"].pc = "posted" THEN AdminLeaves \cap HitBy(txn["oci"]) ELSE {})
  /\ <<gs', by', loose'>> # <<gs, by, loose>>
  /\ UNCHANGED <<svc, env, otsi, txn, down, count>>
\* sess.apply() raises, the task ends and main() with it
ReconcileFails ==
  /\ "oci" \notin down /\ Alone("oci") /\ Bump("upsets", MaxUpsets)
  /\ Ends("oci")

\* DeviceServer.oper_cb: _oper_interfaces remembers the pack of every optical interface whose
\* module answers
OperCb ==
  LET seen == {x \in Otsi : Pack(svc, x) \in env.mods}
  IN /\ "or" \notin down
     /\ otsi' = [x \in seen \cup DOMAIN otsi |-> IF x \in seen THEN Pack(svc, x) ELSE otsi[x]]
     /\ otsi' # otsi
     /\ UNCHANGED <<svc, gs, env, txn, down, by, loose, count>>

\* the steps nobody has to ask for; at most one of them is enabled for a server
GoesOn(s) == Post(s) \/ Done(s) \/ Started(s)

Next ==
  \/ \E q \in DOMAIN Requests : Change(q) \/ Unheard(q)
  \/ \E s \in Servers : Post(s) \/ PostFails(s) \/ Done(s) \/ Abort(s) \/ Killed(s) \/ Started(s)
  \/ \E n \in Native, v \in {"UP", Unset} : n[2] = "admin" /\ n[1] \in Ifs /\ NativeEdit(n, v)
  \/ \E e \in Envs : EnvChange(e)
  \/ Reconcile \/ ReconcileFails
  \/ OperCb

Spec == Init /\ [][Next]_vars
        /\ \A s \in Servers : WF_vars(GoesOn(s))
        /\ WF_vars(Reconcile)
=============================================================================
