---------------------------- MODULE XlateProofs ----------------------------
(***************************************************************************)
(* What the configuration path of the translators promises, proved for     *)
(* every set of modules, ports, interfaces, requests and surroundings.     *)
(*                                                                         *)
(* ConfiguredInForce speaks of settled native leaves and of the running    *)
(* configuration only. Followed says of every native leaf that is not lost *)
(* sight of which configuration it is to follow: between post() and 'done' *)
(* the one the transaction leads to, if the transaction hit it, and else   *)
(* the running one. That 'done' leaves nothing behind is Covered: what a   *)
(* transaction changes it hits. That post() may skip what is not there is  *)
(* Skipped. Untouched is the same for the native leaves of a client port   *)
(* that nobody has written yet.                                            *)
(*                                                                         *)
(* Nothing is said of loose native leaves: those are the ones the code     *)
(* loses sight of (see Xlate).                                             *)
(***************************************************************************)
EXTENDS XlateProps, WellFoundedInduction, TLAPS

\* between validate() and 'done' or 'abort'
Active(s) == txn[s].pc \in {"session", "posted"}
OrLeaves == OtsiLeaves \cup EthLeaves

\* PortNodes and HostIfNow in given surroundings
PortNodesIn(e, lf) ==
  IF lf.o \in Modules THEN {lf.o} ELSE IF e.conn[lf.o] = Unset THEN {} ELSE {HostOf[lf.o], e.conn[lf.o]}
HostIfIn(e, lf, c) ==
  LET p == Pack(c, lf.o)
  IN IF p \in Packs /\ e.pin[p] \in DOMAIN PortMap[p] THEN {PortMap[p][e.pin[p]]} ELSE {}

\* lf resolves to the native leaf n in the surroundings e and the configuration c; an OpenROADM
\* interface without a circuit pack may have resolved to any
Target(e, c, n, lf) ==
  /\ n[2] \in DOMAIN Translate(lf, Unset)
  /\ lf \in Ports => n[1] \in PortNodesIn(e, lf)
  /\ lf \in Channels \cup Interfaces => n[1] = lf.o
  /\ lf \in OtsiLeaves /\ Pack(c, lf.o) # Unset => n[1] = Pack(c, lf.o)
  /\ lf \in EthLeaves /\ Pack(c, lf.o) # Unset => n[1] \in HostIfIn(e, lf, c)

\* a value of a native leaf l that configures nothing
Nothing(l, v) == v = Unset \/ (l = "power" /\ v = 0) \/ (l = "loop" /\ v = "none")
\* the value g of the native leaf n is what lf asks for in the configuration c
Says(c, n, lf, g) ==
  IF At(c, lf) # Unset THEN g = Translate(lf, At(c, lf))[n[2]] ELSE Nothing(n[2], g)

Shaped(c) == DOMAIN c = Servers /\ \A s \in Servers : DOMAIN c[s] = LeavesOf(s)
TypeInv ==
  /\ Shaped(svc) /\ DOMAIN gs = Native /\ DOMAIN by = Native /\ env \in Envs
  /\ DOMAIN txn = Servers
  /\ \A s \in Servers : /\ DOMAIN txn[s] = DOMAIN Idle
                        /\ txn[s].pc \in {"idle", "session", "posted", "stuck"}
                        /\ Active(s) => txn[s].q \in DOMAIN Requests /\ Requests[txn[s].q].s = s

\* what pre() and the handlers accept
PacksNamed(c) == \A lf \in OrLeaves : Pack(c, lf.o) = Unset => At(c, lf) = Unset
StatesKnown(c) == \A lf \in Ports : lf.o \notin Modules => At(c, lf) \in {Unset} \cup AdminStates
ConfigsOK ==
  /\ PacksNamed(svc) /\ StatesKnown(svc)
  /\ Active("or") => PacksNamed(New(txn["or"]))
  /\ Active("ocp") => StatesKnown(New(txn["ocp"]))

\* what a transaction records while it is under way: the handlers hit native leaves that their
\* service leaves resolve to, and an interface leaf that changes is always hit
HitsOK(s) == LET t == txn[s] IN
  /\ t.env \in Envs
  /\ DOMAIN t.edits = {h[1] : h \in t.wrote} /\ t.wrote \subseteq t.hits
  /\ s = "or" => t.wrote = t.hits
  /\ \A h \in t.hits : /\ h = <<h[1], h[2]>> /\ h[1] \in Native /\ h[2] \in LeavesOf(s)
                       /\ Target(t.env, New(t), h[1], h[2])
  /\ \A lf \in LeavesOf(s) : (lf \in Interfaces /\ At(New(t), lf) # At(svc, lf)) =>
       \A l \in DOMAIN Translate(lf, Unset) : <<lf.o, l>> \in HitBy(t)
\* the session holds, of every native leaf, what the last handler that wrote it asked for
EditsOK(s) == LET t == txn[s] IN
  \A n \in DOMAIN t.edits : LET lf == Writer(t, n) IN
    <<n, lf>> \in t.wrote /\ t.edits[n] = Translate(lf, At(New(t), lf))[n[2]]
\* a transaction hits every native leaf whose writer it changes, or its interface moves and post()
\* is still to find out
Covered(s) == LET t == txn[s] IN
  \A n \in Native \ loose : (by[n] \in LeavesOf(s) /\ n \notin HitBy(t)) =>
     IF by[n] \in OrLeaves /\ Pack(svc, by[n].o) # Pack(New(t), by[n].o) THEN t.pc = "session"
     ELSE At(New(t), by[n]) = At(svc, by[n])
\* a handler skips only what is not there and what no leaf is to configure
Skipped(s) == LET t == txn[s] IN
  \A n \in Native \ loose :
    (t.pc = "session" /\ n \in HitBy(t) \ DOMAIN t.edits /\ by[n] \in LeavesOf(s)) =>
      ~ Truthy(n) /\ At(New(t), by[n]) = Unset
TxnOK(s) == Active(s) => HitsOK(s) /\ EditsOK(s) /\ Covered(s) /\ Skipped(s)
TxnsOK == \A s \in Servers : TxnOK(s)

\* the configuration a native leaf is to follow
Cfg(n, lf) == IF txn[lf.s].pc = "posted" /\ n \in HitBy(txn[lf.s]) THEN New(txn[lf.s]) ELSE svc
FollowedAt(n) == LET lf == by[n] IN
  lf \in SvcLeaves => Target(env, Cfg(n, lf), n, lf) /\ Says(Cfg(n, lf), n, lf, gs[n])
Followed == \A n \in Native \ loose : FollowedAt(n)

\* a native leaf nobody wrote: no client port that resolves to it is configured, unless by a
\* session that holds it
UntouchedAt(n) ==
  by[n] = Unset =>
    \A lf \in Ports : (lf.o \notin Modules /\ n[2] = "admin" /\ n[1] \in PortNodesIn(env, lf)) =>
      /\ At(svc, lf) = Unset
      /\ Active("ocp") => \/ At(New(txn["ocp"]), lf) = Unset
                          \/ txn["ocp"].pc = "session" /\ n \in DOMAIN txn["ocp"].edits
Untouched == \A n \in Native \ loose : UntouchedAt(n)

XInv == TypeInv /\ ConfigsOK /\ TxnsOK /\ Followed /\ Untouched

-----------------------------------------------------------------------------
LeafNames == {"admin-state", "frequency", "target-output-power", "operational-mode", "enabled", "fec-mode",
              "otsi-rate", "modulation-format", "fec", "transmit-power", "optical-operational-mode",
              "loopback", "speed", "eth-fec", "pack"}

\* A leaf of a kind, by its name and its server.
LEMMA LeafClasses ==
  ASSUME NEW lf \in SvcLeaves
  PROVE  /\ lf.l \in LeafNames /\ lf.s \in Servers /\ lf \in LeavesOf(lf.s)
         /\ lf \in Ports => lf.l = "admin-state" /\ lf.s = "ocp" /\ lf.o \in Modules \cup Clients
         /\ lf \in Channels => lf.l \in {"frequency", "target-output-power", "operational-mode"} /\ lf.s = "ocp"
         /\ lf \in Interfaces => lf.l \in {"enabled", "fec-mode"} /\ lf.s = "oci"
         /\ lf \in OtsiLeaves => lf.l \in {"otsi-rate", "modulation-format", "transmit-power", "fec",
                                                   "frequency", "optical-operational-mode", "loopback"} /\ lf.s = "or"
         /\ lf \in EthLeaves => lf.l \in {"speed", "eth-fec"} /\ lf.s = "or"
         /\ lf \in Pointers => lf.l = "pack" /\ lf.s = "or"
         /\ lf \in OrLeaves => Leaf("or", lf.o, "pack") \in LeavesOf("or")
BY DEF SvcLeaves, Ports, Channels, Interfaces, OtsiLeaves, EthLeaves, Pointers, Leaf, LeafNames, Servers, LeavesOf, OrLeaves

\* The leaves of a server.
LEMMA LeavesOfIs == ASSUME NEW s, NEW lf \in LeavesOf(s) PROVE lf \in SvcLeaves /\ lf.s = s
BY DEF LeavesOf

\* Translate, leaf by leaf.
LEMMA TranslateIs ==
  ASSUME NEW lf, NEW v
  PROVE  /\ lf.l = "admin-state" => Translate(lf, v) = PortAdminState(lf, v)
         /\ lf.l = "frequency" => Translate(lf, v) = IF lf.s = "ocp" THEN ChannelFrequency(v) ELSE Frequency(v)
         /\ lf.l = "target-output-power" => Translate(lf, v) = TargetOutputPower(v)
         /\ lf.l = "operational-mode" => Translate(lf, v) = OperationalMode(v)
         /\ lf.l = "enabled" => Translate(lf, v) = Enabled(v)
         /\ lf.l = "fec-mode" => Translate(lf, v) = FECMode(v)
         /\ lf.l = "otsi-rate" => Translate(lf, v) = OtsiRate(v)
         /\ lf.l = "modulation-format" => Translate(lf, v) = ModulationFormat(v)
         /\ lf.l = "fec" => Translate(lf, v) = Fec(v)
         /\ lf.l = "transmit-power" => Translate(lf, v) = TxPwr(v)
         /\ lf.l = "optical-operational-mode" => Translate(lf, v) = OpticalOperationalMode(v)
         /\ lf.l = "loopback" => Translate(lf, v) = OtuMaintLoopbackType(v)
         /\ lf.l = "speed" => Translate(lf, v) = EthSpd(v)
         /\ lf.l = "eth-fec" => Translate(lf, v) = EthFec(v)
         /\ lf.l = "pack" => Translate(lf, v) = <<>>
BY Zenon DEF Translate

\* Which native leaves a service leaf writes does not depend on its value, and without one it
\* configures nothing.
LEMMA TranslateShape ==
  ASSUME NEW lf \in SvcLeaves, NEW v
  PROVE  /\ DOMAIN Translate(lf, v) = DOMAIN Translate(lf, Unset)
         /\ \A l \in DOMAIN Translate(lf, Unset) : Nothing(l, Translate(lf, Unset)[l])
<1>0. lf.l \in LeafNames
  BY LeafClasses
<1>1. CASE lf.l = "admin-state"
  BY <1>1, TranslateIs DEF PortAdminState, Known, Nothing
<1>2. CASE lf.l = "frequency"
  BY <1>2, TranslateIs DEF ChannelFrequency, Frequency, Nothing
<1>3. CASE lf.l = "target-output-power"
  BY <1>3, TranslateIs DEF TargetOutputPower, Nothing
<1>4. CASE lf.l = "operational-mode"
  BY <1>4, TranslateIs DEF OperationalMode, Nothing
<1>5. CASE lf.l = "enabled"
  <2>1. Translate(lf, v) = Enabled(v) /\ Translate(lf, Unset) = Enabled(Unset)
    BY <1>5, TranslateIs
  <2> QED
    BY <2>1 DEF Enabled, Nothing
<1>6. CASE lf.l = "fec-mode"
  BY <1>6, TranslateIs DEF FECMode, Known, Nothing
<1>7. CASE lf.l = "otsi-rate"
  BY <1>7, TranslateIs DEF OtsiRate, Known, Nothing
<1>8. CASE lf.l = "modulation-format"
  BY <1>8, TranslateIs DEF ModulationFormat, Known, Nothing
<1>9. CASE lf.l = "fec"
  BY <1>9, TranslateIs DEF Fec, Known, Nothing
<1>10. CASE lf.l = "transmit-power"
  BY <1>10, TranslateIs DEF TxPwr, Nothing
<1>11. CASE lf.l = "optical-operational-mode"
  BY <1>11, TranslateIs DEF OpticalOperationalMode, OperationalMode, Nothing
<1>12. CASE lf.l = "loopback"
  BY <1>12, TranslateIs DEF OtuMaintLoopbackType, Nothing
<1>13. CASE lf.l = "speed"
  BY <1>13, TranslateIs DEF EthSpd, Known, Nothing
<1>14. CASE lf.l = "eth-fec"
  BY <1>14, TranslateIs DEF EthFec, Known, Nothing
<1>15. CASE lf.l = "pack"
  BY <1>15, TranslateIs
<1> QED
  BY <1>0, <1>1, <1>2, <1>3, <1>4, <1>5, <1>6, <1>7, <1>8, <1>9, <1>10, <1>11, <1>12, <1>13, <1>14, <1>15, Zenon DEF LeafNames

\* The native leaves of a node that the leaves of a kind write.
LEMMA TranslateLeaves ==
  ASSUME NEW lf \in SvcLeaves
  PROVE  /\ lf \in Ports => DOMAIN Translate(lf, Unset) = {"admin"}
         /\ lf \in Channels => DOMAIN Translate(lf, Unset) =
              IF lf.l = "frequency" THEN {"freq"} ELSE IF lf.l = "target-output-power" THEN {"power"} ELSE ModeLeaves
         /\ lf \in Interfaces => DOMAIN Translate(lf, Unset) = IF lf.l = "enabled" THEN {"admin"} ELSE {"fec"}
         /\ lf \in OtsiLeaves => DOMAIN Translate(lf, Unset) \subseteq {"rate", "mod", "fec", "freq", "power", "loop"}
         /\ lf \in EthLeaves => DOMAIN Translate(lf, Unset) \subseteq {"rate", "fec"}
         /\ lf \in Pointers => DOMAIN Translate(lf, Unset) = {}
<1>1. lf.l = "admin-state" => DOMAIN Translate(lf, Unset) = {"admin"}
  BY TranslateIs DEF PortAdminState
<1>2. lf.l = "frequency" => DOMAIN Translate(lf, Unset) = {"freq"}
  BY TranslateIs DEF ChannelFrequency, Frequency
<1>3. lf.l = "target-output-power" => DOMAIN Translate(lf, Unset) = {"power"}
  BY TranslateIs DEF TargetOutputPower
<1>4. lf.l = "operational-mode" => DOMAIN Translate(lf, Unset) = ModeLeaves
  BY TranslateIs DEF OperationalMode
<1>5. lf.l = "enabled" => DOMAIN Translate(lf, Unset) = {"admin"}
  <2>1. lf.l = "enabled" => Translate(lf, Unset) = Enabled(Unset)
    BY TranslateIs
  <2> QED
    BY <2>1 DEF Enabled
<1>6. lf.l = "fec-mode" => DOMAIN Translate(lf, Unset) = {"fec"}
  BY TranslateIs DEF FECMode
<1>7. lf.l = "otsi-rate" => DOMAIN Translate(lf, Unset) = {"rate"}
  BY TranslateIs DEF OtsiRate
<1>8. lf.l = "modulation-format" => DOMAIN Translate(lf, Unset) = {"mod"}
  BY TranslateIs DEF ModulationFormat
<1>9. lf.l = "fec" => DOMAIN Translate(lf, Unset) = {"fec"}
  BY TranslateIs DEF Fec
<1>10. lf.l = "transmit-power" => DOMAIN Translate(lf, Unset) = {"power"}
  BY TranslateIs DEF TxPwr
<1>11. lf.l = "optical-operational-mode" => DOMAIN Translate(lf, Unset) \subseteq {"rate", "mod", "fec"}
  BY TranslateIs DEF OpticalOperationalMode, ModeLeaves
<1>12. lf.l = "loopback" => DOMAIN Translate(lf, Unset) = {"loop"}
  BY TranslateIs DEF OtuMaintLoopbackType
<1>13. lf.l = "speed" => DOMAIN Translate(lf, Unset) = {"rate"}
  BY TranslateIs DEF EthSpd
<1>14. lf.l = "eth-fec" => DOMAIN Translate(lf, Unset) = {"fec"}
  BY TranslateIs DEF EthFec
<1>15. lf.l = "pack" => DOMAIN Translate(lf, Unset) = {}
  BY TranslateIs
<1>16. lf \in Ports => DOMAIN Translate(lf, Unset) = {"admin"}
  BY <1>1, LeafClasses
<1>17. lf \in Channels => DOMAIN Translate(lf, Unset) =
              IF lf.l = "frequency" THEN {"freq"} ELSE IF lf.l = "target-output-power" THEN {"power"} ELSE ModeLeaves
  BY <1>2, <1>3, <1>4, LeafClasses
<1>18. lf \in Interfaces => DOMAIN Translate(lf, Unset) = IF lf.l = "enabled" THEN {"admin"} ELSE {"fec"}
  BY <1>5, <1>6, LeafClasses
<1>19. lf \in OtsiLeaves => DOMAIN Translate(lf, Unset) \subseteq {"rate", "mod", "fec", "freq", "power", "loop"}
  BY <1>2, <1>7, <1>8, <1>9, <1>10, <1>11, <1>12, LeafClasses
<1>20. lf \in EthLeaves => DOMAIN Translate(lf, Unset) \subseteq {"rate", "fec"}
  BY <1>13, <1>14, LeafClasses
<1>21. lf \in Pointers => DOMAIN Translate(lf, Unset) = {}
  BY <1>15, LeafClasses
<1> QED
  BY <1>16, <1>17, <1>18, <1>19, <1>20, <1>21

\* Requests is as it is assumed to be.
LEMMA RequestShape ==
  ASSUME NEW q \in DOMAIN Requests
  PROVE  LET chg == Requests[q].chg
         IN /\ Requests[q].s \in Servers /\ Len(chg) \in Nat /\ DOMAIN chg = 1..Len(chg)
            /\ \A k \in DOMAIN chg : /\ chg[k].lf \in LeavesOf(Requests[q].s)
                                     /\ \A j \in DOMAIN chg : chg[j].lf = chg[k].lf => j = k
BY XlAssumption

\* A transaction changes the leaves it reports and nothing else.
LEMMA UpdateAt ==
  ASSUME NEW q \in DOMAIN Requests, NEW c, Shaped(c)
  PROVE  LET r == Requests[q]
             d == Update(c, r)
         IN /\ Shaped(d) /\ \A s \in Servers \ {r.s} : d[s] = c[s]
            /\ \A k \in DOMAIN r.chg : At(d, r.chg[k].lf) = r.chg[k].v
            /\ \A lf \in LeavesOf(r.s) : (\A k \in DOMAIN r.chg : r.chg[k].lf # lf) => At(d, lf) = At(c, lf)
<1> DEFINE r == Requests[q]
           d == Update(c, r)
<1>1. /\ r.s \in Servers
      /\ \A k \in DOMAIN r.chg : /\ r.chg[k].lf \in LeavesOf(r.s)
                                 /\ \A j \in DOMAIN r.chg : r.chg[j].lf = r.chg[k].lf => j = k
  BY RequestShape
<1>3. \A v : \A k \in DOMAIN r.chg : Assigned(r.chg, r.chg[k].lf, v) = r.chg[k].v
  <2> SUFFICES ASSUME NEW k \in DOMAIN r.chg, NEW v PROVE Assigned(r.chg, r.chg[k].lf, v) = r.chg[k].v
    OBVIOUS
  <2>1. (CHOOSE j \in DOMAIN r.chg : r.chg[j].lf = r.chg[k].lf) = k
    BY <1>1
  <2> QED
    BY <2>1 DEF Assigned
<1>4. /\ DOMAIN d = Servers /\ d[r.s] = [lf \in DOMAIN c[r.s] |-> Assigned(r.chg, lf, c[r.s][lf])]
      /\ \A s \in Servers \ {r.s} : d[s] = c[s]
  BY <1>1 DEF Update, Shaped
<1>5. DOMAIN d[r.s] = LeavesOf(r.s)
  BY <1>1, <1>4 DEF Shaped
<1>6. \A lf \in LeavesOf(r.s) : d[r.s][lf] = Assigned(r.chg, lf, c[r.s][lf])
  BY <1>1, <1>4 DEF Shaped
<1>7. Shaped(d)
  BY <1>1, <1>4, <1>5 DEF Shaped
<1>8. \A k \in DOMAIN r.chg : At(d, r.chg[k].lf) = r.chg[k].v
  BY <1>1, <1>3, <1>6, LeavesOfIs DEF At
<1>9. \A lf \in LeavesOf(r.s) : (\A k \in DOMAIN r.chg : r.chg[k].lf # lf) => At(d, lf) = At(c, lf)
  BY <1>6, LeavesOfIs DEF At, Assigned
<1> QED
  BY <1>4, <1>7, <1>8, <1>9

-----------------------------------------------------------------------------
(* What follows from parts of the state that stay.                         *)

\* A leaf is about the same in configurations that agree on its server.
LEMMA TargetSame ==
  ASSUME NEW lf \in SvcLeaves, NEW c, NEW d, c[lf.s] = d[lf.s], NEW e, NEW n
  PROVE  /\ Target(e, c, n, lf) => Target(e, d, n, lf)
         /\ At(c, lf) = At(d, lf)
         /\ lf \in OrLeaves => Pack(c, lf.o) = Pack(d, lf.o)
         /\ \A g : Says(c, n, lf, g) => Says(d, n, lf, g)
<1>1. At(c, lf) = At(d, lf)
  BY DEF At
<1>2. lf \in OrLeaves => Pack(c, lf.o) = Pack(d, lf.o)
  BY LeafClasses DEF Pack, At, Leaf, OrLeaves
<1>3. Target(e, c, n, lf) => Target(e, d, n, lf)
  BY <1>2 DEF Target, HostIfIn, OrLeaves
<1>4. \A g : Says(c, n, lf, g) => Says(d, n, lf, g)
  BY <1>1 DEF Says
<1> QED
  BY <1>1, <1>2, <1>3, <1>4

\* The configuration a transaction leads to is another one for its own server only.
LEMMA NewIs ==
  ASSUME TypeInv, NEW s \in Servers, Active(s)
  PROVE  /\ Shaped(New(txn[s]))
         /\ \A r \in Servers \ {s} : New(txn[s])[r] = svc[r]
BY UpdateAt DEF TypeInv, New

\* ... and depends on that server only.
LEMMA NewSame ==
  ASSUME TypeInv, TypeInv', NEW s \in Servers, Active(s), txn'[s].q = txn[s].q, svc'[s] = svc[s]
  PROVE  New(txn[s])'[s] = New(txn[s])[s]
<1>1. txn[s].q \in DOMAIN Requests /\ Requests[txn[s].q].s = s
  BY DEF TypeInv
<1>2. /\ New(txn[s])[s] = [lf \in DOMAIN svc[s] |-> Assigned(Requests[txn[s].q].chg, lf, svc[s][lf])]
      /\ New(txn[s])'[s] = [lf \in DOMAIN svc'[s] |-> Assigned(Requests[txn[s].q].chg, lf, svc'[s][lf])]
  BY <1>1 DEF New, Update, TypeInv, Shaped
<1> QED
  BY <1>2

\* A transaction that an action leaves alone; the reconcile loop may write a native leaf in the
\* name of a leaf of it.
LEMMA TxnKept ==
  ASSUME TypeInv, TypeInv', NEW s \in Servers, TxnOK(s), txn'[s] = txn[s], svc'[s] = svc[s],
         \A n \in Native \ loose' : by'[n] \in LeavesOf(s) =>
            \/ n \notin loose /\ by'[n] = by[n] /\ gs'[n] = gs[n]
            \/ /\ txn[s].pc # "session" /\ by'[n] \in Interfaces
               /\ n[2] \in DOMAIN Translate(by'[n], Unset) /\ n = <<by'[n].o, n[2]>>
  PROVE  TxnOK(s)'
<1> SUFFICES ASSUME Active(s) PROVE (HitsOK(s) /\ EditsOK(s) /\ Covered(s) /\ Skipped(s))'
  BY DEF TxnOK, Active
<1> DEFINE t == txn[s]
<1>1. New(t)'[s] = New(t)[s]
  BY NewSame
<1>2. \A lf \in LeavesOf(s) : /\ lf \in SvcLeaves /\ lf.s = s
                              /\ At(New(t)', lf) = At(New(t), lf) /\ At(svc', lf) = At(svc, lf)
                              /\ lf \in OrLeaves => /\ Pack(New(t)', lf.o) = Pack(New(t), lf.o)
                                                    /\ Pack(svc', lf.o) = Pack(svc, lf.o)
  BY <1>1, TargetSame, LeavesOfIs
<1>3. HitsOK(s) /\ EditsOK(s) /\ Covered(s) /\ Skipped(s)
  BY DEF TxnOK
<1>4. HitsOK(s)'
  <2>1. \A h \in t.hits : Target(t.env, New(t)', h[1], h[2])
    BY <1>1, <1>3, TargetSame, LeavesOfIs DEF HitsOK
  <2> QED
    BY <1>2, <1>3, <2>1 DEF HitsOK, HitBy
<1>5. EditsOK(s)'
  <2>1. \A n \in DOMAIN t.edits : Writer(t, n) \in LeavesOf(s)
    BY <1>3 DEF EditsOK, HitsOK
  <2>2. \A n : Writer(t, n)' = Writer(t, n)
    BY DEF Writer
  <2> QED
    BY <1>2, <1>3, <2>1, <2>2 DEF EditsOK
<1>6. Covered(s)'
  <2> SUFFICES ASSUME NEW n \in Native \ loose', by'[n] \in LeavesOf(s), n \notin HitBy(t)
               PROVE  IF by'[n] \in OrLeaves /\ Pack(svc', by'[n].o) # Pack(New(t)', by'[n].o) THEN t.pc = "session"
                      ELSE At(New(t)', by'[n]) = At(svc', by'[n])
    BY DEF Covered, HitBy
  <2>1. CASE n \notin loose /\ by'[n] = by[n]
    BY <1>2, <1>3, <2>1 DEF Covered
  <2>2. CASE by'[n] \in Interfaces /\ n[2] \in DOMAIN Translate(by'[n], Unset) /\ n = <<by'[n].o, n[2]>>
    <3>1. At(New(t), by'[n]) = At(svc, by'[n])
      BY <1>3, <2>2 DEF HitsOK
    <3>2. by'[n] \notin OrLeaves
      BY <2>2, LeavesOfIs, LeafClasses DEF OrLeaves
    <3> QED
      BY <1>2, <3>1, <3>2
  <2> QED
    BY <2>1, <2>2
<1>7. Skipped(s)'
  BY <1>2, <1>3 DEF Skipped, HitBy, Truthy
<1> QED
  BY <1>4, <1>5, <1>6, <1>7

\* A native leaf that an action leaves alone.
LEMMA FollowedKept ==
  ASSUME TypeInv, TypeInv', NEW n \in Native, FollowedAt(n), by'[n] = by[n], gs'[n] = gs[n], env' = env,
         by[n] \in SvcLeaves => txn'[by[n].s] = txn[by[n].s] /\ svc'[by[n].s] = svc[by[n].s]
  PROVE  FollowedAt(n)'
<1> SUFFICES ASSUME by[n] \in SvcLeaves PROVE FollowedAt(n)'
  BY DEF FollowedAt
<1> DEFINE lf == by[n]
<1>1. lf.s \in Servers
  BY LeafClasses
<1>2. Cfg(n, lf)'[lf.s] = Cfg(n, lf)[lf.s]
  <2>1. CASE txn[lf.s].pc = "posted" /\ n \in HitBy(txn[lf.s])
    <3>1. New(txn[lf.s])'[lf.s] = New(txn[lf.s])[lf.s]
      BY <1>1, <2>1, NewSame DEF Active
    <3> QED
      BY <2>1, <3>1 DEF Cfg, HitBy
  <2>2. CASE ~ (txn[lf.s].pc = "posted" /\ n \in HitBy(txn[lf.s]))
    BY <2>2 DEF Cfg, HitBy
  <2> QED
    BY <2>1, <2>2
<1>3. Target(env, Cfg(n, lf)', n, lf) /\ Says(Cfg(n, lf)', n, lf, gs[n])
  BY <1>2, TargetSame DEF FollowedAt
<1> QED
  BY <1>3 DEF FollowedAt

\* The native leaves nobody wrote.
LEMMA UntouchedKept ==
  ASSUME TypeInv, TypeInv', Untouched, svc'["ocp"] = svc["ocp"], txn'["ocp"] = txn["ocp"], env' = env,
         \A n \in Native \ loose' : by'[n] = Unset => by[n] = Unset /\ n \notin loose
  PROVE  Untouched'
<1> SUFFICES ASSUME NEW n \in Native \ loose', by'[n] = Unset PROVE UntouchedAt(n)'
  BY DEF Untouched, UntouchedAt
<1>1. UntouchedAt(n) /\ by[n] = Unset
  BY DEF Untouched
<1>2. Active("ocp") => New(txn["ocp"])'["ocp"] = New(txn["ocp"])["ocp"]
  BY NewSame DEF Servers
<1>3. \A lf \in Ports : /\ At(svc', lf) = At(svc, lf)
                        /\ Active("ocp") => At(New(txn["ocp"])', lf) = At(New(txn["ocp"]), lf)
  <2>1. \A lf \in Ports : lf \in SvcLeaves /\ lf.s = "ocp"
    BY LeafClasses DEF SvcLeaves
  <2> QED
    BY <1>2, <2>1 DEF At
<1> QED
  BY <1>1, <1>3 DEF UntouchedAt, Active

\* What the configurations promise while none is committed.
LEMMA ConfigsKept ==
  ASSUME TypeInv, TypeInv', ConfigsOK, svc' = svc,
         \A s \in Servers : Active(s)' => Active(s) /\ txn'[s].q = txn[s].q
  PROVE  ConfigsOK'
<1>1. \A s \in Servers : Active(s)' => New(txn[s])' = New(txn[s])
  BY DEF New
<1> QED
  BY <1>1 DEF ConfigsOK, PacksNamed, StatesKnown, Servers

-----------------------------------------------------------------------------
(* The steps.                                                              *)

\* Every step keeps the shape of the state.
LEMMA TypeStep ==
  ASSUME TypeInv, Next
  PROVE  TypeInv'
<1>0. /\ DOMAIN Idle = {"pc", "q", "edits", "env", "hits", "wrote"} /\ Idle.pc = "idle"
      /\ \A pc \in {"idle", "stuck"} : [Idle EXCEPT !.pc = pc].pc = pc /\ DOMAIN [Idle EXCEPT !.pc = pc] = DOMAIN Idle
  BY DEF Idle
<1>1. ASSUME NEW q \in DOMAIN Requests, Change(q) PROVE TypeInv'
  <2>1. Requests[q].s \in Servers
    BY RequestShape
  <2> QED
    BY <1>0, <1>1, <2>1 DEF Change, TypeInv, Active, Shaped
<1>2. ASSUME NEW s \in Servers, Post(s) PROVE TypeInv'
  BY <1>0, <1>2 DEF Post, TypeInv, Active, Shaped
<1>3. ASSUME NEW s \in Servers, PostFails(s) PROVE TypeInv'
  BY <1>0, <1>3 DEF PostFails, TypeInv, Active, Shaped
<1>4. ASSUME NEW s \in Servers, Done(s) PROVE TypeInv'
  <2>1. Shaped(New(txn[s]))
    BY <1>4, NewIs DEF Done, Active
  <2> QED
    BY <1>0, <1>4, <2>1 DEF Done, TypeInv, Active, Shaped
<1>5. ASSUME NEW s \in Servers, Abort(s) PROVE TypeInv'
  BY <1>0, <1>5 DEF Abort, TypeInv, Active, Shaped
<1>6. ASSUME NEW s \in Servers, Ends(s) PROVE TypeInv'
  BY <1>0, <1>6 DEF Ends, TypeInv, Active, Shaped
<1>7. ASSUME NEW n \in Native, NEW v, NativeEdit(n, v) PROVE TypeInv'
  BY <1>7 DEF NativeEdit, TypeInv, Active, Shaped
<1>8. ASSUME NEW e \in Envs, EnvChange(e) PROVE TypeInv'
  BY <1>8 DEF EnvChange, TypeInv, Active, Shaped
<1>9. CASE Reconcile
  BY <1>9 DEF Reconcile, TypeInv, Active, Shaped
<1>10. CASE OperCb
  BY <1>10 DEF OperCb, TypeInv, Active, Shaped
<1>11. ASSUME NEW s \in Servers, Started(s) PROVE TypeInv'
  BY <1>11 DEF Started, TypeInv, Active, Shaped
<1>12. ASSUME NEW q \in DOMAIN Requests, Unheard(q) PROVE TypeInv'
  <2>1. Shaped(svc') /\ UNCHANGED <<gs, env, txn, by>>
    BY <1>12, UpdateAt DEF Unheard, TypeInv
  <2> QED
    BY <2>1 DEF TypeInv, Active
<1>13. "oci" \in Servers
  BY DEF Servers
<1> QED
  BY <1>1, <1>2, <1>3, <1>4, <1>5, <1>6, <1>7, <1>8, <1>9, <1>10, <1>11, <1>12, <1>13
     DEF Next, Killed, ReconcileFails

\* post() failed, or the process ended: nothing was written.
LEMMA DroppedStep ==
  ASSUME XInv, TypeInv', UNCHANGED <<svc, gs, env, by, loose>>,
         \A r \in Servers : txn'[r] = txn[r] \/ (txn[r].pc # "posted" /\ txn'[r] = Idle)
  PROVE  XInv'
<1>1. \A r \in Servers : txn'[r] = txn[r] \/ (txn[r].pc # "posted" /\ txn'[r] = Idle)
  OBVIOUS
<1>2. DOMAIN txn = Servers /\ Idle.pc = "idle"
  BY DEF XInv, TypeInv, Idle
<1>3. ConfigsOK'
  <2>1. \A r \in Servers : Active(r)' => Active(r) /\ txn'[r].q = txn[r].q
    BY <1>1, <1>2 DEF Active
  <2> QED
    BY <1>1, <2>1, ConfigsKept DEF XInv
<1>4. TxnsOK'
  <2> SUFFICES ASSUME NEW r \in Servers PROVE TxnOK(r)'
    BY DEF TxnsOK
  <2>1. CASE txn'[r] = txn[r]
    BY <2>1, TxnKept DEF XInv, TxnsOK
  <2>2. CASE txn'[r] = Idle
    BY <1>2, <2>2 DEF TxnOK, Active
  <2> QED
    BY <1>1, <2>1, <2>2
<1>5. Followed'
  <2> SUFFICES ASSUME NEW n \in Native \ loose PROVE FollowedAt(n)'
    BY <1>1 DEF Followed
  <2>1. FollowedAt(n)
    BY DEF XInv, Followed
  <2>2. by[n] \in SvcLeaves => by[n].s \in Servers
    BY LeafClasses
  <2>3. by[n] \in SvcLeaves => Cfg(n, by[n])' = Cfg(n, by[n])
    BY <1>1, <1>2, <2>2 DEF Cfg, New, HitBy
  <2> QED
    BY <1>1, <2>1, <2>3 DEF FollowedAt
<1>6. Untouched'
  <2> SUFFICES ASSUME NEW n \in Native \ loose, by[n] = Unset PROVE UntouchedAt(n)'
    BY <1>1 DEF Untouched, UntouchedAt
  <2>1. UntouchedAt(n)
    BY DEF XInv, Untouched
  <2>2. Active("ocp")' => Active("ocp") /\ txn'["ocp"] = txn["ocp"]
    BY <1>1, <1>2 DEF Active, Servers
  <2> QED
    BY <1>1, <2>1, <2>2 DEF UntouchedAt, New
<1> QED
  BY <1>3, <1>4, <1>5, <1>6 DEF XInv

\* The service configuration is committed.
LEMMA DoneStep ==
  ASSUME XInv, TypeInv', NEW s \in Servers, Done(s)
  PROVE  XInv'
<1> DEFINE t == txn[s]
<1>1. /\ t.pc = "posted" /\ svc' = New(t) /\ txn' = [txn EXCEPT ![s] = Idle]
      /\ UNCHANGED <<gs, env, by, loose>>
  BY DEF Done
<1>2. TypeInv /\ Active(s) /\ DOMAIN txn = Servers /\ Idle.pc = "idle"
  BY <1>1 DEF XInv, TypeInv, Idle, Active
<1>3. \A r \in Servers \ {s} : svc'[r] = svc[r] /\ txn'[r] = txn[r]
  BY <1>1, <1>2, NewIs
<1>4. ~ Active(s)'
  BY <1>1, <1>2 DEF Active
<1>5. \A r \in Servers \ {s} : Active(r)' => Active(r) /\ New(txn[r])'[r] = New(txn[r])[r]
  BY <1>2, <1>3, NewSame DEF Active
<1>6. ConfigsOK'
  <2>0. Servers = {"ocp", "oci", "or"}
    BY DEF Servers
  <2>1. PacksNamed(svc')
    <3>1. CASE s = "or"
      BY <1>1, <1>2, <3>1 DEF XInv, ConfigsOK
    <3>2. CASE s # "or"
      <4>1. svc'["or"] = svc["or"]
        BY <1>3, <2>0, <3>2
      <4> QED
        BY <4>1 DEF XInv, ConfigsOK, PacksNamed, Pack, At, OrLeaves, OtsiLeaves, EthLeaves, Leaf
    <3> QED
      BY <3>1, <3>2
  <2>2. StatesKnown(svc')
    <3>1. CASE s = "ocp"
      BY <1>1, <1>2, <3>1 DEF XInv, ConfigsOK
    <3>2. CASE s # "ocp"
      <4>1. svc'["ocp"] = svc["ocp"]
        BY <1>3, <2>0, <3>2
      <4> QED
        BY <4>1 DEF XInv, ConfigsOK, StatesKnown, At, Ports, Leaf
    <3> QED
      BY <3>1, <3>2
  <2>3. Active("or")' => PacksNamed(New(txn["or"])')
    <3>1. Active("or")' => Active("or") /\ New(txn["or"])'["or"] = New(txn["or"])["or"]
      BY <1>4, <1>5, <2>0
    <3> QED
      BY <3>1 DEF XInv, ConfigsOK, PacksNamed, Pack, At, OrLeaves, OtsiLeaves, EthLeaves, Leaf
  <2>4. Active("ocp")' => StatesKnown(New(txn["ocp"])')
    <3>1. Active("ocp")' => Active("ocp") /\ New(txn["ocp"])'["ocp"] = New(txn["ocp"])["ocp"]
      BY <1>4, <1>5, <2>0
    <3> QED
      BY <3>1 DEF XInv, ConfigsOK, StatesKnown, At, Ports, Leaf
  <2>5. Active("or")' => PacksNamed(New(txn["or"]))'
    BY <2>3 DEF PacksNamed
  <2>6. Active("ocp")' => StatesKnown(New(txn["ocp"]))'
    BY <2>4 DEF StatesKnown
  <2> QED
    BY <2>1, <2>2, <2>5, <2>6 DEF ConfigsOK, PacksNamed, StatesKnown
<1>7. TxnsOK'
  <2>1. TxnOK(s)'
    BY <1>4 DEF TxnOK
  <2>2. ASSUME NEW r \in Servers \ {s} PROVE TxnOK(r)'
    BY <1>1, <1>2, <1>3, TxnKept DEF XInv, TxnsOK
  <2> QED
    BY <2>1, <2>2 DEF TxnsOK
<1>8. Followed'
  <2> SUFFICES ASSUME NEW n \in Native \ loose, by[n] \in SvcLeaves PROVE FollowedAt(n)'
    BY <1>1 DEF Followed, FollowedAt
  <2> DEFINE lf == by[n]
  <2>1. FollowedAt(n) /\ lf.s \in Servers
    BY LeafClasses DEF XInv, Followed
  <2>2. CASE lf.s # s
    BY <1>1, <1>2, <1>3, <2>1, <2>2, FollowedKept
  <2>3. CASE lf.s = s
    <3>0. Cfg(n, lf)' = New(t)
      BY <1>1, <1>2, <2>3 DEF Cfg
    <3>1. CASE n \in HitBy(t)
      <4>1. Cfg(n, lf) = New(t)
        BY <1>1, <2>3, <3>1 DEF Cfg
      <4> QED
        BY <1>1, <2>1, <3>0, <4>1 DEF FollowedAt
    <3>2. CASE n \notin HitBy(t)
      <4>1. Cfg(n, lf) = svc
        BY <2>3, <3>2 DEF Cfg
      <4>2. lf \in LeavesOf(s)
        BY <2>3 DEF LeavesOf
      <4>3. /\ lf \in OrLeaves => Pack(svc, lf.o) = Pack(New(t), lf.o)
            /\ At(New(t), lf) = At(svc, lf)
        BY <1>1, <1>2, <3>2, <4>2 DEF XInv, TxnsOK, TxnOK, Covered
      <4>4. Target(env, New(t), n, lf) /\ Says(New(t), n, lf, gs[n])
        BY <2>1, <4>1, <4>3 DEF FollowedAt, Target, Says, HostIfIn, OrLeaves
      <4> QED
        BY <1>1, <3>0, <4>4 DEF FollowedAt
    <3> QED
      BY <3>1, <3>2
  <2> QED
    BY <2>2, <2>3
<1>9. Untouched'
  <2>1. CASE s # "ocp"
    <3>1. svc'["ocp"] = svc["ocp"] /\ txn'["ocp"] = txn["ocp"]
      BY <1>3, <2>1 DEF Servers
    <3> QED
      BY <1>1, <1>2, <3>1, UntouchedKept DEF XInv
  <2>2. CASE s = "ocp"
    <3> SUFFICES ASSUME NEW n \in Native \ loose, by[n] = Unset PROVE UntouchedAt(n)'
      BY <1>1 DEF Untouched, UntouchedAt
    <3>1. UntouchedAt(n)
      BY DEF XInv, Untouched
    <3> QED
      BY <1>1, <1>2, <1>4, <2>2, <3>1 DEF UntouchedAt
  <2> QED
    BY <2>1, <2>2
<1> QED
  BY <1>6, <1>7, <1>8, <1>9 DEF XInv

\* A configuration is stored that nobody translates: what it changes is lost sight of.
LEMMA UnheardStep ==
  ASSUME XInv, TypeInv', NEW q \in DOMAIN Requests, Unheard(q)
  PROVE  XInv'
<1> DEFINE r == Requests[q]
           s == r.s
           same(lf) == At(svc, lf) = At(svc', lf) /\ (lf.s = "or" => Pack(svc, lf.o) = Pack(svc', lf.o))
<1>1. /\ txn[s].pc = "idle" /\ svc' = Update(svc, r) /\ UNCHANGED <<gs, env, txn, by>>
      /\ loose' = loose \cup {n \in Native : by[n] \in SvcLeaves /\ ~ same(by[n])}
                  \cup {<<i, "admin">> : i \in Ifs \cap UNION {PortNodes(lf) : lf \in {p \in Ports : ~ same(p)}}}
  BY DEF Unheard
<1>2. TypeInv /\ s \in Servers /\ ~ Active(s)
  BY <1>1, RequestShape DEF XInv, Active
<1>3. \A p \in Servers \ {s} : svc'[p] = svc[p]
  BY <1>1, <1>2, UpdateAt DEF TypeInv
<1>4. \A p \in Servers \ {s} : Active(p) => New(txn[p])'[p] = New(txn[p])[p]
  BY <1>1, <1>2, <1>3, NewSame
<1>5. ConfigsOK'
  <2>0. Servers = {"ocp", "oci", "or"} /\ Ports \cup OrLeaves \subseteq SvcLeaves
    BY DEF Servers, SvcLeaves, OrLeaves
  <2>1. PacksNamed(svc')
    <3>1. CASE s = "or"
      BY <1>1, <3>1 DEF Unheard, Allowed, PacksNamed, OrLeaves
    <3>2. CASE s # "or"
      <4>1. svc'["or"] = svc["or"]
        BY <1>3, <2>0, <3>2
      <4> QED
        BY <4>1 DEF XInv, ConfigsOK, PacksNamed, Pack, At, OrLeaves, OtsiLeaves, EthLeaves, Leaf
    <3> QED
      BY <3>1, <3>2
  <2>2. StatesKnown(svc')
    BY <1>1 DEF Unheard, Allowed, StatesKnown, Ports, Leaf
  <2>3. Active("or")' => PacksNamed(New(txn["or"])')
    <3>1. Active("or")' => Active("or") /\ New(txn["or"])'["or"] = New(txn["or"])["or"]
      BY <1>1, <1>2, <1>4, <2>0 DEF Active
    <3> QED
      BY <3>1 DEF XInv, ConfigsOK, PacksNamed, Pack, At, OrLeaves, OtsiLeaves, EthLeaves, Leaf
  <2>4. Active("ocp")' => StatesKnown(New(txn["ocp"])')
    <3>1. Active("ocp")' => Active("ocp") /\ New(txn["ocp"])'["ocp"] = New(txn["ocp"])["ocp"]
      BY <1>1, <1>2, <1>4, <2>0 DEF Active
    <3> QED
      BY <3>1 DEF XInv, ConfigsOK, StatesKnown, At, Ports, Leaf
  <2>5. Active("or")' => PacksNamed(New(txn["or"]))'
    BY <2>3 DEF PacksNamed
  <2>6. Active("ocp")' => StatesKnown(New(txn["ocp"]))'
    BY <2>4 DEF StatesKnown
  <2> QED
    BY <2>1, <2>2, <2>5, <2>6 DEF ConfigsOK, PacksNamed, StatesKnown
<1>6. TxnsOK'
  <2>1. TxnOK(s)'
    BY <1>1, <1>2 DEF TxnOK, Active
  <2>2. ASSUME NEW p \in Servers \ {s} PROVE TxnOK(p)'
    BY <1>1, <1>2, <1>3, TxnKept DEF XInv, TxnsOK
  <2> QED
    BY <2>1, <2>2 DEF TxnsOK
<1>7. Followed'
  <2> SUFFICES ASSUME NEW n \in Native \ loose', by[n] \in SvcLeaves PROVE FollowedAt(n)'
    BY <1>1 DEF Followed, FollowedAt
  <2> DEFINE lf == by[n]
  <2>1. n \notin loose /\ FollowedAt(n) /\ lf.s \in Servers /\ same(lf)
    BY <1>1, LeafClasses DEF XInv, Followed
  <2>2. CASE lf.s # s
    BY <1>1, <1>2, <1>3, <2>1, <2>2, FollowedKept
  <2>3. CASE lf.s = s
    <3>1. Cfg(n, lf) = svc /\ Cfg(n, lf)' = svc'
      BY <1>1, <2>3 DEF Cfg
    <3>2. lf \in OrLeaves => Pack(svc, lf.o) = Pack(svc', lf.o)
      BY <2>1, LeafClasses DEF OrLeaves
    <3>3. Target(env, svc, n, lf) /\ Says(svc, n, lf, gs[n])
      BY <2>1, <3>1 DEF FollowedAt
    <3>4. Target(env, svc', n, lf)
      BY <3>2, <3>3 DEF Target, HostIfIn, OrLeaves
    <3>5. Says(svc', n, lf, gs[n])
      BY <2>1, <3>3 DEF Says
    <3> QED
      BY <1>1, <3>1, <3>4, <3>5 DEF FollowedAt
  <2> QED
    BY <2>2, <2>3
<1>8. Untouched'
  <2>1. CASE s # "ocp"
    <3>1. svc'["ocp"] = svc["ocp"]
      BY <1>3, <2>1 DEF Servers
    <3> QED
      BY <1>1, <1>2, <3>1, UntouchedKept DEF XInv
  <2>2. CASE s = "ocp"
    <3> SUFFICES ASSUME NEW n \in Native \ loose', by[n] = Unset PROVE UntouchedAt(n)'
      BY <1>1 DEF Untouched, UntouchedAt
    <3>1. UntouchedAt(n)
      BY <1>1 DEF XInv, Untouched
    <3>2. ASSUME NEW lf \in Ports, lf.o \notin Modules, n[2] = "admin", n[1] \in PortNodesIn(env, lf),
                 At(svc, lf) = Unset
          PROVE  At(svc', lf) = Unset
      <4>1. n[1] \in PortNodes(lf) /\ n = <<n[1], "admin">>
        BY <3>2 DEF PortNodesIn, PortNodes, Native
      <4>2. n[1] \in Ifs
        <5>1. lf.o \in Clients
          BY <3>2 DEF Ports, Leaf
        <5>2. env.conn[lf.o] \in Nets \cup {Unset}
          BY <1>2, <5>1, XlAssumption DEF TypeInv
        <5> QED
          BY <3>2, <5>1, <5>2 DEF PortNodesIn, Ifs
      <4>3. same(lf)
        BY <1>1, <4>1, <4>2
      <4> QED
        BY <3>2, <4>3
    <3>3. ~ Active("ocp")' /\ UNCHANGED <<by, env>>
      BY <1>1, <2>2 DEF Active
    <3>4. \A lf \in Ports : (lf.o \notin Modules /\ n[2] = "admin" /\ n[1] \in PortNodesIn(env, lf))
            => At(svc', lf) = Unset
      BY <1>1, <3>1, <3>2 DEF UntouchedAt
    <3> QED
      BY <3>3, <3>4 DEF UntouchedAt
  <2> QED
    BY <2>1, <2>2
<1> QED
  BY <1>5, <1>6, <1>7, <1>8 DEF XInv

\* The transaction is given up after its edits were applied; the native leaves it hit are lost sight of.
LEMMA AbortStep ==
  ASSUME XInv, TypeInv', NEW s \in Servers, Abort(s)
  PROVE  XInv'
<1> DEFINE t == txn[s]
<1>1. /\ t.pc = "posted" /\ UNCHANGED <<svc, gs, env, by>> /\ loose' = loose \cup HitBy(t)
      /\ \E pc \in {"idle", "stuck"} : txn' = [txn EXCEPT ![s] = [Idle EXCEPT !.pc = pc]]
  BY DEF Abort
<1>2. TypeInv /\ DOMAIN txn = Servers
  BY DEF XInv, TypeInv
<1>3. txn'[s].pc \in {"idle", "stuck"} /\ \A r \in Servers \ {s} : txn'[r] = txn[r]
  BY <1>1, <1>2 DEF Idle
<1>4. ConfigsOK'
  <2>1. \A r \in Servers : Active(r)' => Active(r) /\ txn'[r].q = txn[r].q
    BY <1>3 DEF Active
  <2> QED
    BY <1>1, <2>1, ConfigsKept DEF XInv
<1>5. TxnsOK'
  <2>1. TxnOK(s)'
    BY <1>3 DEF TxnOK, Active
  <2>2. ASSUME NEW r \in Servers \ {s} PROVE TxnOK(r)'
    BY <1>1, <1>2, <1>3, TxnKept DEF XInv, TxnsOK
  <2> QED
    BY <2>1, <2>2 DEF TxnsOK
<1>6. Followed'
  <2> SUFFICES ASSUME NEW n \in Native \ loose', by[n] \in SvcLeaves PROVE FollowedAt(n)'
    BY <1>1 DEF Followed, FollowedAt
  <2>1. FollowedAt(n) /\ n \notin HitBy(t) /\ by[n].s \in Servers
    BY <1>1, LeafClasses DEF XInv, Followed
  <2>2. Cfg(n, by[n])' = Cfg(n, by[n])
    BY <1>1, <1>3, <2>1 DEF Cfg, New, HitBy
  <2> QED
    BY <1>1, <2>1, <2>2 DEF FollowedAt
<1>7. Untouched'
  <2> SUFFICES ASSUME NEW n \in Native \ loose', by[n] = Unset PROVE UntouchedAt(n)'
    BY <1>1 DEF Untouched, UntouchedAt
  <2>1. UntouchedAt(n)
    BY <1>1 DEF XInv, Untouched
  <2>2. Active("ocp")' => Active("ocp") /\ txn'["ocp"] = txn["ocp"]
    BY <1>3 DEF Active, Servers
  <2> QED
    BY <1>1, <2>1, <2>2 DEF UntouchedAt, New
<1> QED
  BY <1>4, <1>5, <1>6, <1>7 DEF XInv

\* A client of the native models writes.
LEMMA NativeEditStep ==
  ASSUME XInv, TypeInv', NEW n \in Native, NEW v, NativeEdit(n, v)
  PROVE  XInv'
<1>1. /\ gs' = [gs EXCEPT ![n] = v] /\ by' = [by EXCEPT ![n] = NativeClient] /\ loose' = loose \ {n}
      /\ UNCHANGED <<svc, env, otsi, txn>>
  BY DEF NativeEdit
<1>2. TypeInv /\ by'[n] \notin SvcLeaves /\ by'[n] # Unset
  BY <1>1, XlAssumption DEF XInv, TypeInv
<1>3. \A m \in Native \ {n} : by'[m] = by[m] /\ gs'[m] = gs[m]
  BY <1>1, <1>2 DEF TypeInv
<1>4. ConfigsOK'
  <2>1. \A r \in Servers : Active(r)' => Active(r) /\ txn'[r].q = txn[r].q
    BY <1>1 DEF Active
  <2> QED
    BY <1>1, <2>1, ConfigsKept DEF XInv
<1>5. TxnsOK'
  <2>1. ASSUME NEW r \in Servers PROVE TxnOK(r)'
    <3>1. \A m \in Native \ loose' : by'[m] \in LeavesOf(r) => m \notin loose /\ by'[m] = by[m] /\ gs'[m] = gs[m]
      BY <1>1, <1>2, <1>3, LeavesOfIs
    <3> QED
      BY <1>1, <1>2, <3>1, TxnKept DEF XInv, TxnsOK
  <2> QED
    BY <2>1 DEF TxnsOK
<1>6. Followed'
  <2> SUFFICES ASSUME NEW m \in Native \ loose' PROVE FollowedAt(m)'
    BY DEF Followed
  <2>1. CASE m = n
    BY <1>2, <2>1 DEF FollowedAt
  <2>2. CASE m # n
    BY <1>1, <1>2, <1>3, <2>2, FollowedKept DEF XInv, Followed
  <2> QED
    BY <2>1, <2>2
<1>7. Untouched'
  <2>1. \A m \in Native \ loose' : by'[m] = Unset => by[m] = Unset /\ m \notin loose
    BY <1>1, <1>2, <1>3
  <2> QED
    BY <1>1, <1>2, <2>1, UntouchedKept DEF XInv
<1> QED
  BY <1>4, <1>5, <1>6, <1>7 DEF XInv

\* A leaf resolves as before to every native leaf that is not lost sight of.
LEMMA EnvKeepsNodes ==
  ASSUME NEW e \in Envs, env \in Envs, EnvChange(e), NEW n \in Native \ loose', NEW lf \in SvcLeaves
  PROVE  /\ n \notin loose
         /\ \A c : Target(env, c, n, lf) => Target(e, c, n, lf)
         /\ (lf \in Ports /\ n[2] = "admin" /\ lf.o \notin Modules /\ n[1] \in PortNodesIn(e, lf))
              => n[1] \in PortNodesIn(env, lf)
<1>1. loose' = loose \cup {<<i, "admin">> : i \in UNION {{HostOf[c], env.conn[c], e.conn[c]} \cap Ifs :
                                                        c \in {d \in Clients : env.conn[d] # e.conn[d]}}}
                    \cup (IF env.pin # e.pin THEN HostIfs \X {"rate", "fec"} ELSE {})
  BY DEF EnvChange
<1>2. n \notin loose /\ n = <<n[1], n[2]>>
  <2>1. n = <<n[1], n[2]>>
    BY DEF Native
  <2> QED
    BY <1>1, <2>1
<1>3. ASSUME NEW c \in Clients, n[2] = "admin", n[1] \in {HostOf[c], env.conn[c], e.conn[c]}, n[1] # Unset
      PROVE  env.conn[c] = e.conn[c]
  <2>1. env.conn[c] \in Nets \cup {Unset} /\ e.conn[c] \in Nets \cup {Unset}
    BY XlAssumption
  <2>2. n[1] \in Ifs
    BY <1>3, <2>1 DEF Ifs
  <2> SUFFICES ASSUME env.conn[c] # e.conn[c] PROVE FALSE
    OBVIOUS
  <2>3. n[1] \in UNION {{HostOf[b], env.conn[b], e.conn[b]} \cap Ifs : b \in {d \in Clients : env.conn[d] # e.conn[d]}}
    BY <1>3, <2>2
  <2>4. <<n[1], "admin">> \in loose'
    BY <1>1, <2>3
  <2> QED
    BY <1>2, <1>3, <2>4
<1>4. ASSUME lf \in Ports, n[2] = "admin", n[1] # Unset PROVE n[1] \in PortNodesIn(env, lf) <=> n[1] \in PortNodesIn(e, lf)
  BY <1>3, <1>4, LeafClasses DEF PortNodesIn
<1>5. ASSUME n[2] \in {"rate", "fec"}, NEW c
      PROVE  HostIfIn(env, lf, c) = HostIfIn(e, lf, c) \/ n[1] \notin HostIfIn(env, lf, c)
  <2>1. CASE env.pin = e.pin
    BY <2>1 DEF HostIfIn
  <2>2. CASE env.pin # e.pin
    <3>1. n[1] \notin HostIfs
      BY <1>1, <1>2, <1>5, <2>2
    <3>2. HostIfIn(env, lf, c) \subseteq HostIfs
      BY DEF HostIfIn, HostIfs
    <3> QED
      BY <3>1, <3>2
  <2> QED
    BY <2>1, <2>2
<1>6. lf \in EthLeaves /\ n[2] \in DOMAIN Translate(lf, Unset) => n[2] \in {"rate", "fec"}
  BY TranslateLeaves
<1>7. lf \in Ports /\ n[2] \in DOMAIN Translate(lf, Unset) => n[2] = "admin"
  BY TranslateLeaves
<1>8. n[2] = "admin" => n[1] # Unset
  BY XlAssumption DEF Native
<1>9. ASSUME NEW c, Target(env, c, n, lf) PROVE Target(e, c, n, lf)
  BY <1>4, <1>5, <1>6, <1>7, <1>8, <1>9 DEF Target
<1> QED
  BY <1>2, <1>4, <1>8, <1>9

\* The surroundings change.
LEMMA EnvChangeStep ==
  ASSUME XInv, TypeInv', NEW e \in Envs, EnvChange(e)
  PROVE  XInv'
<1>1. env' = e /\ UNCHANGED <<svc, gs, otsi, txn, by>> /\ env \in Envs /\ TypeInv
  BY DEF EnvChange, XInv, TypeInv
<1>2. \A n \in Native \ loose' : n \notin loose
  BY <1>1, EnvKeepsNodes DEF EnvChange
<1>3. ConfigsOK'
  <2>1. \A r \in Servers : Active(r)' => Active(r) /\ txn'[r].q = txn[r].q
    BY <1>1 DEF Active
  <2> QED
    BY <1>1, <2>1, ConfigsKept DEF XInv
<1>4. TxnsOK'
  BY <1>1, <1>2, TxnKept DEF XInv, TxnsOK
<1>5. Followed'
  <2> SUFFICES ASSUME NEW n \in Native \ loose', by[n] \in SvcLeaves PROVE FollowedAt(n)'
    BY <1>1 DEF Followed, FollowedAt
  <2>1. FollowedAt(n)
    BY <1>2 DEF XInv, Followed
  <2>2. Cfg(n, by[n])' = Cfg(n, by[n])
    BY <1>1 DEF Cfg, New, HitBy
  <2>3. Target(e, Cfg(n, by[n]), n, by[n])
    BY <1>1, <2>1, EnvKeepsNodes DEF FollowedAt
  <2> QED
    BY <1>1, <2>1, <2>2, <2>3 DEF FollowedAt
<1>6. Untouched'
  <2> SUFFICES ASSUME NEW n \in Native \ loose', by[n] = Unset,
                      NEW lf \in Ports, lf.o \notin Modules, n[2] = "admin", n[1] \in PortNodesIn(e, lf)
               PROVE  /\ At(svc, lf) = Unset
                      /\ Active("ocp") => \/ At(New(txn["ocp"]), lf) = Unset
                                          \/ txn["ocp"].pc = "session" /\ n \in DOMAIN txn["ocp"].edits
    BY <1>1 DEF Untouched, UntouchedAt, Active, New
  <2>1. UntouchedAt(n)
    BY <1>2 DEF XInv, Untouched
  <2>2. n[1] \in PortNodesIn(env, lf)
    <3>1. lf \in SvcLeaves
      BY DEF SvcLeaves
    <3> QED
      BY <1>1, <3>1, EnvKeepsNodes
  <2> QED
    BY <2>1, <2>2 DEF UntouchedAt
<1> QED
  BY <1>3, <1>4, <1>5, <1>6 DEF XInv

\* The reconcile loop writes what the stored configuration asks for.
LEMMA ReconcileStep ==
  ASSUME XInv, TypeInv', Reconcile
  PROVE  XInv'
<1>1. /\ txn["oci"].pc # "session"
      /\ gs' = [n \in Native |-> IF n \in AdminLeaves THEN Enabled(At(svc, EnabledLeaf(n[1]))).admin ELSE gs[n]]
      /\ by' = [n \in Native |-> IF n \in AdminLeaves THEN EnabledLeaf(n[1]) ELSE by[n]]
      /\ loose' = (loose \ AdminLeaves)
                  \cup (IF txn["oci"].pc = "posted" THEN AdminLeaves \cap HitBy(txn["oci"]) ELSE {})
      /\ UNCHANGED <<svc, env, otsi, txn, count>> /\ TypeInv
  BY DEF Reconcile, Alone, Process, XInv
<1>2. \A n \in AdminLeaves : /\ n = <<n[1], "admin">> /\ n[2] = "admin" /\ At(svc, EnabledLeaf(n[1])) # Unset
                             /\ EnabledLeaf(n[1]) \in Interfaces /\ EnabledLeaf(n[1]).o = n[1]
                             /\ EnabledLeaf(n[1]).l = "enabled" /\ EnabledLeaf(n[1]).s = "oci"
                             /\ EnabledLeaf(n[1]) \in SvcLeaves
  <2> SUFFICES ASSUME NEW i \in Ifs, At(svc, EnabledLeaf(i)) # Unset
               PROVE  /\ EnabledLeaf(i) \in Interfaces /\ EnabledLeaf(i).o = i
                      /\ EnabledLeaf(i).l = "enabled" /\ EnabledLeaf(i).s = "oci"
                      /\ EnabledLeaf(i) \in SvcLeaves
    BY DEF AdminLeaves
  <2>1. EnabledLeaf(i) \in Interfaces
    BY DEF EnabledLeaf, Interfaces
  <2> QED
    BY <2>1 DEF EnabledLeaf, Leaf, SvcLeaves
<1>3. \A n \in Native : n \in AdminLeaves => by'[n] = EnabledLeaf(n[1])
  BY <1>1
<1>4. \A n \in Native \ loose' : n \notin AdminLeaves => n \notin loose /\ by'[n] = by[n] /\ gs'[n] = gs[n]
  BY <1>1
<1>5. ASSUME NEW lf, lf.l = "enabled" PROVE "admin" \in DOMAIN Translate(lf, Unset)
  <2>1. Translate(lf, Unset) = Enabled(Unset)
    BY <1>5, TranslateIs
  <2> QED
    BY <2>1 DEF Enabled
<1>6. ConfigsOK'
  <2>1. \A r \in Servers : Active(r)' => Active(r) /\ txn'[r].q = txn[r].q
    BY <1>1 DEF Active
  <2> QED
    BY <1>1, <2>1, ConfigsKept DEF XInv
<1>7. TxnsOK'
  <2> SUFFICES ASSUME NEW s \in Servers PROVE TxnOK(s)'
    BY DEF TxnsOK
  <2>1. ASSUME NEW n \in Native \ loose', by'[n] \in LeavesOf(s)
        PROVE  \/ n \notin loose /\ by'[n] = by[n] /\ gs'[n] = gs[n]
               \/ /\ txn[s].pc # "session" /\ by'[n] \in Interfaces
                  /\ n[2] \in DOMAIN Translate(by'[n], Unset) /\ n = <<by'[n].o, n[2]>>
    <3>1. CASE n \in AdminLeaves
      <4>1. by'[n] = EnabledLeaf(n[1])
        BY <1>3, <3>1
      <4>2. s = "oci"
        BY <1>2, <2>1, <3>1, <4>1, LeavesOfIs
      <4> QED
        BY <1>1, <1>2, <1>5, <3>1, <4>1, <4>2
    <3>2. CASE n \notin AdminLeaves
      BY <1>4, <3>2
    <3> QED
      BY <3>1, <3>2
  <2>2. TxnOK(s) /\ txn'[s] = txn[s] /\ svc'[s] = svc[s]
    BY <1>1 DEF XInv, TxnsOK
  <2> QED
    BY <1>1, <2>1, <2>2, TxnKept
<1>8. Followed'
  <2> SUFFICES ASSUME NEW n \in Native \ loose' PROVE FollowedAt(n)'
    BY DEF Followed
  <2>1. CASE n \in AdminLeaves
    <3> DEFINE lf == EnabledLeaf(n[1])
    <3>1. by'[n] = lf /\ gs'[n] = Enabled(At(svc, lf)).admin
      BY <1>1, <2>1
    <3>2. Cfg(n, lf)' = svc
      BY <1>1, <1>2, <2>1 DEF Cfg, HitBy
    <3>3. Target(env, svc, n, lf)
      BY <1>2, <1>5, <2>1, LeafClasses DEF Target
    <3>4. Says(svc, n, lf, gs'[n])
      BY <1>2, <2>1, <3>1, TranslateIs DEF Says
    <3> QED
      BY <1>1, <3>1, <3>2, <3>3, <3>4 DEF FollowedAt
  <2>2. CASE n \notin AdminLeaves
    BY <1>1, <1>4, <2>2, FollowedKept DEF XInv, Followed
  <2> QED
    BY <2>1, <2>2
<1>9. Untouched'
  <2>1. \A n \in Native \ loose' : by'[n] = Unset => by[n] = Unset /\ n \notin loose
    BY <1>2, <1>3, <1>4, XlAssumption
  <2> QED
    BY <1>1, <2>1, UntouchedKept DEF XInv
<1> QED
  BY <1>6, <1>7, <1>8, <1>9 DEF XInv

\* The operational data are asked for, or nothing happens.
LEMMA QuietStep ==
  ASSUME XInv, UNCHANGED <<svc, gs, env, txn, by, loose>>
  PROVE  XInv'
<1>1. TypeInv'
  BY DEF XInv, TypeInv, Shaped, Active
<1>2. TypeInv
  BY DEF XInv
<1>3. ConfigsOK'
  <2>1. \A r \in Servers : Active(r)' => Active(r) /\ txn'[r].q = txn[r].q
    BY DEF Active
  <2> QED
    BY <1>1, <1>2, <2>1, ConfigsKept DEF XInv
<1>4. TxnsOK'
  BY <1>1, <1>2, TxnKept DEF XInv, TxnsOK
<1>5. Followed'
  BY <1>1, <1>2, FollowedKept DEF XInv, Followed
<1>6. Untouched'
  BY <1>1, <1>2, UntouchedKept DEF XInv
<1> QED
  BY <1>1, <1>3, <1>4, <1>5, <1>6 DEF XInv

\* The edits of the session are applied.
LEMMA PostStep ==
  ASSUME XInv, TypeInv', NEW s \in Servers, Post(s)
  PROVE  XInv'
<1> DEFINE t == txn[s]
<1>1. /\ t.pc = "session" /\ UNCHANGED <<svc, env, otsi, count>> /\ txn' = [txn EXCEPT ![s].pc = "posted"]
      /\ gs' = [n \in Native |-> IF n \in DOMAIN t.edits THEN t.edits[n] ELSE gs[n]]
      /\ by' = [n \in Native |-> IF n \in DOMAIN t.edits \ Astray(t) THEN Writer(t, n) ELSE by[n]]
      /\ loose' = (loose \ DOMAIN t.edits) \cup Astray(t) \cup Overtaken(t) \cup (LeftBehind(t) \ HitBy(t))
  BY DEF Post
<1>2. /\ TypeInv /\ Active(s)
      /\ \A r \in Servers \ {s} : txn'[r] = txn[r]
      /\ txn'[s].pc = "posted" /\ txn'[s].q = t.q /\ txn'[s].edits = t.edits /\ txn'[s].env = t.env
      /\ txn'[s].hits = t.hits /\ txn'[s].wrote = t.wrote
  BY <1>1 DEF XInv, TypeInv, Active, Idle
<1>3. HitsOK(s) /\ EditsOK(s) /\ Covered(s) /\ Skipped(s)
  BY <1>2 DEF XInv, TxnsOK, TxnOK
<1>4. New(txn[s])' = New(t) /\ HitBy(txn[s])' = HitBy(t)
  BY <1>1, <1>2 DEF New, HitBy
<1>5. ASSUME NEW n \in DOMAIN t.edits
      PROVE  LET lf == Writer(t, n)
             IN /\ <<n, lf>> \in t.hits /\ n \in HitBy(t) /\ n \in Native /\ lf \in LeavesOf(s) /\ lf \in SvcLeaves /\ lf.s = s
                /\ Target(t.env, New(t), n, lf) /\ t.edits[n] = Translate(lf, At(New(t), lf))[n[2]]
  <2> DEFINE lf == Writer(t, n)
  <2>1. <<n, lf>> \in t.hits /\ t.edits[n] = Translate(lf, At(New(t), lf))[n[2]]
    BY <1>3, <1>5 DEF HitsOK, EditsOK
  <2>2. n \in Native /\ lf \in LeavesOf(s) /\ Target(t.env, New(t), n, lf)
    BY <1>3, <2>1 DEF HitsOK
  <2>3. n \in HitBy(t)
    BY <2>1 DEF HitBy
  <2> QED
    BY <2>1, <2>2, <2>3, LeavesOfIs
<1>6. ASSUME NEW n \in Native \ loose'
      PROVE  /\ n \notin Astray(t) /\ n \notin Overtaken(t) /\ (n \in LeftBehind(t) => n \in HitBy(t))
             /\ n \notin DOMAIN t.edits => n \notin loose /\ by'[n] = by[n] /\ gs'[n] = gs[n]
             /\ n \in DOMAIN t.edits => by'[n] = Writer(t, n) /\ gs'[n] = t.edits[n]
  BY <1>1
<1>7. ConfigsOK'
  <2>1. \A r \in Servers : Active(r)' => Active(r) /\ txn'[r].q = txn[r].q
    BY <1>2 DEF Active
  <2> QED
    BY <1>1, <1>2, <2>1, ConfigsKept DEF XInv
<1>8. TxnsOK'
  <2>1. ASSUME NEW r \in Servers \ {s} PROVE TxnOK(r)'
    <3>1. \A n \in Native \ loose' : by'[n] \in LeavesOf(r) => n \notin loose /\ by'[n] = by[n] /\ gs'[n] = gs[n]
      <4> SUFFICES ASSUME NEW n \in Native \ loose', by'[n] \in LeavesOf(r) PROVE n \notin DOMAIN t.edits
        BY <1>6
      <4>1. by'[n] \notin LeavesOf(s)
        BY DEF LeavesOf
      <4> QED
        BY <1>5, <1>6, <4>1
    <3> QED
      BY <1>1, <1>2, <3>1, TxnKept DEF XInv, TxnsOK
  <2>2. TxnOK(s)'
    <3>1. HitsOK(s)'
      BY <1>1, <1>2, <1>3, <1>4 DEF HitsOK
    <3>2. EditsOK(s)'
      <4>1. \A n : Writer(txn[s], n)' = Writer(t, n)
        BY <1>2 DEF Writer
      <4> QED
        BY <1>1, <1>2, <1>3, <1>4, <4>1 DEF EditsOK
    <3>3. Covered(s)'
      <4> SUFFICES ASSUME NEW n \in Native \ loose', by'[n] \in LeavesOf(s), n \notin HitBy(t)
                   PROVE  /\ by'[n] \in OrLeaves => Pack(svc, by'[n].o) = Pack(New(t), by'[n].o)
                          /\ At(New(t), by'[n]) = At(svc, by'[n])
        BY <1>1, <1>4 DEF Covered
      <4>1. n \notin DOMAIN t.edits
        BY <1>5
      <4>2. n \notin LeftBehind(t) /\ by'[n] = by[n] /\ n \notin loose
        BY <1>6, <4>1
      <4>3. by[n] \in OrLeaves => Pack(svc, by[n].o) = Pack(New(t), by[n].o)
        BY <4>2 DEF LeftBehind, OrLeaves
      <4> QED
        BY <1>3, <4>2, <4>3 DEF Covered
    <3>4. Skipped(s)'
      BY <1>2 DEF Skipped
    <3> QED
      BY <3>1, <3>2, <3>3, <3>4 DEF TxnOK
  <2> QED
    BY <2>1, <2>2 DEF TxnsOK
<1>9. Followed'
  <2> SUFFICES ASSUME NEW n \in Native \ loose', by'[n] \in SvcLeaves PROVE FollowedAt(n)'
    BY DEF Followed, FollowedAt
  <2>1. CASE n \in DOMAIN t.edits
    <3> PICK lf : lf = Writer(t, n)
      OBVIOUS
    <3>1. by'[n] = lf /\ gs'[n] = t.edits[n]
      BY <1>6, <2>1
    <3>0. /\ <<n, lf>> \in t.hits /\ n \in HitBy(t) /\ lf \in LeavesOf(s) /\ lf \in SvcLeaves /\ lf.s = s
          /\ Target(t.env, New(t), n, lf) /\ t.edits[n] = Translate(lf, At(New(t), lf))[n[2]]
      BY <1>5, <2>1
    <3>2. Cfg(n, lf)' = New(t)
      BY <1>2, <1>4, <3>0 DEF Cfg
    <3>3. lf \in Ports \cup EthLeaves => t.env = env
      BY <1>6, <3>0 DEF Overtaken
    <3>4. Target(env, New(t), n, lf)
      BY <3>0, <3>3 DEF Target, PortNodesIn, HostIfIn
    <3>5. Says(New(t), n, lf, t.edits[n])
      BY <3>0, TranslateShape DEF Says, Target
    <3> QED
      BY <1>1, <3>1, <3>2, <3>4, <3>5 DEF FollowedAt
  <2>2. CASE n \notin DOMAIN t.edits
    <3> PICK lf : lf = by[n]
      OBVIOUS
    <3>1. lf \in SvcLeaves /\ by'[n] = lf /\ gs'[n] = gs[n] /\ n \notin loose /\ FollowedAt(n) /\ lf.s \in Servers
      <4>1. by'[n] = lf /\ gs'[n] = gs[n] /\ n \notin loose
        BY <1>6, <2>2
      <4> QED
        BY <4>1, LeafClasses DEF XInv, Followed
    <3>2. CASE lf.s # s
      BY <1>1, <1>2, <3>1, <3>2, FollowedKept
    <3>3. CASE lf.s = s
      <4>0. lf \in LeavesOf(s)
        BY <3>1, <3>3 DEF LeavesOf
      <4>1. Target(env, svc, n, lf) /\ Says(svc, n, lf, gs[n])
        BY <1>1, <3>1, <3>3 DEF FollowedAt, Cfg
      <4>2. CASE n \notin HitBy(t)
        <5>1. Cfg(n, lf)' = svc
          BY <1>1, <1>4, <3>3, <4>2 DEF Cfg
        <5> QED
          BY <1>1, <3>1, <4>1, <5>1 DEF FollowedAt
      <4>3. CASE n \in HitBy(t)
        <5>1. ~ Truthy(n) /\ At(New(t), lf) = Unset
          BY <1>1, <1>3, <2>2, <3>1, <4>0, <4>3 DEF Skipped
        <5>2. s # "or"
          BY <1>3, <2>2, <4>3 DEF HitsOK, HitBy
        <5>3. lf \notin OrLeaves
          BY <3>1, <3>3, <5>2, LeafClasses DEF OrLeaves
        <5>4. Target(env, New(t), n, lf)
          BY <4>1, <5>3 DEF Target, OrLeaves
        <5>5. Says(New(t), n, lf, gs[n])
          BY <5>1 DEF Says, Nothing, Truthy
        <5>6. Cfg(n, lf)' = New(t)
          BY <1>2, <1>4, <3>3, <4>3 DEF Cfg
        <5> QED
          BY <1>1, <3>1, <5>4, <5>5, <5>6 DEF FollowedAt
      <4> QED
        BY <4>2, <4>3
    <3> QED
      BY <3>2, <3>3
  <2> QED
    BY <2>1, <2>2
<1>10. Untouched'
  <2>1. \A n \in Native \ loose' : by'[n] = Unset => by[n] = Unset /\ n \notin loose /\ n \notin DOMAIN t.edits
    <3> SUFFICES ASSUME NEW n \in Native \ loose', by'[n] = Unset PROVE n \notin DOMAIN t.edits
      BY <1>6
    <3>1. Unset \notin SvcLeaves
      BY XlAssumption
    <3> QED
      BY <1>5, <1>6, <3>1
  <2>2. CASE s # "ocp"
    <3>1. txn'["ocp"] = txn["ocp"]
      BY <1>2, <2>2 DEF Servers
    <3> QED
      BY <1>1, <1>2, <2>1, <3>1, UntouchedKept DEF XInv
  <2>3. CASE s = "ocp"
    <3> SUFFICES ASSUME NEW n \in Native \ loose', by'[n] = Unset PROVE UntouchedAt(n)'
      BY DEF Untouched, UntouchedAt
    <3>1. UntouchedAt(n) /\ by[n] = Unset /\ n \notin DOMAIN t.edits
      BY <2>1 DEF XInv, Untouched
    <3> QED
      BY <1>1, <1>2, <1>4, <2>3, <3>1 DEF UntouchedAt
  <2> QED
    BY <2>2, <2>3
<1> QED
  BY <1>7, <1>8, <1>9, <1>10 DEF XInv

-----------------------------------------------------------------------------
(* A transaction begins.                                                   *)

\* The nodes a handler resolves to, by the kind of its leaf.
LEMMA NodesBy ==
  ASSUME NEW lf \in SvcLeaves, NEW v, NEW new
  PROVE  /\ lf \in Ports => Nodes(lf, v, new) = PortNodesIn(env, lf)
         /\ lf \in OtsiLeaves => Nodes(lf, v, new) = PackNodes(lf, v, new)
         /\ lf \in EthLeaves => Nodes(lf, v, new) = HostIfIn(env, lf, new)
         /\ lf \in Channels \cup Interfaces => Nodes(lf, v, new) = {lf.o}
BY LeafClasses DEF Nodes, PortNodes, PortNodesIn, HostIfNow, HostIfIn

\* What a handler reaches is a native leaf that its service leaf is about.
LEMMA ReachedIsTarget ==
  ASSUME env \in Envs, NEW lf \in SvcLeaves, NEW v, NEW new, v = At(new, lf),
         NEW n \in Nodes(lf, v, new) \X DOMAIN Translate(lf, Unset)
  PROVE  n \in Native /\ Target(env, new, n, lf)
<1>1. n = <<n[1], n[2]>> /\ n[1] \in Nodes(lf, v, new) /\ n[2] \in DOMAIN Translate(lf, Unset)
  OBVIOUS
<1>2. env.conn \in [Clients -> Nets \cup {Unset}] /\ env.mods \subseteq Modules
  BY XlAssumption
<1>3. CASE lf \in Ports
  <2>1. n[1] \in PortNodesIn(env, lf) /\ n[2] = "admin"
    BY <1>1, <1>3, NodesBy, TranslateLeaves
  <2>2. n[1] \in Modules \cup Ifs
    BY <1>2, <1>3, <2>1, LeafClasses DEF PortNodesIn, Ifs
  <2>3. n \in Native
    BY <1>1, <2>1, <2>2 DEF Native
  <2>4. lf \notin Channels \cup Interfaces \cup OtsiLeaves \cup EthLeaves
    BY <1>3, LeafClasses
  <2> QED
    BY <1>1, <2>1, <2>3, <2>4 DEF Target
<1>4. CASE lf \in Channels
  <2>1. n[1] = lf.o /\ n[2] \in {"freq", "power"} \cup ModeLeaves
    BY <1>1, <1>4, NodesBy, TranslateLeaves
  <2>2. lf.o \in Modules
    BY <1>4 DEF Channels, Leaf
  <2>3. n \in Native
    BY <1>1, <2>1, <2>2 DEF Native, ModeLeaves
  <2>4. lf \notin Ports \cup OtsiLeaves \cup EthLeaves
    BY <1>4, LeafClasses
  <2> QED
    BY <1>1, <2>1, <2>3, <2>4 DEF Target
<1>5. CASE lf \in Interfaces
  <2>1. n[1] = lf.o /\ n[2] \in {"admin", "fec"}
    BY <1>1, <1>5, NodesBy, TranslateLeaves
  <2>2. lf.o \in Ifs
    BY <1>5 DEF Interfaces, Leaf
  <2>3. n \in Native
    BY <1>1, <2>1, <2>2 DEF Native
  <2>4. lf \notin Ports \cup OtsiLeaves \cup EthLeaves
    BY <1>5, LeafClasses
  <2> QED
    BY <1>1, <2>1, <2>3, <2>4 DEF Target
<1>6. CASE lf \in OtsiLeaves
  <2>1. n[1] \in Modules /\ n[1] = PackOf(lf.o, v, new)
    BY <1>1, <1>2, <1>6, NodesBy DEF PackNodes
  <2>2. n \in Native
    BY <1>1, <1>6, <2>1, TranslateLeaves DEF Native
  <2>3. Pack(new, lf.o) # Unset => n[1] = Pack(new, lf.o)
    BY <2>1 DEF PackOf
  <2>4. lf \notin Ports \cup Channels \cup Interfaces \cup EthLeaves
    BY <1>6, LeafClasses
  <2> QED
    BY <1>1, <2>2, <2>3, <2>4 DEF Target
<1>7. CASE lf \in EthLeaves
  <2>1. n[1] \in HostIfIn(env, lf, new)
    BY <1>1, <1>7, NodesBy
  <2>2. n[1] \in HostIfs
    BY <2>1 DEF HostIfIn, HostIfs
  <2>3. n \in Native
    BY <1>1, <1>7, <2>2, TranslateLeaves DEF Native
  <2>4. lf \notin Ports \cup Channels \cup Interfaces \cup OtsiLeaves
    BY <1>7, LeafClasses
  <2> QED
    BY <1>1, <2>1, <2>3, <2>4 DEF Target
<1>8. CASE lf \in Pointers
  BY <1>1, <1>8, TranslateLeaves
<1> QED
  BY <1>3, <1>4, <1>5, <1>6, <1>7, <1>8 DEF SvcLeaves

\* A leaf that changes is written where it was written before, unless its interface moves.
LEMMA TargetIsReached ==
  ASSUME NEW lf \in SvcLeaves, NEW v, NEW new, v = At(new, lf), v # At(svc, lf),
         PacksNamed(svc), lf \in OrLeaves => PacksNamed(new) /\ Pack(svc, lf.o) = Pack(new, lf.o),
         Nodes(lf, v, new) # {}, NEW n \in Native, Target(env, svc, n, lf)
  PROVE  n \in Nodes(lf, v, new) \X DOMAIN Translate(lf, Unset)
<1>1. n = <<n[1], n[2]>> /\ n[2] \in DOMAIN Translate(lf, Unset)
  BY DEF Native, Target
<1>2. CASE lf \in Ports \cup Channels \cup Interfaces
  BY <1>1, <1>2, NodesBy DEF Target
<1>3. CASE lf \in OrLeaves
  <2>1. Pack(new, lf.o) # Unset
    BY <1>3 DEF PacksNamed
  <2>2. CASE lf \in OtsiLeaves
    <3>1. Nodes(lf, v, new) = {Pack(new, lf.o)}
      BY <2>1, <2>2, NodesBy DEF PackNodes, PackOf
    <3> QED
      BY <1>1, <1>3, <2>1, <2>2, <3>1 DEF Target
  <2>3. CASE lf \in EthLeaves
    BY <1>1, <1>3, <2>1, <2>3, NodesBy DEF Target, HostIfIn
  <2> QED
    BY <1>3, <2>2, <2>3 DEF OrLeaves
<1>4. CASE lf \in Pointers
  BY <1>1, <1>4, TranslateLeaves
<1> QED
  BY <1>2, <1>3, <1>4 DEF SvcLeaves, OrLeaves

\* Of the leaves of an OpenConfig model only the states of ports share a native leaf.
LEMMA OnlyPortsShare ==
  ASSUME NEW s \in {"ocp", "oci"}, NEW lf \in LeavesOf(s), NEW kf \in LeavesOf(s), lf # kf,
         NEW e, NEW c, NEW d, NEW n, Target(e, c, n, lf), Target(e, d, n, kf)
  PROVE  lf \in Ports
<1>1. lf \in SvcLeaves /\ kf \in SvcLeaves /\ lf.s = s /\ kf.s = s
  BY LeavesOfIs
<1>2. lf \in Ports \cup Channels \cup Interfaces /\ kf \in Ports \cup Channels \cup Interfaces
  BY <1>1, LeafClasses DEF SvcLeaves
<1>3. n[2] \in DOMAIN Translate(lf, Unset) /\ n[2] \in DOMAIN Translate(kf, Unset)
  BY DEF Target
<1>4. ASSUME lf \in Channels, kf \in Channels PROVE FALSE
  <2>1. lf.o = kf.o
    BY <1>4 DEF Target
  <2>2. lf.l = kf.l
    BY <1>1, <1>3, <1>4, TranslateLeaves, LeafClasses DEF ModeLeaves
  <2> QED
    BY <1>4, <2>1, <2>2 DEF Channels, Leaf
<1>5. ASSUME lf \in Interfaces, kf \in Interfaces PROVE FALSE
  <2>1. lf.o = kf.o
    BY <1>5 DEF Target
  <2>2. lf.l = kf.l
    BY <1>1, <1>3, <1>5, TranslateLeaves, LeafClasses
  <2> QED
    BY <1>5, <2>1, <2>2 DEF Interfaces, Leaf
<1>6. ASSUME lf \in Channels, kf \in Ports PROVE FALSE
  BY <1>1, <1>3, <1>6, TranslateLeaves DEF ModeLeaves
<1>7. lf \in Channels => kf \notin Interfaces
  BY <1>1, LeafClasses
<1>8. lf \in Interfaces => kf \notin Ports \cup Channels
  BY <1>1, LeafClasses
<1> QED
  BY <1>2, <1>4, <1>5, <1>6, <1>7, <1>8

\* A set of positions in a sequence that is not empty has a last one.
LEMMA LastIs ==
  ASSUME NEW m \in Nat, NEW S, S \subseteq 1..m, S # {}
  PROVE  Last(S) \in S
<1> DEFINE T == {m - k : k \in S}
<1>1. \A k \in S : k \in Int /\ m - k \in Nat
  OBVIOUS
<1>2. T \subseteq Nat /\ T # {}
  BY <1>1
<1>3. PICK x \in T : \A y \in T : ~ (<<y, x>> \in OpToRel(<, Nat))
  BY <1>2, WFMin, NatLessThanWellFounded
<1>4. \A y \in T : ~ (y < x)
  BY <1>2, <1>3 DEF OpToRel
<1>5. PICK k \in S : x = m - k
  OBVIOUS
<1>6. ASSUME NEW j \in S PROVE j <= k
  <2>1. m - j \in T
    OBVIOUS
  <2>2. ~ (m - j < m - k)
    BY <1>4, <1>5, <2>1
  <2> HIDE DEF T
  <2> QED
    BY <1>1, <2>2
<1> QED
  BY <1>6 DEF Last

\* A session and what is recorded with it, for the effects and the edits of the handlers.
SessionRecords(chg, effects, edits, e, hits, wrote) ==
  /\ \A h \in hits : \E k \in DOMAIN chg : h = <<h[1], chg[k].lf>> /\ h[1] \in DOMAIN effects[k]
  /\ \A k \in DOMAIN chg : \A n \in DOMAIN effects[k] : <<n, chg[k].lf>> \in hits
  /\ DOMAIN e = {h[1] : h \in wrote} /\ wrote \subseteq hits
  /\ \A k \in DOMAIN chg : DOMAIN edits[k] \subseteq DOMAIN e
  /\ \A n \in DOMAIN e :
       LET m == Last({k \in DOMAIN chg : <<n, chg[k].lf>> \in wrote})
       IN m \in DOMAIN chg /\ n \in DOMAIN edits[m] /\ <<n, chg[m].lf>> \in wrote /\ e[n] = edits[m][n]

\* What post() is to apply agrees with what is recorded.
LEMMA SessionIs ==
  ASSUME NEW q \in DOMAIN Requests, NEW effects, NEW edits,
         DOMAIN effects = DOMAIN Requests[q].chg, DOMAIN edits = DOMAIN Requests[q].chg,
         \A k \in DOMAIN edits : edits[k] \in {<<>>, effects[k]}
  PROVE  SessionRecords(Requests[q].chg, effects, edits, Session(edits),
                        Reached(effects, Requests[q].chg), Reached(edits, Requests[q].chg))
<1> DEFINE chg == Requests[q].chg
           t == Session(edits)
           hits == Reached(effects, chg)
           wrote == Reached(edits, chg)
<1>1. /\ Len(chg) \in Nat /\ DOMAIN chg = 1..Len(chg)
      /\ \A k \in DOMAIN chg : \A j \in DOMAIN chg : chg[j].lf = chg[k].lf => j = k
  BY RequestShape
<1>2. \A k \in DOMAIN chg : \A n : n \in DOMAIN edits[k] => n \in DOMAIN effects[k] /\ edits[k] = effects[k]
  <2>1. DOMAIN <<>> = {}
    OBVIOUS
  <2> QED
    BY <2>1
<1>3. \A h : h \in hits <=> \E k \in DOMAIN chg : \E n \in DOMAIN effects[k] : h = <<n, chg[k].lf>>
  BY DEF Reached
<1>4. \A h : h \in wrote <=> \E k \in DOMAIN chg : \E n \in DOMAIN edits[k] : h = <<n, chg[k].lf>>
  BY DEF Reached
<1>5. \A n : n \in DOMAIN t <=> \E k \in DOMAIN chg : n \in DOMAIN edits[k]
  BY DEF Session
<1>6. DOMAIN t = {h[1] : h \in wrote}
  <2>1. ASSUME NEW n \in DOMAIN t PROVE n \in {h[1] : h \in wrote}
    <3>1. PICK k \in DOMAIN chg : n \in DOMAIN edits[k]
      BY <1>5
    <3>2. <<n, chg[k].lf>> \in wrote
      BY <1>4, <3>1
    <3> HIDE DEF wrote
    <3> QED
      BY <3>2
  <2>2. ASSUME NEW h \in wrote PROVE h[1] \in DOMAIN t
    <3>1. PICK k \in DOMAIN chg : \E n \in DOMAIN edits[k] : h = <<n, chg[k].lf>>
      BY <1>4
    <3> QED
      BY <1>5, <3>1
  <2> HIDE DEF t, wrote
  <2> QED
    BY <2>1, <2>2
<1>7. wrote \subseteq hits
  BY <1>2, <1>3, <1>4
<1>8. ASSUME NEW n \in DOMAIN t
      PROVE  LET m == Last({k \in DOMAIN chg : <<n, chg[k].lf>> \in wrote})
             IN m \in DOMAIN chg /\ n \in DOMAIN edits[m] /\ <<n, chg[m].lf>> \in wrote /\ t[n] = edits[m][n]
  <2>1. {k \in DOMAIN chg : <<n, chg[k].lf>> \in wrote} = EditedBy(edits, n)
    BY <1>1, <1>4 DEF EditedBy
  <2>2. EditedBy(edits, n) # {} /\ EditedBy(edits, n) \subseteq 1..Len(chg)
    BY <1>1, <1>5 DEF EditedBy
  <2>3. Last(EditedBy(edits, n)) \in EditedBy(edits, n)
    BY <1>1, <2>2, LastIs
  <2>4. t[n] = edits[Last(EditedBy(edits, n))][n]
    BY DEF Session
  <2> QED
    BY <1>4, <2>1, <2>3, <2>4 DEF EditedBy
<1>9. \A h \in hits : \E k \in DOMAIN chg : h = <<h[1], chg[k].lf>> /\ h[1] \in DOMAIN effects[k]
  <2> SUFFICES ASSUME NEW h \in hits PROVE \E k \in DOMAIN chg : h = <<h[1], chg[k].lf>> /\ h[1] \in DOMAIN effects[k]
    OBVIOUS
  <2>1. PICK k \in DOMAIN chg : \E n \in DOMAIN effects[k] : h = <<n, chg[k].lf>>
    BY <1>3
  <2>2. PICK n \in DOMAIN effects[k] : h = <<n, chg[k].lf>>
    BY <2>1
  <2> QED
    BY <2>2
<1>10. \A k \in DOMAIN chg : \A n \in DOMAIN effects[k] : <<n, chg[k].lf>> \in hits
  BY <1>3
<1>11. \A k \in DOMAIN chg : DOMAIN edits[k] \subseteq DOMAIN t
  BY <1>5
<1> HIDE DEF chg, t, hits, wrote
<1> QED
  BY <1>6, <1>7, <1>8, <1>9, <1>10, <1>11 DEF SessionRecords, chg, t, hits, wrote

\* validate() and apply() of every handler of a transaction.
LEMMA ChangeStep ==
  ASSUME XInv, TypeInv', NEW q \in DOMAIN Requests, Change(q)
  PROVE  XInv'
<1> DEFINE r == Requests[q]
           s == r.s
           chg == r.chg
<1> PICK new : new = Update(svc, r)
  OBVIOUS
<1> PICK effects : effects = [k \in DOMAIN chg |-> Effect(chg[k].lf, chg[k].v, new)]
  OBVIOUS
<1> PICK edits : edits = [k \in DOMAIN chg |-> Edits(chg[k].lf, chg[k].v, effects[k])]
  OBVIOUS
<1>1. /\ txn[s].pc = "idle" /\ \A k \in DOMAIN chg : At(svc, chg[k].lf) # chg[k].v
      /\ s = "or" => PacksNamed(new)
      /\ \A k \in DOMAIN chg : Supported(chg[k].lf, chg[k].v, new)
      /\ txn' = [txn EXCEPT ![s] =
           [pc |-> "session", q |-> q, edits |-> Session(edits), env |-> env,
            hits |-> Reached(effects, chg), wrote |-> Reached(edits, chg)]]
      /\ UNCHANGED <<svc, gs, env, otsi, by, loose>>
  BY DEF Change, Allowed, PacksNamed, OrLeaves
<1>2. TypeInv /\ DOMAIN txn = Servers /\ s \in Servers /\ Shaped(svc) /\ env \in Envs
  BY RequestShape DEF XInv, TypeInv
<1> DEFINE t == txn'[s]
<1>3. /\ t.pc = "session" /\ t.q = q /\ t.edits = Session(edits) /\ t.env = env
      /\ t.hits = Reached(effects, chg) /\ t.wrote = Reached(edits, chg)
      /\ \A p \in Servers \ {s} : txn'[p] = txn[p]
  BY <1>1, <1>2
<1>4. New(txn[s])' = new
  BY <1>1, <1>3 DEF New
<1>5. /\ Shaped(new) /\ \A p \in Servers \ {s} : new[p] = svc[p]
      /\ \A k \in DOMAIN chg : At(new, chg[k].lf) = chg[k].v
      /\ \A lf \in LeavesOf(s) : (\A k \in DOMAIN chg : chg[k].lf # lf) => At(new, lf) = At(svc, lf)
  BY <1>2, UpdateAt
<1>6. \A k \in DOMAIN chg : chg[k].lf \in LeavesOf(s) /\ chg[k].lf \in SvcLeaves /\ chg[k].lf.s = s
  BY RequestShape, LeavesOfIs
<1>7. ASSUME NEW k \in DOMAIN chg
      PROVE  /\ DOMAIN effects[k] = Nodes(chg[k].lf, chg[k].v, new) \X DOMAIN Translate(chg[k].lf, Unset)
             /\ Nodes(chg[k].lf, chg[k].v, new) # {}
             /\ \A n \in DOMAIN effects[k] : /\ effects[k][n] = Translate(chg[k].lf, chg[k].v)[n[2]]
                                             /\ n \in Native /\ Target(env, new, n, chg[k].lf)
  <2>1. DOMAIN Translate(chg[k].lf, chg[k].v) = DOMAIN Translate(chg[k].lf, Unset)
    BY <1>6, TranslateShape
  <2>2. /\ DOMAIN effects[k] = Nodes(chg[k].lf, chg[k].v, new) \X DOMAIN Translate(chg[k].lf, Unset)
        /\ \A n \in DOMAIN effects[k] : effects[k][n] = Translate(chg[k].lf, chg[k].v)[n[2]]
    BY <2>1 DEF Effect
  <2>3. \A n \in DOMAIN effects[k] : n \in Native /\ Target(env, new, n, chg[k].lf)
    BY <1>2, <1>5, <1>6, <2>2, ReachedIsTarget
  <2> QED
    BY <1>1, <2>2, <2>3 DEF Supported
<1>8. \A k \in DOMAIN chg : edits[k] = IF Skips(chg[k].lf, chg[k].v, effects[k]) THEN <<>> ELSE effects[k]
  BY DEF Edits
<1>9. /\ \A h \in t.hits : \E k \in DOMAIN chg : h = <<h[1], chg[k].lf>> /\ h[1] \in DOMAIN effects[k]
      /\ \A k \in DOMAIN chg : \A n \in DOMAIN effects[k] : <<n, chg[k].lf>> \in t.hits
      /\ DOMAIN t.edits = {h[1] : h \in t.wrote} /\ t.wrote \subseteq t.hits
      /\ \A k \in DOMAIN chg : DOMAIN edits[k] \subseteq DOMAIN t.edits
      /\ \A n \in DOMAIN t.edits :
           LET m == Last({k \in DOMAIN chg : <<n, chg[k].lf>> \in t.wrote})
           IN m \in DOMAIN chg /\ n \in DOMAIN edits[m] /\ <<n, chg[m].lf>> \in t.wrote /\ t.edits[n] = edits[m][n]
  <2>1. DOMAIN effects = DOMAIN chg /\ DOMAIN edits = DOMAIN chg
    OBVIOUS
  <2>2. \A k \in DOMAIN edits : edits[k] \in {<<>>, effects[k]}
    BY <1>8, <2>1
  <2>3. SessionRecords(chg, effects, edits, t.edits, t.hits, t.wrote)
    <3>1. SessionRecords(chg, effects, edits, Session(edits), Reached(effects, chg), Reached(edits, chg))
      BY <2>1, <2>2, SessionIs, Zenon
    <3>2. t.edits = Session(edits) /\ t.hits = Reached(effects, chg) /\ t.wrote = Reached(edits, chg)
      BY <1>3
    <3> QED
      BY <3>1, <3>2
  <2> HIDE DEF t
  <2> QED
    BY <2>3 DEF SessionRecords
\* a leaf that changes was written where it is written now
<1>10. ASSUME NEW n \in Native \ loose, by[n] \in LeavesOf(s), At(new, by[n]) # At(svc, by[n]),
              by[n] \in OrLeaves => Pack(svc, by[n].o) = Pack(new, by[n].o)
       PROVE  \E k \in DOMAIN chg : chg[k].lf = by[n] /\ n \in DOMAIN effects[k]
  <2>1. PICK k \in DOMAIN chg : chg[k].lf = by[n]
    BY <1>5, <1>10
  <2>2. by[n] \in SvcLeaves /\ by[n].s = s
    BY <1>10, LeavesOfIs
  <2>3. Target(env, svc, n, by[n])
    BY <1>1, <2>2 DEF XInv, Followed, FollowedAt, Cfg
  <2>4. by[n] \in OrLeaves => PacksNamed(new)
    BY <1>1, <2>2, LeafClasses DEF OrLeaves
  <2>5. n \in Nodes(by[n], chg[k].v, new) \X DOMAIN Translate(by[n], Unset)
    BY <1>5, <1>7, <1>10, <2>1, <2>2, <2>3, <2>4, TargetIsReached DEF XInv, ConfigsOK
  <2> QED
    BY <1>7, <2>1, <2>5
<1>11. HitsOK(s)'
  <2>1. s = "or" => t.wrote = t.hits
    <3> SUFFICES ASSUME s = "or" PROVE t.wrote = t.hits
      OBVIOUS
    <3>1. edits = effects
      BY <1>6, <1>8 DEF Skips
    <3> QED
      BY <1>3, <3>1
  <2>2. ASSUME NEW h \in t.hits
        PROVE  h = <<h[1], h[2]>> /\ h[1] \in Native /\ h[2] \in LeavesOf(s) /\ Target(t.env, new, h[1], h[2])
    <3>1. PICK k \in DOMAIN chg : h = <<h[1], chg[k].lf>> /\ h[1] \in DOMAIN effects[k]
      BY <1>9
    <3>2. h[2] = chg[k].lf
      BY <3>1
    <3>3. h[1] \in Native /\ Target(env, new, h[1], chg[k].lf)
      BY <1>7, <3>1
    <3> QED
      BY <1>3, <1>6, <3>1, <3>2, <3>3
  <2>3. ASSUME NEW lf \in LeavesOf(s), lf \in Interfaces, At(new, lf) # At(svc, lf),
               NEW l \in DOMAIN Translate(lf, Unset)
        PROVE  <<lf.o, l>> \in HitBy(t)
    <3>1. PICK k \in DOMAIN chg : chg[k].lf = lf
      BY <1>5, <2>3
    <3>2. Nodes(lf, chg[k].v, new) = {lf.o}
      BY <2>3, NodesBy, LeavesOfIs
    <3>3. <<lf.o, l>> \in DOMAIN effects[k]
      BY <1>7, <3>1, <3>2
    <3>4. <<<<lf.o, l>>, lf>> \in t.hits
      BY <1>9, <3>1, <3>3
    <3> QED
      BY <3>4 DEF HitBy
  <2> QED
    <3>1. New(txn[s])' = new /\ t.env \in Envs /\ svc' = svc
      BY <1>1, <1>2, <1>3, <1>4
    <3>2. HitBy(txn[s])' = HitBy(t)
      BY DEF HitBy
    <3>3. DOMAIN t.edits = {h[1] : h \in t.wrote} /\ t.wrote \subseteq t.hits
      BY <1>9
    <3> QED
      BY <2>1, <2>2, <2>3, <3>1, <3>2, <3>3 DEF HitsOK
<1>12. EditsOK(s)'
  <2> SUFFICES ASSUME NEW n \in DOMAIN t.edits
               PROVE  LET lf == Writer(t, n) IN <<n, lf>> \in t.wrote /\ t.edits[n] = Translate(lf, At(new, lf))[n[2]]
    BY <1>4 DEF EditsOK, Writer
  <2> DEFINE m == Last({k \in DOMAIN chg : <<n, chg[k].lf>> \in t.wrote})
  <2>1. m \in DOMAIN chg /\ n \in DOMAIN edits[m] /\ <<n, chg[m].lf>> \in t.wrote /\ t.edits[n] = edits[m][n]
    BY <1>9
  <2>2. Writer(t, n) = chg[m].lf
    BY <1>3 DEF Writer
  <2> HIDE DEF m
  <2>3. edits[m] = effects[m]
    <3>1. DOMAIN <<>> = {}
      OBVIOUS
    <3> QED
      BY <1>8, <2>1, <3>1
  <2>4. t.edits[n] = Translate(chg[m].lf, chg[m].v)[n[2]]
    <3>1. n \in DOMAIN effects[m]
      BY <2>1, <2>3
    <3>2. effects[m][n] = Translate(chg[m].lf, chg[m].v)[n[2]]
      BY <1>7, <2>1, <3>1
    <3> QED
      BY <2>1, <2>3, <3>2
  <2> QED
    BY <1>5, <2>1, <2>2, <2>4
<1>13. Covered(s)'
  <2> SUFFICES ASSUME NEW n \in Native \ loose, by[n] \in LeavesOf(s), n \notin HitBy(t),
                      ~ (by[n] \in OrLeaves /\ Pack(svc, by[n].o) # Pack(new, by[n].o))
               PROVE  At(new, by[n]) = At(svc, by[n])
    BY <1>1, <1>3, <1>4 DEF Covered, HitBy
  <2> SUFFICES ASSUME At(new, by[n]) # At(svc, by[n]) PROVE FALSE
    OBVIOUS
  <2>1. PICK k \in DOMAIN chg : chg[k].lf = by[n] /\ n \in DOMAIN effects[k]
    BY <1>10
  <2>2. <<n, chg[k].lf>> \in t.hits
    BY <1>9, <2>1
  <2> QED
    BY <2>2 DEF HitBy
<1>14. Skipped(s)'
  <2> SUFFICES ASSUME NEW n \in Native \ loose, n \in HitBy(t) \ DOMAIN t.edits, by[n] \in LeavesOf(s)
               PROVE  ~ Truthy(n) /\ At(new, by[n]) = Unset
    BY <1>1, <1>4 DEF Skipped, HitBy, Truthy
  <2>1. PICK k \in DOMAIN chg : n \in DOMAIN effects[k]
    <3>1. PICK h \in t.hits : n = h[1]
      BY DEF HitBy
    <3> QED
      BY <1>9, <3>1
  <2>2. Skips(chg[k].lf, chg[k].v, effects[k])
    BY <1>8, <1>9, <2>1
  <2>3. s # "or" /\ chg[k].v = Unset /\ ~ Truthy(n)
    BY <1>6, <2>1, <2>2 DEF Skips
  <2>4. by[n] \in SvcLeaves /\ by[n].s = s
    BY LeavesOfIs
  <2>5. Target(env, svc, n, by[n]) /\ Says(svc, n, by[n], gs[n])
    BY <1>1, <2>4 DEF XInv, Followed, FollowedAt, Cfg
  <2>6. CASE by[n] = chg[k].lf
    BY <1>5, <2>3, <2>6
  <2>7. CASE by[n] # chg[k].lf
    <3>1. by[n] \in Ports
      BY <1>2, <1>6, <1>7, <2>1, <2>3, <2>5, <2>7, OnlyPortsShare DEF Servers
    <3>2. n[2] = "admin"
      BY <2>4, <2>5, <3>1, TranslateLeaves DEF Target
    <3>3. At(svc, by[n]) = Unset
      <4> SUFFICES ASSUME At(svc, by[n]) # Unset PROVE FALSE
        OBVIOUS
      <4>1. gs[n] = PortAdminState(by[n], At(svc, by[n])).admin
        BY <2>4, <2>5, <3>1, <3>2, LeafClasses, TranslateIs DEF Says
      <4>2. gs[n] # Unset
        BY <4>1, XlAssumption DEF PortAdminState, Known, AdminOf, TpAdminOf
      <4> QED
        BY <2>3, <3>2, <4>2 DEF Truthy
    <3> SUFFICES ASSUME At(new, by[n]) # Unset PROVE FALSE
      BY <2>3
    <3>4. by[n] \notin OrLeaves
      BY <2>3, <2>4, LeafClasses DEF OrLeaves
    <3>5. PICK j \in DOMAIN chg : chg[j].lf = by[n] /\ n \in DOMAIN effects[j]
      BY <1>10, <3>3, <3>4
    <3>6. edits[j] = effects[j]
      BY <1>5, <1>8, <3>5 DEF Skips
    <3> QED
      BY <1>9, <3>5, <3>6
  <2> QED
    BY <2>3, <2>6, <2>7
<1>15. TxnsOK'
  <2>1. ASSUME NEW p \in Servers \ {s} PROVE TxnOK(p)'
    BY <1>1, <1>2, <1>3, TxnKept DEF XInv, TxnsOK
  <2>2. TxnOK(s)'
    BY <1>11, <1>12, <1>13, <1>14 DEF TxnOK
  <2> QED
    BY <2>1, <2>2 DEF TxnsOK
<1>16. ConfigsOK'
  <2>0. "ocp" \in Servers /\ "or" \in Servers
    BY DEF Servers
  <2>1. Active("or")' => PacksNamed(New(txn["or"]))'
    <3>1. CASE s = "or"
      BY <1>1, <1>4, <3>1 DEF PacksNamed
    <3>2. CASE s # "or"
      BY <1>1, <1>3, <2>0, <3>2 DEF XInv, ConfigsOK, Active, PacksNamed, New
    <3> QED
      BY <3>1, <3>2
  <2>2. Active("ocp")' => StatesKnown(New(txn["ocp"]))'
    <3>1. CASE s = "ocp"
      <4> SUFFICES ASSUME NEW lf \in Ports, lf.o \notin Modules PROVE At(new, lf) \in {Unset} \cup AdminStates
        BY <1>4, <3>1 DEF StatesKnown
      <4>1. lf \in LeavesOf(s) /\ lf.l = "admin-state"
        BY <3>1, LeafClasses DEF SvcLeaves
      <4>2. CASE \A k \in DOMAIN chg : chg[k].lf # lf
        BY <1>5, <4>1, <4>2 DEF XInv, ConfigsOK, StatesKnown
      <4>3. ASSUME NEW k \in DOMAIN chg, chg[k].lf = lf PROVE At(new, lf) \in {Unset} \cup AdminStates
        <5>1. PortAdminState(lf, chg[k].v).admin # Unresolved
          <6>1. Translate(lf, chg[k].v) = PortAdminState(lf, chg[k].v)
            BY <4>1, TranslateIs
          <6>2. "admin" \in DOMAIN PortAdminState(lf, chg[k].v)
            BY DEF PortAdminState
          <6> QED
            BY <1>1, <4>3, <6>1, <6>2 DEF Supported
        <5> QED
          BY <1>5, <4>3, <5>1 DEF PortAdminState, Known, AdminOf
      <4> QED
        BY <4>2, <4>3
    <3>2. CASE s # "ocp"
      BY <1>1, <1>3, <2>0, <3>2 DEF XInv, ConfigsOK, Active, StatesKnown, New
    <3> QED
      BY <3>1, <3>2
  <2> QED
    BY <1>1, <2>1, <2>2 DEF XInv, ConfigsOK, PacksNamed, StatesKnown
<1>17. Followed'
  <2> SUFFICES ASSUME NEW n \in Native \ loose, by[n] \in SvcLeaves PROVE FollowedAt(n)'
    BY <1>1 DEF Followed, FollowedAt
  <2>1. FollowedAt(n) /\ by[n].s \in Servers
    BY LeafClasses DEF XInv, Followed
  <2>2. CASE by[n].s = s
    <3>1. Cfg(n, by[n]) = svc
      BY <1>1, <2>2 DEF Cfg
    <3>2. Cfg(n, by[n])' = svc
      BY <1>1, <1>3, <2>2 DEF Cfg
    <3> QED
      BY <1>1, <2>1, <3>1, <3>2 DEF FollowedAt
  <2>3. CASE by[n].s # s
    BY <1>1, <1>2, <1>3, <2>1, <2>3, FollowedKept
  <2> QED
    BY <2>2, <2>3
<1>18. Untouched'
  <2>1. CASE s # "ocp"
    <3>1. txn'["ocp"] = txn["ocp"]
      BY <1>3, <2>1 DEF Servers
    <3> QED
      BY <1>1, <1>2, <3>1, UntouchedKept DEF XInv
  <2>2. CASE s = "ocp"
    <3> SUFFICES ASSUME NEW n \in Native \ loose, by[n] = Unset, NEW lf \in Ports, lf.o \notin Modules,
                        n[2] = "admin", n[1] \in PortNodesIn(env, lf)
                 PROVE  At(svc, lf) = Unset /\ (At(new, lf) = Unset \/ n \in DOMAIN t.edits)
      <4>1. New(txn["ocp"])' = new /\ txn'["ocp"].pc = "session" /\ txn'["ocp"].edits = t.edits
        BY <1>3, <1>4, <2>2
      <4> HIDE DEF t
      <4> QED
        BY <1>1, <4>1 DEF Untouched, UntouchedAt
    <3>1. At(svc, lf) = Unset
      BY DEF XInv, Untouched, UntouchedAt
    <3> SUFFICES ASSUME At(new, lf) # Unset PROVE n \in DOMAIN t.edits
      BY <3>1
    <3>2. lf \in SvcLeaves /\ lf \in LeavesOf(s)
      BY <2>2, LeafClasses DEF SvcLeaves
    <3>3. PICK k \in DOMAIN chg : chg[k].lf = lf
      BY <1>5, <3>1, <3>2
    <3>4. n = <<n[1], n[2]>>
      BY DEF Native
    <3>5. n \in DOMAIN effects[k]
      <4>1. Nodes(lf, chg[k].v, new) = PortNodesIn(env, lf) /\ DOMAIN Translate(lf, Unset) = {"admin"}
        BY <3>2, NodesBy, TranslateLeaves
      <4>2. DOMAIN effects[k] = PortNodesIn(env, lf) \X {"admin"}
        BY <1>7, <3>3, <4>1
      <4> QED
        BY <3>4, <4>2
    <3>6. edits[k] = effects[k]
      BY <1>5, <1>8, <3>3 DEF Skips
    <3> QED
      BY <1>9, <3>3, <3>5, <3>6
  <2> QED
    BY <2>1, <2>2
<1> QED
  BY <1>15, <1>16, <1>17, <1>18 DEF XInv

-----------------------------------------------------------------------------
\* Nothing is configured at first.
LEMMA XlateInit ==
  ASSUME Init
  PROVE  XInv
<1>1. /\ \A s \in Servers : txn[s] = Idle /\ Idle.pc = "idle" /\ ~ Active(s)
      /\ \A lf \in SvcLeaves : At(svc, lf) = Unset
      /\ \A n \in Native : by[n] = Unset
  BY LeafClasses DEF Init, Idle, Active, At
<1>2. TypeInv
  BY <1>1 DEF Init, TypeInv, Shaped
<1>3. ConfigsOK
  <2>1. PacksNamed(svc) /\ StatesKnown(svc)
    BY <1>1 DEF PacksNamed, StatesKnown, OrLeaves, SvcLeaves
  <2> QED
    BY <1>1, <2>1 DEF ConfigsOK, Servers
<1>4. TxnsOK
  BY <1>1 DEF TxnsOK, TxnOK
<1>5. Followed
  BY <1>1, XlAssumption DEF Followed, FollowedAt
<1>6. Untouched
  BY <1>1 DEF Untouched, UntouchedAt, Servers, SvcLeaves
<1> QED
  BY <1>2, <1>3, <1>4, <1>5, <1>6 DEF XInv

\* The invariant behind both promises: every native leaf that is not lost sight of follows its
\* writer, in the middle of transactions too (post(), Reconcile, EnvChange, 'done').
THEOREM XlateInv == Spec => []XInv
<1>1. XInv /\ [Next]_vars => XInv'
  <2> SUFFICES ASSUME XInv, [Next]_vars PROVE XInv'
    OBVIOUS
  <2>1. CASE UNCHANGED vars
    BY <2>1, QuietStep DEF vars
  <2>2. CASE Next
    <3>1. TypeInv'
      BY <2>2, TypeStep DEF XInv
    <3>2. ASSUME NEW q \in DOMAIN Requests, Change(q) PROVE XInv'
      BY <3>1, <3>2, ChangeStep
    <3>3. ASSUME NEW s \in Servers, Post(s) PROVE XInv'
      BY <3>1, <3>3, PostStep
    <3>4. ASSUME NEW s \in Servers, PostFails(s) \/ Ends(s) PROVE XInv'
      <4>1. UNCHANGED <<svc, gs, env, by, loose>>
        BY <3>4 DEF PostFails, Ends
      <4>2. \A r \in Servers : txn'[r] = txn[r] \/ (txn[r].pc # "posted" /\ txn'[r] = Idle)
        BY <3>4 DEF PostFails, Ends, XInv, TypeInv
      <4> QED
        BY <3>1, <4>1, <4>2, DroppedStep
    <3>5. ASSUME NEW s \in Servers, Done(s) PROVE XInv'
      BY <3>1, <3>5, DoneStep
    <3>6. ASSUME NEW s \in Servers, Abort(s) PROVE XInv'
      BY <3>1, <3>6, AbortStep
    <3>7. ASSUME NEW n \in Native, NEW v, NativeEdit(n, v) PROVE XInv'
      BY <3>1, <3>7, NativeEditStep
    <3>8. ASSUME NEW e \in Envs, EnvChange(e) PROVE XInv'
      BY <3>1, <3>8, EnvChangeStep
    <3>9. CASE Reconcile
      BY <3>1, <3>9, ReconcileStep
    <3>10. CASE OperCb
      BY <3>10, QuietStep DEF OperCb
    <3>11. ASSUME NEW s \in Servers, Started(s) PROVE XInv'
      BY <3>11, QuietStep DEF Started
    <3>12. ASSUME NEW q \in DOMAIN Requests, Unheard(q) PROVE XInv'
      BY <3>1, <3>12, UnheardStep
    <3>13. "oci" \in Servers
      BY DEF Servers
    <3> QED
      BY <2>2, <3>2, <3>3, <3>4, <3>5, <3>6, <3>7, <3>8, <3>9, <3>10, <3>11, <3>12, <3>13
         DEF Next, Killed, ReconcileFails
  <2> QED
    BY <2>1, <2>2
<1> QED
  BY <1>1, XlateInit, PTL DEF Spec

\* A native leaf that is settled and not lost sight of follows the running configuration.
LEMMA SettledFollows ==
  ASSUME XInv, NEW n \in Native, by[n] \in SvcLeaves, n \notin loose, Settled(n)
  PROVE  Target(env, svc, n, by[n]) /\ Says(svc, n, by[n], gs[n])
<1>1. by[n].s \in Servers
  BY LeafClasses
<1>2. Cfg(n, by[n]) = svc
  BY <1>1 DEF Settled, Cfg
<1> QED
  BY <1>2 DEF XInv, Followed, FollowedAt

\* A committed service leaf is in force, for every interleaving of the three servers, the reconcile
\* loop and native clients (translator post(), apply(); see ConfiguredInForce).
THEOREM ConfiguredAlwaysInForce == Spec => []ConfiguredInForce
<1>1. XInv => ConfiguredInForce
  <2> SUFFICES ASSUME XInv, NEW n \in Native, by[n] \in SvcLeaves, n \notin loose, Settled(n)
               PROVE  LET lf == by[n]
                      IN IF At(svc, lf) # Unset
                         THEN LET f == Translate(lf, At(svc, lf))
                              IN n[1] \in Home(lf) /\ n[2] \in DOMAIN f /\ gs[n] = f[n[2]]
                         ELSE \/ gs[n] = Unset
                              \/ n[2] = "power" /\ gs[n] = 0
                              \/ n[2] = "loop" /\ gs[n] = "none"
    BY DEF ConfiguredInForce
  <2> PICK lf \in SvcLeaves : lf = by[n]
    OBVIOUS
  <2>1. Target(env, svc, n, lf) /\ Says(svc, n, lf, gs[n])
    BY SettledFollows
  <2>2. CASE At(svc, lf) = Unset
    BY <2>1, <2>2 DEF Says, Nothing
  <2>3. CASE At(svc, lf) # Unset
    <3>1. gs[n] = Translate(lf, At(svc, lf))[n[2]] /\ n[2] \in DOMAIN Translate(lf, At(svc, lf))
      BY <2>1, <2>3, TranslateShape DEF Says, Target
    <3>2. lf \in OrLeaves => Pack(svc, lf.o) # Unset
      BY <2>3 DEF XInv, ConfigsOK, PacksNamed
    <3>3. n[1] \in Home(lf)
      <4>1. CASE lf \in OtsiLeaves
        BY <2>1, <3>2, <4>1 DEF Home, Target, OrLeaves
      <4>2. CASE lf \in Ports \cup Channels \cup Interfaces \cup EthLeaves
        <5>1. lf \notin OtsiLeaves
          BY <4>2, LeafClasses
        <5>2. n[1] \in Nodes(lf, At(svc, lf), svc)
          BY <2>1, <3>2, <4>2, NodesBy DEF Target, OrLeaves
        <5> QED
          BY <5>1, <5>2 DEF Home
      <4>3. lf \notin Pointers
        BY <2>1, TranslateLeaves DEF Target
      <4> QED
        BY <4>1, <4>2, <4>3 DEF SvcLeaves
    <3> QED
      BY <2>3, <3>1, <3>3
  <2> QED
    BY <2>2, <2>3
<1> QED
  BY <1>1, XlateInv, PTL

\* The admin-state of a client port is written to both ends of its gearbox connection
\* (platform.py: PortAdminStateHandler; see PortReachesBothEnds).
THEOREM PortAlwaysReachesBothEnds == Spec => []PortReachesBothEnds
<1>1. XInv => PortReachesBothEnds
  <2> SUFFICES ASSUME XInv, NEW lf \in Ports, lf.o \in Clients, At(svc, lf) # Unset, env.conn[lf.o] # Unset,
                      NEW i \in {HostOf[lf.o], env.conn[lf.o]}, <<i, "admin">> \notin loose, Settled(<<i, "admin">>)
               PROVE  /\ by[<<i, "admin">>] # Unset
                      /\ by[<<i, "admin">>] = lf =>
                           gs[<<i, "admin">>] = (IF At(svc, lf) = "ENABLED" THEN "UP" ELSE "DOWN")
    BY DEF PortReachesBothEnds
  <2> DEFINE n == <<i, "admin">>
  <2>1. lf \in SvcLeaves /\ lf.l = "admin-state"
    BY LeafClasses DEF SvcLeaves
  <2>2. n \in Native
    <3>1. env.conn \in [Clients -> Nets \cup {Unset}]
      BY XlAssumption DEF XInv, TypeInv
    <3> QED
      BY <3>1 DEF Native, Ifs
  <2>3. CASE lf.o \notin Modules
    <3>1. n[1] \in PortNodesIn(env, lf) /\ n[2] = "admin"
      BY <2>3 DEF PortNodesIn
    <3>2. by[n] # Unset
      <4>1. UntouchedAt(n)
        BY <2>2 DEF XInv, Untouched
      <4> HIDE DEF n
      <4> QED
        BY <2>3, <3>1, <4>1 DEF UntouchedAt
    <3>3. ASSUME by[n] = lf PROVE gs[n] = IF At(svc, lf) = "ENABLED" THEN "UP" ELSE "DOWN"
      <4>1. Says(svc, n, lf, gs[n])
        BY <2>1, <2>2, <3>3, SettledFollows
      <4>2. gs[n] = PortAdminState(lf, At(svc, lf)).admin
        BY <2>1, <4>1, TranslateIs DEF Says
      <4>3. At(svc, lf) \in AdminStates
        BY <2>3 DEF XInv, ConfigsOK, StatesKnown
      <4> QED
        BY <2>3, <4>2, <4>3 DEF PortAdminState, Known, AdminOf
    <3> QED
      BY <3>2, <3>3
  <2> QED
    BY <2>3, XlAssumption
<1> QED
  BY <1>1, XlateInv, PTL
=============================================================================
