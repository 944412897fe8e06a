--------------------------- MODULE GearboxProofs ---------------------------
(***************************************************************************)
(* The gearbox server, for every set of interfaces, every conflict between *)
(* them and every interleaving of the two servers, call to TAI by call to  *)
(* TAI, with failures and restarts: objects and attributes follow the      *)
(* configuration, the tributary mapping names no object that is gone       *)
(* except for what the other server put there, and operational answers are *)
(* the configuration.                                                      *)
(*                                                                         *)
(* ConfiguredExists and AttributesMatch say nothing of the middle of a     *)
(* transaction, where the device is between two configurations. Seen from  *)
(* the former one, every difference is recorded in undo or in torn         *)
(* (Recorded, Differs, Restores); seen from the new one, the changes that  *)
(* are handled are in force and the others are as before (Reaches,         *)
(* Handled). PinModeHandler gets there in many steps; what it is at bounds *)
(* the objects it may still remove or create (JobApplies, JobReverts).     *)
(*                                                                         *)
(* MappingLive rests on what the mapping a handler has read, and is about  *)
(* to set, may name (MapInv).                                              *)
(***************************************************************************)
EXTENDS GearboxProps, TLAPS

-----------------------------------------------------------------------------
(* The inductive invariant.                                                *)

Vals == (UNION {Values[l] : l \in Leaves}) \cup {Unset}
IfConfig == {c \in [Leaves -> Vals] : \A l \in Leaves : c[l] \in Values[l] \cup {Unset}}
Config == [Ifs -> IfConfig]
AttrVals == Vals \cup {"none", "normal", "serdes-only", "100-gbe", "otu4"}
Attrs == [AllNames -> AttrVals]
UndoRec == [i : Ifs, attrs : Attrs, names : SUBSET AllNames, gone : SUBSET Ifs, back : SUBSET Ifs]
ChangeRec == [i : Ifs, l : Leaves, v : Vals]

\* what PinModeHandler is at before and after it sets the attribute
Removing == {"remove", "unmap", "drop"}
Creating == {"create", "fill", "map"}

GearTypeOK ==
  /\ running \in Config
  /\ attrs \in [Objects -> Attrs] /\ Objects \subseteq Ifs
  /\ itxn \in [pc : {"idle", "apply", "revert"}, chg : Seq(ChangeRec), k : Nat, new : Config,
               undo : Seq(UndoRec), job : {itxn.job}]
  /\ itxn.job \in [at : {"none"} \cup Removing \cup Creating, todo : SUBSET Ifs, i : Ifs \cup {None},
                   map : {itxn.job.map}]
  /\ torn \subseteq Ifs \X AllNames
  /\ itxn.pc = "idle" => itxn.undo = <<>> /\ ~ Busy
  /\ srv = "down" => itxn.pc = "idle"

Torn(i) == {i} \X AllNames \subseteq torn

\* a configured interface without object was removed by a handler that is not reverted yet,
\* or is known to be lost
Recorded ==
  \A i \in Configured(running) :
    i \in Objects \/ Torn(i) \/ \E m \in DOMAIN itxn.undo : i \in itxn.undo[m].gone

\* an object a handler created was missing before
Restores ==
  \A m \in DOMAIN itxn.undo : \A i \in itxn.undo[m].back \cap Configured(running) :
    Torn(i) \/ \E h \in DOMAIN itxn.undo : h > m /\ i \in itxn.undo[h].gone

\* an attribute that is not as configured was set by such a handler, or is of an object it created
Sets(u, new, i, n) ==
  (i = u.i /\ n \in u.names /\ u.attrs[n] # Wanted(new[i])[n]) \/ i \in u.back
Differs ==
  \A i \in Objects : \A n \in AllNames :
    \/ <<i, n>> \in torn \/ attrs[i][n] = Wanted(running[i])[n]
    \/ \E m \in DOMAIN itxn.undo : Sets(itxn.undo[m], itxn.new, i, n)

\* the interfaces the pin-mode that is being set excludes
Excluded == ConflictsWith(Change.i, Wanted(itxn.new[Change.i]).pin)

\* what a transaction changes, and which of its interfaces have an object
Changes ==
  itxn.pc = "apply" =>
    /\ itxn.k >= 1 /\ Len(itxn.chg) <= 2
    /\ \A n \in DOMAIN itxn.chg :
         /\ NoConflict(itxn.new, itxn.chg[n].i, itxn.chg[n].l)
         /\ itxn.k = 1 \/ (itxn.k = 2 /\ n = 1) =>
              itxn.chg[n].i \in Objects \/ (Busy /\ itxn.chg[n].i \in Excluded)
    /\ \A i \in Ifs : \A l \in Leaves :
         running[i][l] # itxn.new[i][l] =>
           \E n \in DOMAIN itxn.chg : itxn.chg[n].i = i /\ itxn.chg[n].l = l

\* no handler removes an interface that will be configured
Unchanged(i) == \A n \in DOMAIN itxn.chg : itxn.chg[n].i # i
Reaches ==
  itxn.pc = "apply" => \A i \in Configured(itxn.new) : i \in Objects \/ (Torn(i) /\ Unchanged(i))

\* the handlers before the k-th have set what the new configuration asks for, and so has the k-th
\* once it creates objects; one it has just created has no attributes yet
Applied(i, n) ==
  \E m \in DOMAIN itxn.chg : /\ m < itxn.k \/ (m = itxn.k /\ itxn.job.at \in Creating)
                             /\ itxn.chg[m].i = i /\ n \in AttrNames[itxn.chg[m].l]
Unfilled(i) == itxn.job.at = "fill" /\ i = itxn.job.i
Handled ==
  itxn.pc = "apply" =>
    \A i \in Objects : ~ Unfilled(i) => \A n \in AllNames :
      IF Applied(i, n) THEN attrs[i][n] = Wanted(itxn.new[i])[n]
      ELSE <<i, n>> \in torn \/ attrs[i][n] = Wanted(running[i])[n]

\* apply() of PinModeHandler removes what its pin-mode excludes, and creates nothing of it
JobApplies ==
  itxn.pc = "apply" /\ Busy =>
    /\ itxn.k \in DOMAIN itxn.chg /\ Change.l = "pin"
    /\ 1 \in DOMAIN itxn.undo /\ itxn.undo[1].i = Change.i /\ itxn.undo[1].gone \subseteq Excluded
    /\ itxn.job.at \in Removing => itxn.undo[1].names = {} /\ itxn.job.todo \subseteq Excluded
    /\ itxn.job.at \in {"unmap", "drop"} => itxn.job.i \in Excluded
    /\ itxn.job.at \in Creating => Change.i \in Objects /\ itxn.job.todo \cap (Excluded \cup {Change.i}) = {}
    /\ itxn.job.at = "fill" => /\ itxn.job.i \in Objects \cap itxn.undo[1].back /\ Unchanged(itxn.job.i)
                               /\ itxn.job.i \in Configured(running) => Torn(itxn.job.i)

\* revert() removes what apply() created and creates what it removed
JobReverts ==
  itxn.pc = "revert" /\ Busy =>
    /\ 1 \in DOMAIN itxn.undo
    /\ itxn.job.at \in Removing => /\ itxn.job.todo \subseteq itxn.undo[1].back
                                   /\ itxn.undo[1].back \cap Objects \subseteq itxn.job.todo
    /\ itxn.job.at \in {"unmap", "drop"} => itxn.job.i \in itxn.undo[1].back
    /\ itxn.job.at \in Creating => /\ ChangedBy(itxn.undo[1]) = {} /\ itxn.undo[1].gone \subseteq itxn.job.todo
                                   /\ \A j \in itxn.undo[1].back \cap Objects : Torn(j)
    /\ itxn.job.at = "fill" => itxn.job.i \in Objects /\ Torn(itxn.job.i)

GearInv ==
  /\ GearTypeOK /\ Recorded /\ Restores /\ Differs /\ Changes /\ Reaches /\ Handled
  /\ JobApplies /\ JobReverts

\* the mapping a handler is about to set names living objects, and not the one it is to remove; what
\* was put into the mapping after that is in raced
MapInv ==
  /\ MappingLive /\ oid \in [Ifs -> Nat]
  /\ itxn.job.at \in {"unmap", "fill", "map"} => Live(itxn.job.map)
  /\ itxn.job.at = "unmap" => \A p \in itxn.job.map : ~ Names(p, itxn.job.i)
  /\ itxn.job.at = "drop" => \A p \in mapping : Names(p, itxn.job.i) => p \in raced

\* an undisturbed request for operational data runs alone, and what it has read still holds
Answers == [admin : {"UP", "DOWN"}] \cup [admin : {"UP", "DOWN"}, kind : {"otn", "ethernet"}, pin : AttrVals]
OperTypeOK ==
  oper \in [pc : {"idle", "read", "failed", "answered"}, todo : SUBSET Ifs,
            got : UNION {[D -> Answers] : D \in SUBSET Ifs}, quiet : BOOLEAN]
Undisturbed ==
  oper.pc \in {"read", "answered"} /\ oper.quiet =>
    /\ itxn.pc = "idle" /\ gtxn.pc = "idle" /\ srv = "up"
    /\ DOMAIN oper.got \cup oper.todo = Objects
    /\ oper.pc = "answered" => oper.todo = {}
    /\ \A i \in DOMAIN oper.got : oper.got[i] = OperState(attrs[i])
OperInv == OperTypeOK /\ Undisturbed

-----------------------------------------------------------------------------
(* Attributes, objects and sequences of handlers.                          *)

\* A leaf has one of its values, configured or by default.
LEMMA EffTyped == ASSUME NEW c \in IfConfig, NEW l \in Leaves PROVE Eff(c, l) \in Values[l]
  BY DEF IfConfig, Eff, Values, DefaultOf, Leaves, Unset

\* What a configuration asks for is a value for every attribute.
LEMMA WantedTyped == ASSUME NEW c \in IfConfig PROVE Wanted(c) \in Attrs
<1>1. ProvisionMode(c) \in AttrVals /\ SignalRate(c) \in AttrVals
  BY DEF ProvisionMode, SignalRate, AttrVals
<1>2. \A l \in Leaves : Eff(c, l) \in AttrVals
  BY EffTyped DEF AttrVals, Vals
<1>3. "pin" \in Leaves /\ "fec" \in Leaves /\ "loop" \in Leaves
  BY DEF Leaves
<1> QED
  BY <1>1, <1>2, <1>3 DEF Wanted, Attrs, AllNames, Reconciled

\* An attribute depends on the leaves whose handlers set it, and on no other.
LEMMA WantedDepends ==
  ASSUME NEW c \in IfConfig, NEW d \in IfConfig, NEW n \in AllNames,
         \A l \in Leaves : n \in AttrNames[l] => c[l] = d[l]
  PROVE  Wanted(c)[n] = Wanted(d)[n]
<1>1. CASE n = "prov"
  <2>1. c["admin"] = d["admin"] /\ c["type"] = d["type"]
    BY <1>1 DEF AttrNames, Leaves
  <2> QED
    BY <2>1, <1>1 DEF Wanted, ProvisionMode, Eff
<1>2. CASE n = "rate"
  <2>1. c["type"] = d["type"]
    BY <1>2 DEF AttrNames, Leaves
  <2> QED
    BY <2>1, <1>2 DEF Wanted, SignalRate, Eff
<1>3. CASE n \in {"pin", "fec", "loop"}
  <2>1. c[n] = d[n]
    BY <1>3 DEF AttrNames, Leaves
  <2> QED
    BY <2>1, <1>3 DEF Wanted, Eff
<1> QED
  BY <1>1, <1>2, <1>3 DEF AllNames, Reconciled

\* set_multiple sets the named attributes.
LEMMA SetAttrsAt ==
  ASSUME NEW a \in Attrs, NEW v \in Attrs, NEW names
  PROVE  /\ SetAttrs(a, names, v) \in Attrs
         /\ \A n \in AllNames : SetAttrs(a, names, v)[n] = IF n \in names THEN v[n] ELSE a[n]
  BY DEF SetAttrs, Attrs

LEMMA FreshTyped == Fresh \in Attrs
  BY DEF Fresh, Attrs, AllNames, AttrVals, Reconciled, Vals, Values, Leaves

\* What a new object gets: what is configured, except for the pin-mode of the running datastore and the
\* attributes that are not reconciled.
LEMMA NewAttrsAt ==
  ASSUME running \in Config, itxn.new \in Config, NEW i \in Ifs
  PROVE  /\ NewAttrs(i) \in Attrs
         /\ (itxn.new[i] = running[i] /\ i \notin Configured(running)) => NewAttrs(i) = Wanted(running[i])
<1>1. itxn.new[i] \in IfConfig /\ running[i] \in IfConfig
  BY DEF Config
<1>2. Wanted(itxn.new[i]) \in Attrs /\ Wanted(running[i]) \in Attrs
  BY <1>1, WantedTyped
<1> DEFINE w == [Wanted(itxn.new[i]) EXCEPT !.pin = Eff(running[i], "pin")]
<1>3. w \in Attrs
  <2>1. Eff(running[i], "pin") \in AttrVals
    BY <1>1, EffTyped DEF AttrVals, Vals, Leaves
  <2> QED
    BY <1>2, <2>1 DEF Attrs
<1>4. \A n \in AllNames : w[n] = IF n = "pin" THEN Eff(running[i], "pin") ELSE Wanted(itxn.new[i])[n]
  BY <1>2 DEF Attrs
<1>5. Wanted(running[i])["pin"] = Eff(running[i], "pin")
  BY DEF Wanted
<1> HIDE DEF w
<1>6. /\ NewAttrs(i) \in Attrs
      /\ \A n \in AllNames : NewAttrs(i)[n] = IF n \in Reconciled THEN w[n] ELSE Fresh[n]
  BY <1>3, FreshTyped, SetAttrsAt DEF NewAttrs, w
<1>7. ASSUME itxn.new[i] = running[i], i \notin Configured(running)
      PROVE  NewAttrs(i) = Wanted(running[i])
  <2>1. running[i]["loop"] = Unset
    BY <1>7 DEF Configured, Leaves
  <2>2. NewAttrs(i)["loop"] = Wanted(running[i])["loop"]
    BY <1>6, <2>1 DEF AllNames, Reconciled, Fresh, Wanted, Eff, DefaultOf
  <2>3. \A n \in AllNames : NewAttrs(i)[n] = Wanted(running[i])[n]
    BY <1>4, <1>5, <1>6, <1>7, <2>2 DEF AllNames
  <2> QED
    BY <1>2, <1>6, <2>3 DEF Attrs
<1> QED
  BY <1>6, <1>7

\* t is s with u before it
Pushed(u, s, t) ==
  /\ 1 \in DOMAIN t /\ t[1] = u
  /\ \A m \in DOMAIN s : m \in Nat /\ m >= 1 /\ m + 1 \in DOMAIN t /\ t[m + 1] = s[m]
  /\ \A m \in DOMAIN t : m \in Nat /\ (m = 1 \/ (m - 1 \in DOMAIN s /\ t[m] = s[m - 1]))

LEMMA PushIs == ASSUME NEW T, NEW s \in Seq(T), NEW u \in T PROVE Pushed(u, s, <<u>> \o s) /\ <<u>> \o s \in Seq(T)
  BY DEF Pushed
LEMMA PopIs == ASSUME NEW T, NEW s \in Seq(T), s # <<>> PROVE Pushed(s[1], Tail(s), s) /\ Tail(s) \in Seq(T)
  BY DEF Pushed

\* t is s with u in the place of its head
Headed(u, s, t) ==
  /\ DOMAIN t = DOMAIN s /\ t[1] = u
  /\ \A m \in DOMAIN s : m \in Nat /\ m >= 1 /\ (m # 1 => t[m] = s[m])
LEMMA HeadIs ==
  ASSUME NEW T, NEW s \in Seq(T), 1 \in DOMAIN s, NEW u \in T
  PROVE  Headed(u, s, [s EXCEPT ![1] = u]) /\ [s EXCEPT ![1] = u] \in Seq(T)
  BY DEF Headed


-----------------------------------------------------------------------------
(* What the steps of a transaction have in common.                         *)

\* A step of InterfaceServer within a transaction.
ItxnIs(pc, k, undo, job) ==
  itxn' \in [pc : {pc}, chg : {itxn.chg}, k : {k}, new : {itxn.new}, undo : {undo}, job : {job}]

\* Typing of such a step.
JobTyped(job) ==
  job \in [at : {"none"} \cup Removing \cup Creating, todo : SUBSET Ifs, i : Ifs \cup {None}, map : {job.map}]
LEMMA JobIs ==
  ASSUME NEW at \in {"none"} \cup Removing \cup Creating, NEW todo \in SUBSET Ifs
  PROVE  JobTyped(JobOf(at, todo)) /\ JobOf(at, todo).at = at /\ JobOf(at, todo).todo = todo
  BY DEF JobTyped, JobOf
LEMMA StepTyped ==
  ASSUME GearTypeOK, NEW pc \in {"apply", "revert"}, NEW k \in Nat, NEW undo \in Seq(UndoRec),
         NEW job, JobTyped(job), ItxnIs(pc, k, undo, job),
         attrs' \in [Objects' -> Attrs], Objects' \subseteq Ifs, torn' \subseteq Ifs \X AllNames,
         UNCHANGED <<running, srv>>, itxn.pc # "idle"
  PROVE  /\ GearTypeOK'
         /\ itxn'.pc = pc /\ itxn'.chg = itxn.chg /\ itxn'.k = k /\ itxn'.new = itxn.new /\ itxn'.undo = undo
         /\ itxn'.job = job
<1>1. /\ itxn'.pc = pc /\ itxn'.chg = itxn.chg /\ itxn'.k = k /\ itxn'.new = itxn.new /\ itxn'.undo = undo
      /\ itxn'.job = job
  BY DEF ItxnIs
<1>2. itxn' \in [pc : {"idle", "apply", "revert"}, chg : Seq(ChangeRec), k : Nat, new : Config,
                 undo : Seq(UndoRec), job : {itxn'.job}]
  BY <1>1 DEF ItxnIs, GearTypeOK
<1> QED
  BY <1>1, <1>2 DEF GearTypeOK, JobTyped

\* A step that only changes what PinModeHandler is at, or which handlers are applied, keeps what is said of
\* the device and the former configuration.
LEMMA DeviceSame ==
  ASSUME Recorded, Restores, Differs, UNCHANGED <<running, attrs, torn>>,
         itxn'.undo = itxn.undo, itxn'.new = itxn.new
  PROVE  Recorded' /\ Restores' /\ Differs' /\ Objects' = Objects
<1>1. Objects' = Objects /\ \A i : Torn(i)' <=> Torn(i)
  BY DEF Objects, Torn
<1>2. Configured(running)' = Configured(running)
  BY DEF Configured
<1> QED
  BY <1>1, <1>2 DEF Recorded, Restores, Differs

\* So does one that records a handler; what it changes it must record.
LEMMA DevicePushed ==
  ASSUME Recorded, Restores, Differs, UNCHANGED <<running, torn>>, Objects' = Objects,
         NEW u, Pushed(u, itxn.undo, itxn'.undo), u.gone = {}, u.back = {}, itxn'.new = itxn.new,
         \A i \in Objects : \A n \in AllNames : attrs'[i][n] = attrs[i][n] \/ Sets(u, itxn.new, i, n)
  PROVE  Recorded' /\ Restores' /\ Differs'
<1>1. \A i : Torn(i)' <=> Torn(i)
  BY DEF Torn
<1>2. Configured(running)' = Configured(running)
  BY DEF Configured
<1>3. /\ 1 \in DOMAIN itxn'.undo /\ itxn'.undo[1] = u
      /\ \A m \in DOMAIN itxn.undo : m \in Nat /\ m >= 1 /\ m + 1 \in DOMAIN itxn'.undo /\ itxn'.undo[m + 1] = itxn.undo[m]
      /\ \A m \in DOMAIN itxn'.undo : m \in Nat /\ (m = 1 \/ (m - 1 \in DOMAIN itxn.undo /\ itxn'.undo[m] = itxn.undo[m - 1]))
  BY DEF Pushed
<1>4. Recorded'
  BY <1>1, <1>2, <1>3 DEF Recorded
<1>5. Restores'
  <2> SUFFICES ASSUME NEW m \in DOMAIN itxn'.undo, NEW i \in itxn'.undo[m].back \cap Configured(running)
               PROVE  Torn(i) \/ \E h \in DOMAIN itxn'.undo : h > m /\ i \in itxn'.undo[h].gone
    BY <1>1, <1>2 DEF Restores
  <2>1. m \in Nat /\ m - 1 \in DOMAIN itxn.undo /\ itxn'.undo[m] = itxn.undo[m - 1]
    BY <1>3
  <2>2. Torn(i) \/ \E h \in DOMAIN itxn.undo : h > m - 1 /\ i \in itxn.undo[h].gone
    BY <2>1 DEF Restores
  <2> QED
    BY <1>3, <2>1, <2>2
<1>6. Differs'
  <2> SUFFICES ASSUME NEW i \in Objects, NEW n \in AllNames
               PROVE  \/ <<i, n>> \in torn \/ attrs'[i][n] = Wanted(running[i])[n]
                      \/ \E m \in DOMAIN itxn'.undo : Sets(itxn'.undo[m], itxn.new, i, n)
    BY DEF Differs
  <2>1. CASE Sets(u, itxn.new, i, n)
    BY <1>3, <2>1
  <2>2. CASE attrs'[i][n] = attrs[i][n]
    <3>1. \/ <<i, n>> \in torn \/ attrs[i][n] = Wanted(running[i])[n]
          \/ \E m \in DOMAIN itxn.undo : Sets(itxn.undo[m], itxn.new, i, n)
      BY DEF Differs
    <3> QED
      BY <1>3, <2>2, <3>1
  <2> QED
    BY <2>1, <2>2
<1> QED
  BY <1>4, <1>5, <1>6

\* One that leaves out the latest handler does, if what it did is undone or known to be lost.
LEMMA DevicePopped ==
  ASSUME Recorded, Restores, Differs, UNCHANGED <<running, attrs>>, torn \subseteq torn',
         NEW u, Pushed(u, itxn'.undo, itxn.undo), itxn'.new = itxn.new,
         \A i \in u.gone : Torn(i)',
         \A i \in Objects : \A n \in AllNames : Sets(u, itxn.new, i, n) => <<i, n>> \in torn'
  PROVE  Recorded' /\ Restores' /\ Differs'
<1>1. Objects' = Objects /\ \A i : Torn(i) => Torn(i)'
  BY DEF Objects, Torn
<1>2. Configured(running)' = Configured(running)
  BY DEF Configured
<1>3. /\ 1 \in DOMAIN itxn.undo /\ itxn.undo[1] = u
      /\ \A m \in DOMAIN itxn'.undo : m \in Nat /\ m >= 1 /\ m + 1 \in DOMAIN itxn.undo /\ itxn.undo[m + 1] = itxn'.undo[m]
      /\ \A m \in DOMAIN itxn.undo : m \in Nat /\ (m = 1 \/ (m - 1 \in DOMAIN itxn'.undo /\ itxn.undo[m] = itxn'.undo[m - 1]))
  BY DEF Pushed
<1>4. Recorded'
  BY <1>1, <1>2, <1>3 DEF Recorded
<1>5. Restores'
  <2> SUFFICES ASSUME NEW m \in DOMAIN itxn'.undo, NEW i \in itxn'.undo[m].back \cap Configured(running)
               PROVE  Torn(i)' \/ \E h \in DOMAIN itxn'.undo : h > m /\ i \in itxn'.undo[h].gone
    BY <1>2 DEF Restores
  <2>1. m \in Nat /\ m + 1 \in DOMAIN itxn.undo /\ itxn.undo[m + 1] = itxn'.undo[m]
    BY <1>3
  <2>2. Torn(i) \/ \E h \in DOMAIN itxn.undo : h > m + 1 /\ i \in itxn.undo[h].gone
    BY <2>1 DEF Restores
  <2>3. ASSUME NEW h \in DOMAIN itxn.undo, h > m + 1, i \in itxn.undo[h].gone
        PROVE  \E g \in DOMAIN itxn'.undo : g > m /\ i \in itxn'.undo[g].gone
    <3>1. h \in Nat /\ h # 1 /\ h - 1 > m
      BY <1>3, <2>1, <2>3
    <3>2. h - 1 \in DOMAIN itxn'.undo /\ itxn.undo[h] = itxn'.undo[h - 1]
      BY <1>3, <3>1
    <3> QED
      BY <2>3, <3>1, <3>2
  <2> QED
    BY <1>1, <2>2, <2>3
<1>6. Differs'
  <2> SUFFICES ASSUME NEW i \in Objects, NEW n \in AllNames
               PROVE  \/ <<i, n>> \in torn' \/ attrs[i][n] = Wanted(running[i])[n]
                      \/ \E m \in DOMAIN itxn'.undo : Sets(itxn'.undo[m], itxn.new, i, n)
    BY <1>1 DEF Differs
  <2>1. \/ <<i, n>> \in torn \/ attrs[i][n] = Wanted(running[i])[n]
        \/ \E m \in DOMAIN itxn.undo : Sets(itxn.undo[m], itxn.new, i, n)
    BY DEF Differs
  <2>2. ASSUME NEW m \in DOMAIN itxn.undo, Sets(itxn.undo[m], itxn.new, i, n)
        PROVE  <<i, n>> \in torn' \/ \E h \in DOMAIN itxn'.undo : Sets(itxn'.undo[h], itxn.new, i, n)
    BY <1>3, <2>2
  <2> QED
    BY <2>1, <2>2
<1> QED
  BY <1>4, <1>5, <1>6

\* A step that changes no object keeps what is said of the new configuration.
LEMMA ProgressSame ==
  ASSUME Changes, Reaches, Handled, UNCHANGED <<running, attrs, torn>>,
         itxn'.pc = itxn.pc, itxn'.chg = itxn.chg, itxn'.k = itxn.k, itxn'.new = itxn.new,
         Busy => Busy', itxn.job.at \in Creating <=> itxn'.job.at \in Creating, itxn.job.at # "fill"
  PROVE  Changes' /\ Reaches' /\ Handled'
<1>1. Objects' = Objects /\ \A i : (Torn(i)' <=> Torn(i)) /\ (Unchanged(i)' <=> Unchanged(i))
  BY DEF Objects, Torn, Unchanged
<1>2. Excluded' = Excluded
  BY DEF Excluded, Change
<1>3. \A i, n : Applied(i, n)' <=> Applied(i, n)
  BY DEF Applied
<1>4. Configured(itxn.new)' = Configured(itxn.new)
  BY DEF Configured
<1>5. Changes'
  BY <1>1, <1>2 DEF Changes
<1>6. Reaches'
  BY <1>1, <1>4 DEF Reaches
<1>7. \A i : ~ Unfilled(i)
  BY DEF Unfilled
<1>8. Handled'
  BY <1>1, <1>3, <1>7 DEF Handled
<1> QED
  BY <1>5, <1>6, <1>8


-----------------------------------------------------------------------------
(* The steps of a transaction.                                             *)

\* The handler that is at work, and its entry in undo.
LEMMA AtWork ==
  ASSUME GearTypeOK, Changes, Applying
  PROVE  /\ itxn.pc = "apply" /\ itxn.k \in DOMAIN itxn.chg /\ Change \in ChangeRec
         /\ itxn.k \in {1, 2} /\ DOMAIN itxn.chg \subseteq {1, 2}
<1>1. itxn.pc = "apply" /\ itxn.k <= Len(itxn.chg)
  BY DEF Applying
<1>2. itxn.chg \in Seq(ChangeRec) /\ itxn.k \in Nat /\ itxn.k >= 1 /\ Len(itxn.chg) <= 2
  BY <1>1 DEF GearTypeOK, Changes
<1>3. itxn.k \in DOMAIN itxn.chg
  BY <1>1, <1>2
<1>4. Change \in ChangeRec
  BY <1>2, <1>3 DEF Change
<1>5. Len(itxn.chg) \in Nat /\ DOMAIN itxn.chg = 1 .. Len(itxn.chg)
  BY <1>2
<1>6. DOMAIN itxn.chg \subseteq {1, 2}
  BY <1>2, <1>5
<1> QED
  BY <1>1, <1>3, <1>4, <1>6

LEMMA HeadTyped ==
  ASSUME GearTypeOK, 1 \in DOMAIN itxn.undo
  PROVE  /\ itxn.undo[1] \in UndoRec /\ itxn.undo # <<>> /\ Head(itxn.undo) = itxn.undo[1]
         /\ Pushed(itxn.undo[1], Tail(itxn.undo), itxn.undo) /\ Tail(itxn.undo) \in Seq(UndoRec)
<1>1. itxn.undo \in Seq(UndoRec)
  BY DEF GearTypeOK
<1>2. itxn.undo # <<>> /\ itxn.undo[1] \in UndoRec /\ Head(itxn.undo) = itxn.undo[1]
  BY <1>1
<1> QED
  BY <1>1, <1>2, PopIs

\* What a pin-mode excludes, and what only the former one did.
LEMMA ExcludedAt ==
  ASSUME GearAssumption, GearTypeOK, Changes, Applying
  PROVE  /\ Excluded \subseteq Ifs /\ Gone(Change) \subseteq Excluded \cap Objects
         /\ Back(Change) \subseteq Ifs /\ Back(Change) \cap (Excluded \cup {Change.i}) = {}
         /\ Change.l = "pin" => Excluded \cap Configured(itxn.new) = {}
<1>1. /\ itxn.pc = "apply" /\ itxn.k \in DOMAIN itxn.chg /\ Change \in ChangeRec
  BY AtWork
<1>2. Change.i \in Ifs
  BY <1>1 DEF ChangeRec
<1>3. \A pin : ConflictsWith(Change.i, pin) \subseteq Ifs /\ Change.i \notin ConflictsWith(Change.i, pin)
  BY <1>2 DEF ConflictsWith, GearAssumption
<1>4. NoConflict(itxn.new, Change.i, Change.l)
  BY <1>1 DEF Changes, Change
<1>5. ASSUME Change.l = "pin" PROVE Excluded \cap Configured(itxn.new) = {}
  <2>1. Wanted(itxn.new[Change.i]).pin = Eff(itxn.new[Change.i], "pin")
    BY DEF Wanted
  <2> QED
    BY <1>4, <1>5, <2>1 DEF Excluded, NoConflict
<1>6. Gone(Change) = Excluded \cap Objects
  BY DEF Gone, Excluded
<1>7. Back(Change) = ConflictsWith(Change.i, attrs[Change.i].pin) \ Excluded
  BY DEF Back, Excluded
<1> QED
  BY <1>3, <1>5, <1>6, <1>7 DEF Excluded

\* A pin-mode handler starts with what it has to remove.
LEMMA PinStartKeeps == ASSUME GearAssumption, GearInv, PinStart PROVE GearInv'
<1> DEFINE u == Entry(Change, {})
           job == JobOf("remove", Gone(Change))
<1>1. /\ Applying /\ Change.l = "pin" /\ ~ Busy /\ UNCHANGED <<running, attrs, torn, srv>>
      /\ itxn' = [itxn EXCEPT !.undo = <<u>> \o @, !.job = job]
  BY DEF PinStart, device
<1>2. /\ itxn.pc = "apply" /\ itxn.k \in DOMAIN itxn.chg /\ Change \in ChangeRec
      /\ Gone(Change) \subseteq Excluded /\ Excluded \subseteq Ifs
  BY <1>1, AtWork, ExcludedAt DEF GearInv
<1>3. u \in UndoRec /\ u.i = Change.i /\ u.names = {} /\ u.gone = {} /\ u.back = {}
  <2>1. (IF Change.i \in Objects THEN attrs[Change.i] ELSE Fresh) \in Attrs
    BY FreshTyped DEF GearInv, GearTypeOK
  <2> QED
    BY <1>2, <2>1 DEF Entry, UndoRec, ChangeRec
<1>a. JobTyped(job) /\ job.at = "remove" /\ job.todo = Gone(Change)
  <2>1. "remove" \in {"none"} \cup Removing \cup Creating /\ Gone(Change) \in SUBSET Ifs
    BY <1>2 DEF Removing
  <2> QED
    BY <2>1, JobIs
<1> HIDE DEF u, job
<1>4. Pushed(u, itxn.undo, <<u>> \o itxn.undo) /\ <<u>> \o itxn.undo \in Seq(UndoRec)
  BY <1>3, PushIs DEF GearInv, GearTypeOK
<1> DEFINE undo == <<u>> \o itxn.undo
<1>5. ItxnIs("apply", itxn.k, undo, job)
  BY <1>1, <1>2 DEF ItxnIs, GearInv, GearTypeOK
<1>b. Pushed(u, itxn.undo, undo) /\ undo \in Seq(UndoRec)
  BY <1>4
<1> HIDE DEF undo
<1>6. Objects' = Objects
  BY <1>1 DEF Objects
<1>7. /\ GearTypeOK'
      /\ itxn'.pc = "apply" /\ itxn'.chg = itxn.chg /\ itxn'.k = itxn.k /\ itxn'.new = itxn.new
      /\ itxn'.undo = undo /\ itxn'.job.at = "remove" /\ itxn'.job.todo = Gone(Change)
  <2>1. /\ attrs' \in [Objects' -> Attrs] /\ Objects' \subseteq Ifs /\ torn' \subseteq Ifs \X AllNames
        /\ itxn.k \in Nat
    BY <1>1, <1>2, <1>6 DEF GearInv, GearTypeOK
  <2> QED
    <3>1. GearTypeOK /\ "apply" \in {"apply", "revert"} /\ UNCHANGED <<running, srv>> /\ itxn.pc # "idle"
      BY <1>1, <1>2 DEF GearInv
    <3> QED
      BY <1>2, <1>a, <1>b, <1>5, <2>1, <3>1, StepTyped, Zenon
<1>8. Recorded' /\ Restores' /\ Differs'
  <2>1. \A i \in Objects : \A n \in AllNames : attrs'[i][n] = attrs[i][n] \/ Sets(u, itxn.new, i, n)
    BY <1>1
  <2> QED
    BY <1>1, <1>3, <1>b, <1>6, <1>7, <2>1, DevicePushed DEF GearInv
<1>9. Changes' /\ Reaches' /\ Handled'
  <2>1. itxn.job.at = "none" /\ Busy'
    BY <1>1, <1>7 DEF Busy
  <2>2. itxn.job.at \in Creating <=> itxn'.job.at \in Creating
    BY <1>7, <2>1 DEF Creating
  <2> QED
    BY <1>1, <1>2, <1>7, <2>1, <2>2, ProgressSame DEF GearInv
<1>10. JobApplies'
  <2>1. Change' = Change /\ Excluded' = Excluded
    BY <1>7 DEF Change, Excluded
  <2>2. 1 \in DOMAIN itxn'.undo /\ itxn'.undo[1] = u
    BY <1>b, <1>7 DEF Pushed
  <2> QED
    BY <1>1, <1>2, <1>3, <1>7, <2>1, <2>2 DEF JobApplies, Removing, Creating
<1>11. JobReverts'
  BY <1>7 DEF JobReverts
<1> QED
  BY <1>7, <1>8, <1>9, <1>10, <1>11 DEF GearInv

\* A step that only changes what PinModeHandler is at.
LEMMA JobStep ==
  ASSUME GearInv, UNCHANGED <<running, attrs, torn, srv>>, itxn.pc # "idle",
         NEW job, JobTyped(job), itxn' = [itxn EXCEPT !.job = job], job.at # "none",
         itxn.pc = "apply" => itxn.job.at # "fill" /\ (itxn.job.at \in Creating <=> job.at \in Creating)
  PROVE  /\ GearTypeOK' /\ Recorded' /\ Restores' /\ Differs' /\ Changes' /\ Reaches' /\ Handled'
         /\ itxn'.pc = itxn.pc /\ itxn'.chg = itxn.chg /\ itxn'.k = itxn.k /\ itxn'.new = itxn.new
         /\ itxn'.undo = itxn.undo /\ itxn'.job = job
         /\ Objects' = Objects /\ Change' = Change /\ Excluded' = Excluded
<1>1. /\ GearTypeOK /\ itxn.pc \in {"apply", "revert"} /\ itxn.k \in Nat /\ itxn.undo \in Seq(UndoRec)
      /\ UNCHANGED <<running, srv>>
  BY DEF GearInv, GearTypeOK
<1>2. ItxnIs(itxn.pc, itxn.k, itxn.undo, job)
  BY DEF ItxnIs, GearInv, GearTypeOK
<1>3. Objects' = Objects
  BY DEF Objects
<1>4. attrs' \in [Objects' -> Attrs] /\ Objects' \subseteq Ifs /\ torn' \subseteq Ifs \X AllNames
  BY <1>3 DEF GearInv, GearTypeOK
<1>5. /\ GearTypeOK'
      /\ itxn'.pc = itxn.pc /\ itxn'.chg = itxn.chg /\ itxn'.k = itxn.k /\ itxn'.new = itxn.new
      /\ itxn'.undo = itxn.undo /\ itxn'.job = job
  BY <1>1, <1>2, <1>4, StepTyped, Zenon
<1>6. Recorded' /\ Restores' /\ Differs'
  BY <1>5, DeviceSame DEF GearInv
<1>7. Change' = Change /\ Excluded' = Excluded
  BY <1>5 DEF Change, Excluded
<1>8. Changes' /\ Reaches' /\ Handled'
  <2>1. CASE itxn.pc = "apply"
    <3>1. Busy' /\ (itxn.job.at \in Creating <=> itxn'.job.at \in Creating) /\ itxn.job.at # "fill"
      BY <1>5, <2>1 DEF Busy
    <3> QED
      BY <1>5, <3>1, ProgressSame DEF GearInv
  <2>2. CASE itxn.pc # "apply"
    BY <1>5, <2>2 DEF Changes, Reaches, Handled
  <2> QED
    BY <2>1, <2>2
<1> QED
  BY <1>3, <1>5, <1>6, <1>7, <1>8

\* revert of a pin-mode handler starts with what apply has created.
LEMMA RevertBegins == ASSUME GearInv, RevertStart, itxn.undo # <<>> PROVE GearInv'
<1> DEFINE job == JobOf("remove", Head(itxn.undo).back)
<1>1. /\ itxn.pc = "revert" /\ ~ Busy /\ UNCHANGED <<running, attrs, torn, srv>>
      /\ itxn' = [itxn EXCEPT !.job = job]
  BY DEF RevertStart, device
<1>2. 1 \in DOMAIN itxn.undo
  BY DEF GearInv, GearTypeOK
<1>3. /\ itxn.undo[1] \in UndoRec /\ Head(itxn.undo) = itxn.undo[1]
  BY <1>2, HeadTyped DEF GearInv
<1>4. JobTyped(job) /\ job.at = "remove" /\ job.todo = itxn.undo[1].back
  <2>1. "remove" \in {"none"} \cup Removing \cup Creating /\ Head(itxn.undo).back \in SUBSET Ifs
    BY <1>3 DEF Removing, UndoRec
  <2> QED
    BY <1>3, <2>1, JobIs
<1> HIDE DEF job
<1>5. /\ GearTypeOK' /\ Recorded' /\ Restores' /\ Differs' /\ Changes' /\ Reaches' /\ Handled'
      /\ itxn'.pc = "revert" /\ itxn'.undo = itxn.undo /\ itxn'.job = job /\ Objects' = Objects
  <2>1. itxn.pc # "idle" /\ job.at # "none" /\ ~(itxn.pc = "apply")
    BY <1>1, <1>4
  <2> QED
    BY <1>1, <1>4, <2>1, JobStep
<1>6. JobApplies'
  BY <1>5 DEF JobApplies
<1>7. JobReverts'
  BY <1>2, <1>4, <1>5 DEF JobReverts, Removing, Creating
<1> QED
  BY <1>5, <1>6, <1>7 DEF GearInv

\* The pin-mode handler looks up the mapping to remove an object, or finds none to remove.
LEMMA RemoveReadKeeps == ASSUME GearInv, RemoveRead PROVE GearInv'
<1>1. PICK i \in itxn.job.todo :
        itxn' = [itxn EXCEPT !.job =
          IF i \in Objects THEN [at |-> "unmap", todo |-> @.todo, i |-> i, map |-> Without(mapping, i)]
          ELSE JobOf("remove", @.todo \ {i})]
  BY DEF RemoveRead
<1>2. itxn.job.at = "remove" /\ UNCHANGED <<running, attrs, torn, srv>>
  BY DEF RemoveRead, device
<1>3. /\ itxn.job \in [at : {"none"} \cup Removing \cup Creating, todo : SUBSET Ifs, i : Ifs \cup {None}, map : {itxn.job.map}]
      /\ itxn.pc # "idle" /\ Busy /\ itxn.pc \in {"apply", "revert"}
      /\ itxn.job \in [at : {"remove"}, todo : SUBSET Ifs, i : Ifs \cup {None}, map : {itxn.job.map}]
  BY <1>2 DEF GearInv, GearTypeOK, Busy
<1> DEFINE job == IF i \in Objects
                  THEN [at |-> "unmap", todo |-> itxn.job.todo, i |-> i, map |-> Without(mapping, i)]
                  ELSE JobOf("remove", itxn.job.todo \ {i})
<1>4. itxn' = [itxn EXCEPT !.job = job]
  BY <1>1
<1>5. i \in Ifs
  BY <1>3
<1>6. /\ JobTyped(job) /\ job.at \in {"remove", "unmap"}
      /\ i \in Objects => job.at = "unmap" /\ job.todo = itxn.job.todo /\ job.i = i
      /\ i \notin Objects => job.at = "remove" /\ job.todo = itxn.job.todo \ {i}
  <2>1. "unmap" \in Removing /\ "remove" \in {"none"} \cup Removing \cup Creating
        /\ itxn.job.todo \in SUBSET Ifs /\ itxn.job.todo \ {i} \in SUBSET Ifs
    BY <1>3 DEF Removing
  <2>2. CASE i \in Objects
    <3>1. /\ job = [at |-> "unmap", todo |-> itxn.job.todo, i |-> i, map |-> Without(mapping, i)]
          /\ job.at = "unmap" /\ job.todo = itxn.job.todo /\ job.i = i
      BY <2>2
    <3> QED
      BY <1>5, <2>1, <2>2, <3>1 DEF JobTyped
  <2>3. CASE i \notin Objects
    <3>1. job = JobOf("remove", itxn.job.todo \ {i})
      BY <2>3
    <3> HIDE DEF job
    <3> QED
      BY <2>1, <2>3, <3>1, JobIs
  <2> QED
    BY <2>2, <2>3
<1> HIDE DEF job
<1>7. /\ GearTypeOK' /\ Recorded' /\ Restores' /\ Differs' /\ Changes' /\ Reaches' /\ Handled'
      /\ itxn'.pc = itxn.pc /\ itxn'.chg = itxn.chg /\ itxn'.k = itxn.k /\ itxn'.new = itxn.new
      /\ itxn'.undo = itxn.undo /\ itxn'.job = job
      /\ Objects' = Objects /\ Change' = Change /\ Excluded' = Excluded
  <2>1. job.at # "none" /\ job.at \notin Creating /\ itxn.job.at # "fill" /\ itxn.job.at \notin Creating
    BY <1>2, <1>6 DEF Creating
  <2> QED
    BY <1>2, <1>3, <1>4, <1>6, <2>1, JobStep
<1>8. JobApplies'
  <2> SUFFICES ASSUME itxn.pc = "apply" PROVE JobApplies'
    BY <1>7 DEF JobApplies
  <2>1. /\ itxn.k \in DOMAIN itxn.chg /\ Change.l = "pin"
        /\ 1 \in DOMAIN itxn.undo /\ itxn.undo[1].i = Change.i /\ itxn.undo[1].gone \subseteq Excluded
        /\ itxn.undo[1].names = {} /\ itxn.job.todo \subseteq Excluded
    BY <1>2, <1>3 DEF GearInv, JobApplies, Removing
  <2> QED
    BY <1>6, <1>7, <2>1 DEF JobApplies, Creating
<1>9. JobReverts'
  <2> SUFFICES ASSUME itxn.pc = "revert" PROVE JobReverts'
    BY <1>7 DEF JobReverts
  <2>1. /\ 1 \in DOMAIN itxn.undo /\ itxn.job.todo \subseteq itxn.undo[1].back
        /\ itxn.undo[1].back \cap Objects \subseteq itxn.job.todo
    BY <1>2, <1>3 DEF GearInv, JobReverts, Removing
  <2> QED
    BY <1>6, <1>7, <2>1 DEF JobReverts, Creating
<1> QED
  BY <1>7, <1>8, <1>9 DEF GearInv

\* What the job of a handler is, as long as there is one.
LEMMA BusyTyped ==
  ASSUME GearTypeOK, Busy
  PROVE  /\ itxn.job.at \in Removing \cup Creating /\ itxn.job.todo \in SUBSET Ifs /\ itxn.job.i \in Ifs \cup {None}
         /\ itxn.pc \in {"apply", "revert"}
  BY DEF GearTypeOK, Busy, Removing, Creating

\* The mapping is set without the interface.
LEMMA RemoveUnmapKeeps == ASSUME GearInv, RemoveUnmap PROVE GearInv'
<1> DEFINE job == [at |-> "drop", todo |-> itxn.job.todo, i |-> itxn.job.i, map |-> {}]
<1>1. itxn.job.at = "unmap" /\ Busy /\ itxn' = [itxn EXCEPT !.job = job] /\ UNCHANGED <<running, attrs, torn, srv>>
  BY DEF RemoveUnmap, Busy
<1>2. itxn.job.todo \in SUBSET Ifs /\ itxn.job.i \in Ifs \cup {None} /\ itxn.pc \in {"apply", "revert"}
  BY <1>1, BusyTyped DEF GearInv
<1>3. /\ job.at = "drop" /\ job.todo = itxn.job.todo /\ job.i = itxn.job.i /\ JobTyped(job)
      /\ "drop" \notin Creating /\ "unmap" \notin Creating /\ "drop" \in Removing /\ "unmap" \in Removing
  BY <1>2 DEF JobTyped, Removing, Creating
<1> HIDE DEF job
<1>4. /\ GearTypeOK' /\ Recorded' /\ Restores' /\ Differs' /\ Changes' /\ Reaches' /\ Handled'
      /\ itxn'.pc = itxn.pc /\ itxn'.chg = itxn.chg /\ itxn'.k = itxn.k /\ itxn'.new = itxn.new
      /\ itxn'.undo = itxn.undo /\ itxn'.job = job
      /\ Objects' = Objects /\ Change' = Change /\ Excluded' = Excluded
  <2>1. itxn.pc # "idle" /\ job.at # "none" /\ itxn.job.at # "fill"
        /\ (itxn.job.at \in Creating <=> job.at \in Creating)
    BY <1>1, <1>2, <1>3
  <2> QED
    BY <1>1, <1>3, <2>1, JobStep
<1>5. JobApplies'
  <2> SUFFICES ASSUME itxn.pc = "apply" PROVE JobApplies'
    BY <1>4 DEF JobApplies
  <2>1. /\ itxn.k \in DOMAIN itxn.chg /\ Change.l = "pin"
        /\ 1 \in DOMAIN itxn.undo /\ itxn.undo[1].i = Change.i /\ itxn.undo[1].gone \subseteq Excluded
        /\ itxn.undo[1].names = {} /\ itxn.job.todo \subseteq Excluded /\ itxn.job.i \in Excluded
    BY <1>1, <1>3 DEF GearInv, JobApplies
  <2> QED
    BY <1>3, <1>4, <2>1 DEF JobApplies
<1>6. JobReverts'
  <2> SUFFICES ASSUME itxn.pc = "revert" PROVE JobReverts'
    BY <1>4 DEF JobReverts
  <2>1. /\ 1 \in DOMAIN itxn.undo /\ itxn.job.todo \subseteq itxn.undo[1].back
        /\ itxn.undo[1].back \cap Objects \subseteq itxn.job.todo /\ itxn.job.i \in itxn.undo[1].back
    BY <1>1, <1>3 DEF GearInv, JobReverts
  <2> QED
    BY <1>3, <1>4, <2>1 DEF JobReverts
<1> QED
  BY <1>4, <1>5, <1>6 DEF GearInv

\* Nothing to restore: the pin-mode handler goes on to create what it removed.
LEMMA RevertSetKeeps == ASSUME GearInv, RevertSet PROVE GearInv'
<1> DEFINE job == JobOf("create", Head(itxn.undo).gone)
<1>1. /\ itxn.pc = "revert" /\ itxn.job.at = "remove" /\ Busy /\ itxn.job.todo = {} /\ ChangedBy(Head(itxn.undo)) = {}
      /\ itxn' = [itxn EXCEPT !.job = job] /\ UNCHANGED <<running, attrs, torn, srv>>
  BY DEF RevertSet, device, Busy
<1>2. 1 \in DOMAIN itxn.undo /\ itxn.undo[1].back \cap Objects \subseteq itxn.job.todo
  BY <1>1 DEF GearInv, JobReverts, Removing
<1>3. itxn.undo[1] \in UndoRec /\ Head(itxn.undo) = itxn.undo[1]
  BY <1>2, HeadTyped DEF GearInv
<1>4. JobTyped(job) /\ job.at = "create" /\ job.todo = itxn.undo[1].gone
  <2>1. "create" \in {"none"} \cup Removing \cup Creating /\ Head(itxn.undo).gone \in SUBSET Ifs
    BY <1>3 DEF Creating, UndoRec
  <2> QED
    BY <1>3, <2>1, JobIs
<1> HIDE DEF job
<1>5. /\ GearTypeOK' /\ Recorded' /\ Restores' /\ Differs' /\ Changes' /\ Reaches' /\ Handled'
      /\ itxn'.pc = "revert" /\ itxn'.undo = itxn.undo /\ itxn'.job = job /\ itxn'.new = itxn.new /\ Objects' = Objects
  <2>1. itxn.pc # "idle" /\ job.at # "none" /\ ~(itxn.pc = "apply")
    BY <1>1, <1>4
  <2> QED
    BY <1>1, <1>4, <2>1, JobStep
<1>6. JobApplies'
  BY <1>5 DEF JobApplies
<1>7. JobReverts'
  <2>1. ChangedBy(itxn.undo[1])' = {}
    BY <1>1, <1>3, <1>5 DEF ChangedBy
  <2> QED
    BY <1>1, <1>2, <1>4, <1>5, <2>1 DEF JobReverts, Removing, Creating
<1> QED
  BY <1>5, <1>6, <1>7 DEF GearInv

\* The default mapping is set, and the next object is to be created.
LEMMA CreateMapKeeps == ASSUME GearInv, CreateMap PROVE GearInv'
<1> DEFINE job == JobOf("create", itxn.job.todo)
<1>1. itxn.job.at = "map" /\ Busy /\ itxn' = [itxn EXCEPT !.job = job] /\ UNCHANGED <<running, attrs, torn, srv>>
  BY DEF CreateMap, Busy
<1>2. itxn.job.todo \in SUBSET Ifs /\ itxn.pc \in {"apply", "revert"}
  BY <1>1, BusyTyped DEF GearInv
<1>3. /\ job.at = "create" /\ job.todo = itxn.job.todo /\ JobTyped(job)
      /\ "create" \in Creating /\ "map" \in Creating /\ "create" \notin Removing
  <2>1. "create" \in {"none"} \cup Removing \cup Creating
    BY DEF Creating
  <2> QED
    BY <1>2, <2>1, JobIs DEF Creating, Removing
<1> HIDE DEF job
<1>4. /\ GearTypeOK' /\ Recorded' /\ Restores' /\ Differs' /\ Changes' /\ Reaches' /\ Handled'
      /\ itxn'.pc = itxn.pc /\ itxn'.chg = itxn.chg /\ itxn'.k = itxn.k /\ itxn'.new = itxn.new
      /\ itxn'.undo = itxn.undo /\ itxn'.job = job
      /\ Objects' = Objects /\ Change' = Change /\ Excluded' = Excluded
  <2>1. itxn.pc # "idle" /\ job.at # "none" /\ itxn.job.at # "fill"
        /\ (itxn.job.at \in Creating <=> job.at \in Creating)
    BY <1>1, <1>2, <1>3
  <2> QED
    BY <1>1, <1>3, <2>1, JobStep
<1>5. JobApplies'
  <2> SUFFICES ASSUME itxn.pc = "apply" PROVE JobApplies'
    BY <1>4 DEF JobApplies
  <2>1. /\ itxn.k \in DOMAIN itxn.chg /\ Change.l = "pin"
        /\ 1 \in DOMAIN itxn.undo /\ itxn.undo[1].i = Change.i /\ itxn.undo[1].gone \subseteq Excluded
        /\ Change.i \in Objects /\ itxn.job.todo \cap (Excluded \cup {Change.i}) = {}
    BY <1>1, <1>3 DEF GearInv, JobApplies
  <2> QED
    BY <1>3, <1>4, <2>1 DEF JobApplies
<1>6. JobReverts'
  <2> SUFFICES ASSUME itxn.pc = "revert" PROVE JobReverts'
    BY <1>4 DEF JobReverts
  <2>1. /\ 1 \in DOMAIN itxn.undo /\ ChangedBy(itxn.undo[1]) = {} /\ itxn.undo[1].gone \subseteq itxn.job.todo
        /\ \A j \in itxn.undo[1].back \cap Objects : Torn(j)
    BY <1>1, <1>3 DEF GearInv, JobReverts
  <2>2. ChangedBy(itxn.undo[1])' = {} /\ \A j : Torn(j)' <=> Torn(j)
    BY <1>1, <1>4, <2>1 DEF ChangedBy, Torn
  <2> QED
    BY <1>3, <1>4, <2>1, <2>2 DEF JobReverts
<1> QED
  BY <1>4, <1>5, <1>6 DEF GearInv

\* A step that changes the record of the handler that is at work.
LEMMA HeadStep ==
  ASSUME GearInv, Busy, 1 \in DOMAIN itxn.undo, NEW u \in UndoRec, NEW job, JobTyped(job),
         ItxnIs(itxn.pc, itxn.k, [itxn.undo EXCEPT ![1] = u], job),
         attrs' \in [Objects' -> Attrs], Objects' \subseteq Ifs, torn' \subseteq Ifs \X AllNames,
         UNCHANGED <<running, srv>>
  PROVE  /\ GearTypeOK'
         /\ itxn'.pc = itxn.pc /\ itxn'.chg = itxn.chg /\ itxn'.k = itxn.k /\ itxn'.new = itxn.new
         /\ itxn'.job = job /\ Change' = Change /\ Excluded' = Excluded
         /\ DOMAIN itxn'.undo = DOMAIN itxn.undo /\ itxn'.undo[1] = u
         /\ \A m \in DOMAIN itxn.undo : m \in Nat /\ m >= 1 /\ (m # 1 => itxn'.undo[m] = itxn.undo[m])
<1> DEFINE undo == [itxn.undo EXCEPT ![1] = u]
<1>1. Headed(u, itxn.undo, undo) /\ undo \in Seq(UndoRec)
  BY HeadIs DEF GearInv, GearTypeOK
<1>2. ItxnIs(itxn.pc, itxn.k, undo, job)
  OBVIOUS
<1> HIDE DEF undo
<1>3. GearTypeOK /\ itxn.pc \in {"apply", "revert"} /\ itxn.k \in Nat /\ itxn.pc # "idle"
  BY DEF GearInv, GearTypeOK
<1>4. /\ GearTypeOK'
      /\ itxn'.pc = itxn.pc /\ itxn'.chg = itxn.chg /\ itxn'.k = itxn.k /\ itxn'.new = itxn.new
      /\ itxn'.undo = undo /\ itxn'.job = job
  BY <1>1, <1>2, <1>3, StepTyped, Zenon
<1>5. Change' = Change /\ Excluded' = Excluded
  BY <1>4 DEF Change, Excluded
<1> QED
  BY <1>1, <1>4, <1>5 DEF Headed

\* The object is removed.
LEMMA RemoveDropKeeps == ASSUME GearAssumption, GearInv, RemoveDrop PROVE GearInv'
<1> DEFINE i == itxn.job.i
           job == JobOf("remove", itxn.job.todo \ {i})
           o == itxn.undo[1]
           u == IF itxn.pc = "apply" THEN [o EXCEPT !.gone = o.gone \cup {i}] ELSE [o EXCEPT !.back = o.back \ {i}]
<1>1. /\ itxn.job.at = "drop" /\ Busy /\ UNCHANGED <<running, torn, srv>>
      /\ attrs' = [j \in Objects \ {i} |-> attrs[j]]
      /\ itxn' = IF itxn.pc = "apply" THEN [itxn EXCEPT !.undo[1].gone = @ \cup {i}, !.job = job]
                 ELSE [itxn EXCEPT !.undo[1].back = @ \ {i}, !.job = job]
  BY DEF RemoveDrop, Busy
<1>2. itxn.job.todo \in SUBSET Ifs /\ itxn.pc \in {"apply", "revert"}
  BY <1>1, BusyTyped DEF GearInv
<1>3. JobTyped(job) /\ job.at = "remove" /\ job.todo = itxn.job.todo \ {i}
  <2>1. "remove" \in {"none"} \cup Removing \cup Creating /\ itxn.job.todo \ {i} \in SUBSET Ifs
    BY <1>2 DEF Removing
  <2> QED
    BY <2>1, JobIs
<1> HIDE DEF job
<1>4. ASSUME itxn.pc = "apply"
      PROVE  /\ itxn.k \in DOMAIN itxn.chg /\ Change.l = "pin"
             /\ 1 \in DOMAIN itxn.undo /\ o.i = Change.i /\ o.gone \subseteq Excluded
             /\ o.names = {} /\ itxn.job.todo \subseteq Excluded /\ i \in Excluded
             /\ Excluded \subseteq Ifs /\ Excluded \cap Configured(itxn.new) = {}
  <2>1. /\ itxn.k \in DOMAIN itxn.chg /\ Change.l = "pin"
        /\ 1 \in DOMAIN itxn.undo /\ o.i = Change.i /\ o.gone \subseteq Excluded
        /\ o.names = {} /\ itxn.job.todo \subseteq Excluded /\ i \in Excluded
    BY <1>1, <1>4 DEF GearInv, JobApplies, Removing
  <2>2. Applying
    BY <1>4, <2>1 DEF Applying, GearInv, GearTypeOK
  <2> QED
    BY <2>1, <2>2, ExcludedAt DEF GearInv
<1>5. ASSUME itxn.pc = "revert"
      PROVE  /\ 1 \in DOMAIN itxn.undo /\ itxn.job.todo \subseteq o.back /\ o.back \cap Objects \subseteq itxn.job.todo
             /\ i \in o.back
  BY <1>1, <1>5 DEF GearInv, JobReverts, Removing
<1>6. o \in UndoRec /\ 1 \in DOMAIN itxn.undo
  BY <1>2, <1>4, <1>5, HeadTyped DEF GearInv
<1>7. /\ u \in UndoRec /\ u.i = o.i /\ u.attrs = o.attrs /\ u.names = o.names
      /\ itxn.pc = "apply" => u.gone = o.gone \cup {i} /\ u.back = o.back
      /\ itxn.pc = "revert" => u.gone = o.gone /\ u.back = o.back \ {i}
  <2>1. CASE itxn.pc = "apply"
    BY <1>4, <1>6, <2>1 DEF UndoRec
  <2>2. CASE itxn.pc = "revert"
    BY <1>6, <2>2 DEF UndoRec
  <2> QED
    BY <1>2, <2>1, <2>2
<1>8. ItxnIs(itxn.pc, itxn.k, [itxn.undo EXCEPT ![1] = u], job)
  <2>1. GearTypeOK
    BY DEF GearInv
  <2>2. CASE itxn.pc = "apply"
    BY <1>1, <1>6, <2>1, <2>2 DEF ItxnIs, GearTypeOK
  <2>3. CASE itxn.pc = "revert"
    BY <1>1, <1>6, <2>1, <2>3 DEF ItxnIs, GearTypeOK
  <2> QED
    BY <1>2, <2>2, <2>3
<1> HIDE DEF o, u, i
<1>9. Objects' = Objects \ {i} /\ \A j \in Objects' : attrs'[j] = attrs[j]
  BY <1>1 DEF Objects
<1>10. attrs' \in [Objects' -> Attrs] /\ Objects' \subseteq Ifs /\ torn' \subseteq Ifs \X AllNames
  BY <1>1, <1>9 DEF GearInv, GearTypeOK
<1>11. /\ GearTypeOK'
       /\ itxn'.pc = itxn.pc /\ itxn'.chg = itxn.chg /\ itxn'.k = itxn.k /\ itxn'.new = itxn.new
       /\ itxn'.job = job /\ Change' = Change /\ Excluded' = Excluded
       /\ DOMAIN itxn'.undo = DOMAIN itxn.undo /\ itxn'.undo[1] = u
       /\ \A m \in DOMAIN itxn.undo : m \in Nat /\ m >= 1 /\ (m # 1 => itxn'.undo[m] = itxn.undo[m])
  <2>1. UNCHANGED <<running, srv>>
    BY <1>1
  <2> QED
    BY <1>1, <1>3, <1>6, <1>7, <1>8, <1>10, <2>1, HeadStep
<1>12. \A j : (Torn(j)' <=> Torn(j)) /\ (Unchanged(j)' <=> Unchanged(j))
  BY <1>1, <1>11 DEF Torn, Unchanged
<1>13. Configured(running)' = Configured(running) /\ Configured(itxn.new)' = Configured(itxn.new)
  BY <1>1, <1>11 DEF Configured
<1>14. \A m \in DOMAIN itxn.undo : \A j : j \in itxn.undo[m].gone =>
         j \in itxn'.undo[m].gone
  BY <1>2, <1>7, <1>11 DEF o
<1>15. Recorded'
  <2> SUFFICES ASSUME NEW j \in Configured(running)
               PROVE  j \in Objects' \/ Torn(j) \/ \E m \in DOMAIN itxn.undo : j \in itxn'.undo[m].gone
    BY <1>11, <1>12, <1>13 DEF Recorded
  <2>1. CASE j # i
    BY <1>9, <1>14, <2>1 DEF GearInv, Recorded
  <2>2. CASE j = i /\ itxn.pc = "apply"
    BY <1>6, <1>7, <1>11, <2>2
  <2>3. CASE j = i /\ itxn.pc = "revert"
    <3>1. j \in itxn.undo[1].back \cap Configured(running)
      BY <1>5, <2>3 DEF o
    <3>2. Torn(j) \/ \E h \in DOMAIN itxn.undo : h > 1 /\ j \in itxn.undo[h].gone
      BY <1>6, <3>1 DEF GearInv, Restores
    <3> QED
      BY <1>14, <3>2
  <2> QED
    BY <1>2, <2>1, <2>2, <2>3
<1>16. Restores'
  <2> SUFFICES ASSUME NEW m \in DOMAIN itxn.undo, NEW j \in itxn'.undo[m].back \cap Configured(running)
               PROVE  Torn(j) \/ \E h \in DOMAIN itxn.undo : h > m /\ j \in itxn'.undo[h].gone
    BY <1>11, <1>12, <1>13 DEF Restores
  <2>1. j \in itxn.undo[m].back
    BY <1>2, <1>7, <1>11 DEF o
  <2> QED
    BY <1>14, <2>1 DEF GearInv, Restores
<1>17. Differs'
  <2> SUFFICES ASSUME NEW j \in Objects', NEW n \in AllNames
               PROVE  \/ <<j, n>> \in torn \/ attrs'[j][n] = Wanted(running[j])[n]
                      \/ \E m \in DOMAIN itxn.undo : Sets(itxn'.undo[m], itxn.new, j, n)
    BY <1>1, <1>11 DEF Differs
  <2>1. \A m \in DOMAIN itxn.undo : Sets(itxn.undo[m], itxn.new, j, n) => Sets(itxn'.undo[m], itxn.new, j, n)
    <3> SUFFICES ASSUME NEW m \in DOMAIN itxn.undo, m = 1
                 PROVE  Sets(o, itxn.new, j, n) => Sets(u, itxn.new, j, n)
      BY <1>11 DEF o
    <3> QED
      BY <1>2, <1>7, <1>9 DEF Sets
  <2> QED
    BY <1>9, <2>1 DEF GearInv, Differs
<1>18. Changes'
  <2> SUFFICES ASSUME itxn.pc = "apply" PROVE Changes'
    BY <1>11 DEF Changes
  <2>1. Busy'
    BY <1>3, <1>11 DEF Busy
  <2>2. \A n \in DOMAIN itxn.chg : itxn.chg[n].i \in Objects \/ itxn.chg[n].i \in Excluded =>
          itxn.chg[n].i \in Objects' \/ itxn.chg[n].i \in Excluded
    BY <1>4, <1>9
  <2> QED
    BY <1>1, <1>11, <2>1, <2>2 DEF GearInv, Changes
<1>19. Reaches'
  <2> SUFFICES ASSUME itxn.pc = "apply", NEW j \in Configured(itxn.new)
               PROVE  j \in Objects' \/ (Torn(j) /\ Unchanged(j))
    BY <1>11, <1>12, <1>13 DEF Reaches
  <2>1. j # i
    BY <1>4
  <2> QED
    BY <1>9, <2>1 DEF GearInv, Reaches
<1>20. Handled'
  <2> SUFFICES ASSUME itxn.pc = "apply", NEW j \in Objects', NEW n \in AllNames
               PROVE  IF Applied(j, n)' THEN attrs'[j][n] = Wanted(itxn'.new[j])[n]
                      ELSE <<j, n>> \in torn' \/ attrs'[j][n] = Wanted(running'[j])[n]
    BY <1>11 DEF Handled
  <2>1. Applied(j, n)' <=> Applied(j, n)
    BY <1>1, <1>3, <1>11 DEF Applied, Creating
  <2>2. ~ Unfilled(j)
    BY <1>1 DEF Unfilled
  <2> QED
    BY <1>1, <1>9, <1>11, <2>1, <2>2 DEF GearInv, Handled
<1>21. JobApplies'
  <2> SUFFICES ASSUME itxn.pc = "apply" PROVE JobApplies'
    BY <1>11 DEF JobApplies
  <2> QED
    BY <1>3, <1>4, <1>7, <1>11 DEF JobApplies, Removing, Creating
<1>22. JobReverts'
  <2> SUFFICES ASSUME itxn.pc = "revert" PROVE JobReverts'
    BY <1>11 DEF JobReverts
  <2> QED
    BY <1>3, <1>5, <1>7, <1>9, <1>11 DEF JobReverts, Removing, Creating
<1> QED
  BY <1>11, <1>15, <1>16, <1>17, <1>18, <1>19, <1>20, <1>21, <1>22 DEF GearInv

\* The objects after a handler has set its attributes.
LEMMA Configured1At ==
  ASSUME GearTypeOK, NEW e \in ChangeRec, e.i \in Objects
  PROVE  /\ Configured1(e) \in [Objects -> Attrs] /\ DOMAIN Configured1(e) = Objects
         /\ \A i \in Objects : i # e.i => Configured1(e)[i] = attrs[i]
         /\ \A n \in AllNames : Configured1(e)[e.i][n] =
              IF n \in AttrNames[e.l] THEN Wanted(itxn.new[e.i])[n] ELSE attrs[e.i][n]
<1>1. attrs \in [Objects -> Attrs] /\ e.i \in Ifs
  BY DEF GearTypeOK, ChangeRec
<1>2. itxn.new[e.i] \in IfConfig
  BY <1>1 DEF GearTypeOK, Config
<1>3. Wanted(itxn.new[e.i]) \in Attrs /\ attrs[e.i] \in Attrs
  BY <1>1, <1>2, WantedTyped
<1> DEFINE a == SetAttrs(attrs[e.i], AttrNames[e.l], Wanted(itxn.new[e.i]))
<1>4. a \in Attrs /\ \A n \in AllNames : a[n] = IF n \in AttrNames[e.l] THEN Wanted(itxn.new[e.i])[n] ELSE attrs[e.i][n]
  BY <1>3, SetAttrsAt
<1>5. Configured1(e) = [attrs EXCEPT ![e.i] = a]
  BY DEF Configured1
<1> HIDE DEF a
<1> QED
  BY <1>1, <1>4, <1>5

\* The pin-mode handler sets its attribute, once the objects it excludes are gone.
LEMMA PinSetKeeps == ASSUME GearAssumption, GearInv, PinSet PROVE GearInv'
<1> DEFINE job == JobOf("create", Back(Change))
           o == itxn.undo[1]
           u == [o EXCEPT !.attrs = attrs[Change.i], !.names = {"pin"}]
<1>1. /\ itxn.pc = "apply" /\ itxn.job.at = "remove" /\ Busy /\ Change.i \in Objects
      /\ UNCHANGED <<running, torn, srv>> /\ attrs' = Configured1(Change)
      /\ itxn' = [itxn EXCEPT !.undo[1].attrs = attrs[Change.i], !.undo[1].names = {"pin"}, !.job = job]
  BY DEF PinSet, Busy
<1>2. /\ itxn.k \in DOMAIN itxn.chg /\ Change.l = "pin"
      /\ 1 \in DOMAIN itxn.undo /\ o.i = Change.i /\ o.gone \subseteq Excluded /\ o.names = {}
  BY <1>1 DEF GearInv, JobApplies, Removing
<1>3. Applying
  BY <1>1, <1>2 DEF Applying, GearInv, GearTypeOK
<1>4. /\ Change \in ChangeRec /\ Back(Change) \in SUBSET Ifs /\ Back(Change) \cap (Excluded \cup {Change.i}) = {}
  BY <1>3, AtWork, ExcludedAt DEF GearInv
<1>5. JobTyped(job) /\ job.at = "create" /\ job.todo = Back(Change)
  <2>1. "create" \in {"none"} \cup Removing \cup Creating
    BY DEF Creating
  <2> QED
    BY <1>4, <2>1, JobIs
<1> HIDE DEF job
<1>6. o \in UndoRec
  BY <1>2, HeadTyped DEF GearInv
<1>7. u \in UndoRec /\ u.i = o.i /\ u.attrs = attrs[Change.i] /\ u.names = {"pin"} /\ u.gone = o.gone /\ u.back = o.back
  <2>1. attrs[Change.i] \in Attrs /\ "pin" \in AllNames
    BY <1>1 DEF GearInv, GearTypeOK, AllNames, Reconciled
  <2> QED
    BY <1>6, <2>1 DEF UndoRec
<1>8. ItxnIs(itxn.pc, itxn.k, [itxn.undo EXCEPT ![1] = u], job)
  <2>1. GearTypeOK
    BY DEF GearInv
  <2> QED
    BY <1>1, <1>2, <1>6, <2>1 DEF ItxnIs, GearTypeOK
<1> HIDE DEF o, u
<1>9. /\ Configured1(Change) \in [Objects -> Attrs] /\ DOMAIN Configured1(Change) = Objects
      /\ \A i \in Objects : i # Change.i => attrs'[i] = attrs[i]
      /\ \A n \in AllNames : attrs'[Change.i][n] =
              IF n \in AttrNames["pin"] THEN Wanted(itxn.new[Change.i])[n] ELSE attrs[Change.i][n]
  BY <1>1, <1>2, <1>4, Configured1At DEF GearInv
<1>10. Objects' = Objects /\ attrs' \in [Objects' -> Attrs] /\ Objects' \subseteq Ifs /\ torn' \subseteq Ifs \X AllNames
  BY <1>1, <1>9 DEF GearInv, GearTypeOK, Objects
<1>11. /\ GearTypeOK'
       /\ itxn'.pc = itxn.pc /\ itxn'.chg = itxn.chg /\ itxn'.k = itxn.k /\ itxn'.new = itxn.new
       /\ itxn'.job = job /\ Change' = Change /\ Excluded' = Excluded
       /\ DOMAIN itxn'.undo = DOMAIN itxn.undo /\ itxn'.undo[1] = u
       /\ \A m \in DOMAIN itxn.undo : m \in Nat /\ m >= 1 /\ (m # 1 => itxn'.undo[m] = itxn.undo[m])
  <2>1. UNCHANGED <<running, srv>>
    BY <1>1
  <2> QED
    BY <1>1, <1>2, <1>5, <1>7, <1>8, <1>10, <2>1, HeadStep
<1>12. \A j : (Torn(j)' <=> Torn(j)) /\ (Unchanged(j)' <=> Unchanged(j))
  BY <1>1, <1>11 DEF Torn, Unchanged
<1>13. Configured(running)' = Configured(running) /\ Configured(itxn.new)' = Configured(itxn.new)
  BY <1>1, <1>11 DEF Configured
<1>14. \A m \in DOMAIN itxn.undo : itxn'.undo[m].gone = itxn.undo[m].gone /\ itxn'.undo[m].back = itxn.undo[m].back
  BY <1>7, <1>11 DEF o
<1>15. Recorded'
  BY <1>10, <1>11, <1>12, <1>13, <1>14 DEF GearInv, Recorded
<1>16. Restores'
  BY <1>11, <1>12, <1>13, <1>14 DEF GearInv, Restores
<1>17. Differs'
  <2> SUFFICES ASSUME NEW j \in Objects, NEW n \in AllNames
               PROVE  \/ <<j, n>> \in torn \/ attrs'[j][n] = Wanted(running[j])[n]
                      \/ \E m \in DOMAIN itxn.undo : Sets(itxn'.undo[m], itxn.new, j, n)
    BY <1>1, <1>10, <1>11 DEF Differs
  <2>1. CASE attrs'[j][n] = attrs[j][n]
    <3>1. \A m \in DOMAIN itxn.undo : Sets(itxn.undo[m], itxn.new, j, n) => Sets(itxn'.undo[m], itxn.new, j, n)
      <4> SUFFICES ASSUME NEW m \in DOMAIN itxn.undo, m = 1
                   PROVE  Sets(o, itxn.new, j, n) => Sets(u, itxn.new, j, n)
        BY <1>11 DEF o
      <4> QED
        BY <1>2, <1>7 DEF Sets
    <3> QED
      BY <2>1, <3>1 DEF GearInv, Differs
  <2>2. CASE attrs'[j][n] # attrs[j][n]
    <3>1. j = Change.i /\ n \in AttrNames["pin"] /\ attrs'[j][n] = Wanted(itxn.new[j])[n]
      BY <1>9, <2>2
    <3>2. n = "pin"
      BY <3>1 DEF AttrNames
    <3>3. Sets(u, itxn.new, j, n)
      BY <1>2, <1>7, <2>2, <3>1, <3>2 DEF Sets
    <3> QED
      BY <1>2, <1>11, <3>3
  <2> QED
    BY <2>1, <2>2
<1>18. Changes'
  <2>1. Busy'
    BY <1>5, <1>11 DEF Busy
  <2> QED
    BY <1>1, <1>10, <1>11, <2>1 DEF GearInv, Changes
<1>19. Reaches'
  BY <1>10, <1>11, <1>12, <1>13 DEF GearInv, Reaches
<1>20. Handled'
  <2> SUFFICES ASSUME NEW j \in Objects', NEW n \in AllNames
               PROVE  IF Applied(j, n)' THEN attrs'[j][n] = Wanted(itxn'.new[j])[n]
                      ELSE <<j, n>> \in torn' \/ attrs'[j][n] = Wanted(running'[j])[n]
    BY <1>11 DEF Handled
  <2>1. Applied(j, n)' <=> Applied(j, n) \/ (Change.i = j /\ n \in AttrNames["pin"])
    <3>1. itxn.job.at \notin Creating /\ itxn'.job.at \in Creating
      BY <1>1, <1>5, <1>11 DEF Creating
    <3> QED
      BY <1>2, <1>11, <3>1 DEF Applied, Change
  <2>2. ~ Unfilled(j)
    BY <1>1 DEF Unfilled
  <2>3. IF Applied(j, n) THEN attrs[j][n] = Wanted(itxn.new[j])[n]
        ELSE <<j, n>> \in torn \/ attrs[j][n] = Wanted(running[j])[n]
    BY <1>1, <1>10, <2>2 DEF GearInv, Handled
  <2>4. CASE Change.i = j /\ n \in AttrNames["pin"]
    BY <1>9, <1>11, <2>1, <2>4
  <2>5. CASE ~(Change.i = j /\ n \in AttrNames["pin"])
    <3>1. attrs'[j][n] = attrs[j][n]
      BY <1>9, <1>10, <2>5
    <3> QED
      BY <1>1, <1>11, <2>1, <2>3, <2>5, <3>1
  <2> QED
    BY <2>4, <2>5
<1>21. JobApplies'
  BY <1>1, <1>2, <1>4, <1>5, <1>7, <1>10, <1>11 DEF JobApplies, Removing, Creating
<1>22. JobReverts'
  BY <1>1, <1>11 DEF JobReverts
<1> QED
  BY <1>11, <1>15, <1>16, <1>17, <1>18, <1>19, <1>20, <1>21, <1>22 DEF GearInv

\* An object is created.
LEMMA CreateObjectKeeps == ASSUME GearAssumption, GearInv, CreateObject PROVE GearInv'
<1>1. /\ itxn.job.at = "create" /\ Busy /\ UNCHANGED <<running, srv>>
      /\ \E i \in itxn.job.todo \ Objects : \E m :
           /\ attrs' = [j \in Objects \cup {i} |-> IF j = i THEN Fresh ELSE attrs[j]]
           /\ LET job == [at |-> "fill", todo |-> itxn.job.todo \ {i}, i |-> i, map |-> m] IN
              itxn' = IF itxn.pc = "apply" THEN [itxn EXCEPT !.undo[1].back = @ \cup {i}, !.job = job]
                      ELSE [itxn EXCEPT !.undo[1].gone = @ \ {i}, !.job = job]
           /\ torn' = IF itxn.pc = "apply" THEN torn ELSE torn \cup ({i} \X AllNames)
  BY Zenon DEF CreateObject, Busy
<1>1a. PICK i \in itxn.job.todo \ Objects : \E m :
           /\ attrs' = [j \in Objects \cup {i} |-> IF j = i THEN Fresh ELSE attrs[j]]
           /\ LET job == [at |-> "fill", todo |-> itxn.job.todo \ {i}, i |-> i, map |-> m] IN
              itxn' = IF itxn.pc = "apply" THEN [itxn EXCEPT !.undo[1].back = @ \cup {i}, !.job = job]
                      ELSE [itxn EXCEPT !.undo[1].gone = @ \ {i}, !.job = job]
           /\ torn' = IF itxn.pc = "apply" THEN torn ELSE torn \cup ({i} \X AllNames)
  BY <1>1
<1>2. PICK map :
           /\ attrs' = [j \in Objects \cup {i} |-> IF j = i THEN Fresh ELSE attrs[j]]
           /\ LET job == [at |-> "fill", todo |-> itxn.job.todo \ {i}, i |-> i, map |-> map] IN
              itxn' = IF itxn.pc = "apply" THEN [itxn EXCEPT !.undo[1].back = @ \cup {i}, !.job = job]
                      ELSE [itxn EXCEPT !.undo[1].gone = @ \ {i}, !.job = job]
           /\ torn' = IF itxn.pc = "apply" THEN torn ELSE torn \cup ({i} \X AllNames)
  BY <1>1a
<1> DEFINE job == [at |-> "fill", todo |-> itxn.job.todo \ {i}, i |-> i, map |-> map]
           o == itxn.undo[1]
           u == IF itxn.pc = "apply" THEN [o EXCEPT !.back = o.back \cup {i}] ELSE [o EXCEPT !.gone = o.gone \ {i}]
<1>3. /\ attrs' = [j \in Objects \cup {i} |-> IF j = i THEN Fresh ELSE attrs[j]]
      /\ itxn' = IF itxn.pc = "apply" THEN [itxn EXCEPT !.undo[1].back = @ \cup {i}, !.job = job]
                 ELSE [itxn EXCEPT !.undo[1].gone = @ \ {i}, !.job = job]
      /\ torn' = IF itxn.pc = "apply" THEN torn ELSE torn \cup ({i} \X AllNames)
  BY <1>2
<1>4. itxn.job.todo \in SUBSET Ifs /\ itxn.pc \in {"apply", "revert"} /\ i \in Ifs /\ i \notin Objects
  BY <1>1, BusyTyped DEF GearInv
<1>5. JobTyped(job) /\ job.at = "fill" /\ job.todo = itxn.job.todo \ {i} /\ job.i = i
  BY <1>4 DEF JobTyped, Creating
<1> HIDE DEF job
<1>6. ASSUME itxn.pc = "apply"
      PROVE  /\ itxn.k \in DOMAIN itxn.chg /\ Change.l = "pin"
             /\ 1 \in DOMAIN itxn.undo /\ o.i = Change.i /\ o.gone \subseteq Excluded
             /\ Change.i \in Objects /\ itxn.job.todo \cap (Excluded \cup {Change.i}) = {}
             /\ itxn.k \in {1, 2} /\ DOMAIN itxn.chg \subseteq {1, 2}
  <2>1. /\ itxn.k \in DOMAIN itxn.chg /\ Change.l = "pin"
        /\ 1 \in DOMAIN itxn.undo /\ o.i = Change.i /\ o.gone \subseteq Excluded
        /\ Change.i \in Objects /\ itxn.job.todo \cap (Excluded \cup {Change.i}) = {}
    BY <1>1, <1>6 DEF GearInv, JobApplies, Creating
  <2>2. Applying
    BY <1>6, <2>1 DEF Applying, GearInv, GearTypeOK
  <2> QED
    BY <2>1, <2>2, AtWork DEF GearInv
<1>7. ASSUME itxn.pc = "revert"
      PROVE  /\ 1 \in DOMAIN itxn.undo /\ ChangedBy(o) = {} /\ o.gone \subseteq itxn.job.todo
             /\ \A j \in o.back \cap Objects : Torn(j)
  BY <1>1, <1>7 DEF GearInv, JobReverts, Creating
<1>8. o \in UndoRec /\ 1 \in DOMAIN itxn.undo
  BY <1>4, <1>6, <1>7, HeadTyped DEF GearInv
<1>9. /\ u \in UndoRec /\ u.i = o.i /\ u.attrs = o.attrs /\ u.names = o.names
      /\ itxn.pc = "apply" => u.gone = o.gone /\ u.back = o.back \cup {i}
      /\ itxn.pc = "revert" => u.gone = o.gone \ {i} /\ u.back = o.back
  <2>1. CASE itxn.pc = "apply"
    BY <1>4, <1>8, <2>1 DEF UndoRec
  <2>2. CASE itxn.pc = "revert"
    BY <1>8, <2>2 DEF UndoRec
  <2> QED
    BY <1>4, <2>1, <2>2
<1>10. ItxnIs(itxn.pc, itxn.k, [itxn.undo EXCEPT ![1] = u], job)
  <2>1. GearTypeOK
    BY DEF GearInv
  <2>2. CASE itxn.pc = "apply"
    BY <1>3, <1>8, <2>1, <2>2 DEF ItxnIs, GearTypeOK
  <2>3. CASE itxn.pc = "revert"
    BY <1>3, <1>8, <2>1, <2>3 DEF ItxnIs, GearTypeOK
  <2> QED
    BY <1>4, <2>2, <2>3
<1> HIDE DEF o, u
<1>11. Objects' = Objects \cup {i} /\ \A j \in Objects : attrs'[j] = attrs[j]
  BY <1>3, <1>4 DEF Objects
<1>12. /\ attrs' \in [Objects' -> Attrs] /\ Objects' \subseteq Ifs /\ torn' \subseteq Ifs \X AllNames
  BY <1>3, <1>4, <1>11, FreshTyped DEF GearInv, GearTypeOK
<1>13. /\ GearTypeOK'
       /\ itxn'.pc = itxn.pc /\ itxn'.chg = itxn.chg /\ itxn'.k = itxn.k /\ itxn'.new = itxn.new
       /\ itxn'.job = job /\ Change' = Change /\ Excluded' = Excluded
       /\ DOMAIN itxn'.undo = DOMAIN itxn.undo /\ itxn'.undo[1] = u
       /\ \A m \in DOMAIN itxn.undo : m \in Nat /\ m >= 1 /\ (m # 1 => itxn'.undo[m] = itxn.undo[m])
  BY <1>1, <1>5, <1>8, <1>9, <1>10, <1>12, HeadStep
<1>14. /\ torn \subseteq torn' /\ \A j : (Torn(j) => Torn(j)') /\ (Unchanged(j)' <=> Unchanged(j))
       /\ itxn.pc = "revert" => Torn(i)'
       /\ itxn.pc = "apply" => torn' = torn /\ Torn(i)' = Torn(i)
  BY <1>3, <1>13 DEF Torn, Unchanged
<1>15. Configured(running)' = Configured(running) /\ Configured(itxn.new)' = Configured(itxn.new)
  BY <1>1, <1>13 DEF Configured
<1>16. \A m \in DOMAIN itxn.undo : \A j : j # i /\ j \in itxn.undo[m].gone => j \in itxn'.undo[m].gone
  BY <1>4, <1>9, <1>13 DEF o
<1>17. Recorded'
  <2> SUFFICES ASSUME NEW j \in Configured(running)
               PROVE  j \in Objects' \/ Torn(j)' \/ \E m \in DOMAIN itxn.undo : j \in itxn'.undo[m].gone
    BY <1>13, <1>15 DEF Recorded
  <2> QED
    BY <1>11, <1>14, <1>16 DEF GearInv, Recorded
<1>18. Restores'
  <2> SUFFICES ASSUME NEW m \in DOMAIN itxn.undo, NEW j \in itxn'.undo[m].back \cap Configured(running)
               PROVE  Torn(j)' \/ \E h \in DOMAIN itxn.undo : h > m /\ j \in itxn'.undo[h].gone
    BY <1>13, <1>15 DEF Restores
  <2>1. CASE j # i
    <3>1. j \in itxn.undo[m].back
      BY <1>4, <1>9, <1>13, <2>1 DEF o
    <3>2. Torn(j) \/ \E h \in DOMAIN itxn.undo : h > m /\ j \in itxn.undo[h].gone
      BY <3>1 DEF GearInv, Restores
    <3> QED
      BY <1>14, <1>16, <2>1, <3>2
  <2>2. CASE j = i /\ itxn.pc = "revert"
    BY <1>14, <2>2
  <2>3. CASE j = i /\ itxn.pc = "apply" /\ m = 1
    <3>1. Torn(i) \/ \E h \in DOMAIN itxn.undo : i \in itxn.undo[h].gone
      BY <1>4, <2>3 DEF GearInv, Recorded
    <3>2. i \notin itxn.undo[1].gone
      BY <1>6, <2>3 DEF o
    <3>3. \A h \in DOMAIN itxn.undo : i \in itxn.undo[h].gone => h > 1 /\ i \in itxn'.undo[h].gone
      BY <1>13, <3>2
    <3> QED
      BY <1>14, <2>3, <3>1, <3>3
  <2>4. CASE j = i /\ itxn.pc = "apply" /\ m # 1
    <3>1. j \in itxn.undo[m].back
      BY <1>13, <2>4
    <3>2. Torn(j) \/ \E h \in DOMAIN itxn.undo : h > m /\ j \in itxn.undo[h].gone
      BY <3>1 DEF GearInv, Restores
    <3>3. \A h \in DOMAIN itxn.undo : h > m => itxn'.undo[h] = itxn.undo[h]
      BY <1>13
    <3> QED
      BY <1>14, <2>4, <3>2, <3>3
  <2> QED
    BY <1>4, <2>1, <2>2, <2>3, <2>4
<1>19. Differs'
  <2> SUFFICES ASSUME NEW j \in Objects', NEW n \in AllNames
               PROVE  \/ <<j, n>> \in torn' \/ attrs'[j][n] = Wanted(running[j])[n]
                      \/ \E m \in DOMAIN itxn.undo : Sets(itxn'.undo[m], itxn.new, j, n)
    BY <1>1, <1>13 DEF Differs
  <2>1. CASE j \in Objects
    <3>1. \A m \in DOMAIN itxn.undo : Sets(itxn.undo[m], itxn.new, j, n) => Sets(itxn'.undo[m], itxn.new, j, n)
      <4> SUFFICES ASSUME NEW m \in DOMAIN itxn.undo, m = 1
                   PROVE  Sets(o, itxn.new, j, n) => Sets(u, itxn.new, j, n)
        BY <1>13 DEF o
      <4> QED
        BY <1>4, <1>9 DEF Sets
    <3>2. \/ <<j, n>> \in torn \/ attrs[j][n] = Wanted(running[j])[n]
          \/ \E m \in DOMAIN itxn.undo : Sets(itxn.undo[m], itxn.new, j, n)
      BY <2>1 DEF GearInv, Differs
    <3> QED
      BY <1>11, <1>14, <2>1, <3>1, <3>2
  <2>2. CASE j = i /\ itxn.pc = "apply"
    <3>1. Sets(itxn'.undo[1], itxn.new, j, n)
      BY <1>9, <1>13, <2>2 DEF Sets
    <3> QED
      BY <1>8, <3>1
  <2>3. CASE j = i /\ itxn.pc = "revert"
    BY <1>14, <2>3 DEF Torn
  <2> QED
    BY <1>4, <1>11, <2>1, <2>2, <2>3
<1>20. Changes'
  <2>1. Busy'
    BY <1>5, <1>13 DEF Busy
  <2>2. CASE itxn.pc = "apply"
    BY <1>1, <1>11, <1>13, <2>1, <2>2 DEF GearInv, Changes
  <2>3. CASE itxn.pc = "revert"
    BY <1>13, <2>3 DEF Changes
  <2> QED
    BY <1>4, <2>2, <2>3
<1>21. Reaches'
  <2> SUFFICES ASSUME itxn.pc = "apply", NEW j \in Configured(itxn.new)
               PROVE  j \in Objects' \/ (Torn(j)' /\ Unchanged(j)')
    BY <1>13, <1>15 DEF Reaches
  <2> QED
    BY <1>11, <1>14 DEF GearInv, Reaches
<1>22. Handled'
  <2> SUFFICES ASSUME itxn.pc = "apply", NEW j \in Objects', ~ Unfilled(j)', NEW n \in AllNames
               PROVE  IF Applied(j, n)' THEN attrs'[j][n] = Wanted(itxn'.new[j])[n]
                      ELSE <<j, n>> \in torn' \/ attrs'[j][n] = Wanted(running'[j])[n]
    BY <1>13 DEF Handled
  <2>1. j # i
    BY <1>5, <1>13 DEF Unfilled
  <2>2. Applied(j, n)' <=> Applied(j, n)
    BY <1>1, <1>5, <1>13 DEF Applied, Creating
  <2>3. ~ Unfilled(j)
    BY <1>1 DEF Unfilled
  <2> QED
    BY <1>1, <1>11, <1>13, <1>14, <2>1, <2>2, <2>3 DEF GearInv, Handled
<1>23. JobApplies'
  <2> SUFFICES ASSUME itxn.pc = "apply" PROVE JobApplies'
    BY <1>13 DEF JobApplies
  <2>1. Unchanged(i)
    <3>1. i \notin Excluded /\ i # Change.i
      BY <1>4, <1>6
    <3>2. \A n \in DOMAIN itxn.chg : n = itxn.k \/ itxn.chg[n].i \in Objects \/ itxn.chg[n].i \in Excluded
      BY <1>6 DEF GearInv, Changes
    <3> QED
      BY <1>4, <3>1, <3>2 DEF Unchanged, Change
  <2>2. ASSUME i \in Configured(running) PROVE Torn(i)
    <3>1. \A l \in Leaves : running[i][l] = itxn.new[i][l]
      BY <1>4, <2>1 DEF GearInv, Changes, Unchanged
    <3>2. i \in Configured(itxn.new)
      BY <2>2, <3>1 DEF Configured
    <3> QED
      BY <1>4, <3>2 DEF GearInv, Reaches
  <2>3. i \in itxn'.undo[1].back /\ i \in Objects' /\ Change.i \in Objects'
    BY <1>6, <1>9, <1>11, <1>13
  <2>4. Unchanged(i)' /\ (i \in Configured(running)' => Torn(i)')
    BY <1>14, <1>15, <2>1, <2>2
  <2>5. itxn'.job.i = i /\ itxn'.job.at = "fill" /\ itxn'.job.todo \cap (Excluded' \cup {Change'.i}) = {}
    BY <1>5, <1>6, <1>13
  <2>6. /\ itxn'.k \in DOMAIN itxn'.chg /\ Change'.l = "pin"
        /\ 1 \in DOMAIN itxn'.undo /\ itxn'.undo[1].i = Change'.i /\ itxn'.undo[1].gone \subseteq Excluded'
    BY <1>6, <1>9, <1>13
  <2>7. Change'.i \in Objects'
    BY <1>13, <2>3
  <2> QED
    BY <2>3, <2>4, <2>5, <2>6, <2>7 DEF JobApplies, Removing, Creating
<1>24. JobReverts'
  <2> SUFFICES ASSUME itxn.pc = "revert" PROVE JobReverts'
    BY <1>13 DEF JobReverts
  <2>1. ChangedBy(itxn.undo[1])' = {}
    BY <1>7, <1>9, <1>13 DEF ChangedBy
  <2>2. itxn'.undo[1].gone \subseteq itxn'.job.todo
    BY <1>5, <1>7, <1>9, <1>13
  <2>3. \A j \in itxn'.undo[1].back \cap Objects' : Torn(j)'
    BY <1>7, <1>9, <1>11, <1>13, <1>14
  <2>4. itxn'.job.at = "fill" /\ itxn'.job.i \in Objects' /\ Torn(itxn.job.i)'
    BY <1>5, <1>11, <1>13, <1>14 DEF Torn
  <2> QED
    BY <1>7, <1>13, <2>1, <2>2, <2>3, <2>4 DEF JobReverts, Removing, Creating
<1> QED
  BY <1>13, <1>17, <1>18, <1>19, <1>20, <1>21, <1>22, <1>23, <1>24 DEF GearInv

\* The attributes of the new object are set.
LEMMA CreateFillKeeps == ASSUME GearInv, CreateFill PROVE GearInv'
<1> DEFINE i == itxn.job.i
           job == [at |-> "map", todo |-> itxn.job.todo, i |-> i, map |-> itxn.job.map]
<1>1. /\ itxn.job.at = "fill" /\ Busy /\ UNCHANGED <<running, torn, srv>>
      /\ attrs' = [attrs EXCEPT ![i] = NewAttrs(i)] /\ itxn' = [itxn EXCEPT !.job = job]
  BY DEF CreateFill, Busy
<1>2. itxn.job.todo \in SUBSET Ifs /\ i \in Ifs \cup {None} /\ itxn.pc \in {"apply", "revert"} /\ itxn.pc # "idle"
  BY <1>1, BusyTyped DEF GearInv
<1>3. JobTyped(job) /\ job.at = "map" /\ job.todo = itxn.job.todo
  BY <1>2 DEF JobTyped, Creating
<1> HIDE DEF job
<1>4. ASSUME itxn.pc = "apply"
      PROVE  /\ itxn.k \in DOMAIN itxn.chg /\ Change.l = "pin"
             /\ 1 \in DOMAIN itxn.undo /\ itxn.undo[1].i = Change.i /\ itxn.undo[1].gone \subseteq Excluded
             /\ Change.i \in Objects /\ itxn.job.todo \cap (Excluded \cup {Change.i}) = {}
             /\ i \in Objects /\ i \in itxn.undo[1].back /\ Unchanged(i) /\ (i \in Configured(running) => Torn(i))
  BY <1>1, <1>4 DEF GearInv, JobApplies, Creating
<1>5. ASSUME itxn.pc = "revert"
      PROVE  /\ 1 \in DOMAIN itxn.undo /\ ChangedBy(itxn.undo[1]) = {} /\ itxn.undo[1].gone \subseteq itxn.job.todo
             /\ \A j \in itxn.undo[1].back \cap Objects : Torn(j)
             /\ i \in Objects /\ Torn(i)
  BY <1>1, <1>5 DEF GearInv, JobReverts, Creating
<1>6. /\ i \in Ifs /\ i \in Objects /\ attrs \in [Objects -> Attrs] /\ Objects \subseteq Ifs
      /\ running \in Config /\ itxn.new \in Config
  BY <1>2, <1>4, <1>5 DEF GearInv, GearTypeOK
<1>7. /\ NewAttrs(i) \in Attrs
      /\ (itxn.new[i] = running[i] /\ i \notin Configured(running)) => NewAttrs(i) = Wanted(running[i])
  BY <1>6, NewAttrsAt
<1> HIDE DEF i
<1>8. /\ Objects' = Objects /\ attrs' \in [Objects -> Attrs] /\ attrs'[i] = NewAttrs(i)
      /\ \A j \in Objects : j # i => attrs'[j] = attrs[j]
  BY <1>1, <1>6, <1>7 DEF Objects
<1>9. /\ GearTypeOK'
      /\ itxn'.pc = itxn.pc /\ itxn'.chg = itxn.chg /\ itxn'.k = itxn.k /\ itxn'.new = itxn.new
      /\ itxn'.undo = itxn.undo /\ itxn'.job = job
  <2>1. /\ GearTypeOK /\ itxn.k \in Nat /\ itxn.undo \in Seq(UndoRec) /\ UNCHANGED <<running, srv>>
        /\ ItxnIs(itxn.pc, itxn.k, itxn.undo, job)
        /\ attrs' \in [Objects' -> Attrs] /\ Objects' \subseteq Ifs /\ torn' \subseteq Ifs \X AllNames
    BY <1>1, <1>6, <1>8 DEF GearInv, GearTypeOK, ItxnIs
  <2> QED
    BY <1>2, <1>3, <2>1, StepTyped, Zenon
<1>10. Change' = Change /\ Excluded' = Excluded
  BY <1>9 DEF Change, Excluded
<1>11. \A j : (Torn(j)' <=> Torn(j)) /\ (Unchanged(j)' <=> Unchanged(j))
  BY <1>1, <1>9 DEF Torn, Unchanged
<1>12. Configured(running)' = Configured(running) /\ Configured(itxn.new)' = Configured(itxn.new)
  BY <1>1, <1>9 DEF Configured
<1>13. Recorded' /\ Restores'
  BY <1>8, <1>9, <1>11, <1>12 DEF GearInv, Recorded, Restores
<1>14. Differs'
  <2> SUFFICES ASSUME NEW j \in Objects, NEW n \in AllNames
               PROVE  \/ <<j, n>> \in torn \/ attrs'[j][n] = Wanted(running[j])[n]
                      \/ \E m \in DOMAIN itxn.undo : Sets(itxn.undo[m], itxn.new, j, n)
    BY <1>1, <1>8, <1>9 DEF Differs
  <2>1. CASE j # i
    BY <1>8, <2>1 DEF GearInv, Differs
  <2>2. CASE j = i /\ itxn.pc = "apply"
    BY <1>4, <2>2 DEF Sets
  <2>3. CASE j = i /\ itxn.pc = "revert"
    BY <1>5, <2>3 DEF Torn
  <2> QED
    BY <1>2, <2>1, <2>2, <2>3
<1>15. Changes' /\ Reaches'
  <2>1. Busy'
    BY <1>3, <1>9 DEF Busy
  <2> QED
    BY <1>1, <1>8, <1>9, <1>10, <1>11, <1>12, <2>1 DEF GearInv, Changes, Reaches
<1>16. Handled'
  <2> SUFFICES ASSUME itxn.pc = "apply", NEW j \in Objects', NEW n \in AllNames
               PROVE  IF Applied(j, n)' THEN attrs'[j][n] = Wanted(itxn'.new[j])[n]
                      ELSE <<j, n>> \in torn' \/ attrs'[j][n] = Wanted(running'[j])[n]
    BY <1>9 DEF Handled
  <2>1. Applied(j, n)' <=> Applied(j, n)
    BY <1>1, <1>3, <1>9 DEF Applied, Creating
  <2>2. CASE j # i
    <3>1. ~ Unfilled(j)
      BY <2>2 DEF Unfilled, i
    <3> QED
      BY <1>1, <1>8, <1>9, <2>1, <2>2, <3>1 DEF GearInv, Handled
  <2>3. CASE j = i
    <3>1. ~ Applied(i, n)
      BY <1>4 DEF Applied, Unchanged
    <3>2. itxn.new[i] = running[i]
      <4>1. \A l \in Leaves : itxn.new[i][l] = running[i][l]
        BY <1>4, <1>6 DEF GearInv, Changes, Unchanged
      <4>2. itxn.new[i] \in [Leaves -> Vals] /\ running[i] \in [Leaves -> Vals]
        BY <1>6 DEF Config, IfConfig
      <4> QED
        BY <4>1, <4>2
    <3>3. CASE i \in Configured(running)
      BY <1>1, <1>4, <2>1, <2>3, <3>1, <3>3 DEF Torn
    <3>4. CASE i \notin Configured(running)
      BY <1>1, <1>7, <1>8, <2>1, <2>3, <3>1, <3>2, <3>4
    <3> QED
      BY <3>3, <3>4
  <2> QED
    BY <2>2, <2>3
<1>17. JobApplies'
  <2> SUFFICES ASSUME itxn.pc = "apply" PROVE JobApplies'
    BY <1>9 DEF JobApplies
  <2> QED
    BY <1>3, <1>4, <1>8, <1>9, <1>10 DEF JobApplies, Removing, Creating
<1>18. JobReverts'
  <2> SUFFICES ASSUME itxn.pc = "revert" PROVE JobReverts'
    BY <1>9 DEF JobReverts
  <2>1. ChangedBy(itxn.undo[1])' = {}
    BY <1>5, <1>9 DEF ChangedBy
  <2> QED
    BY <1>3, <1>5, <1>8, <1>9, <1>11, <2>1 DEF JobReverts, Removing, Creating
<1> QED
  BY <1>9, <1>13, <1>14, <1>15, <1>16, <1>17, <1>18 DEF GearInv

\* apply() of a pin-mode handler ends.
LEMMA PinEndApplies == ASSUME GearAssumption, GearInv, PinEnd, itxn.pc = "apply" PROVE GearInv'
<1>1. /\ itxn.job.at = "create" /\ Busy /\ UNCHANGED <<running, attrs, torn, srv>>
      /\ itxn' = [itxn EXCEPT !.k = @ + 1, !.job = NoJob]
  BY DEF PinEnd, device, Busy
<1>2. itxn.k \in DOMAIN itxn.chg /\ Change.i \in Objects
  BY <1>1 DEF GearInv, JobApplies, Creating
<1>3. JobTyped(NoJob) /\ NoJob.at = "none"
  BY JobIs DEF NoJob
<1>4. Objects' = Objects
  BY <1>1 DEF Objects
<1>5. /\ GearTypeOK'
      /\ itxn'.pc = "apply" /\ itxn'.chg = itxn.chg /\ itxn'.k = itxn.k + 1 /\ itxn'.new = itxn.new
      /\ itxn'.undo = itxn.undo /\ itxn'.job = NoJob
  <2>1. /\ GearTypeOK /\ itxn.undo \in Seq(UndoRec) /\ UNCHANGED <<running, srv>>
        /\ itxn.pc # "idle" /\ "apply" \in {"apply", "revert"}
        /\ attrs' \in [Objects' -> Attrs] /\ Objects' \subseteq Ifs /\ torn' \subseteq Ifs \X AllNames
    BY <1>1, <1>4 DEF GearInv, GearTypeOK
  <2>2. itxn.k + 1 \in Nat
    BY DEF GearInv, GearTypeOK
  <2>3. ItxnIs("apply", itxn.k + 1, itxn.undo, NoJob)
    BY <1>1 DEF GearInv, GearTypeOK, ItxnIs
  <2> QED
    BY <1>3, <2>1, <2>2, <2>3, StepTyped, Zenon
<1>6. Recorded' /\ Restores' /\ Differs'
  BY <1>1, <1>5, DeviceSame DEF GearInv
<1>7. Changes'
  <2>1. itxn.k \in Nat /\ itxn.k >= 1
    BY DEF GearInv, GearTypeOK, Changes
  <2>2. itxn.k + 1 # 1 /\ itxn.k + 1 >= 1 /\ (itxn.k + 1 = 2 => itxn.k = 1)
    BY <2>1
  <2>3. itxn.k = 1 => itxn.chg[1].i \in Objects
    BY <1>2 DEF Change
  <2> QED
    BY <1>1, <1>4, <1>5, <2>2, <2>3 DEF GearInv, Changes
<1>8. Reaches'
  <2>1. \A j : (Torn(j)' <=> Torn(j)) /\ (Unchanged(j)' <=> Unchanged(j))
    BY <1>1, <1>5 DEF Torn, Unchanged
  <2>2. Configured(itxn.new)' = Configured(itxn.new)
    BY <1>5 DEF Configured
  <2> QED
    BY <1>4, <1>5, <2>1, <2>2 DEF GearInv, Reaches
<1>9. Handled'
  <2> SUFFICES ASSUME NEW j \in Objects', NEW n \in AllNames
               PROVE  IF Applied(j, n)' THEN attrs'[j][n] = Wanted(itxn'.new[j])[n]
                      ELSE <<j, n>> \in torn' \/ attrs'[j][n] = Wanted(running'[j])[n]
    BY <1>5 DEF Handled
  <2>1. Applied(j, n)' <=> Applied(j, n)
    <3>1. itxn.k \in Nat /\ \A m \in DOMAIN itxn.chg : m \in Nat
      BY DEF GearInv, GearTypeOK
    <3>2. \A m \in DOMAIN itxn.chg : m < itxn.k + 1 <=> m < itxn.k \/ m = itxn.k
      BY <3>1
    <3> QED
      BY <1>1, <1>3, <1>5, <3>2 DEF Applied, Creating
  <2>2. ~ Unfilled(j)
    BY <1>1 DEF Unfilled
  <2> QED
    BY <1>1, <1>4, <1>5, <2>1, <2>2 DEF GearInv, Handled
<1>10. JobApplies' /\ JobReverts'
  BY <1>3, <1>5 DEF JobApplies, JobReverts, Busy
<1> QED
  BY <1>5, <1>6, <1>7, <1>8, <1>9, <1>10 DEF GearInv

\* revert() of one does: what it did is undone.
LEMMA PinEndReverts == ASSUME GearInv, PinEnd, itxn.pc = "revert" PROVE GearInv'
<1> DEFINE o == itxn.undo[1]
           undo == Tail(itxn.undo)
<1>1. /\ itxn.job.at = "create" /\ Busy /\ itxn.job.todo = {} /\ UNCHANGED <<running, attrs, torn, srv>>
      /\ itxn' = [itxn EXCEPT !.undo = undo, !.job = NoJob]
  BY DEF PinEnd, device, Busy
<1>2. /\ 1 \in DOMAIN itxn.undo /\ ChangedBy(o) = {} /\ o.gone = {} /\ \A j \in o.back \cap Objects : Torn(j)
  BY <1>1 DEF GearInv, JobReverts, Creating
<1>3. o \in UndoRec /\ Pushed(o, undo, itxn.undo) /\ undo \in Seq(UndoRec)
  BY <1>2, HeadTyped DEF GearInv
<1> HIDE DEF o, undo
<1>4. JobTyped(NoJob) /\ NoJob.at = "none"
  BY JobIs DEF NoJob
<1>5. /\ GearTypeOK'
      /\ itxn'.pc = "revert" /\ itxn'.chg = itxn.chg /\ itxn'.k = itxn.k /\ itxn'.new = itxn.new
      /\ itxn'.undo = undo /\ itxn'.job = NoJob
  <2>1. Objects' = Objects
    BY <1>1 DEF Objects
  <2>2. /\ GearTypeOK /\ itxn.k \in Nat /\ UNCHANGED <<running, srv>>
        /\ ItxnIs("revert", itxn.k, undo, NoJob) /\ itxn.pc # "idle" /\ "revert" \in {"apply", "revert"}
        /\ attrs' \in [Objects' -> Attrs] /\ Objects' \subseteq Ifs /\ torn' \subseteq Ifs \X AllNames
    BY <1>1, <2>1 DEF GearInv, GearTypeOK, ItxnIs
  <2> QED
    BY <1>3, <1>4, <2>2, StepTyped, Zenon
<1>6. Recorded' /\ Restores' /\ Differs'
  <2>1. \A i \in Objects : \A n \in AllNames : Sets(o, itxn.new, i, n) => <<i, n>> \in torn'
    BY <1>1, <1>2 DEF Sets, ChangedBy, Torn
  <2> QED
    BY <1>1, <1>2, <1>3, <1>5, <2>1, DevicePopped DEF GearInv
<1>7. Changes' /\ Reaches' /\ Handled'
  BY <1>5 DEF Changes, Reaches, Handled
<1>8. JobApplies' /\ JobReverts'
  BY <1>4, <1>5 DEF JobApplies, JobReverts, Busy
<1> QED
  BY <1>5, <1>6, <1>7, <1>8 DEF GearInv

\* A handler of the other kind sets its attributes.
LEMMA ApplyKeeps == ASSUME GearAssumption, GearInv, Apply PROVE GearInv'
<1> DEFINE u == Entry(Change, AttrNames[Change.l])
           undo == <<u>> \o itxn.undo
<1>1. /\ Applying /\ Change.l # "pin" /\ Change.i \in Objects /\ UNCHANGED <<running, torn, srv>>
      /\ attrs' = Configured1(Change) /\ itxn' = [itxn EXCEPT !.k = @ + 1, !.undo = undo]
  BY DEF Apply
<1>2. /\ itxn.pc = "apply" /\ itxn.k \in DOMAIN itxn.chg /\ Change \in ChangeRec
  BY <1>1, AtWork DEF GearInv
<1>3. ~ Busy
  BY <1>1, <1>2 DEF GearInv, JobApplies
<1>4. /\ u \in UndoRec /\ u.i = Change.i /\ u.attrs = attrs[Change.i] /\ u.names = AttrNames[Change.l]
      /\ u.gone = {} /\ u.back = {}
  <2>1. attrs[Change.i] \in Attrs /\ AttrNames[Change.l] \subseteq AllNames
    BY <1>1, <1>2 DEF GearInv, GearTypeOK, ChangeRec, AttrNames, AllNames, Reconciled, Leaves
  <2> QED
    BY <1>1, <1>2, <2>1 DEF Entry, UndoRec, ChangeRec
<1>5. Pushed(u, itxn.undo, undo) /\ undo \in Seq(UndoRec)
  BY <1>4, PushIs DEF GearInv, GearTypeOK
<1> HIDE DEF u, undo
<1>6. /\ Configured1(Change) \in [Objects -> Attrs] /\ DOMAIN Configured1(Change) = Objects
      /\ \A i \in Objects : i # Change.i => attrs'[i] = attrs[i]
      /\ \A n \in AllNames : attrs'[Change.i][n] =
              IF n \in AttrNames[Change.l] THEN Wanted(itxn.new[Change.i])[n] ELSE attrs[Change.i][n]
  BY <1>1, <1>2, Configured1At DEF GearInv
<1>7. Objects' = Objects
  BY <1>1, <1>6 DEF Objects
<1>8. JobTyped(itxn.job)
  BY DEF GearInv, GearTypeOK, JobTyped
<1>9. /\ GearTypeOK'
      /\ itxn'.pc = "apply" /\ itxn'.chg = itxn.chg /\ itxn'.k = itxn.k + 1 /\ itxn'.new = itxn.new
      /\ itxn'.undo = undo /\ itxn'.job = itxn.job
  <2>1. /\ GearTypeOK /\ UNCHANGED <<running, srv>>
        /\ itxn.pc # "idle" /\ "apply" \in {"apply", "revert"}
        /\ attrs' \in [Objects' -> Attrs] /\ Objects' \subseteq Ifs /\ torn' \subseteq Ifs \X AllNames
    BY <1>1, <1>2, <1>6, <1>7 DEF GearInv, GearTypeOK
  <2>2. itxn.k + 1 \in Nat
    BY DEF GearInv, GearTypeOK
  <2>3. ItxnIs("apply", itxn.k + 1, undo, itxn.job)
    BY <1>1, <1>2 DEF GearInv, GearTypeOK, ItxnIs
  <2> QED
    BY <1>5, <1>8, <2>1, <2>2, <2>3, StepTyped, Zenon
<1>10. Recorded' /\ Restores' /\ Differs'
  <2>1. \A i \in Objects : \A n \in AllNames : attrs'[i][n] = attrs[i][n] \/ Sets(u, itxn.new, i, n)
    <3> SUFFICES ASSUME NEW i \in Objects, NEW n \in AllNames, attrs'[i][n] # attrs[i][n]
                 PROVE  Sets(u, itxn.new, i, n)
      OBVIOUS
    <3>1. i = Change.i /\ n \in AttrNames[Change.l] /\ attrs'[i][n] = Wanted(itxn.new[i])[n]
      BY <1>6
    <3> QED
      BY <1>4, <3>1 DEF Sets
  <2> QED
    BY <1>1, <1>4, <1>5, <1>7, <1>9, <2>1, DevicePushed DEF GearInv
<1>11. Changes'
  <2>1. itxn.k \in Nat /\ itxn.k >= 1
    BY <1>2 DEF GearInv, GearTypeOK, Changes
  <2>2. itxn.k + 1 # 1 /\ itxn.k + 1 >= 1 /\ (itxn.k + 1 = 2 => itxn.k = 1)
    BY <2>1
  <2>3. itxn.k = 1 => itxn.chg[1].i \in Objects
    BY <1>1 DEF Change
  <2> QED
    BY <1>1, <1>2, <1>7, <1>9, <2>2, <2>3 DEF GearInv, Changes
<1>12. Reaches'
  <2>1. \A j : (Torn(j)' <=> Torn(j)) /\ (Unchanged(j)' <=> Unchanged(j))
    BY <1>1, <1>9 DEF Torn, Unchanged
  <2>2. Configured(itxn.new)' = Configured(itxn.new)
    BY <1>9 DEF Configured
  <2> QED
    BY <1>2, <1>7, <1>9, <2>1, <2>2 DEF GearInv, Reaches
<1>13. Handled'
  <2> SUFFICES ASSUME NEW j \in Objects', NEW n \in AllNames
               PROVE  IF Applied(j, n)' THEN attrs'[j][n] = Wanted(itxn'.new[j])[n]
                      ELSE <<j, n>> \in torn' \/ attrs'[j][n] = Wanted(running'[j])[n]
    BY <1>9 DEF Handled
  <2>1. itxn.job.at \notin Creating /\ ~ Unfilled(j)
    BY <1>3 DEF Busy, Creating, Unfilled
  <2>2. Applied(j, n)' <=> Applied(j, n) \/ (j = Change.i /\ n \in AttrNames[Change.l])
    <3>1. itxn.k \in Nat /\ \A m \in DOMAIN itxn.chg : m \in Nat
      BY DEF GearInv, GearTypeOK
    <3>2. \A m \in DOMAIN itxn.chg : m < itxn.k + 1 <=> m < itxn.k \/ m = itxn.k
      BY <3>1
    <3>3. itxn'.job.at \notin Creating
      BY <1>9, <2>1
    <3> QED
      BY <1>2, <1>9, <2>1, <3>2, <3>3 DEF Applied, Change
  <2>3. IF Applied(j, n) THEN attrs[j][n] = Wanted(itxn.new[j])[n]
        ELSE <<j, n>> \in torn \/ attrs[j][n] = Wanted(running[j])[n]
    BY <1>2, <1>7, <2>1 DEF GearInv, Handled
  <2>4. CASE j = Change.i /\ n \in AttrNames[Change.l]
    BY <1>6, <1>9, <2>2, <2>4
  <2>5. CASE ~(j = Change.i /\ n \in AttrNames[Change.l])
    <3>1. attrs'[j][n] = attrs[j][n]
      BY <1>6, <1>7, <2>5
    <3> QED
      BY <1>1, <1>9, <2>2, <2>3, <2>5, <3>1
  <2> QED
    BY <2>4, <2>5
<1>14. JobApplies' /\ JobReverts'
  BY <1>3, <1>9 DEF JobApplies, JobReverts, Busy
<1> QED
  BY <1>9, <1>10, <1>11, <1>12, <1>13, <1>14 DEF GearInv

\* What torn names of one handler, and of all of them.
LeftOf(u) == ({u.i} \X ChangedBy(u)) \cup ((u.gone \cup u.back) \X AllNames)
LEMMA LeftOfHas ==
  ASSUME NEW u \in UndoRec
  PROVE  /\ LeftOf(u) \subseteq Ifs \X AllNames
         /\ \A i \in Ifs : \A n \in AllNames :
              /\ Sets(u, itxn.new, i, n) => <<i, n>> \in LeftOf(u)
              /\ i \in u.gone => <<i, n>> \in LeftOf(u)
<1>1. u.i \in Ifs /\ u.names \subseteq AllNames /\ u.gone \subseteq Ifs /\ u.back \subseteq Ifs
  BY DEF UndoRec
<1>2. LeftOf(u) \subseteq Ifs \X AllNames
  BY <1>1 DEF LeftOf, ChangedBy
<1>3. ASSUME NEW i \in Ifs, NEW n \in AllNames
      PROVE  /\ Sets(u, itxn.new, i, n) => <<i, n>> \in LeftOf(u)
             /\ i \in u.gone => <<i, n>> \in LeftOf(u)
  BY DEF Sets, ChangedBy, LeftOf
<1> QED
  BY <1>2, <1>3
LEMMA LeftIs ==
  /\ \A undo, p : p \in Left(undo) <=> \E m \in DOMAIN undo : p \in LeftOf(undo[m])
  /\ \A u : Left(<<u>>) = LeftOf(u)
<1>1. \A undo, p : p \in Left(undo) <=> \E m \in DOMAIN undo : p \in LeftOf(undo[m])
  BY DEF Left, LeftOf
<1>2. ASSUME NEW u PROVE Left(<<u>>) = LeftOf(u)
  <2>1. DOMAIN <<u>> = {1} /\ <<u>>[1] = u
    OBVIOUS
  <2> QED
    BY <1>1, <2>1
<1> QED
  BY <1>1, <1>2
LEMMA LeftHas ==
  ASSUME GearTypeOK
  PROVE  /\ Left(itxn.undo) \subseteq Ifs \X AllNames
         /\ \A m \in DOMAIN itxn.undo : \A i \in Ifs : \A n \in AllNames :
              /\ Sets(itxn.undo[m], itxn.new, i, n) => <<i, n>> \in Left(itxn.undo)
              /\ i \in itxn.undo[m].gone => <<i, n>> \in Left(itxn.undo)
<1>1. \A m \in DOMAIN itxn.undo : itxn.undo[m] \in UndoRec
  BY DEF GearTypeOK
<1> QED
  BY <1>1, LeftIs, LeftOfHas

\* A handler fails: those before it are to be reverted, and torn names what it has left.
LEMMA ApplyFailsKeeps == ASSUME GearInv, ApplyFails PROVE GearInv'
<1> DEFINE undo == IF Busy THEN Tail(itxn.undo) ELSE itxn.undo
           left == IF Busy THEN Left(<<Head(itxn.undo)>>) ELSE {}
<1>1. /\ itxn.pc = "apply" /\ UNCHANGED <<running, attrs, srv>> /\ torn' = torn \cup left
      /\ itxn' = [itxn EXCEPT !.pc = "revert", !.undo = undo, !.job = NoJob]
  BY DEF ApplyFails, Applying, device
<1>2. ASSUME Busy
      PROVE  /\ itxn.undo[1] \in UndoRec /\ left = LeftOf(itxn.undo[1])
             /\ Pushed(itxn.undo[1], undo, itxn.undo) /\ undo \in Seq(UndoRec)
  <2>1. 1 \in DOMAIN itxn.undo
    BY <1>1, <1>2 DEF GearInv, JobApplies
  <2>2. /\ itxn.undo[1] \in UndoRec /\ Head(itxn.undo) = itxn.undo[1]
        /\ Pushed(itxn.undo[1], Tail(itxn.undo), itxn.undo) /\ Tail(itxn.undo) \in Seq(UndoRec)
    BY <2>1, HeadTyped DEF GearInv
  <2> QED
    BY <1>2, <2>2, LeftIs
<1>3. ~ Busy => left = {} /\ undo = itxn.undo /\ undo \in Seq(UndoRec)
  BY DEF GearInv, GearTypeOK
<1> HIDE DEF undo, left
<1>4. left \subseteq Ifs \X AllNames
  BY <1>2, <1>3, LeftOfHas
<1>5. JobTyped(NoJob) /\ NoJob.at = "none"
  BY JobIs DEF NoJob
<1>6. Objects' = Objects /\ Objects \subseteq Ifs
  BY <1>1 DEF Objects, GearInv, GearTypeOK
<1>7. /\ GearTypeOK'
      /\ itxn'.pc = "revert" /\ itxn'.chg = itxn.chg /\ itxn'.k = itxn.k /\ itxn'.new = itxn.new
      /\ itxn'.undo = undo /\ itxn'.job = NoJob
  <2>1. /\ GearTypeOK /\ itxn.k \in Nat /\ UNCHANGED <<running, srv>> /\ undo \in Seq(UndoRec)
        /\ itxn.pc # "idle" /\ "revert" \in {"apply", "revert"}
        /\ attrs' \in [Objects' -> Attrs] /\ Objects' \subseteq Ifs /\ torn' \subseteq Ifs \X AllNames
    BY <1>1, <1>2, <1>3, <1>4, <1>6 DEF GearInv, GearTypeOK
  <2>2. ItxnIs("revert", itxn.k, undo, NoJob)
    BY <1>1 DEF GearInv, GearTypeOK, ItxnIs
  <2> QED
    BY <1>5, <2>1, <2>2, StepTyped, Zenon
<1>8. Recorded' /\ Restores' /\ Differs'
  <2>1. CASE ~ Busy
    <3>1. torn' = torn
      BY <1>1, <1>3, <2>1
    <3> QED
      BY <1>1, <1>3, <1>7, <2>1, <3>1, DeviceSame DEF GearInv
  <2>2. CASE Busy
    <3>1. /\ itxn.undo[1] \in UndoRec /\ LeftOf(itxn.undo[1]) \subseteq torn' /\ torn \subseteq torn'
          /\ Pushed(itxn.undo[1], itxn'.undo, itxn.undo)
      BY <1>1, <1>2, <1>7, <2>2
    <3>2. \A i \in Ifs : \A n \in AllNames :
            /\ Sets(itxn.undo[1], itxn.new, i, n) => <<i, n>> \in torn'
            /\ i \in itxn.undo[1].gone => <<i, n>> \in torn'
      BY <3>1, LeftOfHas
    <3>3. \A i \in itxn.undo[1].gone : Torn(i)'
      BY <3>1, <3>2 DEF Torn, UndoRec
    <3> QED
      BY <1>1, <1>6, <1>7, <3>1, <3>2, <3>3, DevicePopped DEF GearInv
  <2> QED
    BY <2>1, <2>2
<1>9. Changes' /\ Reaches' /\ Handled'
  BY <1>7 DEF Changes, Reaches, Handled
<1>10. JobApplies' /\ JobReverts'
  BY <1>5, <1>7 DEF JobApplies, JobReverts, Busy
<1> QED
  BY <1>7, <1>8, <1>9, <1>10 DEF GearInv

\* Outside a transaction nothing is left to revert.
LEMMA AtRestSettled ==
  ASSUME GearInv, itxn.undo = <<>>
  PROVE  /\ \A i \in Configured(running) : i \in Objects \/ Torn(i)
         /\ \A i \in Objects : \A n \in AllNames :
              <<i, n>> \in torn \/ attrs[i][n] = Wanted(running[i])[n]
<1>1. DOMAIN itxn.undo = {}
  OBVIOUS
<1> QED
  BY <1>1 DEF GearInv, Recorded, Differs

\* _init and validate of a transaction.
LEMMA BeginKeeps ==
  ASSUME GearInv, NEW chg \in Seq(ChangeRec), NEW new \in Config, Len(chg) <= 2,
         \A i \in Ifs : \A l \in Leaves :
           running[i][l] # new[i][l] => \E n \in DOMAIN chg : chg[n].i = i /\ chg[n].l = l,
         Begin(chg, new)
  PROVE  GearInv'
<1>1. /\ srv = "up" /\ itxn.pc = "idle" /\ UNCHANGED <<running, attrs, srv, torn>>
      /\ \A n \in DOMAIN chg : chg[n].i \in Objects /\ NoConflict(new, chg[n].i, chg[n].l)
      /\ itxn' = [pc |-> "apply", chg |-> chg, k |-> 1, new |-> new, undo |-> <<>>, job |-> NoJob]
  BY DEF Begin, device, Idle
<1>2. itxn.undo = <<>>
  BY <1>1 DEF GearInv, GearTypeOK
<1>3. /\ \A i \in Configured(running) : i \in Objects \/ Torn(i)
      /\ \A i \in Objects : \A n \in AllNames :
              <<i, n>> \in torn \/ attrs[i][n] = Wanted(running[i])[n]
  BY <1>2, AtRestSettled
<1>4. /\ itxn'.pc = "apply" /\ itxn'.chg = chg /\ itxn'.k = 1 /\ itxn'.new = new /\ itxn'.undo = <<>>
      /\ itxn'.job = NoJob /\ itxn'.undo \in Seq(UndoRec) /\ DOMAIN itxn'.undo = {}
      /\ itxn' \in [pc : {"idle", "apply", "revert"}, chg : Seq(ChangeRec), k : Nat, new : Config, undo : Seq(UndoRec), job : {NoJob}]
  BY <1>1
<1>5. /\ Objects' = Objects /\ running' = running /\ attrs' = attrs /\ torn' = torn /\ srv' = "up"
      /\ \A i : Torn(i)' <=> Torn(i)
  BY <1>1 DEF Objects, Torn
<1>a. JobTyped(NoJob) /\ NoJob.at = "none"
  BY JobIs DEF NoJob
<1>6. GearTypeOK'
  BY <1>4, <1>5, <1>a DEF GearInv, GearTypeOK, JobTyped
<1>7. Recorded' /\ Restores' /\ Differs'
  BY <1>3, <1>4, <1>5 DEF Recorded, Restores, Differs
<1>8. Changes'
  BY <1>1, <1>4, <1>5 DEF Changes
<1>9. Reaches'
  <2> SUFFICES ASSUME NEW i \in Configured(new), i \notin Objects
               PROVE  Torn(i) /\ \A n \in DOMAIN chg : chg[n].i # i
    BY <1>4, <1>5 DEF Reaches, Unchanged
  <2>1. \A n \in DOMAIN chg : chg[n].i # i
    BY <1>1
  <2>2. i \in Ifs /\ \A l \in Leaves : running[i][l] = new[i][l]
    BY <2>1 DEF Configured
  <2>3. i \in Configured(running)
    BY <2>2 DEF Configured
  <2> QED
    BY <1>3, <2>1, <2>3
<1>10. Handled'
  <2>1. \A m \in DOMAIN chg : m \in Nat /\ m >= 1
    OBVIOUS
  <2>2. \A i, n : ~Applied(i, n)'
    BY <1>4, <1>a, <2>1 DEF Applied, Creating
  <2>3. ASSUME NEW i \in Objects', NEW n \in AllNames
        PROVE  IF Applied(i, n)' THEN attrs'[i][n] = Wanted(itxn'.new[i])[n]
               ELSE <<i, n>> \in torn' \/ attrs'[i][n] = Wanted(running'[i])[n]
    <3>1. <<i, n>> \in torn' \/ attrs'[i][n] = Wanted(running'[i])[n]
      BY <1>3, <1>5
    <3> QED
      BY <2>2, <3>1
  <2> QED
    BY <2>3 DEF Handled
<1>11. JobApplies' /\ JobReverts'
  BY <1>4, <1>a DEF JobApplies, JobReverts, Busy
<1> QED
  BY <1>6, <1>7, <1>8, <1>9, <1>10, <1>11 DEF GearInv

\* Editing a leaf.
LEMMA EditedAt ==
  ASSUME GearAssumption, NEW c \in Config, NEW e \in Edits
  PROVE  /\ e \in ChangeRec /\ Edited(c, e) \in Config
         /\ \A i \in Ifs : \A l \in Leaves : Edited(c, e)[i][l] # c[i][l] => e.i = i /\ e.l = l
<1>1. e.i \in Ifs /\ e.l \in Leaves /\ e.v \in Values[e.l] \cup {Unset} /\ e.v \in Vals
      /\ e = [i |-> e.i, l |-> e.l, v |-> e.v]
  BY DEF GearAssumption, Vals
<1>2. e \in ChangeRec
  BY <1>1 DEF ChangeRec
<1> DEFINE d == [c[e.i] EXCEPT ![e.l] = e.v]
<1>3. Edited(c, e) = [c EXCEPT ![e.i] = d]
  BY DEF Edited
<1>4. c[e.i] \in [Leaves -> Vals] /\ \A l \in Leaves : c[e.i][l] \in Values[l] \cup {Unset}
  BY <1>1 DEF Config, IfConfig
<1>5. d \in [Leaves -> Vals] /\ \A l \in Leaves : d[l] = IF l = e.l THEN e.v ELSE c[e.i][l]
  BY <1>1, <1>4
<1>6. d \in IfConfig
  BY <1>1, <1>4, <1>5 DEF IfConfig
<1> HIDE DEF d
<1>7. Edited(c, e) \in Config /\ \A i \in Ifs : Edited(c, e)[i] = IF i = e.i THEN d ELSE c[i]
  BY <1>1, <1>3, <1>6 DEF Config
<1> QED
  BY <1>1, <1>2, <1>5, <1>7

\* A transaction of one or two changes begins.
LEMMA IfTxnKeeps == ASSUME GearAssumption, GearInv, IfTxn PROVE GearInv'
<1>1. PICK e \in Edits :
        \/ Begin(<<e>>, Edited(running, e))
        \/ \E f \in Edits : Begin(<<e, f>>, Edited(Edited(running, e), f))
  BY DEF IfTxn
<1>2. running \in Config
  BY DEF GearInv, GearTypeOK
<1> DEFINE c == Edited(running, e)
<1>3. /\ e \in ChangeRec /\ c \in Config
      /\ \A i \in Ifs : \A l \in Leaves : c[i][l] # running[i][l] => e.i = i /\ e.l = l
  BY <1>2, EditedAt
<1> HIDE DEF c
<1>4. CASE Begin(<<e>>, c)
  <2>1. <<e>> \in Seq(ChangeRec) /\ Len(<<e>>) <= 2 /\ 1 \in DOMAIN <<e>> /\ <<e>>[1] = e
    BY <1>3
  <2>2. \A i \in Ifs : \A l \in Leaves :
          running[i][l] # c[i][l] => \E n \in DOMAIN <<e>> : <<e>>[n].i = i /\ <<e>>[n].l = l
    BY <1>3, <2>1
  <2> DEFINE chg == <<e>>
  <2>3. chg \in Seq(ChangeRec) /\ Len(chg) <= 2 /\ Begin(chg, c)
        /\ \A i \in Ifs : \A l \in Leaves :
             running[i][l] # c[i][l] => \E n \in DOMAIN chg : chg[n].i = i /\ chg[n].l = l
    BY <1>4, <2>1, <2>2
  <2> HIDE DEF chg
  <2> QED
    BY <1>3, <2>3, BeginKeeps
<1>5. CASE \E f \in Edits : Begin(<<e, f>>, Edited(c, f))
  <2>1. PICK f \in Edits : Begin(<<e, f>>, Edited(c, f))
    BY <1>5
  <2> DEFINE d == Edited(c, f)
             chg == <<e, f>>
  <2>2. /\ f \in ChangeRec /\ d \in Config
        /\ \A i \in Ifs : \A l \in Leaves : d[i][l] # c[i][l] => f.i = i /\ f.l = l
    BY <1>3, EditedAt
  <2>3. chg \in Seq(ChangeRec) /\ Len(chg) <= 2 /\ Begin(chg, d)
        /\ 1 \in DOMAIN chg /\ chg[1] = e /\ 2 \in DOMAIN chg /\ chg[2] = f
    BY <1>3, <2>1, <2>2
  <2> HIDE DEF chg, d
  <2>4. ASSUME NEW i \in Ifs, NEW l \in Leaves, running[i][l] # d[i][l]
        PROVE  \E n \in DOMAIN chg : chg[n].i = i /\ chg[n].l = l
    <3>1. (e.i = i /\ e.l = l) \/ (f.i = i /\ f.l = l)
      BY <1>3, <2>2, <2>4
    <3> QED
      BY <2>3, <3>1
  <2> QED
    BY <2>2, <2>3, <2>4, BeginKeeps
<1> QED
  BY <1>1, <1>4, <1>5 DEF c

\* Actions of the gearbox server and requests for operational data change nothing of this.
LEMMA OthersKeep ==
  ASSUME GearInv,
         \/ (\E c \in GConfs : GBegin(c)) \/ Post \/ SetMapping \/ GCommit
         \/ OperBegin \/ (\E i \in Ifs : OperRead(i)) \/ OperAnswer \/ UNCHANGED vars
  PROVE  GearInv'
<1>1. UNCHANGED <<running, attrs, itxn, torn, srv>>
  <2>1. CASE (\E c \in GConfs : GBegin(c)) \/ Post \/ SetMapping \/ GCommit
    BY <2>1 DEF GBegin, Post, SetMapping, GCommit, device
  <2>2. CASE OperBegin \/ (\E i \in Ifs : OperRead(i)) \/ OperAnswer
    BY <2>2 DEF OperBegin, OperRead, OperAnswer, device
  <2>3. CASE UNCHANGED vars
    BY <2>3 DEF vars
  <2> QED
    BY <2>1, <2>2, <2>3
<1>2. Objects' = Objects /\ \A i : (Torn(i)' <=> Torn(i)) /\ (Unchanged(i)' <=> Unchanged(i))
  BY <1>1 DEF Objects, Torn, Unchanged
<1>3. /\ \A i, n : Applied(i, n)' <=> Applied(i, n)
      /\ \A i : Unfilled(i)' <=> Unfilled(i)
      /\ (Busy' <=> Busy) /\ Change' = Change /\ Excluded' = Excluded
      /\ ChangedBy(itxn.undo[1])' = ChangedBy(itxn.undo[1])
  BY <1>1 DEF Applied, Unfilled, Busy, Change, Excluded, ChangedBy
<1>4. GearTypeOK'
  BY <1>1, <1>2, <1>3 DEF GearInv, GearTypeOK
<1>5. Recorded' /\ Restores' /\ Differs'
  BY <1>1, DeviceSame DEF GearInv
<1>6. Changes' /\ Reaches'
  BY <1>1, <1>2, <1>3 DEF GearInv, Changes, Reaches
<1>7. Handled'
  BY <1>1, <1>2, <1>3 DEF GearInv, Handled
<1>8. JobApplies'
  BY <1>1, <1>2, <1>3 DEF GearInv, JobApplies
<1>9. JobReverts'
  BY <1>1, <1>2, <1>3 DEF GearInv, JobReverts, Torn
<1> QED
  BY <1>4, <1>5, <1>6, <1>7, <1>8, <1>9 DEF GearInv

\* Every interface that has configuration has an object, and every attribute is as configured,
\* except for what torn names.
Settled ==
  /\ \A i \in Configured(running) : i \in Objects \/ Torn(i)
  /\ \A i \in Objects : \A n \in AllNames : <<i, n>> \in torn \/ attrs[i][n] = Wanted(running[i])[n]

\* A transaction that ends leaves nothing to revert.
LEMMA SettledKeeps ==
  ASSUME GearTypeOK', Settled', itxn'.pc = "idle", itxn'.undo = <<>>
  PROVE  GearInv'
<1>1. DOMAIN itxn'.undo = {}
  OBVIOUS
<1>2. Recorded' /\ Restores' /\ Differs'
  BY <1>1 DEF Settled, Recorded, Restores, Differs
<1>3. Changes' /\ Reaches' /\ Handled' /\ JobApplies' /\ JobReverts'
  BY DEF Changes, Reaches, Handled, JobApplies, JobReverts
<1> QED
  BY <1>2, <1>3 DEF GearInv

LEMMA IdleTyped ==
  /\ JobTyped(NoJob) /\ NoJob.at = "none" /\ Idle.job = NoJob
  /\ Idle \in [pc : {"idle", "apply", "revert"}, chg : Seq(ChangeRec), k : Nat, new : Config, undo : Seq(UndoRec), job : {NoJob}]
<1>1. Unset \in Vals
  BY Zenon DEF Vals
<1>2. \A l : Unset \in Values[l] \cup {Unset}
  OBVIOUS
<1>3. NoConfig \in Config
  BY <1>1, <1>2 DEF NoConfig, Config, IfConfig
<1>4. JobTyped(NoJob) /\ NoJob.at = "none"
  BY JobIs DEF NoJob
<1> QED
  BY <1>3, <1>4 DEF Idle

\* A transaction whose handlers are all applied.
LEMMA CommitKeeps == ASSUME GearInv, Commit PROVE GearInv'
<1> DEFINE set == UNION {{e.i} \X AttrNames[e.l] : e \in {itxn.chg[n] : n \in DOMAIN itxn.chg}}
<1>1. /\ itxn.pc = "apply" /\ itxn.k > Len(itxn.chg) /\ running' = itxn.new /\ torn' = torn \ set
      /\ itxn' = Idle /\ attrs' = attrs /\ srv' = srv
  BY DEF Commit, device
<1>2. Objects' = Objects /\ itxn'.pc = "idle" /\ itxn'.undo = <<>>
  BY <1>1 DEF Objects, Idle
<1>3. \A i, n : <<i, n>> \in set <=> \E m \in DOMAIN itxn.chg : itxn.chg[m].i = i /\ n \in AttrNames[itxn.chg[m].l]
  OBVIOUS
<1> HIDE DEF set
<1>4. running \in Config /\ itxn.new \in Config
  BY DEF GearInv, GearTypeOK
<1>5. \A m \in DOMAIN itxn.chg : m < itxn.k
  <2>1. itxn.chg \in Seq(ChangeRec) /\ itxn.k \in Nat
    BY DEF GearInv, GearTypeOK
  <2> QED
    BY <1>1, <2>1
<1>a. ~ Busy
  BY <1>1, <1>5 DEF GearInv, JobApplies
<1>6. GearTypeOK'
  <2>1. torn' \subseteq Ifs \X AllNames
    BY <1>1 DEF GearInv, GearTypeOK
  <2>2. itxn'.job = NoJob /\ ~ Busy'
    BY <1>1, IdleTyped DEF Busy, Idle
  <2> QED
    BY <1>1, <1>2, <1>4, <2>1, <2>2, IdleTyped DEF GearInv, GearTypeOK, JobTyped
<1>7. \A i \in Configured(itxn.new) : i \in Objects \/ Torn(i)'
  <2> SUFFICES ASSUME NEW i \in Configured(itxn.new), i \notin Objects PROVE Torn(i)'
    OBVIOUS
  <2>1. Torn(i) /\ \A n \in DOMAIN itxn.chg : itxn.chg[n].i # i
    BY <1>1 DEF GearInv, Reaches, Unchanged
  <2> QED
    BY <1>1, <1>3, <2>1 DEF Torn
<1>8. ASSUME NEW i \in Objects, NEW n \in AllNames
      PROVE  <<i, n>> \in torn' \/ attrs[i][n] = Wanted(itxn.new[i])[n]
  <2>1. i \in Ifs /\ ~ Unfilled(i)
    BY <1>a DEF GearInv, GearTypeOK, Unfilled, Busy
  <2>2. CASE Applied(i, n)
    BY <1>1, <2>1, <2>2 DEF GearInv, Handled
  <2>3. CASE ~Applied(i, n)
    <3>1. <<i, n>> \in torn \/ attrs[i][n] = Wanted(running[i])[n]
      BY <1>1, <2>1, <2>3 DEF GearInv, Handled
    <3>2. \A m \in DOMAIN itxn.chg : ~(itxn.chg[m].i = i /\ n \in AttrNames[itxn.chg[m].l])
      BY <1>5, <2>3 DEF Applied
    <3>3. \A l \in Leaves : n \in AttrNames[l] => itxn.new[i][l] = running[i][l]
      BY <1>1, <2>1, <3>2 DEF GearInv, Changes
    <3>4. itxn.new[i] \in IfConfig /\ running[i] \in IfConfig
      BY <1>4, <2>1 DEF Config
    <3>5. Wanted(itxn.new[i])[n] = Wanted(running[i])[n]
      BY <3>3, <3>4, WantedDepends
    <3>6. <<i, n>> \notin set
      BY <1>3, <3>2
    <3> QED
      BY <1>1, <3>1, <3>5, <3>6
  <2> QED
    BY <2>2, <2>3
<1>9. Settled'
  BY <1>1, <1>2, <1>7, <1>8 DEF Settled
<1> QED
  BY <1>2, <1>6, <1>9, SettledKeeps

\* A transaction is left as it is: torn names all that may be left of it.
LEMMA LeavingKeeps ==
  ASSUME GearInv, itxn' = Idle, torn' = torn \cup Left(itxn.undo), UNCHANGED <<running, attrs>>
  PROVE  GearInv'
<1>1. /\ itxn' = Idle /\ torn' = torn \cup Left(itxn.undo) /\ UNCHANGED <<running, attrs>>
  OBVIOUS
<1>2. Objects' = Objects /\ itxn'.pc = "idle" /\ itxn'.undo = <<>>
  BY <1>1 DEF Objects, Idle
<1>3. /\ Left(itxn.undo) \subseteq Ifs \X AllNames
      /\ \A m \in DOMAIN itxn.undo : \A i \in Ifs : \A n \in AllNames :
           /\ Sets(itxn.undo[m], itxn.new, i, n) => <<i, n>> \in Left(itxn.undo)
           /\ i \in itxn.undo[m].gone => <<i, n>> \in Left(itxn.undo)
  BY LeftHas DEF GearInv
<1>4. GearTypeOK'
  <2>1. itxn'.job = NoJob /\ ~ Busy'
    BY <1>1, IdleTyped DEF Busy, Idle
  <2> QED
    BY <1>1, <1>2, <1>3, <2>1, IdleTyped DEF GearInv, GearTypeOK, JobTyped
<1>5. ASSUME NEW i \in Configured(running) PROVE i \in Objects \/ Torn(i)'
  <2>1. i \in Ifs
    BY DEF Configured
  <2>2. CASE \E m \in DOMAIN itxn.undo : i \in itxn.undo[m].gone
    <3>1. \A n \in AllNames : <<i, n>> \in torn'
      BY <1>1, <1>3, <2>1, <2>2
    <3> QED
      BY <3>1 DEF Torn
  <2>3. CASE i \in Objects \/ Torn(i)
    BY <1>1, <2>3 DEF Torn
  <2> QED
    BY <2>2, <2>3 DEF GearInv, Recorded
<1>6. ASSUME NEW i \in Objects, NEW n \in AllNames
      PROVE  <<i, n>> \in torn' \/ attrs[i][n] = Wanted(running[i])[n]
  <2>1. i \in Ifs
    BY DEF GearInv, GearTypeOK
  <2> QED
    BY <1>1, <1>3, <2>1 DEF GearInv, Differs
<1>7. Settled'
  BY <1>1, <1>2, <1>5, <1>6 DEF Settled
<1> QED
  BY <1>2, <1>4, <1>7, SettledKeeps

\* The process ends in the middle of a transaction.
LEMMA CrashKeeps == ASSUME GearInv, Crash PROVE GearInv'
  BY LeavingKeeps DEF Crash, device

\* start() sets the attributes that are reconciled.
LEMMA ReconcileKeeps == ASSUME GearInv, Reconcile PROVE GearInv'
<1>1. /\ srv = "down" /\ srv' = "up" /\ UNCHANGED <<running, itxn>>
      /\ attrs' = [i \in Objects |-> SetAttrs(attrs[i], Reconciled, Wanted(running[i]))]
      /\ torn' = {p \in torn : p[1] \notin Objects \/ p[2] \notin Reconciled}
  BY DEF Reconcile
<1>2. itxn'.pc = "idle" /\ itxn'.undo = <<>> /\ itxn.undo = <<>>
  BY <1>1 DEF GearInv, GearTypeOK
<1>3. Objects' = Objects
  BY <1>1 DEF Objects
<1>4. ASSUME NEW i \in Objects
      PROVE  /\ attrs'[i] \in Attrs
             /\ \A n \in AllNames : attrs'[i][n] = IF n \in Reconciled THEN Wanted(running[i])[n] ELSE attrs[i][n]
  <2>1. running[i] \in IfConfig /\ attrs[i] \in Attrs
    BY DEF GearInv, GearTypeOK, Config
  <2>2. Wanted(running[i]) \in Attrs
    BY <2>1, WantedTyped
  <2>3. attrs'[i] = SetAttrs(attrs[i], Reconciled, Wanted(running[i]))
    BY <1>1
  <2> QED
    BY <2>1, <2>2, <2>3, SetAttrsAt
<1>5. attrs' \in [Objects' -> Attrs]
  <2>1. attrs' = [i \in Objects |-> attrs'[i]]
    BY <1>1
  <2> QED
    BY <1>3, <1>4, <2>1
<1>6. GearTypeOK'
  <2>1. torn' \subseteq Ifs \X AllNames /\ (Busy' <=> Busy)
    BY <1>1 DEF GearInv, GearTypeOK, Busy
  <2> QED
    BY <1>1, <1>2, <1>3, <1>5, <2>1 DEF GearInv, GearTypeOK
<1>7. ASSUME NEW i \in Configured(running) PROVE i \in Objects \/ Torn(i)'
  BY <1>1, <1>2, AtRestSettled DEF Torn
<1>8. ASSUME NEW i \in Objects, NEW n \in AllNames
      PROVE  <<i, n>> \in torn' \/ attrs'[i][n] = Wanted(running[i])[n]
  <2>1. <<i, n>> \in torn \/ attrs[i][n] = Wanted(running[i])[n]
    BY <1>2, AtRestSettled
  <2> QED
    BY <1>1, <1>4, <2>1
<1>9. Settled'
  BY <1>1, <1>3, <1>7, <1>8 DEF Settled
<1> QED
  BY <1>2, <1>6, <1>9, SettledKeeps

\* A handler fails to be reverted, or none is left to revert.
LEMMA RevertEnds ==
  ASSUME GearInv, RevertFails \/ (RevertStart /\ itxn.undo = <<>>)
  PROVE  GearInv'
<1>1. itxn' = Idle /\ torn' = torn \cup Left(itxn.undo) /\ UNCHANGED <<running, attrs, srv>>
  <2>1. CASE RevertFails
    BY <2>1 DEF RevertFails, device
  <2>2. CASE RevertStart /\ itxn.undo = <<>>
    <3>1. Left(itxn.undo) = {}
      <4>1. DOMAIN itxn.undo = {}
        BY <2>2
      <4> QED
        BY <4>1, LeftIs
    <3> QED
      BY <2>2, <3>1 DEF RevertStart, device
  <2> QED
    BY <2>1, <2>2
<1> QED
  BY <1>1, LeavingKeeps

\* At first nothing is configured, and every object is as TAI created it.
LEMMA InitGear == ASSUME Init PROVE GearInv
<1>1. /\ running = NoConfig /\ attrs = [i \in Ifs |-> Fresh] /\ itxn = Idle /\ srv = "up" /\ torn = {}
      /\ itxn.pc = "idle" /\ itxn.undo = <<>> /\ DOMAIN itxn.undo = {}
  BY DEF Init, Idle
<1>2. Objects = Ifs
  BY <1>1 DEF Objects
<1>3. running \in Config
  BY <1>1, IdleTyped DEF Idle
<1>4. GearTypeOK
  <2>1. attrs \in [Objects -> Attrs]
    BY <1>1, <1>2, FreshTyped
  <2>2. itxn.job = NoJob /\ ~ Busy
    BY <1>1, IdleTyped DEF Busy
  <2> QED
    BY <1>1, <1>2, <1>3, <2>1, <2>2, IdleTyped DEF GearTypeOK, JobTyped
<1>5. ASSUME NEW i \in Ifs PROVE Wanted(running[i]) = Fresh
  <2>1. running[i] = [l \in Leaves |-> Unset]
    BY <1>1 DEF NoConfig
  <2>2. \A l \in Leaves : Eff(running[i], l) = DefaultOf[l]
    BY <2>1 DEF Eff
  <2>3. Eff(running[i], "admin") = "DOWN" /\ Eff(running[i], "type") = "ETH" /\ Eff(running[i], "pin") = "pam4"
        /\ Eff(running[i], "fec") = "rs" /\ Eff(running[i], "loop") = "none"
    BY <2>2 DEF DefaultOf, Leaves
  <2> QED
    BY <2>3 DEF Wanted, Fresh, ProvisionMode, SignalRate
<1>6. Recorded /\ Restores
  BY <1>1, <1>2 DEF Recorded, Restores, Configured
<1>7. Differs
  BY <1>1, <1>2, <1>5 DEF Differs
<1>8. Changes /\ Reaches /\ Handled /\ JobApplies /\ JobReverts
  BY <1>1 DEF Changes, Reaches, Handled, JobApplies, JobReverts
<1> QED
  BY <1>4, <1>6, <1>7, <1>8 DEF GearInv

-----------------------------------------------------------------------------
(* Objects and attributes.                                                 *)

\* Every step of a handler keeps the invariant.
LEMMA HandleKeeps == ASSUME GearAssumption, GearInv, Handle PROVE GearInv'
<1>1. CASE Remove
  BY <1>1, RemoveReadKeeps, RemoveUnmapKeeps, RemoveDropKeeps, GearAssumption DEF Remove
<1>2. CASE Create
  BY <1>2, CreateObjectKeeps, CreateFillKeeps, CreateMapKeeps, GearAssumption DEF Create
<1>3. CASE PinEnd
  <2>1. Busy
    BY <1>3 DEF PinEnd, Busy
  <2>2. itxn.pc \in {"apply", "revert"}
    BY <2>1, BusyTyped DEF GearInv
  <2> QED
    BY <1>3, <2>2, PinEndApplies, PinEndReverts, GearAssumption
<1>4. CASE RevertStart \/ RevertFails
  BY <1>4, RevertBegins, RevertEnds
<1> QED
  BY <1>1, <1>2, <1>3, <1>4, ApplyKeeps, PinStartKeeps, PinSetKeeps, RevertSetKeeps, ApplyFailsKeeps,
     CommitKeeps, GearAssumption DEF Handle

\* Between the former and the new configuration, what every handler did is known: the invariant
\* the following theorems rest on (interfaces.py: IfChangeHandler and its subclasses, revert,
\* post, reconcile).
THEOREM GearCorrect == Spec => []GearInv
<1>1. Init => GearInv
  BY InitGear
<1>2. GearInv /\ [Next]_vars => GearInv'
  BY GearAssumption, IfTxnKeeps, HandleKeeps, CrashKeeps, ReconcileKeeps, OthersKeep DEF Next
<1> QED
  BY <1>1, <1>2, PTL DEF Spec

\* Outside a transaction an interface that has configuration has an object
\* (PinModeHandler.validate, IfChangeHandler._init), whatever failed before.
THEOREM ConfiguredAlwaysExists == Spec => []ConfiguredExists
<1>1. ASSUME GearInv PROVE ConfiguredExists
  <2> SUFFICES ASSUME AtRest PROVE Settled
    BY DEF ConfiguredExists, Settled, Torn
  <2>1. itxn.undo = <<>>
    BY <1>1 DEF AtRest, GearInv, GearTypeOK
  <2> QED
    BY <1>1, <2>1, AtRestSettled DEF Settled
<1> QED
  BY <1>1, GearCorrect, PTL

\* Outside a transaction every attribute is what the configuration asks for, in whatever order
\* and combination leaves are changed (AdminStatusHandler and InterfaceTypeHandler share one).
THEOREM AttributesAlwaysMatch == Spec => []AttributesMatch
<1>1. ASSUME GearInv PROVE AttributesMatch
  <2> SUFFICES ASSUME AtRest PROVE Settled
    BY DEF AttributesMatch, Settled
  <2>1. itxn.undo = <<>>
    BY <1>1 DEF AtRest, GearInv, GearTypeOK
  <2> QED
    BY <1>1, <2>1, AtRestSettled DEF Settled
<1> QED
  BY <1>1, GearCorrect, PTL

-----------------------------------------------------------------------------
(* Operational data.                                                       *)

LEMMA StateTyped == ASSUME NEW a \in Attrs PROVE OperState(a) \in Answers
<1>1. a["pin"] \in AttrVals
  BY DEF Attrs, AllNames, Reconciled
<1> QED
  BY <1>1 DEF OperState, Answers

LEMMA OperReadKeeps ==
  ASSUME GearInv, OperInv, NEW i \in Ifs, OperRead(i) PROVE OperInv'
<1>1. /\ oper.pc = "read" /\ i \in oper.todo /\ UNCHANGED <<attrs, madmin, itxn, gtxn, srv>>
      /\ oper' = IF i \in Objects
                 THEN [oper EXCEPT !.todo = @ \ {i},
                        !.got = [j \in DOMAIN @ \cup {i} |-> IF j = i THEN OperState(attrs[i]) ELSE @[j]]]
                 ELSE [oper EXCEPT !.pc = "failed"]
  BY DEF OperRead, gvars, device
<1>2. oper.got \in UNION {[D -> Answers] : D \in SUBSET Ifs} /\ oper.todo \subseteq Ifs /\ oper.quiet \in BOOLEAN
  BY DEF OperInv, OperTypeOK
<1>3. CASE i \notin Objects
  <2>1. oper' \in [pc : {"failed"}, todo : SUBSET Ifs, got : UNION {[D -> Answers] : D \in SUBSET Ifs}, quiet : BOOLEAN]
    BY <1>1, <1>3 DEF OperInv, OperTypeOK
  <2> QED
    BY <2>1 DEF OperInv, OperTypeOK, Undisturbed
<1>4. CASE i \in Objects
  <2> DEFINE s == OperState(attrs[i])
             got == [j \in DOMAIN oper.got \cup {i} |-> IF j = i THEN s ELSE oper.got[j]]
  <2>1. attrs[i] \in Attrs
    BY <1>4 DEF GearInv, GearTypeOK
  <2>2. s \in Answers
    BY <2>1, StateTyped
  <2>3. /\ DOMAIN got = {i} \cup DOMAIN oper.got /\ got[i] = s
        /\ \A j \in DOMAIN oper.got : j # i => got[j] = oper.got[j]
        /\ got = [j \in DOMAIN got |-> got[j]]
    <3> HIDE DEF s
    <3> QED
      OBVIOUS
  <2>4. oper' = [oper EXCEPT !.todo = @ \ {i}, !.got = got]
    BY <1>1, <1>4
  <2>5. s = OperState(attrs[i])
    OBVIOUS
  <2> HIDE DEF s, got
  <2>6. PICK D \in SUBSET Ifs : oper.got \in [D -> Answers]
    BY <1>2
  <2>7. DOMAIN got \in SUBSET Ifs /\ \A j \in DOMAIN got : got[j] \in Answers
    BY <2>2, <2>3, <2>6
  <2>8. got \in [DOMAIN got -> Answers]
    BY <2>3, <2>7
  <2>9. got \in UNION {[E -> Answers] : E \in SUBSET Ifs}
    BY <2>7, <2>8
  <2>10. oper' \in [pc : {"read"}, todo : {oper.todo \ {i}}, got : {got}, quiet : {oper.quiet}]
    BY <1>1, <2>4 DEF OperInv, OperTypeOK
  <2>11. OperTypeOK'
    BY <1>2, <2>9, <2>10 DEF OperTypeOK
  <2>12. Objects' = Objects /\ \A a : OperState(a)' = OperState(a)
    BY <1>1 DEF Objects, OperState
  <2>13. Undisturbed'
    <3> SUFFICES ASSUME oper.quiet
                 PROVE  /\ itxn.pc = "idle" /\ gtxn.pc = "idle" /\ srv = "up"
                        /\ DOMAIN got \cup (oper.todo \ {i}) = Objects
                        /\ \A j \in DOMAIN got : got[j] = OperState(attrs[j])
      BY <1>1, <2>10, <2>12, Zenon DEF Undisturbed
    <3>1. /\ itxn.pc = "idle" /\ gtxn.pc = "idle" /\ srv = "up"
          /\ DOMAIN oper.got \cup oper.todo = Objects
          /\ \A j \in DOMAIN oper.got : oper.got[j] = OperState(attrs[j])
      BY <1>1 DEF OperInv, Undisturbed
    <3>2. DOMAIN got \cup (oper.todo \ {i}) = Objects
      BY <1>4, <2>3, <3>1
    <3>3. ASSUME NEW j \in DOMAIN got PROVE got[j] = OperState(attrs[j])
      BY <2>3, <2>5, <3>1
    <3> QED
      BY <3>1, <3>2, <3>3
  <2> QED
    BY <2>11, <2>13 DEF OperInv
<1> QED
  BY <1>3, <1>4

\* The steps of a handler come while a transaction of its server runs, and no request is undisturbed then.
LEMMA HandleDisturbs == ASSUME GearInv, Handle PROVE oper' = oper /\ itxn.pc # "idle"
<1>1. ASSUME Busy PROVE itxn.pc # "idle"
  BY <1>1, BusyTyped DEF GearInv
<1>2. CASE Apply \/ PinStart \/ RevertStart \/ ApplyFails \/ RevertFails \/ Commit
  BY <1>2 DEF Apply, PinStart, RevertStart, ApplyFails, RevertFails, Commit, Applying
<1>3. CASE Remove
  BY <1>1, <1>3 DEF Remove, RemoveRead, RemoveUnmap, RemoveDrop, Busy
<1>4. CASE Create
  BY <1>1, <1>4 DEF Create, CreateObject, CreateFill, CreateMap, Busy
<1>5. CASE PinSet \/ RevertSet \/ PinEnd
  BY <1>1, <1>5 DEF PinSet, RevertSet, PinEnd, Busy
<1> QED
  BY <1>2, <1>3, <1>4, <1>5 DEF Handle

\* A transaction of either server marks the request as disturbed; its other steps and a start
\* come only while it is.
LEMMA OperKeeps == ASSUME GearInv, OperInv, [Next]_vars PROVE OperInv'
<1>1. CASE IfTxn \/ \E c \in GConfs : GBegin(c)
  <2>1. oper' = [oper EXCEPT !.quiet = FALSE]
    BY <1>1 DEF IfTxn, Begin, GBegin, Disturb
  <2>2. OperTypeOK' /\ oper'.quiet = FALSE
    BY <2>1 DEF OperInv, OperTypeOK
  <2> QED
    BY <2>2 DEF OperInv, Undisturbed
<1>2. CASE Handle \/ Post \/ SetMapping \/ GCommit \/ Reconcile
  <2>1. CASE Handle
    BY <2>1, HandleDisturbs DEF OperInv, OperTypeOK, Undisturbed
  <2>2. CASE Post \/ SetMapping \/ GCommit \/ Reconcile
    <3>1. oper' = oper /\ (gtxn.pc # "idle" \/ srv # "up")
      BY <2>2 DEF Post, SetMapping, GCommit, Reconcile
    <3> QED
      BY <3>1 DEF OperInv, OperTypeOK, Undisturbed
  <2> QED
    BY <1>2, <2>1, <2>2
<1>3. CASE OperBegin
  <2>1. /\ srv = "up" /\ UNCHANGED <<attrs, itxn, gtxn, srv>>
        /\ oper' = [pc |-> "read", todo |-> Objects, got |-> <<>>,
                    quiet |-> itxn.pc = "idle" /\ gtxn.pc = "idle"]
    BY <1>3 DEF OperBegin, gvars, device
  <2>2. oper'.pc = "read" /\ oper'.todo = Objects /\ DOMAIN oper'.got = {}
        /\ oper'.quiet = (itxn.pc = "idle" /\ gtxn.pc = "idle")
    BY <2>1
  <2>3. Objects' = Objects /\ Objects \subseteq Ifs
    BY <2>1 DEF Objects, GearInv, GearTypeOK
  <2>4. <<>> \in [{} -> Answers] /\ {} \in SUBSET Ifs
    OBVIOUS
  <2>5. <<>> \in UNION {[D -> Answers] : D \in SUBSET Ifs}
    BY <2>4
  <2>6. OperTypeOK'
    BY <2>1, <2>3, <2>5 DEF OperTypeOK
  <2>7. Undisturbed'
    BY <2>1, <2>2, <2>3 DEF Undisturbed
  <2> QED
    BY <2>6, <2>7 DEF OperInv
<1>4. CASE \E i \in Ifs : OperRead(i)
  BY <1>4, OperReadKeeps
<1>5. CASE OperAnswer
  <2>1. /\ oper.pc = "read" /\ oper.todo = {} /\ oper' = [oper EXCEPT !.pc = "answered"]
        /\ UNCHANGED <<attrs, madmin, itxn, gtxn, srv>>
    BY <1>5 DEF OperAnswer, gvars, device
  <2>2. oper' \in [pc : {"answered"}, todo : {oper.todo}, got : {oper.got}, quiet : {oper.quiet}]
    BY <2>1 DEF OperInv, OperTypeOK
  <2>3. Objects' = Objects /\ \A i : OperState(attrs[i])' = OperState(attrs[i])
    BY <2>1 DEF Objects, OperState
  <2>4. OperTypeOK'
    BY <2>2 DEF OperInv, OperTypeOK
  <2>5. Undisturbed'
    BY <2>1, <2>2, <2>3 DEF OperInv, Undisturbed
  <2> QED
    BY <2>4, <2>5 DEF OperInv
<1>6. CASE Crash
  <2>1. oper' = NoOper
    BY <1>6 DEF Crash
  <2>2. <<>> \in [{} -> Answers] /\ {} \in SUBSET Ifs
    OBVIOUS
  <2>3. <<>> \in UNION {[D -> Answers] : D \in SUBSET Ifs}
    BY <2>2
  <2> QED
    BY <2>1, <2>3 DEF NoOper, OperInv, OperTypeOK, Undisturbed
<1>7. CASE UNCHANGED vars
  <2>1. UNCHANGED <<attrs, madmin, itxn, gtxn, srv, oper>>
    BY <1>7 DEF vars, gvars, device
  <2>2. Objects' = Objects /\ \A i : OperState(attrs[i])' = OperState(attrs[i])
    BY <2>1 DEF Objects, OperState
  <2> QED
    BY <2>1, <2>2 DEF OperInv, OperTypeOK, Undisturbed
<1> QED
  BY <1>1, <1>2, <1>3, <1>4, <1>5, <1>6, <1>7 DEF Next

\* An answer to a request for operational data during which no transaction ran lists the
\* interfaces there are, with the admin status that is configured (interfaces.py: oper_cb),
\* though the list is taken once and the attributes are read one by one.
THEOREM OperAnswersAlwaysConfig == Spec => []OperAnswersConfig
<1>1. Init => OperInv
  <2>1. <<>> \in [{} -> Answers] /\ {} \in SUBSET Ifs
    OBVIOUS
  <2>2. <<>> \in UNION {[D -> Answers] : D \in SUBSET Ifs}
    BY <2>1
  <2>3. ASSUME Init PROVE OperTypeOK /\ oper.pc = "idle"
    BY <2>2, <2>3 DEF Init, NoOper, OperTypeOK
  <2> QED
    BY <2>3 DEF OperInv, Undisturbed
<1>2. GearInv /\ OperInv /\ [Next]_vars => OperInv'
  BY OperKeeps
<1>3. ASSUME GearInv, OperInv PROVE OperAnswersConfig
  <2> SUFFICES ASSUME oper.pc = "answered", oper.quiet, AtRest, madmin = gconf.admin
               PROVE  /\ DOMAIN oper.got = Objects
                      /\ \A i \in Objects : <<i, "prov">> \notin torn =>
                           oper.got[i].admin = IF gconf.admin = "up" THEN Eff(running[i], "admin") ELSE "DOWN"
    BY DEF OperAnswersConfig
  <2>1. DOMAIN oper.got = Objects /\ \A i \in Objects : oper.got[i] = OperState(attrs[i])
    BY <1>3 DEF OperInv, Undisturbed
  <2>2. itxn.undo = <<>>
    BY <1>3 DEF AtRest, GearInv, GearTypeOK
  <2>3. ASSUME NEW i \in Objects, <<i, "prov">> \notin torn
        PROVE  oper.got[i].admin = IF gconf.admin = "up" THEN Eff(running[i], "admin") ELSE "DOWN"
    <3>1. "prov" \in AllNames
      BY DEF AllNames, Reconciled
    <3>2. attrs[i]["prov"] = Wanted(running[i])["prov"]
      BY <1>3, <2>2, <2>3, <3>1, AtRestSettled
    <3>3. running[i] \in IfConfig
      BY <1>3 DEF GearInv, GearTypeOK, Config
    <3>4. Eff(running[i], "admin") \in {"UP", "DOWN"}
      BY <3>3, EffTyped DEF Values, Leaves
    <3>5. attrs[i].prov = "none" <=> Eff(running[i], "admin") = "DOWN"
      BY <3>2 DEF Wanted, ProvisionMode
    <3>6. OperState(attrs[i]).admin = IF madmin = "up" THEN Eff(running[i], "admin") ELSE "DOWN"
      BY <3>4, <3>5 DEF OperState
    <3> QED
      BY <2>1, <3>6
  <2> QED
    BY <2>1, <2>3
<1> QED
  BY <1>1, <1>2, <1>3, GearCorrect, PTL DEF Spec

-----------------------------------------------------------------------------
(* The mapping.                                                            *)

\* An object that neither is removed nor replaced is referred to as before.
Kept == \A i \in Objects : i \in Objects' /\ oid'[i] = oid[i]
LEMMA AliveKept == ASSUME Kept PROVE \A m : Live(m) => \A p \in m : Alive(p[1])' /\ Alive(p[2])'
  BY DEF Kept, Live, Alive

\* get_default_mapping only names interfaces that have an object.
LEMMA DefaultIsLive == Live(DefaultMapping(Objects))
<1> SUFFICES ASSUME NEW p \in DefaultMapping(Objects) PROVE Alive(p[1]) /\ Alive(p[2])
  BY DEF Live
<1>1. PICK c \in (Nets \cap Objects) \X (Hosts \cap Objects) : p = <<Ref(c[1]), Ref(c[2])>>
  BY DEF DefaultMapping, Refs
<1>2. c[1] \in Objects /\ c[2] \in Objects
  BY <1>1
<1>3. \A i \in Objects : Alive(Ref(i))
  BY DEF Alive, Ref
<1> QED
  BY <1>1, <1>2, <1>3

\* What leaves the mapping, and what it may name, alone.
LEMMA MapSame ==
  ASSUME MapInv, UNCHANGED <<oid, mapping, raced>>, Objects' = Objects,
         itxn'.job = itxn.job \/ itxn'.job.at \in {"none", "remove", "create"}
  PROVE  MapInv'
<1>1. \A r : Alive(r)' <=> Alive(r)
  BY DEF Alive
<1>2. MappingLive' /\ oid' \in [Ifs -> Nat]
  BY <1>1 DEF MapInv, MappingLive, Live
<1>3. CASE itxn'.job = itxn.job
  BY <1>1, <1>2, <1>3 DEF MapInv, Live, Names
<1>4. CASE itxn'.job.at \in {"none", "remove", "create"}
  BY <1>2, <1>4 DEF MapInv
<1> QED
  BY <1>3, <1>4

\* The beginning and the end of a transaction and of its handlers.
LEMMA MapBetween ==
  ASSUME GearInv, MapInv,
         IfTxn \/ PinStart \/ RevertStart \/ RevertSet \/ PinEnd \/ ApplyFails \/ RevertFails \/ Commit \/ Crash
  PROVE  MapInv'
<1>1. \A at, todo : JobOf(at, todo).at = at
  BY DEF JobOf
<1>2. NoJob.at = "none" /\ Idle.job = NoJob
  BY IdleTyped
<1>3. \A job : [itxn EXCEPT !.job = job].job = job
  BY DEF GearInv, GearTypeOK
<1>4. UNCHANGED <<attrs, oid, mapping, raced>> /\ itxn'.job.at \in {"none", "remove", "create"}
  <2>1. CASE IfTxn
    BY <1>2, <2>1 DEF IfTxn, Begin, device, Idle
  <2>2. CASE PinStart
    BY <1>1, <2>2 DEF PinStart, device, GearInv, GearTypeOK
  <2>3. CASE RevertStart
    BY <1>1, <1>2, <1>3, <2>3 DEF RevertStart, device
  <2>4. CASE RevertSet
    BY <1>1, <1>3, <2>4 DEF RevertSet, device
  <2>5. CASE PinEnd
    BY <1>2, <2>5 DEF PinEnd, device, GearInv, GearTypeOK
  <2>6. CASE ApplyFails
    BY <1>2, <2>6 DEF ApplyFails, device, GearInv, GearTypeOK
  <2>7. CASE RevertFails \/ Commit \/ Crash
    BY <1>2, <2>7 DEF RevertFails, Commit, Crash, device
  <2> QED
    BY <2>1, <2>2, <2>3, <2>4, <2>5, <2>6, <2>7
<1> QED
  BY <1>4, MapSame DEF Objects

\* Attributes are set, of objects that stay; the other server and its requests leave both alone.
LEMMA MapOthers ==
  ASSUME GearInv, MapInv,
         \/ Apply \/ PinSet \/ (\E c \in GConfs : GBegin(c)) \/ Post \/ GCommit
         \/ OperBegin \/ (\E i \in Ifs : OperRead(i)) \/ OperAnswer \/ UNCHANGED vars
  PROVE  MapInv'
<1>1. CASE Apply
  <2>1. Objects' = Objects /\ UNCHANGED <<oid, mapping, raced>>
    BY <1>1 DEF Apply, Objects, Configured1
  <2>2. itxn'.job = itxn.job
    BY <1>1 DEF Apply, GearInv, GearTypeOK
  <2> QED
    BY <2>1, <2>2, MapSame
<1>2. CASE PinSet
  <2>1. Objects' = Objects /\ UNCHANGED <<oid, mapping, raced>>
    BY <1>2 DEF PinSet, Objects, Configured1
  <2>2. itxn'.job = JobOf("create", Back(Change))
    BY <1>2 DEF PinSet, GearInv, GearTypeOK
  <2>3. itxn'.job.at = "create"
    BY <2>2 DEF JobOf
  <2> QED
    BY <2>1, <2>3, MapSame
<1>3. CASE (\E c \in GConfs : GBegin(c)) \/ Post \/ GCommit
  BY <1>3, MapSame DEF GBegin, Post, GCommit, device, Objects
<1>4. CASE OperBegin \/ (\E i \in Ifs : OperRead(i)) \/ OperAnswer
  BY <1>4, MapSame DEF OperBegin, OperRead, OperAnswer, device, Objects
<1>5. CASE UNCHANGED vars
  BY <1>5, MapSame DEF vars, Objects
<1> QED
  BY <1>1, <1>2, <1>3, <1>4, <1>5

\* remove(): the mapping is set without the interface before its object is removed.
LEMMA MapRemove == ASSUME GearInv, MapInv, Remove PROVE MapInv'
<1>0. \A job : [itxn EXCEPT !.job = job].job = job
  BY DEF GearInv, GearTypeOK
<1>1. CASE RemoveRead
  <2>1. Live(mapping) /\ UNCHANGED <<attrs, oid, mapping, raced>>
    BY <1>1 DEF RemoveRead, device
  <2>2. PICK i \in itxn.job.todo :
          itxn'.job = IF i \in Objects THEN [at |-> "unmap", todo |-> itxn.job.todo, i |-> i, map |-> Without(mapping, i)]
                      ELSE JobOf("remove", itxn.job.todo \ {i})
    BY <1>1, <1>0 DEF RemoveRead
  <2>3. CASE i \notin Objects
    BY <2>1, <2>2, <2>3, MapSame DEF JobOf, Objects
  <2>4. CASE i \in Objects
    <3>1. itxn'.job.at = "unmap" /\ itxn'.job.i = i /\ itxn'.job.map = Without(mapping, i)
      BY <2>2, <2>4
    <3>2. \A p \in Without(mapping, i) : p \in mapping /\ ~ Names(p, i)
      BY DEF Without
    <3>3. \A r : Alive(r)' <=> Alive(r)
      BY <2>1 DEF Alive, Objects
    <3> QED
      BY <2>1, <3>1, <3>2, <3>3 DEF MapInv, MappingLive, Live, Names
  <2> QED
    BY <2>3, <2>4
<1>2. CASE RemoveUnmap
  <2>1. /\ itxn.job.at = "unmap" /\ UNCHANGED <<attrs, oid>> /\ mapping' = itxn.job.map
        /\ itxn'.job = [at |-> "drop", todo |-> itxn.job.todo, i |-> itxn.job.i, map |-> {}]
    BY <1>2, <1>0 DEF RemoveUnmap
  <2>2. itxn'.job.at = "drop" /\ itxn'.job.i = itxn.job.i
    BY <2>1
  <2>3. \A r : Alive(r)' <=> Alive(r)
    BY <2>1 DEF Alive, Objects
  <2> QED
    BY <2>1, <2>2, <2>3 DEF MapInv, MappingLive, Live, Names
<1>3. CASE RemoveDrop
  <2> DEFINE i == itxn.job.i
  <2>1. /\ itxn.job.at = "drop" /\ UNCHANGED <<oid, mapping, raced>>
        /\ attrs' = [j \in Objects \ {i} |-> attrs[j]]
    BY <1>3 DEF RemoveDrop
  <2>2. itxn'.job = JobOf("remove", itxn.job.todo \ {i})
    BY <1>3 DEF RemoveDrop, GearInv, GearTypeOK
  <2>3. itxn'.job.at = "remove"
    BY <2>2 DEF JobOf
  <2>4. Objects' = Objects \ {i}
    BY <2>1 DEF Objects
  <2>5. ASSUME NEW p \in mapping \ raced PROVE Alive(p[1])' /\ Alive(p[2])'
    <3>1. Alive(p[1]) /\ Alive(p[2])
      BY DEF MapInv, MappingLive, Live
    <3>2. p[1][1] # i /\ p[2][1] # i
      BY <2>1 DEF MapInv, Names
    <3> QED
      BY <2>1, <2>4, <3>1, <3>2 DEF Alive
  <2>6. MappingLive'
    BY <2>1, <2>5 DEF MappingLive, Live
  <2> QED
    BY <2>1, <2>3, <2>6 DEF MapInv
<1> QED
  BY <1>1, <1>2, <1>3 DEF Remove

\* create(): the default mapping, with the new object or without it, names objects that stay.
LEMMA MapCreate == ASSUME GearInv, MapInv, Create PROVE MapInv'
<1>0. \A job : [itxn EXCEPT !.job = job].job = job
  BY DEF GearInv, GearTypeOK
<1>1. CASE CreateObject
  <2>1. PICK i \in itxn.job.todo \ Objects :
          /\ attrs' = [j \in Objects \cup {i} |-> IF j = i THEN Fresh ELSE attrs[j]]
          /\ oid' = [oid EXCEPT ![i] = @ + 1]
          /\ \E m \in {DefaultMapping(Objects), DefaultMapping(Objects \cup {i})'} :
               LET job == [at |-> "fill", todo |-> itxn.job.todo \ {i}, i |-> i, map |-> m] IN
               itxn' = IF itxn.pc = "apply" THEN [itxn EXCEPT !.undo[1].back = @ \cup {i}, !.job = job]
                       ELSE [itxn EXCEPT !.undo[1].gone = @ \ {i}, !.job = job]
    BY <1>1 DEF CreateObject
  <2>2. PICK m : /\ m = DefaultMapping(Objects) \/ m = DefaultMapping(Objects \cup {i})'
                 /\ itxn'.job = [at |-> "fill", todo |-> itxn.job.todo \ {i}, i |-> i, map |-> m]
    BY <2>1 DEF GearInv, GearTypeOK
  <2>3. itxn'.job.at = "fill" /\ itxn'.job.map = m /\ UNCHANGED <<mapping, raced>>
    BY <1>1, <2>2 DEF CreateObject
  <2>4. Objects' = Objects \cup {i}
    BY <2>1 DEF Objects
  <2>5. oid' \in [Ifs -> Nat] /\ \A j \in Ifs : j # i => oid'[j] = oid[j]
    <3>1. i \in Ifs
      BY DEF GearInv, GearTypeOK
    <3>2. oid' = [oid EXCEPT ![i] = oid[i] + 1]
      BY <2>1
    <3>3. oid \in [Ifs -> Nat]
      BY DEF MapInv
    <3>4. oid[i] + 1 \in Nat
      BY <3>1, <3>3
    <3> QED
      BY <3>1, <3>2, <3>3, <3>4
  <2>6. Kept
    BY <2>1, <2>4, <2>5 DEF Kept, GearInv, GearTypeOK
  <2>7. \A p \in m : Alive(p[1])' /\ Alive(p[2])'
    <3>1. CASE m = DefaultMapping(Objects)
      <4>1. Live(DefaultMapping(Objects))
        BY DefaultIsLive
      <4> QED
        BY <3>1, <4>1, <2>6, AliveKept
    <3>2. CASE m = DefaultMapping(Objects \cup {i})'
      <4>1. Live(DefaultMapping(Objects))'
        BY DefaultIsLive, PTL
      <4>2. (Objects \cup {i})' = Objects'
        BY <2>4
      <4>3. m = DefaultMapping(Objects)'
        BY <3>2, <4>2 DEF DefaultMapping, Refs, Ref
      <4> QED
        BY <4>1, <4>3 DEF Live
    <3> QED
      BY <2>2, <3>1, <3>2
  <2>8. \A p \in mapping \ raced : Alive(p[1])' /\ Alive(p[2])'
    <3> SUFFICES ASSUME NEW p \in mapping \ raced PROVE Alive(p[1])' /\ Alive(p[2])'
      OBVIOUS
    <3>1. Alive(p[1]) /\ Alive(p[2])
      BY DEF MapInv, MappingLive, Live
    <3> QED
      BY <2>6, <3>1 DEF Kept, Alive
  <2> QED
    BY <2>3, <2>5, <2>7, <2>8 DEF MapInv, MappingLive, Live
<1>2. CASE CreateFill
  <2>1. /\ itxn.job.at = "fill" /\ UNCHANGED <<oid, mapping, raced>>
        /\ itxn'.job = [at |-> "map", todo |-> itxn.job.todo, i |-> itxn.job.i, map |-> itxn.job.map]
    BY <1>2, <1>0 DEF CreateFill
  <2>2. itxn'.job.at = "map" /\ itxn'.job.map = itxn.job.map
    BY <2>1
  <2>3. \A r : Alive(r)' <=> Alive(r)
    BY <1>2, <2>1 DEF Alive, Objects, CreateFill
  <2> QED
    BY <2>1, <2>2, <2>3 DEF MapInv, MappingLive, Live
<1>3. CASE CreateMap
  <2>1. /\ itxn.job.at = "map" /\ UNCHANGED <<attrs, oid>> /\ mapping' = itxn.job.map
        /\ itxn'.job = JobOf("create", itxn.job.todo)
    BY <1>3, <1>0 DEF CreateMap
  <2>2. itxn'.job.at = "create"
    BY <2>1 DEF JobOf
  <2>3. \A r : Alive(r)' <=> Alive(r)
    BY <2>1 DEF Alive, Objects
  <2> QED
    BY <2>1, <2>2, <2>3 DEF MapInv, MappingLive, Live
<1> QED
  BY <1>1, <1>2, <1>3 DEF Create

\* What the gearbox server writes of objects that are gone, or are about to be removed, is in raced.
LEMMA MapSet == ASSUME MapInv, SetMapping PROVE MapInv'
<1>1. UNCHANGED <<attrs, oid, itxn>>
  BY DEF SetMapping
<1>2. \A r : Alive(r)' <=> Alive(r)
  BY <1>1 DEF Alive, Objects
<1>3. CASE mapping' = gtxn.set /\ raced' = {p \in gtxn.set : ~ Live({p}) \/ (itxn.job.at = "drop" /\ Names(p, itxn.job.i))}
  BY <1>1, <1>2, <1>3 DEF MapInv, MappingLive, Live, Names
<1>4. CASE UNCHANGED <<mapping, raced>>
  BY <1>1, <1>4, MapSame DEF Objects
<1> QED
  BY <1>3, <1>4 DEF SetMapping

\* start() sets the default mapping of the objects it finds, before a transaction begins.
LEMMA MapReconcile == ASSUME GearInv, MapInv, Reconcile PROVE MapInv'
<1>1. UNCHANGED <<oid, itxn>> /\ Objects' = Objects /\ mapping' = DefaultMapping(Objects) /\ raced' = {}
  BY DEF Reconcile, Objects
<1>2. itxn'.job.at = "none"
  BY <1>1 DEF Reconcile, GearInv, GearTypeOK, Busy
<1>3. Live(DefaultMapping(Objects))
  BY DefaultIsLive
<1>4. \A r : Alive(r)' <=> Alive(r)
  BY <1>1 DEF Alive
<1> QED
  BY <1>1, <1>2, <1>3, <1>4 DEF MapInv, MappingLive, Live

\* The tributary mapping names no object that is gone, except what the gearbox server wrote from an older
\* look-up (gearbox.py: set_tributary_mapping, interfaces.py: PinModeHandler), call by call.
THEOREM MappingAlwaysLive == Spec => []MappingLive
<1>1. Init => MapInv
  <2> SUFFICES ASSUME Init PROVE MapInv
    OBVIOUS
  <2>1. Objects = Ifs /\ mapping = DefaultMapping(Ifs) /\ oid = [i \in Ifs |-> 0] /\ itxn.job.at = "none"
    BY IdleTyped DEF Init, Objects
  <2>2. Live(mapping)
    BY <2>1, DefaultIsLive
  <2> QED
    BY <2>1, <2>2 DEF MapInv, MappingLive, Live
<1>2. GearInv /\ MapInv /\ [Next]_vars => MapInv'
  BY MapBetween, MapOthers, MapRemove, MapCreate, MapSet, MapReconcile DEF Next, Handle
<1>3. MapInv => MappingLive
  BY DEF MapInv
<1> QED
  BY <1>1, <1>2, <1>3, GearCorrect, PTL DEF Spec
=============================================================================
