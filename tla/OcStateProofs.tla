--------------------------- MODULE OcStateProofs ---------------------------
(***************************************************************************)
(* What a client may rely on in an answer of the translators, proved for   *)
(* every set of slots, modules and network interfaces, every mode table    *)
(* and every mixture of data a request may have read.                      *)
(*                                                                         *)
(* The invariant only says that an answer is what is created from what was *)
(* read (StInv); the work is in what is created.  A component is known by  *)
(* its name, since composed names can be taken apart again (Composed,      *)
(* ParseInverts, IsNamed); so parents are unique and the tree is closed.   *)
(* The pairs of logical channels are numbered in steps of two (StartGrows),*)
(* so an index names one channel and the three steps from a client port    *)
(* lead to the optical channels it is joined to and to no other (Reached). *)
(***************************************************************************)
EXTENDS OcStateProps, SequenceTheorems, FiniteSetTheorems, WellFoundedInduction, TLAPS

-----------------------------------------------------------------------------
(* Names                                                                   *)

\* What the parts of a name may be.
NetifNames == {Netifs[i].netif : i \in DOMAIN Netifs}
Word == Reserved \cup NetifNames \cup UNION {SetOf(name) : name \in Names}

\* A set of numbers has a least one.
LEMMA MinIn ==
  ASSUME NEW S \in SUBSET Nat, S # {}
  PROVE  Min(S) \in S /\ \A x \in S : Min(S) <= x
<1>1. PICK i \in S : \A j \in S : ~ (<<j, i>> \in OpToRel(<, Nat))
  BY NatLessThanWellFounded, WFMin
<1>2. \A j \in S : ~ j < i
  BY <1>1 DEF OpToRel
<1>3. \A j \in S : i <= j
  BY <1>2
<1> QED
  BY <1>1, <1>3 DEF Min

\* A word before a name.
LEMMA WordBefore ==
  ASSUME NEW p \in Word, NEW b \in Seq(Word)
  PROVE  /\ <<p>> \o b \in Seq(Word) /\ Len(<<p>> \o b) = Len(b) + 1
         /\ (<<p>> \o b)[1] = p /\ \A i \in 1 .. Len(b) : (<<p>> \o b)[i + 1] = b[i]
         /\ SubSeq(<<p>> \o b, 2, Len(b) + 1) = b
         /\ \A x \in SetOf(<<p>> \o b) : x = p \/ x \in SetOf(b)
         /\ p \in SetOf(<<p>> \o b)
<1> DEFINE s == <<p>> \o b
<1>1. s \in Seq(Word) /\ Len(s) = Len(b) + 1 /\ s[1] = p /\ \A i \in 1 .. Len(b) : s[i + 1] = b[i]
  OBVIOUS
<1>2. Len(b) \in Nat /\ DOMAIN s = 1 .. Len(b) + 1 /\ DOMAIN b = 1 .. Len(b)
  BY <1>1
<1> HIDE DEF s
<1>3. SubSeq(s, 2, Len(b) + 1) = b
  <2>1. SubSeq(s, 2, Len(b) + 1) \in Seq(Word) /\ Len(SubSeq(s, 2, Len(b) + 1)) = Len(b)
        /\ \A i \in 1 .. Len(b) : SubSeq(s, 2, Len(b) + 1)[i] = s[i + 1]
    BY <1>1, <1>2
  <2> QED
    BY <1>1, <1>2, <2>1, SeqEqual
<1>4. \A x \in SetOf(s) : x = p \/ x \in SetOf(b)
  <2>1. SUFFICES ASSUME NEW i \in 1 .. Len(b) + 1 PROVE s[i] = p \/ s[i] \in SetOf(b)
    BY <1>2 DEF SetOf
  <2>2. CASE i = 1
    BY <1>1, <2>2
  <2>3. CASE i # 1
    <3>1. i - 1 \in 1 .. Len(b) /\ s[(i - 1) + 1] = b[i - 1]
      BY <1>1, <1>2, <2>3
    <3> QED
      BY <1>2, <3>1 DEF SetOf
  <2> QED
    BY <2>2, <2>3
<1>5. p \in SetOf(s)
  BY <1>1, <1>2 DEF SetOf
<1> QED
  BY <1>1, <1>3, <1>4, <1>5 DEF s

\* name.split(part)[1] is what follows the part, if it does not occur again.
LEMMA SplitOff ==
  ASSUME NEW p \in Word, NEW b \in Seq(Word), p \notin SetOf(b)
  PROVE  Split1(<<p>> \o b, p) = b
<1> DEFINE s == <<p>> \o b
           I == {i \in DOMAIN s : s[i] = p}
<1>1. /\ s \in Seq(Word) /\ Len(s) = Len(b) + 1 /\ s[1] = p /\ SubSeq(s, 2, Len(b) + 1) = b
      /\ Len(b) \in Nat
  BY WordBefore
<1> HIDE DEF s
<1>2. 1 \in I /\ I \in SUBSET Nat /\ \A i \in I : 1 <= i
  BY <1>1
<1>3. Min(I) = 1
  BY <1>2, MinIn
<1>4. Find(s, p) = 1
  BY <1>2, <1>3 DEF Find
<1>5. Find(b, p) = 0
  BY DEF Find, SetOf
<1>6. SubSeq(s, Find(s, p) + 1, Len(s)) = b
  BY <1>1, <1>4
<1>7. Split1(s, p) = b
  BY <1>5, <1>6 DEF Split1
<1> QED
  BY <1>7 DEF s

\* A sequence over a set is one over a larger set.
LEMMA SeqOfSubset ==
  ASSUME NEW S, NEW T, S \subseteq T, NEW s \in Seq(S)
  PROVE  s \in Seq(T)
OBVIOUS

\* The names of modules, slots and the others.
LEMMA PlainNames ==
  ASSUME NEW name \in Names
  PROVE  /\ name \in Seq(Word) /\ name # Chassis
         /\ \A w \in Reserved : w \in Word /\ w \notin SetOf(name)
<1>1. IsName(name) /\ name # Chassis
  BY StAssumption
<1>2. SetOf(name) \subseteq Word /\ \A w \in Reserved : w \in Word
  BY DEF Word
<1>3. name \in Seq(Word) /\ SetOf(name) \cap Reserved = {}
  <2>1. name \in Seq(SetOf(name)) /\ SetOf(name) \cap Reserved = {}
    BY <1>1 DEF IsName
  <2> HIDE DEF Word, SetOf
  <2> QED
    BY <1>2, <2>1, SeqOfSubset
<1> QED
  BY <1>1, <1>2, <1>3

\* What is in a name that begins with a word, and that it can be taken off again.
LEMMA Composed ==
  ASSUME NEW name \in Names, NEW v \in Reserved
  PROVE  /\ <<v>> \o name \in Seq(Word) /\ (<<v>> \o name)[1] = v /\ v \in SetOf(<<v>> \o name)
         /\ \A w \in Reserved \ {v} : w \notin SetOf(<<v>> \o name)
         /\ Split1(<<v>> \o name, v) = name
BY PlainNames, WordBefore, SplitOff

\* A name after a word.
After(w, name) == <<w>> \o name
\* The same for two words.
LEMMA Composed2 ==
  ASSUME NEW name \in Names, NEW v \in Reserved, NEW w \in Reserved \ {v}
  PROVE  /\ After(w, After(v, name)) \in Seq(Word)
         /\ (After(w, After(v, name)))[1] = w /\ (After(w, After(v, name)))[2] = v
         /\ w \in SetOf(After(w, After(v, name))) /\ v \in SetOf(After(w, After(v, name)))
         /\ \A x \in Reserved : x # v /\ x # w => x \notin SetOf(After(w, After(v, name)))
         /\ Split1(After(w, After(v, name)), w) = After(v, name)
<1> DEFINE t == <<v>> \o name
           s == <<w>> \o t
<1>1. /\ t \in Seq(Word) /\ t[1] = v /\ w \notin SetOf(t)
      /\ \A x \in Reserved : x # v /\ x # w => x \notin SetOf(t)
  BY Composed
<1>2. w \in Word /\ name \in Seq(Word) /\ v \in Word
  BY PlainNames
<1>3. Len(t) = Len(name) + 1 /\ Len(name) \in Nat
  BY <1>2, WordBefore
<1> HIDE DEF t
<1>4. /\ s \in Seq(Word) /\ s[1] = w /\ w \in SetOf(s)
      /\ \A x \in SetOf(s) : x = w \/ x \in SetOf(t)
      /\ \A i \in 1 .. Len(t) : s[i + 1] = t[i]
  BY <1>1, <1>2, WordBefore
<1>5. Split1(s, w) = t
  BY <1>1, <1>2, SplitOff
<1> HIDE DEF s
<1>6. s[2] = v /\ v \in SetOf(s)
  <2>1. 2 \in DOMAIN s /\ s[2] = v
    <3>1. Len(s) = Len(name) + 2
      BY <1>1, <1>2, <1>3, WordBefore DEF s
    <3> QED
      BY <1>1, <1>3, <1>4, <3>1
  <2> QED
    BY <2>1 DEF SetOf
<1>7. \A x \in Reserved : x # v /\ x # w => x \notin SetOf(s)
  BY <1>1, <1>4
<1> QED
  BY <1>4, <1>5, <1>6, <1>7 DEF s, t, After

\* The two ends of a name.
LEMMA LastPart ==
  ASSUME NEW s \in Seq(Word), NEW n \in Word
  PROVE  /\ s \o <<n>> \in Seq(Word) /\ Front(s \o <<n>>) = s /\ Last(s \o <<n>>) = n
         /\ \A x \in SetOf(s \o <<n>>) : x = n \/ x \in SetOf(s)
<1> DEFINE t == s \o <<n>>
<1>1. t \in Seq(Word) /\ Len(t) = Len(s) + 1 /\ t[Len(s) + 1] = n /\ \A i \in 1 .. Len(s) : t[i] = s[i]
  OBVIOUS
<1>2. Len(s) \in Nat /\ DOMAIN s = 1 .. Len(s) /\ DOMAIN t = 1 .. Len(s) + 1
  BY <1>1
<1> HIDE DEF t
<1>3. SubSeq(t, 1, Len(s)) = s
  <2>1. SubSeq(t, 1, Len(s)) \in Seq(Word) /\ Len(SubSeq(t, 1, Len(s))) = Len(s)
        /\ \A i \in 1 .. Len(s) : SubSeq(t, 1, Len(s))[i] = t[i]
    BY <1>1, <1>2
  <2> QED
    BY <1>1, <1>2, <2>1, SeqEqual
<1>4. Front(t) = s
  BY <1>1, <1>2, <1>3 DEF Front
<1>5. Last(t) = n
  BY <1>1 DEF Last
<1>6. \A x \in SetOf(t) : x = n \/ x \in SetOf(s)
  BY <1>1, <1>2 DEF SetOf
<1> QED
  BY <1>1, <1>4, <1>5, <1>6 DEF t

\* parse_oc_optical_channel undoes get_optical_channel, though a name of a module has several parts.
LEMMA ParseInverts ==
  ASSUME NEW m \in SetOf(Mods), NEW n \in Word \ Reserved
  PROVE  ParseOpticalChannel(OpticalChannelName(m, n)) = [mod |-> m, netif |-> n]
<1>0. m \in Names /\ "line" \in Reserved /\ "transceiver" \in Reserved \ {"line"} /\ "och" \in Reserved /\ "och" \in Word
  BY DEF Names, Reserved, Word
<1> DEFINE t == LineTransceiver(m)
<1>1. t \in Seq(Word) /\ "och" \notin SetOf(t) /\ Split1(t, "transceiver") = LinePort(m)
  <2>1. "och" \in Reserved /\ "och" # "line" /\ "och" # "transceiver"
    BY DEF Reserved
  <2>2. LinePort(m) = <<"line">> \o m /\ t = <<"transceiver">> \o LinePort(m)
    BY DEF LinePort, LineTransceiver
  <2>3. After("transceiver", After("line", m)) = t /\ After("line", m) = LinePort(m)
    BY <2>2 DEF After
  <2> HIDE DEF t
  <2>4. t \in Seq(Word) /\ (\A x \in Reserved : x # "line" /\ x # "transceiver" => x \notin SetOf(t)) /\ Split1(t, "transceiver") = LinePort(m)
    BY <1>0, <2>3, Composed2
  <2> QED
    BY <2>1, <2>2, <2>4
<1>2. Split1(LinePort(m), "line") = m
  BY <1>0, Composed DEF LinePort
<1> HIDE DEF t
<1>3. t \o <<n>> \in Seq(Word) /\ Front(t \o <<n>>) = t /\ Last(t \o <<n>>) = n /\ "och" \notin SetOf(t \o <<n>>)
  <2>1. n \in Word /\ n # "och"
    BY DEF Reserved
  <2> QED
    BY <1>1, <2>1, LastPart
<1>4. OpticalChannelName(m, n) = <<"och">> \o (t \o <<n>>)
  <2>1. <<"och">> \in Seq(Word) /\ <<n>> \in Seq(Word)
    BY <1>0
  <2> QED
    BY <1>1, <2>1, ConcatAssociative DEF OpticalChannelName, t
<1>5. Split1(OpticalChannelName(m, n), "och") = t \o <<n>>
  BY <1>0, <1>3, <1>4, SplitOff
<1> QED
  BY <1>1, <1>2, <1>3, <1>5 DEF ParseOpticalChannel

-----------------------------------------------------------------------------
(* The invariant: an answer is what is created from what was read          *)

\* A request for the subscriptions reads one dataset, of a hardware that there was.
TelemetryRead(g) == \E h \in Hardware : g = [NothingRead EXCEPT !.subscriptions = h.subscriptions]
RequestFits ==
  /\ req = [kind |-> req.kind, todo |-> req.todo, got |-> req.got]
  /\ req.kind \in Kinds \cup {None}
  /\ req.kind = "telemetry" =>
       \/ req.todo = Required.telemetry /\ req.got = NothingRead
       \/ req.todo = <<>> /\ TelemetryRead(req.got)

\* What an answer holds: all of its kind that is created from what was read, unless that fails.
AnswerFits ==
  /\ answer.kind = None => answer.ok
  /\ answer.kind # None =>
       /\ answer.kind \in Kinds
       /\ answer.ok <=> ~ Fails(answer.kind, answer.got)
       /\ answer.ok => answer.value = Created(answer.kind, answer.got)
       /\ answer.kind = "telemetry" => TelemetryRead(answer.got)

StInv == hw \in Hardware /\ RequestFits /\ AnswerFits

\* No request is being answered at first.
LEMMA StInit == Init => StInv
<1> SUFFICES ASSUME Init PROVE StInv
  OBVIOUS
<1>1. hw \in Hardware /\ req = NoRequest /\ answer.kind = None /\ answer.ok
  BY DEF Init
<1>2. None # "telemetry"
  BY StAssumption DEF Kinds
<1>3. RequestFits
  BY <1>1, <1>2 DEF RequestFits, NoRequest
<1> QED
  BY <1>1, <1>3 DEF StInv, AnswerFits

\* The hardware changes between states that it may be in.
LEMMA EventStep ==
  ASSUME StInv, NEW h \in Hardware, Event(h)
  PROVE  StInv'
BY DEF StInv, Event, RequestFits, AnswerFits

\* A request starts with everything its factory requires to be read.
LEMMA AskStep ==
  ASSUME StInv, NEW k \in Kinds, Ask(k)
  PROVE  StInv'
<1>1. /\ hw' = hw /\ answer' = answer
      /\ req' = [kind |-> k, todo |-> Required[k], got |-> NothingRead]
  BY DEF Ask, NoRequest
<1>2. RequestFits'
  BY <1>1 DEF RequestFits
<1> QED
  BY <1>1, <1>2 DEF StInv, AnswerFits

\* A read of the subscriptions takes those that there are.
LEMMA ReadStep ==
  ASSUME StInv, Read
  PROVE  StInv'
<1> DEFINE d == Head(req.todo)
           got == CASE d.mod = None -> hw[d.set]
                    [] d.mod # None /\ d.mod \in DOMAIN hw.modules -> (d.mod :> hw.modules[d.mod]) @@ req.got[d.set]
                    [] OTHER -> req.got[d.set]
<1>1. /\ req.todo # <<>> /\ hw' = hw /\ answer' = answer
      /\ req' = [req EXCEPT !.todo = Tail(@), !.got[d.set] = got]
  BY DEF Read
<1>2. /\ hw \in Hardware /\ req = [kind |-> req.kind, todo |-> req.todo, got |-> req.got]
      /\ req.kind \in Kinds \cup {None}
      /\ req.kind = "telemetry" => req.todo = Required.telemetry /\ req.got = NothingRead
  BY <1>1 DEF StInv, RequestFits
<1>3. req' = [kind |-> req.kind, todo |-> Tail(req.todo), got |-> [req.got EXCEPT ![d.set] = got]]
  <2> HIDE DEF d, got
  <2> QED
    BY <1>1, <1>2
<1>4. ASSUME req.kind = "telemetry"
      PROVE  req'.todo = <<>> /\ TelemetryRead(req'.got)
  <2>1. req.todo = <<[set |-> "subscriptions", mod |-> None]>>
    BY <1>2, <1>4 DEF Required, Datasets
  <2>2. d = [set |-> "subscriptions", mod |-> None] /\ Tail(req.todo) = <<>>
    BY <2>1
  <2>3. got = hw.subscriptions
    BY <2>2
  <2> HIDE DEF d, got
  <2>4. req'.got = [NothingRead EXCEPT !.subscriptions = hw.subscriptions] /\ req'.todo = <<>>
    BY <1>2, <1>3, <1>4, <2>2, <2>3
  <2> QED
    BY <1>2, <2>4 DEF TelemetryRead
<1> HIDE DEF d, got
<1>5. RequestFits'
  BY <1>2, <1>3, <1>4 DEF RequestFits
<1> QED
  BY <1>1, <1>5 DEF StInv, AnswerFits

\* The objects are created at once.
LEMMA AnswerStep ==
  ASSUME StInv, Answer
  PROVE  StInv'
<1>1. /\ req.kind # None /\ req.todo = <<>> /\ req' = NoRequest /\ hw' = hw
      /\ answer'.kind = req.kind /\ answer'.got = req.got
      /\ answer'.ok <=> ~ Fails(req.kind, req.got)
      /\ answer'.ok => answer'.value = Created(req.kind, req.got)
  BY DEF Answer
<1>2. req.kind \in Kinds
  BY <1>1 DEF StInv, RequestFits
<1>3. None # "telemetry"
  BY StAssumption DEF Kinds
<1>4. RequestFits'
  BY <1>1, <1>3 DEF RequestFits, NoRequest
<1>5. req.kind = "telemetry" => TelemetryRead(req.got)
  <2>1. Required.telemetry # <<>>
    BY DEF Required, Datasets
  <2> QED
    BY <1>1, <2>1 DEF StInv, RequestFits
<1>6. AnswerFits'
  BY <1>1, <1>2, <1>5 DEF AnswerFits
<1> QED
  BY <1>1, <1>4, <1>6 DEF StInv

\* An answer is always created as a whole from what its request read.
THEOREM StInvHolds == Spec => []StInv
<1>1. StInv /\ [Next]_vars => StInv'
  <2> SUFFICES ASSUME StInv, [Next]_vars PROVE StInv'
    OBVIOUS
  <2>1. CASE \E h \in Hardware : Event(h)
    BY <2>1, EventStep
  <2>2. CASE \E k \in Kinds : Ask(k)
    BY <2>2, AskStep
  <2>3. CASE Read
    BY <2>3, ReadStep
  <2>4. CASE Answer
    BY <2>4, AnswerStep
  <2>5. CASE UNCHANGED vars
    BY <2>5 DEF vars, StInv, RequestFits, AnswerFits
  <2> QED
    BY <2>1, <2>2, <2>3, <2>4, <2>5 DEF Next
<1> QED
  BY StInit, <1>1, PTL DEF Spec

-----------------------------------------------------------------------------
(* Only odd data makes a request fail                                      *)

\* The mapping of the line side, made from names, is the list of network interfaces.
LEMMA LineMappedIs ==
  ASSUME NEW g, NEW j \in DOMAIN LineMapped(g)
  PROVE  /\ j \in DOMAIN Netifs /\ Netifs[j].mod \in DOMAIN g.modules
         /\ Netifs[j].mod \in SetOf(Mods) /\ Netifs[j].netif \in NetifsOf(Netifs[j].mod)
         /\ LineMapped(g)[j] = [mod |-> Netifs[j].mod, netif |-> Netifs[j].netif]
<1>1. /\ j \in DOMAIN Netifs /\ Netifs[j].mod \in DOMAIN g.modules
      /\ LineMapped(g)[j] = ParseOpticalChannel(OpticalChannelName(Netifs[j].mod, Netifs[j].netif))
  BY DEF LineMapped
<1>2. Netifs[j] \in [mod : SetOf(Mods), netif : NetifNames \ Reserved]
  <2> DEFINE N == [mod : SetOf(Mods), netif : NetifNames \ Reserved]
  <2>1. Netifs \in Seq(N)
    BY StAssumption DEF NetifNames
  <2> HIDE DEF N
  <2>2. Netifs[j] \in N
    BY <1>1, <2>1
  <2> QED
    BY <2>2 DEF N
<1>3. Netifs[j].mod \in SetOf(Mods) /\ Netifs[j].netif \in Word \ Reserved
  BY <1>2 DEF Word
<1>4. Netifs[j].netif \in NetifsOf(Netifs[j].mod)
  BY <1>1 DEF NetifsOf
<1> QED
  BY <1>1, <1>3, <1>4, ParseInverts

\* _create_client_side_mapping() and _create_line_side_logical_channels() fail on nothing but these
\* irregularities.
LEMMA FailsWhenOdd ==
  ASSUME NEW g, TerminalFails(g), ~ ComponentsFail(g)
  PROVE  LET lines(c) == {p \in g.gearboxes : p[1] = IfOf[c]}
         IN \/ \E c \in SetOf(Xcvrs) :
                 Plugged(g, c) /\ ((~ \E p \in lines(c) : lines(c) = {p}) \/ IfOf[c] \notin DOMAIN g.interfaces)
            \/ \E m \in DOMAIN g.modules : \E n \in NetifsOf(m) : g.modules[m].netifs[n].rate = None
<1> DEFINE lines(c) == {p \in g.gearboxes : p[1] = IfOf[c]}
<1>1. CASE \E k \in ClientMapped(g) : ~ \E l \in LineIfsOf(g, Xcvrs[k]) : LineIfsOf(g, Xcvrs[k]) = {l}
  <2>1. PICK k \in ClientMapped(g) : ~ \E l \in LineIfsOf(g, Xcvrs[k]) : LineIfsOf(g, Xcvrs[k]) = {l}
    BY <1>1
  <2>2. Xcvrs[k] \in SetOf(Xcvrs) /\ Plugged(g, Xcvrs[k])
    BY <2>1 DEF ClientMapped, SetOf
  <2>3. ASSUME NEW p \in lines(Xcvrs[k]), lines(Xcvrs[k]) = {p}, IfOf[Xcvrs[k]] \in DOMAIN g.interfaces
        PROVE  FALSE
    <3>1. LineIfsOf(g, Xcvrs[k]) = {q[2] : q \in lines(Xcvrs[k])}
      BY <2>3 DEF LineIfsOf
    <3>2. LineIfsOf(g, Xcvrs[k]) = {p[2]}
      BY <2>3, <3>1
    <3> QED
      BY <2>1, <3>2
  <2> QED
    BY <2>2, <2>3
<1>2. CASE \E j \in DOMAIN LineMapped(g) :
             LET l == LineMapped(g)[j]
             IN l.mod \notin DOMAIN g.modules \/ (g.modules[l.mod].netifs[l.netif].rate = None /\ LinePair(g, l.mod, l.netif) # <<>>)
  BY <1>2, LineMappedIs
<1> QED
  BY <1>1, <1>2 DEF TerminalFails

\* A request for the logical channels fails only on such data.
THEOREM FailsOnlyOnOddData == Spec => []AnsweredUnlessOdd
<1>1. StInv => AnsweredUnlessOdd
  <2> SUFFICES ASSUME StInv, ~ answer.ok PROVE AnsweredUnlessOdd
    BY DEF AnsweredUnlessOdd
  <2>1. Fails(answer.kind, answer.got)
    BY DEF StInv, AnswerFits
  <2>2. CASE ComponentsFail(answer.got)
    BY <2>1, <2>2 DEF Fails, ComponentsFail, AnsweredUnlessOdd
  <2>3. CASE ~ ComponentsFail(answer.got)
    <3>1. answer.kind = "terminal" /\ TerminalFails(answer.got)
      BY <2>1, <2>3 DEF Fails
    <3> QED
      BY <2>3, <3>1, FailsWhenOdd DEF AnsweredUnlessOdd
  <2> QED
    BY <2>2, <2>3
<1> QED
  BY StInvHolds, <1>1, PTL

-----------------------------------------------------------------------------
(* Keys are unique, and the components are one tree                        *)

\* What the name of a component says of it.
Says(name) ==
  IF name = Chassis THEN "chassis"
  ELSE IF "och" \in SetOf(name) THEN "channel"
  ELSE IF "line" \in SetOf(name) THEN IF "transceiver" \in SetOf(name) THEN "line transceiver" ELSE "line"
  ELSE IF "client" \in SetOf(name) THEN IF "transceiver" \in SetOf(name) THEN "client transceiver" ELSE "client"
  ELSE "other"
\* The component of that name.
Named(g, name) ==
  CASE Says(name) = "chassis" -> ChassisComponent
    [] Says(name) = "channel" -> OpticalChannel(g, ParseOpticalChannel(name).mod, ParseOpticalChannel(name).netif)
    [] Says(name) = "line" -> TerminalLinePort(g, Split1(name, "line"))
    [] Says(name) = "line transceiver" -> LineTransceiverOf(g, Split1(Split1(name, "transceiver"), "line"))
    [] Says(name) = "client" -> TerminalClientPort(g, ParseClientPort(name))
    [] Says(name) = "client transceiver" -> ClientTransceiverOf(g, ParseClientPort(Split1(name, "transceiver")))
    [] Says(name) = "other" -> FanOrPowerSupply(g, name)

\* A name that begins with a reserved word is not that of the chassis.
LEMMA NotChassis ==
  ASSUME NEW s, s[1] \in Reserved
  PROVE  s # Chassis
BY DEF Reserved, Chassis

\* The words that composed names begin with.
LEMMA ReservedWords ==
  /\ Reserved = {"line", "client", "transceiver", "och"}
  /\ "line" \in Word /\ "client" \in Word /\ "transceiver" \in Word /\ "och" \in Word
<1>1. Reserved \subseteq Word
  BY DEF Word
<1> QED
  BY <1>1 DEF Reserved

\* What the names of ports say.
LEMMA PortSays ==
  /\ \A m \in SetOf(Mods) : Says(LinePort(m)) = "line" /\ Split1(LinePort(m), "line") = m
  /\ \A c \in SetOf(Xcvrs) : Says(ClientPort(c)) = "client" /\ ParseClientPort(ClientPort(c)) = c
<1>1. ASSUME NEW m \in SetOf(Mods)
      PROVE  Says(LinePort(m)) = "line" /\ Split1(LinePort(m), "line") = m
  <2>1. m \in Names /\ "line" \in Reserved
    BY ReservedWords DEF Names
  <2>2. /\ LinePort(m)[1] = "line" /\ "line" \in SetOf(LinePort(m)) /\ Split1(LinePort(m), "line") = m
        /\ \A w \in Reserved \ {"line"} : w \notin SetOf(LinePort(m))
    BY <2>1, Composed DEF LinePort
  <2>3. "och" \notin SetOf(LinePort(m)) /\ "transceiver" \notin SetOf(LinePort(m))
    BY <2>2, ReservedWords
  <2> QED
    BY <2>1, <2>2, <2>3, NotChassis DEF Says
<1>2. ASSUME NEW c \in SetOf(Xcvrs)
      PROVE  Says(ClientPort(c)) = "client" /\ ParseClientPort(ClientPort(c)) = c
  <2>1. c \in Names /\ "client" \in Reserved
    BY ReservedWords DEF Names
  <2>2. /\ ClientPort(c)[1] = "client" /\ "client" \in SetOf(ClientPort(c)) /\ Split1(ClientPort(c), "client") = c
        /\ \A w \in Reserved \ {"client"} : w \notin SetOf(ClientPort(c))
    BY <2>1, Composed DEF ClientPort
  <2>3. "och" \notin SetOf(ClientPort(c)) /\ "transceiver" \notin SetOf(ClientPort(c)) /\ "line" \notin SetOf(ClientPort(c))
    BY <2>2, ReservedWords
  <2> QED
    BY <2>1, <2>2, <2>3, NotChassis DEF Says, ParseClientPort
<1> QED
  BY <1>1, <1>2

\* What the names of transceivers say.
LEMMA TransceiverSays ==
  /\ \A m \in SetOf(Mods) :
       /\ Says(LineTransceiver(m)) = "line transceiver" /\ Split1(LineTransceiver(m), "transceiver") = LinePort(m)
       /\ LineTransceiver(m) \in Seq(Word) /\ "och" \notin SetOf(LineTransceiver(m))
  /\ \A c \in SetOf(Xcvrs) :
       Says(ClientTransceiver(c)) = "client transceiver" /\ Split1(ClientTransceiver(c), "transceiver") = ClientPort(c)
<1>1. ASSUME NEW m \in SetOf(Mods)
      PROVE  /\ Says(LineTransceiver(m)) = "line transceiver" /\ Split1(LineTransceiver(m), "transceiver") = LinePort(m)
             /\ LineTransceiver(m) \in Seq(Word) /\ "och" \notin SetOf(LineTransceiver(m))
  <2>1. m \in Names /\ "line" \in Reserved /\ "transceiver" \in Reserved \ {"line"}
    BY ReservedWords DEF Names
  <2> DEFINE t == LineTransceiver(m)
  <2>2. After("transceiver", After("line", m)) = t /\ After("line", m) = LinePort(m)
    BY DEF After, LineTransceiver, LinePort
  <2> HIDE DEF t
  <2>3. /\ t[1] = "transceiver" /\ "transceiver" \in SetOf(t) /\ "line" \in SetOf(t) /\ t \in Seq(Word)
        /\ Split1(t, "transceiver") = LinePort(m)
        /\ \A x \in Reserved : x # "line" /\ x # "transceiver" => x \notin SetOf(t)
    BY <2>1, <2>2, Composed2
  <2>4. "och" \notin SetOf(t)
    BY <2>3, ReservedWords
  <2> QED
    BY <2>1, <2>3, <2>4, NotChassis DEF Says, t
<1>2. ASSUME NEW c \in SetOf(Xcvrs)
      PROVE  Says(ClientTransceiver(c)) = "client transceiver" /\ Split1(ClientTransceiver(c), "transceiver") = ClientPort(c)
  <2>1. c \in Names /\ "client" \in Reserved /\ "transceiver" \in Reserved \ {"client"}
    BY ReservedWords DEF Names
  <2> DEFINE t == ClientTransceiver(c)
  <2>2. After("transceiver", After("client", c)) = t /\ After("client", c) = ClientPort(c)
    BY DEF After, ClientTransceiver, ClientPort
  <2> HIDE DEF t
  <2>3. /\ t[1] = "transceiver" /\ "transceiver" \in SetOf(t) /\ "client" \in SetOf(t) /\ t \in Seq(Word)
        /\ Split1(t, "transceiver") = ClientPort(c)
        /\ \A x \in Reserved : x # "client" /\ x # "transceiver" => x \notin SetOf(t)
    BY <2>1, <2>2, Composed2
  <2>4. "och" \notin SetOf(t) /\ "line" \notin SetOf(t)
    BY <2>3, ReservedWords
  <2> QED
    BY <2>1, <2>3, <2>4, NotChassis DEF Says, t
<1> QED
  BY <1>1, <1>2

\* What the names of optical channels say.
LEMMA ChannelSays ==
  ASSUME NEW m \in SetOf(Mods), NEW n \in Word
  PROVE  OpticalChannelName(m, n) = <<"och">> \o (LineTransceiver(m) \o <<n>>) /\ Says(OpticalChannelName(m, n)) = "channel"
<1> DEFINE t == LineTransceiver(m)
           s == t \o <<n>>
<1>1. t \in Seq(Word) /\ "och" \in Word /\ "och" \in Reserved
  BY TransceiverSays, ReservedWords
<1>2. OpticalChannelName(m, n) = <<"och">> \o s
  <2>1. <<"och">> \in Seq(Word) /\ <<n>> \in Seq(Word)
    BY <1>1
  <2> HIDE DEF t
  <2>2. OpticalChannelName(m, n) = (<<"och">> \o t) \o <<n>>
    BY DEF OpticalChannelName, t
  <2>3. (<<"och">> \o t) \o <<n>> = <<"och">> \o (t \o <<n>>)
    BY <1>1, <2>1, ConcatAssociative
  <2> QED
    BY <2>2, <2>3
<1>3. s \in Seq(Word)
  BY <1>1, LastPart
<1> HIDE DEF t, s
<1>4. (<<"och">> \o s)[1] = "och" /\ "och" \in SetOf(<<"och">> \o s)
  BY <1>1, <1>3, WordBefore
<1>5. Says(OpticalChannelName(m, n)) = "channel"
  BY <1>1, <1>2, <1>4, NotChassis DEF Says
<1> QED
  BY <1>2, <1>5 DEF s, t

\* What the plain names say.
LEMMA PlainSays ==
  /\ Says(Chassis) = "chassis"
  /\ \A o \in DOMAIN Others : Says(o) = "other"
<1>1. ASSUME NEW o \in DOMAIN Others
      PROVE  Says(o) = "other"
  <2>1. o \in Names
    BY DEF Names
  <2>2. o # Chassis /\ \A w \in Reserved : w \notin SetOf(o)
    BY <2>1, PlainNames
  <2>3. "och" \notin SetOf(o) /\ "line" \notin SetOf(o) /\ "client" \notin SetOf(o)
    BY <2>2, ReservedWords
  <2> QED
    BY <2>2, <2>3 DEF Says
<1> QED
  BY <1>1 DEF Says

\* A network interface is no reserved word.
LEMMA NetifIsWord ==
  ASSUME NEW m, NEW n \in NetifsOf(m)
  PROVE  n \in Word \ Reserved
<1> DEFINE N == [mod : SetOf(Mods), netif : NetifNames \ Reserved]
<1>1. Netifs \in Seq(N)
  BY StAssumption DEF NetifNames
<1>2. PICK i \in DOMAIN Netifs : n = Netifs[i].netif
  BY DEF NetifsOf
<1> HIDE DEF N
<1>3. Netifs[i] \in N
  BY <1>1, <1>2
<1>4. n \in NetifNames /\ n \notin Reserved
  BY <1>2, <1>3 DEF N
<1> QED
  BY <1>4 DEF Word

\* The kinds of components there are.
LEMMA ComponentCases ==
  ASSUME NEW g, NEW c \in CreateComponents(g)
  PROVE  \/ c = ChassisComponent
         \/ \E m \in ModsIn(g) : c = TerminalLinePort(g, m)
         \/ \E m \in ModsIn(g) : c = LineTransceiverOf(g, m)
         \/ \E m \in ModsIn(g) : \E n \in NetifsOf(m) : c = OpticalChannel(g, m, n)
         \/ \E x \in XcvrsIn(g) : c = TerminalClientPort(g, x)
         \/ \E x \in XcvrsIn(g) : c = ClientTransceiverOf(g, x)
         \/ \E o \in OthersIn(g) : c = FanOrPowerSupply(g, o)
BY DEF CreateComponents

\* What was read is among what there is.
LEMMA InIs ==
  ASSUME NEW g
  PROVE  XcvrsIn(g) \subseteq SetOf(Xcvrs) /\ OthersIn(g) \subseteq DOMAIN Others
BY DEF XcvrsIn, OthersIn

\* An optical channel is made of its fields.
LEMMA OpticalChannelIs ==
  ASSUME NEW g, NEW m, NEW n
  PROVE  OpticalChannel(g, m, n) =
           [name |-> OpticalChannelName(m, n), type |-> "OPTICAL_CHANNEL", parent |-> LineTransceiver(m),
            status |-> NetifStatus(g.modules[m].netifs[n].status), mode |-> OperationalMode(g.modules[m].netifs[n])]
BY DEF OpticalChannel, Component

\* ComponentNameResolver gives no two components the same name: a component is known by it.
LEMMA IsNamed ==
  ASSUME NEW g, NEW c \in CreateComponents(g)
  PROVE  c = Named(g, c.name)
<1>1. CASE c = ChassisComponent
  <2>1. Says(c.name) = "chassis"
    BY <1>1, PlainSays DEF ChassisComponent, Component
  <2> QED
    BY <1>1, <2>1 DEF Named
<1>2. ASSUME NEW m \in ModsIn(g), c = TerminalLinePort(g, m)
      PROVE  c = Named(g, c.name)
  <2>1. c.name = LinePort(m) /\ m \in SetOf(Mods)
    BY <1>2 DEF TerminalLinePort, Component, ModsIn
  <2>2. Says(c.name) = "line" /\ Split1(c.name, "line") = m
    BY <2>1, PortSays
  <2> QED
    BY <1>2, <2>2 DEF Named
<1>3. ASSUME NEW m \in ModsIn(g), c = LineTransceiverOf(g, m)
      PROVE  c = Named(g, c.name)
  <2>1. c.name = LineTransceiver(m) /\ m \in SetOf(Mods)
    BY <1>3 DEF LineTransceiverOf, Component, ModsIn
  <2>2. Says(c.name) = "line transceiver" /\ Split1(Split1(c.name, "transceiver"), "line") = m
    BY <2>1, PortSays, TransceiverSays
  <2> QED
    BY <1>3, <2>2 DEF Named
<1>4. ASSUME NEW m \in ModsIn(g), NEW n \in NetifsOf(m), c = OpticalChannel(g, m, n)
      PROVE  c = Named(g, c.name)
  <2>1. c.name = OpticalChannelName(m, n) /\ m \in SetOf(Mods) /\ n \in Word \ Reserved
    BY <1>4, OpticalChannelIs, NetifIsWord DEF ModsIn
  <2>2. Says(c.name) = "channel" /\ ParseOpticalChannel(c.name) = [mod |-> m, netif |-> n]
    BY <2>1, ChannelSays, ParseInverts
  <2> QED
    BY <1>4, <2>2 DEF Named
<1>5. ASSUME NEW x \in SetOf(Xcvrs), c = TerminalClientPort(g, x)
      PROVE  c = Named(g, c.name)
  <2>1. c.name = ClientPort(x)
    BY <1>5 DEF TerminalClientPort, Component
  <2>2. Says(c.name) = "client" /\ ParseClientPort(c.name) = x
    BY <2>1, PortSays
  <2> QED
    BY <1>5, <2>2 DEF Named
<1>6. ASSUME NEW x \in SetOf(Xcvrs), c = ClientTransceiverOf(g, x)
      PROVE  c = Named(g, c.name)
  <2>1. c.name = ClientTransceiver(x)
    BY <1>6 DEF ClientTransceiverOf, Component
  <2>2. Says(c.name) = "client transceiver" /\ ParseClientPort(Split1(c.name, "transceiver")) = x
    BY <2>1, PortSays, TransceiverSays
  <2> QED
    BY <1>6, <2>2 DEF Named
<1>7. ASSUME NEW o \in DOMAIN Others, c = FanOrPowerSupply(g, o)
      PROVE  c = Named(g, c.name)
  <2>1. c.name = o
    BY <1>7 DEF FanOrPowerSupply, Component
  <2>2. Says(c.name) = "other"
    BY <2>1, PlainSays
  <2> QED
    BY <1>7, <2>1, <2>2 DEF Named
<1> QED
  BY <1>1, <1>2, <1>3, <1>4, <1>5, <1>6, <1>7, ComponentCases, InIs

\* The circuit packs are known by their names as well.
LEMMA PackIsNamed ==
  ASSUME NEW g, NEW p \in CircuitPacks(g), NEW q \in CircuitPacks(g), p[1] = q[1]
  PROVE  p = q
<1> DEFINE state(x) == IF x = Chassis THEN "inService"
                       ELSE IF x \in DOMAIN Others THEN None
                       ELSE IF x \in SetOf(Xcvrs) THEN IF g.components[x] = "PRESENT" THEN "inService" ELSE "outOfService"
                       ELSE PackState(g.modules[x].status)
<1>1. \A x \in Names : x # Chassis
  BY PlainNames
<1>2. /\ \A x \in DOMAIN Others : x # Chassis
      /\ \A x \in SetOf(Xcvrs) : x # Chassis /\ x \notin DOMAIN Others
      /\ \A x \in SetOf(Mods) : x # Chassis /\ x \notin DOMAIN Others /\ x \notin SetOf(Xcvrs)
  BY <1>1, StAssumption DEF Names
<1>3. ASSUME NEW r \in CircuitPacks(g)
      PROVE  r = <<r[1], state(r[1])>>
  <2>1. \/ r = <<Chassis, "inService">>
        \/ \E o \in DOMAIN Others : r = <<o, None>>
        \/ \E x \in SetOf(Xcvrs) : r = <<x, IF g.components[x] = "PRESENT" THEN "inService" ELSE "outOfService">>
        \/ \E m \in SetOf(Mods) : r = <<m, PackState(g.modules[m].status)>>
    BY <1>3 DEF CircuitPacks, ModsIn, XcvrsIn, OthersIn, Stated
  <2> QED
    BY <1>2, <2>1
<1> HIDE DEF state
<1> QED
  BY <1>3

\* DynamicSubscription._id packs two ids into one without loss.
LEMMA IdIsUnique ==
  ASSUME NEW a \in 0 .. IdRange - 1, NEW b \in 0 .. IdRange - 1, NEW c \in 0 .. IdRange - 1, NEW d \in 0 .. IdRange - 1,
         DynamicId(a, b) = DynamicId(c, d)
  PROVE  a = c /\ b = d
<1>1. IdRange \in Nat \ {0}
  BY StAssumption
<1>2. a * IdRange + b = c * IdRange + d
  BY DEF DynamicId
<1>3. ASSUME NEW x \in Nat, NEW y \in Nat, x < y
      PROVE  x * IdRange + IdRange <= y * IdRange
  <2>1. PICK k \in Nat : y = x + 1 + k
    <3>1. y - x - 1 \in Nat /\ y = x + 1 + (y - x - 1)
      BY <1>3
    <3> QED
      BY <3>1
  <2>2. y * IdRange = x * IdRange + IdRange + k * IdRange
    BY <1>1, <2>1
  <2>3. k * IdRange \in Nat /\ x * IdRange \in Nat
    BY <1>1
  <2> QED
    BY <1>1, <2>2, <2>3
<1>4. a * IdRange \in Nat /\ c * IdRange \in Nat
  BY <1>1
<1>5. ~ a < c
  <2>1. SUFFICES ASSUME a < c PROVE FALSE
    OBVIOUS
  <2>2. a * IdRange + IdRange <= c * IdRange
    BY <1>3, <2>1
  <2> QED
    BY <1>1, <1>2, <1>4, <2>2
<1>6. ~ c < a
  <2>1. SUFFICES ASSUME c < a PROVE FALSE
    OBVIOUS
  <2>2. c * IdRange + IdRange <= a * IdRange
    BY <1>3, <2>1
  <2> QED
    BY <1>1, <1>2, <1>4, <2>2
<1>7. a = c
  BY <1>1, <1>5, <1>6
<1> QED
  BY <1>2, <1>4, <1>7

\* No two entries of an answer have the same key.
LEMMA KeysAreUnique == StInv => KeysUnique
<1> SUFFICES ASSUME StInv PROVE KeysUnique
  OBVIOUS
<1> DEFINE g == answer.got
<1>0. /\ None \notin Kinds
      /\ answer.kind # None => /\ answer.ok <=> ~ Fails(answer.kind, g)
                               /\ answer.ok => answer.value = Created(answer.kind, g)
                               /\ answer.kind = "telemetry" => TelemetryRead(g)
  BY StAssumption DEF StInv, AnswerFits
<1>1. {"platform", "interfaces", "openroadm", "telemetry"} \subseteq Kinds
  BY DEF Kinds
<1>2. ASSUME Answered("platform"), NEW c \in answer.value, NEW d \in answer.value, c.name = d.name
      PROVE  c = d
  <2>1. answer.value = CreateComponents(g)
    BY <1>0, <1>1, <1>2 DEF Created, Answered
  <2> QED
    BY <1>2, <2>1, IsNamed
<1>3. ASSUME Answered("interfaces"), NEW c \in answer.value, NEW d \in answer.value, c.name = d.name
      PROVE  c = d
  <2>1. answer.value = CreateInterfaces(g)
    BY <1>0, <1>1, <1>3 DEF Created, Answered
  <2>2. ASSUME NEW e \in CreateInterfaces(g) PROVE e = EthernetCSMACD(g, e.name)
    BY DEF CreateInterfaces, EthernetCSMACD
  <2> QED
    BY <1>3, <2>1, <2>2
<1>4. ASSUME answer.kind = "telemetry", NEW c \in answer.value, NEW d \in answer.value, c.id = d.id
      PROVE  c = d
  <2>1. answer.value = DynamicSubscriptions(g)
    BY <1>0, <1>1, <1>4 DEF Created, Fails
  <2>2. g.subscriptions \subseteq (0 .. IdRange - 1) \X (0 .. IdRange - 1)
    BY <1>0, <1>1, <1>4, StAssumption DEF TelemetryRead, NothingRead
  <2>3. PICK p \in g.subscriptions : c = [id |-> DynamicId(p[1], p[2]), of |-> p]
    BY <1>4, <2>1 DEF DynamicSubscriptions
  <2>4. PICK q \in g.subscriptions : d = [id |-> DynamicId(q[1], q[2]), of |-> q]
    BY <1>4, <2>1 DEF DynamicSubscriptions
  <2>5. DynamicId(p[1], p[2]) = DynamicId(q[1], q[2])
    BY <1>4, <2>3, <2>4
  <2>6. p[1] = q[1] /\ p[2] = q[2] /\ p = <<p[1], p[2]>> /\ q = <<q[1], q[2]>>
    BY <2>2, <2>5, IdIsUnique
  <2> QED
    BY <2>3, <2>4, <2>6
<1>5. ASSUME answer.kind = "openroadm", NEW p \in answer.value.packs, NEW q \in answer.value.packs, p[1] = q[1]
      PROVE  p = q
  <2>1. answer.value.packs = CircuitPacks(g)
    BY <1>0, <1>1, <1>5 DEF Created, Fails
  <2> QED
    BY <1>5, <2>1, PackIsNamed
<1> QED
  BY <1>2, <1>3, <1>4, <1>5 DEF KeysUnique

\* _operational_mode answers one of the modes there are, with the parameters of the interface.
LEMMA ModeIs ==
  ASSUME NEW n, OperationalMode(n) # None
  PROVE  \E i \in DOMAIN Modes : Modes[i].id = OperationalMode(n) /\ Modes[i].rate = n.rate /\ n.rate # None
<1> DEFINE I == {i \in DOMAIN Modes : Modes[i].rate = n.rate /\ Modes[i].map = n.map}
<1>1. I # {} /\ n.rate # None /\ OperationalMode(n) = Modes[Min(I)].id
  BY DEF OperationalMode
<1>2. I \in SUBSET Nat
  BY StAssumption
<1> HIDE DEF I
<1>3. Min(I) \in I
  BY <1>1, <1>2, MinIn
<1> QED
  BY <1>1, <1>3 DEF I

\* The components that the parents of others are.
LEMMA ParentsCreated ==
  ASSUME NEW g
  PROVE  /\ ChassisComponent \in CreateComponents(g)
         /\ \A m \in ModsIn(g) : TerminalLinePort(g, m) \in CreateComponents(g) /\ LineTransceiverOf(g, m) \in CreateComponents(g)
         /\ \A x \in XcvrsIn(g) : TerminalClientPort(g, x) \in CreateComponents(g)
BY DEF CreateComponents

\* ComponentFactory.create() makes one tree: parents are there, with the status they hand down.
LEMMA TreeSound ==
  ASSUME NEW g, NEW c \in CreateComponents(g)
  PROVE  LET up(d) == {p \in CreateComponents(g) : p.name = d.parent}
         IN /\ c.type # "CHASSIS" => up(c) # {}
            /\ c.type = "TRANSCEIVER" => \A p \in up(c) : p.type = "PORT" /\ p.status = c.status
            /\ c.type = "OPTICAL_CHANNEL" => \A p \in up(c) : \E q \in up(p) : q.parent = Chassis
            /\ c.mode # None => \E i \in DOMAIN Modes : Modes[i].id = c.mode
<1> DEFINE cs == CreateComponents(g)
           up(d) == {p \in cs : p.name = d.parent}
           Sound == /\ c.type # "CHASSIS" => up(c) # {}
                    /\ c.type = "TRANSCEIVER" => \A p \in up(c) : p.type = "PORT" /\ p.status = c.status
                    /\ c.type = "OPTICAL_CHANNEL" => \A p \in up(c) : \E q \in up(p) : q.parent = Chassis
                    /\ c.mode # None => \E i \in DOMAIN Modes : Modes[i].id = c.mode
<1>1. ASSUME NEW p \in cs, NEW q \in cs, p.name = q.name PROVE p = q
  BY <1>1, IsNamed
<1>2. ChassisComponent \in cs /\ ChassisComponent.name = Chassis /\ ChassisComponent.type = "CHASSIS" /\ ChassisComponent.mode = None
  BY ParentsCreated DEF ChassisComponent, Component
<1>3. ASSUME NEW m \in ModsIn(g)
      PROVE  /\ TerminalLinePort(g, m) \in cs /\ TerminalLinePort(g, m).name = LinePort(m)
             /\ TerminalLinePort(g, m).type = "PORT" /\ TerminalLinePort(g, m).parent = Chassis /\ TerminalLinePort(g, m).mode = None
             /\ LineTransceiverOf(g, m) \in cs /\ LineTransceiverOf(g, m).name = LineTransceiver(m)
             /\ LineTransceiverOf(g, m).type = "TRANSCEIVER" /\ LineTransceiverOf(g, m).parent = LinePort(m)
             /\ LineTransceiverOf(g, m).status = TerminalLinePort(g, m).status /\ LineTransceiverOf(g, m).mode = None
  <2>1. TerminalLinePort(g, m) \in cs /\ LineTransceiverOf(g, m) \in cs
    BY ParentsCreated
  <2> QED
    BY <2>1 DEF TerminalLinePort, LineTransceiverOf, Component
<1>4. ASSUME NEW x \in XcvrsIn(g)
      PROVE  /\ TerminalClientPort(g, x) \in cs /\ TerminalClientPort(g, x).name = ClientPort(x)
             /\ TerminalClientPort(g, x).type = "PORT" /\ TerminalClientPort(g, x).parent = Chassis /\ TerminalClientPort(g, x).mode = None
             /\ ClientTransceiverOf(g, x).type = "TRANSCEIVER" /\ ClientTransceiverOf(g, x).parent = ClientPort(x)
             /\ ClientTransceiverOf(g, x).status = TerminalClientPort(g, x).status /\ ClientTransceiverOf(g, x).mode = None
  <2>1. TerminalClientPort(g, x) \in cs
    BY ParentsCreated
  <2> QED
    BY <2>1 DEF TerminalClientPort, ClientTransceiverOf, Component
<1> HIDE DEF cs
<1>5. ASSUME c = ChassisComponent
      PROVE  Sound
  BY <1>2, <1>5
<1>6. ASSUME NEW m \in ModsIn(g), c = TerminalLinePort(g, m)
      PROVE  Sound
  BY <1>2, <1>3, <1>6
<1>7. ASSUME NEW m \in ModsIn(g), c = LineTransceiverOf(g, m)
      PROVE  Sound
  <2>1. TerminalLinePort(g, m) \in up(c)
    BY <1>3, <1>7
  <2>2. \A p \in up(c) : p = TerminalLinePort(g, m)
    BY <1>1, <1>3, <1>7
  <2> QED
    BY <1>3, <1>7, <2>1, <2>2
<1>8. ASSUME NEW m \in ModsIn(g), NEW n \in NetifsOf(m), c = OpticalChannel(g, m, n)
      PROVE  Sound
  <2>1. /\ c.type = "OPTICAL_CHANNEL" /\ c.parent = LineTransceiver(m)
        /\ c.mode = OperationalMode(g.modules[m].netifs[n])
    BY <1>8, OpticalChannelIs
  <2>2. LineTransceiverOf(g, m) \in up(c)
    BY <1>3, <2>1
  <2>3. \A p \in up(c) : p = LineTransceiverOf(g, m)
    BY <1>1, <1>3, <2>1
  <2>4. TerminalLinePort(g, m) \in up(LineTransceiverOf(g, m)) /\ TerminalLinePort(g, m).parent = Chassis
    BY <1>3
  <2>5. c.mode # None => \E i \in DOMAIN Modes : Modes[i].id = c.mode
    BY <2>1, ModeIs
  <2> HIDE DEF up
  <2>6. \A p \in up(c) : \E q \in up(p) : q.parent = Chassis
    BY <2>3, <2>4
  <2> QED
    BY <2>1, <2>2, <2>5, <2>6
<1>9. ASSUME NEW x \in XcvrsIn(g), c = TerminalClientPort(g, x)
      PROVE  Sound
  BY <1>2, <1>4, <1>9
<1>10. ASSUME NEW x \in XcvrsIn(g), c = ClientTransceiverOf(g, x)
      PROVE  Sound
  <2>1. TerminalClientPort(g, x) \in up(c)
    BY <1>4, <1>10
  <2>2. \A p \in up(c) : p = TerminalClientPort(g, x)
    BY <1>1, <1>4, <1>10
  <2> QED
    BY <1>4, <1>10, <2>1, <2>2
<1>11. ASSUME NEW o \in OthersIn(g), c = FanOrPowerSupply(g, o)
      PROVE  Sound
  <2>1. c.parent = Chassis /\ c.mode = None /\ c.type = Others[o]
    BY <1>11 DEF FanOrPowerSupply, Component
  <2>2. c.type \notin {"TRANSCEIVER", "OPTICAL_CHANNEL"}
    BY <2>1, InIs, StAssumption
  <2> QED
    BY <1>2, <2>1, <2>2
<1> HIDE DEF Sound, up
<1>12. Sound
  BY <1>5, <1>6, <1>7, <1>8, <1>9, <1>10, <1>11, ComponentCases
<1> QED
  BY <1>12 DEF Sound, up, cs

\* An answer is valid data of its model, and the components are one tree.
THEOREM AnswersAreValid == Spec => []HierarchySound
<1>1. StInv => HierarchySound
  <2> SUFFICES ASSUME StInv PROVE HierarchySound
    OBVIOUS
  <2>1. KeysUnique
    BY KeysAreUnique
  <2>2. Answered("platform") => answer.value = CreateComponents(answer.got)
    <3>1. None # "platform"
      BY StAssumption DEF Kinds
    <3> QED
      BY <3>1 DEF Answered, StInv, AnswerFits, Created
  <2> QED
    BY <2>1, <2>2, TreeSound DEF HierarchySound
<1> QED
  BY StInvHolds, <1>1, PTL

-----------------------------------------------------------------------------
(* The logical channels picture the path of a signal                       *)

\* The slots and the network interfaces are sequences.
LEMMA Lengths ==
  /\ Len(Xcvrs) \in Nat /\ DOMAIN Xcvrs = 1 .. Len(Xcvrs)
  /\ Len(Netifs) \in Nat /\ DOMAIN Netifs = 1 .. Len(Netifs)
<1> DEFINE N == [mod : SetOf(Mods), netif : NetifNames \ Reserved]
           X == SetOf(Xcvrs)
<1>1. Netifs \in Seq(N) /\ Xcvrs \in Seq(X)
  BY StAssumption DEF NetifNames
<1> HIDE DEF N, X
<1> QED
  BY <1>1

\* The pairs that are made.
LEMMA MadeIs ==
  ASSUME NEW g
  PROVE  Made(g) \in SUBSET (1 .. Len(Xcvrs) + Len(Netifs)) /\ IsFiniteSet(Made(g))
<1>1. Made(g) \in SUBSET (1 .. Len(Xcvrs) + Len(Netifs))
  BY DEF Made, Pairs
<1>2. IsFiniteSet(1 .. Len(Xcvrs) + Len(Netifs))
  BY Lengths, FS_Interval
<1> QED
  BY <1>1, <1>2, FS_Subset

\* _get_index hands out indexes in steps of two.
LEMMA StartGrows ==
  ASSUME NEW g, NEW i \in Made(g), NEW k \in Made(g)
  PROVE  StartOf(g, i) \in Nat /\ (i < k => StartOf(g, i) + 2 <= StartOf(g, k))
<1> DEFINE Below(n) == {j \in Made(g) : j < n}
<1>1. \A n : IsFiniteSet(Below(n)) /\ Cardinality(Below(n)) \in Nat
  <2> TAKE n
  <2>1. Below(n) \subseteq Made(g)
    OBVIOUS
  <2> HIDE DEF Below
  <2> QED
    BY <2>1, MadeIs, FS_Subset, FS_CardinalityType
<1>2. \A n : StartOf(g, n) = 2 * Cardinality(Below(n))
  BY DEF StartOf
<1>3. ASSUME i < k
      PROVE  Cardinality(Below(i)) + 1 <= Cardinality(Below(k))
  <2>1. i \in Nat /\ k \in Nat /\ Made(g) \subseteq Nat
    BY MadeIs, Lengths
  <2>2. i \notin Below(i) /\ Below(i) \cup {i} \subseteq Below(k)
    BY <1>3, <2>1
  <2> HIDE DEF Below
  <2>3. Cardinality(Below(i) \cup {i}) = Cardinality(Below(i)) + 1
    BY <1>1, <2>2, FS_AddElement
  <2>4. Cardinality(Below(i) \cup {i}) <= Cardinality(Below(k))
    BY <1>1, <2>2, FS_Subset
  <2> QED
    BY <2>3, <2>4
<1> HIDE DEF Below
<1> QED
  BY <1>1, <1>2, <1>3

\* So neither end of a pair is an end of another.
LEMMA StartsApart ==
  ASSUME NEW g, NEW i \in Made(g), NEW k \in Made(g)
  PROVE  /\ StartOf(g, i) \in Nat /\ StartOf(g, k) \in Nat
         /\ StartOf(g, i) = StartOf(g, k) => i = k
         /\ StartOf(g, i) + 1 = StartOf(g, k) + 1 => i = k
         /\ StartOf(g, i) # StartOf(g, k) + 1 /\ StartOf(g, k) # StartOf(g, i) + 1
<1>1. i \in Nat /\ k \in Nat
  BY MadeIs, Lengths
<1>2. StartOf(g, i) \in Nat /\ StartOf(g, k) \in Nat
  BY StartGrows
<1>3. CASE i = k
  BY <1>2, <1>3
<1>4. CASE i < k
  BY <1>2, <1>4, StartGrows
<1>5. CASE k < i
  BY <1>2, <1>5, StartGrows
<1> QED
  BY <1>1, <1>3, <1>4, <1>5

\* A pair for a client port begins with the channel of its transceiver.
LEMMA ClientPairIs ==
  ASSUME NEW g, NEW k \in ClientMapped(g)
  PROVE  /\ k \in DOMAIN Pairs(g) /\ Pairs(g)[k] = ClientPair(g, Xcvrs[k]) /\ Xcvrs[k] \in SetOf(Xcvrs) /\ k \in 1 .. Len(Xcvrs)
         /\ k \in Made(g) => /\ Pairs(g)[k][1].ingress = ClientTransceiver(Xcvrs[k])
                             /\ Pairs(g)[k][2].ingress = None
<1>1. k \in 1 .. Len(Xcvrs)
  BY Lengths DEF ClientMapped
<1>2. k \in 1 .. Len(Xcvrs) + Len(Netifs)
  BY <1>1, Lengths
<1>3. k \in DOMAIN Pairs(g) /\ Pairs(g)[k] = ClientPair(g, Xcvrs[k])
  BY <1>2 DEF Pairs
<1>4. Xcvrs[k] \in SetOf(Xcvrs)
  BY <1>1, Lengths DEF SetOf
<1>5. ASSUME k \in Made(g)
      PROVE  Pairs(g)[k][1].ingress = ClientTransceiver(Xcvrs[k]) /\ Pairs(g)[k][2].ingress = None
  <2>1. ClientPair(g, Xcvrs[k]) # <<>>
    BY <1>3, <1>5 DEF Made
  <2> DEFINE tp == TpOfPort(g, Xcvrs[k])
             rate == IF tp = None THEN DefaultSignalRate ELSE Or(g.modules[tp.mod].hosts[tp.host], DefaultSignalRate)
             signal == ClientSignal(rate, ClientTransceiver(Xcvrs[k]))
  <2>2. \/ ClientPair(g, Xcvrs[k]) = <<signal, Odu("ODU4", 100)>>
        \/ ClientPair(g, Xcvrs[k]) = <<signal, Odu("ODUFLEX", rate)>>
    BY <2>1 DEF ClientPair
  <2>3. signal.ingress = ClientTransceiver(Xcvrs[k])
    BY DEF ClientSignal, Channel
  <2> HIDE DEF rate, signal
  <2>4. Odu("ODU4", 100).ingress = None /\ Odu("ODUFLEX", rate).ingress = None
    BY DEF Odu, Channel
  <2> QED
    BY <1>3, <2>2, <2>3, <2>4
<1> QED
  BY <1>1, <1>3, <1>4, <1>5

\* A pair for an optical channel has its rate.
LEMMA LinePairIs ==
  ASSUME NEW g, NEW j \in DOMAIN LineMapped(g)
  PROVE  /\ LinePosition(j) \in DOMAIN Pairs(g) /\ LinePosition(j) > Len(Xcvrs)
         /\ Pairs(g)[LinePosition(j)] = LinePair(g, Netifs[j].mod, Netifs[j].netif)
         /\ LinePosition(j) \in Made(g) =>
              /\ Pairs(g)[LinePosition(j)][1].ingress = None /\ Pairs(g)[LinePosition(j)][2].ingress = None
              /\ Pairs(g)[LinePosition(j)][2].rate = Or(g.modules[Netifs[j].mod].netifs[Netifs[j].netif].rate, DefaultLineRate)
<1> DEFINE k == LinePosition(j)
           m == Netifs[j].mod
           n == Netifs[j].netif
<1>1. j \in 1 .. Len(Netifs) /\ LineMapped(g)[j] = [mod |-> m, netif |-> n]
  BY LineMappedIs, Lengths
<1>2. k \in 1 .. Len(Xcvrs) + Len(Netifs) /\ k > Len(Xcvrs) /\ k - Len(Xcvrs) = j
  BY <1>1, Lengths DEF LinePosition
<1>3. k \notin ClientMapped(g)
  BY <1>2, Lengths DEF ClientMapped
<1> HIDE DEF k, m, n
<1>4. k \in DOMAIN Pairs(g) /\ Pairs(g)[k] = LinePair(g, m, n)
  BY <1>1, <1>2, <1>3 DEF Pairs
<1>5. ASSUME k \in Made(g)
      PROVE  /\ Pairs(g)[k][1].ingress = None /\ Pairs(g)[k][2].ingress = None
             /\ Pairs(g)[k][2].rate = Or(g.modules[m].netifs[n].rate, DefaultLineRate)
  <2>1. LinePair(g, m, n) # <<>>
    BY <1>4, <1>5 DEF Made
  <2> DEFINE rate == Or(g.modules[m].netifs[n].rate, DefaultLineRate)
  <2>2. \E o, p : LinePair(g, m, n) = <<Odu(o, rate), Otu(p, rate)>>
    BY <2>1 DEF LinePair
  <2> HIDE DEF rate
  <2>3. Pairs(g)[k][1].ingress = None /\ Pairs(g)[k][2].ingress = None /\ Pairs(g)[k][2].rate = rate
    BY <1>4, <2>2 DEF Odu, Otu, Channel
  <2> QED
    BY <2>3 DEF rate
<1> QED
  BY <1>2, <1>4, <1>5 DEF k, m, n

\* Every pair is one or the other.
LEMMA PairCases ==
  ASSUME NEW g, NEW k \in Made(g)
  PROVE  k \in ClientMapped(g) \/ \E j \in DOMAIN LineMapped(g) : k = LinePosition(j)
<1>1. k \in 1 .. Len(Xcvrs) + Len(Netifs) /\ Pairs(g)[k] # <<>>
  BY MadeIs DEF Made
<1>2. k = LinePosition(k - Len(Xcvrs))
  BY <1>1, Lengths DEF LinePosition
<1> QED
  BY <1>1, <1>2 DEF Pairs

\* A transceiver is known by the name of its component.
LEMMA TransceiverKnown ==
  ASSUME NEW i \in 1 .. Len(Xcvrs), NEW k \in 1 .. Len(Xcvrs), ClientTransceiver(Xcvrs[i]) = ClientTransceiver(Xcvrs[k])
  PROVE  i = k /\ ClientTransceiver(Xcvrs[k]) # None
<1>1. i \in DOMAIN Xcvrs /\ k \in DOMAIN Xcvrs
  BY Lengths
<1>2. Xcvrs[i] \in SetOf(Xcvrs) /\ Xcvrs[k] \in SetOf(Xcvrs)
  BY <1>1 DEF SetOf
<1>3. ParseClientPort(Split1(ClientTransceiver(Xcvrs[i]), "transceiver")) = Xcvrs[i]
  BY <1>2, PortSays, TransceiverSays
<1>4. ParseClientPort(Split1(ClientTransceiver(Xcvrs[k]), "transceiver")) = Xcvrs[k]
  BY <1>2, PortSays, TransceiverSays
<1>5. ClientTransceiver(Xcvrs[k]) # None
  BY <1>2, StAssumption
<1> QED
  BY <1>1, <1>3, <1>4, <1>5, StAssumption

\* A channel is the first or the second of its pair.
LEMMA ChannelIs ==
  ASSUME NEW g, NEW c \in Channels(g)
  PROVE  \E k \in Made(g) : \/ c = [index |-> StartOf(g, k), is |-> Pairs(g)[k][1]]
                            \/ c = [index |-> StartOf(g, k) + 1, is |-> Pairs(g)[k][2]]
BY DEF Channels

\* A channel with an ingress is the first of a pair for a client port.
LEMMA IngressIs ==
  ASSUME NEW g, NEW c \in Channels(g), c.is.ingress # None
  PROVE  \E k \in Made(g) \cap ClientMapped(g) :
           c = [index |-> StartOf(g, k), is |-> Pairs(g)[k][1]] /\ c.is.ingress = ClientTransceiver(Xcvrs[k])
<1>1. PICK k \in Made(g) : \/ c = [index |-> StartOf(g, k), is |-> Pairs(g)[k][1]]
                           \/ c = [index |-> StartOf(g, k) + 1, is |-> Pairs(g)[k][2]]
  BY ChannelIs
<1>2. CASE k \in ClientMapped(g)
  BY <1>1, <1>2, ClientPairIs
<1>3. ASSUME NEW j \in DOMAIN LineMapped(g), k = LinePosition(j)
      PROVE  FALSE
  BY <1>1, <1>3, LinePairIs
<1> QED
  BY <1>2, <1>3, PairCases

\* An index, or an ingress, names one channel.
LEMMA ChannelsApart ==
  ASSUME NEW g, NEW c \in Channels(g), NEW d \in Channels(g),
         c.index = d.index \/ (c.is.ingress # None /\ c.is.ingress = d.is.ingress)
  PROVE  c = d
<1>1. CASE c.index = d.index
  <2>1. PICK i \in Made(g) : \/ c = [index |-> StartOf(g, i), is |-> Pairs(g)[i][1]]
                             \/ c = [index |-> StartOf(g, i) + 1, is |-> Pairs(g)[i][2]]
    BY ChannelIs
  <2>2. PICK k \in Made(g) : \/ d = [index |-> StartOf(g, k), is |-> Pairs(g)[k][1]]
                             \/ d = [index |-> StartOf(g, k) + 1, is |-> Pairs(g)[k][2]]
    BY ChannelIs
  <2> QED
    BY <1>1, <2>1, <2>2, StartsApart
<1>2. CASE c.is.ingress # None /\ c.is.ingress = d.is.ingress
  <2>1. PICK i \in Made(g) \cap ClientMapped(g) :
          c = [index |-> StartOf(g, i), is |-> Pairs(g)[i][1]] /\ c.is.ingress = ClientTransceiver(Xcvrs[i])
    BY <1>2, IngressIs
  <2>2. PICK k \in Made(g) \cap ClientMapped(g) :
          d = [index |-> StartOf(g, k), is |-> Pairs(g)[k][1]] /\ d.is.ingress = ClientTransceiver(Xcvrs[k])
    BY <1>2, IngressIs
  <2>3. i \in 1 .. Len(Xcvrs) /\ k \in 1 .. Len(Xcvrs)
    BY ClientPairIs
  <2>4. i = k
    BY <1>2, <2>1, <2>2, <2>3, TransceiverKnown
  <2> QED
    BY <2>1, <2>2, <2>4
<1> QED
  BY <1>1, <1>2

\* The optical channels a client port is joined to.
JoinedTo(g, k) == {j \in DOMAIN LineMapped(g) : LinePosition(j) \in Made(g) /\ Joined(g, k, j)}

\* An assignment leads through a pair, or from a client pair to a line pair.
LEMMA EdgeIs ==
  ASSUME NEW g
  PROVE  /\ \A e \in Edges(g) :
              \/ \E k \in Made(g) : e = <<StartOf(g, k), StartOf(g, k) + 1>>
              \/ \E k \in ClientMapped(g) \cap Made(g) : \E j \in JoinedTo(g, k) :
                   e = <<StartOf(g, k) + 1, StartOf(g, LinePosition(j))>>
         /\ \A k \in Made(g) : <<StartOf(g, k), StartOf(g, k) + 1>> \in Edges(g)
         /\ \A k \in ClientMapped(g) \cap Made(g) : \A j \in JoinedTo(g, k) :
              <<StartOf(g, k) + 1, StartOf(g, LinePosition(j))>> \in Edges(g)
<1>1. ASSUME NEW e \in Edges(g)
      PROVE  \/ \E k \in Made(g) : e = <<StartOf(g, k), StartOf(g, k) + 1>>
             \/ \E k \in ClientMapped(g) \cap Made(g) : \E j \in JoinedTo(g, k) :
                  e = <<StartOf(g, k) + 1, StartOf(g, LinePosition(j))>>
  BY <1>1 DEF Edges, JoinedTo
<1>2. ASSUME NEW k \in Made(g)
      PROVE  <<StartOf(g, k), StartOf(g, k) + 1>> \in Edges(g)
  BY DEF Edges
<1>3. ASSUME NEW k \in ClientMapped(g) \cap Made(g), NEW j \in JoinedTo(g, k)
      PROVE  <<StartOf(g, k) + 1, StartOf(g, LinePosition(j))>> \in Edges(g)
  BY DEF Edges, JoinedTo
<1> QED
  BY <1>1, <1>2, <1>3

\* Assignments lead from the client to the line side, between channels there are.
LEMMA EdgesForward ==
  ASSUME NEW g, NEW e \in Edges(g)
  PROVE  e[1] < e[2] /\ {e[1], e[2]} \subseteq {c.index : c \in Channels(g)}
<1>1. ASSUME NEW k \in Made(g)
      PROVE  {StartOf(g, k), StartOf(g, k) + 1} \subseteq {c.index : c \in Channels(g)}
  <2>1. /\ [index |-> StartOf(g, k), is |-> Pairs(g)[k][1]] \in Channels(g)
        /\ [index |-> StartOf(g, k) + 1, is |-> Pairs(g)[k][2]] \in Channels(g)
    BY DEF Channels
  <2> QED
    BY <2>1
<1>2. ASSUME NEW k \in Made(g), e = <<StartOf(g, k), StartOf(g, k) + 1>>
      PROVE  e[1] < e[2] /\ {e[1], e[2]} \subseteq {c.index : c \in Channels(g)}
  <2>1. StartOf(g, k) \in Nat
    BY StartGrows
  <2> QED
    BY <1>1, <1>2, <2>1
<1>3. ASSUME NEW k \in ClientMapped(g) \cap Made(g), NEW j \in JoinedTo(g, k),
             e = <<StartOf(g, k) + 1, StartOf(g, LinePosition(j))>>
      PROVE  e[1] < e[2] /\ {e[1], e[2]} \subseteq {c.index : c \in Channels(g)}
  <2>1. LinePosition(j) \in Made(g) /\ LinePosition(j) > Len(Xcvrs)
    BY LinePairIs DEF JoinedTo
  <2>2. k \in 1 .. Len(Xcvrs) /\ LinePosition(j) \in Nat
    BY <2>1, ClientPairIs, MadeIs, Lengths
  <2>3. k < LinePosition(j)
    BY <2>1, <2>2, Lengths
  <2>4. StartOf(g, k) \in Nat /\ StartOf(g, LinePosition(j)) \in Nat /\ StartOf(g, k) + 2 <= StartOf(g, LinePosition(j))
    BY <2>1, <2>3, StartGrows
  <2>5. StartOf(g, k) + 1 < StartOf(g, LinePosition(j))
    BY <2>4
  <2> QED
    BY <1>1, <1>3, <2>1, <2>5
<1> QED
  BY <1>2, <1>3, EdgeIs

\* An optical channel is a component, and its channel has the rate of its mode.
LEMMA OpticalIs ==
  ASSUME NEW g, NEW o \in Optical(g)
  PROVE  \E c \in CreateComponents(g) : \E d \in Channels(g) :
           /\ c.name = o[2] /\ c.type = "OPTICAL_CHANNEL" /\ d.index = o[1]
           /\ c.mode # None => \E k \in DOMAIN Modes : Modes[k].id = c.mode /\ Modes[k].rate = d.is.rate
<1>1. PICK j \in DOMAIN LineMapped(g) :
        /\ LinePosition(j) \in Made(g)
        /\ o = <<StartOf(g, LinePosition(j)) + 1, OpticalChannelName(LineMapped(g)[j].mod, LineMapped(g)[j].netif)>>
  BY DEF Optical
<1> DEFINE m == Netifs[j].mod
           n == Netifs[j].netif
           c == OpticalChannel(g, m, n)
           d == [index |-> StartOf(g, LinePosition(j)) + 1, is |-> Pairs(g)[LinePosition(j)][2]]
<1>2. LineMapped(g)[j] = [mod |-> m, netif |-> n] /\ m \in ModsIn(g) /\ n \in NetifsOf(m)
  BY LineMappedIs DEF ModsIn
<1>3. c \in CreateComponents(g)
  BY <1>2 DEF CreateComponents
<1>4. d \in Channels(g)
  BY <1>1 DEF Channels
<1>5. o[2] = OpticalChannelName(m, n) /\ o[1] = d.index
  BY <1>1, <1>2
<1>6. d.is.rate = Or(g.modules[m].netifs[n].rate, DefaultLineRate)
  BY <1>1, LinePairIs
<1> HIDE DEF m, n, d
<1>7. c.name = OpticalChannelName(m, n) /\ c.type = "OPTICAL_CHANNEL" /\ c.mode = OperationalMode(g.modules[m].netifs[n])
  BY OpticalChannelIs
<1>8. c.mode # None => \E k \in DOMAIN Modes : Modes[k].id = c.mode /\ Modes[k].rate = d.is.rate
  BY <1>6, <1>7, ModeIs DEF Or
<1> HIDE DEF c
<1> QED
  BY <1>3, <1>4, <1>5, <1>7, <1>8

\* Where the assignments lead from a channel.
LEMMA OnwardIs ==
  ASSUME NEW v, NEW S, NEW y
  PROVE  y \in Onward(v, S) <=> y \in S \/ \E e \in v.edges : e[1] \in S /\ e[2] = y
BY DEF Onward

\* The assignments from the two ends of a pair.
LEMMA EdgesFrom ==
  ASSUME NEW g, NEW k \in Made(g), NEW e \in Edges(g)
  PROVE  /\ e[1] = StartOf(g, k) => e[2] = StartOf(g, k) + 1
         /\ e[1] = StartOf(g, k) + 1 => k \in ClientMapped(g) /\ \E j \in JoinedTo(g, k) : e[2] = StartOf(g, LinePosition(j))
<1>1. ASSUME NEW i \in Made(g), e = <<StartOf(g, i), StartOf(g, i) + 1>>
      PROVE  /\ e[1] = StartOf(g, k) => e[2] = StartOf(g, k) + 1
             /\ e[1] # StartOf(g, k) + 1
  BY <1>1, StartsApart
<1>2. ASSUME NEW i \in ClientMapped(g) \cap Made(g), NEW j \in JoinedTo(g, i),
             e = <<StartOf(g, i) + 1, StartOf(g, LinePosition(j))>>
      PROVE  /\ e[1] # StartOf(g, k)
             /\ e[1] = StartOf(g, k) + 1 => i = k
  BY <1>2, StartsApart
<1> QED
  BY <1>1, <1>2, EdgeIs

\* From the channel of a client port the assignments reach the optical channels it is joined to.
LEMMA Reached ==
  ASSUME NEW g, NEW k \in ClientMapped(g) \cap Made(g), NEW v, v = CreateChannels(g)
  PROVE  LeadsTo(v, StartOf(g, k)) = {OpticalChannelName(LineMapped(g)[j].mod, LineMapped(g)[j].netif) : j \in JoinedTo(g, k)}
<1> DEFINE S(n) == StartOf(g, n)
           J == JoinedTo(g, k)
           O1 == Onward(v, {S(k)})
           O2 == Onward(v, O1)
           O3 == Onward(v, O2)
           Name(j) == OpticalChannelName(LineMapped(g)[j].mod, LineMapped(g)[j].netif)
<1>1. v.edges = Edges(g) /\ v.optical = Optical(g)
  BY DEF CreateChannels
<1>2. \A j \in J : j \in DOMAIN LineMapped(g) /\ LinePosition(j) \in Made(g)
  BY DEF JoinedTo
<1>3. /\ <<S(k), S(k) + 1>> \in Edges(g)
      /\ \A j \in J : <<S(k) + 1, S(LinePosition(j))>> \in Edges(g)
      /\ \A j \in J : <<S(LinePosition(j)), S(LinePosition(j)) + 1>> \in Edges(g)
  BY <1>2, EdgeIs
<1>4. \A e \in Edges(g) :
        /\ e[1] = S(k) => e[2] = S(k) + 1
        /\ e[1] = S(k) + 1 => \E j \in J : e[2] = S(LinePosition(j))
        /\ \A j \in J : e[1] = S(LinePosition(j)) => e[2] = S(LinePosition(j)) + 1
  BY <1>2, EdgesFrom
<1>5. ASSUME NEW i \in DOMAIN LineMapped(g), LinePosition(i) \in Made(g)
      PROVE  /\ S(LinePosition(i)) + 1 # S(k) /\ S(LinePosition(i)) + 1 # S(k) + 1
             /\ \A j \in J : /\ S(LinePosition(i)) + 1 # S(LinePosition(j))
                             /\ S(LinePosition(i)) + 1 = S(LinePosition(j)) + 1 => i = j
  <2>1. k \in 1 .. Len(Xcvrs) /\ LinePosition(i) > Len(Xcvrs)
    BY <1>5, ClientPairIs, LinePairIs
  <2>2. LinePosition(i) # k
    BY <2>1, Lengths
  <2>3. i \in Nat /\ \A j \in J : j \in Nat
    BY <1>2, <1>5, LineMappedIs, Lengths
  <2>4. \A j \in J : LinePosition(i) = LinePosition(j) => i = j
    BY <2>3, Lengths DEF LinePosition
  <2> QED
    BY <1>2, <1>5, <2>2, <2>4, StartsApart
<1> HIDE DEF S, J
<1>6. \A y : y \in O1 <=> y = S(k) \/ y = S(k) + 1
  <2> HIDE DEF O1
  <2>1. \A y : y \in O1 <=> y \in {S(k)} \/ \E e \in Edges(g) : e[1] \in {S(k)} /\ e[2] = y
    BY <1>1, OnwardIs DEF O1
  <2> QED
    BY <1>3, <1>4, <2>1
<1>7. \A y : y \in O2 <=> y = S(k) \/ y = S(k) + 1 \/ \E j \in J : y = S(LinePosition(j))
  <2> HIDE DEF O1, O2
  <2>1. \A y : y \in O2 <=> y \in O1 \/ \E e \in Edges(g) : e[1] \in O1 /\ e[2] = y
    BY <1>1, OnwardIs DEF O2
  <2> QED
    BY <1>3, <1>4, <1>6, <2>1
<1>8. \A y : y \in O3 <=> \/ y = S(k) \/ y = S(k) + 1
                          \/ \E j \in J : y = S(LinePosition(j)) \/ y = S(LinePosition(j)) + 1
  <2> HIDE DEF O2, O3
  <2>1. \A y : y \in O3 <=> y \in O2 \/ \E e \in Edges(g) : e[1] \in O2 /\ e[2] = y
    BY <1>1, OnwardIs DEF O3
  <2>2. ASSUME NEW e \in Edges(g), e[1] \in O2
        PROVE  \/ e[2] = S(k) + 1
               \/ \E j \in J : e[2] = S(LinePosition(j)) \/ e[2] = S(LinePosition(j)) + 1
    BY <1>4, <1>7, <2>2
  <2>3. S(k) \in O2 /\ S(k) + 1 \in O2 /\ \A j \in J : S(LinePosition(j)) \in O2
    BY <1>7
  <2>4. \A j \in J : S(LinePosition(j)) + 1 \in O3
    <3> TAKE j \in J
    <3> DEFINE e == <<S(LinePosition(j)), S(LinePosition(j)) + 1>>
    <3>1. e \in Edges(g) /\ e[1] \in O2 /\ e[2] = S(LinePosition(j)) + 1
      BY <1>3, <2>3
    <3> HIDE DEF e
    <3> QED
      BY <2>1, <3>1
  <2> QED
    BY <1>7, <2>1, <2>2, <2>3, <2>4
<1>9. LeadsTo(v, S(k)) = {o[2] : o \in {q \in Optical(g) : q[1] \in O3}}
  BY <1>1 DEF LeadsTo
<1> HIDE DEF O1, O2, O3
<1>10. ASSUME NEW o \in Optical(g), o[1] \in O3
       PROVE  \E j \in J : o[2] = Name(j)
  <2>1. PICK i \in DOMAIN LineMapped(g) : LinePosition(i) \in Made(g) /\ o = <<S(LinePosition(i)) + 1, Name(i)>>
    BY DEF Optical, S
  <2>2. i \in J
    BY <1>5, <1>8, <1>10, <2>1
  <2> QED
    BY <2>1, <2>2
<1>11. ASSUME NEW j \in J
       PROVE  \E o \in Optical(g) : o[1] \in O3 /\ o[2] = Name(j)
  <2>1. <<S(LinePosition(j)) + 1, Name(j)>> \in Optical(g)
    BY <1>2 DEF Optical, S
  <2> HIDE DEF Name
  <2>2. S(LinePosition(j)) + 1 \in O3
    BY <1>8
  <2> QED
    BY <2>1, <2>2
<1> HIDE DEF Name
<1>12. LeadsTo(v, S(k)) = {Name(j) : j \in J}
  BY <1>9, <1>10, <1>11
<1> QED
  BY <1>12 DEF S, J, Name

\* The module behind a line side interface, and its first network interface, as _get_tp finds them.
LEMMA TransponderIs ==
  ASSUME NEW g, NEW c, TpOfPort(g, c) # None
  PROVE  LET tp == TpOfPort(g, c)
         IN \E j \in DOMAIN LineMapped(g) : LineMapped(g)[j] = [mod |-> tp.mod, netif |-> tp.netif]
<1> DEFINE tp == TpOfPort(g, c)
           l == CHOOSE x \in LineIfsOf(g, c) : TRUE
           m == TpOf[l].mod
           I == {i \in DOMAIN Netifs : Netifs[i].mod = m}
           j == Min(I)
<1>1. NetifsOf(m) # {} /\ m \in DOMAIN g.modules /\ tp = [mod |-> m, host |-> TpOf[l].host, netif |-> FirstNetif(m)]
  BY DEF TpOfPort, TransponderOf
<1>2. I # {} /\ I \in SUBSET Nat
  BY <1>1, Lengths DEF NetifsOf
<1>3. FirstNetif(m) = Netifs[j].netif
  BY DEF FirstNetif
<1> HIDE DEF l, m, I, tp
<1>4. j \in I
  BY <1>2, MinIn
<1> HIDE DEF j
<1>5. j \in DOMAIN Netifs /\ Netifs[j].mod = m
  BY <1>4 DEF I
<1>6. j \in DOMAIN LineMapped(g)
  BY <1>1, <1>5 DEF LineMapped
<1>7. LineMapped(g)[j] = [mod |-> m, netif |-> FirstNetif(m)]
  BY <1>3, <1>5, <1>6, LineMappedIs
<1> QED
  BY <1>1, <1>6, <1>7 DEF tp

\* What a client port is joined to, by name (_connect_client_and_line).
LEMMA JoinedIs ==
  ASSUME NEW g, NEW k \in ClientMapped(g) \cap Made(g)
  PROVE  LET tp == TpOfPort(g, Xcvrs[k])
         IN {OpticalChannelName(LineMapped(g)[j].mod, LineMapped(g)[j].netif) : j \in JoinedTo(g, k)}
            = IF tp = None \/ LinePair(g, tp.mod, tp.netif) = <<>> THEN {} ELSE {OpticalChannelName(tp.mod, tp.netif)}
<1> DEFINE tp == TpOfPort(g, Xcvrs[k])
           J == JoinedTo(g, k)
           Name(j) == OpticalChannelName(LineMapped(g)[j].mod, LineMapped(g)[j].netif)
<1>1. ASSUME NEW j \in J
      PROVE  /\ tp # None /\ LineMapped(g)[j] = [mod |-> tp.mod, netif |-> tp.netif]
             /\ LinePair(g, tp.mod, tp.netif) # <<>>
  <2>1. /\ j \in DOMAIN LineMapped(g) /\ LinePosition(j) \in Made(g)
        /\ tp # None /\ LineMapped(g)[j] = [mod |-> tp.mod, netif |-> tp.netif]
    BY DEF JoinedTo, Joined
  <2>2. Pairs(g)[LinePosition(j)] # <<>>
    BY <2>1 DEF Made
  <2>3. Pairs(g)[LinePosition(j)] = LinePair(g, Netifs[j].mod, Netifs[j].netif)
        /\ LineMapped(g)[j] = [mod |-> Netifs[j].mod, netif |-> Netifs[j].netif]
    BY <2>1, LinePairIs, LineMappedIs
  <2> HIDE DEF tp
  <2>4. Netifs[j].mod = tp.mod /\ Netifs[j].netif = tp.netif
    BY <2>1, <2>3
  <2> QED
    BY <2>1, <2>2, <2>3, <2>4
<1>2. ASSUME tp # None, LinePair(g, tp.mod, tp.netif) # <<>>
      PROVE  \E j \in J : Name(j) = OpticalChannelName(tp.mod, tp.netif)
  <2>1. PICK j \in DOMAIN LineMapped(g) : LineMapped(g)[j] = [mod |-> tp.mod, netif |-> tp.netif]
    BY <1>2, TransponderIs
  <2>2. /\ LinePosition(j) \in DOMAIN Pairs(g)
        /\ Pairs(g)[LinePosition(j)] = LinePair(g, Netifs[j].mod, Netifs[j].netif)
        /\ LineMapped(g)[j] = [mod |-> Netifs[j].mod, netif |-> Netifs[j].netif]
    BY LinePairIs, LineMappedIs
  <2>3. Joined(g, k, j)
    BY <1>2, <2>1 DEF Joined
  <2> HIDE DEF tp
  <2>4. Netifs[j].mod = tp.mod /\ Netifs[j].netif = tp.netif
    BY <2>1, <2>2
  <2>5. LinePosition(j) \in Made(g)
    BY <1>2, <2>2, <2>4 DEF Made
  <2>6. j \in J
    BY <2>3, <2>5 DEF JoinedTo
  <2> QED
    BY <2>1, <2>6
<1> HIDE DEF tp, J
<1>3. \A j \in J : Name(j) = OpticalChannelName(tp.mod, tp.netif)
  BY <1>1
<1> HIDE DEF Name
<1>4. {Name(j) : j \in J} = IF tp = None \/ LinePair(g, tp.mod, tp.netif) = <<>> THEN {} ELSE {OpticalChannelName(tp.mod, tp.netif)}
  BY <1>1, <1>2, <1>3
<1> QED
  BY <1>4 DEF tp, J, Name

\* The logical channels of an answer are a sound picture of the paths of the signals.
THEOREM ChannelsAreSound == Spec => []ChannelsSound
<1>1. StInv => ChannelsSound
  <2> SUFFICES ASSUME StInv, answer.kind = "terminal", answer.ok
               PROVE  ChannelsSound
    BY DEF ChannelsSound, Answered
  <2> DEFINE g == answer.got
             v == answer.value
  <2>1. v = CreateChannels(g)
    <3>1. None # "terminal"
      BY StAssumption DEF Kinds
    <3> QED
      BY <3>1 DEF StInv, AnswerFits, Created
  <2> HIDE DEF g, v
  <2>2. v.channels = Channels(g) /\ v.edges = Edges(g) /\ v.optical = Optical(g)
    BY <2>1 DEF CreateChannels
  <2>3. ASSUME NEW k \in ClientMapped(g), NEW c \in Channels(g), c.is.ingress = ClientTransceiver(Xcvrs[k])
        PROVE  LET tp == TpOfPort(g, Xcvrs[k])
               IN LeadsTo(v, c.index) = IF tp = None \/ LinePair(g, tp.mod, tp.netif) = <<>> THEN {}
                                        ELSE {OpticalChannelName(tp.mod, tp.netif)}
    <3>1. k \in 1 .. Len(Xcvrs)
      BY ClientPairIs
    <3>2. c.is.ingress # None
      BY <2>3, <3>1, TransceiverKnown
    <3>3. PICK i \in Made(g) \cap ClientMapped(g) :
            c = [index |-> StartOf(g, i), is |-> Pairs(g)[i][1]] /\ c.is.ingress = ClientTransceiver(Xcvrs[i])
      BY <3>2, IngressIs
    <3>4. i = k
      BY <2>3, <3>1, <3>3, ClientPairIs, TransceiverKnown
    <3>5. c.index = StartOf(g, k) /\ k \in ClientMapped(g) \cap Made(g)
      BY <3>3, <3>4
    <3>6. LeadsTo(v, c.index) = {OpticalChannelName(LineMapped(g)[j].mod, LineMapped(g)[j].netif) : j \in JoinedTo(g, k)}
      BY <2>1, <3>5, Reached
    <3> QED
      BY <3>5, <3>6, JoinedIs
  <2>4. \A c, d \in v.channels : c.index = d.index \/ (c.is.ingress # None /\ c.is.ingress = d.is.ingress) => c = d
    BY <2>2, ChannelsApart
  <2>5. \A e \in v.edges : e[1] < e[2] /\ {e[1], e[2]} \subseteq {c.index : c \in v.channels}
    BY <2>2, EdgesForward
  <2>6. \A o \in v.optical : \E c \in CreateComponents(g) : \E d \in v.channels :
          /\ c.name = o[2] /\ c.type = "OPTICAL_CHANNEL" /\ d.index = o[1]
          /\ c.mode # None => \E k \in DOMAIN Modes : Modes[k].id = c.mode /\ Modes[k].rate = d.is.rate
    BY <2>2, OpticalIs
  <2>7. \A k \in ClientMapped(g) : \A c \in v.channels : c.is.ingress = ClientTransceiver(Xcvrs[k]) =>
          LET tp == TpOfPort(g, Xcvrs[k])
          IN LeadsTo(v, c.index) = IF tp = None \/ LinePair(g, tp.mod, tp.netif) = <<>> THEN {}
                                   ELSE {OpticalChannelName(tp.mod, tp.netif)}
    BY <2>2, <2>3
  <2> QED
    BY <2>4, <2>5, <2>6, <2>7 DEF ChannelsSound, g, v
<1> QED
  BY StInvHolds, <1>1, PTL
=============================================================================
