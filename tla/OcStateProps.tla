--------------------------- MODULE OcStateProps ---------------------------
(***************************************************************************)
(* What a client may rely on in an answer of the translators, whatever     *)
(* happens to the hardware while the datasets are read.                    *)
(***************************************************************************)
EXTENDS OcState

Answered(k) == answer.kind = k /\ answer.ok

\* No two entries of a list in an answer have the same key, although names are composed and the
\* id of a subscription is packed from two ids (DynamicSubscription._id).
KeysUnique ==
  /\ Answered("platform") \/ Answered("interfaces") => \A c, d \in answer.value : c.name = d.name => c = d
  /\ answer.kind = "telemetry" => \A c, d \in answer.value : c.id = d.id => c = d
  /\ answer.kind = "openroadm" => \A p, q \in answer.value.packs : p[1] = q[1] => p = q

\* An answer is valid data of its model: keys are unique, every parent that
\* ComponentFactory.create() names is a component of the same answer, a path leads to the
\* chassis, and a transceiver has the status of its port.
HierarchySound ==
  /\ KeysUnique
  /\ Answered("platform") =>
       LET cs == answer.value
           up(c) == {p \in cs : p.name = c.parent}
       IN \A c \in cs :
            /\ c.type # "CHASSIS" => up(c) # {}
            /\ c.type = "TRANSCEIVER" => \A p \in up(c) : p.type = "PORT" /\ p.status = c.status
            /\ c.type = "OPTICAL_CHANNEL" => \A p \in up(c) : \E q \in up(p) : q.parent = Chassis
            /\ c.mode # None => \E i \in DOMAIN Modes : Modes[i].id = c.mode

\* The channels a signal reaches, and the optical channels at its end.
Onward(v, S) == S \cup {e[2] : e \in {f \in v.edges : f[1] \in S}}
LeadsTo(v, i) == {o[2] : o \in {q \in v.optical : q[1] \in Onward(v, Onward(v, Onward(v, {i})))}}
\* The logical channels are a sound picture of the path of a signal: an index names one channel,
\* assignments lead from the client to the line side, an optical channel is one of the components
\* and has the rate of its mode, and the channel of a client port reaches exactly the optical
\* channel of the module its connection leads to (_connect_client_and_line).
ChannelsSound ==
  Answered("terminal") =>
    LET g == answer.got
        v == answer.value
    IN /\ \A c, d \in v.channels : c.index = d.index \/ (c.is.ingress # None /\ c.is.ingress = d.is.ingress) => c = d
       /\ \A e \in v.edges : e[1] < e[2] /\ {e[1], e[2]} \subseteq {c.index : c \in v.channels}
       /\ \A o \in v.optical : \E c \in CreateComponents(g) : \E d \in v.channels :
            /\ c.name = o[2] /\ c.type = "OPTICAL_CHANNEL" /\ d.index = o[1]
            /\ c.mode # None => \E k \in DOMAIN Modes : Modes[k].id = c.mode /\ Modes[k].rate = d.is.rate
       /\ \A k \in ClientMapped(g) : \A c \in v.channels : c.is.ingress = ClientTransceiver(Xcvrs[k]) =>
            LET tp == TpOfPort(g, Xcvrs[k])
            IN LeadsTo(v, c.index) = IF tp = None \/ LinePair(g, tp.mod, tp.netif) = <<>> THEN {}
                                     ELSE {OpticalChannelName(tp.mod, tp.netif)}

\* A request for the components fails only when one was read without its state, and one for the
\* logical channels only then, when a plugged port has not exactly one line side interface, or when a
\* network interface reported no line rate: no other mixture of old and new data, and no dataset
\* that is missing, makes ComponentFactory.create() or TerminalDeviceObjectFactory.create() raise.
AnsweredUnlessOdd ==
  ~ answer.ok =>
    LET g == answer.got
        lines(c) == {p \in g.gearboxes : p[1] = IfOf[c]}
    IN \/ answer.kind \in {"platform", "terminal"} /\ \E c \in DOMAIN g.components : g.components[c] = None
       \/ /\ answer.kind = "terminal"
          /\ \/ \E c \in SetOf(Xcvrs) :
                   Plugged(g, c) /\ ((~ \E p \in lines(c) : lines(c) = {p}) \/ IfOf[c] \notin DOMAIN g.interfaces)
             \/ \E m \in DOMAIN g.modules : \E n \in NetifsOf(m) : g.modules[m].netifs[n].rate = None
=============================================================================
