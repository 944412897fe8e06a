-------------------------------- MODULE Snmp --------------------------------
(***************************************************************************)
(* The SNMP agent: an AgentX subagent of snmpd that serves the system and  *)
(* interfaces groups from a cached copy of the operational data.           *)
(*                                                                         *)
(* The agent is one event loop. The updaters read the datastore with       *)
(* blocking calls: while one reads, nothing else of the agent runs, but    *)
(* the hardware goes on changing. snmpd and its clients are external.      *)
(***************************************************************************)
EXTENDS Integers, Sequences, SequencesExt, FiniteSets, TLC

CONSTANTS Ifs,          \* interfaces, numbered in the natural order of their names
          Columns,      \* modelled columns of ifTable -> "any" or "ethernet", what a row must have,
                        \* or "index" for ifIndex
          Frequency,    \* --update-frequency
          MaxHw, MaxRestarts, MaxFaults, MaxWalks,
          None

VARIABLES hw,       \* interface -> "none", "bare" (no ethernet container) or "eth"
          cache,    \* InterfacesUpdater.interfaces
          upd,      \* the read in progress: [left, got], or None
          conn,     \* the connection of SocketManager and the session of AgentX
          agent,    \* [run: run_enabled, deaf: the session will not open, late: stopped while connecting]
          master,   \* snmpd: [up, regions: the subtrees registered with it]
          inbox,    \* PDUs on the way to the agent
          walk,     \* a client's walk: [region, start, incl, asked, seen, pure, done]
          count

vars == <<hw, cache, upd, conn, agent, master, inbox, walk, count>>

-----------------------------------------------------------------------------
(* Object identifiers: tuples, here without the prefix 1.3.6.1.2.1 of mib-2 *)
\* inc()
Inc(oid) == [oid EXCEPT ![Len(oid)] = @ + 1]
\* the order of Python tuples
Less(s, t) ==
  \/ Len(s) < Len(t) /\ \A k \in DOMAIN s : s[k] = t[k]
  \/ \E k \in DOMAIN s \cap DOMAIN t : s[k] < t[k] /\ \A j \in 1 .. k - 1 : s[j] = t[j]
Least(S) == CHOOSE s \in S : ~ \E t \in S : Less(t, s)

-----------------------------------------------------------------------------
(* The MIB: prefixes and the entries behind them                           *)
SysDescr == <<1, 1, 0>>
IfNumber == <<2, 1>>
Column(c) == <<2, 2, 1, c>>
Subtrees == {SysDescr, IfNumber} \cup {Column(c) : c \in DOMAIN Columns}
ColumnOf(prefix) == prefix[Len(prefix)]
IsScalar(prefix) == prefix \in {SysDescr, IfNumber}
\* what the table keeps of an interface
Rows == [name : Ifs, kind : {"bare", "eth"}]

ASSUME SnmpAssumption ==
  /\ Ifs \subseteq Nat \ {0} /\ Frequency \in Nat
  /\ DOMAIN Columns \subseteq Nat \ {0} /\ \A c \in DOMAIN Columns : Columns[c] \in {"any", "ethernet", "index"}
  /\ {MaxHw, MaxRestarts, MaxFaults, MaxWalks} \subseteq Nat
  /\ None \notin Nat /\ None \notin Subtrees /\ None \notin Rows

\* InterfacesUpdater.get_next: past the last row it returns the empty sub-identifier, not None
GetNextSub(sub) == IF sub = <<>> THEN <<1>> ELSE IF sub[1] < Len(cache) THEN <<sub[1] + 1>> ELSE <<>>
\* the last row is taken for one past the end
RowShort(sub) == IF sub = <<>> \/ sub[1] >= Len(cache) \/ sub[1] = 0 THEN None ELSE cache[sub[1]]
\* the row of interfaces[sub_id[0] - 1], as Python indexes a list
Row(sub) ==
  IF sub = <<>> \/ sub[1] > Len(cache) THEN None
  ELSE IF sub[1] > 0 THEN cache[sub[1]] ELSE IF Len(cache) > 0 THEN cache[Len(cache)] ELSE None
\* if_index does not look at the row: 0 is an index too
Index(sub) == IF sub = <<>> \/ sub[1] > Len(cache) THEN None ELSE sub[1]
\* interface_description, get_mtu, get_counters: any row; get_if_type, get_speed_bps: an
\* ethernet one. SubtreeMIBEntry.__call__ turns an exception into None.
Cell(c, row) == IF row = None \/ (Columns[c] = "ethernet" /\ row.kind # "eth") THEN None ELSE row.name
\* a scalar ignores its sub-identifier
Value(prefix, sub) ==
  IF IsScalar(prefix) THEN prefix[Len(prefix)]
  ELSE IF Columns[ColumnOf(prefix)] = "index" THEN Index(sub) ELSE Cell(ColumnOf(prefix), Row(sub))
Answers(prefix, sub) == Value(prefix, sub) # None

\* _find_parent_prefix: the last prefix that is not after the OID, if it is a prefix of it
ParentPrefix(oid) ==
  LET parents == {p \in Subtrees : IsPrefix(p, oid) /\ \A q \in Subtrees : Less(p, q) => Less(oid, q)}
  IN IF parents = {} THEN None ELSE CHOOSE p \in parents : TRUE
SubId(prefix, oid) == SubSeq(oid, Len(prefix) + 1, Len(oid))

NoSuchObject == [type |-> "noSuchObject", oid |-> <<>>]
NoSuchInstance == [type |-> "noSuchInstance", oid |-> <<>>]
EndOfMibView == [type |-> "endOfMibView", oid |-> <<>>]
Is(oid) == [type |-> "value", oid |-> oid]
\* MIBTable.get
Get(oid) ==
  LET p == ParentPrefix(oid)
  IN IF p = None THEN NoSuchObject ELSE IF Answers(p, SubId(p, oid)) THEN Is(oid) ELSE NoSuchInstance
\* next(iter(mib_entry))
FirstSub(prefix) == IF IsScalar(prefix) THEN <<>> ELSE GetNextSub(<<>>)
\* _get_nextvalue
NextSub(prefix, oid) == GetNextSub(SubId(prefix, oid))
HasNext(prefix, oid) == ~ IsScalar(prefix) /\ Answers(prefix, NextSub(prefix, oid))
\* the OID itself, the next one of its entry, or the first one of the entries that remain
Closest(start, incl, remaining) ==
  LET p == ParentPrefix(start)
      rest == {q \in remaining : Answers(q, FirstSub(q))}
  IN IF p # None /\ incl /\ Answers(p, SubId(p, start)) THEN Is(start)
     ELSE IF p # None /\ HasNext(p, start) THEN Is(p \o NextSub(p, start))
     ELSE IF rest # {} THEN Is(Least(rest) \o FirstSub(Least(rest))) ELSE EndOfMibView
\* the search for the next entry begins with the entry of the starting OID
GetNextAgain(start, incl, end) == Closest(start, incl, {q \in Subtrees : (start = q \/ Less(start, q)) /\ Less(q, end)})
\* MIBTable.get_next
GetNext(start, incl, end) == Closest(start, incl, {q \in Subtrees : Less(start, q) /\ Less(q, end)})

-----------------------------------------------------------------------------
(* InterfacesUpdater.reinit_data: the names, then each interface           *)
Present == {i \in Ifs : hw[i] # "none"}
Snapshot == {[name |-> i, kind |-> hw[i]] : i \in Present}
Free == upd = None
Serving == conn \notin {"leaving", "ended", "hung"}

\* MIBUpdater.start, after its sleep; updates that would change nothing are left out
StartUpdateOnce ==
  /\ Free /\ Serving /\ cache = <<>> /\ hw # [i \in Ifs |-> "none"]
  /\ upd' = [left |-> Present, got |-> <<>>]
  /\ UNCHANGED <<hw, cache, conn, agent, master, inbox, walk, count>>
StartUpdate ==
  /\ Free /\ Serving /\ (count.hw < MaxHw \/ Range(cache) # Snapshot)
  /\ upd' = [left |-> Present, got |-> <<>>]
  /\ UNCHANGED <<hw, cache, conn, agent, master, inbox, walk, count>>
SetCache(c) == cache' = c /\ walk' = [walk EXCEPT !.pure = @ /\ c = cache]
\* in the natural order of the names
ReadNext == LET i == Min(upd.left) IN [left |-> upd.left \ {i}, got |-> Append(upd.got, [name |-> i, kind |-> hw[i]])]
\* an interface that is gone reads as None: the sort fails, and the table stays empty
UpdateRead ==
  /\ upd # None /\ upd.left # {}
  /\ IF hw[Min(upd.left)] = "none" THEN upd' = None /\ SetCache(<<>>) ELSE upd' = ReadNext /\ UNCHANGED <<cache, walk>>
  /\ UNCHANGED <<hw, conn, agent, master, inbox, count>>
UpdateDone ==
  /\ upd # None /\ upd.left = {} /\ upd' = None /\ SetCache(upd.got)
  /\ UNCHANGED <<hw, conn, agent, master, inbox, count>>
Hardware(i) ==
  /\ count.hw < MaxHw /\ count' = [count EXCEPT !.hw = @ + 1]
  /\ \E k \in {"none", "bare", "eth"} \ {hw[i]} : hw' = [hw EXCEPT ![i] = k]
  /\ UNCHANGED <<cache, upd, conn, agent, master, inbox, walk>>

-----------------------------------------------------------------------------
(* SocketManager.connection_loop and the session                           *)
\* a connection that is lost ends the loop
LoopOnce == "leaving"
Loop == IF agent.run THEN "connecting" ELSE "leaving"
Connect ==
  /\ Free /\ conn = "connecting" /\ conn' = IF master.up THEN "open" ELSE "sleep"
  /\ UNCHANGED <<hw, cache, upd, agent, master, inbox, walk, count>>
Retry ==
  /\ Free /\ conn = "sleep" /\ conn' = Loop
  /\ UNCHANGED <<hw, cache, upd, agent, master, inbox, walk, count>>
Fault == count.faults < MaxFaults /\ count' = [count EXCEPT !.faults = @ + 1]
\* opening_handshake, a second after the connection; snmpd accepts, fails, or does not understand
Handshake ==
  /\ Free /\ conn = "open" /\ conn' = "greeted"
  /\ \E answer \in {"opened", "openFailed", "parseError"} :
       /\ inbox' = Append(inbox, [type |-> answer])
       /\ IF answer = "opened" THEN UNCHANGED count ELSE Fault
  /\ UNCHANGED <<hw, cache, upd, agent, master, walk>>
Linked == conn \in {"open", "greeted", "up"}
\* connection_lost sets closed: the loop goes on with a new protocol, or ends
Drop(next) ==
  /\ conn' = next /\ inbox' = <<>> /\ master' = [master EXCEPT !.regions = {}]
  /\ walk' = [walk EXCEPT !.asked = FALSE, !.pure = FALSE]
Close(next) == Drop(next) /\ agent' = [agent EXCEPT !.deaf = FALSE]
ConnectionLost == Free /\ Linked /\ ~ master.up /\ Close(Loop) /\ UNCHANGED <<hw, cache, upd, count>>
MasterStops ==
  /\ master.up /\ count.restarts < MaxRestarts
  /\ master' = [up |-> FALSE, regions |-> {}] /\ count' = [count EXCEPT !.restarts = @ + 1]
  /\ walk' = [walk EXCEPT !.asked = FALSE, !.pure = FALSE]
  /\ UNCHANGED <<hw, cache, upd, conn, agent, inbox>>
MasterStarts ==
  /\ ~ master.up /\ ~ Linked /\ master' = [master EXCEPT !.up = TRUE]
  /\ UNCHANGED <<hw, cache, upd, conn, agent, inbox, walk, count>>

-----------------------------------------------------------------------------
(* snmpd asks region by region, with ranges that end with the region or go *)
(* on to the others                                                        *)
RegionsAfter(p) == {q \in master.regions : Less(p, q)}
AtRegion(w, qs) ==
  IF qs = {} THEN [w EXCEPT !.region = None, !.done = TRUE, !.asked = FALSE]
  ELSE [w EXCEPT !.region = Least(qs), !.start = Least(qs), !.incl = TRUE, !.asked = FALSE]
NoWalk == [region |-> None, start |-> <<>>, incl |-> FALSE, asked |-> FALSE, seen |-> {}, pure |-> TRUE, done |-> FALSE]
WalkStart ==
  /\ walk.region = None /\ master.regions # {} /\ count.walks < MaxWalks
  /\ walk' = AtRegion(NoWalk, master.regions) /\ count' = [count EXCEPT !.walks = @ + 1]
  /\ UNCHANGED <<hw, cache, upd, conn, agent, master, inbox>>
Ask ==
  /\ walk.region # None /\ ~ walk.asked /\ walk.region \in master.regions
  /\ \E end \in {Inc(walk.region), <<3>>} :
       inbox' = Append(inbox, [type |-> "getNext", start |-> walk.start, incl |-> walk.incl,
                               end |-> end])
  /\ walk' = [walk EXCEPT !.asked = TRUE]
  /\ UNCHANGED <<hw, cache, upd, conn, agent, master, count>>
\* a request the agent does not implement
Unsupported ==
  /\ master.regions # {} /\ Len(inbox) < 2 /\ Fault
  /\ inbox' = Append(inbox, [type |-> "testSet"])
  /\ UNCHANGED <<hw, cache, upd, conn, agent, master, walk>>

Answered(pdu) ==
  LET vb == GetNext(pdu.start, pdu.incl, pdu.end)
  IN IF vb.type = "endOfMibView" THEN AtRegion(walk, RegionsAfter(walk.region))
     ELSE [walk EXCEPT !.seen = @ \cup {vb.oid}, !.start = vb.oid, !.incl = FALSE, !.asked = FALSE,
                       !.region = ParentPrefix(vb.oid)]
\* parse_response and register_subtrees; OPEN_FAILED is only logged
Response(pdu) ==
  CASE pdu.type = "opened" ->
         /\ conn' = "up" /\ master' = [master EXCEPT !.regions = IF master.up THEN Subtrees ELSE @]
         /\ inbox' = Tail(inbox) /\ UNCHANGED <<agent, walk>>
    [] pdu.type = "openFailed" -> agent' = [agent EXCEPT !.deaf = TRUE] /\ inbox' = Tail(inbox) /\ UNCHANGED <<conn, master, walk>>
    [] pdu.type = "parseError" -> Close(Loop)
\* data_received. The first PDU of a chunk that raises takes those behind it along.
HeadType == Head(inbox).type
ReceiveResponse ==
  /\ Free /\ Linked /\ inbox # <<>> /\ HeadType \in {"opened", "openFailed", "parseError"}
  /\ Response(Head(inbox)) /\ UNCHANGED <<hw, cache, upd, count>>
ReceiveGetNext ==
  /\ Free /\ Linked /\ inbox # <<>> /\ HeadType = "getNext"
  /\ walk' = IF walk.asked THEN Answered(Head(inbox)) ELSE walk
  /\ inbox' = Tail(inbox) /\ UNCHANGED <<hw, cache, upd, conn, agent, master, count>>
RequestRaises ==
  \E rest \in {<<>>, Tail(inbox)} :
    /\ inbox' = rest
    /\ walk' = [walk EXCEPT !.asked = @ /\ \E k \in DOMAIN rest : rest[k].type = "getNext"]
ReceiveUnsupported ==
  /\ Free /\ Linked /\ inbox # <<>> /\ HeadType = "testSet" /\ RequestRaises
  /\ UNCHANGED <<hw, cache, upd, conn, agent, master, count>>
\* system_desc has no version to return when the datastore does not answer, and MIBEntry.__call__
\* catches nothing
DescrFails ==
  /\ Free /\ Linked /\ inbox # <<>> /\ HeadType = "getNext" /\ Fault
  /\ GetNext(Head(inbox).start, Head(inbox).incl, Head(inbox).end) = Is(SysDescr) /\ RequestRaises
  /\ UNCHANGED <<hw, cache, upd, conn, agent, master>>
\* a chunk ends within a PDU: neither part can be decoded
ChunkCut ==
  /\ Free /\ Linked /\ inbox # <<>> /\ Fault
  /\ inbox' = Tail(inbox)
  /\ agent' = [agent EXCEPT !.deaf = @ \/ Head(inbox).type \in {"opened", "openFailed", "parseError"}]
  /\ walk' = [walk EXCEPT !.asked = @ /\ Head(inbox).type # "getNext"]
  /\ UNCHANGED <<hw, cache, upd, conn, master>>

-----------------------------------------------------------------------------
(* Agent.shutdown and the end of run_in_event_loop                         *)
Stop ==
  /\ Free /\ agent.run
  /\ agent' = [run |-> FALSE, deaf |-> FALSE, late |-> conn = "connecting"]
  /\ IF Linked THEN Drop("leaving") ELSE UNCHANGED <<conn, inbox, master, walk>>
  /\ UNCHANGED <<hw, cache, upd, count>>
BackgroundWaitShort == Frequency
BackgroundWaitTimeout == 10
\* every updater wakes from its sleep and sees that it has to end
Leave ==
  /\ conn = "leaving"
  /\ \E sleep \in (Frequency - 2) .. (Frequency + 2) :
       conn' = IF sleep <= BackgroundWaitTimeout THEN "ended" ELSE "hung"
  /\ UNCHANGED <<hw, cache, upd, agent, master, inbox, walk, count>>

Init ==
  /\ hw \in {[i \in Ifs |-> k] : k \in {"none", "eth"}} /\ cache = <<>> /\ upd = None
  /\ conn = "connecting" /\ inbox = <<>> /\ walk = NoWalk
  /\ agent = [run |-> TRUE, deaf |-> FALSE, late |-> FALSE]
  /\ master = [up |-> TRUE, regions |-> {}]
  /\ count = [hw |-> 0, restarts |-> 0, faults |-> 0, walks |-> 0]
Updater == StartUpdate \/ UpdateRead \/ UpdateDone
Session == Connect \/ Retry \/ Handshake \/ ConnectionLost
Next ==
  \/ Updater \/ Session \/ ReceiveResponse \/ ReceiveGetNext \/ ReceiveUnsupported \/ DescrFails \/ ChunkCut \/ Stop \/ Leave
  \/ \E i \in Ifs : Hardware(i)
  \/ MasterStops \/ MasterStarts \/ WalkStart \/ Ask \/ Unsupported
\* the event loop runs every callback that is ready, and sleeps end
Spec ==
  /\ Init /\ [][Next]_vars
  /\ WF_vars(Updater) /\ SF_vars(Session) /\ SF_vars(ReceiveResponse) /\ WF_vars(MasterStarts) /\ WF_vars(Leave)
=============================================================================
