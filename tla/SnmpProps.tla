------------------------------ MODULE SnmpProps ------------------------------
(***************************************************************************)
(* Properties of the SNMP agent.                                           *)
(***************************************************************************)
EXTENDS Snmp

\* the variables there are, and the columns without a hole
Instances ==
  {SysDescr, IfNumber} \cup
  UNION {{Column(c) \o <<k>> : k \in {j \in DOMAIN cache : Cell(c, cache[j]) # None}} : c \in DOMAIN Columns}
Whole(c) == \A k \in DOMAIN cache : Cell(c, cache[k]) # None
InWhole(oid) == \A c \in DOMAIN Columns : IsPrefix(Column(c), oid) => Whole(c)

Reference(instances, start, incl, end) ==
  LET S == {o \in instances : (Less(start, o) \/ (incl /\ o = start)) /\ Less(o, end)}
  IN IF S = {} THEN EndOfMibView ELSE Is(Least(S))

Starts == {<<>>, <<2, 1, 0>>, <<2, 2, 1>>} \cup Subtrees
          \cup UNION {{Column(c) \o s : s \in {<<0>>, <<1>>, <<1, 7>>, <<2>>}} : c \in DOMAIN Columns}
\* GetNextPDU.make_response, for a starting OID that is not included and a range to the end of the
\* MIB, and for a subtree that is included and a range that ends with it, the two questions of snmpd:
\* the answer is the closest successor of the starting OID, or the OID itself when it is included. A
\* column in which some row has no value is cut at that row, and the end of the range is not looked
\* at inside an entry (MIBTable._get_nextvalue), so other tables and other ends are left out.
NextIsSuccessor ==
  LET instances == Instances
      end == <<3>>
  IN (\A c \in DOMAIN Columns : Whole(c)) =>
       \A start \in Starts : GetNext(start, FALSE, end) = Reference(instances, start, FALSE, end)
         /\ (start \in Subtrees => GetNext(start, TRUE, Inc(start)) = Reference(instances, start, TRUE, Inc(start)))

\* A walk that met no update of the table and no new session has returned every variable of the
\* columns without a hole and nothing else, whatever requests were lost and asked again.
WalkComplete ==
  walk.done /\ walk.pure => walk.seen \subseteq Instances /\ \A o \in Instances : InWhole(o) => o \in walk.seen

\* The agent registers with snmpd, again after every restart of snmpd, unless snmpd refused to open
\* the session or its answer was cut in two (AgentX.parse_response, data_received).
Registers == agent.run ~> (conn = "up" \/ agent.deaf \/ ~ agent.run)

\* After any change of the interfaces the table catches up, though a read may find one gone
\* (MIBUpdater.start).
TableFollows == Serving ~> (Range(cache) = Snapshot \/ ~ Serving)

\* The agent ends when it is told to, unless it was just opening a connection (Agent.shutdown).
ShutdownEnds == ~ agent.run ~> (conn = "ended" \/ agent.late)

=============================================================================
