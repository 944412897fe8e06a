---------------------------- MODULE TelemetryProps ----------------------------
(***************************************************************************)
(* What the telemetry server promises to collectors.                       *)
(***************************************************************************)
EXTENDS Telemetry

\* Nothing but faults of the kinds F has happened.
OnlyFaults(F) == \A n \in DOMAIN faults : faults[n] \in F

-----------------------------------------------------------------------------
\* What a collector that knew v of leaf l of subscription i knows after the
\* notifications q.
After(q, i, l, v) ==
  LET S == {n \in DOMAIN q : About(q[n], i, l)}
  IN IF S = {} THEN v ELSE q[CHOOSE n \in S : \A k \in S : k <= n].val

\* What the collector of r will know when it has received what is on its way.
Known(r, i, l) == After(out[r], i, l, view[r][i][l])

StoredVal(r, i, l) == IF store[r][i][l] = None THEN None ELSE store[r][i][l].val

\* The telemetry store is exactly what the collector knows once it has received
\* all notifications on their way: no update or deletion of a leaf is lost or
\* reordered between the store and the collector, whatever is aborted, amended
\* or restarted, as long as sending does not fail (telemetry.py:122-135, 264-294).
FeedConsistent ==
  OnlyFaults({"abort", "amend", "crash"}) => \A r \in Request : feeds[r] # None =>
    \A i \in DOMAIN feeds[r].subs, l \in Leaf :
      ~feeds[r].updatesOnly => Known(r, i, l) = StoredVal(r, i, l)

\* When the loop task of a subscription has run and no call of it failed, the store
\* holds everything below its path as it is now and nothing else: what was not
\* there before was an update, what is gone a deletion, each reported unless the
\* feed is updates-only (_sample_and_notify, telemetry.py:264-294).  A sample whose
\* notification fails after the store was updated is not covered.
SampleComplete ==
  [][\A r \in Request, i \in Sid :
       Due(r, i) /\ ~Due(r, i)' /\ feeds[r] # None /\ feeds'[r] # None /\ faults' = faults
         => \A l \in Leaf :
              StoredVal(r, i, l)' = IF l \in Paths[feeds[r].subs[i].path]
                                    THEN data[l] ELSE None]_vars

\* If nothing fails, a leaf with a heartbeat, or without suppression, is never silent
\* for longer than its heartbeat and one period while its feed runs; an id used again
\* starts with the ages of its last use (_should_send_notif, telemetry.py:245-262).
SilenceBounded ==
  faults = <<>> => \A r \in Request, i \in Sid, l \in Leaf :
    loop[r][i] # -1 /\ store[r][i][l] # None =>
      LET s == feeds[r].subs[i]
          limit == Period(s) + (IF Suppresses(s) THEN s.heartbeat ELSE 0)
      IN (Suppresses(s) => s.heartbeat > 0) =>
           store[r][i][l].age <= limit \/ since[r] <= limit

\* A collector that suppresses redundant values and has no heartbeat is never
\* told twice in a row the same about a leaf, but for the state a feed sends
\* before its SYNC_RESPONSE when it starts.  With updates-only, the deletion of
\* a leaf it was not told of counts as news, and a feed that an abort starts
\* again has stored what it did not send (telemetry.py:122-135, 245-262).
NoRepeats ==
  OnlyFaults({"abort", "amend", "crash"}) =>
  \A r \in Request : feeds[r] # None /\ feeds[r].mode = "STREAM" =>
    \A n \in DOMAIN out[r] :
      LET m == out[r][n]
      IN /\ m.type \in {"UPDATE", "DELETE"}
         /\ feeds[r].updatesOnly => m.type = "UPDATE" /\ OnlyFaults({"amend", "crash"})
         /\ m.sid \in DOMAIN feeds[r].subs
         /\ Suppresses(feeds[r].subs[m.sid])
         /\ feeds[r].subs[m.sid].heartbeat = 0
         /\ \A k \in n..Len(out[r]) : out[r][k].type # "SYNC_RESPONSE"
         => After(SubSeq(out[r], 1, n - 1), m.sid, m.leaf, view[r][m.sid][m.leaf]) # m.val

\* Between transactions the feeds that run are the requests configured in the
\* running datastore, with their parameters, also after aborts and failed
\* samples (telemetry.py:384-497).
FeedsMatchConfig ==
  pend = None /\ OnlyFaults({"abort", "sample"}) =>
    \A r \in Request : feeds[r] = IF conf[r] = None THEN None ELSE Parsed(conf[r])

\* As long as no start and no sample fails, there is time and again a moment at
\* which every collector of a stream feed knows the data as it is: changes stop
\* and start, feeds come and go, but nothing is missed for good
\* (_on_change_loop and _sample_loop, telemetry.py:296-321).
UpToDate ==
  \A r \in Request, i \in Sid, l \in Leaf :
    /\ feeds[r] # None /\ feeds[r].mode = "STREAM" /\ ~feeds[r].updatesOnly
    /\ i \in DOMAIN feeds[r].subs
    /\ l \in Paths[feeds[r].subs[i].path]
    => view[r][i][l] = data[l]

CollectorsCatchUp == []<>(OnlyFaults({"abort", "amend", "crash"}) => UpToDate)
=============================================================================
