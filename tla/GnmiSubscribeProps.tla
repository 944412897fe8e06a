-------------------------- MODULE GnmiSubscribeProps --------------------------
(***************************************************************************)
(* What the Subscribe service promises to its clients and leaves behind.   *)
(***************************************************************************)
EXTENDS GnmiSubscribe

\* What the client of r knows of leaf l of subscription i once it has been
\* sent all that is on its way, through both queues.
WillKnow(r, i, l) ==
  LET q == notifs[r] \o out[r]
      S == {m \in DOMAIN q : About(q[m], i, l)}
  IN IF S = {} THEN view[r][i][l]
     ELSE q[CHOOSE m \in S : \A k \in S : k <= m].val

StoreSays(r, i, l) == IF store[r][i][l] = None THEN None ELSE store[r][i][l].val

\* While a call is served its client is going to know what the telemetry store
\* holds: between the telemetry server, sysrepo's thread and the worker thread
\* no notification is lost or overtaken, the first ones included, which arrive
\* while exec() has not returned yet (server.py:722-724, 456-468).
AnswersConsistent ==
  faults = <<>> =>
    \A r \in Request :
      /\ call[r] \in {"applying", "initial", "synced", "stream", "polling"}
      /\ feeds[r] # None /\ ~feeds[r].updatesOnly
      => \A i \in DOMAIN feeds[r].subs, l \in Leaf : WillKnow(r, i, l) = StoreSays(r, i, l)

\* A client that gets the end of a ONCE call, or of the answer to a poll, has
\* been sent all the telemetry server had stored (server.py:690-699).
AnswersComplete ==
  [][\A r \in Request :
       /\ call[r] \in {"initial", "synced"} /\ call'[r] \in {"clear", "polling"} /\ ~gone[r]
       /\ feeds[r] # None /\ ~feeds[r].updatesOnly
       => \A i \in DOMAIN feeds[r].subs, l \in Leaf :
            view[r][i][l] = StoreSays(r, i, l)]_allVars

\* If nothing fails, a call that has ended leaves neither a configured request
\* nor a feed behind, whatever the client did (server.py:735-740, 764-766).
NothingLeft ==
  faults = <<>> => \A r \in Request : call[r] = "ended" => conf[r] = None /\ feeds[r] = None

\* A call whose client has gone ends and gives its worker thread back
\* (server.py:690-707).
CallsEnd == \A r \in Request : gone[r] ~> (call[r] = "ended")

\* CallsEnd, if nothing fails.
CallsEndIfServed == [](faults = <<>>) => CallsEnd
=============================================================================
