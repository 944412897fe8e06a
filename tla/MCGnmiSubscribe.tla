--------------------------- MODULE MCGnmiSubscribe ---------------------------
(* Instances of GnmiSubscribe for TLC. *)
EXTENDS GnmiSubscribeProps

CONSTANTS r1, r2, i1, l1, v1, v2, none

MCPaths == [one |-> {l1}]
Ask(mode, path) ==
  [mode |-> mode, updatesOnly |-> FALSE,
   subs |-> (i1 :> [path |-> path, mode |-> "ON_CHANGE", interval |-> 0,
                    suppress |-> FALSE, heartbeat |-> 0])]
\* Requests of every mode, and one that is refused, side by side with polls and
\* with a ONCE call.
MCAsks ==
  r1 :> { Ask("STREAM", "one"), Ask("ONCE", "one"), Ask("ONCE", "nowhere") }
  @@ r2 :> { Ask("POLL", "one"), Ask("ONCE", "one") }
MCConfigs == {ConfigOf(q) : q \in UNION {Asks[r] : r \in Request}}
=============================================================================
