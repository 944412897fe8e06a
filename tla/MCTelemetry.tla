----------------------------- MODULE MCTelemetry -----------------------------
(* Instances of Telemetry for TLC. *)
EXTENDS TelemetryProps

CONSTANTS r1, r2, i1, i2, l1, l2, v1, v2, none

MCPaths == [all |-> {l1, l2}, one |-> {l1}]
Sub(path, mode, interval, suppress, heartbeat) ==
  [path |-> path, mode |-> mode, interval |-> interval, suppress |-> suppress,
   heartbeat |-> heartbeat]
Req(mode, updatesOnly, s) == [mode |-> mode, updatesOnly |-> updatesOnly, subs |-> s]
One(s) == (i1 :> s)
Two(s, t) == (i1 :> s @@ i2 :> t)

OnChange == Sub("all", "ON_CHANGE", none, none, none)
OnChangeBeat == Sub("one", "ON_CHANGE", none, none, 2)
SampleAll == Sub("all", "TARGET_DEFINED", none, none, none)
SampleSlow == Sub("one", "SAMPLE", 2, TRUE, 1)
Plain(path) == Sub(path, none, none, none, none)

\* Requests that are refused: unknown path, no mode, heartbeat and sample
\* interval below the minimum.
Refusable(min) ==
  { Req("STREAM", FALSE, One(Sub("nowhere", "SAMPLE", none, none, none))),
    Req("STREAM", FALSE, One(Sub("one", none, none, none, none))),
    Req("STREAM", FALSE, One(Sub("one", "ON_CHANGE", none, none, min - 1))),
    Req("STREAM", FALSE, One(Sub("one", "SAMPLE", min - 1, none, none))) }

\* One request of each mode, with and without updates-only, and the requests
\* that are refused.
AllModes ==
  { Req("STREAM", FALSE, One(OnChange)),
    Req("STREAM", TRUE, One(OnChange)),
    Req("ONCE", FALSE, One(Plain("all"))),
    Req("POLL", FALSE, One(Plain("all"))) } \cup Refusable(2)
\* Heartbeats shorter and longer than the period, and no suppression.
Beats ==
  { Req("STREAM", FALSE, Two(OnChangeBeat, SampleAll)),
    Req("STREAM", FALSE, One(SampleSlow)) }
\* The same with a feed that an amendment turns into one of them, and back.
Everything == AllModes \cup Beats \cup { Req("STREAM", FALSE, One(OnChangeBeat)) }
=============================================================================
