------------------------------ MODULE Telemetry ------------------------------
(***************************************************************************)
(* The streaming telemetry server (goldstone.system.telemetry): subscribe  *)
(* requests are entries of the running datastore, each with one or more    *)
(* subscriptions to a path.  The server keeps the running feeds in a       *)
(* subscription store and the last value it knows of every leaf in a       *)
(* telemetry store, and reports to the collector by notifications.         *)
(*                                                                         *)
(* The change-handling engine is the one of module ServerBase; here a      *)
(* transaction carries one request and its handlers are applied, and then  *)
(* committed or reverted.  Everything between two awaits of the asyncio    *)
(* loop is one step.                                                       *)
(***************************************************************************)
EXTENDS Integers, Sequences, FiniteSets, SequencesExt

CONSTANTS
  Request,        \* ids of subscribe requests
  Sid,            \* ids of subscriptions in a request
  Leaf,           \* leaves of the operational datastore
  Value,          \* their values
  None,           \* no value, no entry, no parameter
  Paths,          \* Paths[p]: the leaves below path p, for the valid paths
  Configs,        \* the subscribe requests clients configure
  UpdateInterval, \* _update_interval, in ticks
  Faults,         \* what may go wrong: subset of the names below
  MaxTx,          \* bound: transactions
  MaxChange,      \* bound: changes of the operational data
  MaxFault,       \* bound: faults
  MaxOut,         \* bound: notifications a collector may leave unread
  MaxAge          \* bound: ages are counted up to here

FaultNames == {"abort", "start", "sample", "crash", "amend", "giveup"}

ASSUME TelemetryAssumption ==
  /\ UpdateInterval \in Nat \ {0}
  /\ Faults \subseteq FaultNames
  /\ {MaxTx, MaxChange, MaxFault, MaxOut, MaxAge} \subseteq Nat
  /\ None \notin Value
  /\ IsFiniteSet(Leaf) /\ IsFiniteSet(Sid)
  /\ \A p \in DOMAIN Paths : Paths[p] \subseteq Leaf

\* Requests as goldstone-telemetry.yang types them: a parameter may be absent.
ASSUME RequestAssumption ==
  \A c \in Configs :
    /\ c \in [mode : {"STREAM", "ONCE", "POLL", None}, updatesOnly : BOOLEAN,
              subs : [DOMAIN c.subs -> Range(c.subs)]]
    /\ DOMAIN c.subs \subseteq Sid
    /\ \A s \in Range(c.subs) :
         s \in [path : {s.path}, mode : {"SAMPLE", "ON_CHANGE", "TARGET_DEFINED", None},
               interval : Nat \cup {None}, suppress : BOOLEAN \cup {None},
               heartbeat : Nat \cup {None}]

VARIABLES
  data,     \* operational datastore (external): value of each leaf
  conf,     \* running datastore: the configured request, or None
  pend,     \* the handler stored by the engine until 'done', or None
  feeds,    \* subscription store: the parsed request, or None
  store,    \* telemetry store: [val, age] of each leaf of a subscription
  loop,     \* ticks until the loop task of a subscription wakes; -1: no task
  since,    \* history: ticks since the feed was started
  out,      \* notifications sent and not yet received, oldest first
  view,     \* what a collector of the request knows of each leaf
  changes, txs,  \* counters of the bounds
  faults    \* the faults so far

serverVars == <<feeds, store, loop, since>>
vars == <<data, conf, pend, serverVars, out, view, changes, txs, faults>>

-----------------------------------------------------------------------------
(* Requests.                                                               *)

\* _parse_config: what a stream subscription gets for the parameters it omits.
WithDefaults(s) ==
  [s EXCEPT !.interval  = IF @ = None THEN 2 * UpdateInterval ELSE @,
            !.suppress  = IF @ = None THEN FALSE ELSE @,
            !.heartbeat = IF @ = None THEN 0 ELSE @,
            !.mode      = IF @ = "TARGET_DEFINED" THEN "SAMPLE" ELSE @]

Parsed(c) ==
  IF c.mode = "STREAM"
  THEN [c EXCEPT !.subs = [i \in DOMAIN c.subs |-> WithDefaults(c.subs[i])]]
  ELSE c

\* _validate_config, of a parsed request.
Valid(c) ==
  /\ c.mode \in {"STREAM", "ONCE", "POLL"}
  /\ \A i \in DOMAIN c.subs :
       LET s == c.subs[i]
       IN /\ s.path \in DOMAIN Paths
          /\ c.mode = "STREAM" =>
               /\ s.mode # None
               /\ s.heartbeat = 0 \/ s.heartbeat >= UpdateInterval
               /\ s.mode = "SAMPLE" => s.interval >= UpdateInterval

\* None is no request, no handler that the engine stores and no entry.
ASSUME NoneAssumption ==
  /\ \A c \in Configs, r \in Request :
       None \notin {c, Parsed(c), [kind |-> "created", req |-> r, cfg |-> c],
                       [kind |-> "deleted", req |-> r, cfg |-> Parsed(c)]}
  /\ None \notin [val : Value, age : Nat]

\* Time between two samples.
Period(s) == IF s.mode = "SAMPLE" THEN s.interval ELSE UpdateInterval

Suppresses(s) == s.suppress \/ s.mode = "ON_CHANGE"

-----------------------------------------------------------------------------
(* Notifications.                                                          *)

Sync == [type |-> "SYNC_RESPONSE"]
Update(i, l, v) == [type |-> "UPDATE", sid |-> i, leaf |-> l, val |-> v]
Delete(i, l) == [type |-> "DELETE", sid |-> i, leaf |-> l, val |-> None]

\* Notifications for the pairs <<subscription, leaf>> of S, in some order.
UpdatesOf(st, S) ==
  LET q == SetToSeq(S)
  IN [n \in DOMAIN q |-> Update(q[n][1], q[n][2], st[q[n][1]][q[n][2]].val)]

DeletesOf(S) == LET q == SetToSeq(S) IN [n \in DOMAIN q |-> Delete(q[n][1], q[n][2])]

About(n, i, l) == n.type # "SYNC_RESPONSE" /\ n.sid = i /\ n.leaf = l

-----------------------------------------------------------------------------
(* Start of a feed.                                                        *)

Fresh(l) == [val |-> data[l], age |-> 0]

\* _retrieve_current_data: the leaves that exist are stored; what the store
\* holds besides stays.
Retrieved(c, st) ==
  [i \in Sid |-> [l \in Leaf |->
     IF i \in DOMAIN c.subs /\ l \in Paths[c.subs[i].path] /\ data[l] # None
     THEN Fresh(l) ELSE st[i][l]]]

\* _send_current_data: everything the store lists under the request's ids.
Current(c, st) ==
  UpdatesOf(st, {p \in (DOMAIN c.subs) \X Leaf : st[p[1]][p[2]] # None})

\* With updates-only the collector is not told.
Told(c, st) == IF c.updatesOnly THEN <<>> ELSE Current(c, st)

\* Subscription.start() and StreamSubscription.start(), and their notifications.
Start(r, c) ==
  LET st == Retrieved(c, store[r])
  IN /\ feeds' = [feeds EXCEPT ![r] = c]
     /\ store' = [store EXCEPT ![r] = st]
     /\ out' = [out EXCEPT ![r] = @ \o Told(c, st) \o <<Sync>>]
     /\ loop' = [loop EXCEPT ![r] =
          [i \in Sid |-> IF c.mode = "STREAM" /\ i \in DOMAIN c.subs
                         THEN Period(c.subs[i]) ELSE -1]]
     /\ since' = [since EXCEPT ![r] = 0]

\* Mutant: the entry is not removed.
StopFeedKeeps(r) ==
  /\ loop' = [loop EXCEPT ![r] = [i \in Sid |-> -1]]
  /\ UNCHANGED <<feeds, store, since, out>>

\* stop() cancels the loop tasks; the entry leaves the subscription store,
\* while the telemetry store keeps its values.
StopFeed(r) ==
  /\ loop' = [loop EXCEPT ![r] = [i \in Sid |-> -1]]
  /\ feeds' = [feeds EXCEPT ![r] = None]
  /\ UNCHANGED <<store, since, out>>

-----------------------------------------------------------------------------
(* Transactions (SubscribeRequestChangeHandler).                           *)

NewTx == pend = None /\ txs < MaxTx /\ txs' = txs + 1

\* A request is configured.  The collector begins with nothing; an id is only
\* used again once the notifications of its last use are delivered.
Configured(r) ==
  /\ NewTx
  /\ conf[r] = None
  /\ out[r] = <<>>

\* CreatedHandler: validate() and apply() succeed.
CreateRequest(r, c) ==
  /\ Configured(r)
  /\ feeds[r] = None
  /\ Valid(Parsed(c))
  /\ Start(r, Parsed(c))
  /\ pend' = [kind |-> "created", req |-> r, cfg |-> c]
  /\ view' = [view EXCEPT ![r] = [i \in Sid |-> [l \in Leaf |-> None]]]
  /\ UNCHANGED <<data, conf, changes, faults>>

\* validate() raises, or add() finds the id in use: nothing has happened.
CreateRefused(r, c) ==
  /\ Configured(r)
  /\ feeds[r] # None \/ ~Valid(Parsed(c))
  /\ UNCHANGED <<data, conf, pend, serverVars, out, view, changes, faults>>

\* A fault of kind f happens.
Fault(f) == f \in Faults /\ Len(faults) < MaxFault /\ faults' = Append(faults, f)

\* start() raises in _get_data() or, after k notifications, in
\* _send_notification(): the entry of the subscription store stays, since only
\* the handlers before this one are reverted.
CreateRaises(r, c) ==
  /\ Fault("start")
  /\ Configured(r)
  /\ feeds[r] = None
  /\ Valid(Parsed(c))
  /\ feeds' = [feeds EXCEPT ![r] = Parsed(c)]
  /\ \/ UNCHANGED <<store, out>>
     \/ LET st == Retrieved(Parsed(c), store[r])
            sent == Told(Parsed(c), st)
        IN /\ store' = [store EXCEPT ![r] = st]
           /\ \E k \in 0..Len(sent) : out' = [out EXCEPT ![r] = SubSeq(sent, 1, k)]
  /\ view' = [view EXCEPT ![r] = [i \in Sid |-> [l \in Leaf |-> None]]]
  /\ UNCHANGED <<data, conf, pend, loop, since, changes>>

\* DeletedHandler.
DeleteRequest(r) ==
  /\ NewTx
  /\ conf[r] # None
  /\ feeds[r] # None
  /\ pend' = [kind |-> "deleted", req |-> r, cfg |-> feeds[r]]
  /\ StopFeed(r)
  /\ UNCHANGED <<data, conf, view, changes, faults>>

\* validate() does not find the id: the deletion is refused.
DeleteRefused(r) ==
  /\ NewTx
  /\ conf[r] # None
  /\ feeds[r] = None
  /\ UNCHANGED <<data, conf, pend, serverVars, out, view, changes, faults>>

\* Subscriptions of a configured request are added or removed: changes below
\* the list entry are no-ops, so they are accepted and the feed is untouched.
AmendRequest(r) ==
  /\ Fault("amend")
  /\ NewTx
  /\ conf[r] # None
  /\ \E c \in Configs :
       /\ c.mode = conf[r].mode /\ c.updatesOnly = conf[r].updatesOnly
       /\ c.subs # conf[r].subs
       /\ \A i \in DOMAIN c.subs \cap DOMAIN conf[r].subs : c.subs[i] = conf[r].subs[i]
       /\ pend' = [kind |-> "amended", req |-> r, cfg |-> c]
  /\ UNCHANGED <<data, conf, serverVars, out, view, changes>>

\* The datastore is updated and 'done' discards the handler.
Commit ==
  /\ pend # None
  /\ conf' = [conf EXCEPT ![pend.req] =
                IF pend.kind = "deleted" THEN None ELSE pend.cfg]
  /\ pend' = None
  /\ UNCHANGED <<data, serverVars, out, view, changes, txs, faults>>

\* revert() of the stored handler.
RevertHandler ==
  /\ pend # None
  /\ pend' = None
  /\ CASE pend.kind = "created" -> StopFeed(pend.req)
       [] pend.kind = "deleted" -> Start(pend.req, pend.cfg)
       [] OTHER -> UNCHANGED <<serverVars, out>>
  /\ UNCHANGED <<data, conf, view, changes, txs>>

\* 'abort', or no event at all within revert_timeout.
Revert == Fault("abort") /\ RevertHandler

-----------------------------------------------------------------------------
(* The loop tasks of stream subscriptions.                                 *)

\* Mutants: redundant values are not suppressed; the heartbeat is forgotten.
SendsAlways(s, e, v, x) == TRUE
SendsOnChange(s, e, v, x) == ~Suppresses(s) \/ e = None \/ e.val # v

\* _should_send_notif for a leaf of value v with the entry e in the store; x
\* tells whether the heartbeat has expired when its time has just come.
ShouldSend(s, e, v, x) ==
  \/ ~Suppresses(s)
  \/ e = None
  \/ e.val # v
  \/ s.heartbeat > 0 /\ (e.age > s.heartbeat \/ (e.age = s.heartbeat /\ x))

\* What a sample of subscription i finds to report: the leaves to update, given
\* the heartbeats X that have just expired, and those to delete.
Updated(r, i, X) ==
  LET s == feeds[r].subs[i]
  IN {l \in Paths[s.path] : data[l] # None /\ ShouldSend(s, store[r][i][l], data[l], l \in X)}

\* Mutant: deleted leaves are not noticed.
GoneNever(r, i) == {}

Gone(r, i) ==
  {l \in Leaf : store[r][i][l] # None
                /\ (l \notin Paths[feeds[r].subs[i].path] \/ data[l] = None)}

\* The telemetry store with the leaves U set and D deleted.
Stored(r, i, U, D) ==
  [store EXCEPT ![r][i] = [l \in Leaf |-> IF l \in U THEN Fresh(l)
                                          ELSE IF l \in D THEN None ELSE @[l]]]

\* Mutant: deleted leaves are not reported.
ReportsUpdates(i, U, D) == UpdatesOf([j \in {i} |-> [l \in U |-> Fresh(l)]], {i} \X U)

\* The notifications of a sample that reports U and D.
Reports(i, U, D) == UpdatesOf([j \in {i} |-> [l \in U |-> Fresh(l)]], {i} \X U)
                    \o DeletesOf({i} \X D)

Due(r, i) == loop[r][i] = 0

\* Mutant: the task is not started again after a sample.
RearmNever(r, i) == loop' = [loop EXCEPT ![r][i] = -1]

\* The task goes back to sleep.
Rearm(r, i) == loop' = [loop EXCEPT ![r][i] = Period(feeds[r].subs[i])]

\* _sample_and_notify.
Sample(r, i) ==
  /\ Due(r, i)
  /\ \E X \in SUBSET Paths[feeds[r].subs[i].path] :
       /\ store' = Stored(r, i, Updated(r, i, X), Gone(r, i))
       /\ out' = [out EXCEPT ![r] = @ \o Reports(i, Updated(r, i, X), Gone(r, i))]
  /\ Rearm(r, i)
  /\ UNCHANGED <<data, conf, pend, feeds, since, view, changes, txs, faults>>

\* _sample_and_notify raises, which the loop swallows: nothing could be read,
\* or leaf l was stored and its notification could not be sent, after U were.
SampleRaises(r, i) ==
  /\ Due(r, i)
  /\ Fault("sample")
  /\ \/ UNCHANGED <<store, out>>
     \/ \E X \in SUBSET Paths[feeds[r].subs[i].path] :
        \E l \in Updated(r, i, X) : \E U \in SUBSET (Updated(r, i, X) \ {l}) :
          /\ store' = Stored(r, i, U \cup {l}, {})
          /\ out' = [out EXCEPT ![r] = @ \o Reports(i, U, {})]
     \/ \E X \in SUBSET Paths[feeds[r].subs[i].path] :
        \E l \in Gone(r, i) : \E D \in SUBSET (Gone(r, i) \ {l}) :
          /\ store' = Stored(r, i, Updated(r, i, X), D \cup {l})
          /\ out' = [out EXCEPT ![r] = @ \o Reports(i, Updated(r, i, X), D)]
  /\ Rearm(r, i)
  /\ UNCHANGED <<data, conf, pend, feeds, since, view, changes, txs>>

\* Time passes; a task that is due runs first.
Tick ==
  /\ \A r \in Request, i \in Sid : ~Due(r, i)
  /\ \A r \in Request : Len(out[r]) <= MaxOut
  /\ loop' = [r \in Request |-> [i \in Sid |->
                IF loop[r][i] > 0 THEN loop[r][i] - 1 ELSE loop[r][i]]]
  /\ store' = [r \in Request |-> [i \in Sid |-> [l \in Leaf |->
                IF store[r][i][l] # None /\ store[r][i][l].age < MaxAge
                THEN [store[r][i][l] EXCEPT !.age = @ + 1] ELSE store[r][i][l]]]]
  /\ since' = [r \in Request |->
                IF feeds[r] # None /\ since[r] < MaxAge THEN since[r] + 1 ELSE since[r]]
  /\ UNCHANGED <<data, conf, pend, feeds, out, view, changes, txs, faults>>

-----------------------------------------------------------------------------
(* Poll, collectors, data and crashes.                                     *)

\* The poll RPC; for a feed of another mode or an unknown id it raises.
Poll(r) ==
  /\ feeds[r] # None
  /\ feeds[r].mode = "POLL"
  /\ out[r] = <<>>
  /\ LET st == Retrieved(feeds[r], store[r])
     IN /\ store' = [store EXCEPT ![r] = st]
        /\ out' = [out EXCEPT ![r] = Current(feeds[r], st) \o <<Sync>>]
  /\ UNCHANGED <<data, conf, pend, feeds, loop, since, view, changes, txs, faults>>

\* A collector receives the next notification of its request.
Receive(r) ==
  /\ out[r] # <<>>
  /\ out' = [out EXCEPT ![r] = Tail(@)]
  /\ view' = LET n == Head(out[r])
             IN IF n.type = "SYNC_RESPONSE" THEN view
                ELSE [view EXCEPT ![r][n.sid][n.leaf] = n.val]
  /\ UNCHANGED <<data, conf, pend, serverVars, changes, txs, faults>>

\* A leaf of the operational datastore changes, appears or disappears.
DataChange ==
  /\ changes < MaxChange
  /\ \E l \in Leaf, v \in Value \cup {None} :
       data[l] # v /\ data' = [data EXCEPT ![l] = v]
  /\ changes' = changes + 1
  /\ UNCHANGED <<conf, pend, serverVars, out, view, txs, faults>>

\* Both stores are in memory, and start() does not look at the requests that
\* are configured.
MemoryLost ==
  /\ feeds' = [r \in Request |-> None]
  /\ store' = [r \in Request |-> [i \in Sid |-> [l \in Leaf |-> None]]]
  /\ loop' = [r \in Request |-> [i \in Sid |-> -1]]
  /\ since' = [r \in Request |-> 0]

\* The process dies and is restarted.
Restart ==
  /\ Fault("crash")
  /\ MemoryLost
  /\ pend' = None
  /\ UNCHANGED <<data, conf, out, view, changes, txs>>

-----------------------------------------------------------------------------
Init ==
  /\ data \in [Leaf -> Value \cup {None}]
  /\ conf = [r \in Request |-> None]
  /\ pend = None
  /\ feeds = [r \in Request |-> None]
  /\ store = [r \in Request |-> [i \in Sid |-> [l \in Leaf |-> None]]]
  /\ loop = [r \in Request |-> [i \in Sid |-> -1]]
  /\ since = [r \in Request |-> 0]
  /\ out = [r \in Request |-> <<>>]
  /\ view = [r \in Request |-> [i \in Sid |-> [l \in Leaf |-> None]]]
  /\ changes = 0 /\ txs = 0 /\ faults = <<>>

Transaction(r) ==
  \/ \E c \in Configs : CreateRequest(r, c) \/ CreateRefused(r, c) \/ CreateRaises(r, c)
  \/ DeleteRequest(r) \/ DeleteRefused(r) \/ AmendRequest(r)

LoopTask(r, i) == Sample(r, i) \/ SampleRaises(r, i)

Next ==
  \/ \E r \in Request : \/ Transaction(r)
                        \/ Poll(r)
                        \/ Receive(r)
                        \/ \E i \in Sid : LoopTask(r, i)
  \/ Commit \/ Revert \/ Tick \/ DataChange \/ Restart

Spec == Init /\ [][Next]_vars

\* The event loop runs what is due, time passes, notifications are delivered
\* and a transaction ends.
Fairness ==
  /\ WF_vars(Tick)
  /\ WF_vars(Commit \/ Revert)
  /\ \A r \in Request : /\ WF_vars(Receive(r))
                        /\ \A i \in Sid : WF_vars(LoopTask(r, i))

FairSpec == Spec /\ Fairness
=============================================================================
