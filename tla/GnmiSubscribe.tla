---------------------------- MODULE GnmiSubscribe ----------------------------
(***************************************************************************)
(* The Subscribe service of the gNMI server (goldstone.north.gnmi) on top  *)
(* of the telemetry server.  Every call has a worker thread that           *)
(* configures a subscribe request, passes on what the telemetry server     *)
(* notifies, and removes the request.  Another thread, sysrepo's, runs     *)
(* _notification_cb.  The clients come and go as they like.                *)
(*                                                                         *)
(* The calls make the transactions of module Telemetry; what Telemetry     *)
(* calls a collector is here the gNMI server, and view is what the client  *)
(* of the call has been sent.                                              *)
(***************************************************************************)
EXTENDS Telemetry

CONSTANTS
  Asks,     \* the SubscriptionLists that the client of each call may send
  MaxPoll   \* bound: polls in one call

VARIABLES
  call,    \* what the worker thread of a call does; "none": no call yet
  ask,     \* the SubscriptionList of the call
  notifs,  \* _notifs of its SubscribeRequest, oldest first
  gone,    \* the client has cancelled the call
  polls    \* polls of the call so far

gnmiVars == <<call, ask, notifs, gone, polls>>
allVars == <<vars, gnmiVars>>

CallStates ==
  {"none", "exec", "applying", "initial", "synced", "stream", "polling",
   "clear", "clearing", "ended"}

\* _parse_config and exec(): what is configured for a SubscriptionList.  Its
\* parameters are never absent; zero stands for the server's choice.
ConfigOf(q) ==
  LET OrNone(n) == IF n > 0 THEN n ELSE None
  IN [q EXCEPT !.subs = [i \in DOMAIN q.subs |->
        IF q.mode = "STREAM"
        THEN [q.subs[i] EXCEPT !.interval = OrNone(@), !.heartbeat = OrNone(@)]
        ELSE [q.subs[i] EXCEPT !.mode = None, !.interval = None,
                               !.suppress = None, !.heartbeat = None]]]

\* The SubscriptionLists have a mode and, as configured, are requests of the YANG
\* model: the gNMI server is the only client of the telemetry server.
ASSUME GnmiAssumption ==
  /\ MaxPoll \in Nat
  /\ \A r \in Request : \A q \in Asks[r] :
       q.mode \in {"STREAM", "ONCE", "POLL"} /\ ConfigOf(q) \in Configs

Becomes(r, c) == call' = [call EXCEPT ![r] = c]

\* Mutant: the request is registered when exec() has returned.
RegisteredLate(r) == call[r] \notin {"none", "exec", "applying", "ended"}

\* The call is in _subscribe_requests: from before exec() till after clear().
Registered(r) == call[r] \notin {"none", "ended"}

-----------------------------------------------------------------------------
(* Clients (external).                                                     *)

\* A client calls Subscribe with its first request.
Subscribe(r) ==
  /\ call[r] = "none"
  /\ \E q \in Asks[r] : ask' = [ask EXCEPT ![r] = q]
  /\ Becomes(r, "exec")
  /\ UNCHANGED <<vars, notifs, gone, polls>>

\* The client cancels the call or is lost.
Leave(r) ==
  /\ call[r] \notin {"none", "ended"}
  /\ ~gone[r]
  /\ gone' = [gone EXCEPT ![r] = TRUE]
  /\ UNCHANGED <<vars, call, ask, notifs, polls>>

-----------------------------------------------------------------------------
(* Transactions of a call.                                                 *)

\* The thread of r waits in apply() for the transaction the engine handles.
InApply(r) == call[r] \in {"applying", "clearing"}

\* Handlers are stored that belong to a transaction nobody waits for.
EngineBusy == pend # None /\ ~InApply(pend.req)

\* exec(): apply() starts.
Exec(r) ==
  /\ call[r] = "exec"
  /\ CreateRequest(r, ConfigOf(ask[r]))
  /\ Becomes(r, "applying")
  /\ UNCHANGED <<ask, notifs, gone, polls>>

\* apply() is refused: InvalidArgumentError, and the request is cleared.
ExecRefused(r) ==
  /\ call[r] = "exec"
  /\ \/ CreateRefused(r, ConfigOf(ask[r]))
     \/ CreateRaises(r, ConfigOf(ask[r]))
     \/ EngineBusy /\ UNCHANGED vars
  /\ Becomes(r, "clear")
  /\ UNCHANGED <<ask, notifs, gone, polls>>

\* The telemetry server has died and is not back yet: nobody subscribes to the
\* model, and the request is configured without a feed.
ExecUnserved(r) ==
  /\ call[r] = "exec"
  /\ pend = None
  /\ Fault("crash")
  /\ MemoryLost
  /\ conf' = [conf EXCEPT ![r] = ConfigOf(ask[r])]
  /\ Becomes(r, "initial")
  /\ UNCHANGED <<data, pend, out, view, changes, txs, ask, notifs, gone, polls>>

\* clear(): the deletion of the request is applied.
Clear(r) ==
  /\ call[r] = "clear"
  /\ DeleteRequest(r)
  /\ Becomes(r, "clearing")
  /\ UNCHANGED <<ask, notifs, gone, polls>>

\* The request leaves _subscribe_requests, and its notifications with it.
End(r) ==
  /\ Becomes(r, "ended")
  /\ notifs' = [notifs EXCEPT ![r] = <<>>]
  /\ UNCHANGED <<ask, gone, polls>>

\* Mutant: after an error nothing is cleared.
ClearNothing(r) ==
  /\ call[r] = "clear"
  /\ UNCHANGED vars
  /\ End(r)

\* There is nothing to delete, or the deletion is refused, which is logged.
ClearNoop(r) ==
  /\ call[r] = "clear"
  /\ \/ conf[r] = None /\ UNCHANGED vars
     \/ DeleteRefused(r)
     \/ conf[r] # None /\ EngineBusy /\ UNCHANGED vars
  /\ End(r)

\* The transaction is committed and apply() returns.
Committed ==
  /\ pend # None
  /\ InApply(pend.req)
  /\ Commit
  /\ IF call[pend.req] = "applying"
     THEN Becomes(pend.req, "initial") /\ UNCHANGED <<ask, notifs, gone, polls>>
     ELSE End(pend.req)

\* apply() raises since its timeout_ms is over; the handlers stay stored.
GiveUp ==
  /\ Fault("giveup")
  /\ pend # None
  /\ InApply(pend.req)
  /\ IF call[pend.req] = "applying"
     THEN Becomes(pend.req, "clear") /\ UNCHANGED <<ask, notifs, gone, polls>>
     ELSE End(pend.req)
  /\ UNCHANGED <<data, conf, pend, serverVars, out, view, changes, txs>>

\* The engine's own timer reverts them.  (There is no 'abort': nobody else
\* subscribes to the model that a call changes.)
TimerReverts ==
  /\ EngineBusy
  /\ RevertHandler
  /\ UNCHANGED <<faults, gnmiVars>>

-----------------------------------------------------------------------------
(* Notifications.                                                          *)

\* _notification_cb: push_notif() of the request, if it is registered.
NotificationCb(r) ==
  /\ out[r] # <<>>
  /\ out' = [out EXCEPT ![r] = Tail(@)]
  /\ notifs' = IF Registered(r) THEN [notifs EXCEPT ![r] = Append(@, Head(out[r]))]
               ELSE notifs
  /\ UNCHANGED <<data, conf, pend, serverVars, view, changes, txs, faults,
                 call, ask, gone, polls>>

\* pull_notifs() has something for the client.
Pulls(r) == call[r] \in {"initial", "synced", "stream"} /\ notifs[r] # <<>>

\* The client is sent n, and rest is left.
Send(r, n, rest) ==
  /\ notifs' = [notifs EXCEPT ![r] = rest]
  /\ IF n.type = "SYNC_RESPONSE"
     THEN /\ call' = [call EXCEPT ![r] = IF @ = "initial" THEN "synced" ELSE @]
          /\ view' = view
     ELSE /\ view' = [view EXCEPT ![r][n.sid][n.leaf] = n.val]
          /\ call' = call
  /\ UNCHANGED <<data, conf, pend, serverVars, out, changes, txs, faults,
                 ask, gone, polls>>

\* insert(0) and pop(): the oldest notification is sent first.
Yield(r) ==
  /\ Pulls(r) /\ ~gone[r]
  /\ Send(r, Head(notifs[r]), Tail(notifs[r]))

\* Mutant: a stream does not look whether its client is still there.
ClosedOnSend(r) ==
  /\ gone[r]
  /\ Pulls(r) \/ call[r] = "polling"
  /\ Becomes(r, "clear")
  /\ UNCHANGED <<vars, ask, notifs, gone, polls>>

\* The thread finds out that the client has gone: when it sends, when it looks
\* at is_active(), or when it waits for the next request.
Closed(r) ==
  /\ gone[r]
  /\ Pulls(r) \/ call[r] \in {"stream", "polling"}
  /\ Becomes(r, "clear")
  /\ UNCHANGED <<vars, ask, notifs, gone, polls>>

\* The mode of the call decides what follows the current states.
AfterCurrentStates(r) ==
  /\ Becomes(r, CASE ask[r].mode = "ONCE" -> "clear"
                  [] ask[r].mode = "POLL" -> "polling"
                  [] ask[r].mode = "STREAM" -> "stream")
  /\ UNCHANGED <<vars, ask, notifs, gone, polls>>

\* Mutant: the SYNC_RESPONSE is not waited for.
DrainedUnsynced(r) ==
  call[r] \in {"initial", "synced"} /\ notifs[r] = <<>> /\ AfterCurrentStates(r)

\* _notify_current_states ends when it has sent the SYNC_RESPONSE and the list
\* is empty.
Drained(r) == call[r] = "synced" /\ notifs[r] = <<>> /\ AfterCurrentStates(r)

\* The client polls.
PollNotifs(r) ==
  /\ call[r] = "polling" /\ ~gone[r]
  /\ polls[r] < MaxPoll
  /\ Poll(r)
  /\ Becomes(r, "initial")
  /\ polls' = [polls EXCEPT ![r] = @ + 1]
  /\ UNCHANGED <<ask, notifs, gone>>

\* The client has no more requests or sends one that is no poll, or the poll
\* RPC raises since the telemetry server does not know the request any more.
PollEnds(r) ==
  /\ call[r] = "polling"
  /\ Becomes(r, "clear")
  /\ UNCHANGED <<vars, ask, notifs, gone, polls>>

-----------------------------------------------------------------------------
(* The telemetry server and the rest of the world.                         *)

TelemetryLoop(r, i) == LoopTask(r, i) /\ UNCHANGED gnmiVars

Clock ==
  /\ Tick
  /\ \A r \in Request : Len(notifs[r]) <= MaxOut
  /\ UNCHANGED gnmiVars

DataMoves == DataChange /\ UNCHANGED gnmiVars

\* A crash within a transaction is the subject of ServerBase.
TelemetryRestart ==
  /\ \A r \in Request : ~InApply(r)
  /\ Restart
  /\ UNCHANGED gnmiVars

GnmiInit ==
  /\ Init
  /\ call = [r \in Request |-> "none"]
  /\ ask = [r \in Request |-> CHOOSE q \in Asks[r] : TRUE]
  /\ notifs = [r \in Request |-> <<>>]
  /\ gone = [r \in Request |-> FALSE]
  /\ polls = [r \in Request |-> 0]

\* The worker thread of a call.
Worker(r) ==
  \/ Exec(r) \/ ExecRefused(r)
  \/ Yield(r) \/ Closed(r) \/ Drained(r)
  \/ Clear(r) \/ ClearNoop(r)

Client(r) == Subscribe(r) \/ Leave(r) \/ PollNotifs(r) \/ PollEnds(r)

GnmiNext ==
  \/ \E r \in Request : \/ Worker(r) \/ Client(r)
                        \/ ExecUnserved(r)
                        \/ NotificationCb(r)
                        \/ \E i \in Sid : TelemetryLoop(r, i)
  \/ Committed \/ GiveUp \/ TimerReverts
  \/ Clock \/ DataMoves \/ TelemetryRestart

GnmiSpec == GnmiInit /\ [][GnmiNext]_allVars

\* Worker threads run, transactions end, the timer fires and notifications are
\* delivered; clients and the clock need not do anything.
GnmiFairness ==
  /\ WF_allVars(Committed)
  /\ WF_allVars(TimerReverts)
  /\ \A r \in Request : WF_allVars(Worker(r)) /\ WF_allVars(NotificationCb(r))

FairGnmiSpec == GnmiSpec /\ GnmiFairness
=============================================================================
