----------------------------- MODULE ServerBase -----------------------------
(***************************************************************************)
(* The change-handling engine every Goldstone daemon is built on           *)
(* (goldstone.lib.core.ServerBase), composed with the part of sysrepo that *)
(* drives it.  One server subscribes to one YANG model; a transaction may  *)
(* span several models, so several servers take part in it.                *)
(*                                                                         *)
(* sysrepo is not part of the repository.  It is modelled from how core.py *)
(* uses it: a 'change' event per subscribed model, one after the other;    *)
(* once every server has accepted, the running datastore is updated and    *)
(* every server gets 'done'; if one refuses, the servers that had accepted *)
(* get 'abort'; if the client gives up while a 'change' is being handled,  *)
(* no further event is issued.                                             *)
(***************************************************************************)
EXTENDS Integers, Sequences

CONSTANTS
  Server,           \* the daemons, one per YANG model
  Key,              \* the leaves of a model that appear in changes
  Unsupported,      \* the leaves for which get_handler() returns None
  Value,            \* the values a leaf can be given
  Absent,           \* the leaf is not configured ("deleted" change)
  Default,          \* what the device holds when a leaf is not configured
  Defaulted,        \* the leaves start() writes even when they are not configured
  Inputs,           \* the change lists clients submit to a model
  MaxTx,            \* bound: transactions a behaviour may start
  MaxCrash,         \* bound: process crashes
  SlowPeers,        \* TRUE: a transaction may outlive revert_timeout
  RevertMayRaise,   \* TRUE: a handler's revert() may raise
  PostMayRaise,     \* TRUE: a server's post() may raise
  ConfigDuringStart \* TRUE: a transaction may pass a server unnoticed while it
                    \* starts, i.e. reads the datastore and then subscribes

Change == [key : Key, val : Value \cup {Absent}]

\* sysrepo reports a leaf at most once in a list of changes.
IsChangeList(c) ==
  /\ c \in Seq(Change)
  /\ \A i, j \in DOMAIN c : c[i].key = c[j].key => i = j

ASSUME ConstantsAssumption ==
  /\ \A c \in Inputs : IsChangeList(c)
  /\ Unsupported \subseteq Key
  /\ Defaulted \subseteq Key
  /\ Absent \notin Value
  /\ Default \in Value
  /\ MaxTx \in Nat
  /\ MaxCrash \in Nat
  /\ {SlowPeers, RevertMayRaise, PostMayRaise, ConfigDuringStart} \subseteq BOOLEAN

VARIABLES
  running,  \* the running datastore, one tree per model
  txId,     \* sysrepo: id of the last transaction
  txPhase,  \* sysrepo: "idle", "change" or "finish"
  txCfg,    \* sysrepo: the changes of the transaction in each model
  txTodo,   \* sysrepo: servers the current event has still to go to
  txAcked,  \* sysrepo: servers that accepted 'change'
  txWait,   \* sysrepo: servers whose answer to an event is outstanding
  inbox,    \* events whose change_cb() waits for self.lock
  pc,       \* where the change_cb() that holds self.lock is
  reqId,    \* req_id of the event that change_cb() handles
  idx,      \* its position in the list of handlers
  handlers, \* the list of handlers: sequence of [key, val]
  orig,     \* original_value each handler saved in apply()
  cur,      \* _current_handlers: 0 for None, else the req_id it holds
  timer,    \* revert_task: "off", "sleep", "revert" or "raised"
  tidx,     \* position of do_revert() in the list of handlers
  hw,       \* the device's own configuration
  status,   \* "up", "fatal", "down" or "starting"
  fault,    \* why _stop_event was set: "none", "null" or "id"
  crashes   \* number of crashes so far

sysrepoVars == <<running, txId, txPhase, txCfg, txTodo, txAcked, txWait>>
callbackVars == <<inbox, pc, reqId, idx, handlers, orig>>
revertVars == <<cur, timer, tidx>>
processVars == <<status, fault, crashes>>
vars == <<sysrepoVars, callbackVars, revertVars, hw, processVars>>

-----------------------------------------------------------------------------
(* Configuration data.                                                     *)

Handled == Key \ Unsupported

Config == [Key -> Value \cup {Absent}]

\* What a handler writes to the device: for a deleted leaf, its default
\* (TAIHandler.validate sets self.value from cap.default_value).
Effective(v) == IF v = Absent THEN Default ELSE v

\* Changes that get_handler() finds no handler for and may not skip.
Refused(c) == \E i \in DOMAIN c : c[i].key \in Unsupported /\ c[i].val # Absent

\* The datastore after the changes c.
Updated(cfg, c) ==
  [k \in Key |-> IF \E i \in DOMAIN c : c[i].key = k
                 THEN c[CHOOSE i \in DOMAIN c : c[i].key = k].val
                 ELSE cfg[k]]

Event == [ev : {"change", "done", "abort"}, id : 1..MaxTx, chg : Inputs \cup {<<>>}]

-----------------------------------------------------------------------------
(* sysrepo (external).                                                     *)

\* The process of s runs and is subscribed; a server whose _stop_event is set
\* goes on until main() has stopped it.
Alive(s) == status[s] \in {"up", "fatal"}

\* The next event of each server in S is ev.
Broadcast(S, ev) ==
  inbox' = [s \in Server |->
              IF s \in S
              THEN Append(inbox[s], [ev |-> ev, id |-> txId, chg |-> <<>>])
              ELSE inbox[s]]

\* A client calls apply(): a transaction starts.
Begin ==
  /\ txPhase = "idle"
  /\ txId < MaxTx
  /\ \E c \in [Server -> Inputs \cup {<<>>}] :
       LET P == {s \in Server : c[s] # <<>>}
       IN /\ P # {}
          /\ ~ConfigDuringStart => \A s \in P : status[s] # "starting"
          /\ txCfg' = c
          /\ txTodo' = {s \in P : Alive(s)}
  /\ txId' = txId + 1
  /\ txPhase' = "change"
  /\ txAcked' = {}
  /\ txWait' = {}
  /\ UNCHANGED <<running, callbackVars, revertVars, hw, processVars>>

\* 'change' goes to the next server; sysrepo waits for its answer.
NotifyChange(s) ==
  /\ txPhase = "change"
  /\ txWait = {}
  /\ s \in txTodo
  /\ txTodo' = txTodo \ {s}
  /\ txWait' = {s}
  /\ inbox' = [inbox EXCEPT ![s] =
                 Append(@, [ev |-> "change", id |-> txId, chg |-> txCfg[s]])]
  /\ UNCHANGED <<running, txId, txPhase, txCfg, txAcked, pc, reqId, idx,
                 handlers, orig, revertVars, hw, processVars>>

\* Every server accepted: the datastore is updated and 'done' is issued.
Commit ==
  /\ txPhase = "change"
  /\ txTodo = {}
  /\ txWait = {}
  /\ ~ConfigDuringStart =>
       \A s \in Server : txCfg[s] # <<>> => status[s] # "starting"
  /\ running' = [s \in Server |-> Updated(running[s], txCfg[s])]
  /\ txPhase' = "finish"
  /\ txWait' = {s \in txAcked : Alive(s)}
  /\ Broadcast({s \in txAcked : Alive(s)}, "done")
  /\ UNCHANGED <<txId, txCfg, txTodo, txAcked, pc, reqId, idx, handlers,
                 orig, revertVars, hw, processVars>>

\* All answers to 'done' or 'abort' are in: the client's call returns.
Finish ==
  /\ txPhase = "finish"
  /\ txWait = {}
  /\ txPhase' = "idle"
  /\ UNCHANGED <<running, txId, txCfg, txTodo, txAcked, txWait, callbackVars,
                 revertVars, hw, processVars>>

\* The client's timeout expires while a server handles 'change'.  sysrepo
\* issues no event; the server's change_cb() runs on.
ClientTimeout ==
  /\ txPhase = "change"
  /\ txWait # {}
  /\ txPhase' = "idle"
  /\ txTodo' = {}
  /\ txWait' = {}
  /\ UNCHANGED <<running, txId, txCfg, txAcked, callbackVars, revertVars, hw,
                 processVars>>

\* The transaction that the event of id belongs to is still waiting for s.
Awaited(s, id) == txPhase # "idle" /\ txId = id /\ s \in txWait

\* change_cb() of s returns for the event id.  An answer nobody waits for is
\* dropped.  rest[s] are the events left in the inbox of s.
Accept(s, id, rest) ==
  /\ inbox' = [inbox EXCEPT ![s] = rest]
  /\ IF Awaited(s, id)
     THEN /\ txWait' = txWait \ {s}
          /\ txAcked' = IF txPhase = "change" THEN txAcked \cup {s} ELSE txAcked
     ELSE UNCHANGED <<txWait, txAcked>>
  /\ UNCHANGED <<running, txId, txPhase, txCfg, txTodo>>

\* change_cb() of s raises.  In the change phase the servers that accepted
\* get 'abort'; an error in answer to 'done' or 'abort' is ignored.
Refuse(s, id, rest) ==
  LET A == {t \in txAcked \ {s} : Alive(t)}
  IN IF Awaited(s, id) /\ txPhase = "change"
     THEN /\ txPhase' = "finish"
          /\ txTodo' = {}
          /\ txWait' = A
          /\ inbox' = [t \in Server |->
                IF t = s THEN rest
                ELSE IF t \in A
                THEN Append(inbox[t], [ev |-> "abort", id |-> txId, chg |-> <<>>])
                ELSE inbox[t]]
          /\ UNCHANGED <<running, txId, txCfg, txAcked>>
     ELSE /\ inbox' = [inbox EXCEPT ![s] = rest]
          /\ txWait' = IF Awaited(s, id) THEN txWait \ {s} ELSE txWait
          /\ UNCHANGED <<running, txId, txPhase, txCfg, txTodo, txAcked>>

-----------------------------------------------------------------------------
(* change_cb(): one callback at a time, under self.lock.                   *)

\* The lock is free and the first event of s waits for it.
Takes(s, evs) ==
  /\ Alive(s)
  /\ pc[s] = "idle"
  /\ inbox[s] # <<>>
  /\ Head(inbox[s]).ev \in evs

\* 'change' while handlers of an earlier transaction are stored.
Busy(s) ==
  /\ Takes(s, {"change"})
  /\ cur[s] # 0
  /\ UNCHANGED <<pc, reqId, idx, handlers, orig, revertVars, hw, processVars>>

\* Mutant: it returns instead of raising.
RejectBusyReturns(s) == Busy(s) /\ Accept(s, Head(inbox[s]).id, Tail(inbox[s]))

RejectBusy(s) == Busy(s) /\ Refuse(s, Head(inbox[s]).id, Tail(inbox[s]))

\* 'change': pre(), the construction of a handler or validate() raises, or a
\* change has no handler.  Nothing outside the callback has changed yet.
ChangeRefused(s) ==
  /\ Takes(s, {"change"})
  /\ cur[s] = 0
  /\ Refuse(s, Head(inbox[s]).id, Tail(inbox[s]))
  /\ UNCHANGED <<pc, reqId, idx, handlers, orig, revertVars, hw, processVars>>

\* The handlers of the first event are constructed, pass validate() and are
\* about to be applied.
StartHandlers(s) ==
  /\ ~Refused(Head(inbox[s]).chg)
  /\ pc' = [pc EXCEPT ![s] = "apply"]
  /\ reqId' = [reqId EXCEPT ![s] = Head(inbox[s]).id]
  /\ idx' = [idx EXCEPT ![s] = 1]
  /\ handlers' = [handlers EXCEPT ![s] = Head(inbox[s]).chg]
  /\ inbox' = [inbox EXCEPT ![s] = Tail(@)]
  /\ UNCHANGED <<sysrepoVars, orig, revertVars, hw, processVars>>

\* Mutant: the test for stored handlers is missing.
ChangeBeginUnchecked(s) == Takes(s, {"change"}) /\ StartHandlers(s)

\* 'change' with no handlers stored.
ChangeBegin(s) == Takes(s, {"change"}) /\ cur[s] = 0 /\ StartHandlers(s)

\* apply() of the next handler is called.
Applying(s) ==
  /\ Alive(s)
  /\ pc[s] = "apply"
  /\ idx[s] \in DOMAIN handlers[s]
  /\ handlers[s][idx[s]].key \in Handled

\* The next handler writes its value and keeps saved for revert().
ApplyHandler(s, saved) ==
  LET h == handlers[s][idx[s]]
  IN /\ orig' = [orig EXCEPT ![s][h.key] = saved]
     /\ hw' = [hw EXCEPT ![s][h.key] = Effective(h.val)]
     /\ idx' = [idx EXCEPT ![s] = @ + 1]
     /\ UNCHANGED <<sysrepoVars, inbox, pc, reqId, handlers, revertVars,
                    processVars>>

\* Mutant: the handler reads original_value after it has written its own.
ApplyOkSavesLate(s) ==
  Applying(s) /\ ApplyHandler(s, Effective(handlers[s][idx[s]].val))

\* apply() succeeds: it has saved the device's value before it wrote its own.
ApplyOk(s) == Applying(s) /\ ApplyHandler(s, hw[s][handlers[s][idx[s]].key])

\* On to the next handler.
Advance(s) ==
  /\ idx' = [idx EXCEPT ![s] = @ + 1]
  /\ UNCHANGED <<sysrepoVars, inbox, pc, reqId, handlers, orig, revertVars,
                 hw, processVars>>

\* A 'deleted' change of an unsupported leaf has no handler.  It stays in the
\* list here, but touches neither the device nor orig, so that reverting it
\* is no step of the device either.
SkipDeleted(s) ==
  /\ Alive(s)
  /\ pc[s] = "apply"
  /\ idx[s] \in DOMAIN handlers[s]
  /\ handlers[s][idx[s]].key \in Unsupported
  /\ Advance(s)

\* The handlers up to i are to be reverted, last first.
RollbackFrom(s, i) ==
  /\ pc' = [pc EXCEPT ![s] = "rollback"]
  /\ idx' = [idx EXCEPT ![s] = i]
  /\ UNCHANGED <<sysrepoVars, inbox, reqId, handlers, orig, revertVars, hw,
                 processVars>>

\* Mutants: the rollback misses the last applied handler; the exception of
\* apply() is swallowed.
ApplyRaisesShort(s) ==
  Applying(s) /\ RollbackFrom(s, IF idx[s] > 1 THEN idx[s] - 2 ELSE 0)
ApplyRaisesSwallowed(s) == Applying(s) /\ Advance(s)

\* apply() raises: the handlers before it are reverted.
ApplyRaises(s) == Applying(s) /\ RollbackFrom(s, idx[s] - 1)

\* The device of s once handler i has been reverted.
Reverted(s, i) == [hw EXCEPT ![s][handlers[s][i].key] =
                                  orig[s][handlers[s][i].key]]

\* The device of s once the handlers after m up to n have been reverted.
RevertedAfter(s, m, n) ==
  [hw EXCEPT ![s] =
     [k \in Key |-> IF \E i \in m+1..n : handlers[s][i].key = k
                    THEN orig[s][k] ELSE hw[s][k]]]

\* revert() of the next handler, in the rollback of a failed 'change' or in
\* the handling of 'abort'.
RevertStep(s) ==
  /\ Alive(s)
  /\ pc[s] \in {"rollback", "abort"}
  /\ idx[s] > 0
  /\ hw' = Reverted(s, idx[s])
  /\ idx' = [idx EXCEPT ![s] = @ - 1]
  /\ UNCHANGED <<sysrepoVars, inbox, pc, reqId, handlers, orig, revertVars,
                 processVars>>

\* revert() raises: the callback ends there.
RevertRaises(s) ==
  /\ RevertMayRaise
  /\ Alive(s)
  /\ pc[s] \in {"rollback", "abort"}
  /\ idx[s] > 0
  /\ pc' = [pc EXCEPT ![s] = "idle"]
  /\ Refuse(s, reqId[s], inbox[s])
  /\ UNCHANGED <<reqId, idx, handlers, orig, revertVars, hw, processVars>>

\* The rollback is complete: the exception of apply() is raised again.
RollbackEnd(s) ==
  /\ Alive(s)
  /\ pc[s] = "rollback"
  /\ idx[s] = 0
  /\ pc' = [pc EXCEPT ![s] = "idle"]
  /\ Refuse(s, reqId[s], inbox[s])
  /\ UNCHANGED <<reqId, idx, handlers, orig, revertVars, hw, processVars>>

\* change_cb() returns with the handlers of transaction id stored, or none.
EndChange(s, id, task) ==
  /\ Alive(s)
  /\ pc[s] = "apply"
  /\ idx[s] = Len(handlers[s]) + 1
  /\ pc' = [pc EXCEPT ![s] = "idle"]
  /\ cur' = [cur EXCEPT ![s] = id]
  /\ timer' = [timer EXCEPT ![s] = task]
  /\ Accept(s, reqId[s], inbox[s])
  /\ UNCHANGED <<reqId, idx, handlers, orig, tidx, hw, processVars>>

\* All handlers applied and post() returned: the handlers are stored and the
\* revert task is created.
ChangeEnd(s) == EndChange(s, reqId[s], "sleep")

\* post() raises: nothing is reverted and nothing is stored.
PostRaises(s) ==
  /\ PostMayRaise
  /\ Alive(s)
  /\ pc[s] = "apply"
  /\ idx[s] = Len(handlers[s]) + 1
  /\ pc' = [pc EXCEPT ![s] = "idle"]
  /\ Refuse(s, reqId[s], inbox[s])
  /\ UNCHANGED <<reqId, idx, handlers, orig, revertVars, hw, processVars>>

\* 'done' or 'abort' with no handlers stored: the server stops.
FinishNull(s) ==
  /\ Takes(s, {"done", "abort"})
  /\ cur[s] = 0
  /\ status' = [status EXCEPT ![s] = "fatal"]
  /\ fault' = [fault EXCEPT ![s] = "null"]
  /\ Refuse(s, Head(inbox[s]).id, Tail(inbox[s]))
  /\ UNCHANGED <<pc, reqId, idx, handlers, orig, revertVars, hw, crashes>>

\* revert_task.cancel() and await revert_task.  A sleeping task just ends.
\* One that is reverting is interrupted in the revert() of handler tidx,
\* whose device call may or may not take effect, unless that revert()
\* swallows the cancellation, as cancel_notification_task() does, and the
\* task runs to its end.
CancelRevertTask(s) ==
  /\ timer[s] \in {"sleep", "revert", "off"}
  /\ timer' = [timer EXCEPT ![s] = "off"]
  /\ IF timer[s] = "revert"
     THEN \E m \in {tidx[s], tidx[s] - 1, 0} \cap Nat :
            hw' = RevertedAfter(s, m, tidx[s])
     ELSE hw' = hw

\* 'done' or 'abort' with handlers stored: the revert task is cancelled first.
\* Those of another transaction stop the server; otherwise 'abort' goes on to
\* revert every stored handler and 'done' discards them.
FinishEvent(s) ==
  /\ Takes(s, {"done", "abort"})
  /\ cur[s] # 0
  /\ CancelRevertTask(s)
  /\ LET e == Head(inbox[s])
     IN IF cur[s] # e.id
        THEN /\ status' = [status EXCEPT ![s] = "fatal"]
             /\ fault' = [fault EXCEPT ![s] = "id"]
             /\ Refuse(s, e.id, Tail(inbox[s]))
             /\ UNCHANGED <<pc, reqId, idx, cur>>
        ELSE IF e.ev = "abort"
        THEN /\ pc' = [pc EXCEPT ![s] = "abort"]
             /\ reqId' = [reqId EXCEPT ![s] = e.id]
             /\ idx' = [idx EXCEPT ![s] = Len(handlers[s])]
             /\ inbox' = [inbox EXCEPT ![s] = Tail(@)]
             /\ UNCHANGED <<sysrepoVars, cur, status, fault>>
        ELSE /\ cur' = [cur EXCEPT ![s] = 0]
             /\ Accept(s, e.id, Tail(inbox[s]))
             /\ UNCHANGED <<pc, reqId, idx, status, fault>>
  /\ UNCHANGED <<handlers, orig, tidx, crashes>>

\* Every handler is reverted: 'abort' discards them.
AbortEnd(s) ==
  /\ Alive(s)
  /\ pc[s] = "abort"
  /\ idx[s] = 0
  /\ pc' = [pc EXCEPT ![s] = "idle"]
  /\ cur' = [cur EXCEPT ![s] = 0]
  /\ Accept(s, reqId[s], inbox[s])
  /\ UNCHANGED <<reqId, idx, handlers, orig, timer, tidx, hw, processVars>>

\* The stored revert task died of an exception: awaiting it raises that
\* exception out of change_cb() and the handlers stay stored.
FinishRaises(s) ==
  /\ Takes(s, {"done", "abort"})
  /\ cur[s] # 0
  /\ timer[s] = "raised"
  /\ Refuse(s, Head(inbox[s]).id, Tail(inbox[s]))
  /\ UNCHANGED <<pc, reqId, idx, handlers, orig, revertVars, hw, processVars>>

-----------------------------------------------------------------------------
(* do_revert(): a task of its own that does not take self.lock.            *)

\* sleep(revert_timeout) ends.  Without SlowPeers the rest of a transaction
\* takes less than revert_timeout, so a live transaction is never cut short.
TimerFires(s) ==
  /\ Alive(s)
  /\ timer[s] = "sleep"
  /\ SlowPeers \/ ~(txPhase # "idle" /\ txId = cur[s])
  /\ timer' = [timer EXCEPT ![s] = "revert"]
  /\ tidx' = [tidx EXCEPT ![s] = Len(handlers[s])]
  /\ UNCHANGED <<sysrepoVars, callbackVars, cur, hw, processVars>>

TimerReverts(s) ==
  /\ Alive(s)
  /\ timer[s] = "revert"
  /\ tidx[s] > 0
  /\ hw' = Reverted(s, tidx[s])
  /\ tidx' = [tidx EXCEPT ![s] = @ - 1]
  /\ UNCHANGED <<sysrepoVars, callbackVars, cur, timer, processVars>>

TimerRevertRaises(s) ==
  /\ RevertMayRaise
  /\ Alive(s)
  /\ timer[s] = "revert"
  /\ tidx[s] > 0
  /\ timer' = [timer EXCEPT ![s] = "raised"]
  /\ UNCHANGED <<sysrepoVars, callbackVars, cur, tidx, hw, processVars>>

\* do_revert() returns and leaves the handlers of transaction id stored.
EndRevert(s, id) ==
  /\ Alive(s)
  /\ timer[s] = "revert"
  /\ tidx[s] = 0
  /\ timer' = [timer EXCEPT ![s] = "off"]
  /\ cur' = [cur EXCEPT ![s] = id]
  /\ UNCHANGED <<sysrepoVars, callbackVars, tidx, hw, processVars>>

\* Mutant: do_revert() does not discard the handlers.
TimerEndsKeeps(s) == EndRevert(s, cur[s])

\* Every handler is reverted: do_revert() discards them.
TimerEnds(s) == EndRevert(s, 0)

-----------------------------------------------------------------------------
(* The process: stop, crash and restart.                                   *)

\* The process of s ends: everything it kept in memory is lost, and sysrepo
\* no longer waits for its answer to 'done' or 'abort'.
ProcessEnds(s) ==
  /\ status' = [status EXCEPT ![s] = "down"]
  /\ inbox' = [inbox EXCEPT ![s] = <<>>]
  /\ pc' = [pc EXCEPT ![s] = "idle"]
  /\ handlers' = [handlers EXCEPT ![s] = <<>>]
  /\ cur' = [cur EXCEPT ![s] = 0]
  /\ timer' = [timer EXCEPT ![s] = "off"]
  /\ txTodo' = txTodo \ {s}
  /\ txWait' = IF txPhase = "finish" THEN txWait \ {s} ELSE txWait
  /\ UNCHANGED <<running, txId, txPhase, txCfg, txAcked, reqId, idx, orig,
                 tidx, hw, fault>>

\* _stop_event was set: main() stops the server and the process exits.
Stop(s) ==
  /\ status[s] = "fatal"
  /\ ProcessEnds(s)
  /\ UNCHANGED crashes

\* The process is killed.
Crash(s) ==
  /\ crashes < MaxCrash
  /\ status[s] # "down"
  /\ ProcessEnds(s)
  /\ crashes' = crashes + 1

\* What start() leaves on the device: the configured values, and the default
\* of the leaves it writes in any case (admin-status of a TAI module; mtu, fec,
\* admin-status and auto-negotiate of a SONiC interface).  The device keeps
\* what it holds in the other leaves.
Reconciled(s) ==
  [k \in Key |-> IF k \in Handled /\ (running[s][k] # Absent \/ k \in Defaulted)
                 THEN Effective(running[s][k]) ELSE hw[s][k]]

\* The container is restarted; start() reads the running datastore and brings
\* the device in line with it ...
Reconcile(s) ==
  /\ status[s] = "down"
  /\ ~ConfigDuringStart =>
       txPhase # "change" \/ txCfg[s] = <<>> \/ s \in txAcked
  /\ status' = [status EXCEPT ![s] = "starting"]
  /\ hw' = [hw EXCEPT ![s] = Reconciled(s)]
  /\ UNCHANGED <<sysrepoVars, callbackVars, revertVars, fault, crashes>>

\* ... and then subscribes to the model's changes.
Subscribe(s) ==
  /\ status[s] = "starting"
  /\ status' = [status EXCEPT ![s] = "up"]
  /\ UNCHANGED <<sysrepoVars, callbackVars, revertVars, hw, fault, crashes>>

-----------------------------------------------------------------------------
Init ==
  /\ running = [s \in Server |-> [k \in Key |-> Absent]]
  /\ txId = 0
  /\ txPhase = "idle"
  /\ txCfg = [s \in Server |-> <<>>]
  /\ txTodo = {}
  /\ txAcked = {}
  /\ txWait = {}
  /\ inbox = [s \in Server |-> <<>>]
  /\ pc = [s \in Server |-> "idle"]
  /\ reqId = [s \in Server |-> 0]
  /\ idx = [s \in Server |-> 0]
  /\ handlers = [s \in Server |-> <<>>]
  /\ orig = [s \in Server |-> [k \in Key |-> Default]]
  /\ cur = [s \in Server |-> 0]
  /\ timer = [s \in Server |-> "off"]
  /\ tidx = [s \in Server |-> 0]
  /\ hw = [s \in Server |-> [k \in Key |-> Default]]
  /\ status = [s \in Server |-> "up"]
  /\ fault = [s \in Server |-> "none"]
  /\ crashes = 0

SysrepoStep == Begin \/ (\E s \in Server : NotifyChange(s)) \/ Commit \/ Finish

CallbackStep(s) ==
  \/ RejectBusy(s) \/ ChangeRefused(s) \/ ChangeBegin(s)
  \/ ApplyOk(s) \/ SkipDeleted(s)
  \/ ApplyRaises(s)
  \/ RevertStep(s) \/ RevertRaises(s) \/ RollbackEnd(s)
  \/ ChangeEnd(s) \/ PostRaises(s)
  \/ FinishNull(s) \/ FinishEvent(s) \/ AbortEnd(s) \/ FinishRaises(s)

TimerStep(s) ==
  TimerFires(s) \/ TimerReverts(s) \/ TimerRevertRaises(s) \/ TimerEnds(s)

ProcessStep(s) == Stop(s) \/ Reconcile(s) \/ Subscribe(s)

Next ==
  \/ SysrepoStep
  \/ ClientTimeout
  \/ \E s \in Server : \/ CallbackStep(s)
                       \/ TimerStep(s)
                       \/ ProcessStep(s)
                       \/ Crash(s)

Spec == Init /\ [][Next]_vars

\* The event loop keeps running its ready callbacks and timers, sysrepo keeps
\* a transaction moving and the container is restarted.  Clients and
\* crashes are not obliged to do anything.  A client's
\* timeout_ms is finite, so a call that is never answered does end.
Fairness ==
  /\ WF_vars(ClientTimeout)
  /\ WF_vars(\E s \in Server : NotifyChange(s))
  /\ WF_vars(Commit)
  /\ WF_vars(Finish)
  /\ \A s \in Server : /\ WF_vars(CallbackStep(s))
                       /\ WF_vars(TimerStep(s))
                       /\ WF_vars(ProcessStep(s))

FairSpec == Spec /\ Fairness
=============================================================================
