--------------------------- MODULE ServerBaseProps ---------------------------
(***************************************************************************)
(* What the change-handling engine promises.                               *)
(***************************************************************************)
EXTENDS ServerBase

\* Shapes of the state.
TypeOK ==
  /\ running \in [Server -> Config]
  /\ txId \in 0..MaxTx
  /\ txPhase \in {"idle", "change", "finish"}
  /\ txPhase # "idle" => txId > 0
  /\ txCfg \in [Server -> Inputs \cup {<<>>}]
  /\ txTodo \subseteq Server /\ txAcked \subseteq Server /\ txWait \subseteq Server
  /\ inbox \in [Server -> Seq(Event)]
  /\ pc \in [Server -> {"idle", "apply", "rollback", "abort"}]
  /\ reqId \in [Server -> 0..MaxTx]
  /\ idx \in [Server -> Nat]
  /\ handlers \in [Server -> Inputs \cup {<<>>}]
  /\ orig \in [Server -> [Key -> Value]]
  /\ cur \in [Server -> 0..MaxTx]
  /\ timer \in [Server -> {"off", "sleep", "revert", "raised"}]
  /\ tidx \in [Server -> Nat]
  /\ hw \in [Server -> [Key -> Value]]
  /\ status \in [Server -> {"up", "fatal", "down", "starting"}]
  /\ fault \in [Server -> {"none", "null", "id"}]
  /\ crashes \in 0..MaxCrash

\* The device of s holds what the datastore says.
InSync(s) == \A k \in Handled : hw[s][k] = Effective(running[s][k])

\* Server s is up, handles no event, has none waiting and stores no handlers.
Quiet(s) ==
  /\ status[s] = "up"
  /\ pc[s] = "idle" /\ inbox[s] = <<>> /\ cur[s] = 0

\* Whatever mix of failures, aborts and client timeouts a server went
\* through, once it has nothing left to do its device holds exactly the
\* running configuration (change_cb and do_revert, core.py:121-200).
QuietServerInSync == \A s \in Server : Quiet(s) => InSync(s)

\* 'done' and 'abort' never meet the handlers of another transaction: the
\* test "id != req_id" of change_cb (core.py:142) never succeeds.
NoIdMismatch == \A s \in Server : fault[s] # "id"

\* A transaction is only written to the running datastore when every server
\* that accepted it and has not crashed since has its changes on the device
\* (core.py:182-200).
CommitOnlyApplied ==
  [][running' # running =>
       \A s \in txAcked : Alive(s) /\ (crashes = 0 \/ cur[s] = txId) =>
         \A i \in DOMAIN txCfg[s] : txCfg[s][i].key \in Handled =>
           hw[s][txCfg[s][i].key] = Effective(txCfg[s][i].val)]_vars

\* What the running datastore asks of the device of s, and what the device holds
\* as far as the engine is responsible for it.
Wanted(s) == [k \in Handled |-> Effective(running[s][k])]
Held(s) == [k \in Handled |-> hw[s][k]]

\* The engine implements AtomicConfig: seen from outside, whatever fails, is
\* aborted, times out or crashes, a server is busy or holds its configuration,
\* the datastore only changes under servers that are busy with it, and in the end
\* no server stays busy, so that stored handlers are discarded by 'done', 'abort'
\* or the revert task (change_cb and do_revert, core.py:121-200).
Abstract == INSTANCE AtomicConfig WITH
              Working <- <<>>,
              config <- [s \in Server |-> Wanted(s)],
              device <- [s \in Server |-> IF Quiet(s) THEN Held(s) ELSE <<>>]

ConfigIsAtomic == Abstract!Spec
SafelyAtomic == Abstract!Safe

-----------------------------------------------------------------------------
(* The invariant that the proofs rest on, in two layers.                   *)

\* Layer 1, true whatever the flags say: how the events, the callback and the
\* stored handlers of s relate to the transaction sysrepo is busy with.
ChangeOfTx(s) ==
  \/ \E i \in DOMAIN inbox[s] : inbox[s][i].ev = "change" /\ inbox[s][i].id = txId
  \/ pc[s] \in {"apply", "rollback"} /\ reqId[s] = txId

\* Events come in the order of their transactions, one per transaction.
EventOrder(s) ==
  /\ \A i \in DOMAIN inbox[s] :
       /\ inbox[s][i].id <= txId
       /\ inbox[s][i].id = txId => i = Len(inbox[s])
  /\ reqId[s] <= txId /\ cur[s] <= txId
  /\ pc[s] # "idle" => reqId[s] > 0
  /\ pc[s] # "idle" /\ reqId[s] = txId => inbox[s] = <<>>

\* A 'done' or 'abort' is the only event of s and its transaction waits for it.
FinishExpected(s) ==
  \A i \in DOMAIN inbox[s] : inbox[s][i].ev # "change" =>
    /\ Len(inbox[s]) = 1
    /\ inbox[s][i].id = txId
    /\ txPhase = "finish"
    /\ s \in txWait
    /\ pc[s] = "idle"
    /\ cur[s] \in {0, txId}

\* Where the current transaction stands with s.
ChangeProgress(s) ==
  /\ txPhase = "change" /\ s \in txTodo =>
       s \notin txAcked \cup txWait /\ ~ChangeOfTx(s) /\ cur[s] # txId
  /\ txPhase = "change" /\ s \in txAcked =>
       s \notin txWait /\ inbox[s] = <<>> /\ pc[s] = "idle" /\ cur[s] \in {0, txId}
  /\ txPhase = "change" /\ ChangeOfTx(s) => s \in txWait
  /\ txPhase = "change" /\ s \in txWait => \A t \in txWait : t = s
  /\ txPhase = "finish" => ~ChangeOfTx(s)

\* Which state the callback, the stored handlers and the task can be in.
CallbackState(s) ==
  /\ pc[s] \in {"apply", "rollback"} => cur[s] = 0
  /\ pc[s] = "abort" =>
       /\ cur[s] = reqId[s] /\ reqId[s] = txId
       /\ txPhase = "finish" /\ s \in txWait
       /\ timer[s] = "off"
  /\ cur[s] = 0 => timer[s] = "off"
  /\ ~Alive(s) => inbox[s] = <<>> /\ pc[s] = "idle" /\ cur[s] = 0 /\ s \notin txTodo

\* Events, callbacks and stored handlers of every server fit the current
\* transaction, whatever fails, crashes or is late (change_cb, core.py:121-200).
ProtocolInv ==
  \A s \in Server : /\ EventOrder(s)
                     /\ FinishExpected(s)
                     /\ ChangeProgress(s)
                     /\ CallbackState(s)

\* Layer 2, for a benign environment: what is on the device of s.
Benign ==
  /\ ~SlowPeers /\ ~RevertMayRaise /\ ~PostMayRaise /\ ~ConfigDuringStart
  /\ Handled \subseteq Defaulted

\* The first m handlers are applied and have saved the configured values; all
\* other leaves hold what is configured.
AppliedUpTo(s, m) ==
  /\ m \in 0..Len(handlers[s])
  /\ \A i \in 1..m : handlers[s][i].key \in Handled =>
       /\ hw[s][handlers[s][i].key] = Effective(handlers[s][i].val)
       /\ orig[s][handlers[s][i].key] = Effective(running[s][handlers[s][i].key])
  /\ \A k \in Handled : (\A i \in 1..m : handlers[s][i].key # k) =>
       hw[s][k] = Effective(running[s][k])

\* 'done' of the current transaction is on its way to s.
DoneComing(s) == \E i \in DOMAIN inbox[s] : inbox[s][i].ev = "done"

\* The changes that s handles for the current transaction are the client's.
OwnChanges(s) ==
  /\ \A i \in DOMAIN inbox[s] :
       inbox[s][i].ev = "change" /\ inbox[s][i].id = txId => inbox[s][i].chg = txCfg[s]
  /\ pc[s] # "idle" /\ reqId[s] = txId => handlers[s] = txCfg[s]
  /\ cur[s] # 0 /\ cur[s] = txId => handlers[s] = txCfg[s]

\* No transaction misses s, none that s accepted is left without an end.
NotMissed(s) ==
  /\ txPhase = "change" /\ txCfg[s] # <<>> /\ status[s] # "down" =>
       s \in txTodo \cup txWait \cup txAcked
  /\ status[s] = "up" /\ cur[s] # 0 /\ cur[s] = txId =>
       /\ txPhase = "change" => s \in txAcked
       /\ txPhase = "finish" =>
            pc[s] = "abort" \/ \E i \in DOMAIN inbox[s] : inbox[s][i].ev # "change"
  /\ status[s] = "up" /\ cur[s] # 0 /\ pc[s] = "idle" => timer[s] \in {"sleep", "revert"}
  /\ status[s] = "up" /\ timer[s] = "revert" => txPhase = "idle" \/ cur[s] # txId

DeviceState(s) ==
  /\ status[s] = "starting" => InSync(s)
  /\ status[s] = "up" =>
       /\ pc[s] = "apply" => idx[s] > 0 /\ AppliedUpTo(s, idx[s] - 1)
       /\ pc[s] \in {"rollback", "abort"} => AppliedUpTo(s, idx[s])
       /\ pc[s] = "idle" /\ cur[s] = 0 => InSync(s) \/ DoneComing(s)
       /\ pc[s] = "idle" /\ cur[s] # 0 /\ timer[s] = "sleep" =>
            IF DoneComing(s) THEN InSync(s) ELSE AppliedUpTo(s, Len(handlers[s]))
       /\ timer[s] = "revert" => AppliedUpTo(s, tidx[s])

\* At every point of a transaction the device of a server that is up holds the
\* configured values except for the leaves of the handlers applied and not yet
\* reverted (core.py:182-200).
DeviceInv ==
  \A s \in Server : OwnChanges(s) /\ NotMissed(s) /\ DeviceState(s)
=============================================================================
