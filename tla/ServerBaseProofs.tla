-------------------------- MODULE ServerBaseProofs --------------------------
(***************************************************************************)
(* The promises of the change-handling engine, proved for any set of       *)
(* servers, leaves, values and change lists and any number of              *)
(* transactions and crashes.                                               *)
(***************************************************************************)
EXTENDS ServerBaseProps, TLAPS

-----------------------------------------------------------------------------
(* Facts about the data.                                                   *)

\* A list of changes is a sequence of changes in which no leaf occurs twice.
LEMMA ChangeLists ==
  ASSUME NEW c \in Inputs \cup {<<>>}
  PROVE  /\ c \in Seq(Change)
         /\ Len(c) \in Nat /\ DOMAIN c = 1..Len(c)
         /\ \A i \in DOMAIN c : c[i].key \in Key /\ c[i].val \in Value \cup {Absent}
         /\ \A i, j \in DOMAIN c : c[i].key = c[j].key => i = j
<1>1. c \in Seq(Change) /\ \A i, j \in DOMAIN c : c[i].key = c[j].key => i = j
  <2>1. CASE c = <<>>
    BY <2>1
  <2>2. CASE c \in Inputs
    BY <2>2, ConstantsAssumption DEF IsChangeList
  <2> QED BY <2>1, <2>2
<1>2. \A i \in DOMAIN c : c[i] \in Change
  BY <1>1
<1> QED BY <1>1, <1>2 DEF Change

\* What a handler writes to the device is a value.
LEMMA EffectiveType ==
  ASSUME NEW v \in Value \cup {Absent}
  PROVE  Effective(v) \in Value
BY ConstantsAssumption DEF Effective

\* Transaction ids, and 0 for "none", are in range.
LEMMA Ids == 0 \in 0..MaxTx /\ 1..MaxTx \subseteq 0..MaxTx
BY ConstantsAssumption

\* Reverting a handler, or the rest of the handlers, writes values only.
LEMMA RevertType ==
  ASSUME TypeOK, NEW s \in Server
  PROVE  /\ \A i \in Nat : Reverted(s, i) \in [Server -> [Key -> Value]]
         /\ \A m, n \in Nat : RevertedAfter(s, m, n) \in [Server -> [Key -> Value]]
<1>1. hw \in [Server -> [Key -> Value]] /\ orig[s] \in [Key -> Value]
  BY DEF TypeOK
<1>2. \A k : [hw[s] EXCEPT ![k] = orig[s][k]] \in [Key -> Value]
  BY <1>1
<1>3. ASSUME NEW i \in Nat PROVE Reverted(s, i) \in [Server -> [Key -> Value]]
  BY <1>1, <1>2 DEF Reverted
<1>4. ASSUME NEW m \in Nat, NEW n \in Nat
      PROVE  RevertedAfter(s, m, n) \in [Server -> [Key -> Value]]
  <2>1. [k \in Key |-> IF \E i \in m+1..n : handlers[s][i].key = k
                       THEN orig[s][k] ELSE hw[s][k]] \in [Key -> Value]
    BY <1>1
  <2> QED BY <1>1, <2>1 DEF RevertedAfter
<1> QED BY <1>3, <1>4

\* The datastore after a transaction is a configuration.
LEMMA UpdatedType ==
  ASSUME NEW c \in Inputs \cup {<<>>}, NEW cfg \in Config
  PROVE  Updated(cfg, c) \in Config
<1> SUFFICES ASSUME NEW k \in Key, NEW j \in DOMAIN c, c[j].key = k
             PROVE  c[CHOOSE i \in DOMAIN c : c[i].key = k].val
                      \in Value \cup {Absent}
  BY DEF Updated, Config
<1> QED BY ChangeLists

-----------------------------------------------------------------------------
(* The type invariant.                                                     *)

\* Every event that is left in an inbox after an answer is an event.
LEMMA TailType ==
  ASSUME NEW q \in Seq(Event), q # <<>>
  PROVE  Tail(q) \in Seq(Event) /\ Head(q) \in Event
OBVIOUS

\* An answer of a server changes sysrepo's state within its type.
LEMMA AnswerType ==
  ASSUME TypeOK, NEW s \in Server, NEW id, NEW rest \in Seq(Event),
         Accept(s, id, rest) \/ Refuse(s, id, rest)
  PROVE  /\ txPhase' \in {"idle", "change", "finish"}
         /\ txPhase' # "idle" => txPhase # "idle"
         /\ txTodo' \subseteq Server
         /\ txAcked' \subseteq Server
         /\ txWait' \subseteq Server
         /\ inbox' \in [Server -> Seq(Event)]
         /\ UNCHANGED <<running, txId, txCfg>>
<1>1. CASE Accept(s, id, rest)
  BY <1>1 DEF Accept, TypeOK
<1>2. CASE Refuse(s, id, rest)
  <2>1. CASE Awaited(s, id) /\ txPhase = "change"
    <3>1. [ev |-> "abort", id |-> txId, chg |-> <<>>] \in Event
      BY <2>1 DEF Event, TypeOK
    <3>2. \A t \in Server : Append(inbox[t], [ev |-> "abort", id |-> txId, chg |-> <<>>]) \in Seq(Event)
      BY <3>1 DEF TypeOK
    <3>3. /\ txPhase' = "finish" /\ txTodo' = {} /\ txWait' \subseteq txAcked
          /\ UNCHANGED <<running, txId, txCfg, txAcked>>
      BY <1>2, <2>1 DEF Refuse
    <3>4. inbox' \in [Server -> Seq(Event)]
      <4>1. inbox \in [Server -> Seq(Event)]
        BY DEF TypeOK
      <4> QED BY <1>2, <2>1, <3>2, <4>1 DEF Refuse
    <3> QED BY <2>1, <3>3, <3>4 DEF TypeOK
  <2>2. CASE ~(Awaited(s, id) /\ txPhase = "change")
    BY <1>2, <2>2 DEF Refuse, TypeOK
  <2> QED BY <2>1, <2>2
<1> QED BY <1>1, <1>2

LEMMA TypeStep == TypeOK /\ [Next]_vars => TypeOK'
<1> SUFFICES ASSUME TypeOK, [Next]_vars PROVE TypeOK'
  OBVIOUS
<1>a. 0 \in 0..MaxTx /\ \A i \in 1..MaxTx : i \in 0..MaxTx
  BY Ids
<1>b. \A s \in Server, i \in Nat : Reverted(s, i) \in [Server -> [Key -> Value]]
  BY RevertType
<1>c. \A s \in Server, m, n \in Nat : RevertedAfter(s, m, n) \in [Server -> [Key -> Value]]
  BY RevertType
<1> USE DEF TypeOK
<1>1. CASE UNCHANGED vars
  BY <1>1 DEF vars, sysrepoVars, callbackVars, revertVars, processVars
<1>2. CASE Begin
  BY <1>2, ConstantsAssumption DEF Begin, callbackVars, revertVars, processVars
<1>3. ASSUME NEW s \in Server, NotifyChange(s) PROVE TypeOK'
  <2>1. [ev |-> "change", id |-> txId, chg |-> txCfg[s]] \in Event
    BY <1>3 DEF Event, NotifyChange
  <2> QED BY <1>3, <2>1 DEF NotifyChange, revertVars, processVars
<1>4. CASE Commit
  <2>1. [ev |-> "done", id |-> txId, chg |-> <<>>] \in Event
    BY <1>4 DEF Event, Commit
  <2>2. \A s \in Server : Append(inbox[s], [ev |-> "done", id |-> txId, chg |-> <<>>]) \in Seq(Event)
    BY <2>1
  <2>3. running' \in [Server -> Config]
    BY <1>4, UpdatedType DEF Commit
  <2> QED BY <1>4, <2>2, <2>3 DEF Commit, Broadcast, revertVars, processVars
<1>5. CASE Finish \/ ClientTimeout
  BY <1>5 DEF Finish, ClientTimeout, callbackVars, revertVars, processVars
<1>6. ASSUME NEW s \in Server, CallbackStep(s) PROVE TypeOK'
  <2> USE DEF callbackVars, sysrepoVars, revertVars, processVars
  <2>0. inbox[s] # <<>> =>
          /\ Tail(inbox[s]) \in Seq(Event)
          /\ Head(inbox[s]).id \in 1..MaxTx
          /\ Head(inbox[s]).chg \in Inputs \cup {<<>>}
    BY TailType DEF Event
  <2>1. CASE RejectBusy(s) \/ ChangeRefused(s)
    BY <2>0, <2>1, AnswerType DEF RejectBusy, Busy, ChangeRefused, Takes
  <2>2. CASE ChangeBegin(s)
    BY <2>0, <2>2, <1>a DEF ChangeBegin, StartHandlers, Takes
  <2>3. CASE ApplyOk(s)
    <3>1. handlers[s][idx[s]].key \in Key /\ Effective(handlers[s][idx[s]].val) \in Value
      BY <2>3, ChangeLists, EffectiveType DEF ApplyOk, Applying, ApplyHandler
    <3> QED BY <2>3, <3>1 DEF ApplyOk, Applying, ApplyHandler
  <2>4. CASE SkipDeleted(s)
    BY <2>4 DEF SkipDeleted, Advance
  <2>5. CASE ApplyRaises(s)
    <3>0. handlers[s] \in Inputs \cup {<<>>}
      OBVIOUS
    <3>1. idx[s] > 0
      BY <2>5, <3>0, ChangeLists DEF ApplyRaises, Applying, RollbackFrom
    <3> QED BY <2>5, <3>1 DEF ApplyRaises, Applying, RollbackFrom
  <2>6. CASE RevertStep(s)
    <3>1. idx[s] \in Nat /\ idx[s] > 0 /\ idx' = [idx EXCEPT ![s] = idx[s] - 1]
      BY <2>6 DEF RevertStep
    <3>2. hw' \in [Server -> [Key -> Value]]
      BY <2>6, <3>1, <1>b DEF RevertStep
    <3>3. UNCHANGED <<sysrepoVars, inbox, pc, reqId, handlers, orig, revertVars, processVars>>
      BY <2>6 DEF RevertStep
    <3>4. idx' \in [Server -> Nat]
      BY <3>1
    <3> QED BY <3>2, <3>3, <3>4
  <2>7. CASE RevertRaises(s) \/ RollbackEnd(s) \/ PostRaises(s)
    <3>1. /\ Refuse(s, reqId[s], inbox[s])
          /\ pc' = [pc EXCEPT ![s] = "idle"]
          /\ UNCHANGED <<reqId, idx, handlers, orig, revertVars, hw, processVars>>
      BY <2>7 DEF RevertRaises, RollbackEnd, PostRaises
    <3> QED BY <3>1, AnswerType
  <2>8. CASE ChangeEnd(s)
    BY <2>8, AnswerType DEF ChangeEnd, EndChange
  <2>9. CASE FinishNull(s)
    BY <2>0, <2>9, AnswerType DEF FinishNull, Takes
  <2>10. CASE FinishEvent(s)
    <3>1. /\ timer' \in [Server -> {"off", "sleep", "revert", "raised"}]
          /\ hw' \in [Server -> [Key -> Value]]
      <4>1. CancelRevertTask(s)
        BY <2>10 DEF FinishEvent
      <4>2. CASE timer[s] = "revert"
        <5>1. PICK m \in {tidx[s], tidx[s] - 1, 0} \cap Nat :
                     hw' = RevertedAfter(s, m, tidx[s])
          BY <4>1, <4>2 DEF CancelRevertTask
        <5> QED BY <4>1, <5>1, <1>c DEF CancelRevertTask
      <4>3. CASE timer[s] # "revert"
        BY <4>1, <4>3 DEF CancelRevertTask
      <4> QED BY <4>2, <4>3
    <3>2. Len(handlers[s]) \in Nat
      BY ChangeLists
    <3>3. CASE cur[s] # Head(inbox[s]).id
      <4>1. /\ status' = [status EXCEPT ![s] = "fatal"]
            /\ fault' = [fault EXCEPT ![s] = "id"]
            /\ Refuse(s, Head(inbox[s]).id, Tail(inbox[s]))
            /\ UNCHANGED <<pc, reqId, idx, cur, handlers, orig, tidx, crashes>>
            /\ inbox[s] # <<>>
        BY <2>10, <3>3 DEF FinishEvent, Takes
      <4> QED BY <2>0, <3>1, <4>1, AnswerType
    <3>4. CASE cur[s] = Head(inbox[s]).id /\ Head(inbox[s]).ev = "abort"
      <4>1. /\ pc' = [pc EXCEPT ![s] = "abort"]
            /\ reqId' = [reqId EXCEPT ![s] = Head(inbox[s]).id]
            /\ idx' = [idx EXCEPT ![s] = Len(handlers[s])]
            /\ inbox' = [inbox EXCEPT ![s] = Tail(@)]
            /\ UNCHANGED <<sysrepoVars, cur, status, fault, handlers, orig, tidx, crashes>>
            /\ inbox[s] # <<>>
        BY <2>10, <3>4 DEF FinishEvent, Takes
      <4> QED BY <2>0, <3>1, <3>2, <4>1, <1>a
    <3>5. CASE cur[s] = Head(inbox[s]).id /\ Head(inbox[s]).ev # "abort"
      <4>1. /\ cur' = [cur EXCEPT ![s] = 0]
            /\ Accept(s, Head(inbox[s]).id, Tail(inbox[s]))
            /\ UNCHANGED <<pc, reqId, idx, status, fault, handlers, orig, tidx, crashes>>
            /\ inbox[s] # <<>>
        BY <2>10, <3>5 DEF FinishEvent, Takes
      <4> QED BY <2>0, <3>1, <4>1, AnswerType, <1>a
    <3> QED BY <3>3, <3>4, <3>5
  <2>11. CASE AbortEnd(s)
    BY <2>11, AnswerType, <1>a DEF AbortEnd
  <2>12. CASE FinishRaises(s)
    BY <2>0, <2>12, AnswerType DEF FinishRaises, Takes
  <2> QED BY <1>6, <2>1, <2>2, <2>3, <2>4, <2>5, <2>6, <2>7, <2>8, <2>9,
             <2>10, <2>11, <2>12 DEF CallbackStep
<1>7. ASSUME NEW s \in Server, TimerStep(s) PROVE TypeOK'
  <2> USE DEF callbackVars, sysrepoVars, processVars
  <2>1. CASE TimerFires(s)
    BY <2>1, ChangeLists DEF TimerFires
  <2>2. CASE TimerReverts(s)
    BY <2>2, <1>b DEF TimerReverts
  <2>3. CASE TimerRevertRaises(s)
    BY <2>3 DEF TimerRevertRaises
  <2>4. CASE TimerEnds(s)
    BY <2>4, <1>a DEF TimerEnds, EndRevert
  <2> QED BY <1>7, <2>1, <2>2, <2>3, <2>4 DEF TimerStep
<1>8. ASSUME NEW s \in Server, ProcessStep(s) \/ Crash(s) PROVE TypeOK'
  <2> USE DEF callbackVars, sysrepoVars, revertVars
  <2>1. CASE Stop(s) \/ Crash(s)
    <3>1. ProcessEnds(s) /\ crashes' \in 0..MaxCrash
      BY <2>1, ConstantsAssumption DEF Stop, Crash
    <3>2. /\ inbox' \in [Server -> Seq(Event)]
          /\ handlers' \in [Server -> Inputs \cup {<<>>}]
          /\ cur' \in [Server -> 0..MaxTx]
      BY <3>1, <1>a DEF ProcessEnds
    <3> QED BY <3>1, <3>2 DEF ProcessEnds
  <2>2. CASE Reconcile(s)
    <3>1. \A k \in Key : Effective(running[s][k]) \in Value
      BY EffectiveType DEF Config
    <3>2. Reconciled(s) \in [Key -> Value]
      BY <3>1 DEF Reconciled
    <3> QED BY <2>2, <3>2 DEF Reconcile
  <2>3. CASE Subscribe(s)
    BY <2>3 DEF Subscribe
  <2> QED BY <1>8, <2>1, <2>2, <2>3 DEF ProcessStep
<1> QED BY <1>1, <1>2, <1>3, <1>4, <1>5, <1>6, <1>7, <1>8 DEF Next, SysrepoStep

\* The initial state is well typed.
LEMMA TypeInit == Init => TypeOK
BY ConstantsAssumption DEF Init, TypeOK, Config

\* The state of sysrepo and of every server always has its type: in particular
\* change_cb() and do_revert() only ever write values to the device.
THEOREM TypeCorrect == Spec => []TypeOK
BY TypeInit, TypeStep, PTL DEF Spec

-----------------------------------------------------------------------------
(* Layer 1: events, callbacks and the current transaction.                 *)

ServerInv(s) ==
  EventOrder(s) /\ FinishExpected(s) /\ ChangeProgress(s) /\ CallbackState(s)

\* What is left when the first event is taken.
LEMMA TailFacts ==
  ASSUME NEW q \in Seq(Event), q # <<>>
  PROVE  /\ 1 \in DOMAIN q /\ Head(q) = q[1]
         /\ Len(q) \in Nat /\ Len(Tail(q)) = Len(q) - 1
         /\ Len(q) = 1 => Tail(q) = <<>>
         /\ \A i \in DOMAIN Tail(q) : i \in Nat /\ i + 1 \in DOMAIN q /\ Tail(q)[i] = q[i + 1]
OBVIOUS

\* What is there when an event is added.
LEMMA AppendFacts ==
  ASSUME NEW q \in Seq(Event), NEW e \in Event
  PROVE  /\ Append(q, e) # <<>>
         /\ Len(q) \in Nat /\ Len(Append(q, e)) = Len(q) + 1
         /\ Append(q, e)[Len(q) + 1] = e
         /\ \A i \in DOMAIN Append(q, e) :
              \/ i \in DOMAIN q /\ i # Len(q) + 1 /\ Append(q, e)[i] = q[i]
              \/ i = Len(q) + 1
OBVIOUS

\* The state of t that layer 1 speaks of, apart from its inbox.
LocalVars(t) == <<pc[t], reqId[t], cur[t], timer[t], status[t]>>

\* A step of sysrepo or of another server that leaves alone what t has to do
\* with the transaction leaves the invariant of t alone.
LEMMA UntouchedServer ==
  ASSUME NEW t \in Server, ServerInv(t),
         UNCHANGED <<LocalVars(t), inbox[t], txId, txPhase>>,
         t \in txTodo' <=> t \in txTodo,
         t \in txAcked' <=> t \in txAcked,
         t \in txWait' <=> t \in txWait,
         txWait' \subseteq txWait \/ txPhase # "change"
  PROVE  ServerInv(t)'
BY DEF ServerInv, EventOrder, FinishExpected, ChangeProgress, ChangeOfTx,
       CallbackState, LocalVars, Alive

\* An answer of s does not disturb another server t, even when it ends the
\* transaction and sends 'abort' to t.
LEMMA AnswerOfOther ==
  ASSUME TypeOK, NEW s \in Server, NEW t \in Server, t # s,
         ServerInv(t), ServerInv(s), NEW id, NEW rest \in Seq(Event),
         Accept(s, id, rest) \/ Refuse(s, id, rest), UNCHANGED LocalVars(t)
  PROVE  ServerInv(t)'
<1>0. inbox \in [Server -> Seq(Event)] /\ txId \in Nat
  BY ConstantsAssumption DEF TypeOK
<1>1. CASE Accept(s, id, rest)
  <2>1. /\ UNCHANGED <<txId, txPhase, txTodo>> /\ inbox'[t] = inbox[t]
        /\ t \in txAcked' <=> t \in txAcked
        /\ t \in txWait' <=> t \in txWait
        /\ txWait' \subseteq txWait
    BY <1>0, <1>1 DEF Accept
  <2> QED BY <2>1, UntouchedServer
<1>2. CASE Refuse(s, id, rest) /\ ~(Awaited(s, id) /\ txPhase = "change")
  <2>1. /\ UNCHANGED <<txId, txPhase, txTodo, txAcked>> /\ inbox'[t] = inbox[t]
        /\ t \in txWait' <=> t \in txWait
        /\ txWait' \subseteq txWait
    BY <1>0, <1>2 DEF Refuse
  <2> QED BY <2>1, UntouchedServer
<1>3. CASE Refuse(s, id, rest) /\ Awaited(s, id) /\ txPhase = "change"
  <2>0. /\ s \in txWait
        /\ txPhase' = "finish" /\ txTodo' = {} /\ UNCHANGED <<txId, txAcked>>
        /\ txWait' = {u \in txAcked \ {s} : Alive(u)}
    BY <1>3 DEF Refuse, Awaited
  <2>1. /\ t \in txWait' =>
             /\ t \in txAcked
             /\ inbox'[t] = Append(inbox[t], [ev |-> "abort", id |-> txId, chg |-> <<>>])
        /\ t \notin txWait' => inbox'[t] = inbox[t]
    <3>1. inbox' = [u \in Server |->
             IF u = s THEN rest
             ELSE IF u \in txWait'
             THEN Append(inbox[u], [ev |-> "abort", id |-> txId, chg |-> <<>>])
             ELSE inbox[u]]
      BY <1>3 DEF Refuse
    <3> QED BY <2>0, <3>1
  <2>2. ~ChangeOfTx(t)
    BY <1>3, <2>0 DEF ServerInv, ChangeProgress
  <2>3. pc[t] # "abort"
    BY <1>3 DEF ServerInv, CallbackState
  <2>4. \A i \in DOMAIN inbox[t] : inbox[t][i].ev = "change"
    BY <1>3 DEF ServerInv, FinishExpected
  <2>5. CASE t \in txWait'
    <3>1. inbox[t] = <<>> /\ pc[t] = "idle" /\ cur[t] \in {0, txId}
      BY <1>3, <2>1, <2>5 DEF ServerInv, ChangeProgress
    <3>2. inbox'[t] = <<[ev |-> "abort", id |-> txId, chg |-> <<>>]>>
      BY <2>1, <2>5, <3>1
    <3>3. /\ DOMAIN inbox'[t] = {1} /\ Len(inbox'[t]) = 1
          /\ inbox'[t][1].ev = "abort" /\ inbox'[t][1].id = txId
      BY <3>2
    <3>4. EventOrder(t)' /\ FinishExpected(t)'
      BY <1>0, <2>0, <2>5, <3>1, <3>3 DEF ServerInv, EventOrder, FinishExpected, LocalVars
    <3>5. ChangeProgress(t)' /\ CallbackState(t)'
      BY <2>0, <2>5, <3>1, <3>3 DEF ServerInv, ChangeProgress, ChangeOfTx,
         CallbackState, LocalVars, Alive
    <3> QED BY <3>4, <3>5 DEF ServerInv
  <2>6. CASE t \notin txWait'
    <3>1. UNCHANGED <<inbox[t], pc[t], reqId[t], cur[t], timer[t], status[t], txId>>
      BY <2>0, <2>1, <2>6 DEF LocalVars
    <3>2. EventOrder(t)' /\ FinishExpected(t)'
      BY <2>4, <3>1 DEF ServerInv, EventOrder, FinishExpected
    <3>3. ~ChangeOfTx(t)'
      BY <2>2, <3>1 DEF ChangeOfTx
    <3>4. ChangeProgress(t)' /\ CallbackState(t)'
      BY <2>0, <2>3, <3>1, <3>3 DEF ServerInv, ChangeProgress, CallbackState, Alive
    <3> QED BY <3>2, <3>4 DEF ServerInv
  <2> QED BY <2>5, <2>6
<1> QED BY <1>1, <1>2, <1>3

\* What an answer of s means for s itself.
LEMMA RefuseSelf ==
  ASSUME TypeOK, NEW s \in Server, NEW id, NEW rest \in Seq(Event), Refuse(s, id, rest)
  PROVE  /\ inbox'[s] = rest /\ UNCHANGED <<txId, txAcked>>
         /\ \/ /\ Awaited(s, id) /\ txPhase = "change" /\ txPhase' = "finish"
               /\ txTodo' = {} /\ s \notin txWait'
            \/ /\ ~(Awaited(s, id) /\ txPhase = "change")
               /\ UNCHANGED <<txPhase, txTodo>>
               /\ txWait' = IF Awaited(s, id) THEN txWait \ {s} ELSE txWait
<1>0. inbox \in [Server -> Seq(Event)]
  BY DEF TypeOK
<1> QED BY <1>0 DEF Refuse

LEMMA AcceptSelf ==
  ASSUME TypeOK, NEW s \in Server, NEW id, NEW rest \in Seq(Event), Accept(s, id, rest)
  PROVE  /\ inbox'[s] = rest /\ UNCHANGED <<txId, txPhase, txTodo>>
         /\ txWait' = IF Awaited(s, id) THEN txWait \ {s} ELSE txWait
         /\ txAcked' = IF Awaited(s, id) /\ txPhase = "change" THEN txAcked \cup {s} ELSE txAcked
<1>0. inbox \in [Server -> Seq(Event)]
  BY DEF TypeOK
<1> QED BY <1>0 DEF Accept

\* s answers an event without having handled it.
LEMMA EventDropped ==
  ASSUME TypeOK, NEW s \in Server, ServerInv(s), NEW evs, Takes(s, evs),
         Refuse(s, Head(inbox[s]).id, Tail(inbox[s])),
         UNCHANGED <<pc[s], reqId[s], cur[s]>>,
         timer'[s] \in {timer[s], "off"}, Alive(s)'
  PROVE  ServerInv(s)'
<1> DEFINE q == inbox[s]
<1>0. q \in Seq(Event) /\ q # <<>> /\ pc[s] = "idle" /\ Alive(s) /\ txId \in Nat
  BY ConstantsAssumption DEF TypeOK, Takes
<1>1. /\ 1 \in DOMAIN q /\ Head(q) = q[1]
      /\ Len(q) \in Nat /\ Len(Tail(q)) = Len(q) - 1
      /\ Len(q) = 1 => Tail(q) = <<>>
      /\ \A i \in DOMAIN Tail(q) : i \in Nat /\ i + 1 \in DOMAIN q /\ Tail(q)[i] = q[i + 1]
      /\ Tail(q) \in Seq(Event)
  BY <1>0, TailFacts
<1>2. q[1].id = txId => Len(q) = 1 /\ Tail(q) = <<>>
  BY <1>0, <1>1 DEF ServerInv, EventOrder
<1>3. \A i \in DOMAIN Tail(q) : Tail(q)[i].ev = "change"
  <2>1. CASE Len(q) = 1
    BY <1>1, <2>1
  <2>2. CASE Len(q) # 1
    BY <1>1, <2>2 DEF ServerInv, FinishExpected
  <2> QED BY <2>1, <2>2
<1>4. /\ inbox'[s] = Tail(q) /\ UNCHANGED <<txId, txAcked>>
      /\ \/ /\ Awaited(s, q[1].id) /\ txPhase = "change" /\ txPhase' = "finish"
            /\ txTodo' = {} /\ s \notin txWait'
         \/ /\ ~(Awaited(s, q[1].id) /\ txPhase = "change")
            /\ UNCHANGED <<txPhase, txTodo>>
            /\ txWait' = IF Awaited(s, q[1].id) THEN txWait \ {s} ELSE txWait
  BY <1>1, RefuseSelf
<1>5. EventOrder(s)'
  BY <1>0, <1>1, <1>4 DEF ServerInv, EventOrder
<1>6. FinishExpected(s)'
  BY <1>3, <1>4 DEF FinishExpected
<1>7. ChangeOfTx(s)' => ChangeOfTx(s) /\ q[1].id # txId
  BY <1>0, <1>1, <1>2, <1>4 DEF ChangeOfTx
<1>8. ChangeProgress(s)'
  BY <1>0, <1>4, <1>7 DEF ServerInv, ChangeProgress, Awaited
<1>9. CallbackState(s)'
  BY <1>0, <1>4 DEF ServerInv, CallbackState
<1> QED BY <1>5, <1>6, <1>8, <1>9 DEF ServerInv

\* The callback of s ends with an exception.
LEMMA CallbackRaised ==
  ASSUME TypeOK, NEW s \in Server, ServerInv(s), Alive(s), pc[s] # "idle", pc'[s] = "idle",
         Refuse(s, reqId[s], inbox[s]),
         UNCHANGED <<reqId[s], cur[s], timer[s], status[s]>>
  PROVE  ServerInv(s)'
<1>0. inbox[s] \in Seq(Event) /\ txId \in Nat /\ reqId[s] \in Nat
      /\ pc[s] \in {"apply", "rollback", "abort"}
  BY ConstantsAssumption DEF TypeOK
<1>1. /\ inbox'[s] = inbox[s] /\ UNCHANGED <<txId, txAcked>>
      /\ \/ /\ Awaited(s, reqId[s]) /\ txPhase = "change" /\ txPhase' = "finish"
            /\ txTodo' = {} /\ s \notin txWait'
         \/ /\ ~(Awaited(s, reqId[s]) /\ txPhase = "change")
            /\ UNCHANGED <<txPhase, txTodo>>
            /\ txWait' = IF Awaited(s, reqId[s]) THEN txWait \ {s} ELSE txWait
  BY <1>0, RefuseSelf
<1>2. EventOrder(s)'
  BY <1>1 DEF ServerInv, EventOrder
<1>3. FinishExpected(s)'
  BY <1>0, <1>1 DEF ServerInv, FinishExpected
<1>4. ChangeOfTx(s)' => ChangeOfTx(s)
  BY <1>1 DEF ChangeOfTx
<1>4a. reqId[s] = txId => ~ChangeOfTx(s)'
  BY <1>0, <1>1 DEF ChangeOfTx, ServerInv, EventOrder
<1>5. ChangeProgress(s)'
  BY <1>0, <1>1, <1>4, <1>4a DEF ServerInv, ChangeProgress, Awaited
<1>6. CallbackState(s)'
  BY <1>0, <1>1 DEF ServerInv, CallbackState, Alive
<1> QED BY <1>2, <1>3, <1>5, <1>6 DEF ServerInv

\* 'change' is taken: its handlers are about to be applied.
LEMMA ChangeBeginInv ==
  ASSUME TypeOK, NEW s \in Server, ServerInv(s), ChangeBegin(s)
  PROVE  ServerInv(s)'
<1> DEFINE q == inbox[s]
<1>0. /\ q \in Seq(Event) /\ q # <<>> /\ pc[s] = "idle" /\ Alive(s) /\ txId \in Nat
      /\ q[1].ev = "change" /\ cur[s] = 0 /\ Head(q) = q[1] /\ q[1].id \in 1..MaxTx
  <2>1. q \in Seq(Event) /\ q # <<>> /\ Head(q) = q[1] /\ q[1] \in Event
    BY TailFacts, TailType DEF TypeOK, ChangeBegin, StartHandlers, Takes
  <2> QED BY <2>1, ConstantsAssumption DEF TypeOK, ChangeBegin, StartHandlers, Takes, Event
<1>1. /\ 1 \in DOMAIN q
      /\ Len(q) \in Nat /\ Len(Tail(q)) = Len(q) - 1
      /\ Len(q) = 1 => Tail(q) = <<>>
      /\ \A i \in DOMAIN Tail(q) : i \in Nat /\ i + 1 \in DOMAIN q /\ Tail(q)[i] = q[i + 1]
  BY <1>0, TailFacts
<1>2. q[1].id = txId => Len(q) = 1 /\ Tail(q) = <<>>
  BY <1>0, <1>1 DEF ServerInv, EventOrder
<1>3. \A i \in DOMAIN Tail(q) : Tail(q)[i].ev = "change"
  <2>1. CASE Len(q) = 1
    BY <1>1, <2>1
  <2>2. CASE Len(q) # 1
    BY <1>1, <2>2 DEF ServerInv, FinishExpected
  <2> QED BY <2>1, <2>2
<1>4. /\ inbox'[s] = Tail(q) /\ pc'[s] = "apply" /\ reqId'[s] = q[1].id
      /\ UNCHANGED <<txId, txPhase, txTodo, txAcked, txWait, cur, timer, status>>
  <2>1. inbox \in [Server -> Seq(Event)]
    BY DEF TypeOK
  <2>2. DOMAIN pc = Server /\ DOMAIN reqId = Server
    BY DEF TypeOK
  <2> QED BY <1>0, <2>1, <2>2
     DEF ChangeBegin, StartHandlers, sysrepoVars, revertVars, processVars
<1>5. EventOrder(s)'
  BY <1>0, <1>1, <1>2, <1>4 DEF ServerInv, EventOrder
<1>6. FinishExpected(s)'
  BY <1>3, <1>4 DEF FinishExpected
<1>7. ChangeOfTx(s)' => ChangeOfTx(s)
  BY <1>0, <1>1, <1>4 DEF ChangeOfTx
<1>8. ChangeProgress(s)'
  BY <1>0, <1>1, <1>4, <1>7 DEF ServerInv, ChangeProgress
<1>9. CallbackState(s)'
  BY <1>0, <1>4 DEF ServerInv, CallbackState, Alive
<1> QED BY <1>5, <1>6, <1>8, <1>9 DEF ServerInv

\* 'change' is accepted: the handlers are stored.
LEMMA ChangeEndInv ==
  ASSUME TypeOK, NEW s \in Server, ServerInv(s), ChangeEnd(s)
  PROVE  ServerInv(s)'
<1>0. inbox[s] \in Seq(Event) /\ txId \in Nat /\ reqId[s] \in Nat /\ pc[s] = "apply" /\ Alive(s)
  BY ConstantsAssumption DEF TypeOK, ChangeEnd, EndChange
<1>1. /\ inbox'[s] = inbox[s] /\ UNCHANGED <<txId, txPhase, txTodo>>
      /\ txWait' = IF Awaited(s, reqId[s]) THEN txWait \ {s} ELSE txWait
      /\ txAcked' = IF Awaited(s, reqId[s]) /\ txPhase = "change" THEN txAcked \cup {s} ELSE txAcked
  BY <1>0, AcceptSelf DEF ChangeEnd, EndChange
<1>2. pc'[s] = "idle" /\ cur'[s] = reqId[s] /\ timer'[s] = "sleep" /\ UNCHANGED <<reqId, status>>
  BY DEF ChangeEnd, EndChange, TypeOK, processVars
<1>3. EventOrder(s)'
  BY <1>0, <1>1, <1>2 DEF ServerInv, EventOrder
<1>4. FinishExpected(s)'
  BY <1>0, <1>1 DEF ServerInv, FinishExpected
<1>5. ChangeOfTx(s)' => ChangeOfTx(s) /\ reqId[s] # txId
  BY <1>0, <1>1, <1>2 DEF ChangeOfTx, ServerInv, EventOrder
<1>6. reqId[s] = txId => ChangeOfTx(s) /\ inbox[s] = <<>>
  BY <1>0 DEF ChangeOfTx, ServerInv, EventOrder
<1>7. ChangeProgress(s)'
  BY <1>0, <1>1, <1>2, <1>5, <1>6 DEF ServerInv, ChangeProgress, Awaited
<1>8. CallbackState(s)'
  BY <1>0, <1>1, <1>2 DEF ServerInv, CallbackState, EventOrder, Alive
<1> QED BY <1>3, <1>4, <1>7, <1>8 DEF ServerInv

\* 'abort' is handled: the handlers are discarded.
LEMMA AbortEndInv ==
  ASSUME TypeOK, NEW s \in Server, ServerInv(s), AbortEnd(s)
  PROVE  ServerInv(s)'
<1>0. inbox[s] \in Seq(Event) /\ txId \in Nat /\ pc[s] = "abort" /\ Alive(s)
  BY ConstantsAssumption DEF TypeOK, AbortEnd
<1>1. inbox[s] = <<>> /\ txPhase = "finish" /\ timer[s] = "off"
  BY <1>0 DEF ServerInv, CallbackState, EventOrder
<1>2. inbox'[s] = <<>> /\ UNCHANGED <<txId, txPhase, txTodo>>
  BY <1>0, <1>1, AcceptSelf DEF AbortEnd
<1>3. pc'[s] = "idle" /\ cur'[s] = 0 /\ UNCHANGED <<reqId, status, timer>>
  BY DEF AbortEnd, TypeOK, processVars
<1> QED BY <1>0, <1>1, <1>2, <1>3 DEF ServerInv, EventOrder, FinishExpected,
           ChangeProgress, ChangeOfTx, CallbackState, Alive

\* 'done' or 'abort' finds handlers stored: they are those of its transaction.
LEMMA FinishEventInv ==
  ASSUME TypeOK, NEW s \in Server, ServerInv(s), FinishEvent(s)
  PROVE  ServerInv(s)' /\ cur[s] = Head(inbox[s]).id
<1> DEFINE q == inbox[s]
<1>0. /\ q \in Seq(Event) /\ q # <<>> /\ pc[s] = "idle" /\ Alive(s) /\ txId \in Nat
      /\ Head(q) = q[1] /\ 1 \in DOMAIN q /\ Tail(q) \in Seq(Event)
      /\ q[1].ev \in {"done", "abort"} /\ cur[s] # 0
  <2>1. q \in Seq(Event) /\ q # <<>>
    BY DEF TypeOK, FinishEvent, Takes
  <2> QED BY <2>1, TailFacts, ConstantsAssumption DEF TypeOK, FinishEvent, Takes
<1>1. /\ Len(q) = 1 /\ q[1].id = txId /\ txPhase = "finish" /\ s \in txWait
      /\ cur[s] = txId /\ Tail(q) = <<>>
  BY <1>0, TailFacts DEF ServerInv, FinishExpected
<1>2. timer'[s] = "off" /\ UNCHANGED handlers
  BY DEF FinishEvent, CancelRevertTask, TypeOK
<1>3. CASE q[1].ev = "abort"
  <2>1. /\ inbox' = [inbox EXCEPT ![s] = Tail(@)] /\ pc' = [pc EXCEPT ![s] = "abort"]
        /\ reqId' = [reqId EXCEPT ![s] = q[1].id]
        /\ UNCHANGED <<sysrepoVars, cur, status>>
    BY <1>0, <1>1, <1>3 DEF FinishEvent
  <2>2. /\ inbox'[s] = <<>> /\ pc'[s] = "abort" /\ reqId'[s] = txId
        /\ UNCHANGED <<txId, txPhase, txTodo, txAcked, txWait, cur, status>>
    BY <1>1, <2>1 DEF TypeOK, sysrepoVars
  <2> QED BY <1>0, <1>1, <1>2, <2>2 DEF ServerInv, EventOrder, FinishExpected,
             ChangeProgress, ChangeOfTx, CallbackState, Alive
<1>4. CASE q[1].ev # "abort"
  <2>1. Accept(s, q[1].id, Tail(q)) /\ cur' = [cur EXCEPT ![s] = 0]
        /\ UNCHANGED <<pc, reqId, status>>
    BY <1>0, <1>1, <1>4 DEF FinishEvent
  <2>2. inbox'[s] = <<>> /\ UNCHANGED <<txId, txPhase, txTodo>>
    BY <1>0, <1>1, <2>1, AcceptSelf
  <2>3. cur'[s] = 0
    BY <2>1 DEF TypeOK
  <2> QED BY <1>0, <1>1, <1>2, <2>1, <2>2, <2>3 DEF ServerInv, EventOrder,
             FinishExpected, ChangeProgress, ChangeOfTx, CallbackState, Alive
<1> QED BY <1>0, <1>1, <1>3, <1>4

\* A step of the callback of s preserves the invariant of s ...
LEMMA CallbackOwn ==
  ASSUME TypeOK, NEW s \in Server, ServerInv(s), CallbackStep(s)
  PROVE  ServerInv(s)'
<1> USE DEF callbackVars, sysrepoVars, revertVars, processVars
<1>1. CASE RejectBusy(s) \/ ChangeRefused(s) \/ FinishRaises(s)
  <2>1. Refuse(s, Head(inbox[s]).id, Tail(inbox[s])) /\ \E evs : Takes(s, evs)
    BY <1>1 DEF RejectBusy, Busy, ChangeRefused, FinishRaises
  <2>2. UNCHANGED <<pc, reqId, cur, timer, status>>
    BY <1>1 DEF RejectBusy, Busy, ChangeRefused, FinishRaises
  <2>3. Alive(s)'
    BY <2>1, <2>2 DEF Takes, Alive
  <2> QED BY <2>1, <2>2, <2>3, EventDropped
<1>2. CASE FinishNull(s)
  <2>1. Alive(s)'
    BY <1>2 DEF FinishNull, Alive, TypeOK
  <2> QED BY <1>2, <2>1, EventDropped DEF FinishNull
<1>3. CASE ChangeBegin(s)
  BY <1>3, ChangeBeginInv
<1>4. CASE ApplyOk(s) \/ SkipDeleted(s) \/ RevertStep(s)
  <2>1. UNCHANGED <<LocalVars(s), inbox, txId, txPhase, txTodo, txAcked, txWait>>
    BY <1>4 DEF ApplyOk, Applying, ApplyHandler, SkipDeleted, Advance, RevertStep, LocalVars
  <2> QED BY <2>1, UntouchedServer
<1>5. CASE ApplyRaises(s)
  <2>1. /\ pc[s] = "apply" /\ pc'[s] = "rollback"
        /\ UNCHANGED <<reqId, cur, timer, status, inbox, txId, txPhase, txTodo, txAcked, txWait>>
    BY <1>5 DEF ApplyRaises, Applying, RollbackFrom, TypeOK
  <2> QED BY <2>1 DEF ServerInv, EventOrder, FinishExpected, ChangeProgress,
             ChangeOfTx, CallbackState, Alive
<1>6. CASE RevertRaises(s) \/ RollbackEnd(s) \/ PostRaises(s)
  <2>1. /\ Alive(s) /\ pc[s] # "idle" /\ pc'[s] = "idle" /\ Refuse(s, reqId[s], inbox[s])
        /\ UNCHANGED <<reqId, cur, timer, status>>
    BY <1>6 DEF RevertRaises, RollbackEnd, PostRaises, TypeOK
  <2> QED BY <2>1, CallbackRaised
<1>7. CASE ChangeEnd(s) \/ AbortEnd(s) \/ FinishEvent(s)
  BY <1>7, ChangeEndInv, AbortEndInv, FinishEventInv
<1> QED BY <1>1, <1>2, <1>3, <1>4, <1>5, <1>6, <1>7 DEF CallbackStep

\* ... and of every other server.
LEMMA CallbackOther ==
  ASSUME TypeOK, NEW s \in Server, ServerInv(s), CallbackStep(s),
         NEW t \in Server, t # s, ServerInv(t)
  PROVE  ServerInv(t)'
<1> USE DEF callbackVars, sysrepoVars, revertVars, processVars
<1>0. inbox[s] \in Seq(Event) /\ (inbox[s] # <<>> => Tail(inbox[s]) \in Seq(Event))
  BY TailType DEF TypeOK
<1>1. UNCHANGED LocalVars(t)
  <2>1. UNCHANGED <<pc[t], reqId[t], cur[t]>>
    BY
       DEF CallbackStep, TypeOK, RejectBusy, Busy, ChangeRefused, ChangeBegin, StartHandlers,
           ApplyOk, Applying, ApplyHandler, SkipDeleted, Advance, ApplyRaises, RollbackFrom,
           RevertStep, RevertRaises, RollbackEnd, ChangeEnd, EndChange, PostRaises, FinishNull,
           FinishEvent, AbortEnd, FinishRaises
  <2>2. UNCHANGED <<timer[t], status[t]>>
    BY
       DEF CallbackStep, TypeOK, RejectBusy, Busy, ChangeRefused, ChangeBegin, StartHandlers,
           ApplyOk, Applying, ApplyHandler, SkipDeleted, Advance, ApplyRaises, RollbackFrom,
           RevertStep, RevertRaises, RollbackEnd, ChangeEnd, EndChange, PostRaises, FinishNull,
           FinishEvent, AbortEnd, FinishRaises, CancelRevertTask
  <2> QED BY <2>1, <2>2 DEF LocalVars
<1>2. CASE ChangeBegin(s) \/ ApplyOk(s) \/ SkipDeleted(s) \/ ApplyRaises(s) \/ RevertStep(s)
  <2>1. UNCHANGED <<inbox[t], txId, txPhase, txTodo, txAcked, txWait>>
    BY <1>2
       DEF ChangeBegin, StartHandlers, ApplyOk, Applying, ApplyHandler, SkipDeleted, Advance,
           ApplyRaises, RollbackFrom, RevertStep, TypeOK
  <2> QED BY <1>1, <2>1, UntouchedServer
<1>3. CASE RejectBusy(s) \/ ChangeRefused(s) \/ FinishNull(s) \/ FinishRaises(s)
  BY <1>0, <1>1, <1>3, AnswerOfOther
     DEF RejectBusy, Busy, ChangeRefused, FinishNull, FinishRaises, Takes
<1>4. CASE RevertRaises(s) \/ RollbackEnd(s) \/ PostRaises(s) \/ ChangeEnd(s) \/ AbortEnd(s)
  BY <1>0, <1>1, <1>4, AnswerOfOther
     DEF RevertRaises, RollbackEnd, PostRaises, ChangeEnd, EndChange, AbortEnd
<1>5. CASE FinishEvent(s)
  <2>1. CASE Head(inbox[s]).ev = "abort"
    <3>1. UNCHANGED <<inbox[t], txId, txPhase, txTodo, txAcked, txWait>>
      BY <1>5, <2>1, FinishEventInv DEF FinishEvent, TypeOK
    <3> QED BY <1>1, <3>1, UntouchedServer
  <2>2. CASE Head(inbox[s]).ev # "abort"
    <3>1. Accept(s, Head(inbox[s]).id, Tail(inbox[s])) /\ inbox[s] # <<>>
      BY <1>5, <2>2, FinishEventInv DEF FinishEvent, Takes
    <3> QED BY <1>0, <1>1, <3>1, AnswerOfOther
  <2> QED BY <2>1, <2>2
<1> QED BY <1>2, <1>3, <1>4, <1>5 DEF CallbackStep

LEMMA ProtocolStep ==
  ASSUME TypeOK, \A s \in Server : ServerInv(s), [Next]_vars
  PROVE  \A s \in Server : ServerInv(s)'
<1> TAKE t \in Server
<1>0. ServerInv(t)
  OBVIOUS
<1>a. /\ inbox \in [Server -> Seq(Event)] /\ txId \in Nat
      /\ \A i \in DOMAIN inbox[t] : inbox[t][i] \in Event /\ i \in Nat
      /\ inbox[t] \in Seq(Event) /\ Len(inbox[t]) \in Nat
  <2>1. inbox \in [Server -> Seq(Event)] /\ txId \in Nat
    BY ConstantsAssumption DEF TypeOK
  <2>2. inbox[t] \in Seq(Event)
    BY <2>1
  <2> QED BY <2>1, <2>2
<1>b. reqId[t] \in Nat /\ cur[t] \in Nat
  BY ConstantsAssumption DEF TypeOK
<1>1. CASE UNCHANGED vars
  BY <1>0, <1>1, UntouchedServer DEF vars, sysrepoVars, callbackVars, revertVars,
     processVars, LocalVars
<1>2. CASE Begin
  <2>1. /\ txId' = txId + 1 /\ txPhase' = "change" /\ txAcked' = {} /\ txWait' = {}
        /\ \A s \in txTodo' : Alive(s)
        /\ UNCHANGED <<inbox, pc, reqId, cur, timer, status>>
    BY <1>2 DEF Begin, callbackVars, revertVars, processVars
  <2>2. \A i \in DOMAIN inbox[t] : inbox[t][i].ev = "change"
    BY <1>0, <1>2 DEF Begin, ServerInv, FinishExpected
  <2>3. pc[t] # "abort"
    BY <1>0, <1>2 DEF Begin, ServerInv, CallbackState
  <2>3a. /\ \A i \in DOMAIN inbox[t] : inbox[t][i].id \in Nat /\ inbox[t][i].id <= txId
         /\ reqId[t] <= txId /\ cur[t] <= txId
         /\ pc[t] # "idle" => reqId[t] > 0
    BY <1>0, <1>a DEF ServerInv, EventOrder, Event
  <2>3b. /\ \A i \in DOMAIN inbox[t] : inbox[t][i].id <= txId' /\ inbox[t][i].id # txId'
         /\ reqId[t] <= txId' /\ cur[t] <= txId' /\ reqId[t] # txId' /\ cur[t] # txId'
    BY <1>a, <1>b, <2>1, <2>3a
  <2>4. ~ChangeOfTx(t)' /\ EventOrder(t)' /\ cur'[t] # txId'
    BY <2>1, <2>3a, <2>3b DEF EventOrder, ChangeOfTx
  <2>5. FinishExpected(t)' /\ CallbackState(t)'
    BY <1>0, <2>1, <2>2, <2>3 DEF ServerInv, FinishExpected, CallbackState, Alive
  <2> QED BY <2>1, <2>4, <2>5 DEF ServerInv, ChangeProgress
<1>3. ASSUME NEW s \in Server, NotifyChange(s) PROVE ServerInv(t)'
  <2>1. /\ txPhase = "change" /\ txWait = {} /\ s \in txTodo
        /\ txTodo' = txTodo \ {s} /\ txWait' = {s}
        /\ UNCHANGED <<txId, txPhase, txAcked, pc, reqId, cur, timer, status>>
    BY <1>3 DEF NotifyChange, revertVars, processVars
  <2>2. CASE t # s
    <3>1. UNCHANGED inbox[t]
      BY <1>3, <1>a, <2>2 DEF NotifyChange
    <3>2. UNCHANGED LocalVars(t)
      BY <2>1 DEF LocalVars
    <3> QED BY <1>0, <2>1, <2>2, <3>1, <3>2 DEF ServerInv, EventOrder, FinishExpected,
               ChangeProgress, ChangeOfTx, CallbackState, LocalVars, Alive
  <2>3. CASE t = s
    <3> DEFINE e == [ev |-> "change", id |-> txId, chg |-> txCfg[s]]
    <3>1. e \in Event /\ inbox'[t] = Append(inbox[t], e)
      BY <1>3, <1>a, <2>3 DEF NotifyChange, Event, TypeOK
    <3>2. /\ Len(inbox'[t]) = Len(inbox[t]) + 1
          /\ \A i \in DOMAIN inbox'[t] :
               \/ i \in DOMAIN inbox[t] /\ inbox'[t][i] = inbox[t][i]
               \/ i = Len(inbox[t]) + 1 /\ inbox'[t][i] = e
      BY <1>a, <3>1, AppendFacts
    <3>3. /\ t \notin txAcked /\ ~ChangeOfTx(t) /\ cur[t] # txId
          /\ \A i \in DOMAIN inbox[t] : inbox[t][i].ev = "change"
      BY <1>0, <2>1, <2>3 DEF ServerInv, ChangeProgress, FinishExpected
    <3>4. /\ \A i \in DOMAIN inbox[t] : inbox[t][i].id # txId
          /\ ~(pc[t] \in {"apply", "rollback"} /\ reqId[t] = txId)
      BY <3>3 DEF ChangeOfTx
    <3>5. Alive(t) /\ pc[t] # "abort"
      BY <1>0, <2>1, <2>3 DEF ServerInv, CallbackState
    <3>5a. pc[t] # "idle" => reqId[t] # txId
      BY <3>4, <3>5 DEF TypeOK
    <3>6. EventOrder(t)'
      BY <1>0, <1>a, <1>b, <2>1, <3>2, <3>4, <3>5a DEF ServerInv, EventOrder
    <3>7. FinishExpected(t)'
      BY <3>2, <3>3 DEF FinishExpected
    <3>8. ChangeProgress(t)'
      BY <2>1, <2>3, <3>3 DEF ChangeProgress
    <3>9. CallbackState(t)'
      BY <1>0, <2>1, <3>5 DEF ServerInv, CallbackState, Alive
    <3> QED BY <3>6, <3>7, <3>8, <3>9 DEF ServerInv
  <2> QED BY <2>2, <2>3
<1>4. CASE Commit
  <2>1. /\ txPhase = "change" /\ txPhase' = "finish" /\ txTodo = {} /\ txWait = {}
        /\ txWait' = {s \in txAcked : Alive(s)}
        /\ UNCHANGED <<txId, txTodo, txAcked, pc, reqId, cur, timer, status>>
    BY <1>4 DEF Commit, revertVars, processVars
  <2>2. ~ChangeOfTx(t) /\ pc[t] # "abort"
        /\ \A i \in DOMAIN inbox[t] : inbox[t][i].ev = "change"
    BY <1>0, <2>1 DEF ServerInv, ChangeProgress, CallbackState, FinishExpected
  <2>3. CASE t \in txWait'
    <3>1. inbox[t] = <<>> /\ pc[t] = "idle" /\ cur[t] \in {0, txId}
      BY <1>0, <2>1, <2>3 DEF ServerInv, ChangeProgress
    <3>1a. inbox'[t] = Append(inbox[t], [ev |-> "done", id |-> txId, chg |-> <<>>])
      BY <1>4, <2>1, <2>3 DEF Commit, Broadcast
    <3>2. inbox'[t] = <<[ev |-> "done", id |-> txId, chg |-> <<>>]>>
      BY <3>1, <3>1a
    <3>3. /\ DOMAIN inbox'[t] = {1} /\ Len(inbox'[t]) = 1
          /\ inbox'[t][1].ev = "done" /\ inbox'[t][1].id = txId
      BY <3>2
    <3>4. EventOrder(t)' /\ FinishExpected(t)'
      BY <1>0, <1>a, <2>1, <2>3, <3>1, <3>3 DEF ServerInv, EventOrder, FinishExpected
    <3>5. ChangeProgress(t)' /\ CallbackState(t)'
      BY <1>0, <2>1, <2>3, <3>1, <3>3 DEF ServerInv, ChangeProgress, ChangeOfTx,
         CallbackState, Alive
    <3> QED BY <3>4, <3>5 DEF ServerInv
  <2>4. CASE t \notin txWait'
    <3>1. UNCHANGED inbox[t]
      BY <1>4, <1>a, <2>1, <2>4 DEF Commit, Broadcast
    <3>2. EventOrder(t)' /\ FinishExpected(t)'
      BY <1>0, <2>1, <2>2, <3>1 DEF ServerInv, EventOrder, FinishExpected
    <3>3. ~ChangeOfTx(t)'
      BY <2>1, <2>2, <3>1 DEF ChangeOfTx
    <3>4. ChangeProgress(t)' /\ CallbackState(t)'
      BY <1>0, <2>1, <2>2, <3>1, <3>3 DEF ServerInv, ChangeProgress, CallbackState, Alive
    <3> QED BY <3>2, <3>4 DEF ServerInv
  <2> QED BY <2>3, <2>4
<1>5. CASE Finish
  <2>1. /\ txPhase = "finish" /\ txPhase' = "idle" /\ txWait = {}
        /\ UNCHANGED <<txId, txTodo, txAcked, txWait, inbox, pc, reqId, cur, timer, status>>
    BY <1>5 DEF Finish, callbackVars, revertVars, processVars
  <2> QED BY <1>0, <2>1 DEF ServerInv, EventOrder, FinishExpected,
             ChangeProgress, CallbackState, Alive
<1>6. CASE ClientTimeout
  <2>1. /\ txPhase = "change" /\ txPhase' = "idle" /\ txTodo' = {} /\ txWait' = {}
        /\ UNCHANGED <<txId, txAcked, inbox, pc, reqId, cur, timer, status>>
    BY <1>6 DEF ClientTimeout, callbackVars, revertVars, processVars
  <2> QED BY <1>0, <2>1 DEF ServerInv, EventOrder, FinishExpected,
             ChangeProgress, CallbackState, Alive
<1>7. ASSUME NEW s \in Server, CallbackStep(s) PROVE ServerInv(t)'
  BY <1>0, <1>7, CallbackOwn, CallbackOther
<1>8. ASSUME NEW s \in Server, TimerStep(s) PROVE ServerInv(t)'
  <2>1. /\ UNCHANGED <<sysrepoVars, callbackVars, status>>
        /\ timer[s] \in {"sleep", "revert"}
        /\ \/ timer'[s] \in {"revert", "raised"} /\ cur' = cur
           \/ timer'[s] = "off" /\ cur'[s] = 0
        /\ \A u \in Server : u # s => timer'[u] = timer[u] /\ cur'[u] = cur[u]
    BY <1>8
       DEF TimerStep, TimerFires, TimerReverts, TimerRevertRaises, TimerEnds, EndRevert,
           TypeOK, processVars
  <2>2. UNCHANGED <<txId, txPhase, txTodo, txAcked, txWait, inbox, pc, reqId, status>>
    BY <2>1 DEF sysrepoVars, callbackVars
  <2>3. CASE t # s
    <3>1. UNCHANGED LocalVars(t)
      BY <2>1, <2>2, <2>3 DEF LocalVars
    <3> QED BY <1>0, <2>2, <3>1, UntouchedServer
  <2>4. CASE t = s
    <3>1. pc[t] # "abort" /\ cur[t] # 0
      BY <1>0, <2>1, <2>4 DEF ServerInv, CallbackState
    <3>2. EventOrder(t)'
      BY <1>0, <1>a, <2>1, <2>2, <2>4 DEF ServerInv, EventOrder
    <3>3. FinishExpected(t)'
      BY <1>0, <2>1, <2>2, <2>4 DEF ServerInv, FinishExpected
    <3>4. ChangeOfTx(t)' <=> ChangeOfTx(t)
      BY <2>2 DEF ChangeOfTx
    <3>4a. txPhase = "change" => txId # 0
      BY DEF TypeOK
    <3>5. ChangeProgress(t)'
      BY <1>0, <2>1, <2>2, <2>4, <3>4, <3>4a DEF ServerInv, ChangeProgress
    <3>6. CallbackState(t)'
      BY <1>0, <2>1, <2>2, <2>4, <3>1 DEF ServerInv, CallbackState, Alive
    <3> QED BY <3>2, <3>3, <3>5, <3>6 DEF ServerInv
  <2> QED BY <2>3, <2>4
<1>9. ASSUME NEW s \in Server, Stop(s) \/ Crash(s) PROVE ServerInv(t)'
  <2>0. ProcessEnds(s)
    BY <1>9 DEF Stop, Crash
  <2>1. /\ txTodo' = txTodo \ {s}
        /\ txWait' = IF txPhase = "finish" THEN txWait \ {s} ELSE txWait
        /\ UNCHANGED <<txId, txPhase, txAcked, reqId>>
    BY <2>0 DEF ProcessEnds
  <2>2. CASE t # s
    <3>1. UNCHANGED <<LocalVars(t), inbox[t]>>
      BY <2>0, <2>2 DEF ProcessEnds, LocalVars, TypeOK
    <3> QED BY <1>0, <2>1, <2>2, <3>1, UntouchedServer
  <2>3. CASE t = s
    <3>1. /\ inbox'[t] = <<>> /\ pc'[t] = "idle" /\ cur'[t] = 0 /\ timer'[t] = "off"
          /\ status'[t] = "down"
      BY <2>0, <2>3 DEF ProcessEnds, TypeOK
    <3> QED BY <1>0, <1>a, <2>1, <2>3, <3>1 DEF ServerInv, EventOrder, FinishExpected,
               ChangeProgress, ChangeOfTx, CallbackState, Alive
  <2> QED BY <2>2, <2>3
<1>10. ASSUME NEW s \in Server, Reconcile(s) \/ Subscribe(s) PROVE ServerInv(t)'
  <2>1. /\ UNCHANGED <<sysrepoVars, callbackVars, revertVars>>
        /\ \A u \in Server : Alive(u) => Alive(u)'
    BY <1>10 DEF Reconcile, Subscribe, Alive, TypeOK
  <2>2. UNCHANGED <<txId, txPhase, txTodo, txAcked, txWait, inbox, pc, reqId, cur, timer>>
    BY <2>1 DEF sysrepoVars, callbackVars, revertVars
  <2> QED BY <1>0, <2>1, <2>2 DEF ServerInv, EventOrder, FinishExpected,
             ChangeProgress, ChangeOfTx, CallbackState
<1> QED BY <1>1, <1>2, <1>3, <1>4, <1>5, <1>6, <1>7, <1>8, <1>9, <1>10
        DEF Next, SysrepoStep, ProcessStep

\* The events, callbacks and stored handlers of every server always fit the
\* transaction sysrepo is busy with, whatever fails, crashes or is late.
THEOREM ProtocolCorrect == Spec => []ProtocolInv
<1>1. ASSUME Init PROVE ProtocolInv
  <2> SUFFICES ASSUME NEW s \in Server PROVE ServerInv(s)
    BY DEF ProtocolInv, ServerInv
  <2>1. /\ inbox[s] = <<>> /\ pc[s] = "idle" /\ cur[s] = 0 /\ timer[s] = "off"
        /\ reqId[s] = 0 /\ txId = 0 /\ txPhase = "idle" /\ txTodo = {}
    BY <1>1 DEF Init
  <2> QED BY <2>1 DEF ServerInv, EventOrder, FinishExpected, ChangeProgress,
             ChangeOfTx, CallbackState
<1>2. TypeOK /\ ProtocolInv /\ [Next]_vars => ProtocolInv'
  BY ProtocolStep DEF ProtocolInv, ServerInv
<1> QED BY <1>1, <1>2, TypeCorrect, PTL DEF Spec

\* change_cb() never finds the handlers of another transaction stored when it
\* gets 'done' or 'abort' (the test "id != req_id", core.py:142).
THEOREM NeverMismatched == Spec => []NoIdMismatch
<1>1. Init => NoIdMismatch
  BY DEF Init, NoIdMismatch
<1>2. ASSUME TypeOK, ProtocolInv, NoIdMismatch, [Next]_vars PROVE NoIdMismatch'
  <2>1. CASE UNCHANGED fault
    BY <1>2, <2>1 DEF NoIdMismatch
  <2>2. ASSUME NEW s \in Server, FinishNull(s) PROVE NoIdMismatch'
    BY <1>2, <2>2 DEF FinishNull, NoIdMismatch, TypeOK
  <2>3. ASSUME NEW s \in Server, FinishEvent(s) PROVE UNCHANGED fault
    BY <1>2, <2>3, FinishEventInv DEF FinishEvent, ProtocolInv, ServerInv
  <2>4. CASE SysrepoStep \/ ClientTimeout \/ UNCHANGED vars
    BY <2>1, <2>4 DEF vars, SysrepoStep, Begin, NotifyChange, Commit, Finish,
       ClientTimeout, processVars
  <2>5. ASSUME NEW s \in Server, TimerStep(s) \/ ProcessStep(s) \/ Crash(s)
        PROVE  NoIdMismatch'
    BY <2>1, <2>5 DEF TimerStep, TimerFires, TimerReverts, TimerRevertRaises,
       TimerEnds, EndRevert, ProcessStep, Stop, Crash, ProcessEnds, Reconcile,
       Subscribe, processVars
  <2>6. ASSUME NEW s \in Server, CallbackStep(s) PROVE NoIdMismatch'
    BY <2>1, <2>2, <2>3, <2>6 DEF CallbackStep, RejectBusy, Busy, ChangeRefused,
       ChangeBegin, StartHandlers, ApplyOk, Applying, ApplyHandler, SkipDeleted,
       Advance, ApplyRaises, RollbackFrom, RevertStep, RevertRaises, RollbackEnd,
       ChangeEnd, EndChange, PostRaises, AbortEnd, FinishRaises, processVars
  <2> QED BY <1>2, <2>4, <2>5, <2>6 DEF Next
<1> QED BY <1>1, <1>2, TypeCorrect, ProtocolCorrect, PTL DEF Spec

-----------------------------------------------------------------------------
(***************************************************************************)
(* What is on the device. It needs a benign environment: transactions end  *)
(* within revert_timeout, revert() and post() do not raise, no transaction *)
(* passes a server unnoticed while it starts, and start() writes every     *)
(* leaf that the server handles. On it rests that the engine implements    *)
(* AtomicConfig; that the datastore follows the devices needs only the     *)
(* first of these.                                                         *)
(***************************************************************************)

-----------------------------------------------------------------------------
(* Applying and reverting handlers.                                        *)

\* The list of handlers of s.
LEMMA HandlerList ==
  ASSUME TypeOK, NEW s \in Server
  PROVE  /\ Len(handlers[s]) \in Nat /\ DOMAIN handlers[s] = 1..Len(handlers[s])
         /\ \A i, j \in 1..Len(handlers[s]) : handlers[s][i].key = handlers[s][j].key => i = j
         /\ \A i \in 1..Len(handlers[s]) : handlers[s][i].key \in Key
<1>1. handlers[s] \in Inputs \cup {<<>>}
  BY DEF TypeOK
<1> QED BY <1>1, ChangeLists

\* With no handler applied the device is in line with the datastore.
LEMMA NoneApplied ==
  ASSUME TypeOK, NEW s \in Server
  PROVE  AppliedUpTo(s, 0) <=> InSync(s)
BY HandlerList DEF AppliedUpTo, InSync

\* The device, the datastore and the handlers of t stay as they are.
LEMMA DeviceUntouched ==
  ASSUME NEW t \in Server, UNCHANGED <<hw[t], orig[t], handlers[t], running[t]>>
  PROVE  /\ InSync(t)' <=> InSync(t)
         /\ \A m : AppliedUpTo(t, m)' <=> AppliedUpTo(t, m)
BY DEF InSync, AppliedUpTo

\* apply() of the next handler.
LEMMA ApplyExtends ==
  ASSUME TypeOK, NEW s \in Server, ApplyOk(s), NEW n \in Nat, n = idx[s],
         AppliedUpTo(s, n - 1)
  PROVE  AppliedUpTo(s, n)'
<1> DEFINE h == handlers[s]
           key == h[n].key
<1>0. /\ n \in 1..Len(h) /\ key \in Handled /\ key \in Key /\ Handled \subseteq Key
      /\ \A i, j \in 1..Len(h) : h[i].key = h[j].key => i = j
      /\ Len(h) \in Nat
  BY HandlerList DEF ApplyOk, Applying, ApplyHandler, Handled
<1>1. /\ UNCHANGED <<handlers, running>>
      /\ hw'[s][key] = Effective(h[n].val) /\ orig'[s][key] = hw[s][key]
      /\ \A k \in Key : k # key => hw'[s][k] = hw[s][k] /\ orig'[s][k] = orig[s][k]
  <2>1. /\ UNCHANGED <<handlers, running>>
        /\ orig' = [orig EXCEPT ![s][key] = hw[s][key]]
        /\ hw' = [hw EXCEPT ![s][key] = Effective(h[n].val)]
    BY DEF ApplyOk, Applying, ApplyHandler, sysrepoVars
  <2>2. /\ hw \in [Server -> [Key -> Value]] /\ orig \in [Server -> [Key -> Value]]
    BY DEF TypeOK
  <2> QED BY <1>0, <2>1, <2>2
<1>2. \A i \in 1..(n - 1) : h[i].key # key /\ h[i].key \in Key
  BY <1>0, HandlerList
<1>3. hw[s][key] = Effective(running[s][key])
  BY <1>0, <1>2 DEF AppliedUpTo
<1>4. ASSUME NEW i \in 1..n, h[i].key \in Handled
      PROVE  /\ hw'[s][h[i].key] = Effective(h[i].val)
             /\ orig'[s][h[i].key] = Effective(running[s][h[i].key])
  <2>1. CASE i = n
    BY <1>1, <1>3, <2>1
  <2>2. CASE i # n
    <3>1. i \in 1..(n - 1)
      BY <1>0, <2>2
    <3> QED BY <1>1, <1>2, <1>4, <3>1 DEF AppliedUpTo
  <2> QED BY <2>1, <2>2
<1>5. ASSUME NEW k \in Handled, \A i \in 1..n : h[i].key # k
      PROVE  hw'[s][k] = Effective(running[s][k])
  <2>1. k # key /\ k \in Key /\ \A i \in 1..(n - 1) : h[i].key # k
    BY <1>0, <1>5
  <2> QED BY <1>1, <2>1 DEF AppliedUpTo
<1>6. n \in 0..Len(h) /\ h' = h /\ running' = running
  BY <1>0, <1>1
<1> QED BY <1>4, <1>5, <1>6 DEF AppliedUpTo

\* A change without a handler.
LEMMA SkipExtends ==
  ASSUME TypeOK, NEW s \in Server, NEW n \in 1..Len(handlers[s]),
         handlers[s][n].key \in Unsupported, AppliedUpTo(s, n - 1)
  PROVE  AppliedUpTo(s, n)
<1>0. Len(handlers[s]) \in Nat /\ handlers[s][n].key \notin Handled
  BY HandlerList DEF Handled
<1>1. \A i \in 1..n : i \in 1..(n - 1) \/ i = n
  BY <1>0
<1>2. n \in 0..Len(handlers[s])
  BY <1>0
<1> QED BY <1>0, <1>1, <1>2 DEF AppliedUpTo

\* revert() of the last applied handler.
LEMMA RevertShrinks ==
  ASSUME TypeOK, NEW s \in Server, NEW n \in Nat, n > 0, AppliedUpTo(s, n),
         hw' = Reverted(s, n), UNCHANGED <<orig, handlers, running>>
  PROVE  AppliedUpTo(s, n - 1)'
<1> DEFINE h == handlers[s]
           key == h[n].key
<1>0. /\ n \in 1..Len(h) /\ key \in Key /\ Handled \subseteq Key
      /\ \A i, j \in 1..Len(h) : h[i].key = h[j].key => i = j
      /\ \A i \in 1..Len(h) : h[i].key \in Key
      /\ Len(h) \in Nat
  BY HandlerList DEF AppliedUpTo, Handled
<1>1. /\ hw'[s][key] = orig[s][key]
      /\ \A k \in Key : k # key => hw'[s][k] = hw[s][k]
  BY <1>0 DEF Reverted, TypeOK
<1>2. \A i \in 1..(n - 1) : h[i].key # key /\ h[i].key \in Key /\ i \in 1..n
  BY <1>0
<1>3. \A i \in 1..(n - 1) : h[i].key \in Handled =>
         /\ hw'[s][h[i].key] = Effective(h[i].val)
         /\ orig'[s][h[i].key] = Effective(running'[s][h[i].key])
  BY <1>1, <1>2 DEF AppliedUpTo
<1>4. ASSUME NEW k \in Handled, \A i \in 1..(n - 1) : h[i].key # k
      PROVE  hw'[s][k] = Effective(running[s][k])
  <2>1. CASE k = key
    BY <1>0, <1>1, <2>1 DEF AppliedUpTo
  <2>2. CASE k # key
    <3>1. \A i \in 1..n : h[i].key # k
      BY <1>0, <1>4, <2>2
    <3> QED BY <1>0, <1>1, <2>2, <3>1 DEF AppliedUpTo
  <2> QED BY <2>1, <2>2
<1>5. n - 1 \in 0..Len(h)
  BY <1>0
<1> QED BY <1>3, <1>4, <1>5 DEF AppliedUpTo

\* Once all handlers are applied, committing their changes to the datastore
\* puts the device in line with it.
LEMMA CommitSyncs ==
  ASSUME TypeOK, NEW s \in Server, AppliedUpTo(s, Len(handlers[s])),
         handlers[s] = txCfg[s], running'[s] = Updated(running[s], txCfg[s]), UNCHANGED hw
  PROVE  InSync(s)'
<1> DEFINE h == handlers[s]
<1> SUFFICES ASSUME NEW k \in Handled
             PROVE  hw[s][k] = Effective(Updated(running[s], h)[k])
  BY DEF InSync
<1>0. k \in Key /\ DOMAIN h = 1..Len(h)
  BY HandlerList DEF Handled
<1>1. CASE \E i \in DOMAIN h : h[i].key = k
  <2> DEFINE j == CHOOSE i \in DOMAIN h : h[i].key = k
  <2>1. j \in DOMAIN h /\ h[j].key = k
    BY <1>1
  <2>2. Updated(running[s], h)[k] = h[j].val
    BY <1>0, <1>1 DEF Updated
  <2>3. hw[s][k] = Effective(h[j].val)
    BY <1>0, <2>1 DEF AppliedUpTo
  <2> QED BY <2>2, <2>3
<1>2. CASE ~\E i \in DOMAIN h : h[i].key = k
  <2>1. Updated(running[s], h)[k] = running[s][k]
    BY <1>0, <1>2 DEF Updated
  <2> QED BY <1>0, <1>2, <2>1 DEF AppliedUpTo
<1> QED BY <1>1, <1>2

\* A transaction that changes nothing in a model leaves its tree as it is.
LEMMA NothingUpdated ==
  ASSUME NEW cfg \in Config
  PROVE  Updated(cfg, <<>>) = cfg
BY DEF Updated, Config

-----------------------------------------------------------------------------
(* Steps that leave the device of a server alone.                          *)

ServerDev(s) == OwnChanges(s) /\ NotMissed(s) /\ DeviceState(s)

DeviceVars(t) == <<idx[t], tidx[t], handlers[t], orig[t], hw[t]>>

\* A step that leaves alone what t has to do with the transaction.
LEMMA UntouchedDevice ==
  ASSUME NEW t \in Server, ServerDev(t),
         UNCHANGED <<LocalVars(t), DeviceVars(t), running[t], inbox[t], txId, txPhase, txCfg>>,
         t \in txTodo \cup txWait \cup txAcked => t \in txTodo' \cup txWait' \cup txAcked',
         t \in txAcked => t \in txAcked'
  PROVE  ServerDev(t)'
<1>0. UNCHANGED <<hw[t], orig[t], handlers[t], running[t]>>
  BY DEF DeviceVars
<1>1. /\ InSync(t)' <=> InSync(t)
      /\ \A m : AppliedUpTo(t, m)' <=> AppliedUpTo(t, m)
  BY <1>0, DeviceUntouched
<1>2. OwnChanges(t)'
  BY DEF ServerDev, OwnChanges, LocalVars, DeviceVars
<1>3. NotMissed(t)'
  BY DEF ServerDev, NotMissed, LocalVars
<1>4. DoneComing(t)' <=> DoneComing(t)
  BY DEF DoneComing
<1>4a. /\ AppliedUpTo(t, idx[t])' <=> AppliedUpTo(t, idx[t])
       /\ AppliedUpTo(t, idx[t] - 1)' <=> AppliedUpTo(t, idx[t] - 1)
       /\ AppliedUpTo(t, tidx[t])' <=> AppliedUpTo(t, tidx[t])
       /\ AppliedUpTo(t, Len(handlers[t]))' <=> AppliedUpTo(t, Len(handlers[t]))
  BY DEF DeviceVars, AppliedUpTo
<1>5. DeviceState(t)'
  BY <1>1, <1>4, <1>4a DEF ServerDev, DeviceState, LocalVars, DeviceVars
<1> QED BY <1>2, <1>3, <1>5 DEF ServerDev

\* The same when a step also gives t an event, or changes how far the
\* transaction is: the device stays as it was.
LEMMA DeviceStateKept ==
  ASSUME NEW t \in Server, DeviceState(t),
         UNCHANGED <<LocalVars(t), DeviceVars(t), running[t]>>,
         DoneComing(t)' <=> DoneComing(t)
  PROVE  DeviceState(t)'
<1>1. InSync(t)' <=> InSync(t)
  BY DEF DeviceVars, InSync
<1>4a. /\ AppliedUpTo(t, idx[t])' <=> AppliedUpTo(t, idx[t])
       /\ AppliedUpTo(t, idx[t] - 1)' <=> AppliedUpTo(t, idx[t] - 1)
       /\ AppliedUpTo(t, tidx[t])' <=> AppliedUpTo(t, tidx[t])
       /\ AppliedUpTo(t, Len(handlers[t]))' <=> AppliedUpTo(t, Len(handlers[t]))
  BY DEF DeviceVars, AppliedUpTo
<1> QED BY <1>1, <1>4a DEF DeviceState, LocalVars, DeviceVars

\* An answer of another server.
LEMMA AnswerKeepsDevice ==
  ASSUME TypeOK, NEW s \in Server, NEW t \in Server, t # s,
         ServerInv(t), ServerDev(t), NEW id, NEW rest \in Seq(Event),
         Accept(s, id, rest) \/ Refuse(s, id, rest),
         UNCHANGED <<LocalVars(t), DeviceVars(t)>>
  PROVE  ServerDev(t)'
<1>0. inbox \in [Server -> Seq(Event)] /\ txId \in Nat
  BY ConstantsAssumption DEF TypeOK
<1>1. CASE Accept(s, id, rest)
  <2>1. /\ UNCHANGED <<txId, txPhase, txTodo, txCfg, running>> /\ inbox'[t] = inbox[t]
        /\ t \in txAcked' <=> t \in txAcked
        /\ t \in txWait' <=> t \in txWait
    BY <1>0, <1>1 DEF Accept
  <2> QED BY <2>1, UntouchedDevice
<1>2. CASE Refuse(s, id, rest) /\ ~(Awaited(s, id) /\ txPhase = "change")
  <2>1. /\ UNCHANGED <<txId, txPhase, txTodo, txAcked, txCfg, running>>
        /\ inbox'[t] = inbox[t]
        /\ t \in txWait' <=> t \in txWait
    BY <1>0, <1>2 DEF Refuse
  <2> QED BY <2>1, UntouchedDevice
<1>3. CASE Refuse(s, id, rest) /\ Awaited(s, id) /\ txPhase = "change"
  <2>0. /\ txPhase' = "finish" /\ txTodo' = {} /\ UNCHANGED <<txId, txAcked, txCfg, running>>
        /\ txWait' = {u \in txAcked \ {s} : Alive(u)}
    BY <1>3 DEF Refuse, Awaited
  <2>1. inbox' = [u \in Server |->
           IF u = s THEN rest
           ELSE IF u \in txWait'
           THEN Append(inbox[u], [ev |-> "abort", id |-> txId, chg |-> <<>>])
           ELSE inbox[u]]
    BY <1>3 DEF Refuse
  <2>2. \A i \in DOMAIN inbox[t] : inbox[t][i].ev = "change"
    BY <1>3 DEF ServerInv, FinishExpected
  <2>3. CASE t \in txWait'
    <3>1. inbox[t] = <<>>
      BY <1>3, <2>0, <2>3 DEF ServerInv, ChangeProgress
    <3>2. inbox'[t] = <<[ev |-> "abort", id |-> txId, chg |-> <<>>]>>
      <4>1. inbox'[t] = Append(inbox[t], [ev |-> "abort", id |-> txId, chg |-> <<>>])
        BY <2>0, <2>1, <2>3
      <4> QED BY <3>1, <4>1
    <3>3. DOMAIN inbox'[t] = {1} /\ inbox'[t][1].ev = "abort"
      BY <3>2
    <3>4. OwnChanges(t)'
      BY <2>0, <3>3 DEF ServerDev, OwnChanges, LocalVars, DeviceVars
    <3>5. NotMissed(t)'
      BY <2>0, <3>3, <1>3 DEF ServerDev, NotMissed, LocalVars
    <3>6. DoneComing(t)' <=> DoneComing(t)
      BY <2>2, <3>3 DEF DoneComing
    <3>7. DeviceState(t)'
      BY <2>0, <3>6, DeviceStateKept DEF ServerDev
    <3> QED BY <3>4, <3>5, <3>7 DEF ServerDev
  <2>4. CASE t \notin txWait'
    <3>1. inbox'[t] = inbox[t]
      BY <2>1, <2>4
    <3>4. OwnChanges(t)'
      BY <2>0, <3>1 DEF ServerDev, OwnChanges, LocalVars, DeviceVars
    <3>5. NotMissed(t)'
      <4>1. ~(status[t] = "up" /\ cur[t] # 0 /\ cur[t] = txId)
        BY <1>3, <2>0, <2>4 DEF ServerDev, NotMissed, Alive
      <4> QED BY <1>3, <2>0, <3>1, <4>1 DEF ServerDev, NotMissed, LocalVars
    <3>6. DoneComing(t)' <=> DoneComing(t)
      BY <3>1 DEF DoneComing
    <3>7. DeviceState(t)'
      BY <2>0, <3>6, DeviceStateKept DEF ServerDev
    <3> QED BY <3>4, <3>5, <3>7 DEF ServerDev
  <2> QED BY <2>3, <2>4
<1> QED BY <1>1, <1>2, <1>3

-----------------------------------------------------------------------------
(* Steps of the server itself.                                             *)

\* A 'change' at the head of the inbox: no 'done' or 'abort' is behind it, and
\* what is behind it was there before.
LEMMA HeadChange ==
  ASSUME TypeOK, NEW s \in Server, ServerInv(s), Takes(s, {"change"})
  PROVE  /\ \A i \in DOMAIN inbox[s] : inbox[s][i].ev = "change"
         /\ \A i \in DOMAIN Tail(inbox[s]) :
              \E j \in DOMAIN inbox[s] : Tail(inbox[s])[i] = inbox[s][j]
         /\ Tail(inbox[s]) \in Seq(Event)
         /\ Head(inbox[s]) = inbox[s][1] /\ 1 \in DOMAIN inbox[s]
<1>1. inbox[s] \in Seq(Event) /\ inbox[s] # <<>> /\ Head(inbox[s]).ev = "change"
  BY DEF TypeOK, Takes
<1>2. /\ 1 \in DOMAIN inbox[s] /\ Head(inbox[s]) = inbox[s][1]
      /\ DOMAIN inbox[s] = 1..Len(inbox[s]) /\ Len(inbox[s]) \in Nat
  BY <1>1, TailFacts
<1>3. ASSUME NEW i \in DOMAIN inbox[s] PROVE inbox[s][i].ev = "change"
  <2>1. CASE Len(inbox[s]) = 1
    BY <1>1, <1>2, <2>1
  <2>2. CASE Len(inbox[s]) # 1
    BY <2>2 DEF ServerInv, FinishExpected
  <2> QED BY <2>1, <2>2
<1>4. /\ \A i \in DOMAIN Tail(inbox[s]) : i + 1 \in DOMAIN inbox[s]
                                           /\ Tail(inbox[s])[i] = inbox[s][i + 1]
      /\ Tail(inbox[s]) \in Seq(Event)
  BY <1>1, TailFacts, TailType
<1> QED BY <1>2, <1>3, <1>4

\* s refuses a 'change' it has not begun to handle.
LEMMA RefusedDev ==
  ASSUME TypeOK, NEW s \in Server, ServerInv(s), ServerDev(s), Takes(s, {"change"}),
         Refuse(s, Head(inbox[s]).id, Tail(inbox[s])),
         UNCHANGED <<LocalVars(s), DeviceVars(s)>>
  PROVE  ServerDev(s)'
<1>0. /\ \A i \in DOMAIN inbox[s] : inbox[s][i].ev = "change"
      /\ \A i \in DOMAIN Tail(inbox[s]) :
           \E j \in DOMAIN inbox[s] : Tail(inbox[s])[i] = inbox[s][j]
      /\ Tail(inbox[s]) \in Seq(Event)
      /\ inbox[s] # <<>> /\ pc[s] = "idle"
  BY HeadChange DEF Takes
<1>1. /\ inbox'[s] = Tail(inbox[s]) /\ UNCHANGED <<txId, txAcked, txCfg, running>>
      /\ \/ txPhase = "change" /\ txPhase' = "finish"
         \/ /\ UNCHANGED <<txPhase, txTodo>>
            /\ txWait' = txWait \/ txPhase # "change"
  BY <1>0, RefuseSelf DEF Refuse
<1>2. ~DoneComing(s) /\ ~DoneComing(s)'
  BY <1>0, <1>1 DEF DoneComing
<1>3. ~(status[s] = "up" /\ cur[s] # 0 /\ cur[s] = txId /\ txPhase # "idle")
  <2>1. txPhase \in {"idle", "change", "finish"}
    BY DEF TypeOK
  <2> QED BY <1>0, <2>1 DEF ServerDev, NotMissed, ServerInv, ChangeProgress
<1>4. OwnChanges(s)'
  BY <1>0, <1>1 DEF ServerDev, OwnChanges, LocalVars, DeviceVars
<1>5. NotMissed(s)'
  BY <1>1, <1>3 DEF ServerDev, NotMissed, LocalVars
<1>6. DeviceState(s)'
  BY <1>1, <1>2, DeviceStateKept DEF ServerDev
<1> QED BY <1>4, <1>5, <1>6 DEF ServerDev

\* 'change' is taken.
LEMMA ChangeBeginDev ==
  ASSUME TypeOK, TypeOK', NEW s \in Server, ServerInv(s), ServerDev(s), ChangeBegin(s)
  PROVE  ServerDev(s)'
<1>0. /\ \A i \in DOMAIN inbox[s] : inbox[s][i].ev = "change"
      /\ \A i \in DOMAIN Tail(inbox[s]) :
           \E j \in DOMAIN inbox[s] : Tail(inbox[s])[i] = inbox[s][j]
      /\ pc[s] = "idle" /\ cur[s] = 0
      /\ Head(inbox[s]) = inbox[s][1] /\ 1 \in DOMAIN inbox[s]
  BY HeadChange DEF ChangeBegin, StartHandlers, Takes
<1>1. /\ inbox'[s] = Tail(inbox[s]) /\ pc'[s] = "apply" /\ idx'[s] = 1
      /\ reqId'[s] = inbox[s][1].id /\ handlers'[s] = inbox[s][1].chg
  BY <1>0 DEF ChangeBegin, StartHandlers, TypeOK
<1>2. UNCHANGED <<txId, txPhase, txTodo, txAcked, txWait, txCfg, running, hw, orig,
                  cur, timer, tidx, status>>
  BY DEF ChangeBegin, StartHandlers, sysrepoVars, revertVars, processVars
<1>3. ~DoneComing(s)
  BY <1>0 DEF DoneComing
<1>4. OwnChanges(s)'
  BY <1>0, <1>1, <1>2 DEF ServerDev, OwnChanges
<1>5. NotMissed(s)'
  BY <1>0, <1>1, <1>2 DEF ServerDev, NotMissed
<1>6. status[s] = "up" => AppliedUpTo(s, 0)'
  <2>1. status[s] = "up" => InSync(s)
    BY <1>0, <1>3 DEF ServerDev, DeviceState
  <2>2. InSync(s) => InSync(s)'
    BY <1>2 DEF InSync
  <2>3. Len(handlers'[s]) \in Nat
    BY HandlerList, ChangeLists DEF TypeOK
  <2>4. InSync(s)' => AppliedUpTo(s, 0)'
    BY <2>3 DEF AppliedUpTo, InSync
  <2> QED BY <2>1, <2>2, <2>4
<1>6a. AppliedUpTo(s, 0)' => AppliedUpTo(s, idx[s] - 1)'
  BY <1>1 DEF AppliedUpTo
<1>7. timer[s] = "off"
  BY <1>0 DEF ServerInv, CallbackState
<1>8. status[s] = "starting" => InSync(s)'
  BY <1>2 DEF ServerDev, DeviceState, InSync
<1>9. DeviceState(s)'
  BY <1>1, <1>2, <1>6, <1>6a, <1>7, <1>8 DEF DeviceState
<1> QED BY <1>4, <1>5, <1>9 DEF ServerDev

\* A handler is applied or skipped, or its apply() raises; a handler is
\* reverted in a rollback or an 'abort'.
LEMMA HandlerStepDev ==
  ASSUME TypeOK, TypeOK', NEW s \in Server, ServerInv(s), ServerDev(s),
         ApplyOk(s) \/ SkipDeleted(s) \/ ApplyRaises(s) \/ RevertStep(s)
  PROVE  ServerDev(s)'
<1>0. /\ UNCHANGED <<txId, txPhase, txTodo, txAcked, txWait, txCfg, running, inbox,
                     reqId, handlers, cur, timer, tidx, status>>
      /\ pc[s] # "idle" /\ pc'[s] # "idle" /\ Alive(s)
      /\ pc'[s] = "abort" <=> pc[s] = "abort"
  BY
     DEF ApplyOk, Applying, ApplyHandler, SkipDeleted, Advance, ApplyRaises, RollbackFrom,
         RevertStep, sysrepoVars, revertVars, processVars, TypeOK
<1>1. OwnChanges(s)'
  BY <1>0 DEF ServerDev, OwnChanges
<1>2. NotMissed(s)'
  BY <1>0 DEF ServerDev, NotMissed
<1>3. timer[s] = "off" /\ idx[s] \in Nat
  BY <1>0 DEF ServerInv, CallbackState, TypeOK
<1>4. status[s] # "starting"
  BY <1>0 DEF Alive
<1>5. CASE ApplyOk(s)
  <2>1. pc[s] = "apply" /\ pc' = pc /\ idx'[s] = idx[s] + 1
    BY <1>5 DEF ApplyOk, Applying, ApplyHandler, TypeOK
  <2>2. status[s] = "up" => AppliedUpTo(s, idx[s] - 1)
    BY <2>1 DEF ServerDev, DeviceState
  <2>3. \A n \in Nat : n = idx[s] /\ AppliedUpTo(s, n - 1) => AppliedUpTo(s, n)'
    BY <1>5, ApplyExtends
  <2>4. \A n \in Nat : n = idx[s] /\ AppliedUpTo(s, n)' => AppliedUpTo(s, idx[s] - 1)'
    BY <2>1 DEF AppliedUpTo
  <2>5. status[s] = "up" => AppliedUpTo(s, idx[s] - 1)'
    BY <1>3, <2>2, <2>3, <2>4
  <2>6. idx'[s] > 0
    BY <1>3, <2>1
  <2> QED BY <1>0, <1>1, <1>2, <1>3, <1>4, <2>1, <2>5, <2>6 DEF ServerDev, DeviceState
<1>6. CASE SkipDeleted(s)
  <2>1. /\ pc[s] = "apply" /\ pc' = pc /\ idx'[s] = idx[s] + 1 /\ UNCHANGED <<hw, orig>>
        /\ idx[s] \in 1..Len(handlers[s]) /\ handlers[s][idx[s]].key \in Unsupported
    BY <1>6, HandlerList DEF SkipDeleted, Advance, TypeOK
  <2>2. status[s] = "up" => AppliedUpTo(s, idx[s] - 1)
    BY <2>1 DEF ServerDev, DeviceState
  <2>3. status[s] = "up" => AppliedUpTo(s, idx[s])
    BY <2>1, <2>2, SkipExtends
  <2>4. AppliedUpTo(s, idx[s]) => AppliedUpTo(s, idx[s] - 1)'
    <3>1. idx'[s] - 1 = idx[s]
      BY <1>3, <2>1
    <3> QED BY <1>0, <2>1, <3>1 DEF AppliedUpTo
  <2>6. idx'[s] > 0
    BY <1>3, <2>1
  <2> QED BY <1>0, <1>1, <1>2, <1>3, <1>4, <2>1, <2>3, <2>4, <2>6 DEF ServerDev, DeviceState
<1>7. CASE ApplyRaises(s)
  <2>1. /\ pc[s] = "apply" /\ pc'[s] = "rollback" /\ idx'[s] = idx[s] - 1 /\ UNCHANGED <<hw, orig>>
    BY <1>7 DEF ApplyRaises, Applying, RollbackFrom, TypeOK
  <2>2. status[s] = "up" => AppliedUpTo(s, idx[s] - 1)
    BY <2>1 DEF ServerDev, DeviceState
  <2>3. AppliedUpTo(s, idx[s] - 1) => AppliedUpTo(s, idx[s])'
    BY <1>0, <2>1 DEF AppliedUpTo
  <2> QED BY <1>0, <1>1, <1>2, <1>3, <1>4, <2>1, <2>2, <2>3 DEF ServerDev, DeviceState
<1>8. CASE RevertStep(s)
  <2>1. /\ pc[s] \in {"rollback", "abort"} /\ pc' = pc /\ idx'[s] = idx[s] - 1
        /\ idx[s] > 0 /\ hw' = Reverted(s, idx[s]) /\ UNCHANGED orig
    BY <1>8 DEF RevertStep, TypeOK
  <2>2. status[s] = "up" => AppliedUpTo(s, idx[s])
    BY <2>1 DEF ServerDev, DeviceState
  <2>3. \A n \in Nat : n = idx[s] /\ AppliedUpTo(s, n) => AppliedUpTo(s, n - 1)'
    BY <1>0, <2>1, RevertShrinks
  <2>4. \A n \in Nat : n = idx[s] /\ AppliedUpTo(s, n - 1)' => AppliedUpTo(s, idx[s])'
    BY <2>1 DEF AppliedUpTo
  <2>5. status[s] = "up" => AppliedUpTo(s, idx[s])'
    BY <1>3, <2>2, <2>3, <2>4
  <2> QED BY <1>0, <1>1, <1>2, <1>3, <1>4, <2>1, <2>5 DEF ServerDev, DeviceState
<1> QED BY <1>5, <1>6, <1>7, <1>8

\* The callback of s ends: a rollback is complete, 'change' is accepted or an
\* 'abort' is complete.
LEMMA CallbackEndDev ==
  ASSUME TypeOK, NEW s \in Server, ServerInv(s), ServerDev(s),
         RollbackEnd(s) \/ ChangeEnd(s) \/ AbortEnd(s)
  PROVE  ServerDev(s)'
<1>0. /\ UNCHANGED <<reqId, idx, handlers, orig, tidx, hw, status>>
      /\ pc[s] # "idle" /\ pc'[s] = "idle" /\ status[s] # "starting"
      /\ inbox[s] \in Seq(Event)
  BY DEF RollbackEnd, ChangeEnd, EndChange, AbortEnd, revertVars, processVars, TypeOK, Alive
<1>1. UNCHANGED <<txId, running, txCfg>> /\ inbox'[s] = inbox[s]
  BY <1>0, RefuseSelf, AcceptSelf
     DEF RollbackEnd, ChangeEnd, EndChange, AbortEnd, Refuse, Accept
<1>2. (InSync(s)' <=> InSync(s)) /\ (DoneComing(s)' <=> DoneComing(s))
  BY <1>0, <1>1 DEF InSync, DoneComing
<1>2a. ~DoneComing(s)
  BY <1>0 DEF DoneComing, ServerInv, FinishExpected
<1>3. CASE RollbackEnd(s)
  <2>1. pc[s] = "rollback" /\ idx[s] = 0 /\ UNCHANGED <<cur, timer>> /\ cur[s] = 0 /\ timer[s] = "off"
    BY <1>3 DEF RollbackEnd, revertVars, ServerInv, CallbackState
  <2>2. status[s] = "up" => InSync(s)
    BY <2>1, NoneApplied DEF ServerDev, DeviceState
  <2>3. /\ UNCHANGED txAcked
        /\ \/ txPhase = "change" /\ txPhase' = "finish"
           \/ /\ UNCHANGED <<txPhase, txTodo>>
              /\ txWait' = txWait \/ txPhase # "change"
    BY <1>0, <1>3, RefuseSelf DEF RollbackEnd
  <2>4. OwnChanges(s)'
    BY <1>0, <1>1, <2>1 DEF ServerDev, OwnChanges
  <2>5. NotMissed(s)'
    BY <1>0, <1>1, <2>1, <2>3 DEF ServerDev, NotMissed
  <2>6. DeviceState(s)'
    BY <1>0, <1>2, <2>1, <2>2 DEF DeviceState
  <2> QED BY <2>4, <2>5, <2>6 DEF ServerDev
<1>4. CASE ChangeEnd(s)
  <2>1. /\ pc[s] = "apply" /\ idx[s] = Len(handlers[s]) + 1 /\ cur'[s] = reqId[s] /\ timer'[s] = "sleep"
        /\ cur[s] = 0 /\ reqId[s] > 0
    BY <1>4 DEF ChangeEnd, EndChange, TypeOK, ServerInv, CallbackState, EventOrder
  <2>2. /\ UNCHANGED <<txPhase, txTodo>>
        /\ txWait' = IF Awaited(s, reqId[s]) THEN txWait \ {s} ELSE txWait
        /\ txAcked' = IF Awaited(s, reqId[s]) /\ txPhase = "change" THEN txAcked \cup {s} ELSE txAcked
    BY <1>0, <1>4, AcceptSelf DEF ChangeEnd, EndChange
  <2>3. reqId[s] = txId => ChangeOfTx(s)
    BY <2>1 DEF ChangeOfTx
  <2>4. OwnChanges(s)'
    BY <1>0, <1>1, <2>1 DEF ServerDev, OwnChanges
  <2>5. NotMissed(s)'
    <3>1. txPhase = "change" /\ reqId[s] = txId => s \in txAcked'
      BY <2>2, <2>3 DEF ServerInv, ChangeProgress, Awaited
    <3>2. txPhase = "finish" => reqId[s] # txId
      BY <2>3 DEF ServerInv, ChangeProgress
    <3>3. txPhase = "change" => (s \in txTodo \cup txWait \cup txAcked
                                  => s \in txTodo' \cup txWait' \cup txAcked')
      BY <2>2
    <3> QED BY <1>0, <1>1, <2>1, <2>2, <3>1, <3>2, <3>3 DEF ServerDev, NotMissed
  <2>6. status[s] = "up" => AppliedUpTo(s, Len(handlers[s]))'
    <3>1. Len(handlers[s]) \in Nat /\ idx[s] - 1 = Len(handlers[s])
      BY <2>1, HandlerList
    <3>2. status[s] = "up" => AppliedUpTo(s, Len(handlers[s]))
      BY <2>1, <3>1 DEF ServerDev, DeviceState
    <3> QED BY <1>0, <1>1, <3>2 DEF AppliedUpTo
  <2>7. DeviceState(s)'
    BY <1>0, <1>2, <1>2a, <2>1, <2>6 DEF DeviceState
  <2> QED BY <2>4, <2>5, <2>7 DEF ServerDev
<1>5. CASE AbortEnd(s)
  <2>1. pc[s] = "abort" /\ idx[s] = 0 /\ cur'[s] = 0 /\ timer'[s] = "off" /\ txPhase = "finish"
    BY <1>5 DEF AbortEnd, TypeOK, ServerInv, CallbackState
  <2>2. UNCHANGED <<txPhase, txTodo>>
    BY <1>0, <1>5, AcceptSelf DEF AbortEnd
  <2>3. status[s] = "up" => InSync(s)
    BY <2>1, NoneApplied DEF ServerDev, DeviceState
  <2>4. OwnChanges(s)'
    BY <1>0, <1>1, <2>1 DEF ServerDev, OwnChanges
  <2>5. NotMissed(s)'
    BY <1>0, <1>1, <2>1, <2>2 DEF ServerDev, NotMissed
  <2>6. DeviceState(s)'
    BY <1>0, <1>2, <2>1, <2>3 DEF DeviceState
  <2> QED BY <2>4, <2>5, <2>6 DEF ServerDev
<1> QED BY <1>3, <1>4, <1>5

\* 'done' or 'abort' of a server that stores handlers.
LEMMA FinishEventDev ==
  ASSUME TypeOK, NEW s \in Server, ServerInv(s), ServerDev(s), FinishEvent(s)
  PROVE  ServerDev(s)'
<1> DEFINE q == inbox[s]
<1>0. /\ q \in Seq(Event) /\ q # <<>> /\ pc[s] = "idle" /\ Alive(s)
      /\ Head(q) = q[1] /\ 1 \in DOMAIN q /\ Tail(q) \in Seq(Event)
      /\ q[1].ev \in {"done", "abort"} /\ cur[s] # 0
  <2>1. q \in Seq(Event) /\ q # <<>>
    BY DEF TypeOK, FinishEvent, Takes
  <2> QED BY <2>1, TailFacts DEF FinishEvent, Takes
<1>1. /\ DOMAIN q = {1} /\ q[1].id = txId /\ txPhase = "finish" /\ cur[s] = txId /\ Tail(q) = <<>>
  <2>1. Len(q) = 1 /\ q[1].id = txId /\ txPhase = "finish" /\ cur[s] = txId
    BY <1>0 DEF ServerInv, FinishExpected
  <2> QED BY <1>0, <2>1, TailFacts
<1>2. /\ UNCHANGED <<handlers, orig, tidx>> /\ timer'[s] = "off" /\ status[s] # "starting"
      /\ handlers[s] = txCfg[s]
  BY <1>0, <1>1 DEF FinishEvent, CancelRevertTask, TypeOK, ServerDev, OwnChanges, Alive
<1>3. status[s] = "up" => timer[s] = "sleep" /\ hw' = hw
  <2>1. status[s] = "up" => timer[s] = "sleep"
    BY <1>0, <1>1 DEF ServerDev, NotMissed
  <2> QED BY <2>1 DEF FinishEvent, CancelRevertTask
<1>4. CASE q[1].ev = "abort"
  <2>1. /\ inbox' = [inbox EXCEPT ![s] = Tail(@)] /\ pc' = [pc EXCEPT ![s] = "abort"]
        /\ reqId' = [reqId EXCEPT ![s] = q[1].id] /\ idx' = [idx EXCEPT ![s] = Len(handlers[s])]
        /\ UNCHANGED <<sysrepoVars, cur, status>>
    BY <1>0, <1>1, <1>4, FinishEventInv DEF FinishEvent
  <2>2. /\ inbox'[s] = <<>> /\ pc'[s] = "abort" /\ idx'[s] = Len(handlers[s])
        /\ UNCHANGED <<running, txId, txPhase, txCfg, txTodo, txAcked, txWait, cur, status>>
    BY <1>1, <2>1 DEF TypeOK, sysrepoVars
  <2>3. status[s] = "up" => AppliedUpTo(s, Len(handlers[s]))
    <3>1. ~DoneComing(s)
      BY <1>1, <1>4 DEF DoneComing
    <3> QED BY <1>0, <1>3, <3>1 DEF ServerDev, DeviceState
  <2>4. status[s] = "up" => AppliedUpTo(s, idx[s])'
    BY <1>2, <1>3, <2>2, <2>3 DEF AppliedUpTo
  <2>5. OwnChanges(s)' /\ NotMissed(s)'
    BY <1>1, <1>2, <2>2 DEF ServerDev, OwnChanges, NotMissed
  <2>6. DeviceState(s)'
    BY <1>2, <2>2, <2>4 DEF DeviceState
  <2> QED BY <2>5, <2>6 DEF ServerDev
<1>5. CASE q[1].ev # "abort"
  <2>1. Accept(s, q[1].id, Tail(q)) /\ cur' = [cur EXCEPT ![s] = 0]
        /\ UNCHANGED <<pc, reqId, idx, status>>
    BY <1>0, <1>1, <1>5, FinishEventInv DEF FinishEvent
  <2>2. inbox'[s] = <<>> /\ UNCHANGED <<running, txCfg, txId, txPhase, txTodo>> /\ cur'[s] = 0
    BY <1>0, <1>1, <2>1, AcceptSelf DEF Accept, TypeOK
  <2>3. status[s] = "up" => InSync(s)
    <3>1. DoneComing(s)
      BY <1>0, <1>5 DEF DoneComing
    <3> QED BY <1>0, <1>3, <3>1 DEF ServerDev, DeviceState
  <2>4. status[s] = "up" => InSync(s)'
    BY <1>3, <2>2, <2>3 DEF InSync
  <2>5. OwnChanges(s)' /\ NotMissed(s)'
    BY <1>0, <1>1, <1>2, <2>1, <2>2 DEF ServerDev, OwnChanges, NotMissed
  <2>6. DeviceState(s)'
    BY <1>0, <1>2, <2>1, <2>2, <2>4 DEF DeviceState
  <2> QED BY <2>5, <2>6 DEF ServerDev
<1> QED BY <1>4, <1>5

\* The revert task of s.
LEMMA TimerDev ==
  ASSUME TypeOK, Benign, NEW s \in Server, ServerInv(s), ServerDev(s), TimerStep(s)
  PROVE  ServerDev(s)'
<1>0. /\ UNCHANGED <<running, txId, txPhase, txTodo, txAcked, txWait, txCfg, inbox, pc,
                     reqId, idx, handlers, orig, status>>
      /\ timer[s] \in {"sleep", "revert"} /\ status[s] # "starting"
  BY
     DEF TimerStep, TimerFires, TimerReverts, TimerRevertRaises, TimerEnds, EndRevert,
         sysrepoVars, callbackVars, processVars, Alive
<1>1. pc[s] = "idle" /\ cur[s] # 0 /\ Len(handlers[s]) \in Nat /\ tidx[s] \in Nat
  BY <1>0, HandlerList DEF ServerInv, CallbackState, TypeOK
<1>2. CASE TimerFires(s)
  <2>1. /\ timer[s] = "sleep" /\ timer'[s] = "revert" /\ tidx'[s] = Len(handlers[s])
        /\ UNCHANGED <<cur, hw>> /\ (txPhase = "idle" \/ txId # cur[s])
    BY <1>2 DEF TimerFires, TypeOK, Benign
  <2>2. ~DoneComing(s)
    BY <1>1, <2>1 DEF DoneComing, ServerInv, FinishExpected
  <2>3. status[s] = "up" => AppliedUpTo(s, tidx[s])'
    <3>1. status[s] = "up" => AppliedUpTo(s, Len(handlers[s]))
      BY <1>1, <2>1, <2>2 DEF ServerDev, DeviceState
    <3> QED BY <1>0, <2>1, <3>1 DEF AppliedUpTo
  <2>4. OwnChanges(s)' /\ NotMissed(s)'
    BY <1>0, <1>1, <2>1 DEF ServerDev, OwnChanges, NotMissed
  <2> QED BY <1>0, <1>1, <2>1, <2>3, <2>4 DEF ServerDev, DeviceState
<1>3. CASE TimerReverts(s)
  <2>1. /\ timer[s] = "revert" /\ timer' = timer /\ tidx'[s] = tidx[s] - 1 /\ tidx[s] > 0
        /\ cur' = cur /\ hw' = Reverted(s, tidx[s])
    BY <1>3 DEF TimerReverts, TypeOK
  <2>2. status[s] = "up" => AppliedUpTo(s, tidx[s])
    BY <2>1 DEF ServerDev, DeviceState
  <2>3. \A n \in Nat : n = tidx[s] /\ AppliedUpTo(s, n) => AppliedUpTo(s, n - 1)'
    BY <1>0, <2>1, RevertShrinks
  <2>4. \A n \in Nat : n = tidx[s] /\ AppliedUpTo(s, n - 1)' => AppliedUpTo(s, tidx[s])'
    BY <2>1 DEF AppliedUpTo
  <2>5. status[s] = "up" => AppliedUpTo(s, tidx[s])'
    BY <1>1, <2>2, <2>3, <2>4
  <2>6. OwnChanges(s)' /\ NotMissed(s)'
    BY <1>0, <2>1 DEF ServerDev, OwnChanges, NotMissed
  <2> QED BY <1>0, <1>1, <2>1, <2>5, <2>6 DEF ServerDev, DeviceState
<1>4. CASE TimerRevertRaises(s)
  BY <1>4 DEF TimerRevertRaises, Benign
<1>5. CASE TimerEnds(s)
  <2>1. /\ timer[s] = "revert" /\ timer'[s] = "off" /\ tidx[s] = 0 /\ cur'[s] = 0
        /\ UNCHANGED <<tidx, hw>>
    BY <1>5 DEF TimerEnds, EndRevert, TypeOK
  <2>2. status[s] = "up" => InSync(s)
    BY <2>1, NoneApplied DEF ServerDev, DeviceState
  <2>3. InSync(s) => InSync(s)'
    BY <1>0, <2>1 DEF InSync
  <2>4. OwnChanges(s)' /\ NotMissed(s)'
    BY <1>0, <1>1, <2>1 DEF ServerDev, OwnChanges, NotMissed
  <2> QED BY <1>0, <1>1, <2>1, <2>2, <2>3, <2>4 DEF ServerDev, DeviceState
<1> QED BY <1>2, <1>3, <1>4, <1>5 DEF TimerStep

\* A step of the callback of s.
LEMMA CallbackOwnDev ==
  ASSUME TypeOK, TypeOK', Benign, NEW s \in Server, ServerInv(s), ServerDev(s), CallbackStep(s)
  PROVE  ServerDev(s)'
<1>1. CASE RejectBusy(s) \/ ChangeRefused(s)
  <2>1. /\ Takes(s, {"change"}) /\ Refuse(s, Head(inbox[s]).id, Tail(inbox[s]))
        /\ UNCHANGED <<LocalVars(s), DeviceVars(s)>>
    BY <1>1 DEF RejectBusy, Busy, ChangeRefused, LocalVars, DeviceVars, revertVars, processVars
  <2> QED BY <2>1, RefusedDev
<1>2. CASE FinishNull(s)
  <2>0. /\ inbox[s] \in Seq(Event) /\ inbox[s] # <<>> /\ pc[s] = "idle" /\ cur[s] = 0
        /\ Tail(inbox[s]) \in Seq(Event) /\ Head(inbox[s]) = inbox[s][1] /\ 1 \in DOMAIN inbox[s]
        /\ inbox[s][1].ev # "change"
    <3>1. inbox[s] \in Seq(Event) /\ inbox[s] # <<>>
      BY <1>2 DEF TypeOK, FinishNull, Takes
    <3> QED BY <1>2, <3>1, TailFacts, TailType DEF FinishNull, Takes
  <2>1. Len(inbox[s]) = 1 /\ txPhase = "finish"
    BY <2>0 DEF ServerInv, FinishExpected
  <2>2. Tail(inbox[s]) = <<>>
    BY <2>0, <2>1, TailFacts
  <2>3. inbox'[s] = <<>> /\ UNCHANGED <<txId, txPhase, txCfg>>
    <3>1. Refuse(s, Head(inbox[s]).id, Tail(inbox[s]))
      BY <1>2 DEF FinishNull
    <3>2. UNCHANGED txCfg
      BY <3>1 DEF Refuse
    <3> QED BY <2>0, <2>1, <2>2, <3>1, <3>2, RefuseSelf
  <2>4. status'[s] = "fatal" /\ UNCHANGED <<pc, reqId, handlers, cur, timer>>
    BY <1>2 DEF FinishNull, TypeOK, revertVars
  <2> QED BY <2>0, <2>1, <2>3, <2>4 DEF ServerDev, OwnChanges, NotMissed, DeviceState
<1>3. CASE ChangeBegin(s)
  BY <1>3, ChangeBeginDev
<1>4. CASE ApplyOk(s) \/ SkipDeleted(s) \/ ApplyRaises(s) \/ RevertStep(s)
  BY <1>4, HandlerStepDev
<1>5. CASE RollbackEnd(s) \/ ChangeEnd(s) \/ AbortEnd(s)
  BY <1>5, CallbackEndDev
<1>6. CASE RevertRaises(s) \/ PostRaises(s)
  BY <1>6 DEF RevertRaises, PostRaises, Benign
<1>7. CASE FinishEvent(s)
  BY <1>7, FinishEventDev
<1>8. CASE FinishRaises(s)
  <2>0. /\ inbox[s] \in Seq(Event) /\ inbox[s] # <<>> /\ pc[s] = "idle" /\ cur[s] # 0
        /\ Tail(inbox[s]) \in Seq(Event) /\ Head(inbox[s]) = inbox[s][1] /\ 1 \in DOMAIN inbox[s]
        /\ inbox[s][1].ev # "change" /\ timer[s] = "raised"
    <3>1. inbox[s] \in Seq(Event) /\ inbox[s] # <<>>
      BY <1>8 DEF TypeOK, FinishRaises, Takes
    <3> QED BY <1>8, <3>1, TailFacts, TailType DEF FinishRaises, Takes
  <2>1. Len(inbox[s]) = 1 /\ txPhase = "finish"
    BY <2>0 DEF ServerInv, FinishExpected
  <2>2. Tail(inbox[s]) = <<>>
    BY <2>0, <2>1, TailFacts
  <2>3. inbox'[s] = <<>> /\ UNCHANGED <<txId, txPhase, txCfg>>
    BY <1>8, <2>0, <2>1, <2>2, RefuseSelf DEF FinishRaises, Refuse
  <2>4. status[s] # "up" /\ status[s] # "starting"
    BY <1>8, <2>0 DEF ServerDev, NotMissed, FinishRaises, Takes, Alive
  <2>5. UNCHANGED <<pc, reqId, handlers, cur, timer, status>>
    BY <1>8 DEF FinishRaises, revertVars, processVars
  <2> QED BY <2>0, <2>1, <2>3, <2>4, <2>5 DEF ServerDev, OwnChanges, NotMissed, DeviceState
<1> QED BY <1>1, <1>2, <1>3, <1>4, <1>5, <1>6, <1>7, <1>8 DEF CallbackStep

\* A step of the callback of s leaves what another server has alone.
LEMMA CallbackFrame ==
  ASSUME TypeOK, NEW s \in Server, ServerInv(s), CallbackStep(s), NEW t \in Server, t # s
  PROVE  UNCHANGED <<LocalVars(t), DeviceVars(t)>>
<1> USE DEF callbackVars, sysrepoVars, revertVars, processVars
<1>1. UNCHANGED <<pc[t], reqId[t], cur[t]>>
  BY
     DEF CallbackStep, TypeOK, RejectBusy, Busy, ChangeRefused, ChangeBegin, StartHandlers,
         ApplyOk, Applying, ApplyHandler, SkipDeleted, Advance, ApplyRaises, RollbackFrom,
         RevertStep, RevertRaises, RollbackEnd, ChangeEnd, EndChange, PostRaises, FinishNull,
         FinishEvent, AbortEnd, FinishRaises
<1>2. UNCHANGED <<timer[t], status[t], tidx[t]>>
  BY
     DEF CallbackStep, TypeOK, RejectBusy, Busy, ChangeRefused, ChangeBegin, StartHandlers,
         ApplyOk, Applying, ApplyHandler, SkipDeleted, Advance, ApplyRaises, RollbackFrom,
         RevertStep, RevertRaises, RollbackEnd, ChangeEnd, EndChange, PostRaises, FinishNull,
         FinishEvent, AbortEnd, FinishRaises, CancelRevertTask
<1>3. UNCHANGED <<idx[t], handlers[t], orig[t]>>
  BY
     DEF CallbackStep, TypeOK, RejectBusy, Busy, ChangeRefused, ChangeBegin, StartHandlers,
         ApplyOk, Applying, ApplyHandler, SkipDeleted, Advance, ApplyRaises, RollbackFrom,
         RevertStep, RevertRaises, RollbackEnd, ChangeEnd, EndChange, PostRaises, FinishNull,
         FinishEvent, AbortEnd, FinishRaises
<1>4. UNCHANGED hw[t]
  <2>1. CASE FinishEvent(s)
    BY <2>1 DEF FinishEvent, CancelRevertTask, RevertedAfter, TypeOK
  <2>2. CASE ~FinishEvent(s)
    BY <2>2
       DEF CallbackStep, TypeOK, RejectBusy, Busy, ChangeRefused, ChangeBegin, StartHandlers,
           ApplyOk, Applying, ApplyHandler, SkipDeleted, Advance, ApplyRaises, RollbackFrom,
           RevertStep, RevertRaises, RollbackEnd, ChangeEnd, EndChange, PostRaises,
           FinishNull, AbortEnd, FinishRaises, Reverted
  <2> QED BY <2>1, <2>2
<1> QED BY <1>1, <1>2, <1>3, <1>4 DEF LocalVars, DeviceVars

\* ... does not disturb another server.
LEMMA CallbackOtherDev ==
  ASSUME TypeOK, NEW s \in Server, ServerInv(s), CallbackStep(s),
         NEW t \in Server, t # s, ServerInv(t), ServerDev(t)
  PROVE  ServerDev(t)'
<1> USE DEF callbackVars, sysrepoVars, revertVars, processVars
<1>0. inbox[s] \in Seq(Event) /\ (inbox[s] # <<>> => Tail(inbox[s]) \in Seq(Event))
  BY TailType DEF TypeOK
<1>1. UNCHANGED <<LocalVars(t), DeviceVars(t)>>
  BY CallbackFrame
<1>2. CASE ChangeBegin(s) \/ ApplyOk(s) \/ SkipDeleted(s) \/ ApplyRaises(s) \/ RevertStep(s)
  <2>1. UNCHANGED <<inbox[t], running, txCfg, txId, txPhase, txTodo, txAcked, txWait>>
    BY <1>2
       DEF ChangeBegin, StartHandlers, ApplyOk, Applying, ApplyHandler, SkipDeleted, Advance,
           ApplyRaises, RollbackFrom, RevertStep, TypeOK
  <2> QED BY <1>1, <2>1, UntouchedDevice
<1>3. CASE RejectBusy(s) \/ ChangeRefused(s) \/ FinishNull(s) \/ FinishRaises(s)
  BY <1>0, <1>1, <1>3, AnswerKeepsDevice
     DEF RejectBusy, Busy, ChangeRefused, FinishNull, FinishRaises, Takes
<1>4. CASE RevertRaises(s) \/ RollbackEnd(s) \/ PostRaises(s) \/ ChangeEnd(s) \/ AbortEnd(s)
  BY <1>0, <1>1, <1>4, AnswerKeepsDevice
     DEF RevertRaises, RollbackEnd, PostRaises, ChangeEnd, EndChange, AbortEnd
<1>5. CASE FinishEvent(s)
  <2>1. CASE Head(inbox[s]).ev = "abort"
    <3>1. UNCHANGED <<inbox[t], running, txCfg, txId, txPhase, txTodo, txAcked, txWait>>
      BY <1>5, <2>1, FinishEventInv DEF FinishEvent, TypeOK
    <3> QED BY <1>1, <3>1, UntouchedDevice
  <2>2. CASE Head(inbox[s]).ev # "abort"
    <3>1. Accept(s, Head(inbox[s]).id, Tail(inbox[s])) /\ inbox[s] # <<>>
      BY <1>5, <2>2, FinishEventInv DEF FinishEvent, Takes
    <3> QED BY <1>0, <1>1, <3>1, AnswerKeepsDevice
  <2> QED BY <2>1, <2>2
<1> QED BY <1>2, <1>3, <1>4, <1>5 DEF CallbackStep

-----------------------------------------------------------------------------
(* Steps of sysrepo.                                                       *)

LEMMA BeginDev ==
  ASSUME TypeOK, Benign, NEW t \in Server, ServerInv(t), ServerDev(t), Begin
  PROVE  ServerDev(t)'
<1>0. /\ txPhase = "idle" /\ txId' = txId + 1 /\ txPhase' = "change" /\ txId \in Nat
      /\ UNCHANGED <<inbox, pc, reqId, idx, handlers, orig, cur, timer, tidx, hw, status, running>>
  BY ConstantsAssumption DEF Begin, callbackVars, revertVars, processVars, TypeOK
<1>1. /\ \A i \in DOMAIN inbox[t] : inbox[t][i].id \in Nat /\ inbox[t][i].id <= txId
      /\ reqId[t] \in Nat /\ cur[t] \in Nat /\ reqId[t] <= txId /\ cur[t] <= txId
  <2>1. \A i \in DOMAIN inbox[t] : inbox[t][i] \in Event
    BY DEF TypeOK
  <2> QED BY <2>1, ConstantsAssumption DEF ServerInv, EventOrder, Event, TypeOK
<1>2. /\ \A i \in DOMAIN inbox[t] : inbox[t][i].id # txId'
      /\ reqId[t] # txId' /\ cur[t] # txId'
  BY <1>0, <1>1
<1>3. txCfg'[t] # <<>> /\ status[t] # "down" => t \in txTodo'
  <2>1. PICK c \in [Server -> Inputs \cup {<<>>}] :
          LET P == {s \in Server : c[s] # <<>>}
          IN /\ ~ConfigDuringStart => \A s \in P : status[s] # "starting"
             /\ txCfg' = c
             /\ txTodo' = {s \in P : Alive(s)}
    BY DEF Begin
  <2>2. txCfg'[t] # <<>> => status[t] # "starting"
    BY <2>1 DEF Benign
  <2> QED BY <2>1, <2>2 DEF TypeOK, Alive
<1>4. OwnChanges(t)'
  BY <1>0, <1>2 DEF OwnChanges
<1>5. NotMissed(t)'
  BY <1>0, <1>2, <1>3 DEF ServerDev, NotMissed
<1>6. DeviceState(t)'
  <2>1. UNCHANGED <<LocalVars(t), DeviceVars(t), running[t]>> /\ (DoneComing(t)' <=> DoneComing(t))
    BY <1>0 DEF LocalVars, DeviceVars, DoneComing
  <2> QED BY <2>1, DeviceStateKept DEF ServerDev
<1> QED BY <1>4, <1>5, <1>6 DEF ServerDev

LEMMA NotifyDev ==
  ASSUME TypeOK, NEW t \in Server, ServerInv(t), ServerDev(t), NEW s \in Server, NotifyChange(s)
  PROVE  ServerDev(t)'
<1>0. /\ txPhase = "change" /\ s \in txTodo
      /\ txTodo' = txTodo \ {s} /\ txWait' = {s} /\ txWait = {}
      /\ UNCHANGED <<txId, txPhase, txAcked, txCfg, running, LocalVars(t), DeviceVars(t)>>
  BY DEF NotifyChange, revertVars, processVars, LocalVars, DeviceVars
<1>1. CASE t # s
  <2>1. UNCHANGED inbox[t]
    BY <1>1 DEF NotifyChange, TypeOK
  <2> QED BY <1>0, <1>1, <2>1, UntouchedDevice
<1>2. CASE t = s
  <2> DEFINE e == [ev |-> "change", id |-> txId, chg |-> txCfg[s]]
  <2>1. e \in Event /\ inbox[t] \in Seq(Event) /\ inbox'[t] = Append(inbox[t], e)
    <3>1. /\ txId \in 1..MaxTx /\ txCfg[s] \in Inputs \cup {<<>>}
          /\ inbox \in [Server -> Seq(Event)]
      BY <1>0, ConstantsAssumption DEF TypeOK
    <3>2. e \in Event
      BY <3>1 DEF Event
    <3> QED BY <1>2, <3>1, <3>2 DEF NotifyChange
  <2>2. /\ \A i \in DOMAIN inbox'[t] :
             \/ i \in DOMAIN inbox[t] /\ inbox'[t][i] = inbox[t][i]
             \/ inbox'[t][i] = e
        /\ \A i \in DOMAIN inbox[t] : i \in DOMAIN inbox'[t] /\ inbox'[t][i] = inbox[t][i]
    BY <2>1, AppendFacts
  <2>3. cur[t] # txId
    BY <1>0, <1>2 DEF ServerInv, ChangeProgress
  <2>4. OwnChanges(t)'
    BY <1>0, <1>2, <2>2 DEF ServerDev, OwnChanges, LocalVars, DeviceVars
  <2>5. NotMissed(t)'
    BY <1>0, <1>2, <2>3 DEF ServerDev, NotMissed, LocalVars
  <2>6. DoneComing(t)' <=> DoneComing(t)
    BY <2>2 DEF DoneComing
  <2> QED BY <1>0, <2>4, <2>5, <2>6, DeviceStateKept DEF ServerDev
<1> QED BY <1>1, <1>2

\* The heart of the matter: when sysrepo commits, every server that is up and
\* concerned either has the changes on its device or is about to find out that
\* it has lost them.
LEMMA CommitDev ==
  ASSUME TypeOK, Benign, NEW t \in Server, ServerInv(t), ServerDev(t), Commit
  PROVE  ServerDev(t)'
<1>0. /\ txPhase = "change" /\ txPhase' = "finish" /\ txTodo = {} /\ txWait = {}
      /\ txWait' = {s \in txAcked : Alive(s)}
      /\ running'[t] = Updated(running[t], txCfg[t])
      /\ UNCHANGED <<txId, txTodo, txAcked, txCfg, hw, LocalVars(t), DeviceVars(t)>>
      /\ txCfg[t] # <<>> => status[t] # "starting"
  BY DEF Commit, revertVars, processVars, LocalVars, DeviceVars, Benign
<1>1. /\ t \in txWait' => inbox'[t] = Append(inbox[t], [ev |-> "done", id |-> txId, chg |-> <<>>])
      /\ t \notin txWait' => inbox'[t] = inbox[t]
  BY <1>0 DEF Commit, Broadcast
<1>2. ~DoneComing(t)
  BY <1>0 DEF ServerInv, FinishExpected, DoneComing
<1>3. CASE t \in txWait'
  <2>1. inbox[t] = <<>> /\ pc[t] = "idle" /\ cur[t] \in {0, txId} /\ status[t] # "starting"
    BY <1>0, <1>3 DEF ServerInv, ChangeProgress, Alive
  <2>2. inbox'[t] = <<[ev |-> "done", id |-> txId, chg |-> <<>>]>>
    BY <1>1, <1>3, <2>1
  <2>3. DOMAIN inbox'[t] = {1} /\ inbox'[t][1].ev = "done" /\ DoneComing(t)'
    BY <2>2 DEF DoneComing
  <2>4. OwnChanges(t)'
    BY <1>0, <2>3 DEF ServerDev, OwnChanges, LocalVars, DeviceVars
  <2>5. NotMissed(t)'
    BY <1>0, <2>3 DEF ServerDev, NotMissed, LocalVars
  <2>6. status[t] = "up" /\ cur[t] # 0 => timer[t] = "sleep" /\ InSync(t)'
    <3>1. SUFFICES ASSUME status[t] = "up", cur[t] # 0 PROVE timer[t] = "sleep" /\ InSync(t)'
      OBVIOUS
    <3>2. cur[t] = txId /\ timer[t] = "sleep" /\ handlers[t] = txCfg[t]
      BY <1>0, <2>1, <3>1 DEF ServerDev, NotMissed, OwnChanges
    <3>3. AppliedUpTo(t, Len(handlers[t]))
      BY <1>2, <2>1, <3>1, <3>2 DEF ServerDev, DeviceState
    <3> QED BY <1>0, <3>2, <3>3, CommitSyncs
  <2>7. cur[t] = 0 => timer[t] = "off"
    BY DEF ServerInv, CallbackState
  <2>8. DeviceState(t)'
    BY <1>0, <2>1, <2>3, <2>6, <2>7 DEF DeviceState, LocalVars
  <2> QED BY <2>4, <2>5, <2>8 DEF ServerDev
<1>4. CASE t \notin txWait'
  <2>1. inbox'[t] = inbox[t]
    BY <1>1, <1>4
  <2>2. OwnChanges(t)'
    BY <1>0, <2>1 DEF ServerDev, OwnChanges, LocalVars, DeviceVars
  <2>3. ~(status[t] = "up" /\ cur[t] # 0 /\ cur[t] = txId)
    BY <1>0, <1>4 DEF ServerDev, NotMissed, Alive
  <2>4. NotMissed(t)'
    BY <1>0, <2>3 DEF ServerDev, NotMissed, LocalVars
  <2>5. status[t] \in {"up", "starting"} => txCfg[t] = <<>>
    BY <1>0, <1>4 DEF ServerDev, NotMissed, Alive
  <2>6. status[t] \in {"up", "starting"} => running'[t] = running[t]
    BY <1>0, <2>5, NothingUpdated DEF TypeOK
  <2>7. DoneComing(t)' <=> DoneComing(t)
    BY <2>1 DEF DoneComing
  <2>8. DeviceState(t)'
    <3>1. CASE status[t] \in {"up", "starting"}
      BY <1>0, <2>6, <2>7, <3>1, DeviceStateKept DEF ServerDev
    <3>2. CASE status[t] \notin {"up", "starting"}
      BY <1>0, <3>2 DEF DeviceState, LocalVars
    <3> QED BY <3>1, <3>2
  <2> QED BY <2>2, <2>4, <2>8 DEF ServerDev
<1> QED BY <1>3, <1>4

LEMMA EndOfTxDev ==
  ASSUME TypeOK, NEW t \in Server, ServerInv(t), ServerDev(t), Finish \/ ClientTimeout
  PROVE  ServerDev(t)'
<1>0. /\ txPhase' = "idle"
      /\ UNCHANGED <<txId, txCfg, running, inbox, LocalVars(t), DeviceVars(t)>>
  BY DEF Finish, ClientTimeout, callbackVars, revertVars, processVars, LocalVars, DeviceVars
<1>1. OwnChanges(t)' /\ NotMissed(t)' /\ (DoneComing(t)' <=> DoneComing(t))
  BY <1>0 DEF ServerDev, OwnChanges, NotMissed, DoneComing, LocalVars, DeviceVars
<1> QED BY <1>0, <1>1, DeviceStateKept DEF ServerDev

-----------------------------------------------------------------------------
(* Stops, crashes and restarts.                                            *)

LEMMA ProcessDev ==
  ASSUME TypeOK, Benign, NEW t \in Server, ServerInv(t), ServerDev(t), NEW s \in Server,
         ProcessStep(s) \/ Crash(s)
  PROVE  ServerDev(t)'
<1>1. CASE Stop(s) \/ Crash(s)
  <2>0. ProcessEnds(s)
    BY <1>1 DEF Stop, Crash
  <2>1. /\ txTodo' = txTodo \ {s}
        /\ txWait' = IF txPhase = "finish" THEN txWait \ {s} ELSE txWait
        /\ UNCHANGED <<txId, txPhase, txAcked, txCfg, running, reqId>>
    BY <2>0 DEF ProcessEnds
  <2>2. CASE t # s
    <3>1. UNCHANGED <<LocalVars(t), DeviceVars(t), inbox[t]>>
      BY <2>0, <2>2 DEF ProcessEnds, LocalVars, DeviceVars, TypeOK
    <3> QED BY <2>1, <2>2, <3>1, UntouchedDevice
  <2>3. CASE t = s
    <3>1. /\ inbox'[t] = <<>> /\ pc'[t] = "idle" /\ cur'[t] = 0 /\ timer'[t] = "off"
          /\ status'[t] = "down"
      BY <2>0, <2>3 DEF ProcessEnds, TypeOK
    <3> QED BY <3>1 DEF ServerDev, OwnChanges, NotMissed, DeviceState
  <2> QED BY <2>2, <2>3
<1>2. CASE Reconcile(s) \/ Subscribe(s)
  <2>1. UNCHANGED <<txId, txPhase, txTodo, txAcked, txWait, txCfg, running, inbox, pc, reqId,
                    idx, handlers, orig, cur, timer, tidx>>
    BY <1>2 DEF Reconcile, Subscribe, sysrepoVars, callbackVars, revertVars
  <2>2. CASE t # s
    <3>1. UNCHANGED <<LocalVars(t), DeviceVars(t)>>
      BY <1>2, <2>1, <2>2 DEF Reconcile, Subscribe, LocalVars, DeviceVars, TypeOK
    <3> QED BY <2>1, <3>1, UntouchedDevice
  <2>3. CASE t = s
    <3>0. ~Alive(s) /\ DOMAIN status = Server /\ DOMAIN hw = Server
      BY <1>2 DEF Reconcile, Subscribe, Alive, TypeOK
    <3>1. inbox[t] = <<>> /\ pc[t] = "idle" /\ cur[t] = 0 /\ timer[t] = "off"
      BY <2>3, <3>0 DEF ServerInv, CallbackState
    <3>2. CASE Reconcile(s)
      <4>1. /\ status'[t] = "starting"
            /\ txPhase = "change" /\ txCfg[t] # <<>> => t \in txAcked
            /\ hw'[t] = Reconciled(t)
        BY <2>3, <3>0, <3>2 DEF Reconcile, Benign
      <4>2. InSync(t)'
        BY <2>1, <4>1 DEF InSync, Reconciled, Handled, Benign
      <4> QED BY <2>1, <3>1, <4>1, <4>2 DEF ServerDev, OwnChanges, NotMissed, DeviceState
    <3>3. CASE Subscribe(s)
      <4>1. status[t] = "starting" /\ status'[t] = "up" /\ hw' = hw
        BY <2>3, <3>0, <3>3 DEF Subscribe
      <4>2. InSync(t)'
        BY <2>1, <4>1 DEF InSync, ServerDev, DeviceState
      <4> QED BY <2>1, <3>1, <4>1, <4>2 DEF ServerDev, OwnChanges, NotMissed, DeviceState
    <3> QED BY <1>2, <3>2, <3>3
  <2> QED BY <2>2, <2>3
<1> QED BY <1>1, <1>2 DEF ProcessStep

-----------------------------------------------------------------------------
LEMMA DeviceStep ==
  ASSUME Benign, TypeOK, TypeOK', \A s \in Server : ServerInv(s) /\ ServerDev(s), [Next]_vars
  PROVE  \A s \in Server : ServerDev(s)'
<1> TAKE t \in Server
<1>0. ServerInv(t) /\ ServerDev(t)
  OBVIOUS
<1>1. CASE UNCHANGED vars
  <2>1. UNCHANGED <<LocalVars(t), DeviceVars(t), running, inbox, txId, txPhase, txCfg, txTodo,
                    txWait, txAcked>>
    BY <1>1 DEF vars, sysrepoVars, callbackVars, revertVars, processVars, LocalVars, DeviceVars
  <2> QED BY <1>0, <2>1, UntouchedDevice
<1>2. CASE Begin \/ Commit \/ Finish \/ ClientTimeout
  BY <1>0, <1>2, BeginDev, CommitDev, EndOfTxDev
<1>3. ASSUME NEW s \in Server, NotifyChange(s) PROVE ServerDev(t)'
  BY <1>0, <1>3, NotifyDev
<1>4. ASSUME NEW s \in Server, CallbackStep(s) PROVE ServerDev(t)'
  BY <1>0, <1>4, CallbackOwnDev, CallbackOtherDev
<1>5. ASSUME NEW s \in Server, TimerStep(s) PROVE ServerDev(t)'
  <2>1. CASE t # s
    <3>0. UNCHANGED <<sysrepoVars, callbackVars, processVars>>
      BY <1>5 DEF TimerStep, TimerFires, TimerReverts, TimerRevertRaises, TimerEnds, EndRevert
    <3>a. DOMAIN cur = Server /\ DOMAIN timer = Server /\ DOMAIN tidx = Server /\ DOMAIN hw = Server
      BY DEF TypeOK
    <3>1. /\ cur' = cur \/ cur' = [cur EXCEPT ![s] = 0]
          /\ \E v : timer' = timer \/ timer' = [timer EXCEPT ![s] = v]
          /\ \E v : tidx' = tidx \/ tidx' = [tidx EXCEPT ![s] = v]
          /\ hw' = hw \/ hw' = Reverted(s, tidx[s])
      BY <1>5 DEF TimerStep, TimerFires, TimerReverts, TimerRevertRaises, TimerEnds, EndRevert
    <3>2. UNCHANGED <<cur[t], timer[t], tidx[t], hw[t]>>
      BY <2>1, <3>a, <3>1 DEF Reverted
    <3>3. UNCHANGED <<LocalVars(t), DeviceVars(t), running, inbox, txId, txPhase, txCfg, txTodo,
                      txWait, txAcked>>
      BY <3>0, <3>2 DEF LocalVars, DeviceVars, sysrepoVars, callbackVars, processVars
    <3> QED BY <1>0, <3>3, UntouchedDevice
  <2>2. CASE t = s
    BY <1>0, <1>5, <2>2, TimerDev
  <2> QED BY <2>1, <2>2
<1>6. ASSUME NEW s \in Server, ProcessStep(s) \/ Crash(s) PROVE ServerDev(t)'
  BY <1>0, <1>6, ProcessDev
<1> QED BY <1>1, <1>2, <1>3, <1>4, <1>5, <1>6 DEF Next, SysrepoStep

\* In a benign environment the device of a server that is up always holds the
\* configured values, except for the leaves of the handlers applied and not
\* yet reverted (core.py:182-200).
THEOREM DeviceCorrect ==
  ASSUME Benign
  PROVE  Spec => []DeviceInv
<1>1. ASSUME Init PROVE DeviceInv
  <2> SUFFICES ASSUME NEW s \in Server PROVE ServerDev(s)
    BY DEF DeviceInv, ServerDev
  <2>1. /\ inbox[s] = <<>> /\ pc[s] = "idle" /\ cur[s] = 0 /\ timer[s] = "off"
        /\ txPhase = "idle" /\ InSync(s)
    BY <1>1 DEF Init, InSync, Handled, Effective
  <2> QED BY <2>1 DEF ServerDev, OwnChanges, NotMissed, DeviceState
<1>2. TypeOK /\ TypeOK' /\ ProtocolInv /\ DeviceInv /\ [Next]_vars => DeviceInv'
  BY DeviceStep DEF DeviceInv, ServerDev, ProtocolInv, ServerInv
<1> QED BY <1>1, <1>2, TypeCorrect, ProtocolCorrect, PTL DEF Spec

\* In a benign environment a server that has nothing left to do has exactly
\* the running configuration on its device, after any history of failures,
\* aborts, client timeouts and crashes (change_cb, core.py:121-200).
THEOREM DevicesFollowDatastore ==
  ASSUME Benign
  PROVE  Spec => []QuietServerInSync
<1>1. DeviceInv => QuietServerInSync
  BY DEF DeviceInv, DeviceState, DoneComing, QuietServerInSync, Quiet
<1> QED BY <1>1, DeviceCorrect, PTL

-----------------------------------------------------------------------------
(* The refinement: in a benign environment the engine implements           *)
(* AtomicConfig, step by step.                                             *)

\* Only Commit writes the running datastore.
LEMMA RunningKept ==
  ASSUME [Next]_vars, ~Commit
  PROVE  running' = running
<1>1. CASE Begin \/ Finish \/ ClientTimeout \/ \E s \in Server : NotifyChange(s)
  BY <1>1 DEF Begin, Finish, ClientTimeout, NotifyChange
<1>2. ASSUME NEW s \in Server, CallbackStep(s) PROVE running' = running
  <2>0. \A id, rest : Refuse(s, id, rest) \/ Accept(s, id, rest) => running' = running
    BY DEF Refuse, Accept
  <2>1. CASE \/ RejectBusy(s) \/ ChangeRefused(s) \/ RevertRaises(s) \/ RollbackEnd(s)
             \/ ChangeEnd(s) \/ PostRaises(s) \/ FinishNull(s) \/ AbortEnd(s) \/ FinishRaises(s)
    BY <2>0, <2>1 DEF RejectBusy, ChangeRefused, RevertRaises, RollbackEnd, ChangeEnd, EndChange,
                      PostRaises, FinishNull, AbortEnd, FinishRaises
  <2>2. CASE ChangeBegin(s) \/ ApplyOk(s) \/ SkipDeleted(s) \/ ApplyRaises(s) \/ RevertStep(s)
    BY <2>2 DEF ChangeBegin, StartHandlers, ApplyOk, ApplyHandler, SkipDeleted, Advance,
                ApplyRaises, RollbackFrom, RevertStep, sysrepoVars
  <2>3. CASE FinishEvent(s)
    BY <2>0, <2>3 DEF FinishEvent, sysrepoVars
  <2> QED BY <1>2, <2>1, <2>2, <2>3 DEF CallbackStep
<1>3. ASSUME NEW s \in Server, TimerStep(s) PROVE running' = running
  BY <1>3 DEF TimerStep, TimerFires, TimerReverts, TimerRevertRaises, TimerEnds, EndRevert, sysrepoVars
<1>4. ASSUME NEW s \in Server, ProcessStep(s) \/ Crash(s) PROVE running' = running
  BY <1>4 DEF ProcessStep, Stop, Reconcile, Subscribe, Crash, ProcessEnds, sysrepoVars
<1>5. CASE UNCHANGED vars
  BY <1>5 DEF vars, sysrepoVars
<1> QED BY <1>1, <1>2, <1>3, <1>4, <1>5 DEF Next, SysrepoStep

\* What a transaction writes to a model makes the server of that model handle
\* 'done': a server that is quiet afterwards has the configuration it had.
LEMMA ChangedAreBusy ==
  ASSUME TypeOK, ProtocolInv, DeviceInv, [Next]_vars, NEW s \in Server, Quiet(s)'
  PROVE  running'[s] = running[s]
<1>1. CASE Commit
  <2>0. /\ running'[s] = Updated(running[s], txCfg[s]) /\ running[s] \in Config
        /\ txPhase = "change" /\ txTodo = {} /\ txWait = {}
    BY <1>1 DEF Commit, TypeOK
  <2>1. CASE txCfg[s] = <<>>
    BY <2>0, <2>1, NothingUpdated
  <2>2. CASE txCfg[s] # <<>>
    <3>1. status[s] = "up" /\ inbox'[s] = <<>>
      BY <1>1 DEF Commit, Quiet, processVars
    <3>2. s \in txAcked
      BY <2>0, <2>2, <3>1 DEF DeviceInv, NotMissed
    <3>3. inbox'[s] = Append(inbox[s], [ev |-> "done", id |-> txId, chg |-> <<>>])
      BY <1>1, <3>1, <3>2 DEF Commit, Broadcast, Alive
    <3>4. inbox[s] = <<>>
      BY <2>0, <3>2 DEF ProtocolInv, ChangeProgress
    <3>5. Len(inbox'[s]) = 1
      BY <3>3, <3>4
    <3> QED BY <3>1, <3>5
  <2> QED BY <2>1, <2>2
<1>2. CASE ~Commit
  BY <1>2, RunningKept
<1> QED BY <1>1, <1>2

\* Commit leaves busy servers busy.
LEMMA CommitKeepsBusy ==
  ASSUME TypeOK, Commit, NEW s \in Server, Quiet(s)'
  PROVE  Quiet(s)
<1>1. inbox[s] \in Seq(Event) /\ DOMAIN inbox = Server
  BY DEF TypeOK
<1>2. inbox'[s] = inbox[s] \/ \E e : inbox'[s] = Append(inbox[s], e)
  BY DEF Commit, Broadcast
<1>3. inbox[s] = <<>>
  BY <1>1, <1>2 DEF Quiet
<1>4. UNCHANGED <<status, pc, cur>>
  BY DEF Commit, processVars, revertVars
<1> QED BY <1>3, <1>4 DEF Quiet

\* Every step of the engine is a step of AtomicConfig, or none.
LEMMA StepIsAtomic ==
  ASSUME TypeOK, ProtocolInv, DeviceInv, QuietServerInSync, QuietServerInSync', [Next]_vars
  PROVE  [Abstract!Next]_(Abstract!vars)
<1> DEFINE B == {s \in Server : ~Quiet(s)'}
           S == {s \in Server : ~Quiet(s)}
           seen == [s \in Server |-> IF Quiet(s) THEN Held(s) ELSE <<>>]
           asked == [s \in Server |-> Wanted(s)]
<1>1. \A s \in Server : Quiet(s) => seen[s] = asked[s]
  BY DEF QuietServerInSync, InSync, Held, Wanted
<1>2. \A s \in Server : Quiet(s)' => Held(s)' = Wanted(s)'
  BY DEF QuietServerInSync, InSync, Held, Wanted
<1>3. \A s \in Server : Quiet(s)' => Wanted(s)' = Wanted(s)
  BY ChangedAreBusy DEF Wanted
<1>4. seen' = [s \in Server |-> IF s \in B THEN <<>> ELSE Wanted(s)]
  BY <1>2, <1>3
<1>5. CASE asked' = asked
  <2>1. seen' = [s \in Server |-> IF s \in B THEN <<>>
                                 ELSE IF s \in S THEN asked[s] ELSE seen[s]]
    BY <1>1, <1>4
  <2>2. \A s \in S : seen[s] = <<>>
    OBVIOUS
  <2> QED BY <1>5, <2>1, <2>2 DEF Abstract!Next, Abstract!Settle
<1>6. CASE asked' # asked
  <2>1. Commit
    BY <1>6, RunningKept DEF Wanted
  <2>2. ASSUME NEW s \in Server \ B PROVE Quiet(s)
    BY <2>1, <2>2, CommitKeepsBusy
  <2>3. seen' = [s \in Server |-> IF s \in B THEN <<>> ELSE seen[s]]
    BY <1>1, <1>4, <2>2
  <2>4. \A s \in Server \ B : asked'[s] = asked[s]
    BY <1>3
  <2> QED BY <2>3, <2>4 DEF Abstract!Next, Abstract!Disturb
<1> QED BY <1>5, <1>6

\* In a benign environment the engine implements AtomicConfig: a server is busy or
\* its device holds what the running datastore asks of it, and the datastore never
\* changes under a server that goes on as if nothing had happened (change_cb and
\* do_revert, core.py:121-200).
THEOREM ImplementsAtomicConfig ==
  ASSUME Benign
  PROVE  Spec => SafelyAtomic
<1>1. ASSUME Init PROVE Abstract!Init
  <2>1. \A s \in Server : Quiet(s) /\ Held(s) = Wanted(s)
    BY <1>1 DEF Init, Quiet, Held, Wanted, Handled, Effective
  <2> QED BY <2>1 DEF Abstract!Init
<1>2. TypeOK /\ ProtocolInv /\ DeviceInv /\ QuietServerInSync /\ QuietServerInSync'
        /\ [Next]_vars => [Abstract!Next]_(Abstract!vars)
  BY StepIsAtomic
<1> QED BY <1>1, <1>2, TypeCorrect, ProtocolCorrect, DeviceCorrect, DevicesFollowDatastore, PTL
        DEF Spec, SafelyAtomic, Abstract!Safe

-----------------------------------------------------------------------------
(* What a transaction writes to the datastore is on the devices before.    *)
(* This needs less of the environment: only that no transaction outlives   *)
(* revert_timeout.                                                         *)

\* The first n handlers of s have written their values to its device.
Written(s, n) ==
  \A i \in 1..n : handlers[s][i].key \in Handled =>
    hw[s][handlers[s][i].key] = Effective(handlers[s][i].val)

FinishComing(s) == \E i \in DOMAIN inbox[s] : inbox[s][i].ev # "change"

\* What s accepted is on its device as long as it stores the handlers and the
\* transaction goes on.
AcceptedWritten(s) ==
  /\ pc[s] = "apply" => idx[s] > 0 /\ Written(s, idx[s] - 1)
  /\ timer[s] = "revert" => txPhase = "idle" \/ cur[s] # txId
  /\ txPhase = "change" /\ s \in txAcked /\ cur[s] = txId => Written(s, Len(handlers[s]))

\* A server stores what it accepted until it hears how the transaction ended,
\* unless some server crashed.
AcceptedStored(s) ==
  crashes = 0 =>
    /\ status[s] = "up"
    /\ txPhase = "change" /\ s \in txAcked => cur[s] = txId
    /\ FinishComing(s) => cur[s] = txId

CommitInv(s) == OwnChanges(s) /\ AcceptedWritten(s) /\ AcceptedStored(s)

\* A step that leaves t alone.
LEMMA UntouchedCommit ==
  ASSUME NEW t \in Server, CommitInv(t),
         UNCHANGED <<LocalVars(t), DeviceVars(t), inbox[t], txId, txCfg>>,
         txPhase' = txPhase \/ txPhase' = "idle" \/ txPhase = "change",
         txPhase' = "change" => txPhase = "change",
         t \in txAcked' => t \in txAcked,
         crashes' = 0 => crashes = 0
  PROVE  CommitInv(t)'
<1>1. OwnChanges(t)'
  BY DEF CommitInv, OwnChanges, LocalVars, DeviceVars
<1>2. AcceptedWritten(t)'
  <2>1. /\ Written(t, idx[t] - 1)' <=> Written(t, idx[t] - 1)
        /\ Written(t, Len(handlers[t]))' <=> Written(t, Len(handlers[t]))
    BY DEF Written, DeviceVars
  <2> QED BY <2>1 DEF CommitInv, AcceptedWritten, LocalVars, DeviceVars
<1>3. AcceptedStored(t)'
  BY DEF CommitInv, AcceptedStored, FinishComing, LocalVars
<1> QED BY <1>1, <1>2, <1>3 DEF CommitInv

\* A step that tells t how the transaction ends.
LEMMA FinishTold ==
  ASSUME TypeOK, NEW t \in Server, ServerInv(t), CommitInv(t),
         UNCHANGED <<LocalVars(t), DeviceVars(t), txId, txCfg, crashes>>,
         txPhase = "change", txPhase' = "finish", t \in txAcked,
         NEW ev \in {"done", "abort"},
         inbox'[t] = Append(inbox[t], [ev |-> ev, id |-> txId, chg |-> <<>>])
  PROVE  CommitInv(t)'
<1>1. inbox[t] = <<>>
  BY DEF ServerInv, ChangeProgress
<1>2. inbox'[t] = <<[ev |-> ev, id |-> txId, chg |-> <<>>]>>
  BY <1>1
<1>3. DOMAIN inbox'[t] = {1} /\ inbox'[t][1].ev = ev
  BY <1>2
<1>4. OwnChanges(t)'
  BY <1>3 DEF CommitInv, OwnChanges, LocalVars, DeviceVars
<1>5. AcceptedWritten(t)'
  <2>1. /\ Written(t, idx[t] - 1)' <=> Written(t, idx[t] - 1)
        /\ Written(t, Len(handlers[t]))' <=> Written(t, Len(handlers[t]))
    BY DEF Written, DeviceVars
  <2> QED BY <2>1 DEF CommitInv, AcceptedWritten, LocalVars, DeviceVars
<1>6. AcceptedStored(t)'
  BY DEF CommitInv, AcceptedStored, LocalVars
<1> QED BY <1>4, <1>5, <1>6 DEF CommitInv

\* An answer of another server.
LEMMA AnswerKeepsCommit ==
  ASSUME TypeOK, NEW s \in Server, NEW t \in Server, t # s,
         ServerInv(t), CommitInv(t), NEW id, NEW rest \in Seq(Event),
         Accept(s, id, rest) \/ Refuse(s, id, rest),
         UNCHANGED <<LocalVars(t), DeviceVars(t), crashes>>
  PROVE  CommitInv(t)'
<1>0. inbox \in [Server -> Seq(Event)]
  BY DEF TypeOK
<1>1. CASE Accept(s, id, rest)
  <2>1. /\ UNCHANGED <<txId, txPhase, txCfg>> /\ inbox'[t] = inbox[t]
        /\ t \in txAcked' <=> t \in txAcked
    BY <1>0, <1>1 DEF Accept
  <2> QED BY <2>1, UntouchedCommit
<1>2. CASE Refuse(s, id, rest) /\ ~(Awaited(s, id) /\ txPhase = "change")
  <2>1. UNCHANGED <<txId, txPhase, txAcked, txCfg>> /\ inbox'[t] = inbox[t]
    BY <1>0, <1>2 DEF Refuse
  <2> QED BY <2>1, UntouchedCommit
<1>3. CASE Refuse(s, id, rest) /\ Awaited(s, id) /\ txPhase = "change"
  <2>0. /\ txPhase' = "finish" /\ UNCHANGED <<txId, txAcked, txCfg>>
        /\ txWait' = {u \in txAcked \ {s} : Alive(u)}
    BY <1>3 DEF Refuse, Awaited
  <2>1. inbox' = [u \in Server |->
           IF u = s THEN rest
           ELSE IF u \in txWait'
           THEN Append(inbox[u], [ev |-> "abort", id |-> txId, chg |-> <<>>])
           ELSE inbox[u]]
    BY <1>3 DEF Refuse
  <2>2. CASE t \in txWait'
    <3>1. inbox'[t] = Append(inbox[t], [ev |-> "abort", id |-> txId, chg |-> <<>>]) /\ t \in txAcked
      BY <2>0, <2>1, <2>2
    <3> QED BY <1>3, <2>0, <3>1, FinishTold
  <2>3. CASE t \notin txWait'
    <3>1. inbox'[t] = inbox[t]
      BY <2>1, <2>3
    <3> QED BY <1>3, <2>0, <3>1, UntouchedCommit
  <2> QED BY <2>2, <2>3
<1> QED BY <1>1, <1>2, <1>3

\* s refuses a 'change' it has not begun to handle.
LEMMA RefusedCommit ==
  ASSUME TypeOK, NEW s \in Server, ServerInv(s), CommitInv(s), Takes(s, {"change"}),
         Refuse(s, Head(inbox[s]).id, Tail(inbox[s])),
         UNCHANGED <<LocalVars(s), DeviceVars(s), crashes>>
  PROVE  CommitInv(s)'
<1>0. /\ \A i \in DOMAIN inbox[s] : inbox[s][i].ev = "change"
      /\ \A i \in DOMAIN Tail(inbox[s]) :
           \E j \in DOMAIN inbox[s] : Tail(inbox[s])[i] = inbox[s][j]
      /\ Tail(inbox[s]) \in Seq(Event)
  BY HeadChange
<1>1. /\ inbox'[s] = Tail(inbox[s]) /\ UNCHANGED <<txId, txAcked, txCfg>>
      /\ (txPhase = "change" /\ txPhase' = "finish") \/ UNCHANGED txPhase
  BY <1>0, RefuseSelf DEF Refuse
<1>2. ~FinishComing(s)'
  BY <1>0, <1>1 DEF FinishComing
<1>3. OwnChanges(s)'
  BY <1>0, <1>1 DEF CommitInv, OwnChanges, LocalVars, DeviceVars
<1>4. AcceptedWritten(s)'
  <2>1. /\ Written(s, idx[s] - 1)' <=> Written(s, idx[s] - 1)
        /\ Written(s, Len(handlers[s]))' <=> Written(s, Len(handlers[s]))
    BY DEF Written, DeviceVars
  <2> QED BY <1>1, <2>1 DEF CommitInv, AcceptedWritten, LocalVars, DeviceVars
<1>5. AcceptedStored(s)'
  BY <1>1, <1>2 DEF CommitInv, AcceptedStored, LocalVars
<1> QED BY <1>3, <1>4, <1>5 DEF CommitInv

\* 'change' is taken.
LEMMA ChangeBeginCommit ==
  ASSUME TypeOK, NEW s \in Server, ServerInv(s), CommitInv(s), ChangeBegin(s)
  PROVE  CommitInv(s)'
<1>0. /\ \A i \in DOMAIN inbox[s] : inbox[s][i].ev = "change"
      /\ \A i \in DOMAIN Tail(inbox[s]) :
           \E j \in DOMAIN inbox[s] : Tail(inbox[s])[i] = inbox[s][j]
      /\ cur[s] = 0 /\ inbox[s] # <<>>
      /\ Head(inbox[s]) = inbox[s][1] /\ 1 \in DOMAIN inbox[s]
  BY HeadChange DEF ChangeBegin, Takes
<1>1. /\ inbox'[s] = Tail(inbox[s]) /\ pc'[s] = "apply" /\ idx'[s] = 1
      /\ reqId'[s] = inbox[s][1].id /\ handlers'[s] = inbox[s][1].chg
      /\ UNCHANGED <<txId, txPhase, txAcked, txCfg, hw, cur, timer, status, crashes>>
  <2>1. DOMAIN inbox = Server /\ DOMAIN pc = Server /\ DOMAIN idx = Server /\ DOMAIN reqId = Server
        /\ DOMAIN handlers = Server
    BY DEF TypeOK
  <2> QED BY <1>0, <2>1 DEF ChangeBegin, StartHandlers, sysrepoVars, revertVars, processVars
<1>2. ~FinishComing(s)' /\ ~(txPhase = "change" /\ s \in txAcked)
  BY <1>0, <1>1 DEF FinishComing, ServerInv, ChangeProgress
<1>3. OwnChanges(s)'
  BY <1>0, <1>1 DEF CommitInv, OwnChanges
<1>4. AcceptedWritten(s)'
  BY <1>1, <1>2 DEF CommitInv, AcceptedWritten, Written
<1>5. AcceptedStored(s)'
  BY <1>1, <1>2 DEF CommitInv, AcceptedStored
<1> QED BY <1>3, <1>4, <1>5 DEF CommitInv

\* A handler is applied or skipped, its apply() raises, or a handler is reverted.
LEMMA HandlerStepCommit ==
  ASSUME TypeOK, NEW s \in Server, ServerInv(s), CommitInv(s),
         ApplyOk(s) \/ SkipDeleted(s) \/ ApplyRaises(s) \/ RevertStep(s)
  PROVE  CommitInv(s)'
<1>0. /\ UNCHANGED <<txId, txPhase, txAcked, txCfg, inbox, reqId, handlers, cur, timer, status,
                     crashes>>
      /\ pc[s] # "idle" /\ pc'[s] # "idle"
  BY DEF ApplyOk, Applying, ApplyHandler, SkipDeleted, Advance, ApplyRaises, RollbackFrom,
         RevertStep, sysrepoVars, revertVars, processVars, TypeOK
<1>1. OwnChanges(s)'
  BY <1>0 DEF CommitInv, OwnChanges
<1>2. ~(txPhase = "change" /\ s \in txAcked)
  BY <1>0 DEF ServerInv, ChangeProgress
<1>3. AcceptedStored(s)'
  BY <1>0, <1>2 DEF CommitInv, AcceptedStored, FinishComing
<1>4. pc'[s] = "apply" => idx'[s] > 0 /\ Written(s, idx[s] - 1)'
  <2>1. CASE ApplyRaises(s) \/ RevertStep(s)
    BY <2>1 DEF ApplyRaises, Applying, RollbackFrom, RevertStep, TypeOK
  <2>2. CASE ApplyOk(s) \/ SkipDeleted(s)
    <3>1. /\ pc[s] = "apply" /\ idx'[s] = idx[s] + 1 /\ idx[s] \in Nat
          /\ idx[s] \in DOMAIN handlers[s]
      BY <2>2 DEF ApplyOk, Applying, ApplyHandler, SkipDeleted, Advance, TypeOK
    <3>2. PICK n \in Nat : n = idx[s]
      BY <3>1
    <3>3. /\ n > 0 /\ Written(s, n - 1) /\ n \in 1..Len(handlers[s]) /\ Len(handlers[s]) \in Nat
          /\ \A i, j \in 1..Len(handlers[s]) : handlers[s][i].key = handlers[s][j].key => i = j
      BY <3>1, <3>2, HandlerList DEF CommitInv, AcceptedWritten
    <3>4. /\ handlers[s][n].key \in Handled => hw'[s][handlers[s][n].key] = Effective(handlers[s][n].val)
          /\ \A k \in Handled : k # handlers[s][n].key => hw'[s][k] = hw[s][k]
      <4>1. CASE ApplyOk(s)
        <5>1. hw' = [hw EXCEPT ![s][handlers[s][n].key] = Effective(handlers[s][n].val)]
          BY <3>2, <4>1 DEF ApplyOk, ApplyHandler
        <5>2. hw \in [Server -> [Key -> Value]] /\ Handled \subseteq Key
          BY DEF TypeOK, Handled
        <5> QED BY <5>1, <5>2
      <4>2. CASE SkipDeleted(s)
        BY <3>2, <4>2 DEF SkipDeleted, Advance, Handled
      <4> QED BY <2>2, <4>1, <4>2
    <3>5. ASSUME NEW i \in 1..n, handlers[s][i].key \in Handled
          PROVE  hw'[s][handlers[s][i].key] = Effective(handlers[s][i].val)
      <4>1. CASE i = n
        BY <3>4, <3>5, <4>1
      <4>2. CASE i # n
        <5>1. i \in 1..n - 1 /\ i \in 1..Len(handlers[s])
          BY <3>3, <4>2
        <5>2. handlers[s][i].key # handlers[s][n].key
          BY <3>3, <4>2, <5>1
        <5> QED BY <3>3, <3>4, <3>5, <5>1, <5>2 DEF Written
      <4> QED BY <4>1, <4>2
    <3>6. idx'[s] - 1 = n /\ idx'[s] > 0
      BY <3>1, <3>2
    <3> QED BY <1>0, <3>5, <3>6 DEF Written
  <2> QED BY <2>1, <2>2
<1>5. AcceptedWritten(s)'
  BY <1>0, <1>2, <1>4 DEF CommitInv, AcceptedWritten
<1> QED BY <1>1, <1>3, <1>5 DEF CommitInv

\* change_cb() of s raises once it has begun.
LEMMA CallbackRaisedCommit ==
  ASSUME TypeOK, NEW s \in Server, ServerInv(s), CommitInv(s),
         RollbackEnd(s) \/ RevertRaises(s) \/ PostRaises(s)
  PROVE  CommitInv(s)'
<1>0. /\ UNCHANGED <<reqId, handlers, hw, cur, timer, status, crashes>>
      /\ pc[s] # "idle" /\ pc'[s] = "idle" /\ inbox[s] \in Seq(Event)
      /\ Refuse(s, reqId[s], inbox[s])
  BY DEF RollbackEnd, RevertRaises, PostRaises, revertVars, processVars, TypeOK
<1>1. /\ inbox'[s] = inbox[s] /\ UNCHANGED <<txId, txAcked, txCfg>>
      /\ (txPhase = "change" /\ txPhase' = "finish") \/ UNCHANGED txPhase
  BY <1>0, RefuseSelf DEF Refuse
<1>2. ~(txPhase = "change" /\ s \in txAcked)
  BY <1>0 DEF ServerInv, ChangeProgress
<1>3. OwnChanges(s)'
  BY <1>0, <1>1 DEF CommitInv, OwnChanges
<1>4. AcceptedWritten(s)'
  BY <1>0, <1>1, <1>2 DEF CommitInv, AcceptedWritten
<1>5. AcceptedStored(s)'
  BY <1>0, <1>1, <1>2 DEF CommitInv, AcceptedStored, FinishComing
<1> QED BY <1>3, <1>4, <1>5 DEF CommitInv

\* s accepts.
LEMMA ChangeEndCommit ==
  ASSUME TypeOK, NEW s \in Server, ServerInv(s), CommitInv(s), ChangeEnd(s)
  PROVE  CommitInv(s)'
<1>0. /\ UNCHANGED <<reqId, idx, handlers, hw, status, crashes>>
      /\ pc[s] = "apply" /\ pc'[s] = "idle" /\ cur'[s] = reqId[s] /\ timer'[s] = "sleep"
      /\ idx[s] = Len(handlers[s]) + 1 /\ inbox[s] \in Seq(Event)
      /\ Accept(s, reqId[s], inbox[s])
  BY DEF ChangeEnd, EndChange, processVars, TypeOK
<1>1. /\ inbox'[s] = inbox[s] /\ UNCHANGED <<txId, txPhase, txCfg>>
      /\ txAcked' = IF Awaited(s, reqId[s]) /\ txPhase = "change" THEN txAcked \cup {s} ELSE txAcked
  BY <1>0, AcceptSelf DEF Accept
<1>2. txPhase = "change" => s \notin txAcked
  BY <1>0 DEF ServerInv, ChangeProgress
<1>3. ~FinishComing(s)'
  BY <1>0, <1>1 DEF FinishComing, ServerInv, FinishExpected
<1>4. OwnChanges(s)'
  BY <1>0, <1>1 DEF CommitInv, OwnChanges
<1>5. AcceptedWritten(s)'
  <2>1. Len(handlers[s]) \in Nat /\ idx[s] - 1 = Len(handlers[s])
    BY <1>0, HandlerList
  <2>2. Written(s, Len(handlers[s]))
    BY <1>0, <2>1 DEF CommitInv, AcceptedWritten
  <2>3. Written(s, Len(handlers[s]))'
    BY <1>0, <2>2 DEF Written
  <2> QED BY <1>0, <2>3 DEF AcceptedWritten
<1>6. AcceptedStored(s)'
  BY <1>0, <1>1, <1>2, <1>3 DEF CommitInv, AcceptedStored, Awaited
<1> QED BY <1>4, <1>5, <1>6 DEF CommitInv

\* s is told how the transaction ended and handles it.
LEMMA FinishCommit ==
  ASSUME TypeOK, NEW s \in Server, ServerInv(s), CommitInv(s),
         FinishNull(s) \/ FinishEvent(s) \/ FinishRaises(s)
  PROVE  CommitInv(s)'
<1> DEFINE q == inbox[s]
<1>0. /\ q \in Seq(Event) /\ q # <<>> /\ pc[s] = "idle"
      /\ Head(q) = q[1] /\ 1 \in DOMAIN q /\ Tail(q) \in Seq(Event)
      /\ q[1].ev # "change"
  <2>1. q \in Seq(Event) /\ q # <<>>
    BY DEF TypeOK, FinishNull, FinishEvent, FinishRaises, Takes
  <2> QED BY <2>1, TailFacts, TailType DEF FinishNull, FinishEvent, FinishRaises, Takes
<1>1. /\ Len(q) = 1 /\ q[1].id = txId /\ txPhase = "finish" /\ txId # 0 /\ Tail(q) = <<>>
      /\ crashes = 0 => cur[s] = txId
  <2>1. Len(q) = 1 /\ q[1].id = txId /\ txPhase = "finish"
    BY <1>0 DEF ServerInv, FinishExpected
  <2>2. crashes = 0 => cur[s] = txId
    BY <1>0 DEF CommitInv, AcceptedStored, FinishComing
  <2> QED BY <1>0, <2>1, <2>2, TailFacts DEF TypeOK
<1>2. ASSUME UNCHANGED <<txId, txPhase, txCfg, handlers, crashes>>, inbox'[s] = <<>>,
             pc'[s] # "apply", timer'[s] \in {timer[s], "off"}, cur'[s] \in {0, cur[s]},
             pc'[s] # "idle" /\ reqId'[s] = txId => cur[s] = txId,
             crashes = 0 => status'[s] = status[s]
      PROVE  CommitInv(s)'
  <2>1. OwnChanges(s)'
    BY <1>1, <1>2 DEF CommitInv, OwnChanges
  <2>2. AcceptedWritten(s)'
    BY <1>1, <1>2 DEF CommitInv, AcceptedWritten
  <2>3. AcceptedStored(s)'
    BY <1>1, <1>2 DEF CommitInv, AcceptedStored, FinishComing
  <2> QED BY <2>1, <2>2, <2>3 DEF CommitInv
<1>3. CASE FinishNull(s) \/ FinishRaises(s)
  <2>1. Refuse(s, Head(q).id, Tail(q))
    BY <1>3 DEF FinishNull, FinishRaises
  <2>2. inbox'[s] = <<>> /\ UNCHANGED <<txId, txPhase, txCfg>>
    <3>1. UNCHANGED txCfg
      BY <2>1 DEF Refuse
    <3> QED BY <1>0, <1>1, <2>1, <3>1, RefuseSelf
  <2>3. UNCHANGED <<pc, reqId, handlers, cur, timer, crashes>>
    BY <1>3 DEF FinishNull, FinishRaises, revertVars, processVars
  <2>4. crashes = 0 => status'[s] = status[s]
    BY <1>1, <1>3 DEF FinishNull, FinishRaises, processVars
  <2> QED BY <1>0, <1>2, <2>2, <2>3, <2>4
<1>4. CASE FinishEvent(s)
  <2>1. cur[s] = txId /\ timer'[s] = "off" /\ UNCHANGED <<handlers, crashes>>
    BY <1>0, <1>1, <1>4, FinishEventInv DEF FinishEvent, CancelRevertTask, TypeOK
  <2>2. CASE q[1].ev = "abort"
    <3>1. /\ inbox' = [inbox EXCEPT ![s] = Tail(@)] /\ pc' = [pc EXCEPT ![s] = "abort"]
          /\ UNCHANGED <<sysrepoVars, cur, status>>
      BY <1>0, <1>1, <1>4, <2>1, <2>2 DEF FinishEvent
    <3>2. /\ inbox'[s] = <<>> /\ pc'[s] = "abort"
          /\ UNCHANGED <<txId, txPhase, txCfg, cur, status>>
      BY <1>1, <3>1 DEF TypeOK, sysrepoVars
    <3> QED BY <1>2, <2>1, <3>2
  <2>3. CASE q[1].ev # "abort"
    <3>1. Accept(s, q[1].id, Tail(q)) /\ cur' = [cur EXCEPT ![s] = 0] /\ UNCHANGED <<pc, status>>
      BY <1>0, <1>1, <1>4, <2>1, <2>3 DEF FinishEvent
    <3>2. inbox'[s] = <<>> /\ UNCHANGED <<txCfg, txId, txPhase>> /\ cur'[s] = 0
      BY <1>0, <1>1, <3>1, AcceptSelf DEF Accept, TypeOK
    <3> QED BY <1>0, <1>2, <2>1, <3>1, <3>2
  <2> QED BY <2>2, <2>3
<1> QED BY <1>3, <1>4

\* 'abort' is handled.
LEMMA AbortEndCommit ==
  ASSUME TypeOK, NEW s \in Server, ServerInv(s), CommitInv(s), AbortEnd(s)
  PROVE  CommitInv(s)'
<1>0. /\ inbox[s] \in Seq(Event) /\ pc[s] = "abort"
      /\ pc'[s] = "idle" /\ cur'[s] = 0
      /\ UNCHANGED <<reqId, handlers, timer, status, crashes>>
      /\ Accept(s, reqId[s], inbox[s])
  BY DEF TypeOK, AbortEnd, processVars
<1>1. inbox[s] = <<>> /\ txPhase = "finish" /\ timer[s] = "off"
  BY <1>0 DEF ServerInv, CallbackState, EventOrder
<1>2. inbox'[s] = <<>> /\ UNCHANGED <<txId, txPhase, txCfg>>
  BY <1>0, <1>1, AcceptSelf DEF Accept
<1> QED BY <1>0, <1>1, <1>2 DEF CommitInv, OwnChanges, AcceptedWritten, AcceptedStored, FinishComing

\* A step of the callback of s preserves the invariant of s ...
LEMMA CallbackOwnCommit ==
  ASSUME TypeOK, NEW s \in Server, ServerInv(s), CommitInv(s), CallbackStep(s)
  PROVE  CommitInv(s)'
<1>1. CASE RejectBusy(s) \/ ChangeRefused(s)
  <2>1. /\ Takes(s, {"change"}) /\ Refuse(s, Head(inbox[s]).id, Tail(inbox[s]))
        /\ UNCHANGED <<LocalVars(s), DeviceVars(s), crashes>>
    BY <1>1 DEF RejectBusy, Busy, ChangeRefused, LocalVars, DeviceVars, revertVars, processVars
  <2> QED BY <2>1, RefusedCommit
<1>2. CASE ~(RejectBusy(s) \/ ChangeRefused(s))
  BY <1>2, ChangeBeginCommit, HandlerStepCommit, CallbackRaisedCommit, ChangeEndCommit,
     FinishCommit, AbortEndCommit DEF CallbackStep
<1> QED BY <1>1, <1>2

\* ... and of every other server.
LEMMA CallbackOtherCommit ==
  ASSUME TypeOK, NEW s \in Server, ServerInv(s), CallbackStep(s),
         NEW t \in Server, t # s, ServerInv(t), CommitInv(t)
  PROVE  CommitInv(t)'
<1> USE DEF callbackVars, sysrepoVars, revertVars, processVars
<1>0. inbox[s] \in Seq(Event) /\ (inbox[s] # <<>> => Tail(inbox[s]) \in Seq(Event))
  BY TailType DEF TypeOK
<1>1. UNCHANGED <<LocalVars(t), DeviceVars(t)>>
  BY CallbackFrame
<1>1a. UNCHANGED crashes
  BY DEF CallbackStep, RejectBusy, Busy, ChangeRefused, ChangeBegin, StartHandlers,
         ApplyOk, Applying, ApplyHandler, SkipDeleted, Advance, ApplyRaises, RollbackFrom,
         RevertStep, RevertRaises, RollbackEnd, ChangeEnd, EndChange, PostRaises, FinishNull,
         FinishEvent, AbortEnd, FinishRaises
<1>2. CASE ChangeBegin(s) \/ ApplyOk(s) \/ SkipDeleted(s) \/ ApplyRaises(s) \/ RevertStep(s)
  <2>1. UNCHANGED <<inbox[t], txCfg, txId, txPhase, txAcked>>
    BY <1>2
       DEF ChangeBegin, StartHandlers, ApplyOk, Applying, ApplyHandler, SkipDeleted, Advance,
           ApplyRaises, RollbackFrom, RevertStep, TypeOK
  <2> QED BY <1>1, <1>1a, <2>1, UntouchedCommit
<1>3. CASE RejectBusy(s) \/ ChangeRefused(s) \/ FinishNull(s) \/ FinishRaises(s)
  BY <1>0, <1>1, <1>1a, <1>3, AnswerKeepsCommit
     DEF RejectBusy, Busy, ChangeRefused, FinishNull, FinishRaises, Takes
<1>4. CASE RevertRaises(s) \/ RollbackEnd(s) \/ PostRaises(s) \/ ChangeEnd(s) \/ AbortEnd(s)
  BY <1>0, <1>1, <1>1a, <1>4, AnswerKeepsCommit
     DEF RevertRaises, RollbackEnd, PostRaises, ChangeEnd, EndChange, AbortEnd
<1>5. CASE FinishEvent(s)
  <2>1. CASE Head(inbox[s]).ev = "abort"
    <3>1. UNCHANGED <<inbox[t], txCfg, txId, txPhase, txAcked>>
      BY <1>5, <2>1, FinishEventInv DEF FinishEvent, TypeOK
    <3> QED BY <1>1, <1>1a, <3>1, UntouchedCommit
  <2>2. CASE Head(inbox[s]).ev # "abort"
    <3>1. Accept(s, Head(inbox[s]).id, Tail(inbox[s])) /\ inbox[s] # <<>>
      BY <1>5, <2>2, FinishEventInv DEF FinishEvent, Takes
    <3> QED BY <1>0, <1>1, <1>1a, <3>1, AnswerKeepsCommit
  <2> QED BY <2>1, <2>2
<1> QED BY <1>2, <1>3, <1>4, <1>5 DEF CallbackStep

\* sysrepo's steps.
LEMMA SysrepoCommit ==
  ASSUME TypeOK, NEW t \in Server, ServerInv(t), CommitInv(t), SysrepoStep \/ ClientTimeout
  PROVE  CommitInv(t)'
<1>0. UNCHANGED <<LocalVars(t), DeviceVars(t), crashes>>
  BY DEF SysrepoStep, Begin, NotifyChange, Commit, Finish, ClientTimeout, callbackVars, revertVars,
         processVars, LocalVars, DeviceVars
<1>1. CASE Begin
  <2>1. /\ txPhase = "idle" /\ txId' = txId + 1 /\ txId \in Nat /\ txAcked' = {}
        /\ UNCHANGED <<inbox, pc, reqId, idx, handlers, hw, cur, timer, status, crashes>>
    BY <1>1, ConstantsAssumption DEF Begin, callbackVars, revertVars, processVars, TypeOK
  <2>2. /\ \A i \in DOMAIN inbox[t] : inbox[t][i].id \in Nat /\ inbox[t][i].id <= txId
        /\ reqId[t] \in Nat /\ cur[t] \in Nat /\ reqId[t] <= txId /\ cur[t] <= txId
    <3>1. \A i \in DOMAIN inbox[t] : inbox[t][i] \in Event
      BY DEF TypeOK
    <3> QED BY <3>1, ConstantsAssumption DEF ServerInv, EventOrder, Event, TypeOK
  <2>3. /\ \A i \in DOMAIN inbox[t] : inbox[t][i].id # txId'
        /\ reqId[t] # txId' /\ cur[t] # txId'
    BY <2>1, <2>2
  <2>4. OwnChanges(t)'
    BY <2>1, <2>3 DEF OwnChanges
  <2>5. AcceptedWritten(t)'
    BY <2>1, <2>3 DEF CommitInv, AcceptedWritten, Written
  <2>6. ~FinishComing(t)'
    BY <2>1 DEF ServerInv, FinishExpected, FinishComing
  <2>7. AcceptedStored(t)'
    BY <2>1, <2>6 DEF CommitInv, AcceptedStored
  <2> QED BY <2>4, <2>5, <2>7 DEF CommitInv
<1>2. ASSUME NEW s \in Server, NotifyChange(s) PROVE CommitInv(t)'
  <2>1. UNCHANGED <<txId, txPhase, txAcked, txCfg>> /\ txPhase = "change"
    BY <1>2 DEF NotifyChange
  <2>2. CASE t # s
    <3>1. UNCHANGED inbox[t]
      BY <1>2, <2>2 DEF NotifyChange, TypeOK
    <3> QED BY <1>0, <2>1, <3>1, UntouchedCommit
  <2>3. CASE t = s
    <3> DEFINE e == [ev |-> "change", id |-> txId, chg |-> txCfg[t]]
    <3>1. e \in Event /\ inbox[t] \in Seq(Event) /\ inbox'[t] = Append(inbox[t], e)
      <4>1. /\ txId \in 1..MaxTx /\ txCfg[t] \in Inputs \cup {<<>>}
            /\ inbox \in [Server -> Seq(Event)]
        BY <2>1, ConstantsAssumption DEF TypeOK
      <4>2. e \in Event
        BY <4>1 DEF Event
      <4> QED BY <1>2, <2>3, <4>1, <4>2 DEF NotifyChange
    <3>2. \A i \in DOMAIN inbox'[t] :
             \/ i \in DOMAIN inbox[t] /\ inbox'[t][i] = inbox[t][i]
             \/ inbox'[t][i] = e
      BY <3>1, AppendFacts
    <3>3. OwnChanges(t)'
      BY <1>0, <2>1, <3>2 DEF CommitInv, OwnChanges, LocalVars, DeviceVars
    <3>4. AcceptedWritten(t)'
      <4>1. /\ Written(t, idx[t] - 1)' <=> Written(t, idx[t] - 1)
            /\ Written(t, Len(handlers[t]))' <=> Written(t, Len(handlers[t]))
        BY <1>0 DEF Written, DeviceVars
      <4> QED BY <1>0, <2>1, <4>1 DEF CommitInv, AcceptedWritten, LocalVars, DeviceVars
    <3>5. AcceptedStored(t)'
      <4>1. FinishComing(t)' => FinishComing(t)
        BY <3>2 DEF FinishComing
      <4> QED BY <1>0, <2>1, <4>1 DEF CommitInv, AcceptedStored, LocalVars
    <3> QED BY <3>3, <3>4, <3>5 DEF CommitInv
  <2> QED BY <2>2, <2>3
<1>3. CASE Commit
  <2>1. txPhase = "change" /\ txPhase' = "finish" /\ UNCHANGED <<txId, txCfg, txAcked>>
    BY <1>3 DEF Commit
  <2>2. \/ inbox'[t] = inbox[t]
        \/ /\ t \in txAcked
           /\ inbox'[t] = Append(inbox[t], [ev |-> "done", id |-> txId, chg |-> <<>>])
    BY <1>3 DEF Commit, Broadcast
  <2>3. CASE inbox'[t] = inbox[t]
    BY <1>0, <2>1, <2>3, UntouchedCommit
  <2>4. CASE inbox'[t] # inbox[t]
    BY <1>0, <2>1, <2>2, <2>4, FinishTold
  <2> QED BY <2>3, <2>4
<1>4. CASE Finish \/ ClientTimeout
  <2>1. UNCHANGED <<inbox[t], txId, txCfg, txAcked>> /\ txPhase' = "idle"
    BY <1>4 DEF Finish, ClientTimeout, callbackVars
  <2> QED BY <1>0, <2>1, UntouchedCommit
<1> QED BY <1>1, <1>2, <1>3, <1>4 DEF SysrepoStep

\* The revert task of s: it only runs when the transaction is over or is another one.
LEMMA TimerCommit ==
  ASSUME TypeOK, ~SlowPeers, NEW s \in Server, NEW t \in Server, ServerInv(t), CommitInv(t), TimerStep(s)
  PROVE  CommitInv(t)'
<1>0. UNCHANGED <<txId, txPhase, txAcked, txCfg, inbox, pc, reqId, idx, handlers, orig, status, crashes>>
  BY DEF TimerStep, TimerFires, TimerReverts, TimerRevertRaises, TimerEnds, EndRevert,
         sysrepoVars, callbackVars, processVars
<1>a. DOMAIN cur = Server /\ DOMAIN timer = Server /\ DOMAIN tidx = Server /\ DOMAIN hw = Server
  BY DEF TypeOK
<1>1. /\ cur' = cur \/ cur' = [cur EXCEPT ![s] = 0]
      /\ \E v : timer' = timer \/ timer' = [timer EXCEPT ![s] = v]
      /\ \E v : tidx' = tidx \/ tidx' = [tidx EXCEPT ![s] = v]
      /\ hw' = hw \/ hw' = Reverted(s, tidx[s])
  BY DEF TimerStep, TimerFires, TimerReverts, TimerRevertRaises, TimerEnds, EndRevert
<1>2. CASE t # s
  <2>1. UNCHANGED <<cur[t], timer[t], tidx[t], hw[t]>>
    BY <1>2, <1>a, <1>1 DEF Reverted
  <2>2. UNCHANGED <<LocalVars(t), DeviceVars(t), inbox[t]>>
    BY <1>0, <2>1 DEF LocalVars, DeviceVars
  <2> QED BY <1>0, <2>2, UntouchedCommit
<1>3. CASE t = s
  <2>1. pc[t] = "idle" /\ cur[t] # 0
    BY <1>3 DEF TimerStep, TimerFires, TimerReverts, TimerRevertRaises, TimerEnds, EndRevert,
                ServerInv, CallbackState, TypeOK
  <2>2. cur'[t] = cur[t] \/ cur'[t] = 0
    BY <1>1, <1>a
  <2>2a. txPhase \in {"idle", "change", "finish"} /\ (txPhase # "idle" => txId # 0)
    BY DEF TypeOK
  <2>3. OwnChanges(t)'
    BY <1>0, <2>1, <2>2 DEF CommitInv, OwnChanges
  <2>4. CASE TimerFires(s)
    <3>1. timer[t] = "sleep" /\ timer'[t] = "revert" /\ UNCHANGED <<cur, hw>>
          /\ (txPhase = "idle" \/ cur[t] # txId)
      BY <1>3, <1>a, <2>4 DEF TimerFires
    <3>2. Written(t, Len(handlers[t]))' <=> Written(t, Len(handlers[t]))
      BY <1>0, <3>1 DEF Written
    <3>3. AcceptedWritten(t)'
      BY <1>0, <2>1, <3>1, <3>2 DEF CommitInv, AcceptedWritten
    <3>4. AcceptedStored(t)'
      BY <1>0, <3>1 DEF CommitInv, AcceptedStored, FinishComing
    <3> QED BY <2>3, <3>3, <3>4 DEF CommitInv
  <2>5. CASE ~TimerFires(s)
    <3>1. timer[t] = "revert"
      BY <1>3, <2>5 DEF TimerStep, TimerReverts, TimerRevertRaises, TimerEnds, EndRevert
    <3>2. txPhase = "idle" \/ cur[t] # txId
      BY <3>1 DEF CommitInv, AcceptedWritten
    <3>3. AcceptedWritten(t)'
      BY <1>0, <2>1, <2>2, <2>2a, <3>2 DEF AcceptedWritten
    <3>4. AcceptedStored(t)'
      <4>1. FinishComing(t) => cur[t] = txId /\ txPhase = "finish"
        BY <2>1 DEF ServerInv, FinishExpected, FinishComing
      <4>2. ~FinishComing(t)'
        BY <1>0, <3>2, <4>1 DEF FinishComing
      <4>3. crashes = 0 => ~(txPhase = "change" /\ t \in txAcked)
        BY <3>2 DEF CommitInv, AcceptedStored
      <4> QED BY <1>0, <4>2, <4>3 DEF CommitInv, AcceptedStored
    <3> QED BY <2>3, <3>3, <3>4 DEF CommitInv
  <2> QED BY <2>4, <2>5
<1> QED BY <1>2, <1>3

\* Stops, crashes and restarts.
LEMMA ProcessCommit ==
  ASSUME TypeOK, NEW s \in Server, NEW t \in Server, ServerInv(s), CommitInv(s), ServerInv(t), CommitInv(t),
         ProcessStep(s) \/ Crash(s)
  PROVE  CommitInv(t)'
<1>0. crashes' # 0
  <2>1. crashes \in Nat
    BY ConstantsAssumption DEF TypeOK
  <2>2. CASE Crash(s)
    BY <2>1, <2>2 DEF Crash
  <2>3. CASE ProcessStep(s)
    <3>1. status[s] # "up" /\ crashes' = crashes
      BY <2>3 DEF ProcessStep, Stop, Reconcile, Subscribe
    <3> QED BY <3>1 DEF CommitInv, AcceptedStored
  <2> QED BY <2>2, <2>3
<1>1. UNCHANGED <<txId, txPhase, txAcked, txCfg>>
  BY DEF ProcessStep, Stop, Crash, ProcessEnds, Reconcile, Subscribe, sysrepoVars
<1>2. CASE t # s
  <2>1. UNCHANGED <<LocalVars(t), DeviceVars(t), inbox[t]>>
    BY <1>2 DEF ProcessStep, Stop, Crash, ProcessEnds, Reconcile, Subscribe, callbackVars, revertVars,
                LocalVars, DeviceVars, TypeOK
  <2> QED BY <1>0, <1>1, <2>1, UntouchedCommit
<1>3. CASE t = s
  <2>1. inbox'[t] = <<>> /\ pc'[t] = "idle" /\ cur'[t] = 0 /\ timer'[t] = "off"
    <3>1. CASE ProcessEnds(s)
      BY <1>3, <3>1 DEF ProcessEnds, TypeOK
    <3>2. CASE Reconcile(s) \/ Subscribe(s)
      <4>1. ~Alive(s) /\ UNCHANGED <<callbackVars, revertVars>>
        BY <3>2 DEF Reconcile, Subscribe, Alive
      <4> QED BY <1>3, <4>1 DEF ServerInv, CallbackState, callbackVars, revertVars
    <3> QED BY <3>1, <3>2 DEF ProcessStep, Stop, Crash
  <2>2. txPhase = "change" => txId # 0
    BY DEF TypeOK
  <2> QED BY <1>0, <1>1, <2>1, <2>2 DEF CommitInv, OwnChanges, AcceptedWritten, AcceptedStored
<1> QED BY <1>2, <1>3

LEMMA CommitStep ==
  ASSUME ~SlowPeers, TypeOK, \A s \in Server : ServerInv(s) /\ CommitInv(s), [Next]_vars
  PROVE  \A s \in Server : CommitInv(s)'
<1> TAKE t \in Server
<1>0. ServerInv(t) /\ CommitInv(t)
  OBVIOUS
<1>1. CASE UNCHANGED vars
  <2>1. UNCHANGED <<LocalVars(t), DeviceVars(t), inbox[t], txId, txPhase, txCfg, txAcked, crashes>>
    BY <1>1 DEF vars, sysrepoVars, callbackVars, revertVars, processVars, LocalVars, DeviceVars
  <2> QED BY <1>0, <2>1, UntouchedCommit
<1>2. CASE SysrepoStep \/ ClientTimeout
  BY <1>0, <1>2, SysrepoCommit
<1>3. ASSUME NEW s \in Server, CallbackStep(s) PROVE CommitInv(t)'
  BY <1>0, <1>3, CallbackOwnCommit, CallbackOtherCommit
<1>4. ASSUME NEW s \in Server, TimerStep(s) PROVE CommitInv(t)'
  BY <1>0, <1>4, TimerCommit
<1>5. ASSUME NEW s \in Server, ProcessStep(s) \/ Crash(s) PROVE CommitInv(t)'
  BY <1>0, <1>5, ProcessCommit
<1> QED BY <1>1, <1>2, <1>3, <1>4, <1>5 DEF Next

\* The running datastore is only written when every server that accepted the
\* transaction, and has not crashed since, has its changes on the device: also
\* when apply(), revert() or post() raise, clients time out or transactions
\* pass a starting server, as long as no transaction outlives revert_timeout
\* (change_cb, core.py:182-200).
THEOREM CommitsOnlyApplied ==
  ASSUME ~SlowPeers
  PROVE  Spec => CommitOnlyApplied
<1> DEFINE Inv == \A s \in Server : CommitInv(s)
<1>1. ASSUME Init PROVE Inv
  <2> SUFFICES ASSUME NEW s \in Server PROVE CommitInv(s)
    OBVIOUS
  <2>1. /\ inbox[s] = <<>> /\ pc[s] = "idle" /\ cur[s] = 0 /\ timer[s] = "off"
        /\ txPhase = "idle" /\ status[s] = "up"
    BY <1>1 DEF Init
  <2> QED BY <2>1 DEF CommitInv, OwnChanges, AcceptedWritten, AcceptedStored, FinishComing
<1>2. TypeOK /\ ProtocolInv /\ Inv /\ [Next]_vars => Inv'
  BY CommitStep DEF ProtocolInv, ServerInv
<1>3. ASSUME TypeOK, ProtocolInv, Inv, [Next]_vars, running' # running,
             NEW s \in txAcked, Alive(s), crashes = 0 \/ cur[s] = txId,
             NEW i \in DOMAIN txCfg[s], txCfg[s][i].key \in Handled
      PROVE  hw[s][txCfg[s][i].key] = Effective(txCfg[s][i].val)
  <2>1. Commit
    BY <1>3, RunningKept
  <2>2. txPhase = "change" /\ txId # 0 /\ s \in Server
    BY <1>3, <2>1 DEF Commit, TypeOK
  <2>3. CommitInv(s) /\ cur[s] = txId
    BY <1>3, <2>2 DEF CommitInv, AcceptedStored
  <2>4. handlers[s] = txCfg[s] /\ Written(s, Len(handlers[s]))
    BY <1>3, <2>2, <2>3 DEF CommitInv, OwnChanges, AcceptedWritten
  <2>5. i \in 1..Len(handlers[s])
    BY <1>3, <2>2, <2>4, HandlerList
  <2> QED BY <1>3, <2>4, <2>5 DEF Written
<1>4. TypeOK /\ ProtocolInv /\ Inv /\ [Next]_vars =>
        [running' # running =>
           \A s \in txAcked : Alive(s) /\ (crashes = 0 \/ cur[s] = txId) =>
             \A i \in DOMAIN txCfg[s] : txCfg[s][i].key \in Handled =>
               hw[s][txCfg[s][i].key] = Effective(txCfg[s][i].val)]_vars
  BY <1>3
<1> QED BY <1>1, <1>2, <1>4, TypeCorrect, ProtocolCorrect, PTL DEF Spec, CommitOnlyApplied
=============================================================================
