---------------------------- MODULE AtomicConfig ----------------------------
(***************************************************************************)
(* What the change-handling engine promises to a reader who knows nothing  *)
(* of events, handlers and timers: every server is either busy, or its     *)
(* device holds the configuration of its model.  Configuration changes are *)
(* atomic, and only busy servers see them; a busy server settles again.    *)
(***************************************************************************)
CONSTANTS
  Server,
  Working  \* stands for the device of a server that is busy

VARIABLES
  config,  \* what the running datastore asks of each device
  device   \* what the device of each server holds, or Working

vars == <<config, device>>

Init == device = config

\* The servers B become busy, or stay so; only their configuration may change.
Disturb(B) ==
  /\ \A s \in Server \ B : config'[s] = config[s]
  /\ device' = [s \in Server |-> IF s \in B THEN Working ELSE device[s]]

\* The busy servers S settle on their configuration, while those of B become
\* busy: the 'abort' that a refusal sends out reaches others.
Settle(S, B) ==
  /\ \A s \in S : device[s] = Working
  /\ config' = config
  /\ device' = [s \in Server |-> IF s \in B THEN Working
                                 ELSE IF s \in S THEN config[s] ELSE device[s]]

Next == \E B \in SUBSET Server : Disturb(B) \/ \E S \in SUBSET Server : Settle(S, B)

Safe == Init /\ [][Next]_vars

\* Every server settles, time and again.
Settles == \A s \in Server : []<>(device[s] # Working)

Spec == Safe /\ Settles
=============================================================================
