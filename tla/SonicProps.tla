----------------------------- MODULE SonicProps -----------------------------
(***************************************************************************)
(* Properties of the SONiC south server.                                   *)
(***************************************************************************)
EXTENDS Sonic

\* nothing is under way: no transaction, reconciliation or reboot, and no known race has separated
\* the configuration from uSONiC
Quiet ==
  /\ txn = NoTxn /\ rec = Idle /\ srv.subscribed /\ srv.queue = 0
  /\ pods.pod = "new" /\ ~ ghost.overtaken

\* When nothing is under way, uSONiC is set as configured: the split ports, the status and the
\* auto-negotiation of every port, VLANs, their members and port channels, in whatever order the
\* changes and the servers were called. The one way to run with other ports is a reconciliation
\* that ended between the patch of the config map and that of the deployments; the config map is
\* then as configured (update_usonic_config, restart_usonic).
SonicInForce ==
  Quiet =>
    LET tight(cell) == cell \notin ghost.loose
        mode(v, i) == IF v \in conf.trunk[i] THEN "tagged" ELSE IF conf.access[i] = v THEN "untagged" ELSE None
    IN /\ pods.live = conf.split \/ (ghost.unrestarted /\ pods.cm = conf.split)
       /\ \A i \in Ports :
            /\ tight(<<"admin", i>>) /\ i \notin conf.down => db.admin[i] = Or(conf.admin[i], "down")
            /\ tight(<<"an", i>>) => bcm[i] = Or(conf.an[i], "no")
            /\ tight(<<"member", i>>) => \A v \in Vids : db.member[v][i] = mode(v, i)
       /\ \A v \in Vids : tight(<<"vlan", v>>) => (v \in conf.vlans <=> db.vlan[v] # None)
       /\ \A p \in Pids : tight(<<"lag", p>>) => (p \in conf.lags <=> p \in db.lags) /\ db.lagifs[p] = conf.lagifs[p]

\* When nothing is under way uSONiC runs with the ports of its config map: the deployment is restarted
\* when the config map was updated, as breakout_update_usonic says. The code does not see to it.
RestartedIfUpdated == Quiet => pods.live = pods.cm

\* Uplink failure detection: once the change of an uplink was taken from the queue, the downlinks
\* are down with it, and as configured when it is back, unless their status was written by someone
\* else since (ufd_handler, UFDUplinkHandler, UFDDownlinkHandler).
UfdHolds ==
  Quiet =>
    \A u \in conf.up \cap Ports : \A j \in conf.down \cap Ports :
      u \notin link.dirty /\ link.notif[u] # "unknown" /\ <<"ufd", j>> \notin ghost.loose =>
        db.admin[j] = IF link.notif[u] = "down" THEN "down" ELSE Or(conf.admin[j], "down")

\* The events watch_pods waits for come: after the restart of the deployment it sees the pod deleted
\* and then running. The code may begin to watch after the pod was deleted.
WatchEnds == rec.stage = "watch" ~> rec.stage # "watch"

WatchMissed == rec.stage = "watch" /\ pods.pod # "old" /\ ~ srv.deleted
NoSuchVlan == \E i \in Ports : \E m \in Members(i) : m[2] \notin conf.vlans

\* A reboot ends and the servers take transactions again, unless uSONiC was gone before the watch
\* of its pods began (watch_pods), or an interface is a member of a VLAN that does not exist
\* (set_vlan_member raises in VLANServer.reconcile).
RebootEnds ==
  (srv.rebooting \/ ~ srv.up) ~> ((srv.subscribed /\ ~ srv.rebooting) \/ WatchMissed \/ NoSuchVlan)

=============================================================================
