----------------------------- MODULE XlateProps -----------------------------
(***************************************************************************)
(* What the configuration path of the translators promises.                *)
(***************************************************************************)
EXTENDS Xlate

\* the native nodes a configured leaf is about, whether or not its module answers now
Home(lf) == IF lf \in OtsiLeaves THEN {Pack(svc, lf.o)} ELSE Nodes(lf, At(svc, lf), svc)
\* no transaction is between the write of a native leaf and the commit of its service leaf
Settled(n) == \A s \in Servers : txn[s].pc = "posted" => n \notin HitBy(txn[s])

\* A committed service leaf is in force: the native leaf it was the last to write has the value
\* it translates to, and once it is removed nothing, except an output power of 0, which apply()
\* takes for a value that was never there; across overlapping transactions of the three servers,
\* native edits, the reconcile loop, refused and failing transactions (post(), Change, Done).
ConfiguredInForce ==
  \A n \in Native : LET lf == by[n] IN
    (lf \in SvcLeaves /\ n \notin loose /\ Settled(n)) =>
      IF At(svc, lf) # Unset
      THEN LET f == Translate(lf, At(svc, lf))
           IN n[1] \in Home(lf) /\ n[2] \in DOMAIN f /\ gs[n] = f[n[2]]
      ELSE \/ gs[n] = Unset
           \/ n[2] = "power" /\ gs[n] = 0
           \/ n[2] = "loop" /\ gs[n] = "none"

\* The admin-state of a client port reaches both ends of its gearbox connection: neither its
\* host interface nor its network interface is left unwritten.
PortReachesBothEnds ==
  \A lf \in Ports : (lf.o \in Clients /\ At(svc, lf) # Unset /\ env.conn[lf.o] # Unset) =>
    \A i \in {HostOf[lf.o], env.conn[lf.o]} : LET n == <<i, "admin">> IN
      (n \notin loose /\ Settled(n)) => /\ by[n] # Unset
                                        /\ by[n] = lf => gs[n] = (IF At(svc, lf) = "ENABLED" THEN "UP" ELSE "DOWN")

\* The reconcile loop repairs every interface: again and again the admin-status of each is the
\* one that openconfig-interfaces configures, whatever was lost to a native client, to another
\* server, to an abort or to the loop's own race with a transaction.
EnabledEnforced ==
  []<>(\A i \in Ifs : At(svc, EnabledLeaf(i)) # Unset =>
         gs[<<i, "admin">>] = (IF At(svc, EnabledLeaf(i)) THEN "UP" ELSE "DOWN"))

=============================================================================
