---------------------------- MODULE GearboxProps ----------------------------
(* Properties of the gearbox south server (Gearbox).                       *)
EXTENDS Gearbox

AtRest == srv = "up" /\ itxn.pc = "idle"

\* An interface that has configuration has a TAI object: PinModeHandler.validate keeps
\* a pin-mode from removing it, and _init keeps an interface without object from being
\* configured, also across failed transactions and restarts. (Exempt is an interface a
\* failed pin-mode change removed, which the code does not create again.)
ConfiguredExists ==
  AtRest => \A i \in Configured(running) : i \in Objects \/ {i} \X AllNames \subseteq torn

\* Outside a transaction the attributes of every object are what the running
\* configuration asks for; admin-status and interface-type agree on provision-mode in
\* whatever order and combination they are changed. Only what a failed transaction had
\* set already is exempt, until it is configured again, and from a restart on only the
\* attributes that are not reconciled.
AttributesMatch ==
  AtRest => \A i \in Objects : \A n \in AllNames :
              <<i, n>> \in torn \/ attrs[i][n] = Wanted(running[i])[n]

\* The tributary mapping names no object that is gone: whatever InterfaceServer removes or creates, in
\* transactions that succeed, fail and are reverted half way, it takes out of the mapping in time, and
\* what it writes then is not a mapping it read before. Exempt is what GearboxServer wrote, from objects
\* it had looked up earlier, after InterfaceServer had taken the object out: nothing keeps the two apart.
MappingLive == \A p \in mapping \ raced : Live({p})

\* An answer to a request for operational data that no transaction disturbed lists
\* every interface that exists, with the state its configuration asks for.
OperAnswersConfig ==
  oper.pc = "answered" /\ oper.quiet /\ AtRest /\ madmin = gconf.admin =>
    /\ DOMAIN oper.got = Objects
    /\ \A i \in Objects : <<i, "prov">> \notin torn =>
         oper.got[i].admin = IF gconf.admin = "up" THEN Eff(running[i], "admin") ELSE "DOWN"

=============================================================================
