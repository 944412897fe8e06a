------------------------------ MODULE PiuProps ------------------------------
(* Properties of the PIU life cycle (Piu).                                 *)
EXTENDS Piu

Quiet == srv = "up" /\ txn.pc = "idle" /\ \A j \in Jobs : job[j].pc = "idle"
Complete == cur # 0 /\ ents[cur].keys = Keys
Objects == (IF tai.module THEN {ModuleObj} ELSE {})
           \cup (IF tai.netif THEN {NetifObj} ELSE {}) \cup tai.hostifs

\* callbacks may run at once, but none has failed the assertion of initialize_piu, none
\* has overtaken the one before it on its way there, and none has cleaned up under the
\* lock of an entry that was no longer in self.modules
InTurn == count.raced = 0

\* every line-rate transaction has met, once it held the lock, the host interfaces its
\* module object had when _init asked taish for it: none was opened while initialize_piu
\* had created some of them and not yet the others
UpToDate == count.stale = 0

\* the transponder server never started while the slot and the status the platform server
\* last notified were different, nor read the configuration of a module while a transaction
\* was open
Aligned == count.skew = 0

\* what the code has no answer to, whatever comes after it, has not happened
Regular == InTurn /\ UpToDate /\ Aligned

\* nor has a call of taish failed, nor the platform server restarted
Undisturbed == Regular /\ count.faults = 0 /\ count.onlp = 0

\* A host interface that has configuration has a use at the configured line rate:
\* the line-rate handler refuses a rate that conflicts with the configuration, and a
\* host interface that the module object lacks cannot be configured (InterfaceHandler's
\* validate and _init), whatever plugging, unplugging and restarts happen in between. Only
\* the end of the server in the middle of a transaction may leave the objects of a rate that
\* is not configured, which a server that starts without the module does not remove.
HostConfigFits ==
  Undisturbed /\ count.cut = 0 =>
     running.hosts \subseteq RateInfo(Effective(running.rate))

\* Once no callback and no transaction runs, every TAI object of an initialised module has
\* a monitor task held by self.modules, so that its notifications arrive and cleanup_piu can
\* cancel it; and every monitor task that runs belongs to the entry in self.modules and to an
\* object that exists. Callbacks may overlap, as long as they run InTurn; a cleanup_piu that
\* fails between two removals leaves an entry whose tasks are cancelled (count.stuck).
MonitorsExact ==
  Regular /\ Quiet =>
    /\ count.stuck = 0 /\ Complete => \A o \in Objects : <<o, cur>> \in mons
    /\ Undisturbed => \A m \in mons : m[2] = cur /\ m[1] \in Objects

\* An operational request fails only if it meets a change of the host interfaces
\* half done: outside the loops of initialize_piu, cleanup_piu, apply and revert the indexes
\* 0 .. len-1 are the existing ones.
OperFailsOnlyMidway ==
  OperFails /\ Undisturbed /\ count.crashes = 0
    => \/ txn.pc \in {"hostifs", "undo"}
       \/ \E j \in Jobs : job[j].pc \in {"hostifs", "remove"}

\* However plugging, unplugging, transactions and restarts of the server interleave, a module
\* that stays plugged ends up initialised, with the host interfaces of its line rate, and one
\* that was unplugged while the server ran leaves no TAI object: an unplugging waits for the
\* initialisation or the transaction in progress.
SlotSettles ==
  /\ <>[](Undisturbed /\ hw = "both" /\ srv = "up"
          => Complete /\ tai.module /\ tai.netif /\ tai.hostifs = RateInfo(tai.rate))
  /\ <>[](Undisturbed /\ count.crashes = 0 /\ hw # "both" => ~tai.module)

\* What the assertion of initialize_piu says: a module is initialised only when its location
\* is not in self.modules. With a callback for every notification it does not hold: a module
\* plugged while initialize_piu or cleanup_piu of the previous one still runs fails the
\* assertion, its callback pops the entry, and nothing initialises it again.
LocationIsNew ==
  [][\A j \in Jobs : /\ Undisturbed /\ count.crashes = 0
                      /\ InitEnter(j) /\ ~Overtakes(j) => cur = 0]_vars
=============================================================================
