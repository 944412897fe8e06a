-------------------------- MODULE TelemetryProofs --------------------------
(***************************************************************************)
(* What the telemetry server promises, and what the Subscribe service on   *)
(* top of it does, proved for every set of requests, subscriptions, leaves *)
(* and calls.                                                              *)
(*                                                                         *)
(* FeedsMatchConfig says nothing of the middle of a transaction, where the *)
(* feeds are a step ahead of the datastore.  PendingFits says where they   *)
(* are: the stored handler knows how to go on and how to go back.          *)
(*                                                                         *)
(* FeedConsistent compares two records of the operational data that never  *)
(* meet: the server's store and what a sequence of notifications adds up   *)
(* to at the collector.  TracksInv also follows the feed that a deletion   *)
(* has stopped and a revert may start again, and what updates-only leaves  *)
(* untold; NoRepeats rests on it, SilenceInv counts a leaf's age against   *)
(* the time left until its next sample.                                    *)
(*                                                                         *)
(* These are theorems of Spec, the telemetry server alone.  What a         *)
(* Subscribe call gives its client and what it leaves behind are theorems  *)
(* of GnmiSpec.  The three properties follow from one inductive invariant. *)
(* It says who may change what a call has: before its transaction a call   *)
(* has nothing, and a handler the engine stores belongs to a call that     *)
(* applies or ends (CallOK, PendFits).  Then what is on its way to the     *)
(* client is what it must be: it leads to what is stored (Answered), and   *)
(* for ONCE and POLL it ends with the only SYNC_RESPONSE (SyncOK).         *)
(***************************************************************************)
EXTENDS TelemetryProps, GnmiSubscribeProps, SequenceTheorems, FiniteSetTheorems, WellFoundedInduction, TLAPS

Tolerated == OnlyFaults({"abort", "sample"})

\* The feed of r is what the running datastore asks for.
Matches(r) == feeds[r] = IF conf[r] = None THEN None ELSE Parsed(conf[r])

FeedShape ==
  /\ feeds = [r \in Request |-> feeds[r]]
  /\ conf = [r \in Request |-> conf[r]]
  /\ faults \in Seq(FaultNames)

\* The request of the stored handler: not yet configured and fed, or still configured and stopped.
PendingFits ==
  pend # None =>
    /\ pend.req \in Request /\ pend.kind \in {"created", "deleted"}
    /\ \A r \in Request \ {pend.req} : Matches(r)
    /\ pend.kind = "created" =>
         conf[pend.req] = None /\ pend.cfg \in Configs /\ feeds[pend.req] = Parsed(pend.cfg)
    /\ pend.kind = "deleted" =>
         conf[pend.req] # None /\ feeds[pend.req] = None /\ pend.cfg = Parsed(conf[pend.req])

AllMatch ==
  /\ \A r \in Request : conf[r] \in Configs \cup {None}
  /\ PendingFits
  /\ pend = None => \A r \in Request : Matches(r)

FeedsInv == FeedShape /\ (Tolerated => AllMatch)

\* Faults are counted and never forgotten.
LEMMA FaultsOfKind ==
  ASSUME faults \in Seq(FaultNames), NEW f, Fault(f), NEW F
  PROVE  /\ faults' \in Seq(FaultNames)
         /\ OnlyFaults(F)' => OnlyFaults(F) /\ f \in F
<1>1. f \in FaultNames /\ faults' = Append(faults, f)
  BY TelemetryAssumption DEF Fault
<1>2. faults' \in Seq(FaultNames) /\ Len(faults') = Len(faults) + 1 /\ Len(faults) \in Nat
  BY <1>1
<1>3. ASSUME OnlyFaults(F)' PROVE OnlyFaults(F) /\ f \in F
  <2>1. \A n \in 1..Len(faults) + 1 : faults'[n] \in F
    BY <1>2, <1>3 DEF OnlyFaults
  <2>2. faults'[Len(faults) + 1] = f
    BY <1>1
  <2>3. \A n \in 1..Len(faults) : faults[n] = faults'[n]
    BY <1>1
  <2>4. \A n \in DOMAIN faults : faults[n] \in F
    BY <2>1, <2>3, <1>2
  <2> QED
    BY <1>2, <2>1, <2>2, <2>4 DEF OnlyFaults
<1> QED
  BY <1>2, <1>3

LEMMA FaultsGrow ==
  ASSUME faults \in Seq(FaultNames), NEW f, Fault(f)
  PROVE  /\ faults' \in Seq(FaultNames)
         /\ Tolerated' => Tolerated /\ f \in {"abort", "sample"}
  BY FaultsOfKind DEF Tolerated

\* A step that changes none of the three, and meets at most a tolerated fault.
LEMMA KeepsFeeds ==
  ASSUME FeedsInv, UNCHANGED <<conf, pend, feeds>>,
         faults' \in Seq(FaultNames), Tolerated' => Tolerated
  PROVE  FeedsInv'
  BY DEF FeedsInv, FeedShape, AllMatch, PendingFits, Matches

\* A step after a fault that is not tolerated.
LEMMA NotTolerated ==
  ASSUME FeedsInv, NEW f, Fault(f), f \notin {"abort", "sample"},
         feeds' = [r \in Request |-> feeds'[r]], conf' = [r \in Request |-> conf'[r]]
  PROVE  FeedsInv'
<1>1. faults \in Seq(FaultNames)
  BY DEF FeedsInv, FeedShape
<1>2. faults' \in Seq(FaultNames) /\ ~ Tolerated'
  BY <1>1, FaultsGrow
<1> QED
  BY <1>2 DEF FeedsInv, FeedShape

\* A feed is started for a request that is about to be configured.
LEMMA CreateStep ==
  ASSUME FeedsInv, NEW r \in Request, NEW c \in Configs, CreateRequest(r, c)
  PROVE  FeedsInv'
<1> DEFINE h == [kind |-> "created", req |-> r, cfg |-> c]
<1>1. /\ pend = None /\ conf[r] = None /\ UNCHANGED <<conf, faults>>
      /\ feeds' = [feeds EXCEPT ![r] = Parsed(c)] /\ pend' = h
  BY DEF CreateRequest, Configured, NewTx, Start
<1>2. h # None /\ h.kind = "created" /\ h.req = r /\ h.cfg = c
  BY NoneAssumption
<1> HIDE DEF h
<1>3. feeds'[r] = Parsed(c) /\ \A q \in Request \ {r} : feeds'[q] = feeds[q]
  BY <1>1 DEF FeedsInv, FeedShape
<1>4. FeedShape' /\ (Tolerated' => Tolerated)
  BY <1>1 DEF FeedsInv, FeedShape, Tolerated, OnlyFaults
<1>5. ASSUME Tolerated PROVE AllMatch'
  <2>1. AllMatch
    BY <1>5 DEF FeedsInv
  <2> QED
    BY <1>1, <1>2, <1>3, <2>1 DEF AllMatch, PendingFits, Matches
<1> QED
  BY <1>4, <1>5 DEF FeedsInv

\* A feed is stopped for a request that is about to be deleted.
LEMMA DeleteStep ==
  ASSUME FeedsInv, NEW r \in Request, DeleteRequest(r)
  PROVE  FeedsInv'
<1> DEFINE h == [kind |-> "deleted", req |-> r, cfg |-> feeds[r]]
<1>1. /\ pend = None /\ conf[r] # None /\ UNCHANGED <<conf, faults>>
      /\ feeds' = [feeds EXCEPT ![r] = None] /\ pend' = h
  BY DEF DeleteRequest, NewTx, StopFeed
<1>2. h.kind = "deleted" /\ h.req = r /\ h.cfg = feeds[r]
  OBVIOUS
<1>3. feeds'[r] = None /\ \A q \in Request \ {r} : feeds'[q] = feeds[q]
  BY <1>1 DEF FeedsInv, FeedShape
<1>4. FeedShape' /\ (Tolerated' => Tolerated)
  BY <1>1 DEF FeedsInv, FeedShape, Tolerated, OnlyFaults
<1>5. ASSUME Tolerated PROVE AllMatch'
  <2>1. AllMatch
    BY <1>5 DEF FeedsInv
  <2>2. feeds[r] = Parsed(conf[r]) /\ conf[r] \in Configs
    BY <1>1, <2>1 DEF AllMatch, Matches
  <2>3. h # None
    BY <2>2, NoneAssumption
  <2> HIDE DEF h
  <2> QED
    BY <1>1, <1>2, <1>3, <2>1, <2>2, <2>3 DEF AllMatch, PendingFits, Matches
<1> QED
  BY <1>4, <1>5 DEF FeedsInv

\* 'done': the datastore follows the feeds.
LEMMA CommitStep == ASSUME FeedsInv, Commit PROVE FeedsInv'
<1>1. /\ pend # None /\ pend' = None /\ UNCHANGED <<feeds, faults>>
      /\ conf' = [conf EXCEPT ![pend.req] = IF pend.kind = "deleted" THEN None ELSE pend.cfg]
  BY DEF Commit, serverVars
<1>2. FeedShape' /\ (Tolerated' => Tolerated)
  BY <1>1 DEF FeedsInv, FeedShape, Tolerated, OnlyFaults
<1>3. ASSUME Tolerated PROVE AllMatch'
  <2>1. AllMatch /\ PendingFits /\ conf = [r \in Request |-> conf[r]]
    BY <1>3 DEF FeedsInv, AllMatch, FeedShape
  <2>2. /\ pend.req \in Request
        /\ conf'[pend.req] = IF pend.kind = "deleted" THEN None ELSE pend.cfg
        /\ \A r \in Request \ {pend.req} : conf'[r] = conf[r]
    BY <1>1, <2>1 DEF PendingFits
  <2>3. CASE pend.kind = "created"
    <3>1. pend.cfg \in Configs /\ pend.cfg # None
      BY <1>1, <2>1, <2>2, <2>3, NoneAssumption DEF PendingFits
    <3> QED
      BY <1>1, <2>1, <2>2, <2>3, <3>1 DEF AllMatch, PendingFits, Matches
  <2>4. CASE pend.kind = "deleted"
    BY <1>1, <2>1, <2>2, <2>4 DEF AllMatch, PendingFits, Matches
  <2> QED
    BY <1>1, <2>1, <2>3, <2>4 DEF PendingFits
<1> QED
  BY <1>2, <1>3 DEF FeedsInv

\* revert(): the feeds return to what the datastore says.
LEMMA RevertStep == ASSUME FeedsInv, Revert PROVE FeedsInv'
<1>1. /\ pend # None /\ pend' = None /\ conf' = conf
      /\ pend.kind = "created" => feeds' = [feeds EXCEPT ![pend.req] = None]
      /\ pend.kind = "deleted" => feeds' = [feeds EXCEPT ![pend.req] = pend.cfg]
      /\ pend.kind \notin {"created", "deleted"} => feeds' = feeds
  BY DEF Revert, RevertHandler, StopFeed, Start, serverVars
<1>2. faults \in Seq(FaultNames) /\ Fault("abort")
  BY DEF FeedsInv, FeedShape, Revert
<1>3. faults' \in Seq(FaultNames) /\ (Tolerated' => Tolerated)
  BY <1>2, FaultsGrow
<1>4. FeedShape'
  BY <1>1, <1>3 DEF FeedsInv, FeedShape
<1>5. ASSUME Tolerated PROVE AllMatch'
  <2>1. AllMatch /\ PendingFits /\ feeds = [r \in Request |-> feeds[r]]
    BY <1>5 DEF FeedsInv, AllMatch, FeedShape
  <2>2. pend.req \in Request /\ pend.kind \in {"created", "deleted"}
    BY <1>1, <2>1 DEF PendingFits
  <2>3. /\ feeds'[pend.req] = IF pend.kind = "created" THEN None ELSE pend.cfg
        /\ \A r \in Request \ {pend.req} : feeds'[r] = feeds[r]
    BY <1>1, <2>1, <2>2
  <2> QED
    BY <1>1, <2>1, <2>2, <2>3 DEF AllMatch, PendingFits, Matches
<1> QED
  BY <1>3, <1>4, <1>5 DEF FeedsInv

\* Requests that are refused, samples, polls, collectors, data and time leave feeds and datastore
\* alone; what fails in a sample is tolerated.
LEMMA OtherStep ==
  ASSUME FeedsInv,
         \/ \E r \in Request : \/ \E c \in Configs : CreateRefused(r, c)
                               \/ DeleteRefused(r) \/ Poll(r) \/ Receive(r)
                               \/ \E i \in Sid : LoopTask(r, i)
         \/ Tick \/ DataChange \/ UNCHANGED vars
  PROVE  FeedsInv'
<1>1. faults \in Seq(FaultNames)
  BY DEF FeedsInv, FeedShape
<1>2. CASE \E r \in Request, i \in Sid : SampleRaises(r, i)
  <2>1. UNCHANGED <<conf, pend, feeds>> /\ Fault("sample")
    BY <1>2 DEF SampleRaises
  <2> QED
    BY <1>1, <2>1, FaultsGrow, KeepsFeeds
<1>3. CASE UNCHANGED <<conf, pend, feeds, faults>>
  BY <1>1, <1>3, KeepsFeeds DEF Tolerated, OnlyFaults
<1>4. CASE \E r \in Request : \/ \E c \in Configs : CreateRefused(r, c)
                              \/ DeleteRefused(r) \/ Poll(r) \/ Receive(r)
                              \/ \E i \in Sid : Sample(r, i)
  BY <1>3, <1>4 DEF CreateRefused, DeleteRefused, Poll, Receive, Sample, serverVars
<1>5. CASE Tick \/ DataChange \/ UNCHANGED vars
  BY <1>3, <1>5 DEF Tick, DataChange, vars, serverVars
<1> QED
  BY <1>2, <1>4, <1>5 DEF LoopTask

\* A start that raises, a request that is amended and a restart are the faults the property excludes.
LEMMA FaultStep ==
  ASSUME FeedsInv,
         \/ \E r \in Request, c \in Configs : CreateRaises(r, c)
         \/ \E r \in Request : AmendRequest(r)
         \/ Restart
  PROVE  FeedsInv'
<1>0. FeedShape
  BY DEF FeedsInv
<1>1. ASSUME NEW r \in Request, NEW c \in Configs, CreateRaises(r, c) PROVE FeedsInv'
  <2>1. Fault("start") /\ conf' = conf /\ feeds' = [feeds EXCEPT ![r] = Parsed(c)]
    BY <1>1 DEF CreateRaises
  <2>2. feeds' = [q \in Request |-> feeds'[q]] /\ conf' = [q \in Request |-> conf'[q]]
    BY <1>0, <2>1 DEF FeedShape
  <2> QED
    BY <2>1, <2>2, NotTolerated
<1>2. ASSUME NEW r \in Request, AmendRequest(r) PROVE FeedsInv'
  <2>1. Fault("amend") /\ UNCHANGED <<conf, feeds>>
    BY <1>2 DEF AmendRequest, serverVars
  <2>2. feeds' = [q \in Request |-> feeds'[q]] /\ conf' = [q \in Request |-> conf'[q]]
    BY <1>0, <2>1 DEF FeedShape
  <2> QED
    BY <2>1, <2>2, NotTolerated
<1>3. CASE Restart
  <2>1. Fault("crash") /\ conf' = conf /\ feeds' = [q \in Request |-> None]
    BY <1>3 DEF Restart, MemoryLost
  <2>2. feeds' = [q \in Request |-> feeds'[q]] /\ conf' = [q \in Request |-> conf'[q]]
    BY <1>0, <2>1 DEF FeedShape
  <2> QED
    BY <2>1, <2>2, NotTolerated
<1> QED
  BY <1>1, <1>2, <1>3

\* Every step keeps the invariant.
LEMMA FeedsStep == FeedsInv /\ [Next]_vars => FeedsInv'
<1> SUFFICES ASSUME FeedsInv, [Next]_vars PROVE FeedsInv'
  OBVIOUS
<1>1. CASE \E r \in Request : Transaction(r)
  BY <1>1, CreateStep, DeleteStep, OtherStep, FaultStep DEF Transaction
<1>2. CASE Commit \/ Revert
  BY <1>2, CommitStep, RevertStep
<1>3. CASE Restart
  BY <1>3, FaultStep
<1>4. CASE \/ \E r \in Request : Poll(r) \/ Receive(r) \/ \E i \in Sid : LoopTask(r, i)
           \/ Tick \/ DataChange \/ UNCHANGED vars
  BY <1>4, OtherStep
<1> QED
  BY <1>1, <1>2, <1>3, <1>4 DEF Next

\* Between transactions the feeds that run are the configured requests, after aborts and failed
\* samples too (telemetry.py: CreatedHandler, DeletedHandler and their revert()).
THEOREM FeedsAlwaysMatch == Spec => []FeedsMatchConfig
<1>1. Init => FeedsInv
  BY DEF Init, FeedsInv, FeedShape, AllMatch, PendingFits, Matches
<1>2. FeedsInv => FeedsMatchConfig
  BY DEF FeedsInv, AllMatch, Matches, Tolerated, FeedsMatchConfig
<1> QED
  BY <1>1, <1>2, FeedsStep, PTL DEF Spec

-----------------------------------------------------------------------------
(* Sequences of notifications.                                             *)

\* A set of positions in a sequence that is not empty has a last one.
LEMMA LastOf ==
  ASSUME NEW n \in Nat, NEW S, S \subseteq 1..n, S # {}
  PROVE  \E m \in S : \A k \in S : k <= m
<1> DEFINE T == {n - k : k \in S}
<1>1. T \subseteq Nat /\ T # {}
  <2>1. \A k \in S : k \in Int /\ 1 <= k /\ k <= n
    OBVIOUS
  <2>2. \A k \in S : n - k \in Nat
    BY <2>1
  <2>3. PICK k \in S : TRUE
    OBVIOUS
  <2>4. n - k \in T
    OBVIOUS
  <2> QED
    BY <2>2, <2>4
<1>2. PICK x \in T : \A y \in T : ~ (<<y, x>> \in OpToRel(<, Nat))
  BY <1>1, WFMin, NatLessThanWellFounded
<1>3. \A y \in T : ~ (y < x)
  BY <1>1, <1>2 DEF OpToRel
<1>4. PICK m \in S : x = n - m
  OBVIOUS
<1>5. ASSUME NEW k \in S PROVE k <= m
  BY <1>3, <1>4
<1> QED
  BY <1>5

\* What a collector knows of a leaf is what the last notification about it says.
LEMMA AfterCases ==
  ASSUME NEW N, NEW q \in Seq(N), NEW i, NEW l, NEW v
  PROVE  \/ /\ \A n \in DOMAIN q : ~ About(q[n], i, l)
            /\ After(q, i, l, v) = v
         \/ \E n \in DOMAIN q :
              /\ About(q[n], i, l)
              /\ \A k \in DOMAIN q : About(q[k], i, l) => k <= n
              /\ After(q, i, l, v) = q[n].val
<1> DEFINE S == {n \in DOMAIN q : About(q[n], i, l)}
<1>1. CASE S = {}
  BY <1>1 DEF After
<1>2. CASE S # {}
  <2>1. S \subseteq 1..Len(q) /\ Len(q) \in Nat
    OBVIOUS
  <2>2. \E m \in S : \A k \in S : k <= m
    BY <1>2, <2>1, LastOf
  <2> DEFINE m == CHOOSE m \in S : \A k \in S : k <= m
  <2>3. m \in S /\ \A k \in S : k <= m
    BY <2>2
  <2>4. After(q, i, l, v) = q[m].val
    BY <1>2 DEF After
  <2> QED
    BY <2>3, <2>4
<1> QED
  BY <1>1, <1>2

LEMMA AfterNone ==
  ASSUME NEW q, NEW i, NEW l, NEW v, \A n \in DOMAIN q : ~ About(q[n], i, l)
  PROVE  After(q, i, l, v) = v
  BY DEF After

LEMMA AfterLast ==
  ASSUME NEW N, NEW q \in Seq(N), NEW i, NEW l, NEW v, NEW n \in DOMAIN q,
         About(q[n], i, l), \A k \in DOMAIN q : About(q[k], i, l) => k <= n
  PROVE  After(q, i, l, v) = q[n].val
<1>1. PICK m \in DOMAIN q : /\ About(q[m], i, l)
                            /\ \A k \in DOMAIN q : About(q[k], i, l) => k <= m
                            /\ After(q, i, l, v) = q[m].val
  BY AfterCases
<1>2. m = n
  BY <1>1
<1> QED
  BY <1>1, <1>2

\* Where all that is said of a leaf is the same, it is known.
LEMMA AfterAll ==
  ASSUME NEW N, NEW q \in Seq(N), NEW i, NEW l, NEW v, NEW w,
         \E n \in DOMAIN q : About(q[n], i, l),
         \A n \in DOMAIN q : About(q[n], i, l) => q[n].val = w
  PROVE  After(q, i, l, v) = w
  BY AfterCases

\* Notifications are received one after the other.
LEMMA AfterConcat ==
  ASSUME NEW N, NEW q \in Seq(N), NEW p \in Seq(N), NEW i, NEW l, NEW v
  PROVE  After(q \o p, i, l, v) = After(p, i, l, After(q, i, l, v))
<1> DEFINE b == q \o p
<1>1. /\ b \in Seq(N) /\ Len(b) = Len(q) + Len(p) /\ Len(q) \in Nat /\ Len(p) \in Nat
      /\ DOMAIN b = 1..Len(b) /\ DOMAIN q = 1..Len(q) /\ DOMAIN p = 1..Len(p)
      /\ \A n \in 1..Len(q) : b[n] = q[n]
      /\ \A n \in 1..Len(p) : b[Len(q) + n] = p[n]
      /\ \A n \in DOMAIN b : n > Len(q) => n - Len(q) \in DOMAIN p /\ b[n] = p[n - Len(q)]
  BY ConcatProperties, LenProperties
<1> HIDE DEF b
<1>2. CASE \A n \in DOMAIN p : ~ About(p[n], i, l)
  <2>1. After(p, i, l, After(q, i, l, v)) = After(q, i, l, v)
    BY <1>2, AfterNone
  <2>2. \A n \in DOMAIN b : About(b[n], i, l) => n \in DOMAIN q /\ b[n] = q[n]
    BY <1>1, <1>2
  <2>3. CASE \A n \in DOMAIN q : ~ About(q[n], i, l)
    <3>1. \A n \in DOMAIN b : ~ About(b[n], i, l)
      BY <2>2, <2>3
    <3> QED
      BY <2>1, <2>3, <3>1, AfterNone DEF b
  <2>4. CASE \E n \in DOMAIN q : About(q[n], i, l)
    <3>1. PICK m \in DOMAIN q : /\ About(q[m], i, l)
                                /\ \A k \in DOMAIN q : About(q[k], i, l) => k <= m
                                /\ After(q, i, l, v) = q[m].val
      BY <2>4, AfterCases
    <3>2. m \in DOMAIN b /\ b[m] = q[m] /\ \A k \in DOMAIN b : About(b[k], i, l) => k <= m
      BY <1>1, <2>2, <3>1
    <3>3. b \in Seq(N) /\ About(b[m], i, l)
      BY <1>1, <3>1, <3>2
    <3>4. After(b, i, l, v) = b[m].val
      BY <3>2, <3>3, AfterLast
    <3> QED
      BY <2>1, <3>1, <3>2, <3>4 DEF b
  <2> QED
    BY <2>3, <2>4
<1>3. CASE \E n \in DOMAIN p : About(p[n], i, l)
  <2> DEFINE u == After(q, i, l, v)
  <2>1. PICK m \in DOMAIN p : /\ About(p[m], i, l)
                              /\ \A k \in DOMAIN p : About(p[k], i, l) => k <= m
                              /\ After(p, i, l, u) = p[m].val
    BY <1>3, AfterCases
  <2>2. Len(q) + m \in DOMAIN b /\ b[Len(q) + m] = p[m]
    BY <1>1
  <2>3. ASSUME NEW k \in DOMAIN b, About(b[k], i, l) PROVE k <= Len(q) + m
    <3>1. CASE k <= Len(q)
      BY <1>1, <3>1
    <3>2. CASE k > Len(q)
      <4>1. k - Len(q) \in DOMAIN p /\ About(p[k - Len(q)], i, l)
        BY <1>1, <2>3, <3>2
      <4>2. k - Len(q) <= m
        BY <2>1, <4>1
      <4> QED
        BY <1>1, <4>2
    <3> QED
      BY <1>1, <3>1, <3>2
  <2>4. b \in Seq(N) /\ About(b[Len(q) + m], i, l)
    BY <1>1, <2>1, <2>2
  <2>5. After(b, i, l, v) = b[Len(q) + m].val
    BY <2>2, <2>3, <2>4, AfterLast
  <2> QED
    BY <2>1, <2>2, <2>5 DEF b
<1> QED
  BY <1>2, <1>3

LEMMA AfterTail ==
  ASSUME NEW N, NEW q \in Seq(N), q # <<>>, NEW i, NEW l, NEW v
  PROVE  After(q, i, l, v) =
           After(Tail(q), i, l, IF About(Head(q), i, l) THEN Head(q).val ELSE v)
<1>1. PICK h \in Seq(N) : q = h \o Tail(q) /\ DOMAIN h = {1} /\ h[1] = Head(q)
  <2> DEFINE h == <<Head(q)>>
  <2>1. h \in Seq(N) /\ q = h \o Tail(q) /\ DOMAIN h = {1} /\ h[1] = Head(q)
    OBVIOUS
  <2> QED
    BY <2>1
<1>2. PICK t \in Seq(N) : t = Tail(q)
  BY HeadTailProperties
<1>3. After(h \o t, i, l, v) = After(t, i, l, After(h, i, l, v))
  BY AfterConcat
<1>4. CASE About(Head(q), i, l)
  <2>1. 1 \in DOMAIN h /\ About(h[1], i, l) /\ \A k \in DOMAIN h : k <= 1
    BY <1>1, <1>4
  <2>2. After(h, i, l, v) = h[1].val
    BY <2>1, AfterLast
  <2> QED
    BY <1>1, <1>2, <1>3, <1>4, <2>2
<1>5. CASE ~ About(Head(q), i, l)
  <2>1. After(h, i, l, v) = v
    BY <1>1, <1>5, AfterNone
  <2> QED
    BY <1>1, <1>2, <1>3, <1>5, <2>1
<1> QED
  BY <1>4, <1>5

\* A notification.
Notification ==
  {Sync} \cup [type : {"UPDATE", "DELETE"}, sid : Sid, leaf : Leaf, val : Value \cup {None}]

\* q has one notification for each pair of S, and no other.
Tells(q, S) ==
  /\ \A n \in DOMAIN q : /\ q[n].type # "SYNC_RESPONSE"
                         /\ <<q[n].sid, q[n].leaf>> \in S
  /\ \A i, l : <<i, l>> \in S => \E n \in DOMAIN q : q[n].sid = i /\ q[n].leaf = l
  /\ \A m, n \in DOMAIN q : q[m].sid = q[n].sid /\ q[m].leaf = q[n].leaf => m = n

\* SetToSeq lists a finite set.
LEMMA SeqOfSet ==
  ASSUME NEW S, IsFiniteSet(S)
  PROVE  /\ SetToSeq(S) \in Seq(S)
         /\ \A m, n \in DOMAIN SetToSeq(S) : SetToSeq(S)[m] = SetToSeq(S)[n] => m = n
         /\ \A x \in S : \E n \in DOMAIN SetToSeq(S) : SetToSeq(S)[n] = x
<1> DEFINE c == Cardinality(S)
           F == [1..c -> S]
           q == CHOOSE f \in F : IsInjective(f)
<1>1. c \in Nat /\ \E f : f \in Bijection(1..c, S)
  BY FS_CardinalityType DEF ExistsBijection
<1>2. \E f \in F : IsInjective(f)
  BY <1>1 DEF Bijection, Injection
<1>3. q \in F /\ IsInjective(q)
  BY <1>2
<1>4. SetToSeq(S) = q
  BY DEF SetToSeq
<1>5. q \in Injection(1..c, S)
  BY <1>3 DEF Injection
<1> HIDE DEF q, F
<1>6. Cardinality(1..c) = c /\ IsFiniteSet(1..c)
  BY <1>1, FS_Interval
<1>7. q \in Surjection(1..c, S)
  BY <1>5, <1>6, FS_Injection
<1>8. \A x \in S : \E n \in 1..c : q[n] = x
  BY <1>7 DEF Surjection
<1>9. q \in Seq(S) /\ DOMAIN q = 1..c
  BY <1>1, <1>3 DEF F
<1> QED
  BY <1>3, <1>4, <1>8, <1>9 DEF IsInjective

LEMMA UpdatesTell ==
  ASSUME NEW S \in SUBSET (Sid \X Leaf), IsFiniteSet(S), NEW st,
         \A p \in S : st[p[1]][p[2]].val \in Value
  PROVE  /\ UpdatesOf(st, S) \in Seq(Notification) /\ Tells(UpdatesOf(st, S), S)
         /\ \A n \in DOMAIN UpdatesOf(st, S) :
              LET m == UpdatesOf(st, S)[n]
              IN m.type = "UPDATE" /\ m.val = st[m.sid][m.leaf].val
<1> DEFINE q == SetToSeq(S)
           u == UpdatesOf(st, S)
<1>1. /\ q \in Seq(S) /\ DOMAIN q = 1..Len(q) /\ Len(q) \in Nat
      /\ \A m, n \in DOMAIN q : q[m] = q[n] => m = n
      /\ \A x \in S : \E n \in DOMAIN q : q[n] = x
  BY SeqOfSet, LenProperties
<1> HIDE DEF q
<1>2. u = [n \in DOMAIN q |-> Update(q[n][1], q[n][2], st[q[n][1]][q[n][2]].val)]
  BY DEF UpdatesOf, q
<1>3. \A n \in DOMAIN q : q[n] \in S /\ q[n] = <<q[n][1], q[n][2]>> /\ q[n][1] \in Sid /\ q[n][2] \in Leaf
  BY <1>1
<1>4. /\ DOMAIN u = DOMAIN q
      /\ \A n \in DOMAIN q : /\ u[n].type = "UPDATE" /\ u[n].sid = q[n][1] /\ u[n].leaf = q[n][2]
                             /\ u[n].val = st[q[n][1]][q[n][2]].val
                             /\ u[n] \in Notification
  BY <1>2, <1>3 DEF Update, Notification
<1>5. u \in Seq(Notification)
  BY <1>1, <1>2, <1>4
<1> HIDE DEF u
<1>6. \A n \in DOMAIN u : u[n].type # "SYNC_RESPONSE" /\ <<u[n].sid, u[n].leaf>> \in S
  BY <1>3, <1>4
<1>7. \A i, l : <<i, l>> \in S => \E n \in DOMAIN u : u[n].sid = i /\ u[n].leaf = l
  BY <1>1, <1>4
<1>8. \A m, n \in DOMAIN u : u[m].sid = u[n].sid /\ u[m].leaf = u[n].leaf => q[m] = q[n]
  BY <1>3, <1>4
<1>9. Tells(u, S)
  BY <1>1, <1>4, <1>6, <1>7, <1>8 DEF Tells
<1> QED
  BY <1>4, <1>5, <1>9 DEF u

LEMMA DeletesTell ==
  ASSUME NEW S \in SUBSET (Sid \X Leaf), IsFiniteSet(S)
  PROVE  /\ DeletesOf(S) \in Seq(Notification) /\ Tells(DeletesOf(S), S)
         /\ \A n \in DOMAIN DeletesOf(S) : DeletesOf(S)[n].type = "DELETE" /\ DeletesOf(S)[n].val = None
<1> DEFINE q == SetToSeq(S)
           u == DeletesOf(S)
<1>1. /\ q \in Seq(S) /\ DOMAIN q = 1..Len(q) /\ Len(q) \in Nat
      /\ \A m, n \in DOMAIN q : q[m] = q[n] => m = n
      /\ \A x \in S : \E n \in DOMAIN q : q[n] = x
  BY SeqOfSet, LenProperties
<1> HIDE DEF q
<1>2. u = [n \in DOMAIN q |-> Delete(q[n][1], q[n][2])]
  BY DEF DeletesOf, q
<1>3. \A n \in DOMAIN q : q[n] \in S /\ q[n] = <<q[n][1], q[n][2]>> /\ q[n][1] \in Sid /\ q[n][2] \in Leaf
  BY <1>1
<1>4. /\ DOMAIN u = DOMAIN q
      /\ \A n \in DOMAIN q : /\ u[n].type = "DELETE" /\ u[n].sid = q[n][1] /\ u[n].leaf = q[n][2]
                             /\ u[n].val = None /\ u[n] \in Notification
  BY <1>2, <1>3 DEF Delete, Notification
<1>5. u \in Seq(Notification)
  BY <1>1, <1>2, <1>4
<1> HIDE DEF u
<1>6. \A n \in DOMAIN u : u[n].type # "SYNC_RESPONSE" /\ <<u[n].sid, u[n].leaf>> \in S
  BY <1>3, <1>4
<1>7. \A i, l : <<i, l>> \in S => \E n \in DOMAIN u : u[n].sid = i /\ u[n].leaf = l
  BY <1>1, <1>4
<1>8. \A m, n \in DOMAIN u : u[m].sid = u[n].sid /\ u[m].leaf = u[n].leaf => q[m] = q[n]
  BY <1>3, <1>4
<1>9. Tells(u, S)
  BY <1>1, <1>4, <1>6, <1>7, <1>8 DEF Tells
<1> QED
  BY <1>4, <1>5, <1>9 DEF u

-----------------------------------------------------------------------------
(* Types.                                                                  *)

Entry == [val : Value, age : Nat]
Entries == [Sid -> [Leaf -> Entry \cup {None}]]

\* A parsed and validated request.
IsFeed(c) ==
  /\ c # None
  /\ c.mode \in {"STREAM", "ONCE", "POLL"} /\ c.updatesOnly \in BOOLEAN
  /\ DOMAIN c.subs \subseteq Sid
  /\ \A i \in DOMAIN c.subs :
       LET s == c.subs[i]
       IN /\ s.path \in DOMAIN Paths
          /\ c.mode = "STREAM" =>
               s.suppress \in BOOLEAN /\ s.heartbeat \in Nat /\ Period(s) \in Nat \ {0}

\* A task belongs to a subscription of a stream feed and sleeps for at most its period.
TaskFits(r, i) ==
  loop[r][i] # -1 =>
    /\ feeds[r] # None /\ feeds[r].mode = "STREAM" /\ i \in DOMAIN feeds[r].subs
    /\ loop[r][i] \in 0..Period(feeds[r].subs[i])

TelemetryTypeOK ==
  /\ data \in [Leaf -> Value \cup {None}]
  /\ feeds = [r \in Request |-> feeds[r]]
  /\ \A r \in Request : feeds[r] # None => IsFeed(feeds[r])
  /\ pend # None => pend.req \in Request /\ (pend.kind = "deleted" => IsFeed(pend.cfg))
  /\ store \in [Request -> Entries]
  /\ loop \in [Request -> [Sid -> Int]]
  /\ \A r \in Request, i \in Sid : TaskFits(r, i)
  /\ since \in [Request -> Nat]
  /\ out \in [Request -> Seq(Notification)]
  /\ view \in [Request -> [Sid -> [Leaf -> Value \cup {None}]]]
  /\ faults \in Seq(FaultNames)

\* What a valid request is parsed into.
LEMMA ParsedIsFeed ==
  ASSUME NEW c \in Configs, Valid(Parsed(c)), NEW r \in Request
  PROVE  IsFeed(Parsed(c))
<1> DEFINE f == Parsed(c)
<1>1. /\ c.mode \in {"STREAM", "ONCE", "POLL", None} /\ c.updatesOnly \in BOOLEAN
      /\ DOMAIN c.subs \subseteq Sid /\ c.subs = [i \in DOMAIN c.subs |-> c.subs[i]]
      /\ c = [mode |-> c.mode, updatesOnly |-> c.updatesOnly, subs |-> c.subs]
  BY RequestAssumption
<1>2. f # None
  BY NoneAssumption
<1>3. f.mode \in {"STREAM", "ONCE", "POLL"} /\ \A i \in DOMAIN f.subs : f.subs[i].path \in DOMAIN Paths
  BY DEF Valid
<1>4. CASE c.mode # "STREAM"
  <2>1. f = c
    BY <1>4 DEF Parsed
  <2> QED
    BY <1>1, <1>2, <1>3, <1>4, <2>1 DEF IsFeed
<1>5. CASE c.mode = "STREAM"
  <2>1. f = [c EXCEPT !.subs = [i \in DOMAIN c.subs |-> WithDefaults(c.subs[i])]]
    BY <1>5 DEF Parsed
  <2>2. /\ f.mode = c.mode /\ f.updatesOnly = c.updatesOnly
        /\ DOMAIN f.subs = DOMAIN c.subs
        /\ \A i \in DOMAIN c.subs : f.subs[i] = WithDefaults(c.subs[i])
    BY <1>1, <2>1
  <2>3. ASSUME NEW i \in DOMAIN c.subs
        PROVE  f.subs[i].suppress \in BOOLEAN /\ f.subs[i].heartbeat \in Nat /\ Period(f.subs[i]) \in Nat \ {0}
    <3> DEFINE s == c.subs[i]  w == WithDefaults(s)
    <3>1. /\ s \in [path : {s.path}, mode : {"SAMPLE", "ON_CHANGE", "TARGET_DEFINED", None},
                    interval : Nat \cup {None}, suppress : BOOLEAN \cup {None},
                    heartbeat : Nat \cup {None}]
      BY RequestAssumption, <1>1 DEF Range
    <3> HIDE DEF s
    <3>2. /\ w.interval = IF s.interval = None THEN 2 * UpdateInterval ELSE s.interval
          /\ w.suppress = IF s.suppress = None THEN FALSE ELSE s.suppress
          /\ w.heartbeat = IF s.heartbeat = None THEN 0 ELSE s.heartbeat
      BY <3>1 DEF WithDefaults
    <3>9. /\ s.interval \in Nat \cup {None} /\ s.suppress \in BOOLEAN \cup {None}
          /\ s.heartbeat \in Nat \cup {None}
      BY <3>1
    <3> HIDE DEF w
    <3>3. w.suppress \in BOOLEAN /\ w.heartbeat \in Nat /\ w.interval \in Nat
      <4>1. w.suppress \in BOOLEAN
        BY <3>9, <3>2
      <4>2. w.heartbeat \in Nat
        BY <3>9, <3>2
      <4>3. w.interval \in Nat
        BY <3>9, <3>2, TelemetryAssumption
      <4> QED
        BY <4>1, <4>2, <4>3
    <3>4. f.subs[i] = w
      BY <2>2 DEF s, w
    <3>5. f.subs[i].mode = "SAMPLE" => f.subs[i].interval >= UpdateInterval
      <4> HIDE DEF f
      <4> QED
        BY <1>5, <2>2 DEF Valid, f
    <3>6. Period(w) \in Nat \ {0}
      BY <3>3, <3>4, <3>5, TelemetryAssumption DEF Period
    <3> QED
      BY <3>3, <3>4, <3>6
  <2> QED
    BY <1>1, <1>2, <1>3, <2>2, <2>3 DEF IsFeed
<1> QED
  BY <1>4, <1>5

-----------------------------------------------------------------------------
(* What starts and samples store and report.                               *)

\* The state of a feed: every entry of its subscriptions is told as it is stored.
LEMMA CurrentTells ==
  ASSUME NEW c, IsFeed(c), NEW st \in Entries
  PROVE  /\ Current(c, st) \in Seq(Notification)
         /\ \A i \in Sid, l \in Leaf : \A v :
              After(Current(c, st), i, l, v) =
                IF i \in DOMAIN c.subs /\ st[i][l] # None THEN st[i][l].val ELSE v
<1> DEFINE S == {p \in (DOMAIN c.subs) \X Leaf : st[p[1]][p[2]] # None}
           q == Current(c, st)
<1>1. S \in SUBSET (Sid \X Leaf) /\ IsFiniteSet(S)
  <2>1. DOMAIN c.subs \subseteq Sid
    BY DEF IsFeed
  <2>2. S \subseteq Sid \X Leaf
    BY <2>1
  <2>3. IsFiniteSet(Sid \X Leaf)
    BY TelemetryAssumption, FS_Product
  <2> QED
    BY <2>2, <2>3, FS_Subset
<1>2. ASSUME NEW p \in S PROVE st[p[1]][p[2]].val \in Value
  <2>1. p[1] \in Sid /\ p[2] \in Leaf /\ st[p[1]][p[2]] # None
    BY <1>1
  <2> QED
    BY <2>1 DEF Entries, Entry
<1> HIDE DEF S, q
<1>3. q = UpdatesOf(st, S)
  BY DEF Current, q, S
<1>4. /\ q \in Seq(Notification) /\ Tells(q, S)
      /\ \A n \in DOMAIN q : q[n].type = "UPDATE" /\ q[n].val = st[q[n].sid][q[n].leaf].val
  BY <1>1, <1>2, <1>3, UpdatesTell
<1>5. ASSUME NEW i \in Sid, NEW l \in Leaf, NEW v
      PROVE  After(q, i, l, v) = IF i \in DOMAIN c.subs /\ st[i][l] # None THEN st[i][l].val ELSE v
  <2>1. <<i, l>> \in S <=> i \in DOMAIN c.subs /\ st[i][l] # None
    BY DEF S
  <2>2. CASE <<i, l>> \in S
    <3>1. \E n \in DOMAIN q : About(q[n], i, l)
      BY <1>4, <2>2 DEF Tells, About
    <3>2. \A n \in DOMAIN q : About(q[n], i, l) => q[n].val = st[i][l].val
      BY <1>4 DEF About
    <3>3. After(q, i, l, v) = st[i][l].val
      <4>1. q \in Seq(Notification)
        BY <1>4
      <4> QED
        BY <4>1, <3>1, <3>2, AfterCases
    <3> QED
      BY <2>1, <2>2, <3>3
  <2>3. CASE <<i, l>> \notin S
    <3>1. \A n \in DOMAIN q : ~ About(q[n], i, l)
      BY <1>4, <2>3 DEF Tells, About
    <3>2. After(q, i, l, v) = v
      BY <3>1, AfterNone
    <3> QED
      BY <2>1, <2>3, <3>2
  <2> QED
    BY <2>2, <2>3
<1> QED
  BY <1>4, <1>5 DEF q

LEMMA RetrievedKeeps ==
  ASSUME NEW c, IsFeed(c), NEW st \in Entries, data \in [Leaf -> Value \cup {None}]
  PROVE  /\ Retrieved(c, st) \in Entries
         /\ \A i \in Sid, l \in Leaf :
              /\ i \notin DOMAIN c.subs => Retrieved(c, st)[i][l] = st[i][l]
              /\ Retrieved(c, st)[i][l] \in {st[i][l], Fresh(l)}
              /\ Retrieved(c, st)[i][l] = None => st[i][l] = None
<1>1. ASSUME NEW l \in Leaf, data[l] # None PROVE Fresh(l) \in Entry /\ Fresh(l) # None
  BY <1>1, NoneAssumption DEF Fresh, Entry
<1> QED
  BY <1>1 DEF Retrieved, Entries

\* What a sample reports: the leaves U as they are, and the leaves D as gone.
\* What the notifications q of a sample of subscription i that reports U and D say.
Reporting(q, i, U, D) ==
  \A n \in DOMAIN q :
    /\ q[n].sid = i
    /\ \/ q[n].type = "UPDATE" /\ q[n].leaf \in U /\ q[n].val = data[q[n].leaf]
       \/ q[n].type = "DELETE" /\ q[n].leaf \in D /\ q[n].val = None

LEMMA ReportsTell ==
  ASSUME NEW i \in Sid, NEW U \in SUBSET Leaf, NEW D \in SUBSET Leaf,
         U \cap D = {}, \A l \in U : data[l] \in Value
  PROVE  /\ Reports(i, U, D) \in Seq(Notification)
         /\ Tells(Reports(i, U, D), {i} \X (U \cup D))
         /\ Reporting(Reports(i, U, D), i, U, D)
<1> DEFINE st == [j \in {i} |-> [l \in U |-> Fresh(l)]]
           S == {i} \X U
           T == {i} \X D
           u == UpdatesOf(st, S)
           d == DeletesOf(T)
           q == Reports(i, U, D)
<1>1. /\ S \in SUBSET (Sid \X Leaf) /\ IsFiniteSet(S)
      /\ T \in SUBSET (Sid \X Leaf) /\ IsFiniteSet(T)
  <2>1. IsFiniteSet(Sid \X Leaf)
    BY TelemetryAssumption, FS_Product
  <2>2. S \subseteq Sid \X Leaf /\ T \subseteq Sid \X Leaf
    OBVIOUS
  <2> QED
    BY <2>1, <2>2, FS_Subset
<1>2. \A l \in U : st[i][l].val = data[l]
  BY DEF Fresh
<1>3. \A p \in S : st[p[1]][p[2]].val \in Value
  BY <1>2
<1> HIDE DEF st, S, T, u, d, q
<1>4. /\ u \in Seq(Notification) /\ Tells(u, S)
      /\ \A n \in DOMAIN u : u[n].type = "UPDATE" /\ u[n].val = st[u[n].sid][u[n].leaf].val
  BY <1>1, <1>3, UpdatesTell DEF u
<1>5. /\ d \in Seq(Notification) /\ Tells(d, T)
      /\ \A n \in DOMAIN d : d[n].type = "DELETE" /\ d[n].val = None
  BY <1>1, DeletesTell DEF d
<1>6. \A n \in DOMAIN u : u[n].sid = i /\ u[n].leaf \in U /\ u[n].val = data[u[n].leaf]
  <2>1. \A n \in DOMAIN u : <<u[n].sid, u[n].leaf>> \in S
    BY <1>4 DEF Tells
  <2>2. \A n \in DOMAIN u : u[n].sid = i /\ u[n].leaf \in U
    BY <2>1 DEF S
  <2>3. \A n \in DOMAIN u : u[n].val = st[i][u[n].leaf].val
    BY <1>4, <2>2
  <2> QED
    BY <1>2, <2>2, <2>3
<1>7. \A n \in DOMAIN d : d[n].sid = i /\ d[n].leaf \in D
  BY <1>5 DEF Tells, T
<1>8. q = u \o d
  BY DEF Reports, q, u, d, S, T, st
<1>9. /\ q \in Seq(Notification) /\ Len(q) = Len(u) + Len(d) /\ Len(u) \in Nat /\ Len(d) \in Nat
      /\ DOMAIN q = 1..Len(q) /\ DOMAIN u = 1..Len(u) /\ DOMAIN d = 1..Len(d)
      /\ \A n \in DOMAIN u : n \in DOMAIN q /\ q[n] = u[n]
      /\ \A n \in DOMAIN d : Len(u) + n \in DOMAIN q /\ q[Len(u) + n] = d[n]
      /\ \A n \in DOMAIN q : \/ n \in DOMAIN u /\ q[n] = u[n]
                             \/ n - Len(u) \in DOMAIN d /\ q[n] = d[n - Len(u)]
  <2>1. u \in Seq(Notification) /\ d \in Seq(Notification)
    BY <1>4, <1>5
  <2>2. /\ q \in Seq(Notification) /\ Len(q) = Len(u) + Len(d)
        /\ \A n \in 1..Len(u) + Len(d) : q[n] = IF n <= Len(u) THEN u[n] ELSE d[n - Len(u)]
    BY <1>8, <2>1, ConcatProperties
  <2>3. /\ Len(u) \in Nat /\ Len(d) \in Nat
        /\ DOMAIN q = 1..Len(q) /\ DOMAIN u = 1..Len(u) /\ DOMAIN d = 1..Len(d)
    BY <2>1, <2>2, LenProperties
  <2>4. \A n \in DOMAIN u : n \in DOMAIN q /\ q[n] = u[n]
    BY <2>2, <2>3
  <2>5. \A n \in DOMAIN d : Len(u) + n \in DOMAIN q /\ q[Len(u) + n] = d[n]
    BY <2>2, <2>3
  <2>6. ASSUME NEW n \in DOMAIN q
        PROVE  \/ n \in DOMAIN u /\ q[n] = u[n]
               \/ n - Len(u) \in DOMAIN d /\ q[n] = d[n - Len(u)]
    <3>1. CASE n <= Len(u)
      BY <2>2, <2>3, <3>1
    <3>2. CASE ~ (n <= Len(u))
      BY <2>2, <2>3, <3>2
    <3> QED
      BY <3>1, <3>2
  <2> QED
    BY <2>2, <2>3, <2>4, <2>5, <2>6, Zenon
<1>10. ASSUME NEW n \in DOMAIN q
       PROVE  /\ q[n].sid = i
              /\ \/ q[n].type = "UPDATE" /\ q[n].leaf \in U /\ q[n].val = data[q[n].leaf]
                 \/ q[n].type = "DELETE" /\ q[n].leaf \in D /\ q[n].val = None
  <2>1. CASE n \in DOMAIN u /\ q[n] = u[n]
    BY <1>4, <1>6, <2>1
  <2>2. CASE n - Len(u) \in DOMAIN d /\ q[n] = d[n - Len(u)]
    BY <1>5, <1>7, <2>2
  <2> QED
    BY <1>9, <2>1, <2>2
<1>11. \A j, l : <<j, l>> \in {i} \X (U \cup D) => \E n \in DOMAIN q : q[n].sid = j /\ q[n].leaf = l
  <2> SUFFICES ASSUME NEW l \in U \cup D PROVE \E n \in DOMAIN q : q[n].sid = i /\ q[n].leaf = l
    OBVIOUS
  <2>1. CASE l \in U
    <3>1. PICK n \in DOMAIN u : u[n].sid = i /\ u[n].leaf = l
      <4>1. <<i, l>> \in S
        BY <2>1 DEF S
      <4> QED
        BY <1>4, <4>1 DEF Tells
    <3> QED
      BY <1>9, <3>1
  <2>2. CASE l \in D
    <3>1. PICK n \in DOMAIN d : d[n].sid = i /\ d[n].leaf = l
      <4>1. <<i, l>> \in T
        BY <2>2 DEF T
      <4> QED
        BY <1>5, <4>1 DEF Tells
    <3> QED
      BY <1>9, <3>1
  <2> QED
    BY <2>1, <2>2
<1>12. ASSUME NEW m \in DOMAIN q, NEW n \in DOMAIN q, q[m].leaf = q[n].leaf PROVE m = n
  <2>1. CASE q[m].type = "UPDATE"
    <3>1. q[m].leaf \in U /\ q[n].leaf \in U /\ q[n].type = "UPDATE"
      BY <1>10, <1>12, <2>1
    <3>2. m \in DOMAIN u /\ n \in DOMAIN u /\ u[m].leaf = u[n].leaf
      BY <1>5, <1>9, <1>12, <2>1, <3>1
    <3> QED
      BY <1>4, <1>6, <3>2 DEF Tells
  <2>2. CASE q[m].type = "DELETE"
    <3>1. q[m].leaf \in D /\ q[n].leaf \in D /\ q[n].type = "DELETE"
      BY <1>10, <1>12, <2>2
    <3>2. /\ m - Len(u) \in DOMAIN d /\ n - Len(u) \in DOMAIN d
          /\ d[m - Len(u)].leaf = d[n - Len(u)].leaf
      BY <1>4, <1>9, <1>12, <2>2, <3>1
    <3>3. m - Len(u) = n - Len(u)
      BY <1>5, <1>7, <3>2 DEF Tells
    <3> QED
      BY <1>9, <3>3
  <2> QED
    BY <1>10, <2>1, <2>2
<1>13. Tells(q, {i} \X (U \cup D))
  BY <1>10, <1>11, <1>12 DEF Tells
<1>14. Reporting(q, i, U, D)
  BY <1>10 DEF Reporting
<1> QED
  BY <1>9, <1>13, <1>14 DEF q

\* What a collector knows after the report of a sample.
LEMMA ReportsKnown ==
  ASSUME NEW i \in Sid, NEW U \in SUBSET Leaf, NEW D \in SUBSET Leaf,
         U \cap D = {}, \A l \in U : data[l] \in Value,
         NEW j, NEW l, NEW v
  PROVE  After(Reports(i, U, D), j, l, v) =
           IF j = i /\ l \in U THEN data[l] ELSE IF j = i /\ l \in D THEN None ELSE v
<1> DEFINE q == Reports(i, U, D)
<1>1. /\ q \in Seq(Notification) /\ Tells(q, {i} \X (U \cup D))
      /\ \A n \in DOMAIN q :
           /\ q[n].sid = i
           /\ \/ q[n].type = "UPDATE" /\ q[n].leaf \in U /\ q[n].val = data[q[n].leaf]
              \/ q[n].type = "DELETE" /\ q[n].leaf \in D /\ q[n].val = None
  BY ReportsTell DEF Reporting
<1> HIDE DEF q
<1>2. CASE j = i /\ l \in U \cup D
  <2>1. <<j, l>> \in {i} \X (U \cup D)
    BY <1>2
  <2>2. PICK n \in DOMAIN q : q[n].sid = j /\ q[n].leaf = l
    BY <1>1, <2>1 DEF Tells
  <2>3. About(q[n], j, l)
    BY <1>1, <2>2 DEF About
  <2>4. \A m \in DOMAIN q : About(q[m], j, l) => q[m].leaf = l
    BY DEF About
  <2>5. q \in Seq(Notification)
    BY <1>1
  <2>6. PICK m \in DOMAIN q : About(q[m], j, l) /\ After(q, j, l, v) = q[m].val
    BY <2>3, <2>5, AfterCases
  <2>7. q[m].leaf = l
    BY <2>4, <2>6
  <2>8. l \in U => q[m].val = data[l]
    BY <1>1, <2>7
  <2>9. l \in D => q[m].val = None
    BY <1>1, <2>7
  <2> QED
    BY <1>2, <2>6, <2>8, <2>9 DEF q
<1>3. CASE ~ (j = i /\ l \in U \cup D)
  <2>1. \A n \in DOMAIN q : ~ About(q[n], j, l)
    BY <1>1, <1>3 DEF About
  <2>2. After(q, j, l, v) = v
    BY <2>1, AfterNone
  <2> QED
    BY <1>3, <2>2 DEF q
<1> QED
  BY <1>2, <1>3

\* What a sample stores.
HasStored(st, r, i, U, D) ==
  \A q \in Request, j \in Sid, l \in Leaf :
    st[q][j][l] = IF q = r /\ j = i /\ l \in U THEN Fresh(l)
                  ELSE IF q = r /\ j = i /\ l \in D THEN None ELSE store[q][j][l]

LEMMA StoredKeeps ==
  ASSUME NEW r \in Request, NEW i \in Sid, NEW U \in SUBSET Leaf, NEW D \in SUBSET Leaf,
         store \in [Request -> Entries], \A l \in U : data[l] \in Value
  PROVE  /\ Stored(r, i, U, D) \in [Request -> Entries]
         /\ HasStored(Stored(r, i, U, D), r, i, U, D)
<1> DEFINE e == [l \in Leaf |-> IF l \in U THEN Fresh(l) ELSE IF l \in D THEN None ELSE store[r][i][l]]
<1>1. \A l \in U : Fresh(l) \in Entry
  BY DEF Fresh, Entry
<1>2. store[r] \in Entries /\ store[r][i] \in [Leaf -> Entry \cup {None}]
  BY DEF Entries
<1>3. e \in [Leaf -> Entry \cup {None}]
  BY <1>1, <1>2
<1>4. Stored(r, i, U, D) = [store EXCEPT ![r] = [store[r] EXCEPT ![i] = e]]
  BY DEF Stored
<1>5. [store[r] EXCEPT ![i] = e] \in Entries
  BY <1>2, <1>3 DEF Entries
<1> QED
  <2>1. Stored(r, i, U, D) \in [Request -> Entries]
    BY <1>4, <1>5
  <2>2. ASSUME NEW q \in Request, q # r PROVE Stored(r, i, U, D)[q] = store[q]
    BY <1>4, <2>2
  <2>3. Stored(r, i, U, D)[r] = [store[r] EXCEPT ![i] = e]
    BY <1>4
  <2>4. ASSUME NEW j \in Sid, j # i PROVE Stored(r, i, U, D)[r][j] = store[r][j]
    BY <1>2, <2>3, <2>4 DEF Entries
  <2>5. Stored(r, i, U, D)[r][i] = e
    BY <1>2, <2>3 DEF Entries
  <2>6. HasStored(Stored(r, i, U, D), r, i, U, D)
    BY <2>2, <2>4, <2>5 DEF HasStored
  <2> QED
    BY <2>1, <2>6

\* A task that is due belongs to a feed, and what its sample finds is sound.
LEMMA SampleSets ==
  ASSUME TelemetryTypeOK, NEW r \in Request, NEW i \in Sid, Due(r, i), NEW X
  PROVE  /\ feeds[r] # None /\ IsFeed(feeds[r]) /\ feeds[r].mode = "STREAM" /\ i \in DOMAIN feeds[r].subs
         /\ Paths[feeds[r].subs[i].path] \subseteq Leaf
         /\ Period(feeds[r].subs[i]) \in Nat \ {0}
         /\ Updated(r, i, X) \in SUBSET Leaf /\ Gone(r, i) \in SUBSET Leaf
         /\ Updated(r, i, X) \cap Gone(r, i) = {}
         /\ \A l \in Updated(r, i, X) : data[l] \in Value
<1>1. feeds[r] # None /\ IsFeed(feeds[r]) /\ feeds[r].mode = "STREAM" /\ i \in DOMAIN feeds[r].subs
  BY DEF TelemetryTypeOK, TaskFits, Due
<1>2. Paths[feeds[r].subs[i].path] \subseteq Leaf /\ Period(feeds[r].subs[i]) \in Nat \ {0}
  BY <1>1, TelemetryAssumption DEF IsFeed
<1>3. \A l \in Leaf : data[l] \in Value \cup {None}
  BY DEF TelemetryTypeOK
<1>4. /\ \A l \in Updated(r, i, X) : l \in Paths[feeds[r].subs[i].path] /\ data[l] # None
      /\ \A l \in Gone(r, i) : l \in Leaf /\ (l \notin Paths[feeds[r].subs[i].path] \/ data[l] = None)
  BY DEF Updated, Gone
<1> QED
  BY <1>1, <1>2, <1>3, <1>4

\* Notifications are added at the end.
LEMMA OutGrows ==
  ASSUME NEW r \in Request, out \in [Request -> Seq(Notification)], NEW q \in Seq(Notification),
         out' = [out EXCEPT ![r] = @ \o q]
  PROVE  /\ out' \in [Request -> Seq(Notification)]
         /\ out'[r] = out[r] \o q /\ \A p \in Request \ {r} : out'[p] = out[p]
<1>1. out[r] \o q \in Seq(Notification)
  BY ConcatProperties
<1> QED
  BY <1>1

\* What starting a feed changes.
LEMMA StartKeeps ==
  ASSUME TelemetryTypeOK, NEW r \in Request, NEW c, IsFeed(c), Start(r, c)
  PROVE  /\ feeds' = [p \in Request |-> feeds'[p]] /\ feeds'[r] = c
         /\ \A p \in Request \ {r} : feeds'[p] = feeds[p] /\ store'[p] = store[p] /\ loop'[p] = loop[p] /\ since'[p] = since[p]
         /\ store' \in [Request -> Entries] /\ store'[r] = Retrieved(c, store[r])
         /\ loop' \in [Request -> [Sid -> Int]]
         /\ \A i \in Sid : loop'[r][i] = IF c.mode = "STREAM" /\ i \in DOMAIN c.subs
                                         THEN Period(c.subs[i]) ELSE -1
         /\ since' \in [Request -> Nat] /\ since'[r] = 0
<1>1. feeds' = [feeds EXCEPT ![r] = c] /\ feeds = [p \in Request |-> feeds[p]]
  BY DEF Start, TelemetryTypeOK
<1>2. store' = [store EXCEPT ![r] = Retrieved(c, store[r])] /\ store \in [Request -> Entries]
  BY DEF Start, TelemetryTypeOK
<1>3. Retrieved(c, store[r]) \in Entries
  BY <1>2, RetrievedKeeps DEF TelemetryTypeOK
<1> DEFINE e == [i \in Sid |-> IF c.mode = "STREAM" /\ i \in DOMAIN c.subs THEN Period(c.subs[i]) ELSE -1]
<1>4. loop' = [loop EXCEPT ![r] = e] /\ loop \in [Request -> [Sid -> Int]]
  BY DEF Start, TelemetryTypeOK
<1>5. e \in [Sid -> Int]
  <2>1. \A i \in DOMAIN c.subs : c.mode = "STREAM" => Period(c.subs[i]) \in Int
    BY DEF IsFeed
  <2> QED
    BY <2>1
<1>6. since' = [since EXCEPT ![r] = 0] /\ since \in [Request -> Nat]
  BY DEF Start, TelemetryTypeOK
<1>7. \A i \in Sid : e[i] = IF c.mode = "STREAM" /\ i \in DOMAIN c.subs THEN Period(c.subs[i]) ELSE -1
  OBVIOUS
<1> HIDE DEF e
<1>8. loop' \in [Request -> [Sid -> Int]] /\ loop'[r] = e /\ \A p \in Request \ {r} : loop'[p] = loop[p]
  BY <1>4, <1>5
<1>9. /\ store' \in [Request -> Entries] /\ store'[r] = Retrieved(c, store[r])
      /\ \A p \in Request \ {r} : store'[p] = store[p]
  BY <1>2, <1>3
<1>10. since' \in [Request -> Nat] /\ since'[r] = 0 /\ \A p \in Request \ {r} : since'[p] = since[p]
  BY <1>6
<1>11. feeds' = [p \in Request |-> feeds'[p]] /\ feeds'[r] = c /\ \A p \in Request \ {r} : feeds'[p] = feeds[p]
  BY <1>1
<1> QED
  BY <1>7, <1>8, <1>9, <1>10, <1>11

\* Starting the feed c of r has sent the notifications q, which end with the
\* SYNC_RESPONSE and tell everything stored; with updates-only they tell nothing else.
SentBy(q, r, c) ==
  /\ q \in Seq(Notification)
  /\ out' \in [Request -> Seq(Notification)]
  /\ out'[r] = out[r] \o q /\ \A p \in Request \ {r} : out'[p] = out[p]
  /\ Len(q) \in Nat \ {0} /\ q[Len(q)] = Sync
  /\ \A i \in Sid, l \in Leaf : \A v :
       After(q, i, l, v) =
         IF ~ c.updatesOnly /\ i \in DOMAIN c.subs /\ store'[r][i][l] # None
         THEN store'[r][i][l].val ELSE v

LEMMA StartTells ==
  ASSUME TelemetryTypeOK, NEW r \in Request, NEW c, IsFeed(c), Start(r, c)
  PROVE  \E q : SentBy(q, r, c)
<1> DEFINE st == Retrieved(c, store[r])
           u == Told(c, st)
           q == u \o <<Sync>>
<1>1. store[r] \in Entries /\ data \in [Leaf -> Value \cup {None}] /\ out \in [Request -> Seq(Notification)]
  BY DEF TelemetryTypeOK
<1>2. st \in Entries
  BY <1>1, RetrievedKeeps
<1>3. store'[r] = st
  BY StartKeeps
<1> HIDE DEF st
<1>4. /\ Current(c, st) \in Seq(Notification)
      /\ \A i \in Sid, l \in Leaf : \A v :
           After(Current(c, st), i, l, v) =
             IF i \in DOMAIN c.subs /\ st[i][l] # None THEN st[i][l].val ELSE v
  BY <1>2, CurrentTells
<1>5. u \in Seq(Notification)
  BY <1>4 DEF Told
<1>6. ASSUME NEW i \in Sid, NEW l \in Leaf, NEW v
      PROVE  After(u, i, l, v) = IF ~ c.updatesOnly /\ i \in DOMAIN c.subs /\ st[i][l] # None
                                 THEN st[i][l].val ELSE v
  <2>1. CASE c.updatesOnly
    <3>1. u = <<>>
      BY <2>1 DEF Told
    <3>2. After(u, i, l, v) = v
      BY <3>1, AfterNone
    <3> QED
      BY <2>1, <3>2
  <2>2. CASE ~ c.updatesOnly
    BY <1>4, <2>2 DEF Told
  <2> QED
    BY <2>1, <2>2
<1>7. out' = [out EXCEPT ![r] = @ \o u \o <<Sync>>]
  BY DEF Start, st
<1> HIDE DEF u
<1>8. <<Sync>> \in Seq(Notification) /\ Len(<<Sync>>) = 1 /\ <<Sync>>[1] = Sync
  BY DEF Notification
<1>9. /\ q \in Seq(Notification) /\ Len(q) = Len(u) + 1 /\ Len(u) \in Nat /\ q[Len(q)] = Sync
  BY <1>5, <1>8, ConcatProperties, LenProperties
<1>10. out' = [out EXCEPT ![r] = @ \o q]
  <2>1. (out[r] \o u) \o <<Sync>> = out[r] \o q
    BY <1>1, <1>5, <1>8, ConcatAssociative
  <2> QED
    BY <1>7, <2>1
<1>11. ASSUME NEW i \in Sid, NEW l \in Leaf, NEW v PROVE After(q, i, l, v) = After(u, i, l, v)
  <2>1. After(q, i, l, v) = After(<<Sync>>, i, l, After(u, i, l, v))
    <3> DEFINE y == <<Sync>>
    <3>1. y \in Seq(Notification) /\ q = u \o y
      BY <1>8
    <3> HIDE DEF y, q
    <3>2. After(u \o y, i, l, v) = After(y, i, l, After(u, i, l, v))
      BY <1>5, <3>1, AfterConcat
    <3> QED
      BY <3>1, <3>2 DEF y
  <2>2. \A n \in DOMAIN <<Sync>> : ~ About(<<Sync>>[n], i, l)
    BY DEF About, Sync
  <2>3. After(<<Sync>>, i, l, After(u, i, l, v)) = After(u, i, l, v)
    BY <2>2, AfterNone
  <2> QED
    BY <2>1, <2>3
<1> HIDE DEF q
<1>12. /\ out' \in [Request -> Seq(Notification)]
       /\ out'[r] = out[r] \o q /\ \A p \in Request \ {r} : out'[p] = out[p]
  BY <1>1, <1>9, <1>10, OutGrows
<1>13. Len(q) \in Nat \ {0} /\ q[Len(q)] = Sync
  BY <1>9
<1>14. \A i \in Sid, l \in Leaf : \A v :
         After(q, i, l, v) = IF ~ c.updatesOnly /\ i \in DOMAIN c.subs /\ store'[r][i][l] # None
                             THEN store'[r][i][l].val ELSE v
  BY <1>3, <1>6, <1>11
<1>15. SentBy(q, r, c)
  BY <1>9, <1>12, <1>13, <1>14 DEF SentBy
<1> QED
  BY <1>15

LEMMA StopKeeps ==
  ASSUME TelemetryTypeOK, NEW r \in Request, StopFeed(r)
  PROVE  /\ feeds' = [p \in Request |-> feeds'[p]] /\ feeds'[r] = None
         /\ loop' \in [Request -> [Sid -> Int]] /\ \A i \in Sid : loop'[r][i] = -1
         /\ \A p \in Request \ {r} : feeds'[p] = feeds[p] /\ loop'[p] = loop[p]
         /\ UNCHANGED <<store, since, out>>
<1> DEFINE e == [i \in Sid |-> -1]
<1>1. feeds' = [feeds EXCEPT ![r] = None] /\ feeds = [p \in Request |-> feeds[p]]
  BY DEF StopFeed, TelemetryTypeOK
<1>2. loop' = [loop EXCEPT ![r] = e] /\ loop \in [Request -> [Sid -> Int]]
  BY DEF StopFeed, TelemetryTypeOK
<1>3. e \in [Sid -> Int] /\ \A i \in Sid : e[i] = -1
  OBVIOUS
<1> HIDE DEF e
<1>4. /\ loop' \in [Request -> [Sid -> Int]] /\ \A i \in Sid : loop'[r][i] = -1
      /\ \A p \in Request \ {r} : loop'[p] = loop[p]
  BY <1>2, <1>3
<1>5. UNCHANGED <<store, since, out>>
  BY DEF StopFeed
<1>6. /\ feeds' = [p \in Request |-> feeds'[p]] /\ feeds'[r] = None
      /\ \A p \in Request \ {r} : feeds'[p] = feeds[p]
  BY <1>1
<1> QED
  BY <1>4, <1>5, <1>6

\* The feeds, the stores and the tasks fit together after a start and after a stop.
LEMMA TypeStart ==
  ASSUME TelemetryTypeOK, NEW r \in Request, NEW c, IsFeed(c), Start(r, c),
         UNCHANGED data, faults' \in Seq(FaultNames),
         pend' # None => pend'.req \in Request /\ (pend'.kind = "deleted" => IsFeed(pend'.cfg)),
         view' \in [Request -> [Sid -> [Leaf -> Value \cup {None}]]]
  PROVE  TelemetryTypeOK'
<1>1. /\ feeds' = [p \in Request |-> feeds'[p]] /\ feeds'[r] = c
      /\ \A p \in Request \ {r} : feeds'[p] = feeds[p] /\ loop'[p] = loop[p]
      /\ store' \in [Request -> Entries] /\ loop' \in [Request -> [Sid -> Int]] /\ since' \in [Request -> Nat]
      /\ \A i \in Sid : loop'[r][i] = IF c.mode = "STREAM" /\ i \in DOMAIN c.subs
                                      THEN Period(c.subs[i]) ELSE -1
  BY StartKeeps
<1>2. out' \in [Request -> Seq(Notification)]
  BY StartTells DEF SentBy
<1>3. \A p \in Request : feeds'[p] # None => IsFeed(feeds'[p])
  BY <1>1 DEF TelemetryTypeOK
<1>4. ASSUME NEW p \in Request, NEW i \in Sid PROVE TaskFits(p, i)'
  <2>1. CASE p = r
    BY <1>1, <2>1 DEF TaskFits, IsFeed
  <2>2. CASE p # r
    BY <1>1, <2>2 DEF TaskFits, TelemetryTypeOK
  <2> QED
    BY <2>1, <2>2
<1>5. data' \in [Leaf -> Value \cup {None}]
  BY DEF TelemetryTypeOK
<1> QED
  BY <1>1, <1>2, <1>3, <1>4, <1>5 DEF TelemetryTypeOK

LEMMA TypeStop ==
  ASSUME TelemetryTypeOK, NEW r \in Request, StopFeed(r),
         UNCHANGED <<data, view>>, faults' \in Seq(FaultNames),
         pend' # None => pend'.req \in Request /\ (pend'.kind = "deleted" => IsFeed(pend'.cfg))
  PROVE  TelemetryTypeOK'
<1>1. /\ feeds' = [p \in Request |-> feeds'[p]] /\ feeds'[r] = None
      /\ \A p \in Request \ {r} : feeds'[p] = feeds[p] /\ loop'[p] = loop[p]
      /\ loop' \in [Request -> [Sid -> Int]] /\ \A i \in Sid : loop'[r][i] = -1
      /\ UNCHANGED <<store, since, out>>
  BY StopKeeps
<1>2. \A p \in Request : feeds'[p] # None => IsFeed(feeds'[p])
  BY <1>1 DEF TelemetryTypeOK
<1>3. ASSUME NEW p \in Request, NEW i \in Sid PROVE TaskFits(p, i)'
  <2>1. CASE p = r
    BY <1>1, <2>1 DEF TaskFits
  <2>2. CASE p # r
    BY <1>1, <2>2 DEF TaskFits, TelemetryTypeOK
  <2> QED
    BY <2>1, <2>2
<1> QED
  BY <1>1, <1>2, <1>3 DEF TelemetryTypeOK

\* A step that leaves the feeds and the collectors alone.
LEMMA TypeKeep ==
  ASSUME TelemetryTypeOK, UNCHANGED <<feeds, since, view>>,
         data' \in [Leaf -> Value \cup {None}], faults' \in Seq(FaultNames),
         pend' # None => pend'.req \in Request /\ (pend'.kind = "deleted" => IsFeed(pend'.cfg)),
         store' \in [Request -> Entries], out' \in [Request -> Seq(Notification)],
         loop' \in [Request -> [Sid -> Int]], \A r \in Request, i \in Sid : TaskFits(r, i)'
  PROVE  TelemetryTypeOK'
<1>1. feeds' = [r \in Request |-> feeds'[r]] /\ \A r \in Request : feeds'[r] # None => IsFeed(feeds'[r])
  BY DEF TelemetryTypeOK
<1>2. since' \in [Request -> Nat] /\ view' \in [Request -> [Sid -> [Leaf -> Value \cup {None}]]]
  BY DEF TelemetryTypeOK
<1> QED
  BY <1>1, <1>2, Zenon DEF TelemetryTypeOK

LEMMA FaultsTyped ==
  ASSUME TelemetryTypeOK, faults' = faults \/ \E f \in FaultNames : Fault(f)
  PROVE  faults' \in Seq(FaultNames)
<1>1. faults \in Seq(FaultNames)
  BY DEF TelemetryTypeOK
<1>2. ASSUME NEW f \in FaultNames, Fault(f) PROVE faults' \in Seq(FaultNames)
  <2>1. faults' = Append(faults, f)
    BY <1>2 DEF Fault
  <2> QED
    BY <1>1, <2>1, AppendProperties
<1> QED
  BY <1>1, <1>2

\* A task goes back to sleep for its period.
LEMMA RearmKeeps ==
  ASSUME TelemetryTypeOK, NEW r \in Request, NEW i \in Sid, Due(r, i), Rearm(r, i), feeds' = feeds
  PROVE  /\ loop' \in [Request -> [Sid -> Int]]
         /\ \A p \in Request, j \in Sid :
              loop'[p][j] = IF p = r /\ j = i THEN Period(feeds[r].subs[i]) ELSE loop[p][j]
         /\ \A p \in Request, j \in Sid : TaskFits(p, j)'
<1>1. /\ feeds[r] # None /\ feeds[r].mode = "STREAM" /\ i \in DOMAIN feeds[r].subs
      /\ Period(feeds[r].subs[i]) \in Nat
  BY SampleSets
<1>2. loop' = [loop EXCEPT ![r][i] = Period(feeds[r].subs[i])] /\ loop \in [Request -> [Sid -> Int]]
  BY DEF Rearm, TelemetryTypeOK
<1>3. loop' \in [Request -> [Sid -> Int]]
  <2>1. [loop[r] EXCEPT ![i] = Period(feeds[r].subs[i])] \in [Sid -> Int]
    BY <1>1, <1>2
  <2> QED
    BY <1>2, <2>1
<1>4. \A p \in Request, j \in Sid :
        loop'[p][j] = IF p = r /\ j = i THEN Period(feeds[r].subs[i]) ELSE loop[p][j]
  BY <1>1, <1>2
<1>5. ASSUME NEW p \in Request, NEW j \in Sid PROVE TaskFits(p, j)'
  <2>1. CASE p = r /\ j = i
    BY <1>1, <1>4, <2>1 DEF TaskFits
  <2>2. CASE ~ (p = r /\ j = i)
    BY <1>4, <2>2 DEF TaskFits, TelemetryTypeOK
  <2> QED
    BY <2>1, <2>2
<1> QED
  BY <1>3, <1>4, <1>5

\* Collectors begin with nothing.
LEMMA ViewReset ==
  ASSUME TelemetryTypeOK, NEW r \in Request,
         view' = [view EXCEPT ![r] = [i \in Sid |-> [l \in Leaf |-> None]]]
  PROVE  /\ view' \in [Request -> [Sid -> [Leaf -> Value \cup {None}]]]
         /\ \A i \in Sid, l \in Leaf : view'[r][i][l] = None
         /\ \A p \in Request \ {r} : view'[p] = view[p]
  BY DEF TelemetryTypeOK

LEMMA TypeTransaction ==
  ASSUME TelemetryTypeOK, NEW r \in Request, Transaction(r)
  PROVE  TelemetryTypeOK'
<1>0. FaultNames = {"abort", "start", "sample", "crash", "amend", "giveup"}
  BY DEF FaultNames
<1>1. ASSUME NEW c \in Configs, CreateRequest(r, c) PROVE TelemetryTypeOK'
  <2>1. IsFeed(Parsed(c))
    BY <1>1, ParsedIsFeed DEF CreateRequest
  <2>2. pend'.req \in Request /\ pend'.kind # "deleted"
    BY <1>1 DEF CreateRequest
  <2>3. view' \in [Request -> [Sid -> [Leaf -> Value \cup {None}]]]
    BY <1>1, ViewReset DEF CreateRequest
  <2>4. Start(r, Parsed(c)) /\ UNCHANGED <<data, faults>>
    BY <1>1 DEF CreateRequest
  <2> QED
    BY <2>1, <2>2, <2>3, <2>4, FaultsTyped, TypeStart
<1>2. CASE (\E c \in Configs : CreateRefused(r, c)) \/ DeleteRefused(r)
  <2>1. UNCHANGED <<data, pend, feeds, store, loop, since, out, view, faults>>
    BY <1>2 DEF CreateRefused, DeleteRefused, serverVars
  <2> QED
    BY <2>1, TypeKeep DEF TelemetryTypeOK, TaskFits
<1>3. ASSUME NEW c \in Configs, CreateRaises(r, c) PROVE TelemetryTypeOK'
  <2> DEFINE f == Parsed(c)
  <2>1. IsFeed(f)
    BY <1>3, ParsedIsFeed DEF CreateRaises
  <2>2. /\ feeds' = [feeds EXCEPT ![r] = f] /\ feeds[r] = None
        /\ UNCHANGED <<data, pend, loop, since>> /\ Fault("start")
    BY <1>3 DEF CreateRaises
  <2> HIDE DEF f
  <2>3. view' \in [Request -> [Sid -> [Leaf -> Value \cup {None}]]]
    BY <1>3, ViewReset DEF CreateRaises
  <2>4. faults' \in Seq(FaultNames)
    BY <1>0, <2>2, FaultsTyped
  <2>5. /\ feeds' = [p \in Request |-> feeds'[p]]
        /\ \A p \in Request : feeds'[p] = IF p = r THEN f ELSE feeds[p]
    BY <2>2 DEF TelemetryTypeOK
  <2>6. \A p \in Request : feeds'[p] # None => IsFeed(feeds'[p])
    BY <2>1, <2>5 DEF TelemetryTypeOK
  <2>7. ASSUME NEW p \in Request, NEW i \in Sid PROVE TaskFits(p, i)'
    <3>1. CASE p = r
      BY <2>2, <3>1 DEF TaskFits, TelemetryTypeOK
    <3>2. CASE p # r
      BY <2>2, <2>5, <3>2 DEF TaskFits, TelemetryTypeOK
    <3> QED
      BY <3>1, <3>2
  <2>8. store' \in [Request -> Entries] /\ out' \in [Request -> Seq(Notification)]
    <3> DEFINE st == Retrieved(f, store[r])
               sent == Told(f, st)
    <3>3. \/ UNCHANGED <<store, out>>
          \/ /\ store' = [store EXCEPT ![r] = st]
             /\ \E k \in 0..Len(sent) : out' = [out EXCEPT ![r] = SubSeq(sent, 1, k)]
      BY <1>3 DEF CreateRaises, f
    <3>1. CASE UNCHANGED <<store, out>>
      BY <3>1 DEF TelemetryTypeOK
    <3>2. CASE /\ store' = [store EXCEPT ![r] = st]
               /\ \E k \in 0..Len(sent) : out' = [out EXCEPT ![r] = SubSeq(sent, 1, k)]
      <4>1. PICK k \in 0..Len(sent) : out' = [out EXCEPT ![r] = SubSeq(sent, 1, k)]
        BY <3>2
      <4>2. store \in [Request -> Entries] /\ out \in [Request -> Seq(Notification)]
        BY DEF TelemetryTypeOK
      <4>3. st \in Entries
        BY <2>1, <4>2, RetrievedKeeps DEF TelemetryTypeOK
      <4> HIDE DEF st
      <4>4. sent \in Seq(Notification)
        BY <2>1, <4>3, CurrentTells DEF Told
      <4> HIDE DEF sent
      <4>5. SubSeq(sent, 1, k) \in Seq(Notification)
        BY <4>4, SubSeqProperties
      <4> QED
        BY <3>2, <4>1, <4>2, <4>3, <4>5
    <3> QED
      BY <3>1, <3>2, <3>3
  <2>9. /\ data' \in [Leaf -> Value \cup {None}] /\ loop' \in [Request -> [Sid -> Int]] /\ since' \in [Request -> Nat]
        /\ pend' # None => pend'.req \in Request /\ (pend'.kind = "deleted" => IsFeed(pend'.cfg))
    BY <2>2 DEF TelemetryTypeOK
  <2> QED
    BY <2>3, <2>4, <2>5, <2>6, <2>7, <2>8, <2>9, Zenon DEF TelemetryTypeOK
<1>4. CASE DeleteRequest(r)
  <2>1. /\ StopFeed(r) /\ UNCHANGED <<data, view, faults>> /\ feeds[r] # None
        /\ pend' = [kind |-> "deleted", req |-> r, cfg |-> feeds[r]]
    BY <1>4 DEF DeleteRequest
  <2>2. IsFeed(feeds[r])
    BY <2>1 DEF TelemetryTypeOK
  <2> QED
    BY <2>1, <2>2, FaultsTyped, TypeStop
<1>5. CASE AmendRequest(r)
  <2>1. /\ UNCHANGED <<data, feeds, store, loop, since, out, view>> /\ Fault("amend")
        /\ pend'.req \in Request /\ pend'.kind # "deleted"
    BY <1>5 DEF AmendRequest, serverVars
  <2>2. faults' \in Seq(FaultNames)
    BY <1>0, <2>1, FaultsTyped
  <2> QED
    BY <2>1, <2>2, TypeKeep DEF TelemetryTypeOK, TaskFits
<1> QED
  BY <1>1, <1>2, <1>3, <1>4, <1>5 DEF Transaction

LEMMA TypeTask ==
  ASSUME TelemetryTypeOK, NEW r \in Request, NEW i \in Sid, LoopTask(r, i)
  PROVE  TelemetryTypeOK'
<1>1. /\ Due(r, i) /\ Rearm(r, i) /\ UNCHANGED <<data, pend, feeds, since, view>>
      /\ faults' = faults \/ \E f \in FaultNames : Fault(f)
  BY DEF LoopTask, Sample, SampleRaises, FaultNames
<1>2. /\ loop' \in [Request -> [Sid -> Int]] /\ \A p \in Request, j \in Sid : TaskFits(p, j)'
      /\ faults' \in Seq(FaultNames)
  BY <1>1, RearmKeeps, FaultsTyped
<1>3. store \in [Request -> Entries] /\ out \in [Request -> Seq(Notification)]
  BY DEF TelemetryTypeOK
<1>4. ASSUME NEW U \in SUBSET Leaf, NEW D \in SUBSET Leaf, NEW V \in SUBSET Leaf, NEW E \in SUBSET Leaf,
             V \cap E = {}, \A l \in U \cup V : data[l] \in Value,
             store' = Stored(r, i, U, D), out' = [out EXCEPT ![r] = @ \o Reports(i, V, E)]
      PROVE  store' \in [Request -> Entries] /\ out' \in [Request -> Seq(Notification)]
  <2>1. store' \in [Request -> Entries]
    BY <1>3, <1>4, StoredKeeps
  <2>2. Reports(i, V, E) \in Seq(Notification)
    BY <1>4, ReportsTell
  <2> QED
    BY <1>3, <1>4, <2>1, <2>2, OutGrows
<1>5. store' \in [Request -> Entries] /\ out' \in [Request -> Seq(Notification)]
  <2>1. CASE UNCHANGED <<store, out>>
    BY <1>3, <2>1
  <2>2. CASE Sample(r, i)
    <3>1. PICK X : /\ store' = Stored(r, i, Updated(r, i, X), Gone(r, i))
                   /\ out' = [out EXCEPT ![r] = @ \o Reports(i, Updated(r, i, X), Gone(r, i))]
      BY <2>2 DEF Sample
    <3>2. /\ Updated(r, i, X) \in SUBSET Leaf /\ Gone(r, i) \in SUBSET Leaf
          /\ Updated(r, i, X) \cap Gone(r, i) = {}
          /\ \A m \in Updated(r, i, X) : data[m] \in Value
      BY <1>1, SampleSets
    <3> QED
      BY <1>4, <3>1, <3>2
  <2>3. ASSUME NEW X, NEW l \in Updated(r, i, X), NEW U \in SUBSET (Updated(r, i, X) \ {l}),
               store' = Stored(r, i, U \cup {l}, {}), out' = [out EXCEPT ![r] = @ \o Reports(i, U, {})]
        PROVE  store' \in [Request -> Entries] /\ out' \in [Request -> Seq(Notification)]
    <3>1. Updated(r, i, X) \in SUBSET Leaf /\ \A m \in Updated(r, i, X) : data[m] \in Value
      BY <1>1, SampleSets
    <3>2. /\ U \cup {l} \in SUBSET Leaf /\ U \in SUBSET Leaf /\ {} \in SUBSET Leaf /\ U \cap {} = {}
          /\ \A m \in (U \cup {l}) \cup U : data[m] \in Value
      BY <3>1
    <3> QED
      BY <1>4, <2>3, <3>2
  <2>4. ASSUME NEW X, NEW l \in Gone(r, i), NEW D \in SUBSET (Gone(r, i) \ {l}),
               store' = Stored(r, i, Updated(r, i, X), D \cup {l}),
               out' = [out EXCEPT ![r] = @ \o Reports(i, Updated(r, i, X), D)]
        PROVE  store' \in [Request -> Entries] /\ out' \in [Request -> Seq(Notification)]
    <3>1. /\ Updated(r, i, X) \in SUBSET Leaf /\ Gone(r, i) \in SUBSET Leaf
          /\ Updated(r, i, X) \cap Gone(r, i) = {}
          /\ \A m \in Updated(r, i, X) : data[m] \in Value
      BY <1>1, SampleSets
    <3>2. D \cup {l} \in SUBSET Leaf /\ D \in SUBSET Leaf /\ Updated(r, i, X) \cap D = {}
      BY <3>1
    <3> QED
      BY <1>4, <2>4, <3>1, <3>2
  <2> QED
    BY <2>1, <2>2, <2>3, <2>4 DEF LoopTask, SampleRaises
<1>6. /\ data' \in [Leaf -> Value \cup {None}]
      /\ pend' # None => pend'.req \in Request /\ (pend'.kind = "deleted" => IsFeed(pend'.cfg))
  BY <1>1 DEF TelemetryTypeOK
<1> QED
  BY <1>1, <1>2, <1>5, <1>6, TypeKeep

\* What a collector receives.
LEMMA ReceiveKeeps ==
  ASSUME TelemetryTypeOK, NEW r \in Request, Receive(r)
  PROVE  /\ out[r] # <<>> /\ Head(out[r]) \in Notification
         /\ out' \in [Request -> Seq(Notification)] /\ out'[r] = Tail(out[r])
         /\ \A p \in Request \ {r} : out'[p] = out[p]
         /\ view' \in [Request -> [Sid -> [Leaf -> Value \cup {None}]]]
         /\ \A p \in Request, i \in Sid, l \in Leaf :
              view'[p][i][l] = IF p = r /\ About(Head(out[r]), i, l) THEN Head(out[r]).val ELSE view[p][i][l]
<1>1. out[r] \in Seq(Notification) /\ out[r] # <<>> /\ out' = [out EXCEPT ![r] = Tail(out[r])]
  BY DEF Receive, TelemetryTypeOK
<1>2. Head(out[r]) \in Notification /\ Tail(out[r]) \in Seq(Notification)
  BY <1>1, HeadTailProperties
<1>3. /\ out' \in [Request -> Seq(Notification)] /\ out'[r] = Tail(out[r])
      /\ \A p \in Request \ {r} : out'[p] = out[p]
  BY <1>1, <1>2 DEF TelemetryTypeOK
<1>4. view \in [Request -> [Sid -> [Leaf -> Value \cup {None}]]]
  BY DEF TelemetryTypeOK
<1> DEFINE n == Head(out[r])
<1>5. view' = IF n.type = "SYNC_RESPONSE" THEN view ELSE [view EXCEPT ![r][n.sid][n.leaf] = n.val]
  BY DEF Receive
<1>6. CASE n.type = "SYNC_RESPONSE"
  BY <1>1, <1>2, <1>3, <1>4, <1>5, <1>6 DEF About
<1>7. CASE n.type # "SYNC_RESPONSE"
  <2>1. n.sid \in Sid /\ n.leaf \in Leaf /\ n.val \in Value \cup {None}
    BY <1>2, <1>7 DEF Notification, Sync
  <2>2. \A i, l : About(n, i, l) <=> i = n.sid /\ l = n.leaf
    BY <1>7 DEF About
  <2> HIDE DEF n
  <2>3. view' = [view EXCEPT ![r][n.sid][n.leaf] = n.val]
    BY <1>5, <1>7
  <2>4. [view[r][n.sid] EXCEPT ![n.leaf] = n.val] \in [Leaf -> Value \cup {None}]
    BY <1>4, <2>1
  <2>5. view' \in [Request -> [Sid -> [Leaf -> Value \cup {None}]]]
    BY <1>4, <2>1, <2>3, <2>4
  <2>6. \A p \in Request, i \in Sid, l \in Leaf :
          view'[p][i][l] = IF p = r /\ i = n.sid /\ l = n.leaf THEN n.val ELSE view[p][i][l]
    BY <1>4, <2>1, <2>3
  <2> QED
    BY <1>1, <1>2, <1>3, <2>2, <2>5, <2>6 DEF n
<1> QED
  BY <1>6, <1>7

\* What a poll stores and tells.
LEMMA PollKeeps ==
  ASSUME TelemetryTypeOK, NEW r \in Request, Poll(r)
  PROVE  /\ feeds[r] # None /\ IsFeed(feeds[r]) /\ feeds[r].mode = "POLL"
         /\ store' \in [Request -> Entries] /\ store'[r] = Retrieved(feeds[r], store[r])
         /\ \A p \in Request \ {r} : store'[p] = store[p] /\ out'[p] = out[p]
         /\ out' \in [Request -> Seq(Notification)]
         /\ \A i \in Sid, l \in Leaf : \A v :
              After(out'[r], i, l, v) =
                IF i \in DOMAIN feeds[r].subs /\ store'[r][i][l] # None THEN store'[r][i][l].val ELSE v
         /\ out[r] = <<>>
<1> DEFINE st == Retrieved(feeds[r], store[r])
           u == Current(feeds[r], st)
           y == <<Sync>>
<1>1. feeds[r] # None /\ feeds[r].mode = "POLL" /\ IsFeed(feeds[r]) /\ out[r] = <<>>
  BY DEF Poll, TelemetryTypeOK
<1>2. store \in [Request -> Entries] /\ st \in Entries /\ out \in [Request -> Seq(Notification)]
  BY <1>1, RetrievedKeeps DEF TelemetryTypeOK
<1>3. store' = [store EXCEPT ![r] = st] /\ out' = [out EXCEPT ![r] = u \o y]
  BY DEF Poll
<1> HIDE DEF st
<1>4. /\ u \in Seq(Notification)
      /\ \A i \in Sid, l \in Leaf : \A v :
           After(u, i, l, v) = IF i \in DOMAIN feeds[r].subs /\ st[i][l] # None THEN st[i][l].val ELSE v
  BY <1>1, <1>2, CurrentTells
<1>5. y \in Seq(Notification) /\ \A i, l : \A n \in DOMAIN y : ~ About(y[n], i, l)
  BY DEF Notification, About, Sync
<1> HIDE DEF u, y
<1>6. u \o y \in Seq(Notification)
  BY <1>4, <1>5, ConcatProperties
<1>7. /\ out' \in [Request -> Seq(Notification)] /\ out'[r] = u \o y
      /\ \A p \in Request \ {r} : out'[p] = out[p]
  BY <1>2, <1>3, <1>6
<1>8. /\ store' \in [Request -> Entries] /\ store'[r] = st
      /\ \A p \in Request \ {r} : store'[p] = store[p]
  BY <1>2, <1>3
<1>9. ASSUME NEW i \in Sid, NEW l \in Leaf, NEW v PROVE After(u \o y, i, l, v) = After(u, i, l, v)
  <2>1. After(u \o y, i, l, v) = After(y, i, l, After(u, i, l, v))
    BY <1>4, <1>5, AfterConcat
  <2>2. After(y, i, l, After(u, i, l, v)) = After(u, i, l, v)
    BY <1>5, AfterNone
  <2> QED
    BY <2>1, <2>2
<1> QED
  BY <1>1, <1>4, <1>7, <1>8, <1>9 DEF st

\* What time does to the store.
LEMMA TickKeeps ==
  ASSUME TelemetryTypeOK, Tick
  PROVE  /\ store' \in [Request -> Entries] /\ loop' \in [Request -> [Sid -> Int]]
         /\ since' \in [Request -> Nat]
         /\ \A r \in Request : since'[r] \in {since[r], since[r] + 1}
         /\ \A r \in Request, i \in Sid :
              /\ loop[r][i] # 0
              /\ loop'[r][i] = IF loop[r][i] > 0 THEN loop[r][i] - 1 ELSE loop[r][i]
              /\ \A l \in Leaf :
                   IF store[r][i][l] = None THEN store'[r][i][l] = None
                   ELSE /\ store'[r][i][l] # None /\ store'[r][i][l].val = store[r][i][l].val
                        /\ store'[r][i][l].age \in {store[r][i][l].age, store[r][i][l].age + 1}
<1>1. /\ store \in [Request -> Entries] /\ loop \in [Request -> [Sid -> Int]] /\ since \in [Request -> Nat]
  BY DEF TelemetryTypeOK
<1>2. since' \in [Request -> Nat] /\ \A r \in Request : since'[r] \in {since[r], since[r] + 1}
  BY <1>1 DEF Tick
<1>3. /\ loop' \in [Request -> [Sid -> Int]]
      /\ \A r \in Request, i \in Sid :
              /\ loop[r][i] # 0
              /\ loop'[r][i] = IF loop[r][i] > 0 THEN loop[r][i] - 1 ELSE loop[r][i]
  BY <1>1 DEF Tick, Due
<1> DEFINE Older(e) == IF e # None /\ e.age < MaxAge THEN [e EXCEPT !.age = @ + 1] ELSE e
<1>4. store' = [r \in Request |-> [i \in Sid |-> [l \in Leaf |-> Older(store[r][i][l])]]]
  BY DEF Tick
<1>5. ASSUME NEW e \in Entry \cup {None}
      PROVE  /\ Older(e) \in Entry \cup {None}
             /\ IF e = None THEN Older(e) = None
                ELSE Older(e) # None /\ Older(e).val = e.val /\ Older(e).age \in {e.age, e.age + 1}
  <2>1. e # None => [e EXCEPT !.age = @ + 1] \in Entry
    BY DEF Entry
  <2>2. None \notin Entry
    BY NoneAssumption DEF Entry
  <2> QED
    BY <2>1, <2>2 DEF Entry
<1>6. \A r \in Request, i \in Sid, l \in Leaf : store[r][i][l] \in Entry \cup {None}
  BY <1>1 DEF Entries
<1> HIDE DEF Older
<1>7. store' \in [Request -> Entries]
  BY <1>4, <1>5, <1>6 DEF Entries
<1>8. \A r \in Request, i \in Sid, l \in Leaf : store'[r][i][l] = Older(store[r][i][l])
  BY <1>4
<1> QED
  BY <1>2, <1>3, <1>5, <1>6, <1>7, <1>8

\* What a revert leaves behind, whoever asked for it.
LEMMA TypeRevert ==
  ASSUME TelemetryTypeOK, RevertHandler, faults' \in Seq(FaultNames)
  PROVE  TelemetryTypeOK'
<1>1. pend # None /\ pend' = None /\ UNCHANGED <<data, view>> /\ pend.req \in Request
  BY DEF RevertHandler, TelemetryTypeOK
<1>2. CASE StopFeed(pend.req)
  BY <1>1, <1>2, TypeStop
<1>3. CASE pend.kind = "deleted" /\ Start(pend.req, pend.cfg)
  <2>1. IsFeed(pend.cfg) /\ view' \in [Request -> [Sid -> [Leaf -> Value \cup {None}]]]
    BY <1>1, <1>3 DEF TelemetryTypeOK
  <2> QED
    BY <1>1, <1>3, <2>1, TypeStart
<1>4. CASE UNCHANGED <<serverVars, out>>
  <2>1. UNCHANGED <<feeds, store, loop, since, out>>
    BY <1>4 DEF serverVars
  <2> QED
    BY <1>1, <2>1, TypeKeep DEF TelemetryTypeOK, TaskFits
<1> QED
  BY <1>2, <1>3, <1>4 DEF RevertHandler

\* A new process has no feeds and no tasks.
LEMMA TypeLost ==
  ASSUME TelemetryTypeOK, MemoryLost, UNCHANGED <<data, out, view>>,
         pend' = None \/ pend' = pend, faults' \in Seq(FaultNames)
  PROVE  TelemetryTypeOK'
<1>1. /\ feeds' = [r \in Request |-> None]
      /\ store' = [r \in Request |-> [i \in Sid |-> [l \in Leaf |-> None]]]
      /\ loop' = [r \in Request |-> [i \in Sid |-> -1]]
      /\ since' = [r \in Request |-> 0]
  BY DEF MemoryLost
<1>2. store' \in [Request -> Entries] /\ loop' \in [Request -> [Sid -> Int]] /\ since' \in [Request -> Nat]
  BY <1>1 DEF Entries
<1>3. \A r \in Request, i \in Sid : TaskFits(r, i)'
  BY <1>1 DEF TaskFits
<1>4. feeds' = [r \in Request |-> feeds'[r]] /\ \A r \in Request : feeds'[r] = None
  BY <1>1
<1>5. pend' # None => pend'.req \in Request /\ (pend'.kind = "deleted" => IsFeed(pend'.cfg))
  BY DEF TelemetryTypeOK
<1> QED
  BY <1>2, <1>3, <1>4, <1>5 DEF TelemetryTypeOK

LEMMA TypeOther ==
  ASSUME TelemetryTypeOK,
         \/ \E r \in Request : Poll(r) \/ Receive(r)
         \/ Commit \/ Revert \/ Tick \/ DataChange \/ Restart \/ UNCHANGED vars
  PROVE  TelemetryTypeOK'
<1>0. FaultNames = {"abort", "start", "sample", "crash", "amend", "giveup"}
  BY DEF FaultNames
<1>1. ASSUME NEW r \in Request, Poll(r) PROVE TelemetryTypeOK'
  <2>1. UNCHANGED <<data, pend, feeds, loop, since, view, faults>>
    BY <1>1 DEF Poll
  <2>2. store' \in [Request -> Entries] /\ out' \in [Request -> Seq(Notification)]
    BY <1>1, PollKeeps
  <2> QED
    BY <2>1, <2>2, TypeKeep DEF TelemetryTypeOK, TaskFits
<1>2. ASSUME NEW r \in Request, Receive(r) PROVE TelemetryTypeOK'
  <2>1. UNCHANGED <<data, pend, feeds, store, loop, since, faults>>
    BY <1>2 DEF Receive, serverVars
  <2>2. out' \in [Request -> Seq(Notification)] /\ view' \in [Request -> [Sid -> [Leaf -> Value \cup {None}]]]
    BY <1>2, ReceiveKeeps
  <2>3. \A p \in Request, i \in Sid : TaskFits(p, i)'
    BY <2>1 DEF TelemetryTypeOK, TaskFits
  <2> QED
    BY <2>1, <2>2, <2>3 DEF TelemetryTypeOK
<1>3. CASE Commit
  <2>1. UNCHANGED <<data, feeds, store, loop, since, out, view, faults>> /\ pend' = None
    BY <1>3 DEF Commit, serverVars
  <2> QED
    BY <2>1, TypeKeep DEF TelemetryTypeOK, TaskFits
<1>4. CASE Revert
  <2>1. RevertHandler /\ faults' \in Seq(FaultNames)
    BY <1>0, <1>4, FaultsTyped DEF Revert
  <2> QED
    BY <2>1, TypeRevert
<1>5. CASE Tick
  <2>1. UNCHANGED <<data, pend, feeds, out, view, faults>>
    BY <1>5 DEF Tick
  <2>2. /\ store' \in [Request -> Entries] /\ loop' \in [Request -> [Sid -> Int]] /\ since' \in [Request -> Nat]
        /\ \A r \in Request, i \in Sid :
             loop'[r][i] = IF loop[r][i] > 0 THEN loop[r][i] - 1 ELSE loop[r][i]
    BY <1>5, TickKeeps
  <2>3. ASSUME NEW r \in Request, NEW i \in Sid PROVE TaskFits(r, i)'
    <3>1. loop[r][i] \in Int /\ TaskFits(r, i) /\ (feeds[r] # None => IsFeed(feeds[r]))
      BY DEF TelemetryTypeOK
    <3>2. CASE loop[r][i] = -1
      BY <2>2, <3>2 DEF TaskFits
    <3>3. CASE loop[r][i] # -1
      <4>1. loop[r][i] > 0 /\ loop'[r][i] = loop[r][i] - 1 /\ Period(feeds[r].subs[i]) \in Nat
        BY <1>5, <2>2, <3>1, <3>3, TickKeeps DEF TaskFits, IsFeed
      <4> QED
        BY <2>1, <3>1, <3>3, <4>1 DEF TaskFits
    <3> QED
      BY <3>2, <3>3
  <2> QED
    BY <2>1, <2>2, <2>3 DEF TelemetryTypeOK
<1>6. CASE DataChange
  <2>1. UNCHANGED <<pend, feeds, store, loop, since, out, view, faults>>
    BY <1>6 DEF DataChange, serverVars
  <2>2. data' \in [Leaf -> Value \cup {None}]
    BY <1>6 DEF DataChange, TelemetryTypeOK
  <2> QED
    BY <2>1, <2>2, TypeKeep DEF TelemetryTypeOK, TaskFits
<1>7. CASE Restart
  <2>1. MemoryLost /\ UNCHANGED <<data, out, view>> /\ pend' = None /\ faults' \in Seq(FaultNames)
    BY <1>0, <1>7, FaultsTyped DEF Restart
  <2> QED
    BY <2>1, TypeLost
<1>8. CASE UNCHANGED vars
  <2>1. UNCHANGED <<data, pend, feeds, store, loop, since, out, view, faults>>
    BY <1>8 DEF vars, serverVars
  <2> QED
    BY <2>1, TypeKeep DEF TelemetryTypeOK, TaskFits
<1> QED
  BY <1>1, <1>2, <1>3, <1>4, <1>5, <1>6, <1>7, <1>8

LEMMA TypeStep == TelemetryTypeOK /\ [Next]_vars => TelemetryTypeOK'
  BY TypeTransaction, TypeTask, TypeOther DEF Next

LEMMA TypeInit == Init => TelemetryTypeOK
<1> SUFFICES ASSUME Init PROVE TelemetryTypeOK
  OBVIOUS
<1>1. /\ data \in [Leaf -> Value \cup {None}] /\ pend = None /\ faults = <<>>
      /\ feeds = [r \in Request |-> None]
      /\ store = [r \in Request |-> [i \in Sid |-> [l \in Leaf |-> None]]]
      /\ loop = [r \in Request |-> [i \in Sid |-> -1]] /\ since = [r \in Request |-> 0]
      /\ out = [r \in Request |-> <<>>]
      /\ view = [r \in Request |-> [i \in Sid |-> [l \in Leaf |-> None]]]
  BY DEF Init
<1>2. store \in [Request -> Entries] /\ loop \in [Request -> [Sid -> Int]] /\ since \in [Request -> Nat]
  BY <1>1 DEF Entries
<1>3. out \in [Request -> Seq(Notification)] /\ view \in [Request -> [Sid -> [Leaf -> Value \cup {None}]]]
  BY <1>1
<1>4. \A r \in Request, i \in Sid : TaskFits(r, i)
  BY <1>1 DEF TaskFits
<1>5. feeds = [r \in Request |-> feeds[r]] /\ \A r \in Request : feeds[r] = None
  BY <1>1
<1>6. faults \in Seq(FaultNames)
  BY <1>1
<1> QED
  BY <1>1, <1>2, <1>3, <1>4, <1>5, <1>6 DEF TelemetryTypeOK

-----------------------------------------------------------------------------
(* The store and what the collector knows.                                 *)

Harmless == OnlyFaults({"abort", "amend", "crash"})

\* With updates-only a collector is only not told of what a start stores.
Tracked(r, c, i, l) ==
  /\ ~ c.updatesOnly => Known(r, i, l) = StoredVal(r, i, l)
  /\ c.updatesOnly /\ OnlyFaults({"amend", "crash"}) => Known(r, i, l) \in {StoredVal(r, i, l), None}

\* It holds of the feeds that run and of the one a revert may start again.
TracksInv ==
  Harmless =>
    /\ \A r \in Request : feeds[r] # None =>
         \A i \in DOMAIN feeds[r].subs, l \in Leaf : Tracked(r, feeds[r], i, l)
    /\ pend # None /\ pend.kind = "deleted" =>
         \A i \in DOMAIN pend.cfg.subs, l \in Leaf : Tracked(pend.req, pend.cfg, i, l)

\* Leaf l, if it must not be silent, is heard of in time before the next sample.
HeardOf(r, i, l) ==
  loop[r][i] # -1 /\ store[r][i][l] # None =>
    LET s == feeds[r].subs[i]
        limit == Period(s) + (IF Suppresses(s) THEN s.heartbeat ELSE 0)
    IN (Suppresses(s) => s.heartbeat > 0) =>
         store[r][i][l].age + loop[r][i] <= limit \/ since[r] + loop[r][i] <= limit

SilenceInv == faults = <<>> => \A r \in Request, i \in Sid, l \in Leaf : HeardOf(r, i, l)

LEMMA FaultsKept ==
  ASSUME TelemetryTypeOK, [Next]_vars, NEW F
  PROVE  OnlyFaults(F)' => OnlyFaults(F)
<1>1. faults' = faults \/ \E f : Fault(f)
  BY DEF Next, Transaction, LoopTask, CreateRequest, CreateRefused, CreateRaises, DeleteRequest,
         DeleteRefused, AmendRequest, Poll, Receive, Sample, SampleRaises, Commit, Revert, Tick,
         DataChange, Restart, vars
<1>2. faults \in Seq(FaultNames)
  BY DEF TelemetryTypeOK
<1>3. CASE faults' = faults
  BY <1>3 DEF OnlyFaults
<1>4. CASE \E f : Fault(f)
  BY <1>2, <1>4, FaultsOfKind
<1> QED
  BY <1>1, <1>3, <1>4

LEMMA FaultOfOtherKind ==
  ASSUME TelemetryTypeOK, NEW f, Fault(f), NEW F, f \notin F
  PROVE  ~ OnlyFaults(F)'
<1>1. faults \in Seq(FaultNames)
  BY DEF TelemetryTypeOK
<1> QED
  BY <1>1, FaultsOfKind

\* A step leaves alone what is stored and known of a leaf, or makes them the same.
Together(r, i, l) ==
  \/ Known(r, i, l)' = Known(r, i, l) /\ StoredVal(r, i, l)' = StoredVal(r, i, l)
  \/ Known(r, i, l)' = StoredVal(r, i, l)'

LEMMA TrackedKept ==
  ASSUME NEW r, NEW i, NEW l, NEW c, Tracked(r, c, i, l), Together(r, i, l),
         OnlyFaults({"amend", "crash"})' => OnlyFaults({"amend", "crash"})
  PROVE  Tracked(r, c, i, l)'
  BY DEF Tracked, Together

\* Notifications that are on their way and those that are received make no difference.
LEMMA PairReceive ==
  ASSUME TelemetryTypeOK, NEW r \in Request, Receive(r), NEW p \in Request, NEW i \in Sid, NEW l \in Leaf
  PROVE  Together(p, i, l)
<1>1. store' = store
  BY DEF Receive, serverVars
<1>2. /\ out[r] # <<>> /\ out'[r] = Tail(out[r]) /\ (p # r => out'[p] = out[p])
      /\ view'[p][i][l] = IF p = r /\ About(Head(out[r]), i, l) THEN Head(out[r]).val ELSE view[p][i][l]
  BY ReceiveKeeps
<1>3. out[r] \in Seq(Notification)
  BY DEF TelemetryTypeOK
<1>4. After(out[r], i, l, view[r][i][l]) =
        After(Tail(out[r]), i, l, IF About(Head(out[r]), i, l) THEN Head(out[r]).val ELSE view[r][i][l])
  BY <1>2, <1>3, AfterTail
<1>5. Known(p, i, l)' = Known(p, i, l)
  BY <1>2, <1>4 DEF Known
<1> QED
  BY <1>1, <1>5 DEF Together, StoredVal

\* A sample of subscription i of r reports and stores the leaves U and D.
Sampled(X, U, D, r, i) ==
  /\ U = Updated(r, i, X) /\ D = Gone(r, i)
  /\ U \in SUBSET Leaf /\ D \in SUBSET Leaf /\ U \cap D = {} /\ \A l \in U : data[l] \in Value
  /\ HasStored(store', r, i, U, D)
  /\ out' = [out EXCEPT ![r] = @ \o Reports(i, U, D)]

LEMMA SampleSampled ==
  ASSUME TelemetryTypeOK, NEW r \in Request, NEW i \in Sid, Sample(r, i)
  PROVE  \E X, U, D : Sampled(X, U, D, r, i)
<1>1. PICK X : /\ store' = Stored(r, i, Updated(r, i, X), Gone(r, i))
               /\ out' = [out EXCEPT ![r] = @ \o Reports(i, Updated(r, i, X), Gone(r, i))]
  BY DEF Sample
<1>2. PICK U, D : U = Updated(r, i, X) /\ D = Gone(r, i)
  OBVIOUS
<1>3. U \in SUBSET Leaf /\ D \in SUBSET Leaf /\ U \cap D = {} /\ \A m \in U : data[m] \in Value
  BY <1>2, SampleSets DEF Sample
<1>4. store' = Stored(r, i, U, D) /\ out' = [out EXCEPT ![r] = @ \o Reports(i, U, D)]
  BY <1>1, <1>2
<1>5. HasStored(store', r, i, U, D)
  <2>1. store \in [Request -> Entries]
    BY DEF TelemetryTypeOK
  <2>2. HasStored(Stored(r, i, U, D), r, i, U, D)
    BY <1>3, <2>1, StoredKeeps
  <2> QED
    BY <1>4, <2>2
<1>6. Sampled(X, U, D, r, i)
  BY <1>2, <1>3, <1>4, <1>5 DEF Sampled
<1> QED
  BY <1>6

\* A sample tells what it stores.
LEMMA PairSample ==
  ASSUME TelemetryTypeOK, NEW r \in Request, NEW j \in Sid, Sample(r, j),
         NEW p \in Request, NEW i \in Sid, NEW l \in Leaf
  PROVE  Together(p, i, l)
<1>1. PICK X, U, D : Sampled(X, U, D, r, j)
  BY SampleSampled
<1>2. PICK q : q = Reports(j, U, D)
  OBVIOUS
<1>3. U \in SUBSET Leaf /\ D \in SUBSET Leaf /\ U \cap D = {} /\ (\A m \in U : data[m] \in Value) /\ view' = view
  BY <1>1 DEF Sampled, Sample
<1>4. out \in [Request -> Seq(Notification)]
  BY DEF TelemetryTypeOK
<1>5. q \in Seq(Notification)
  BY <1>2, <1>3, ReportsTell
<1>6. /\ out'[r] = out[r] \o q /\ (p # r => out'[p] = out[p])
  <2>1. out' = [out EXCEPT ![r] = @ \o q]
    BY <1>1, <1>2 DEF Sampled
  <2> QED
    BY <1>4, <1>5, <2>1, OutGrows
<1>7. store'[p][i][l] = IF p = r /\ i = j /\ l \in U THEN Fresh(l)
                        ELSE IF p = r /\ i = j /\ l \in D THEN None ELSE store[p][i][l]
  BY <1>1 DEF Sampled, HasStored
<1>8. After(q, i, l, Known(r, i, l)) =
        IF i = j /\ l \in U THEN data[l] ELSE IF i = j /\ l \in D THEN None ELSE Known(r, i, l)
  BY <1>2, <1>3, ReportsKnown
<1>9. CASE p # r
  <2>1. Known(p, i, l)' = Known(p, i, l) /\ StoredVal(p, i, l)' = StoredVal(p, i, l)
    BY <1>3, <1>6, <1>7, <1>9 DEF Known, StoredVal
  <2> QED
    BY <2>1 DEF Together
<1>10. CASE p = r
  <2>1. out[r] \in Seq(Notification)
    BY <1>4
  <2>2. After(out[r] \o q, i, l, view[r][i][l]) = After(q, i, l, Known(r, i, l))
    BY <1>5, <2>1, AfterConcat DEF Known
  <2>3. Known(p, i, l)' = After(q, i, l, Known(r, i, l))
    BY <1>3, <1>6, <1>10, <2>2 DEF Known
  <2>4. CASE i = j /\ l \in U
    <3>1. Fresh(l).val = data[l] /\ Fresh(l) # None
      BY <1>3, <2>4, NoneAssumption DEF Fresh
    <3>2. Known(p, i, l)' = StoredVal(p, i, l)'
      BY <1>7, <1>8, <1>10, <2>3, <2>4, <3>1 DEF StoredVal
    <3> QED
      BY <3>2 DEF Together
  <2>5. CASE i = j /\ l \in D /\ l \notin U
    <3>1. Known(p, i, l)' = StoredVal(p, i, l)'
      BY <1>7, <1>8, <1>10, <2>3, <2>5 DEF StoredVal
    <3> QED
      BY <3>1 DEF Together
  <2>6. CASE ~ (i = j /\ l \in U) /\ ~ (i = j /\ l \in D)
    <3>1. Known(p, i, l)' = Known(p, i, l) /\ StoredVal(p, i, l)' = StoredVal(p, i, l)
      BY <1>7, <1>8, <1>10, <2>3, <2>6 DEF StoredVal
    <3> QED
      BY <3>1 DEF Together
  <2> QED
    BY <2>4, <2>5, <2>6
<1> QED
  BY <1>9, <1>10

\* So does a poll.
LEMMA PairPoll ==
  ASSUME TelemetryTypeOK, NEW r \in Request, Poll(r), NEW p \in Request, NEW i \in Sid, NEW l \in Leaf
  PROVE  Together(p, i, l)
<1>1. /\ IsFeed(feeds[r]) /\ store'[r] = Retrieved(feeds[r], store[r]) /\ out[r] = <<>>
      /\ \A q \in Request \ {r} : store'[q] = store[q] /\ out'[q] = out[q]
  BY PollKeeps
<1>2. \A v : After(out'[r], i, l, v) =
              IF i \in DOMAIN feeds[r].subs /\ store'[r][i][l] # None THEN store'[r][i][l].val ELSE v
  BY PollKeeps
<1>3. view' = view
  BY DEF Poll
<1>4. CASE p # r
  BY <1>1, <1>3, <1>4 DEF Together, Known, StoredVal
<1>5. CASE p = r
  <2>1. /\ i \notin DOMAIN feeds[r].subs => store'[r][i][l] = store[r][i][l]
        /\ store'[r][i][l] = None => store[r][i][l] = None
    <3>1. store[r] \in Entries /\ data \in [Leaf -> Value \cup {None}]
      BY DEF TelemetryTypeOK
    <3> QED
      BY <1>1, <3>1, RetrievedKeeps
  <2>2. Known(r, i, l) = view[r][i][l]
    BY <1>1, AfterNone DEF Known
  <2>3. Known(r, i, l)' =
          IF i \in DOMAIN feeds[r].subs /\ store'[r][i][l] # None THEN store'[r][i][l].val ELSE Known(r, i, l)
    BY <1>2, <1>3, <2>2 DEF Known
  <2> QED
    BY <1>5, <2>1, <2>3 DEF Together, StoredVal
<1> QED
  BY <1>4, <1>5

\* Time changes neither.
LEMMA PairTick ==
  ASSUME TelemetryTypeOK, Tick, NEW p \in Request, NEW i \in Sid, NEW l \in Leaf
  PROVE  Together(p, i, l)
<1>1. Known(p, i, l)' = Known(p, i, l)
  BY DEF Known, Tick
<1>2. StoredVal(p, i, l)' = StoredVal(p, i, l)
  BY TickKeeps DEF StoredVal
<1> QED
  BY <1>1, <1>2 DEF Together

\* A start tells what it stores, but for updates-only.
LEMMA PairStart ==
  ASSUME TelemetryTypeOK, NEW r \in Request, NEW c, IsFeed(c), Start(r, c),
         NEW p \in Request, NEW i \in Sid, NEW l \in Leaf, p = r => ~ c.updatesOnly, view' = view
  PROVE  Together(p, i, l)
<1>1. PICK q : SentBy(q, r, c)
  BY StartTells
<1>2. store'[r] = Retrieved(c, store[r]) /\ \A x \in Request \ {r} : store'[x] = store[x]
  BY StartKeeps
<1>3. CASE p # r
  BY <1>1, <1>2, <1>3 DEF SentBy, Together, Known, StoredVal
<1>4. CASE p = r
  <2>1. /\ i \notin DOMAIN c.subs => store'[r][i][l] = store[r][i][l]
        /\ store'[r][i][l] = None => store[r][i][l] = None
    <3>1. store[r] \in Entries /\ data \in [Leaf -> Value \cup {None}]
      BY DEF TelemetryTypeOK
    <3> QED
      BY <1>2, <3>1, RetrievedKeeps
  <2>2. out[r] \in Seq(Notification)
    BY DEF TelemetryTypeOK
  <2>3. After(out[r] \o q, i, l, view[r][i][l]) = After(q, i, l, Known(r, i, l))
    BY <1>1, <2>2, AfterConcat DEF SentBy, Known
  <2>4. Known(r, i, l)' = After(q, i, l, Known(r, i, l))
    BY <1>1, <2>3 DEF SentBy, Known
  <2> QED
    BY <1>1, <1>4, <2>1, <2>4 DEF SentBy, Together, StoredVal
<1> QED
  BY <1>3, <1>4

\* A step after which all that runs, or may run again, did so before.
LEMMA TracksKeep ==
  ASSUME TelemetryTypeOK, TracksInv, [Next]_vars,
         \A r \in Request : feeds'[r] # None => feeds'[r] = feeds[r],
         pend' = pend \/ pend' = None \/ pend'.kind # "deleted",
         \A r \in Request, i \in Sid, l \in Leaf : Together(r, i, l)
  PROVE  TracksInv'
<1> SUFFICES ASSUME Harmless'
             PROVE  /\ \A r \in Request : feeds'[r] # None =>
                         \A i \in DOMAIN feeds'[r].subs, l \in Leaf : Tracked(r, feeds[r], i, l)'
                    /\ pend' # None /\ pend'.kind = "deleted" =>
                         \A i \in DOMAIN pend'.cfg.subs, l \in Leaf : Tracked(pend.req, pend.cfg, i, l)'
  BY DEF TracksInv
<1>1. Harmless /\ (OnlyFaults({"amend", "crash"})' => OnlyFaults({"amend", "crash"}))
  BY FaultsKept DEF Harmless
<1>2. ASSUME NEW r \in Request, feeds'[r] # None, NEW i \in DOMAIN feeds'[r].subs, NEW l \in Leaf
      PROVE  Tracked(r, feeds[r], i, l)'
  <2>1. PICK c : c = feeds[r]
    OBVIOUS
  <2>2. feeds'[r] = c /\ IsFeed(c) /\ i \in DOMAIN c.subs /\ i \in Sid
    BY <1>2, <2>1 DEF TelemetryTypeOK, IsFeed
  <2>3. Tracked(r, c, i, l)
    BY <1>1, <1>2, <2>1, <2>2 DEF TracksInv
  <2>4. Tracked(r, c, i, l)'
    BY <1>1, <2>2, <2>3, TrackedKept
  <2> QED
    BY <2>2, <2>4 DEF Tracked
<1>3. ASSUME pend' # None, pend'.kind = "deleted", NEW i \in DOMAIN pend'.cfg.subs, NEW l \in Leaf
      PROVE  Tracked(pend.req, pend.cfg, i, l)'
  <2>1. PICK c, r : c = pend.cfg /\ r = pend.req
    OBVIOUS
  <2>2. pend' = pend /\ r \in Request /\ IsFeed(c) /\ i \in DOMAIN c.subs /\ i \in Sid
    BY <1>3, <2>1 DEF TelemetryTypeOK, IsFeed
  <2>3. Tracked(r, c, i, l)
    BY <1>1, <1>3, <2>1, <2>2 DEF TracksInv
  <2>4. Tracked(r, c, i, l)'
    BY <1>1, <2>2, <2>3, TrackedKept
  <2> QED
    BY <2>1, <2>2, <2>4 DEF Tracked
<1> QED
  BY <1>2, <1>3

\* A new collector begins with nothing and is told what is stored.
LEMMA TracksCreate ==
  ASSUME TelemetryTypeOK, TracksInv, NEW r \in Request, NEW c \in Configs, CreateRequest(r, c), [Next]_vars
  PROVE  TracksInv'
<1>1. PICK d : d = Parsed(c)
  OBVIOUS
<1>2. /\ out[r] = <<>> /\ Start(r, d) /\ IsFeed(d) /\ UNCHANGED faults
      /\ pend' = [kind |-> "created", req |-> r, cfg |-> c]
      /\ view' = [view EXCEPT ![r] = [i \in Sid |-> [l \in Leaf |-> None]]]
  BY <1>1, ParsedIsFeed DEF CreateRequest, Configured
<1>3. /\ feeds'[r] = d
      /\ \A p \in Request \ {r} : feeds'[p] = feeds[p] /\ store'[p] = store[p]
  BY <1>2, StartKeeps
<1>4. PICK q : SentBy(q, r, d)
  BY <1>2, StartTells
<1>5. out'[r] = q /\ \A p \in Request \ {r} : out'[p] = out[p]
  BY <1>2, <1>4 DEF SentBy
<1>6. /\ \A i \in Sid, l \in Leaf : view'[r][i][l] = None
      /\ \A p \in Request \ {r} : view'[p] = view[p]
  BY <1>2 DEF TelemetryTypeOK
<1>7. ASSUME NEW p \in Request \ {r}, Harmless', feeds'[p] # None, NEW i \in DOMAIN feeds'[p].subs, NEW l \in Leaf
      PROVE  Tracked(p, feeds[p], i, l)'
  <2>1. Harmless
    BY <1>7, FaultsKept DEF Harmless
  <2>2. Tracked(p, feeds[p], i, l)
    BY <1>3, <1>7, <2>1 DEF TracksInv
  <2>3. /\ feeds'[p] = feeds[p] /\ Known(p, i, l)' = Known(p, i, l)
        /\ StoredVal(p, i, l)' = StoredVal(p, i, l)
    BY <1>3, <1>5, <1>6 DEF Known, StoredVal
  <2>4. OnlyFaults({"amend", "crash"})' => OnlyFaults({"amend", "crash"})
    BY FaultsKept
  <2> QED
    BY <2>2, <2>3, <2>4 DEF Tracked
<1>8. ASSUME NEW i \in DOMAIN d.subs, NEW l \in Leaf
      PROVE  Tracked(r, feeds[r], i, l)'
  <2>1. i \in Sid
    BY <1>2 DEF IsFeed
  <2>2. Known(r, i, l)' = After(q, i, l, None)
    BY <1>5, <1>6, <2>1 DEF Known
  <2>3. After(q, i, l, None) = IF ~ d.updatesOnly /\ store'[r][i][l] # None THEN store'[r][i][l].val ELSE None
    BY <1>4, <2>1 DEF SentBy
  <2>4. Known(r, i, l)' = IF d.updatesOnly THEN None ELSE StoredVal(r, i, l)'
    BY <2>2, <2>3 DEF StoredVal
  <2> QED
    BY <1>3, <2>4 DEF Tracked
<1> QED
  BY <1>2, <1>3, <1>7, <1>8 DEF TracksInv

\* A stopped feed is remembered by the handler that may start it again.
LEMMA TracksDelete ==
  ASSUME TelemetryTypeOK, TracksInv, NEW r \in Request, DeleteRequest(r)
  PROVE  TracksInv'
<1>1. /\ feeds[r] # None /\ pend' = [kind |-> "deleted", req |-> r, cfg |-> feeds[r]]
      /\ UNCHANGED <<store, out, view, faults>>
      /\ feeds' = [feeds EXCEPT ![r] = None] /\ feeds = [p \in Request |-> feeds[p]]
  BY DEF DeleteRequest, StopFeed, TelemetryTypeOK
<1>2. pend'.req = r /\ pend'.cfg = feeds[r] /\ feeds'[r] = None /\ \A p \in Request \ {r} : feeds'[p] = feeds[p]
  BY <1>1
<1>3. /\ Harmless' = Harmless /\ OnlyFaults({"amend", "crash"})' = OnlyFaults({"amend", "crash"})
      /\ \A p, i, l : Known(p, i, l)' = Known(p, i, l) /\ StoredVal(p, i, l)' = StoredVal(p, i, l)
  BY <1>1 DEF Harmless, OnlyFaults, Known, StoredVal
<1>4. ASSUME Harmless', NEW p \in Request, feeds'[p] # None, NEW i \in DOMAIN feeds'[p].subs, NEW l \in Leaf
      PROVE  Tracked(p, feeds[p], i, l)'
  <2>1. feeds'[p] = feeds[p]
    BY <1>2, <1>4
  <2>2. Tracked(p, feeds[p], i, l)
    BY <1>3, <1>4, <2>1 DEF TracksInv
  <2> QED
    BY <1>3, <2>1, <2>2 DEF Tracked
<1>5. ASSUME Harmless', NEW i \in DOMAIN pend'.cfg.subs, NEW l \in Leaf
      PROVE  Tracked(pend.req, pend.cfg, i, l)'
  <2>1. Tracked(r, feeds[r], i, l)
    BY <1>1, <1>2, <1>3, <1>5 DEF TracksInv
  <2> QED
    BY <1>2, <1>3, <2>1 DEF Tracked
<1> QED
  BY <1>4, <1>5 DEF TracksInv

\* A feed that a revert starts again knows what it knew when it was stopped.
LEMMA TracksRevert ==
  ASSUME TelemetryTypeOK, TracksInv, Revert, [Next]_vars
  PROVE  TracksInv'
<1>1. pend # None /\ pend' = None /\ view' = view /\ Fault("abort") /\ pend.req \in Request
  BY DEF Revert, RevertHandler, TelemetryTypeOK
<1>2. CASE StopFeed(pend.req)
  <2>1. UNCHANGED <<store, out>> /\ \A r \in Request : feeds'[r] # None => feeds'[r] = feeds[r]
    BY <1>1, <1>2, StopKeeps
  <2>2. \A r \in Request, i \in Sid, l \in Leaf : Together(r, i, l)
    BY <1>1, <2>1 DEF Together, Known, StoredVal
  <2> QED
    BY <1>1, <2>1, <2>2, TracksKeep
<1>3. CASE UNCHANGED <<serverVars, out>>
  <2>1. UNCHANGED <<store, out, feeds>>
    BY <1>3 DEF serverVars
  <2>2. \A r \in Request, i \in Sid, l \in Leaf : Together(r, i, l)
    BY <1>1, <2>1 DEF Together, Known, StoredVal
  <2> QED
    BY <1>1, <2>1, <2>2, TracksKeep
<1>4. CASE pend.kind = "deleted" /\ Start(pend.req, pend.cfg)
  <2>1. PICK r, c : r = pend.req /\ c = pend.cfg
    OBVIOUS
  <2>2. r \in Request /\ IsFeed(c) /\ Start(r, c)
    BY <1>1, <1>4, <2>1 DEF TelemetryTypeOK
  <2>3. feeds'[r] = c /\ \A p \in Request \ {r} : feeds'[p] = feeds[p]
    BY <2>2, StartKeeps
  <2>4. ~ OnlyFaults({"amend", "crash"})'
    <3>1. "abort" \notin {"amend", "crash"}
      OBVIOUS
    <3> QED
      BY <1>1, <3>1, FaultOfOtherKind
  <2>5. ASSUME Harmless', NEW p \in Request, feeds'[p] # None, NEW i \in DOMAIN feeds'[p].subs, NEW l \in Leaf
        PROVE  Tracked(p, feeds[p], i, l)'
    <3>1. Harmless
      BY <2>5, FaultsKept DEF Harmless
    <3>2. PICK d : d = IF p = r THEN c ELSE feeds[p]
      OBVIOUS
    <3>3. feeds'[p] = d /\ IsFeed(d) /\ i \in DOMAIN d.subs /\ i \in Sid
      BY <2>2, <2>3, <2>5, <3>2 DEF TelemetryTypeOK, IsFeed
    <3>4. Tracked(p, d, i, l)
      BY <1>1, <1>4, <2>1, <2>3, <2>5, <3>1, <3>2, <3>3 DEF TracksInv
    <3>5. CASE d.updatesOnly
      BY <2>4, <3>3, <3>5 DEF Tracked
    <3>6. CASE ~ d.updatesOnly
      <4>1. Together(p, i, l)
        BY <1>1, <2>2, <3>2, <3>3, <3>6, PairStart
      <4>2. Tracked(p, d, i, l)'
        BY <2>4, <3>4, <4>1, TrackedKept
      <4> QED
        BY <3>3, <4>2 DEF Tracked
    <3> QED
      BY <3>5, <3>6
  <2> QED
    BY <1>1, <2>5 DEF TracksInv
<1> QED
  BY <1>2, <1>3, <1>4 DEF Revert, RevertHandler

LEMMA TracksStep == TelemetryTypeOK /\ TracksInv /\ [Next]_vars => TracksInv'
<1> SUFFICES ASSUME TelemetryTypeOK, TracksInv, [Next]_vars PROVE TracksInv'
  OBVIOUS
<1>1. ASSUME UNCHANGED <<feeds, store, out, view>>, pend' = pend \/ pend' = None \/ pend'.kind # "deleted"
      PROVE  TracksInv'
  <2>1. \A r \in Request, i \in Sid, l \in Leaf : Together(r, i, l)
    BY <1>1 DEF Together, Known, StoredVal
  <2> QED
    BY <1>1, <2>1, TracksKeep
<1>2. ASSUME NEW f, Fault(f), f \in {"start", "sample"} PROVE TracksInv'
  <2>1. f \notin {"abort", "amend", "crash"}
    BY <1>2
  <2>2. ~ OnlyFaults({"abort", "amend", "crash"})'
    BY <1>2, <2>1, FaultOfOtherKind
  <2> QED
    BY <2>2 DEF TracksInv, Harmless
<1>3. ASSUME NEW r \in Request, Transaction(r) PROVE TracksInv'
  <2>1. ASSUME NEW c \in Configs, CreateRefused(r, c) PROVE TracksInv'
    BY <1>1, <2>1 DEF CreateRefused, serverVars
  <2>2. ASSUME NEW c \in Configs, CreateRaises(r, c) PROVE TracksInv'
    BY <1>2, <2>2 DEF CreateRaises
  <2>3. CASE DeleteRefused(r)
    BY <1>1, <2>3 DEF DeleteRefused, serverVars
  <2>4. CASE AmendRequest(r)
    BY <1>1, <2>4 DEF AmendRequest, serverVars
  <2> QED
    BY <1>3, <2>1, <2>2, <2>3, <2>4, TracksCreate, TracksDelete DEF Transaction
<1>4. ASSUME NEW r \in Request, Poll(r) \/ Receive(r) \/ (\E i \in Sid : Sample(r, i))
      PROVE  TracksInv'
  <2>1. \A p \in Request, i \in Sid, l \in Leaf : Together(p, i, l)
    BY <1>4, PairPoll, PairReceive, PairSample
  <2>2. feeds' = feeds /\ pend' = pend
    BY <1>4 DEF Poll, Receive, Sample, serverVars
  <2> QED
    BY <2>1, <2>2, TracksKeep
<1>5. ASSUME NEW r \in Request, NEW i \in Sid, SampleRaises(r, i) PROVE TracksInv'
  BY <1>2, <1>5 DEF SampleRaises
<1>6. CASE Tick
  <2>1. \A p \in Request, i \in Sid, l \in Leaf : Together(p, i, l)
    BY <1>6, PairTick
  <2>2. feeds' = feeds /\ pend' = pend
    BY <1>6 DEF Tick
  <2> QED
    BY <2>1, <2>2, TracksKeep
<1>7. CASE Commit
  BY <1>1, <1>7 DEF Commit, serverVars
<1>8. CASE DataChange
  BY <1>1, <1>8 DEF DataChange, serverVars
<1>9. CASE Restart
  <2>1. \A r \in Request : feeds'[r] = None
    BY <1>9 DEF Restart, MemoryLost
  <2> QED
    BY <1>9, <2>1 DEF Restart, TracksInv
<1>10. CASE UNCHANGED vars
  BY <1>1, <1>10 DEF vars, serverVars
<1> QED
  BY <1>3, <1>4, <1>5, <1>6, <1>7, <1>8, <1>9, <1>10, TracksRevert DEF Next, LoopTask

LEMMA TracksInit == Init => TracksInv
<1> SUFFICES ASSUME Init PROVE TracksInv
  OBVIOUS
<1>1. pend = None /\ \A r \in Request : feeds[r] = None
  BY DEF Init
<1> QED
  BY <1>1 DEF TracksInv

\* Type correctness of the telemetry server: what is stored, sent and known fits
\* the requests, and a loop task sleeps for at most the period of its subscription.
THEOREM TelemetryTypeCorrect == Spec => []TelemetryTypeOK
  BY TypeInit, TypeStep, PTL DEF Spec

\* The telemetry store is what the collector knows once it has received all
\* that is on its way (telemetry.py:122-135, 264-294).
THEOREM FeedAlwaysConsistent == Spec => []FeedConsistent
<1>1. Init => TelemetryTypeOK /\ TracksInv
  BY TypeInit, TracksInit
<1>2. TelemetryTypeOK /\ TracksInv /\ [Next]_vars => TelemetryTypeOK' /\ TracksInv'
  BY TypeStep, TracksStep
<1>3. TracksInv => FeedConsistent
  BY DEF TracksInv, Tracked, Harmless, FeedConsistent
<1> QED
  BY <1>1, <1>2, <1>3, PTL DEF Spec

-----------------------------------------------------------------------------
(* Samples, silence and repeats.                                           *)

\* A sample leaves the leaves below its path as they are and no other.
LEMMA SampleExact ==
  ASSUME TelemetryTypeOK, NEW r \in Request, NEW i \in Sid, Sample(r, i), NEW l \in Leaf
  PROVE  StoredVal(r, i, l)' = IF l \in Paths[feeds[r].subs[i].path] THEN data[l] ELSE None
<1>1. PICK X, U, D : Sampled(X, U, D, r, i)
  BY SampleSampled
<1>2. store'[r][i][l] = IF l \in U THEN Fresh(l) ELSE IF l \in D THEN None ELSE store[r][i][l]
  BY <1>1 DEF Sampled, HasStored
<1>3. /\ l \in U <=> /\ l \in Paths[feeds[r].subs[i].path] /\ data[l] # None
                     /\ ShouldSend(feeds[r].subs[i], store[r][i][l], data[l], l \in X)
      /\ l \in D <=> /\ store[r][i][l] # None
                     /\ (l \notin Paths[feeds[r].subs[i].path] \/ data[l] = None)
  BY <1>1 DEF Sampled, Updated, Gone
<1>4. CASE l \in U
  <2>1. Fresh(l) # None /\ Fresh(l).val = data[l]
    BY <1>1, <1>4, NoneAssumption DEF Fresh, Sampled
  <2> QED
    BY <1>2, <1>3, <1>4, <2>1 DEF StoredVal
<1>5. CASE l \in D /\ l \notin U
  BY <1>2, <1>3, <1>5 DEF StoredVal
<1>6. CASE l \notin D /\ l \notin U
  BY <1>2, <1>3, <1>6 DEF StoredVal, ShouldSend
<1> QED
  BY <1>4, <1>5, <1>6

LEMMA SampleCompleteStep ==
  ASSUME TelemetryTypeOK, [Next]_vars, NEW r \in Request, NEW i \in Sid,
         Due(r, i), ~ Due(r, i)', feeds[r] # None, feeds'[r] # None, faults' = faults
  PROVE  Sample(r, i)
<1>1. loop[r][i] = 0 /\ loop'[r][i] # 0
  BY DEF Due
<1>2. ASSUME NEW f, Fault(f) PROVE FALSE
  <2>1. faults \in Seq(FaultNames) /\ faults' = Append(faults, f) /\ Len(faults) \in Nat
    BY <1>2 DEF TelemetryTypeOK, Fault
  <2>2. Len(faults') = Len(faults) + 1
    BY <2>1
  <2> QED
    BY <2>1, <2>2
<1>3. ASSUME NEW p \in Request, Transaction(p) PROVE FALSE
  <2>1. ASSUME NEW c \in Configs, CreateRequest(p, c) PROVE FALSE
    <3>1. PICK d : d = Parsed(c)
      OBVIOUS
    <3>2. Start(p, d) /\ IsFeed(d) /\ feeds[p] = None
      BY <2>1, <3>1, ParsedIsFeed DEF CreateRequest
    <3>3. \A q \in Request \ {p} : loop'[q] = loop[q]
      BY <3>2, StartKeeps
    <3> QED
      BY <1>1, <3>2, <3>3
  <2>2. ASSUME DeleteRequest(p) PROVE FALSE
    <3>1. feeds'[p] = None /\ \A q \in Request \ {p} : loop'[q] = loop[q]
      BY <2>2, StopKeeps DEF DeleteRequest
    <3> QED
      BY <1>1, <3>1
  <2>3. ASSUME NEW c \in Configs, CreateRefused(p, c) \/ CreateRaises(p, c) PROVE FALSE
    BY <1>1, <1>2, <2>3 DEF CreateRefused, CreateRaises, serverVars
  <2>4. ASSUME DeleteRefused(p) \/ AmendRequest(p) PROVE FALSE
    BY <1>1, <1>2, <2>4 DEF DeleteRefused, AmendRequest, serverVars
  <2> QED
    BY <1>3, <2>1, <2>2, <2>3, <2>4 DEF Transaction
<1>4. ASSUME NEW p \in Request, Poll(p) \/ Receive(p) PROVE FALSE
  BY <1>1, <1>4 DEF Poll, Receive, serverVars
<1>5. ASSUME NEW p \in Request, NEW j \in Sid, LoopTask(p, j) PROVE Sample(r, i)
  <2>1. Sample(p, j)
    BY <1>2, <1>5 DEF LoopTask, SampleRaises
  <2>2. loop' = [loop EXCEPT ![p][j] = Period(feeds[p].subs[j])] /\ loop \in [Request -> [Sid -> Int]]
    BY <2>1 DEF Sample, Rearm, TelemetryTypeOK
  <2>3. p = r /\ j = i
    BY <1>1, <2>2
  <2> QED
    BY <2>1, <2>3
<1>6. ASSUME Commit \/ DataChange \/ UNCHANGED vars PROVE FALSE
  BY <1>1, <1>6 DEF Commit, DataChange, vars, serverVars
<1>7. ASSUME Revert \/ Restart \/ Tick PROVE FALSE
  BY <1>1, <1>2, <1>7 DEF Revert, Restart, Tick, Due
<1> QED
  BY <1>3, <1>4, <1>5, <1>6, <1>7 DEF Next

\* When the loop task of a subscription has run, the store is what there is
\* below its path, and nothing else (_sample_and_notify, telemetry.py:264-294).
THEOREM SampleAlwaysComplete == Spec => SampleComplete
<1>1. TelemetryTypeOK /\ [Next]_vars =>
        \A r \in Request, i \in Sid :
          Due(r, i) /\ ~Due(r, i)' /\ feeds[r] # None /\ feeds'[r] # None /\ faults' = faults
            => \A l \in Leaf :
                 StoredVal(r, i, l)' = IF l \in Paths[feeds[r].subs[i].path]
                                       THEN data[l] ELSE None
  BY SampleCompleteStep, SampleExact
<1> QED
  BY <1>1, TelemetryTypeCorrect, PTL DEF Spec, SampleComplete

LEMMA HeardStart ==
  ASSUME TelemetryTypeOK, NEW r \in Request, NEW c, IsFeed(c), Start(r, c), NEW i \in Sid, NEW l \in Leaf
  PROVE  HeardOf(r, i, l)'
<1>1. /\ feeds'[r] = c /\ since'[r] = 0
      /\ loop'[r][i] = IF c.mode = "STREAM" /\ i \in DOMAIN c.subs THEN Period(c.subs[i]) ELSE -1
  BY StartKeeps
<1>2. CASE c.mode = "STREAM" /\ i \in DOMAIN c.subs
  <2>1. Period(c.subs[i]) \in Nat /\ c.subs[i].heartbeat \in Nat
    BY <1>2 DEF IsFeed
  <2> QED
    BY <1>1, <1>2, <2>1 DEF HeardOf
<1>3. CASE ~ (c.mode = "STREAM" /\ i \in DOMAIN c.subs)
  BY <1>1, <1>3 DEF HeardOf
<1> QED
  BY <1>2, <1>3

LEMMA HeardSample ==
  ASSUME TelemetryTypeOK, NEW r \in Request, NEW j \in Sid, Sample(r, j),
         NEW p \in Request, NEW i \in Sid, NEW l \in Leaf, HeardOf(p, i, l)
  PROVE  HeardOf(p, i, l)'
<1>1. PICK X, U, D : Sampled(X, U, D, r, j)
  BY SampleSampled
<1>2. Due(r, j) /\ Rearm(r, j) /\ feeds' = feeds /\ since' = since
  BY DEF Sample
<1>3. loop'[p][i] = IF p = r /\ i = j THEN Period(feeds[r].subs[j]) ELSE loop[p][i]
  BY <1>2, RearmKeeps
<1>4. store'[p][i][l] = IF p = r /\ i = j /\ l \in U THEN Fresh(l)
                        ELSE IF p = r /\ i = j /\ l \in D THEN None ELSE store[p][i][l]
  BY <1>1 DEF Sampled, HasStored
<1>5. CASE ~ (p = r /\ i = j)
  BY <1>2, <1>3, <1>4, <1>5 DEF HeardOf
<1>6. CASE p = r /\ i = j
  <2>1. PICK s : s = feeds[r].subs[j]
    OBVIOUS
  <2>2. Period(s) \in Nat /\ s.heartbeat \in Nat
    BY <1>2, <2>1, SampleSets DEF IsFeed
  <2>3. PICK limit : limit = Period(s) + (IF Suppresses(s) THEN s.heartbeat ELSE 0)
    OBVIOUS
  <2>4. loop'[r][j] = Period(s) /\ feeds'[r].subs[j] = s
    BY <1>2, <1>3, <1>6, <2>1
  <2>5. ASSUME store'[r][j][l] # None, Suppresses(s) => s.heartbeat > 0
        PROVE  store'[r][j][l].age + Period(s) <= limit
    <3>1. CASE l \in U
      <4>1. store'[r][j][l].age = 0
        BY <1>4, <1>6, <3>1 DEF Fresh
      <4> QED
        BY <2>2, <2>3, <4>1
    <3>2. CASE l \notin U
      <4>1. store'[r][j][l] = store[r][j][l] /\ l \notin D /\ store[r][j][l] # None
        BY <1>4, <1>6, <2>5, <3>2
      <4>2. l \in Paths[s.path] /\ data[l] # None
        BY <1>1, <2>1, <4>1 DEF Sampled, Gone
      <4>3. ~ ShouldSend(s, store[r][j][l], data[l], l \in X)
        BY <1>1, <2>1, <3>2, <4>2 DEF Sampled, Updated
      <4>4. store[r][j][l].age \in Nat
        BY <4>1 DEF TelemetryTypeOK, Entries, Entry
      <4>5. Suppresses(s) /\ store[r][j][l].age <= s.heartbeat
        BY <2>2, <2>5, <4>3, <4>4 DEF ShouldSend
      <4> QED
        BY <2>2, <2>3, <4>1, <4>4, <4>5
    <3> QED
      BY <3>1, <3>2
  <2> QED
    BY <1>6, <2>3, <2>4, <2>5 DEF HeardOf
<1> QED
  BY <1>5, <1>6

LEMMA HeardTick ==
  ASSUME TelemetryTypeOK, Tick, NEW p \in Request, NEW i \in Sid, NEW l \in Leaf, HeardOf(p, i, l)
  PROVE  HeardOf(p, i, l)'
<1> SUFFICES ASSUME loop'[p][i] # -1, store'[p][i][l] # None PROVE HeardOf(p, i, l)'
  BY DEF HeardOf
<1>1. /\ since'[p] \in {since[p], since[p] + 1} /\ feeds' = feeds
      /\ loop[p][i] # 0 /\ loop'[p][i] = IF loop[p][i] > 0 THEN loop[p][i] - 1 ELSE loop[p][i]
      /\ (store'[p][i][l] = None <=> store[p][i][l] = None)
      /\ store[p][i][l] # None => store'[p][i][l].age \in {store[p][i][l].age, store[p][i][l].age + 1}
  BY TickKeeps DEF Tick
<1>2. loop[p][i] \in Int /\ TaskFits(p, i) /\ since[p] \in Nat /\ (feeds[p] # None => IsFeed(feeds[p]))
  BY DEF TelemetryTypeOK
<1>3. PICK s : s = feeds[p].subs[i]
  OBVIOUS
<1>4. PICK limit : limit = Period(s) + (IF Suppresses(s) THEN s.heartbeat ELSE 0)
  OBVIOUS
<1>5. loop[p][i] > 0 /\ loop'[p][i] = loop[p][i] - 1 /\ Period(s) \in Nat /\ s.heartbeat \in Nat
  BY <1>1, <1>2, <1>3 DEF TaskFits, IsFeed
<1>6. store[p][i][l].age \in Nat
  BY <1>1 DEF TelemetryTypeOK, Entries, Entry
<1>7. limit \in Nat
  BY <1>4, <1>5
<1>8. (Suppresses(s) => s.heartbeat > 0) =>
        store[p][i][l].age + loop[p][i] <= limit \/ since[p] + loop[p][i] <= limit
  BY <1>1, <1>3, <1>4, <1>5 DEF HeardOf
<1>9. (Suppresses(s) => s.heartbeat > 0) =>
        store'[p][i][l].age + loop'[p][i] <= limit \/ since'[p] + loop'[p][i] <= limit
  BY <1>1, <1>2, <1>5, <1>6, <1>7, <1>8
<1> QED
  BY <1>1, <1>3, <1>4, <1>9 DEF HeardOf

\* A leaf is heard of as before where nothing about it changes, or its task is gone.
LEMMA HeardKept ==
  ASSUME NEW r, NEW i, NEW l, HeardOf(r, i, l),
         \/ loop'[r][i] = -1
         \/ feeds'[r] = feeds[r] /\ store'[r] = store[r] /\ loop'[r] = loop[r] /\ since'[r] = since[r]
  PROVE  HeardOf(r, i, l)'
  BY DEF HeardOf

LEMMA SilenceStep == TelemetryTypeOK /\ SilenceInv /\ [Next]_vars => SilenceInv'
<1> SUFFICES ASSUME TelemetryTypeOK, SilenceInv, [Next]_vars, faults' = <<>>,
                    NEW r \in Request, NEW i \in Sid, NEW l \in Leaf
             PROVE  HeardOf(r, i, l)'
  BY DEF SilenceInv
<1>1. ASSUME NEW f, Fault(f) PROVE FALSE
  <2>1. faults \in Seq(FaultNames) /\ faults' = Append(faults, f) /\ Len(faults) \in Nat
    BY <1>1 DEF TelemetryTypeOK, Fault
  <2>2. Len(faults') = Len(faults) + 1
    BY <2>1
  <2> QED
    BY <2>1, <2>2
<1>2. HeardOf(r, i, l)
  <2>1. faults = <<>>
    BY <1>1 DEF Next, Transaction, LoopTask, CreateRequest, CreateRefused, CreateRaises, DeleteRequest,
                DeleteRefused, AmendRequest, Poll, Receive, Sample, SampleRaises, Commit, Revert, Tick,
                DataChange, Restart, vars
  <2> QED
    BY <2>1 DEF SilenceInv
<1>3. ASSUME UNCHANGED serverVars PROVE HeardOf(r, i, l)'
  BY <1>2, <1>3, HeardKept DEF serverVars
<1>4. ASSUME NEW p \in Request, Transaction(p) PROVE HeardOf(r, i, l)'
  <2>1. ASSUME NEW c \in Configs, CreateRequest(p, c) PROVE HeardOf(r, i, l)'
    <3>1. PICK d : d = Parsed(c)
      OBVIOUS
    <3>2. Start(p, d) /\ IsFeed(d)
      BY <2>1, <3>1, ParsedIsFeed DEF CreateRequest
    <3>3. CASE p = r
      BY <3>2, <3>3, HeardStart
    <3>4. CASE p # r
      <4>1. feeds'[r] = feeds[r] /\ store'[r] = store[r] /\ loop'[r] = loop[r] /\ since'[r] = since[r]
        BY <3>2, <3>4, StartKeeps
      <4> QED
        BY <1>2, <4>1, HeardKept
    <3> QED
      BY <3>3, <3>4
  <2>2. CASE DeleteRequest(p)
    <3>1. /\ \A j \in Sid : loop'[p][j] = -1
          /\ \A q \in Request \ {p} : feeds'[q] = feeds[q] /\ loop'[q] = loop[q]
          /\ UNCHANGED <<store, since>>
      BY <2>2, StopKeeps DEF DeleteRequest
    <3>2. CASE p = r
      BY <1>2, <3>1, <3>2, HeardKept
    <3>3. CASE p # r
      BY <1>2, <3>1, <3>3, HeardKept
    <3> QED
      BY <3>2, <3>3
  <2>3. ASSUME NEW c \in Configs, CreateRefused(p, c) \/ CreateRaises(p, c) PROVE HeardOf(r, i, l)'
    BY <1>1, <1>3, <2>3 DEF CreateRefused, CreateRaises
  <2>4. CASE DeleteRefused(p) \/ AmendRequest(p)
    BY <1>3, <2>4 DEF DeleteRefused, AmendRequest
  <2> QED
    BY <1>4, <2>1, <2>2, <2>3, <2>4 DEF Transaction
<1>5. ASSUME NEW p \in Request, Poll(p) PROVE HeardOf(r, i, l)'
  <2>1. feeds[p].mode = "POLL" /\ \A q \in Request \ {p} : store'[q] = store[q]
    BY <1>5, PollKeeps
  <2>2. UNCHANGED <<feeds, loop, since>>
    BY <1>5 DEF Poll
  <2>3. CASE p = r
    <3>1. loop[r][i] = -1
      BY <2>1, <2>3 DEF TelemetryTypeOK, TaskFits
    <3> QED
      BY <1>2, <2>2, <3>1, HeardKept
  <2>4. CASE p # r
    BY <1>2, <2>1, <2>2, <2>4, HeardKept
  <2> QED
    BY <2>3, <2>4
<1>6. ASSUME NEW p \in Request, NEW j \in Sid, LoopTask(p, j) PROVE HeardOf(r, i, l)'
  BY <1>1, <1>2, <1>6, HeardSample DEF LoopTask, SampleRaises
<1>7. CASE Tick
  BY <1>2, <1>7, HeardTick
<1>8. ASSUME NEW p \in Request, Receive(p) PROVE HeardOf(r, i, l)'
  BY <1>3, <1>8 DEF Receive
<1>9. CASE Commit \/ DataChange \/ UNCHANGED vars
  BY <1>3, <1>9 DEF Commit, DataChange, vars
<1>10. CASE Revert \/ Restart
  BY <1>1, <1>10 DEF Revert, Restart
<1> QED
  BY <1>4, <1>5, <1>6, <1>7, <1>8, <1>9, <1>10 DEF Next

\* A leaf that must not be silent is heard of in time, as long as nothing fails
\* (_should_send_notif, telemetry.py:245-262).
THEOREM SilenceAlwaysBounded == Spec => []SilenceBounded
<1>1. Init => TelemetryTypeOK /\ SilenceInv
  <2>1. Init => \A r \in Request, i \in Sid, l \in Leaf : HeardOf(r, i, l)
    BY DEF Init, HeardOf
  <2> QED
    BY <2>1, TypeInit DEF SilenceInv
<1>2. TelemetryTypeOK /\ SilenceInv /\ [Next]_vars => TelemetryTypeOK' /\ SilenceInv'
  BY TypeStep, SilenceStep
<1>3. TelemetryTypeOK /\ SilenceInv => SilenceBounded
  <2> SUFFICES ASSUME TelemetryTypeOK, faults = <<>>, NEW r \in Request, NEW i \in Sid, NEW l \in Leaf,
                      HeardOf(r, i, l), loop[r][i] # -1, store[r][i][l] # None,
                      NEW s, s = feeds[r].subs[i], Suppresses(s) => s.heartbeat > 0,
                      NEW limit, limit = Period(s) + (IF Suppresses(s) THEN s.heartbeat ELSE 0)
               PROVE  store[r][i][l].age <= limit \/ since[r] <= limit
    BY DEF SilenceInv, SilenceBounded
  <2>1. store[r][i][l].age + loop[r][i] <= limit \/ since[r] + loop[r][i] <= limit
    BY DEF HeardOf
  <2>2. /\ loop[r][i] \in Nat /\ since[r] \in Nat /\ store[r][i][l].age \in Nat
        /\ Period(s) \in Nat /\ s.heartbeat \in Nat
    <3>1. TaskFits(r, i) /\ since[r] \in Nat /\ (feeds[r] # None => IsFeed(feeds[r])) /\ store[r][i][l] \in Entry
      BY DEF TelemetryTypeOK, Entries
    <3> QED
      BY <3>1 DEF TaskFits, IsFeed, Entry
  <2> QED
    BY <2>1, <2>2
<1> QED
  BY <1>1, <1>2, <1>3, PTL DEF Spec

\* The n-th notification on its way to r, if redundant ones are suppressed, is news.
NewsAt(r, n) ==
  LET m == out[r][n]
  IN /\ m.type \in {"UPDATE", "DELETE"}
     /\ feeds[r].updatesOnly => m.type = "UPDATE" /\ OnlyFaults({"amend", "crash"})
     /\ m.sid \in DOMAIN feeds[r].subs
     /\ Suppresses(feeds[r].subs[m.sid])
     /\ feeds[r].subs[m.sid].heartbeat = 0
     /\ \A k \in n..Len(out[r]) : out[r][k].type # "SYNC_RESPONSE"
     => After(SubSeq(out[r], 1, n - 1), m.sid, m.leaf, view[r][m.sid][m.leaf]) # m.val

\* All that is on its way to r is news.
OnlyNews(r) == feeds[r] # None /\ feeds[r].mode = "STREAM" => \A n \in DOMAIN out[r] : NewsAt(r, n)

LEMMA NewsKept ==
  ASSUME TelemetryTypeOK, [Next]_vars, NEW r, OnlyNews(r),
         feeds'[r] = None \/ (feeds'[r] = feeds[r] /\ out'[r] = out[r] /\ view'[r] = view[r])
  PROVE  OnlyNews(r)'
<1>1. OnlyFaults({"amend", "crash"})' => OnlyFaults({"amend", "crash"})
  BY FaultsKept
<1>2. CASE feeds'[r] = None
  BY <1>2 DEF OnlyNews
<1>3. CASE feeds'[r] = feeds[r] /\ out'[r] = out[r] /\ view'[r] = view[r]
  BY <1>1, <1>3 DEF OnlyNews, NewsAt
<1> QED
  BY <1>2, <1>3

\* What a start sends is followed by its SYNC_RESPONSE.
LEMMA NewsStart ==
  ASSUME TelemetryTypeOK, NEW r \in Request, NEW c, IsFeed(c), Start(r, c)
  PROVE  OnlyNews(r)'
<1>1. PICK q : SentBy(q, r, c)
  BY StartTells
<1>2. out[r] \in Seq(Notification) /\ q \in Seq(Notification) /\ out'[r] = out[r] \o q
      /\ Len(q) \in Nat \ {0} /\ q[Len(q)] = Sync /\ Len(out[r]) \in Nat
  BY <1>1 DEF TelemetryTypeOK, SentBy
<1>3. /\ Len(out'[r]) = Len(out[r]) + Len(q) /\ out'[r][Len(out[r]) + Len(q)] = q[Len(q)]
      /\ DOMAIN out'[r] = 1..Len(out'[r])
  BY <1>2, ConcatProperties
<1>4. Len(out'[r]) \in Nat /\ out'[r][Len(out'[r])].type = "SYNC_RESPONSE"
  BY <1>2, <1>3 DEF Sync
<1>5. ASSUME NEW n \in DOMAIN out'[r] PROVE Len(out'[r]) \in n..Len(out'[r])
  BY <1>3, <1>4
<1> QED
  BY <1>4, <1>5 DEF OnlyNews, NewsAt

\* The notification that is received next comes before all others.
LEMMA NewsReceive ==
  ASSUME TelemetryTypeOK, NEW r \in Request, Receive(r), OnlyNews(r)
  PROVE  OnlyNews(r)'
<1>1. UNCHANGED <<feeds, faults>>
  BY DEF Receive, serverVars
<1>2. PICK o, t : o = out[r] /\ t = Tail(o)
  OBVIOUS
<1>3. /\ o \in Seq(Notification) /\ o # <<>> /\ t \in Seq(Notification) /\ out'[r] = t
      /\ \A i \in Sid, l \in Leaf :
           view'[r][i][l] = IF About(Head(o), i, l) THEN Head(o).val ELSE view[r][i][l]
  BY <1>2, ReceiveKeeps, HeadTailProperties DEF TelemetryTypeOK
<1>4. /\ Len(o) \in Nat /\ Len(t) = Len(o) - 1 /\ \A n \in 1..Len(t) : t[n] = o[n + 1]
      /\ DOMAIN t = 1..Len(t) /\ DOMAIN o = 1..Len(o)
  BY <1>2, <1>3, HeadTailProperties, LenProperties
<1>5. ASSUME NEW n \in DOMAIN t PROVE n + 1 \in DOMAIN o /\ t[n] = o[n + 1] /\ n \in Nat /\ n >= 1
  BY <1>4
<1>6. ASSUME NEW n \in DOMAIN t, NEW i \in Sid, NEW l \in Leaf
      PROVE  After(SubSeq(t, 1, n - 1), i, l, view'[r][i][l]) = After(SubSeq(o, 1, n), i, l, view[r][i][l])
  <2>1. n \in 1..Len(o) /\ 1 \in 1..Len(o)
    BY <1>4
  <2>2. PICK p : p = SubSeq(o, 1, n)
    OBVIOUS
  <2>3. p \in Seq(Notification) /\ p # <<>> /\ Head(p) = Head(o) /\ Tail(p) = SubSeq(t, 1, n - 1)
    <3>1. \A k \in 1..n : o[k] \in Notification
      BY <1>3, <2>1
    <3>2. p \in Seq(Notification) /\ Len(p) = n /\ \A k \in 1..n : p[k] = o[k]
      BY <2>1, <2>2, <3>1, SubSeqProperties
    <3>3. p # <<>>
      BY <2>1, <3>2
    <3>4. Head(p) = Head(o)
      BY <1>3, <2>1, <3>2, <3>3, HeadTailProperties
    <3>5. \A k \in 1..n - 1 : t[k] \in Notification
      BY <1>3, <1>4, <2>1
    <3>6. /\ SubSeq(t, 1, n - 1) \in Seq(Notification) /\ Len(SubSeq(t, 1, n - 1)) = n - 1
          /\ \A k \in 1..n - 1 : SubSeq(t, 1, n - 1)[k] = t[k]
      BY <2>1, <3>5, SubSeqProperties
    <3>7. Tail(p) \in Seq(Notification) /\ Len(Tail(p)) = n - 1 /\ \A k \in 1..n - 1 : Tail(p)[k] = p[k + 1]
      BY <2>1, <3>2, <3>3, HeadTailProperties
    <3>8. \A k \in 1..n - 1 : Tail(p)[k] = SubSeq(t, 1, n - 1)[k]
      BY <1>4, <2>1, <3>2, <3>6, <3>7
    <3> QED
      BY <2>1, <3>2, <3>3, <3>4, <3>6, <3>7, <3>8, SeqEqual
  <2>4. PICK v : v = view[r][i][l]
    OBVIOUS
  <2>5. After(p, i, l, v) = After(Tail(p), i, l, IF About(Head(p), i, l) THEN Head(p).val ELSE v)
    BY <2>3, AfterTail
  <2>6. view'[r][i][l] = IF About(Head(p), i, l) THEN Head(p).val ELSE v
    BY <1>3, <2>3, <2>4
  <2> QED
    BY <2>2, <2>3, <2>4, <2>5, <2>6
<1>7. SUFFICES ASSUME feeds[r] # None, feeds[r].mode = "STREAM", NEW n \in DOMAIN t,
                      t[n].type \in {"UPDATE", "DELETE"},
                      feeds[r].updatesOnly => t[n].type = "UPDATE" /\ OnlyFaults({"amend", "crash"}),
                      t[n].sid \in DOMAIN feeds[r].subs, Suppresses(feeds[r].subs[t[n].sid]),
                      feeds[r].subs[t[n].sid].heartbeat = 0,
                      \A k \in n..Len(t) : t[k].type # "SYNC_RESPONSE"
               PROVE  After(SubSeq(t, 1, n - 1), t[n].sid, t[n].leaf, view'[r][t[n].sid][t[n].leaf]) # t[n].val
  BY <1>1, <1>3 DEF OnlyNews, NewsAt, OnlyFaults
<1>8. t[n] = o[n + 1] /\ n + 1 \in DOMAIN o /\ n \in Nat
  BY <1>5
<1>9. t[n].sid \in Sid /\ t[n].leaf \in Leaf
  <2>1. t[n] \in Notification
    BY <1>3, <1>7
  <2> QED
    BY <1>7, <2>1 DEF Notification, Sync
<1>10. \A k \in n + 1..Len(o) : o[k].type # "SYNC_RESPONSE"
  <2>1. ASSUME NEW k \in n + 1..Len(o) PROVE k - 1 \in n..Len(t) /\ t[k - 1] = o[k]
    BY <1>4, <1>7
  <2> QED
    BY <1>7, <2>1
<1>11. NewsAt(r, n + 1)
  BY <1>2, <1>7, <1>8 DEF OnlyNews
<1>12. (n + 1) - 1 = n
  BY <1>8
<1>13. After(SubSeq(o, 1, n), t[n].sid, t[n].leaf, view[r][t[n].sid][t[n].leaf]) # t[n].val
  BY <1>2, <1>7, <1>8, <1>10, <1>11, <1>12 DEF NewsAt
<1> QED
  BY <1>6, <1>9, <1>13

\* Prefixes of a concatenation.
LEMMA PrefixBefore ==
  ASSUME NEW N, NEW o \in Seq(N), NEW q \in Seq(N), NEW n \in 1..Len(o)
  PROVE  SubSeq(o \o q, 1, n - 1) = SubSeq(o, 1, n - 1)
<1>1. PICK b : b = o \o q
  OBVIOUS
<1>2. Len(o) \in Nat /\ \A k \in 1..Len(o) : b[k] = o[k] /\ o[k] \in N
  BY <1>1, ConcatProperties, LenProperties, ElementOfSeq
<1>3. PICK x, y : x = SubSeq(b, 1, n - 1) /\ y = SubSeq(o, 1, n - 1)
  OBVIOUS
<1>4. \A k \in 1..n - 1 : b[k] = o[k] /\ o[k] \in N /\ b[k] \in N
  BY <1>2
<1>5. n - 1 \in Int /\ 1 \in Int /\ (n - 1) - 1 + 1 = n - 1 /\ n - 1 >= 0
  BY <1>2
<1>6. x \in Seq(N) /\ Len(x) = n - 1 /\ \A k \in 1..n - 1 : x[k] = b[k]
  BY <1>3, <1>4, <1>5, SubSeqProperties
<1>7. y \in Seq(N) /\ Len(y) = n - 1 /\ \A k \in 1..n - 1 : y[k] = o[k]
  BY <1>3, <1>4, <1>5, SubSeqProperties
<1>8. x = y
  BY <1>4, <1>6, <1>7, SeqEqual
<1> QED
  BY <1>1, <1>3, <1>8

LEMMA PrefixAfter ==
  ASSUME NEW N, NEW o \in Seq(N), NEW q \in Seq(N), NEW k \in 1..Len(q), NEW m \in Nat, m = Len(o) + k - 1
  PROVE  SubSeq(o \o q, 1, m) = o \o SubSeq(q, 1, k - 1)
<1>1. PICK b : b = o \o q
  OBVIOUS
<1>2. /\ Len(o) \in Nat /\ Len(q) \in Nat
      /\ \A n \in 1..Len(o) : b[n] = o[n] /\ o[n] \in N
      /\ \A n \in 1..Len(q) : b[Len(o) + n] = q[n] /\ q[n] \in N
  BY <1>1, ConcatProperties, LenProperties, ElementOfSeq
<1>3. PICK x, h : x = SubSeq(b, 1, m) /\ h = SubSeq(q, 1, k - 1)
  OBVIOUS
<1>4. k - 1 \in Nat /\ m = Len(o) + (k - 1)
  BY <1>2
<1>5. h \in Seq(N) /\ Len(h) = k - 1 /\ \A n \in 1..k - 1 : h[n] = q[n]
  <2>1. \A n \in 1..k - 1 : q[n] \in N
    BY <1>2
  <2> QED
    BY <1>2, <1>3, <2>1, SubSeqProperties
<1>6. /\ o \o h \in Seq(N) /\ Len(o \o h) = m
      /\ \A n \in 1..Len(o) : (o \o h)[n] = o[n]
      /\ \A n \in 1..k - 1 : (o \o h)[Len(o) + n] = h[n]
  <2>1. h \in Seq(N)
    BY <1>5
  <2>2. /\ o \o h \in Seq(N) /\ Len(o \o h) = Len(o) + Len(h)
        /\ \A n \in 1..Len(o) : (o \o h)[n] = o[n]
        /\ \A n \in 1..Len(h) : (o \o h)[Len(o) + n] = h[n]
    BY <2>1, ConcatProperties
  <2> QED
    BY <1>4, <1>5, <2>2
<1>7. ASSUME NEW n \in 1..m PROVE b[n] = (o \o h)[n] /\ b[n] \in N
  <2>1. CASE n \in 1..Len(o)
    BY <1>2, <1>6, <2>1
  <2>2. CASE n \notin 1..Len(o)
    <3>1. PICK j \in 1..k - 1 : n = Len(o) + j
      <4>1. n - Len(o) \in 1..k - 1 /\ n = Len(o) + (n - Len(o))
        BY <1>2, <1>4, <2>2
      <4> QED
        BY <4>1
    <3>2. j \in 1..Len(q)
      BY <1>2
    <3> QED
      BY <1>2, <1>5, <1>6, <3>1, <3>2
  <2> QED
    BY <2>1, <2>2
<1>8. x \in Seq(N) /\ Len(x) = m /\ \A n \in 1..m : x[n] = b[n]
  BY <1>3, <1>4, <1>7, SubSeqProperties
<1> QED
  <2>1. PICK y : y = o \o h
    OBVIOUS
  <2>2. x \in Seq(N) /\ y \in Seq(N) /\ Len(x) = Len(y)
    BY <1>6, <1>8, <2>1
  <2>3. \A n \in 1..Len(x) : x[n] = y[n]
    BY <1>7, <1>8, <2>1
  <2>4. x = y
    BY <2>2, <2>3, SeqEqual
  <2> QED
    BY <1>1, <1>3, <2>1, <2>4

\* A sample only reports what it has to.
LEMMA NewsSample ==
  ASSUME TelemetryTypeOK, TracksInv, Harmless, NEW r \in Request, NEW j \in Sid, Sample(r, j), OnlyNews(r)
  PROVE  OnlyNews(r)'
<1>1. PICK X, U, D : Sampled(X, U, D, r, j)
  BY SampleSampled
<1>2. PICK s : s = feeds[r].subs[j]
  OBVIOUS
<1>3. /\ feeds[r] # None /\ IsFeed(feeds[r]) /\ feeds[r].mode = "STREAM" /\ j \in DOMAIN feeds[r].subs
      /\ UNCHANGED <<feeds, view, faults>>
  BY SampleSets DEF Sample
<1>4. PICK o, q : o = out[r] /\ q = Reports(j, U, D)
  OBVIOUS
<1>5. /\ q \in Seq(Notification) /\ Tells(q, {j} \X (U \cup D))
      /\ \A n \in DOMAIN q :
           /\ q[n].sid = j
           /\ \/ q[n].type = "UPDATE" /\ q[n].leaf \in U /\ q[n].val = data[q[n].leaf]
              \/ q[n].type = "DELETE" /\ q[n].leaf \in D /\ q[n].val = None
  <2>1. U \in SUBSET Leaf /\ D \in SUBSET Leaf /\ U \cap D = {} /\ \A l \in U : data[l] \in Value
    BY <1>1 DEF Sampled
  <2> QED
    <3>1. Tells(Reports(j, U, D), {j} \X (U \cup D)) /\ Reporting(Reports(j, U, D), j, U, D)
      BY <2>1, ReportsTell
    <3>2. Reports(j, U, D) \in Seq(Notification)
      BY <2>1, ReportsTell
    <3> QED
      BY <1>4, <3>1, <3>2 DEF Reporting
<1>6. o \in Seq(Notification) /\ out'[r] = o \o q
  <2>1. out \in [Request -> Seq(Notification)]
    BY DEF TelemetryTypeOK
  <2> QED
    BY <1>1, <1>4, <2>1 DEF Sampled
<1>7. /\ Len(o) \in Nat /\ Len(q) \in Nat /\ Len(o \o q) = Len(o) + Len(q) /\ DOMAIN o = 1..Len(o)
      /\ DOMAIN q = 1..Len(q) /\ DOMAIN (o \o q) = 1..Len(o) + Len(q)
      /\ \A n \in 1..Len(o) : (o \o q)[n] = o[n]
      /\ \A n \in 1..Len(q) : (o \o q)[Len(o) + n] = q[n]
      /\ o \o q \in Seq(Notification)
  BY <1>5, <1>6, ConcatProperties, LenProperties
<1>8. PICK b : b = o \o q
  OBVIOUS
<1>9. SUFFICES ASSUME NEW n \in DOMAIN b,
                      b[n].type \in {"UPDATE", "DELETE"},
                      feeds[r].updatesOnly => b[n].type = "UPDATE" /\ OnlyFaults({"amend", "crash"}),
                      b[n].sid \in DOMAIN feeds[r].subs, Suppresses(feeds[r].subs[b[n].sid]),
                      feeds[r].subs[b[n].sid].heartbeat = 0,
                      \A k \in n..Len(b) : b[k].type # "SYNC_RESPONSE"
               PROVE  After(SubSeq(b, 1, n - 1), b[n].sid, b[n].leaf, view[r][b[n].sid][b[n].leaf]) # b[n].val
  BY <1>3, <1>6, <1>8 DEF OnlyNews, NewsAt, OnlyFaults
<1>10. CASE n \in DOMAIN o
  <2>1. NewsAt(r, n) /\ b[n] = o[n]
    BY <1>3, <1>4, <1>7, <1>8, <1>10 DEF OnlyNews
  <2>2. SubSeq(b, 1, n - 1) = SubSeq(o, 1, n - 1)
    BY <1>5, <1>6, <1>7, <1>8, <1>10, PrefixBefore
  <2>3. \A k \in n..Len(o) : o[k].type # "SYNC_RESPONSE"
    BY <1>7, <1>8, <1>9, <1>10
  <2> QED
    BY <1>4, <1>9, <2>1, <2>2, <2>3 DEF NewsAt
<1>11. CASE n \notin DOMAIN o
  <2>1. PICK k \in DOMAIN q : n = Len(o) + k /\ b[n] = q[k]
    <3>1. n - Len(o) \in 1..Len(q) /\ n = Len(o) + (n - Len(o))
      BY <1>7, <1>8, <1>11
    <3> QED
      BY <1>7, <1>8, <3>1
  <2>2. PICK l : l = q[k].leaf
    OBVIOUS
  <2>3. q[k].sid = j /\ l \in Leaf
    BY <1>1, <1>5, <2>2 DEF Sampled
  <2>4. PICK h : h = SubSeq(q, 1, k - 1)
    OBVIOUS
  <2>5. /\ h \in Seq(Notification) /\ Len(h) = k - 1
        /\ \A m \in 1..k - 1 : h[m] = q[m] /\ m \in DOMAIN q
    <3>1. \A m \in 1..k - 1 : q[m] \in Notification /\ m \in DOMAIN q
      BY <1>5, <1>7
    <3> QED
      BY <1>7, <2>4, <3>1, SubSeqProperties
  <2>6. SubSeq(b, 1, n - 1) = o \o h
    <3>1. k \in 1..Len(q) /\ n - 1 = Len(o) + k - 1 /\ n - 1 \in Nat
      BY <1>7, <2>1
    <3>2. SubSeq(o \o q, 1, n - 1) = o \o SubSeq(q, 1, k - 1)
      BY <1>5, <1>6, <3>1, PrefixAfter
    <3> QED
      BY <1>8, <2>4, <3>1, <3>2
  <2>7. \A m \in DOMAIN h : ~ About(h[m], j, l)
    <3>1. DOMAIN h = 1..k - 1
      BY <2>5
    <3>2. ASSUME NEW m \in 1..k - 1 PROVE ~ About(h[m], j, l)
      <4>1. h[m] = q[m] /\ m \in DOMAIN q /\ m # k
        BY <1>7, <2>5
      <4>2. ~ (q[m].sid = q[k].sid /\ q[m].leaf = q[k].leaf)
        BY <1>5, <4>1 DEF Tells
      <4> QED
        BY <2>2, <2>3, <4>1, <4>2 DEF About
    <3> QED
      BY <3>1, <3>2
  <2>8. After(SubSeq(b, 1, n - 1), j, l, view[r][j][l]) = Known(r, j, l)
    <3>1. After(o \o h, j, l, view[r][j][l]) = After(h, j, l, Known(r, j, l))
      BY <1>4, <1>6, <2>5, AfterConcat DEF Known
    <3>2. After(h, j, l, Known(r, j, l)) = Known(r, j, l)
      BY <2>7, AfterNone
    <3> QED
      BY <2>6, <3>1, <3>2
  <2>9. Tracked(r, feeds[r], j, l)
    BY <1>3, <2>3 DEF TracksInv
  <2>10. Suppresses(s) /\ s.heartbeat = 0
    BY <1>2, <1>9, <2>1, <2>3
  <2>11. StoredVal(r, j, l) # q[k].val
    <3>1. store[r][j][l] # None => store[r][j][l].val \in Value
      BY <2>3 DEF TelemetryTypeOK, Entries, Entry
    <3>2. CASE q[k].type = "UPDATE" /\ l \in U /\ q[k].val = data[l]
      <4>1. ShouldSend(s, store[r][j][l], data[l], l \in X) /\ data[l] \in Value
        BY <1>1, <1>2, <3>2 DEF Sampled, Updated
      <4>2. store[r][j][l] = None \/ store[r][j][l].val # data[l]
        BY <2>10, <4>1 DEF ShouldSend
      <4> QED
        BY <3>1, <3>2, <4>1, <4>2, TelemetryAssumption DEF StoredVal
    <3>3. CASE l \in D /\ q[k].val = None
      <4>1. store[r][j][l] # None
        BY <1>1, <3>3 DEF Sampled, Gone
      <4> QED
        BY <3>1, <3>3, <4>1, TelemetryAssumption DEF StoredVal
    <3> QED
      BY <1>5, <2>2, <3>2, <3>3
  <2>12. Known(r, j, l) # q[k].val
    <3>1. CASE ~ feeds[r].updatesOnly
      BY <2>9, <2>11, <3>1 DEF Tracked
    <3>2. CASE feeds[r].updatesOnly
      <4>1. q[k].type = "UPDATE" /\ OnlyFaults({"amend", "crash"})
        BY <1>9, <2>1, <3>2
      <4>2. q[k].val \in Value /\ None \notin Value
        BY <1>1, <1>5, <4>1, TelemetryAssumption DEF Sampled
      <4> QED
        BY <2>9, <2>11, <3>2, <4>1, <4>2 DEF Tracked
    <3> QED
      BY <3>1, <3>2
  <2> QED
    BY <2>1, <2>2, <2>3, <2>8, <2>12
<1> QED
  BY <1>10, <1>11

NewsInv == Harmless => \A r \in Request : OnlyNews(r)

LEMMA NewsStep == TelemetryTypeOK /\ TracksInv /\ NewsInv /\ [Next]_vars => NewsInv'
<1> SUFFICES ASSUME TelemetryTypeOK, TracksInv, NewsInv, [Next]_vars, Harmless', NEW r \in Request
             PROVE  OnlyNews(r)'
  BY DEF NewsInv
<1>1. Harmless /\ OnlyNews(r)
  BY FaultsKept DEF Harmless, NewsInv
<1>2. ASSUME NEW f, Fault(f), f \in {"start", "sample"} PROVE FALSE
  <2>1. f \notin {"abort", "amend", "crash"}
    BY <1>2
  <2>2. ~ OnlyFaults({"abort", "amend", "crash"})'
    BY <1>2, <2>1, FaultOfOtherKind
  <2> QED
    BY <2>2 DEF Harmless
<1>3. ASSUME feeds'[r] = None \/ (feeds'[r] = feeds[r] /\ out'[r] = out[r] /\ view'[r] = view[r])
      PROVE  OnlyNews(r)'
  BY <1>1, <1>3, NewsKept
<1>4. ASSUME NEW p \in Request, NEW c, IsFeed(c), Start(p, c), view' = view \/ view'[r] = view[r] \/ p = r
      PROVE  OnlyNews(r)'
  <2>1. CASE p = r
    BY <1>4, <2>1, NewsStart
  <2>2. CASE p # r
    <3>1. PICK q : SentBy(q, p, c)
      BY <1>4, StartTells
    <3>2. out'[r] = out[r] /\ feeds'[r] = feeds[r]
      BY <1>4, <2>2, <3>1, StartKeeps DEF SentBy
    <3> QED
      BY <1>3, <1>4, <2>2, <3>2
  <2> QED
    BY <2>1, <2>2
<1>5. ASSUME NEW p \in Request, StopFeed(p), view' = view PROVE OnlyNews(r)'
  <2>1. /\ feeds'[p] = None /\ \A q \in Request \ {p} : feeds'[q] = feeds[q]
        /\ UNCHANGED out
    BY <1>5, StopKeeps
  <2> QED
    BY <1>3, <1>5, <2>1
<1>6. ASSUME NEW p \in Request, Transaction(p) PROVE OnlyNews(r)'
  <2>1. ASSUME NEW c \in Configs, CreateRequest(p, c) PROVE OnlyNews(r)'
    <3>1. PICK d : d = Parsed(c)
      OBVIOUS
    <3>2. /\ Start(p, d) /\ IsFeed(d)
          /\ view' = [view EXCEPT ![p] = [i \in Sid |-> [l \in Leaf |-> None]]]
      BY <2>1, <3>1, ParsedIsFeed DEF CreateRequest
    <3>3. p = r \/ view'[r] = view[r]
      BY <3>2 DEF TelemetryTypeOK
    <3> QED
      BY <1>4, <3>2, <3>3
  <2>2. ASSUME NEW c \in Configs, CreateRefused(p, c) \/ CreateRaises(p, c) PROVE OnlyNews(r)'
    BY <1>2, <1>3, <2>2 DEF CreateRefused, CreateRaises, serverVars
  <2>3. CASE DeleteRequest(p)
    BY <1>5, <2>3 DEF DeleteRequest
  <2>4. CASE DeleteRefused(p) \/ AmendRequest(p)
    BY <1>3, <2>4 DEF DeleteRefused, AmendRequest, serverVars
  <2> QED
    BY <1>6, <2>1, <2>2, <2>3, <2>4 DEF Transaction
<1>7. ASSUME NEW p \in Request, Poll(p) PROVE OnlyNews(r)'
  <2>1. feeds[p].mode = "POLL" /\ \A q \in Request \ {p} : out'[q] = out[q]
    BY <1>7, PollKeeps
  <2>2. UNCHANGED <<feeds, view>>
    BY <1>7 DEF Poll
  <2>3. CASE p = r
    BY <2>1, <2>2, <2>3 DEF OnlyNews
  <2>4. CASE p # r
    BY <1>3, <2>1, <2>2, <2>4
  <2> QED
    BY <2>3, <2>4
<1>8. ASSUME NEW p \in Request, Receive(p) PROVE OnlyNews(r)'
  <2>1. CASE p = r
    BY <1>1, <1>8, <2>1, NewsReceive
  <2>2. CASE p # r
    <3>1. feeds' = feeds /\ out' = [out EXCEPT ![p] = Tail(@)]
          /\ view' = LET n == Head(out[p])
                     IN IF n.type = "SYNC_RESPONSE" THEN view
                        ELSE [view EXCEPT ![p][n.sid][n.leaf] = n.val]
      BY <1>8 DEF Receive, serverVars
    <3>2. feeds'[r] = feeds[r] /\ out'[r] = out[r] /\ view'[r] = view[r]
      BY <2>2, <3>1 DEF TelemetryTypeOK
    <3> QED
      BY <1>3, <3>2
  <2> QED
    BY <2>1, <2>2
<1>9. ASSUME NEW p \in Request, NEW j \in Sid, LoopTask(p, j) PROVE OnlyNews(r)'
  <2>1. Sample(p, j)
    BY <1>2, <1>9 DEF LoopTask, SampleRaises
  <2>2. CASE p = r
    BY <1>1, <2>1, <2>2, NewsSample
  <2>3. CASE p # r
    <3>1. PICK q : out' = [out EXCEPT ![p] = q] /\ UNCHANGED <<feeds, view>>
      BY <2>1 DEF Sample
    <3>2. feeds'[r] = feeds[r] /\ out'[r] = out[r] /\ view'[r] = view[r]
      BY <2>3, <3>1 DEF TelemetryTypeOK
    <3> QED
      BY <1>3, <3>2
  <2> QED
    BY <2>2, <2>3
<1>10. CASE Commit \/ DataChange \/ Tick \/ UNCHANGED vars
  BY <1>3, <1>10 DEF Commit, DataChange, Tick, vars, serverVars
<1>11. CASE Revert
  <2>1. PICK p, c : p = pend.req /\ c = pend.cfg
    OBVIOUS
  <2>2. p \in Request /\ view' = view /\ (pend.kind = "deleted" => IsFeed(c))
    BY <1>11, <2>1 DEF Revert, RevertHandler, TelemetryTypeOK
  <2>3. StopFeed(p) \/ (pend.kind = "deleted" /\ Start(p, c)) \/ UNCHANGED <<serverVars, out>>
    BY <1>11, <2>1 DEF Revert, RevertHandler
  <2>4. CASE UNCHANGED <<serverVars, out>>
    BY <1>3, <2>2, <2>4 DEF serverVars
  <2> QED
    BY <1>4, <1>5, <2>2, <2>3, <2>4
<1>12. CASE Restart
  <2>1. feeds'[r] = None
    BY <1>12 DEF Restart, MemoryLost
  <2> QED
    BY <1>3, <2>1
<1> QED
  BY <1>6, <1>7, <1>8, <1>9, <1>10, <1>11, <1>12 DEF Next

\* A collector that suppresses redundant values and has no heartbeat is not told
\* twice in a row the same about a leaf (telemetry.py:122-135, 245-262).
THEOREM NeverRepeats == Spec => []NoRepeats
<1>1. Init => TelemetryTypeOK /\ TracksInv /\ NewsInv
  <2>1. Init => \A r \in Request : OnlyNews(r)
    BY DEF Init, OnlyNews
  <2> QED
    BY <2>1, TypeInit, TracksInit DEF NewsInv
<1>2. TelemetryTypeOK /\ TracksInv /\ NewsInv /\ [Next]_vars => TelemetryTypeOK' /\ TracksInv' /\ NewsInv'
  BY TypeStep, TracksStep, NewsStep
<1>3. NewsInv => NoRepeats
  BY DEF NewsInv, OnlyNews, NewsAt, Harmless, NoRepeats
<1> QED
  BY <1>1, <1>2, <1>3, PTL DEF Spec

-----------------------------------------------------------------------------
(* The Subscribe service                                                   *)

\* A call in these states is being answered.
Served == {"applying", "initial", "synced", "stream", "polling"}

\* All that is on its way to the client of r.
Queue(r) == notifs[r] \o out[r]

GnmiTypeOK ==
  /\ TelemetryTypeOK
  /\ call \in [Request -> CallStates]
  /\ ask = [r \in Request |-> ask[r]]
  /\ \A r \in Request : call[r] # "none" => ask[r] \in Asks[r]
  /\ notifs \in [Request -> Seq(Notification)]

HasNothing(r) == conf[r] = None /\ feeds[r] = None

\* Before its transaction a call has nothing; its feed is the one it asked for.
CallOK(r) ==
  /\ call[r] \in {"none", "exec"} => HasNothing(r) /\ out[r] = <<>> /\ notifs[r] = <<>>
  /\ feeds[r] # None => feeds[r] = Parsed(ConfigOf(ask[r]))

\* A handler the engine stores belongs to a call that applies or is ending.
PendFits ==
  /\ pend # None => call[pend.req] \in {"applying", "clear", "clearing", "ended"}
  /\ pend # None /\ pend.kind = "deleted" => pend.cfg = Parsed(ConfigOf(ask[pend.req]))
  /\ pend # None /\ faults = <<>> =>
       \/ pend.kind = "created" /\ call[pend.req] = "applying" /\ pend.cfg # None
       \/ pend.kind = "deleted" /\ call[pend.req] = "clearing" /\ feeds[pend.req] = None

\* If nothing fails, a call has a configured request exactly if it has a feed, but for
\* the one that the transaction in progress adds or removes.
PairOK(r) ==
  faults = <<>> =>
    /\ call[r] \in {"none", "exec", "ended"} => HasNothing(r)
    /\ call[r] = "applying" => pend # None /\ pend.req = r /\ conf[r] = None /\ feeds[r] # None
    /\ call[r] = "clearing" => pend # None /\ pend.req = r
    /\ call[r] \in {"initial", "synced", "stream", "polling", "clear"} => (conf[r] = None <=> feeds[r] = None)

\* The SYNC_RESPONSE is the last notification of q, and the only one of its kind.
OneSync(q) == q # <<>> /\ \A n \in DOMAIN q : q[n].type = "SYNC_RESPONSE" <=> n = Len(q)

\* A call of mode ONCE or POLL has one SYNC_RESPONSE on its way, behind everything
\* else, until its client is sent it, and nothing on its way afterwards.
SyncOK(r) ==
  feeds[r] # None /\ feeds[r].mode # "STREAM" =>
    /\ call[r] \in {"applying", "initial"} => OneSync(Queue(r))
    /\ call[r] \in {"synced", "polling"} => Queue(r) = <<>>

\* What the client is going to know is what is stored; only the failed sample of a
\* stream can change that.
Answered(r) ==
  /\ call[r] \in Served
  /\ feeds[r] # None /\ ~ feeds[r].updatesOnly
  /\ faults = <<>> \/ feeds[r].mode # "STREAM"
  => \A i \in DOMAIN feeds[r].subs, l \in Leaf : WillKnow(r, i, l) = StoreSays(r, i, l)

AllOK(r) == CallOK(r) /\ PairOK(r) /\ SyncOK(r) /\ Answered(r)
CallsInv == PendFits /\ \A r \in Request : AllOK(r)
ConfTyped == conf = [r \in Request |-> conf[r]]
GnmiInv == GnmiTypeOK /\ ConfTyped /\ CallsInv

-----------------------------------------------------------------------------
(* What is on its way.                                                     *)

LEMMA WillKnowIsAfter ==
  ASSUME NEW r, NEW i, NEW l
  PROVE  /\ WillKnow(r, i, l) = After(Queue(r), i, l, view[r][i][l])
         /\ WillKnow(r, i, l)' = After(notifs'[r] \o out'[r], i, l, view'[r][i][l])
  BY DEF WillKnow, After, Queue

LEMMA KnownSame ==
  ASSUME NEW r, NEW i, NEW l, UNCHANGED <<notifs, out, view, store>>
  PROVE  WillKnow(r, i, l)' = WillKnow(r, i, l) /\ StoreSays(r, i, l)' = StoreSays(r, i, l)
<1>1. WillKnow(r, i, l)' = WillKnow(r, i, l)
  BY DEF WillKnow
<1>2. StoreSays(r, i, l)' = StoreSays(r, i, l)
  BY DEF StoreSays
<1> QED
  BY <1>1, <1>2

\* What is in notifs comes before what sysrepo has not delivered.
LEMMA WillKnowInTurn ==
  ASSUME GnmiTypeOK, NEW r \in Request, NEW i, NEW l
  PROVE  WillKnow(r, i, l) = After(out[r], i, l, After(notifs[r], i, l, view[r][i][l]))
<1>1. notifs[r] \in Seq(Notification) /\ out[r] \in Seq(Notification)
  BY DEF GnmiTypeOK, TelemetryTypeOK
<1>2. After(notifs[r] \o out[r], i, l, view[r][i][l]) = After(out[r], i, l, After(notifs[r], i, l, view[r][i][l]))
  BY <1>1, AfterConcat
<1> QED
  BY <1>2, WillKnowIsAfter DEF Queue

\* The head of the second queue moves to the end of the first.
LEMMA QueueMoves ==
  ASSUME NEW N, NEW q \in Seq(N), NEW p \in Seq(N), p # <<>>
  PROVE  Append(q, Head(p)) \o Tail(p) = q \o p
  OBVIOUS

\* What is sent is the head of the whole.
LEMMA QueueSends ==
  ASSUME NEW N, NEW q \in Seq(N), NEW p \in Seq(N), q # <<>>
  PROVE  Head(q \o p) = Head(q) /\ Tail(q \o p) = Tail(q) \o p /\ q \o p # <<>>
  OBVIOUS

LEMMA OneSyncTail ==
  ASSUME NEW N, NEW q \in Seq(N), OneSync(q)
  PROVE  IF Head(q).type = "SYNC_RESPONSE" THEN Tail(q) = <<>> ELSE OneSync(Tail(q))
<1>1. /\ q # <<>> /\ Len(q) \in Nat \ {0} /\ DOMAIN q = 1..Len(q)
      /\ \A n \in DOMAIN q : q[n].type = "SYNC_RESPONSE" <=> n = Len(q)
  <2>1. q # <<>>
    BY DEF OneSync
  <2> QED
    BY <2>1, LenProperties DEF OneSync
<1>2. /\ Head(q) = q[1] /\ Tail(q) \in Seq(N) /\ Len(Tail(q)) = Len(q) - 1
      /\ DOMAIN Tail(q) = 1..(Len(q) - 1) /\ \A n \in 1..(Len(q) - 1) : Tail(q)[n] = q[n + 1]
  BY <1>1
<1>3. Head(q).type = "SYNC_RESPONSE" <=> Len(q) = 1
  BY <1>1, <1>2
<1>4. CASE Len(q) = 1
  <2>1. Len(Tail(q)) = 0
    BY <1>2, <1>4
  <2>2. Tail(q) = <<>>
    BY <1>2, <2>1, EmptySeq
  <2> QED
    BY <1>3, <1>4, <2>2
<1>5. CASE Len(q) > 1
  <2>1. Tail(q) # <<>>
    <3>1. Len(Tail(q)) # 0
      BY <1>1, <1>2, <1>5
    <3>2. Len(<<>>) = 0
      OBVIOUS
    <3> QED
      BY <3>1, <3>2, Zenon
  <2>2. \A n \in DOMAIN Tail(q) : Tail(q)[n].type = "SYNC_RESPONSE" <=> n = Len(Tail(q))
    <3> SUFFICES ASSUME NEW n \in DOMAIN Tail(q) PROVE Tail(q)[n].type = "SYNC_RESPONSE" <=> n = Len(Tail(q))
      OBVIOUS
    <3>1. n \in 1..(Len(q) - 1) /\ Tail(q)[n] = q[n + 1] /\ n + 1 \in DOMAIN q
      BY <1>1, <1>2
    <3> QED
      BY <1>1, <1>2, <3>1
  <2> QED
    BY <1>1, <1>3, <1>5, <2>1, <2>2 DEF OneSync
<1> QED
  BY <1>1, <1>4, <1>5

\* The state of a feed, and with it what a start and a poll tell, is updates and then
\* one SYNC_RESPONSE.
LEMMA CurrentSyncs ==
  ASSUME NEW c, IsFeed(c), NEW st \in Entries
  PROVE  OneSync(Current(c, st) \o <<Sync>>) /\ OneSync(Told(c, st) \o <<Sync>>)
<1> DEFINE S == {p \in (DOMAIN c.subs) \X Leaf : st[p[1]][p[2]] # None}
<1>1. S \in SUBSET (Sid \X Leaf) /\ IsFiniteSet(S)
  <2>1. DOMAIN c.subs \subseteq Sid
    BY DEF IsFeed
  <2>2. S \subseteq Sid \X Leaf
    BY <2>1
  <2>3. IsFiniteSet(Sid \X Leaf)
    BY TelemetryAssumption, FS_Product
  <2> QED
    BY <2>2, <2>3, FS_Subset
<1>2. ASSUME NEW p \in S PROVE st[p[1]][p[2]].val \in Value
  <2>1. p[1] \in Sid /\ p[2] \in Leaf /\ st[p[1]][p[2]] # None
    BY <1>1
  <2> QED
    BY <2>1 DEF Entries, Entry
<1> HIDE DEF S
<1>3. Current(c, st) = UpdatesOf(st, S)
  BY DEF Current, S
<1>4. Current(c, st) \in Seq(Notification) /\ \A n \in DOMAIN Current(c, st) : Current(c, st)[n].type = "UPDATE"
  BY <1>1, <1>2, <1>3, UpdatesTell
<1>5. ASSUME NEW q \in Seq(Notification), \A n \in DOMAIN q : q[n].type = "UPDATE"
      PROVE  OneSync(q \o <<Sync>>)
  <2> DEFINE u == q \o <<Sync>>
  <2>1. /\ DOMAIN q = 1..Len(q) /\ Len(q) \in Nat /\ DOMAIN u = 1..(Len(q) + 1) /\ Len(u) = Len(q) + 1
        /\ \A n \in 1..Len(q) : u[n] = q[n]
        /\ u[Len(q) + 1] = Sync
    OBVIOUS
  <2>2. Sync.type = "SYNC_RESPONSE"
    BY DEF Sync
  <2> HIDE DEF u
  <2>3. u # <<>> /\ \A n \in DOMAIN u : u[n].type = "SYNC_RESPONSE" <=> n = Len(u)
    BY <1>5, <2>1, <2>2
  <2> QED
    BY <2>3 DEF OneSync, u
<1>6. OneSync(<<>> \o <<Sync>>)
  <2>1. <<>> \in Seq(Notification) /\ DOMAIN <<>> = {}
    OBVIOUS
  <2> QED
    BY <1>5, <2>1
<1> QED
  BY <1>4, <1>5, <1>6 DEF Told

-----------------------------------------------------------------------------
(* Types.                                                                  *)

\* What a call asks for is a request, parsed into a feed of the same mode.
LEMMA AskConfigures ==
  ASSUME GnmiTypeOK, NEW r \in Request, call[r] # "none"
  PROVE  /\ ConfigOf(ask[r]) \in Configs /\ ConfigOf(ask[r]) # None
         /\ ask[r].mode \in {"STREAM", "ONCE", "POLL"}
         /\ Parsed(ConfigOf(ask[r])).mode = ask[r].mode
<1> DEFINE q == ask[r]  c == ConfigOf(ask[r])
<1>1. q \in Asks[r]
  BY DEF GnmiTypeOK
<1>2. c \in Configs /\ q.mode \in {"STREAM", "ONCE", "POLL"}
  BY <1>1, GnmiAssumption
<1>3. c # None
  BY <1>2, NoneAssumption
<1>4. c = [mode |-> c.mode, updatesOnly |-> c.updatesOnly, subs |-> c.subs]
  BY <1>2, RequestAssumption
<1>5. \E x : c = [q EXCEPT !.subs = x]
  BY DEF ConfigOf
<1>6. c.mode = q.mode
  <2>1. DOMAIN c = {"mode", "updatesOnly", "subs"}
    BY <1>4
  <2> HIDE DEF c, q
  <2> QED
    BY <1>5, <2>1
<1>7. Parsed(c).mode = c.mode
  <2>1. \/ Parsed(c) = c
        \/ \E x : Parsed(c) = [c EXCEPT !.subs = x]
    BY DEF Parsed
  <2> HIDE DEF c
  <2> QED
    BY <1>4, <2>1
<1> QED
  BY <1>2, <1>3, <1>6, <1>7

LEMMA BecomesKeeps ==
  ASSUME GnmiTypeOK, NEW r \in Request, NEW c \in CallStates, Becomes(r, c)
  PROVE  call' \in [Request -> CallStates] /\ call'[r] = c /\ \A p \in Request \ {r} : call'[p] = call[p]
  BY DEF Becomes, GnmiTypeOK

\* The types follow from those of the parts that a step changes.
LEMMA GnmiTypeKeep ==
  ASSUME GnmiTypeOK, TelemetryTypeOK', call' \in [Request -> CallStates],
         ask' = ask, \A r \in Request : call[r] = "none" => call'[r] = "none",
         notifs' \in [Request -> Seq(Notification)]
  PROVE  GnmiTypeOK'
  BY DEF GnmiTypeOK

\* What the client is sent.
LEMMA SendKeeps ==
  ASSUME GnmiTypeOK, NEW r \in Request, notifs[r] # <<>>, Send(r, Head(notifs[r]), Tail(notifs[r]))
  PROVE  /\ Head(notifs[r]) \in Notification
         /\ notifs' \in [Request -> Seq(Notification)] /\ notifs'[r] = Tail(notifs[r])
         /\ \A p \in Request \ {r} : notifs'[p] = notifs[p]
         /\ view' \in [Request -> [Sid -> [Leaf -> Value \cup {None}]]]
         /\ \A p \in Request, i \in Sid, l \in Leaf :
              view'[p][i][l] = IF p = r /\ About(Head(notifs[r]), i, l) THEN Head(notifs[r]).val ELSE view[p][i][l]
         /\ call' \in [Request -> CallStates] /\ \A p \in Request \ {r} : call'[p] = call[p]
         /\ call'[r] = IF Head(notifs[r]).type = "SYNC_RESPONSE" /\ call[r] = "initial" THEN "synced" ELSE call[r]
<1> DEFINE n == Head(notifs[r])
<1>1. /\ notifs[r] \in Seq(Notification) /\ notifs' = [notifs EXCEPT ![r] = Tail(notifs[r])]
      /\ call \in [Request -> CallStates]
      /\ view \in [Request -> [Sid -> [Leaf -> Value \cup {None}]]]
  BY DEF Send, GnmiTypeOK, TelemetryTypeOK
<1>2. n \in Notification /\ Tail(notifs[r]) \in Seq(Notification)
  BY <1>1, HeadTailProperties
<1>3. /\ notifs' \in [Request -> Seq(Notification)] /\ notifs'[r] = Tail(notifs[r])
      /\ \A p \in Request \ {r} : notifs'[p] = notifs[p]
  BY <1>1, <1>2 DEF GnmiTypeOK
<1>4. CASE n.type = "SYNC_RESPONSE"
  <2>1. view' = view /\ call' = [call EXCEPT ![r] = IF @ = "initial" THEN "synced" ELSE @]
    BY <1>4 DEF Send
  <2>2. \A i, l : ~ About(n, i, l)
    BY <1>4 DEF About
  <2>3. "synced" \in CallStates
    BY DEF CallStates
  <2>4. /\ call' \in [Request -> CallStates] /\ \A p \in Request \ {r} : call'[p] = call[p]
        /\ call'[r] = IF call[r] = "initial" THEN "synced" ELSE call[r]
    BY <1>1, <2>1, <2>3
  <2> QED
    BY <1>1, <1>2, <1>3, <1>4, <2>1, <2>2, <2>4
<1>5. CASE n.type # "SYNC_RESPONSE"
  <2>1. n.sid \in Sid /\ n.leaf \in Leaf /\ n.val \in Value \cup {None}
    BY <1>2, <1>5 DEF Notification, Sync
  <2>2. \A i, l : About(n, i, l) <=> i = n.sid /\ l = n.leaf
    BY <1>5 DEF About
  <2>3. view' = [view EXCEPT ![r][n.sid][n.leaf] = n.val] /\ call' = call
    BY <1>5 DEF Send
  <2> HIDE DEF n
  <2>4. [view[r][n.sid] EXCEPT ![n.leaf] = n.val] \in [Leaf -> Value \cup {None}]
    BY <1>1, <2>1
  <2>5. view' \in [Request -> [Sid -> [Leaf -> Value \cup {None}]]]
    BY <1>1, <2>1, <2>3, <2>4
  <2>6. \A p \in Request, i \in Sid, l \in Leaf :
          view'[p][i][l] = IF p = r /\ i = n.sid /\ l = n.leaf THEN n.val ELSE view[p][i][l]
    BY <1>1, <2>1, <2>3
  <2> QED
    BY <1>1, <1>2, <1>3, <1>5, <2>2, <2>3, <2>5, <2>6 DEF n
<1> QED
  BY <1>4, <1>5

\* What sysrepo's thread passes on.
LEMMA PassKeeps ==
  ASSUME GnmiTypeOK, NEW r \in Request, NotificationCb(r)
  PROVE  /\ notifs' \in [Request -> Seq(Notification)] /\ out' \in [Request -> Seq(Notification)]
         /\ \A p \in Request \ {r} : notifs'[p] = notifs[p] /\ out'[p] = out[p]
         /\ out[r] # <<>> /\ out'[r] = Tail(out[r])
         /\ notifs'[r] = IF Registered(r) THEN Append(notifs[r], Head(out[r])) ELSE notifs[r]
<1>1. /\ out[r] # <<>> /\ out' = [out EXCEPT ![r] = Tail(out[r])]
      /\ notifs' = IF Registered(r) THEN [notifs EXCEPT ![r] = Append(notifs[r], Head(out[r]))] ELSE notifs
      /\ out \in [Request -> Seq(Notification)] /\ notifs \in [Request -> Seq(Notification)]
  BY DEF NotificationCb, GnmiTypeOK, TelemetryTypeOK
<1>2. Head(out[r]) \in Notification /\ Tail(out[r]) \in Seq(Notification)
  BY <1>1, HeadTailProperties
<1>3. Append(notifs[r], Head(out[r])) \in Seq(Notification)
  BY <1>1, <1>2, AppendProperties
<1> QED
  BY <1>1, <1>2, <1>3

LEMMA TypePass ==
  ASSUME GnmiTypeOK, NEW r \in Request, NotificationCb(r)
  PROVE  GnmiTypeOK'
<1>1. UNCHANGED <<data, pend, feeds, store, loop, since, view, faults, call, ask>>
  BY DEF NotificationCb, serverVars
<1>2. out' \in [Request -> Seq(Notification)] /\ notifs' \in [Request -> Seq(Notification)]
  BY PassKeeps
<1>3. TelemetryTypeOK'
  BY <1>1, <1>2, TypeKeep DEF GnmiTypeOK, TelemetryTypeOK, TaskFits
<1> QED
  BY <1>1, <1>2, <1>3, GnmiTypeKeep DEF GnmiTypeOK

LEMMA TypeYield ==
  ASSUME GnmiTypeOK, NEW r \in Request, Yield(r)
  PROVE  GnmiTypeOK'
<1>1. /\ UNCHANGED <<data, pend, feeds, store, loop, since, out, faults, ask>>
      /\ notifs[r] # <<>> /\ Send(r, Head(notifs[r]), Tail(notifs[r])) /\ call[r] # "none"
  BY DEF Yield, Send, Pulls, serverVars
<1>2. /\ notifs' \in [Request -> Seq(Notification)] /\ call' \in [Request -> CallStates]
      /\ view' \in [Request -> [Sid -> [Leaf -> Value \cup {None}]]]
      /\ \A p \in Request \ {r} : call'[p] = call[p]
  BY <1>1, SendKeeps
<1>3. TelemetryTypeOK'
  <2>1. \A p \in Request, i \in Sid : TaskFits(p, i)'
    BY <1>1 DEF GnmiTypeOK, TelemetryTypeOK, TaskFits
  <2> QED
    BY <1>1, <1>2, <2>1 DEF GnmiTypeOK, TelemetryTypeOK
<1> QED
  BY <1>1, <1>2, <1>3, GnmiTypeKeep

LEMMA EndKeeps ==
  ASSUME GnmiTypeOK, NEW r \in Request, End(r)
  PROVE  /\ call' \in [Request -> CallStates] /\ call'[r] = "ended"
         /\ notifs' \in [Request -> Seq(Notification)]
         /\ \A p \in Request \ {r} : call'[p] = call[p] /\ notifs'[p] = notifs[p]
         /\ UNCHANGED <<ask, gone, polls>>
<1>1. "ended" \in CallStates
  BY DEF CallStates
<1>2. /\ call' \in [Request -> CallStates] /\ call'[r] = "ended"
      /\ \A p \in Request \ {r} : call'[p] = call[p]
  BY <1>1, BecomesKeeps DEF End
<1>3. /\ notifs' = [notifs EXCEPT ![r] = <<>>] /\ notifs \in [Request -> Seq(Notification)]
      /\ UNCHANGED <<ask, gone, polls>>
  BY DEF End, GnmiTypeOK
<1> QED
  BY <1>2, <1>3

\* The transactions of calls are transactions of the telemetry server.
LEMMA TypeWorker ==
  ASSUME GnmiTypeOK, NEW r \in Request, Worker(r) \/ Client(r) \/ ExecUnserved(r)
  PROVE  GnmiTypeOK'
<1> USE DEF CallStates
<1>1. TelemetryTypeOK /\ call \in [Request -> CallStates] /\ notifs \in [Request -> Seq(Notification)]
  BY DEF GnmiTypeOK
<1>2. ASSUME UNCHANGED vars PROVE TelemetryTypeOK'
  BY <1>1, <1>2, TypeOther
<1>3. ASSUME NEW c \in CallStates, Becomes(r, c), TelemetryTypeOK', UNCHANGED <<ask, notifs>>, call[r] # "none"
      PROVE  GnmiTypeOK'
  <2>1. call' \in [Request -> CallStates] /\ \A p \in Request \ {r} : call'[p] = call[p]
    BY <1>3, BecomesKeeps
  <2>2. \A p \in Request : call[p] = "none" => call'[p] = "none"
    BY <1>3, <2>1
  <2> QED
    BY <1>1, <1>3, <2>1, <2>2, GnmiTypeKeep
<1>4. ASSUME End(r), TelemetryTypeOK', call[r] # "none" PROVE GnmiTypeOK'
  <2>1. /\ call' \in [Request -> CallStates] /\ notifs' \in [Request -> Seq(Notification)] /\ ask' = ask
        /\ \A p \in Request \ {r} : call'[p] = call[p]
    BY <1>4, EndKeeps
  <2>2. \A p \in Request : call[p] = "none" => call'[p] = "none"
    BY <1>4, <2>1
  <2> QED
    BY <1>4, <2>1, <2>2, GnmiTypeKeep
<1>5. ASSUME call[r] # "none" PROVE ConfigOf(ask[r]) \in Configs
  BY <1>5, AskConfigures
<1>6. CASE Exec(r)
  <2>1. TelemetryTypeOK'
    BY <1>1, <1>5, <1>6, TypeTransaction DEF Exec, Transaction
  <2> QED
    BY <1>3, <1>6, <2>1 DEF Exec
<1>7. CASE ExecRefused(r)
  <2>1. TelemetryTypeOK'
    BY <1>1, <1>2, <1>5, <1>7, TypeTransaction DEF ExecRefused, Transaction
  <2> QED
    BY <1>3, <1>7, <2>1 DEF ExecRefused
<1>8. CASE Yield(r)
  BY <1>8, TypeYield
<1>9. CASE Closed(r) \/ Drained(r) \/ PollEnds(r)
  <2>1. UNCHANGED <<vars, ask, notifs>>
    BY <1>9 DEF Closed, Drained, PollEnds, AfterCurrentStates
  <2>2. call[r] # "none"
    BY <1>9 DEF Closed, Drained, PollEnds, Pulls
  <2>3. \E c \in CallStates : Becomes(r, c)
    <3>1. ask[r].mode \in {"STREAM", "ONCE", "POLL"}
      BY <2>2, AskConfigures
    <3> QED
      BY <1>9, <3>1 DEF Closed, Drained, PollEnds, AfterCurrentStates
  <2> QED
    BY <1>2, <1>3, <2>1, <2>2, <2>3
<1>10. CASE Clear(r)
  <2>1. TelemetryTypeOK'
    BY <1>1, <1>10, TypeTransaction DEF Clear, Transaction
  <2> QED
    BY <1>3, <1>10, <2>1 DEF Clear
<1>11. CASE ClearNoop(r)
  <2>1. TelemetryTypeOK'
    BY <1>1, <1>2, <1>11, TypeTransaction DEF ClearNoop, Transaction
  <2> QED
    BY <1>4, <1>11, <2>1 DEF ClearNoop
<1>12. CASE Subscribe(r)
  <2>1. PICK q \in Asks[r] : ask' = [ask EXCEPT ![r] = q]
    BY <1>12 DEF Subscribe
  <2>2. UNCHANGED <<vars, notifs>> /\ Becomes(r, "exec")
    BY <1>12 DEF Subscribe
  <2>3. call' \in [Request -> CallStates] /\ \A p \in Request \ {r} : call'[p] = call[p]
    BY <2>2, BecomesKeeps
  <2>4. ask' = [p \in Request |-> ask'[p]] /\ ask'[r] = q /\ \A p \in Request \ {r} : ask'[p] = ask[p]
    BY <2>1 DEF GnmiTypeOK
  <2>5. \A p \in Request : call'[p] # "none" => ask'[p] \in Asks[p]
    BY <2>3, <2>4 DEF GnmiTypeOK
  <2>6. TelemetryTypeOK' /\ notifs' \in [Request -> Seq(Notification)]
    BY <1>1, <1>2, <2>2
  <2> QED
    BY <2>3, <2>4, <2>5, <2>6 DEF GnmiTypeOK
<1>13. CASE Leave(r)
  BY <1>1, <1>2, <1>13, GnmiTypeKeep DEF Leave
<1>14. CASE PollNotifs(r)
  <2>1. TelemetryTypeOK'
    BY <1>1, <1>14, TypeOther DEF PollNotifs
  <2> QED
    BY <1>3, <1>14, <2>1 DEF PollNotifs
<1>15. CASE ExecUnserved(r)
  <2>1. TelemetryTypeOK'
    <3>1. "crash" \in FaultNames
      BY DEF FaultNames
    <3>2. MemoryLost /\ UNCHANGED <<data, out, view, pend>> /\ Fault("crash")
      BY <1>15 DEF ExecUnserved
    <3>3. faults' \in Seq(FaultNames)
      BY <1>1, <3>1, <3>2, FaultsTyped
    <3> QED
      BY <1>1, <3>2, <3>3, TypeLost
  <2> QED
    BY <1>3, <1>15, <2>1 DEF ExecUnserved
<1> QED
  BY <1>6, <1>7, <1>8, <1>9, <1>10, <1>11, <1>12, <1>13, <1>14, <1>15 DEF Worker, Client

LEMMA GnmiTypeStep == GnmiTypeOK /\ [GnmiNext]_allVars => GnmiTypeOK'
<1> SUFFICES ASSUME GnmiTypeOK, [GnmiNext]_allVars PROVE GnmiTypeOK'
  OBVIOUS
<1>1. TelemetryTypeOK /\ call \in [Request -> CallStates] /\ notifs \in [Request -> Seq(Notification)]
  BY DEF GnmiTypeOK
<1>2. ASSUME UNCHANGED gnmiVars, TelemetryTypeOK' PROVE GnmiTypeOK'
  BY <1>1, <1>2, GnmiTypeKeep DEF gnmiVars
<1>3. ASSUME NEW r \in Request, NEW i \in Sid, TelemetryLoop(r, i) PROVE GnmiTypeOK'
  BY <1>1, <1>2, <1>3, TypeTask DEF TelemetryLoop
<1>4. CASE Clock \/ DataMoves \/ TelemetryRestart \/ UNCHANGED allVars
  BY <1>1, <1>2, <1>4, TypeOther DEF Clock, DataMoves, TelemetryRestart, allVars
<1>5. CASE TimerReverts
  <2>1. RevertHandler /\ faults' \in Seq(FaultNames) /\ UNCHANGED gnmiVars
    BY <1>1, <1>5, FaultsTyped DEF TimerReverts
  <2> QED
    BY <1>1, <1>2, <2>1, TypeRevert
<1>6. ASSUME TelemetryTypeOK', pend # None, InApply(pend.req),
             IF call[pend.req] = "applying"
             THEN (\E c \in CallStates : Becomes(pend.req, c)) /\ UNCHANGED <<ask, notifs, gone, polls>>
             ELSE End(pend.req)
      PROVE  GnmiTypeOK'
  <2>1. PICK r \in Request : r = pend.req
    BY <1>1, <1>6 DEF TelemetryTypeOK
  <2>2. call[r] # "none"
    BY <1>6, <2>1 DEF InApply
  <2>3. /\ call' \in [Request -> CallStates] /\ notifs' \in [Request -> Seq(Notification)] /\ ask' = ask
        /\ \A p \in Request \ {r} : call'[p] = call[p]
    BY <1>1, <1>6, <2>1, BecomesKeeps, EndKeeps
  <2>4. \A p \in Request : call[p] = "none" => call'[p] = "none"
    BY <2>2, <2>3
  <2> QED
    BY <1>6, <2>3, <2>4, GnmiTypeKeep
<1>7. "initial" \in CallStates /\ "clear" \in CallStates
  BY DEF CallStates
<1>8. CASE Committed
  <2>1. TelemetryTypeOK'
    BY <1>1, <1>8, TypeOther DEF Committed
  <2> QED
    BY <1>6, <1>7, <1>8, <2>1 DEF Committed
<1>9. CASE GiveUp
  <2>1. UNCHANGED <<data, pend, feeds, store, loop, since, out, view>> /\ Fault("giveup")
    BY <1>9 DEF GiveUp, serverVars
  <2>2. faults' \in Seq(FaultNames)
    BY <1>1, <2>1, FaultsTyped DEF FaultNames
  <2>3. TelemetryTypeOK'
    BY <1>1, <2>1, <2>2, TypeKeep DEF TelemetryTypeOK, TaskFits
  <2> QED
    BY <1>6, <1>7, <1>9, <2>3 DEF GiveUp
<1> QED
  BY <1>3, <1>4, <1>5, <1>8, <1>9, TypeWorker, TypePass DEF GnmiNext

\* Only commits, and a request that nobody serves, change the configuration.
LEMMA ConfStep == ConfTyped /\ [GnmiNext]_allVars => ConfTyped'
<1> SUFFICES ASSUME ConfTyped, [GnmiNext]_allVars PROVE ConfTyped'
  OBVIOUS
<1>1. ASSUME NEW r \in Request,
             Worker(r) \/ Client(r) \/ ExecUnserved(r) \/ NotificationCb(r) \/ \E i \in Sid : TelemetryLoop(r, i)
      PROVE  conf' = conf \/ \E c : conf' = [conf EXCEPT ![r] = c]
  <2>1. CASE ExecUnserved(r)
    BY <2>1 DEF ExecUnserved
  <2>2. CASE Exec(r) \/ ExecRefused(r) \/ Clear(r) \/ ClearNoop(r)
    BY <2>2 DEF Exec, ExecRefused, Clear, ClearNoop, CreateRequest, CreateRefused, CreateRaises,
                DeleteRequest, DeleteRefused, vars
  <2>3. CASE Yield(r) \/ Closed(r) \/ Drained(r) \/ PollEnds(r) \/ NotificationCb(r)
    BY <2>3 DEF Yield, Send, Closed, Drained, AfterCurrentStates, PollEnds, NotificationCb, vars
  <2>4. CASE Subscribe(r) \/ Leave(r) \/ PollNotifs(r)
    BY <2>4 DEF Subscribe, Leave, PollNotifs, Poll, vars
  <2>5. CASE \E i \in Sid : TelemetryLoop(r, i)
    BY <2>5 DEF TelemetryLoop, LoopTask, Sample, SampleRaises
  <2> QED
    BY <1>1, <2>1, <2>2, <2>3, <2>4, <2>5 DEF Worker, Client
<1>2. CASE Committed \/ GiveUp \/ TimerReverts
  BY <1>2 DEF Committed, Commit, GiveUp, TimerReverts, RevertHandler, ConfTyped
<1>3. CASE Clock \/ DataMoves \/ TelemetryRestart \/ UNCHANGED allVars
  BY <1>3 DEF Clock, Tick, DataMoves, DataChange, TelemetryRestart, Restart, vars, allVars, ConfTyped
<1>4. CASE conf' = conf \/ \E r, c : conf' = [conf EXCEPT ![r] = c]
  BY <1>4 DEF ConfTyped
<1> QED
  BY <1>1, <1>2, <1>3, <1>4 DEF GnmiNext

-----------------------------------------------------------------------------
(* Steps that concern no call or that end one.                             *)

\* A step leaves what call p has and is told as it is.
CallSame(p) ==
  /\ call'[p] = call[p] /\ ask'[p] = ask[p] /\ conf'[p] = conf[p] /\ feeds'[p] = feeds[p]
  /\ out'[p] = out[p] /\ notifs'[p] = notifs[p] /\ view'[p] = view[p]
  /\ \A i \in Sid, l \in Leaf : StoreSays(p, i, l)' = StoreSays(p, i, l)

\* Faults are not forgotten.
LEMMA FaultsStay ==
  ASSUME GnmiTypeOK, faults' = faults \/ \E f : Fault(f)
  PROVE  faults' = <<>> => faults = <<>>
<1>1. faults \in Seq(FaultNames)
  BY DEF GnmiTypeOK, TelemetryTypeOK
<1>2. ASSUME NEW f, Fault(f) PROVE faults' # <<>>
  <2>1. faults' = Append(faults, f)
    BY <1>2 DEF Fault
  <2> QED
    BY <1>1, <2>1
<1> QED
  BY <1>2

\* Nobody's transaction but its own matters to a call.
LEMMA SameKeeps ==
  ASSUME GnmiInv, NEW p \in Request, CallSame(p), faults' = <<>> => faults = <<>>,
         pend' = pend \/ pend = None \/ pend.req # p
  PROVE  AllOK(p)'
<1>1. CallOK(p) /\ PairOK(p) /\ SyncOK(p) /\ Answered(p)
  BY DEF GnmiInv, CallsInv, AllOK
<1>2. CallOK(p)'
  BY <1>1 DEF CallOK, CallSame, HasNothing
<1>3. PairOK(p)'
  <2>1. CASE pend' = pend
    BY <1>1, <2>1 DEF PairOK, CallSame, HasNothing
  <2>2. CASE pend = None \/ pend.req # p
    BY <1>1, <2>2 DEF PairOK, CallSame, HasNothing
  <2> QED
    BY <2>1, <2>2
<1>4. SyncOK(p)'
  <2>1. Queue(p)' = Queue(p)
    BY DEF Queue, CallSame
  <2> QED
    BY <1>1, <2>1 DEF SyncOK, CallSame
<1>5. Answered(p)'
  <2> SUFFICES ASSUME call'[p] \in Served, feeds'[p] # None, ~ feeds'[p].updatesOnly,
                      faults' = <<>> \/ feeds'[p].mode # "STREAM",
                      NEW i \in DOMAIN feeds'[p].subs, NEW l \in Leaf
               PROVE  WillKnow(p, i, l)' = StoreSays(p, i, l)'
    BY DEF Answered
  <2>1. feeds'[p] = feeds[p] /\ call'[p] = call[p]
    BY DEF CallSame
  <2>2. i \in Sid
    BY <2>1 DEF GnmiInv, GnmiTypeOK, TelemetryTypeOK, IsFeed
  <2>3. WillKnow(p, i, l) = StoreSays(p, i, l)
    BY <1>1, <2>1 DEF Answered
  <2>4. WillKnow(p, i, l)' = WillKnow(p, i, l)
    BY DEF WillKnow, CallSame
  <2> QED
    BY <2>2, <2>3, <2>4 DEF CallSame
<1> QED
  BY <1>2, <1>3, <1>4, <1>5 DEF AllOK

\* A call that is ending owes its client nothing more.
LEMMA EndingOwesNothing ==
  ASSUME NEW r \in Request, call'[r] \in {"clear", "clearing", "ended"}, PairOK(r)',
         feeds'[r] # None => feeds'[r] = Parsed(ConfigOf(ask'[r]))
  PROVE  AllOK(r)'
  BY DEF AllOK, CallOK, SyncOK, Answered, Served

\* A step that changes what one call does, and nothing of the telemetry server.
LEMMA MoveKeeps ==
  ASSUME GnmiInv, NEW r \in Request, NEW c \in CallStates, Becomes(r, c),
         UNCHANGED <<conf, pend, feeds, store, out, view, ask, notifs, faults>>,
         AllOK(r)',
         pend # None /\ pend.req = r => c \in {"applying", "clear", "clearing", "ended"} /\ faults # <<>>
  PROVE  CallsInv'
<1>1. call'[r] = c /\ \A p \in Request \ {r} : call'[p] = call[p]
  BY BecomesKeeps DEF GnmiInv
<1>2. ASSUME NEW p \in Request PROVE AllOK(p)'
  <2>1. CASE p = r
    BY <2>1
  <2>2. CASE p # r
    <3>1. CallSame(p)
      BY <1>1, <2>2 DEF CallSame, StoreSays
    <3> QED
      BY <3>1, SameKeeps
  <2> QED
    BY <2>1, <2>2
<1>3. PendFits'
  <2>1. PendFits /\ (pend # None => pend.req \in Request)
    BY DEF GnmiInv, CallsInv, GnmiTypeOK, TelemetryTypeOK
  <2> QED
    BY <1>1, <2>1 DEF PendFits
<1> QED
  BY <1>2, <1>3 DEF CallsInv

\* The client has gone or is answered, or its request is refused: the call turns to
\* its end.
LEMMA ToClearStep ==
  ASSUME GnmiInv, NEW r \in Request,
         \/ Closed(r) \/ PollEnds(r)
         \/ Drained(r) /\ Becomes(r, "clear")
         \/ ExecRefused(r) /\ ~ CreateRaises(r, ConfigOf(ask[r]))
  PROVE  CallsInv'
<1>1. /\ Becomes(r, "clear") /\ "clear" \in CallStates
      /\ UNCHANGED <<conf, pend, feeds, store, out, view, ask, notifs, faults>>
  BY DEF Closed, PollEnds, Drained, ExecRefused, CreateRefused, AfterCurrentStates, vars, serverVars, CallStates
<1>2. call[r] \in {"exec", "initial", "synced", "stream", "polling"}
  BY DEF Closed, PollEnds, Drained, ExecRefused, Pulls
<1>3. call'[r] = "clear"
  BY <1>1, BecomesKeeps DEF GnmiInv
<1>4. PairOK(r) /\ PendFits
  BY DEF GnmiInv, CallsInv, AllOK
<1>5. AllOK(r)'
  <2>1. PairOK(r)'
    BY <1>1, <1>2, <1>3, <1>4 DEF PairOK, HasNothing
  <2>2. CallOK(r)
    BY DEF GnmiInv, CallsInv, AllOK
  <2> QED
    BY <1>1, <1>3, <2>1, <2>2, EndingOwesNothing DEF CallOK
<1>6. ~ (pend # None /\ pend.req = r)
  BY <1>2, <1>4 DEF PendFits
<1> QED
  BY <1>1, <1>5, <1>6, MoveKeeps

\* A call whose current states are sent goes on with polls or with the stream.
LEMMA DrainedStep ==
  ASSUME GnmiInv, NEW r \in Request, Drained(r)
  PROVE  CallsInv'
<1>1. /\ call[r] = "synced" /\ notifs[r] = <<>>
      /\ UNCHANGED <<conf, pend, feeds, store, out, view, ask, notifs, faults>>
  BY DEF Drained, AfterCurrentStates, vars, serverVars
<1>2. AllOK(r) /\ PendFits
  BY DEF GnmiInv, CallsInv
<1>3. ask[r].mode \in {"STREAM", "ONCE", "POLL"} /\ Parsed(ConfigOf(ask[r])).mode = ask[r].mode
  BY <1>1, AskConfigures DEF GnmiInv
<1>4. CASE ask[r].mode = "ONCE"
  BY <1>4, ToClearStep DEF Drained, AfterCurrentStates
<1>5. CASE ask[r].mode \in {"STREAM", "POLL"}
  <2>1. PICK c \in {"stream", "polling"} : Becomes(r, c) /\ (ask[r].mode = "STREAM" <=> c = "stream")
    BY <1>5 DEF Drained, AfterCurrentStates
  <2>2. c \in CallStates /\ call'[r] = c
    BY <2>1, BecomesKeeps DEF GnmiInv, CallStates
  <2>3. feeds[r] # None => feeds[r].mode = ask[r].mode
    BY <1>1, <1>2, <1>3 DEF AllOK, CallOK, Served
  <2>4. CallOK(r)' /\ PairOK(r)'
    BY <1>1, <1>2, <2>1, <2>2 DEF AllOK, CallOK, PairOK, Served, HasNothing
  <2>5. SyncOK(r)'
    <3>1. Queue(r)' = Queue(r)
      BY <1>1 DEF Queue
    <3> QED
      BY <1>1, <1>2, <2>1, <2>2, <2>3, <3>1 DEF AllOK, SyncOK
  <2>6. Answered(r)'
    <3>1. ASSUME NEW i, NEW l
          PROVE  WillKnow(r, i, l)' = WillKnow(r, i, l) /\ StoreSays(r, i, l)' = StoreSays(r, i, l)
      BY <1>1, KnownSame
    <3> QED
      BY <1>1, <1>2, <3>1 DEF AllOK, Answered, Served
  <2>7. AllOK(r)'
    BY <2>4, <2>5, <2>6 DEF AllOK
  <2>8. ~ (pend # None /\ pend.req = r)
    BY <1>1, <1>2 DEF PendFits
  <2> QED
    BY <1>1, <2>1, <2>2, <2>7, <2>8, MoveKeeps
<1> QED
  BY <1>3, <1>4, <1>5

\* A new call has nothing, and a client that leaves changes nothing of its call.
LEMMA ClientStep ==
  ASSUME GnmiInv, NEW r \in Request, Subscribe(r) \/ Leave(r)
  PROVE  CallsInv'
<1>1. UNCHANGED <<conf, pend, feeds, store, out, view, notifs, faults>>
  BY DEF Subscribe, Leave, vars, serverVars
<1>2. CASE Leave(r)
  <2>1. UNCHANGED <<call, ask>>
    BY <1>2 DEF Leave
  <2>2. \A p \in Request : CallSame(p)
    BY <1>1, <2>1 DEF CallSame, StoreSays
  <2>3. PendFits'
    BY <1>1, <2>1 DEF GnmiInv, CallsInv, PendFits
  <2> QED
    BY <1>1, <2>2, <2>3, SameKeeps DEF CallsInv
<1>3. CASE Subscribe(r)
  <2>1. call[r] = "none" /\ Becomes(r, "exec") /\ "exec" \in CallStates
    BY <1>3 DEF Subscribe, CallStates
  <2>2. call'[r] = "exec" /\ \A p \in Request \ {r} : call'[p] = call[p]
    BY <2>1, BecomesKeeps DEF GnmiInv
  <2>3. \A p \in Request \ {r} : ask'[p] = ask[p]
    BY <1>3 DEF Subscribe, GnmiInv, GnmiTypeOK
  <2>4. AllOK(r) /\ PendFits /\ (pend # None => pend.req \in Request)
    BY DEF GnmiInv, CallsInv, GnmiTypeOK, TelemetryTypeOK
  <2>5. AllOK(r)'
    BY <1>1, <2>1, <2>2, <2>4 DEF AllOK, CallOK, PairOK, SyncOK, Answered, HasNothing, Served
  <2>6. ASSUME NEW p \in Request PROVE AllOK(p)'
    <3>1. CASE p = r
      BY <2>5, <3>1
    <3>2. CASE p # r
      <4>1. CallSame(p)
        BY <1>1, <2>2, <2>3, <3>2 DEF CallSame, StoreSays
      <4> QED
        BY <1>1, <4>1, SameKeeps
    <3> QED
      BY <3>1, <3>2
  <2>7. PendFits'
    BY <1>1, <2>1, <2>2, <2>3, <2>4 DEF PendFits
  <2> QED
    BY <2>6, <2>7 DEF CallsInv
<1> QED
  BY <1>2, <1>3

-----------------------------------------------------------------------------
(* Transactions.                                                           *)

\* A start that raises leaves a feed behind, of a call that turns to its end.
LEMMA RaisesStep ==
  ASSUME GnmiInv, NEW r \in Request, ExecRefused(r), CreateRaises(r, ConfigOf(ask[r]))
  PROVE  CallsInv'
<1> DEFINE c == ConfigOf(ask[r])
<1>1. /\ call[r] = "exec" /\ Becomes(r, "clear") /\ "clear" \in CallStates /\ UNCHANGED <<ask, notifs>>
      /\ Fault("start") /\ pend' = pend /\ conf' = conf /\ feeds' = [feeds EXCEPT ![r] = Parsed(c)]
      /\ view' = [view EXCEPT ![r] = [i \in Sid |-> [l \in Leaf |-> None]]]
  BY DEF ExecRefused, CreateRaises, CallStates
<1>2. \/ UNCHANGED <<store, out>>
      \/ \E st, q : store' = [store EXCEPT ![r] = st] /\ out' = [out EXCEPT ![r] = q]
  BY DEF CreateRaises
<1>3. call'[r] = "clear" /\ \A p \in Request \ {r} : call'[p] = call[p]
  BY <1>1, BecomesKeeps DEF GnmiInv
<1>4. \A p \in Request \ {r} : /\ feeds'[p] = feeds[p] /\ view'[p] = view[p]
                               /\ store'[p] = store[p] /\ out'[p] = out[p]
  BY <1>1, <1>2 DEF GnmiInv, GnmiTypeOK, TelemetryTypeOK
<1>5. (faults' = <<>> => faults = <<>>) /\ faults' # <<>>
  <2>1. faults' = Append(faults, "start") /\ faults \in Seq(FaultNames)
    BY <1>1 DEF Fault, GnmiInv, GnmiTypeOK, TelemetryTypeOK
  <2> QED
    BY <2>1
<1>6. ASSUME NEW p \in Request PROVE AllOK(p)'
  <2>1. CASE p = r
    <3>1. PairOK(r)'
      BY <1>5 DEF PairOK
    <3>2. feeds'[r] = Parsed(ConfigOf(ask'[r]))
      BY <1>1 DEF GnmiInv, GnmiTypeOK, TelemetryTypeOK
    <3> QED
      BY <1>3, <2>1, <3>1, <3>2, EndingOwesNothing
  <2>2. CASE p # r
    <3>1. CallSame(p)
      BY <1>1, <1>3, <1>4, <2>2 DEF CallSame, StoreSays
    <3> QED
      BY <1>1, <1>5, <3>1, SameKeeps
  <2> QED
    BY <2>1, <2>2
<1>7. PendFits'
  <2>1. PendFits /\ (pend # None => pend.req \in Request)
    BY DEF GnmiInv, CallsInv, GnmiTypeOK, TelemetryTypeOK
  <2> QED
    BY <1>1, <1>3, <1>5, <2>1 DEF PendFits
<1> QED
  BY <1>6, <1>7 DEF CallsInv

\* The deletion of a request stops its feed and is not refused unless something failed.
LEMMA ClearStep ==
  ASSUME GnmiInv, NEW r \in Request, Clear(r)
  PROVE  CallsInv'
<1>1. /\ call[r] = "clear" /\ Becomes(r, "clearing") /\ "clearing" \in CallStates
      /\ pend = None /\ conf[r] # None /\ StopFeed(r)
      /\ pend' = [kind |-> "deleted", req |-> r, cfg |-> feeds[r]]
      /\ UNCHANGED <<conf, view, faults, ask, notifs>>
  BY DEF Clear, DeleteRequest, NewTx, CallStates
<1>2. call'[r] = "clearing" /\ \A p \in Request \ {r} : call'[p] = call[p]
  BY <1>1, BecomesKeeps DEF GnmiInv
<1>3. feeds'[r] = None /\ (\A p \in Request \ {r} : feeds'[p] = feeds[p]) /\ UNCHANGED <<store, out>>
  BY <1>1, StopKeeps DEF GnmiInv, GnmiTypeOK
<1>4. pend'.req = r /\ pend'.kind = "deleted"
  BY <1>1
<1>5. pend' # None /\ pend'.cfg = Parsed(ConfigOf(ask'[r]))
  <2>1. feeds[r] # None /\ CallOK(r)
    BY DEF GnmiInv, CallsInv, AllOK, Clear, DeleteRequest
  <2>2. feeds[r] = Parsed(ConfigOf(ask[r])) /\ ConfigOf(ask[r]) \in Configs
    BY <1>1, <2>1, AskConfigures DEF GnmiInv, CallOK
  <2> QED
    BY <1>1, <2>2, NoneAssumption
<1>6. ASSUME NEW p \in Request PROVE AllOK(p)'
  <2>1. CASE p = r
    <3>1. PairOK(r)'
      BY <1>2, <1>4, <1>5 DEF PairOK
    <3> QED
      BY <1>2, <1>3, <2>1, <3>1, EndingOwesNothing
  <2>2. CASE p # r
    <3>1. CallSame(p)
      BY <1>1, <1>2, <1>3, <2>2 DEF CallSame, StoreSays
    <3> QED
      BY <1>1, <3>1, SameKeeps
  <2> QED
    BY <2>1, <2>2
<1>7. PendFits'
  BY <1>2, <1>3, <1>4, <1>5 DEF PendFits
<1> QED
  BY <1>6, <1>7 DEF CallsInv

\* A call that has nothing to delete, or whose deletion cannot be, ends.
LEMMA ClearNoopStep ==
  ASSUME GnmiInv, NEW r \in Request, ClearNoop(r)
  PROVE  CallsInv'
<1>1. /\ call[r] = "clear" /\ End(r)
      /\ UNCHANGED <<conf, pend, feeds, store, out, view, faults>>
      /\ \/ conf[r] = None
         \/ conf[r] # None /\ feeds[r] = None
         \/ EngineBusy
  BY DEF ClearNoop, DeleteRefused, vars, serverVars
<1>2. /\ call'[r] = "ended" /\ ask' = ask
      /\ \A p \in Request \ {r} : call'[p] = call[p] /\ notifs'[p] = notifs[p]
  BY <1>1, EndKeeps DEF GnmiInv
<1>3. AllOK(r) /\ PendFits /\ (pend # None => pend.req \in Request)
  BY DEF GnmiInv, CallsInv, GnmiTypeOK, TelemetryTypeOK
<1>4. AllOK(r)'
  <2>1. PairOK(r)'
    <3>1. faults = <<>> => ~ EngineBusy
      BY <1>3 DEF PendFits, EngineBusy, InApply
    <3> QED
      BY <1>1, <1>2, <1>3, <3>1 DEF AllOK, PairOK, HasNothing
  <2> QED
    BY <1>1, <1>2, <1>3, <2>1, EndingOwesNothing DEF AllOK, CallOK
<1>5. ASSUME NEW p \in Request PROVE AllOK(p)'
  <2>1. CASE p = r
    BY <1>4, <2>1
  <2>2. CASE p # r
    <3>1. CallSame(p)
      BY <1>1, <1>2, <2>2 DEF CallSame, StoreSays
    <3> QED
      BY <1>1, <3>1, SameKeeps
  <2> QED
    BY <2>1, <2>2
<1>6. PendFits'
  BY <1>1, <1>2, <1>3 DEF PendFits
<1> QED
  BY <1>5, <1>6 DEF CallsInv

\* Committing makes the configured requests and the feeds agree again.
LEMMA CommittedStep ==
  ASSUME GnmiInv, Committed
  PROVE  CallsInv'
<1>1. PICK r \in Request : r = pend.req
  BY DEF Committed, GnmiInv, GnmiTypeOK, TelemetryTypeOK
<1>2. /\ pend # None /\ pend' = None /\ call[r] \in {"applying", "clearing"}
      /\ conf' = [conf EXCEPT ![r] = IF pend.kind = "deleted" THEN None ELSE pend.cfg]
      /\ UNCHANGED <<feeds, store, out, view, faults>>
  BY <1>1 DEF Committed, Commit, InApply, serverVars
<1>3. AllOK(r) /\ PendFits
  BY DEF GnmiInv, CallsInv
<1>4. \A p \in Request \ {r} : conf'[p] = conf[p]
  BY <1>2
<1>5. CASE call[r] = "applying"
  <2>1. Becomes(r, "initial") /\ "initial" \in CallStates /\ UNCHANGED <<ask, notifs>>
    BY <1>1, <1>5 DEF Committed, CallStates
  <2>2. call'[r] = "initial" /\ \A p \in Request \ {r} : call'[p] = call[p]
    BY <2>1, BecomesKeeps DEF GnmiInv
  <2>3. CallOK(r)'
    BY <1>2, <1>3, <2>1, <2>2 DEF AllOK, CallOK
  <2>4. PairOK(r)'
    <3> SUFFICES ASSUME faults = <<>> PROVE conf'[r] # None /\ feeds'[r] # None
      BY <1>2, <2>2 DEF PairOK
    <3>1. pend.kind = "created" /\ pend.cfg # None /\ feeds[r] # None
      BY <1>1, <1>2, <1>3, <1>5 DEF PendFits, AllOK, PairOK
    <3>2. conf'[r] = pend.cfg
      BY <1>2, <3>1 DEF GnmiInv, ConfTyped
    <3> QED
      BY <1>2, <3>1, <3>2
  <2>5. SyncOK(r)'
    <3>1. Queue(r)' = Queue(r)
      BY <1>2, <2>1 DEF Queue
    <3> QED
      BY <1>2, <1>3, <1>5, <2>2, <3>1 DEF AllOK, SyncOK
  <2>6. Answered(r)'
    <3>1. ASSUME NEW i, NEW l
          PROVE  WillKnow(r, i, l)' = WillKnow(r, i, l) /\ StoreSays(r, i, l)' = StoreSays(r, i, l)
      BY <1>2, <2>1, KnownSame
    <3> QED
      BY <1>2, <1>3, <1>5, <2>2, <3>1 DEF AllOK, Answered, Served
  <2>7. ASSUME NEW p \in Request PROVE AllOK(p)'
    <3>1. CASE p = r
      BY <2>3, <2>4, <2>5, <2>6, <3>1 DEF AllOK
    <3>2. CASE p # r
      <4>1. CallSame(p)
        BY <1>2, <1>4, <2>1, <2>2, <3>2 DEF CallSame, StoreSays
      <4> QED
        BY <1>1, <1>2, <3>2, <4>1, SameKeeps
    <3> QED
      BY <3>1, <3>2
  <2> QED
    BY <1>2, <2>7 DEF CallsInv, PendFits
<1>6. CASE call[r] = "clearing"
  <2>1. End(r)
    BY <1>1, <1>6 DEF Committed
  <2>2. /\ call'[r] = "ended" /\ ask' = ask
        /\ \A p \in Request \ {r} : call'[p] = call[p] /\ notifs'[p] = notifs[p]
    BY <2>1, EndKeeps DEF GnmiInv
  <2>3. PairOK(r)'
    <3> SUFFICES ASSUME faults = <<>> PROVE conf'[r] = None /\ feeds'[r] = None
      BY <1>2, <2>2 DEF PairOK, HasNothing
    <3>1. pend.kind = "deleted" /\ feeds[r] = None
      BY <1>1, <1>2, <1>3, <1>6 DEF PendFits
    <3>2. conf'[r] = None
      BY <1>2, <3>1 DEF GnmiInv, ConfTyped
    <3> QED
      BY <1>2, <3>1, <3>2
  <2>4. AllOK(r)'
    BY <1>2, <1>3, <2>2, <2>3, EndingOwesNothing DEF AllOK, CallOK
  <2>5. ASSUME NEW p \in Request PROVE AllOK(p)'
    <3>1. CASE p = r
      BY <2>4, <3>1
    <3>2. CASE p # r
      <4>1. CallSame(p)
        BY <1>2, <1>4, <2>2, <3>2 DEF CallSame, StoreSays
      <4> QED
        BY <1>1, <1>2, <3>2, <4>1, SameKeeps
    <3> QED
      BY <3>1, <3>2
  <2> QED
    BY <1>2, <2>5 DEF CallsInv, PendFits
<1> QED
  BY <1>2, <1>5, <1>6

\* A step that concerns one call.
LEMMA OneChanges ==
  ASSUME GnmiInv, NEW r \in Request, \A p \in Request \ {r} : CallSame(p),
         faults' = <<>> => faults = <<>>, pend' = pend \/ pend = None \/ pend.req = r,
         AllOK(r)', PendFits'
  PROVE  CallsInv'
<1>1. ASSUME NEW p \in Request PROVE AllOK(p)'
  <2>1. CASE p = r
    BY <2>1
  <2>2. CASE p # r
    BY <2>2, SameKeeps
  <2> QED
    BY <2>1, <2>2
<1> QED
  BY <1>1 DEF CallsInv

\* The first notifications of a call are the state of its feed, and they are all there is.
LEMMA ExecStep ==
  ASSUME GnmiInv, NEW r \in Request, Exec(r)
  PROVE  CallsInv'
<1> DEFINE c == ConfigOf(ask[r])
           d == Parsed(c)
           st == Retrieved(d, store[r])
<1>1. /\ call[r] = "exec" /\ Becomes(r, "applying") /\ "applying" \in CallStates
      /\ UNCHANGED <<conf, faults, ask, notifs>>
      /\ pend = None /\ pend' = [kind |-> "created", req |-> r, cfg |-> c]
      /\ Valid(d) /\ Start(r, d)
      /\ view' = [view EXCEPT ![r] = [i \in Sid |-> [l \in Leaf |-> None]]]
  BY DEF Exec, CreateRequest, Configured, NewTx, CallStates
<1>2. TelemetryTypeOK /\ GnmiTypeOK
  BY DEF GnmiInv, GnmiTypeOK
<1>3. c \in Configs /\ c # None
  BY <1>1, <1>2, AskConfigures
<1>4. IsFeed(d)
  BY <1>1, <1>3, ParsedIsFeed
<1>5. pend' # None /\ pend'.kind = "created" /\ pend'.req = r /\ pend'.cfg = c
  BY <1>1, <1>3, NoneAssumption
<1>6. HasNothing(r) /\ out[r] = <<>> /\ notifs[r] = <<>>
  BY <1>1 DEF GnmiInv, CallsInv, AllOK, CallOK
<1>7. /\ feeds'[r] = d /\ store'[r] = st
      /\ \A p \in Request \ {r} : feeds'[p] = feeds[p] /\ store'[p] = store[p]
  BY <1>1, <1>2, <1>4, StartKeeps
<1>8. call'[r] = "applying" /\ \A p \in Request \ {r} : call'[p] = call[p]
  BY <1>1, <1>2, BecomesKeeps
<1>9. /\ \A i \in Sid, l \in Leaf : view'[r][i][l] = None
      /\ \A p \in Request \ {r} : view'[p] = view[p]
  BY <1>1, <1>2, ViewReset
<1>10. st \in Entries
  BY <1>2, <1>4, RetrievedKeeps DEF TelemetryTypeOK
<1>11. out'[r] = out[r] \o Told(d, st) \o <<Sync>>
  BY <1>1, <1>2 DEF Start, TelemetryTypeOK
<1>12. PICK q : SentBy(q, r, d)
  BY <1>1, <1>2, <1>4, StartTells
<1> HIDE DEF st, d
<1>13. notifs'[r] \o out'[r] = q /\ q = Told(d, st) \o <<Sync>>
  <2>1. Current(d, st) \in Seq(Notification)
    BY <1>4, <1>10, CurrentTells
  <2>2. Told(d, st) \in Seq(Notification)
    BY <2>1 DEF Told
  <2>3. out'[r] = Told(d, st) \o <<Sync>>
    <3>1. out[r] \o Told(d, st) = Told(d, st)
      BY <1>6, <2>2
    <3> QED
      BY <1>11, <3>1
  <2>4. q \in Seq(Notification) /\ out'[r] = out[r] \o q
    BY <1>12 DEF SentBy
  <2>5. out'[r] = q
    BY <1>6, <2>4
  <2>6. notifs'[r] \o q = q
    BY <1>1, <1>6, <2>4
  <2> QED
    BY <2>3, <2>5, <2>6
<1>14. CallOK(r)'
  BY <1>1, <1>7, <1>8 DEF CallOK, d
<1>15. PairOK(r)'
  BY <1>1, <1>4, <1>5, <1>6, <1>7, <1>8 DEF PairOK, HasNothing, IsFeed
<1>16. SyncOK(r)'
  <2>1. OneSync(q)
    BY <1>4, <1>10, <1>13, CurrentSyncs
  <2>2. Queue(r)' = q
    BY <1>13 DEF Queue
  <2> QED
    BY <1>8, <2>1, <2>2 DEF SyncOK
<1>17. Answered(r)'
  <2> SUFFICES ASSUME ~ d.updatesOnly, NEW i \in DOMAIN d.subs, NEW l \in Leaf
               PROVE  WillKnow(r, i, l)' = StoreSays(r, i, l)'
    BY <1>7 DEF Answered
  <2>1. i \in Sid
    BY <1>4 DEF IsFeed
  <2>2. After(q, i, l, None) = IF store'[r][i][l] # None THEN store'[r][i][l].val ELSE None
    BY <1>12, <2>1 DEF SentBy
  <2>3. WillKnow(r, i, l)' = After(q, i, l, None)
    <3>1. WillKnow(r, i, l)' = After(notifs'[r] \o out'[r], i, l, view'[r][i][l])
      BY WillKnowIsAfter, Zenon
    <3>2. view'[r][i][l] = None
      BY <1>9, <2>1
    <3> QED
      BY <1>13, <3>1, <3>2
  <2> QED
    BY <2>2, <2>3 DEF StoreSays
<1>18. AllOK(r)'
  BY <1>14, <1>15, <1>16, <1>17 DEF AllOK
<1>19. PendFits'
  BY <1>3, <1>5, <1>8 DEF PendFits
<1>20. \A p \in Request \ {r} : CallSame(p)
  <2>1. \A p \in Request \ {r} : out'[p] = out[p]
    BY <1>12 DEF SentBy
  <2> QED
    BY <1>1, <1>7, <1>8, <1>9, <2>1 DEF CallSame, StoreSays
<1> QED
  BY <1>1, <1>18, <1>19, <1>20, OneChanges

\* A fault is a fault ever after.
LEMMA FaultNoted ==
  ASSUME GnmiTypeOK, NEW f, Fault(f)
  PROVE  faults' # <<>>
<1>1. faults' = Append(faults, f) /\ faults \in Seq(FaultNames)
  BY DEF Fault, GnmiTypeOK, TelemetryTypeOK
<1> QED
  BY <1>1

\* The telemetry server has forgotten the feeds of all calls.
LEMMA LostStep ==
  ASSUME GnmiInv, TelemetryRestart \/ \E r \in Request : ExecUnserved(r)
  PROVE  CallsInv'
<1>1. MemoryLost /\ Fault("crash") /\ pend' = None /\ UNCHANGED <<out, notifs>>
  BY DEF TelemetryRestart, Restart, gnmiVars, ExecUnserved
<1>2. faults' # <<>>
  BY <1>1, FaultNoted DEF GnmiInv
<1>3. \A p \in Request : feeds'[p] = None
  BY <1>1 DEF MemoryLost
<1>4. ASSUME NEW p \in Request, call'[p] \in {"none", "exec"} PROVE call'[p] = call[p] /\ conf'[p] = conf[p]
  <2>1. CASE TelemetryRestart
    BY <2>1 DEF TelemetryRestart, Restart, gnmiVars
  <2>2. CASE \E r \in Request : ExecUnserved(r)
    <3>1. PICK r \in Request : ExecUnserved(r)
      BY <2>2
    <3>2. Becomes(r, "initial") /\ conf' = [conf EXCEPT ![r] = ConfigOf(ask[r])] /\ "initial" \in CallStates
      BY <3>1 DEF ExecUnserved, CallStates
    <3>3. call'[r] = "initial" /\ \A s \in Request \ {r} : call'[s] = call[s]
      BY <3>2, BecomesKeeps DEF GnmiInv
    <3>4. p # r
      BY <1>4, <3>3
    <3> QED
      BY <3>2, <3>3, <3>4 DEF GnmiInv, ConfTyped
  <2> QED
    BY <2>1, <2>2
<1>5. ASSUME NEW p \in Request PROVE AllOK(p)'
  <2>1. CallOK(p)
    BY DEF GnmiInv, CallsInv, AllOK
  <2>2. CallOK(p)'
    BY <1>1, <1>3, <1>4, <2>1 DEF CallOK, HasNothing
  <2> QED
    BY <1>2, <1>3, <2>2 DEF AllOK, PairOK, SyncOK, Answered
<1>6. PendFits'
  BY <1>1 DEF PendFits
<1> QED
  BY <1>5, <1>6 DEF CallsInv

\* apply() has not waited for the end of the transaction: the call turns to its end.
LEMMA GiveUpStep ==
  ASSUME GnmiInv, GiveUp
  PROVE  CallsInv'
<1>1. PICK r \in Request : r = pend.req
  BY DEF GiveUp, GnmiInv, GnmiTypeOK, TelemetryTypeOK
<1>2. Fault("giveup") /\ UNCHANGED <<conf, pend, feeds, store, out, view>>
  BY DEF GiveUp, serverVars
<1>3. /\ call'[r] \in {"clear", "ended"} /\ ask' = ask
      /\ \A p \in Request \ {r} : call'[p] = call[p] /\ notifs'[p] = notifs[p]
  <2>1. CASE call[r] = "applying"
    <3>1. Becomes(r, "clear") /\ "clear" \in CallStates /\ UNCHANGED <<ask, notifs>>
      BY <1>1, <2>1 DEF GiveUp, CallStates
    <3> QED
      BY <3>1, BecomesKeeps DEF GnmiInv
  <2>2. CASE call[r] # "applying"
    <3>1. End(r)
      BY <1>1, <2>2 DEF GiveUp
    <3> QED
      BY <3>1, EndKeeps DEF GnmiInv
  <2> QED
    BY <2>1, <2>2
<1>4. faults' # <<>>
  BY <1>2, FaultNoted DEF GnmiInv
<1>5. AllOK(r)'
  <2>1. CallOK(r)
    BY DEF GnmiInv, CallsInv, AllOK
  <2>2. PairOK(r)'
    BY <1>4 DEF PairOK
  <2> QED
    BY <1>2, <1>3, <2>1, <2>2, EndingOwesNothing DEF CallOK
<1>6. PendFits'
  <2>1. PendFits
    BY DEF GnmiInv, CallsInv
  <2> QED
    BY <1>1, <1>2, <1>3, <1>4, <2>1 DEF PendFits
<1>7. \A p \in Request \ {r} : CallSame(p)
  BY <1>2, <1>3 DEF CallSame, StoreSays
<1> QED
  BY <1>2, <1>4, <1>5, <1>6, <1>7, OneChanges

\* What the engine's timer reverts belongs to a call that is ending.
LEMMA TimerStep ==
  ASSUME GnmiInv, TimerReverts
  PROVE  CallsInv'
<1>1. PICK r \in Request : r = pend.req
  BY DEF TimerReverts, EngineBusy, GnmiInv, GnmiTypeOK, TelemetryTypeOK
<1>2. /\ pend # None /\ pend' = None /\ call[r] \notin {"applying", "clearing"}
      /\ UNCHANGED <<conf, view, faults, call, ask, notifs>>
  BY <1>1 DEF TimerReverts, EngineBusy, InApply, RevertHandler, gnmiVars
<1>3. TelemetryTypeOK /\ PendFits /\ CallOK(r)
  BY DEF GnmiInv, GnmiTypeOK, CallsInv, AllOK
<1>4. call[r] \in {"clear", "ended"} /\ faults # <<>>
  BY <1>1, <1>2, <1>3 DEF PendFits
<1>5. /\ feeds'[r] # None => feeds'[r] = Parsed(ConfigOf(ask[r]))
      /\ \A p \in Request \ {r} : feeds'[p] = feeds[p] /\ store'[p] = store[p] /\ out'[p] = out[p]
  <2>1. CASE pend.kind = "created"
    <3>1. StopFeed(r)
      BY <1>1, <2>1 DEF TimerReverts, RevertHandler
    <3>2. feeds'[r] = None /\ (\A p \in Request \ {r} : feeds'[p] = feeds[p]) /\ UNCHANGED <<store, out>>
      BY <1>3, <3>1, StopKeeps
    <3> QED
      BY <3>2
  <2>2. CASE pend.kind = "deleted"
    <3>1. Start(r, pend.cfg) /\ IsFeed(pend.cfg)
      BY <1>1, <1>2, <1>3, <2>2 DEF TimerReverts, RevertHandler, TelemetryTypeOK
    <3>2. feeds'[r] = pend.cfg /\ \A p \in Request \ {r} : feeds'[p] = feeds[p] /\ store'[p] = store[p]
      BY <1>3, <3>1, StartKeeps
    <3>3. pend.cfg = Parsed(ConfigOf(ask[r]))
      BY <1>1, <1>2, <1>3, <2>2 DEF PendFits
    <3>4. \A p \in Request \ {r} : out'[p] = out[p]
      BY <1>3, <3>1, StartTells DEF SentBy
    <3> QED
      BY <3>2, <3>3, <3>4
  <2>3. CASE pend.kind \notin {"created", "deleted"}
    <3>1. UNCHANGED <<feeds, store, out>>
      BY <2>3 DEF TimerReverts, RevertHandler, serverVars
    <3> QED
      BY <1>3, <3>1 DEF CallOK
  <2> QED
    BY <2>1, <2>2, <2>3
<1>6. AllOK(r)'
  <2>1. PairOK(r)'
    BY <1>2, <1>4 DEF PairOK
  <2> QED
    BY <1>2, <1>4, <1>5, <2>1, EndingOwesNothing
<1>7. PendFits'
  BY <1>2 DEF PendFits
<1>8. \A p \in Request \ {r} : CallSame(p)
  BY <1>2, <1>5 DEF CallSame, StoreSays
<1> QED
  BY <1>1, <1>2, <1>6, <1>7, <1>8, OneChanges

-----------------------------------------------------------------------------
(* Notifications on their way.                                             *)

\* sysrepo's thread only moves a notification on.
LEMMA PassStep ==
  ASSUME GnmiInv, NEW r \in Request, NotificationCb(r)
  PROVE  CallsInv'
<1>1. UNCHANGED <<conf, pend, feeds, store, view, faults, call, ask>>
  BY DEF NotificationCb, serverVars
<1>2. /\ \A p \in Request \ {r} : notifs'[p] = notifs[p] /\ out'[p] = out[p]
      /\ out[r] # <<>> /\ out'[r] = Tail(out[r])
      /\ notifs'[r] = IF Registered(r) THEN Append(notifs[r], Head(out[r])) ELSE notifs[r]
  BY PassKeeps DEF GnmiInv
<1>3. AllOK(r) /\ PendFits /\ notifs[r] \in Seq(Notification) /\ out[r] \in Seq(Notification)
  BY DEF GnmiInv, CallsInv, GnmiTypeOK, TelemetryTypeOK
<1>4. call[r] \notin {"none", "exec"}
  BY <1>2, <1>3 DEF AllOK, CallOK
<1>5. AllOK(r)'
  <2>1. CASE call[r] = "ended"
    <3>1. PairOK(r)'
      BY <1>1, <1>3 DEF AllOK, PairOK, HasNothing
    <3> QED
      BY <1>1, <1>3, <2>1, <3>1, EndingOwesNothing DEF AllOK, CallOK
  <2>2. CASE call[r] # "ended"
    <3>1. notifs'[r] = Append(notifs[r], Head(out[r]))
      BY <1>2, <1>4, <2>2 DEF Registered
    <3>2. notifs'[r] \o out'[r] = notifs[r] \o out[r]
      BY <1>2, <1>3, <3>1, QueueMoves
    <3>3. Queue(r)' = Queue(r)
      BY <3>2 DEF Queue
    <3>4. CallOK(r)' /\ PairOK(r)' /\ SyncOK(r)'
      BY <1>1, <1>3, <1>4, <3>3 DEF AllOK, CallOK, PairOK, SyncOK, HasNothing
    <3>5. ASSUME NEW i, NEW l PROVE WillKnow(r, i, l)' = WillKnow(r, i, l)
      BY <1>1, <3>2 DEF WillKnow
    <3>6. ASSUME NEW i, NEW l PROVE StoreSays(r, i, l)' = StoreSays(r, i, l)
      BY <1>1 DEF StoreSays
    <3>7. Answered(r)'
      BY <1>1, <1>3, <3>5, <3>6 DEF AllOK, Answered
    <3> QED
      BY <3>4, <3>7 DEF AllOK
  <2> QED
    BY <2>1, <2>2
<1>6. PendFits'
  BY <1>1, <1>3 DEF PendFits
<1>7. \A p \in Request \ {r} : CallSame(p)
  BY <1>1, <1>2 DEF CallSame, StoreSays
<1> QED
  BY <1>1, <1>5, <1>6, <1>7, OneChanges

\* What the client is sent is the oldest on its way; after the SYNC_RESPONSE there is
\* nothing more of a ONCE or POLL call.
LEMMA YieldStep ==
  ASSUME GnmiInv, NEW r \in Request, Yield(r)
  PROVE  CallsInv'
<1> DEFINE n == Head(notifs[r])
           q == notifs[r] \o out[r]
<1>1. /\ UNCHANGED <<conf, pend, feeds, store, out, faults, ask>>
      /\ call[r] \in {"initial", "synced", "stream"}
      /\ notifs[r] # <<>> /\ Send(r, Head(notifs[r]), Tail(notifs[r]))
  BY DEF Yield, Send, Pulls, serverVars
<1>2. /\ notifs'[r] = Tail(notifs[r]) /\ \A p \in Request \ {r} : notifs'[p] = notifs[p]
      /\ view' \in [Request -> [Sid -> [Leaf -> Value \cup {None}]]]
      /\ \A p \in Request, i \in Sid, l \in Leaf :
           view'[p][i][l] = IF p = r /\ About(n, i, l) THEN n.val ELSE view[p][i][l]
      /\ \A p \in Request \ {r} : call'[p] = call[p]
      /\ call'[r] = IF n.type = "SYNC_RESPONSE" /\ call[r] = "initial" THEN "synced" ELSE call[r]
  BY <1>1, SendKeeps DEF GnmiInv
<1>3. AllOK(r) /\ PendFits /\ notifs[r] \in Seq(Notification) /\ out[r] \in Seq(Notification)
  BY DEF GnmiInv, CallsInv, GnmiTypeOK, TelemetryTypeOK
<1> HIDE DEF n
<1>4. q \in Seq(Notification) /\ q # <<>> /\ Head(q) = n /\ Tail(q) = notifs'[r] \o out'[r]
  <2>1. Head(q) = Head(notifs[r]) /\ Tail(q) = Tail(notifs[r]) \o out[r] /\ q # <<>>
    BY <1>1, <1>3, QueueSends
  <2> QED
    BY <1>1, <1>2, <1>3, <2>1, ConcatProperties DEF n
<1>5. Queue(r) = q /\ Queue(r)' = Tail(q)
  BY <1>4 DEF Queue
<1> HIDE DEF q
<1>6. CallOK(r)' /\ PairOK(r)'
  BY <1>1, <1>2, <1>3 DEF AllOK, CallOK, PairOK, HasNothing
<1>7. SyncOK(r)'
  <2> SUFFICES ASSUME feeds[r] # None, feeds[r].mode # "STREAM", call'[r] # "stream"
               PROVE  /\ call'[r] = "initial" => OneSync(Tail(q))
                      /\ call'[r] = "synced" => Tail(q) = <<>>
    BY <1>1, <1>2, <1>5 DEF SyncOK
  <2>1. call[r] = "initial"
    BY <1>1, <1>2, <1>3, <1>4, <1>5 DEF AllOK, SyncOK
  <2>2. OneSync(q)
    BY <1>3, <1>5, <2>1 DEF AllOK, SyncOK
  <2>3. IF n.type = "SYNC_RESPONSE" THEN Tail(q) = <<>> ELSE OneSync(Tail(q))
    BY <1>4, <2>2, OneSyncTail
  <2> QED
    BY <1>2, <2>1, <2>3
<1>8. Answered(r)'
  <2> SUFFICES ASSUME feeds[r] # None, ~ feeds[r].updatesOnly, faults = <<>> \/ feeds[r].mode # "STREAM",
                      NEW i \in DOMAIN feeds[r].subs, NEW l \in Leaf
               PROVE  WillKnow(r, i, l)' = StoreSays(r, i, l)'
    BY <1>1 DEF Answered
  <2>1. i \in Sid
    BY DEF GnmiInv, GnmiTypeOK, TelemetryTypeOK, IsFeed
  <2>2. WillKnow(r, i, l) = StoreSays(r, i, l)
    BY <1>1, <1>3 DEF AllOK, Answered, Served
  <2>3. WillKnow(r, i, l) = After(q, i, l, view[r][i][l])
    BY <1>5, WillKnowIsAfter, Zenon
  <2>4. WillKnow(r, i, l)' = After(Tail(q), i, l, view'[r][i][l])
    BY <1>4, WillKnowIsAfter, Zenon
  <2>5. view'[r][i][l] = IF About(Head(q), i, l) THEN Head(q).val ELSE view[r][i][l]
    BY <1>2, <1>4, <2>1
  <2>6. After(q, i, l, view[r][i][l]) =
          After(Tail(q), i, l, IF About(Head(q), i, l) THEN Head(q).val ELSE view[r][i][l])
    BY <1>4, AfterTail
  <2>7. WillKnow(r, i, l)' = WillKnow(r, i, l)
    BY <2>3, <2>4, <2>5, <2>6
  <2>8. StoreSays(r, i, l)' = StoreSays(r, i, l)
    BY <1>1 DEF StoreSays
  <2> QED
    BY <2>2, <2>7, <2>8
<1>9. AllOK(r)'
  BY <1>6, <1>7, <1>8 DEF AllOK
<1>10. PendFits'
  <2>1. pend # None => pend.req # r
    BY <1>1, <1>3 DEF PendFits
  <2> QED
    BY <1>1, <1>2, <1>3, <2>1 DEF PendFits, GnmiInv, GnmiTypeOK, TelemetryTypeOK
<1>11. \A p \in Request \ {r} : CallSame(p)
  <2>1. ASSUME NEW p \in Request \ {r} PROVE view'[p] = view[p]
    <3>1. \A i \in Sid, l \in Leaf : view'[p][i][l] = view[p][i][l]
      BY <1>2, <2>1
    <3>2. view[p] \in [Sid -> [Leaf -> Value \cup {None}]] /\ view'[p] \in [Sid -> [Leaf -> Value \cup {None}]]
      BY <1>2, <2>1 DEF GnmiInv, GnmiTypeOK, TelemetryTypeOK
    <3> QED
      BY <3>1, <3>2
  <2> QED
    BY <1>1, <1>2, <2>1 DEF CallSame, StoreSays
<1> QED
  BY <1>1, <1>9, <1>10, <1>11, OneChanges

\* A poll is answered like a start, to a client that has been sent all before.
LEMMA PollStep ==
  ASSUME GnmiInv, NEW r \in Request, PollNotifs(r)
  PROVE  CallsInv'
<1> DEFINE st == Retrieved(feeds[r], store[r])
<1>1. /\ UNCHANGED <<conf, pend, feeds, view, faults, ask, notifs>>
      /\ call[r] = "polling" /\ Poll(r) /\ Becomes(r, "initial") /\ "initial" \in CallStates
      /\ out' = [out EXCEPT ![r] = Current(feeds[r], st) \o <<Sync>>]
  BY DEF PollNotifs, Poll, CallStates
<1>2. TelemetryTypeOK /\ GnmiTypeOK /\ AllOK(r) /\ PendFits /\ notifs[r] \in Seq(Notification)
  BY DEF GnmiInv, GnmiTypeOK, CallsInv
<1>3. /\ feeds[r] # None /\ IsFeed(feeds[r]) /\ feeds[r].mode = "POLL"
      /\ store'[r] = st /\ out[r] = <<>>
      /\ \A p \in Request \ {r} : store'[p] = store[p] /\ out'[p] = out[p]
      /\ \A i \in Sid, l \in Leaf : \A v :
           After(out'[r], i, l, v) =
             IF i \in DOMAIN feeds[r].subs /\ store'[r][i][l] # None THEN store'[r][i][l].val ELSE v
      /\ out' \in [Request -> Seq(Notification)]
  BY <1>1, <1>2, PollKeeps
<1>4. call'[r] = "initial" /\ \A p \in Request \ {r} : call'[p] = call[p]
  BY <1>1, <1>2, BecomesKeeps
<1>5. Queue(r) = <<>>
  BY <1>1, <1>2, <1>3 DEF AllOK, SyncOK
<1>6. notifs[r] = <<>>
  <2>1. notifs[r] \o out[r] = notifs[r]
    BY <1>2, <1>3
  <2> QED
    BY <1>5, <2>1 DEF Queue
<1>7. notifs'[r] \o out'[r] = out'[r]
  BY <1>1, <1>3, <1>6
<1>8. out'[r] = Current(feeds[r], st) \o <<Sync>>
  BY <1>1, <1>2 DEF TelemetryTypeOK
<1>9. /\ st \in Entries
      /\ \A i \in Sid, l \in Leaf : st[i][l] = None => store[r][i][l] = None
  BY <1>2, <1>3, RetrievedKeeps DEF TelemetryTypeOK
<1> HIDE DEF st
<1>10. CallOK(r)' /\ PairOK(r)'
  BY <1>1, <1>2, <1>4 DEF AllOK, CallOK, PairOK, HasNothing
<1>11. SyncOK(r)'
  <2>1. OneSync(out'[r])
    BY <1>3, <1>8, <1>9, CurrentSyncs
  <2>2. Queue(r)' = out'[r]
    BY <1>7 DEF Queue
  <2> QED
    BY <1>4, <2>1, <2>2 DEF SyncOK
<1>12. Answered(r)'
  <2> SUFFICES ASSUME ~ feeds[r].updatesOnly, NEW i \in DOMAIN feeds[r].subs, NEW l \in Leaf
               PROVE  WillKnow(r, i, l)' = StoreSays(r, i, l)'
    BY <1>1 DEF Answered
  <2>1. i \in Sid
    BY <1>3 DEF IsFeed
  <2>2. WillKnow(r, i, l) = StoreSays(r, i, l)
    BY <1>1, <1>2, <1>3 DEF AllOK, Answered, Served
  <2>3. WillKnow(r, i, l) = view[r][i][l]
    <3>1. WillKnow(r, i, l) = After(Queue(r), i, l, view[r][i][l])
      BY WillKnowIsAfter, Zenon
    <3>2. After(<<>>, i, l, view[r][i][l]) = view[r][i][l]
      BY AfterNone
    <3> QED
      BY <1>5, <3>1, <3>2
  <2>4. WillKnow(r, i, l)' = After(out'[r], i, l, view[r][i][l])
    <3>1. WillKnow(r, i, l)' = After(notifs'[r] \o out'[r], i, l, view'[r][i][l])
      BY WillKnowIsAfter, Zenon
    <3> QED
      BY <1>1, <1>7, <3>1
  <2>5. WillKnow(r, i, l)' = IF store'[r][i][l] # None THEN store'[r][i][l].val ELSE view[r][i][l]
    BY <1>3, <2>1, <2>4
  <2>6. store'[r][i][l] = None => StoreSays(r, i, l) = None
    BY <1>3, <1>9, <2>1 DEF StoreSays
  <2> QED
    BY <2>2, <2>3, <2>5, <2>6 DEF StoreSays
<1>13. AllOK(r)'
  BY <1>10, <1>11, <1>12 DEF AllOK
<1>14. PendFits'
  <2>1. pend # None => pend.req # r
    BY <1>1, <1>2 DEF PendFits
  <2> QED
    BY <1>1, <1>2, <1>4, <2>1 DEF PendFits, TelemetryTypeOK
<1>15. \A p \in Request \ {r} : CallSame(p)
  BY <1>1, <1>3, <1>4 DEF CallSame, StoreSays
<1> QED
  BY <1>1, <1>13, <1>14, <1>15, OneChanges

\* A sample of a stream is told as it is stored.
LEMMA SampleStep ==
  ASSUME GnmiInv, NEW r \in Request, NEW s \in Sid, TelemetryLoop(r, s)
  PROVE  CallsInv'
<1>1. /\ UNCHANGED <<conf, pend, feeds, view, call, ask, notifs>>
      /\ Due(r, s) /\ LoopTask(r, s)
  BY DEF TelemetryLoop, LoopTask, Sample, SampleRaises, gnmiVars
<1>2. TelemetryTypeOK /\ AllOK(r) /\ PendFits /\ notifs[r] \in Seq(Notification) /\ out[r] \in Seq(Notification)
  BY DEF GnmiInv, GnmiTypeOK, CallsInv, TelemetryTypeOK
<1>3. feeds[r] # None /\ IsFeed(feeds[r]) /\ feeds[r].mode = "STREAM"
  BY <1>1, <1>2, SampleSets
<1>4. call[r] \notin {"none", "exec"}
  BY <1>2, <1>3 DEF AllOK, CallOK, HasNothing
<1>5. CallOK(r)' /\ SyncOK(r)'
  BY <1>1, <1>2, <1>3, <1>4 DEF AllOK, CallOK, SyncOK
<1>6. PendFits' \/ faults' # faults
  BY <1>1, <1>2 DEF PendFits
<1>7. CASE Sample(r, s)
  <2>1. faults' = faults
    BY <1>7 DEF Sample
  <2>2. PICK X, U, D : Sampled(X, U, D, r, s)
    BY <1>2, <1>7, SampleSampled
  <2>3. /\ U \in SUBSET Leaf /\ D \in SUBSET Leaf /\ U \cap D = {} /\ \A m \in U : data[m] \in Value
        /\ HasStored(store', r, s, U, D) /\ out' = [out EXCEPT ![r] = @ \o Reports(s, U, D)]
    BY <2>2 DEF Sampled
  <2>4. Reports(s, U, D) \in Seq(Notification)
    BY <2>3, ReportsTell
  <2>5. out'[r] = out[r] \o Reports(s, U, D) /\ \A p \in Request \ {r} : out'[p] = out[p]
    BY <1>2, <2>3, <2>4, OutGrows DEF TelemetryTypeOK
  <2>6. PairOK(r)'
    BY <1>1, <1>2, <2>1 DEF AllOK, PairOK, HasNothing
  <2>7. Answered(r)'
    <3> SUFFICES ASSUME call[r] \in Served, ~ feeds[r].updatesOnly, faults = <<>>,
                        NEW i \in DOMAIN feeds[r].subs, NEW l \in Leaf
                 PROVE  WillKnow(r, i, l)' = StoreSays(r, i, l)'
      BY <1>1, <1>3, <2>1 DEF Answered
    <3> DEFINE q == notifs[r] \o out[r]
               rep == Reports(s, U, D)
               k == After(q, i, l, view[r][i][l])
    <3>1. i \in Sid
      BY <1>3 DEF IsFeed
    <3>2. k = StoreSays(r, i, l)
      <4>1. WillKnow(r, i, l) = StoreSays(r, i, l)
        BY <1>2, <1>3 DEF AllOK, Answered
      <4>2. WillKnow(r, i, l) = After(Queue(r), i, l, view[r][i][l])
        BY WillKnowIsAfter, Zenon
      <4> QED
        BY <4>1, <4>2 DEF Queue
    <3>3. q \in Seq(Notification) /\ notifs'[r] \o out'[r] = q \o rep
      <4> HIDE DEF rep
      <4>1. q \in Seq(Notification)
        BY <1>2, ConcatProperties
      <4>2. notifs'[r] \o out'[r] = notifs[r] \o (out[r] \o rep)
        BY <1>1, <2>5 DEF rep
      <4>3. rep \in Seq(Notification)
        BY <2>4 DEF rep
      <4>4. \A a, b, e \in Seq(Notification) : a \o (b \o e) = (a \o b) \o e
        BY ConcatAssociative
      <4>5. notifs[r] \o (out[r] \o rep) = (notifs[r] \o out[r]) \o rep
        BY <1>2, <4>3, <4>4
      <4> QED
        BY <4>1, <4>2, <4>5
    <3>4. WillKnow(r, i, l)' = After(q \o rep, i, l, view[r][i][l])
      <4>1. WillKnow(r, i, l)' = After(notifs'[r] \o out'[r], i, l, view'[r][i][l])
        BY WillKnowIsAfter, Zenon
      <4> HIDE DEF q, rep
      <4> QED
        BY <1>1, <3>3, <4>1
    <3> HIDE DEF q
    <3>5. After(q \o rep, i, l, view[r][i][l]) = After(rep, i, l, k)
      BY <2>4, <3>3, AfterConcat
    <3>6. After(rep, i, l, k) = IF i = s /\ l \in U THEN data[l] ELSE IF i = s /\ l \in D THEN None ELSE k
      BY <2>3, ReportsKnown
    <3>7. store'[r][i][l] = IF i = s /\ l \in U THEN Fresh(l)
                            ELSE IF i = s /\ l \in D THEN None ELSE store[r][i][l]
      BY <2>3, <3>1 DEF HasStored
    <3>8. l \in U => Fresh(l).val = data[l] /\ Fresh(l) # None
      <4> SUFFICES ASSUME l \in U PROVE Fresh(l).val = data[l] /\ Fresh(l) # None
        OBVIOUS
      <4>1. Fresh(l) \in [val : Value, age : Nat] /\ Fresh(l).val = data[l]
        BY <2>3 DEF Fresh
      <4> QED
        BY <4>1, NoneAssumption
    <3> HIDE DEF k, rep
    <3>9. StoreSays(r, i, l)' = IF i = s /\ l \in U THEN data[l]
                                ELSE IF i = s /\ l \in D THEN None ELSE StoreSays(r, i, l)
      BY <3>7, <3>8 DEF StoreSays
    <3> QED
      BY <3>2, <3>4, <3>5, <3>6, <3>9
  <2>8. AllOK(r)'
    BY <1>5, <2>6, <2>7 DEF AllOK
  <2>9. \A p \in Request \ {r} : CallSame(p)
    <3>1. ASSUME NEW p \in Request \ {r}, NEW i \in Sid, NEW l \in Leaf
          PROVE  StoreSays(p, i, l)' = StoreSays(p, i, l)
      <4>1. store'[p][i][l] = store[p][i][l]
        BY <2>3, <3>1 DEF HasStored
      <4> QED
        BY <4>1 DEF StoreSays
    <3> QED
      BY <1>1, <2>5, <3>1 DEF CallSame
  <2> QED
    BY <1>1, <1>6, <2>1, <2>8, <2>9, OneChanges
<1>8. CASE SampleRaises(r, s)
  <2>1. Fault("sample")
    BY <1>8 DEF SampleRaises
  <2>2. faults' # <<>>
    BY <2>1, FaultNoted DEF GnmiInv
  <2>3. AllOK(r)'
    BY <1>1, <1>3, <1>5, <2>2 DEF AllOK, PairOK, Answered
  <2>4. PendFits'
    BY <1>1, <1>2, <2>2 DEF PendFits
  <2>5. \A p \in Request \ {r} : out'[p] = out[p] /\ store'[p] = store[p]
    <3>1. store = [p \in Request |-> store[p]] /\ out = [p \in Request |-> out[p]]
      BY <1>2 DEF TelemetryTypeOK
    <3>2. ASSUME NEW U, NEW D, NEW q,
                 store' = Stored(r, s, U, D), out' = [out EXCEPT ![r] = q]
          PROVE  \A p \in Request \ {r} : out'[p] = out[p] /\ store'[p] = store[p]
      BY <3>1, <3>2 DEF Stored
    <3> QED
      BY <1>8, <3>2 DEF SampleRaises
  <2>6. \A p \in Request \ {r} : CallSame(p)
    BY <1>1, <2>5 DEF CallSame, StoreSays
  <2> QED
    BY <1>1, <2>2, <2>3, <2>4, <2>6, OneChanges
<1> QED
  BY <1>1, <1>7, <1>8 DEF LoopTask

\* Time and data concern no call.
LEMMA WorldStep ==
  ASSUME GnmiInv, Clock \/ DataMoves \/ UNCHANGED allVars
  PROVE  CallsInv'
<1>1. UNCHANGED <<conf, pend, feeds, out, view, faults, call, ask, notifs>>
  BY DEF Clock, Tick, DataMoves, DataChange, allVars, vars, gnmiVars, serverVars
<1>2. ASSUME NEW p \in Request, NEW i \in Sid, NEW l \in Leaf PROVE StoreSays(p, i, l)' = StoreSays(p, i, l)
  <2>1. CASE Clock
    <3>1. IF store[p][i][l] = None THEN store'[p][i][l] = None
          ELSE store'[p][i][l] # None /\ store'[p][i][l].val = store[p][i][l].val
      BY <2>1, TickKeeps DEF Clock, GnmiInv, GnmiTypeOK
    <3> QED
      BY <3>1 DEF StoreSays
  <2>2. CASE DataMoves \/ UNCHANGED allVars
    <3>1. store' = store
      BY <2>2 DEF DataMoves, DataChange, allVars, vars, serverVars
    <3> QED
      BY <3>1 DEF StoreSays
  <2> QED
    BY <2>1, <2>2
<1>3. \A p \in Request : CallSame(p)
  BY <1>1, <1>2 DEF CallSame
<1>4. PendFits'
  BY <1>1 DEF GnmiInv, CallsInv, PendFits
<1> QED
  BY <1>1, <1>3, <1>4, SameKeeps DEF CallsInv

-----------------------------------------------------------------------------
(* The invariant and what follows.                                         *)

LEMMA GnmiStep == GnmiInv /\ [GnmiNext]_allVars => GnmiInv'
<1> SUFFICES ASSUME GnmiInv, [GnmiNext]_allVars PROVE GnmiInv'
  OBVIOUS
<1>1. GnmiTypeOK' /\ ConfTyped'
  BY GnmiTypeStep, ConfStep DEF GnmiInv
<1>2. CallsInv'
  <2>1. ASSUME NEW r \in Request, Worker(r) PROVE CallsInv'
    <3>1. CASE ExecRefused(r)
      BY <3>1, RaisesStep, ToClearStep
    <3> QED
      BY <2>1, <3>1, ExecStep, YieldStep, ToClearStep, DrainedStep, ClearStep, ClearNoopStep DEF Worker
  <2>2. ASSUME NEW r \in Request, Client(r) PROVE CallsInv'
    BY <2>2, ClientStep, PollStep, ToClearStep DEF Client
  <2> QED
    BY <2>1, <2>2, LostStep, PassStep, SampleStep, CommittedStep, GiveUpStep, TimerStep, WorldStep DEF GnmiNext
<1> QED
  BY <1>1, <1>2 DEF GnmiInv

LEMMA GnmiStart == GnmiInit => GnmiInv
<1> SUFFICES ASSUME GnmiInit PROVE GnmiInv
  OBVIOUS
<1>1. /\ call = [r \in Request |-> "none"] /\ notifs = [r \in Request |-> <<>>]
      /\ ask = [r \in Request |-> ask[r]]
      /\ conf = [r \in Request |-> None] /\ feeds = [r \in Request |-> None]
      /\ out = [r \in Request |-> <<>>] /\ pend = None
  BY DEF GnmiInit, Init
<1>2. TelemetryTypeOK
  BY TypeInit DEF GnmiInit
<1>3. GnmiTypeOK
  BY <1>1, <1>2 DEF GnmiTypeOK, CallStates
<1>4. ASSUME NEW r \in Request PROVE AllOK(r)
  BY <1>1 DEF AllOK, CallOK, PairOK, SyncOK, Answered, HasNothing, Served
<1>5. PendFits
  BY <1>1 DEF PendFits
<1> QED
  BY <1>1, <1>3, <1>4, <1>5 DEF GnmiInv, CallsInv, ConfTyped

THEOREM GnmiCorrect == GnmiSpec => []GnmiInv
<1> QED
  BY GnmiStart, GnmiStep, PTL DEF GnmiSpec

\* If nothing fails, a call that has ended leaves neither a configured request nor a feed
\* behind, whatever its client did and whenever it left: clear() removes what exec() has
\* configured, also after a refusal (server.py:735-740, 764-766).
THEOREM NothingIsLeft == GnmiSpec => []NothingLeft
<1>1. GnmiInv => NothingLeft
  BY DEF GnmiInv, CallsInv, AllOK, PairOK, HasNothing, NothingLeft
<1> QED
  BY <1>1, GnmiCorrect, PTL

\* As long as nothing fails, what is on its way through both queues leads every client
\* to what the telemetry store holds, whichever thread is ahead: the request is registered
\* before exec(), and notifications are sent oldest first (server.py:722-724, 456-468).
THEOREM AnswersAlwaysConsistent == GnmiSpec => []AnswersConsistent
<1>1. GnmiInv => AnswersConsistent
  BY DEF GnmiInv, CallsInv, AllOK, Answered, Served, AnswersConsistent
<1> QED
  BY <1>1, GnmiCorrect, PTL

\* The end of a ONCE call or of the answer to a poll.
CompleteStep ==
  \A r \in Request :
    /\ call[r] \in {"initial", "synced"} /\ call'[r] \in {"clear", "polling"} /\ ~ gone[r]
    /\ feeds[r] # None /\ ~ feeds[r].updatesOnly
    => \A i \in DOMAIN feeds[r].subs, l \in Leaf : view[r][i][l] = StoreSays(r, i, l)

\* Only a call whose list is empty after the SYNC_RESPONSE gets there while its client is
\* still there.
LEMMA OnlyDrained ==
  ASSUME GnmiInv, GnmiNext, NEW r \in Request,
         call[r] \in {"initial", "synced"}, call'[r] \in {"clear", "polling"}, ~ gone[r]
  PROVE  Drained(r)
<1>1. call' # call /\ call \in [Request -> CallStates]
  BY DEF GnmiInv, GnmiTypeOK
<1>2. ASSUME NEW p \in Request, NEW c \in CallStates, Becomes(p, c) PROVE p = r /\ c = call'[r]
  BY <1>1, <1>2 DEF Becomes
<1>3. ASSUME NEW p \in Request,
             Worker(p) \/ Client(p) \/ ExecUnserved(p) \/ NotificationCb(p) \/ \E i \in Sid : TelemetryLoop(p, i)
      PROVE  Drained(r)
  <2>1. CASE Exec(p) \/ ExecRefused(p) \/ ExecUnserved(p) \/ Subscribe(p)
    BY <1>2, <2>1 DEF Exec, ExecRefused, ExecUnserved, Subscribe, CallStates
  <2>2. CASE Clear(p) \/ ClearNoop(p) \/ PollNotifs(p) \/ PollEnds(p)
    BY <1>2, <2>2 DEF Clear, ClearNoop, End, PollNotifs, PollEnds, CallStates
  <2>3. CASE Closed(p)
    BY <1>2, <2>3 DEF Closed, CallStates
  <2>4. CASE Leave(p) \/ NotificationCb(p) \/ \E i \in Sid : TelemetryLoop(p, i)
    BY <1>1, <2>4 DEF Leave, NotificationCb, TelemetryLoop, gnmiVars
  <2>5. CASE Yield(p)
    <3>1. call'[r] \in {"synced", call[r]}
      BY <1>1, <2>5 DEF Yield, Send, CallStates
    <3> QED
      BY <3>1
  <2>6. CASE Drained(p)
    <3>1. ask[p].mode \in {"STREAM", "ONCE", "POLL"}
      BY <2>6, AskConfigures DEF Drained, GnmiInv
    <3>2. \E c \in CallStates : Becomes(p, c)
      BY <2>6, <3>1 DEF Drained, AfterCurrentStates, CallStates
    <3>3. p = r
      BY <1>2, <3>2
    <3> QED
      BY <2>6, <3>3
  <2> QED
    BY <1>3, <2>1, <2>2, <2>3, <2>4, <2>5, <2>6 DEF Worker, Client
<1>4. CASE Committed \/ GiveUp
  <2>1. PICK p \in Request : p = pend.req
    BY <1>4 DEF Committed, GiveUp, GnmiInv, GnmiTypeOK, TelemetryTypeOK
  <2>2. call[p] \in {"applying", "clearing"} /\ \E c \in CallStates : Becomes(p, c)
    BY <1>4, <2>1 DEF Committed, GiveUp, InApply, End, CallStates
  <2> QED
    BY <1>2, <2>2
<1>5. CASE TimerReverts \/ Clock \/ DataMoves \/ TelemetryRestart
  BY <1>1, <1>5 DEF TimerReverts, Clock, DataMoves, TelemetryRestart, gnmiVars
<1> QED
  BY <1>3, <1>4, <1>5 DEF GnmiNext

LEMMA CompleteByInv == GnmiInv /\ [GnmiNext]_allVars => CompleteStep
<1> SUFFICES ASSUME GnmiInv, [GnmiNext]_allVars, NEW r \in Request,
                    call[r] \in {"initial", "synced"}, call'[r] \in {"clear", "polling"}, ~ gone[r],
                    feeds[r] # None, ~ feeds[r].updatesOnly,
                    NEW i \in DOMAIN feeds[r].subs, NEW l \in Leaf
             PROVE  view[r][i][l] = StoreSays(r, i, l)
  BY DEF CompleteStep
<1>1. Drained(r)
  <2>1. GnmiNext
    BY DEF allVars, gnmiVars
  <2> QED
    BY <2>1, OnlyDrained
<1>2. AllOK(r) /\ out[r] \in Seq(Notification) /\ notifs[r] \in Seq(Notification)
  BY DEF GnmiInv, CallsInv, GnmiTypeOK, TelemetryTypeOK
<1>3. ask[r].mode \in {"ONCE", "POLL"}
  <2>1. ask[r].mode \in {"STREAM", "ONCE", "POLL"} /\ call \in [Request -> CallStates]
    BY AskConfigures DEF GnmiInv, GnmiTypeOK
  <2>2. ask[r].mode = "STREAM" => call'[r] = "stream"
    BY <1>1, <2>1 DEF Drained, AfterCurrentStates, Becomes
  <2> QED
    BY <2>1, <2>2
<1>4. feeds[r].mode # "STREAM"
  <2>1. Parsed(ConfigOf(ask[r])).mode = ask[r].mode
    BY AskConfigures DEF GnmiInv
  <2> QED
    BY <1>2, <1>3, <2>1 DEF AllOK, CallOK
<1>5. Queue(r) = <<>>
  BY <1>1, <1>2, <1>4 DEF AllOK, SyncOK, Drained
<1>6. WillKnow(r, i, l) = view[r][i][l]
  <2>1. WillKnow(r, i, l) = After(Queue(r), i, l, view[r][i][l])
    BY WillKnowIsAfter, Zenon
  <2>2. After(<<>>, i, l, view[r][i][l]) = view[r][i][l]
    BY AfterNone
  <2> QED
    BY <1>5, <2>1, <2>2
<1>7. WillKnow(r, i, l) = StoreSays(r, i, l)
  BY <1>2, <1>4 DEF AllOK, Answered, Served
<1> QED
  BY <1>6, <1>7

\* A client that gets the end of a ONCE call, or of the answer to a poll, has been sent
\* all the telemetry server had stored, whatever has failed before, as long as its feed is
\* still there (server.py:690-699).
THEOREM AnswersAlwaysComplete == GnmiSpec => AnswersComplete
<1>1. GnmiInv /\ [GnmiNext]_allVars => [CompleteStep]_allVars
  BY CompleteByInv
<1>2. AnswersComplete <=> [][CompleteStep]_allVars
  BY PTL DEF AnswersComplete, CompleteStep
<1>3. GnmiSpec => [][CompleteStep]_allVars
  BY <1>1, GnmiCorrect, PTL DEF GnmiSpec
<1> QED
  BY <1>2, <1>3, PTL

=============================================================================
