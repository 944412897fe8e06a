----------------------------- MODULE SnmpProofs -----------------------------
(***************************************************************************)
(* What the SNMP agent promises, proved for every set of interfaces and    *)
(* columns, any number of changes, restarts, faults and walks.             *)
(*                                                                         *)
(* The first half is about OIDs: their order is strict and total, and the  *)
(* subtrees that are registered are intervals of it, none within another.  *)
(* So what get_next finds, the next row of the entry or else the first row *)
(* of the first entry behind that has one, is the closest variable there   *)
(* is, but for columns with a hole (GetNextIsClosest).                     *)
(*                                                                         *)
(* The second half is the inductive invariant. A question on its way is    *)
(* the one the walk waits for (InboxFits), so an answer is one to the      *)
(* position of the walk; and the walk has seen what lies before its        *)
(* position (WalkFits), unless the table or the session was replaced.      *)
(***************************************************************************)
EXTENDS SnmpProps, SequenceTheorems, WellFoundedInduction, TLAPS

-----------------------------------------------------------------------------
(* The order of OIDs                                                       *)

Oids == Seq(Nat)

\* IsPrefix, position by position.
LEMMA PrefixMeans ==
  ASSUME NEW s \in Oids, NEW t \in Oids
  PROVE  IsPrefix(s, t) <=> Len(s) <= Len(t) /\ \A k \in 1 .. Len(s) : s[k] = t[k]
<1>1. CASE Len(s) <= Len(t)
  <2>1. SubSeq(s, 1, Len(s)) \in Seq(Nat) /\ Len(SubSeq(s, 1, Len(s))) = Len(s)
        /\ \A k \in 1 .. Len(s) : SubSeq(s, 1, Len(s))[k] = s[k]
    BY DEF Oids
  <2>2. SubSeq(t, 1, Len(s)) \in Seq(Nat) /\ Len(SubSeq(t, 1, Len(s))) = Len(s)
        /\ \A k \in 1 .. Len(s) : SubSeq(t, 1, Len(s))[k] = t[k]
    BY <1>1 DEF Oids
  <2> QED
    BY <1>1, <2>1, <2>2 DEF IsPrefix
<1> QED
  BY <1>1 DEF IsPrefix

\* The order of tuples, on positions.
LEMMA LessMeans ==
  ASSUME NEW s \in Oids, NEW t \in Oids
  PROVE  Less(s, t) <=>
           \/ Len(s) < Len(t) /\ \A k \in 1 .. Len(s) : s[k] = t[k]
           \/ \E k \in 1 .. Len(s) : k <= Len(t) /\ s[k] < t[k] /\ \A j \in 1 .. k - 1 : s[j] = t[j]
<1>1. DOMAIN s = 1 .. Len(s) /\ DOMAIN t = 1 .. Len(t) /\ Len(s) \in Nat /\ Len(t) \in Nat
  BY DEF Oids
<1> QED
  BY <1>1 DEF Less

\* The order of OIDs is strict ...
LEMMA LessIrreflexive == ASSUME NEW s \in Oids PROVE ~ Less(s, s)
  BY LessMeans DEF Oids

\* ... transitive ...
LEMMA LessTransitive ==
  ASSUME NEW s \in Oids, NEW t \in Oids, NEW u \in Oids, Less(s, t), Less(t, u)
  PROVE  Less(s, u)
<1>1. Len(s) \in Nat /\ Len(t) \in Nat /\ Len(u) \in Nat
      /\ (\A k \in 1 .. Len(s) : s[k] \in Nat) /\ (\A k \in 1 .. Len(t) : t[k] \in Nat) /\ (\A k \in 1 .. Len(u) : u[k] \in Nat)
  BY DEF Oids
<1>2. CASE Len(s) < Len(t) /\ \A k \in 1 .. Len(s) : s[k] = t[k]
  <2>1. CASE Len(t) < Len(u) /\ \A k \in 1 .. Len(t) : t[k] = u[k]
    BY <1>1, <1>2, <2>1, LessMeans
  <2>2. ASSUME NEW k \in 1 .. Len(t), k <= Len(u), t[k] < u[k], \A j \in 1 .. k - 1 : t[j] = u[j]
        PROVE  Less(s, u)
    <3>1. CASE k <= Len(s)
      BY <1>1, <1>2, <2>2, <3>1, LessMeans
    <3>2. CASE k > Len(s)
      BY <1>1, <1>2, <2>2, <3>2, LessMeans
    <3> QED
      BY <1>1, <3>1, <3>2
  <2> QED
    BY <2>1, <2>2, LessMeans
<1>3. ASSUME NEW k \in 1 .. Len(s), k <= Len(t), s[k] < t[k], \A j \in 1 .. k - 1 : s[j] = t[j]
      PROVE  Less(s, u)
  <2>1. CASE Len(t) < Len(u) /\ \A i \in 1 .. Len(t) : t[i] = u[i]
    BY <1>1, <1>3, <2>1, LessMeans
  <2>2. ASSUME NEW i \in 1 .. Len(t), i <= Len(u), t[i] < u[i], \A j \in 1 .. i - 1 : t[j] = u[j]
        PROVE  Less(s, u)
    <3>1. CASE k < i
      <4>1. k <= Len(u) /\ s[k] < u[k] /\ \A j \in 1 .. k - 1 : s[j] = u[j]
        BY <1>1, <1>3, <2>2, <3>1
      <4> QED
        BY <4>1, LessMeans
    <3>2. CASE k = i
      <4>1. k <= Len(u) /\ s[k] < u[k] /\ \A j \in 1 .. k - 1 : s[j] = u[j]
        BY <1>1, <1>3, <2>2, <3>2
      <4> QED
        BY <4>1, LessMeans
    <3>3. CASE i < k
      <4>1. i \in 1 .. Len(s) /\ i <= Len(u) /\ s[i] < u[i] /\ \A j \in 1 .. i - 1 : s[j] = u[j]
        BY <1>1, <1>3, <2>2, <3>3
      <4> QED
        BY <4>1, LessMeans
    <3> QED
      BY <1>1, <3>1, <3>2, <3>3
  <2> QED
    BY <2>1, <2>2, LessMeans
<1> QED
  BY <1>2, <1>3, LessMeans

\* ... and total.
LEMMA LessTotal ==
  ASSUME NEW s \in Oids, NEW t \in Oids, s # t
  PROVE  Less(s, t) \/ Less(t, s)
<1>1. Len(s) \in Nat /\ Len(t) \in Nat /\ (\A k \in 1 .. Len(s) : s[k] \in Nat) /\ (\A k \in 1 .. Len(t) : t[k] \in Nat)
  BY DEF Oids
<1> DEFINE Differ == {k \in Nat : k \in 1 .. Len(s) /\ k \in 1 .. Len(t) /\ s[k] # t[k]}
<1>2. CASE Differ = {}
  <2>1. \A k \in 1 .. Len(s) : k <= Len(t) => s[k] = t[k]
    BY <1>1, <1>2
  <2>2. CASE Len(s) = Len(t)
    BY <1>1, <2>1, <2>2, SeqEqual DEF Oids
  <2>3. CASE Len(s) < Len(t)
    BY <1>1, <2>1, <2>3, LessMeans
  <2>4. CASE Len(t) < Len(s)
    BY <1>1, <2>1, <2>4, LessMeans
  <2> QED
    BY <1>1, <2>2, <2>3, <2>4
<1>3. CASE Differ # {}
  <2>1. PICK k \in Differ : \A j \in Differ : ~ j < k
    <3>1. Differ \subseteq Nat
      OBVIOUS
    <3>2. PICK k \in Differ : \A j \in Differ : ~ (<<j, k>> \in OpToRel(<, Nat))
      <4> HIDE DEF Differ
      <4> QED
        BY <1>3, <3>1, NatLessThanWellFounded, WFMin
    <3> QED
      BY <3>1, <3>2 DEF OpToRel
  <2>2. k \in Nat /\ k \in 1 .. Len(s) /\ k \in 1 .. Len(t) /\ s[k] # t[k]
    OBVIOUS
  <2>3. \A j \in 1 .. k - 1 : s[j] = t[j]
    BY <1>1, <2>1, <2>2
  <2>4. s[k] < t[k] \/ t[k] < s[k]
    BY <1>1, <2>2
  <2> QED
    BY <1>1, <2>2, <2>3, <2>4, LessMeans
<1> QED
  BY <1>2, <1>3

\* An OID comes before what extends it, and what lies between the two extends it as well.
LEMMA PrefixOrder ==
  ASSUME NEW p \in Oids, NEW s \in Oids, NEW o \in Oids, IsPrefix(p, o)
  PROVE  /\ p # o => Less(p, o)
         /\ Less(p, s) /\ ~ IsPrefix(p, s) => Less(o, s)
<1>1. Len(p) \in Nat /\ Len(s) \in Nat /\ Len(o) \in Nat
      /\ (\A k \in 1 .. Len(p) : p[k] \in Nat) /\ (\A k \in 1 .. Len(s) : s[k] \in Nat) /\ (\A k \in 1 .. Len(o) : o[k] \in Nat)
  BY DEF Oids
<1>2. Len(p) <= Len(o) /\ \A k \in 1 .. Len(p) : p[k] = o[k]
  BY PrefixMeans
<1>3. ASSUME p # o PROVE Less(p, o)
  <2>1. Len(p) # Len(o)
    BY <1>1, <1>2, <1>3, SeqEqual DEF Oids
  <2> QED
    BY <1>1, <1>2, <2>1, LessMeans
<1>4. ASSUME Less(p, s), ~ IsPrefix(p, s) PROVE Less(o, s)
  <2>1. PICK k \in 1 .. Len(p) : k <= Len(s) /\ p[k] < s[k] /\ \A j \in 1 .. k - 1 : p[j] = s[j]
    BY <1>1, <1>4, LessMeans, PrefixMeans
  <2>2. k \in 1 .. Len(o) /\ o[k] < s[k] /\ \A j \in 1 .. k - 1 : o[j] = s[j]
    BY <1>1, <1>2, <2>1
  <2> QED
    BY <2>1, <2>2, LessMeans
<1> QED
  BY <1>3, <1>4

\* A registered subtree is a scalar or a column of the table.
LEMMA SubtreeOids ==
  ASSUME NEW p \in Subtrees
  PROVE  /\ p \in Oids /\ p # <<>> /\ p # None /\ Less(p, <<3>>)
         /\ IsScalar(p) \/ \E c \in DOMAIN Columns : p = Column(c)
<1>1. CASE p = SysDescr
  BY <1>1, SnmpAssumption DEF SysDescr, Oids, Less, IsScalar
<1>2. CASE p = IfNumber
  BY <1>2, SnmpAssumption DEF IfNumber, Oids, Less, IsScalar
<1>3. ASSUME NEW c \in DOMAIN Columns, p = Column(c)
      PROVE  p \in Oids /\ p # <<>> /\ p # None /\ Less(p, <<3>>)
  BY <1>3, SnmpAssumption DEF Column, Oids, Less
<1> QED
  BY <1>1, <1>2, <1>3 DEF Subtrees

\* No subtree lies below another one.
LEMMA Antichain ==
  ASSUME NEW p \in Subtrees, NEW q \in Subtrees, IsPrefix(p, q)
  PROVE  p = q
<1>0. p \in Oids /\ q \in Oids
  BY SubtreeOids
<1>1. Len(p) <= Len(q) /\ \A k \in 1 .. Len(p) : p[k] = q[k]
  BY <1>0, PrefixMeans
<1>2. Len(SysDescr) = 3 /\ SysDescr[1] = 1 /\ Len(IfNumber) = 2 /\ IfNumber[1] = 2 /\ IfNumber[2] = 1
      /\ \A c \in DOMAIN Columns : Len(Column(c)) = 4 /\ Column(c)[1] = 2 /\ Column(c)[2] = 2 /\ Column(c)[4] = c
  BY DEF SysDescr, IfNumber, Column
<1>3. CASE p = SysDescr
  BY <1>1, <1>2, <1>3 DEF Subtrees
<1>4. CASE p = IfNumber
  <2>1. q[1] = 2 /\ q[2] = 1
    BY <1>1, <1>2, <1>4
  <2>2. q # SysDescr /\ \A c \in DOMAIN Columns : q # Column(c)
    BY <1>2, <2>1
  <2> QED
    BY <1>4, <2>2 DEF Subtrees
<1>5. ASSUME NEW c \in DOMAIN Columns, p = Column(c) PROVE p = q
  BY <1>1, <1>2, <1>5 DEF Subtrees
<1> QED
  BY <1>3, <1>4, <1>5 DEF Subtrees

\* An OID lies in one subtree at most.
LEMMA OneSubtree ==
  ASSUME NEW p \in Subtrees, NEW q \in Subtrees, NEW o \in Oids, IsPrefix(p, o), IsPrefix(q, o)
  PROVE  p = q
<1>0. p \in Oids /\ q \in Oids
  BY SubtreeOids
<1>1. Len(p) \in Nat /\ Len(q) \in Nat /\ Len(o) \in Nat
  BY <1>0 DEF Oids
<1>2. CASE Len(p) <= Len(q)
  BY <1>0, <1>1, <1>2, PrefixMeans, Antichain
<1>3. CASE Len(q) <= Len(p)
  BY <1>0, <1>1, <1>3, PrefixMeans, Antichain
<1> QED
  BY <1>1, <1>2, <1>3
\* All of a subtree comes before all of the next one.
LEMMA SubtreeOrder ==
  ASSUME NEW p \in Subtrees, NEW q \in Subtrees, Less(p, q), NEW o \in Oids, IsPrefix(p, o)
  PROVE  Less(o, q) /\ \A r \in Oids : IsPrefix(q, r) => Less(o, r)
<1>0. p \in Oids /\ q \in Oids
  BY SubtreeOids
<1>1. ~ IsPrefix(p, q)
  BY <1>0, Antichain, LessIrreflexive
<1>2. Less(o, q)
  BY <1>0, <1>1, PrefixOrder
<1> QED
  BY <1>0, <1>2, PrefixOrder, LessTransitive

\* _find_parent_prefix finds the subtree of an OID, though it only looks at the last one that is not after it.
LEMMA ParentOf ==
  ASSUME NEW s \in Oids
  PROVE  /\ \A p \in Subtrees : IsPrefix(p, s) => ParentPrefix(s) = p
         /\ ParentPrefix(s) # None => ParentPrefix(s) \in Subtrees /\ IsPrefix(ParentPrefix(s), s)
<1> DEFINE parents == {p \in Subtrees : IsPrefix(p, s) /\ \A q \in Subtrees : Less(p, q) => Less(s, q)}
<1>1. ParentPrefix(s) = IF parents = {} THEN None ELSE CHOOSE p \in parents : TRUE
  BY DEF ParentPrefix
<1>2. \A p \in Subtrees : IsPrefix(p, s) => p \in parents
  BY SubtreeOrder
<1>3. \A p, q \in parents : p = q
  BY OneSubtree
<1>4. parents # {} => (CHOOSE p \in parents : TRUE) \in parents
  OBVIOUS
<1>5. ASSUME NEW p \in Subtrees, IsPrefix(p, s)
      PROVE  ParentPrefix(s) = p
  <2>1. p \in parents
    BY <1>2, <1>5
  <2> HIDE DEF parents
  <2> QED
    BY <1>1, <1>3, <1>4, <2>1
<1>6. ASSUME ParentPrefix(s) # None
      PROVE  ParentPrefix(s) \in Subtrees /\ IsPrefix(ParentPrefix(s), s)
  <2>1. ParentPrefix(s) \in parents
    <3> HIDE DEF parents
    <3> QED
      BY <1>1, <1>4, <1>6
  <2> QED
    BY <2>1
<1> QED
  BY <1>5, <1>6
\* inc() of a subtree is where it ends.
LEMMA IncBounds ==
  ASSUME NEW p \in Subtrees, NEW o \in Oids
  PROVE  /\ Inc(p) \in Oids
         /\ IsPrefix(p, o) => Less(o, Inc(p))
         /\ o = p \/ Less(p, o) => (Less(o, Inc(p)) => IsPrefix(p, o))
<1>0. p \in Oids /\ p # <<>>
  BY SubtreeOids
<1>1. Len(p) \in Nat \ {0} /\ Len(o) \in Nat /\ (\A k \in 1 .. Len(p) : p[k] \in Nat) /\ \A k \in 1 .. Len(o) : o[k] \in Nat
  BY <1>0 DEF Oids
<1>2. Inc(p) \in Oids /\ Len(Inc(p)) = Len(p) /\ Inc(p)[Len(p)] = p[Len(p)] + 1
      /\ \A k \in 1 .. Len(p) - 1 : Inc(p)[k] = p[k]
  BY <1>0, <1>1 DEF Inc, Oids
<1>3. ASSUME IsPrefix(p, o) PROVE Less(o, Inc(p))
  <2>1. Len(p) <= Len(o) /\ \A k \in 1 .. Len(p) : p[k] = o[k]
    BY <1>0, <1>3, PrefixMeans
  <2>2. Len(p) \in 1 .. Len(o) /\ o[Len(p)] < Inc(p)[Len(p)] /\ \A j \in 1 .. Len(p) - 1 : o[j] = Inc(p)[j]
    BY <1>1, <1>2, <2>1
  <2> QED
    BY <1>2, <2>2, <1>1, LessMeans
<1>4. ASSUME o = p \/ Less(p, o), Less(o, Inc(p)) PROVE IsPrefix(p, o)
  <2>1. CASE o = p
    BY <1>0, <1>1, <2>1, PrefixMeans
  <2>2. ASSUME NEW k \in 1 .. Len(p), k <= Len(o), p[k] < o[k], \A j \in 1 .. k - 1 : p[j] = o[j]
        PROVE  FALSE
    <3>1. CASE Len(o) < Len(p) /\ \A i \in 1 .. Len(o) : o[i] = Inc(p)[i]
      BY <1>1, <1>2, <2>2, <3>1
    <3>2. ASSUME NEW i \in 1 .. Len(o), i <= Len(p), o[i] < Inc(p)[i], \A j \in 1 .. i - 1 : o[j] = Inc(p)[j]
          PROVE  FALSE
      <4>1. CASE i < k
        BY <1>1, <1>2, <2>2, <3>2, <4>1
      <4>2. CASE i = k
        <5>1. k = Len(p) \/ k \in 1 .. Len(p) - 1
          BY <1>1
        <5> QED
          BY <1>1, <1>2, <2>2, <3>2, <4>2, <5>1
      <4>3. CASE k < i
        <5>1. o[k] = Inc(p)[k] /\ k \in 1 .. Len(p) - 1
          BY <1>1, <3>2, <4>3
        <5>2. o[k] = p[k]
          BY <1>2, <5>1
        <5> QED
          BY <1>1, <2>2, <5>2
      <4> QED
        BY <1>1, <4>1, <4>2, <4>3
    <3> QED
      BY <1>2, <1>4, <3>1, <3>2, LessMeans
  <2> QED
    BY <1>0, <1>4, <2>1, <2>2, LessMeans, PrefixMeans
<1> QED
  BY <1>2, <1>3, <1>4

\* Every subtree ends before 3, the end of the ranges that span regions.
LEMMA BeforeThree ==
  ASSUME NEW p \in Subtrees, NEW o \in Oids, IsPrefix(p, o)
  PROVE  Less(o, <<3>>)
<1>1. <<3>> \in Oids /\ Len(<<3>>) = 1
  BY DEF Oids
<1>2. p \in Oids /\ Less(p, <<3>>) /\ p # <<>>
  BY SubtreeOids
<1>3. ~ IsPrefix(p, <<3>>)
  <2>1. SUFFICES ASSUME IsPrefix(p, << 3 >>) PROVE FALSE
    OBVIOUS
  <2>2. Len(p) <= 1 /\ Len(p) \in Nat
    <3>1. Len(p) <= Len(<<3>>)
      BY <1>1, <1>2, <2>1, PrefixMeans
    <3> QED
      BY <1>1, <1>2, <3>1 DEF Oids
  <2>3. Len(p) > 1
    BY DEF Subtrees, SysDescr, IfNumber, Column
  <2> QED
    BY <2>2, <2>3
<1> QED
  BY <1>1, <1>2, <1>3, PrefixOrder

\* A set of subtrees has a least one, however many columns there are.
LEMMA LeastSubtree ==
  ASSUME NEW S \in SUBSET Subtrees, S # {}
  PROVE  Least(S) \in S /\ \A t \in S : t = Least(S) \/ Less(Least(S), t)
<1>0. S \subseteq Oids
  BY SubtreeOids
<1>1. \E s \in S : ~ \E t \in S : Less(t, s)
  <2>1. CASE SysDescr \in S
    <3>1. ~ Less(IfNumber, SysDescr) /\ \A c : ~ Less(Column(c), SysDescr)
      BY DEF IfNumber, Column, SysDescr, Less
    <3>2. ~ Less(SysDescr, SysDescr)
      BY <1>0, <2>1, LessIrreflexive
    <3> QED
      BY <2>1, <3>1, <3>2 DEF Subtrees
  <2>2. CASE SysDescr \notin S /\ IfNumber \in S
    <3>1. \A c : ~ Less(Column(c), IfNumber)
      BY DEF IfNumber, Column, Less
    <3>2. ~ Less(IfNumber, IfNumber)
      BY <1>0, <2>2, LessIrreflexive
    <3> QED
      BY <2>2, <3>1, <3>2 DEF Subtrees
  <2>3. CASE SysDescr \notin S /\ IfNumber \notin S
    <3> DEFINE C == {c \in DOMAIN Columns : Column(c) \in S}
    <3>1. C \subseteq Nat /\ C # {} /\ \A s \in S : \E c \in C : s = Column(c)
      BY <2>3, SnmpAssumption DEF Subtrees
    <3>2. PICK c \in C : \A d \in C : ~ (<<d, c>> \in OpToRel(<, Nat))
      <4> HIDE DEF C
      <4> QED
        BY <3>1, NatLessThanWellFounded, WFMin
    <3>3. \A d \in C : ~ d < c
      BY <3>1, <3>2 DEF OpToRel
    <3>4. \A d \in Nat : c \in Nat /\ Less(Column(d), Column(c)) => d < c
      BY DEF Column, Less
    <3>5. Column(c) \in S
      OBVIOUS
    <3> HIDE DEF C
    <3> QED
      BY <3>1, <3>3, <3>4, <3>5
  <2> QED
    BY <2>1, <2>2, <2>3
<1>2. Least(S) \in S /\ ~ \E t \in S : Less(t, Least(S))
  BY <1>1 DEF Least
<1> QED
  BY <1>0, <1>2, LessTotal

-----------------------------------------------------------------------------
(* The table                                                               *)

\* o is the variable of a scalar q, or one of a column q
Entry(q, o) ==
  /\ q \in Subtrees
  /\ IF IsScalar(q) THEN o = q ELSE \E k \in 1 .. Len(cache) : o = q \o <<k>> /\ Answers(q, <<k>>)
\* o is an answer to a request from start on
Follows(start, incl, o) == Less(start, o) \/ (incl /\ o = start)

\* The OID of a row of a column.
LEMMA Extension ==
  ASSUME NEW p \in Oids, NEW k \in Nat
  PROVE  /\ p \o <<k>> \in Oids /\ IsPrefix(p, p \o <<k>>) /\ p # p \o <<k>>
         /\ Len(p \o <<k>>) = Len(p) + 1 /\ (p \o <<k>>)[Len(p) + 1] = k
<1>1. /\ p \o <<k>> \in Oids /\ Len(p \o <<k>>) = Len(p) + 1 /\ (p \o <<k>>)[Len(p) + 1] = k
      /\ \A i \in 1 .. Len(p) : (p \o <<k>>)[i] = p[i]
  BY DEF Oids
<1>2. Len(p) \in Nat
  BY DEF Oids
<1>3. p # p \o <<k>>
  BY <1>1, <1>2
<1>4. IsPrefix(p, p \o <<k>>)
  <2> DEFINE o == p \o <<k>>
  <2>1. o \in Oids /\ Len(p) <= Len(o) /\ \A i \in 1 .. Len(p) : p[i] = o[i]
    BY <1>1, <1>2
  <2> HIDE DEF o
  <2>2. IsPrefix(p, o)
    BY <2>1, PrefixMeans
  <2> QED
    BY <2>2 DEF o
<1> QED
  BY <1>1, <1>3, <1>4

\* How an OID of a column compares with the rows of that column.
LEMMA RowOrder ==
  ASSUME NEW p \in Oids, NEW s \in Oids, IsPrefix(p, s), NEW k \in Nat
  PROVE  /\ Less(s, p \o <<k>>) <=> s = p \/ s[Len(p) + 1] < k
         /\ s # p => Len(p) + 1 \in 1 .. Len(s) /\ s[Len(p) + 1] \in Nat
<1> DEFINE o == p \o <<k>>
<1>1. o \in Oids /\ Len(o) = Len(p) + 1 /\ o[Len(p) + 1] = k /\ \A i \in 1 .. Len(p) : o[i] = p[i]
  BY DEF Oids
<1>2. Len(p) \in Nat /\ Len(s) \in Nat /\ Len(p) <= Len(s) /\ (\A i \in 1 .. Len(p) : p[i] = s[i] /\ s[i] \in Nat)
  BY PrefixMeans DEF Oids
<1> HIDE DEF o
<1>3. CASE s = p
  <2>1. Len(s) < Len(o) /\ \A i \in 1 .. Len(s) : s[i] = o[i]
    BY <1>1, <1>2, <1>3
  <2>2. Less(s, o)
    BY <1>1, <2>1, LessMeans
  <2> QED
    BY <1>3, <2>2 DEF o
<1>4. CASE s # p
  <2>1. Len(s) # Len(p)
    BY <1>2, <1>4, SeqEqual DEF Oids
  <2>2. Len(p) + 1 \in 1 .. Len(s)
    BY <1>2, <2>1
  <2>3. s[Len(p) + 1] \in Nat
    BY <2>2 DEF Oids
  <2>4. ASSUME s[Len(p) + 1] < k PROVE Less(s, o)
    <3>1. \A j \in 1 .. (Len(p) + 1) - 1 : s[j] = o[j]
      BY <1>1, <1>2
    <3> QED
      BY <1>1, <1>2, <2>2, <2>4, <3>1, LessMeans
  <2>5. ASSUME Less(s, o) PROVE s[Len(p) + 1] < k
    <3>1. PICK j \in 1 .. Len(s) : j <= Len(o) /\ s[j] < o[j]
      BY <1>1, <1>2, <2>2, <2>5, LessMeans
    <3>2. ~ j \in 1 .. Len(p)
      BY <1>1, <1>2, <3>1
    <3>3. j = Len(p) + 1
      BY <1>1, <1>2, <3>1, <3>2
    <3> QED
      BY <1>1, <3>1, <3>3
  <2> QED
    BY <1>4, <2>2, <2>3, <2>4, <2>5 DEF o
<1> QED
  BY <1>3, <1>4 DEF o

\* The sub-identifier of an OID.
LEMMA SubIdMeans ==
  ASSUME NEW p \in Oids, NEW s \in Oids, IsPrefix(p, s)
  PROVE  /\ SubId(p, s) \in Oids /\ (SubId(p, s) = <<>> <=> s = p)
         /\ s # p => SubId(p, s)[1] = s[Len(p) + 1]
<1>1. Len(p) \in Nat /\ Len(s) \in Nat /\ Len(p) <= Len(s)
  BY PrefixMeans DEF Oids
<1>2. SubId(p, s) \in Seq(Nat) /\ Len(SubId(p, s)) = Len(s) - Len(p)
      /\ \A i \in 1 .. Len(s) - Len(p) : SubId(p, s)[i] = s[Len(p) + i]
  <2>1. /\ SubSeq(s, Len(p) + 1, Len(s)) \in Seq(Nat)
        /\ Len(SubSeq(s, Len(p) + 1, Len(s))) = IF Len(p) + 1 <= Len(s) THEN Len(s) - (Len(p) + 1) + 1 ELSE 0
        /\ \A i \in 1 .. Len(s) - (Len(p) + 1) + 1 : SubSeq(s, Len(p) + 1, Len(s))[i] = s[Len(p) + 1 + i - 1]
    BY <1>1, SubSeqProperties DEF Oids
  <2>2. \A i \in Nat : Len(p) + 1 + i - 1 = Len(p) + i
    BY <1>1
  <2> QED
    BY <1>1, <2>1, <2>2 DEF SubId
<1>3. s = p <=> Len(s) = Len(p)
  BY <1>1, PrefixMeans, SeqEqual DEF Oids
<1>4. SubId(p, s) = <<>> <=> Len(SubId(p, s)) = 0
  BY <1>2
<1> QED
  BY <1>1, <1>2, <1>3, <1>4 DEF Oids

\* Columns have prefixes of their own.
LEMMA ColumnFacts ==
  ASSUME NEW c \in DOMAIN Columns
  PROVE  /\ Column(c) \in Subtrees /\ ~ IsScalar(Column(c)) /\ ColumnOf(Column(c)) = c
         /\ \A d : Column(c) = Column(d) => c = d
<1>1. Len(Column(c)) = 4 /\ \A d : Column(d)[4] = d
  BY DEF Column
<1>2. Len(SysDescr) = 3 /\ Len(IfNumber) = 2
  BY DEF SysDescr, IfNumber
<1> QED
  BY <1>1, <1>2 DEF Subtrees, IsScalar, ColumnOf
\* What has a value: a scalar, whatever is asked; of a column, an existing row.
LEMMA AnswersMeans ==
  ASSUME cache \in Seq(Rows), NEW p \in Subtrees
  PROVE  /\ IsScalar(p) => \A sub : Answers(p, sub)
         /\ ~ IsScalar(p) => ~ Answers(p, <<>>)
                             /\ \A k \in Nat \ {0} : Answers(p, <<k>>) => k \in 1 .. Len(cache)
         /\ \A c \in DOMAIN Columns, k \in 1 .. Len(cache) : Answers(Column(c), <<k>>) <=> Cell(c, cache[k]) # None
<1>1. ASSUME IsScalar(p), NEW sub PROVE Answers(p, sub)
  <2>1. SysDescr[Len(SysDescr)] = 0 /\ IfNumber[Len(IfNumber)] = 1
    BY DEF SysDescr, IfNumber
  <2>2. p[Len(p)] \in Nat
    BY <1>1, <2>1 DEF IsScalar
  <2>3. None \notin Nat
    BY SnmpAssumption
  <2>4. Value(p, sub) = p[Len(p)]
    BY <1>1 DEF Value
  <2> QED
    BY <2>2, <2>3, <2>4 DEF Answers
<1>2. ASSUME ~ IsScalar(p)
      PROVE  ~ Answers(p, <<>>) /\ \A k \in Nat \ {0} : Answers(p, <<k>>) => k \in 1 .. Len(cache)
  <2>1. Row(<<>>) = None
    BY DEF Row
  <2>2. ~ Answers(p, <<>>)
    BY <1>2, <2>1 DEF Answers, Value, Cell, Index
  <2>3. ASSUME NEW k \in Nat \ {0}, Answers(p, <<k>>) PROVE k \in 1 .. Len(cache)
    <3>1. SUFFICES ASSUME k > Len(cache) PROVE FALSE
      OBVIOUS
    <3>2. Row(<<k>>) = None
      BY <3>1 DEF Row
    <3> QED
      BY <1>2, <2>3, <3>1, <3>2 DEF Answers, Value, Cell, Index
  <2> QED
    BY <2>2, <2>3
<1>3. ASSUME NEW c \in DOMAIN Columns, NEW k \in 1 .. Len(cache)
      PROVE  Answers(Column(c), <<k>>) <=> Cell(c, cache[k]) # None
  <2>1. Row(<<k>>) = cache[k]
    BY DEF Row
  <2>2. CASE Columns[c] = "index"
    <3>1. Index(<<k>>) = k /\ k # None
      BY SnmpAssumption DEF Index
    <3>2. cache[k] # None /\ cache[k].name # None
      <4>1. cache[k] \in Rows
        OBVIOUS
      <4>2. cache[k].name \in Ifs
        BY <4>1 DEF Rows
      <4> QED
        BY <4>1, <4>2, SnmpAssumption
    <3>3. Cell(c, cache[k]) # None
      BY <2>2, <3>2 DEF Cell
    <3> QED
      BY <2>2, <3>1, <3>3, ColumnFacts DEF Answers, Value
  <2> QED
    BY <2>1, <2>2, ColumnFacts DEF Answers, Value
<1> QED
  BY <1>1, <1>2, <1>3

\* The variables there are belong to an entry each.
LEMMA InstanceEntry ==
  ASSUME cache \in Seq(Rows), NEW o
  PROVE  o \in Instances <=> \E q : Entry(q, o)
<1>0. DOMAIN cache = 1 .. Len(cache)
  OBVIOUS
<1>1. ASSUME o \in Instances PROVE \E q : Entry(q, o)
  <2>1. CASE o \in {SysDescr, IfNumber}
    BY <2>1 DEF Entry, IsScalar, Subtrees
  <2>2. ASSUME NEW c \in DOMAIN Columns, NEW k \in 1 .. Len(cache), Cell(c, cache[k]) # None, o = Column(c) \o <<k>>
        PROVE  Entry(Column(c), o)
    BY <2>2, ColumnFacts, AnswersMeans DEF Entry
  <2> QED
    BY <1>0, <1>1, <2>1, <2>2 DEF Instances
<1>2. ASSUME NEW q, Entry(q, o) PROVE o \in Instances
  <2>1. CASE IsScalar(q)
    BY <1>2, <2>1 DEF Entry, IsScalar, Instances
  <2>2. CASE ~ IsScalar(q)
    <3>1. PICK k \in 1 .. Len(cache) : o = q \o <<k>> /\ Answers(q, <<k>>)
      BY <1>2, <2>2 DEF Entry
    <3>2. PICK c \in DOMAIN Columns : q = Column(c)
      BY <1>2, <2>2, SubtreeOids DEF Entry
    <3>3. Cell(c, cache[k]) # None
      BY <3>1, <3>2, ColumnFacts, AnswersMeans
    <3>4. o \in {Column(c) \o <<j>> : j \in {i \in DOMAIN cache : Cell(c, cache[i]) # None}}
      BY <1>0, <3>1, <3>2, <3>3
    <3> QED
      BY <3>4 DEF Instances
  <2> QED
    BY <2>1, <2>2
<1> QED
  BY <1>1, <1>2

\* A variable lies in the subtree of its entry.
LEMMA EntryFacts ==
  ASSUME cache \in Seq(Rows), NEW q, NEW o, Entry(q, o)
  PROVE  q \in Subtrees /\ o \in Oids /\ IsPrefix(q, o) /\ (q = o \/ Less(q, o))
<1>1. q \in Subtrees /\ q \in Oids
  BY SubtreeOids DEF Entry
<1>2. CASE o = q
  BY <1>1, <1>2, PrefixMeans DEF Oids
<1>3. ASSUME NEW k \in 1 .. Len(cache), o = q \o <<k>>
      PROVE  o \in Oids /\ IsPrefix(q, o) /\ Less(q, o)
  <2>1. k \in Nat
    OBVIOUS
  <2>2. o \in Oids /\ IsPrefix(q, o) /\ q # o
    BY <1>1, <1>3, <2>1, Extension
  <2> QED
    BY <1>1, <2>2, PrefixOrder
<1> QED
  BY <1>1, <1>2, <1>3 DEF Entry
\* A column without a hole answers for every row.
LEMMA WholeColumn ==
  ASSUME cache \in Seq(Rows), NEW q \in Subtrees, ~ IsScalar(q), NEW o, IsPrefix(q, o), InWhole(o)
  PROVE  \A k \in 1 .. Len(cache) : Answers(q, <<k>>)
<1>1. PICK c \in DOMAIN Columns : q = Column(c)
  BY SubtreeOids
<1>2. Whole(c)
  BY <1>1 DEF InWhole
<1>3. \A k \in 1 .. Len(cache) : Cell(c, cache[k]) # None
  BY <1>2 DEF Whole
<1> QED
  BY <1>1, <1>3, AnswersMeans
\* _get_nextvalue leads to the next row, and its () at the end of the column to nothing.
LEMMA NextSubMeans ==
  ASSUME cache \in Seq(Rows), NEW p \in Subtrees, ~ IsScalar(p), NEW s \in Oids, IsPrefix(p, s),
         NEW k \in Nat, k = IF s = p THEN 1 ELSE s[Len(p) + 1] + 1
  PROVE  /\ HasNext(p, s) => NextSub(p, s) = <<k>> /\ k \in 1 .. Len(cache) /\ Answers(p, <<k>>)
         /\ k \in 1 .. Len(cache) /\ Answers(p, <<k>>) => HasNext(p, s)
<1> DEFINE sub == SubId(p, s)
<1>0. p \in Oids
  BY SubtreeOids
<1>1. sub \in Oids /\ (sub = <<>> <=> s = p) /\ (s # p => sub[1] = s[Len(p) + 1] /\ sub[1] \in Nat)
  BY <1>0, SubIdMeans, RowOrder
<1>2. GetNextSub(sub) = IF sub = <<>> THEN <<1>> ELSE IF sub[1] < Len(cache) THEN <<sub[1] + 1>> ELSE <<>>
  BY DEF GetNextSub
<1>3. NextSub(p, s) = GetNextSub(sub)
  BY DEF NextSub
<1> HIDE DEF sub
<1>4. CASE s = p
  BY <1>1, <1>2, <1>3, <1>4, AnswersMeans DEF HasNext
<1>5. CASE s # p
  <2>1. CASE sub[1] < Len(cache)
    <3>1. NextSub(p, s) = <<k>> /\ k \in 1 .. Len(cache)
      BY <1>1, <1>2, <1>3, <1>5, <2>1
    <3> QED
      BY <3>1 DEF HasNext
  <2>2. CASE ~ sub[1] < Len(cache)
    <3>1. NextSub(p, s) = <<>> /\ ~ k \in 1 .. Len(cache)
      BY <1>1, <1>2, <1>3, <1>5, <2>2
    <3> QED
      BY <3>1, AnswersMeans DEF HasNext
  <2> QED
    BY <2>1, <2>2
<1> QED
  BY <1>4, <1>5

-----------------------------------------------------------------------------
(* GetNext                                                                 *)

\* Three cases of the search.
Included(start, incl) ==
  ParentPrefix(start) # None /\ incl /\ Answers(ParentPrefix(start), SubId(ParentPrefix(start), start))
NextOfEntry(start) == ParentPrefix(start) # None /\ HasNext(ParentPrefix(start), start)
EntryNext(start) == ParentPrefix(start) \o NextSub(ParentPrefix(start), start)

\* The starting OID is only returned if it is a variable.
LEMMA IncludedIsInstance ==
  ASSUME cache \in Seq(Rows), NEW start \in Oids, NEW incl \in BOOLEAN, incl => start \in Subtrees,
         Included(start, incl)
  PROVE  Entry(start, start)
<1>1. incl /\ start \in Subtrees
  BY DEF Included
<1>2. ParentPrefix(start) = start
  BY <1>1, ParentOf, PrefixMeans DEF Oids
<1>3. SubId(start, start) = <<>>
  BY <1>1, SubIdMeans, PrefixMeans DEF Oids
<1>4. Answers(start, <<>>)
  BY <1>2, <1>3 DEF Included
<1>5. IsScalar(start)
  BY <1>1, <1>4, AnswersMeans
<1> QED
  BY <1>1, <1>5 DEF Entry
\* The next row of the entry is the closest variable.
LEMMA NextOfEntryIsNext ==
  ASSUME cache \in Seq(Rows), NEW start \in Oids, NEW incl \in BOOLEAN, incl => start \in Subtrees,
         NextOfEntry(start)
  PROVE  /\ Entry(ParentPrefix(start), EntryNext(start)) /\ Less(start, EntryNext(start))
         /\ \A o \in Instances : Follows(start, incl, o) => ~ Less(o, EntryNext(start))
<1> DEFINE p == ParentPrefix(start)
           r == EntryNext(start)
<1>1. p \in Subtrees /\ IsPrefix(p, start) /\ p \in Oids
  BY ParentOf, SubtreeOids DEF NextOfEntry
<1>2. HasNext(p, start) /\ ~ IsScalar(p)
  BY DEF NextOfEntry, HasNext
<1> HIDE DEF p, r
<1>3. PICK k \in Nat : k = IF start = p THEN 1 ELSE start[Len(p) + 1] + 1
  <2>1. start # p => start[Len(p) + 1] \in Nat
    BY <1>1, RowOrder
  <2>2. (IF start = p THEN 1 ELSE start[Len(p) + 1] + 1) \in Nat
    BY <2>1
  <2> QED
    BY <2>2
<1>4. NextSub(p, start) = <<k>> /\ k \in 1 .. Len(cache) /\ Answers(p, <<k>>)
  BY <1>1, <1>2, <1>3, NextSubMeans
<1>5. r = p \o <<k>>
  BY <1>4 DEF p, r, EntryNext
<1>6. Entry(p, r)
  BY <1>1, <1>2, <1>4, <1>5 DEF Entry
<1>7. Less(start, r)
  BY <1>1, <1>3, <1>5, RowOrder
<1>8. r \in Oids /\ IsPrefix(p, r)
  BY <1>6, EntryFacts
<1>9. ASSUME NEW o \in Instances, Follows(start, incl, o), Less(o, r)
      PROVE  FALSE
  <2>1. PICK q : Entry(q, o)
    BY InstanceEntry
  <2>2. q \in Subtrees /\ o \in Oids /\ IsPrefix(q, o) /\ q \in Oids
    BY <2>1, EntryFacts, SubtreeOids
  <2>3. CASE q = p
    <3>1. PICK j \in 1 .. Len(cache) : o = p \o <<j>>
      BY <1>2, <2>1, <2>3 DEF Entry
    <3>2. j \in Nat /\ o # p
      BY <1>1, <3>1, Extension
    <3>3. o # start \/ ~ incl
      <4>1. ASSUME o = start, incl PROVE FALSE
        BY <2>2, <2>3, <3>2, <4>1, Antichain
      <4> QED
        BY <4>1
    <3>4. Less(start, o)
      BY <1>9, <3>3 DEF Follows
    <3>5. start = p \/ start[Len(p) + 1] < j
      BY <1>1, <3>1, <3>2, <3>4, RowOrder
    <3>6. o[Len(p) + 1] < k
      BY <1>5, <1>8, <1>9, <2>2, <2>3, <3>2, RowOrder
    <3>7. o[Len(p) + 1] = j
      BY <1>1, <3>1, <3>2, Extension
    <3>8. start # p => start[Len(p) + 1] \in Nat
      BY <1>1, RowOrder
    <3> QED
      BY <1>3, <3>2, <3>5, <3>6, <3>7, <3>8
  <2>4. CASE Less(p, q)
    <3>1. Less(r, o)
      BY <1>1, <1>8, <2>2, <2>4, SubtreeOrder
    <3> QED
      BY <1>8, <1>9, <2>2, <3>1, LessTransitive, LessIrreflexive
  <2>5. CASE Less(q, p)
    <3>1. Less(o, start)
      BY <1>1, <2>2, <2>5, SubtreeOrder
    <3> QED
      BY <1>9, <2>2, <3>1, LessTransitive, LessIrreflexive DEF Follows
  <2> QED
    BY <1>1, <2>2, <2>3, <2>4, <2>5, LessTotal
<1> QED
  BY <1>6, <1>7, <1>9 DEF p, r
\* If the entry of the starting OID has nothing more, what follows lies in an entry behind it.
LEMMA EntryBehind ==
  ASSUME cache \in Seq(Rows), NEW start \in Oids, NEW incl \in BOOLEAN, incl => start \in Subtrees,
         ~ Included(start, incl), ~ NextOfEntry(start),
         NEW o \in Instances, InWhole(o), Follows(start, incl, o), NEW q, Entry(q, o)
  PROVE  Less(start, q) /\ Answers(q, FirstSub(q))
<1>1. q \in Subtrees /\ o \in Oids /\ IsPrefix(q, o) /\ q \in Oids /\ (q = o \/ Less(q, o))
  BY EntryFacts, SubtreeOids
<1>2. Answers(q, FirstSub(q))
  <2>1. CASE IsScalar(q)
    BY <1>1, <2>1, AnswersMeans
  <2>2. CASE ~ IsScalar(q)
    <3>0. PICK j \in 1 .. Len(cache) : o = q \o <<j>>
      BY <2>2 DEF Entry
    <3>1. 1 \in 1 .. Len(cache)
      BY <3>0
    <3>2. Answers(q, <<1>>)
      BY <1>1, <2>2, <3>1, WholeColumn
    <3>3. FirstSub(q) = <<1>>
      BY <2>2 DEF FirstSub, GetNextSub
    <3> QED
      BY <3>2, <3>3
  <2> QED
    BY <2>1, <2>2
<1>3. ASSUME ~ Less(start, q) PROVE FALSE
  <2>1. IsPrefix(q, start)
    <3>1. SUFFICES ASSUME ~ IsPrefix(q, start) PROVE FALSE
      OBVIOUS
    <3>2. q # start
      BY <1>1, <3>1, PrefixMeans DEF Oids
    <3>3. Less(q, start)
      BY <1>1, <1>3, <3>2, LessTotal
    <3>4. Less(o, start)
      BY <1>1, <3>1, <3>3, PrefixOrder
    <3> QED
      BY <1>1, <3>4, LessTransitive, LessIrreflexive DEF Follows
  <2>2. ParentPrefix(start) = q /\ q # None
    BY <1>1, <2>1, ParentOf, SubtreeOids
  <2>3. CASE IsScalar(q)
    <3>1. o = q
      BY <2>3 DEF Entry
    <3>2. CASE o = start /\ incl
      <4>1. Answers(q, SubId(q, start))
        BY <1>1, <2>3, AnswersMeans
      <4> QED
        BY <2>2, <3>2, <4>1 DEF Included
    <3>3. CASE Less(start, o)
      BY <1>3, <3>1, <3>3
    <3> QED
      BY <3>2, <3>3 DEF Follows
  <2>4. CASE ~ IsScalar(q)
    <3>1. PICK j \in 1 .. Len(cache) : o = q \o <<j>>
      BY <2>4 DEF Entry
    <3>2. j \in Nat /\ o # q
      BY <1>1, <3>1, Extension
    <3>3. Less(start, o)
      <4>1. ASSUME o = start, incl PROVE FALSE
        BY <1>1, <3>2, <4>1, Antichain
      <4> QED
        BY <4>1 DEF Follows
    <3>4. start = q \/ (start[Len(q) + 1] < j /\ start[Len(q) + 1] \in Nat)
      BY <1>1, <2>1, <3>1, <3>2, <3>3, RowOrder
    <3>5. PICK k \in Nat : k = IF start = q THEN 1 ELSE start[Len(q) + 1] + 1
      BY <3>4
    <3>6. k \in 1 .. Len(cache)
      BY <3>1, <3>4, <3>5
    <3>7. Answers(q, <<k>>)
      BY <1>1, <2>4, <3>6, WholeColumn
    <3>8. HasNext(q, start)
      BY <1>1, <2>1, <2>4, <3>5, <3>6, <3>7, NextSubMeans
    <3> QED
      BY <2>2, <3>8 DEF NextOfEntry
  <2> QED
    BY <2>3, <2>4
<1> QED
  BY <1>2, <1>3
\* The first row of the first entry behind is the closest variable of all of them.
LEMMA FirstOfRest ==
  ASSUME cache \in Seq(Rows), NEW S \in SUBSET Subtrees, S # {}, \A q \in S : Answers(q, FirstSub(q)),
         NEW r, r = Least(S) \o FirstSub(Least(S))
  PROVE  /\ Least(S) \in S /\ Entry(Least(S), r)
         /\ \A q \in S : \A o : Entry(q, o) => ~ Less(o, r)
<1> DEFINE p == Least(S)
<1>1. p \in S /\ \A q \in S : q = p \/ Less(p, q)
  BY LeastSubtree
<1> HIDE DEF p
<1>2. p \in Subtrees /\ p \in Oids
  BY <1>1, SubtreeOids
<1>3. Entry(p, r)
  <2>1. CASE IsScalar(p)
    <3>1. FirstSub(p) = <<>>
      BY <2>1 DEF FirstSub
    <3>2. r = p
      BY <1>2, <3>1 DEF p, Oids
    <3> QED
      BY <1>2, <2>1, <3>2 DEF Entry
  <2>2. CASE ~ IsScalar(p)
    <3>1. FirstSub(p) = <<1>>
      BY <2>2 DEF FirstSub, GetNextSub
    <3>2. Answers(p, <<1>>)
      BY <1>1, <3>1
    <3>3. 1 \in 1 .. Len(cache)
      BY <1>2, <2>2, <3>2, AnswersMeans
    <3> QED
      BY <1>2, <2>2, <3>1, <3>2, <3>3 DEF Entry, p
  <2> QED
    BY <2>1, <2>2
<1>4. r \in Oids /\ IsPrefix(p, r)
  BY <1>3, EntryFacts
<1>5. ASSUME NEW q \in S, NEW o, Entry(q, o), Less(o, r) PROVE FALSE
  <2>1. q \in Subtrees /\ o \in Oids /\ IsPrefix(q, o)
    BY <1>5, EntryFacts
  <2>2. CASE q = p
    <3>1. CASE IsScalar(p)
      <4>1. o = p /\ r = p
        BY <1>3, <1>5, <2>2, <3>1 DEF Entry
      <4> QED
        BY <1>2, <1>5, <4>1, LessIrreflexive
    <3>2. CASE ~ IsScalar(p)
      <4>1. PICK j \in 1 .. Len(cache) : o = p \o <<j>>
        BY <1>5, <2>2, <3>2 DEF Entry
      <4>2. r = p \o <<1>>
        BY <3>2 DEF FirstSub, GetNextSub, p
      <4> j \in Nat
        OBVIOUS
      <4>3. o # p /\ o[Len(p) + 1] = j
        BY <1>2, <4>1, Extension
      <4>4. o[Len(p) + 1] < 1
        BY <1>2, <1>5, <2>1, <2>2, <4>2, <4>3, RowOrder
      <4> QED
        BY <4>1, <4>3, <4>4
    <3> QED
      BY <3>1, <3>2
  <2>3. CASE Less(p, q)
    <3>1. Less(r, o)
      BY <1>2, <1>4, <2>1, <2>3, SubtreeOrder
    <3> QED
      BY <1>4, <1>5, <2>1, <3>1, LessTransitive, LessIrreflexive
  <2> QED
    BY <1>1, <1>5, <2>2, <2>3
<1> QED
  BY <1>1, <1>3, <1>5 DEF p

\* The answer to a request from start on: the closest variable, up to the columns with a hole.
\* The range ends behind all subtrees, or behind the one the starting OID is in.
Bounded(start, end) ==
  end = <<3>> \/ \E p \in Subtrees : IsPrefix(p, start) /\ end = Inc(p)

\* MIBTable.get_next returns a variable, and none of the columns without a hole lies before it in the
\* range; or there is no such variable.
THEOREM GetNextIsClosest ==
  ASSUME cache \in Seq(Rows), NEW start \in Oids, NEW incl \in BOOLEAN, incl => start \in Subtrees,
         NEW end, Bounded(start, end), NEW vb, vb = GetNext(start, incl, end)
  PROVE  \/ /\ \E oid \in Instances : vb = Is(oid)
            /\ vb.oid \in Instances /\ Follows(start, incl, vb.oid) /\ Less(vb.oid, end)
            /\ \A o \in Instances : InWhole(o) /\ Follows(start, incl, o) => ~ Less(o, vb.oid)
         \/ /\ vb = EndOfMibView
            /\ \A o \in Instances : InWhole(o) /\ Follows(start, incl, o) => ~ Less(o, end)
<1> DEFINE p == ParentPrefix(start)
           remaining == {q \in Subtrees : Less(start, q) /\ Less(q, end)}
           rest == {q \in remaining : Answers(q, FirstSub(q))}
           f == Least(rest)
<1>1. vb = IF Included(start, incl) THEN Is(start)
           ELSE IF NextOfEntry(start) THEN Is(p \o NextSub(p, start))
           ELSE IF rest # {} THEN Is(f \o FirstSub(f)) ELSE EndOfMibView
  BY DEF GetNext, Closest, Included, NextOfEntry
<1>2. \A o \in Instances : o \in Oids /\ \E q : Entry(q, o)
  BY InstanceEntry, EntryFacts
<1>3. \A q, o : Entry(q, o) => o \in Instances
  BY InstanceEntry
<1>4. end \in Oids
  <2>1. \A q \in Subtrees : Inc(q) \in Oids
    BY IncBounds
  <2>2. <<3>> \in Oids
    BY DEF Oids
  <2> QED
    BY <2>1, <2>2 DEF Bounded
<1>5. \A q \in Subtrees, o \in Oids : IsPrefix(q, o) /\ IsPrefix(q, start) => Less(o, end)
  <2>1. SUFFICES ASSUME NEW q \in Subtrees, NEW o \in Oids, IsPrefix(q, o), IsPrefix(q, start)
                 PROVE  Less(o, end)
    OBVIOUS
  <2>2. CASE end = <<3>>
    BY <2>1, <2>2, BeforeThree
  <2>3. ASSUME NEW r \in Subtrees, IsPrefix(r, start), end = Inc(r) PROVE Less(o, end)
    <3>1. r = q
      BY <2>1, <2>3, OneSubtree
    <3> QED
      BY <2>1, <2>3, <3>1, IncBounds
  <2> QED
    BY <2>2, <2>3 DEF Bounded
<1>6. \A q \in Subtrees, o \in Oids : Less(q, end) /\ Less(start, q) /\ IsPrefix(q, o) => Less(o, end)
  <2>1. SUFFICES ASSUME NEW q \in Subtrees, NEW o \in Oids, Less(q, end), Less(start, q), IsPrefix(q, o)
                 PROVE  Less(o, end)
    OBVIOUS
  <2>2. CASE end = <<3>>
    BY <2>1, <2>2, BeforeThree
  <2>3. ASSUME NEW r \in Subtrees, IsPrefix(r, start), end = Inc(r) PROVE FALSE
    <3>1. q \in Oids /\ r \in Oids
      BY SubtreeOids
    <3>2. Less(r, q)
      BY <2>1, <2>3, <3>1, PrefixOrder, LessTransitive
    <3>3. IsPrefix(r, q)
      BY <2>1, <2>3, <3>1, <3>2, IncBounds
    <3> QED
      BY <2>1, <2>3, <3>1, <3>2, <3>3, Antichain, LessIrreflexive
  <2> QED
    BY <2>2, <2>3 DEF Bounded
<1>7. \A x : Is(x).oid = x
  BY DEF Is
<1> HIDE DEF f, p
<1>8. CASE Included(start, incl)
  <2>1. Entry(start, start) /\ start \in Instances /\ vb = Is(start)
    BY <1>1, <1>3, <1>8, IncludedIsInstance
  <2>2. incl /\ start \in Subtrees /\ IsPrefix(start, start)
    BY <1>8, PrefixMeans DEF Included, Oids
  <2>3. Less(start, end)
    BY <1>5, <2>2
  <2>4. \A o \in Instances : Follows(start, incl, o) => ~ Less(o, start)
    BY <1>2, LessTransitive, LessIrreflexive DEF Follows
  <2>5. Follows(start, incl, start)
    BY <2>2 DEF Follows
  <2> QED
    BY <1>7, <2>1, <2>3, <2>4, <2>5
<1>9. CASE ~ Included(start, incl) /\ NextOfEntry(start)
  <2> DEFINE r == EntryNext(start)
  <2>a. vb = Is(r)
    BY <1>1, <1>9 DEF p, EntryNext
  <2>1. /\ Entry(p, r) /\ Less(start, r)
        /\ \A o \in Instances : Follows(start, incl, o) => ~ Less(o, r)
    BY <1>9, NextOfEntryIsNext DEF p
  <2> HIDE DEF r
  <2>2. vb = Is(r) /\ r \in Instances
    BY <1>3, <2>a, <2>1
  <2>3. p \in Subtrees /\ IsPrefix(p, start)
    BY <1>9, ParentOf DEF NextOfEntry, p
  <2>4. r \in Oids /\ IsPrefix(p, r)
    BY <2>1, EntryFacts
  <2>5. Less(r, end)
    BY <1>5, <2>3, <2>4
  <2> QED
    BY <1>7, <2>1, <2>2, <2>5 DEF Follows
<1>10. CASE ~ Included(start, incl) /\ ~ NextOfEntry(start)
  <2>1. \A o \in Instances : \A q : InWhole(o) /\ Follows(start, incl, o) /\ Entry(q, o)
                                  => Less(start, q) /\ Answers(q, FirstSub(q))
    BY <1>10, EntryBehind
  <2>2. \A o \in Instances : \A q : InWhole(o) /\ Follows(start, incl, o) /\ Entry(q, o) /\ Less(o, end) => q \in rest
    <3>1. SUFFICES ASSUME NEW o \in Instances, NEW q, InWhole(o), Follows(start, incl, o), Entry(q, o), Less(o, end)
                   PROVE  q \in rest
      OBVIOUS
    <3>2. q \in Subtrees /\ q \in Oids /\ o \in Oids /\ (q = o \/ Less(q, o))
      BY <3>1, EntryFacts, SubtreeOids
    <3>3. Less(q, end)
      BY <1>4, <3>1, <3>2, LessTransitive
    <3> QED
      BY <2>1, <3>1, <3>2, <3>3
  <2>3. CASE rest = {}
    BY <1>1, <1>2, <1>10, <2>2, <2>3
  <2>4. CASE rest # {}
    <3> DEFINE r == f \o FirstSub(f)
    <3>1. rest \in SUBSET Subtrees /\ \A q \in rest : Answers(q, FirstSub(q)) /\ Less(start, q) /\ Less(q, end)
      OBVIOUS
    <3>2. vb = Is(r)
      BY <1>1, <1>10, <2>4
    <3>r. r = Least(rest) \o FirstSub(Least(rest))
      BY DEF f
    <3> HIDE DEF rest, r
    <3>3. Least(rest) \in rest /\ Entry(Least(rest), r) /\ \A q \in rest : \A o : Entry(q, o) => ~ Less(o, r)
      BY <2>4, <3>1, <3>r, FirstOfRest
    <3>4. r \in Instances /\ r \in Oids /\ IsPrefix(Least(rest), r) /\ Least(rest) \in Subtrees
          /\ (Least(rest) = r \/ Less(Least(rest), r)) /\ Least(rest) \in Oids
      BY <1>3, <3>3, EntryFacts, SubtreeOids
    <3>5. Less(start, r)
      BY <3>1, <3>3, <3>4, LessTransitive
    <3>6. Less(r, end)
      BY <1>6, <3>1, <3>3, <3>4
    <3>7. \A o \in Instances : InWhole(o) /\ Follows(start, incl, o) => ~ Less(o, r)
      <4>1. SUFFICES ASSUME NEW o \in Instances, InWhole(o), Follows(start, incl, o), Less(o, r) PROVE FALSE
        OBVIOUS
      <4>2. Less(o, end)
        BY <1>2, <1>4, <3>4, <3>6, <4>1, LessTransitive
      <4>3. PICK q : Entry(q, o)
        BY <1>2
      <4>4. q \in rest
        BY <2>2, <4>1, <4>2, <4>3
      <4> QED
        BY <3>3, <4>1, <4>3, <4>4
    <3> QED
      BY <1>7, <3>2, <3>4, <3>5, <3>6, <3>7 DEF Follows
  <2> QED
    BY <2>3, <2>4
<1> QED
  BY <1>8, <1>9, <1>10

-----------------------------------------------------------------------------
(* The inductive invariant                                                 *)

Answerings == {"opened", "openFailed", "parseError", "testSet"}
Pdus == [type : Answerings] \cup [type : {"getNext"}, start : Oids, incl : BOOLEAN, end : Oids]
Walks == [region : Subtrees \cup {None}, start : Oids, incl : BOOLEAN, asked : BOOLEAN,
          seen : SUBSET Oids, pure : BOOLEAN, done : BOOLEAN]
SnmpTypes ==
  /\ hw \in [Ifs -> {"none", "bare", "eth"}] /\ cache \in Seq(Rows)
  /\ upd # None => upd \in [left : SUBSET Ifs, got : Seq(Rows)]
  /\ master \in [up : BOOLEAN, regions : {{}, Subtrees}] /\ inbox \in Seq(Pdus) /\ walk \in Walks

IsQuestion(pdu) == pdu.type = "getNext"
\* a question that is on its way is the one the walk waits for, unless its session has ended
InboxFits ==
  /\ ~ Linked => inbox = <<>>
  /\ master.regions # {} => master.up /\ Linked
  /\ walk.asked => master.regions = Subtrees /\ walk.region # None
  /\ \A j, k \in 1 .. Len(inbox) : IsQuestion(inbox[j]) /\ IsQuestion(inbox[k]) => j = k
  /\ master.up => \A k \in 1 .. Len(inbox) : IsQuestion(inbox[k]) =>
       /\ walk.asked /\ inbox[k].start = walk.start /\ inbox[k].incl = walk.incl
       /\ inbox[k].end \in {Inc(walk.region), <<3>>}

\* the walk has seen what lies before its position
Passed(w, o) == Less(o, w.start) \/ (o = w.start /\ ~ w.incl)
WalkFits ==
  /\ walk.region # None => IsPrefix(walk.region, walk.start) /\ (walk.incl => walk.start = walk.region)
  /\ walk.pure /\ walk.region # None =>
       walk.seen \subseteq Instances /\ \A o \in Instances : InWhole(o) /\ Passed(walk, o) => o \in walk.seen
  /\ walk.pure /\ walk.done =>
       walk.seen \subseteq Instances /\ \A o \in Instances : InWhole(o) => o \in walk.seen

SnmpInv == SnmpTypes /\ InboxFits /\ WalkFits

-----------------------------------------------------------------------------
(* The steps                                                               *)

\* The read of the interfaces takes one of those that are left.
LEMMA LeastIf == ASSUME NEW S \in SUBSET Ifs, S # {} PROVE Min(S) \in S
<1>1. S \subseteq Nat
  BY SnmpAssumption
<1>2. PICK i \in S : \A j \in S : ~ (<<j, i>> \in OpToRel(<, Nat))
  BY <1>1, NatLessThanWellFounded, WFMin
<1>3. \A j \in S : ~ j < i
  BY <1>1, <1>2 DEF OpToRel
<1>4. \A j \in S : i <= j
  BY <1>1, <1>3
<1> QED
  BY <1>4 DEF Min
\* A step that moves no walk, or that makes it impure, keeps what is known of the walk.
LEMMA WalkStays ==
  ASSUME WalkFits,
         walk'.region # None => walk'.region = walk.region /\ walk'.start = walk.start /\ walk'.incl = walk.incl,
         walk'.pure => walk.pure /\ cache' = cache /\ walk'.seen = walk.seen /\ walk'.done = walk.done
  PROVE  WalkFits'
<1>1. walk'.pure => Instances' = Instances /\ \A o : InWhole(o)' <=> InWhole(o)
  BY DEF Instances, InWhole, Whole, Cell
<1>2. walk'.region # None => \A o : Passed(walk', o) <=> Passed(walk, o)
  BY DEF Passed
<1> QED
  BY <1>1, <1>2 DEF WalkFits

\* The PDUs on their way stay as they are.
LEMMA InboxStays ==
  ASSUME InboxFits, Linked => Linked', inbox' = inbox, walk' = walk, master' = master
  PROVE  InboxFits'
  BY DEF InboxFits, IsQuestion

\* Nothing on its way, and no walk waits.
LEMMA Quiet ==
  ASSUME SnmpInv, inbox' = <<>>, walk'.asked = FALSE, master'.regions # {} => master'.up /\ Linked'
  PROVE  InboxFits'
  BY DEF InboxFits

\* A PDU that is no question is sent.
LEMMA AppendFits ==
  ASSUME InboxFits, NEW pdu, ~ IsQuestion(pdu), inbox \in Seq(Pdus), Linked', walk' = walk, master' = master,
         inbox' = Append(inbox, pdu)
  PROVE  InboxFits'
<1>1. Len(inbox') = Len(inbox) + 1 /\ inbox'[Len(inbox) + 1] = pdu
      /\ \A k \in 1 .. Len(inbox) : inbox'[k] = inbox[k]
  OBVIOUS
<1>2. \A k \in 1 .. Len(inbox') : IsQuestion(inbox'[k]) => k \in 1 .. Len(inbox) /\ inbox'[k] = inbox[k]
  BY <1>1
<1> QED
  BY <1>2 DEF InboxFits, IsQuestion
\* The first PDU is taken.
LEMMA TakeFits ==
  ASSUME InboxFits, inbox \in Seq(Pdus), inbox # <<>>, inbox' = Tail(inbox), Linked,
         walk'.asked => walk.asked, walk'.asked => walk' = walk,
         walk.asked /\ (\E k \in 1 .. Len(inbox') : IsQuestion(inbox'[k])) => walk'.asked,
         master'.regions # {} => master'.up, master'.up => master.up, walk'.asked => master' = master, Linked'
  PROVE  InboxFits'
<1>1. Len(inbox') = Len(inbox) - 1 /\ (\A k \in 1 .. Len(inbox') : inbox'[k] = inbox[k + 1] /\ k + 1 \in 1 .. Len(inbox))
      /\ Head(inbox) = inbox[1] /\ Len(inbox) \in Nat \ {0} /\ 1 \in 1 .. Len(inbox)
  OBVIOUS
<1>2. ASSUME IsQuestion(Head(inbox)), NEW k \in 1 .. Len(inbox'), IsQuestion(inbox'[k])
      PROVE  FALSE
  <2>1. k + 1 = 1
    BY <1>1, <1>2 DEF InboxFits
  <2> QED
    BY <1>1, <2>1
<1>3. \A j, k \in 1 .. Len(inbox') : IsQuestion(inbox'[j]) /\ IsQuestion(inbox'[k]) => j = k
  <2>1. SUFFICES ASSUME NEW j \in 1 .. Len(inbox'), NEW k \in 1 .. Len(inbox'), IsQuestion(inbox'[j]), IsQuestion(inbox'[k])
                 PROVE  j = k
    OBVIOUS
  <2>2. j + 1 = k + 1
    BY <1>1, <2>1 DEF InboxFits
  <2> QED
    BY <2>2
<1>4. ASSUME master'.up, NEW k \in 1 .. Len(inbox'), IsQuestion(inbox'[k])
      PROVE  /\ walk'.asked /\ inbox'[k].start = walk'.start /\ inbox'[k].incl = walk'.incl
             /\ inbox'[k].end \in {Inc(walk'.region), <<3>>}
  <2>1. ~ IsQuestion(Head(inbox))
    BY <1>2, <1>4
  <2>2. /\ walk.asked /\ inbox[k + 1].start = walk.start /\ inbox[k + 1].incl = walk.incl
        /\ inbox[k + 1].end \in {Inc(walk.region), <<3>>}
    BY <1>1, <1>4 DEF InboxFits
  <2> QED
    BY <1>1, <1>4, <2>1, <2>2
<1> QED
  BY <1>3, <1>4 DEF InboxFits, IsQuestion

\* What remains of the PDUs.
LEMMA TailIsSeq == ASSUME inbox \in Seq(Pdus), inbox # <<>> PROVE Tail(inbox) \in Seq(Pdus) /\ Head(inbox) \in Pdus
  OBVIOUS

\* MIBUpdater.start and reinit_data: the table may be replaced, which a walk that notices remembers.
LEMMA UpdaterStep == ASSUME SnmpInv, Updater PROVE SnmpInv'
<1>1. CASE StartUpdate
  <2>1. upd' \in [left : SUBSET Ifs, got : Seq(Rows)]
    BY <1>1 DEF StartUpdate, Present
  <2>2. SnmpTypes'
    BY <1>1, <2>1 DEF SnmpInv, SnmpTypes, StartUpdate
  <2>3. InboxFits'
    BY <1>1, InboxStays DEF SnmpInv, StartUpdate, InboxFits, Linked
  <2>4. WalkFits'
    BY <1>1, WalkStays DEF SnmpInv, StartUpdate
  <2> QED
    BY <2>2, <2>3, <2>4 DEF SnmpInv
<1>2. ASSUME NEW c \in Seq(Rows), SetCache(c), upd' = None, UNCHANGED <<hw, conn, agent, master, inbox, count>>
      PROVE  SnmpInv'
  <2>1. walk' = [walk EXCEPT !.pure = @ /\ c = cache] /\ cache' = c
    BY <1>2 DEF SetCache
  <2>2. walk' \in Walks /\ (walk'.pure => walk.pure /\ cache' = cache)
        /\ walk'.region = walk.region /\ walk'.start = walk.start /\ walk'.incl = walk.incl /\ walk'.asked = walk.asked
        /\ walk'.seen = walk.seen /\ walk'.done = walk.done
    BY <2>1 DEF SnmpInv, SnmpTypes, Walks
  <2>3. SnmpTypes'
    BY <1>2, <2>1, <2>2 DEF SnmpInv, SnmpTypes
  <2>4. InboxFits'
    BY <1>2, <2>2 DEF SnmpInv, InboxFits, IsQuestion, Linked
  <2>5. WalkFits'
    BY <2>2, WalkStays DEF SnmpInv
  <2> QED
    BY <2>3, <2>4, <2>5 DEF SnmpInv
<1>3. CASE UpdateRead
  <2> DEFINE i == Min(upd.left)
  <2>1. upd.left \in SUBSET Ifs /\ upd.got \in Seq(Rows) /\ upd \in [left : SUBSET Ifs, got : Seq(Rows)]
    BY <1>3 DEF UpdateRead, SnmpInv, SnmpTypes
  <2>2. i \in upd.left /\ i \in Ifs
    BY <1>3, <2>1, LeastIf DEF UpdateRead
  <2>3. CASE hw[i] = "none"
    <3>1. SetCache(<<>>) /\ upd' = None /\ UNCHANGED <<hw, conn, agent, master, inbox, count>>
      BY <1>3, <2>3 DEF UpdateRead
    <3>2. <<>> \in Seq(Rows)
      OBVIOUS
    <3> QED
      BY <1>2, <3>1, <3>2
  <2>4. CASE hw[i] # "none"
    <3>1. upd' = ReadNext /\ UNCHANGED <<hw, cache, walk, conn, agent, master, inbox, count>>
      BY <1>3, <2>4 DEF UpdateRead
    <3>2. [name |-> i, kind |-> hw[i]] \in Rows
      BY <2>2, <2>4 DEF SnmpInv, SnmpTypes, Rows
    <3>3. ReadNext = [left |-> upd.left \ {i}, got |-> Append(upd.got, [name |-> i, kind |-> hw[i]])]
      BY DEF ReadNext
    <3> HIDE DEF i
    <3>4. upd' \in [left : SUBSET Ifs, got : Seq(Rows)]
      BY <2>1, <3>1, <3>2, <3>3
    <3>5. SnmpTypes'
      BY <3>1, <3>4 DEF SnmpInv, SnmpTypes
    <3>6. InboxFits'
      BY <3>1, InboxStays DEF SnmpInv, InboxFits, Linked
    <3>7. WalkFits'
      BY <3>1, WalkStays DEF SnmpInv
    <3> QED
      BY <3>5, <3>6, <3>7 DEF SnmpInv
  <2> QED
    BY <2>3, <2>4
<1>4. CASE UpdateDone
  <2>1. upd.got \in Seq(Rows)
    BY <1>4 DEF UpdateDone, SnmpInv, SnmpTypes
  <2> QED
    BY <1>2, <1>4, <2>1 DEF UpdateDone
<1> QED
  BY <1>1, <1>3, <1>4 DEF Updater

\* The end of a session: what was on its way is lost.
LEMMA DropFits ==
  ASSUME SnmpInv, NEW next, Drop(next), UNCHANGED <<hw, cache, upd>>
  PROVE  SnmpInv'
<1>1. inbox' = <<>> /\ master' = [master EXCEPT !.regions = {}]
      /\ walk' = [walk EXCEPT !.asked = FALSE, !.pure = FALSE]
  BY DEF Drop
<1>2. walk' \in Walks /\ ~ walk'.pure /\ walk'.asked = FALSE
      /\ walk'.region = walk.region /\ walk'.start = walk.start /\ walk'.incl = walk.incl
  BY <1>1 DEF SnmpInv, SnmpTypes, Walks
<1>3. master' \in [up : BOOLEAN, regions : {{}, Subtrees}] /\ master'.regions = {}
  BY <1>1 DEF SnmpInv, SnmpTypes
<1>4. SnmpTypes'
  BY <1>1, <1>2, <1>3 DEF SnmpInv, SnmpTypes
<1>5. InboxFits'
  BY <1>1, <1>2, <1>3, Quiet
<1>6. WalkFits'
  BY <1>2, WalkStays DEF SnmpInv
<1> QED
  BY <1>4, <1>5, <1>6 DEF SnmpInv

\* SocketManager.connection_loop and opening_handshake.
LEMMA SessionStep == ASSUME SnmpInv, Session PROVE SnmpInv'
<1>1. ASSUME UNCHANGED <<hw, cache, upd, master, inbox, walk>>, ~ Linked \/ Linked' PROVE SnmpInv'
  <2>2. InboxFits'
    BY <1>1, InboxStays DEF SnmpInv
  <2>3. WalkFits'
    BY <1>1, WalkStays DEF SnmpInv
  <2>4. SnmpTypes'
    BY <1>1 DEF SnmpInv, SnmpTypes
  <2> QED
    BY <2>2, <2>3, <2>4 DEF SnmpInv
<1>2. CASE Connect
  BY <1>1, <1>2 DEF Connect, Linked
<1>3. CASE Retry
  BY <1>1, <1>3 DEF Retry, Linked
<1>4. CASE Handshake
  <2>1. PICK answer \in {"opened", "openFailed", "parseError"} : inbox' = Append(inbox, [type |-> answer])
    BY <1>4 DEF Handshake
  <2>2. [type |-> answer] \in Pdus /\ ~ IsQuestion([type |-> answer])
    BY DEF Pdus, Answerings, IsQuestion
  <2>3. UNCHANGED <<hw, cache, upd, master, walk>> /\ Linked'
    BY <1>4 DEF Handshake, Linked
  <2>4. InboxFits'
    BY <2>1, <2>2, <2>3, AppendFits DEF SnmpInv, SnmpTypes
  <2>5. WalkFits'
    BY <2>3, WalkStays DEF SnmpInv
  <2>6. inbox' \in Seq(Pdus)
    BY <2>1, <2>2 DEF SnmpInv, SnmpTypes
  <2>7. SnmpTypes'
    BY <2>3, <2>6 DEF SnmpInv, SnmpTypes
  <2> QED
    BY <2>4, <2>5, <2>7 DEF SnmpInv
<1>5. CASE ConnectionLost
  BY <1>5, DropFits DEF ConnectionLost, Close
<1> QED
  BY <1>2, <1>3, <1>4, <1>5 DEF Session

\* snmpd ends and is started again.
LEMMA MasterStep == ASSUME SnmpInv, MasterStops \/ MasterStarts PROVE SnmpInv'
<1>1. CASE MasterStops
  <2>1. /\ master' = [up |-> FALSE, regions |-> {}] /\ walk' = [walk EXCEPT !.asked = FALSE, !.pure = FALSE]
        /\ UNCHANGED <<hw, cache, upd, conn, inbox>>
    BY <1>1 DEF MasterStops
  <2>2. walk' \in Walks /\ ~ walk'.pure /\ walk'.asked = FALSE
        /\ walk'.region = walk.region /\ walk'.start = walk.start /\ walk'.incl = walk.incl
    BY <2>1 DEF SnmpInv, SnmpTypes, Walks
  <2>3. SnmpTypes'
    BY <2>1, <2>2 DEF SnmpInv, SnmpTypes
  <2>4. InboxFits'
    BY <2>1, <2>2 DEF SnmpInv, InboxFits, IsQuestion, Linked
  <2>5. WalkFits'
    BY <2>2, WalkStays DEF SnmpInv
  <2> QED
    BY <2>3, <2>4, <2>5 DEF SnmpInv
<1>2. CASE MasterStarts
  <2>1. /\ master' = [master EXCEPT !.up = TRUE] /\ inbox = <<>> /\ ~ walk.asked /\ master.regions = {}
        /\ UNCHANGED <<hw, cache, upd, conn, inbox, walk>>
    <3>1. SysDescr \in Subtrees
      BY DEF Subtrees
    <3> QED
      BY <1>2, <3>1 DEF MasterStarts, SnmpInv, InboxFits
  <2>2. master' \in [up : BOOLEAN, regions : {{}, Subtrees}] /\ master'.regions = {}
    BY <2>1 DEF SnmpInv, SnmpTypes
  <2>3. SnmpTypes'
    BY <2>1, <2>2 DEF SnmpInv, SnmpTypes
  <2>4. InboxFits'
    BY <2>1, <2>2, Quiet DEF SnmpInv, SnmpTypes, Walks
  <2>5. WalkFits'
    BY <2>1, WalkStays DEF SnmpInv
  <2> QED
    BY <2>3, <2>4, <2>5 DEF SnmpInv
<1> QED
  BY <1>1, <1>2
\* The walk goes on with the next region, or is done.
LEMMA AtRegionMeans ==
  ASSUME NEW w \in Walks, NEW qs \in SUBSET Subtrees, NEW v, v = AtRegion(w, qs)
  PROVE  /\ v \in Walks /\ v.seen = w.seen /\ v.pure = w.pure /\ ~ v.asked
         /\ qs = {} => v.region = None /\ v.done
         /\ qs # {} => v.region = Least(qs) /\ v.region # None /\ v.start = Least(qs) /\ v.incl /\ v.done = w.done
                       /\ IsPrefix(v.region, v.start)
<1>1. CASE qs = {}
  BY <1>1 DEF AtRegion, Walks
<1>2. CASE qs # {}
  <2>1. Least(qs) \in Subtrees /\ Least(qs) \in Oids /\ Least(qs) # None
    BY <1>2, LeastSubtree, SubtreeOids
  <2>2. IsPrefix(Least(qs), Least(qs))
    BY <2>1, PrefixMeans DEF Oids
  <2> QED
    BY <1>2, <2>1, <2>2 DEF AtRegion, Walks
<1> QED
  BY <1>1, <1>2

\* A walk starts with the first region.
LEMMA WalkStartStep == ASSUME SnmpInv, WalkStart PROVE SnmpInv'
<1>1. /\ walk' = AtRegion(NoWalk, Subtrees) /\ walk.region = None /\ master.regions = Subtrees
      /\ UNCHANGED <<hw, cache, upd, conn, agent, master, inbox>>
  BY DEF WalkStart, SnmpInv, SnmpTypes
<1>2. NoWalk \in Walks /\ NoWalk.seen = {} /\ NoWalk.done = FALSE
  BY DEF NoWalk, Walks, Oids
<1>3. Subtrees # {} /\ Subtrees \in SUBSET Subtrees
  BY DEF Subtrees
<1> HIDE DEF Subtrees
<1>4. /\ walk' \in Walks /\ walk'.region = Least(Subtrees) /\ walk'.start = Least(Subtrees) /\ walk'.incl
      /\ walk'.seen = {} /\ walk'.done = FALSE /\ ~ walk'.asked /\ IsPrefix(walk'.region, walk'.start)
  BY <1>1, <1>2, <1>3, AtRegionMeans
<1>5. cache \in Seq(Rows) /\ cache' = cache
  BY <1>1 DEF SnmpInv, SnmpTypes
<1>6. ASSUME NEW o \in Instances PROVE ~ Passed(walk', o)
  <2>1. PICK q : Entry(q, o)
    BY <1>5, InstanceEntry
  <2>2. q \in Subtrees /\ o \in Oids /\ q \in Oids /\ (q = o \/ Less(q, o))
    BY <1>5, <2>1, EntryFacts, SubtreeOids
  <2>3. Least(Subtrees) \in Oids /\ (q = Least(Subtrees) \/ Less(Least(Subtrees), q))
    BY <1>3, <2>2, LeastSubtree, SubtreeOids
  <2> QED
    BY <1>4, <2>2, <2>3, LessTransitive, LessIrreflexive DEF Passed
<1>7. Instances' = Instances
  BY <1>5 DEF Instances, Cell
<1>8. WalkFits'
  BY <1>4, <1>6, <1>7 DEF WalkFits, InWhole, Whole, Cell
<1>9. SnmpTypes'
  BY <1>1, <1>4 DEF SnmpInv, SnmpTypes
<1>10. \A k \in 1 .. Len(inbox) : ~ IsQuestion(inbox[k])
  BY <1>1, <1>3 DEF SnmpInv, InboxFits
<1>11. InboxFits'
  BY <1>1, <1>4, <1>10 DEF SnmpInv, InboxFits, Linked, IsQuestion
<1> QED
  BY <1>8, <1>9, <1>11 DEF SnmpInv

\* snmpd asks from the position of the walk on.
LEMMA AskStep == ASSUME SnmpInv, Ask PROVE SnmpInv'
<1>1. PICK end \in {Inc(walk.region), <<3>>} :
        inbox' = Append(inbox, [type |-> "getNext", start |-> walk.start, incl |-> walk.incl, end |-> end])
  BY DEF Ask
<1> DEFINE pdu == [type |-> "getNext", start |-> walk.start, incl |-> walk.incl, end |-> end]
<1>2. /\ walk' = [walk EXCEPT !.asked = TRUE] /\ walk.region # None /\ ~ walk.asked /\ walk.region \in master.regions
      /\ UNCHANGED <<hw, cache, upd, conn, agent, master>>
  BY DEF Ask
<1>3. walk.region \in Subtrees /\ end \in Oids /\ master.regions = Subtrees /\ master.up
  <2>1. walk.region \in Subtrees /\ master.regions = Subtrees
    BY <1>2 DEF SnmpInv, SnmpTypes, Walks
  <2>2. walk.start \in Oids
    BY DEF SnmpInv, SnmpTypes, Walks
  <2>3. Inc(walk.region) \in Oids
    BY <2>1, <2>2, IncBounds
  <2>4. <<3>> \in Oids
    BY DEF Oids
  <2>5. end \in Oids
    BY <1>1, <2>3, <2>4
  <2> QED
    BY <1>2, <2>1, <2>5 DEF SnmpInv, InboxFits
<1>4. pdu \in Pdus
  BY <1>3 DEF SnmpInv, SnmpTypes, Walks, Pdus
<1>5. /\ walk' \in Walks /\ walk'.asked /\ walk'.region = walk.region /\ walk'.start = walk.start /\ walk'.incl = walk.incl
      /\ walk'.pure = walk.pure /\ walk'.seen = walk.seen /\ walk'.done = walk.done
  BY <1>2 DEF SnmpInv, SnmpTypes, Walks
<1>6. WalkFits'
  BY <1>2, <1>5, WalkStays DEF SnmpInv
<1>7. inbox \in Seq(Pdus) /\ inbox' = Append(inbox, pdu)
  BY <1>1 DEF SnmpInv, SnmpTypes
<1>8. pdu.start = walk.start /\ pdu.incl = walk.incl /\ pdu.end = end
  OBVIOUS
<1> HIDE DEF pdu
<1>9. Len(inbox') = Len(inbox) + 1 /\ inbox'[Len(inbox) + 1] = pdu /\ inbox' \in Seq(Pdus)
      /\ \A k \in 1 .. Len(inbox) : inbox'[k] = inbox[k]
  BY <1>4, <1>7
<1>10. SnmpTypes'
  BY <1>2, <1>5, <1>9 DEF SnmpInv, SnmpTypes
<1>11. \A k \in 1 .. Len(inbox) : ~ IsQuestion(inbox[k])
  BY <1>2, <1>3 DEF SnmpInv, InboxFits
<1>12. Linked
  BY <1>2 DEF SnmpInv, InboxFits
<1>13. \A k \in 1 .. Len(inbox') : IsQuestion(inbox'[k]) => k = Len(inbox) + 1
  BY <1>7, <1>9, <1>11 DEF IsQuestion
<1>14. Linked'
  BY <1>2, <1>12 DEF Linked
<1>15. InboxFits'
  BY <1>1, <1>2, <1>3, <1>5, <1>8, <1>9, <1>13, <1>14 DEF InboxFits, IsQuestion
<1> QED
  BY <1>6, <1>10, <1>15 DEF SnmpInv
\* An answer moves the walk to the closest variable, or past the region: nothing is left out.
LEMMA AnsweredFits ==
  ASSUME SnmpInv, walk.asked, NEW pdu, pdu.start = walk.start, pdu.incl = walk.incl,
         pdu.end \in {Inc(walk.region), << 3 >>}, walk' = Answered(pdu), cache' = cache, master' = master
  PROVE  walk' \in Walks /\ ~ walk'.asked /\ WalkFits'
<1> DEFINE p == walk.region
           start == walk.start
           incl == walk.incl
           end == pdu.end
           vb == GetNext(start, incl, end)
<1>1. /\ p \in Subtrees /\ p # None /\ master.regions = Subtrees /\ start \in Oids /\ incl \in BOOLEAN /\ walk \in Walks
      /\ cache \in Seq(Rows) /\ IsPrefix(p, start) /\ (incl => start = p) /\ p \in Oids
  <2>1. walk \in Walks /\ cache \in Seq(Rows)
    BY DEF SnmpInv, SnmpTypes
  <2>2. master.regions = Subtrees /\ walk.region # None
    BY DEF SnmpInv, InboxFits
  <2>3. p \in Subtrees /\ start \in Oids /\ incl \in BOOLEAN
    BY <2>1, <2>2 DEF Walks
  <2> QED
    BY <2>1, <2>2, <2>3, SubtreeOids DEF SnmpInv, WalkFits
<1>2. Bounded(start, end)
  BY <1>1 DEF Bounded
<1>3. walk' = IF vb.type = "endOfMibView" THEN AtRegion(walk, RegionsAfter(p))
              ELSE [walk EXCEPT !.seen = @ \cup {vb.oid}, !.start = vb.oid, !.incl = FALSE, !.asked = FALSE,
                                !.region = ParentPrefix(vb.oid)]
  BY DEF Answered
<1>4. Instances' = Instances /\ \A o : InWhole(o)' <=> InWhole(o)
  BY DEF Instances, InWhole, Whole, Cell
<1>5. walk.pure => walk.seen \subseteq Instances /\ \A o \in Instances : InWhole(o) /\ Passed(walk, o) => o \in walk.seen
  BY <1>1 DEF SnmpInv, WalkFits
<1>6. walk.pure /\ walk.done => walk.seen \subseteq Instances /\ \A o \in Instances : InWhole(o) => o \in walk.seen
  BY DEF SnmpInv, WalkFits
<1>7. \A o \in Instances : o \in Oids
  BY <1>1, InstanceEntry, EntryFacts
<1>8. \A o \in Instances : Passed(walk, o) \/ Follows(start, incl, o)
  <2>1. \A o \in Oids : o = start \/ Less(o, start) \/ Less(start, o)
    BY <1>1, LessTotal
  <2> QED
    BY <1>7, <2>1 DEF Passed, Follows
<1>9. \/ /\ \E oid \in Instances : vb = Is(oid)
         /\ vb.oid \in Instances /\ Follows(start, incl, vb.oid) /\ Less(vb.oid, end)
         /\ \A o \in Instances : InWhole(o) /\ Follows(start, incl, o) => ~ Less(o, vb.oid)
      \/ /\ vb = EndOfMibView
         /\ \A o \in Instances : InWhole(o) /\ Follows(start, incl, o) => ~ Less(o, end)
  BY <1>1, <1>2, GetNextIsClosest
<1> HIDE DEF vb, p, start, incl, end
<1>10. ASSUME NEW oid \in Instances, vb = Is(oid), \A o \in Instances : InWhole(o) /\ Follows(start, incl, o) => ~ Less(o, vb.oid)
       PROVE  walk' \in Walks /\ ~ walk'.asked /\ WalkFits'
  <2>1. vb.type # "endOfMibView" /\ vb.oid = oid /\ oid \in Oids
    BY <1>7, <1>10 DEF Is
  <2>2. PICK q : Entry(q, oid)
    BY <1>1, <1>10, InstanceEntry
  <2>3. ParentPrefix(oid) = q /\ q \in Subtrees /\ IsPrefix(q, oid)
    BY <1>1, <2>1, <2>2, EntryFacts, ParentOf
  <2>4. walk' = [walk EXCEPT !.seen = @ \cup {oid}, !.start = oid, !.incl = FALSE, !.asked = FALSE, !.region = q]
    BY <1>3, <2>1, <2>3
  <2>5. /\ walk' \in Walks /\ walk'.asked = FALSE /\ walk'.start = oid /\ walk'.incl = FALSE /\ walk'.region = q
        /\ walk'.seen = walk.seen \cup {oid} /\ walk'.pure = walk.pure /\ walk'.done = walk.done
    <3>1. walk.seen \cup {oid} \in SUBSET Oids
      BY <1>1, <2>1 DEF Walks
    <3>2. walk.region \in Subtrees \cup {None} /\ q \in Subtrees \cup {None} /\ FALSE \in BOOLEAN
      BY <1>1, <2>3 DEF Walks
    <3> HIDE DEF Subtrees, Oids
    <3> QED
      BY <1>1, <2>1, <2>4, <3>1, <3>2 DEF Walks
  <2>6. \A o \in Instances : InWhole(o) /\ Passed(walk', o) => Passed(walk, o) \/ o = oid
    BY <1>8, <1>10, <2>1, <2>5 DEF Passed
  <2>7. WalkFits'
    BY <1>4, <1>5, <1>6, <1>10, <2>3, <2>5, <2>6 DEF WalkFits
  <2> QED
    BY <2>5, <2>7
<1>11. ASSUME vb = EndOfMibView, \A o \in Instances : InWhole(o) /\ Follows(start, incl, o) => ~ Less(o, end)
       PROVE  walk' \in Walks /\ ~ walk'.asked /\ WalkFits'
  <2> DEFINE qs == RegionsAfter(p)
  <2>1. qs = {q \in Subtrees : Less(p, q)}
    BY <1>1 DEF RegionsAfter
  <2>2. walk' = AtRegion(walk, qs)
    BY <1>3, <1>11 DEF EndOfMibView
  <2>3. qs \in SUBSET Subtrees
    BY <2>1
  <2>4. \A o \in Instances : \A q : InWhole(o) /\ Follows(start, incl, o) /\ Entry(q, o) => q \in qs
    <3>1. SUFFICES ASSUME NEW o \in Instances, NEW q, InWhole(o), Follows(start, incl, o), Entry(q, o), ~ Less(p, q)
                   PROVE  FALSE
      BY <1>1, <2>1, EntryFacts
    <3>2. q \in Subtrees /\ o \in Oids /\ IsPrefix(q, o) /\ q \in Oids
      BY <1>1, <3>1, EntryFacts, SubtreeOids
    <3>3. ~ Less(o, end)
      BY <1>11, <3>1
    <3>4. CASE q = p
      <4>1. Less(o, Inc(p)) /\ Less(o, <<3>>)
        BY <3>2, <3>4, IncBounds, BeforeThree
      <4> QED
        BY <3>3, <4>1 DEF end, p
    <3>5. CASE Less(q, p)
      <4>1. Less(o, start)
        BY <1>1, <3>2, <3>5, SubtreeOrder
      <4> QED
        BY <1>1, <3>1, <3>2, <4>1, LessTransitive, LessIrreflexive DEF Follows
    <3> QED
      BY <1>1, <3>1, <3>2, <3>4, <3>5, LessTotal
  <2> HIDE DEF qs
  <2>5. /\ walk' \in Walks /\ walk'.seen = walk.seen /\ walk'.pure = walk.pure /\ ~ walk'.asked
        /\ qs = {} => walk'.region = None /\ walk'.done
        /\ qs # {} => walk'.region = Least(qs) /\ walk'.region # None /\ walk'.start = Least(qs) /\ walk'.incl
                      /\ walk'.done = walk.done /\ IsPrefix(walk'.region, walk'.start)
    BY <1>1, <2>2, <2>3, AtRegionMeans
  <2>6. CASE qs = {}
    <3>1. \A o \in Instances : InWhole(o) => Passed(walk, o)
      BY <1>1, <1>8, <2>4, <2>6, InstanceEntry
    <3>2. WalkFits'
      BY <1>4, <1>5, <2>5, <2>6, <3>1 DEF WalkFits
    <3> QED
      BY <2>5, <3>2
  <2>7. CASE qs # {}
    <3>1. ASSUME NEW o \in Instances, InWhole(o), Passed(walk', o) PROVE Passed(walk, o)
      <4>1. SUFFICES ASSUME Follows(start, incl, o) PROVE FALSE
        BY <1>8
      <4>2. PICK q : Entry(q, o)
        BY <1>1, InstanceEntry
      <4>3. q \in qs
        BY <2>4, <3>1, <4>1, <4>2
      <4>4. Least(qs) \in qs /\ (q = Least(qs) \/ Less(Least(qs), q))
        BY <2>3, <2>7, <4>3, LeastSubtree
      <4>5. q \in Oids /\ Least(qs) \in Oids /\ o \in Oids /\ (q = o \/ Less(q, o))
        BY <1>1, <2>3, <4>2, <4>3, <4>4, EntryFacts, SubtreeOids
      <4>6. Less(o, Least(qs))
        BY <2>5, <2>7, <3>1 DEF Passed
      <4> QED
        BY <4>4, <4>5, <4>6, LessTransitive, LessIrreflexive
    <3>2. WalkFits'
      BY <1>4, <1>5, <1>6, <2>5, <2>7, <3>1 DEF WalkFits
    <3> QED
      BY <2>5, <3>2
  <2> QED
    BY <2>6, <2>7
<1> QED
  BY <1>9, <1>10, <1>11

\* A request is answered.
LEMMA ReceiveGetNextStep == ASSUME SnmpInv, ReceiveGetNext PROVE SnmpInv'
<1>1. /\ inbox # <<>> /\ inbox' = Tail(inbox) /\ Linked /\ IsQuestion(Head(inbox))
      /\ walk' = (IF walk.asked THEN Answered(Head(inbox)) ELSE walk)
      /\ UNCHANGED <<hw, cache, upd, conn, agent, master>>
  BY DEF ReceiveGetNext, HeadType, IsQuestion
<1>2. inbox \in Seq(Pdus) /\ Tail(inbox) \in Seq(Pdus)
  BY <1>1, TailIsSeq DEF SnmpInv, SnmpTypes
<1>3. walk' \in Walks /\ ~ walk'.asked /\ WalkFits'
  <2>1. CASE walk.asked
    <3>1. Head(inbox) = inbox[1] /\ 1 \in 1 .. Len(inbox)
      BY <1>1, <1>2
    <3>2. SysDescr \in Subtrees
      BY DEF Subtrees
    <3>3. master.up
      BY <2>1, <3>2 DEF SnmpInv, InboxFits
    <3>4. Head(inbox).start = walk.start /\ Head(inbox).incl = walk.incl /\ Head(inbox).end \in {Inc(walk.region), <<3>>}
      BY <1>1, <3>1, <3>3 DEF SnmpInv, InboxFits
    <3> QED
      BY <1>1, <2>1, <3>4, AnsweredFits
  <2>2. CASE ~ walk.asked
    BY <1>1, <2>2, WalkStays DEF SnmpInv, SnmpTypes
  <2> QED
    BY <2>1, <2>2
<1>4. SnmpTypes'
  BY <1>1, <1>2, <1>3 DEF SnmpInv, SnmpTypes
<1>5. Linked'
  BY <1>1 DEF Linked
<1>6. \A k \in 1 .. Len(inbox') : ~ IsQuestion(inbox'[k])
  <2>1. SUFFICES ASSUME NEW k \in 1 .. Len(inbox'), IsQuestion(inbox'[k]) PROVE FALSE
    OBVIOUS
  <2>2. k + 1 \in 1 .. Len(inbox) /\ inbox'[k] = inbox[k + 1] /\ Head(inbox) = inbox[1] /\ 1 \in 1 .. Len(inbox)
    BY <1>1, <1>2
  <2>3. k + 1 = 1
    BY <1>1, <2>1, <2>2 DEF SnmpInv, InboxFits
  <2> QED
    BY <2>3
<1>7. InboxFits'
  BY <1>1, <1>2, <1>3, <1>5, <1>6, TakeFits DEF SnmpInv, InboxFits
<1> QED
  BY <1>3, <1>4, <1>7 DEF SnmpInv

\* snmpd answers the request to open the session.
LEMMA ReceiveResponseStep == ASSUME SnmpInv, ReceiveResponse PROVE SnmpInv'
<1>1. /\ inbox # <<>> /\ Linked /\ Head(inbox).type \in {"opened", "openFailed", "parseError"}
      /\ Response(Head(inbox)) /\ UNCHANGED <<hw, cache, upd>>
  BY DEF ReceiveResponse, HeadType
<1>2. inbox \in Seq(Pdus) /\ Tail(inbox) \in Seq(Pdus)
  BY <1>1, TailIsSeq DEF SnmpInv, SnmpTypes
<1>3. CASE Head(inbox).type = "opened"
  <2>1. /\ conn' = "up" /\ master' = [master EXCEPT !.regions = IF master.up THEN Subtrees ELSE @]
        /\ inbox' = Tail(inbox) /\ walk' = walk
    BY <1>1, <1>3 DEF Response
  <2>2. master' \in [up : BOOLEAN, regions : {{}, Subtrees}] /\ master'.up = master.up
        /\ (master'.regions # {} => master'.up) /\ (walk.asked => master' = master)
    <3>1. master \in [up : BOOLEAN, regions : {{}, Subtrees}] /\ (master.regions # {} => master.up)
          /\ (walk.asked => master.regions = Subtrees)
      BY DEF SnmpInv, SnmpTypes, InboxFits
    <3> HIDE DEF Subtrees
    <3>2. CASE master.up
      BY <2>1, <3>1, <3>2
    <3>3. CASE ~ master.up
      BY <2>1, <3>1, <3>3
    <3> QED
      BY <3>2, <3>3
  <2>3. SnmpTypes'
    BY <1>1, <1>2, <2>1, <2>2 DEF SnmpInv, SnmpTypes
  <2>4. Linked'
    BY <2>1 DEF Linked
  <2>5. InboxFits'
    BY <1>1, <1>2, <2>1, <2>2, <2>4, TakeFits DEF SnmpInv
  <2>6. WalkFits'
    BY <1>1, <2>1, WalkStays DEF SnmpInv
  <2> QED
    BY <2>3, <2>5, <2>6 DEF SnmpInv
<1>4. CASE Head(inbox).type = "openFailed"
  <2>1. inbox' = Tail(inbox) /\ UNCHANGED <<conn, master, walk>>
    BY <1>1, <1>4 DEF Response
  <2>2. SnmpTypes'
    BY <1>1, <1>2, <2>1 DEF SnmpInv, SnmpTypes
  <2>3. Linked'
    BY <1>1, <2>1 DEF Linked
  <2>4. InboxFits'
    BY <1>1, <1>2, <2>1, <2>3, TakeFits DEF SnmpInv, InboxFits
  <2>5. WalkFits'
    BY <1>1, <2>1, WalkStays DEF SnmpInv
  <2> QED
    BY <2>2, <2>4, <2>5 DEF SnmpInv
<1>5. CASE Head(inbox).type = "parseError"
  BY <1>1, <1>5, DropFits DEF Response, Close
<1> QED
  BY <1>1, <1>3, <1>4, <1>5
\* A PDU is lost, and the walk waits no longer if it was its question.
LEMMA LostFits ==
  ASSUME SnmpInv, inbox # <<>>, Linked, UNCHANGED <<hw, cache, upd, conn, master>>, inbox' \in {<<>>, Tail(inbox)},
         NEW b \in BOOLEAN, walk' = [walk EXCEPT !.asked = @ /\ b],
         b => inbox' = Tail(inbox), (\E k \in 1 .. Len(inbox') : IsQuestion(inbox'[k])) => b
  PROVE  SnmpInv'
<1>1. inbox \in Seq(Pdus) /\ Tail(inbox) \in Seq(Pdus) /\ inbox' \in Seq(Pdus)
  <2>1. inbox \in Seq(Pdus) /\ Tail(inbox) \in Seq(Pdus) /\ <<>> \in Seq(Pdus)
    BY TailIsSeq DEF SnmpInv, SnmpTypes
  <2> QED
    BY <2>1
<1>2. /\ walk' \in Walks /\ walk'.asked = (walk.asked /\ b) /\ walk'.region = walk.region /\ walk'.start = walk.start
      /\ walk'.incl = walk.incl /\ walk'.pure = walk.pure /\ walk'.seen = walk.seen /\ walk'.done = walk.done
      /\ (walk'.asked => walk' = walk)
  <2>1. walk \in Walks
    BY DEF SnmpInv, SnmpTypes
  <2>2. (walk.asked /\ b) \in BOOLEAN
    OBVIOUS
  <2> HIDE DEF Subtrees, Oids
  <2>3. /\ walk' \in Walks /\ walk'.asked = (walk.asked /\ b) /\ walk'.region = walk.region /\ walk'.start = walk.start
        /\ walk'.incl = walk.incl /\ walk'.pure = walk.pure /\ walk'.seen = walk.seen /\ walk'.done = walk.done
    BY <2>1, <2>2 DEF Walks
  <2>4. ASSUME walk'.asked PROVE walk' = walk
    <3>1. walk.asked = TRUE /\ walk'.asked = TRUE
      BY <2>1, <2>3, <2>4 DEF Walks
    <3> QED
      BY <2>1, <2>3, <3>1 DEF Walks
  <2> QED
    BY <2>3, <2>4
<1>3. SnmpTypes'
  BY <1>1, <1>2 DEF SnmpInv, SnmpTypes
<1>4. Linked'
  BY DEF Linked
<1>5. InboxFits'
  <2>1. CASE inbox' = Tail(inbox)
    BY <1>1, <1>2, <1>4, <2>1, TakeFits DEF SnmpInv, InboxFits
  <2>2. CASE inbox' = <<>> /\ ~ b
    BY <1>2, <1>4, <2>2, Quiet DEF SnmpInv, InboxFits
  <2> QED
    BY <2>1, <2>2
<1>6. WalkFits'
  BY <1>2, WalkStays DEF SnmpInv
<1> QED
  BY <1>3, <1>5, <1>6 DEF SnmpInv

\* A PDU that raises takes those behind it along.
LEMMA RequestRaisesStep == ASSUME SnmpInv, ReceiveUnsupported \/ DescrFails PROVE SnmpInv'
<1>1. PICK rest \in {<<>>, Tail(inbox)} :
        /\ inbox' = rest
        /\ walk' = [walk EXCEPT !.asked = @ /\ \E k \in DOMAIN rest : rest[k].type = "getNext"]
  BY DEF ReceiveUnsupported, DescrFails, RequestRaises
<1>2. inbox # <<>> /\ Linked /\ UNCHANGED <<hw, cache, upd, conn, master>> /\ inbox' \in {<<>>, Tail(inbox)}
  BY <1>1 DEF ReceiveUnsupported, DescrFails
<1> DEFINE b == \E k \in DOMAIN rest : rest[k].type = "getNext"
<1>3. DOMAIN rest = 1 .. Len(rest)
  <2>1. inbox \in Seq(Pdus)
    BY DEF SnmpInv, SnmpTypes
  <2> QED
    BY <1>1, <1>2, <2>1
<1>4. b \in BOOLEAN /\ (b => inbox' = Tail(inbox)) /\ ((\E k \in 1 .. Len(inbox') : IsQuestion(inbox'[k])) => b)
  BY <1>1, <1>3 DEF IsQuestion
<1>5. walk' = [walk EXCEPT !.asked = @ /\ b]
  BY <1>1
<1> HIDE DEF b
<1> QED
  BY <1>2, <1>4, <1>5, LostFits

\* A PDU is cut in two.
LEMMA ChunkCutStep == ASSUME SnmpInv, ChunkCut PROVE SnmpInv'
<1>1. /\ inbox # <<>> /\ Linked /\ UNCHANGED <<hw, cache, upd, conn, master>> /\ inbox' = Tail(inbox)
      /\ walk' = [walk EXCEPT !.asked = @ /\ Head(inbox).type # "getNext"]
  BY DEF ChunkCut
<1> DEFINE b == Head(inbox).type # "getNext"
<1>2. inbox \in Seq(Pdus)
  BY DEF SnmpInv, SnmpTypes
<1>3. ASSUME NEW k \in 1 .. Len(inbox'), IsQuestion(inbox'[k]) PROVE b
  <2>1. SUFFICES ASSUME IsQuestion(Head(inbox)) PROVE FALSE
    BY DEF IsQuestion
  <2>2. k + 1 \in 1 .. Len(inbox) /\ inbox'[k] = inbox[k + 1] /\ Head(inbox) = inbox[1] /\ 1 \in 1 .. Len(inbox)
    BY <1>1, <1>2
  <2>3. k + 1 = 1
    BY <1>3, <2>1, <2>2 DEF SnmpInv, InboxFits
  <2> QED
    BY <2>3
<1>4. b \in BOOLEAN /\ walk' = [walk EXCEPT !.asked = @ /\ b]
  BY <1>1
<1> HIDE DEF b
<1> QED
  BY <1>1, <1>3, <1>4, LostFits

\* A request arrives that the agent does not implement.
LEMMA UnsupportedStep == ASSUME SnmpInv, Unsupported PROVE SnmpInv'
<1>1. inbox' = Append(inbox, [type |-> "testSet"]) /\ master.regions # {} /\ UNCHANGED <<hw, cache, upd, conn, agent, master, walk>>
  BY DEF Unsupported
<1>2. [type |-> "testSet"] \in Pdus /\ ~ IsQuestion([type |-> "testSet"])
  BY DEF Pdus, Answerings, IsQuestion
<1>3. inbox \in Seq(Pdus) /\ inbox' \in Seq(Pdus)
  BY <1>1, <1>2 DEF SnmpInv, SnmpTypes
<1>4. Linked'
  BY <1>1 DEF SnmpInv, InboxFits, Linked
<1>5. InboxFits'
  BY <1>1, <1>2, <1>3, <1>4, AppendFits DEF SnmpInv
<1>6. SnmpTypes'
  BY <1>1, <1>3 DEF SnmpInv, SnmpTypes
<1>7. WalkFits'
  BY <1>1, WalkStays DEF SnmpInv
<1> QED
  BY <1>5, <1>6, <1>7 DEF SnmpInv

\* The agent is stopped, ends, or an interface changes.
LEMMA OtherStep == ASSUME SnmpInv, Stop \/ Leave \/ (\E i \in Ifs : Hardware(i)) \/ UNCHANGED vars PROVE SnmpInv'
<1>1. ASSUME hw' \in [Ifs -> {"none", "bare", "eth"}], UNCHANGED <<cache, upd, master, inbox, walk>>, Linked => Linked'
      PROVE  SnmpInv'
  <2>1. InboxFits'
    BY <1>1, InboxStays DEF SnmpInv
  <2>2. WalkFits'
    BY <1>1, WalkStays DEF SnmpInv
  <2>3. SnmpTypes'
    BY <1>1 DEF SnmpInv, SnmpTypes
  <2> QED
    BY <2>1, <2>2, <2>3 DEF SnmpInv
<1>2. hw \in [Ifs -> {"none", "bare", "eth"}]
  BY DEF SnmpInv, SnmpTypes
<1>3. CASE Stop
  <2>1. CASE Linked
    BY <1>3, <2>1, DropFits DEF Stop
  <2>2. CASE ~ Linked
    BY <1>1, <1>2, <1>3, <2>2 DEF Stop
  <2> QED
    BY <2>1, <2>2
<1>4. CASE Leave
  BY <1>1, <1>2, <1>4 DEF Leave, Linked
<1>5. ASSUME NEW i \in Ifs, Hardware(i) PROVE SnmpInv'
  <2>1. hw' \in [Ifs -> {"none", "bare", "eth"}]
    BY <1>2, <1>5 DEF Hardware
  <2> QED
    BY <1>1, <1>5, <2>1 DEF Hardware, Linked
<1>6. CASE UNCHANGED vars
  BY <1>1, <1>2, <1>6 DEF vars, Linked
<1> QED
  BY <1>3, <1>4, <1>5, <1>6

\* Nothing is registered at first.
LEMMA SnmpInvInit == Init => SnmpInv
<1> SUFFICES ASSUME Init PROVE SnmpInv
  OBVIOUS
<1>1. /\ hw \in [Ifs -> {"none", "bare", "eth"}] /\ cache = <<>> /\ upd = None /\ conn = "connecting"
      /\ inbox = <<>> /\ walk = NoWalk /\ master = [up |-> TRUE, regions |-> {}]
  BY DEF Init
<1>2. walk \in Walks /\ walk.region = None /\ ~ walk.asked /\ ~ walk.done
  BY <1>1 DEF NoWalk, Walks, Oids
<1>3. SnmpTypes
  BY <1>1, <1>2 DEF SnmpTypes
<1>4. InboxFits
  BY <1>1, <1>2 DEF InboxFits
<1>5. WalkFits
  BY <1>2 DEF WalkFits
<1> QED
  BY <1>3, <1>4, <1>5 DEF SnmpInv

\* Every step keeps the invariant.
LEMMA SnmpInvStep == SnmpInv /\ [Next]_vars => SnmpInv'
<1> SUFFICES ASSUME SnmpInv, [Next]_vars PROVE SnmpInv'
  OBVIOUS
<1> QED
  BY UpdaterStep, SessionStep, ReceiveResponseStep, ReceiveGetNextStep, RequestRaisesStep, ChunkCutStep,
     OtherStep, MasterStep, WalkStartStep, AskStep, UnsupportedStep DEF Next

\* The table, the requests on their way and the walk fit together.
THEOREM SnmpInvHolds == Spec => []SnmpInv
  BY SnmpInvInit, SnmpInvStep, PTL DEF Spec

\* The starting OIDs of the property are OIDs.
LEMMA StartsAreOids == Starts \subseteq Oids
<1>1. <<>> \in Oids /\ <<2, 1, 0>> \in Oids /\ <<2, 2, 1>> \in Oids
  BY DEF Oids
<1>2. \A c \in DOMAIN Columns : Column(c) \in Oids
  BY ColumnFacts, SubtreeOids
<1>3. <<0>> \in Oids /\ <<1>> \in Oids /\ <<1, 7>> \in Oids /\ <<2>> \in Oids
  BY DEF Oids
<1>4. \A s, t \in Oids : s \o t \in Oids
  BY DEF Oids
<1>5. \A c \in DOMAIN Columns : \A s \in {<<0>>, <<1>>, <<1, 7>>, <<2>>} : Column(c) \o s \in Oids
  BY <1>2, <1>3, <1>4
<1>6. \A s \in UNION {{Column(c) \o t : t \in {<<0>>, <<1>>, <<1, 7>>, <<2>>}} : c \in DOMAIN Columns} : s \in Oids
  <2> HIDE DEF Oids
  <2> QED
    BY <1>5
<1>7. \A s \in {<<>>, <<2, 1, 0>>, <<2, 2, 1>>} \cup Subtrees : s \in Oids
  BY <1>1, SubtreeOids
<1> QED
  BY <1>6, <1>7 DEF Starts

\* On a table without a hole the closest variable is the successor.
LEMMA ReferenceMeans ==
  ASSUME cache \in Seq(Rows), NEW start \in Oids, NEW incl \in BOOLEAN, incl => start \in Subtrees,
         NEW end, Bounded(start, end), \A c \in DOMAIN Columns : Whole(c)
  PROVE  GetNext(start, incl, end) = Reference(Instances, start, incl, end)
<1> DEFINE S == {o \in Instances : (Less(start, o) \/ (incl /\ o = start)) /\ Less(o, end)}
           vb == GetNext(start, incl, end)
<1>1. Reference(Instances, start, incl, end) = IF S = {} THEN EndOfMibView ELSE Is(Least(S))
  BY DEF Reference
<1>2. \A o \in Instances : InWhole(o) /\ o \in Oids
  BY InstanceEntry, EntryFacts DEF InWhole
<1>3. \/ /\ \E oid \in Instances : vb = Is(oid)
         /\ vb.oid \in Instances /\ Follows(start, incl, vb.oid) /\ Less(vb.oid, end)
         /\ \A o \in Instances : InWhole(o) /\ Follows(start, incl, o) => ~ Less(o, vb.oid)
      \/ /\ vb = EndOfMibView
         /\ \A o \in Instances : InWhole(o) /\ Follows(start, incl, o) => ~ Less(o, end)
  BY GetNextIsClosest
<1>4. \A o \in S : o \in Instances /\ Follows(start, incl, o) /\ Less(o, end)
  BY DEF Follows
<1>5. \A o \in Instances : Follows(start, incl, o) /\ Less(o, end) => o \in S
  BY DEF Follows
<1> HIDE DEF S, vb
<1>6. ASSUME NEW oid \in Instances, vb = Is(oid), Follows(start, incl, oid), Less(oid, end),
             \A o \in Instances : InWhole(o) /\ Follows(start, incl, o) => ~ Less(o, oid)
      PROVE  vb = Is(Least(S)) /\ S # {}
  <2>1. oid \in S /\ \A o \in S : ~ Less(o, oid)
    BY <1>2, <1>4, <1>5, <1>6
  <2>2. Least(S) \in S /\ ~ \E o \in S : Less(o, Least(S))
    BY <2>1 DEF Least
  <2>3. Least(S) = oid
    BY <1>2, <1>4, <2>1, <2>2, LessTotal
  <2> QED
    BY <1>6, <2>1, <2>3
<1>7. \A x : Is(x).oid = x
  BY DEF Is
<1>8. CASE vb = EndOfMibView /\ \A o \in Instances : InWhole(o) /\ Follows(start, incl, o) => ~ Less(o, end)
  <2>1. S = {}
    BY <1>2, <1>4, <1>8
  <2> QED
    BY <1>1, <1>8, <2>1 DEF vb
<1>9. vb = Is(Least(S)) /\ S # {} => GetNext(start, incl, end) = Reference(Instances, start, incl, end)
  BY <1>1 DEF vb
<1> QED
  BY <1>3, <1>6, <1>7, <1>8, <1>9
\* GetNext answers with the successor of the starting OID (GetNextPDU.make_response, MIBTable.get_next).
THEOREM GetNextAnswersSuccessor == Spec => []NextIsSuccessor
<1>1. SnmpInv => NextIsSuccessor
  <2>1. SUFFICES ASSUME cache \in Seq(Rows), \A c \in DOMAIN Columns : Whole(c), NEW start \in Starts
                 PROVE  /\ GetNext(start, FALSE, <<3>>) = Reference(Instances, start, FALSE, <<3>>)
                        /\ start \in Subtrees => GetNext(start, TRUE, Inc(start)) = Reference(Instances, start, TRUE, Inc(start))
    BY DEF SnmpInv, SnmpTypes, NextIsSuccessor
  <2>2. start \in Oids
    BY StartsAreOids
  <2>3. Bounded(start, <<3>>)
    BY DEF Bounded
  <2>4. ASSUME start \in Subtrees PROVE Bounded(start, Inc(start))
    BY <2>2, <2>4, PrefixMeans DEF Bounded, Oids
  <2> QED
    BY <2>1, <2>2, <2>3, <2>4, ReferenceMeans
<1> QED
  BY <1>1, SnmpInvHolds, PTL
\* A walk that met no update and no new session has returned every variable of the columns without a
\* hole (GetNextPDU.make_response, SearchRange).
THEOREM WalksAreComplete == Spec => []WalkComplete
<1>1. SnmpInv => WalkComplete
  BY DEF SnmpInv, WalkFits, WalkComplete
<1> QED
  BY <1>1, SnmpInvHolds, PTL
=============================================================================
