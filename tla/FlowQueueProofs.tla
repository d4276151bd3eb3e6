-------------------------- MODULE FlowQueueProofs --------------------------
(* The pointers of flow-queue.c implement lists, in both directions, for   *)
(* any number of flows and queues and any sequence of operations.          *)
EXTENDS FlowQueue, Integers, FiniteSetTheorems, SequenceTheorems, WellFoundedInduction, TLAPS

---------------------------------------------------------------------------
(* Walking a list                                                          *)

Distinct(s) == \A i, j \in 1 .. Len(s) : s[i] = s[j] => i = j
First(s) == IF Len(s) = 0 THEN NULL ELSE s[1]
Leads(s, next) == \A i \in 1 .. Len(s) : next[s[i]] = IF i < Len(s) THEN s[i + 1] ELSE NULL

LEMMA LeastNatural ==
  ASSUME NEW T, T \subseteq Nat, T # {}
  PROVE  \E n \in T : \A m \in T : n <= m
<1> DEFINE R == {ss \in Nat \X Nat : ss[1] < ss[2]}
<1>1. IsWellFoundedOn(R, Nat)
  BY NatLessThanWellFounded DEF OpToRel
<1> HIDE DEF R
<1>2. PICK n \in T : \A m \in T : ~(<<m, n>> \in R)
  BY <1>1, WFMin
<1>3. \A m \in T : ~(m < n)
  BY <1>2 DEF R
<1> QED BY <1>3

(* A list of distinct flows has no more elements than there are flows.     *)
LEMMA NotLonger ==
  ASSUME FlowQueueAssumption, NEW s \in Seq(Flow), Distinct(s)
  PROVE  /\ Len(s) \in Nat /\ Cardinality(Flow) \in Nat /\ Len(s) <= Cardinality(Flow)
<1>1. Len(s) \in Nat /\ IsFiniteSet(Flow)
  BY DEF FlowQueueAssumption
<1> DEFINE f == [i \in 1 .. Len(s) |-> s[i]]
<1>2. f \in Injection(1 .. Len(s), Flow)
  BY DEF Injection, IsInjective, Distinct
<1>3. Cardinality(1 .. Len(s)) = Len(s)
  <2>1. Cardinality(1 .. Len(s)) = IF 1 > Len(s) THEN 0 ELSE Len(s) - 1 + 1
    BY <1>1, FS_Interval
  <2> QED BY <1>1, <2>1
<1>4. Cardinality(1 .. Len(s)) <= Cardinality(Flow)
  <2> HIDE DEF f
  <2> QED BY <1>1, <1>2, FS_Injection
<1> QED BY <1>1, <1>3, <1>4, FS_CardinalityType

(* The reader is at the elements of the list one after the other, then at  *)
(* its end: the recursion of StepsFrom has this solution and no other.     *)
LEMMA StepsAre ==
  ASSUME FlowQueueAssumption, NEW s \in Seq(Flow), NEW next, Leads(s, next)
  PROVE  StepsFrom(First(s), next)
           = [n \in 0 .. Cardinality(Flow) |-> IF n < Len(s) THEN s[n + 1] ELSE NULL]
<1> DEFINE D == 0 .. Cardinality(Flow)
           Eq(h) == h = [n \in D |-> IF n = 0 THEN First(s)
                                     ELSE IF h[n - 1] = NULL THEN NULL ELSE next[h[n - 1]]]
           g == [n \in D |-> IF n < Len(s) THEN s[n + 1] ELSE NULL]
           at == StepsFrom(First(s), next)
<1>1. Cardinality(Flow) \in Nat /\ Len(s) \in Nat /\ NULL \notin Flow /\ \A i \in 1 .. Len(s) : s[i] \in Flow
  BY FS_CardinalityType DEF FlowQueueAssumption
<1>2. Eq(g)
  <2>1. ASSUME NEW n \in D
        PROVE  g[n] = IF n = 0 THEN First(s) ELSE IF g[n - 1] = NULL THEN NULL ELSE next[g[n - 1]]
    <3>1. CASE n = 0
      BY <1>1, <3>1 DEF First
    <3>2. CASE n # 0
      <4>1. n - 1 \in D /\ n \in Nat
        BY <1>1, <3>2
      <4>2. CASE n - 1 < Len(s)
        <5>1. g[n - 1] = s[n] /\ n \in 1 .. Len(s) /\ s[n] # NULL
          BY <1>1, <3>2, <4>1, <4>2
        <5>2. next[s[n]] = IF n < Len(s) THEN s[n + 1] ELSE NULL
          BY <5>1 DEF Leads
        <5> QED BY <3>2, <5>1, <5>2
      <4>3. CASE ~(n - 1 < Len(s))
        <5>1. g[n - 1] = NULL /\ ~(n < Len(s))
          BY <1>1, <4>1, <4>3
        <5> QED BY <3>2, <5>1
      <4> QED BY <4>2, <4>3
    <3> QED BY <3>1, <3>2
  <2> QED BY <2>1
<1>3. at = CHOOSE h : Eq(h)
  BY DEF StepsFrom
<1>4. Eq(at)
  <2> HIDE DEF g, at, Eq
  <2> QED BY <1>2, <1>3
<1>5. \A n \in D : at[n] = g[n]
  <2>0. \A n \in D :
          /\ at[n] = IF n = 0 THEN First(s) ELSE IF at[n - 1] = NULL THEN NULL ELSE next[at[n - 1]]
          /\ g[n] = IF n = 0 THEN First(s) ELSE IF g[n - 1] = NULL THEN NULL ELSE next[g[n - 1]]
    <3> HIDE DEF at, g, D
    <3> QED BY <1>2, <1>4
  <2> DEFINE Bad == {n \in D : at[n] # g[n]}
  <2>1. SUFFICES ASSUME Bad # {} PROVE FALSE
    OBVIOUS
  <2>2. Bad \subseteq Nat
    BY <1>1
  <2>3. PICK n \in Bad : \A m \in Bad : n <= m
    <3> HIDE DEF Bad
    <3> QED BY <2>1, <2>2, LeastNatural
  <2> HIDE DEF g, at
  <2>4. CASE n = 0
    BY <2>0, <2>3, <2>4
  <2>5. CASE n # 0
    <3>1. n - 1 \in D /\ n - 1 \notin Bad
      BY <1>1, <2>3, <2>5
    <3>2. at[n - 1] = g[n - 1]
      BY <3>1
    <3> QED BY <2>0, <2>3, <2>5, <3>2
  <2> QED BY <2>4, <2>5
<1> QED
  <2>1. at = [n \in D |-> at[n]]
    <3> HIDE DEF at
    <3> QED BY <1>4
  <2>2. at = g
    BY <1>5, <2>1
  <2> QED BY <2>2

LEMMA WalkIs ==
  ASSUME FlowQueueAssumption, NEW s \in Seq(Flow), Distinct(s), NEW next, Leads(s, next)
  PROVE  Walk(First(s), next) = s
<1> DEFINE at == StepsFrom(First(s), next)
           seen == {n \in 0 .. Cardinality(Flow) : at[n] # NULL}
<1>1. /\ Len(s) \in Nat /\ Cardinality(Flow) \in Nat /\ Len(s) <= Cardinality(Flow)
      /\ NULL \notin Flow /\ \A i \in 1 .. Len(s) : s[i] \in Flow
  BY NotLonger DEF FlowQueueAssumption
<1>2. \A n \in 0 .. Cardinality(Flow) : at[n] = IF n < Len(s) THEN s[n + 1] ELSE NULL
  BY StepsAre
<1> HIDE DEF at
<1>3. seen = 0 .. Len(s) - 1
  BY <1>1, <1>2
<1>4. Cardinality(seen) = Len(s)
  <2>1. Cardinality(0 .. Len(s) - 1) = IF 0 > Len(s) - 1 THEN 0 ELSE Len(s) - 1 - 0 + 1
    <3>1. 0 \in Int /\ Len(s) - 1 \in Int
      BY <1>1
    <3> QED BY <3>1, FS_Interval
  <2> HIDE DEF seen
  <2> QED BY <1>1, <1>3, <2>1
<1>5. Walk(First(s), next) = [i \in 1 .. Len(s) |-> at[i - 1]]
  BY <1>4 DEF Walk, at
<1>6. \A i \in 1 .. Len(s) : at[i - 1] = s[i]
  BY <1>1, <1>2
<1>7. s = [i \in 1 .. Len(s) |-> s[i]]
  OBVIOUS
<1> QED BY <1>5, <1>6, <1>7

---------------------------------------------------------------------------
(* A list, as pointers                                                     *)

Members(s) == {s[i] : i \in 1 .. Len(s)}

(* Queue and flows have the pointers of list s.                            *)
Linked(s, t, b, n, nx, pv) ==
  /\ s \in Seq(Flow) /\ Distinct(s) /\ n = Len(s)
  /\ t = First(s) /\ b = (IF Len(s) = 0 THEN NULL ELSE s[Len(s)])
  /\ Leads(s, nx)
  /\ \A i \in 1 .. Len(s) : pv[s[i]] = IF i > 1 THEN s[i - 1] ELSE NULL

(* The pointers of other flows do not matter.                              *)
LEMMA LinkedFrame ==
  ASSUME NEW s, NEW t, NEW b, NEW n, NEW nx, NEW pv, NEW nx2, NEW pv2, Linked(s, t, b, n, nx, pv),
         \A f \in Members(s) : nx2[f] = nx[f] /\ pv2[f] = pv[f]
  PROVE  Linked(s, t, b, n, nx2, pv2)
BY DEF Linked, Leads, Members

(* Read backwards it is the list in reverse.                               *)
LEMMA LinkedBackward ==
  ASSUME FlowQueueAssumption, NEW s, NEW t, NEW b, NEW n, NEW nx, NEW pv, Linked(s, t, b, n, nx, pv)
  PROVE  Walk(b, pv) = [i \in 1 .. Len(s) |-> s[Len(s) + 1 - i]] /\ Len(Walk(b, pv)) = Len(s)
<1> DEFINE r == [i \in 1 .. Len(s) |-> s[Len(s) + 1 - i]]
<1>1. s \in Seq(Flow) /\ Len(s) \in Nat /\ \A i \in 1 .. Len(s) : s[i] \in Flow
  BY DEF Linked
<1>2. r \in Seq(Flow) /\ Len(r) = Len(s)
  <2>1. \A i \in 1 .. Len(s) : s[Len(s) + 1 - i] \in Flow
    BY <1>1
  <2> QED BY <1>1, <2>1
<1>3. Distinct(r)
  BY <1>1, <1>2 DEF Distinct, Linked
<1>4. First(r) = b
  BY <1>1, <1>2 DEF First, Linked
<1>5. Leads(r, pv)
  <2> SUFFICES ASSUME NEW i \in 1 .. Len(s)
               PROVE  pv[r[i]] = IF i < Len(s) THEN r[i + 1] ELSE NULL
    BY <1>2 DEF Leads
  <2>1. Len(s) + 1 - i \in 1 .. Len(s) /\ r[i] = s[Len(s) + 1 - i]
    BY <1>1
  <2>2. pv[s[Len(s) + 1 - i]] = IF Len(s) + 1 - i > 1 THEN s[Len(s) + 1 - i - 1] ELSE NULL
    BY <2>1 DEF Linked
  <2>3. i < Len(s) => r[i + 1] = s[Len(s) + 1 - i - 1]
    BY <1>1
  <2> QED BY <1>1, <2>1, <2>2, <2>3
<1> HIDE DEF r
<1>6. Walk(b, pv) = r
  BY <1>2, <1>3, <1>4, <1>5, WalkIs
<1> QED BY <1>2, <1>6 DEF r

Pointers == [Flow -> Flow \cup {NULL}]

LEMMA LinkedIs ==
  ASSUME FlowQueueAssumption, NEW s, NEW t, NEW b, NEW n, NEW nx, NEW pv, Linked(s, t, b, n, nx, pv)
  PROVE  /\ s \in Seq(Flow) /\ n = Len(s) /\ Len(s) \in Nat /\ NULL \notin Flow
         /\ \A i \in 1 .. Len(s) : s[i] \in Flow /\ s[i] \in Members(s)
         /\ t # NULL <=> Len(s) > 0
         /\ b # NULL <=> Len(s) > 0
         /\ Len(s) > 0 => t = s[1] /\ b = s[Len(s)] /\ t \in Flow /\ b \in Flow
BY DEF Linked, First, Members, FlowQueueAssumption

LEMMA Pushed ==
  ASSUME FlowQueueAssumption, NEW s, NEW t, NEW b, NEW n, NEW nx \in Pointers, NEW pv \in Pointers,
         Linked(s, t, b, n, nx, pv), NEW f \in Flow, f \notin Members(s), nx[f] = NULL, pv[f] = NULL
  PROVE  /\ Linked(<<f>> \o s, f, IF t # NULL THEN b ELSE f, n + 1,
                   SetIf(t # NULL, nx, f, t), SetIf(t # NULL, pv, t, f))
         /\ Members(<<f>> \o s) = Members(s) \cup {f}
<1> DEFINE r == <<f>> \o s
           nx2 == SetIf(t # NULL, nx, f, t)
           pv2 == SetIf(t # NULL, pv, t, f)
<1>0. \/ t # NULL /\ nx2 = [nx EXCEPT ![f] = t] /\ pv2 = [pv EXCEPT ![t] = f]
      \/ t = NULL /\ nx2 = nx /\ pv2 = pv
  BY DEF SetIf
<1>1. /\ s \in Seq(Flow) /\ n = Len(s) /\ Len(s) \in Nat /\ NULL \notin Flow
      /\ \A i \in 1 .. Len(s) : s[i] \in Flow /\ s[i] # f
      /\ t # NULL <=> Len(s) > 0
      /\ Len(s) > 0 => t = s[1] /\ b = s[Len(s)]
      /\ Distinct(s) /\ Leads(s, nx) /\ \A i \in 1 .. Len(s) : pv[s[i]] = IF i > 1 THEN s[i - 1] ELSE NULL
  BY LinkedIs DEF Linked
<1>2. /\ r \in Seq(Flow) /\ Len(r) = Len(s) + 1 /\ r[1] = f
      /\ \A i \in 1 .. Len(s) : r[i + 1] = s[i]
  BY <1>1
<1> HIDE DEF r, nx2, pv2
<1>3. \A i \in 1 .. Len(r) : i = 1 \/ (i - 1 \in 1 .. Len(s) /\ r[i] = s[i - 1])
  BY <1>1, <1>2
<1>4. Distinct(r)
  BY <1>1, <1>2, <1>3 DEF Distinct
<1>5. Leads(r, nx2)
  <2> SUFFICES ASSUME NEW i \in 1 .. Len(r)
               PROVE  nx2[r[i]] = IF i < Len(r) THEN r[i + 1] ELSE NULL
    BY DEF Leads
  <2>1. CASE i = 1
    <3>1. nx2[f] = IF t # NULL THEN t ELSE NULL
      BY <1>0 DEF Pointers
    <3>2. CASE t # NULL
      <4>1. 1 \in 1 .. Len(s) /\ t = s[1] /\ 1 < Len(r) /\ r[1 + 1] = s[1]
        BY <1>1, <1>2, <3>2
      <4> QED BY <1>2, <2>1, <3>1, <3>2, <4>1
    <3>3. CASE t = NULL
      <4>1. ~(1 < Len(r))
        BY <1>1, <1>2, <3>3
      <4> QED BY <1>2, <2>1, <3>1, <3>3, <4>1
    <3> QED BY <3>2, <3>3
  <2>2. CASE i # 1
    <3>1. nx2[s[i - 1]] = nx[s[i - 1]] /\ r[i] = s[i - 1] /\ i - 1 \in 1 .. Len(s)
      BY <1>0, <1>1, <1>3, <2>2 DEF Pointers
    <3>2. nx[s[i - 1]] = IF i - 1 < Len(s) THEN s[i - 1 + 1] ELSE NULL
      BY <1>1, <3>1 DEF Leads
    <3>3. i - 1 + 1 = i /\ (i - 1 < Len(s) <=> i < Len(r)) /\ (i < Len(r) => i \in 1 .. Len(s))
      BY <1>1, <1>2, <2>2
    <3>4. i < Len(r) => r[i + 1] = s[i]
      BY <1>2, <3>3
    <3>5. nx[s[i - 1]] = IF i < Len(r) THEN r[i + 1] ELSE NULL
      <4>1. CASE i < Len(r)
        <5>1. nx[s[i - 1]] = s[i - 1 + 1]
          BY <3>2, <3>3, <4>1
        <5> QED BY <3>3, <3>4, <4>1, <5>1
      <4>2. CASE ~(i < Len(r))
        BY <3>2, <3>3, <4>2
      <4> QED BY <4>1, <4>2
    <3> QED BY <3>1, <3>5
  <2> QED BY <2>1, <2>2
<1>6. \A i \in 1 .. Len(r) : pv2[r[i]] = IF i > 1 THEN r[i - 1] ELSE NULL
  <2> TAKE i \in 1 .. Len(r)
  <2>1. CASE i = 1
    <3>1. pv2[f] = NULL
      BY <1>0, <1>1 DEF Pointers
    <3> QED BY <1>2, <2>1, <3>1
  <2>2. CASE i = 2
    <3>1. t # NULL /\ r[2] = t /\ 1 \in 1 .. Len(s) /\ t \in Flow
      BY <1>1, <1>2, <1>3, <2>2
    <3>2. pv2[t] = f
      BY <1>0, <3>1 DEF Pointers
    <3> QED BY <1>2, <2>2, <3>1, <3>2
  <2>3. CASE i # 1 /\ i # 2
    <3>1. i - 1 \in 1 .. Len(s) /\ r[i] = s[i - 1] /\ i - 1 > 1 /\ r[i - 1] = s[i - 1 - 1] /\ t = s[1]
      BY <1>1, <1>2, <1>3, <2>3
    <3>2. s[i - 1] # t
      BY <1>1, <3>1 DEF Distinct
    <3>3. pv2[s[i - 1]] = pv[s[i - 1]]
      BY <1>0, <1>1, <3>1, <3>2 DEF Pointers
    <3> QED BY <1>1, <2>3, <3>1, <3>3
  <2> QED BY <2>1, <2>2, <2>3
<1>7. f = First(r) /\ (IF t # NULL THEN b ELSE f) = IF Len(r) = 0 THEN NULL ELSE r[Len(r)]
  BY <1>1, <1>2 DEF First
<1>8. Linked(r, f, IF t # NULL THEN b ELSE f, n + 1, nx2, pv2)
  BY <1>1, <1>2, <1>4, <1>5, <1>6, <1>7 DEF Linked
<1>9. Members(r) = Members(s) \cup {f}
  <2>1. Members(r) \subseteq Members(s) \cup {f}
    BY <1>2, <1>3 DEF Members
  <2>2. Members(s) \subseteq Members(r)
    <3> SUFFICES ASSUME NEW i \in 1 .. Len(s) PROVE s[i] \in Members(r)
      BY DEF Members
    <3>1. i + 1 \in 1 .. Len(r) /\ r[i + 1] = s[i]
      BY <1>1, <1>2
    <3> QED BY <3>1 DEF Members
  <2>3. f \in Members(r)
    <3>1. 1 \in 1 .. Len(r)
      BY <1>1, <1>2
    <3> QED BY <1>2, <3>1 DEF Members
  <2> QED BY <2>1, <2>2, <2>3
<1> QED BY <1>8, <1>9 DEF r, nx2, pv2

LEMMA Appended ==
  ASSUME FlowQueueAssumption, NEW s, NEW t, NEW b, NEW n, NEW nx \in Pointers, NEW pv \in Pointers,
         Linked(s, t, b, n, nx, pv), NEW f \in Flow, f \notin Members(s)
  PROVE  /\ Linked(Append(s, f), IF t = NULL THEN f ELSE t, f, n + 1,
                   [SetIf(b # NULL, nx, b, f) EXCEPT ![f] = NULL], [pv EXCEPT ![f] = b])
         /\ Members(Append(s, f)) = Members(s) \cup {f}
<1> DEFINE r == Append(s, f)
           nx2 == [SetIf(b # NULL, nx, b, f) EXCEPT ![f] = NULL]
           pv2 == [pv EXCEPT ![f] = b]
<1>1. /\ s \in Seq(Flow) /\ n = Len(s) /\ Len(s) \in Nat /\ NULL \notin Flow
      /\ \A i \in 1 .. Len(s) : s[i] \in Flow /\ s[i] # f
      /\ t # NULL <=> Len(s) > 0
      /\ b # NULL <=> Len(s) > 0
      /\ Len(s) > 0 => t = s[1] /\ b = s[Len(s)]
      /\ Distinct(s) /\ Leads(s, nx) /\ \A i \in 1 .. Len(s) : pv[s[i]] = IF i > 1 THEN s[i - 1] ELSE NULL
  BY LinkedIs DEF Linked
<1>2. /\ r \in Seq(Flow) /\ Len(r) = Len(s) + 1 /\ r[Len(s) + 1] = f
      /\ \A i \in 1 .. Len(s) : r[i] = s[i]
  BY <1>1
<1>3. /\ nx2[f] = NULL /\ \A x \in Flow : x # f => nx2[x] = IF x = b THEN f ELSE nx[x]
  BY <1>1 DEF Pointers, SetIf
<1>4. /\ pv2[f] = b /\ \A x \in Flow : x # f => pv2[x] = pv[x]
  BY DEF Pointers
<1> HIDE DEF r, nx2, pv2
<1>5. \A i \in 1 .. Len(r) : i = Len(s) + 1 \/ i \in 1 .. Len(s)
  BY <1>1, <1>2
<1>6. Distinct(r)
  BY <1>1, <1>2, <1>5 DEF Distinct
<1>7. Leads(r, nx2)
  <2> SUFFICES ASSUME NEW i \in 1 .. Len(r)
               PROVE  nx2[r[i]] = IF i < Len(r) THEN r[i + 1] ELSE NULL
    BY DEF Leads
  <2>1. CASE i = Len(s) + 1
    BY <1>1, <1>2, <1>3, <2>1
  <2>2. CASE i = Len(s)
    <3>1. i \in 1 .. Len(s) /\ s[i] = b
      BY <1>1, <1>2, <2>2
    <3> QED BY <1>1, <1>2, <1>3, <2>2, <3>1
  <2>3. CASE i # Len(s) /\ i # Len(s) + 1
    <3>1. i \in 1 .. Len(s) /\ i + 1 \in 1 .. Len(s) /\ Len(s) \in 1 .. Len(s)
      BY <1>1, <1>2, <2>3
    <3>2. s[i] # b
      BY <1>1, <2>3, <3>1 DEF Distinct
    <3>3. nx[s[i]] = s[i + 1]
      BY <1>1, <3>1 DEF Leads
    <3> QED BY <1>1, <1>2, <1>3, <3>1, <3>2, <3>3
  <2> QED BY <2>1, <2>2, <2>3
<1>8. \A i \in 1 .. Len(r) : pv2[r[i]] = IF i > 1 THEN r[i - 1] ELSE NULL
  <2> TAKE i \in 1 .. Len(r)
  <2>1. CASE i = Len(s) + 1
    <3>1. Len(s) > 0 => Len(s) \in 1 .. Len(s)
      BY <1>1
    <3> QED BY <1>1, <1>2, <1>4, <2>1, <3>1
  <2>2. CASE i # Len(s) + 1
    <3>1. i \in 1 .. Len(s) /\ (i > 1 => i - 1 \in 1 .. Len(s))
      BY <1>1, <1>2, <2>2
    <3> QED BY <1>1, <1>2, <1>4, <3>1
  <2> QED BY <2>1, <2>2
<1>9. /\ (IF t = NULL THEN f ELSE t) = First(r)
      /\ f = IF Len(r) = 0 THEN NULL ELSE r[Len(r)]
  BY <1>1, <1>2 DEF First
<1>10. Linked(r, IF t = NULL THEN f ELSE t, f, n + 1, nx2, pv2)
  BY <1>1, <1>2, <1>6, <1>7, <1>8, <1>9 DEF Linked
<1>11. Members(r) = Members(s) \cup {f}
  <2>1. Members(r) \subseteq Members(s) \cup {f}
    BY <1>2, <1>5 DEF Members
  <2>2. Members(s) \subseteq Members(r)
    <3> SUFFICES ASSUME NEW i \in 1 .. Len(s) PROVE s[i] \in Members(r)
      BY DEF Members
    <3>1. i \in 1 .. Len(r)
      BY <1>1, <1>2
    <3> QED BY <1>2, <3>1 DEF Members
  <2>3. f \in Members(r)
    <3>1. Len(s) + 1 \in 1 .. Len(r)
      BY <1>1, <1>2
    <3> QED BY <1>2, <3>1 DEF Members
  <2> QED BY <2>1, <2>2, <2>3
<1> QED BY <1>10, <1>11 DEF r, nx2, pv2
(* The list without its k-th element.                                      *)
Less(s, k) == [i \in 1 .. Len(s) - 1 |-> IF i < k THEN s[i] ELSE s[i + 1]]

LEMMA LessIs ==
  ASSUME NEW s \in Seq(Flow), Distinct(s), NEW k \in 1 .. Len(s)
  PROVE  /\ Less(s, k) \in Seq(Flow) /\ Len(Less(s, k)) = Len(s) - 1
         /\ \A i \in 1 .. Len(s) - 1 : Less(s, k)[i] = IF i < k THEN s[i] ELSE s[i + 1]
         /\ Distinct(Less(s, k))
         /\ Members(Less(s, k)) = Members(s) \ {s[k]}
<1> DEFINE u == Less(s, k)
<1>1. Len(s) \in Nat /\ k \in Nat /\ Len(s) - 1 \in Nat /\ \A i \in 1 .. Len(s) : s[i] \in Flow
  OBVIOUS
<1>2. \A i \in 1 .. Len(s) - 1 :
        /\ i \in 1 .. Len(s) /\ i + 1 \in 1 .. Len(s)
        /\ u[i] = (IF i < k THEN s[i] ELSE s[i + 1]) /\ u[i] \in Flow
  BY <1>1 DEF Less
<1>3. u \in Seq(Flow) /\ Len(u) = Len(s) - 1
  <2>1. u = [i \in 1 .. Len(s) - 1 |-> u[i]]
    BY DEF Less
  <2> HIDE DEF u
  <2> QED BY <1>1, <1>2, <2>1
<1> HIDE DEF u
<1>4. Distinct(u)
  <2> SUFFICES ASSUME NEW i \in 1 .. Len(s) - 1, NEW j \in 1 .. Len(s) - 1, u[i] = u[j]
               PROVE  i = j
    BY <1>3 DEF Distinct
  <2>1. CASE i < k /\ j < k
    BY <1>2, <2>1 DEF Distinct
  <2>2. CASE i < k /\ ~(j < k)
    <3>1. s[i] = s[j + 1]
      BY <1>2, <2>2
    <3> QED BY <1>1, <1>2, <2>2, <3>1 DEF Distinct
  <2>3. CASE ~(i < k) /\ j < k
    <3>1. s[i + 1] = s[j]
      BY <1>2, <2>3
    <3> QED BY <1>1, <1>2, <2>3, <3>1 DEF Distinct
  <2>4. CASE ~(i < k) /\ ~(j < k)
    <3>1. s[i + 1] = s[j + 1]
      BY <1>2, <2>4
    <3>2. i + 1 = j + 1
      BY <1>2, <3>1 DEF Distinct
    <3> QED BY <1>1, <3>2
  <2> QED BY <2>1, <2>2, <2>3, <2>4
<1>5. Members(u) = Members(s) \ {s[k]}
  <2>1. ASSUME NEW i \in 1 .. Len(s) - 1 PROVE u[i] \in Members(s) \ {s[k]}
    <3>1. CASE i < k
      <4>1. i # k /\ u[i] = s[i]
        BY <1>1, <1>2, <3>1
      <4>2. s[i] # s[k]
        BY <1>2, <4>1 DEF Distinct
      <4> QED BY <1>2, <4>1, <4>2 DEF Members
    <3>2. CASE ~(i < k)
      <4>1. i + 1 # k /\ u[i] = s[i + 1]
        BY <1>1, <1>2, <3>2
      <4>2. s[i + 1] # s[k]
        BY <1>2, <4>1 DEF Distinct
      <4> QED BY <1>2, <4>1, <4>2 DEF Members
    <3> QED BY <3>1, <3>2
  <2>2. ASSUME NEW i \in 1 .. Len(s), s[i] # s[k] PROVE s[i] \in Members(u)
    <3>1. i # k
      BY <2>2
    <3>2. CASE i < k
      <4>1. i \in 1 .. Len(u) /\ u[i] = s[i]
        BY <1>1, <1>2, <1>3, <3>2
      <4> QED BY <4>1 DEF Members
    <3>3. CASE ~(i < k)
      <4>1. i - 1 \in 1 .. Len(s) - 1 /\ ~(i - 1 < k) /\ i - 1 + 1 = i
        BY <1>1, <3>1, <3>3
      <4>2. u[i - 1] = s[i]
        BY <1>2, <4>1
      <4> QED BY <1>3, <4>1, <4>2 DEF Members
    <3> QED BY <3>2, <3>3
  <2> QED BY <1>3, <2>1, <2>2 DEF Members
<1> QED BY <1>2, <1>3, <1>4, <1>5 DEF u

LEMMA Unlinked ==
  ASSUME FlowQueueAssumption, NEW s, NEW t, NEW b, NEW n, NEW nx \in Pointers, NEW pv \in Pointers,
         Linked(s, t, b, n, nx, pv), NEW k \in 1 .. Len(s), NEW f, f = s[k]
  PROVE  Linked(Less(s, k), IF t = f THEN nx[f] ELSE t, IF b = f THEN pv[f] ELSE b, n - 1,
                [SetIf(pv[f] # NULL, nx, pv[f], nx[f]) EXCEPT ![f] = NULL],
                [SetIf(nx[f] # NULL, pv, nx[f], pv[f]) EXCEPT ![f] = NULL])
<1> DEFINE u == Less(s, k)
           nx2 == [SetIf(pv[f] # NULL, nx, pv[f], nx[f]) EXCEPT ![f] = NULL]
           pv2 == [SetIf(nx[f] # NULL, pv, nx[f], pv[f]) EXCEPT ![f] = NULL]
           t2 == IF t = f THEN nx[f] ELSE t
           b2 == IF b = f THEN pv[f] ELSE b
<1>1. /\ s \in Seq(Flow) /\ n = Len(s) /\ Len(s) \in Nat /\ NULL \notin Flow
      /\ \A i \in 1 .. Len(s) : s[i] \in Flow
      /\ t = s[1] /\ b = s[Len(s)]
      /\ Distinct(s)
      /\ \A i, j \in 1 .. Len(s) : s[i] = s[j] => i = j
      /\ \A i \in 1 .. Len(s) : nx[s[i]] = IF i < Len(s) THEN s[i + 1] ELSE NULL
      /\ \A i \in 1 .. Len(s) : pv[s[i]] = IF i > 1 THEN s[i - 1] ELSE NULL
  <2>1. /\ s \in Seq(Flow) /\ n = Len(s) /\ Len(s) \in Nat /\ NULL \notin Flow
        /\ \A i \in 1 .. Len(s) : s[i] \in Flow
        /\ Len(s) > 0 => t = s[1] /\ b = s[Len(s)]
    BY LinkedIs
  <2>2. Len(s) > 0
    BY <2>1
  <2>3. Distinct(s) /\ \A i, j \in 1 .. Len(s) : s[i] = s[j] => i = j
    BY DEF Linked, Distinct
  <2>4. /\ \A i \in 1 .. Len(s) : nx[s[i]] = IF i < Len(s) THEN s[i + 1] ELSE NULL
        /\ \A i \in 1 .. Len(s) : pv[s[i]] = IF i > 1 THEN s[i - 1] ELSE NULL
    BY DEF Linked, Leads
  <2> QED BY <2>1, <2>2, <2>3, <2>4
<1>2. /\ u \in Seq(Flow) /\ Len(u) = Len(s) - 1 /\ Distinct(u) /\ f \in Flow
      /\ \A i \in 1 .. Len(s) - 1 : u[i] = IF i < k THEN s[i] ELSE s[i + 1]
  BY <1>1, LessIs
<1>3. /\ nx[f] = (IF k < Len(s) THEN s[k + 1] ELSE NULL)
      /\ pv[f] = (IF k > 1 THEN s[k - 1] ELSE NULL)
      /\ nx[f] # NULL <=> k < Len(s)
      /\ pv[f] # NULL <=> k > 1
      /\ nx[f] \in Flow \cup {NULL} /\ pv[f] \in Flow \cup {NULL}
  <2>1. nx[f] = (IF k < Len(s) THEN s[k + 1] ELSE NULL) /\ pv[f] = (IF k > 1 THEN s[k - 1] ELSE NULL)
    BY <1>1
  <2>2. k < Len(s) => s[k + 1] \in Flow
    BY <1>1
  <2>3. k > 1 => s[k - 1] \in Flow
    BY <1>1
  <2> QED BY <1>1, <2>1, <2>2, <2>3
<1>4. \A x \in Flow : x # f => nx2[x] = IF x = pv[f] THEN nx[f] ELSE nx[x]
  BY <1>1, <1>3 DEF Pointers, SetIf
<1>5. \A x \in Flow : x # f => pv2[x] = IF x = nx[f] THEN pv[f] ELSE pv[x]
  BY <1>1, <1>3 DEF Pointers, SetIf
<1> HIDE DEF u, nx2, pv2
<1>6. \A i \in 1 .. Len(s) - 1 : /\ i \in 1 .. Len(s) /\ i + 1 \in 1 .. Len(s) /\ i + 1 > 1
                                 /\ i + 1 - 1 = i /\ i \in Nat /\ k \in Nat
  BY <1>1
<1>7. Leads(u, nx2)
  <2> SUFFICES ASSUME NEW i \in 1 .. Len(s) - 1
               PROVE  nx2[u[i]] = IF i < Len(s) - 1 THEN u[i + 1] ELSE NULL
    BY <1>2 DEF Leads
  <2>1. CASE i + 1 < k
    <3>1. u[i] = s[i] /\ s[i] # f /\ s[i] \in Flow /\ i < Len(s) - 1
      BY <1>1, <1>2, <1>6, <2>1
    <3>2. s[i] # pv[f]
      <4>1. k > 1 => k - 1 \in 1 .. Len(s) /\ k - 1 # i
        BY <1>1, <1>6, <2>1
      <4> QED BY <1>1, <1>3, <1>6, <4>1, <3>1
    <3>3. nx2[u[i]] = s[i + 1]
      <4>1. nx2[u[i]] = nx[s[i]]
        BY <1>4, <3>1, <3>2
      <4>2. nx[s[i]] = s[i + 1]
        <5>1. i \in 1 .. Len(s) /\ i < Len(s)
          BY <1>1, <1>6, <3>1
        <5> QED BY <1>1, <5>1
      <4> QED BY <4>1, <4>2
    <3>4. u[i + 1] = s[i + 1]
      BY <1>2, <1>6, <2>1, <3>1
    <3> QED BY <3>1, <3>3, <3>4
  <2>2. CASE i + 1 = k
    <3>1. u[i] = s[i] /\ s[i] # f /\ s[i] \in Flow /\ s[i] = pv[f]
      BY <1>1, <1>2, <1>3, <1>6, <2>2
    <3>2. nx2[u[i]] = nx[f]
      BY <1>4, <3>1
    <3>3. k < Len(s) <=> i < Len(s) - 1
      BY <1>1, <1>6, <2>2
    <3>4. CASE i < Len(s) - 1
      <4>1. u[k] = s[k + 1]
        BY <1>1, <1>2, <1>6, <3>3, <3>4
      <4> QED BY <1>3, <2>2, <3>2, <3>3, <3>4, <4>1
    <3>5. CASE ~(i < Len(s) - 1)
      BY <1>3, <3>2, <3>3, <3>5
    <3> QED BY <3>4, <3>5
  <2>3. CASE i + 1 > k
    <3>1. u[i] = s[i + 1] /\ i + 1 # k /\ s[i + 1] # f /\ s[i + 1] \in Flow
      BY <1>1, <1>2, <1>6, <2>3
    <3>2. s[i + 1] # pv[f]
      <4>1. k > 1 => k - 1 \in 1 .. Len(s) /\ k - 1 # i + 1
        BY <1>1, <1>6, <2>3
      <4> QED BY <1>1, <1>3, <1>6, <4>1, <3>1
    <3>3. nx2[u[i]] = nx[s[i + 1]]
      BY <1>4, <3>1, <3>2
    <3>4. i + 1 < Len(s) <=> i < Len(s) - 1
      BY <1>1, <1>6
    <3>5. CASE i < Len(s) - 1
      <4>1. nx[s[i + 1]] = s[i + 1 + 1]
        BY <1>1, <1>6, <3>4, <3>5
      <4>2. i + 1 \in 1 .. Len(s) - 1 /\ ~(i + 1 < k)
        BY <1>1, <1>6, <2>3, <3>5
      <4>3. u[i + 1] = s[i + 1 + 1]
        BY <1>2, <4>2
      <4> QED BY <3>3, <3>5, <4>1, <4>3
    <3>6. CASE ~(i < Len(s) - 1)
      BY <1>1, <1>6, <3>3, <3>4, <3>6
    <3> QED BY <3>5, <3>6
  <2> QED BY <1>6, <2>1, <2>2, <2>3
<1>8. \A i \in 1 .. Len(s) - 1 : pv2[u[i]] = IF i > 1 THEN u[i - 1] ELSE NULL
  <2> TAKE i \in 1 .. Len(s) - 1
  <2>0. i > 1 => i - 1 \in 1 .. Len(s) - 1
    BY <1>1, <1>6
  <2>1. CASE i < k
    <3>1. u[i] = s[i] /\ s[i] # f /\ s[i] \in Flow
      BY <1>1, <1>2, <1>6, <2>1
    <3>2. s[i] # nx[f]
      <4>1. k < Len(s) => k + 1 \in 1 .. Len(s) /\ k + 1 # i
        BY <1>1, <1>6, <2>1
      <4> QED BY <1>1, <1>3, <1>6, <4>1, <3>1
    <3>3. pv2[u[i]] = pv[s[i]]
      BY <1>5, <3>1, <3>2
    <3>4. i > 1 => u[i - 1] = s[i - 1]
      <4>1. i - 1 < k
        BY <1>6, <2>1
      <4> QED BY <1>2, <2>0, <4>1
    <3> QED BY <1>1, <1>6, <3>3, <3>4
  <2>2. CASE i = k
    <3>1. u[i] = s[i + 1] /\ i + 1 # k /\ s[i + 1] # f /\ s[i + 1] \in Flow /\ s[i + 1] = nx[f]
      BY <1>1, <1>2, <1>3, <1>6, <2>2
    <3>2. pv2[u[i]] = pv[f]
      BY <1>5, <3>1
    <3>3. i > 1 => u[i - 1] = s[i - 1]
      <4>1. i - 1 < k
        BY <1>6, <2>2
      <4> QED BY <1>2, <2>0, <4>1
    <3> QED BY <1>3, <2>2, <3>2, <3>3
  <2>3. CASE i > k
    <3>1. u[i] = s[i + 1] /\ i + 1 # k /\ s[i + 1] # f /\ s[i + 1] \in Flow
      BY <1>1, <1>2, <1>6, <2>3
    <3>2. s[i + 1] # nx[f]
      <4>1. k < Len(s) => k + 1 \in 1 .. Len(s) /\ k + 1 # i + 1
        BY <1>1, <1>6, <2>3
      <4> QED BY <1>1, <1>3, <1>6, <4>1, <3>1
    <3>3. pv2[u[i]] = s[i]
      <4>1. pv2[u[i]] = pv[s[i + 1]]
        BY <1>5, <3>1, <3>2
      <4>2. pv[s[i + 1]] = s[i + 1 - 1]
        BY <1>1, <1>6
      <4> QED BY <1>6, <4>1, <4>2
    <3>4. i > 1 /\ u[i - 1] = s[i]
      <4>1. i > 1 /\ ~(i - 1 < k) /\ i - 1 + 1 = i
        BY <1>1, <1>6, <2>3
      <4>2. u[i - 1] = s[i - 1 + 1]
        BY <1>2, <2>0, <4>1
      <4> QED BY <4>1, <4>2
    <3> QED BY <3>3, <3>4
  <2> QED BY <1>6, <2>1, <2>2, <2>3
<1>9. t2 = IF Len(u) = 0 THEN NULL ELSE u[1]
  <2>1. t = f <=> k = 1
    BY <1>1
  <2>2. CASE k = 1
    <3>1. Len(s) > 1 => u[1] = s[1 + 1]
      BY <1>1, <1>2, <2>2
    <3> QED BY <1>1, <1>2, <1>3, <2>1, <2>2, <3>1
  <2>3. CASE k # 1
    <3>1. 1 \in 1 .. Len(s) - 1 /\ 1 < k
      BY <1>1, <2>3
    <3>2. Len(s) - 1 # 0 /\ u[1] = s[1]
      BY <1>2, <3>1
    <3> QED BY <1>1, <1>2, <2>1, <2>3, <3>2
  <2> QED BY <2>2, <2>3
<1>10. b2 = IF Len(u) = 0 THEN NULL ELSE u[Len(u)]
  <2>1. b = f <=> k = Len(s)
    BY <1>1
  <2>2. CASE k = Len(s)
    <3>1. Len(s) > 1 => u[Len(s) - 1] = s[Len(s) - 1]
      BY <1>1, <1>2, <2>2
    <3>2. b2 = IF Len(s) > 1 THEN s[Len(s) - 1] ELSE NULL
      BY <1>3, <2>1, <2>2
    <3> QED BY <1>1, <1>2, <3>1, <3>2
  <2>3. CASE k # Len(s)
    <3>1. Len(s) - 1 \in 1 .. Len(s) - 1 /\ ~(Len(s) - 1 < k) /\ Len(s) - 1 + 1 = Len(s)
      BY <1>1, <2>3
    <3>2. u[Len(s) - 1] = s[Len(s)] /\ Len(s) - 1 # 0
      <4>1. u[Len(s) - 1] = s[Len(s) - 1 + 1]
        BY <1>2, <3>1
      <4> QED BY <3>1, <4>1
    <3> QED BY <1>1, <1>2, <2>1, <2>3, <3>2
  <2> QED BY <2>2, <2>3
<1> HIDE DEF t2, b2
<1>11. Linked(u, t2, b2, n - 1, nx2, pv2)
  BY <1>1, <1>2, <1>7, <1>8, <1>9, <1>10 DEF Linked, First
<1> QED BY <1>11 DEF u, t2, b2, nx2, pv2
(* The two names this removal has elsewhere.                               *)
LEMMA WithoutIs ==
  ASSUME NEW s \in Seq(Flow), Distinct(s), NEW k \in 1 .. Len(s)
  PROVE  List!Without(s, s[k]) = Less(s, k)
<1>1. List!IndexIn(s, s[k]) = k
  <2>1. DOMAIN s = 1 .. Len(s)
    OBVIOUS
  <2>2. \A i \in DOMAIN s : s[i] = s[k] => i = k
    BY <2>1 DEF Distinct
  <2> QED BY <2>1, <2>2 DEF List!IndexIn
<1> QED BY <1>1 DEF List!Without, Less

LEMMA FrontIs ==
  ASSUME NEW s \in Seq(Flow), Len(s) > 0
  PROVE  SubSeq(s, 1, Len(s) - 1) = Less(s, Len(s))
<1>1. Len(s) \in Nat /\ \A i \in 1 .. Len(s) - 1 : i < Len(s)
  OBVIOUS
<1>2. Less(s, Len(s)) = [i \in 1 .. Len(s) - 1 |-> s[i]]
  BY <1>1 DEF Less
<1>3. SubSeq(s, 1, Len(s) - 1) = [i \in 1 .. Len(s) - 1 |-> s[i]]
  OBVIOUS
<1> QED BY <1>2, <1>3

---------------------------------------------------------------------------
(* The inductive invariant                                                 *)

(* The pointers of a queue are those of the list read along lnext, the     *)
(* list has the flows whose callers think they are in the queue, and a     *)
(* flow in no queue has no pointers left.                                  *)
Inv ==
  /\ TypeOK
  /\ \A q \in Queue : Linked(Forward(q), top[q], bot[q], len[q], lnext, lprev)
  /\ \A q \in Queue : \A f \in Flow : owner[f] = q <=> f \in Members(Forward(q))
  /\ \A f \in Flow : owner[f] \notin Queue => lnext[f] = NULL /\ lprev[f] = NULL

Lists == [q \in Queue |-> Forward(q)]
InMotion == {f \in Flow : owner[f] = Moving}

LEMMA LinkedForward ==
  ASSUME FlowQueueAssumption, NEW s, NEW t, NEW b, NEW n, NEW nx, NEW pv, Linked(s, t, b, n, nx, pv)
  PROVE  Walk(t, nx) = s
BY WalkIs DEF Linked

LEMMA InvInit ==
  ASSUME FlowQueueAssumption, Init
  PROVE  Inv /\ Lists = [q \in Queue |-> <<>>] /\ InMotion = {}
<1>1. \A q \in Queue : Linked(<<>>, top[q], bot[q], len[q], lnext, lprev)
  BY DEF Init, Linked, Distinct, First, Leads
<1>2. \A q \in Queue : Forward(q) = <<>>
  BY <1>1, LinkedForward DEF Forward
<1>3. Members(<<>>) = {}
  BY DEF Members
<1>4. \A f \in Flow : owner[f] \notin Queue /\ owner[f] # Moving
  BY DEF Init, FlowQueueAssumption
<1>5. TypeOK
  BY DEF Init, TypeOK
<1>6. \A f \in Flow : lnext[f] = NULL /\ lprev[f] = NULL
  BY DEF Init
<1> QED BY <1>1, <1>2, <1>3, <1>4, <1>5, <1>6 DEF Inv, Lists, InMotion

(* An operation on queue q and flow f that leaves q linked as list s, of   *)
(* the flows that are now in q, and touches only pointers of q and f.      *)
OthersKept(q) ==
  \A p \in Queue \ {q} : top'[p] = top[p] /\ bot'[p] = bot[p] /\ len'[p] = len[p]
FlowsElsewhereKept(q, f) ==
  \A x \in Flow \ {f} :
    /\ owner'[x] = owner[x]
    /\ x \notin Members(Forward(q)) => lnext'[x] = lnext[x] /\ lprev'[x] = lprev[x]
Enters(q, f, s) ==
  owner[f] \notin Queue \ {q} /\ owner'[f] = q /\ Members(s) = Members(Forward(q)) \cup {f}
Leaves(q, f, s) ==
  /\ owner[f] = q /\ owner'[f] \notin Queue /\ Members(s) = Members(Forward(q)) \ {f}
  /\ lnext'[f] = NULL /\ lprev'[f] = NULL
Changes(q, f, s) ==
  /\ Linked(s, top'[q], bot'[q], len'[q], lnext', lprev')
  /\ OthersKept(q) /\ FlowsElsewhereKept(q, f)
  /\ Enters(q, f, s) \/ Leaves(q, f, s)

LEMMA OneQueue ==
  ASSUME FlowQueueAssumption, Inv, TypeOK', NEW q \in Queue, NEW f \in Flow, NEW s, Changes(q, f, s)
  PROVE  Inv' /\ Lists' = [Lists EXCEPT ![q] = s]
<1> USE DEF Changes, OthersKept, FlowsElsewhereKept, Enters, Leaves
<1>1. Forward(q)' = s
  BY LinkedForward DEF Forward
<1>2. ASSUME NEW p \in Queue \ {q}
      PROVE  /\ Linked(Forward(p), top'[p], bot'[p], len'[p], lnext', lprev')
             /\ Forward(p)' = Forward(p)
  <2>1. Linked(Forward(p), top'[p], bot'[p], len'[p], lnext, lprev)
    BY DEF Inv
  <2>2. \A x \in Members(Forward(p)) : x \in Flow /\ owner[x] = p
    BY LinkedIs DEF Inv, Members
  <2>3. \A x \in Members(Forward(p)) : x # f /\ x \notin Members(Forward(q))
    BY <2>2 DEF Inv
  <2>4. \A x \in Members(Forward(p)) : lnext'[x] = lnext[x] /\ lprev'[x] = lprev[x]
    BY <2>2, <2>3
  <2>5. Linked(Forward(p), top'[p], bot'[p], len'[p], lnext', lprev')
    BY <2>1, <2>4, LinkedFrame
  <2>6. Walk(top'[p], lnext') = Forward(p)
    BY <2>5, LinkedForward
  <2> QED BY <2>5, <2>6 DEF Forward
<1>3. \A p \in Queue : Linked(Forward(p)', top'[p], bot'[p], len'[p], lnext', lprev')
  BY <1>1, <1>2
<1>4. \A p \in Queue : \A x \in Flow : owner'[x] = p <=> x \in Members(Forward(p)')
  <2> TAKE p \in Queue
  <2> TAKE x \in Flow
  <2>1. CASE p = q /\ x # f
    BY <1>1, <2>1 DEF Inv
  <2>2. CASE p = q /\ x = f
    BY <1>1, <2>2
  <2>3. CASE p # q /\ x # f
    BY <1>2, <2>3 DEF Inv
  <2>4. CASE p # q /\ x = f
    BY <1>2, <2>4 DEF Inv
  <2> QED BY <2>1, <2>2, <2>3, <2>4
<1>5. \A x \in Flow : owner'[x] \notin Queue => lnext'[x] = NULL /\ lprev'[x] = NULL
  <2> TAKE x \in Flow
  <2>1. CASE x = f
    BY <2>1
  <2>2. CASE x # f
    BY <2>2 DEF Inv
  <2> QED BY <2>1, <2>2
<1>6. Inv'
  BY <1>3, <1>4, <1>5 DEF Inv, Members
<1>7. Lists' = [Lists EXCEPT ![q] = s]
  BY <1>1, <1>2 DEF Lists
<1> QED BY <1>6, <1>7
---------------------------------------------------------------------------
(* The operations                                                          *)

LEMMA QueueIs ==
  ASSUME FlowQueueAssumption, Inv, NEW q \in Queue
  PROVE  /\ Linked(Forward(q), top[q], bot[q], len[q], lnext, lprev)
         /\ Forward(q) \in Seq(Flow) /\ Distinct(Forward(q)) /\ Len(Forward(q)) \in Nat
         /\ len[q] = Len(Forward(q)) /\ Lists[q] = Forward(q)
         /\ lnext \in Pointers /\ lprev \in Pointers
         /\ top[q] \in Flow \cup {NULL} /\ bot[q] \in Flow \cup {NULL}
         /\ \A x \in Members(Forward(q)) : x \in Flow /\ owner[x] = q
<1>1. Linked(Forward(q), top[q], bot[q], len[q], lnext, lprev)
  BY DEF Inv
<1>2. \A x \in Members(Forward(q)) : x \in Flow
  BY <1>1, LinkedIs DEF Members
<1>3. Distinct(Forward(q))
  BY <1>1 DEF Linked
<1>4. lnext \in Pointers /\ lprev \in Pointers /\ top[q] \in Flow \cup {NULL} /\ bot[q] \in Flow \cup {NULL}
  BY DEF Inv, TypeOK, Pointers
<1> QED BY <1>1, <1>2, <1>3, <1>4, LinkedIs DEF Inv, Lists

LEMMA EnqueueStep ==
  ASSUME FlowQueueAssumption, Inv, NEW q \in Queue, NEW f \in Flow, FlowEnqueue(q, f)
  PROVE  /\ Inv' /\ Lists' = [Lists EXCEPT ![q] = <<f>> \o Forward(q)]
         /\ owner[f] = Detached /\ InMotion' = InMotion
<1> DEFINE s == Forward(q)
<1>1. /\ owner[f] = Detached /\ owner[f] \notin Queue
      /\ f \notin Members(s) /\ lnext[f] = NULL /\ lprev[f] = NULL
  BY DEF FlowEnqueue, Inv, FlowQueueAssumption
<1>2. \/ top[q] # NULL /\ lnext' = [lnext EXCEPT ![f] = top[q]] /\ lprev' = [lprev EXCEPT ![top[q]] = f]
      \/ top[q] = NULL /\ lnext' = lnext /\ lprev' = lprev
  BY DEF FlowEnqueue
<1>3. /\ Linked(<<f>> \o s, f, IF top[q] # NULL THEN bot[q] ELSE f, len[q] + 1, lnext', lprev')
      /\ Members(<<f>> \o s) = Members(s) \cup {f}
  <2>1. Linked(s, top[q], bot[q], len[q], lnext, lprev) /\ lnext \in Pointers /\ lprev \in Pointers
    BY QueueIs
  <2>2. lnext' = SetIf(top[q] # NULL, lnext, f, top[q]) /\ lprev' = SetIf(top[q] # NULL, lprev, top[q], f)
    BY <1>2 DEF SetIf
  <2> HIDE DEF s
  <2>3. /\ Linked(<<f>> \o s, f, IF top[q] # NULL THEN bot[q] ELSE f, len[q] + 1,
                  SetIf(top[q] # NULL, lnext, f, top[q]), SetIf(top[q] # NULL, lprev, top[q], f))
        /\ Members(<<f>> \o s) = Members(s) \cup {f}
    BY <1>1, <2>1, Pushed
  <2> QED BY <2>2, <2>3
<1>4. TypeOK'
  <2>1. TypeOK /\ len[q] \in Nat
    BY DEF Inv, TypeOK
  <2> QED BY <2>1 DEF TypeOK, FlowEnqueue
<1>5. /\ top'[q] = f /\ bot'[q] = (IF top[q] # NULL THEN bot[q] ELSE f) /\ len'[q] = len[q] + 1
      /\ \A p \in Queue \ {q} : top'[p] = top[p] /\ bot'[p] = bot[p] /\ len'[p] = len[p]
  BY DEF FlowEnqueue, Inv, TypeOK
<1>6. owner'[f] = q /\ \A x \in Flow \ {f} : owner'[x] = owner[x]
  BY DEF FlowEnqueue, Inv, TypeOK
<1>7. top[q] # NULL => top[q] \in Members(s)
  <2>1. Linked(s, top[q], bot[q], len[q], lnext, lprev)
    BY QueueIs
  <2> HIDE DEF s
  <2>2. top[q] # NULL => 1 \in 1 .. Len(s) /\ top[q] = s[1]
    BY <2>1, LinkedIs
  <2> QED BY <2>2 DEF Members
<1>8. \A x \in Flow \ {f} : x \notin Members(s) => lnext'[x] = lnext[x] /\ lprev'[x] = lprev[x]
  BY <1>2, <1>7, QueueIs DEF Pointers
<1>9. Inv' /\ Lists' = [Lists EXCEPT ![q] = <<f>> \o s]
  <2>1. Linked(<<f>> \o s, top'[q], bot'[q], len'[q], lnext', lprev') /\ OthersKept(q)
    BY <1>3, <1>5 DEF OthersKept
  <2>2. Enters(q, f, <<f>> \o s)
    BY <1>1, <1>3, <1>6 DEF Enters
  <2>3. FlowsElsewhereKept(q, f)
    BY <1>6, <1>8 DEF FlowsElsewhereKept
  <2>4. Changes(q, f, <<f>> \o s)
    BY <2>1, <2>2, <2>3 DEF Changes
  <2> QED BY <1>4, <2>4, OneQueue
<1>10. InMotion' = InMotion
  BY <1>1, <1>6 DEF InMotion, FlowQueueAssumption
<1> QED BY <1>1, <1>9, <1>10

HeapOK(h) ==
  /\ h.top \in [Queue -> Flow \cup {NULL}] /\ h.bot \in [Queue -> Flow \cup {NULL}]
  /\ h.len \in [Queue -> Nat] /\ h.lnext \in Pointers /\ h.lprev \in Pointers

(* Heap h is the present one with f, the k-th flow of q, taken out of it.  *)
TakenOut(h, q, f, k) ==
  /\ f = Forward(q)[k] /\ List!Without(Forward(q), f) = Less(Forward(q), k)
  /\ Linked(Less(Forward(q), k), h.top[q], h.bot[q], h.len[q], h.lnext, h.lprev)
  /\ Members(Less(Forward(q), k)) = Members(Forward(q)) \ {f}
  /\ HeapOK(h)
  /\ \A p \in Queue \ {q} : h.top[p] = top[p] /\ h.bot[p] = bot[p] /\ h.len[p] = len[p]
  /\ h.lnext[f] = NULL /\ h.lprev[f] = NULL
  /\ \A x \in Flow \ Members(Forward(q)) : h.lnext[x] = lnext[x] /\ h.lprev[x] = lprev[x]

(* What UnlinkFrom does to the heap of a queue and one of its flows.       *)
LEMMA UnlinkIs ==
  ASSUME FlowQueueAssumption, Inv, NEW q \in Queue, NEW f \in Flow, owner[f] = q,
         NEW h, h = UnlinkFrom(Heap, q, f)
  PROVE  \E k \in 1 .. Len(Forward(q)) : TakenOut(h, q, f, k)
<1> DEFINE s == Forward(q)
<1>1. /\ Linked(s, top[q], bot[q], len[q], lnext, lprev) /\ s \in Seq(Flow) /\ Distinct(s)
      /\ len[q] = Len(s) /\ Len(s) \in Nat
      /\ lnext \in Pointers /\ lprev \in Pointers
  BY QueueIs
<1>2. PICK k \in 1 .. Len(s) : f = s[k]
  BY DEF Inv, Members
<1>3. TypeOK
  BY DEF Inv
<1>4. /\ h.top = SetIf(top[q] = f, top, q, lnext[f])
      /\ h.bot = SetIf(bot[q] = f, bot, q, lprev[f])
      /\ h.len = [len EXCEPT ![q] = @ - 1]
      /\ h.lnext = [SetIf(lprev[f] # NULL, lnext, lprev[f], lnext[f]) EXCEPT ![f] = NULL]
      /\ h.lprev = [SetIf(lnext[f] # NULL, lprev, lnext[f], lprev[f]) EXCEPT ![f] = NULL]
  BY DEF UnlinkFrom, Heap
<1>5. /\ h.top[q] = IF top[q] = f THEN lnext[f] ELSE top[q]
      /\ h.bot[q] = IF bot[q] = f THEN lprev[f] ELSE bot[q]
      /\ h.len[q] = len[q] - 1
      /\ \A p \in Queue \ {q} : h.top[p] = top[p] /\ h.bot[p] = bot[p] /\ h.len[p] = len[p]
  BY <1>3, <1>4 DEF TypeOK, SetIf
<1>6. /\ lnext[f] \in Flow \cup {NULL} /\ lprev[f] \in Flow \cup {NULL}
      /\ lnext[f] # NULL => lnext[f] \in Members(s)
      /\ lprev[f] # NULL => lprev[f] \in Members(s)
  <2>1. lnext[f] = IF k < Len(s) THEN s[k + 1] ELSE NULL
    BY <1>1, <1>2 DEF Linked, Leads
  <2>2. lprev[f] = IF k > 1 THEN s[k - 1] ELSE NULL
    BY <1>1, <1>2 DEF Linked
  <2> HIDE DEF s
  <2>3. /\ k < Len(s) => k + 1 \in 1 .. Len(s)
        /\ k > 1 => k - 1 \in 1 .. Len(s)
    BY <1>1
  <2>4. \A i \in 1 .. Len(s) : s[i] \in Members(s) /\ s[i] \in Flow
    BY <1>1 DEF Members
  <2> QED BY <2>1, <2>2, <2>3, <2>4
<1>7. HeapOK(h)
  <2>1. h.top \in [Queue -> Flow \cup {NULL}] /\ h.bot \in [Queue -> Flow \cup {NULL}]
    BY <1>3, <1>4, <1>6 DEF TypeOK, SetIf
  <2>2. len[q] - 1 \in Nat
    BY <1>1
  <2>3. h.len \in [Queue -> Nat]
    BY <1>3, <1>4, <2>2 DEF TypeOK
  <2>4. h.lnext \in Pointers /\ h.lprev \in Pointers
    BY <1>1, <1>4, <1>6 DEF Pointers, SetIf
  <2> QED BY <2>1, <2>3, <2>4 DEF HeapOK
<1>8. h.lnext[f] = NULL /\ h.lprev[f] = NULL
  BY <1>1, <1>4 DEF Pointers, SetIf
<1>9. \A x \in Flow \ Members(s) : h.lnext[x] = lnext[x] /\ h.lprev[x] = lprev[x]
  <2>1. f \in Members(s)
    BY <1>2 DEF Members
  <2> HIDE DEF s
  <2> QED BY <1>1, <1>4, <1>6, <2>1 DEF Pointers, SetIf
<1>10. /\ Linked(Less(s, k), h.top[q], h.bot[q], h.len[q], h.lnext, h.lprev)
       /\ Members(Less(s, k)) = Members(s) \ {f}
       /\ List!Without(s, f) = Less(s, k)
  <2> HIDE DEF s
  <2>1. Linked(Less(s, k), IF top[q] = f THEN lnext[f] ELSE top[q],
               IF bot[q] = f THEN lprev[f] ELSE bot[q], len[q] - 1, h.lnext, h.lprev)
    BY <1>1, <1>2, <1>4, Unlinked
  <2>2. Linked(Less(s, k), h.top[q], h.bot[q], h.len[q], h.lnext, h.lprev)
    BY <1>5, <2>1
  <2>3. Members(Less(s, k)) = Members(s) \ {f}
    BY <1>1, <1>2, LessIs
  <2>4. List!Without(s, f) = Less(s, k)
    BY <1>1, <1>2, WithoutIs
  <2> QED BY <2>2, <2>3, <2>4
<1>11. TakenOut(h, q, f, k)
  BY <1>2, <1>5, <1>7, <1>8, <1>9, <1>10 DEF TakenOut
<1> QED BY <1>11

LEMMA UnlinkStep ==
  ASSUME FlowQueueAssumption, Inv, NEW q \in Queue, NEW f \in Flow, RequeueUnlink(f, q)
  PROVE  /\ Inv' /\ Lists' = [Lists EXCEPT ![q] = List!Without(Forward(q), f)]
         /\ owner[f] = q /\ InMotion' = InMotion \cup {f}
<1> DEFINE h == UnlinkFrom(Heap, q, f)
<1>1. /\ owner[f] = q /\ top' = h.top /\ bot' = h.bot /\ len' = h.len /\ lnext' = h.lnext /\ lprev' = h.lprev
      /\ owner' = [owner EXCEPT ![f] = Moving]
  BY DEF RequeueUnlink, Store
<1> HIDE DEF h
<1>2. PICK k \in 1 .. Len(Forward(q)) : TakenOut(h, q, f, k)
  <2>1. h = UnlinkFrom(Heap, q, f)
    BY DEF h
  <2> QED BY <1>1, <2>1, UnlinkIs
<1> USE DEF TakenOut
<1>3. owner'[f] = Moving /\ owner'[f] \notin Queue /\ \A x \in Flow \ {f} : owner'[x] = owner[x]
  BY <1>1 DEF Inv, TypeOK, FlowQueueAssumption
<1>4. TypeOK'
  <2>1. owner' \in [Flow -> Queue \cup {Detached, Moving}]
    BY <1>1 DEF Inv, TypeOK
  <2> QED BY <1>1, <1>2, <2>1 DEF TypeOK, HeapOK, Pointers
<1>5. Inv' /\ Lists' = [Lists EXCEPT ![q] = Less(Forward(q), k)]
  <2>1. Linked(Less(Forward(q), k), top'[q], bot'[q], len'[q], lnext', lprev') /\ OthersKept(q)
    BY <1>1, <1>2 DEF OthersKept
  <2>2. Leaves(q, f, Less(Forward(q), k))
    BY <1>1, <1>2, <1>3 DEF Leaves
  <2>3. FlowsElsewhereKept(q, f)
    BY <1>1, <1>2, <1>3 DEF FlowsElsewhereKept
  <2>4. Changes(q, f, Less(Forward(q), k))
    BY <2>1, <2>2, <2>3 DEF Changes
  <2> QED BY <1>4, <2>4, OneQueue
<1>6. InMotion' = InMotion \cup {f}
  BY <1>3 DEF InMotion
<1> QED BY <1>1, <1>2, <1>5, <1>6

(* FlowDequeue is UnlinkFrom of the bottom flow. *)
LEMMA DequeueStep ==
  ASSUME FlowQueueAssumption, Inv, NEW q \in Queue, FlowDequeue(q)
  PROVE  /\ Inv' /\ Lists' = [Lists EXCEPT ![q] = SubSeq(Forward(q), 1, Len(Forward(q)) - 1)]
         /\ Forward(q) # <<>> /\ InMotion' = InMotion
<1> DEFINE f == bot[q]
           h == UnlinkFrom(Heap, q, f)
           s == Forward(q)
<1>1. /\ Linked(s, top[q], bot[q], len[q], lnext, lprev) /\ s \in Seq(Flow) /\ Distinct(s)
      /\ len[q] = Len(s) /\ Len(s) \in Nat
      /\ lnext \in Pointers /\ lprev \in Pointers
      /\ \A x \in Members(s) : x \in Flow /\ owner[x] = q
  BY QueueIs
<1>2. f \in Flow /\ Len(s) > 0 /\ f = s[Len(s)] /\ top[q] = s[1] /\ NULL \notin Flow
  <2> HIDE DEF s
  <2> QED BY <1>1, LinkedIs DEF FlowDequeue
<1>3. owner[f] = q /\ lnext[f] = NULL /\ lprev[f] = (IF Len(s) > 1 THEN s[Len(s) - 1] ELSE NULL)
  <2> HIDE DEF s
  <2>1. Len(s) \in 1 .. Len(s)
    BY <1>1, <1>2
  <2>2. f \in Members(s)
    BY <1>2, <2>1 DEF Members
  <2>3. lnext[s[Len(s)]] = NULL /\ lprev[s[Len(s)]] = (IF Len(s) > 1 THEN s[Len(s) - 1] ELSE NULL)
    BY <1>1, <2>1 DEF Linked, Leads
  <2> QED BY <1>1, <1>2, <2>2, <2>3
<1>4. /\ lprev[f] # NULL <=> Len(s) > 1
      /\ lprev[f] \in Flow \cup {NULL} /\ lprev[f] # f
      /\ top[q] = f <=> lprev[f] = NULL
  <2> HIDE DEF s
  <2>1. Len(s) > 1 => Len(s) - 1 \in 1 .. Len(s) /\ Len(s) \in 1 .. Len(s) /\ 1 \in 1 .. Len(s)
    BY <1>1
  <2>2. Len(s) > 1 => s[Len(s) - 1] \in Flow /\ s[Len(s) - 1] # s[Len(s)] /\ s[1] # s[Len(s)]
    BY <1>1, <2>1 DEF Distinct
  <2> QED BY <1>1, <1>2, <1>3, <2>2
<1>5. /\ top' = h.top /\ bot' = h.bot /\ len' = h.len /\ lnext' = h.lnext /\ lprev' = h.lprev
      /\ owner' = [owner EXCEPT ![f] = Detached]
  <2>1. /\ h.top = SetIf(top[q] = f, top, q, NULL)
        /\ h.bot = [bot EXCEPT ![q] = lprev[f]]
        /\ h.len = [len EXCEPT ![q] = @ - 1]
        /\ h.lnext = [SetIf(lprev[f] # NULL, lnext, lprev[f], NULL) EXCEPT ![f] = NULL]
        /\ h.lprev = [lprev EXCEPT ![f] = NULL]
    BY <1>3 DEF UnlinkFrom, Heap, SetIf
  <2>2. CASE lprev[f] # NULL
    <3>1. /\ top' = top /\ bot' = [bot EXCEPT ![q] = lprev[f]]
          /\ lnext' = [lnext EXCEPT ![lprev[f]] = NULL, ![f] = NULL]
          /\ len' = [len EXCEPT ![q] = @ - 1] /\ lprev' = [lprev EXCEPT ![f] = NULL]
          /\ owner' = [owner EXCEPT ![f] = Detached]
      BY <2>2 DEF FlowDequeue
    <3>2. top[q] # f
      BY <1>4, <2>2
    <3> QED BY <2>1, <2>2, <3>1, <3>2 DEF SetIf
  <2>3. CASE lprev[f] = NULL
    <3>1. /\ top' = [top EXCEPT ![q] = NULL] /\ bot' = [bot EXCEPT ![q] = NULL]
          /\ lnext' = [lnext EXCEPT ![f] = NULL]
          /\ len' = [len EXCEPT ![q] = @ - 1] /\ lprev' = [lprev EXCEPT ![f] = NULL]
          /\ owner' = [owner EXCEPT ![f] = Detached]
      BY <2>3 DEF FlowDequeue
    <3>2. top[q] = f
      BY <1>4, <2>3
    <3> QED BY <2>1, <2>3, <3>1, <3>2 DEF SetIf
  <2> QED BY <2>2, <2>3
<1> HIDE DEF h, f
<1>6. PICK k \in 1 .. Len(s) : TakenOut(h, q, f, k)
  <2>1. h = UnlinkFrom(Heap, q, f)
    BY DEF h
  <2> QED BY <1>2, <1>3, <2>1, UnlinkIs
<1> USE DEF TakenOut
<1>7. owner'[f] = Detached /\ owner'[f] \notin Queue /\ \A x \in Flow \ {f} : owner'[x] = owner[x]
  BY <1>2, <1>5 DEF Inv, TypeOK, FlowQueueAssumption
<1>8. TypeOK'
  <2>1. owner' \in [Flow -> Queue \cup {Detached, Moving}]
    BY <1>5 DEF Inv, TypeOK
  <2> QED BY <1>5, <1>6, <2>1 DEF TypeOK, HeapOK, Pointers
<1>9. Inv' /\ Lists' = [Lists EXCEPT ![q] = Less(s, k)]
  <2>1. Linked(Less(s, k), top'[q], bot'[q], len'[q], lnext', lprev') /\ OthersKept(q)
    BY <1>5, <1>6 DEF OthersKept
  <2>2. Leaves(q, f, Less(s, k))
    BY <1>3, <1>5, <1>6, <1>7 DEF Leaves
  <2>3. FlowsElsewhereKept(q, f)
    BY <1>3, <1>5, <1>6, <1>7 DEF FlowsElsewhereKept
  <2>4. Changes(q, f, Less(s, k))
    BY <2>1, <2>2, <2>3 DEF Changes
  <2> QED BY <1>2, <1>8, <2>4, OneQueue
<1>10. Less(s, k) = SubSeq(s, 1, Len(s) - 1) /\ s # <<>>
  <2>0. f = s[k]
    BY <1>6
  <2> HIDE DEF s
  <2>1. k = Len(s)
    <3>1. Len(s) \in 1 .. Len(s)
      BY <1>1, <1>2
    <3>2. s[k] = s[Len(s)] /\ k \in 1 .. Len(s)
      BY <1>2, <2>0
    <3>3. Distinct(s)
      BY <1>1
    <3> QED BY <3>1, <3>2, <3>3 DEF Distinct
  <2> QED BY <1>1, <1>2, <2>1, FrontIs
<1>11. InMotion' = InMotion
  BY <1>2, <1>3, <1>7 DEF InMotion, FlowQueueAssumption
<1> QED BY <1>9, <1>10, <1>11
(* What LinkAtBot does to a heap whose queue q is linked as list s.        *)
LEMMA LinkIs ==
  ASSUME FlowQueueAssumption, NEW h, HeapOK(h), NEW q \in Queue, NEW f \in Flow,
         NEW s, Linked(s, h.top[q], h.bot[q], h.len[q], h.lnext, h.lprev), f \notin Members(s),
         NEW g, g = LinkAtBot(h, q, f)
  PROVE  /\ Linked(Append(s, f), g.top[q], g.bot[q], g.len[q], g.lnext, g.lprev)
         /\ Members(Append(s, f)) = Members(s) \cup {f}
         /\ HeapOK(g)
         /\ \A p \in Queue \ {q} : g.top[p] = h.top[p] /\ g.bot[p] = h.bot[p] /\ g.len[p] = h.len[p]
         /\ \A x \in Flow \ {f} : x \notin Members(s) => g.lnext[x] = h.lnext[x] /\ g.lprev[x] = h.lprev[x]
<1>1. /\ g.top = SetIf(h.top[q] = NULL, h.top, q, f)
      /\ g.bot = [h.bot EXCEPT ![q] = f]
      /\ g.len = [h.len EXCEPT ![q] = @ + 1]
      /\ g.lnext = [SetIf(h.bot[q] # NULL, h.lnext, h.bot[q], f) EXCEPT ![f] = NULL]
      /\ g.lprev = [h.lprev EXCEPT ![f] = h.bot[q]]
  BY DEF LinkAtBot
<1>2. /\ Linked(Append(s, f), IF h.top[q] = NULL THEN f ELSE h.top[q], f, h.len[q] + 1, g.lnext, g.lprev)
      /\ Members(Append(s, f)) = Members(s) \cup {f}
  <2>1. h.lnext \in Pointers /\ h.lprev \in Pointers
    BY DEF HeapOK
  <2>2. /\ Linked(Append(s, f), IF h.top[q] = NULL THEN f ELSE h.top[q], f, h.len[q] + 1,
                  [SetIf(h.bot[q] # NULL, h.lnext, h.bot[q], f) EXCEPT ![f] = NULL],
                  [h.lprev EXCEPT ![f] = h.bot[q]])
        /\ Members(Append(s, f)) = Members(s) \cup {f}
    BY <2>1, Appended
  <2> QED BY <1>1, <2>2
<1>3. /\ g.top[q] = (IF h.top[q] = NULL THEN f ELSE h.top[q]) /\ g.bot[q] = f /\ g.len[q] = h.len[q] + 1
      /\ \A p \in Queue \ {q} : g.top[p] = h.top[p] /\ g.bot[p] = h.bot[p] /\ g.len[p] = h.len[p]
  BY <1>1 DEF HeapOK, SetIf
<1>4. HeapOK(g)
  <2>1. g.top \in [Queue -> Flow \cup {NULL}] /\ g.bot \in [Queue -> Flow \cup {NULL}]
    BY <1>1 DEF HeapOK, SetIf
  <2>2. g.len \in [Queue -> Nat]
    BY <1>1 DEF HeapOK
  <2>3. h.bot[q] \in Flow \cup {NULL}
    BY DEF HeapOK
  <2>4. g.lnext \in Pointers /\ g.lprev \in Pointers
    BY <1>1, <2>3 DEF HeapOK, Pointers, SetIf
  <2> QED BY <2>1, <2>2, <2>4 DEF HeapOK
<1>5. ASSUME NEW x \in Flow \ {f}, x \notin Members(s)
      PROVE  g.lnext[x] = h.lnext[x] /\ g.lprev[x] = h.lprev[x]
  <2>1. h.bot[q] # NULL => h.bot[q] \in Members(s)
    <3>1. h.bot[q] # NULL => Len(s) \in 1 .. Len(s) /\ h.bot[q] = s[Len(s)]
      BY LinkedIs
    <3> QED BY <3>1 DEF Members
  <2> QED BY <1>1, <1>5, <2>1 DEF HeapOK, Pointers, SetIf
<1>6. Linked(Append(s, f), g.top[q], g.bot[q], g.len[q], g.lnext, g.lprev)
  BY <1>2, <1>3
<1> QED BY <1>2, <1>3, <1>4, <1>5, <1>6

LEMMA LinkStep ==
  ASSUME FlowQueueAssumption, Inv, NEW q \in Queue, NEW f \in Flow, RequeueLink(f, q)
  PROVE  /\ Inv' /\ Lists' = [Lists EXCEPT ![q] = Append(Forward(q), f)]
         /\ owner[f] \notin Queue /\ InMotion' = InMotion \ {f}
<1> DEFINE g == LinkAtBot(Heap, q, f)
<1>1. /\ owner[f] \in {Moving, Detached}
      /\ top' = g.top /\ bot' = g.bot /\ len' = g.len /\ lnext' = g.lnext /\ lprev' = g.lprev
      /\ owner' = [owner EXCEPT ![f] = q]
  BY DEF RequeueLink, Store
<1>2. /\ HeapOK(Heap) /\ Linked(Forward(q), Heap.top[q], Heap.bot[q], Heap.len[q], Heap.lnext, Heap.lprev)
      /\ Heap.top = top /\ Heap.bot = bot /\ Heap.len = len /\ Heap.lnext = lnext /\ Heap.lprev = lprev
  <2>1. TypeOK
    BY DEF Inv
  <2>2. HeapOK(Heap)
    BY <2>1 DEF HeapOK, Heap, TypeOK, Pointers
  <2>3. Heap.top = top /\ Heap.bot = bot /\ Heap.len = len /\ Heap.lnext = lnext /\ Heap.lprev = lprev
    BY DEF Heap
  <2> QED BY <2>2, <2>3, QueueIs
<1>3. owner[f] \notin Queue /\ f \notin Members(Forward(q))
  BY <1>1 DEF Inv, FlowQueueAssumption
<1>4. /\ Linked(Append(Forward(q), f), g.top[q], g.bot[q], g.len[q], g.lnext, g.lprev)
      /\ Members(Append(Forward(q), f)) = Members(Forward(q)) \cup {f}
      /\ HeapOK(g)
      /\ \A p \in Queue \ {q} : g.top[p] = top[p] /\ g.bot[p] = bot[p] /\ g.len[p] = len[p]
      /\ \A x \in Flow \ {f} : x \notin Members(Forward(q)) => g.lnext[x] = lnext[x] /\ g.lprev[x] = lprev[x]
  <2>1. g = LinkAtBot(Heap, q, f)
    OBVIOUS
  <2> HIDE DEF g
  <2> QED BY <1>2, <1>3, <2>1, LinkIs
<1> HIDE DEF g
<1>5. owner'[f] = q /\ \A x \in Flow \ {f} : owner'[x] = owner[x]
  BY <1>1 DEF Inv, TypeOK
<1>6. TypeOK'
  <2>1. owner' \in [Flow -> Queue \cup {Detached, Moving}]
    BY <1>1 DEF Inv, TypeOK
  <2> QED BY <1>1, <1>4, <2>1 DEF TypeOK, HeapOK, Pointers
<1>7. Changes(q, f, Append(Forward(q), f))
  <2>1. /\ Linked(Append(Forward(q), f), top'[q], bot'[q], len'[q], lnext', lprev')
        /\ OthersKept(q)
    BY <1>1, <1>4 DEF OthersKept
  <2>2. Enters(q, f, Append(Forward(q), f))
    BY <1>3, <1>4, <1>5 DEF Enters
  <2>3. FlowsElsewhereKept(q, f)
    BY <1>1, <1>4, <1>5 DEF FlowsElsewhereKept
  <2> QED BY <2>1, <2>2, <2>3 DEF Changes
<1>8. Inv' /\ Lists' = [Lists EXCEPT ![q] = Append(Forward(q), f)]
  BY <1>6, <1>7, OneQueue
<1>9. InMotion' = InMotion \ {f}
  BY <1>5 DEF InMotion, FlowQueueAssumption
<1> QED BY <1>3, <1>8, <1>9

LEMMA SameStep ==
  ASSUME FlowQueueAssumption, Inv, NEW q \in Queue, NEW f \in Flow, RequeueSame(f, q)
  PROVE  /\ Inv' /\ Lists' = [Lists EXCEPT ![q] = Append(List!Without(Forward(q), f), f)]
         /\ owner[f] = q /\ InMotion' = InMotion
<1> DEFINE h == UnlinkFrom(Heap, q, f)
           g == LinkAtBot(h, q, f)
           s == Forward(q)
<1>1. /\ owner[f] = q
      /\ top' = g.top /\ bot' = g.bot /\ len' = g.len /\ lnext' = g.lnext /\ lprev' = g.lprev
      /\ owner' = owner
  BY DEF RequeueSame, Store
<1> HIDE DEF g, h
<1>2. PICK k \in 1 .. Len(s) : TakenOut(h, q, f, k)
  <2>1. h = UnlinkFrom(Heap, q, f)
    BY DEF h
  <2> QED BY <1>1, <2>1, UnlinkIs
<1> USE DEF TakenOut
<1> DEFINE u == Less(s, k)
<1>3. /\ Linked(Append(u, f), g.top[q], g.bot[q], g.len[q], g.lnext, g.lprev)
      /\ Members(Append(u, f)) = Members(u) \cup {f}
      /\ HeapOK(g)
      /\ \A p \in Queue \ {q} : g.top[p] = h.top[p] /\ g.bot[p] = h.bot[p] /\ g.len[p] = h.len[p]
      /\ \A x \in Flow \ {f} : x \notin Members(u) => g.lnext[x] = h.lnext[x] /\ g.lprev[x] = h.lprev[x]
  <2>1. g = LinkAtBot(h, q, f)
    BY DEF g
  <2>2. HeapOK(h) /\ f \notin Members(u)
    BY <1>2 DEF HeapOK
  <2>3. Linked(u, h.top[q], h.bot[q], h.len[q], h.lnext, h.lprev)
    BY <1>2
  <2> HIDE DEF u
  <2> QED BY <2>1, <2>2, <2>3, LinkIs
<1>4. Members(Append(u, f)) = Members(s) \cup {f} /\ Append(u, f) = Append(List!Without(s, f), f)
  BY <1>2, <1>3
<1>5. TypeOK'
  <2>1. owner' \in [Flow -> Queue \cup {Detached, Moving}]
    BY <1>1 DEF Inv, TypeOK
  <2> QED BY <1>1, <1>3, <2>1 DEF TypeOK, HeapOK, Pointers
<1>6. Changes(q, f, Append(u, f))
  <2>1. /\ Linked(Append(u, f), top'[q], bot'[q], len'[q], lnext', lprev')
        /\ OthersKept(q)
    BY <1>1, <1>2, <1>3 DEF OthersKept
  <2>2. Enters(q, f, Append(u, f))
    BY <1>1, <1>4 DEF Enters
  <2>3. FlowsElsewhereKept(q, f)
    BY <1>1, <1>2, <1>3 DEF FlowsElsewhereKept
  <2> QED BY <2>1, <2>2, <2>3 DEF Changes
<1>7. Inv' /\ Lists' = [Lists EXCEPT ![q] = Append(u, f)]
  <2> HIDE DEF u
  <2> QED BY <1>5, <1>6, OneQueue
<1>8. InMotion' = InMotion
  BY <1>1 DEF InMotion
<1> QED BY <1>1, <1>4, <1>7, <1>8

LEMMA InvStep ==
  ASSUME FlowQueueAssumption, Inv, [Next]_vars
  PROVE  Inv'
<1>1. CASE UNCHANGED vars
  BY <1>1 DEF vars, Inv, TypeOK, Forward, Members
<1>2. ASSUME NEW q \in Queue, FlowDequeue(q) PROVE Inv'
  BY <1>2, DequeueStep
<1>3. ASSUME NEW q \in Queue, NEW f \in Flow, FlowEnqueue(q, f) PROVE Inv'
  BY <1>3, EnqueueStep
<1>4. ASSUME NEW q \in Queue, NEW f \in Flow, RequeueUnlink(f, q) PROVE Inv'
  BY <1>4, UnlinkStep
<1>5. ASSUME NEW q \in Queue, NEW f \in Flow, RequeueLink(f, q) PROVE Inv'
  BY <1>5, LinkStep
<1>6. ASSUME NEW q \in Queue, NEW f \in Flow, RequeueSame(f, q) PROVE Inv'
  BY <1>6, SameStep
<1> QED BY <1>1, <1>2, <1>3, <1>4, <1>5, <1>6 DEF Next

---------------------------------------------------------------------------
(* The lists                                                               *)

LEMMA InvIsWellLinked ==
  ASSUME FlowQueueAssumption, Inv
  PROVE  WellLinked
<1> SUFFICES ASSUME NEW q \in Queue
             PROVE  /\ Len(Forward(q)) = len[q] /\ Len(Backward(q)) = len[q]
                    /\ \A i \in 1 .. len[q] : Forward(q)[i] = Backward(q)[len[q] + 1 - i]
                    /\ {Forward(q)[i] : i \in DOMAIN Forward(q)} = {f \in Flow : owner[f] = q}
  BY DEF WellLinked
<1> DEFINE s == Forward(q)
<1>1. /\ Linked(s, top[q], bot[q], len[q], lnext, lprev) /\ s \in Seq(Flow) /\ len[q] = Len(s)
      /\ Len(s) \in Nat /\ \A x \in Members(s) : x \in Flow /\ owner[x] = q
  BY QueueIs
<1> HIDE DEF s
<1>2. Backward(q) = [i \in 1 .. Len(s) |-> s[Len(s) + 1 - i]] /\ Len(Backward(q)) = len[q]
  <2>1. /\ Walk(bot[q], lprev) = [i \in 1 .. Len(s) |-> s[Len(s) + 1 - i]]
        /\ Len(Walk(bot[q], lprev)) = Len(s)
    BY <1>1, LinkedBackward
  <2> QED BY <1>1, <2>1 DEF Backward
<1>3. ASSUME NEW i \in 1 .. len[q] PROVE s[i] = Backward(q)[len[q] + 1 - i]
  <2>1. len[q] + 1 - i \in 1 .. Len(s) /\ Len(s) + 1 - (len[q] + 1 - i) = i
    BY <1>1
  <2> QED BY <1>2, <2>1
<1>4. {s[i] : i \in DOMAIN s} = {f \in Flow : owner[f] = q}
  <2>1. DOMAIN s = 1 .. Len(s)
    BY <1>1
  <2>2. Members(s) = {f \in Flow : owner[f] = q}
    BY <1>1 DEF Inv, s
  <2> QED BY <2>1, <2>2 DEF Members
<1> QED BY <1>1, <1>2, <1>3, <1>4 DEF s

LEMMA ListInit ==
  ASSUME FlowQueueAssumption, Init
  PROVE  List!Init
BY InvInit DEF List!Init, Lists, InMotion

LEMMA ListStep ==
  ASSUME FlowQueueAssumption, Inv, [Next]_vars
  PROVE  [List!Next]_(List!listVars)
<1>1. CASE UNCHANGED vars
  BY <1>1 DEF vars, List!listVars, Forward
<1>2. /\ \A q \in Queue : Lists[q] = Forward(q)
      /\ \A q \in Queue : \A f \in Flow : owner[f] = q <=> f \in Members(Forward(q))
      /\ \A q \in Queue : List!Elems(Lists[q]) = Members(Forward(q))
  <2>1. \A q \in Queue : Forward(q) \in Seq(Flow) /\ Lists[q] = Forward(q)
    BY QueueIs
  <2>2. \A q \in Queue : List!Elems(Forward(q)) = Members(Forward(q))
    BY <2>1 DEF List!Elems, Members
  <2> QED BY <2>1, <2>2 DEF Inv
<1>3. \A f \in Flow : f \in List!Queued <=> owner[f] \in Queue
  BY <1>2 DEF List!Queued, Lists
<1>4. ASSUME NEW q \in Queue, FlowDequeue(q) PROVE List!TakeBot(q)
  BY <1>2, <1>4, DequeueStep DEF List!TakeBot, Lists, InMotion
<1>5. ASSUME NEW q \in Queue, NEW f \in Flow, FlowEnqueue(q, f) PROVE List!PutTop(q, f)
  <2>1. f \notin List!Queued /\ f \notin InMotion
    BY <1>3, <1>5, EnqueueStep DEF InMotion, FlowQueueAssumption
  <2> QED BY <1>2, <1>5, <2>1, EnqueueStep DEF List!PutTop, Lists, InMotion
<1>6. ASSUME NEW q \in Queue, NEW f \in Flow, RequeueUnlink(f, q) PROVE List!TakeOut(q, f)
  BY <1>2, <1>6, UnlinkStep DEF List!TakeOut, Lists, InMotion
<1>7. ASSUME NEW q \in Queue, NEW f \in Flow, RequeueLink(f, q) PROVE List!PutBot(q, f)
  BY <1>2, <1>3, <1>7, LinkStep DEF List!PutBot, Lists, InMotion
<1>8. ASSUME NEW q \in Queue, NEW f \in Flow, RequeueSame(f, q) PROVE List!Rotate(q, f)
  BY <1>2, <1>8, SameStep DEF List!Rotate, Lists, InMotion
<1> QED BY <1>1, <1>4, <1>5, <1>6, <1>7, <1>8 DEF Next, List!Next

(* Whatever the threads do to the queues under their locks, the pointers of *)
(* flow-queue.c are those of lists (WellLinked) and every update of them is *)
(* one operation of FlowList, for any number of flows and queues.          *)
THEOREM QueuesAreLists ==
  ASSUME FlowQueueAssumption
  PROVE  Spec => ImplementsFlowList
<1>1. Init => Inv
  BY InvInit
<1>2. Inv /\ [Next]_vars => Inv'
  BY InvStep
<1>3. Inv => WellLinked
  BY InvIsWellLinked
<1>4. Init => List!Init
  BY ListInit
<1>5. Inv /\ [Next]_vars => [List!Next]_(List!listVars)
  BY ListStep
<1>6. [List!Next]_(List!listVars) /\ WellLinked' => [vars' # vars => WellLinked' /\ [List!Next]_(List!listVars)]_vars
  OBVIOUS
<1> QED BY <1>1, <1>2, <1>3, <1>4, <1>5, <1>6, PTL DEF Spec, ImplementsFlowList

(* FlowQueue implements the whole of FlowList.                             *)
THEOREM QueuesImplementFlowList ==
  ASSUME FlowQueueAssumption
  PROVE  Spec => List!Spec
<1>1. Init => Inv
  BY InvInit
<1>2. Inv /\ [Next]_vars => Inv'
  BY InvStep
<1>3. Init => List!Init
  BY ListInit
<1>4. Inv /\ [Next]_vars => [List!Next]_(List!listVars)
  BY ListStep
<1> QED BY <1>1, <1>2, <1>3, <1>4, PTL DEF Spec, List!Spec
=============================================================================
