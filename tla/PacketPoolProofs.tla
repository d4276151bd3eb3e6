-------------------------- MODULE PacketPoolProofs --------------------------
(* Every packet is in one place and a tunnel root outlives its children,   *)
(* for any number of packets, children and threads; and with one verdict   *)
(* thread no packet is returned without a verdict.                         *)
EXTENDS PacketPool, FiniteSetTheorems, SequenceTheorems, TLAPS

Is(x, p) == IF x = p THEN 1 ELSE 0
In(d, S) == IF d \in S THEN 1 ELSE 0

---------------------------------------------------------------------------
(* Counting: how often a packet is in a queue, how many threads have it.   *)

Places(p, s) == {i \in DOMAIN s : s[i] = p}

LEMMA QueuedNat ==
  ASSUME NEW p, NEW s \in Seq(Packet)
  PROVE  IsFiniteSet(Places(p, s)) /\ Queued(p, s) \in Nat /\ Queued(p, s) = Cardinality(Places(p, s))
<1>1. Places(p, s) \subseteq 1 .. Len(s) /\ Len(s) \in Nat
  BY DEF Places
<1>2. IsFiniteSet(1 .. Len(s))
  BY <1>1, FS_Interval
<1> QED BY <1>1, <1>2, FS_Subset, FS_CardinalityType DEF Queued, Places

(* t is s with x put in at place i.                                        *)
LEMMA QueuedInserted ==
  ASSUME NEW p, NEW x, NEW s \in Seq(Packet), NEW t \in Seq(Packet), NEW i \in 1 .. Len(s) + 1,
         Len(t) = Len(s) + 1, t[i] = x,
         \A j \in 1 .. Len(s) : t[IF j < i THEN j ELSE j + 1] = s[j]
  PROVE  Queued(p, t) = Queued(p, s) + Is(x, p)
<1> DEFINE S == Places(p, s)
           T == Places(p, t) \ {i}
           f == [j \in S |-> IF j < i THEN j ELSE j + 1]
<1>1. Len(s) \in Nat /\ DOMAIN s = 1 .. Len(s) /\ DOMAIN t = 1 .. Len(s) + 1
  OBVIOUS
<1>2. f \in [S -> T]
  BY <1>1 DEF Places
<1>3. \A a, b \in S : f[a] = f[b] => a = b
  BY <1>1 DEF Places
<1>4. \A b \in T : \E a \in S : f[a] = b
  <2> TAKE b \in T
  <2> DEFINE a == IF b < i THEN b ELSE b - 1
  <2>1. a \in 1 .. Len(s) /\ (IF a < i THEN a ELSE a + 1) = b
    BY <1>1 DEF Places
  <2>2. a \in S
    BY <2>1, <1>1 DEF Places
  <2> QED BY <2>1, <2>2
<1>5. ExistsBijection(S, T)
  <2>1. f \in Bijection(S, T)
    BY <1>2, <1>3, <1>4 DEF Bijection, Injection, Surjection, IsInjective
  <2> QED BY <2>1 DEF ExistsBijection
<1>6. IsFiniteSet(S) /\ IsFiniteSet(T) /\ Cardinality(T) = Cardinality(S)
  BY <1>5, QueuedNat, FS_Bijection
<1>7. i \notin T /\ Places(p, t) = IF x = p THEN T \cup {i} ELSE T
  BY <1>1 DEF Places
<1>8. Cardinality(Places(p, t)) = Cardinality(S) + Is(x, p)
  <2> HIDE DEF S, T
  <2>1. CASE x = p
    <3>1. Cardinality(T \cup {i}) = Cardinality(T) + 1
      BY <1>6, <1>7, FS_AddElement
    <3> QED BY <3>1, <2>1, <1>6, <1>7 DEF Is
  <2>2. CASE x # p
    <3>1. Cardinality(S) \in Nat
      BY <1>6, FS_CardinalityType
    <3> QED BY <3>1, <2>2, <1>6, <1>7 DEF Is
  <2> QED BY <2>1, <2>2
<1> QED BY <1>8, QueuedNat

LEMMA QueuedEmpty == ASSUME NEW p PROVE Queued(p, <<>>) = 0
<1>1. Places(p, <<>>) = {}
  BY DEF Places
<1>2. <<>> \in Seq(Packet)
  OBVIOUS
<1>3. Queued(p, <<>>) = Cardinality(Places(p, <<>>))
  BY <1>2, QueuedNat
<1> QED BY <1>1, <1>3, FS_EmptySet

LEMMA QueuedAppend ==
  ASSUME NEW p, NEW s \in Seq(Packet), NEW x \in Packet
  PROVE  Append(s, x) \in Seq(Packet) /\ Queued(p, Append(s, x)) = Queued(p, s) + Is(x, p)
<1>1. /\ Append(s, x) \in Seq(Packet) /\ Len(Append(s, x)) = Len(s) + 1
      /\ Append(s, x)[Len(s) + 1] = x /\ Len(s) + 1 \in 1 .. Len(s) + 1
      /\ \A j \in 1 .. Len(s) : Append(s, x)[IF j < Len(s) + 1 THEN j ELSE j + 1] = s[j]
  OBVIOUS
<1>2. Queued(p, Append(s, x)) = Queued(p, s) + Is(x, p)
  BY <1>1, QueuedInserted
<1> QED BY <1>1, <1>2

LEMMA Cancel ==
  ASSUME NEW a \in Int, NEW u \in Int, NEW v \in Int, a + u = a + v
  PROVE  u = v
OBVIOUS

LEMMA QueuedTail ==
  ASSUME NEW p, NEW s \in Seq(Packet), s # <<>>
  PROVE  /\ Tail(s) \in Seq(Packet) /\ Head(s) \in Packet
         /\ Queued(p, s) = Queued(p, Tail(s)) + Is(Head(s), p)
<1>1. /\ Tail(s) \in Seq(Packet) /\ Head(s) \in Packet /\ s[1] = Head(s)
      /\ Len(s) = Len(Tail(s)) + 1 /\ 1 \in 1 .. Len(Tail(s)) + 1
      /\ \A j \in 1 .. Len(Tail(s)) : s[IF j < 1 THEN j ELSE j + 1] = Tail(s)[j]
  OBVIOUS
<1> DEFINE r == Tail(s)
<1> HIDE DEF r
<1>2. Queued(p, s) = Queued(p, r) + Is(Head(s), p)
  BY <1>1, QueuedInserted DEF r
<1> QED BY <1>1, <1>2 DEF r

LEMMA QueuedInsertAt ==
  ASSUME NEW p, NEW s \in Seq(Packet), NEW i \in 1 .. Len(s), NEW x \in Packet
  PROVE  /\ InsertAt(s, i, x) \in Seq(Packet) /\ Len(InsertAt(s, i, x)) = Len(s) + 1
         /\ InsertAt(s, i, x)[Len(s) + 1] = s[Len(s)]
         /\ Queued(p, InsertAt(s, i, x)) = Queued(p, s) + Is(x, p)
<1> DEFINE a == SubSeq(s, 1, i - 1)
           b == SubSeq(s, i, Len(s))
           t == InsertAt(s, i, x)
<1>1. a \in Seq(Packet) /\ Len(a) = i - 1 /\ \A j \in 1 .. i - 1 : a[j] = s[j]
  OBVIOUS
<1>2. b \in Seq(Packet) /\ Len(b) = Len(s) - i + 1 /\ \A j \in 1 .. Len(s) - i + 1 : b[j] = s[i + j - 1]
  OBVIOUS
<1> HIDE DEF a, b
<1>3. t = a \o <<x>> \o b
  BY DEF InsertAt, a, b
<1>4. t \in Seq(Packet) /\ Len(t) = Len(s) + 1 /\ t[i] = x
  <2>1. /\ a \o <<x>> \in Seq(Packet) /\ Len(a \o <<x>>) = i /\ (a \o <<x>>)[i] = x
    BY <1>1
  <2> DEFINE c == a \o <<x>>
  <2> HIDE DEF c
  <2>2. c \in Seq(Packet) /\ Len(c) = i /\ c[i] = x
    BY <2>1 DEF c
  <2>3. Len(s) \in Nat /\ i \in 1 .. Len(s)
    OBVIOUS
  <2>4. c \o b \in Seq(Packet) /\ Len(c \o b) = Len(s) + 1 /\ (c \o b)[i] = x
    <3>1. /\ c \o b \in Seq(Packet) /\ Len(c \o b) = Len(c) + Len(b)
          /\ \A j \in 1 .. Len(c) + Len(b) : (c \o b)[j] = IF j <= Len(c) THEN c[j] ELSE b[j - Len(c)]
      BY <2>2, <1>2, ConcatProperties
    <3> HIDE DEF t
    <3> QED BY <3>1, <2>2, <2>3, <1>2
  <2> QED BY <2>4, <1>3 DEF c
<1>5. \A j \in 1 .. Len(s) : t[IF j < i THEN j ELSE j + 1] = s[j]
  <2> TAKE j \in 1 .. Len(s)
  <2>1. CASE j < i
    BY <2>1, <1>1, <1>2, <1>3
  <2>2. CASE ~(j < i)
    <3>1. t[j + 1] = b[j + 1 - i]
      BY <2>2, <1>1, <1>2, <1>3
    <3> HIDE DEF t
    <3>2. j + 1 - i \in 1 .. Len(s) - i + 1 /\ i + (j + 1 - i) - 1 = j
      BY <2>2
    <3>3. b[j + 1 - i] = s[j]
      BY <3>2, <1>2
    <3> QED BY <3>1, <3>3, <2>2
  <2> QED BY <2>1, <2>2
<1>6. t[Len(s) + 1] = s[Len(s)]
  BY <1>5
<1> HIDE DEF t
<1>7. Queued(p, t) = Queued(p, s) + Is(x, p)
  BY <1>4, <1>5, QueuedInserted
<1> QED BY <1>4, <1>6, <1>7 DEF t

(* One thread lets go of what it has or takes something.                   *)
LEMMA HandsMove ==
  ASSUME NEW D, IsFiniteSet(D), NEW S \in SUBSET D, NEW T \in SUBSET D, NEW d \in D,
         \A e \in D : e # d => (e \in S <=> e \in T)
  PROVE  /\ Cardinality(S) \in Nat /\ Cardinality(T) \in Nat
         /\ Cardinality(T) + In(d, S) = Cardinality(S) + In(d, T)
<1> DEFINE R == S \ {d}
<1>1. IsFiniteSet(S) /\ IsFiniteSet(T) /\ IsFiniteSet(R)
  BY FS_Subset
<1>2. Cardinality(S) \in Nat /\ Cardinality(T) \in Nat /\ Cardinality(R) \in Nat
  BY <1>1, FS_CardinalityType
<1>3. /\ d \notin R
      /\ S = IF d \in S THEN R \cup {d} ELSE R
      /\ T = IF d \in T THEN R \cup {d} ELSE R
  OBVIOUS
<1>4. Cardinality(R \cup {d}) = Cardinality(R) + 1
  BY <1>1, <1>3, FS_AddElement
<1> HIDE DEF R
<1>5. Cardinality(S) = Cardinality(R) + In(d, S)
  <2>1. CASE d \in S
    <3>1. S = R \cup {d}
      BY <2>1, <1>3
    <3> QED BY <3>1, <2>1, <1>4 DEF In
  <2>2. CASE d \notin S
    <3>1. S = R
      BY <2>2, <1>3
    <3> QED BY <3>1, <2>2, <1>2 DEF In
  <2> QED BY <2>1, <2>2
<1>6. Cardinality(T) = Cardinality(R) + In(d, T)
  <2>1. CASE d \in T
    <3>1. T = R \cup {d}
      BY <2>1, <1>3
    <3> QED BY <3>1, <2>1, <1>4 DEF In
  <2>2. CASE d \notin T
    <3>1. T = R
      BY <2>2, <1>3
    <3> QED BY <3>1, <2>2, <1>2 DEF In
  <2> QED BY <2>1, <2>2
<1> QED BY <1>2, <1>5, <1>6 DEF In

---------------------------------------------------------------------------
(* The invariant                                                           *)

Kept == [root : Packet \cup {NULL}, tunnel : BOOLEAN, tpr : Nat, rtv : Nat,
         verdicted : BOOLEAN, flow : BOOLEAN]
Typed ==
  /\ pool \in [Packet -> Nat] /\ alloced \subseteq Extra
  /\ pk \in [Packet -> Kept]
  /\ pickup \in Seq(Packet) /\ decoded \in Seq(Packet) /\ inspected \in Seq(Packet)
  /\ verdicted \in Seq(Packet) /\ decoding \in Seq(Packet)
  /\ detecting \in [Detector -> Packet \cup {NULL}]
  /\ vreg \in [Verdicter -> VReg] /\ oreg \in [Outputter -> OReg]
  /\ \A v \in Verdicter : vreg[v].pc = "idle" <=> vreg[v].p = NULL
  /\ \A o \in Outputter : oreg[o].pc = "idle" <=> oreg[o].p = NULL

(* Where a packet has not met Decode1 since it was Fresh.                  *)
Resting(p) == pool[p] > 0 \/ p \in Extra \ alloced \/ Queued(p, pickup) > 0

(* Packets at rest are of no tunnel, and children know their root, which   *)
(* is the packet Decode1 has in hand and not a child itself.               *)
TunnelsOpen ==
  /\ \A p \in Packet :
       Resting(p) => /\ pk[p].root = NULL /\ pk[p].tunnel = FALSE
                     /\ pk[p].tpr = 0 /\ pk[p].verdicted = FALSE
  /\ decoding # <<>> => pk[Root].root = NULL
  /\ \A p \in Packet : pk[p].root # NULL => pk[p].tunnel = TRUE /\ pk[p].verdicted = FALSE

(* tpr_cnt counts the children to come; their root is not yet taken by     *)
(* TmqhOutputPacketpool, and the one that finds itself the last of a root  *)
(* that waits is the only one.                                             *)
Counted == \A r \in Packet : pk[r].tpr = Cardinality(Unseen(r))
RootsStay ==
  \A r \in Packet : Unseen(r) # {} =>
    pk[r].tunnel = TRUE /\ pk[r].root = NULL /\ \A o \in Outputter : oreg[o].p # r
Returns(o, r) == oreg[o].pc = "root" /\ pk[oreg[o].p].root = r
OneReturns ==
  \A o \in Outputter : oreg[o].pc = "root" =>
    \E r \in Packet : /\ Returns(o, r) /\ pk[r].verdicted = TRUE /\ Unseen(r) = {}
                      /\ \A u \in Outputter : Returns(u, r) => u = o
WaitsForSome ==
  \A r \in Packet : pk[r].verdicted = TRUE => Unseen(r) # {} \/ \E o \in Outputter : Returns(o, r)

RootInv == TunnelsOpen /\ Counted /\ RootsStay /\ OneReturns /\ WaitsForSome
Inv == Typed /\ InOnePlace /\ RootInv

---------------------------------------------------------------------------
(* InOnePlace as one sum                                                   *)

DSet(p) == {d \in Detector : detecting[d] = p}
VSet(p) == {v \in Verdicter : vreg[v].p = p}
OSet(p) == {o \in Outputter : oreg[o].p = p}
Target(p) == IF p \in Extra \ alloced THEN 0 ELSE 1
Total(p) ==
  pool[p] + (Queued(p, pickup) + Queued(p, decoded) + Queued(p, inspected) + Queued(p, verdicted)
             + Queued(p, decoding)
             + (Cardinality(DSet(p)) + Cardinality(VSet(p)) + Cardinality(OSet(p))))
  + Parked(p)

LEMMA CountsNat ==
  ASSUME PacketPoolAssumption, Typed, NEW p \in Packet
  PROVE  /\ pool[p] \in Nat
         /\ Queued(p, pickup) \in Nat /\ Queued(p, decoded) \in Nat /\ Queued(p, inspected) \in Nat
         /\ Queued(p, verdicted) \in Nat /\ Queued(p, decoding) \in Nat
         /\ Cardinality(DSet(p)) \in Nat /\ Cardinality(VSet(p)) \in Nat
         /\ Cardinality(OSet(p)) \in Nat
         /\ Parked(p) \in {0, 1} /\ (Parked(p) = 1 <=> pk[p].verdicted = TRUE)
<1>1. IsFiniteSet(Detector) /\ IsFiniteSet(Verdicter) /\ IsFiniteSet(Outputter)
  BY DEF PacketPoolAssumption
<1>2. DSet(p) \subseteq Detector /\ VSet(p) \subseteq Verdicter /\ OSet(p) \subseteq Outputter
  BY DEF DSet, VSet, OSet
<1>3. Cardinality(DSet(p)) \in Nat /\ Cardinality(VSet(p)) \in Nat /\ Cardinality(OSet(p)) \in Nat
  BY <1>1, <1>2, FS_Subset, FS_CardinalityType
<1>4. pk[p].verdicted \in BOOLEAN
  BY DEF Typed, Kept
<1>5. Parked(p) \in {0, 1} /\ (Parked(p) = 1 <=> pk[p].verdicted = TRUE)
  BY <1>4 DEF Parked
<1> QED BY <1>3, <1>5, QueuedNat DEF Typed

LEMMA TotalIs == InOnePlace <=> \A p \in Packet : Total(p) = Target(p)
BY DEF InOnePlace, Target, Total, Travelling, InHand, DSet, VSet, OSet

LEMMA TotalIsNext == InOnePlace' <=> \A p \in Packet : Total(p)' = Target(p)'
BY DEF InOnePlace, Target, Total, Travelling, InHand, DSet, VSet, OSet

(* Where a packet is, it is not elsewhere.                                 *)
LEMMA Apart ==
  ASSUME PacketPoolAssumption, Typed, InOnePlace, NEW p \in Packet
  PROVE  /\ pool[p] \in {0, 1}
         /\ pool[p] = 1 \/ Queued(p, pickup) > 0 \/ Queued(p, verdicted) > 0
            \/ Queued(p, decoding) > 0 \/ OSet(p) # {} \/ pk[p].verdicted = TRUE
            => p \notin Extra \ alloced
         /\ Queued(p, verdicted) > 0 \/ Queued(p, decoding) > 0 \/ OSet(p) # {} \/ Resting(p)
            => pk[p].verdicted = FALSE
         /\ Queued(p, verdicted) > 0 \/ Queued(p, decoding) > 0 \/ OSet(p) # {}
            \/ pk[p].verdicted = TRUE => ~Resting(p)
         /\ Queued(p, verdicted) > 0 \/ Queued(p, decoding) > 0 \/ Resting(p)
            \/ pk[p].verdicted = TRUE => OSet(p) = {}
         /\ \A o, u \in OSet(p) : o = u
<1>1. IsFiniteSet(OSet(p))
  BY FS_Subset DEF OSet, PacketPoolAssumption
<1> DEFINE a == pool[p]                b == Queued(p, pickup)       c == Queued(p, verdicted)
           e == Queued(p, decoding)    f == Cardinality(OSet(p))    g == Parked(p)
           i == Queued(p, decoded)         j == Queued(p, inspected)    t == Target(p)
           k == Cardinality(DSet(p))       l == Cardinality(VSet(p))
<1>2. /\ f = 0 <=> OSet(p) = {}
      /\ f = 1 => \A o, u \in OSet(p) : o = u
  BY <1>1, FS_EmptySet, FS_Singleton
<1>3. /\ a \in Nat /\ b \in Nat /\ c \in Nat /\ e \in Nat /\ f \in Nat
      /\ i \in Nat /\ j \in Nat /\ k \in Nat /\ l \in Nat
  BY CountsNat
<1>4. g \in {0, 1}
  BY CountsNat
<1>5. t \in {0, 1} /\ (t = 0 <=> p \in Extra \ alloced)
  BY DEF Target
<1>6. g = 1 <=> pk[p].verdicted = TRUE
  BY CountsNat
<1>7. g = 0 <=> pk[p].verdicted = FALSE
  <2>1. pk[p].verdicted \in BOOLEAN
    BY DEF Typed, Kept
  <2> HIDE DEF g
  <2> QED BY <2>1, <1>4, <1>6
<1>8. Resting(p) <=> a > 0 \/ t = 0 \/ b > 0
  BY <1>5 DEF Resting
<1>0. a + (b + i + j + c + e + (k + l + f)) + g = t
  BY TotalIs DEF Total
<1> HIDE DEF a, b, c, e, f, g, i, j, k, l, t
<1>9. a \in {0, 1} /\ (a = 1 \/ b > 0 \/ c > 0 \/ e > 0 \/ f > 0 \/ g = 1 => t = 1)
  BY <1>0, <1>3, <1>4, <1>5
<1>10. c > 0 \/ e > 0 \/ f > 0 \/ Resting(p) => g = 0
  BY <1>0, <1>3, <1>4, <1>5, <1>8
<1>11. c > 0 \/ e > 0 \/ f > 0 \/ g = 1 => ~Resting(p)
  BY <1>0, <1>3, <1>4, <1>5, <1>8
<1>12. c > 0 \/ e > 0 \/ g = 1 \/ Resting(p) => f = 0
  BY <1>0, <1>3, <1>4, <1>5, <1>8
<1>13. f \in {0, 1} /\ (f > 0 <=> OSet(p) # {})
  BY <1>0, <1>2, <1>3, <1>4, <1>5
<1>14. \A o, u \in OSet(p) : o = u
  BY <1>2, <1>13
<1>15. pool[p] \in {0, 1}
  BY <1>9 DEF a
<1>16. pool[p] = 1 \/ Queued(p, pickup) > 0 \/ Queued(p, verdicted) > 0
       \/ Queued(p, decoding) > 0 \/ OSet(p) # {} \/ pk[p].verdicted = TRUE
       => p \notin Extra \ alloced
  BY <1>5, <1>6, <1>9, <1>13 DEF a, b, c, e
<1>17. Queued(p, verdicted) > 0 \/ Queued(p, decoding) > 0 \/ OSet(p) # {} \/ Resting(p)
       => pk[p].verdicted = FALSE
  BY <1>7, <1>10, <1>13 DEF c, e
<1>18. Queued(p, verdicted) > 0 \/ Queued(p, decoding) > 0 \/ OSet(p) # {}
       \/ pk[p].verdicted = TRUE => ~Resting(p)
  BY <1>6, <1>11, <1>13 DEF c, e
<1>19. Queued(p, verdicted) > 0 \/ Queued(p, decoding) > 0 \/ Resting(p)
       \/ pk[p].verdicted = TRUE => OSet(p) = {}
  BY <1>6, <1>12, <1>13 DEF c, e
<1> QED BY <1>14, <1>15, <1>16, <1>17, <1>18, <1>19

---------------------------------------------------------------------------
(* What several steps do: take a packet, give one back, pass one on        *)

OneLess(p) == \A q \in Packet : pool'[q] + Is(p, q) + Target(q) = pool[q] + Target(q)'
OneMoreOf(p) == \A q \in Packet : pool'[q] + Target(q) = pool[q] + Is(p, q) + Target(q)'
NoneRests == \A q \in Packet : /\ pool'[q] > 0 => pool[q] > 0
                               /\ q \in Extra \ alloced' => q \in Extra \ alloced

LEMMA Taken ==
  ASSUME PacketPoolAssumption, Typed, InOnePlace, NEW p \in Packet, GetPacket(p)
  PROVE  /\ Resting(p)
         /\ pool' \in [Packet -> Nat] /\ alloced' \subseteq Extra
         /\ OneLess(p) /\ NoneRests
<1>1. CASE p \in InPool /\ pool' = [pool EXCEPT ![p] = @ - 1] /\ UNCHANGED alloced
  <2>1. \A q \in Packet : pool'[q] = pool[q] - Is(p, q) /\ pool[q] \in Nat
    BY <1>1 DEF Typed, Is
  <2>2. \A q \in Packet : Target(q)' = Target(q) /\ Target(q) \in Nat
    BY <1>1 DEF Target
  <2>3. \A q \in Packet : Is(p, q) \in {0, 1}
    BY DEF Is
  <2>4. pool' \in [Packet -> Nat] /\ pool[p] > 0
    BY <1>1 DEF Typed, InPool
  <2>5. OneLess(p)
    BY <2>1, <2>2, <2>3 DEF OneLess
  <2>6. NoneRests
    BY <1>1, <2>1, <2>3 DEF NoneRests
  <2>7. Resting(p) /\ alloced' \subseteq Extra
    BY <1>1, <2>4 DEF Resting, Typed
  <2> QED BY <2>4, <2>5, <2>6, <2>7
<1>2. CASE p \in Extra \ alloced /\ alloced' = alloced \cup {p} /\ UNCHANGED pool
  <2>1. \A q \in Packet : Target(q)' = Target(q) + Is(p, q)
    BY <1>2 DEF Target, Is
  <2>2. \A q \in Packet : Is(p, q) \in {0, 1} /\ Target(q) \in Nat /\ pool'[q] = pool[q] /\ pool[q] \in Nat
    BY <1>2 DEF Is, Target, Typed
  <2>3. OneLess(p)
    BY <2>1, <2>2 DEF OneLess
  <2>4. pool' \in [Packet -> Nat] /\ alloced' \subseteq Extra /\ Resting(p)
    BY <1>2 DEF Typed, Resting
  <2>5. NoneRests
    BY <1>2 DEF NoneRests
  <2> QED BY <2>3, <2>4, <2>5
<1> QED BY <1>1, <1>2 DEF GetPacket

LEMMA Given ==
  ASSUME PacketPoolAssumption, Typed, NEW p \in Packet, p \notin Extra \ alloced, PutBack(p)
  PROVE  /\ pk' = [pk EXCEPT ![p] = Fresh]
         /\ pool' \in [Packet -> Nat] /\ alloced' \subseteq Extra
         /\ OneMoreOf(p)
         /\ \A q \in Packet \ {p} : pool'[q] = pool[q] /\ (q \in Extra \ alloced' <=> q \in Extra \ alloced)
<1>0. pk' = [pk EXCEPT ![p] = Fresh]
  BY DEF PutBack, Recycled
<1>1. CASE p \in Extra /\ alloced' = alloced \ {p} /\ UNCHANGED pool
  <2>1. \A q \in Packet : Target(q) = Target(q)' + Is(p, q)
    BY <1>1 DEF Target, Is
  <2>2. \A q \in Packet : Is(p, q) \in {0, 1} /\ Target(q)' \in Nat /\ pool'[q] = pool[q] /\ pool[q] \in Nat
    BY <1>1 DEF Is, Target, Typed
  <2>3. OneMoreOf(p)
    BY <2>1, <2>2 DEF OneMoreOf
  <2>4. pool' \in [Packet -> Nat] /\ alloced' \subseteq Extra
    BY <1>1 DEF Typed
  <2> QED BY <1>0, <1>1, <2>3, <2>4
<1>2. CASE p \in Pooled /\ pool' = [pool EXCEPT ![p] = @ + 1] /\ UNCHANGED alloced
  <2>1. \A q \in Packet : pool'[q] = pool[q] + Is(p, q) /\ pool[q] \in Nat
    BY <1>2 DEF Typed, Is
  <2>2. \A q \in Packet : Target(q)' = Target(q) /\ Target(q) \in Nat
    BY <1>2 DEF Target
  <2>3. \A q \in Packet : Is(p, q) \in {0, 1}
    BY DEF Is
  <2>4. OneMoreOf(p) /\ pool' \in [Packet -> Nat] /\ alloced' \subseteq Extra
    BY <1>2, <2>1, <2>2, <2>3 DEF Typed, OneMoreOf
  <2>5. \A q \in Packet \ {p} : pool'[q] = pool[q]
    BY <1>2 DEF Typed
  <2> QED BY <1>0, <1>2, <2>4, <2>5
<1> QED BY <1>1, <1>2 DEF PutBack

(* The fields that make a tunnel stay, and so do the output threads.       *)
SameTunnels ==
  /\ oreg' = oreg
  /\ \A p \in Packet : /\ pk'[p].root = pk[p].root /\ pk'[p].tunnel = pk[p].tunnel
                       /\ pk'[p].tpr = pk[p].tpr /\ pk'[p].verdicted = pk[p].verdicted

LEMMA TunnelsStay ==
  ASSUME Typed, RootInv, SameTunnels, \A p \in Packet : Resting(p)' => Resting(p),
         decoding' # <<>> => Root' \in Packet /\ pk[Root'].root = NULL
  PROVE  RootInv'
<1>1. \A r \in Packet : Unseen(r)' = Unseen(r)
  BY DEF Unseen, SameTunnels
<1>2. \A o \in Outputter : oreg[o].pc = "root" => oreg[o].p \in Packet
  BY DEF Typed, OReg
<1>3. \A o \in Outputter, r \in Packet : Returns(o, r)' <=> Returns(o, r)
  BY <1>2 DEF Returns, SameTunnels
<1>4. TunnelsOpen'
  BY DEF RootInv, TunnelsOpen, SameTunnels
<1>5. Counted' /\ RootsStay'
  BY <1>1 DEF RootInv, Counted, RootsStay, SameTunnels
<1>6. OneReturns' /\ WaitsForSome'
  BY <1>1, <1>3 DEF RootInv, OneReturns, WaitsForSome, SameTunnels
<1> QED BY <1>4, <1>5, <1>6 DEF RootInv

(* What comes out of a queue or goes into one.                             *)
LEMMA Queueing ==
  ASSUME NEW s \in Seq(Packet)
  PROVE  /\ s # <<>> => /\ Tail(s) \in Seq(Packet) /\ Head(s) \in Packet
                        /\ \A q \in Packet : Queued(q, s) = Queued(q, Tail(s)) + Is(Head(s), q)
         /\ \A x \in Packet : /\ Append(s, x) \in Seq(Packet)
                              /\ \A q \in Packet : Queued(q, Append(s, x)) = Queued(q, s) + Is(x, q)
         /\ \A q \in Packet : Queued(q, s) \in Nat
BY QueuedTail, QueuedAppend, QueuedNat

LEMMA IsOne == \A x, q : Is(x, q) \in {0, 1} /\ Is(x, x) = 1 /\ (x # q => Is(x, q) = 0)
BY DEF Is

LEMMA NothingMoves ==
  ASSUME Inv,
         UNCHANGED <<pool, alloced, pk, pickup, decoded, inspected, verdicted, decoding, detecting, vreg, oreg>>
  PROVE  Inv'
<1>1. Typed'
  BY DEF Inv, Typed
<1>2. \A q \in Packet : Total(q)' = Total(q) /\ Target(q)' = Target(q)
  BY DEF Total, Target, DSet, VSet, OSet, Parked, Queued
<1>3. InOnePlace'
  BY <1>2, TotalIs, TotalIsNext DEF Inv
<1>4. RootInv'
  BY DEF Inv, RootInv, TunnelsOpen, Counted, RootsStay, OneReturns, WaitsForSome, Resting, Root, Unseen,
         Returns
<1> QED BY <1>1, <1>3, <1>4 DEF Inv

(* A packet is passed on behind Decode1.                                   *)
LEMMA PassingOn ==
  ASSUME Typed, RootInv, UNCHANGED <<pool, alloced, pickup, decoding, oreg>>,
         \A p \in Packet : /\ pk'[p].root = pk[p].root /\ pk'[p].tunnel = pk[p].tunnel
                           /\ pk'[p].tpr = pk[p].tpr /\ pk'[p].verdicted = pk[p].verdicted
  PROVE  RootInv'
<1>1. \A q \in Packet : Resting(q)' => Resting(q)
  BY DEF Resting, Queued
<1>2. SameTunnels /\ Root' = Root
  BY DEF SameTunnels, Root
<1>3. decoding # <<>> => Root \in Packet
  BY DEF Root, Typed
<1> QED BY <1>1, <1>2, <1>3, TunnelsStay DEF RootInv, TunnelsOpen

---------------------------------------------------------------------------
(* ReceiveNFQ                                                              *)

LEMMA ReceiveWaitKeeps == ASSUME PacketPoolAssumption, Inv, ReceiveWait PROVE Inv'
BY NothingMoves DEF ReceiveWait, store, queues, decode

LEMMA ReceiveKeeps == ASSUME PacketPoolAssumption, Inv, Receive PROVE Inv'
<1>1. CASE UNCHANGED <<store, pickup, history>>
  BY <1>1, NothingMoves DEF Receive, store, decode
<1>2. ASSUME NEW p \in Packet, GetPacket(p), pickup' = Append(pickup, p)
      PROVE  Inv'
  <2>1. UNCHANGED <<pk, decoded, inspected, verdicted, decoding, detecting, vreg, oreg>>
    BY DEF Receive, decode
  <2>2. /\ Typed /\ InOnePlace /\ RootInv
        /\ pickup \in Seq(Packet)
    BY DEF Inv, Typed
  <2>3. Typed'
    BY <1>2, <2>1, <2>2, Taken DEF Typed
  <2>4. \A q \in Packet : Queued(q, pickup)' = Queued(q, pickup) + Is(p, q)
    BY <1>2, <2>2, Queueing
  <2>5. \A q \in Packet : Total(q)' = Target(q)'
    <3> TAKE q \in Packet
    <3> DEFINE a == pool[q]    b == Queued(q, pickup)    c == Queued(q, decoded)    d == Queued(q, inspected)
               e == Queued(q, verdicted)    f == Queued(q, decoding)    g == Cardinality(DSet(q))
               h == Cardinality(VSet(q))    i == Cardinality(OSet(q))   j == Parked(q)
    <3>1. /\ a \in Nat /\ b \in Nat /\ c \in Nat /\ d \in Nat /\ e \in Nat /\ f \in Nat
          /\ g \in Nat /\ h \in Nat /\ i \in Nat
      BY <2>2, CountsNat
    <3>2. j \in {0, 1} /\ Is(p, q) \in {0, 1}
      BY <2>2, CountsNat, IsOne
    <3>3. a + (b + c + d + e + f + (g + h + i)) + j = Target(q) /\ Target(q) \in {0, 1}
      BY <2>2, TotalIs DEF Total, Target
    <3>4. c' = c /\ d' = d /\ e' = e /\ f' = f /\ g' = g /\ h' = h /\ i' = i /\ j' = j
      BY <2>1 DEF DSet, OSet, Parked, Queued, VSet
    <3>5. b' = b + Is(p, q)
      BY <2>4
    <3>6. Total(q)' = a' + (b' + c' + d' + e' + f' + (g' + h' + i')) + j'
      BY DEF Total
    <3>7. a' + Is(p, q) + Target(q) = a + Target(q)' /\ a' \in Nat
      BY <1>2, <2>2, Taken DEF OneLess
    <3>8. Target(q)' \in {0, 1}
      BY DEF Target
    <3> HIDE DEF a, b, c, d, e, f, g, h, i, j
    <3> QED BY <3>1, <3>2, <3>3, <3>4, <3>5, <3>6, <3>7, <3>8
  <2>6. InOnePlace'
    BY <2>5, TotalIsNext
  <2>7. \A q \in Packet : Resting(q)' => Resting(q)
    <3> TAKE q \in Packet
    <3>1. (q # p => Is(p, q) = 0) /\ Queued(q, pickup) \in Nat
      BY <2>2, Queueing DEF Is
    <3> QED BY <1>2, <2>2, <2>4, <3>1, Taken DEF Resting, NoneRests
  <2>8. SameTunnels /\ decoding' = decoding /\ Root' = Root
    BY <2>1 DEF SameTunnels, Root
  <2>9. RootInv'
    <3>1. decoding # <<>> => Root \in Packet
      BY <2>2 DEF Root, Typed
    <3> QED BY <2>2, <2>7, <2>8, <3>1, TunnelsStay DEF RootInv, TunnelsOpen
  <2> QED BY <2>3, <2>6, <2>9 DEF Inv
<1> QED BY <1>1, <1>2 DEF Receive

---------------------------------------------------------------------------
(* Decode1                                                                 *)

LEMMA DecodeKeeps == ASSUME PacketPoolAssumption, Inv, Decode PROVE Inv'
<1> DEFINE p == Head(pickup)
<1>1. UNCHANGED <<pool, alloced, decoded, inspected, verdicted, detecting, vreg, oreg>>
  BY DEF Decode, store
<1>2. /\ Typed /\ InOnePlace /\ RootInv
      /\ pickup \in Seq(Packet) /\ decoding \in Seq(Packet) /\ pk \in [Packet -> Kept]
  BY DEF Inv, Typed
<1>3. /\ pickup # <<>> /\ decoding = <<>>
      /\ decoding' = <<p>> /\ pickup' = Tail(pickup)
  BY DEF Decode
<1>4. p \in Packet /\ Tail(pickup) \in Seq(Packet)
  BY <1>2, <1>3, Queueing
<1>5. PICK b \in FlowChoice : pk' = [pk EXCEPT ![p].flow = b]
  BY DEF Decode, TakesFlow
<1>6. \A q \in Packet : Queued(q, pickup) = Queued(q, pickup') + Is(p, q)
  BY <1>2, <1>3, Queueing
<1>7. \A q \in Packet : Queued(q, decoding') = Queued(q, decoding) + Is(p, q)
  <2> TAKE q \in Packet
  <2> HIDE DEF p
  <2>1. <<>> \in Seq(Packet) /\ Append(<<>>, p) = <<p>>
    BY <1>4
  <2>2. Queued(q, Append(<<>>, p)) = Queued(q, <<>>) + Is(p, q)
    BY <1>4, <2>1, QueuedAppend
  <2> QED BY <1>3, <2>1, <2>2
<1>8. \A q \in Packet : Queued(q, pickup') \in Nat
  BY <1>3, <1>4, QueuedNat
<1> HIDE DEF p
<1>9. b \in BOOLEAN
  BY DEF PacketPoolAssumption
<1>10. /\ pk' \in [Packet -> Kept]
       /\ \A q \in Packet : /\ pk'[q].root = pk[q].root /\ pk'[q].tunnel = pk[q].tunnel
                            /\ pk'[q].tpr = pk[q].tpr /\ pk'[q].verdicted = pk[q].verdicted
  BY <1>2, <1>4, <1>5, <1>9 DEF Kept
<1>11. Typed'
  BY <1>1, <1>2, <1>3, <1>4, <1>10 DEF Typed
<1>12. InOnePlace'
  <2>1. \A q \in Packet : Total(q)' = Target(q)'
    <3> TAKE q \in Packet
    <3> DEFINE a == pool[q]    nb == Queued(q, pickup)    c == Queued(q, decoded)    d == Queued(q, inspected)
               e == Queued(q, verdicted)    f == Queued(q, decoding)    g == Cardinality(DSet(q))
               h == Cardinality(VSet(q))    i == Cardinality(OSet(q))   j == Parked(q)
    <3>1. /\ a \in Nat /\ nb \in Nat /\ c \in Nat /\ d \in Nat /\ e \in Nat /\ f \in Nat
          /\ g \in Nat /\ h \in Nat /\ i \in Nat
      BY <1>2, CountsNat
    <3>2. j \in {0, 1} /\ Is(p, q) \in {0, 1}
      BY <1>2, CountsNat, IsOne
    <3>3. a + (nb + c + d + e + f + (g + h + i)) + j = Target(q) /\ Target(q) \in {0, 1}
      BY <1>2, TotalIs DEF Total, Target
    <3>4. c' = c /\ d' = d /\ e' = e /\ g' = g /\ h' = h /\ i' = i /\ j' = j
      BY <1>1, <1>10 DEF DSet, OSet, Parked, Queued, VSet
    <3>5. nb' = nb - Is(p, q) /\ f' = f + Is(p, q)
      BY <1>2, <1>6, <1>7, <1>8, IsOne
    <3>6. Total(q)' = a' + (nb' + c' + d' + e' + f' + (g' + h' + i')) + j'
      BY DEF Total
    <3>7. a' = a /\ Target(q)' = Target(q)
      BY <1>1, <1>10 DEF Target
    <3>8. Target(q)' \in {0, 1}
      BY DEF Target
    <3> HIDE DEF a, nb, c, d, e, f, g, h, i, j
    <3> QED BY <3>1, <3>2, <3>3, <3>4, <3>5, <3>6, <3>7, <3>8
  <2> QED BY <2>1, TotalIsNext
<1>13. RootInv'
  <2>1. \A q \in Packet : Resting(q)' => Resting(q)
    <3> TAKE q \in Packet
    <3>1. Queued(q, pickup') > 0 => Queued(q, pickup) > 0
      BY <1>6, <1>8, IsOne
    <3> QED BY <1>1, <3>1 DEF Resting
  <2>2. SameTunnels
    BY <1>1, <1>10 DEF SameTunnels
  <2>3. Resting(p)
    <3>1. Queued(p, pickup) > 0
      BY <1>4, <1>6, <1>8, IsOne
    <3> QED BY <3>1 DEF Resting
  <2>4. Root' = p
    BY <1>3 DEF Root
  <2>5. pk[p].root = NULL
    BY <1>2, <1>4, <2>3 DEF RootInv, TunnelsOpen
  <2> QED BY <1>2, <1>4, <2>1, <2>2, <2>4, <2>5, TunnelsStay
<1> QED BY <1>11, <1>12, <1>13 DEF Inv

LEMMA DecodeOutKeeps == ASSUME PacketPoolAssumption, Inv, DecodeOut PROVE Inv'
<1> DEFINE p == Head(decoding)
<1>1. UNCHANGED <<pool, alloced, pk, pickup, inspected, verdicted, detecting, vreg, oreg>>
  BY DEF DecodeOut, store
<1>2. /\ Typed /\ InOnePlace /\ RootInv
      /\ decoded \in Seq(Packet) /\ decoding \in Seq(Packet)
  BY DEF Inv, Typed
<1>3. decoding # <<>> /\ decoding' = Tail(decoding) /\ decoded' = Append(decoded, p)
  BY DEF DecodeOut
<1>4. p \in Packet /\ decoding' \in Seq(Packet) /\ decoded' \in Seq(Packet)
  BY <1>2, <1>3, Queueing
<1>5. \A q \in Packet : Queued(q, decoding) = Queued(q, decoding') + Is(p, q)
  BY <1>2, <1>3, Queueing
<1>6. \A q \in Packet : Queued(q, decoded') = Queued(q, decoded) + Is(p, q)
  BY <1>2, <1>3, <1>4, Queueing
<1>7. \A q \in Packet : Queued(q, decoding') \in Nat
  BY <1>4, QueuedNat
<1>8. decoding' # <<>> => Root' = Root /\ Root \in Packet
  BY <1>2, <1>3 DEF Root
<1> HIDE DEF p
<1>9. Typed'
  BY <1>1, <1>2, <1>4 DEF Typed
<1>10. InOnePlace'
  <2>1. \A q \in Packet : Total(q)' = Target(q)'
    <3> TAKE q \in Packet
    <3> DEFINE a == pool[q]    b == Queued(q, pickup)    c == Queued(q, decoded)    d == Queued(q, inspected)
               e == Queued(q, verdicted)    f == Queued(q, decoding)    g == Cardinality(DSet(q))
               h == Cardinality(VSet(q))    i == Cardinality(OSet(q))   j == Parked(q)
    <3>1. /\ a \in Nat /\ b \in Nat /\ c \in Nat /\ d \in Nat /\ e \in Nat /\ f \in Nat
          /\ g \in Nat /\ h \in Nat /\ i \in Nat
      BY <1>2, CountsNat
    <3>2. j \in {0, 1} /\ Is(p, q) \in {0, 1}
      BY <1>2, CountsNat, IsOne
    <3>3. a + (b + c + d + e + f + (g + h + i)) + j = Target(q) /\ Target(q) \in {0, 1}
      BY <1>2, TotalIs DEF Total, Target
    <3>4. b' = b /\ d' = d /\ e' = e /\ g' = g /\ h' = h /\ i' = i /\ j' = j
      BY <1>1 DEF DSet, OSet, Parked, Queued, VSet
    <3>5. f' = f - Is(p, q) /\ c' = c + Is(p, q)
      BY <1>5, <1>6, <1>7, IsOne
    <3>6. Total(q)' = a' + (b' + c' + d' + e' + f' + (g' + h' + i')) + j'
      BY DEF Total
    <3>7. a' = a /\ Target(q)' = Target(q)
      BY <1>1 DEF Target
    <3>8. Target(q)' \in {0, 1}
      BY DEF Target
    <3> HIDE DEF a, b, c, d, e, f, g, h, i, j
    <3> QED BY <3>1, <3>2, <3>3, <3>4, <3>5, <3>6, <3>7, <3>8
  <2> QED BY <2>1, TotalIsNext
<1>11. RootInv'
  <2>1. \A q \in Packet : Resting(q)' => Resting(q)
    BY <1>1 DEF Resting, Queued
  <2>2. SameTunnels
    BY <1>1 DEF SameTunnels
  <2> QED BY <1>2, <1>3, <1>8, <2>1, <2>2, TunnelsStay DEF RootInv, TunnelsOpen
<1> QED BY <1>9, <1>10, <1>11 DEF Inv

---------------------------------------------------------------------------
(* Detect and VerdictNFQ                                                   *)

(* One thread takes a packet or lets go of it.                             *)
LEMMA DetectorMoves ==
  ASSUME PacketPoolAssumption, NEW d \in Detector, NEW q,
         \A e \in Detector : e # d => detecting'[e] = detecting[e]
  PROVE  /\ Cardinality(DSet(q))' + Is(detecting[d], q) = Cardinality(DSet(q)) + Is(detecting'[d], q)
         /\ Cardinality(DSet(q))' \in Nat /\ Cardinality(DSet(q)) \in Nat
<1>1. IsFiniteSet(Detector)
  BY DEF PacketPoolAssumption
<1>2. DSet(q) \in SUBSET Detector /\ DSet(q)' \in SUBSET Detector
  BY DEF DSet
<1>3. \A e \in Detector : e # d => (e \in DSet(q) <=> e \in DSet(q)')
  BY DEF DSet
<1>4. In(d, DSet(q)) = Is(detecting[d], q) /\ In(d, DSet(q)') = Is(detecting'[d], q)
  BY DEF In, Is, DSet
<1>5. /\ Cardinality(DSet(q)) \in Nat /\ Cardinality(DSet(q)') \in Nat
      /\ Cardinality(DSet(q)') + In(d, DSet(q)) = Cardinality(DSet(q)) + In(d, DSet(q)')
  BY <1>1, <1>2, <1>3, HandsMove
<1> QED BY <1>4, <1>5

LEMMA VerdicterMoves ==
  ASSUME PacketPoolAssumption, NEW v \in Verdicter, NEW q,
         \A e \in Verdicter : e # v => vreg'[e] = vreg[e]
  PROVE  /\ Cardinality(VSet(q))' + Is(vreg[v].p, q) = Cardinality(VSet(q)) + Is(vreg'[v].p, q)
         /\ Cardinality(VSet(q))' \in Nat /\ Cardinality(VSet(q)) \in Nat
<1>1. IsFiniteSet(Verdicter)
  BY DEF PacketPoolAssumption
<1>2. VSet(q) \in SUBSET Verdicter /\ VSet(q)' \in SUBSET Verdicter
  BY DEF VSet
<1>3. \A e \in Verdicter : e # v => (e \in VSet(q) <=> e \in VSet(q)')
  BY DEF VSet
<1>4. In(v, VSet(q)) = Is(vreg[v].p, q) /\ In(v, VSet(q)') = Is(vreg'[v].p, q)
  BY DEF In, Is, VSet
<1>5. /\ Cardinality(VSet(q)) \in Nat /\ Cardinality(VSet(q)') \in Nat
      /\ Cardinality(VSet(q)') + In(v, VSet(q)) = Cardinality(VSet(q)) + In(v, VSet(q)')
  BY <1>1, <1>2, <1>3, HandsMove
<1> QED BY <1>4, <1>5

LEMMA OutputterMoves ==
  ASSUME PacketPoolAssumption, NEW o \in Outputter, NEW q,
         \A e \in Outputter : e # o => oreg'[e] = oreg[e]
  PROVE  /\ Cardinality(OSet(q))' + Is(oreg[o].p, q) = Cardinality(OSet(q)) + Is(oreg'[o].p, q)
         /\ Cardinality(OSet(q))' \in Nat /\ Cardinality(OSet(q)) \in Nat
<1>1. IsFiniteSet(Outputter)
  BY DEF PacketPoolAssumption
<1>2. OSet(q) \in SUBSET Outputter /\ OSet(q)' \in SUBSET Outputter
  BY DEF OSet
<1>3. \A e \in Outputter : e # o => (e \in OSet(q) <=> e \in OSet(q)')
  BY DEF OSet
<1>4. In(o, OSet(q)) = Is(oreg[o].p, q) /\ In(o, OSet(q)') = Is(oreg'[o].p, q)
  BY DEF In, Is, OSet
<1>5. /\ Cardinality(OSet(q)) \in Nat /\ Cardinality(OSet(q)') \in Nat
      /\ Cardinality(OSet(q)') + In(o, OSet(q)) = Cardinality(OSet(q)) + In(o, OSet(q)')
  BY <1>1, <1>2, <1>3, HandsMove
<1> QED BY <1>4, <1>5

LEMMA DetectInKeeps == ASSUME PacketPoolAssumption, Inv, NEW d \in Detector, DetectIn(d) PROVE Inv'
<1> DEFINE p == Head(decoded)
<1>1. UNCHANGED <<pool, alloced, pk, pickup, inspected, verdicted, decoding, vreg, oreg>>
  BY DEF DetectIn, store, decode
<1>2. /\ Typed /\ InOnePlace /\ RootInv
      /\ decoded \in Seq(Packet) /\ decoding \in Seq(Packet)
      /\ detecting \in [Detector -> Packet \cup {NULL}]
  BY DEF Inv, Typed
<1>3. /\ decoded # <<>> /\ decoded' = Tail(decoded)
      /\ detecting[d] = NULL /\ detecting' = [detecting EXCEPT ![d] = p]
  BY DEF DetectIn
<1>4. p \in Packet /\ decoded' \in Seq(Packet)
  BY <1>2, <1>3, Queueing
<1>5. \A q \in Packet : Queued(q, decoded) = Queued(q, decoded') + Is(p, q)
  BY <1>2, <1>3, Queueing
<1>6. \A q \in Packet : Queued(q, decoded') \in Nat
  BY <1>4, QueuedNat
<1> HIDE DEF p
<1>7. /\ detecting' \in [Detector -> Packet \cup {NULL}] /\ detecting'[d] = p
      /\ \A e \in Detector : e # d => detecting'[e] = detecting[e]
  BY <1>2, <1>3, <1>4
<1>8. \A q \in Packet : Is(NULL, q) = 0
  BY DEF Is, PacketPoolAssumption
<1>9. \A q \in Packet : /\ Cardinality(DSet(q))' = Cardinality(DSet(q)) + Is(p, q)
                        /\ Cardinality(DSet(q))' \in Nat
  BY <1>3, <1>7, <1>8, DetectorMoves, IsOne
<1>10. Typed'
  BY <1>1, <1>2, <1>4, <1>7 DEF Typed
<1>11. InOnePlace'
  <2>1. \A q \in Packet : Total(q)' = Target(q)'
    <3> TAKE q \in Packet
    <3> DEFINE a == pool[q]    b == Queued(q, pickup)    c == Queued(q, decoded)    nd == Queued(q, inspected)
               e == Queued(q, verdicted)    f == Queued(q, decoding)    g == Cardinality(DSet(q))
               h == Cardinality(VSet(q))    i == Cardinality(OSet(q))   j == Parked(q)
    <3>1. /\ a \in Nat /\ b \in Nat /\ c \in Nat /\ nd \in Nat /\ e \in Nat /\ f \in Nat
          /\ g \in Nat /\ h \in Nat /\ i \in Nat
      BY <1>2, CountsNat
    <3>2. j \in {0, 1} /\ Is(p, q) \in {0, 1}
      BY <1>2, CountsNat, IsOne
    <3>3. a + (b + c + nd + e + f + (g + h + i)) + j = Target(q) /\ Target(q) \in {0, 1}
      BY <1>2, TotalIs DEF Total, Target
    <3>4. b' = b /\ nd' = nd /\ e' = e /\ f' = f /\ h' = h /\ i' = i /\ j' = j
      BY <1>1 DEF OSet, Parked, Queued, VSet
    <3>5. c' = c - Is(p, q) /\ g' = g + Is(p, q)
      BY <1>5, <1>6, <1>9, IsOne
    <3>6. Total(q)' = a' + (b' + c' + nd' + e' + f' + (g' + h' + i')) + j'
      BY DEF Total
    <3>7. a' = a /\ Target(q)' = Target(q)
      BY <1>1 DEF Target
    <3>8. Target(q)' \in {0, 1}
      BY DEF Target
    <3> HIDE DEF a, b, c, nd, e, f, g, h, i, j
    <3> QED BY <3>1, <3>2, <3>3, <3>4, <3>5, <3>6, <3>7, <3>8
  <2> QED BY <2>1, TotalIsNext
<1>12. RootInv'
  BY <1>1, <1>2, PassingOn
<1> QED BY <1>10, <1>11, <1>12 DEF Inv

LEMMA DetectOutKeeps == ASSUME PacketPoolAssumption, Inv, NEW d \in Detector, DetectOut(d) PROVE Inv'
<1> DEFINE p == detecting[d]
<1>1. UNCHANGED <<pool, alloced, pk, pickup, decoded, verdicted, decoding, vreg, oreg>>
  BY DEF DetectOut, store, decode
<1>2. /\ Typed /\ InOnePlace /\ RootInv
      /\ inspected \in Seq(Packet) /\ decoding \in Seq(Packet)
      /\ detecting \in [Detector -> Packet \cup {NULL}]
  BY DEF Inv, Typed
<1>3. /\ p # NULL /\ inspected' = Append(inspected, p) /\ detecting' = [detecting EXCEPT ![d] = NULL]
  BY DEF DetectOut
<1>4. p \in Packet
  BY <1>2, <1>3
<1>5. inspected' \in Seq(Packet) /\ \A q \in Packet : Queued(q, inspected') = Queued(q, inspected) + Is(p, q)
  BY <1>2, <1>3, <1>4, Queueing
<1>6. /\ detecting' \in [Detector -> Packet \cup {NULL}] /\ detecting'[d] = NULL
      /\ \A e \in Detector : e # d => detecting'[e] = detecting[e]
  BY <1>2, <1>3
<1>7. \A q \in Packet : Is(NULL, q) = 0
  BY DEF Is, PacketPoolAssumption
<1>8. \A q \in Packet : /\ Cardinality(DSet(q))' = Cardinality(DSet(q)) - Is(p, q)
                        /\ Cardinality(DSet(q))' \in Nat
  BY <1>6, <1>7, DetectorMoves, IsOne
<1> HIDE DEF p
<1>9. Typed'
  BY <1>1, <1>2, <1>5, <1>6 DEF Typed
<1>10. InOnePlace'
  <2>1. \A q \in Packet : Total(q)' = Target(q)'
    <3> TAKE q \in Packet
    <3> DEFINE a == pool[q]    b == Queued(q, pickup)    c == Queued(q, decoded)    nd == Queued(q, inspected)
               e == Queued(q, verdicted)    f == Queued(q, decoding)    g == Cardinality(DSet(q))
               h == Cardinality(VSet(q))    i == Cardinality(OSet(q))   j == Parked(q)
    <3>1. /\ a \in Nat /\ b \in Nat /\ c \in Nat /\ nd \in Nat /\ e \in Nat /\ f \in Nat
          /\ g \in Nat /\ h \in Nat /\ i \in Nat
      BY <1>2, CountsNat
    <3>2. j \in {0, 1} /\ Is(p, q) \in {0, 1}
      BY <1>2, CountsNat, IsOne
    <3>3. a + (b + c + nd + e + f + (g + h + i)) + j = Target(q) /\ Target(q) \in {0, 1}
      BY <1>2, TotalIs DEF Total, Target
    <3>4. b' = b /\ c' = c /\ e' = e /\ f' = f /\ h' = h /\ i' = i /\ j' = j
      BY <1>1 DEF OSet, Parked, Queued, VSet
    <3>5. g' = g - Is(p, q) /\ nd' = nd + Is(p, q)
      BY <1>5, <1>8
    <3>6. Total(q)' = a' + (b' + c' + nd' + e' + f' + (g' + h' + i')) + j'
      BY DEF Total
    <3>7. a' = a /\ Target(q)' = Target(q)
      BY <1>1 DEF Target
    <3>8. Target(q)' \in {0, 1}
      BY DEF Target
    <3> HIDE DEF a, b, c, nd, e, f, g, h, i, j
    <3> QED BY <3>1, <3>2, <3>3, <3>4, <3>5, <3>6, <3>7, <3>8
  <2> QED BY <2>1, TotalIsNext
<1>11. RootInv'
  BY <1>1, <1>2, PassingOn
<1> QED BY <1>9, <1>10, <1>11 DEF Inv

LEMMA VerdictInKeeps == ASSUME PacketPoolAssumption, Inv, NEW v \in Verdicter, VerdictIn(v) PROVE Inv'
<1> DEFINE p == Head(inspected)
<1>1. UNCHANGED <<pool, alloced, pk, pickup, decoded, verdicted, decoding, detecting, oreg>>
  BY DEF VerdictIn, store, decode
<1>2. /\ Typed /\ InOnePlace /\ RootInv
      /\ inspected \in Seq(Packet) /\ decoding \in Seq(Packet) /\ vreg \in [Verdicter -> VReg]
      /\ \A u \in Verdicter : vreg[u].pc = "idle" <=> vreg[u].p = NULL
  BY DEF Inv, Typed
<1>3. PICK c \in {"act", "count"} : vreg' = [vreg EXCEPT ![v] = [pc |-> c, p |-> p]]
  BY DEF VerdictIn
<1>4. inspected # <<>> /\ inspected' = Tail(inspected) /\ vreg[v].pc = "idle"
  BY DEF VerdictIn
<1>5. p \in Packet /\ inspected' \in Seq(Packet)
  BY <1>2, <1>4, Queueing
<1>6. \A q \in Packet : Queued(q, inspected) = Queued(q, inspected') + Is(p, q)
  BY <1>2, <1>4, Queueing
<1>7. \A q \in Packet : Queued(q, inspected') \in Nat
  BY <1>5, QueuedNat
<1> HIDE DEF p
<1>8. p # NULL
  BY <1>5 DEF PacketPoolAssumption
<1>9. /\ vreg[v].p = NULL /\ vreg'[v].p = p /\ vreg'[v].pc # "idle"
      /\ \A u \in Verdicter : u # v => vreg'[u] = vreg[u]
  BY <1>2, <1>3, <1>4
<1>10. vreg' \in [Verdicter -> VReg]
  BY <1>2, <1>3, <1>5 DEF VReg
<1>11. \A q \in Packet : Is(NULL, q) = 0
  BY DEF Is, PacketPoolAssumption
<1>12. \A q \in Packet : /\ Cardinality(VSet(q))' = Cardinality(VSet(q)) + Is(p, q)
                         /\ Cardinality(VSet(q))' \in Nat
  BY <1>9, <1>11, VerdicterMoves, IsOne
<1>13. Typed'
  <2>1. \A u \in Verdicter : vreg'[u].pc = "idle" <=> vreg'[u].p = NULL
    BY <1>2, <1>8, <1>9
  <2> QED BY <1>1, <1>2, <1>5, <1>10, <2>1 DEF Typed
<1>14. InOnePlace'
  <2>1. \A q \in Packet : Total(q)' = Target(q)'
    <3> TAKE q \in Packet
    <3> DEFINE a == pool[q]    b == Queued(q, pickup)    nc == Queued(q, decoded)    d == Queued(q, inspected)
               e == Queued(q, verdicted)    f == Queued(q, decoding)    g == Cardinality(DSet(q))
               h == Cardinality(VSet(q))    i == Cardinality(OSet(q))   j == Parked(q)
    <3>1. /\ a \in Nat /\ b \in Nat /\ nc \in Nat /\ d \in Nat /\ e \in Nat /\ f \in Nat
          /\ g \in Nat /\ h \in Nat /\ i \in Nat
      BY <1>2, CountsNat
    <3>2. j \in {0, 1} /\ Is(p, q) \in {0, 1}
      BY <1>2, CountsNat, IsOne
    <3>3. a + (b + nc + d + e + f + (g + h + i)) + j = Target(q) /\ Target(q) \in {0, 1}
      BY <1>2, TotalIs DEF Total, Target
    <3>4. b' = b /\ nc' = nc /\ e' = e /\ f' = f /\ g' = g /\ i' = i /\ j' = j
      BY <1>1 DEF DSet, OSet, Parked, Queued
    <3>5. d' = d - Is(p, q) /\ h' = h + Is(p, q)
      BY <1>6, <1>7, <1>12, IsOne
    <3>6. Total(q)' = a' + (b' + nc' + d' + e' + f' + (g' + h' + i')) + j'
      BY DEF Total
    <3>7. a' = a /\ Target(q)' = Target(q)
      BY <1>1 DEF Target
    <3>8. Target(q)' \in {0, 1}
      BY DEF Target
    <3> HIDE DEF a, b, nc, d, e, f, g, h, i, j
    <3> QED BY <3>1, <3>2, <3>3, <3>4, <3>5, <3>6, <3>7, <3>8
  <2> QED BY <2>1, TotalIsNext
<1>15. RootInv'
  BY <1>1, <1>2, PassingOn
<1> QED BY <1>13, <1>14, <1>15 DEF Inv

(* SetVerdict and CountReady: only rtv_cnt of the root may change.         *)
LEMMA VerdictOutKeeps ==
  ASSUME PacketPoolAssumption, Inv, NEW v \in Verdicter, VerdictOut(v), vreg[v].pc # "idle",
         pk' \in [Packet -> Kept],
         \A q \in Packet : /\ pk'[q].root = pk[q].root /\ pk'[q].tunnel = pk[q].tunnel
                           /\ pk'[q].tpr = pk[q].tpr /\ pk'[q].verdicted = pk[q].verdicted
  PROVE  Inv'
<1> DEFINE p == vreg[v].p
<1>1. UNCHANGED <<pool, alloced, pickup, decoded, inspected, decoding, detecting, oreg>>
  BY DEF VerdictOut, store, decode
<1>2. /\ Typed /\ InOnePlace /\ RootInv
      /\ verdicted \in Seq(Packet) /\ decoding \in Seq(Packet) /\ vreg \in [Verdicter -> VReg]
      /\ \A u \in Verdicter : vreg[u].pc = "idle" <=> vreg[u].p = NULL
  BY DEF Inv, Typed
<1>3. verdicted' = Append(verdicted, p) /\ vreg' = [vreg EXCEPT ![v] = Idle]
  BY DEF VerdictOut
<1>4. p \in Packet
  BY <1>2 DEF VReg
<1>5. verdicted' \in Seq(Packet) /\ \A q \in Packet : Queued(q, verdicted') = Queued(q, verdicted) + Is(p, q)
  BY <1>2, <1>3, <1>4, Queueing
<1>6. /\ vreg' \in [Verdicter -> VReg] /\ vreg'[v].p = NULL /\ vreg'[v].pc = "idle"
      /\ \A u \in Verdicter : u # v => vreg'[u] = vreg[u]
  BY <1>2, <1>3 DEF VReg, Idle
<1>7. \A q \in Packet : Is(NULL, q) = 0
  BY DEF Is, PacketPoolAssumption
<1>8. \A q \in Packet : /\ Cardinality(VSet(q))' = Cardinality(VSet(q)) - Is(p, q)
                        /\ Cardinality(VSet(q))' \in Nat
  BY <1>6, <1>7, VerdicterMoves, IsOne
<1> HIDE DEF p
<1>9. Typed'
  <2>1. \A u \in Verdicter : vreg'[u].pc = "idle" <=> vreg'[u].p = NULL
    BY <1>2, <1>6
  <2> QED BY <1>1, <1>2, <1>5, <1>6, <2>1 DEF Typed
<1>10. InOnePlace'
  <2>1. \A q \in Packet : Total(q)' = Target(q)'
    <3> TAKE q \in Packet
    <3> DEFINE a == pool[q]    b == Queued(q, pickup)    c == Queued(q, decoded)    d == Queued(q, inspected)
               e == Queued(q, verdicted)    f == Queued(q, decoding)    g == Cardinality(DSet(q))
               h == Cardinality(VSet(q))    i == Cardinality(OSet(q))   j == Parked(q)
    <3>1. /\ a \in Nat /\ b \in Nat /\ c \in Nat /\ d \in Nat /\ e \in Nat /\ f \in Nat
          /\ g \in Nat /\ h \in Nat /\ i \in Nat
      BY <1>2, CountsNat
    <3>2. j \in {0, 1} /\ Is(p, q) \in {0, 1}
      BY <1>2, CountsNat, IsOne
    <3>3. a + (b + c + d + e + f + (g + h + i)) + j = Target(q) /\ Target(q) \in {0, 1}
      BY <1>2, TotalIs DEF Total, Target
    <3>4. b' = b /\ c' = c /\ d' = d /\ f' = f /\ g' = g /\ i' = i /\ j' = j
      BY <1>1 DEF DSet, OSet, Parked, Queued
    <3>5. h' = h - Is(p, q) /\ e' = e + Is(p, q)
      BY <1>5, <1>8
    <3>6. Total(q)' = a' + (b' + c' + d' + e' + f' + (g' + h' + i')) + j'
      BY DEF Total
    <3>7. a' = a /\ Target(q)' = Target(q)
      BY <1>1 DEF Target
    <3>8. Target(q)' \in {0, 1}
      BY DEF Target
    <3> HIDE DEF a, b, c, d, e, f, g, h, i, j
    <3> QED BY <3>1, <3>2, <3>3, <3>4, <3>5, <3>6, <3>7, <3>8
  <2> QED BY <2>1, TotalIsNext
<1>11. RootInv'
  BY <1>1, <1>2, PassingOn
<1> QED BY <1>9, <1>10, <1>11 DEF Inv

LEMMA VerdictKeeps ==
  ASSUME PacketPoolAssumption, Inv, NEW v \in Verdicter, SetVerdict(v) \/ CountReady(v)
  PROVE  Inv'
<1>1. pk \in [Packet -> Kept]
  BY DEF Inv, Typed
<1>2. CASE SetVerdict(v)
  BY <1>1, <1>2, VerdictOutKeeps DEF SetVerdict
<1>3. CASE CountReady(v)
  <2> DEFINE r == RootOf(vreg[v].p)
  <2>1. vreg[v].pc # "idle" /\ VerdictOut(v) /\ pk' = [pk EXCEPT ![r].rtv = @ + 1]
    BY <1>3 DEF CountReady
  <2> HIDE DEF r
  <2>2. pk' \in [Packet -> Kept]
    <3>1. r \in Packet => [pk[r] EXCEPT !.rtv = @ + 1] \in Kept
      BY <1>1 DEF Kept
    <3>2. pk' = [pk EXCEPT ![r] = [pk[r] EXCEPT !.rtv = @ + 1]]
      BY <2>1
    <3> QED BY <1>1, <3>1, <3>2
  <2>3. \A q \in Packet : /\ pk'[q].root = pk[q].root /\ pk'[q].tunnel = pk[q].tunnel
                          /\ pk'[q].tpr = pk[q].tpr /\ pk'[q].verdicted = pk[q].verdicted
    BY <1>1, <2>1 DEF Kept
  <2> QED BY <2>1, <2>2, <2>3, VerdictOutKeeps
<1> QED BY <1>2, <1>3

---------------------------------------------------------------------------
(* PacketPseudoPktSetup                                                    *)

LEMMA QueuedSome ==
  ASSUME NEW s \in Seq(Packet), NEW i \in 1 .. Len(s)
  PROVE  s[i] \in Packet /\ Queued(s[i], s) > 0
<1>1. s[i] \in Packet /\ i \in Places(s[i], s)
  BY DEF Places
<1> DEFINE S == Places(s[i], s)
<1> HIDE DEF S
<1>2. IsFiniteSet(S) /\ Queued(s[i], s) \in Nat /\ Queued(s[i], s) = Cardinality(S) /\ i \in S
  BY <1>1, QueuedNat DEF S
<1>3. Cardinality(S) # 0
  BY <1>2, FS_EmptySet
<1> QED BY <1>1, <1>2, <1>3

LEMMA UnseenFinite ==
  ASSUME PacketPoolAssumption, NEW r
  PROVE  /\ IsFiniteSet(Unseen(r)) /\ Cardinality(Unseen(r)) \in Nat
         /\ Cardinality(Unseen(r)) = 0 <=> Unseen(r) = {}
<1>1. Unseen(r) \subseteq Packet
  BY DEF Unseen
<1> QED BY <1>1, FS_Subset, FS_CardinalityType, FS_EmptySet DEF PacketPoolAssumption

LEMMA TakenIsAway ==
  ASSUME PacketPoolAssumption, Typed, InOnePlace, NEW p \in Packet, GetPacket(p)
  PROVE  pool'[p] = 0 /\ p \notin Extra \ alloced' /\ Queued(p, pickup) = 0
<1> DEFINE a == pool[p]    b == Queued(p, pickup)    c == Queued(p, decoded)    d == Queued(p, inspected)
           e == Queued(p, verdicted)    f == Queued(p, decoding)    g == Cardinality(DSet(p))
           h == Cardinality(VSet(p))    i == Cardinality(OSet(p))   j == Parked(p)
<1>1. /\ a \in Nat /\ b \in Nat /\ c \in Nat /\ d \in Nat /\ e \in Nat /\ f \in Nat
      /\ g \in Nat /\ h \in Nat /\ i \in Nat
  BY CountsNat
<1>2. j \in {0, 1}
  BY CountsNat
<1>3. a + (b + c + d + e + f + (g + h + i)) + j = Target(p)
  BY TotalIs DEF Total
<1>4. Target(p) \in {0, 1} /\ (Target(p) = 0 <=> p \in Extra \ alloced)
  BY DEF Target
<1>5. /\ a > 0 => a = 1 /\ b = 0 /\ p \notin Extra \ alloced
      /\ p \in Extra \ alloced => a = 0 /\ b = 0
  <2> HIDE DEF a, b, c, d, e, f, g, h, i, j
  <2> QED BY <1>1, <1>2, <1>3, <1>4
<1>6. CASE p \in InPool /\ pool' = [pool EXCEPT ![p] = @ - 1] /\ UNCHANGED alloced
  BY <1>5, <1>6 DEF InPool, Typed
<1>7. CASE p \in Extra \ alloced /\ alloced' = alloced \cup {p} /\ UNCHANGED pool
  BY <1>5, <1>7
<1> QED BY <1>6, <1>7 DEF GetPacket

LEMMA PseudoKeeps == ASSUME PacketPoolAssumption, Inv, Pseudo PROVE Inv'
<1>2. /\ Typed /\ InOnePlace /\ RootInv
      /\ decoding \in Seq(Packet) /\ pk \in [Packet -> Kept]
      /\ TunnelsOpen /\ Counted /\ RootsStay /\ OneReturns /\ WaitsForSome
  BY DEF Inv, Typed, RootInv
<1>3. UNCHANGED <<pickup, decoded, inspected, verdicted, detecting, vreg, oreg>> /\ decoding # <<>>
  BY DEF Pseudo, queues
<1>4. PICK r \in Packet : r = Root /\ Queued(r, decoding) > 0 /\ pk[r].root = NULL
  <2>1. Len(decoding) \in 1 .. Len(decoding)
    BY <1>2, <1>3
  <2> QED BY <1>2, <1>3, <2>1, QueuedSome DEF Root, TunnelsOpen
<1>5. PICK p \in Packet, w \in FlowChoice, k \in 1 .. Len(decoding) :
        /\ GetPacket(p) /\ decoding' = InsertAt(decoding, k, p)
        /\ pk' = [pk EXCEPT ![p] = [@ EXCEPT !.root = r, !.tunnel = TRUE, !.flow = w],
                            ![r].tunnel = TRUE, ![r].tpr = pk[r].tpr + 1]
  BY <1>4 DEF Pseudo, OneMore
<1>6. Root' = r /\ decoding' \in Seq(Packet) /\ decoding' # <<>>
  <2>1. Len(decoding') = Len(decoding) + 1 /\ decoding'[Len(decoding) + 1] = decoding[Len(decoding)]
        /\ decoding' \in Seq(Packet)
    BY <1>2, <1>5, QueuedInsertAt
  <2>2. Len(decoding) \in Nat
    BY <1>2
  <2> QED BY <1>4, <2>1, <2>2 DEF Root
<1>7. \A q \in Packet : Queued(q, decoding') = Queued(q, decoding) + Is(p, q)
  BY <1>2, <1>5, QueuedInsertAt
<1>8. /\ Resting(p) /\ NoneRests
      /\ pool' \in [Packet -> Nat] /\ alloced' \subseteq Extra
  BY <1>2, <1>5, Taken
<1>9. /\ pk[p].root = NULL /\ pk[p].tunnel = FALSE /\ pk[p].tpr = 0 /\ pk[p].verdicted = FALSE
      /\ OSet(p) = {}
  BY <1>2, <1>8, Apart DEF TunnelsOpen
<1>10. pk[r].verdicted = FALSE /\ OSet(r) = {} /\ ~Resting(r) /\ p # r
  BY <1>2, <1>4, <1>8, Apart
<1>11. w \in BOOLEAN /\ NULL \notin Packet
  BY DEF PacketPoolAssumption
<1>12. pk[p] \in Kept /\ pk[r] \in Kept
  BY <1>2
<1>13. /\ pk'[p] = [pk[p] EXCEPT !.root = r, !.tunnel = TRUE, !.flow = w]
       /\ pk'[r] = [pk[r] EXCEPT !.tunnel = TRUE, !.tpr = pk[r].tpr + 1]
       /\ \A q \in Packet : q # p /\ q # r => pk'[q] = pk[q]
       /\ pk' = [q \in Packet |-> pk'[q]]
  BY <1>2, <1>5, <1>10
<1>14. /\ pk'[p].root = r /\ pk'[p].tunnel = TRUE /\ pk'[p].tpr = 0 /\ pk'[p].verdicted = FALSE
       /\ pk'[p] \in Kept
  BY <1>9, <1>11, <1>12, <1>13 DEF Kept
<1>15. /\ pk'[r].root = NULL /\ pk'[r].tunnel = TRUE /\ pk'[r].tpr = pk[r].tpr + 1
       /\ pk'[r].verdicted = FALSE /\ pk'[r] \in Kept
  <2>1. pk[r].tpr \in Nat
    BY <1>12 DEF Kept
  <2>2. [pk[r] EXCEPT !.tunnel = TRUE, !.tpr = pk[r].tpr + 1] \in Kept
    <3> DEFINE t == [pk[r] EXCEPT !.tunnel = TRUE]
               n == pk[r].tpr + 1
    <3>1. t \in Kept
      BY <1>12 DEF Kept
    <3>2. n \in Nat
      BY <2>1
    <3> HIDE DEF t, n
    <3>3. [t EXCEPT !.tpr = n] \in Kept
      BY <3>1, <3>2 DEF Kept
    <3>4. [pk[r] EXCEPT !.tunnel = TRUE, !.tpr = n] = [t EXCEPT !.tpr = n]
      BY <1>12 DEF t, Kept
    <3> QED BY <3>3, <3>4 DEF n
  <2> QED BY <1>4, <1>10, <1>12, <1>13, <2>2 DEF Kept
<1>16. pk' \in [Packet -> Kept]
  <2>1. \A q \in Packet : pk'[q] \in Kept
    BY <1>2, <1>13, <1>14, <1>15
  <2> QED BY <1>13, <2>1
<1>17. Typed'
  BY <1>2, <1>3, <1>6, <1>8, <1>16 DEF Typed
<1>18. InOnePlace'
  <2>1. \A q \in Packet : Parked(q)' = Parked(q)
    BY <1>9, <1>10, <1>13, <1>14, <1>15 DEF Parked
  <2>2. \A q \in Packet : Total(q)' = Target(q)'
    <3> TAKE q \in Packet
    <3> DEFINE a == pool[q]    b == Queued(q, pickup)    c == Queued(q, decoded)    d == Queued(q, inspected)
               e == Queued(q, verdicted)    f == Queued(q, decoding)    g == Cardinality(DSet(q))
               h == Cardinality(VSet(q))    i == Cardinality(OSet(q))   j == Parked(q)
    <3>1. /\ a \in Nat /\ b \in Nat /\ c \in Nat /\ d \in Nat /\ e \in Nat /\ f \in Nat
          /\ g \in Nat /\ h \in Nat /\ i \in Nat
      BY <1>2, CountsNat
    <3>2. j \in {0, 1} /\ Is(p, q) \in {0, 1}
      BY <1>2, CountsNat, IsOne
    <3>3. a + (b + c + d + e + f + (g + h + i)) + j = Target(q) /\ Target(q) \in {0, 1}
      BY <1>2, TotalIs DEF Total, Target
    <3>4. b' = b /\ c' = c /\ d' = d /\ e' = e /\ g' = g /\ h' = h /\ i' = i /\ j' = j
      BY <1>3, <2>1 DEF DSet, OSet, Parked, Queued, VSet
    <3>5. f' = f + Is(p, q)
      BY <1>7
    <3>6. Total(q)' = a' + (b' + c' + d' + e' + f' + (g' + h' + i')) + j'
      BY DEF Total
    <3>7. a' + Is(p, q) + Target(q) = a + Target(q)' /\ a' \in Nat
      BY <1>2, <1>5, <1>8, Taken DEF OneLess
    <3>8. Target(q)' \in {0, 1}
      BY DEF Target
    <3> DEFINE m == b + c + d + e + f + (g + h + i)    x == Is(p, q)    y == Target(q)
    <3> HIDE DEF a, b, c, d, e, f, g, h, i, j
    <3>9. m \in Nat /\ m' = m + x
      BY <3>1, <3>2, <3>4, <3>5
    <3>10. Total(q)' = a' + m' + j
      BY <3>4, <3>6
    <3>11. a \in Int /\ a' \in Int /\ j \in Int /\ x \in Int /\ y \in Int /\ y' \in Int /\ m \in Int
      BY <3>1, <3>2, <3>3, <3>7, <3>8, <3>9
    <3>12. a + m + j = y /\ a' + x + y = a + y'
      BY <3>3, <3>7
    <3> DEFINE n == m + j    u == a' + x + n
    <3> HIDE DEF m, x, y
    <3>13. n \in Int /\ y = a + n
      BY <3>11, <3>12
    <3> HIDE DEF n
    <3>14. u \in Int /\ a + u = a' + x + (a + n)
      BY <3>11, <3>13
    <3> HIDE DEF u
    <3>15. a + u = a + y'
      BY <3>12, <3>13, <3>14
    <3>16. u = y'
      BY <3>11, <3>14, <3>15, Cancel
    <3>17. Total(q)' = u
      BY <3>9, <3>10, <3>11 DEF n, u
    <3> QED BY <3>16, <3>17 DEF y
  <2> QED BY <2>2, TotalIsNext
<1>19. /\ \A q \in Packet : q # p => pk'[q].root = pk[q].root
       /\ \A o \in Outputter : oreg[o].p # p
  BY <1>4, <1>9, <1>13, <1>15 DEF OSet
<1>20. /\ \A x \in Packet : x # r => Unseen(x)' = Unseen(x)
       /\ p \notin Unseen(r) /\ Unseen(r)' = Unseen(r) \cup {p}
  <2>1. \A x \in Packet, q \in Packet : q # p => (q \in Unseen(x)' <=> q \in Unseen(x))
    BY <1>3, <1>19 DEF Unseen
  <2>2. \A x \in Packet : p \notin Unseen(x)
    BY <1>9, <1>11 DEF Unseen
  <2>3. \A x \in Packet : p \in Unseen(x)' <=> x = r
    BY <1>3, <1>14, <1>19 DEF Unseen
  <2>4. \A x \in Packet : Unseen(x) \subseteq Packet /\ Unseen(x)' \subseteq Packet
    BY DEF Unseen
  <2>5. \A x \in Packet : x # r => Unseen(x)' = Unseen(x)
    BY <2>1, <2>2, <2>3, <2>4
  <2>6. Unseen(r)' = Unseen(r) \cup {p}
    BY <2>1, <2>3, <2>4
  <2> QED BY <2>2, <2>5, <2>6
<1>21. TunnelsOpen'
  <2>1. ~Resting(p)'
    <3>1. pool'[p] = 0 /\ p \notin Extra \ alloced' /\ Queued(p, pickup) = 0
      BY <1>2, <1>5, TakenIsAway
    <3> QED BY <1>3, <3>1 DEF Resting
  <2>2. \A q \in Packet : Resting(q)' => Resting(q) /\ pk'[q] = pk[q]
    <3>1. \A q \in Packet : Resting(q)' => Resting(q)
      BY <1>3, <1>8 DEF Resting, NoneRests
    <3> QED BY <1>10, <1>13, <2>1, <3>1
  <2>3. \A q \in Packet : pk'[q].root # NULL => pk'[q].tunnel = TRUE /\ pk'[q].verdicted = FALSE
    <3> TAKE q \in Packet
    <3>1. CASE q = p \/ q = r
      BY <1>14, <1>15, <3>1
    <3>2. CASE q # p /\ q # r
      BY <1>2, <1>13, <3>2 DEF TunnelsOpen
    <3> QED BY <3>1, <3>2
  <2> QED BY <1>2, <1>6, <1>15, <2>2, <2>3 DEF TunnelsOpen
<1>22. Counted'
  <2> SUFFICES ASSUME NEW x \in Packet PROVE pk'[x].tpr = Cardinality(Unseen(x)')
    BY DEF Counted
  <2>1. pk[x].tpr = Cardinality(Unseen(x))
    BY <1>2 DEF Counted
  <2>2. CASE x = r
    <3>1. Cardinality(Unseen(r) \cup {p}) = Cardinality(Unseen(r)) + 1
      BY <1>20, UnseenFinite, FS_AddElement
    <3>2. Unseen(x)' = Unseen(r) \cup {p} /\ pk'[x].tpr = pk[r].tpr + 1
      BY <1>15, <1>20, <2>2
    <3> QED BY <2>1, <2>2, <3>1, <3>2
  <2>3. CASE x # r
    BY <1>9, <1>13, <1>14, <1>20, <2>1, <2>3
  <2> QED BY <2>2, <2>3
<1>23. RootsStay'
  <2> SUFFICES ASSUME NEW x \in Packet, Unseen(x)' # {}
               PROVE  pk'[x].tunnel = TRUE /\ pk'[x].root = NULL /\ \A o \in Outputter : oreg'[o].p # x
    BY DEF RootsStay
  <2>1. CASE x = r
    BY <1>3, <1>10, <1>15, <2>1 DEF OSet
  <2>2. CASE x # r
    <3>1. pk[x].tunnel = TRUE /\ pk[x].root = NULL /\ \A o \in Outputter : oreg[o].p # x
      BY <1>2, <1>20, <2>2 DEF RootsStay
    <3> QED BY <1>3, <1>9, <1>13, <2>2, <3>1
  <2> QED BY <2>1, <2>2
<1>24. \A o \in Outputter, x \in Packet : Returns(o, x)' <=> Returns(o, x)
  <2> TAKE o \in Outputter, x \in Packet
  <2>1. oreg[o].pc = "root" => oreg[o].p \in Packet /\ oreg[o].p # p /\ oreg[o].p # r
    BY <1>2, <1>9, <1>10 DEF Typed, OReg, OSet
  <2>2. oreg[o].pc = "root" => pk'[oreg[o].p] = pk[oreg[o].p]
    BY <1>13, <2>1
  <2> QED BY <1>3, <2>2 DEF Returns
<1>25. \A x \in Packet : pk[x].verdicted = TRUE \/ pk'[x].verdicted = TRUE
                         => pk'[x] = pk[x] /\ Unseen(x)' = Unseen(x)
  BY <1>9, <1>10, <1>13, <1>14, <1>15, <1>20
<1>26. OneReturns'
  BY <1>2, <1>3, <1>24, <1>25 DEF OneReturns
<1>27. WaitsForSome'
  BY <1>2, <1>24, <1>25 DEF WaitsForSome
<1>28. RootInv'
  BY <1>21, <1>22, <1>23, <1>26, <1>27 DEF RootInv
<1> QED BY <1>17, <1>18, <1>28 DEF Inv

---------------------------------------------------------------------------
(* TmqhOutputPacketpool                                                    *)

(* A root that comes before its last child waits.                          *)
Waiting(p) ==
  /\ verdicted # <<>> /\ p = Head(verdicted) /\ verdicted' = Tail(verdicted)
  /\ Waits(p) /\ pk' = [pk EXCEPT ![p].verdicted = TRUE]
  /\ UNCHANGED <<pool, alloced, pickup, decoded, inspected, decoding, detecting, vreg, oreg>>

LEMMA RootWaits == ASSUME PacketPoolAssumption, Inv, NEW p \in Packet, Waiting(p)
  PROVE  Inv'
<1>0. /\ verdicted # <<>> /\ p = Head(verdicted) /\ verdicted' = Tail(verdicted)
      /\ UNCHANGED <<pool, alloced, pickup, decoded, inspected, decoding, detecting, vreg, oreg>>
  BY DEF Waiting
<1>1. /\ Typed /\ InOnePlace /\ RootInv
      /\ verdicted \in Seq(Packet) /\ decoding \in Seq(Packet) /\ pk \in [Packet -> Kept]
      /\ TunnelsOpen /\ Counted /\ RootsStay /\ OneReturns /\ WaitsForSome
  BY DEF Inv, Typed, RootInv
<1>2. verdicted' \in Seq(Packet) /\ \A q \in Packet : Queued(q, verdicted) = Queued(q, verdicted') + Is(p, q)
  BY <1>1, <1>0, Queueing
<1>3. \A q \in Packet : Queued(q, verdicted') \in Nat
  BY <1>2, QueuedNat
<1>4. pk[p].verdicted = FALSE /\ ~Resting(p)
  <2>1. Queued(p, verdicted) > 0
    BY <1>2, <1>3, IsOne
  <2> QED BY <1>1, <2>1, Apart
<1>5. pk[p].root = NULL /\ pk[p].tpr # 0
  BY DEF Waiting, Waits
<1>6. /\ pk' \in [Packet -> Kept] /\ pk'[p].verdicted = TRUE
      /\ \A q \in Packet : /\ pk'[q].root = pk[q].root /\ pk'[q].tunnel = pk[q].tunnel
                           /\ pk'[q].tpr = pk[q].tpr /\ (q # p => pk'[q].verdicted = pk[q].verdicted)
  <2>1. pk[p] \in Kept
    BY <1>1
  <2>2. [pk[p] EXCEPT !.verdicted = TRUE] \in Kept
    BY <2>1 DEF Kept
  <2>3. pk' = [pk EXCEPT ![p] = [pk[p] EXCEPT !.verdicted = TRUE]]
    BY DEF Waiting
  <2>4. pk' \in [Packet -> Kept]
    BY <1>1, <2>2, <2>3
  <2>5. pk'[p] = [pk[p] EXCEPT !.verdicted = TRUE] /\ \A q \in Packet : q # p => pk'[q] = pk[q]
    BY <1>1, <2>3
  <2>6. /\ pk'[p].root = pk[p].root /\ pk'[p].tunnel = pk[p].tunnel /\ pk'[p].tpr = pk[p].tpr
        /\ pk'[p].verdicted = TRUE
    BY <2>1, <2>5 DEF Kept
  <2> QED BY <2>4, <2>5, <2>6
<1>7. Typed'
  BY <1>0, <1>1, <1>2, <1>6 DEF Typed
<1>8. InOnePlace'
  <2>1. \A q \in Packet : Parked(q)' = Parked(q) + Is(p, q)
    <3> TAKE q \in Packet
    <3>1. CASE q = p
      BY <1>4, <1>6, <3>1, IsOne DEF Parked
    <3>2. CASE q # p
      BY <1>6, <3>2, IsOne DEF Parked
    <3> QED BY <3>1, <3>2
  <2>2. \A q \in Packet : Total(q)' = Target(q)'
    <3> TAKE q \in Packet
    <3> DEFINE a == pool[q]    b == Queued(q, pickup)    c == Queued(q, decoded)    d == Queued(q, inspected)
               e == Queued(q, verdicted)    f == Queued(q, decoding)    g == Cardinality(DSet(q))
               h == Cardinality(VSet(q))    i == Cardinality(OSet(q))   j == Parked(q)
    <3>1. /\ a \in Nat /\ b \in Nat /\ c \in Nat /\ d \in Nat /\ e \in Nat /\ f \in Nat
          /\ g \in Nat /\ h \in Nat /\ i \in Nat
      BY <1>1, CountsNat
    <3>2. j \in {0, 1} /\ Is(p, q) \in {0, 1}
      BY <1>1, CountsNat, IsOne
    <3>3. a + (b + c + d + e + f + (g + h + i)) + j = Target(q) /\ Target(q) \in Int
      BY <1>1, TotalIs DEF Total, Target
    <3>4. b' = b /\ c' = c /\ d' = d /\ f' = f /\ g' = g /\ h' = h /\ i' = i
      BY <1>0 DEF DSet, OSet, Queued, VSet
    <3>5. e' = e - Is(p, q) /\ j' = j + Is(p, q)
      BY <1>2, <1>3, <2>1, IsOne
    <3>6. Total(q)' = a' + (b' + c' + d' + e' + f' + (g' + h' + i')) + j'
      BY DEF Total
    <3>7. a' = a /\ Target(q)' = Target(q)
      BY <1>0 DEF Target
    <3>8. Target(q)' \in Int
      BY DEF Target
    <3> HIDE DEF a, b, c, d, e, f, g, h, i, j
    <3>9. Total(q)' = a + (b + c + d + e - Is(p, q) + f + (g + h + i)) + (j + Is(p, q))
      BY <3>4, <3>5, <3>6, <3>7
    <3>10. Total(q)' = Target(q)
      BY <3>1, <3>2, <3>3, <3>9
    <3> QED BY <3>7, <3>10
  <2> QED BY <2>2, TotalIsNext
<1>9. /\ \A x \in Packet : Unseen(x)' = Unseen(x)
      /\ \A q \in Packet : Resting(q)' <=> Resting(q)
      /\ Root' = Root
  BY <1>0, <1>6 DEF Unseen, Resting, Queued, Root
<1>10. TunnelsOpen'
  <2>1. \A q \in Packet : Resting(q)' => q # p
    BY <1>4, <1>9
  <2>2. decoding # <<>> => Root \in Packet
    BY <1>1 DEF Root
  <2> QED BY <1>0, <1>1, <1>5, <1>6, <1>9, <2>1, <2>2 DEF TunnelsOpen
<1>11. Counted' /\ RootsStay'
  <2>1. Counted'
    BY <1>0, <1>1, <1>6, <1>9 DEF Counted
  <2>2. RootsStay'
    BY <1>0, <1>1, <1>6, <1>9 DEF RootsStay
  <2> QED BY <2>1, <2>2
<1>12. \A o \in Outputter, x \in Packet : Returns(o, x)' <=> Returns(o, x)
  <2>1. \A o \in Outputter : oreg[o].pc = "root" => oreg[o].p \in Packet
    BY <1>1 DEF Typed, OReg
  <2> QED BY <1>0, <1>6, <2>1 DEF Returns
<1>13. OneReturns'
  BY <1>0, <1>1, <1>6, <1>9, <1>12 DEF OneReturns
<1>14. WaitsForSome'
  <2>1. Unseen(p) # {}
    BY <1>0, <1>1, <1>5, UnseenFinite DEF Counted
  <2> QED BY <1>0, <1>1, <1>6, <1>9, <1>12, <2>1 DEF WaitsForSome
<1> QED BY <1>7, <1>8, <1>10, <1>11, <1>13, <1>14 DEF Inv, RootInv

(* Any other packet is taken to be returned.  What the thread takes.       *)
Takes(o, p, w) ==
  /\ verdicted # <<>> /\ p = Head(verdicted) /\ verdicted' = Tail(verdicted)
  /\ oreg[o].pc = "idle" /\ oreg' = [oreg EXCEPT ![o] = [pc |-> w, p |-> p]]
  /\ pk' \in [Packet -> Kept] /\ \A q \in Packet : pk'[q].verdicted = pk[q].verdicted
  /\ UNCHANGED <<pool, alloced, pickup, decoded, inspected, decoding, detecting, vreg>>

LEMMA TakesOut ==
  ASSUME PacketPoolAssumption, Inv, NEW o \in Outputter, NEW p \in Packet, NEW w \in {"root", "self"},
         Takes(o, p, w)
  PROVE  /\ Typed' /\ InOnePlace'
         /\ pk[p].verdicted = FALSE /\ ~Resting(p) /\ OSet(p) = {}
         /\ oreg'[o].pc = w /\ oreg'[o].p = p /\ \A u \in Outputter : u # o => oreg'[u] = oreg[u]
<1>0. /\ verdicted # <<>> /\ p = Head(verdicted) /\ verdicted' = Tail(verdicted)
      /\ oreg[o].pc = "idle" /\ oreg' = [oreg EXCEPT ![o] = [pc |-> w, p |-> p]]
      /\ pk' \in [Packet -> Kept] /\ \A q \in Packet : pk'[q].verdicted = pk[q].verdicted
      /\ UNCHANGED <<pool, alloced, pickup, decoded, inspected, decoding, detecting, vreg>>
  BY DEF Takes
<1>1. /\ Typed /\ InOnePlace /\ verdicted \in Seq(Packet) /\ oreg \in [Outputter -> OReg]
      /\ \A u \in Outputter : oreg[u].pc = "idle" <=> oreg[u].p = NULL
  BY DEF Inv, Typed
<1>2. verdicted' \in Seq(Packet) /\ \A q \in Packet : Queued(q, verdicted) = Queued(q, verdicted') + Is(p, q)
  BY <1>1, <1>0, Queueing
<1>3. \A q \in Packet : Queued(q, verdicted') \in Nat
  BY <1>2, QueuedNat
<1>4. pk[p].verdicted = FALSE /\ ~Resting(p) /\ OSet(p) = {}
  <2>1. Queued(p, verdicted) > 0
    BY <1>2, <1>3, IsOne
  <2> QED BY <1>1, <2>1, Apart
<1>5. /\ oreg'[o].pc = w /\ oreg'[o].p = p /\ \A u \in Outputter : u # o => oreg'[u] = oreg[u]
      /\ oreg' \in [Outputter -> OReg]
  BY <1>0, <1>1 DEF OReg
<1>6. oreg[o].p = NULL /\ p # NULL
  BY <1>0, <1>1 DEF PacketPoolAssumption
<1>7. \A q \in Packet : Is(NULL, q) = 0
  BY DEF Is, PacketPoolAssumption
<1>8. \A q \in Packet : /\ Cardinality(OSet(q))' = Cardinality(OSet(q)) + Is(p, q)
                        /\ Cardinality(OSet(q))' \in Nat
  BY <1>5, <1>6, <1>7, OutputterMoves, IsOne
<1>9. \A q \in Packet : /\ Queued(q, verdicted)' = Queued(q, verdicted) - Is(p, q)
                        /\ Cardinality(OSet(q))' = Cardinality(OSet(q)) + Is(p, q)
  <2> TAKE q \in Packet
  <2>1. /\ Queued(q, verdicted) = Queued(q, verdicted') + Is(p, q)
        /\ Queued(q, verdicted') \in Nat /\ Is(p, q) \in Int
    BY <1>2, <1>3, IsOne
  <2>2. Queued(q, verdicted') = Queued(q, verdicted) - Is(p, q)
    BY <2>1
  <2> QED BY <1>8, <2>2
<1>10. Typed'
  <2>1. \A u \in Outputter : oreg'[u].pc = "idle" <=> oreg'[u].p = NULL
    BY <1>1, <1>5, <1>6
  <2> QED BY <1>0, <1>1, <1>2, <1>5, <2>1 DEF Typed
<1>11. \A q \in Packet : Parked(q)' = Parked(q)
  BY <1>0 DEF Parked
<1>12. InOnePlace'
  <2>1. \A q \in Packet : Total(q)' = Target(q)'
    <3> TAKE q \in Packet
    <3> DEFINE a == pool[q]    b == Queued(q, pickup)    c == Queued(q, decoded)    d == Queued(q, inspected)
               e == Queued(q, verdicted)    f == Queued(q, decoding)    g == Cardinality(DSet(q))
               h == Cardinality(VSet(q))    i == Cardinality(OSet(q))   j == Parked(q)
    <3>1. /\ a \in Nat /\ b \in Nat /\ c \in Nat /\ d \in Nat /\ e \in Nat /\ f \in Nat
          /\ g \in Nat /\ h \in Nat /\ i \in Nat
      BY <1>1, CountsNat
    <3>2. j \in {0, 1} /\ Is(p, q) \in {0, 1}
      BY <1>1, CountsNat, IsOne
    <3>3. a + (b + c + d + e + f + (g + h + i)) + j = Target(q) /\ Target(q) \in Int
      BY <1>1, TotalIs DEF Total, Target
    <3>4. b' = b /\ c' = c /\ d' = d /\ f' = f /\ g' = g /\ h' = h /\ j' = j
      BY <1>0, <1>11 DEF DSet, Parked, Queued, VSet
    <3>5. e' = e - Is(p, q) /\ i' = i + Is(p, q)
      BY <1>9
    <3>6. Total(q)' = a' + (b' + c' + d' + e' + f' + (g' + h' + i')) + j'
      BY DEF Total
    <3>7. a' = a /\ Target(q)' = Target(q)
      BY <1>0, <1>11 DEF Target
    <3>8. Target(q)' \in Int
      BY DEF Target
    <3> HIDE DEF a, b, c, d, e, f, g, h, i, j
    <3>9. Total(q)' = a + (b + c + d + e - Is(p, q) + f + (g + h + (i + Is(p, q)))) + j
      BY <3>4, <3>5, <3>6, <3>7
    <3>10. Total(q)' = Target(q)
      BY <3>1, <3>2, <3>3, <3>9
    <3> QED BY <3>7, <3>10
  <2> QED BY <2>1, TotalIsNext
<1> QED BY <1>4, <1>5, <1>10, <1>12

(* A packet without a root, of which no child is to come.                  *)
LEMMA TakesRoot ==
  ASSUME PacketPoolAssumption, Inv, NEW o \in Outputter, NEW p \in Packet, Takes(o, p, "self"),
         ~Waits(p), pk[p].root = NULL, pk' = pk
  PROVE  Inv'
<1>1. /\ Typed /\ InOnePlace /\ RootInv /\ decoding \in Seq(Packet) /\ pk \in [Packet -> Kept]
      /\ TunnelsOpen /\ Counted /\ RootsStay /\ OneReturns /\ WaitsForSome
  BY DEF Inv, Typed, RootInv
<1>2. /\ Typed' /\ InOnePlace'
      /\ oreg'[o].pc = "self" /\ oreg'[o].p = p /\ \A u \in Outputter : u # o => oreg'[u] = oreg[u]
  BY TakesOut
<1>3. oreg[o].pc = "idle" /\ oreg[o].p = NULL /\ UNCHANGED <<pool, alloced, pickup, decoding>>
  BY <1>1 DEF Takes, Typed
<1>4. NULL \notin Packet
  BY DEF PacketPoolAssumption
<1>5. \A x \in Packet : Unseen(x)' = Unseen(x)
  <2>1. \A q \in Packet : (\A u \in Outputter : oreg'[u].p # q) <=> q # p /\ \A u \in Outputter : oreg[u].p # q
    BY <1>2, <1>3, <1>4
  <2>2. \A x \in Packet : p \notin Unseen(x)
    BY <1>4 DEF Unseen
  <2>3. \A x \in Packet, q \in Packet : q \in Unseen(x)' <=> q \in Unseen(x) /\ q # p
    BY <2>1 DEF Unseen
  <2>4. \A x \in Packet : Unseen(x) \subseteq Packet /\ Unseen(x)' \subseteq Packet
    BY DEF Unseen
  <2> QED BY <2>2, <2>3, <2>4
<1>6. Unseen(p) = {}
  <2>1. CASE pk[p].tunnel = TRUE
    <3>1. pk[p].tpr = 0
      BY <2>1 DEF Waits
    <3> QED BY <1>1, <3>1, UnseenFinite DEF Counted
  <2>2. CASE pk[p].tunnel # TRUE
    BY <1>1, <2>2 DEF RootsStay
  <2> QED BY <2>1, <2>2
<1>7. TunnelsOpen'
  <2>1. (\A q \in Packet : Resting(q)' <=> Resting(q)) /\ Root' = Root
    BY <1>3 DEF Resting, Queued, Root
  <2> QED BY <1>1, <1>3, <2>1 DEF TunnelsOpen
<1>8. Counted'
  BY <1>1, <1>5 DEF Counted
<1>9. RootsStay'
  BY <1>1, <1>2, <1>5, <1>6 DEF RootsStay
<1>10. \A u \in Outputter, x \in Packet : Returns(u, x)' <=> Returns(u, x)
  BY <1>2, <1>3 DEF Returns
<1>11. OneReturns' /\ WaitsForSome'
  <2>1. \A u \in Outputter : oreg'[u].pc = "root" <=> oreg[u].pc = "root"
    BY <1>2, <1>3
  <2>2. OneReturns'
    BY <1>1, <1>5, <1>10, <2>1 DEF OneReturns
  <2>3. WaitsForSome'
    BY <1>1, <1>5, <1>10 DEF WaitsForSome
  <2> QED BY <2>2, <2>3
<1> QED BY <1>2, <1>7, <1>8, <1>9, <1>11 DEF Inv, RootInv

(* A child: its root has one child less to come, and the last one of a     *)
(* waiting root is the one that returns it.                                *)
OfRoot(p, r, w) ==
  /\ pk[p].root = r /\ pk' = [pk EXCEPT ![r].tpr = pk[r].tpr - 1]
  /\ w = "root" <=> pk[r].verdicted = TRUE /\ pk[r].tpr = 1

LEMMA TakesChild ==
  ASSUME PacketPoolAssumption, Inv, NEW o \in Outputter, NEW p \in Packet, NEW w \in {"root", "self"},
         NEW r \in Packet, Takes(o, p, w), OfRoot(p, r, w)
  PROVE  Inv'
<1>0. /\ pk[p].root = r /\ pk' = [pk EXCEPT ![r].tpr = pk[r].tpr - 1]
      /\ w = "root" <=> pk[r].verdicted = TRUE /\ pk[r].tpr = 1
  BY DEF OfRoot
<1>1. /\ Typed /\ InOnePlace /\ RootInv /\ decoding \in Seq(Packet) /\ pk \in [Packet -> Kept]
      /\ TunnelsOpen /\ Counted /\ RootsStay /\ OneReturns /\ WaitsForSome
  BY DEF Inv, Typed, RootInv
<1>2. /\ Typed' /\ InOnePlace' /\ OSet(p) = {} /\ ~Resting(p)
      /\ oreg'[o].pc = w /\ oreg'[o].p = p /\ \A u \in Outputter : u # o => oreg'[u] = oreg[u]
  <2>1. CASE w = "root"
    <3>1. Takes(o, p, "root")
      BY <2>1
    <3> QED BY <3>1, <2>1, TakesOut
  <2>2. CASE w = "self"
    <3>1. Takes(o, p, "self")
      BY <2>2
    <3> QED BY <3>1, <2>2, TakesOut
  <2> QED BY <2>1, <2>2
<1>3. oreg[o].pc = "idle" /\ oreg[o].p = NULL /\ UNCHANGED <<pool, alloced, pickup, decoding>>
  BY <1>1 DEF Takes, Typed
<1>4. NULL \notin Packet
  BY DEF PacketPoolAssumption
<1>5. p \in Unseen(r)
  BY <1>0, <1>2 DEF Unseen, OSet
<1>6. /\ pk[r].root = NULL /\ pk[r].tunnel = TRUE /\ p # r /\ Unseen(p) = {}
      /\ \A u \in Outputter : oreg[u].p # r
  BY <1>0, <1>1, <1>4, <1>5 DEF RootsStay
<1>7. pk[r] \in Kept /\ pk[r].tpr = Cardinality(Unseen(r))
  BY <1>1 DEF Counted
<1>8. /\ \A q \in Packet : /\ pk'[q].root = pk[q].root /\ pk'[q].tunnel = pk[q].tunnel
                           /\ pk'[q].verdicted = pk[q].verdicted /\ (q # r => pk'[q] = pk[q])
      /\ pk'[r].tpr = pk[r].tpr - 1
  <2>1. pk' = [pk EXCEPT ![r] = [pk[r] EXCEPT !.tpr = pk[r].tpr - 1]]
    BY <1>0
  <2>2. pk'[r] = [pk[r] EXCEPT !.tpr = pk[r].tpr - 1] /\ \A q \in Packet : q # r => pk'[q] = pk[q]
    BY <1>1, <2>1
  <2>3. /\ pk'[r].root = pk[r].root /\ pk'[r].tunnel = pk[r].tunnel
        /\ pk'[r].verdicted = pk[r].verdicted /\ pk'[r].tpr = pk[r].tpr - 1
    BY <1>7, <2>2 DEF Kept
  <2> QED BY <2>2, <2>3
<1>9. /\ \A x \in Packet : x # r => Unseen(x)' = Unseen(x)
      /\ Unseen(r)' = Unseen(r) \ {p}
  <2>1. \A q \in Packet : (\A u \in Outputter : oreg'[u].p # q) <=> q # p /\ \A u \in Outputter : oreg[u].p # q
    BY <1>2, <1>3, <1>4
  <2>2. \A x \in Packet : x # r => p \notin Unseen(x)
    BY <1>0 DEF Unseen
  <2>3. \A x \in Packet, q \in Packet : q \in Unseen(x)' <=> q \in Unseen(x) /\ q # p
    BY <1>8, <2>1 DEF Unseen
  <2>4. \A x \in Packet : Unseen(x) \subseteq Packet /\ Unseen(x)' \subseteq Packet
    BY DEF Unseen
  <2>5. \A x \in Packet : x # r => Unseen(x)' = Unseen(x)
    BY <2>2, <2>3, <2>4
  <2>6. Unseen(r)' = Unseen(r) \ {p}
    BY <2>3, <2>4
  <2> QED BY <2>5, <2>6
<1>10. Cardinality(Unseen(r)') = pk[r].tpr - 1 /\ pk[r].tpr \in Nat \ {0}
  <2>1. Cardinality(Unseen(r) \ {p}) = Cardinality(Unseen(r)) - 1
    BY <1>5, UnseenFinite, FS_RemoveElement
  <2> QED BY <1>5, <1>7, <1>9, <2>1, UnseenFinite
<1>11. Unseen(r)' = {} <=> pk[r].tpr = 1
  <2>1. IsFiniteSet(Unseen(r)')
    BY <1>9, UnseenFinite, FS_Subset
  <2> QED BY <1>10, <2>1, FS_EmptySet
<1>12. TunnelsOpen'
  <2>1. (\A q \in Packet : Resting(q)' <=> Resting(q)) /\ Root' = Root
    BY <1>3 DEF Resting, Queued, Root
  <2>2. decoding # <<>> => Root \in Packet
    BY <1>1 DEF Root
  <2>3. ~Resting(r)
    BY <1>1, <1>6 DEF TunnelsOpen
  <2> QED BY <1>1, <1>3, <1>8, <2>1, <2>2, <2>3 DEF TunnelsOpen
<1>13. Counted'
  <2> SUFFICES ASSUME NEW x \in Packet PROVE pk'[x].tpr = Cardinality(Unseen(x)')
    BY DEF Counted
  <2>1. CASE x = r
    BY <1>8, <1>10, <2>1
  <2>2. CASE x # r
    BY <1>1, <1>8, <1>9, <2>2 DEF Counted
  <2> QED BY <2>1, <2>2
<1>14. RootsStay'
  <2> SUFFICES ASSUME NEW x \in Packet, Unseen(x)' # {}
               PROVE  pk'[x].tunnel = TRUE /\ pk'[x].root = NULL /\ \A u \in Outputter : oreg'[u].p # x
    BY DEF RootsStay
  <2>1. Unseen(x) # {}
    BY <1>5, <1>9
  <2>2. pk[x].tunnel = TRUE /\ pk[x].root = NULL /\ \A u \in Outputter : oreg[u].p # x
    BY <1>1, <2>1 DEF RootsStay
  <2> QED BY <1>2, <1>6, <1>8, <2>1, <2>2
<1>15. \A u \in Outputter, x \in Packet : u # o => (Returns(u, x)' <=> Returns(u, x))
  <2>1. \A u \in Outputter : oreg[u].pc = "root" => oreg[u].p \in Packet
    BY <1>1 DEF Typed, OReg
  <2> QED BY <1>2, <1>8, <2>1 DEF Returns
<1>16. \A x \in Packet : /\ Returns(o, x)' <=> w = "root" /\ x = r
                         /\ ~Returns(o, x)
  BY <1>0, <1>2, <1>3, <1>8 DEF Returns
<1>17. \A u \in Outputter : ~Returns(u, r)
  <2> SUFFICES ASSUME NEW u \in Outputter, Returns(u, r) PROVE FALSE
    OBVIOUS
  <2>1. \E x \in Packet : Returns(u, x) /\ Unseen(x) = {}
    BY <1>1 DEF OneReturns, Returns
  <2> QED BY <1>5, <2>1 DEF Returns
<1>18. OneReturns'
  <2> SUFFICES ASSUME NEW u \in Outputter, oreg'[u].pc = "root"
               PROVE  \E x \in Packet : /\ Returns(u, x)' /\ pk'[x].verdicted = TRUE /\ Unseen(x)' = {}
                                        /\ \A z \in Outputter : Returns(z, x)' => z = u
    BY DEF OneReturns
  <2>1. CASE u = o
    <3>1. w = "root"
      BY <1>2, <2>1
    <3>2. Returns(u, r)' /\ pk'[r].verdicted = TRUE /\ Unseen(r)' = {}
      BY <1>0, <1>8, <1>11, <1>16, <2>1, <3>1
    <3>3. \A z \in Outputter : Returns(z, r)' => z = u
      BY <1>15, <1>17, <2>1
    <3> QED BY <3>2, <3>3
  <2>2. CASE u # o
    <3>1. oreg[u].pc = "root"
      BY <1>2, <2>2
    <3>2. PICK x \in Packet : /\ Returns(u, x) /\ pk[x].verdicted = TRUE /\ Unseen(x) = {}
                              /\ \A z \in Outputter : Returns(z, x) => z = u
      BY <1>1, <3>1 DEF OneReturns
    <3>3. x # r
      BY <1>5, <3>2
    <3>4. Returns(u, x)' /\ pk'[x].verdicted = TRUE /\ Unseen(x)' = {}
      BY <1>8, <1>9, <1>15, <2>2, <3>2, <3>3
    <3>5. \A z \in Outputter : Returns(z, x)' => z = u
      BY <1>15, <1>16, <3>2, <3>3
    <3> QED BY <3>4, <3>5
  <2> QED BY <2>1, <2>2
<1>19. WaitsForSome'
  <2> SUFFICES ASSUME NEW x \in Packet, pk'[x].verdicted = TRUE, Unseen(x)' = {}
               PROVE  \E u \in Outputter : Returns(u, x)'
    BY DEF WaitsForSome
  <2>1. CASE x = r
    <3>1. w = "root"
      BY <1>0, <1>8, <1>11, <2>1
    <3> QED BY <1>16, <2>1, <3>1
  <2>2. CASE x # r
    <3>1. PICK u \in Outputter : Returns(u, x)
      BY <1>1, <1>8, <1>9, <2>2 DEF WaitsForSome
    <3> QED BY <1>15, <1>16, <3>1
  <2> QED BY <2>1, <2>2
<1> QED BY <1>2, <1>12, <1>13, <1>14, <1>18, <1>19 DEF Inv, RootInv

LEMMA OutputInKeeps == ASSUME PacketPoolAssumption, Inv, NEW o \in Outputter, OutputIn(o) PROVE Inv'
<1>1. /\ verdicted \in Seq(Packet) /\ pk \in [Packet -> Kept] /\ NULL \notin Packet
      /\ TunnelsOpen /\ Counted /\ RootsStay
  BY DEF Inv, Typed, RootInv, PacketPoolAssumption
<1>2. /\ verdicted # <<>> /\ verdicted' = Tail(verdicted) /\ oreg[o].pc = "idle"
      /\ UNCHANGED <<pool, alloced, pickup, decoded, inspected, decoding, detecting, vreg>>
  BY DEF OutputIn, store, decode
<1>3. PICK p \in Packet : p = Head(verdicted)
  BY <1>1, <1>2, Queueing
<1>4. pk[p] \in Kept
  BY <1>1
<1>5. CASE Waits(p)
  <2>1. pk' = [pk EXCEPT ![p].verdicted = TRUE] /\ UNCHANGED oreg
    BY <1>3, <1>5 DEF OutputIn
  <2>2. Waiting(p)
    BY <1>2, <1>3, <1>5, <2>1 DEF Waiting
  <2> QED BY <2>2, RootWaits
<1>6. CASE ~Waits(p)
  <2>1. /\ pk' = IF IsChild(p) THEN [pk EXCEPT ![pk[p].root].tpr = @ - 1] ELSE pk
        /\ oreg' = [oreg EXCEPT ![o] = [pc |-> IF LastOfRoot(p) THEN "root" ELSE "self", p |-> p]]
    BY <1>3, <1>6 DEF OutputIn
  <2>2. CASE pk[p].root = NULL
    <3>1. ~IsChild(p) /\ ~LastOfRoot(p)
      BY <2>2 DEF IsChild, LastOfRoot
    <3>2. pk' = pk /\ oreg' = [oreg EXCEPT ![o] = [pc |-> "self", p |-> p]]
      BY <2>1, <3>1
    <3>3. Takes(o, p, "self")
      BY <1>1, <1>2, <1>3, <3>2 DEF Takes
    <3> QED BY <1>6, <2>2, <3>2, <3>3, TakesRoot
  <2>3. CASE pk[p].root # NULL
    <3>1. PICK r \in Packet : pk[p].root = r
      BY <1>4, <2>3 DEF Kept
    <3>2. IsChild(p)
      BY <1>1, <2>3 DEF IsChild, TunnelsOpen
    <3>3. pk[r] \in Kept
      BY <1>1
    <3>4. pk[r].verdicted \in BOOLEAN /\ pk[r].tpr \in Nat
      BY <3>3 DEF Kept
    <3>5. PICK w \in {"root", "self"} : /\ w = IF LastOfRoot(p) THEN "root" ELSE "self"
                                        /\ oreg' = [oreg EXCEPT ![o] = [pc |-> w, p |-> p]]
      BY <2>1
    <3>6. w = "root" <=> pk[r].verdicted = TRUE /\ pk[r].tpr = 1
      BY <3>1, <3>2, <3>4, <3>5 DEF LastOfRoot
    <3>7. pk' = [pk EXCEPT ![r].tpr = pk[r].tpr - 1]
      BY <2>1, <3>1, <3>2
    <3>8. pk[r].tpr - 1 \in Nat
      <4>1. Unseen(r) # {}
        <5>1. OSet(p) = {}
          <6>1. Queued(p, verdicted) > 0
            BY <1>1, <1>2, <1>3, QueuedSome
          <6> QED BY <6>1, Apart DEF Inv
        <5> QED BY <3>1, <5>1 DEF Unseen, OSet
      <4> QED BY <1>1, <3>4, <4>1, UnseenFinite DEF Counted
    <3>9. pk' \in [Packet -> Kept] /\ \A q \in Packet : pk'[q].verdicted = pk[q].verdicted
      <4> DEFINE n == pk[r].tpr - 1
      <4>1. n \in Nat
        BY <3>8
      <4>2. pk' = [pk EXCEPT ![r] = [pk[r] EXCEPT !.tpr = n]]
        BY <3>7
      <4> HIDE DEF n
      <4>3. [pk[r] EXCEPT !.tpr = n] \in Kept /\ [pk[r] EXCEPT !.tpr = n].verdicted = pk[r].verdicted
        BY <3>3, <4>1 DEF Kept
      <4> QED BY <1>1, <4>2, <4>3
    <3>10. Takes(o, p, w)
      BY <1>2, <1>3, <3>5, <3>9 DEF Takes
    <3>11. OfRoot(p, r, w)
      BY <3>1, <3>6, <3>7 DEF OfRoot
    <3> QED BY <3>10, <3>11, TakesChild
  <2> QED BY <2>2, <2>3
<1> QED BY <1>5, <1>6

LEMMA OutputRootKeeps == ASSUME PacketPoolAssumption, Inv, NEW o \in Outputter, OutputRoot(o) PROVE Inv'
<1>1. /\ Typed /\ InOnePlace /\ RootInv /\ decoding \in Seq(Packet) /\ pk \in [Packet -> Kept]
      /\ TunnelsOpen /\ Counted /\ RootsStay /\ OneReturns /\ WaitsForSome
      /\ oreg \in [Outputter -> OReg] /\ \A u \in Outputter : oreg[u].pc = "idle" <=> oreg[u].p = NULL
  BY DEF Inv, Typed, RootInv
<1>2. /\ oreg[o].pc = "root" /\ oreg' = [oreg EXCEPT ![o].pc = "self"] /\ PutBack(pk[oreg[o].p].root)
      /\ UNCHANGED <<pickup, decoded, inspected, verdicted, decoding, detecting, vreg>>
  BY DEF OutputRoot, queues, decode
<1>3. PICK r \in Packet : /\ Returns(o, r) /\ pk[r].verdicted = TRUE /\ Unseen(r) = {}
                          /\ \A u \in Outputter : Returns(u, r) => u = o
  BY <1>1, <1>2 DEF OneReturns
<1>4. PutBack(r)
  BY <1>2, <1>3 DEF Returns
<1>5. r \notin Extra \ alloced /\ OSet(r) = {}
  BY <1>1, <1>3, Apart
<1>6. /\ pk' = [pk EXCEPT ![r] = Fresh]
      /\ pool' \in [Packet -> Nat] /\ alloced' \subseteq Extra /\ OneMoreOf(r)
      /\ \A q \in Packet \ {r} : pool'[q] = pool[q] /\ (q \in Extra \ alloced' <=> q \in Extra \ alloced)
  BY <1>1, <1>4, <1>5, Given
<1>7. /\ pk' \in [Packet -> Kept] /\ pk'[r] = Fresh /\ \A q \in Packet : q # r => pk'[q] = pk[q]
  <2>1. Fresh \in Kept
    BY DEF Fresh, Kept
  <2> QED BY <1>1, <1>6, <2>1
<1>8. /\ pk'[r].root = NULL /\ pk'[r].tunnel = FALSE /\ pk'[r].tpr = 0 /\ pk'[r].verdicted = FALSE
      /\ pk[r].root = NULL
  BY <1>1, <1>3, <1>7 DEF Fresh, TunnelsOpen
<1>9. /\ oreg' \in [Outputter -> OReg] /\ oreg'[o].pc = "self" /\ oreg'[o].p = oreg[o].p
      /\ \A u \in Outputter : u # o => oreg'[u] = oreg[u]
  <2>1. oreg[o] \in OReg
    BY <1>1
  <2>2. [oreg[o] EXCEPT !.pc = "self"] \in OReg
    BY <2>1 DEF OReg
  <2>3. oreg' = [oreg EXCEPT ![o] = [oreg[o] EXCEPT !.pc = "self"]]
    BY <1>2
  <2>4. oreg' \in [Outputter -> OReg]
    BY <1>1, <2>2, <2>3
  <2>5. oreg'[o] = [oreg[o] EXCEPT !.pc = "self"] /\ \A u \in Outputter : u # o => oreg'[u] = oreg[u]
    BY <1>1, <2>3
  <2>6. oreg'[o].pc = "self" /\ oreg'[o].p = oreg[o].p
    BY <2>1, <2>5 DEF OReg
  <2> QED BY <2>4, <2>5, <2>6
<1>10. \A u \in Outputter : oreg'[u].p = oreg[u].p
  BY <1>9
<1>11. Typed'
  <2>1. \A u \in Outputter : oreg'[u].pc = "idle" <=> oreg'[u].p = NULL
    BY <1>1, <1>2, <1>9
  <2> QED BY <1>1, <1>2, <1>6, <1>7, <1>9, <2>1 DEF Typed
<1>12. InOnePlace'
  <2>1. \A q \in Packet : Parked(q)' = Parked(q) - Is(r, q)
    <3> TAKE q \in Packet
    <3>1. CASE q = r
      BY <1>3, <1>8, <3>1, IsOne DEF Parked
    <3>2. CASE q # r
      <4>1. Parked(q)' = Parked(q) /\ Is(r, q) = 0 /\ Parked(q) \in {0, 1}
        BY <1>1, <1>7, <3>2, IsOne, CountsNat DEF Parked
      <4> QED BY <4>1
    <3> QED BY <3>1, <3>2
  <2>2. \A q \in Packet : OSet(q)' = OSet(q)
    BY <1>10 DEF OSet
  <2>3. \A q \in Packet : Total(q)' = Target(q)'
    <3> TAKE q \in Packet
    <3> DEFINE a == pool[q]    b == Queued(q, pickup)    c == Queued(q, decoded)    d == Queued(q, inspected)
               e == Queued(q, verdicted)    f == Queued(q, decoding)    g == Cardinality(DSet(q))
               h == Cardinality(VSet(q))    i == Cardinality(OSet(q))   j == Parked(q)
    <3>1. /\ a \in Nat /\ b \in Nat /\ c \in Nat /\ d \in Nat /\ e \in Nat /\ f \in Nat
          /\ g \in Nat /\ h \in Nat /\ i \in Nat
      BY <1>1, CountsNat
    <3>2. j \in {0, 1} /\ Is(r, q) \in {0, 1}
      BY <1>1, CountsNat, IsOne
    <3>3. a + (b + c + d + e + f + (g + h + i)) + j = Target(q) /\ Target(q) \in Int
      BY <1>1, TotalIs DEF Total, Target
    <3>4. b' = b /\ c' = c /\ d' = d /\ e' = e /\ f' = f /\ g' = g /\ h' = h /\ i' = i
      BY <1>2, <2>2 DEF DSet, OSet, Queued, VSet
    <3>5. j' = j - Is(r, q)
      BY <2>1
    <3>6. Total(q)' = a' + (b' + c' + d' + e' + f' + (g' + h' + i')) + j'
      BY DEF Total
    <3>7. a' + Target(q) = a + Is(r, q) + Target(q)' /\ a' \in Nat
      BY <1>6 DEF OneMoreOf
    <3>8. Target(q)' \in Int
      BY DEF Target
    <3> HIDE DEF a, b, c, d, e, f, g, h, i, j
    <3>9. Total(q)' = a' + (b + c + d + e + f + (g + h + i)) + j - Is(r, q)
      BY <3>4, <3>5, <3>6
    <3>10. Target(q)' = a' - Is(r, q) + Target(q) - a
      BY <3>1, <3>2, <3>3, <3>7, <3>8
    <3>11. Total(q)' = a' - Is(r, q) + Target(q) - a
      BY <3>1, <3>2, <3>3, <3>7, <3>9
    <3> QED BY <3>10, <3>11
  <2> QED BY <2>3, TotalIsNext
<1>13. \A x \in Packet : Unseen(x)' = Unseen(x)
  <2>1. \A q \in Packet : pk'[q].root = pk[q].root
    BY <1>7, <1>8
  <2> QED BY <1>10, <2>1 DEF Unseen
<1>14. TunnelsOpen'
  <2>1. \A q \in Packet : q # r => (Resting(q)' <=> Resting(q))
    BY <1>2, <1>6 DEF Resting, Queued
  <2>2. Root' = Root /\ decoding' = decoding /\ (decoding # <<>> => Root \in Packet)
    BY <1>1, <1>2 DEF Root
  <2>3. \A q \in Packet : Resting(q)' => /\ pk'[q].root = NULL /\ pk'[q].tunnel = FALSE
                                         /\ pk'[q].tpr = 0 /\ pk'[q].verdicted = FALSE
    BY <1>1, <1>7, <1>8, <2>1 DEF TunnelsOpen
  <2>4. decoding # <<>> => pk'[Root].root = NULL
    BY <1>1, <1>7, <1>8, <2>2 DEF TunnelsOpen
  <2>5. \A q \in Packet : pk'[q].root # NULL => pk'[q].tunnel = TRUE /\ pk'[q].verdicted = FALSE
    BY <1>1, <1>7, <1>8 DEF TunnelsOpen
  <2> QED BY <2>2, <2>3, <2>4, <2>5 DEF TunnelsOpen
<1>15. Counted'
  <2> SUFFICES ASSUME NEW x \in Packet PROVE pk'[x].tpr = Cardinality(Unseen(x)')
    BY DEF Counted
  <2>1. CASE x = r
    BY <1>3, <1>8, <1>13, <2>1, FS_EmptySet
  <2>2. CASE x # r
    BY <1>1, <1>7, <1>13, <2>2 DEF Counted
  <2> QED BY <2>1, <2>2
<1>16. RootsStay'
  <2> SUFFICES ASSUME NEW x \in Packet, Unseen(x)' # {}
               PROVE  pk'[x].tunnel = TRUE /\ pk'[x].root = NULL /\ \A u \in Outputter : oreg'[u].p # x
    BY DEF RootsStay
  <2>1. Unseen(x) # {} /\ x # r
    BY <1>3, <1>13
  <2> QED BY <1>1, <1>7, <1>10, <2>1 DEF RootsStay
<1>17. /\ \A u \in Outputter, x \in Packet : u # o => (Returns(u, x)' <=> Returns(u, x))
       /\ \A x \in Packet : ~Returns(o, x)' /\ (Returns(o, x) => x = r)
  <2>1. \A u \in Outputter : oreg[u].pc = "root" => oreg[u].p \in Packet /\ oreg[u].p # r
    BY <1>1, <1>5 DEF OReg, OSet
  <2>2. \A u \in Outputter : oreg[u].pc = "root" => pk'[oreg[u].p] = pk[oreg[u].p]
    BY <1>7, <2>1
  <2> QED BY <1>3, <1>9, <2>2 DEF Returns
<1>18. OneReturns'
  <2> SUFFICES ASSUME NEW u \in Outputter, oreg'[u].pc = "root"
               PROVE  \E x \in Packet : /\ Returns(u, x)' /\ pk'[x].verdicted = TRUE /\ Unseen(x)' = {}
                                        /\ \A z \in Outputter : Returns(z, x)' => z = u
    BY DEF OneReturns
  <2>1. u # o /\ oreg[u].pc = "root"
    BY <1>9
  <2>2. PICK x \in Packet : /\ Returns(u, x) /\ pk[x].verdicted = TRUE /\ Unseen(x) = {}
                            /\ \A z \in Outputter : Returns(z, x) => z = u
    BY <1>1, <2>1 DEF OneReturns
  <2>3. x # r
    BY <1>3, <2>1, <2>2
  <2> QED BY <1>7, <1>13, <1>17, <2>1, <2>2, <2>3
<1>19. WaitsForSome'
  <2> SUFFICES ASSUME NEW x \in Packet, pk'[x].verdicted = TRUE, Unseen(x)' = {}
               PROVE  \E u \in Outputter : Returns(u, x)'
    BY DEF WaitsForSome
  <2>1. x # r /\ pk[x].verdicted = TRUE /\ Unseen(x) = {}
    BY <1>7, <1>8, <1>13
  <2>2. PICK u \in Outputter : Returns(u, x)
    BY <1>1, <2>1 DEF WaitsForSome
  <2> QED BY <1>17, <2>1, <2>2
<1> QED BY <1>11, <1>12, <1>14, <1>15, <1>16, <1>18, <1>19 DEF Inv, RootInv

LEMMA OutputSelfKeeps == ASSUME PacketPoolAssumption, Inv, NEW o \in Outputter, OutputSelf(o) PROVE Inv'
<1>1. /\ Typed /\ InOnePlace /\ RootInv /\ decoding \in Seq(Packet) /\ pk \in [Packet -> Kept]
      /\ TunnelsOpen /\ Counted /\ RootsStay /\ OneReturns /\ WaitsForSome
      /\ oreg \in [Outputter -> OReg] /\ \A u \in Outputter : oreg[u].pc = "idle" <=> oreg[u].p = NULL
  BY DEF Inv, Typed, RootInv
<1>2. /\ oreg[o].pc = "self" /\ oreg' = [oreg EXCEPT ![o] = Idle] /\ PutBack(oreg[o].p)
      /\ UNCHANGED <<pickup, decoded, inspected, verdicted, decoding, detecting, vreg>>
  BY DEF OutputSelf, queues, decode
<1>3. PICK p \in Packet : p = oreg[o].p /\ NULL \notin Packet
  BY <1>1, <1>2 DEF OReg, PacketPoolAssumption
<1>4. /\ p \notin Extra \ alloced /\ pk[p].verdicted = FALSE /\ ~Resting(p)
      /\ \A u \in Outputter : oreg[u].p = p => u = o
  <2>1. o \in OSet(p)
    BY <1>3 DEF OSet
  <2>2. OSet(p) # {} /\ \A u \in OSet(p) : u = o
    BY <1>1, <2>1, Apart
  <2> QED BY <1>1, <2>2, Apart DEF OSet
<1>5. Unseen(p) = {}
  BY <1>1, <1>3 DEF RootsStay
<1>6. /\ pk' = [pk EXCEPT ![p] = Fresh]
      /\ pool' \in [Packet -> Nat] /\ alloced' \subseteq Extra /\ OneMoreOf(p)
      /\ \A q \in Packet \ {p} : pool'[q] = pool[q] /\ (q \in Extra \ alloced' <=> q \in Extra \ alloced)
  BY <1>1, <1>2, <1>3, <1>4, Given
<1>7. /\ pk' \in [Packet -> Kept] /\ pk'[p] = Fresh /\ \A q \in Packet : q # p => pk'[q] = pk[q]
  <2>1. Fresh \in Kept
    BY DEF Fresh, Kept
  <2> QED BY <1>1, <1>6, <2>1
<1>8. pk'[p].root = NULL /\ pk'[p].tunnel = FALSE /\ pk'[p].tpr = 0 /\ pk'[p].verdicted = FALSE
  BY <1>7 DEF Fresh
<1>9. /\ oreg' \in [Outputter -> OReg] /\ oreg'[o].pc = "idle" /\ oreg'[o].p = NULL
      /\ \A u \in Outputter : u # o => oreg'[u] = oreg[u]
  BY <1>1, <1>2 DEF OReg, Idle
<1>10. Typed'
  <2>1. \A u \in Outputter : oreg'[u].pc = "idle" <=> oreg'[u].p = NULL
    BY <1>1, <1>9
  <2> QED BY <1>1, <1>2, <1>6, <1>7, <1>9, <2>1 DEF Typed
<1>11. InOnePlace'
  <2>1. \A q \in Packet : Parked(q)' = Parked(q)
    BY <1>4, <1>7, <1>8 DEF Parked
  <2>2. \A q \in Packet : /\ Cardinality(OSet(q))' = Cardinality(OSet(q)) - Is(p, q)
                          /\ Cardinality(OSet(q))' \in Nat
    <3>1. \A q \in Packet : Is(NULL, q) = 0
      BY <1>3 DEF Is
    <3> QED BY <1>3, <1>9, <3>1, OutputterMoves, IsOne
  <2>3. \A q \in Packet : Total(q)' = Target(q)'
    <3> TAKE q \in Packet
    <3> DEFINE a == pool[q]    b == Queued(q, pickup)    c == Queued(q, decoded)    d == Queued(q, inspected)
               e == Queued(q, verdicted)    f == Queued(q, decoding)    g == Cardinality(DSet(q))
               h == Cardinality(VSet(q))    i == Cardinality(OSet(q))   j == Parked(q)
    <3>1. /\ a \in Nat /\ b \in Nat /\ c \in Nat /\ d \in Nat /\ e \in Nat /\ f \in Nat
          /\ g \in Nat /\ h \in Nat /\ i \in Nat
      BY <1>1, CountsNat
    <3>2. j \in {0, 1} /\ Is(p, q) \in {0, 1}
      BY <1>1, CountsNat, IsOne
    <3>3. a + (b + c + d + e + f + (g + h + i)) + j = Target(q) /\ Target(q) \in Int
      BY <1>1, TotalIs DEF Total, Target
    <3>4. b' = b /\ c' = c /\ d' = d /\ e' = e /\ f' = f /\ g' = g /\ h' = h /\ j' = j
      BY <1>2, <2>1 DEF DSet, Parked, Queued, VSet
    <3>5. i' = i - Is(p, q)
      BY <2>2
    <3>6. Total(q)' = a' + (b' + c' + d' + e' + f' + (g' + h' + i')) + j'
      BY DEF Total
    <3>7. a' + Target(q) = a + Is(p, q) + Target(q)' /\ a' \in Nat
      BY <1>6 DEF OneMoreOf
    <3>8. Target(q)' \in Int
      BY DEF Target
    <3> HIDE DEF a, b, c, d, e, f, g, h, i, j
    <3>9. Total(q)' = a' + (b + c + d + e + f + (g + h + i - Is(p, q))) + j
      BY <3>4, <3>5, <3>6
    <3>10. Target(q)' = a' - Is(p, q) + Target(q) - a
      BY <3>1, <3>2, <3>3, <3>7, <3>8
    <3>11. Total(q)' = a' - Is(p, q) + Target(q) - a
      BY <3>1, <3>2, <3>3, <3>7, <3>9
    <3> QED BY <3>10, <3>11
  <2> QED BY <2>3, TotalIsNext
<1>12. \A x \in Packet : Unseen(x)' = Unseen(x)
  <2>1. \A x \in Packet, q \in Packet : q # p => (q \in Unseen(x)' <=> q \in Unseen(x))
    <3>1. \A q \in Packet : q # p =>
            ((\A u \in Outputter : oreg'[u].p # q) <=> \A u \in Outputter : oreg[u].p # q)
      BY <1>3, <1>9
    <3> QED BY <1>7, <3>1 DEF Unseen
  <2>2. \A x \in Packet : p \notin Unseen(x) /\ p \notin Unseen(x)'
    BY <1>3, <1>8 DEF Unseen
  <2>3. \A x \in Packet : Unseen(x) \subseteq Packet /\ Unseen(x)' \subseteq Packet
    BY DEF Unseen
  <2>4. ASSUME NEW x \in Packet PROVE Unseen(x)' = Unseen(x)
    <3>1. \A q \in Packet : q \in Unseen(x)' <=> q \in Unseen(x)
      BY <2>1, <2>2
    <3> QED BY <3>1, <2>3
  <2> QED BY <2>4
<1>13. TunnelsOpen'
  <2>1. \A q \in Packet : q # p => (Resting(q)' <=> Resting(q))
    BY <1>2, <1>6 DEF Resting, Queued
  <2>2. Root' = Root /\ decoding' = decoding /\ (decoding # <<>> => Root \in Packet)
    BY <1>1, <1>2 DEF Root
  <2>3. \A q \in Packet : Resting(q)' => /\ pk'[q].root = NULL /\ pk'[q].tunnel = FALSE
                                         /\ pk'[q].tpr = 0 /\ pk'[q].verdicted = FALSE
    BY <1>1, <1>7, <1>8, <2>1 DEF TunnelsOpen
  <2>4. decoding # <<>> => pk'[Root].root = NULL
    BY <1>1, <1>7, <1>8, <2>2 DEF TunnelsOpen
  <2>5. \A q \in Packet : pk'[q].root # NULL => pk'[q].tunnel = TRUE /\ pk'[q].verdicted = FALSE
    BY <1>1, <1>7, <1>8 DEF TunnelsOpen
  <2> QED BY <2>2, <2>3, <2>4, <2>5 DEF TunnelsOpen
<1>14. Counted'
  <2> SUFFICES ASSUME NEW x \in Packet PROVE pk'[x].tpr = Cardinality(Unseen(x)')
    BY DEF Counted
  <2>1. CASE x = p
    BY <1>5, <1>8, <1>12, <2>1, FS_EmptySet
  <2>2. CASE x # p
    BY <1>1, <1>7, <1>12, <2>2 DEF Counted
  <2> QED BY <2>1, <2>2
<1>15. RootsStay'
  <2> SUFFICES ASSUME NEW x \in Packet, Unseen(x)' # {}
               PROVE  pk'[x].tunnel = TRUE /\ pk'[x].root = NULL /\ \A u \in Outputter : oreg'[u].p # x
    BY DEF RootsStay
  <2>1. Unseen(x) # {} /\ x # p
    BY <1>5, <1>12
  <2> QED BY <1>1, <1>3, <1>7, <1>9, <2>1 DEF RootsStay
<1>16. \A u \in Outputter, x \in Packet : Returns(u, x)' <=> Returns(u, x)
  <2>1. \A u \in Outputter : oreg[u].pc = "root" => u # o /\ oreg[u].p \in Packet /\ oreg[u].p # p
    BY <1>1, <1>2, <1>4 DEF OReg
  <2>2. \A u \in Outputter : oreg[u].pc = "root" => pk'[oreg[u].p] = pk[oreg[u].p]
    BY <1>7, <2>1
  <2> QED BY <1>2, <1>9, <2>2 DEF Returns
<1>17. \A x \in Packet : pk'[x].verdicted = TRUE <=> pk[x].verdicted = TRUE
  BY <1>4, <1>7, <1>8
<1>18. OneReturns'
  <2> SUFFICES ASSUME NEW u \in Outputter, oreg'[u].pc = "root"
               PROVE  \E x \in Packet : /\ Returns(u, x)' /\ pk'[x].verdicted = TRUE /\ Unseen(x)' = {}
                                        /\ \A z \in Outputter : Returns(z, x)' => z = u
    BY DEF OneReturns
  <2>1. oreg[u].pc = "root"
    BY <1>9
  <2>2. PICK x \in Packet : /\ Returns(u, x) /\ pk[x].verdicted = TRUE /\ Unseen(x) = {}
                            /\ \A z \in Outputter : Returns(z, x) => z = u
    BY <1>1, <2>1 DEF OneReturns
  <2> QED BY <1>12, <1>16, <1>17, <2>2
<1>19. WaitsForSome'
  BY <1>1, <1>12, <1>16, <1>17 DEF WaitsForSome
<1> QED BY <1>10, <1>11, <1>13, <1>14, <1>15, <1>18, <1>19 DEF Inv, RootInv

---------------------------------------------------------------------------
(* The invariant holds                                                     *)

LEMMA InitInv == ASSUME PacketPoolAssumption, Init PROVE Inv
<1>1. /\ pool = [p \in Packet |-> IF p \in Pooled THEN 1 ELSE 0] /\ alloced = {}
      /\ pk = [p \in Packet |-> Fresh]
      /\ pickup = <<>> /\ decoded = <<>> /\ inspected = <<>> /\ verdicted = <<>> /\ decoding = <<>>
      /\ detecting = [d \in Detector |-> NULL]
      /\ vreg = [v \in Verdicter |-> Idle] /\ oreg = [o \in Outputter |-> Idle]
  BY DEF Init
<1>2. Fresh \in Kept /\ Idle \in VReg /\ Idle \in OReg
  BY DEF Fresh, Kept, Idle, VReg, OReg
<1>3. Typed
  <2>1. <<>> \in Seq(Packet)
    OBVIOUS
  <2> QED BY <1>1, <1>2, <2>1 DEF Typed, Idle
<1>4. \A p \in Packet : DSet(p) = {} /\ VSet(p) = {} /\ OSet(p) = {}
  BY <1>1 DEF DSet, VSet, OSet, Idle, PacketPoolAssumption
<1>5. \A p \in Packet : pk[p].root = NULL /\ pk[p].tunnel = FALSE /\ pk[p].tpr = 0 /\ pk[p].verdicted = FALSE
  BY <1>1 DEF Fresh
<1>6. InOnePlace
  <2>1. \A p \in Packet : Total(p) = Target(p)
    <3> TAKE p \in Packet
    <3>1. /\ Cardinality(DSet(p)) = 0 /\ Cardinality(VSet(p)) = 0 /\ Cardinality(OSet(p)) = 0
      BY <1>4, FS_EmptySet
    <3>2. /\ Queued(p, pickup) = 0 /\ Queued(p, decoded) = 0 /\ Queued(p, inspected) = 0
          /\ Queued(p, verdicted) = 0 /\ Queued(p, decoding) = 0
      BY <1>1, QueuedEmpty
    <3>3. Parked(p) = 0
      BY <1>5 DEF Parked
    <3>4. pool[p] = Target(p)
      BY <1>1 DEF Target, Packet, PacketPoolAssumption
    <3>5. pool[p] \in Nat
      BY <1>3 DEF Typed
    <3>6. Total(p) = pool[p] + (0 + 0 + 0 + 0 + 0 + (0 + 0 + 0)) + 0
      BY <3>1, <3>2, <3>3 DEF Total
    <3> QED BY <3>4, <3>5, <3>6
  <2> QED BY <2>1, TotalIs
<1>7. \A r \in Packet : Unseen(r) = {}
  BY <1>5 DEF Unseen, PacketPoolAssumption
<1>8. RootInv
  <2>1. TunnelsOpen
    BY <1>1, <1>5 DEF TunnelsOpen
  <2>2. Counted /\ RootsStay
    BY <1>5, <1>7, FS_EmptySet DEF Counted, RootsStay
  <2>3. OneReturns
    BY <1>1 DEF OneReturns, Idle
  <2>4. WaitsForSome
    BY <1>5 DEF WaitsForSome
  <2> QED BY <2>1, <2>2, <2>3, <2>4 DEF RootInv
<1> QED BY <1>3, <1>6, <1>8 DEF Inv

LEMMA NextInv == ASSUME PacketPoolAssumption, Inv, [Next]_vars PROVE Inv'
<1>1. CASE ReceiveStep
  BY <1>1, ReceiveWaitKeeps, ReceiveKeeps DEF ReceiveStep
<1>2. CASE DecodeStep
  BY <1>2, DecodeKeeps, DecodeOutKeeps DEF DecodeStep
<1>3. CASE Pseudo
  BY <1>3, PseudoKeeps
<1>4. CASE \E d \in Detector : DetectStep(d)
  BY <1>4, DetectInKeeps, DetectOutKeeps DEF DetectStep
<1>5. CASE \E v \in Verdicter : VerdictStep(v)
  BY <1>5, VerdictInKeeps, VerdictKeeps DEF VerdictStep
<1>6. CASE \E o \in Outputter : OutputStep(o)
  BY <1>6, OutputInKeeps, OutputRootKeeps, OutputSelfKeeps DEF OutputStep
<1>7. CASE UNCHANGED vars
  BY <1>7, NothingMoves DEF vars
<1> QED BY <1>1, <1>2, <1>3, <1>4, <1>5, <1>6, <1>7 DEF Next

LEMMA SpecInv == ASSUME PacketPoolAssumption PROVE Spec => []Inv
<1>1. Init => Inv
  BY InitInv
<1>2. Inv /\ [Next]_vars => Inv'
  BY NextInv
<1> QED BY <1>1, <1>2, PTL DEF Spec

(* However the threads interleave, TmqhOutputPacketpool returns each       *)
(* packet once: no packet is in the pool and under way, in two queues or   *)
(* with two threads at a time, and none is lost.                           *)
THEOREM EachInOnePlace == ASSUME PacketPoolAssumption PROVE Spec => []InOnePlace
<1>1. Inv => InOnePlace
  BY DEF Inv
<1> QED BY <1>1, SpecInv, PTL

(* The root whose mutex TmqhOutputPacketpool locks for a child, and whose  *)
(* counters it reads, is a packet that has not been returned, and tpr_cnt  *)
(* is the number of children to come; a root that waits has one.           *)
THEOREM RootsOutliveChildren == ASSUME PacketPoolAssumption PROVE Spec => []RootOutlivesChildren
<1>1. Inv => RootOutlivesChildren
  <2> SUFFICES ASSUME Inv, NEW r \in Packet
               PROVE  /\ pk[r].tpr = Cardinality(Unseen(r))
                      /\ Unseen(r) # {} => pool[r] = 0 /\ (r \in Extra => r \in alloced)
                      /\ pk[r].verdicted =>
                           Unseen(r) # {} \/ \E o \in Outputter : oreg[o].pc = "root" /\ pk[oreg[o].p].root = r
    BY DEF RootOutlivesChildren
  <2>1. /\ Typed /\ Counted /\ TunnelsOpen /\ RootsStay /\ WaitsForSome
    BY DEF Inv, RootInv
  <2>2. pk[r].tpr = Cardinality(Unseen(r))
    BY <2>1 DEF Counted
  <2>3. Unseen(r) # {} => pool[r] = 0 /\ (r \in Extra => r \in alloced)
    <3>1. Unseen(r) # {} => ~Resting(r)
      BY <2>1 DEF RootsStay, TunnelsOpen
    <3> QED BY <2>1, <3>1 DEF Resting, Typed
  <2>4. pk[r].verdicted =>
          Unseen(r) # {} \/ \E o \in Outputter : oreg[o].pc = "root" /\ pk[oreg[o].p].root = r
    <3>1. pk[r].verdicted \in BOOLEAN
      BY <2>1 DEF Typed, Kept
    <3> QED BY <2>1, <3>1 DEF WaitsForSome, Returns
  <2> QED BY <2>2, <2>3, <2>4
<1> QED BY <1>1, SpecInv, PTL

---------------------------------------------------------------------------
(* No packet is returned without a verdict                                 *)

(* One thread runs VerdictNFQ, as RunModeIpsNFQAuto starts it: two of them *)
(* could both see the other's packet still missing.                        *)
OneVerdictThread == \A v, w \in Verdicter : v = w

InUse(p) == pool[p] = 0 /\ p \notin Extra \ alloced
Passed(p) == Queued(p, verdicted) > 0 \/ pk[p].verdicted = TRUE \/ OSet(p) # {}

(* Until its verdict a root's rtv_cnt has counted all that VerdictNFQ has  *)
(* seen and TmqhOutputPacketpool has not, itself included, and once it was *)
(* seen itself a child is still to come.                                   *)
Judged(r) ==
  InUse(r) /\ pk[r].root = NULL /\ verdicts[r] = 0 =>
    /\ Cardinality(Unseen(r) \cap done) + In(r, done) <= pk[r].rtv
    /\ r \in done => Unseen(r) \ done # {}

(* A thread that counts its packet leaves the verdict to another.          *)
Leaves(v, y, r) ==
  vreg[v].pc = "count" =>
    verdicts[r] > 0 \/ \E q \in Packet : q \notin done /\ q # y /\ (q = r \/ q \in Unseen(r))

JudgeInv ==
  /\ done \subseteq Packet /\ verdicts \in [Packet -> Nat]
  /\ \A p \in Packet : Passed(p) => p \in done
  /\ \A r \in Packet : Judged(r)
  /\ \A v \in Verdicter : Leaves(v, vreg[v].p, RootOf(vreg[v].p))

(* A packet that waits for VerdictNFQ or is with it, and its root.         *)
LEMMA BeforeVerdict ==
  ASSUME PacketPoolAssumption, Inv, NEW y \in Packet, Queued(y, inspected) > 0 \/ VSet(y) # {}
  PROVE  /\ InUse(y) /\ ~Passed(y) /\ ~Resting(y)
         /\ RootOf(y) \in Packet /\ InUse(RootOf(y)) /\ pk[RootOf(y)].root = NULL
         /\ y = RootOf(y) \/ y \in Unseen(RootOf(y))
         /\ y # RootOf(y) => pk[y].root = RootOf(y)
<1>1. /\ Typed /\ InOnePlace /\ TunnelsOpen /\ RootsStay /\ pk[y] \in Kept /\ NULL \notin Packet
      /\ pool \in [Packet -> Nat]
  BY DEF Inv, RootInv, Typed, PacketPoolAssumption
<1>2. VSet(y) # {} => Cardinality(VSet(y)) # 0
  <2>1. IsFiniteSet(VSet(y))
    BY FS_Subset DEF VSet, PacketPoolAssumption
  <2> QED BY <2>1, FS_EmptySet
<1>3. OSet(y) # {} => Cardinality(OSet(y)) # 0
  <2>1. IsFiniteSet(OSet(y))
    BY FS_Subset DEF OSet, PacketPoolAssumption
  <2> QED BY <2>1, FS_EmptySet
<1>4. /\ pool[y] = 0 /\ y \notin Extra \ alloced /\ Queued(y, pickup) = 0 /\ Queued(y, verdicted) = 0
      /\ OSet(y) = {} /\ pk[y].verdicted # TRUE
  <2> DEFINE a == pool[y]    b == Queued(y, pickup)    c == Queued(y, decoded)    d == Queued(y, inspected)
             e == Queued(y, verdicted)    f == Queued(y, decoding)    g == Cardinality(DSet(y))
             h == Cardinality(VSet(y))    i == Cardinality(OSet(y))   j == Parked(y)
  <2>1. /\ a \in Nat /\ b \in Nat /\ c \in Nat /\ d \in Nat /\ e \in Nat /\ f \in Nat
        /\ g \in Nat /\ h \in Nat /\ i \in Nat
    BY <1>1, CountsNat
  <2>2. j \in {0, 1} /\ (j = 1 <=> pk[y].verdicted = TRUE)
    BY <1>1, CountsNat
  <2>3. a + (b + c + d + e + f + (g + h + i)) + j = Target(y)
    BY <1>1, TotalIs DEF Total
  <2>4. Target(y) \in {0, 1} /\ (Target(y) = 0 <=> y \in Extra \ alloced)
    BY DEF Target
  <2>5. d > 0 \/ h > 0
    BY <1>2, <2>1
  <2>6. a = 0 /\ b = 0 /\ e = 0 /\ i = 0 /\ j = 0 /\ Target(y) = 1
    <3> HIDE DEF a, b, c, d, e, f, g, h, i, j
    <3> QED BY <2>1, <2>2, <2>3, <2>4, <2>5
  <2>7. y \notin Extra \ alloced /\ pk[y].verdicted # TRUE
    <3> HIDE DEF j
    <3>1. Target(y) # 0 /\ j # 1
      BY <2>6
    <3>2. y \notin Extra \ alloced
      BY <2>4, <3>1
    <3> QED BY <2>2, <3>1, <3>2
  <2> QED BY <1>3, <2>6, <2>7
<1>5. InUse(y) /\ ~Passed(y) /\ ~Resting(y)
  <2>1. InUse(y)
    BY <1>4 DEF InUse
  <2>2. ~(Queued(y, verdicted) > 0) /\ ~(pool[y] > 0) /\ ~(Queued(y, pickup) > 0)
    BY <1>4
  <2>3. ~Passed(y)
    BY <1>4, <2>2 DEF Passed
  <2>4. ~Resting(y)
    BY <1>4, <2>2 DEF Resting
  <2> QED BY <2>1, <2>3, <2>4
<1>6. CASE pk[y].root = NULL
  BY <1>5, <1>6 DEF RootOf
<1>7. CASE pk[y].root # NULL
  <2>1. PICK r \in Packet : pk[y].root = r /\ RootOf(y) = r
    BY <1>1, <1>7 DEF Kept, RootOf
  <2>2. y \in Unseen(r)
    BY <1>4, <2>1 DEF Unseen, OSet
  <2>3. pk[r].tunnel = TRUE /\ pk[r].root = NULL
    BY <1>1, <2>2 DEF RootsStay
  <2>4. ~Resting(r)
    BY <1>1, <2>3 DEF TunnelsOpen
  <2>5. InUse(r)
    BY <1>1, <2>4 DEF Resting, InUse
  <2> QED BY <1>5, <2>1, <2>2, <2>3, <2>5
<1> QED BY <1>6, <1>7

LEMMA JudgedStays ==
  ASSUME PacketPoolAssumption, NEW r \in Packet, Judged(r),
         InUse(r)' => InUse(r), pk'[r].root = NULL => pk[r].root = NULL,
         pk'[r].rtv = pk[r].rtv, pk[r].rtv \in Nat, verdicts'[r] = verdicts[r], r \in done' <=> r \in done,
         \A q \in Unseen(r)' : q \in done' => q \in Unseen(r) /\ q \in done,
         \A q \in Unseen(r) : q \notin done => q \in Unseen(r)' /\ q \notin done'
  PROVE  Judged(r)'
<1>1. Unseen(r) \subseteq Packet /\ Unseen(r)' \subseteq Packet
  BY DEF Unseen
<1> DEFINE S == Unseen(r) \cap done
           T == Unseen(r)' \cap done'
<1>2. T \subseteq S /\ S \subseteq Packet /\ IsFiniteSet(Packet)
  BY <1>1 DEF PacketPoolAssumption
<1>3. Cardinality(T) \in Nat /\ Cardinality(S) \in Nat /\ Cardinality(T) <= Cardinality(S)
  <2> HIDE DEF S, T
  <2> QED BY <1>2, FS_Subset, FS_CardinalityType
<1>4. In(r, done) \in {0, 1} /\ In(r, done)' = In(r, done)
  BY DEF In
<1>5. Judged(r)' <=> (InUse(r)' /\ pk'[r].root = NULL /\ verdicts'[r] = 0 =>
                        /\ Cardinality(T) + In(r, done)' <= pk'[r].rtv
                        /\ r \in done' => Unseen(r)' \ done' # {})
  BY DEF Judged
<1>6. SUFFICES ASSUME InUse(r)', pk'[r].root = NULL, verdicts'[r] = 0
               PROVE  /\ Cardinality(T) + In(r, done)' <= pk'[r].rtv
                      /\ r \in done' => Unseen(r)' \ done' # {}
  BY <1>5
<1>7. Cardinality(S) + In(r, done) <= pk[r].rtv /\ (r \in done => Unseen(r) \ done # {})
  BY <1>6 DEF Judged
<1>8. Cardinality(T) + In(r, done)' <= pk'[r].rtv
  <2> HIDE DEF S, T
  <2> QED BY <1>3, <1>4, <1>7
<1> QED BY <1>7, <1>8

LEMMA LeavesStays ==
  ASSUME NEW v \in Verdicter, NEW y \in Packet, NEW r \in Packet, Leaves(v, y, r),
         vreg' = vreg, verdicts'[r] = verdicts[r],
         \A q \in Packet : q \notin done => q \notin done' \/ ~(q = r \/ q \in Unseen(r)),
         \A q \in Unseen(r) : q \notin done => q \in Unseen(r)'
  PROVE  Leaves(v, y, r)'
BY DEF Leaves

(* A step that leaves the history and the counters as they are: no root is *)
(* taken, no child but those already seen by VerdictNFQ leaves its root.   *)
Beside ==
  /\ UNCHANGED <<verdicts, done, vreg>>
  /\ \A q \in Packet : /\ InUse(q)' => InUse(q) /\ pk'[q].root = pk[q].root /\ pk'[q].rtv = pk[q].rtv
                       /\ Passed(q)' => Passed(q)
                       /\ Queued(q, inspected) > 0 \/ VSet(q) # {} => pk'[q].root = pk[q].root
  /\ \A r \in Packet : /\ Unseen(r)' \subseteq Unseen(r)
                       /\ \A q \in Unseen(r) : q \notin done => q \in Unseen(r)'

LEMMA BesideKeeps == ASSUME PacketPoolAssumption, Inv, JudgeInv, Beside PROVE JudgeInv'
<1>1. pk \in [Packet -> Kept] /\ vreg \in [Verdicter -> VReg] /\ NULL \notin Packet
      /\ \A v \in Verdicter : vreg[v].pc = "idle" <=> vreg[v].p = NULL
  BY DEF Inv, Typed, PacketPoolAssumption
<1>2. \A r \in Packet : pk[r].rtv \in Nat
  BY <1>1 DEF Kept
<1>3. \A p \in Packet : Passed(p)' => p \in done'
  BY DEF JudgeInv, Beside
<1>4. ASSUME NEW r \in Packet PROVE Judged(r)'
  <2>1. CASE ~InUse(r)'
    BY <2>1 DEF Judged
  <2>2. CASE InUse(r)'
    BY <1>2, <2>2, JudgedStays DEF JudgeInv, Beside
  <2> QED BY <2>1, <2>2
<1>5. ASSUME NEW v \in Verdicter PROVE Leaves(v, vreg[v].p, RootOf(vreg[v].p))'
  <2>1. CASE vreg[v].pc # "count"
    BY <2>1 DEF Leaves, Beside
  <2>2. CASE vreg[v].pc = "count"
    <3>1. PICK y \in Packet : y = vreg[v].p /\ VSet(y) # {}
      BY <1>1, <2>2 DEF VReg, VSet
    <3>2. PICK r \in Packet : r = RootOf(y)
      BY <3>1, BeforeVerdict
    <3>3. pk'[y].root = pk[y].root
      BY <3>1 DEF Beside
    <3>4. RootOf(y)' = r /\ vreg'[v].p = y
      BY <3>1, <3>2, <3>3 DEF RootOf, Beside
    <3>5. Leaves(v, y, r)
      BY <3>1, <3>2 DEF JudgeInv
    <3>6. Leaves(v, y, r)'
      BY <3>5, LeavesStays DEF Beside
    <3> QED BY <3>1, <3>4, <3>6 DEF Leaves, RootOf
  <2> QED BY <2>1, <2>2
<1> QED BY <1>3, <1>4, <1>5 DEF JudgeInv, Beside

LEMMA QuietBeside ==
  ASSUME UNCHANGED <<pool, alloced, verdicted, oreg, vreg, verdicts, done>>,
         \A q \in Packet : /\ pk'[q].root = pk[q].root /\ pk'[q].rtv = pk[q].rtv
                           /\ pk'[q].verdicted = pk[q].verdicted
  PROVE  Beside
<1>1. \A q \in Packet : InUse(q)' => InUse(q)
  BY DEF InUse
<1>2. \A q \in Packet : Passed(q)' => Passed(q)
  BY DEF Passed, OSet, Queued
<1>3. \A r \in Packet : Unseen(r)' = Unseen(r)
  BY DEF Unseen
<1> QED BY <1>1, <1>2, <1>3 DEF Beside

LEMMA FlowOnly ==
  ASSUME pk \in [Packet -> Kept], NEW p \in Packet, NEW b, TakesFlow(p, b)
  PROVE  \A q \in Packet : /\ pk'[q].root = pk[q].root /\ pk'[q].rtv = pk[q].rtv
                           /\ pk'[q].verdicted = pk[q].verdicted
BY DEF TakesFlow, Kept

LEMMA ServiceBeside ==
  ASSUME PacketPoolAssumption, Inv,
         ReceiveWait \/ Decode \/ DecodeOut \/ (\E d \in Detector : DetectStep(d)) \/ UNCHANGED vars
  PROVE  Beside
<1>1. pk \in [Packet -> Kept] /\ pickup \in Seq(Packet)
  BY DEF Inv, Typed
<1>2. UNCHANGED <<pool, alloced, verdicted, oreg, vreg, verdicts, done>>
  BY DEF ReceiveWait, Decode, DecodeOut, DetectStep, DetectIn, DetectOut, vars, store, history, queues
<1>3. CASE Decode
  <2>1. PICK b \in FlowChoice : TakesFlow(Head(pickup), b)
    BY <1>3 DEF Decode
  <2>2. Head(pickup) \in Packet
    BY <1>1, <1>3 DEF Decode
  <2> QED BY <1>1, <1>2, <2>1, <2>2, FlowOnly, QuietBeside
<1>4. CASE ~Decode
  <2>1. pk' = pk
    BY <1>4 DEF ReceiveWait, DecodeOut, DetectStep, DetectIn, DetectOut, vars
  <2> QED BY <1>2, <2>1, QuietBeside
<1> QED BY <1>3, <1>4

(* What TmqhOutputPacketpool takes was with VerdictNFQ before.             *)
LEMMA OutputInBeside ==
  ASSUME PacketPoolAssumption, Inv, JudgeInv, NEW o \in Outputter, OutputIn(o)
  PROVE  Beside
<1>1. /\ verdicted \in Seq(Packet) /\ pk \in [Packet -> Kept] /\ NULL \notin Packet
      /\ TunnelsOpen /\ oreg \in [Outputter -> OReg] /\ Typed
  BY DEF Inv, Typed, RootInv, PacketPoolAssumption
<1>2. /\ verdicted # <<>> /\ verdicted' = Tail(verdicted) /\ oreg[o].pc = "idle" /\ oreg[o].p = NULL
      /\ UNCHANGED <<pool, alloced, inspected, vreg, verdicts, done>>
  BY <1>1 DEF OutputIn, store, history, Typed
<1>3. PICK p \in Packet : p = Head(verdicted)
  BY <1>1, <1>2, Queueing
<1>4. Queued(p, verdicted) > 0
  BY <1>1, <1>2, <1>3, QueuedSome
<1>5. p \in done /\ Passed(p)
  BY <1>4 DEF Passed, JudgeInv
<1>6. \A q \in Packet : Queued(q, verdicted)' > 0 => Queued(q, verdicted) > 0
  <2> TAKE q \in Packet
  <2>1. /\ Queued(q, verdicted) = Queued(q, verdicted') + Is(p, q)
        /\ Queued(q, verdicted) \in Nat /\ Is(p, q) \in {0, 1}
    BY <1>1, <1>2, <1>3, Queueing, IsOne
  <2>2. Queued(q, verdicted') \in Nat
    BY <1>1, <1>2, Queueing
  <2>3. Queued(q, verdicted)' = Queued(q, verdicted')
    BY DEF Queued
  <2> QED BY <2>1, <2>2, <2>3
<1>7. \A q \in Packet : InUse(q)' => InUse(q)
  BY <1>2 DEF InUse
<1>8. CASE Waits(p)
  <2>1. pk' = [pk EXCEPT ![p].verdicted = TRUE] /\ UNCHANGED oreg
    BY <1>3, <1>8 DEF OutputIn
  <2>2. \A q \in Packet : /\ pk'[q].root = pk[q].root /\ pk'[q].rtv = pk[q].rtv
                          /\ q # p => pk'[q].verdicted = pk[q].verdicted
    BY <1>1, <2>1 DEF Kept
  <2>3. \A q \in Packet : Passed(q)' => Passed(q)
    BY <1>5, <1>6, <2>1, <2>2 DEF Passed, OSet
  <2>4. \A r \in Packet : Unseen(r)' = Unseen(r)
    BY <2>1, <2>2 DEF Unseen
  <2> QED BY <1>2, <1>7, <2>2, <2>3, <2>4 DEF Beside
<1>9. CASE ~Waits(p)
  <2>1. PICK w : oreg' = [oreg EXCEPT ![o] = [pc |-> w, p |-> p]]
    BY <1>3, <1>9 DEF OutputIn
  <2>2. pk' = IF IsChild(p) THEN [pk EXCEPT ![pk[p].root].tpr = @ - 1] ELSE pk
    BY <1>3, <1>9 DEF OutputIn
  <2>3. \A q \in Packet : /\ pk'[q].root = pk[q].root /\ pk'[q].rtv = pk[q].rtv
                          /\ pk'[q].verdicted = pk[q].verdicted
    BY <1>1, <2>2 DEF Kept
  <2>4. oreg'[o].p = p /\ \A u \in Outputter : u # o => oreg'[u] = oreg[u]
    BY <1>1, <2>1
  <2>5. \A q \in Packet : q # p => OSet(q)' \subseteq OSet(q)
    BY <2>4 DEF OSet
  <2>6. \A q \in Packet : Passed(q)' => Passed(q)
    BY <1>5, <1>6, <2>3, <2>5 DEF Passed
  <2>7. \A r \in Packet : Unseen(r)' = Unseen(r) \ {p}
    BY <1>2, <2>3, <2>4, <1>1 DEF Unseen
  <2> QED BY <1>2, <1>5, <1>7, <2>3, <2>6, <2>7 DEF Beside
<1> QED BY <1>8, <1>9

(* A packet that leaves the pool has no verdict and is not seen: nobody    *)
(* else's account changes.                                                 *)
LEMMA OthersTaken ==
  ASSUME PacketPoolAssumption, Inv, JudgeInv, NEW p \in Packet, GetPacket(p),
         done' = done \ {p}, UNCHANGED <<verdicted, oreg>>,
         \A q \in Packet : pk'[q].verdicted = pk[q].verdicted
  PROVE  /\ \A q \in Packet : Passed(q)' => q \in done'
         /\ Resting(p)
         /\ \A q \in Packet : q # p => (InUse(q)' <=> InUse(q))
<1>1. Typed /\ InOnePlace
  BY DEF Inv
<1>2. Resting(p)
  BY <1>1, Taken
<1>3. ~Passed(p)
  <2>1. OSet(p) = {} /\ pk[p].verdicted = FALSE /\ ~(Queued(p, verdicted) > 0)
    BY <1>1, <1>2, Apart
  <2> QED BY <2>1 DEF Passed
<1>4. \A q \in Packet : Passed(q)' <=> Passed(q)
  BY DEF Passed, OSet, Queued
<1>5. \A q \in Packet : Passed(q)' => q \in done'
  BY <1>3, <1>4 DEF JudgeInv
<1>6. \A q \in Packet : q # p => (InUse(q)' <=> InUse(q))
  <2>1. CASE pool' = [pool EXCEPT ![p] = @ - 1] /\ UNCHANGED alloced
    BY <1>1, <2>1 DEF InUse, Typed
  <2>2. CASE alloced' = alloced \cup {p} /\ UNCHANGED pool
    BY <2>2 DEF InUse
  <2> QED BY <2>1, <2>2 DEF GetPacket
<1> QED BY <1>2, <1>5, <1>6

LEMMA ReceiveJudged == ASSUME PacketPoolAssumption, Inv, JudgeInv, Receive PROVE JudgeInv'
<1>1. UNCHANGED <<pk, verdicted, detecting, vreg, oreg>>
  BY DEF Receive
<1>2. /\ Typed /\ TunnelsOpen /\ RootsStay /\ pk \in [Packet -> Kept] /\ vreg \in [Verdicter -> VReg]
      /\ NULL \notin Packet
      /\ \A v \in Verdicter : vreg[v].pc = "idle" <=> vreg[v].p = NULL
      /\ done \subseteq Packet /\ verdicts \in [Packet -> Nat]
  BY DEF Inv, RootInv, Typed, JudgeInv, PacketPoolAssumption
<1>3. CASE UNCHANGED <<store, pickup, history>>
  <2>1. Beside
    BY <1>1, <1>3, QuietBeside DEF store, history
  <2> QED BY <2>1, BesideKeeps
<1>4. ASSUME NEW p \in Packet, GetPacket(p), verdicts' = [verdicts EXCEPT ![p] = 0], done' = done \ {p}
      PROVE  JudgeInv'
  <2>1. /\ \A q \in Packet : Passed(q)' => q \in done'
        /\ Resting(p)
        /\ \A q \in Packet : q # p => (InUse(q)' <=> InUse(q))
    BY <1>1, <1>4, OthersTaken, Taken DEF Inv
  <2>2. pk[p].root = NULL /\ Unseen(p) = {} /\ pk[p].rtv \in Nat
    <3>1. pk[p].root = NULL /\ pk[p].tunnel = FALSE
      BY <1>2, <2>1 DEF TunnelsOpen
    <3> QED BY <1>2, <3>1 DEF RootsStay, Kept
  <2>3. \A r \in Packet : Unseen(r)' = Unseen(r) /\ p \notin Unseen(r)
    BY <1>1, <1>2, <2>2 DEF Unseen
  <2>4. Judged(p)'
    <3> DEFINE S == Unseen(p)' \cap done'
    <3>1. S = {} /\ p \notin done'
      BY <1>4, <2>2, <2>3
    <3>2. Cardinality(S) = 0 /\ In(p, done)' = 0
      <4>1. In(p, done)' = 0
        BY <3>1 DEF In
      <4>2. Cardinality(S) = 0
        BY <3>1, FS_EmptySet
      <4> QED BY <4>1, <4>2
    <3>3. Judged(p)' <=> (InUse(p)' /\ pk'[p].root = NULL /\ verdicts'[p] = 0 =>
                            /\ Cardinality(S) + In(p, done)' <= pk'[p].rtv
                            /\ p \in done' => Unseen(p)' \ done' # {})
      BY DEF Judged
    <3> HIDE DEF S
    <3>4. Cardinality(S) + In(p, done)' <= pk'[p].rtv
      BY <1>1, <2>2, <3>2
    <3> QED BY <3>1, <3>3, <3>4
  <2>5. ASSUME NEW r \in Packet, r # p PROVE Judged(r)'
    <3>1. pk[r].rtv \in Nat /\ verdicts'[r] = verdicts[r] /\ pk' = pk
      BY <1>1, <1>2, <1>4, <2>5 DEF Kept
    <3>2. Judged(r) /\ (InUse(r)' => InUse(r)) /\ (r \in done' <=> r \in done)
      BY <1>4, <2>1, <2>5 DEF JudgeInv
    <3> QED BY <1>4, <2>3, <3>1, <3>2, JudgedStays
  <2>6. ASSUME NEW v \in Verdicter PROVE Leaves(v, vreg[v].p, RootOf(vreg[v].p))'
    <3>1. CASE vreg[v].pc # "count"
      BY <1>1, <3>1 DEF Leaves
    <3>2. CASE vreg[v].pc = "count"
      <4>1. PICK y \in Packet : y = vreg[v].p /\ VSet(y) # {}
        BY <1>2, <3>2 DEF VReg, VSet
      <4>2. PICK r \in Packet : r = RootOf(y) /\ ~Resting(y) /\ (y = r \/ y \in Unseen(r))
        BY <4>1, BeforeVerdict
      <4>3. r # p
        BY <2>1, <2>2, <4>2
      <4>4. Leaves(v, y, r)
        BY <4>1, <4>2 DEF JudgeInv
      <4>5. Leaves(v, y, r)'
        BY <1>1, <1>2, <1>4, <2>3, <4>3, <4>4, LeavesStays
      <4> QED BY <1>1, <4>1, <4>2, <4>5 DEF Leaves, RootOf
    <3> QED BY <3>1, <3>2
  <2>7. done' \subseteq Packet /\ verdicts' \in [Packet -> Nat]
    BY <1>2, <1>4
  <2> QED BY <2>1, <2>4, <2>5, <2>6, <2>7 DEF JudgeInv
<1> QED BY <1>3, <1>4 DEF Receive

LEMMA PseudoJudged == ASSUME PacketPoolAssumption, Inv, JudgeInv, Pseudo PROVE JudgeInv'
<1>1. UNCHANGED <<verdicted, vreg, oreg, verdicts>> /\ decoding # <<>>
  BY DEF Pseudo, queues
<1>2. /\ Typed /\ TunnelsOpen /\ RootsStay /\ pk \in [Packet -> Kept] /\ vreg \in [Verdicter -> VReg]
      /\ decoding \in Seq(Packet) /\ NULL \notin Packet /\ InOnePlace
      /\ \A v \in Verdicter : vreg[v].pc = "idle" <=> vreg[v].p = NULL
      /\ done \subseteq Packet /\ verdicts \in [Packet -> Nat]
  BY DEF Inv, RootInv, Typed, JudgeInv, PacketPoolAssumption
<1>3. PICK r \in Packet : r = Root /\ Queued(r, decoding) > 0 /\ pk[r].root = NULL
  <2>1. Len(decoding) \in 1 .. Len(decoding)
    BY <1>1, <1>2
  <2> QED BY <1>1, <1>2, <2>1, QueuedSome DEF Root, TunnelsOpen
<1>4. PICK p \in Packet, w \in FlowChoice :
        /\ GetPacket(p) /\ done' = done \ {p}
        /\ pk' = [pk EXCEPT ![p] = [@ EXCEPT !.root = r, !.tunnel = TRUE, !.flow = w],
                            ![r].tunnel = TRUE, ![r].tpr = pk[r].tpr + 1]
  BY <1>3 DEF Pseudo, OneMore
<1>5. Resting(p) /\ pk[p].root = NULL /\ pk[p].tunnel = FALSE /\ p # r
  BY <1>2, <1>3, <1>4, Taken, Apart DEF TunnelsOpen
<1>6. /\ pk'[p].root = r
      /\ \A q \in Packet : /\ pk'[q].verdicted = pk[q].verdicted /\ pk'[q].rtv = pk[q].rtv
                           /\ q # p => pk'[q].root = pk[q].root
                           /\ pk[q].rtv \in Nat
  <2>1. /\ pk'[p] = [pk[p] EXCEPT !.root = r, !.tunnel = TRUE, !.flow = w]
        /\ pk'[r] = [pk[r] EXCEPT !.tunnel = TRUE, !.tpr = pk[r].tpr + 1]
        /\ \A q \in Packet : q # p /\ q # r => pk'[q] = pk[q]
    BY <1>2, <1>4, <1>5
  <2>2. pk[p] \in Kept /\ pk[r] \in Kept /\ \A q \in Packet : pk[q].rtv \in Nat
    BY <1>2 DEF Kept
  <2>3. pk'[p].root = r /\ pk'[p].verdicted = pk[p].verdicted /\ pk'[p].rtv = pk[p].rtv
    BY <2>1, <2>2 DEF Kept
  <2>4. pk'[r].root = pk[r].root /\ pk'[r].verdicted = pk[r].verdicted /\ pk'[r].rtv = pk[r].rtv
    BY <2>1, <2>2 DEF Kept
  <2> QED BY <2>1, <2>2, <2>3, <2>4
<1>7. /\ \A q \in Packet : Passed(q)' => q \in done'
      /\ \A q \in Packet : q # p => (InUse(q)' <=> InUse(q))
  BY <1>1, <1>4, <1>6, OthersTaken
<1>8. \A x \in Packet : Unseen(x) \subseteq Unseen(x)' /\ Unseen(x)' \subseteq Unseen(x) \cup {p}
  BY <1>1, <1>2, <1>5, <1>6 DEF Unseen
<1>9. \A x \in Packet : p \notin Unseen(x)
  BY <1>2, <1>5 DEF Unseen
<1>10. ASSUME NEW x \in Packet PROVE Judged(x)'
  <2>1. CASE x = p
    BY <1>2, <1>3, <1>6, <2>1 DEF Judged
  <2>2. CASE x # p
    <3>1. Judged(x) /\ (InUse(x)' => InUse(x)) /\ (x \in done' <=> x \in done)
      BY <1>4, <1>7, <2>2 DEF JudgeInv
    <3>2. /\ pk'[x].root = pk[x].root /\ pk'[x].rtv = pk[x].rtv /\ pk[x].rtv \in Nat
          /\ verdicts'[x] = verdicts[x]
      BY <1>1, <1>6, <2>2
    <3>3. /\ \A q \in Unseen(x)' : q \in done' => q \in Unseen(x) /\ q \in done
          /\ \A q \in Unseen(x) : q \notin done => q \in Unseen(x)' /\ q \notin done'
      BY <1>4, <1>8
    <3> QED BY <3>1, <3>2, <3>3, JudgedStays
  <2> QED BY <2>1, <2>2
<1>11. ASSUME NEW v \in Verdicter PROVE Leaves(v, vreg[v].p, RootOf(vreg[v].p))'
  <2>1. CASE vreg[v].pc # "count"
    BY <1>1, <2>1 DEF Leaves
  <2>2. CASE vreg[v].pc = "count"
    <3>1. PICK y \in Packet : y = vreg[v].p /\ VSet(y) # {}
      BY <1>2, <2>2 DEF VReg, VSet
    <3>2. PICK x \in Packet : x = RootOf(y) /\ ~Resting(y)
      BY <3>1, BeforeVerdict
    <3>3. pk'[y].root = pk[y].root
      BY <1>5, <1>6, <3>2
    <3>4. Leaves(v, y, x)
      BY <3>1, <3>2 DEF JudgeInv
    <3>5. Leaves(v, y, x)'
      BY <1>1, <1>4, <1>8, <3>4, LeavesStays
    <3>6. vreg'[v].p = y /\ RootOf(y)' = x
      BY <1>1, <3>1, <3>2, <3>3 DEF RootOf
    <3> QED BY <3>5, <3>6 DEF Leaves, RootOf
  <2> QED BY <2>1, <2>2
<1> QED BY <1>1, <1>2, <1>4, <1>7, <1>10, <1>11 DEF JudgeInv

LEMMA OneMoreAtMost ==
  ASSUME NEW S, IsFiniteSet(S), NEW y
  PROVE  /\ IsFiniteSet(S \cup {y}) /\ Cardinality(S \cup {y}) \in Nat
         /\ Cardinality(S \cup {y}) <= Cardinality(S) + 1
<1>1. Cardinality(S) \in Nat
  BY FS_CardinalityType
<1>2. CASE y \in S
  <2>1. S \cup {y} = S
    BY <1>2
  <2>2. Cardinality(S \cup {y}) = Cardinality(S) /\ IsFiniteSet(S \cup {y})
    BY <2>1
  <2> QED BY <1>1, <2>2
<1>3. CASE y \notin S
  <2>1. IsFiniteSet(S \cup {y}) /\ Cardinality(S \cup {y}) = Cardinality(S) + 1
    BY <1>3, FS_AddElement
  <2> QED BY <1>1, <2>1
<1> QED BY <1>2, <1>3

LEMMA VerdictInJudged ==
  ASSUME PacketPoolAssumption, OneVerdictThread, Inv, JudgeInv, NEW v \in Verdicter, VerdictIn(v)
  PROVE  JudgeInv'
<1>1. UNCHANGED <<pool, alloced, pk, verdicted, oreg, verdicts, done>>
  BY DEF VerdictIn, store, history
<1>2. /\ inspected \in Seq(Packet) /\ inspected # <<>> /\ vreg \in [Verdicter -> VReg]
      /\ pk \in [Packet -> Kept] /\ Counted
      /\ done \subseteq Packet /\ verdicts \in [Packet -> Nat]
  BY DEF Inv, Typed, VerdictIn, RootInv, JudgeInv
<1>3. PICK y \in Packet : y = Head(inspected) /\ Queued(y, inspected) > 0
  BY <1>2, QueuedSome
<1>4. PICK r \in Packet : /\ r = RootOf(y) /\ InUse(r) /\ pk[r].root = NULL
                          /\ y # r => pk[y].root = r
  BY <1>3, BeforeVerdict
<1>5. \A q \in Packet : Unseen(q)' = Unseen(q)
  BY <1>1 DEF Unseen
<1>6. \A q \in Packet : Passed(q)' => q \in done'
  BY <1>1 DEF JudgeInv, Passed, OSet, Queued
<1>7. \A q \in Packet : pk[q].rtv \in Nat /\ pk[q].tpr \in Nat
  BY <1>2 DEF Kept
<1>8. ASSUME NEW q \in Packet PROVE Judged(q)'
  BY <1>1, <1>5, <1>7, JudgedStays DEF JudgeInv, InUse
<1>9. vreg'[v].p = y /\ (vreg'[v].pc = "count" => ~IsReady(y))
  BY <1>2, <1>3 DEF VerdictIn
<1>10. Leaves(v, y, r)'
  <2>1. SUFFICES ASSUME vreg'[v].pc = "count", verdicts[r] = 0,
                        \A q \in Packet : q \notin done /\ q # y => q # r /\ q \notin Unseen(r)
                 PROVE  FALSE
    BY <1>1, <1>2, <1>5 DEF Leaves
  <2>2. pk[r].tpr > pk[r].rtv
    BY <1>4, <1>9, <2>1 DEF IsReady
  <2> DEFINE S == Unseen(r) \cap done
  <2>3. Cardinality(S) + In(r, done) <= pk[r].rtv /\ pk[r].tpr = Cardinality(Unseen(r))
    BY <1>2, <1>4, <2>1 DEF JudgeInv, Judged, Counted
  <2>4. Unseen(r) \subseteq Packet /\ IsFiniteSet(S) /\ IsFiniteSet(Unseen(r)) /\ Cardinality(S) \in Nat
    <3>1. Unseen(r) \subseteq Packet /\ S \subseteq Packet
      BY DEF Unseen
    <3> HIDE DEF S
    <3> QED BY <3>1, FS_Subset, FS_CardinalityType DEF PacketPoolAssumption
  <2>5. CASE y = r
    <3>1. r \notin Unseen(r)
      BY <1>4 DEF Unseen, PacketPoolAssumption
    <3>2. S = Unseen(r)
      BY <2>1, <2>4, <2>5, <3>1
    <3>3. In(r, done) \in {0, 1}
      BY DEF In
    <3> HIDE DEF S
    <3> QED BY <1>7, <2>2, <2>3, <2>4, <3>2, <3>3
  <2>6. CASE y # r
    <3>1. In(r, done) = 1
      BY <2>1, <2>6 DEF In
    <3>2. Unseen(r) \subseteq S \cup {y}
      BY <2>1, <2>4
    <3> HIDE DEF S
    <3>3. IsFiniteSet(S \cup {y}) /\ Cardinality(S \cup {y}) \in Nat /\ Cardinality(S \cup {y}) <= Cardinality(S) + 1
      BY <2>4, OneMoreAtMost
    <3>4. Cardinality(Unseen(r)) <= Cardinality(S \cup {y}) /\ Cardinality(Unseen(r)) \in Nat
      BY <2>4, <3>2, <3>3, FS_Subset, FS_CardinalityType
    <3> QED BY <1>7, <2>2, <2>3, <2>4, <3>1, <3>3, <3>4
  <2> QED BY <2>5, <2>6
<1>11. ASSUME NEW u \in Verdicter PROVE Leaves(u, vreg[u].p, RootOf(vreg[u].p))'
  <2>1. u = v
    BY DEF OneVerdictThread
  <2>2. RootOf(y)' = r
    BY <1>1, <1>4 DEF RootOf
  <2> QED BY <1>9, <1>10, <2>1, <2>2 DEF Leaves, RootOf
<1> QED BY <1>1, <1>2, <1>6, <1>8, <1>11 DEF JudgeInv

(* The packet goes on, with the verdict or counted.                        *)
LEMMA VerdictOutJudged ==
  ASSUME PacketPoolAssumption, OneVerdictThread, Inv, JudgeInv, NEW v \in Verdicter,
         SetVerdict(v) \/ CountReady(v)
  PROVE  JudgeInv'
<1>1. UNCHANGED <<pool, alloced, oreg>> /\ vreg[v].pc # "idle"
  BY DEF SetVerdict, CountReady, VerdictOut, store
<1>2. /\ verdicted \in Seq(Packet) /\ vreg \in [Verdicter -> VReg]
      /\ \A u \in Verdicter : vreg[u].pc = "idle" <=> vreg[u].p = NULL
      /\ pk \in [Packet -> Kept] /\ NULL \notin Packet
      /\ done \subseteq Packet /\ verdicts \in [Packet -> Nat]
  BY DEF Inv, Typed, JudgeInv, PacketPoolAssumption
<1>3. PICK y \in Packet : y = vreg[v].p /\ VSet(y) # {}
  BY <1>1, <1>2 DEF VReg, VSet
<1>4. PICK r \in Packet : /\ r = RootOf(y) /\ pk[r].root = NULL
                          /\ y # r => pk[y].root = r /\ y \in Unseen(r)
  BY <1>3, BeforeVerdict
<1>5. verdicted' = Append(verdicted, y) /\ vreg' = [vreg EXCEPT ![v] = Idle] /\ done' = done \cup {y}
  BY <1>3 DEF SetVerdict, CountReady, VerdictOut
<1>6. /\ \A q \in Packet : /\ pk'[q].root = pk[q].root /\ pk'[q].verdicted = pk[q].verdicted
                           /\ pk[q].rtv \in Nat
                           /\ q # r => pk'[q].rtv = pk[q].rtv /\ verdicts'[q] = verdicts[q]
      /\ verdicts' \in [Packet -> Nat]
      /\ \/ verdicts'[r] > 0
         \/ vreg[v].pc = "count" /\ pk'[r].rtv = pk[r].rtv + 1 /\ verdicts'[r] = verdicts[r]
  <2>1. CASE SetVerdict(v)
    <3>1. pk' = pk /\ verdicts' = [verdicts EXCEPT ![r] = @ + 1]
      BY <1>3, <1>4, <2>1 DEF SetVerdict
    <3> QED BY <1>2, <3>1 DEF Kept
  <2>2. CASE CountReady(v)
    <3>1. /\ pk' = [pk EXCEPT ![r].rtv = @ + 1] /\ verdicts' = verdicts /\ vreg[v].pc = "count"
      BY <1>3, <1>4, <2>2 DEF CountReady
    <3> QED BY <1>2, <3>1 DEF Kept
  <2> QED BY <2>1, <2>2
<1>7. \A q \in Packet : Unseen(q)' = Unseen(q)
  BY <1>1, <1>6 DEF Unseen
<1>8. \A q \in Packet : Passed(q)' => q \in done'
  <2> TAKE q \in Packet
  <2>1. Queued(q, verdicted') = Queued(q, verdicted) + Is(y, q) /\ Queued(q, verdicted) \in Nat
    BY <1>2, <1>5, Queueing
  <2>2. Queued(q, verdicted)' = Queued(q, verdicted') /\ OSet(q)' = OSet(q)
    BY <1>1 DEF Queued, OSet
  <2>3. CASE q = y
    BY <1>5, <2>3
  <2>4. CASE q # y
    <3>1. Is(y, q) = 0
      BY <2>4 DEF Is
    <3>2. Passed(q)' => Passed(q)
      BY <1>6, <2>1, <2>2, <3>1 DEF Passed
    <3> QED BY <1>5, <3>2 DEF JudgeInv
  <2> QED BY <2>3, <2>4
<1>9. ASSUME NEW q \in Packet, q # r PROVE Judged(q)'
  <2>1. CASE pk[q].root # NULL
    BY <1>6, <2>1 DEF Judged
  <2>2. CASE pk[q].root = NULL
    <3>1. q # y
      BY <1>4, <1>9, <2>2, <1>2
    <3>2. y \notin Unseen(q)
      BY <1>2, <1>4, <1>9 DEF Unseen
    <3>3. q \in done' <=> q \in done
      BY <1>5, <3>1
    <3>4. \A x \in Unseen(q) : x \in done' <=> x \in done
      BY <1>5, <3>2
    <3>5. Judged(q) /\ (InUse(q)' => InUse(q))
      BY <1>1 DEF JudgeInv, InUse
    <3> QED BY <1>6, <1>7, <1>9, <3>3, <3>4, <3>5, JudgedStays
  <2> QED BY <2>1, <2>2
<1>10. Judged(r)'
  <2> DEFINE S == Unseen(r) \cap done
             T == Unseen(r) \cap done'
  <2>1. Judged(r)' <=> (InUse(r)' /\ pk'[r].root = NULL /\ verdicts'[r] = 0 =>
                          /\ Cardinality(T) + In(r, done)' <= pk'[r].rtv
                          /\ r \in done' => Unseen(r) \ done' # {})
    BY <1>7 DEF Judged
  <2>2. SUFFICES ASSUME InUse(r)', verdicts'[r] = 0
                 PROVE  /\ Cardinality(T) + In(r, done)' <= pk'[r].rtv
                        /\ r \in done' => Unseen(r) \ done' # {}
    BY <2>1
  <2>3. vreg[v].pc = "count" /\ pk'[r].rtv = pk[r].rtv + 1 /\ verdicts[r] = 0 /\ InUse(r)
    BY <1>1, <1>6, <2>2 DEF InUse
  <2>4. Cardinality(S) + In(r, done) <= pk[r].rtv
    BY <1>4, <2>3 DEF JudgeInv, Judged
  <2>5. PICK q \in Packet : q \notin done /\ q # y /\ (q = r \/ q \in Unseen(r))
    BY <1>3, <1>4, <2>3 DEF JudgeInv, Leaves
  <2>6. r \in done' => Unseen(r) \ done' # {}
    BY <1>5, <2>5
  <2>7. IsFiniteSet(S) /\ Cardinality(S) \in Nat
    <3>1. S \subseteq Packet
      BY DEF Unseen
    <3> HIDE DEF S
    <3> QED BY <3>1, FS_Subset, FS_CardinalityType DEF PacketPoolAssumption
  <2>8. CASE y = r
    <3>1. T = S
      <4>1. y \notin Unseen(r)
        BY <1>2, <1>4, <2>8 DEF Unseen
      <4> QED BY <1>5, <4>1
    <3>2. In(r, done) \in {0, 1} /\ In(r, done)' = 1
      BY <1>5, <2>8 DEF In
    <3>3. In(r, done) = 0 \/ In(r, done) = 1
      BY <3>2
    <3> HIDE DEF S, T
    <3>4. Cardinality(T) = Cardinality(S)
      BY <3>1
    <3>5. Cardinality(T) + In(r, done)' <= pk'[r].rtv
      BY <1>6, <2>3, <2>4, <2>7, <3>2, <3>3, <3>4
    <3> QED BY <2>6, <3>5
  <2>9. CASE y # r
    <3>1. T \subseteq S \cup {y} /\ In(r, done)' = In(r, done) /\ In(r, done) \in {0, 1}
      BY <1>5, <2>9 DEF In
    <3> HIDE DEF S, T
    <3>2. IsFiniteSet(S \cup {y}) /\ Cardinality(S \cup {y}) \in Nat /\ Cardinality(S \cup {y}) <= Cardinality(S) + 1
      BY <2>7, OneMoreAtMost
    <3>3. Cardinality(T) <= Cardinality(S \cup {y}) /\ Cardinality(T) \in Nat
      BY <3>1, <3>2, FS_Subset, FS_CardinalityType
    <3>4. Cardinality(T) + In(r, done)' <= pk'[r].rtv
      BY <1>6, <2>3, <2>4, <2>7, <3>1, <3>2, <3>3
    <3> QED BY <2>6, <3>4
  <2> QED BY <2>8, <2>9
<1>11. ASSUME NEW u \in Verdicter PROVE Leaves(u, vreg[u].p, RootOf(vreg[u].p))'
  <2>1. u = v
    BY DEF OneVerdictThread
  <2>2. vreg'[v].pc = "idle"
    BY <1>2, <1>5 DEF Idle
  <2> QED BY <2>1, <2>2 DEF Leaves
<1> QED BY <1>2, <1>5, <1>6, <1>8, <1>9, <1>10, <1>11 DEF JudgeInv

(* TmqhOutputPacketpool gives packet x back, which was a root on its own,  *)
(* or one whose children have all come, or a child that was seen.          *)
Returned(x) ==
  /\ Passed(x) /\ PutBack(x) /\ Unseen(x) = {}
  /\ \A q \in Packet : x \notin Unseen(q)
  /\ \A o \in Outputter : oreg'[o].p = oreg[o].p \/ (oreg[o].p = x /\ oreg'[o].p = NULL)
  /\ UNCHANGED <<verdicted, inspected, vreg, verdicts, done>>

LEMMA RootIsReturned ==
  ASSUME PacketPoolAssumption, Inv, NEW o \in Outputter, OutputRoot(o)
  PROVE  \E x \in Packet : Returned(x)
<1>1. /\ pk \in [Packet -> Kept] /\ OneReturns /\ TunnelsOpen /\ oreg \in [Outputter -> OReg]
      /\ NULL \notin Packet
  BY DEF Inv, Typed, RootInv, PacketPoolAssumption
<1>2. /\ oreg[o].pc = "root" /\ oreg' = [oreg EXCEPT ![o].pc = "self"] /\ PutBack(pk[oreg[o].p].root)
      /\ UNCHANGED <<verdicted, inspected, vreg, verdicts, done>>
  BY DEF OutputRoot, queues, history
<1>3. PICK r \in Packet : Returns(o, r) /\ pk[r].verdicted = TRUE /\ Unseen(r) = {}
  BY <1>1, <1>2 DEF OneReturns
<1>4. PutBack(r)
  BY <1>2, <1>3 DEF Returns
<1>5. Passed(r)
  BY <1>3 DEF Passed
<1>6. \A q \in Packet : r \notin Unseen(q)
  BY <1>1, <1>3 DEF Unseen, TunnelsOpen
<1>7. \A u \in Outputter : oreg'[u].p = oreg[u].p
  BY <1>1, <1>2 DEF OReg
<1> QED BY <1>2, <1>3, <1>4, <1>5, <1>6, <1>7 DEF Returned

LEMMA SelfIsReturned ==
  ASSUME PacketPoolAssumption, Inv, NEW o \in Outputter, OutputSelf(o)
  PROVE  \E x \in Packet : Returned(x)
<1>1. /\ RootsStay /\ oreg \in [Outputter -> OReg] /\ NULL \notin Packet
      /\ \A u \in Outputter : oreg[u].pc = "idle" <=> oreg[u].p = NULL
  BY DEF Inv, Typed, RootInv, PacketPoolAssumption
<1>2. /\ oreg[o].pc = "self" /\ oreg' = [oreg EXCEPT ![o] = Idle] /\ PutBack(oreg[o].p)
      /\ UNCHANGED <<verdicted, inspected, vreg, verdicts, done>>
  BY DEF OutputSelf, queues, history
<1>3. PICK p \in Packet : p = oreg[o].p
  BY <1>1, <1>2 DEF OReg
<1>4. Passed(p) /\ \A q \in Packet : p \notin Unseen(q)
  BY <1>3 DEF Passed, OSet, Unseen
<1>5. Unseen(p) = {}
  BY <1>1, <1>3 DEF RootsStay
<1>6. \A u \in Outputter : oreg'[u].p = oreg[u].p \/ (oreg[u].p = p /\ oreg'[u].p = NULL)
  BY <1>1, <1>2, <1>3 DEF Idle
<1> QED BY <1>2, <1>3, <1>4, <1>5, <1>6 DEF Returned

LEMMA PassedInUse == ASSUME PacketPoolAssumption, Inv, NEW x \in Packet, Passed(x) PROVE InUse(x)
<1>1. Typed /\ InOnePlace
  BY DEF Inv
<1>2. Queued(x, verdicted) > 0 \/ OSet(x) # {} \/ pk[x].verdicted = TRUE
  BY DEF Passed
<1>3. ~Resting(x)
  BY <1>1, <1>2, Apart
<1> QED BY <1>1, <1>3 DEF Resting, InUse, Typed

(* A packet that is returned and is no child has a verdict: VerdictNFQ has *)
(* seen it, and no child is to come.                                       *)
LEMMA ReturnedHasVerdict ==
  ASSUME PacketPoolAssumption, Inv, JudgeInv, NEW x \in Packet, Returned(x), pk[x].root = NULL
  PROVE  verdicts[x] > 0
<1>1. InUse(x) /\ x \in done /\ Judged(x) /\ verdicts[x] \in Nat
  BY PassedInUse DEF Returned, JudgeInv
<1>2. Unseen(x) = {}
  BY DEF Returned
<1> QED BY <1>1, <1>2 DEF Judged

LEMMA ReturnedJudged ==
  ASSUME PacketPoolAssumption, Inv, JudgeInv, NEW x \in Packet, Returned(x)
  PROVE  JudgeInv'
<1>1. /\ pk \in [Packet -> Kept] /\ NULL \notin Packet /\ Typed
  BY DEF Inv, Typed, PacketPoolAssumption
<1>2. InUse(x)
  BY PassedInUse DEF Returned
<1>3. x \notin Extra \ alloced
  BY <1>2 DEF InUse
<1>4. /\ pk' = [pk EXCEPT ![x] = Fresh]
      /\ \A q \in Packet \ {x} : pool'[q] = pool[q] /\ (q \in Extra \ alloced' <=> q \in Extra \ alloced)
  BY <1>1, <1>3, Given DEF Returned
<1>5. ~InUse(x)'
  <2>1. CASE x \in Extra /\ alloced' = alloced \ {x}
    BY <2>1 DEF InUse
  <2>2. CASE pool' = [pool EXCEPT ![x] = @ + 1]
    BY <1>1, <1>2, <2>2 DEF InUse, Typed
  <2> QED BY <2>1, <2>2 DEF Returned, PutBack
<1>6. \A q \in Packet : InUse(q)' => InUse(q) /\ q # x
  BY <1>4, <1>5 DEF InUse
<1>7. /\ pk'[x].root = NULL /\ pk'[x].verdicted = FALSE
      /\ \A q \in Packet : q # x => pk'[q] = pk[q]
  BY <1>1, <1>4 DEF Fresh
<1>8. \A q \in Packet : OSet(q)' \subseteq OSet(q)
  BY <1>1 DEF Returned, OSet
<1>9. \A q \in Packet : Passed(q)' => Passed(q)
  <2> TAKE q \in Packet
  <2>1. Queued(q, verdicted)' = Queued(q, verdicted)
    BY DEF Returned, Queued
  <2> QED BY <1>7, <1>8, <2>1 DEF Passed, Returned
<1>10. \A r \in Packet : Unseen(r)' = Unseen(r)
  <2> TAKE r \in Packet
  <2>1. x \notin Unseen(r) /\ x \notin Unseen(r)'
    BY <1>1, <1>7 DEF Unseen, Returned
  <2>2. \A q \in Packet : q # x => (q \in Unseen(r)' <=> q \in Unseen(r))
    BY <1>1, <1>7 DEF Unseen, Returned
  <2> QED BY <2>1, <2>2 DEF Unseen
<1>11. \A q \in Packet : Queued(q, inspected) > 0 \/ VSet(q) # {} => q # x
  BY BeforeVerdict DEF Returned
<1>12. Beside
  BY <1>6, <1>7, <1>9, <1>10, <1>11 DEF Beside, Returned
<1> QED BY <1>12, BesideKeeps

---------------------------------------------------------------------------
LEMMA JudgeInvInit == ASSUME PacketPoolAssumption, Init PROVE JudgeInv
<1>1. /\ pool = [p \in Packet |-> IF p \in Pooled THEN 1 ELSE 0] /\ alloced = {} /\ done = {}
      /\ pk = [p \in Packet |-> Fresh] /\ verdicts = [p \in Packet |-> 0]
      /\ vreg = [v \in Verdicter |-> Idle] /\ oreg = [o \in Outputter |-> Idle] /\ verdicted = <<>>
  BY DEF Init
<1>2. \A p \in Packet : ~InUse(p)
  BY <1>1 DEF InUse, Packet
<1>3. \A p \in Packet : ~Passed(p)
  BY <1>1, QueuedEmpty DEF Passed, OSet, Idle, Fresh, PacketPoolAssumption
<1>4. \A v \in Verdicter : vreg[v].pc = "idle"
  BY <1>1 DEF Idle
<1> QED BY <1>1, <1>2, <1>3, <1>4 DEF JudgeInv, Judged, Leaves

LEMMA JudgeInvStep ==
  ASSUME PacketPoolAssumption, OneVerdictThread, Inv, JudgeInv, [Next]_vars
  PROVE  JudgeInv'
<1>1. CASE Receive
  BY <1>1, ReceiveJudged
<1>2. CASE Pseudo
  BY <1>2, PseudoJudged
<1>3. CASE ReceiveWait \/ Decode \/ DecodeOut \/ (\E d \in Detector : DetectStep(d)) \/ UNCHANGED vars
  BY <1>3, ServiceBeside, BesideKeeps
<1>4. ASSUME NEW v \in Verdicter, VerdictStep(v) PROVE JudgeInv'
  BY <1>4, VerdictInJudged, VerdictOutJudged DEF VerdictStep
<1>5. ASSUME NEW o \in Outputter, OutputStep(o) PROVE JudgeInv'
  <2>1. CASE OutputIn(o)
    BY <2>1, OutputInBeside, BesideKeeps
  <2>2. CASE OutputRoot(o)
    BY <2>2, RootIsReturned, ReturnedJudged
  <2>3. CASE OutputSelf(o)
    BY <2>3, SelfIsReturned, ReturnedJudged
  <2> QED BY <1>5, <2>1, <2>2, <2>3 DEF OutputStep
<1> QED BY <1>1, <1>2, <1>3, <1>4, <1>5 DEF Next, ReceiveStep, DecodeStep

(* Only the two returns of TmqhOutputPacketpool give a packet back.        *)
GivesBack(p) == pool'[p] > pool[p] \/ p \in alloced \ alloced'

LEMMA OnlyReturned ==
  ASSUME PacketPoolAssumption, Inv, [Next]_vars, NEW p \in Packet, GivesBack(p)
  PROVE  Returned(p)
<1>1. Typed /\ pool \in [Packet -> Nat]
  BY DEF Inv, Typed
<1>2. \A q \in Packet : ~GetPacket(q)
  BY <1>1 DEF GetPacket, GivesBack
<1>3. ~UNCHANGED store
  BY <1>1 DEF store, GivesBack
<1>4. \E o \in Outputter : OutputRoot(o) \/ OutputSelf(o)
  BY <1>2, <1>3 DEF Next, ReceiveStep, DecodeStep, DetectStep, VerdictStep, OutputStep, ReceiveWait, Receive,
     Decode, Pseudo, DecodeOut, DetectIn, DetectOut, VerdictIn, SetVerdict, CountReady, VerdictOut, OutputIn,
     vars, store
<1>5. PICK x \in Packet : Returned(x)
  BY <1>4, RootIsReturned, SelfIsReturned
<1>6. p = x
  BY <1>1, <1>5 DEF Returned, PutBack, GivesBack
<1> QED BY <1>5, <1>6

(* The kernel gets a verdict for every packet it queued before the packet  *)
(* is returned or freed, whichever member of its tunnel is the last.       *)
THEOREM EveryPacketIsJudged ==
  ASSUME PacketPoolAssumption, OneVerdictThread
  PROVE  Spec => NoPacketUnjudged
<1>1. Init => Inv /\ JudgeInv
  BY InitInv, JudgeInvInit
<1>2. Inv /\ JudgeInv /\ [Next]_vars => (Inv /\ JudgeInv)'
  BY NextInv, JudgeInvStep
<1>3. Inv /\ JudgeInv /\ [Next]_vars =>
        [\A p \in Packet : pk[p].root = NULL /\ (pool'[p] > pool[p] \/ p \in alloced \ alloced')
           => verdicts[p] > 0]_vars
  BY OnlyReturned, ReturnedHasVerdict DEF GivesBack
<1> QED BY <1>1, <1>2, <1>3, PTL DEF Spec, NoPacketUnjudged
=============================================================================
