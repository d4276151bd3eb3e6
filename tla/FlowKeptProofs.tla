--------------------------- MODULE FlowKeptProofs ---------------------------
(* No flow is lost, handed out twice or removed while a packet uses it,    *)
(* f->use_cnt and flow_memuse are exact.                                   *)
(*                                                                         *)
(* Each result is proved twice.  For one decoder thread, which is how      *)
(* RunModeIpsNFQAuto starts the engine, it needs no further hypothesis.    *)
(* For any number of decoder and stream threads it needs FreesUnheld: that *)
(* FlowUpdateSpareFlows frees no flow whose mutex is held.  The code does  *)
(* not see to that, since FlowPrune and FlowKill unlock a flow after they  *)
(* have put it into the spare queue.  A second decoder thread may by then  *)
(* have been given the same memory and lose the mutex it holds.            *)
(*                                                                         *)
(* At the end, with one decoder and no stream thread: the queues stay      *)
(* ordered by last seen time.                                              *)
EXTENDS FlowEngineProofs, FiniteSetTheorems

(* The decoder threads are one.                                            *)
OneDecoder == \E w : Worker = {w}

NoDup(s) == \A i, j \in 1 .. Len(s) : s[i] = s[j] => i = j

(***************************************************************************)
(* The list operations.                                                    *)
(***************************************************************************)

(* Unlinking removes the flow, for good, from a list without repetitions.  *)
LEMMA WithoutElems ==
  ASSUME NEW S, NEW s \in Seq(S), NoDup(s), NEW f \in Elems(s)
  PROVE  /\ NoDup(Without(s, f))
         /\ Elems(Without(s, f)) = Elems(s) \ {f}
<1> DEFINE k == L!IndexIn(s, f)
           v == Without(s, f)
           n == Len(s) - 1
<1>1. k \in 1 .. Len(s) /\ s[k] = f
  BY DEF Elems, L!Elems, L!IndexIn
<1>2. v = [j \in 1 .. n |-> IF j < k THEN s[j] ELSE s[j + 1]]
  BY DEF Without, L!Without
<1>3. v \in Seq(S) /\ n \in Nat /\ Len(v) = n
  BY <1>1, <1>2, WithoutSeq
<1>4. \A j \in 1 .. n : /\ j < k => v[j] = s[j]
                        /\ j >= k => v[j] = s[j + 1]
                        /\ j \in 1 .. Len(s) /\ j + 1 \in 1 .. Len(s)
  BY <1>1, <1>2
<1> HIDE DEF k, v
<1>5. NoDup(v)
  <2> SUFFICES ASSUME NEW i \in 1 .. n, NEW j \in 1 .. n, v[i] = v[j] PROVE i = j
    BY <1>3 DEF NoDup
  <2> DEFINE a == IF i < k THEN i ELSE i + 1
             b == IF j < k THEN j ELSE j + 1
  <2>1. a \in 1 .. Len(s) /\ s[a] = v[i]
    BY <1>1, <1>4
  <2>2. b \in 1 .. Len(s) /\ s[b] = v[j]
    BY <1>1, <1>4
  <2>3. a = b
    BY <2>1, <2>2 DEF NoDup
  <2> QED BY <1>1, <2>3
<1>6. ASSUME NEW g \in Elems(v) PROVE g \in Elems(s) /\ g # f
  <2>1. PICK j \in 1 .. n : v[j] = g
    BY <1>2 DEF Elems, L!Elems
  <2> DEFINE i == IF j < k THEN j ELSE j + 1
  <2>2. i \in 1 .. Len(s) /\ i # k /\ s[i] = g
    BY <1>1, <1>4, <2>1
  <2>3. s[i] # s[k]
    BY <1>1, <2>2 DEF NoDup
  <2> QED BY <1>1, <2>2, <2>3 DEF Elems, L!Elems
<1>7. ASSUME NEW g \in Elems(s), g # f PROVE g \in Elems(v)
  BY <1>7, WithoutKeeps DEF v
<1> QED BY <1>5, <1>6, <1>7 DEF v

LEMMA AppendNoDup ==
  ASSUME NEW S, NEW s \in Seq(S), NoDup(s), NEW f \in S, f \notin Elems(s)
  PROVE  NoDup(Append(s, f))
<1>1. Len(Append(s, f)) = Len(s) + 1 /\ Len(s) \in Nat
  OBVIOUS
<1>2. \A i \in 1 .. Len(s) : Append(s, f)[i] = s[i] /\ s[i] # f
  BY DEF Elems, L!Elems
<1>3. Append(s, f)[Len(s) + 1] = f
  OBVIOUS
<1> SUFFICES ASSUME NEW i \in 1 .. Len(s) + 1, NEW j \in 1 .. Len(s) + 1,
                    Append(s, f)[i] = Append(s, f)[j]
             PROVE  i = j
  BY <1>1 DEF NoDup
<1>4. i \in 1 .. Len(s) \/ i = Len(s) + 1
  BY <1>1
<1>5. j \in 1 .. Len(s) \/ j = Len(s) + 1
  BY <1>1
<1> QED BY <1>2, <1>3, <1>4, <1>5 DEF NoDup

(* FlowDequeue takes the bottom, FlowEnqueue adds at the top.              *)
LEMMA BottomTaken ==
  ASSUME NEW S, NEW s \in Seq(S), NoDup(s), s # <<>>
  PROVE  LET v == SubSeq(s, 1, Len(s) - 1) f == s[Len(s)] IN
         /\ f \in Elems(s) /\ NoDup(v) /\ Elems(v) = Elems(s) \ {f}
<1> DEFINE v == SubSeq(s, 1, Len(s) - 1)
           n == Len(s) - 1
<1>1. n \in Nat /\ Len(s) \in 1 .. Len(s) /\ DOMAIN s = 1 .. Len(s)
  OBVIOUS
<1>a. v \in Seq(S)
  BY <1>1
<1>b. Len(v) = n
  BY <1>1
<1>2. v \in Seq(S) /\ Len(v) = n /\ DOMAIN v = 1 .. n
  BY <1>1, <1>a, <1>b
<1>3. ASSUME NEW i \in 1 .. n PROVE v[i] = s[i] /\ i \in 1 .. Len(s) /\ i # Len(s)
  <2>1. i \in Int /\ 1 <= i /\ i <= n /\ Len(s) \in Nat
    OBVIOUS
  <2>2. i \in 1 .. Len(s) /\ i # Len(s)
    BY <2>1
  <2>3. v[i] = s[i]
    BY <2>1, <2>2
  <2> QED BY <2>2, <2>3
<1>4. NoDup(v)
  BY <1>2, <1>3 DEF NoDup
<1>5. s[Len(s)] \in Elems(s)
  BY <1>1 DEF Elems, L!Elems
<1>6. ASSUME NEW g \in Elems(v) PROVE g \in Elems(s) /\ g # s[Len(s)]
  <2>1. PICK i \in 1 .. n : v[i] = g
    BY <1>2 DEF Elems, L!Elems
  <2> QED BY <1>1, <1>3, <2>1 DEF Elems, L!Elems, NoDup
<1>7. ASSUME NEW g \in Elems(s), g # s[Len(s)] PROVE g \in Elems(v)
  <2>1. PICK i \in 1 .. Len(s) : s[i] = g
    BY <1>1 DEF Elems, L!Elems
  <2>2. i \in 1 .. n
    BY <1>1, <1>7, <2>1
  <2> QED BY <1>2, <1>3, <2>1, <2>2 DEF Elems, L!Elems
<1> QED BY <1>4, <1>5, <1>6, <1>7

LEMMA TopAdded ==
  ASSUME NEW S, NEW s \in Seq(S), NoDup(s), NEW f \in S, f \notin Elems(s)
  PROVE  NoDup(<<f>> \o s) /\ Elems(<<f>> \o s) = Elems(s) \cup {f}
<1> DEFINE v == <<f>> \o s
<1>1. v \in Seq(S) /\ Len(v) = Len(s) + 1 /\ Len(s) \in Nat
  OBVIOUS
<1>2. v[1] = f
  OBVIOUS
<1>3. \A i \in 1 .. Len(s) : v[i + 1] = s[i] /\ i + 1 \in 1 .. Len(v) /\ s[i] # f
  BY DEF Elems, L!Elems
<1>4. \A i \in 1 .. Len(v) : i = 1 \/ (i - 1 \in 1 .. Len(s) /\ v[i] = s[i - 1] /\ v[i] # f)
  <2> SUFFICES ASSUME NEW i \in 1 .. Len(v), i # 1
               PROVE  i - 1 \in 1 .. Len(s) /\ v[i] = s[i - 1] /\ v[i] # f
    OBVIOUS
  <2>1. i - 1 \in 1 .. Len(s) /\ (i - 1) + 1 = i
    BY <1>1
  <2> QED BY <1>3, <2>1
<1>5. NoDup(v)
  <2> SUFFICES ASSUME NEW i \in 1 .. Len(v), NEW j \in 1 .. Len(v), v[i] = v[j] PROVE i = j
    BY DEF NoDup
  <2>1. CASE i = 1 \/ j = 1
    BY <1>2, <1>4, <2>1
  <2>2. CASE i # 1 /\ j # 1
    <3> HIDE DEF v
    <3>1. i - 1 = j - 1
      BY <1>4, <2>2 DEF NoDup
    <3> QED BY <1>1, <3>1
  <2> QED BY <2>1, <2>2
<1>6. DOMAIN v = 1 .. Len(v) /\ DOMAIN s = 1 .. Len(s) /\ 1 \in 1 .. Len(v)
  BY <1>1
<1>7. Elems(v) = Elems(s) \cup {f}
  <2> HIDE DEF v
  <2>1. ASSUME NEW g \in Elems(v) PROVE g \in Elems(s) \cup {f}
    BY <1>2, <1>4, <1>6 DEF Elems, L!Elems
  <2>2. ASSUME NEW g \in Elems(s) \cup {f} PROVE g \in Elems(v)
    <3>1. CASE g = f
      BY <1>2, <1>6, <3>1 DEF Elems, L!Elems
    <3>2. ASSUME NEW i \in 1 .. Len(s), g = s[i] PROVE g \in Elems(v)
      <4>1. g = v[i + 1] /\ i + 1 \in 1 .. Len(v)
        BY <1>3, <3>2
      <4> QED BY <4>1 DEF Elems, L!Elems
    <3> QED BY <2>2, <3>1, <3>2 DEF Elems, L!Elems
  <2> QED BY <2>1, <2>2
<1> QED BY <1>5, <1>7

(***************************************************************************)
(* The invariant: where each flow is, who holds it and who counts it.      *)
(***************************************************************************)

At(t, S, f) == pc[t] \in S /\ reg[t].f = f

(* The places of the code where a thread holds f->m, has f in none of the  *)
(* queues, is removing f, and relies on f being in the hash.               *)
Holding == {"stream", "handle", "relink", "prune_fb", "prune_unlink", "prune_spare",
            "prune_unlock", "kill_spare", "kill_unlock"}
Carrying == {"got", "relink", "prune_spare", "kill_spare", "m_enq", "m_ff"}
Taking == {"prune_unlink", "prune_spare", "prune_unlock", "kill_spare", "kill_unlock"}
Inside == {"stream", "handle", "relink", "prune_fb"}
Late == {"prune_unlock", "kill_unlock"}
Working == HoldsFlow \ {"kill_walk"}

Lists(f) == {q \in Queue : InQueue(f, q)}
Hands(f) == {t \in Thread : At(t, Carrying, f)}
Users(f) == {t \in Worker : Uses(t, f)}

(* f->m is really held between its lock and unlock, with one exception:    *)
(* FlowPrune and FlowKill unlock a flow after they have put it into the    *)
(* spare queue, and FlowUpdateSpareFlows may have freed it by then.        *)
Broken(t, f) == At(t, Late, f) /\ Worker = {t}
Locked(f) ==
  \A t \in Thread : At(t, Holding, f) => fLock[f] = t \/ (fLock[f] = NULL /\ Broken(t, f))
Owned(f) == fLock[f] # NULL => At(fLock[f], Holding, f)
Unheld(f) == f \notin alloced => fLock[f] = NULL \/ \E t \in Thread : Broken(t, f)

(* An allocated flow is in one queue or in the hands of one thread.        *)
Placed(f) ==
  \/ f \in alloced /\ Hands(f) = {} /\ \E q \in Queue : Lists(f) = {q}
  \/ f \in alloced /\ Lists(f) = {} /\ \E t \in Thread : Hands(f) = {t}
  \/ f \notin alloced /\ Lists(f) = {} /\ Hands(f) = {}

(* A flow in the hash is in the queue its list flag names, and only the    *)
(* flows of the hash are in a queue other than the spare queue.            *)
Named(f) ==
  fb[f] # NULL =>
    /\ fl[f].key \in Key /\ fb[f] = HashOf[fl[f].key] /\ fl[f].lst \in State
    /\ InQueue(f, QueueOf(f)) \/ \E t \in Thread : At(t, {"relink"}, f)
Listed(f) ==
  \A q \in Queue \ {Spare} :
    InQueue(f, q) => \/ fb[f] # NULL /\ q = QueueOf(f)
                     \/ \E t \in Thread : At(t, {"prune_unlink"}, f)

(* FlowPrune unlinks a flow from the queue it found it in.                 *)
Pruned(f) ==
  \A t \in Thread : At(t, {"prune_fb", "prune_unlink"}, f) => InQueue(f, QueueAt(reg[t].qi))

(* A flow in use is in the hash, a flow on its way to the spare queue has  *)
(* left it.                                                                *)
Hashed(f) ==
  refs[f] > 0 \/ Users(f) # {} \/ (\E t \in Thread : At(t, Inside, f)) => fb[f] # NULL
Removed(f) == (\E t \in Thread : At(t, Taking, f)) => fb[f] = NULL

(* f->use_cnt counts the packets with p->flow = f and the decoder threads  *)
(* about to make one.                                                      *)
Counts(f) == refs[f] >= 0 /\ use_cnt[f] = refs[f] + Cardinality(Users(f))

FlowOK(f) ==
  /\ Locked(f) /\ Owned(f) /\ Unheld(f) /\ Placed(f) /\ Named(f) /\ Listed(f)
  /\ Pruned(f) /\ Hashed(f) /\ Removed(f) /\ Counts(f)

NoTwice == \A q \in Queue : NoDup(queue[q])

KeptInv == NoTwice /\ \A f \in Flow : FlowOK(f)

(***************************************************************************)
(* The queues after a list operation.                                      *)
(***************************************************************************)
Leaves(q, f) ==
  /\ NoTwice'
  /\ \A g \in Flow, p \in Queue : InQueue(g, p)' <=> InQueue(g, p) /\ ~(g = f /\ p = q)
Joins(q, f) ==
  /\ NoTwice'
  /\ \A g \in Flow, p \in Queue : InQueue(g, p)' <=> InQueue(g, p) \/ (g = f /\ p = q)
ListsStay ==
  /\ NoTwice'
  /\ \A g \in Flow, p \in Queue : InQueue(g, p)' <=> InQueue(g, p)

LEMMA ListsSame ==
  ASSUME NoTwice, UNCHANGED queue PROVE ListsStay
  BY DEF NoTwice, ListsStay, InQueue

LEMMA UnlinkedLeaves ==
  ASSUME TypeOK, NoTwice, NEW q \in Queue, NEW f \in Flow, InQueue(f, q), queue' = Unlinked(q, f)
  PROVE  Leaves(q, f)
<1>1. /\ queue[q] \in Seq(Flow) /\ NoDup(queue[q]) /\ f \in Elems(queue[q])
  BY DEF TypeOK, NoTwice, InQueue
<1>2. /\ NoDup(Without(queue[q], f))
      /\ Elems(Without(queue[q], f)) = Elems(queue[q]) \ {f}
  BY <1>1, WithoutElems
<1>3. \A p \in Queue : queue'[p] = IF p = q THEN Without(queue[q], f) ELSE queue[p]
  BY DEF Unlinked, TypeOK
<1> QED BY <1>2, <1>3 DEF Leaves, NoTwice, InQueue

LEMMA LinkedJoins ==
  ASSUME TypeOK, NoTwice, NEW q \in Queue, NEW f \in Flow, ~InQueue(f, q), queue' = Linked(q, f)
  PROVE  Joins(q, f)
<1>1. /\ queue[q] \in Seq(Flow) /\ NoDup(queue[q]) /\ f \notin Elems(queue[q])
  BY DEF TypeOK, NoTwice, InQueue
<1>2. NoDup(Append(queue[q], f)) /\ Elems(Append(queue[q], f)) = Elems(queue[q]) \cup {f}
  BY <1>1, AppendNoDup, AppendElems
<1>3. \A p \in Queue : queue'[p] = IF p = q THEN Append(queue[q], f) ELSE queue[p]
  BY DEF Linked, TypeOK
<1> QED BY <1>2, <1>3 DEF Joins, NoTwice, InQueue

LEMMA RotatedStays ==
  ASSUME TypeOK, NoTwice, NEW q \in Queue, NEW f \in Flow, InQueue(f, q), queue' = Rotated(q, f)
  PROVE  ListsStay
<1> DEFINE w == Without(queue[q], f)
<1>1. /\ queue[q] \in Seq(Flow) /\ NoDup(queue[q]) /\ f \in Elems(queue[q])
  BY DEF TypeOK, NoTwice, InQueue
<1>2. w \in Seq(Flow) /\ NoDup(w) /\ Elems(w) = Elems(queue[q]) \ {f}
  BY <1>1, WithoutElems, WithoutSeq
<1>3. \A p \in Queue : queue'[p] = IF p = q THEN Append(w, f) ELSE queue[p]
  BY DEF Rotated, TypeOK
<1> HIDE DEF w
<1>4. NoDup(Append(w, f))
  BY <1>2, AppendNoDup
<1>5. Elems(Append(w, f)) = Elems(w) \cup {f}
  BY <1>2, AppendElems
<1>6. Elems(Append(w, f)) = Elems(queue[q])
  BY <1>1, <1>2, <1>5
<1> QED BY <1>3, <1>4, <1>6 DEF ListsStay, NoTwice, InQueue

LEMMA SpareLeaves ==
  ASSUME TypeOK, NoTwice, queue[Spare] # <<>>, queue' = SpareTaken
  PROVE  SpareBot \in Flow /\ InQueue(SpareBot, Spare) /\ Leaves(Spare, SpareBot)
<1> DEFINE s == queue[Spare]
           v == SubSeq(s, 1, Len(s) - 1)
<1>1. Spare \in Queue /\ s \in Seq(Flow) /\ NoDup(s)
  BY DEF TypeOK, Queue, NoTwice
<1>2. SpareBot \in Elems(s) /\ NoDup(v) /\ Elems(v) = Elems(s) \ {SpareBot}
  BY <1>1, BottomTaken DEF SpareBot
<1>3. \A p \in Queue : queue'[p] = IF p = Spare THEN v ELSE queue[p]
  BY DEF SpareTaken, TypeOK
<1>4. SpareBot \in Flow
  BY SpareType
<1> HIDE DEF v
<1> QED BY <1>2, <1>3, <1>4 DEF Leaves, NoTwice, InQueue

LEMMA TopJoins ==
  ASSUME TypeOK, NoTwice, NEW f \in Flow, ~InQueue(f, Spare),
         queue' = [queue EXCEPT ![Spare] = <<f>> \o @]
  PROVE  Joins(Spare, f)
<1>1. Spare \in Queue /\ queue[Spare] \in Seq(Flow) /\ NoDup(queue[Spare]) /\ f \notin Elems(queue[Spare])
  BY DEF TypeOK, Queue, NoTwice, InQueue
<1>2. /\ NoDup(<<f>> \o queue[Spare])
      /\ Elems(<<f>> \o queue[Spare]) = Elems(queue[Spare]) \cup {f}
  BY <1>1, TopAdded
<1>3. \A p \in Queue : queue'[p] = IF p = Spare THEN <<f>> \o queue[Spare] ELSE queue[p]
  BY DEF TypeOK
<1> QED BY <1>2, <1>3 DEF Joins, NoTwice, InQueue

(***************************************************************************)
(* What one step of one thread leaves alone.                               *)
(***************************************************************************)
SameFlow(g) ==
  /\ (g \in alloced') = (g \in alloced)
  /\ fb'[g] = fb[g] /\ fl'[g].key = fl[g].key /\ fl'[g].lst = fl[g].lst
  /\ use_cnt'[g] = use_cnt[g] /\ refs'[g] = refs[g] /\ fLock'[g] = fLock[g]
  /\ \A q \in Queue : InQueue(g, q)' <=> InQueue(g, q)

LEMMA SetsSubsetsWorking ==
  /\ Holding \subseteq Working /\ Carrying \subseteq Working /\ Taking \subseteq Working
  /\ Inside \subseteq Working /\ {"lock", "handle", "relink"} \subseteq Working
  /\ {"relink"} \subseteq Working /\ {"prune_unlink"} \subseteq Working
  /\ {"prune_fb", "prune_unlink"} \subseteq Working /\ Late \subseteq Working
  BY DEF Late, Holding, Carrying, Taking, Inside, Working, HoldsFlow

(* The queue of a flow with an identity is one of the protocols' queues.   *)
LEMMA ProtoQueue ==
  ASSUME NEW k \in Key, NEW l \in State
  PROVE  <<l, ProtoOf[k]>> \in Queue \ {Spare}
<1>1. ProtoOf[k] \in 1 .. NProto
  BY FlowEngineAssumption
<1> QED BY <1>1 DEF Queue, Spare, State

LEMMA LockType ==
  ASSUME TypeOK, NEW f \in Flow
  PROVE  fLock[f] \in Thread \cup {NULL} /\ NULL \notin Thread
  BY FlowEngineAssumption DEF TypeOK

(* The other flows.                                                        *)
LEMMA OtherFlow ==
  ASSUME TypeOK, NEW t \in Thread, NEW l, NEW w, Moves(t, l, w),
         NEW g \in Flow, FlowOK(g), SameFlow(g),
         pc[t] \in Working => reg[t].f # g, l \in Working => w.f # g
  PROVE  FlowOK(g)'
<1>1. \A u \in Thread : IF u = t THEN pc'[u] = l /\ reg'[u] = w ELSE pc'[u] = pc[u] /\ reg'[u] = reg[u]
  BY DEF Moves, Goto, TypeOK
<1>2. ASSUME NEW S, S \subseteq Working, NEW u \in Thread PROVE At(u, S, g)' <=> At(u, S, g)
  BY <1>1, <1>2 DEF At
<1>a. \A u \in Thread :
        /\ At(u, Holding, g)' <=> At(u, Holding, g)
        /\ At(u, Carrying, g)' <=> At(u, Carrying, g)
        /\ At(u, Taking, g)' <=> At(u, Taking, g)
        /\ At(u, Inside, g)' <=> At(u, Inside, g)
        /\ At(u, {"relink"}, g)' <=> At(u, {"relink"}, g)
        /\ At(u, {"prune_unlink"}, g)' <=> At(u, {"prune_unlink"}, g)
        /\ At(u, {"prune_fb", "prune_unlink"}, g)' <=> At(u, {"prune_fb", "prune_unlink"}, g)
        /\ At(u, Late, g)' <=> At(u, Late, g)
  BY <1>2, SetsSubsetsWorking
<1>q. QueueOf(g)' = QueueOf(g)
  BY DEF SameFlow, QueueOf
<1>3. Locked(g)' /\ Owned(g)' /\ Unheld(g)'
  <2>1. Locked(g)'
    BY <1>a DEF FlowOK, SameFlow, Locked, Broken
  <2>2. Owned(g)'
    BY <1>a, LockType DEF FlowOK, SameFlow, Owned
  <2>3. Unheld(g)'
    BY <1>a DEF FlowOK, SameFlow, Unheld, Broken
  <2> QED BY <2>1, <2>2, <2>3
<1>4. Placed(g)'
  <2>1. Hands(g)' = Hands(g)
    BY <1>a DEF Hands
  <2>2. Lists(g)' = Lists(g)
    BY DEF Lists, SameFlow
  <2> QED BY <2>1, <2>2 DEF Placed, FlowOK, SameFlow
<1>5. Named(g)' /\ Listed(g)'
  <2>1. Listed(g)'
    BY <1>a, <1>q DEF FlowOK, SameFlow, Listed
  <2>2. CASE fb[g] # NULL
    <3>1. /\ fl[g].key \in Key /\ fb[g] = HashOf[fl[g].key] /\ fl[g].lst \in State
          /\ InQueue(g, QueueOf(g)) \/ \E u \in Thread : At(u, {"relink"}, g)
      BY <2>2 DEF FlowOK, Named
    <3>2. QueueOf(g) \in Queue
      BY <3>1, ProtoQueue DEF QueueOf
    <3>3. InQueue(g, QueueOf(g)) => g \in Elems(queue'[QueueOf(g)])
      BY <3>2 DEF SameFlow, InQueue
    <3> QED BY <1>a, <1>q, <2>1, <3>1, <3>3 DEF SameFlow, Named, InQueue
  <2>3. CASE fb[g] = NULL
    BY <2>1, <2>3 DEF SameFlow, Named
  <2> QED BY <2>1, <2>2, <2>3
<1>6. Pruned(g)'
  <2> SUFFICES ASSUME NEW u \in Thread, At(u, {"prune_fb", "prune_unlink"}, g)'
               PROVE  g \in Elems(queue'[QueueAt(reg'[u].qi)])
    BY DEF Pruned, InQueue
  <2>1. u # t /\ reg'[u] = reg[u] /\ At(u, {"prune_fb", "prune_unlink"}, g)
    BY <1>1, <1>a DEF At, Working, HoldsFlow
  <2>2. QueueAt(reg[u].qi) \in Queue
    BY QueueAtType DEF TypeOK, RegRec
  <2> QED BY <2>1, <2>2 DEF SameFlow, FlowOK, Pruned, InQueue
<1>u. Users(g)' = Users(g)
  BY <1>1 DEF Users, Uses, Thread, Working, HoldsFlow
<1>7. Hashed(g)' /\ Removed(g)'
  BY <1>a, <1>u DEF FlowOK, SameFlow, Hashed, Removed
<1>8. Counts(g)'
  BY <1>u DEF FlowOK, SameFlow, Counts
<1> QED BY <1>3, <1>4, <1>5, <1>6, <1>7, <1>8 DEF FlowOK

(* A step that touches no flow, or only flow f.                            *)
LEMMA OtherFlows ==
  ASSUME TypeOK, KeptInv, NEW t \in Thread, NEW l, NEW w, Moves(t, l, w), NEW f,
         pc[t] \in Working => reg[t].f = f, l \in Working => w.f = f,
         \A g \in Flow \ {f} : SameFlow(g)
  PROVE  \A g \in Flow \ {f} : FlowOK(g)'
  BY OtherFlow DEF KeptInv

QuietFlows == UNCHANGED <<alloced, queue, fb, fl, use_cnt, refs, fLock>>

LEMMA QuietStep ==
  ASSUME TypeOK, KeptInv, NEW t \in Thread, NEW l, NEW w, Moves(t, l, w),
         pc[t] \notin Working, l \notin Working, QuietFlows
  PROVE  KeptInv'
<1>1. ListsStay
  BY ListsSame DEF KeptInv, QuietFlows
<1>2. \A g \in Flow : SameFlow(g)
  BY <1>1 DEF SameFlow, ListsStay, QuietFlows
<1>3. \A g \in Flow : FlowOK(g)'
  BY <1>2, OtherFlow DEF KeptInv
<1> QED BY <1>1, <1>3 DEF KeptInv, ListsStay

(***************************************************************************)
(* The flow a step is about.                                               *)
(***************************************************************************)
OneMoves(t, l, w) ==
  /\ pc'[t] = l /\ reg'[t] = w
  /\ \A u \in Thread \ {t} : pc'[u] = pc[u] /\ reg'[u] = reg[u]

LEMMA MoveShape ==
  ASSUME TypeOK, NEW t \in Thread, NEW l, NEW w, Moves(t, l, w), NEW f
  PROVE  /\ OneMoves(t, l, w)
         /\ Hands(f)' = IF l \in Carrying /\ w.f = f THEN Hands(f) \cup {t} ELSE Hands(f) \ {t}
         /\ Users(f)' = IF t \in Worker /\ l \in {"lock", "handle", "relink"} /\ w.f = f
                        THEN Users(f) \cup {t} ELSE Users(f) \ {t}
<1>1. OneMoves(t, l, w)
  BY DEF OneMoves, Moves, Goto, TypeOK
<1>2. Hands(f)' = IF l \in Carrying /\ w.f = f THEN Hands(f) \cup {t} ELSE Hands(f) \ {t}
  BY <1>1 DEF OneMoves, Hands, At
<1>3. Users(f)' = IF t \in Worker /\ l \in {"lock", "handle", "relink"} /\ w.f = f
                 THEN Users(f) \cup {t} ELSE Users(f) \ {t}
  BY <1>1 DEF OneMoves, Users, Uses, Thread
<1> QED BY <1>1, <1>2, <1>3

LEMMA UsersFinite ==
  ASSUME NEW f PROVE IsFiniteSet(Users(f)) /\ Cardinality(Users(f)) \in Nat
<1>1. Users(f) \subseteq Worker /\ IsFiniteSet(Worker)
  BY FlowEngineAssumption DEF Users
<1> QED BY <1>1, FS_Subset, FS_CardinalityType

(* FlowIncrUsecnt when a decoder thread finds or takes a flow.             *)
LEMMA CountsJoin ==
  ASSUME TypeOK, NEW f \in Flow, Counts(f), NEW t, t \notin Users(f), Users(f)' = Users(f) \cup {t},
         use_cnt' = IncrUsecnt(f), UNCHANGED refs
  PROVE  Counts(f)'
<1>1. Cardinality(Users(f)') = Cardinality(Users(f)) + 1
  BY UsersFinite, FS_AddElement
<1> QED BY <1>1, UsersFinite DEF Counts, IncrUsecnt, TypeOK

LEMMA CountsStay ==
  ASSUME TypeOK, NEW f \in Flow, Counts(f), Users(f)' = Users(f),
         use_cnt'[f] = use_cnt[f], refs'[f] = refs[f]
  PROVE  Counts(f)'
  BY DEF Counts

(* The decoder thread is done: the packet counts for it.                   *)
LEMMA CountsPass ==
  ASSUME TypeOK, NEW f \in Flow, Counts(f), NEW t \in Users(f), Users(f)' = Users(f) \ {t},
         refs' = [refs EXCEPT ![f] = @ + 1], UNCHANGED use_cnt
  PROVE  Counts(f)'
<1>1. Cardinality(Users(f)') = Cardinality(Users(f)) - 1
  BY UsersFinite, FS_RemoveElement
<1> QED BY <1>1, UsersFinite DEF Counts, TypeOK

LEMMA PlacedStay ==
  ASSUME NEW f, Placed(f), Lists(f)' = Lists(f), Hands(f)' = Hands(f), (f \in alloced') = (f \in alloced)
  PROVE  Placed(f)'
  BY DEF Placed

(* Dequeued: f leaves its queue for the hands of t.                        *)
LEMMA PlacedTake ==
  ASSUME NEW f, Placed(f), NEW q \in Lists(f), Lists(f)' = Lists(f) \ {q},
         NEW t \in Thread, Hands(f)' = Hands(f) \cup {t}, UNCHANGED alloced
  PROVE  Placed(f)'
<1>1. f \in alloced /\ Hands(f) = {} /\ Lists(f) = {q}
  BY DEF Placed
<1>2. Lists(f)' = {} /\ Hands(f)' = {t}
  BY <1>1
<1> QED BY <1>1, <1>2 DEF Placed

(* Enqueued.                                                               *)
LEMMA PlacedPut ==
  ASSUME NEW f, Placed(f), NEW t \in Hands(f), Hands(f)' = Hands(f) \ {t},
         NEW q \in Queue, Lists(f)' = Lists(f) \cup {q}, UNCHANGED alloced
  PROVE  Placed(f)'
<1>1. f \in alloced /\ Lists(f) = {} /\ Hands(f) = {t}
  BY DEF Placed
<1>2. Lists(f)' = {q} /\ Hands(f)' = {}
  BY <1>1
<1> QED BY <1>1, <1>2 DEF Placed

(* A flow in the hash is allocated and not spare; a flow that is not       *)
(* allocated is not in the hash, nor is one in the hands of a thread other *)
(* than between the two halves of FlowRequeue.                             *)
LEMMA HashedFlow ==
  ASSUME TypeOK, NEW f \in Flow, FlowOK(f), fb[f] # NULL
  PROVE  /\ f \in alloced /\ ~InQueue(f, Spare)
         /\ \A t \in Thread : At(t, Carrying, f) => pc[t] = "relink"
         /\ QueueOf(f) \in Queue \ {Spare}
<1>1. /\ fl[f].key \in Key /\ fl[f].lst \in State
      /\ InQueue(f, QueueOf(f)) \/ \E t \in Thread : At(t, {"relink"}, f)
  BY DEF FlowOK, Named
<1>2. QueueOf(f) \in Queue \ {Spare}
  BY <1>1, ProtoQueue DEF QueueOf
<1>3. Spare \in Queue
  BY DEF Queue
<1>4. CASE InQueue(f, QueueOf(f))
  <2>1. QueueOf(f) \in Lists(f)
    BY <1>2, <1>4 DEF Lists
  <2>2. f \in alloced /\ Hands(f) = {} /\ Lists(f) = {QueueOf(f)}
    BY <2>1 DEF FlowOK, Placed
  <2> QED BY <1>2, <1>3, <2>2 DEF Lists, Hands
<1>5. ASSUME NEW t \in Thread, At(t, {"relink"}, f)
      PROVE  f \in alloced /\ Lists(f) = {} /\ Hands(f) = {t} /\ pc[t] = "relink"
  <2>1. t \in Hands(f) /\ pc[t] = "relink"
    BY <1>5 DEF Hands, At, Carrying
  <2> QED BY <2>1 DEF FlowOK, Placed
<1> QED BY <1>1, <1>2, <1>3, <1>4, <1>5 DEF Lists, Hands

LEMMA Alone ==
  ASSUME TypeOK, NEW f \in Flow, FlowOK(f), NEW t \in Thread,
         fLock[f] = t \/ (fLock[f] = NULL /\ (t \in Worker \/ fb[f] # NULL))
  PROVE  \A u \in Thread \ {t} : ~At(u, Holding, f)
<1> SUFFICES ASSUME NEW u \in Thread \ {t}, At(u, Holding, f) PROVE FALSE
  OBVIOUS
<1>1. fLock[f] = NULL /\ At(u, Late, f) /\ Worker = {u}
  BY FlowEngineAssumption DEF FlowOK, Locked, Broken
<1>2. fb[f] # NULL
  BY <1>1, FlowEngineAssumption
<1>3. At(u, Taking, f)
  BY <1>1 DEF At, Late, Taking
<1> QED BY <1>2, <1>3 DEF FlowOK, Removed

(* A thread in the middle of its work on f really has f->m.                *)
LEMMA HeldAt ==
  ASSUME TypeOK, NEW f \in Flow, FlowOK(f), NEW t \in Thread, At(t, Holding \ Late, f)
  PROVE  fLock[f] = t /\ t # NULL /\ At(t, Holding, f)
<1>1. At(t, Holding, f) /\ ~At(t, Late, f)
  BY DEF At
<1> QED BY <1>1, LockType DEF FlowOK, Locked, Broken

(* f->m stays as it is while a thread without it goes by.                  *)
LEMMA LockStays ==
  ASSUME TypeOK, NEW f \in Flow, FlowOK(f), NEW t \in Thread, NEW l, NEW w, Moves(t, l, w),
         pc[t] \notin Holding, l \notin Holding, fLock'[f] = fLock[f]
  PROVE  Locked(f)' /\ Owned(f)'
<1>1. OneMoves(t, l, w)
  BY DEF OneMoves, Moves, Goto, TypeOK
<1>2. \A u \in Thread : (At(u, Holding, f)' <=> At(u, Holding, f)) /\ (At(u, Holding, f) => u # t)
  BY <1>1 DEF OneMoves, At
<1>3. Owned(f)'
  BY <1>2, LockType DEF FlowOK, Owned
<1>4. Locked(f)'
  <2> SUFFICES ASSUME NEW u \in Thread, At(u, Holding, f)'
               PROVE  fLock'[f] = u \/ (fLock'[f] = NULL /\ Broken(u, f)')
    BY DEF Locked
  <2>1. u # t /\ (fLock[f] = u \/ (fLock[f] = NULL /\ Broken(u, f)))
    BY <1>2 DEF FlowOK, Locked
  <2> QED BY <1>1, <2>1 DEF OneMoves, Broken, At
<1> QED BY <1>3, <1>4

(* A step of thread t that leaves f where it is: f->m, the counts and the  *)
(* place of t in the code are what may change.                             *)
InPlaceStep(t, l, w, f) ==
  /\ Moves(t, l, w) /\ ListsStay
  /\ pc[t] \notin Carrying \cup {"prune_unlink"} /\ l \notin Carrying \cup Taking
  /\ pc[t] \in Working => reg[t].f = f
  /\ l \in Working => w.f = f
  /\ UNCHANGED <<alloced, fb>> /\ fl'[f].key = fl[f].key /\ fl'[f].lst = fl[f].lst
  /\ \A g \in Flow \ {f} : /\ fl'[g] = fl[g] /\ use_cnt'[g] = use_cnt[g]
                            /\ refs'[g] = refs[g] /\ fLock'[g] = fLock[g]

LEMMA StepInPlace ==
  ASSUME TypeInv, TypeOK', KeptInv,
         NEW t \in Thread, NEW l, NEW w, NEW f \in Flow, InPlaceStep(t, l, w, f),
         l \in Holding => fLock'[f] = t,
         fLock'[f] = t => l \in Holding, fLock'[f] \in {t, NULL, fLock[f]},
         \A u \in Thread \ {t} : At(u, Holding, f) => fLock'[f] = fLock[f],
         f \notin alloced => fLock'[f] = NULL,
         l = "prune_fb" => InQueue(f, QueueAt(w.qi)),
         l \in Inside \cup {"lock"} \/ refs'[f] > 0 => fb[f] # NULL,
         Counts(f)'
  PROVE  KeptInv'
<1>t. TypeOK /\ FlowOK(f)
  BY DEF TypeInv, KeptInv
<1>s. OneMoves(t, l, w) /\ Hands(f)' = Hands(f)
  <2>1. OneMoves(t, l, w) /\ Hands(f)' = Hands(f) \ {t}
    BY <1>t, MoveShape DEF InPlaceStep
  <2>2. t \notin Hands(f)
    BY DEF InPlaceStep, Hands, At
  <2> QED BY <2>1, <2>2
<1>1. \A g \in Flow \ {f} : FlowOK(g)'
  <2>1. \A g \in Flow \ {f} : SameFlow(g)
    BY DEF InPlaceStep, SameFlow, ListsStay
  <2> QED BY <1>t, <2>1, OtherFlows DEF InPlaceStep
<1>2. Locked(f)' /\ Owned(f)' /\ Unheld(f)'
  <2>1. Locked(f)'
    <3> SUFFICES ASSUME NEW u \in Thread, At(u, Holding, f)'
                 PROVE  fLock'[f] = u \/ (fLock'[f] = NULL /\ Broken(u, f)')
      BY DEF Locked
    <3>1. CASE u = t
      BY <1>s, <3>1 DEF OneMoves, At
    <3>2. CASE u # t
      BY <1>t, <1>s, <3>2 DEF FlowOK, Locked, Broken, OneMoves, At
    <3> QED BY <3>1, <3>2
  <2>2. Owned(f)'
    BY <1>t, <1>s, LockType DEF FlowOK, Owned, OneMoves, At, InPlaceStep, Holding, Working, HoldsFlow
  <2>3. Unheld(f)'
    BY DEF Unheld, InPlaceStep
  <2> QED BY <2>1, <2>2, <2>3
<1>3. Placed(f)'
  BY <1>t, <1>s, PlacedStay DEF InPlaceStep, FlowOK, Lists, ListsStay
<1>q. QueueOf(f)' = QueueOf(f) /\ (fb[f] # NULL => QueueOf(f) \in Queue)
  BY <1>t, HashedFlow DEF QueueOf, InPlaceStep
<1>4. Named(f)'
  <2>1. CASE fb[f] = NULL
    BY <2>1 DEF InPlaceStep, Named
  <2>2. CASE fb[f] # NULL
    <3>1. /\ fl[f].key \in Key /\ fb[f] = HashOf[fl[f].key] /\ fl[f].lst \in State
          /\ InQueue(f, QueueOf(f)) \/ \E u \in Thread : At(u, {"relink"}, f)
      BY <1>t, <2>2 DEF FlowOK, Named
    <3>2. InQueue(f, QueueOf(f)) => f \in Elems(queue'[QueueOf(f)])
      BY <1>q, <2>2 DEF InPlaceStep, ListsStay, InQueue
    <3>3. ASSUME NEW u \in Thread, At(u, {"relink"}, f) PROVE At(u, {"relink"}, f)'
      BY <1>s, <3>3 DEF At, OneMoves, InPlaceStep, Carrying
    <3> QED BY <1>q, <3>1, <3>2, <3>3 DEF InPlaceStep, Named, InQueue
  <2> QED BY <2>1, <2>2
<1>5. Listed(f)'
  <2> SUFFICES ASSUME NEW q \in Queue \ {Spare}, f \in Elems(queue'[q])
               PROVE  \/ fb'[f] # NULL /\ q = QueueOf(f)'
                      \/ \E u \in Thread : At(u, {"prune_unlink"}, f)'
    BY DEF Listed, InQueue
  <2>1. InQueue(f, q)
    BY DEF InPlaceStep, ListsStay, InQueue
  <2>2. CASE fb[f] # NULL /\ q = QueueOf(f)
    BY <2>2, <1>q DEF InPlaceStep
  <2>3. ASSUME NEW u \in Thread, At(u, {"prune_unlink"}, f) PROVE At(u, {"prune_unlink"}, f)'
    BY <1>s, <2>3 DEF At, OneMoves, InPlaceStep
  <2> QED BY <1>t, <2>1, <2>2, <2>3 DEF FlowOK, Listed
<1>6. Pruned(f)'
  <2> SUFFICES ASSUME NEW u \in Thread, At(u, {"prune_fb", "prune_unlink"}, f)'
               PROVE  f \in Elems(queue'[QueueAt(reg'[u].qi)])
    BY DEF Pruned, InQueue
  <2>1. InQueue(f, QueueAt(reg'[u].qi))
    BY <1>t, <1>s DEF FlowOK, Pruned, OneMoves, At, InPlaceStep, Taking
  <2>2. reg'[u] \in RegRec
    BY DEF TypeOK
  <2>3. QueueAt(reg'[u].qi) \in Queue
    BY <2>2, QueueAtType DEF RegRec
  <2> QED BY <2>1, <2>3 DEF InPlaceStep, ListsStay, InQueue
<1>7. Hashed(f)' /\ Removed(f)'
  <2>1. Removed(f)'
    BY <1>t, <1>s DEF FlowOK, Removed, OneMoves, At, InPlaceStep
  <2>2. Hashed(f)'
    <3>1. Users(f)' \subseteq Users(f) \cup IF l \in Inside \cup {"lock"} THEN {t} ELSE {}
      BY <1>s DEF Users, Uses, OneMoves, Thread, Inside
    <3> QED BY <1>t, <1>s, <3>1 DEF FlowOK, Hashed, OneMoves, At, InPlaceStep
  <2> QED BY <2>1, <2>2
<1>8. FlowOK(f)'
  BY <1>2, <1>3, <1>4, <1>5, <1>6, <1>7 DEF FlowOK
<1> QED BY <1>1, <1>8 DEF KeptInv, InPlaceStep, ListsStay

(***************************************************************************)
(* Steps that only move a thread.                                          *)
(***************************************************************************)
Away(t) == \E l, v : Moves(t, l, v) /\ l \notin Working

LEMMA AwayKept ==
  ASSUME TypeInv, KeptInv, NEW t \in Thread, pc[t] \notin Working, Away(t), QuietFlows
  PROVE  KeptInv'
  BY QuietStep DEF Away, TypeInv

LEMMA ContinueAway ==
  ASSUME TypeOK, NEW t \in Worker, NEW w \in RegRec, Continue(t, w)
  PROVE  Away(t)
<1>1. ContinueShape(t, w)
  BY ContinueMoves
<1>2. CASE GiveUp(t)
  <2>1. Moves(t, "idle", NoReg)
    BY <1>2, GiveUpType DEF Thread
  <2> QED BY <2>1 DEF Away, Working, HoldsFlow
<1>3. ASSUME NEW l \in {"prune", "kill", "alloc"}, NEW v, Moves(t, l, v) PROVE Away(t)
  BY <1>3 DEF Away, Working, HoldsFlow
<1> QED BY <1>1, <1>2, <1>3 DEF ContinueShape

LEMMA PruneAway ==
  ASSUME TypeOK, NEW t \in Thread \ Streamer, NEW r \in {0, 1}, PruneReturn(t, r)
  PROVE  Away(t)
<1>t. reg[t] \in RegRec
  BY DEF TypeOK
<1>1. CASE t # Mgr
  <2>1. t \in Worker /\ Continue(t, [reg[t] EXCEPT !.f = NULL, !.got = @ + r])
    BY <1>1 DEF PruneReturn, Thread
  <2>2. [reg[t] EXCEPT !.f = NULL, !.got = @ + r] \in RegRec
    BY <1>t, RegAfterPrune
  <2> QED BY <2>1, <2>2, ContinueAway
<1>2. CASE t = Mgr
  <2>1. PICK l \in {"prune", "m_recover"}, v \in RegRec : Moves(t, l, v)
    BY <1>2, PruneReturnMoves DEF PruneShape
  <2> QED BY <2>1 DEF Away, Working, HoldsFlow
<1> QED BY <1>1, <1>2

LEMMA TryType ==
  ASSUME TypeOK, NEW t \in Thread
  PROVE  Try(t) \in RegRec /\ Try(t).key = reg[t].key /\ Try(t).qi = reg[t].qi /\ Try(t).stage = reg[t].stage
<1>1. reg[t] \in RegRec
  BY DEF TypeOK
<1>2. reg[t].try - 1 \in Int
  BY <1>1 DEF RegRec
<1>3. /\ [reg[t] EXCEPT !.try = @ - 1] \in RegRec /\ [reg[t] EXCEPT !.try = @ - 1].key = reg[t].key
      /\ [reg[t] EXCEPT !.try = @ - 1].qi = reg[t].qi /\ [reg[t] EXCEPT !.try = @ - 1].stage = reg[t].stage
  BY <1>1, <1>2 DEF RegRec
<1> QED BY <1>1, <1>3 DEF Try

(***************************************************************************)
(* The lookup and the spare queue.                                         *)
(***************************************************************************)

(* A flow that is found in the hash gets one more user.                    *)
LEMMA FoundKept ==
  ASSUME TypeInv, TypeOK', KeptInv, NEW t \in Worker, pc[t] = "bucket", NEW f \in Match(t),
         use_cnt' = IncrUsecnt(f), reg' = [reg EXCEPT ![t].f = f], Goto(t, "lock"),
         UNCHANGED <<alloced, queue, fb, fl, refs, fLock>>
  PROVE  KeptInv'
<1> DEFINE w == [reg[t] EXCEPT !.f = f]
<1>t. t \in Thread /\ TypeOK /\ reg[t] \in RegRec /\ f \in Flow /\ fb[f] # NULL /\ FlowOK(f)
  <2>1. reg[t].key \in Key
    BY DEF TypeInv, HasKey
  <2>2. HashOf[reg[t].key] # NULL
    BY <2>1, FlowEngineAssumption
  <2> QED BY <2>2 DEF Thread, TypeInv, TypeOK, Match, InChain, KeptInv
<1>m. Moves(t, "lock", w) /\ w.f = f
  BY <1>t DEF Moves, RegRec
<1> HIDE DEF w
<1>i. InPlaceStep(t, "lock", w, f)
  <2>1. ListsStay
    BY ListsSame DEF KeptInv
  <2> QED BY <1>t, <1>m, <2>1 DEF InPlaceStep, IncrUsecnt, TypeOK, Carrying, Taking, Working, HoldsFlow
<1>c. Counts(f)'
  <2>1. Users(f)' = Users(f) \cup {t}
    BY <1>t, <1>m, MoveShape
  <2>2. t \notin Users(f)
    BY DEF Users, Uses
  <2> QED BY <1>t, <2>1, <2>2, CountsJoin DEF FlowOK
<1>1. "lock" \notin Holding /\ "bucket" \notin Holding
  BY DEF Holding
<1>2. f \in alloced /\ fLock'[f] # t
  BY <1>t, <1>1, HashedFlow, LockType DEF FlowOK, Owned, At
<1> QED BY <1>t, <1>i, <1>c, <1>1, <1>2, StepInPlace

LEMMA LockFlowKept ==
  ASSUME TypeInv, TypeOK', KeptInv, NEW t \in Worker, LockFlow(t)
  PROVE  KeptInv'
<1>f. PICK f \in Flow : f = reg[t].f
  BY DEF LockFlow, Thread, TypeInv, HasFlow, HoldsFlow
<1>t. t \in Thread /\ TypeOK /\ reg[t].f = f /\ FlowOK(f) /\ pc[t] = "lock" /\ fLock[f] = NULL
  BY <1>f DEF LockFlow, Thread, TypeInv, TypeOK, KeptInv
<1>m. Moves(t, "handle", reg[t]) /\ fLock' = [fLock EXCEPT ![f] = t]
  BY <1>f, <1>t DEF LockFlow, Moves, TypeOK
<1>u. UNCHANGED <<alloced, queue, fb, fl, use_cnt, refs>>
  BY DEF LockFlow, heapVars
<1>h. fb[f] # NULL /\ f \in alloced
  <2>1. t \in Users(f)
    BY <1>t DEF Users, Uses
  <2>2. fb[f] # NULL
    BY <1>t, <2>1 DEF FlowOK, Hashed
  <2> QED BY <1>t, <2>2, HashedFlow
<1>a. \A u \in Thread \ {t} : ~At(u, Holding, f)
  BY <1>t, Alone
<1>i. InPlaceStep(t, "handle", reg[t], f)
  <2>1. ListsStay
    BY <1>u, ListsSame DEF KeptInv
  <2> QED BY <1>t, <1>m, <1>u, <2>1 DEF InPlaceStep, TypeOK, Carrying, Taking
<1>c. Counts(f)'
  <2>1. Users(f)' = Users(f) \cup {t}
    BY <1>t, <1>m, MoveShape
  <2>2. t \in Users(f)
    BY <1>t DEF Users, Uses
  <2> QED BY <1>t, <1>u, <2>1, <2>2, CountsStay DEF FlowOK
<1>1. fLock'[f] = t /\ "handle" \in Holding
  BY <1>t, <1>m DEF TypeOK, Holding
<1> QED BY <1>t, <1>i, <1>c, <1>h, <1>a, <1>1, StepInPlace

(* FlowDequeue of the spare queue.                                         *)
LEMMA SpareTakenKept ==
  ASSUME TypeInv, TypeOK', KeptInv, NEW t \in Thread, pc[t] \in {"getnew", "m_free"},
         NEW l \in {"got", "m_ff"}, queue[Spare] # <<>>, queue' = SpareTaken,
         reg' = [reg EXCEPT ![t].f = SpareBot], Goto(t, l),
         UNCHANGED <<alloced, fb, fl, use_cnt, refs, fLock>>
  PROVE  KeptInv'
<1>t. TypeOK /\ reg[t] \in RegRec /\ NoTwice /\ \A g \in Flow : FlowOK(g)
  BY DEF TypeInv, TypeOK, KeptInv
<1>f. PICK f \in Flow : f = SpareBot
  BY <1>t, SpareType
<1>q. InQueue(f, Spare) /\ Leaves(Spare, f) /\ FlowOK(f)
  BY <1>t, <1>f, SpareLeaves DEF Leaves, InQueue
<1> DEFINE w == [reg[t] EXCEPT !.f = f]
<1>m. Moves(t, l, w) /\ w.f = f
  BY <1>t, <1>f DEF Moves, RegRec
<1> HIDE DEF w
<1>s. OneMoves(t, l, w) /\ Hands(f)' = Hands(f) \cup {t} /\ Users(f)' = Users(f) \ {t} /\ t \notin Users(f)
  <2>1. /\ OneMoves(t, l, w)
        /\ Hands(f)' = IF l \in Carrying /\ w.f = f THEN Hands(f) \cup {t} ELSE Hands(f) \ {t}
        /\ Users(f)' = IF t \in Worker /\ l \in {"lock", "handle", "relink"} /\ w.f = f
                        THEN Users(f) \cup {t} ELSE Users(f) \ {t}
    BY <1>t, <1>m, <1>q, MoveShape
  <2>2. l \in Carrying /\ l \notin {"lock", "handle", "relink"} /\ t \notin Users(f)
    BY DEF Carrying, Users, Uses
  <2> QED BY <1>m, <2>1, <2>2
<1>h. fb[f] = NULL
  BY <1>t, <1>q, HashedFlow
<1>1. \A g \in Flow \ {f} : FlowOK(g)'
  <2>1. \A g \in Flow \ {f} : SameFlow(g)
    BY <1>q DEF SameFlow, Leaves
  <2>2. pc[t] \notin Working
    BY DEF Working, HoldsFlow
  <2> QED BY <1>t, <1>m, <2>1, <2>2, OtherFlows
<1>2. Locked(f)' /\ Owned(f)' /\ Unheld(f)'
  <2>1. pc[t] \notin Holding /\ l \notin Holding
    BY DEF Holding
  <2>2. f \in alloced
    <3>1. Spare \in Lists(f)
      BY <1>q DEF Lists, Queue
    <3> QED BY <1>q, <3>1 DEF FlowOK, Placed
  <2>3. Locked(f)' /\ Owned(f)'
    BY <1>t, <1>q, <1>m, <2>1, LockStays
  <2> QED BY <2>2, <2>3 DEF Unheld
<1>3. Placed(f)'
  <2>1. Spare \in Lists(f) /\ Lists(f)' = Lists(f) \ {Spare}
    BY <1>q DEF Lists, Leaves, Queue
  <2> QED BY <1>q, <1>s, <2>1, PlacedTake DEF FlowOK
<1>4. Named(f)' /\ Removed(f)'
  BY <1>h DEF Named, Removed
<1>5. Listed(f)'
  BY <1>q, <1>s, <1>h DEF FlowOK, Listed, OneMoves, At, Leaves, InQueue
<1>6. Pruned(f)'
  <2> SUFFICES ASSUME NEW u \in Thread, At(u, {"prune_fb", "prune_unlink"}, f)'
               PROVE  f \in Elems(queue'[QueueAt(reg'[u].qi)])
    BY DEF Pruned, InQueue
  <2>1. u # t /\ reg'[u] = reg[u] /\ InQueue(f, QueueAt(reg[u].qi))
    BY <1>q, <1>s DEF FlowOK, Pruned, OneMoves, At
  <2>2. QueueAt(reg[u].qi) \in Queue \ {Spare}
    BY <1>t, QueueAtType DEF TypeOK, RegRec
  <2> QED BY <1>q, <2>1, <2>2 DEF Leaves, InQueue
<1>7. Hashed(f)'
  BY <1>q, <1>s DEF FlowOK, Hashed, OneMoves, At, Inside
<1>8. Counts(f)'
  BY <1>t, <1>q, <1>s, CountsStay DEF FlowOK
<1>9. FlowOK(f)'
  BY <1>2, <1>3, <1>4, <1>5, <1>6, <1>7, <1>8 DEF FlowOK
<1> QED BY <1>1, <1>9, <1>q DEF KeptInv, Leaves

LEMMA LookupKept ==
  ASSUME TypeInv, TypeOK', KeptInv, NEW t \in Worker,
         Arrive(t) \/ LockBucket(t) \/ LockFlow(t) \/ GetNew(t) \/ CheckMemcap(t)
  PROVE  KeptInv'
<1>t. t \in Thread /\ TypeOK /\ reg[t] \in RegRec
  BY DEF Thread, TypeInv, TypeOK
<1>1. CASE Arrive(t)
  <2>1. Away(t)
    <3>1. PICK v : reg' = [reg EXCEPT ![t] = v]
      BY <1>1 DEF Arrive
    <3>2. Moves(t, "bucket", v)
      BY <1>1, <3>1 DEF Arrive, Moves
    <3> QED BY <3>2 DEF Away, Working, HoldsFlow
  <2> QED BY <1>1, <1>t, <2>1, AwayKept DEF Arrive, QuietFlows, heapVars, lockVars, Working, HoldsFlow
<1>2. CASE LockBucket(t)
  <2>0. UNCHANGED <<alloced, queue, fb, fl, refs, fLock>> /\ pc[t] = "bucket"
    BY <1>2 DEF LockBucket, heapVars
  <2>1. CASE Goto(t, "getnew") /\ UNCHANGED <<reg, use_cnt>>
    <3>1. Moves(t, "getnew", reg[t])
      BY <2>1, <1>t DEF Moves, TypeOK
    <3> QED BY <2>0, <2>1, <3>1, <1>t, AwayKept DEF Away, QuietFlows, Working, HoldsFlow
  <2>2. ASSUME NEW f \in Match(t), use_cnt' = IncrUsecnt(f), reg' = [reg EXCEPT ![t].f = f], Goto(t, "lock")
        PROVE  KeptInv'
    BY <2>0, <2>2, FoundKept
  <2> QED BY <1>2, <2>1, <2>2 DEF LockBucket
<1>3. CASE LockFlow(t)
  BY <1>3, LockFlowKept
<1>4. CASE GetNew(t)
  <2>0. UNCHANGED <<alloced, fb, fl, use_cnt, refs, fLock>> /\ pc[t] = "getnew"
    BY <1>4 DEF GetNew, heapVars, lockVars
  <2>1. CASE queue[Spare] # <<>>
    BY <2>0, <2>1, <1>4, <1>t, SpareTakenKept DEF GetNew
  <2>2. CASE queue[Spare] = <<>>
    <3>1. Moves(t, "cap", reg[t]) /\ UNCHANGED queue
      BY <1>4, <2>2, <1>t DEF GetNew, Moves, TypeOK
    <3> QED BY <2>0, <3>1, <1>t, AwayKept DEF Away, QuietFlows, Working, HoldsFlow
  <2> QED BY <2>1, <2>2
<1>5. CASE CheckMemcap(t)
  <2>0. QuietFlows /\ pc[t] \notin Working
    BY <1>5 DEF CheckMemcap, heapVars, QuietFlows, Working, HoldsFlow
  <2>1. CASE Continue(t, StageOf(reg[t], 1, TryRelease))
    <3>1. 1 \in 0 .. 3 /\ TryRelease \in Int
      BY FlowEngineAssumption
    <3>2. StageOf(reg[t], 1, TryRelease) \in RegRec
      BY <1>t, <3>1, RegType
    <3> QED BY <2>0, <2>1, <3>2, <1>t, ContinueAway, AwayKept
  <2>2. CASE Goto(t, "alloc") /\ UNCHANGED reg
    <3>1. Moves(t, "alloc", reg[t])
      BY <2>2, <1>t DEF Moves, TypeOK
    <3>2. Away(t)
      BY <3>1 DEF Away, Working, HoldsFlow
    <3> QED BY <2>0, <3>2, <1>t, AwayKept
  <2> QED BY <1>5, <2>1, <2>2 DEF CheckMemcap
<1> QED BY <1>1, <1>2, <1>3, <1>4, <1>5

(***************************************************************************)
(* FlowAlloc.                                                              *)
(***************************************************************************)

(* The memory SCMalloc returns belongs to no flow, in no queue and under   *)
(* no mutex.                                                               *)
LEMMA MallocKept ==
  ASSUME TypeInv, TypeOK', KeptInv, NEW t \in Thread, pc[t] = "alloc_mem", NEW f \in Flow \ alloced,
         alloced' = alloced \cup {f}, fl' = [fl EXCEPT ![f] = Blank],
         fb' = [fb EXCEPT ![f] = NULL], use_cnt' = [use_cnt EXCEPT ![f] = 0],
         fLock' = Unlocked(f), reg' = [reg EXCEPT ![t].f = f],
         NEW l \in {"m_enq", "got"}, Goto(t, l), UNCHANGED <<queue, refs>>
  PROVE  KeptInv'
<1> DEFINE w == [reg[t] EXCEPT !.f = f]
<1>t. TypeOK /\ reg[t] \in RegRec /\ FlowOK(f)
  BY DEF TypeInv, TypeOK, KeptInv
<1>m. Moves(t, l, w) /\ w.f = f
  BY <1>t DEF Moves, RegRec
<1> HIDE DEF w
<1>l. ListsStay
  BY ListsSame DEF KeptInv
<1>h. fb[f] = NULL /\ Lists(f) = {} /\ Hands(f) = {}
  BY <1>t, HashedFlow DEF FlowOK, Placed
<1>s. OneMoves(t, l, w) /\ Hands(f)' = {t} /\ Users(f)' = Users(f)
  <2>1. /\ OneMoves(t, l, w)
        /\ Hands(f)' = IF l \in Carrying /\ w.f = f THEN Hands(f) \cup {t} ELSE Hands(f) \ {t}
        /\ Users(f)' = IF t \in Worker /\ l \in {"lock", "handle", "relink"} /\ w.f = f
                        THEN Users(f) \cup {t} ELSE Users(f) \ {t}
    BY <1>t, <1>m, MoveShape
  <2>2. l \in Carrying /\ l \notin {"lock", "handle", "relink"} /\ t \notin Users(f)
    BY DEF Carrying, Users, Uses
  <2> QED BY <1>m, <1>h, <2>1, <2>2
<1>1. \A g \in Flow \ {f} : FlowOK(g)'
  <2>1. \A g \in Flow \ {f} : SameFlow(g)
    BY <1>l, <1>t DEF SameFlow, ListsStay, Unlocked, TypeOK
  <2>2. pc[t] \notin Working
    BY DEF Working, HoldsFlow
  <2> QED BY <1>t, <1>m, <2>1, <2>2, OtherFlows
<1>n. ASSUME NEW u \in Thread, At(u, Holding, f) PROVE Broken(u, f)
  <2>1. CASE fLock[f] = NULL
    BY <1>t, <1>n, <2>1, FlowEngineAssumption DEF FlowOK, Locked
  <2>2. CASE fLock[f] # NULL
    <3>1. PICK v \in Thread : Broken(v, f)
      BY <1>t, <2>2 DEF FlowOK, Unheld
    <3>2. At(v, Holding, f)
      BY <3>1 DEF Broken, At, Late, Holding
    <3>3. fLock[f] = v /\ fLock[f] = u
      BY <1>t, <1>n, <2>2, <3>2 DEF FlowOK, Locked
    <3> QED BY <3>1, <3>3
  <2> QED BY <2>1, <2>2
<1>2. Locked(f)' /\ Owned(f)' /\ Unheld(f)'
  <2>1. fLock'[f] = NULL
    BY <1>t DEF Unlocked, TypeOK
  <2>2. ASSUME NEW u \in Thread, At(u, Holding, f)' PROVE Broken(u, f)'
    <3>1. u # t /\ At(u, Holding, f)
      BY <1>s, <2>2 DEF OneMoves, At, Holding
    <3> QED BY <1>n, <1>s, <3>1 DEF OneMoves, Broken, At
  <2> QED BY <2>1, <2>2 DEF Locked, Owned, Unheld
<1>3. Placed(f)'
  <2>1. Lists(f)' = {}
    BY <1>l, <1>h DEF Lists, ListsStay
  <2> QED BY <1>s, <2>1 DEF Placed
<1>4. Named(f)' /\ Removed(f)'
  BY <1>t DEF Named, Removed, TypeOK
<1>5. Listed(f)' /\ Pruned(f)'
  <2>1. \A q \in Queue : ~InQueue(f, q)'
    BY <1>l, <1>h DEF Lists, ListsStay
  <2>2. \A u \in Thread : ~At(u, {"prune_fb", "prune_unlink"}, f)'
    BY <1>n, <1>s DEF OneMoves, At, Holding, Broken, Late
  <2> QED BY <2>1, <2>2 DEF Listed, Pruned
<1>6. refs[f] = 0 /\ Users(f) = {}
  <2>1. refs[f] \in Int /\ refs[f] >= 0 /\ ~(refs[f] > 0) /\ Users(f) = {}
    BY <1>t, <1>h DEF FlowOK, Hashed, Counts, TypeOK
  <2> QED BY <2>1
<1>7. Hashed(f)' /\ Counts(f)'
  <2>1. \A u \in Thread : ~At(u, Inside, f)'
    BY <1>n, <1>s DEF OneMoves, At, Inside, Holding, Broken, Late
  <2>2. Cardinality(Users(f)') = 0 /\ Users(f)' = {}
    BY <1>s, <1>6, FS_EmptySet
  <2>3. refs'[f] = 0 /\ use_cnt'[f] = 0
    BY <1>t, <1>6 DEF TypeOK
  <2>4. Hashed(f)'
    BY <2>1, <2>2, <2>3 DEF Hashed
  <2>5. Counts(f)'
    BY <2>2, <2>3 DEF Counts
  <2> QED BY <2>4, <2>5
<1>8. FlowOK(f)'
  BY <1>2, <1>3, <1>4, <1>5, <1>7 DEF FlowOK
<1> QED BY <1>1, <1>8, <1>l DEF KeptInv, ListsStay

LEMMA AllocKept ==
  ASSUME TypeInv, TypeOK', KeptInv, NEW t \in Thread, Alloc(t)
  PROVE  KeptInv'
<1>t. TypeOK /\ reg[t] \in RegRec
  BY DEF TypeInv, TypeOK
<1>f. ASSUME AllocFailed(t) PROVE Away(t)
  <2>1. CASE GiveUp(t)
    BY <2>1, <1>t, GiveUpType DEF Away, Working, HoldsFlow
  <2>2. CASE Goto(t, "prune") /\ reg' = [reg EXCEPT ![t].qi = 1]
    <3>1. Moves(t, "prune", [reg[t] EXCEPT !.qi = 1])
      BY <2>2 DEF Moves
    <3> QED BY <3>1 DEF Away, Working, HoldsFlow
  <2> QED BY <1>f, <2>1, <2>2 DEF AllocFailed
<1>s. ASSUME NEW l \in {"alloc_add", "alloc_mem"}, Goto(t, l), UNCHANGED reg PROVE Away(t)
  <2>1. Moves(t, l, reg[t])
    BY <1>s, <1>t DEF Moves, TypeOK
  <2> QED BY <2>1 DEF Away, Working, HoldsFlow
<1>1. CASE AllocCheck(t)
  <2>1. QuietFlows /\ pc[t] \notin Working
    BY <1>1 DEF AllocCheck, QuietFlows, heapVars, Working, HoldsFlow
  <2>2. Away(t)
    BY <1>1, <1>f, <1>s DEF AllocCheck
  <2> QED BY <2>1, <2>2, AwayKept
<1>2. CASE AllocAdd(t)
  <2>1. QuietFlows /\ pc[t] \notin Working
    BY <1>2 DEF AllocAdd, QuietFlows, lockVars, Working, HoldsFlow
  <2>2. Away(t)
    BY <1>2, <1>s DEF AllocAdd
  <2> QED BY <2>1, <2>2, AwayKept
<1>3. CASE AllocMem(t)
  <2>0. pc[t] = "alloc_mem" /\ UNCHANGED <<queue, refs>>
    BY <1>3 DEF AllocMem
  <2>1. CASE AllocFailed(t) /\ UNCHANGED <<alloced, fl, fb, use_cnt, fLock>>
    BY <2>0, <2>1, <1>f, AwayKept DEF QuietFlows, Working, HoldsFlow
  <2>2. ASSUME NEW f \in Flow \ alloced,
               alloced' = alloced \cup {f}, fl' = [fl EXCEPT ![f] = Blank],
               fb' = [fb EXCEPT ![f] = NULL], use_cnt' = [use_cnt EXCEPT ![f] = 0],
               fLock' = Unlocked(f), reg' = [reg EXCEPT ![t].f = f],
               Goto(t, IF t = Mgr THEN "m_enq" ELSE "got")
        PROVE  KeptInv'
    <3>1. CASE t = Mgr
      BY <2>0, <2>2, <3>1, MallocKept
    <3>2. CASE t # Mgr
      BY <2>0, <2>2, <3>2, MallocKept
    <3> QED BY <3>1, <3>2
  <2> QED BY <1>3, <2>1, <2>2 DEF AllocMem
<1> QED BY <1>1, <1>2, <1>3 DEF Alloc

(***************************************************************************)
(* The rest of FlowGetFlowFromHash and FlowHandlePacket.                   *)
(***************************************************************************)

(* The new flow enters the hash and the "new" queue in one step.           *)
LEMMA InsertNewKept ==
  ASSUME TypeInv, TypeOK', KeptInv, NEW t \in Worker, InsertNew(t)
  PROVE  KeptInv'
<1>f. PICK f \in Flow : f = reg[t].f
  BY DEF InsertNew, Thread, TypeInv, HasFlow, HoldsFlow
<1>k. PICK k \in Key : k = reg[t].key
  BY DEF InsertNew, TypeInv, HasKey
<1> DEFINE q == <<"new", ProtoOf[k]>>
<1>t. t \in Thread /\ TypeOK /\ reg[t].f = f /\ FlowOK(f) /\ pc[t] = "got" /\ fLock[f] = NULL
  BY <1>f DEF InsertNew, Thread, TypeInv, KeptInv
<1>u. /\ use_cnt' = IncrUsecnt(f) /\ fLock' = [fLock EXCEPT ![f] = t]
      /\ fl' = [fl EXCEPT ![f] = [@ EXCEPT !.key = k, !.dir = reg[t].dir, !.lst = "new"]]
      /\ fb' = [fb EXCEPT ![f] = HashOf[k]] /\ queue' = Linked(q, f)
      /\ UNCHANGED <<alloced, refs>> /\ Moves(t, "handle", reg[t])
  BY <1>f, <1>k, <1>t DEF InsertNew, heapVars, Moves, TypeOK
<1>q. q \in Queue \ {Spare} /\ HashOf[k] # NULL /\ HashOf[k] \in Bucket
  <2>1. "new" \in State
    BY DEF State
  <2>2. q \in Queue \ {Spare}
    BY <2>1, ProtoQueue
  <2> QED BY <2>2, FlowEngineAssumption
<1>h. /\ fb[f] = NULL /\ f \in alloced /\ Lists(f) = {} /\ Hands(f) = {t}
  <2>1. t \in Hands(f) /\ At(t, Carrying, f)
    BY <1>t DEF Hands, At, Carrying
  <2>2. f \in alloced /\ Lists(f) = {} /\ Hands(f) = {t}
    BY <1>t, <2>1 DEF FlowOK, Placed
  <2> QED BY <1>t, <2>1, <2>2, HashedFlow
<1>j. Joins(q, f)
  <2>1. ~InQueue(f, q)
    BY <1>h, <1>q DEF Lists
  <2> HIDE DEF q
  <2> QED BY <1>t, <1>u, <1>q, <2>1, LinkedJoins DEF KeptInv
<1> HIDE DEF q
<1>s. OneMoves(t, "handle", reg[t]) /\ Hands(f)' = {} /\ Users(f)' = Users(f) \cup {t} /\ t \notin Users(f)
  <2>1. /\ OneMoves(t, "handle", reg[t])
        /\ Hands(f)' = IF "handle" \in Carrying /\ reg[t].f = f THEN Hands(f) \cup {t} ELSE Hands(f) \ {t}
        /\ Users(f)' = IF t \in Worker /\ "handle" \in {"lock", "handle", "relink"} /\ reg[t].f = f
                        THEN Users(f) \cup {t} ELSE Users(f) \ {t}
    BY <1>t, <1>u, MoveShape
  <2>2. "handle" \notin Carrying /\ t \notin Users(f)
    BY <1>t DEF Carrying, Users, Uses
  <2> QED BY <1>t, <1>h, <2>1, <2>2
<1>1. \A g \in Flow \ {f} : FlowOK(g)'
  <2>1. \A g \in Flow \ {f} : SameFlow(g)
    BY <1>j, <1>u, <1>t DEF SameFlow, Joins, IncrUsecnt, TypeOK
  <2> QED BY <1>t, <1>u, <2>1, OtherFlows
<1>n. \A u \in Thread \ {t} : ~At(u, Holding, f)
  BY <1>t, Alone
<1>2. Locked(f)' /\ Owned(f)' /\ Unheld(f)'
  BY <1>t, <1>u, <1>h, <1>n, <1>s DEF Locked, Owned, Unheld, Broken, OneMoves, At, Holding, TypeOK
<1>p. Lists(f)' = {q}
  BY <1>j, <1>h, <1>q DEF Lists, Joins
<1>3. Placed(f)'
  BY <1>s, <1>p, <1>q, <1>h, <1>u DEF Placed
<1>v. fl'[f].key = k /\ fl'[f].lst = "new" /\ fb'[f] = HashOf[k]
  BY <1>u, <1>t DEF TypeOK, FlowRec
<1>4. Named(f)' /\ Listed(f)'
  <2>1. QueueOf(f)' = q
    BY <1>v DEF QueueOf, q
  <2>2. f \in Elems(queue'[q])
    BY <1>p DEF Lists, InQueue
  <2>3. \A p \in Queue : f \in Elems(queue'[p]) => p = q
    BY <1>p DEF Lists, InQueue
  <2> QED BY <1>v, <1>q, <2>1, <2>2, <2>3 DEF Named, Listed, InQueue, State
<1>5. Pruned(f)'
  BY <1>n, <1>s DEF Pruned, OneMoves, At, Holding
<1>6. Hashed(f)' /\ Removed(f)'
  <2>1. \A u \in Thread : ~At(u, Taking, f)'
    BY <1>n, <1>s DEF OneMoves, At, Taking, Holding
  <2> QED BY <1>v, <1>q, <2>1 DEF Hashed, Removed
<1>7. Counts(f)'
  BY <1>t, <1>u, <1>s, CountsJoin DEF FlowOK
<1>8. FlowOK(f)'
  BY <1>2, <1>3, <1>4, <1>5, <1>6, <1>7 DEF FlowOK
<1> QED BY <1>1, <1>8, <1>j DEF KeptInv, Joins

(* FlowUpdateQueue and FlowHandlePacket keep the identity of the flow.     *)
LEMMA TouchedKeeps ==
  ASSUME TypeOK, NEW t \in Thread, reg[t].f \in Flow
  PROVE  /\ Touched(t).key = fl[reg[t].f].key /\ Touched(t).lst = fl[reg[t].f].lst
         /\ Touched(t) \in FlowRec
<1>1. fl[reg[t].f] \in FlowRec /\ reg[t] \in RegRec
  BY DEF TypeOK
<1> QED BY <1>1 DEF Touched, Counted, FlowRec, RegRec

(* The counts when a thread is done with f: a decoder thread passes its    *)
(* reference to the packet, a stream thread never had one.                 *)
LEMMA DoneCounts ==
  ASSUME TypeOK, NEW t \in Worker \cup Streamer, NEW f \in Flow, FlowOK(f),
         At(t, {"handle", "relink"}, f), DoneWithFlow(t, f), UNCHANGED use_cnt
  PROVE  /\ Counts(f)' /\ Moves(t, "idle", NoReg) /\ fLock' = [fLock EXCEPT ![f] = NULL]
         /\ \A g \in Flow \ {f} : refs'[g] = refs[g]
<1>m. Moves(t, "idle", NoReg)
  BY DEF DoneWithFlow, BackToIdle, Moves
<1>t. t \in Thread
  BY DEF Thread
<1>s. Users(f)' = Users(f) \ {t}
  <2>1. "idle" \notin {"lock", "handle", "relink"}
    OBVIOUS
  <2> QED BY <1>m, <1>t, <2>1, MoveShape
<1>1. Counts(f)'
  <2>1. CASE t \in Worker
    <3>1. t \in Users(f) /\ t \notin Streamer
      BY <2>1, FlowEngineAssumption DEF Users, Uses, At
    <3> QED BY <3>1, <1>s, CountsPass DEF FlowOK, DoneWithFlow
  <2>2. CASE t \in Streamer
    <3>1. t \notin Users(f)
      BY <2>2, FlowEngineAssumption DEF Users
    <3> QED BY <2>2, <3>1, <1>s, CountsStay DEF FlowOK, DoneWithFlow
  <2> QED BY <2>1, <2>2
<1> QED BY <1>1, <1>m DEF DoneWithFlow, Unlocked, TypeOK

(* What a thread that holds f->m inside FlowUpdateQueue can rely on.       *)
LEMMA HandlingFlow ==
  ASSUME TypeOK, NEW t \in Thread, NEW f \in Flow, FlowOK(f),
         At(t, {"stream", "handle", "prune_fb"}, f)
  PROVE  /\ fLock[f] = t /\ fb[f] # NULL /\ f \in alloced
         /\ \A u \in Thread \ {t} : ~At(u, Holding, f)
         /\ InQueue(f, QueueOf(f)) /\ QueueOf(f) \in Queue \ {Spare} /\ Lists(f) = {QueueOf(f)}
         /\ Hands(f) = {}
<1>1. At(t, Holding \ Late, f) /\ At(t, Inside, f)
  BY DEF At, Holding, Late, Inside
<1>2. fLock[f] = t /\ fb[f] # NULL
  BY <1>1, HeldAt DEF FlowOK, Hashed
<1>3. f \in alloced /\ QueueOf(f) \in Queue \ {Spare} /\ \A u \in Thread : At(u, Carrying, f) => pc[u] = "relink"
  BY <1>2, HashedFlow
<1>4. \A u \in Thread \ {t} : ~At(u, Holding, f)
  BY <1>2, Alone
<1>5. Hands(f) = {}
  BY <1>3, <1>4 DEF Hands, At, Holding, Carrying
<1>6. InQueue(f, QueueOf(f))
  BY <1>2, <1>4 DEF FlowOK, Named, At, Holding
<1>7. Lists(f) = {QueueOf(f)}
  <2>1. QueueOf(f) \in Lists(f)
    BY <1>3, <1>6 DEF Lists
  <2> QED BY <2>1 DEF FlowOK, Placed
<1> QED BY <1>2, <1>3, <1>4, <1>5, <1>6, <1>7

LEMMA HandleKept ==
  ASSUME TypeInv, TypeOK', KeptInv, NEW t \in Worker \cup Streamer, Handle(t)
  PROVE  KeptInv'
<1>f. PICK f \in Flow : f = reg[t].f
  BY DEF Handle, Thread, TypeInv, HasFlow, HoldsFlow
<1>t. t \in Thread /\ TypeOK /\ reg[t].f = f /\ FlowOK(f) /\ pc[t] = "handle" /\ At(t, {"handle"}, f)
  BY <1>f DEF Handle, Thread, TypeInv, KeptInv, At
<1>h. /\ fLock[f] = t /\ fb[f] # NULL /\ f \in alloced
      /\ \A u \in Thread \ {t} : ~At(u, Holding, f)
      /\ InQueue(f, QueueOf(f)) /\ QueueOf(f) \in Queue \ {Spare} /\ Lists(f) = {QueueOf(f)}
      /\ Hands(f) = {}
  <2>1. At(t, {"stream", "handle", "prune_fb"}, f)
    BY <1>t DEF At
  <2> QED BY <1>t, <2>1, HandlingFlow
<1>r. Touched(t).key = fl[f].key /\ Touched(t).lst = fl[f].lst /\ Touched(t) \in FlowRec
  BY <1>f, <1>t, TouchedKeeps
<1>q. PICK q \in Queue \ {Spare} : q = QueueOf(f)
  BY <1>h
<1>u. UNCHANGED <<alloced, fb, use_cnt>>
  BY DEF Handle, heapVars
<1>1. CASE queue' = Rotated(q, f) /\ fl' = [fl EXCEPT ![f] = Touched(t)] /\ DoneWithFlow(t, f)
  <2>1. /\ Counts(f)' /\ Moves(t, "idle", NoReg) /\ fLock' = [fLock EXCEPT ![f] = NULL]
        /\ \A g \in Flow \ {f} : refs'[g] = refs[g]
    BY <1>1, <1>t, <1>u, DoneCounts DEF At
  <2>2. ListsStay
    BY <1>1, <1>t, <1>h, <1>q, RotatedStays DEF KeptInv
  <2>3. fl'[f] = Touched(t) /\ \A g \in Flow \ {f} : fl'[g] = fl[g]
    BY <1>1, <1>t DEF TypeOK
  <2>4. InPlaceStep(t, "idle", NoReg, f)
    BY <1>t, <1>u, <1>r, <2>1, <2>2, <2>3 DEF InPlaceStep, TypeOK, Carrying, Taking, Working, HoldsFlow
  <2>5. "idle" \notin Holding /\ fLock'[f] = NULL /\ NULL # t
    BY <1>t, <2>1, LockType DEF Holding, TypeOK
  <2> QED BY <1>t, <1>h, <2>1, <2>4, <2>5, StepInPlace
<1>2. CASE /\ queue' = Unlinked(q, f) /\ NextList(Touched(t)) # Touched(t).lst
           /\ fl' = [fl EXCEPT ![f] = [Touched(t) EXCEPT !.lst = NextList(Touched(t))]]
           /\ Goto(t, "relink") /\ UNCHANGED <<reg, fLock, refs>>
  <2>m. Moves(t, "relink", reg[t])
    BY <1>2, <1>t DEF Moves, TypeOK
  <2>l. Leaves(q, f)
    BY <1>2, <1>t, <1>h, <1>q, UnlinkedLeaves DEF KeptInv
  <2>s. OneMoves(t, "relink", reg[t]) /\ Hands(f)' = {t} /\ Users(f)' = Users(f)
    <3>1. /\ OneMoves(t, "relink", reg[t])
          /\ Hands(f)' = IF "relink" \in Carrying /\ reg[t].f = f THEN Hands(f) \cup {t} ELSE Hands(f) \ {t}
          /\ Users(f)' = IF t \in Worker /\ "relink" \in {"lock", "handle", "relink"} /\ reg[t].f = f
                          THEN Users(f) \cup {t} ELSE Users(f) \ {t}
      BY <1>t, <2>m, MoveShape
    <3>2. "relink" \in Carrying /\ (t \in Worker <=> t \in Users(f))
      BY <1>t DEF Carrying, Users, Uses
    <3> QED BY <1>t, <1>h, <3>1, <3>2
  <2>1. \A g \in Flow \ {f} : FlowOK(g)'
    <3>1. \A g \in Flow \ {f} : SameFlow(g)
      BY <1>2, <1>t, <1>u, <2>l DEF SameFlow, Leaves, TypeOK
    <3> QED BY <1>t, <2>m, <3>1, OtherFlows
  <2>2. Locked(f)' /\ Owned(f)' /\ Unheld(f)'
    BY <1>2, <1>t, <1>u, <1>h, <2>s DEF Locked, Owned, Unheld, Broken, OneMoves, At, Holding
  <2>p. Lists(f)' = {}
    BY <2>l, <1>h, <1>q DEF Lists, Leaves
  <2>3. Placed(f)'
    BY <1>t, <1>u, <1>h, <2>s, <2>p DEF Placed
  <2>n. fl'[f].key = fl[f].key /\ fl'[f].lst \in State
    <3>1. NextList(Touched(t)) \in State
      BY <1>2 DEF NextList, State
    <3>2. fl'[f] = [Touched(t) EXCEPT !.lst = NextList(Touched(t))]
      BY <1>2, <1>t DEF TypeOK
    <3> QED BY <1>r, <3>1, <3>2 DEF FlowRec
  <2>4. Named(f)'
    <3>1. At(t, {"relink"}, f)'
      BY <1>t, <2>s DEF OneMoves, At
    <3>2. fl[f].key \in Key /\ fb[f] = HashOf[fl[f].key]
      BY <1>t, <1>h DEF FlowOK, Named
    <3> QED BY <1>t, <1>u, <2>n, <3>1, <3>2 DEF Named
  <2>5. Listed(f)'
    BY <2>p DEF Lists, Listed
  <2>6. Pruned(f)' /\ Removed(f)'
    <3>1. \A u \in Thread : ~At(u, Taking \cup {"prune_fb"}, f)'
      BY <1>h, <2>s DEF OneMoves, At, Taking, Holding
    <3> QED BY <3>1 DEF Pruned, Removed, At, Taking
  <2>7. Hashed(f)'
    BY <1>h, <1>u DEF Hashed
  <2>8. Counts(f)'
    BY <1>2, <1>t, <1>u, <2>s, CountsStay DEF FlowOK
  <2>9. FlowOK(f)'
    BY <2>2, <2>3, <2>4, <2>5, <2>6, <2>7, <2>8 DEF FlowOK
  <2> QED BY <2>1, <2>9, <2>l DEF KeptInv, Leaves
<1> QED BY <1>1, <1>2, <1>f, <1>q DEF Handle

LEMMA RelinkKept ==
  ASSUME TypeInv, TypeOK', KeptInv, NEW t \in Worker \cup Streamer, Relink(t)
  PROVE  KeptInv'
<1>f. PICK f \in Flow : f = reg[t].f
  BY DEF Relink, Thread, TypeInv, HasFlow, HoldsFlow
<1>t. t \in Thread /\ TypeOK /\ reg[t].f = f /\ FlowOK(f) /\ pc[t] = "relink" /\ At(t, {"handle", "relink"}, f)
  BY <1>f DEF Relink, Thread, TypeInv, KeptInv, At
<1>h. /\ fLock[f] = t /\ fb[f] # NULL /\ f \in alloced /\ QueueOf(f) \in Queue \ {Spare}
      /\ \A u \in Thread \ {t} : ~At(u, Holding, f)
      /\ Lists(f) = {} /\ Hands(f) = {t}
  <2>1. At(t, Holding \ Late, f) /\ At(t, Inside, f) /\ t \in Hands(f)
    BY <1>t DEF At, Holding, Late, Inside, Hands, Carrying
  <2>2. fLock[f] = t /\ fb[f] # NULL
    BY <1>t, <2>1, HeldAt DEF FlowOK, Hashed
  <2>3. f \in alloced /\ QueueOf(f) \in Queue \ {Spare}
    BY <1>t, <2>2, HashedFlow
  <2>4. \A u \in Thread \ {t} : ~At(u, Holding, f)
    BY <1>t, <2>2, Alone
  <2> QED BY <1>t, <2>1, <2>2, <2>3, <2>4 DEF FlowOK, Placed
<1>q. PICK q \in Queue \ {Spare} : q = QueueOf(f)
  BY <1>h
<1>u. UNCHANGED <<alloced, fb, fl, use_cnt>> /\ queue' = Linked(q, f) /\ DoneWithFlow(t, f)
  BY <1>f, <1>q DEF Relink, heapVars
<1>d. /\ Counts(f)' /\ Moves(t, "idle", NoReg) /\ fLock' = [fLock EXCEPT ![f] = NULL]
      /\ \A g \in Flow \ {f} : refs'[g] = refs[g]
  BY <1>t, <1>u, DoneCounts
<1>j. Joins(q, f)
  <2>1. ~InQueue(f, q)
    BY <1>h, <1>q DEF Lists
  <2> QED BY <1>t, <1>u, <2>1, LinkedJoins DEF KeptInv
<1>s. OneMoves(t, "idle", NoReg) /\ Hands(f)' = {}
  <2>1. /\ OneMoves(t, "idle", NoReg)
        /\ Hands(f)' = IF "idle" \in Carrying /\ NoReg.f = f THEN Hands(f) \cup {t} ELSE Hands(f) \ {t}
    BY <1>t, <1>d, MoveShape
  <2>2. "idle" \notin Carrying
    BY DEF Carrying
  <2> QED BY <1>h, <2>1, <2>2
<1>1. \A g \in Flow \ {f} : FlowOK(g)'
  <2>1. \A g \in Flow \ {f} : SameFlow(g)
    BY <1>t, <1>u, <1>d, <1>j DEF SameFlow, Joins, TypeOK
  <2>2. "idle" \notin Working
    BY DEF Working, HoldsFlow
  <2> QED BY <1>t, <1>d, <2>1, <2>2, OtherFlows
<1>n. \A u \in Thread : ~At(u, Holding, f)'
  BY <1>h, <1>s DEF OneMoves, At, Holding
<1>2. Locked(f)' /\ Owned(f)' /\ Unheld(f)'
  <2>1. fLock'[f] = NULL
    BY <1>d, <1>t DEF TypeOK
  <2> QED BY <1>n, <2>1 DEF Locked, Owned, Unheld
<1>p. Lists(f)' = {q}
  BY <1>j, <1>h, <1>q DEF Lists, Joins
<1>3. Placed(f)'
  BY <1>s, <1>p, <1>q, <1>h, <1>u DEF Placed
<1>4. Named(f)' /\ Listed(f)'
  <2>1. QueueOf(f)' = q
    BY <1>q, <1>u DEF QueueOf
  <2>2. f \in Elems(queue'[q])
    BY <1>p DEF Lists, InQueue
  <2>3. \A p \in Queue : f \in Elems(queue'[p]) => p = q
    BY <1>p DEF Lists, InQueue
  <2>4. fl[f].key \in Key /\ fb[f] = HashOf[fl[f].key] /\ fl[f].lst \in State
    BY <1>t, <1>h DEF FlowOK, Named
  <2> QED BY <1>u, <1>h, <2>1, <2>2, <2>3, <2>4 DEF Named, Listed, InQueue
<1>5. Pruned(f)' /\ Removed(f)'
  BY <1>n DEF Pruned, Removed, At, Holding, Taking
<1>6. Hashed(f)'
  BY <1>h, <1>u DEF Hashed
<1>7. FlowOK(f)'
  BY <1>2, <1>3, <1>4, <1>5, <1>6, <1>d DEF FlowOK
<1> QED BY <1>1, <1>7, <1>j DEF KeptInv, Joins

(***************************************************************************)
(* Later stages: stream threads and the output of a packet.                *)
(***************************************************************************)
LEMMA StreamersFinite ==
  ASSUME NEW f PROVE Cardinality({s \in Streamer : reg[s].f = f}) \in Nat
<1>1. {s \in Streamer : reg[s].f = f} \subseteq Streamer /\ IsFiniteSet(Streamer)
  BY FlowEngineAssumption
<1> QED BY <1>1, FS_Subset, FS_CardinalityType

LEMMA PassingHasRef ==
  ASSUME TypeOK, NEW f \in Flow, Passing(f) > 0
  PROVE  refs[f] > 0
<1> DEFINE c == Cardinality({s \in Streamer : reg[s].f = f})
<1>1. c \in Nat
  BY StreamersFinite
<1>2. refs[f] - c > 0 /\ refs[f] \in Int
  BY DEF Passing, TypeOK
<1> HIDE DEF c
<1> QED BY <1>1, <1>2

LEMMA StreamLockKept ==
  ASSUME TypeInv, TypeOK', KeptInv, NEW s \in Streamer, StreamLock(s)
  PROVE  KeptInv'
<1>f. PICK f \in Flow : /\ Passing(f) > 0 /\ fLock[f] = NULL /\ fLock' = [fLock EXCEPT ![f] = s]
                        /\ reg' = [reg EXCEPT ![s].f = f]
  BY DEF StreamLock
<1> DEFINE w == [reg[s] EXCEPT !.f = f]
<1>t. s \in Thread /\ TypeOK /\ FlowOK(f) /\ pc[s] = "idle" /\ s \notin Worker /\ reg[s] \in RegRec
  BY FlowEngineAssumption DEF StreamLock, Thread, TypeInv, KeptInv, TypeOK
<1>m. Moves(s, "stream", w) /\ w.f = f
  BY <1>f, <1>t DEF StreamLock, Moves, RegRec
<1> HIDE DEF w
<1>u. UNCHANGED <<alloced, queue, fb, fl, use_cnt, refs>>
  BY DEF StreamLock, heapVars
<1>h. fb[f] # NULL /\ f \in alloced
  <2>1. refs[f] > 0
    BY <1>f, <1>t, PassingHasRef
  <2>2. fb[f] # NULL
    BY <1>t, <2>1 DEF FlowOK, Hashed
  <2> QED BY <1>t, <2>2, HashedFlow
<1>a. \A u \in Thread \ {s} : ~At(u, Holding, f)
  BY <1>t, <1>f, <1>h, Alone
<1>i. InPlaceStep(s, "stream", w, f)
  <2>1. ListsStay
    BY <1>u, ListsSame DEF KeptInv
  <2> QED BY <1>t, <1>f, <1>m, <1>u, <2>1 DEF InPlaceStep, TypeOK, Carrying, Taking, Working, HoldsFlow
<1>c. Counts(f)'
  <2>1. Users(f)' = Users(f) \ {s}
    BY <1>t, <1>m, MoveShape
  <2>2. s \notin Users(f)
    BY <1>t DEF Users
  <2> QED BY <1>t, <1>u, <2>1, <2>2, CountsStay DEF FlowOK
<1>1. fLock'[f] = s /\ "stream" \in Holding
  BY <1>t, <1>f DEF TypeOK, Holding
<1> QED BY <1>t, <1>i, <1>c, <1>h, <1>a, <1>1, StepInPlace

(* A thread unlocks f->m and leaves f as it is.                            *)
LEMMA LetsGo ==
  ASSUME TypeInv, TypeOK', KeptInv, NEW t \in Thread, NEW f \in Flow, reg[t].f = f,
         pc[t] \in {"stream", "prune_fb", "prune_unlock", "kill_unlock"}, Away(t),
         fLock' = Unlocked(f), UNCHANGED <<alloced, queue, fb, fl, use_cnt, refs>>
  PROVE  KeptInv'
<1>1. PICK l, v : Moves(t, l, v) /\ l \notin Working
  BY DEF Away
<1>t. TypeOK /\ FlowOK(f) /\ At(t, Holding, f)
  BY DEF TypeInv, KeptInv, At, Holding
<1>l. fLock'[f] = NULL /\ NULL # t /\ \A g \in Flow \ {f} : fLock'[g] = fLock[g]
  BY <1>t, LockType DEF Unlocked, TypeOK
<1>a. \A u \in Thread \ {t} : ~At(u, Holding, f)
  <2>1. CASE fLock[f] = t
    BY <1>t, <2>1, Alone
  <2>2. CASE fLock[f] # t
    <3>1. fLock[f] = NULL /\ t \in Worker
      BY <1>t, <2>2 DEF FlowOK, Locked, Broken
    <3> QED BY <1>t, <3>1, Alone
  <2> QED BY <2>1, <2>2
<1>i. InPlaceStep(t, l, v, f)
  <2>1. ListsStay
    BY ListsSame DEF KeptInv
  <2>2. pc[t] \notin Carrying \cup {"prune_unlink"} /\ l \notin Carrying \cup Taking
    BY <1>1 DEF Carrying, Taking, Working, HoldsFlow
  <2> QED BY <1>1, <1>l, <2>1, <2>2 DEF InPlaceStep
<1>2. l \notin Holding /\ l \notin Inside \cup {"lock"} /\ l # "prune_fb"
  BY <1>1 DEF Holding, Inside, Working, HoldsFlow
<1>c. Counts(f)'
  <2>1. Users(f)' = Users(f)
    <3>1. l \notin {"lock", "handle", "relink"} /\ t \notin Users(f)
      BY <1>1 DEF Working, HoldsFlow, Users, Uses
    <3>2. Users(f)' = Users(f) \ {t}
      BY <1>t, <1>1, <3>1, MoveShape
    <3> QED BY <3>1, <3>2
  <2> QED BY <1>t, <2>1, CountsStay DEF FlowOK
<1>h. refs'[f] > 0 => fb[f] # NULL
  BY <1>t DEF FlowOK, Hashed
<1> QED BY <1>a, <1>l, <1>i, <1>2, <1>c, <1>h, StepInPlace

LEMMA StreamPacketKept ==
  ASSUME TypeInv, TypeOK', KeptInv, NEW s \in Streamer, StreamPacket(s)
  PROVE  KeptInv'
<1>f. PICK f \in Flow : f = reg[s].f
  BY DEF StreamPacket, Thread, TypeInv, HasFlow, HoldsFlow
<1>t. /\ s \in Thread /\ TypeOK /\ reg[s].f = f /\ FlowOK(f) /\ pc[s] = "stream" /\ s \notin Worker
      /\ UNCHANGED <<alloced, queue, fb, use_cnt, refs>>
  BY <1>f, FlowEngineAssumption DEF StreamPacket, Thread, TypeInv, KeptInv, heapVars
<1>1. CASE fLock' = Unlocked(f) /\ BackToIdle(s) /\ UNCHANGED fl
  <2>1. Away(s)
    <3>1. Moves(s, "idle", NoReg)
      BY <1>1 DEF BackToIdle, Moves
    <3> QED BY <3>1 DEF Away, Working, HoldsFlow
  <2> QED BY <1>1, <1>t, <2>1, LetsGo
<1>2. ASSUME NEW p, fl' = [fl EXCEPT ![f].pstate = p], Goto(s, "handle"), UNCHANGED <<reg, fLock>>
      PROVE  KeptInv'
  <2>m. Moves(s, "handle", reg[s])
    BY <1>2, <1>t DEF Moves, TypeOK
  <2>h. /\ fLock[f] = s /\ fb[f] # NULL /\ f \in alloced /\ \A u \in Thread \ {s} : ~At(u, Holding, f)
    BY <1>t, HandlingFlow DEF At
  <2>i. InPlaceStep(s, "handle", reg[s], f)
    <3>1. ListsStay
      BY <1>t, ListsSame DEF KeptInv
    <3>2. fl'[f].key = fl[f].key /\ fl'[f].lst = fl[f].lst /\ \A g \in Flow \ {f} : fl'[g] = fl[g]
      BY <1>2, <1>t DEF TypeOK, FlowRec
    <3> QED BY <1>2, <1>t, <2>m, <3>1, <3>2 DEF InPlaceStep, Carrying, Taking
  <2>c. Counts(f)'
    <3>1. Users(f)' = Users(f) \ {s}
      BY <1>t, <2>m, MoveShape
    <3>2. s \notin Users(f)
      BY <1>t DEF Users
    <3> QED BY <1>t, <3>1, <3>2, CountsStay DEF FlowOK
  <2>1. "handle" \in Holding
    BY DEF Holding
  <2> QED BY <1>2, <1>t, <2>h, <2>i, <2>c, <2>1, StepInPlace
<1> QED BY <1>1, <1>2, <1>f DEF StreamPacket

(* FlowDecrUsecnt: the packet and the count go together.                   *)
LEMMA OutputKept ==
  ASSUME TypeInv, KeptInv, NEW f \in Flow, Output(f)
  PROVE  KeptInv'
<1>t. TypeOK /\ refs[f] > 0 /\ NoTwice
  BY PassingHasRef DEF TypeInv, Output, KeptInv
<1>u. /\ UNCHANGED <<alloced, queue, fLock, fb, fl, pc, reg>>
      /\ refs' = [refs EXCEPT ![f] = @ - 1] /\ use_cnt' = [use_cnt EXCEPT ![f] = @ - 1]
  BY DEF Output, heapVars, lockVars, DecrUsecnt
<1>1. ASSUME NEW g \in Flow PROVE FlowOK(g)'
  <2>t. FlowOK(g) /\ refs[g] \in Int /\ use_cnt[g] \in Int
    BY <1>t DEF KeptInv, TypeOK
  <2>1. Locked(g)' /\ Owned(g)' /\ Unheld(g)' /\ Pruned(g)' /\ Removed(g)'
    BY <1>u, <2>t DEF FlowOK, Locked, Owned, Unheld, Broken, Pruned, Removed, At, InQueue
  <2>2. Placed(g)'
    BY <1>u, <2>t DEF FlowOK, Placed, Lists, Hands, InQueue, At
  <2>3. Named(g)' /\ Listed(g)'
    BY <1>u, <2>t DEF FlowOK, Named, Listed, InQueue, At, QueueOf
  <2>4. refs'[g] > 0 => refs[g] > 0
    BY <1>u, <1>t, <2>t DEF TypeOK
  <2>u. Users(g)' = Users(g)
    BY <1>u DEF Users, Uses
  <2>5. Hashed(g)'
    BY <1>u, <2>t, <2>u, <2>4 DEF FlowOK, Hashed, At
  <2>6. Counts(g)'
    <3>1. Users(g)' = Users(g)
      BY <2>u
    <3>2. refs[g] >= 0 /\ use_cnt[g] = refs[g] + Cardinality(Users(g))
      BY <2>t DEF FlowOK, Counts
    <3>3. CASE g = f
      <4>1. refs'[f] = refs[f] - 1 /\ use_cnt'[f] = use_cnt[f] - 1
        BY <1>t, <1>u DEF TypeOK
      <4> QED BY <1>t, <2>t, <3>1, <3>2, <3>3, <4>1, UsersFinite DEF Counts
    <3>4. CASE g # f
      BY <1>t, <1>u, <3>1, <3>2, <3>4 DEF Counts, TypeOK
    <3> QED BY <3>3, <3>4
  <2> QED BY <2>1, <2>2, <2>3, <2>5, <2>6 DEF FlowOK
<1> QED BY <1>1, <1>t, <1>u DEF KeptInv, NoTwice

(***************************************************************************)
(* FlowPrune.                                                              *)
(***************************************************************************)

(* FlowPrune locks the top of a queue: it is in the hash, since whoever    *)
(* takes a flow out of the hash holds f->m until the flow has left.        *)
LEMMA TopHashed ==
  ASSUME TypeOK, NEW f \in Flow, FlowOK(f), NEW q \in Queue \ {Spare}, InQueue(f, q), fLock[f] = NULL
  PROVE  fb[f] # NULL /\ q = QueueOf(f) /\ f \in alloced
<1>1. \A t \in Thread : ~At(t, {"prune_unlink"}, f)
  BY FlowEngineAssumption DEF FlowOK, Locked, Broken, At, Holding, Late
<1>2. fb[f] # NULL /\ q = QueueOf(f)
  BY <1>1 DEF FlowOK, Listed
<1> QED BY <1>2, HashedFlow

LEMMA PruneTopKept ==
  ASSUME TypeInv, TypeOK', KeptInv, NEW t \in Thread \ Streamer, PruneTop(t)
  PROVE  KeptInv'
<1>q. PICK q \in Queue \ {Spare} : q = QueueAt(reg[t].qi)
  BY QueueAtType DEF TypeInv, TypeOK, RegRec
<1>t. /\ t \in Thread /\ TypeOK /\ reg[t] \in RegRec /\ pc[t] = "prune"
      /\ UNCHANGED <<alloced, queue, fb, fl, use_cnt, refs>>
  BY DEF TypeInv, TypeOK, PruneTop, heapVars
<1>1. CASE /\ queue[q] # <<>> /\ fLock[queue[q][1]] = NULL
           /\ fLock' = [fLock EXCEPT ![queue[q][1]] = t]
           /\ reg' = [reg EXCEPT ![t] = [Try(t) EXCEPT !.f = queue[q][1]]]
           /\ Goto(t, "prune_fb")
  <2>f. PICK f \in Flow : f = queue[q][1] /\ InQueue(f, q)
    <3>1. queue[q] \in Seq(Flow) /\ queue[q] # <<>>
      BY <1>1, <1>t DEF TypeOK
    <3>2. 1 \in DOMAIN queue[q] /\ queue[q][1] \in Flow
      BY <3>1
    <3> QED BY <3>2 DEF InQueue, Elems, L!Elems
  <2> DEFINE w == [Try(t) EXCEPT !.f = f]
  <2>m. Moves(t, "prune_fb", w) /\ w.f = f /\ w.qi = reg[t].qi
    BY <1>1, <1>t, <2>f, TryType DEF Moves, RegRec
  <2> HIDE DEF w
  <2>k. FlowOK(f) /\ fLock[f] = NULL
    BY <1>1, <2>f DEF KeptInv
  <2>h. fb[f] # NULL /\ f \in alloced
    BY <1>t, <2>f, <2>k, TopHashed
  <2>a. \A u \in Thread \ {t} : ~At(u, Holding, f)
    BY <1>t, <2>k, <2>h, Alone
  <2>l. fLock'[f] = t /\ \A g \in Flow \ {f} : fLock'[g] = fLock[g]
    BY <1>1, <1>t, <2>f DEF TypeOK
  <2>i. InPlaceStep(t, "prune_fb", w, f)
    <3>1. ListsStay
      BY <1>t, ListsSame DEF KeptInv
    <3> QED BY <1>t, <2>m, <2>l, <3>1 DEF InPlaceStep, Carrying, Taking, Working, HoldsFlow
  <2>c. Counts(f)'
    <3>1. t \notin Users(f) /\ "prune_fb" \notin {"lock", "handle", "relink"}
      BY <1>t DEF Users, Uses
    <3>2. Users(f)' = Users(f) \ {t}
      BY <1>t, <2>m, <3>1, MoveShape
    <3> QED BY <1>t, <2>k, <3>1, <3>2, CountsStay DEF FlowOK
  <2>q. InQueue(f, QueueAt(w.qi)) /\ "prune_fb" \in Holding
    BY <1>q, <2>f, <2>m DEF Holding
  <2> QED BY <1>t, <2>i, <2>c, <2>h, <2>a, <2>l, <2>q, StepInPlace
<1>2. CASE UNCHANGED fLock /\ ((t = Mgr /\ PruneReturn(t, 0)) \/ (t # Mgr /\ Continue(t, Try(t))))
  <2>1. Away(t)
    <3>1. CASE t = Mgr /\ PruneReturn(t, 0)
      BY <1>t, <3>1, PruneAway
    <3>2. CASE t # Mgr /\ Continue(t, Try(t))
      <4>1. t \in Worker /\ Try(t) \in RegRec
        BY <1>t, <3>2, TryType DEF Thread
      <4> QED BY <1>t, <3>2, <4>1, ContinueAway
    <3> QED BY <1>2, <3>1, <3>2
  <2>2. QuietFlows /\ pc[t] \notin Working
    BY <1>2, <1>t DEF QuietFlows, Working, HoldsFlow
  <2> QED BY <1>t, <2>1, <2>2, AwayKept
<1> QED BY <1>1, <1>2, <1>q DEF PruneTop

(* The timeout and the use count are tested under both locks, so the flow  *)
(* that leaves the hash has no users.                                      *)
LEMMA NotInUseMeans ==
  ASSUME TypeOK, NEW f \in Flow, FlowOK(f), NotInUse(f)
  PROVE  refs[f] = 0 /\ Users(f) = {}
<1>1. refs[f] \in Int /\ refs[f] >= 0 /\ refs[f] + Cardinality(Users(f)) = 0
  BY DEF NotInUse, FlowOK, Counts, TypeOK
<1>2. Cardinality(Users(f)) = 0 /\ refs[f] = 0
  BY <1>1, UsersFinite
<1> QED BY <1>2, UsersFinite, FS_EmptySet

LEMMA PruneCheckKept ==
  ASSUME TypeInv, TypeOK', KeptInv, NEW t \in Thread \ Streamer, PruneCheck(t)
  PROVE  KeptInv'
<1>f. PICK f \in Flow : f = reg[t].f
  BY DEF PruneCheck, TypeInv, HasFlow, HoldsFlow
<1>t. /\ t \in Thread /\ TypeOK /\ reg[t].f = f /\ FlowOK(f) /\ pc[t] = "prune_fb" /\ reg[t] \in RegRec
      /\ UNCHANGED <<alloced, queue, fl, use_cnt, refs>>
  BY <1>f DEF PruneCheck, TypeInv, TypeOK, KeptInv, heapVars
<1>1. CASE NotInUse(f) /\ fb' = [fb EXCEPT ![f] = NULL] /\ Goto(t, "prune_unlink") /\ UNCHANGED <<fLock, reg>>
  <2>h. /\ fLock[f] = t /\ f \in alloced
        /\ \A u \in Thread \ {t} : ~At(u, Holding, f)
        /\ Hands(f) = {}
    BY <1>t, HandlingFlow DEF At
  <2>m. Moves(t, "prune_unlink", reg[t])
    BY <1>1, <1>t DEF Moves, TypeOK
  <2>u. refs[f] = 0 /\ Users(f) = {}
    BY <1>1, <1>t, NotInUseMeans
  <2>s. OneMoves(t, "prune_unlink", reg[t]) /\ Hands(f)' = {} /\ Users(f)' = {}
    <3>1. "prune_unlink" \notin Carrying /\ "prune_unlink" \notin {"lock", "handle", "relink"}
      BY DEF Carrying
    <3>2. OneMoves(t, "prune_unlink", reg[t]) /\ Hands(f)' = Hands(f) \ {t} /\ Users(f)' = Users(f) \ {t}
      BY <1>t, <2>m, <3>1, MoveShape
    <3> QED BY <2>h, <2>u, <3>2
  <2>l. ListsStay
    BY <1>t, ListsSame DEF KeptInv
  <2>1. \A g \in Flow \ {f} : FlowOK(g)'
    <3>1. \A g \in Flow \ {f} : SameFlow(g)
      BY <1>1, <1>t, <2>l DEF SameFlow, ListsStay, TypeOK
    <3> QED BY <1>t, <2>m, <3>1, OtherFlows
  <2>2. Locked(f)' /\ Owned(f)' /\ Unheld(f)'
    BY <1>1, <1>t, <2>h, <2>s DEF Locked, Owned, Unheld, Broken, OneMoves, At, Holding
  <2>3. Placed(f)'
    <3>1. Lists(f)' = Lists(f)
      BY <2>l DEF Lists, ListsStay
    <3>2. Hands(f)' = Hands(f)
      BY <2>h, <2>s
    <3> QED BY <1>t, <3>1, <3>2, PlacedStay DEF FlowOK
  <2>b. fb'[f] = NULL
    BY <1>1, <1>t DEF TypeOK
  <2>w. At(t, {"prune_unlink"}, f)'
    BY <1>t, <2>s DEF At, OneMoves
  <2>4. Named(f)' /\ Removed(f)' /\ Listed(f)'
    BY <1>t, <2>b, <2>w DEF Named, Removed, Listed
  <2>5. Pruned(f)'
    <3>1. \A u \in Thread : At(u, {"prune_fb", "prune_unlink"}, f)' => u = t
      BY <2>h, <2>s DEF OneMoves, At, Holding
    <3>2. InQueue(f, QueueAt(reg[t].qi))
      BY <1>t DEF FlowOK, Pruned, At
    <3>3. f \in Elems(queue'[QueueAt(reg'[t].qi)])
      BY <1>1, <1>t, <3>2 DEF InQueue
    <3> QED BY <3>1, <3>3 DEF Pruned, InQueue
  <2>6. Hashed(f)'
    <3>1. \A u \in Thread : ~At(u, Inside, f)'
      BY <2>h, <2>s DEF OneMoves, At, Inside, Holding
    <3> QED BY <1>t, <2>u, <2>s, <3>1 DEF Hashed
  <2>7. Counts(f)'
    BY <1>t, <2>u, <2>s, CountsStay DEF FlowOK
  <2>8. FlowOK(f)'
    BY <2>2, <2>3, <2>4, <2>5, <2>6, <2>7 DEF FlowOK
  <2> QED BY <2>1, <2>8, <2>l DEF KeptInv, ListsStay
<1>2. CASE fLock' = Unlocked(f) /\ PruneReturn(t, 0) /\ UNCHANGED fb
  <2>1. Away(t)
    BY <1>2, <1>t, PruneAway
  <2> QED BY <1>2, <1>t, <2>1, LetsGo
<1> QED BY <1>1, <1>2, <1>f DEF PruneCheck

(* A flow that has left the hash is f->m locked and counted by nobody.     *)
LEMMA TakingFlow ==
  ASSUME TypeOK, NEW t \in Thread, NEW f \in Flow, FlowOK(f), At(t, Taking \ Late, f)
  PROVE  /\ fLock[f] = t /\ fb[f] = NULL /\ refs[f] = 0 /\ Users(f) = {}
         /\ \A u \in Thread \ {t} : ~At(u, Holding, f)
<1>1. At(t, Holding \ Late, f) /\ At(t, Taking, f)
  BY DEF At, Taking, Holding
<1>2. fLock[f] = t /\ fb[f] = NULL
  BY <1>1, HeldAt DEF FlowOK, Removed
<1>3. \A u \in Thread \ {t} : ~At(u, Holding, f)
  BY <1>2, Alone
<1>4. refs[f] \in Int /\ refs[f] >= 0 /\ ~(refs[f] > 0) /\ Users(f) = {}
  BY <1>2 DEF FlowOK, Hashed, Counts, TypeOK
<1> QED BY <1>2, <1>3, <1>4

(* FlowRequeue: the flow leaves its queue ...                              *)
LEMMA PruneUnlinkKept ==
  ASSUME TypeInv, TypeOK', KeptInv, NEW t \in Thread \ Streamer, PruneUnlink(t)
  PROVE  KeptInv'
<1>f. PICK f \in Flow : f = reg[t].f
  BY DEF PruneUnlink, TypeInv, HasFlow, HoldsFlow
<1>q. PICK q \in Queue \ {Spare} : q = QueueAt(reg[t].qi)
  BY QueueAtType DEF TypeInv, TypeOK, RegRec
<1>t. t \in Thread /\ TypeOK /\ reg[t].f = f /\ FlowOK(f) /\ pc[t] = "prune_unlink" /\ At(t, Taking \ Late, f)
  BY <1>f DEF PruneUnlink, TypeInv, KeptInv, At, Taking, Late
<1>u. /\ UNCHANGED <<alloced, fLock, fb, refs>> /\ fl' = [fl EXCEPT ![f] = Blank]
      /\ use_cnt' = [use_cnt EXCEPT ![f] = 0] /\ queue' = Unlinked(q, f)
      /\ Moves(t, "prune_spare", reg[t])
  BY <1>f, <1>q, <1>t DEF PruneUnlink, heapVars, lockVars, Moves, TypeOK
<1>k. /\ fLock[f] = t /\ fb[f] = NULL /\ refs[f] = 0 /\ Users(f) = {}
      /\ \A u \in Thread \ {t} : ~At(u, Holding, f)
  BY <1>t, TakingFlow
<1>h. InQueue(f, q) /\ f \in alloced /\ Lists(f) = {q} /\ Hands(f) = {}
  <2>1. InQueue(f, q)
    BY <1>t, <1>q DEF FlowOK, Pruned, At
  <2>2. q \in Lists(f)
    BY <2>1 DEF Lists
  <2> QED BY <1>t, <2>1, <2>2 DEF FlowOK, Placed
<1>l. Leaves(q, f)
  BY <1>t, <1>u, <1>h, UnlinkedLeaves DEF KeptInv
<1>s. OneMoves(t, "prune_spare", reg[t]) /\ Hands(f)' = {t} /\ Users(f)' = {}
  <2>1. "prune_spare" \in Carrying /\ "prune_spare" \notin {"lock", "handle", "relink"}
    BY DEF Carrying
  <2>2. /\ OneMoves(t, "prune_spare", reg[t]) /\ Hands(f)' = Hands(f) \cup {t}
        /\ Users(f)' = Users(f) \ {t}
    BY <1>t, <1>u, <2>1, MoveShape
  <2> QED BY <1>h, <1>k, <2>2
<1>1. \A g \in Flow \ {f} : FlowOK(g)'
  <2>1. \A g \in Flow \ {f} : SameFlow(g)
    BY <1>l, <1>u, <1>t DEF SameFlow, Leaves, TypeOK
  <2> QED BY <1>t, <1>u, <2>1, OtherFlows
<1>p. Lists(f)' = {}
  BY <1>l, <1>h DEF Lists, Leaves
<1>2. Locked(f)' /\ Owned(f)' /\ Unheld(f)'
  BY <1>t, <1>u, <1>k, <1>h, <1>s DEF Locked, Owned, Unheld, Broken, OneMoves, At, Holding
<1>3. Placed(f)'
  BY <1>s, <1>p, <1>h, <1>u, <1>t DEF Placed
<1>4. Named(f)' /\ Removed(f)' /\ Listed(f)'
  BY <1>k, <1>u, <1>p DEF Named, Removed, Listed, Lists
<1>5. Pruned(f)'
  BY <1>k, <1>s DEF Pruned, OneMoves, At, Holding
<1>6. Hashed(f)'
  <2>1. \A u \in Thread : ~At(u, Inside, f)'
    BY <1>k, <1>s DEF OneMoves, At, Inside, Holding
  <2> QED BY <1>k, <1>u, <1>s, <2>1 DEF Hashed
<1>7. Counts(f)'
  <2>1. use_cnt'[f] = 0 /\ refs'[f] = 0
    BY <1>u, <1>t, <1>k DEF TypeOK
  <2> QED BY <1>s, <2>1, FS_EmptySet DEF Counts
<1>8. FlowOK(f)'
  BY <1>2, <1>3, <1>4, <1>5, <1>6, <1>7 DEF FlowOK
<1> QED BY <1>1, <1>8, <1>l DEF KeptInv, Leaves

(* ... and joins the spare queue, where other threads find it although     *)
(* this one still holds its mutex.                                         *)
LEMMA SpareJoinedKept ==
  ASSUME TypeInv, TypeOK', KeptInv, NEW t \in Thread, pc[t] \in {"prune_spare", "kill_spare"},
         NEW f \in Flow, reg[t].f = f, queue' = Linked(Spare, f),
         NEW l \in {"prune_unlock", "kill_unlock"}, Goto(t, l),
         UNCHANGED <<alloced, fLock, fb, fl, use_cnt, refs, reg>>
  PROVE  KeptInv'
<1>t. TypeOK /\ FlowOK(f) /\ At(t, Taking \ Late, f) /\ Spare \in Queue
  BY DEF TypeInv, KeptInv, At, Taking, Late, Queue
<1>m. Moves(t, l, reg[t])
  BY <1>t DEF Moves, TypeOK
<1>k. /\ fLock[f] = t /\ fb[f] = NULL /\ refs[f] = 0 /\ Users(f) = {}
      /\ \A u \in Thread \ {t} : ~At(u, Holding, f)
  BY <1>t, TakingFlow
<1>h. t \in Hands(f) /\ f \in alloced /\ Lists(f) = {} /\ Hands(f) = {t}
  <2>1. t \in Hands(f)
    BY DEF Hands, At, Carrying
  <2> QED BY <1>t, <2>1 DEF FlowOK, Placed
<1>j. Joins(Spare, f)
  <2>1. ~InQueue(f, Spare)
    BY <1>h, <1>t DEF Lists
  <2> QED BY <1>t, <2>1, LinkedJoins DEF KeptInv
<1>s. OneMoves(t, l, reg[t]) /\ Hands(f)' = {} /\ Users(f)' = {}
  <2>1. l \notin Carrying /\ l \notin {"lock", "handle", "relink"}
    BY DEF Carrying
  <2>2. OneMoves(t, l, reg[t]) /\ Hands(f)' = Hands(f) \ {t} /\ Users(f)' = Users(f) \ {t}
    BY <1>t, <1>m, <2>1, MoveShape
  <2> QED BY <1>h, <1>k, <2>2
<1>1. \A g \in Flow \ {f} : FlowOK(g)'
  <2>1. \A g \in Flow \ {f} : SameFlow(g)
    BY <1>j DEF SameFlow, Joins
  <2> QED BY <1>t, <1>m, <2>1, OtherFlows
<1>p. Lists(f)' = {Spare}
  BY <1>j, <1>h, <1>t DEF Lists, Joins
<1>2. Locked(f)' /\ Owned(f)' /\ Unheld(f)'
  BY <1>k, <1>h, <1>s DEF Locked, Owned, Unheld, Broken, OneMoves, At, Holding
<1>3. Placed(f)'
  BY <1>s, <1>p, <1>h, <1>t DEF Placed
<1>4. Named(f)' /\ Removed(f)' /\ Listed(f)'
  BY <1>k, <1>p DEF Named, Removed, Listed, Lists
<1>5. Pruned(f)'
  BY <1>k, <1>s DEF Pruned, OneMoves, At, Holding
<1>6. Hashed(f)'
  <2>1. \A u \in Thread : ~At(u, Inside, f)'
    BY <1>k, <1>s DEF OneMoves, At, Inside, Holding
  <2> QED BY <1>k, <1>s, <2>1 DEF Hashed
<1>7. Counts(f)'
  BY <1>t, <1>k, <1>s, CountsStay DEF FlowOK
<1>8. FlowOK(f)'
  BY <1>2, <1>3, <1>4, <1>5, <1>6, <1>7 DEF FlowOK
<1> QED BY <1>1, <1>8, <1>j DEF KeptInv, Joins

LEMMA PruneKept ==
  ASSUME TypeInv, TypeOK', KeptInv, NEW t \in Thread \ Streamer, Prune(t)
  PROVE  KeptInv'
<1>1. CASE PruneTop(t)
  BY <1>1, PruneTopKept
<1>2. CASE PruneCheck(t)
  BY <1>2, PruneCheckKept
<1>3. CASE PruneUnlink(t)
  BY <1>3, PruneUnlinkKept
<1>4. CASE PruneSpare(t)
  <2>1. PICK f \in Flow : f = reg[t].f
    BY <1>4 DEF PruneSpare, TypeInv, HasFlow, HoldsFlow
  <2>2. /\ pc[t] = "prune_spare" /\ queue' = Linked(Spare, f) /\ Goto(t, "prune_unlock")
        /\ UNCHANGED <<alloced, fLock, fb, fl, use_cnt, refs, reg>>
    BY <1>4, <2>1 DEF PruneSpare, heapVars, lockVars
  <2> QED BY <2>1, <2>2, SpareJoinedKept
<1>5. CASE PruneUnlock(t)
  <2>1. PICK f \in Flow : f = reg[t].f
    BY <1>5 DEF PruneUnlock, TypeInv, HasFlow, HoldsFlow
  <2>2. /\ pc[t] = "prune_unlock" /\ fLock' = Unlocked(f) /\ PruneReturn(t, 1)
        /\ UNCHANGED <<alloced, queue, fb, fl, use_cnt, refs>>
    BY <1>5, <2>1 DEF PruneUnlock, heapVars
  <2>3. Away(t)
    BY <2>2, PruneAway DEF TypeInv
  <2> QED BY <2>1, <2>2, <2>3, LetsGo
<1> QED BY <1>1, <1>2, <1>3, <1>4, <1>5 DEF Prune

(***************************************************************************)
(* FlowKill.                                                               *)
(***************************************************************************)

(* The flow FlowKill takes is unlocked and unused: it leaves the hash and  *)
(* its queue in one step.                                                  *)
LEMMA KilledKept ==
  ASSUME TypeInv, TypeOK', KeptInv, NEW t \in Worker, pc[t] = "kill_walk",
         NEW f \in Flow, reg[t].f = f, NEW q \in Queue \ {Spare}, InQueue(f, q),
         fLock[f] = NULL, NotInUse(f), fLock' = [fLock EXCEPT ![f] = t],
         fb' = [fb EXCEPT ![f] = NULL], fl' = [fl EXCEPT ![f] = Blank],
         queue' = Unlinked(q, f), Goto(t, "kill_spare"), UNCHANGED <<alloced, use_cnt, refs, reg>>
  PROVE  KeptInv'
<1>t. t \in Thread /\ TypeOK /\ FlowOK(f)
  BY DEF Thread, TypeInv, KeptInv
<1>m. Moves(t, "kill_spare", reg[t])
  BY <1>t DEF Moves, TypeOK
<1>k. refs[f] = 0 /\ Users(f) = {} /\ \A u \in Thread \ {t} : ~At(u, Holding, f)
  BY <1>t, NotInUseMeans, Alone
<1>h. f \in alloced /\ Lists(f) = {q} /\ Hands(f) = {}
  <2>1. q \in Lists(f)
    BY DEF Lists
  <2> QED BY <1>t, <2>1 DEF FlowOK, Placed
<1>l. Leaves(q, f)
  BY <1>t, UnlinkedLeaves DEF KeptInv
<1>s. OneMoves(t, "kill_spare", reg[t]) /\ Hands(f)' = {t} /\ Users(f)' = {}
  <2>1. "kill_spare" \in Carrying /\ "kill_spare" \notin {"lock", "handle", "relink"}
    BY DEF Carrying
  <2>2. /\ OneMoves(t, "kill_spare", reg[t]) /\ Hands(f)' = Hands(f) \cup {t}
        /\ Users(f)' = Users(f) \ {t}
    BY <1>t, <1>m, <2>1, MoveShape
  <2> QED BY <1>h, <1>k, <2>2
<1>1. \A g \in Flow \ {f} : FlowOK(g)'
  <2>1. \A g \in Flow \ {f} : SameFlow(g)
    BY <1>l, <1>t DEF SameFlow, Leaves, TypeOK
  <2> QED BY <1>t, <1>m, <2>1, OtherFlows
<1>p. Lists(f)' = {} /\ fb'[f] = NULL /\ fLock'[f] = t
  BY <1>l, <1>h, <1>t DEF Lists, Leaves, TypeOK
<1>2. Locked(f)' /\ Owned(f)' /\ Unheld(f)'
  BY <1>t, <1>k, <1>h, <1>s, <1>p DEF Locked, Owned, Unheld, Broken, OneMoves, At, Holding
<1>3. Placed(f)'
  BY <1>s, <1>p, <1>h, <1>t DEF Placed
<1>4. Named(f)' /\ Removed(f)' /\ Listed(f)'
  BY <1>p DEF Named, Removed, Listed, Lists
<1>5. Pruned(f)'
  BY <1>k, <1>s DEF Pruned, OneMoves, At, Holding
<1>6. Hashed(f)'
  <2>1. \A u \in Thread : ~At(u, Inside, f)'
    BY <1>k, <1>s DEF OneMoves, At, Inside, Holding
  <2> QED BY <1>k, <1>s, <2>1 DEF Hashed
<1>7. Counts(f)'
  BY <1>t, <1>k, <1>s, CountsStay DEF FlowOK
<1>8. FlowOK(f)'
  BY <1>2, <1>3, <1>4, <1>5, <1>6, <1>7 DEF FlowOK
<1> QED BY <1>1, <1>8, <1>l DEF KeptInv, Leaves

LEMMA KillWalkKept ==
  ASSUME TypeInv, TypeOK', KeptInv, NEW t \in Worker, KillWalk(t)
  PROVE  KeptInv'
<1>f. PICK f \in Flow : f = reg[t].f
  BY DEF KillWalk, Thread, TypeInv, HasFlow, HoldsFlow
<1>q. PICK q \in Queue \ {Spare} : q = QueueAt(reg[t].qi)
  BY QueueAtType DEF TypeInv, TypeOK, RegRec, Thread
<1>t. /\ t \in Thread /\ TypeOK /\ reg[t] \in RegRec /\ reg[t].f = f /\ pc[t] = "kill_walk"
      /\ InQueue(f, q) /\ UNCHANGED <<alloced, use_cnt, refs>>
  BY <1>f, <1>q DEF KillWalk, Thread, TypeInv, TypeOK, KillHolds, InQueue, heapVars
<1>1. CASE /\ fLock[f] = NULL /\ NotInUse(f) /\ fLock' = [fLock EXCEPT ![f] = t]
           /\ fb' = [fb EXCEPT ![f] = NULL] /\ fl' = [fl EXCEPT ![f] = Blank]
           /\ queue' = Unlinked(q, f) /\ Goto(t, "kill_spare") /\ UNCHANGED reg
  BY <1>1, <1>t, KilledKept
<1>2. CASE UNCHANGED <<fLock, fb, fl, queue>> /\ UNCHANGED pc /\ \E v : reg' = [reg EXCEPT ![t].f = v]
  <2>1. PICK v : reg' = [reg EXCEPT ![t].f = v]
    BY <1>2
  <2>2. Moves(t, "kill_walk", [reg[t] EXCEPT !.f = v])
    BY <1>2, <1>t, <2>1 DEF Moves, Goto, TypeOK
  <2>3. Away(t) /\ QuietFlows /\ pc[t] \notin Working
    BY <1>2, <1>t, <2>2 DEF Away, QuietFlows, Working
  <2> QED BY <1>t, <2>3, AwayKept
<1>3. CASE UNCHANGED <<fLock, fb, fl, queue>> /\ Continue(t, [reg[t] EXCEPT !.f = NULL])
  <2>1. [reg[t] EXCEPT !.f = NULL] \in RegRec
    BY <1>t DEF RegRec
  <2>2. Away(t)
    BY <1>3, <1>t, <2>1, ContinueAway
  <2>3. QuietFlows /\ pc[t] \notin Working
    BY <1>3, <1>t DEF QuietFlows, Working
  <2> QED BY <1>t, <2>2, <2>3, AwayKept
<1>4. \/ /\ fLock[f] = NULL /\ NotInUse(f) /\ fLock' = [fLock EXCEPT ![f] = t]
         /\ fb' = [fb EXCEPT ![f] = NULL] /\ fl' = [fl EXCEPT ![f] = Blank]
         /\ queue' = Unlinked(q, f) /\ Goto(t, "kill_spare") /\ UNCHANGED reg
      \/ UNCHANGED <<fLock, fb, fl, queue>> /\ UNCHANGED pc /\ \E v : reg' = [reg EXCEPT ![t].f = v]
      \/ UNCHANGED <<fLock, fb, fl, queue>> /\ Continue(t, [reg[t] EXCEPT !.f = NULL])
  BY <1>f, <1>q DEF KillWalk
<1> QED BY <1>1, <1>2, <1>3, <1>4

LEMMA KillKept ==
  ASSUME TypeInv, TypeOK', KeptInv, NEW t \in Worker, Kill(t)
  PROVE  KeptInv'
<1>t. t \in Thread /\ TypeOK /\ reg[t] \in RegRec
  BY DEF Thread, TypeInv, TypeOK
<1>1. CASE KillStart(t)
  <2>1. QuietFlows /\ pc[t] \notin Working
    BY <1>1 DEF KillStart, QuietFlows, heapVars, Working, HoldsFlow
  <2>2. CASE \E v : reg' = [reg EXCEPT ![t] = v] /\ Goto(t, "kill_walk")
    <3>1. Away(t)
      BY <2>2 DEF Away, Moves, Working
    <3> QED BY <1>t, <2>1, <3>1, AwayKept
  <2>3. CASE Continue(t, Try(t))
    <3>1. Away(t)
      BY <1>t, <2>3, TryType, ContinueAway
    <3> QED BY <1>t, <2>1, <3>1, AwayKept
  <2>4. (\E v : reg' = [reg EXCEPT ![t] = v] /\ Goto(t, "kill_walk")) \/ Continue(t, Try(t))
    BY <1>1 DEF KillStart
  <2> QED BY <2>2, <2>3, <2>4
<1>2. CASE KillWalk(t)
  BY <1>2, KillWalkKept
<1>3. CASE KillSpare(t)
  <2>1. PICK f \in Flow : f = reg[t].f
    BY <1>3, <1>t DEF KillSpare, TypeInv, HasFlow, HoldsFlow
  <2>2. /\ pc[t] = "kill_spare" /\ queue' = Linked(Spare, f) /\ Goto(t, "kill_unlock")
        /\ UNCHANGED <<alloced, fLock, fb, fl, use_cnt, refs, reg>>
    BY <1>3, <2>1 DEF KillSpare, heapVars, lockVars
  <2> QED BY <1>t, <2>1, <2>2, SpareJoinedKept
<1>4. CASE KillUnlock(t)
  <2>1. PICK f \in Flow : f = reg[t].f
    BY <1>4, <1>t DEF KillUnlock, TypeInv, HasFlow, HoldsFlow
  <2>2. /\ pc[t] = "kill_unlock" /\ fLock' = Unlocked(f)
        /\ Continue(t, [reg[t] EXCEPT !.f = NULL, !.got = @ + 1])
        /\ UNCHANGED <<alloced, queue, fb, fl, use_cnt, refs>>
    BY <1>4, <2>1 DEF KillUnlock, heapVars
  <2>3. Away(t)
    <3>1. [reg[t] EXCEPT !.f = NULL, !.got = @ + 1] \in RegRec
      BY <1>t, RegAfterPrune
    <3> QED BY <1>t, <2>2, <3>1, ContinueAway
  <2> QED BY <1>t, <2>1, <2>2, <2>3, LetsGo
<1> QED BY <1>1, <1>2, <1>3, <1>4 DEF Kill

(***************************************************************************)
(* FlowManagerThread.                                                      *)
(***************************************************************************)

(* MgrLoop puts the flow out of the manager's hands: into the spare queue  *)
(* or back to the system.                                                  *)
LEMMA LoopMoves ==
  ASSUME TypeOK, NEW l \in {"alloc", "m_free"}, MgrLoop(l)
  PROVE  /\ Away(Mgr) /\ Mgr \in Thread
         /\ \E m, w : Moves(Mgr, m, w) /\ m \in {"alloc", "m_free", "prune"}
<1> DEFINE m == IF reg[Mgr].cnt > 1 THEN l ELSE "prune"
           w == [[reg[Mgr] EXCEPT !.f = NULL] EXCEPT !.cnt = @ - 1]
<1>t. Mgr \in Thread /\ reg[Mgr] \in RegRec
  BY DEF TypeOK, Thread
<1>1. reg' = [reg EXCEPT ![Mgr] = w]
  BY <1>t DEF MgrLoop, TypeOK, RegRec
<1>2. Moves(Mgr, m, w) /\ m \in {"alloc", "m_free", "prune"}
  BY <1>1 DEF MgrLoop, Moves
<1>3. m \notin Working
  BY <1>2 DEF Working, HoldsFlow
<1> HIDE DEF m, w
<1> QED BY <1>t, <1>2, <1>3 DEF Away

(* The flow in the manager's hands is nobody's.                            *)
LEMMA CarriedFree ==
  ASSUME TypeOK, NEW f \in Flow, FlowOK(f), NEW t \in Thread, At(t, {"m_enq", "m_ff"}, f)
  PROVE  /\ fb[f] = NULL /\ f \in alloced /\ Lists(f) = {} /\ Hands(f) = {t}
         /\ refs[f] = 0 /\ Users(f) = {} /\ \A u \in Thread : ~At(u, Inside, f)
<1>1. At(t, Carrying, f) /\ t \in Hands(f) /\ pc[t] # "relink"
  BY DEF At, Carrying, Hands
<1>2. fb[f] = NULL
  BY <1>1, HashedFlow
<1>3. refs[f] \in Int /\ refs[f] >= 0 /\ ~(refs[f] > 0) /\ Users(f) = {} /\ \A u \in Thread : ~At(u, Inside, f)
  BY <1>2 DEF FlowOK, Hashed, Counts, TypeOK
<1> QED BY <1>1, <1>2, <1>3 DEF FlowOK, Placed

(* FlowEnqueue of an allocated flow.                                       *)
LEMMA EnqueueKept ==
  ASSUME TypeInv, TypeOK', KeptInv, MgrEnqueue
  PROVE  KeptInv'
<1>f. PICK f \in Flow : f = reg[Mgr].f
  BY DEF MgrEnqueue, TypeInv, HasFlow, HoldsFlow, Thread
<1>t. /\ Mgr \in Thread /\ TypeOK /\ FlowOK(f) /\ At(Mgr, {"m_enq", "m_ff"}, f) /\ Spare \in Queue
      /\ reg[Mgr].f = f /\ pc[Mgr] = "m_enq" /\ Mgr \notin Worker
      /\ queue' = [queue EXCEPT ![Spare] = <<f>> \o @]
      /\ UNCHANGED <<alloced, fLock, fb, fl, use_cnt, refs>>
  BY <1>f, FlowEngineAssumption DEF MgrEnqueue, TypeInv, KeptInv, At, Thread, Queue, heapVars, lockVars
<1>m. PICK l, w : Moves(Mgr, l, w) /\ l \in {"alloc", "m_free", "prune"}
  BY <1>t, LoopMoves DEF MgrEnqueue
<1>h. /\ fb[f] = NULL /\ f \in alloced /\ Lists(f) = {} /\ Hands(f) = {Mgr}
      /\ refs[f] = 0 /\ Users(f) = {} /\ \A u \in Thread : ~At(u, Inside, f)
  BY <1>t, CarriedFree
<1>j. Joins(Spare, f)
  <2>1. ~InQueue(f, Spare)
    BY <1>h, <1>t DEF Lists
  <2> QED BY <1>t, <2>1, TopJoins DEF KeptInv
<1>s. OneMoves(Mgr, l, w) /\ Hands(f)' = {} /\ Users(f)' = {}
  <2>1. l \notin Carrying
    BY <1>m DEF Carrying
  <2>2. OneMoves(Mgr, l, w) /\ Hands(f)' = Hands(f) \ {Mgr} /\ Users(f)' = Users(f) \ {Mgr}
    BY <1>t, <1>m, <2>1, MoveShape
  <2> QED BY <1>h, <2>2
<1>1. \A g \in Flow \ {f} : FlowOK(g)'
  <2>1. \A g \in Flow \ {f} : SameFlow(g)
    BY <1>j, <1>t DEF SameFlow, Joins
  <2>2. l \notin Working
    BY <1>m DEF Working, HoldsFlow
  <2> QED BY <1>t, <1>m, <2>1, <2>2, OtherFlows
<1>p. Lists(f)' = {Spare}
  BY <1>j, <1>h, <1>t DEF Lists, Joins
<1>2. Locked(f)' /\ Owned(f)' /\ Unheld(f)'
  <2>1. pc[Mgr] \notin Holding /\ l \notin Holding
    BY <1>t, <1>m DEF Holding
  <2>2. Locked(f)' /\ Owned(f)'
    BY <1>t, <1>m, <2>1, LockStays
  <2> QED BY <1>t, <1>h, <2>2 DEF Unheld
<1>3. Placed(f)'
  BY <1>s, <1>p, <1>h, <1>t DEF Placed
<1>4. Named(f)' /\ Removed(f)' /\ Listed(f)'
  BY <1>h, <1>t, <1>p DEF Named, Removed, Listed, Lists
<1>5. Pruned(f)'
  <2>1. \A u \in Thread : ~At(u, {"prune_fb", "prune_unlink"}, f)
    <3>1. ASSUME NEW u \in Thread, At(u, {"prune_fb", "prune_unlink"}, f) PROVE FALSE
      <4>1. InQueue(f, QueueAt(reg[u].qi))
        BY <1>t, <3>1 DEF FlowOK, Pruned
      <4>2. QueueAt(reg[u].qi) \in Queue
        BY <1>t, QueueAtType DEF TypeOK, RegRec
      <4> QED BY <1>h, <4>1, <4>2 DEF Lists
    <3> QED BY <3>1
  <2> QED BY <1>m, <1>s, <2>1 DEF Pruned, OneMoves, At
<1>6. Hashed(f)'
  <2>1. \A u \in Thread : ~At(u, Inside, f)'
    BY <1>h, <1>m, <1>s DEF OneMoves, At, Inside
  <2> QED BY <1>t, <1>h, <1>s, <2>1 DEF Hashed
<1>7. Counts(f)'
  BY <1>t, <1>h, <1>s, CountsStay DEF FlowOK
<1>8. FlowOK(f)'
  BY <1>2, <1>3, <1>4, <1>5, <1>6, <1>7 DEF FlowOK
<1> QED BY <1>1, <1>8, <1>j DEF KeptInv, Joins

(* FlowFree destroys f->m.  If somebody still holds it, it is a thread     *)
(* between the last two steps of FlowPrune or FlowKill.                    *)
Streaming == \A s \in Streamer : pc[s] \in {"idle", "stream", "handle", "relink"}
FreedUnheld == MgrFree => fLock[reg[Mgr].f] = NULL

LEMMA HeldFree ==
  ASSUME TypeOK, NEW f \in Flow, FlowOK(f), Streaming, At(Mgr, {"m_ff"}, f), fLock[f] # NULL
  PROVE  fLock[f] \in Worker /\ At(fLock[f], Late, f)
<1>1. PICK u \in Thread : u = fLock[f] /\ At(u, Holding, f)
  BY LockType DEF FlowOK, Owned
<1>m. Mgr \in Thread /\ u # Mgr /\ At(Mgr, {"m_enq", "m_ff"}, f)
  BY <1>1 DEF Thread, At, Holding
<1>2. Lists(f) = {} /\ Hands(f) = {Mgr} /\ ~At(u, Inside, f)
  BY <1>m, CarriedFree
<1>3. ~At(u, Carrying, f)
  BY <1>m, <1>2 DEF Hands
<1>4. ~At(u, {"prune_unlink"}, f)
  <2>1. QueueAt(reg[u].qi) \in Queue
    BY QueueAtType DEF TypeOK, RegRec
  <2> QED BY <1>2, <2>1 DEF FlowOK, Pruned, Lists, At
<1>5. At(u, Late, f)
  BY <1>1, <1>2, <1>3, <1>4 DEF At, Holding, Inside, Carrying, Late
<1>6. u \notin Streamer
  BY <1>5 DEF Streaming, At, Late
<1> QED BY <1>1, <1>m, <1>5, <1>6 DEF Thread

LEMMA FreeKept ==
  ASSUME TypeInv, TypeOK', KeptInv, Streaming, MgrFree, FreedUnheld \/ OneDecoder
  PROVE  KeptInv'
<1>f. PICK f \in Flow : f = reg[Mgr].f
  BY DEF MgrFree, TypeInv, HasFlow, HoldsFlow, Thread
<1>t. /\ Mgr \in Thread /\ TypeOK /\ FlowOK(f) /\ At(Mgr, {"m_enq", "m_ff"}, f)
      /\ reg[Mgr].f = f /\ pc[Mgr] = "m_ff" /\ Mgr \notin Worker
      /\ alloced' = alloced \ {f}
      /\ UNCHANGED <<queue, fLock, fb, fl, use_cnt, refs>>
  BY <1>f, FlowEngineAssumption DEF MgrFree, TypeInv, KeptInv, At, Thread, lockVars
<1>m. PICK l, w : Moves(Mgr, l, w) /\ l \in {"alloc", "m_free", "prune"}
  BY <1>t, LoopMoves DEF MgrFree
<1>h. /\ fb[f] = NULL /\ f \in alloced /\ Lists(f) = {} /\ Hands(f) = {Mgr}
      /\ refs[f] = 0 /\ Users(f) = {} /\ \A u \in Thread : ~At(u, Inside, f)
  BY <1>t, CarriedFree
<1>l. ListsStay
  BY <1>t, ListsSame DEF KeptInv
<1>n. fLock[f] # NULL => \E u \in Thread \ {Mgr} : Broken(u, f)
  <2>1. FreedUnheld => fLock[f] = NULL
    BY <1>f DEF FreedUnheld
  <2>2. ASSUME OneDecoder, fLock[f] # NULL PROVE \E u \in Thread \ {Mgr} : Broken(u, f)
    <3>1. fLock[f] \in Worker /\ At(fLock[f], Late, f)
      BY <1>t, <2>2, HeldFree DEF At
    <3>2. Worker = {fLock[f]} /\ fLock[f] \in Thread \ {Mgr}
      BY <1>t, <2>2, <3>1 DEF OneDecoder, Thread
    <3> QED BY <3>1, <3>2 DEF Broken
  <2> QED BY <2>1, <2>2
<1>s. OneMoves(Mgr, l, w) /\ Hands(f)' = {} /\ Users(f)' = {}
  <2>1. l \notin Carrying
    BY <1>m DEF Carrying
  <2>2. OneMoves(Mgr, l, w) /\ Hands(f)' = Hands(f) \ {Mgr} /\ Users(f)' = Users(f) \ {Mgr}
    BY <1>t, <1>m, <2>1, MoveShape
  <2> QED BY <1>h, <2>2
<1>1. \A g \in Flow \ {f} : FlowOK(g)'
  <2>1. \A g \in Flow \ {f} : SameFlow(g)
    BY <1>l, <1>t DEF SameFlow, ListsStay
  <2>2. l \notin Working
    BY <1>m DEF Working, HoldsFlow
  <2> QED BY <1>t, <1>m, <2>1, <2>2, OtherFlows
<1>2. Locked(f)' /\ Owned(f)' /\ Unheld(f)'
  <2>1. pc[Mgr] \notin Holding /\ l \notin Holding
    BY <1>t, <1>m DEF Holding
  <2>2. Locked(f)' /\ Owned(f)'
    BY <1>t, <1>m, <2>1, LockStays
  <2>3. ASSUME NEW u \in Thread \ {Mgr}, Broken(u, f) PROVE Broken(u, f)'
    BY <1>s, <2>3 DEF OneMoves, Broken, At
  <2> QED BY <1>t, <1>n, <2>2, <2>3 DEF Unheld
<1>p. Lists(f)' = {}
  BY <1>l, <1>h DEF Lists, ListsStay
<1>3. Placed(f)'
  BY <1>s, <1>p, <1>t DEF Placed
<1>4. Named(f)' /\ Removed(f)' /\ Listed(f)'
  BY <1>h, <1>t, <1>p DEF Named, Removed, Listed, Lists
<1>5. Pruned(f)'
  <2> SUFFICES ASSUME NEW u \in Thread, At(u, {"prune_fb", "prune_unlink"}, f)' PROVE FALSE
    BY DEF Pruned
  <2>1. At(u, {"prune_fb", "prune_unlink"}, f)
    BY <1>m, <1>s DEF OneMoves, At
  <2>2. InQueue(f, QueueAt(reg[u].qi))
    BY <1>t, <2>1 DEF FlowOK, Pruned
  <2>3. QueueAt(reg[u].qi) \in Queue
    BY <1>t, QueueAtType DEF TypeOK, RegRec
  <2> QED BY <1>h, <2>2, <2>3 DEF Lists
<1>6. Hashed(f)'
  <2>1. \A u \in Thread : ~At(u, Inside, f)'
    BY <1>h, <1>m, <1>s DEF OneMoves, At, Inside
  <2> QED BY <1>t, <1>h, <1>s, <2>1 DEF Hashed
<1>7. Counts(f)'
  BY <1>t, <1>h, <1>s, CountsStay DEF FlowOK
<1>8. FlowOK(f)'
  BY <1>2, <1>3, <1>4, <1>5, <1>6, <1>7 DEF FlowOK
<1> QED BY <1>1, <1>8, <1>l DEF KeptInv, ListsStay

LEMMA ManagerKept ==
  ASSUME TypeInv, TypeOK', KeptInv, Streaming, FreedUnheld \/ OneDecoder,
         MgrWake \/ MgrEnqueue \/ MgrDequeue \/ MgrFree \/ MgrRecover \/ MgrClear
  PROVE  KeptInv'
<1>t. Mgr \in Thread /\ TypeOK /\ reg[Mgr] \in RegRec
  BY DEF Thread, TypeInv, TypeOK
<1>q. ASSUME pc[Mgr] \in {"m_sleep", "m_free", "m_recover", "m_clear"}, QuietFlows, NEW v,
             reg' = [reg EXCEPT ![Mgr] = v],
             NEW l \in {"alloc", "m_free", "prune", "m_clear", "m_sleep"}, Goto(Mgr, l)
      PROVE  KeptInv'
  <2>1. pc[Mgr] \notin Working /\ l \notin Working /\ Moves(Mgr, l, v)
    BY <1>q DEF Working, HoldsFlow, Moves
  <2> QED BY <1>t, <1>q, <2>1, QuietStep
<1>s. UNCHANGED reg => reg' = [reg EXCEPT ![Mgr] = reg[Mgr]]
  BY <1>t DEF TypeOK
<1>1. CASE MgrWake
  <2>1. /\ pc[Mgr] = "m_sleep" /\ QuietFlows /\ \E v : reg' = [reg EXCEPT ![Mgr] = v]
        /\ \E l \in {"alloc", "m_free", "prune"} : Goto(Mgr, l)
    BY <1>1 DEF MgrWake, QuietFlows, heapVars, lockVars
  <2> QED BY <1>q, <2>1
<1>2. CASE MgrEnqueue
  BY <1>2, EnqueueKept
<1>3. CASE MgrDequeue
  <2>1. pc[Mgr] = "m_free" /\ UNCHANGED <<alloced, fb, fl, use_cnt, refs, fLock>>
    BY <1>3 DEF MgrDequeue, heapVars, lockVars
  <2>2. CASE queue[Spare] # <<>>
    BY <1>3, <1>t, <2>1, <2>2, SpareTakenKept DEF MgrDequeue
  <2>3. CASE queue[Spare] = <<>>
    <3>1. Goto(Mgr, "prune") /\ UNCHANGED <<queue, reg>>
      BY <1>3, <2>3 DEF MgrDequeue
    <3> QED BY <1>q, <1>s, <2>1, <3>1 DEF QuietFlows
  <2> QED BY <2>2, <2>3
<1>4. CASE MgrFree
  BY <1>4, FreeKept
<1>5. CASE MgrRecover
  <2>1. /\ pc[Mgr] = "m_recover" /\ QuietFlows /\ (\E v : reg' = [reg EXCEPT ![Mgr] = v])
        /\ \E l \in {"m_clear", "m_sleep"} : Goto(Mgr, l)
    BY <1>5, <1>s DEF MgrRecover, QuietFlows, heapVars, lockVars
  <2> QED BY <1>q, <2>1
<1>6. CASE MgrClear
  <2>1. pc[Mgr] = "m_clear" /\ QuietFlows /\ reg' = [reg EXCEPT ![Mgr] = NoReg] /\ Goto(Mgr, "m_sleep")
    BY <1>6 DEF MgrClear, QuietFlows, heapVars, lockVars
  <2> QED BY <1>q, <2>1
<1> QED BY <1>1, <1>2, <1>3, <1>4, <1>5, <1>6

(***************************************************************************)
(* The invariant is inductive.                                             *)
(***************************************************************************)

(* FlowInitConfig: each of the preallocated flows is enqueued once.        *)
LEMMA KeptInit == Init => KeptInv
<1> SUFFICES ASSUME Init PROVE KeptInv
  OBVIOUS
<1>1. PICK S \in SUBSET Flow :
        /\ Cardinality(S) = Prealloc /\ alloced = S
        /\ \E s \in [1 .. Prealloc -> S] :
             /\ {s[i] : i \in 1 .. Prealloc} = S
             /\ queue = [q \in Queue |-> IF q = Spare THEN s ELSE <<>>]
  BY DEF Init
<1>2. PICK s \in [1 .. Prealloc -> S] :
        /\ {s[i] : i \in 1 .. Prealloc} = S
        /\ queue = [q \in Queue |-> IF q = Spare THEN s ELSE <<>>]
  BY <1>1
<1>t. TypeOK /\ Prealloc \in Nat /\ Prealloc >= 1 /\ Spare \in Queue
  BY InitType, FlowEngineAssumption DEF TypeInv, Queue
<1>3. Len(s) = Prealloc /\ DOMAIN s = 1 .. Prealloc
  BY <1>t
<1>4. NoDup(s)
  <2>1. IsFiniteSet(1 .. Prealloc) /\ Cardinality(1 .. Prealloc) = Prealloc
    BY <1>t, FS_Interval
  <2>2. s \in Surjection(1 .. Prealloc, S)
    BY <1>2 DEF Surjection
  <2>3. s \in Injection(1 .. Prealloc, S)
    BY <1>1, <2>1, <2>2, FS_SurjSameCardinalityImpliesInj
  <2> QED BY <1>3, <2>3 DEF NoDup, Injection, IsInjective
<1>5. NoTwice
  <2> SUFFICES ASSUME NEW q \in Queue PROVE NoDup(queue[q])
    BY DEF NoTwice
  <2>1. CASE q = Spare
    BY <1>2, <1>4, <2>1
  <2>2. CASE q # Spare
    <3>1. queue[q] = <<>>
      BY <1>2, <2>2
    <3> QED BY <3>1 DEF NoDup
  <2> QED BY <2>1, <2>2
<1>6. ASSUME NEW f \in Flow PROVE FlowOK(f)
  <2>1. \A q \in Queue : InQueue(f, q) <=> q = Spare /\ f \in S
    <3>1. Elems(s) = S
      BY <1>2, <1>3 DEF Elems, L!Elems
    <3>2. Elems(<<>>) = {}
      BY DEF Elems, L!Elems
    <3> QED BY <1>2, <3>1, <3>2 DEF InQueue
  <2>2. \A t \in Thread : pc[t] \in {"idle", "m_sleep"}
    BY DEF Init
  <2>3. Hands(f) = {} /\ Users(f) = {}
    BY <2>2 DEF Hands, Users, Uses, Carrying, At, Thread
  <2>4. Placed(f)
    <3>1. CASE f \in S
      <4>1. Lists(f) = {Spare}
        BY <1>t, <2>1, <3>1 DEF Lists
      <4> QED BY <1>1, <1>t, <2>3, <3>1, <4>1 DEF Placed
    <3>2. CASE f \notin S
      <4>1. Lists(f) = {}
        BY <2>1, <3>2 DEF Lists
      <4> QED BY <1>1, <2>3, <3>2, <4>1 DEF Placed
    <3> QED BY <3>1, <3>2
  <2>5. fb[f] = NULL /\ fLock[f] = NULL /\ refs[f] = 0 /\ use_cnt[f] = 0
    BY DEF Init
  <2>6. Locked(f) /\ Owned(f) /\ Unheld(f) /\ Pruned(f)
    BY <2>2, <2>5 DEF Locked, Owned, Unheld, Pruned, At, Holding
  <2>7. Named(f) /\ Removed(f) /\ Listed(f)
    BY <2>1, <2>5 DEF Named, Removed, Listed
  <2>8. Hashed(f) /\ Counts(f)
    BY <2>2, <2>3, <2>5, FS_EmptySet DEF Hashed, Counts, At, Inside
  <2> QED BY <2>4, <2>6, <2>7, <2>8 DEF FlowOK
<1> QED BY <1>5, <1>6 DEF KeptInv

(***************************************************************************)
(* Where stream threads are, and in which stage a worker kills.            *)
(***************************************************************************)
Killing == {"kill", "kill_walk", "kill_spare", "kill_unlock"}
StageOK == \A t \in Worker : pc[t] \in Killing => reg[t].stage = 3
Labels == Streaming /\ StageOK

Staged(t) == \E l, v : Moves(t, l, v) /\ (l \in Killing => v.stage = 3)

LEMMA StagedBy ==
  ASSUME NEW t, NEW l, NEW v, Goto(t, l), reg' = [reg EXCEPT ![t] = v], l \in Killing => v.stage = 3
  PROVE  Staged(t)
  BY DEF Staged, Moves

LEMMA ContinueStaged ==
  ASSUME NEW t, NEW w \in RegRec, Continue(t, w)
  PROVE  Staged(t)
<1>1. CASE reg' = [reg EXCEPT ![t] = w] /\ Goto(t, IF w.stage = 3 THEN "kill" ELSE "prune")
  <2>1. CASE w.stage = 3
    BY <1>1, <2>1, StagedBy
  <2>2. CASE w.stage # 3
    <3>1. Goto(t, "prune") /\ "prune" \notin Killing
      BY <1>1, <2>2 DEF Killing
    <3> QED BY <1>1, <3>1, StagedBy
  <2> QED BY <2>1, <2>2
<1>2. ASSUME NEW v, v.stage = w.stage, reg' = [reg EXCEPT ![t] = v],
             Goto(t, IF w.stage = 3 THEN "kill" ELSE "prune")
      PROVE  Staged(t)
  <2>1. CASE w.stage = 3
    BY <1>2, <2>1, StagedBy
  <2>2. CASE w.stage # 3
    <3>1. Goto(t, "prune") /\ "prune" \notin Killing
      BY <1>2, <2>2 DEF Killing
    <3> QED BY <1>2, <3>1, StagedBy
  <2> QED BY <2>1, <2>2
<1>3. CASE /\ reg' = [reg EXCEPT ![t] = StageOf(w, w.stage + 1, DefaultPrune)]
           /\ Goto(t, IF w.stage = 2 THEN "kill" ELSE "prune")
  <2>1. StageOf(w, w.stage + 1, DefaultPrune).stage = w.stage + 1
    BY DEF StageOf, RegRec
  <2>2. CASE w.stage = 2
    <3>1. Goto(t, "kill") /\ StageOf(w, w.stage + 1, DefaultPrune).stage = 3
      BY <1>3, <2>1, <2>2
    <3> QED BY <1>3, <3>1, StagedBy
  <2>3. CASE w.stage # 2
    <3>1. Goto(t, "prune") /\ "prune" \notin Killing
      BY <1>3, <2>3 DEF Killing
    <3> QED BY <1>3, <3>1, StagedBy
  <2> QED BY <2>2, <2>3
<1>4. ASSUME NEW v, reg' = [reg EXCEPT ![t] = v], Goto(t, "idle") \/ Goto(t, "alloc") PROVE Staged(t)
  <2>1. "idle" \notin Killing /\ "alloc" \notin Killing
    BY DEF Killing
  <2> QED BY <1>4, <2>1, StagedBy
<1>5. CASE GiveUp(t)
  BY <1>4, <1>5 DEF GiveUp, BackToIdle
<1>6. CASE reg' = [reg EXCEPT ![t] = StageOf(w, 0, 0)] /\ Goto(t, "alloc")
  BY <1>4, <1>6
<1>7. CASE \E c : /\ reg' = [reg EXCEPT ![t] = [w EXCEPT !.f = NULL, !.qi = @ + 1, !.got = 0, !.cnt = c, !.try = c]]
                  /\ Goto(t, IF w.stage = 3 THEN "kill" ELSE "prune")
  <2>1. PICK c : /\ reg' = [reg EXCEPT ![t] = [w EXCEPT !.f = NULL, !.qi = @ + 1, !.got = 0, !.cnt = c, !.try = c]]
                 /\ Goto(t, IF w.stage = 3 THEN "kill" ELSE "prune")
    BY <1>7
  <2>2. [w EXCEPT !.f = NULL, !.qi = @ + 1, !.got = 0, !.cnt = c, !.try = c].stage = w.stage
    BY DEF RegRec
  <2> QED BY <1>2, <2>1, <2>2
<1> QED BY <1>1, <1>3, <1>5, <1>6, <1>7 DEF Continue

LEMMA PruneStaged ==
  ASSUME TypeOK, NEW t \in Thread \ Streamer, NEW r \in {0, 1}, PruneReturn(t, r)
  PROVE  Staged(t)
<1>t. reg[t] \in RegRec
  BY DEF TypeOK
<1>1. CASE t # Mgr
  <2>1. Continue(t, [reg[t] EXCEPT !.f = NULL, !.got = @ + r])
    BY <1>1 DEF PruneReturn
  <2>2. [reg[t] EXCEPT !.f = NULL, !.got = @ + r] \in RegRec
    BY <1>t, RegAfterPrune
  <2> QED BY <2>1, <2>2, ContinueStaged
<1>2. CASE t = Mgr
  <2>1. PICK l \in {"prune", "m_recover"}, v \in RegRec : Moves(t, l, v)
    BY <1>2, PruneReturnMoves DEF PruneShape
  <2> QED BY <2>1 DEF Staged, Killing
<1> QED BY <1>1, <1>2

(* Every step of a decoder thread or of the manager moves only that thread *)
(* and enters FlowKillFlows only in the third stage.                       *)
LEMMA WorkerStaged ==
  ASSUME TypeOK, StageOK, NEW t \in Worker, Arrive(t) \/ WorkerStep(t)
  PROVE  Staged(t)
<1>t. t \in Thread \ Streamer /\ reg[t] \in RegRec
  BY FlowEngineAssumption DEF Thread, TypeOK
<1>k. pc[t] \in Killing => reg[t].stage = 3
  BY DEF StageOK
<1>i. UNCHANGED reg => reg' = [reg EXCEPT ![t] = reg[t]]
  BY <1>t DEF TypeOK
<1>f. ASSUME NEW v, reg' = [reg EXCEPT ![t].f = v]
      PROVE  reg' = [reg EXCEPT ![t] = [reg[t] EXCEPT !.f = v]] /\ [reg[t] EXCEPT !.f = v].stage = reg[t].stage
  BY <1>f, <1>t DEF RegRec
<1>m. ASSUME NEW l, l \notin Killing, Goto(t, l), NEW v, reg' = [reg EXCEPT ![t] = v] PROVE Staged(t)
  BY <1>m DEF Staged, Moves
<1>l. ASSUME NEW l \in Killing, pc[t] \in Killing, Goto(t, l), NEW v, reg' = [reg EXCEPT ![t] = v],
             v.stage = reg[t].stage
      PROVE  Staged(t)
  BY <1>k, <1>l DEF Staged, Moves
<1>g. GiveUp(t) => Staged(t)
  BY <1>m DEF GiveUp, BackToIdle, Killing
<1>1. CASE Arrive(t) \/ LockBucket(t) \/ LockFlow(t) \/ GetNew(t)
  <2>1. CASE Arrive(t)
    BY <2>1, <1>m DEF Arrive, Killing
  <2>2. CASE LockBucket(t)
    BY <2>2, <1>m, <1>i, <1>f DEF LockBucket, Killing
  <2>3. CASE LockFlow(t)
    BY <2>3, <1>m, <1>i DEF LockFlow, Killing
  <2>4. CASE GetNew(t)
    BY <2>4, <1>m, <1>i, <1>f DEF GetNew, Killing
  <2> QED BY <1>1, <2>1, <2>2, <2>3, <2>4
<1>2. CASE CheckMemcap(t)
  <2>1. 1 \in 0 .. 3 /\ TryRelease \in Int
    BY FlowEngineAssumption
  <2>2. StageOf(reg[t], 1, TryRelease) \in RegRec
    BY <1>t, <2>1, RegType
  <2> QED BY <1>2, <2>2, <1>m, <1>i, ContinueStaged DEF CheckMemcap, Killing
<1>3. CASE InsertNew(t) \/ Handle(t) \/ Relink(t)
  <2>1. CASE InsertNew(t)
    BY <2>1, <1>m, <1>i DEF InsertNew, Killing
  <2>2. DoneWithFlow(t, reg[t].f) => Staged(t)
    BY <1>m DEF DoneWithFlow, BackToIdle, Killing
  <2>3. CASE Handle(t)
    BY <2>2, <2>3, <1>m, <1>i DEF Handle, Killing
  <2>4. CASE Relink(t)
    BY <2>2, <2>4 DEF Relink
  <2> QED BY <1>3, <2>1, <2>3, <2>4
<1>4. CASE Alloc(t)
  <2>0. t # Mgr
    BY FlowEngineAssumption
  <2>1. CASE AllocCheck(t)
    BY <2>0, <2>1, <1>m, <1>i, <1>g DEF AllocCheck, AllocFailed, Killing
  <2>2. CASE AllocAdd(t)
    BY <2>2, <1>m, <1>i DEF AllocAdd, Killing
  <2>3. CASE AllocMem(t)
    BY <2>0, <2>3, <1>m, <1>f, <1>g DEF AllocMem, AllocFailed, Killing
  <2> QED BY <1>4, <2>1, <2>2, <2>3 DEF Alloc
<1>5. CASE Prune(t)
  <2>1. CASE PruneTop(t)
    <3>1. t # Mgr /\ Try(t) \in RegRec
      BY <1>t, TryType, FlowEngineAssumption
    <3> QED BY <2>1, <3>1, <1>m, ContinueStaged DEF PruneTop, Killing
  <2>2. CASE PruneCheck(t)
    BY <2>2, <1>t, <1>m, <1>i, PruneStaged DEF PruneCheck, Killing
  <2>3. CASE PruneUnlink(t)
    BY <2>3, <1>m, <1>i DEF PruneUnlink, Killing
  <2>4. CASE PruneSpare(t)
    BY <2>4, <1>m, <1>i DEF PruneSpare, Killing
  <2>5. CASE PruneUnlock(t)
    BY <2>5, <1>t, PruneStaged DEF PruneUnlock
  <2> QED BY <1>5, <2>1, <2>2, <2>3, <2>4, <2>5 DEF Prune
<1>6. CASE Kill(t)
  <2>1. CASE KillStart(t)
    <3>1. Try(t) \in RegRec /\ Try(t).stage = reg[t].stage
      BY <1>t, TryType
    <3>2. ASSUME NEW v PROVE [Try(t) EXCEPT !.f = v].stage = Try(t).stage
      BY <3>1 DEF RegRec
    <3>3. pc[t] \in Killing /\ "kill_walk" \in Killing
      BY <2>1 DEF KillStart, Killing
    <3> QED BY <2>1, <3>1, <3>2, <3>3, <1>l, ContinueStaged DEF KillStart
  <2>2. CASE KillWalk(t)
    <3>1. [reg[t] EXCEPT !.f = NULL] \in RegRec
      BY <1>t DEF RegRec
    <3>2. pc[t] = "kill_walk" /\ {"kill_walk", "kill_spare"} \subseteq Killing
      BY <2>2 DEF KillWalk, Killing
    <3>3. CASE Goto(t, "kill_spare") /\ UNCHANGED reg
      BY <3>2, <3>3, <1>l, <1>i
    <3>4. CASE UNCHANGED pc /\ \E v : reg' = [reg EXCEPT ![t].f = v]
      <4>1. Goto(t, "kill_walk")
        BY <3>2, <3>4 DEF Goto, TypeOK
      <4> QED BY <3>2, <3>4, <4>1, <1>l, <1>f
    <3>5. CASE Continue(t, [reg[t] EXCEPT !.f = NULL])
      BY <3>1, <3>5, ContinueStaged
    <3>6. \/ Goto(t, "kill_spare") /\ UNCHANGED reg
          \/ UNCHANGED pc /\ \E v : reg' = [reg EXCEPT ![t].f = v]
          \/ Continue(t, [reg[t] EXCEPT !.f = NULL])
      BY <2>2 DEF KillWalk
    <3> QED BY <3>3, <3>4, <3>5, <3>6
  <2>3. CASE KillSpare(t)
    <3>1. pc[t] \in Killing /\ "kill_unlock" \in Killing
      BY <2>3 DEF KillSpare, Killing
    <3> QED BY <2>3, <3>1, <1>l, <1>i DEF KillSpare
  <2>4. CASE KillUnlock(t)
    <3>1. [reg[t] EXCEPT !.f = NULL, !.got = @ + 1] \in RegRec
      BY <1>t, RegAfterPrune
    <3> QED BY <2>4, <3>1, ContinueStaged DEF KillUnlock
  <2> QED BY <1>6, <2>1, <2>2, <2>3, <2>4 DEF Kill
<1> QED BY <1>1, <1>2, <1>3, <1>4, <1>5, <1>6 DEF WorkerStep

LEMMA ManagerStaged ==
  ASSUME TypeOK, MgrStep
  PROVE  Staged(Mgr)
<1>t. Mgr \in Thread \ Streamer /\ reg[Mgr] \in RegRec
  BY FlowEngineAssumption DEF Thread, TypeOK
<1>i. UNCHANGED reg => reg' = [reg EXCEPT ![Mgr] = reg[Mgr]]
  BY <1>t DEF TypeOK
<1>f. ASSUME NEW v, reg' = [reg EXCEPT ![Mgr].f = v]
      PROVE  reg' = [reg EXCEPT ![Mgr] = [reg[Mgr] EXCEPT !.f = v]]
  BY <1>f
<1>m. ASSUME NEW l, l \notin Killing, Goto(Mgr, l), NEW v, reg' = [reg EXCEPT ![Mgr] = v] PROVE Staged(Mgr)
  BY <1>m, StagedBy
<1>l. ASSUME NEW l \in {"alloc", "m_free"}, MgrLoop(l) PROVE Staged(Mgr)
  <2>1. PICK m, w : Moves(Mgr, m, w) /\ m \in {"alloc", "m_free", "prune"}
    BY <1>l, LoopMoves
  <2> QED BY <2>1, <1>m DEF Moves, Killing
<1>1. CASE MgrWake
  <2>1. /\ \E v : reg' = [reg EXCEPT ![Mgr] = v]
        /\ \E l \in {"alloc", "m_free", "prune"} : Goto(Mgr, l)
    BY <1>1 DEF MgrWake
  <2> QED BY <2>1, <1>m DEF Killing
<1>2. CASE MgrEnqueue \/ MgrFree
  BY <1>2, <1>l DEF MgrEnqueue, MgrFree
<1>3. CASE MgrDequeue
  BY <1>3, <1>m, <1>i, <1>f DEF MgrDequeue, Killing
<1>4. CASE MgrRecover
  BY <1>4, <1>m, <1>i DEF MgrRecover, Killing
<1>5. CASE MgrClear
  BY <1>5, <1>m DEF MgrClear, Killing
<1>6. CASE Alloc(Mgr)
  <2>g. AllocFailed(Mgr) => Staged(Mgr)
    <3>1. ASSUME reg' = [reg EXCEPT ![Mgr].qi = 1] PROVE reg' = [reg EXCEPT ![Mgr] = [reg[Mgr] EXCEPT !.qi = 1]]
      BY <3>1
    <3> QED BY <1>m, <3>1 DEF AllocFailed, Killing
  <2>1. CASE AllocCheck(Mgr)
    BY <2>1, <2>g, <1>m, <1>i DEF AllocCheck, Killing
  <2>2. CASE AllocAdd(Mgr)
    BY <2>2, <1>m, <1>i DEF AllocAdd, Killing
  <2>3. CASE AllocMem(Mgr)
    BY <2>3, <2>g, <1>m, <1>f DEF AllocMem, Killing
  <2> QED BY <1>6, <2>1, <2>2, <2>3 DEF Alloc
<1>7. CASE Prune(Mgr)
  <2>1. CASE PruneTop(Mgr)
    BY <2>1, <1>t, <1>m, PruneStaged DEF PruneTop, Killing
  <2>2. CASE PruneCheck(Mgr)
    BY <2>2, <1>t, <1>m, <1>i, PruneStaged DEF PruneCheck, Killing
  <2>3. CASE PruneUnlink(Mgr)
    BY <2>3, <1>m, <1>i DEF PruneUnlink, Killing
  <2>4. CASE PruneSpare(Mgr)
    BY <2>4, <1>m, <1>i DEF PruneSpare, Killing
  <2>5. CASE PruneUnlock(Mgr)
    BY <2>5, <1>t, PruneStaged DEF PruneUnlock
  <2> QED BY <1>7, <2>1, <2>2, <2>3, <2>4, <2>5 DEF Prune
<1> QED BY <1>1, <1>2, <1>3, <1>4, <1>5, <1>6, <1>7 DEF MgrStep

LEMMA LabelsStep ==
  ASSUME TypeOK, Labels, [Next]_vars
  PROVE  Labels'
<1>d. Mgr \in Thread \ (Worker \cup Streamer) /\ Worker \cap Streamer = {} /\ Worker \cup Streamer \subseteq Thread
  BY FlowEngineAssumption DEF Thread
<1>m. ASSUME NEW t \in Thread, NEW l, NEW v, Moves(t, l, v)
      PROVE  OneMoves(t, l, v)
  BY <1>m DEF OneMoves, Moves, Goto, TypeOK
<1>s. ASSUME NEW t \in Thread \ Streamer, Staged(t) PROVE Labels'
  <2>1. PICK l, v : Moves(t, l, v) /\ (l \in Killing => v.stage = 3)
    BY <1>s DEF Staged
  <2>2. OneMoves(t, l, v)
    BY <1>m, <2>1
  <2>3. Streaming'
    BY <1>d, <2>2 DEF Labels, Streaming, OneMoves
  <2>4. StageOK'
    BY <1>d, <2>1, <2>2 DEF Labels, StageOK, OneMoves
  <2> QED BY <2>3, <2>4 DEF Labels
<1>1. ASSUME NEW t \in Worker, Arrive(t) \/ WorkerStep(t) PROVE Labels'
  BY <1>1, <1>d, <1>s, WorkerStaged DEF Labels
<1>2. CASE MgrStep
  BY <1>2, <1>d, <1>s, ManagerStaged
<1>3. ASSUME NEW s \in Streamer, StreamLock(s) \/ StreamStep(s) PROVE Labels'
  <2>1. \E l \in {"idle", "stream", "handle", "relink"} : \E v : Moves(s, l, v)
    <3>i. UNCHANGED reg => reg' = [reg EXCEPT ![s] = reg[s]]
      BY <1>d DEF TypeOK
    <3>d. DoneWithFlow(s, reg[s].f) => Moves(s, "idle", NoReg)
      BY DEF DoneWithFlow, BackToIdle, Moves
    <3>1. CASE StreamLock(s)
      BY <3>1 DEF StreamLock, Moves
    <3>2. CASE StreamPacket(s)
      BY <3>2, <3>i DEF StreamPacket, BackToIdle, Moves
    <3>3. CASE Handle(s)
      BY <3>3, <3>i, <3>d DEF Handle, Moves
    <3>4. CASE Relink(s)
      BY <3>4, <3>d DEF Relink
    <3> QED BY <1>3, <3>1, <3>2, <3>3, <3>4 DEF StreamStep
  <2>a. PICK l \in {"idle", "stream", "handle", "relink"} : \E v : Moves(s, l, v)
    BY <2>1
  <2>b. PICK v : Moves(s, l, v)
    BY <2>a
  <2>2. OneMoves(s, l, v)
    BY <1>d, <1>m, <2>b
  <2>3. Streaming'
    BY <1>d, <2>2 DEF Labels, Streaming, OneMoves
  <2>4. StageOK'
    BY <1>d, <2>2 DEF Labels, StageOK, OneMoves, Killing
  <2> QED BY <2>3, <2>4 DEF Labels
<1>4. CASE UNCHANGED <<pc, reg>>
  BY <1>4 DEF Labels, Streaming, StageOK
<1>5. CASE (\E f \in Flow : Output(f)) \/ Tick \/ UNCHANGED vars
  BY <1>4, <1>5 DEF Output, Tick, vars
<1> QED BY <1>1, <1>2, <1>3, <1>5 DEF Next

LEMMA KeptInvStep ==
  ASSUME TypeInv, KeptInv, Streaming, [Next]_vars, [FreedUnheld]_vars \/ OneDecoder
  PROVE  KeptInv'
<1>t. TypeOK'
  BY TypeInvStep DEF TypeInv
<1>0. FreedUnheld \/ OneDecoder \/ UNCHANGED vars
  OBVIOUS
<1>5. CASE UNCHANGED <<alloced, queue, fLock, fb, fl, use_cnt, refs, pc, reg>>
  <2>1. ASSUME NEW f \in Flow PROVE FlowOK(f)'
    <3>1. FlowOK(f)
      BY DEF KeptInv
    <3>2. Locked(f)' /\ Owned(f)' /\ Unheld(f)' /\ Pruned(f)' /\ Removed(f)'
      BY <1>5, <3>1 DEF FlowOK, Locked, Owned, Unheld, Broken, Pruned, Removed, At, InQueue
    <3>3. Placed(f)'
      BY <1>5, <3>1 DEF FlowOK, Placed, Lists, Hands, InQueue, At
    <3>4. Named(f)' /\ Listed(f)'
      BY <1>5, <3>1 DEF FlowOK, Named, Listed, InQueue, At, QueueOf
    <3>5. Hashed(f)' /\ Counts(f)'
      BY <1>5, <3>1 DEF FlowOK, Hashed, Counts, Users, Uses, At
    <3> QED BY <3>2, <3>3, <3>4, <3>5 DEF FlowOK
  <2> QED BY <1>5, <2>1 DEF KeptInv, NoTwice
<1>6. CASE Tick \/ UNCHANGED vars
  BY <1>5, <1>6 DEF Tick, vars, heapVars, lockVars
<1>1. ASSUME NEW t \in Worker, Arrive(t) \/ WorkerStep(t) PROVE KeptInv'
  <2>t. t \in Thread \ Streamer
    BY FlowEngineAssumption DEF Thread
  <2>1. CASE Arrive(t) \/ LockBucket(t) \/ LockFlow(t) \/ GetNew(t) \/ CheckMemcap(t)
    BY <1>t, <2>1, LookupKept
  <2>2. CASE InsertNew(t)
    BY <1>t, <2>2, InsertNewKept
  <2>3. CASE Handle(t)
    BY <1>t, <2>3, HandleKept
  <2>4. CASE Relink(t)
    BY <1>t, <2>4, RelinkKept
  <2>5. CASE Alloc(t)
    BY <1>t, <2>t, <2>5, AllocKept
  <2>6. CASE Prune(t)
    BY <1>t, <2>t, <2>6, PruneKept
  <2>7. CASE Kill(t)
    BY <1>t, <2>7, KillKept
  <2> QED BY <1>1, <2>1, <2>2, <2>3, <2>4, <2>5, <2>6, <2>7 DEF WorkerStep
<1>2. CASE MgrStep
  <2>t. Mgr \in Thread \ Streamer
    BY FlowEngineAssumption DEF Thread
  <2>1. CASE Alloc(Mgr)
    BY <1>t, <2>t, <2>1, AllocKept
  <2>2. CASE Prune(Mgr)
    BY <1>t, <2>t, <2>2, PruneKept
  <2> QED BY <1>2, <1>0, <1>t, <1>6, <2>1, <2>2, ManagerKept DEF MgrStep
<1>3. ASSUME NEW s \in Streamer, StreamLock(s) \/ StreamStep(s) PROVE KeptInv'
  BY <1>t, <1>3, StreamLockKept, StreamPacketKept, HandleKept, RelinkKept DEF StreamStep
<1>4. ASSUME NEW f \in Flow, Output(f) PROVE KeptInv'
  BY <1>4, OutputKept
<1> QED BY <1>1, <1>2, <1>3, <1>4, <1>6 DEF Next

(***************************************************************************)
(* What follows from it.                                                   *)
(***************************************************************************)
EngineInv == TypeInv /\ KeptInv /\ Labels

LEMMA EngineInit == Init => EngineInv
<1> SUFFICES ASSUME Init PROVE EngineInv
  OBVIOUS
<1>1. Streaming
  BY FlowEngineAssumption DEF Init, Streaming, Thread
<1>2. StageOK
  BY FlowEngineAssumption DEF Init, StageOK, Thread, Killing
<1> QED BY <1>1, <1>2, InitType, KeptInit DEF EngineInv, Labels

LEMMA EngineStep ==
  ASSUME EngineInv, [Next]_vars, [FreedUnheld]_vars \/ OneDecoder
  PROVE  EngineInv'
<1>1. TypeInv' /\ TypeOK /\ Labels /\ Streaming
  BY TypeInvStep DEF EngineInv, TypeInv, Labels
<1>2. KeptInv'
  BY <1>1, KeptInvStep DEF EngineInv
<1>3. Labels'
  BY <1>1, LabelsStep
<1> QED BY <1>1, <1>2, <1>3 DEF EngineInv

LEMMA EngineInvariant == Spec /\ FreesUnheld => []EngineInv
<1>1. Init => EngineInv
  BY EngineInit
<1>2. EngineInv /\ [Next]_vars /\ [FreedUnheld]_vars => EngineInv'
  BY EngineStep
<1>3. FreesUnheld <=> [][FreedUnheld]_vars
  BY DEF FreesUnheld, FreedUnheld
<1> QED BY <1>1, <1>2, <1>3, PTL DEF Spec

LEMMA OneDecoderInvariant ==
  ASSUME OneDecoder PROVE Spec => []EngineInv
<1>1. Init => EngineInv
  BY EngineInit
<1>2. EngineInv /\ [Next]_vars => EngineInv'
  BY EngineStep
<1> QED BY <1>1, <1>2, PTL DEF Spec

(* A list without repetitions is no longer than there are flows.           *)
LEMMA QueueLength ==
  ASSUME TypeOK, NoTwice, NEW q \in Queue
  PROVE  Len(queue[q]) <= Cardinality(Flow)
<1> DEFINE s == queue[q] n == Len(s)
<1>1. s \in Seq(Flow) /\ NoDup(s) /\ n \in Nat
  BY DEF TypeOK, NoTwice
<1>2. s \in Injection(1 .. n, Flow)
  BY <1>1 DEF NoDup, Injection, IsInjective
<1>3. Cardinality(1 .. n) = n
  BY <1>1, FS_Interval
<1>4. Cardinality(1 .. n) <= Cardinality(Flow)
  BY <1>2, FS_Injection, FlowEngineAssumption
<1> QED BY <1>3, <1>4

LEMMA PlacedOnce ==
  ASSUME TypeOK, NoTwice, NEW f \in Flow, FlowOK(f)
  PROVE  LET places == {p \in Queue \X (1 .. Cardinality(Flow)) :
                          p[2] <= Len(queue[p[1]]) /\ queue[p[1]][p[2]] = f}
             hands == {t \in Thread : Carried(t, f)}
         IN Cardinality(places) + Cardinality(hands) = IF f \in alloced THEN 1 ELSE 0
<1> DEFINE places == {p \in Queue \X (1 .. Cardinality(Flow)) :
                        p[2] <= Len(queue[p[1]]) /\ queue[p[1]][p[2]] = f}
<1>1. {t \in Thread : Carried(t, f)} = Hands(f)
  BY DEF Hands, Carried, At, Carrying
<1>c. Cardinality(Flow) \in Nat
  BY FlowEngineAssumption, FS_CardinalityType
<1>p. ASSUME NEW p \in places
      PROVE  p[1] \in Lists(f) /\ p[1] \in Queue /\ p[2] \in 1 .. Len(queue[p[1]]) /\ p = <<p[1], p[2]>>
  <2>1. p[1] \in Queue /\ p[2] \in 1 .. Cardinality(Flow) /\ p[2] <= Len(queue[p[1]]) /\ queue[p[1]][p[2]] = f
    OBVIOUS
  <2>2. queue[p[1]] \in Seq(Flow)
    BY <2>1 DEF TypeOK
  <2>3. p[2] \in 1 .. Len(queue[p[1]])
    BY <1>c, <2>1, <2>2
  <2>4. InQueue(f, p[1])
    BY <2>1, <2>2, <2>3 DEF InQueue, Elems, L!Elems
  <2> QED BY <2>1, <2>3, <2>4 DEF Lists
<1>s. ASSUME NEW q \in Queue, Lists(f) = {q} PROVE \E x : places = {x}
  <2>1. queue[q] \in Seq(Flow) /\ NoDup(queue[q]) /\ f \in Elems(queue[q]) /\ Len(queue[q]) <= Cardinality(Flow)
    BY <1>s, QueueLength DEF TypeOK, NoTwice, Lists, InQueue
  <2>2. PICK i \in 1 .. Len(queue[q]) : queue[q][i] = f
    BY <2>1 DEF Elems, L!Elems
  <2>3. <<q, i>> \in places
    <3>1. i \in 1 .. Cardinality(Flow) /\ i <= Len(queue[q])
      BY <1>c, <2>1, <2>2
    <3> QED BY <2>2, <3>1
  <2>4. ASSUME NEW p \in places PROVE p = <<q, i>>
    <3>1. p[1] = q /\ p[2] \in 1 .. Len(queue[q]) /\ p = <<p[1], p[2]>>
      BY <1>s, <1>p
    <3>2. queue[q][p[2]] = f
      BY <3>1
    <3>3. p[2] = i
      BY <2>1, <2>2, <3>1, <3>2 DEF NoDup
    <3> QED BY <3>1, <3>3
  <2>5. places = {<<q, i>>}
    BY <2>3, <2>4
  <2> QED BY <2>5
<1>e. Lists(f) = {} => places = {}
  BY <1>p
<1> HIDE DEF places
<1>g. Cardinality(places) + Cardinality(Hands(f)) = IF f \in alloced THEN 1 ELSE 0
  <2>1. CASE f \in alloced /\ Hands(f) = {} /\ \E q \in Queue : Lists(f) = {q}
    <3>1. Cardinality(places) = 1
      BY <2>1, <1>s, FS_Singleton
    <3> QED BY <2>1, <3>1, FS_EmptySet
  <2>2. CASE f \in alloced /\ Lists(f) = {} /\ \E t \in Thread : Hands(f) = {t}
    <3>1. Cardinality(places) = 0 /\ Cardinality(Hands(f)) = 1
      BY <2>2, <1>e, FS_EmptySet, FS_Singleton
    <3> QED BY <2>2, <3>1
  <2>3. CASE f \notin alloced /\ Lists(f) = {} /\ Hands(f) = {}
    <3>1. Cardinality(places) = 0 /\ Cardinality(Hands(f)) = 0
      BY <2>3, <1>e, FS_EmptySet
    <3> QED BY <2>3, <3>1
  <2> QED BY <2>1, <2>2, <2>3 DEF FlowOK, Placed
<1> QED BY <1>1, <1>g DEF places

LEMMA KeptMeans == EngineInv => FlowsKept /\ UseCountExact
<1> SUFFICES ASSUME EngineInv PROVE FlowsKept /\ UseCountExact
  OBVIOUS
<1>t. TypeOK /\ NoTwice /\ \A f \in Flow : FlowOK(f)
  BY DEF EngineInv, TypeInv, KeptInv
<1>1. UsedFlowIsLive
  <2> SUFFICES ASSUME NEW f \in Flow, refs[f] > 0 \/ \E t \in Worker : Uses(t, f)
               PROVE  /\ f \in alloced
                      /\ fl[f].key # NULL /\ fb[f] = HashOf[fl[f].key]
                      /\ ~InQueue(f, Spare)
                      /\ \A t \in Thread : ~Removing(t, f)
    BY DEF UsedFlowIsLive
  <2>1. fb[f] # NULL
    BY <1>t DEF FlowOK, Hashed, Users
  <2>2. f \in alloced /\ ~InQueue(f, Spare)
    BY <1>t, <2>1, HashedFlow
  <2>3. fl[f].key # NULL /\ fb[f] = HashOf[fl[f].key]
    BY <1>t, <2>1, FlowEngineAssumption DEF FlowOK, Named
  <2>4. \A t \in Thread : ~Removing(t, f)
    BY <1>t, <2>1 DEF FlowOK, Removed, Removing, At, Taking
  <2> QED BY <2>2, <2>3, <2>4
<1>2. HashedIffQueued
  <2> SUFFICES ASSUME NEW f \in Flow, fLock[f] = NULL, NEW q \in Queue \ {Spare}
               PROVE  InQueue(f, q) <=> (fb[f] # NULL /\ q = QueueOf(f))
    BY DEF HashedIffQueued
  <2>1. InQueue(f, q) => fb[f] # NULL /\ q = QueueOf(f)
    BY <1>t, TopHashed
  <2>2. ASSUME fb[f] # NULL, q = QueueOf(f) PROVE InQueue(f, q)
    <3>1. ASSUME NEW t \in Thread, At(t, {"relink"}, f) PROVE FALSE
      <4>1. At(t, Holding \ Late, f)
        BY <3>1 DEF At, Holding, Late
      <4> QED BY <1>t, <4>1, HeldAt
    <3> QED BY <1>t, <2>2, <3>1 DEF FlowOK, Named
  <2> QED BY <2>1, <2>2
<1>3. NoFlowLost
  BY <1>t, PlacedOnce DEF NoFlowLost
<1>4. UseCountExact
  BY <1>t DEF UseCountExact, FlowOK, Counts, Users, TypeOK
<1> QED BY <1>1, <1>2, <1>3, <1>4 DEF FlowsKept

(* flow.c, flow-hash.c: a flow some packet uses stays allocated and in the *)
(* hash, a flow whose mutex is free is in the one queue its list flag      *)
(* names, and FlowRequeue, FlowEnqueue, FlowDequeue and FlowFree never     *)
(* lose a flow or hand it out twice.  With one decoder thread, as in       *)
(* RunModeIpsNFQAuto, whatever the timing of the flow manager.             *)
THEOREM FlowsAreKeptByOneDecoder ==
  ASSUME OneDecoder PROVE Spec => []FlowsKept
<1>1. Spec => []EngineInv
  BY OneDecoderInvariant
<1>2. EngineInv => FlowsKept
  BY KeptMeans
<1> QED BY <1>1, <1>2, PTL

(* The same for any number of decoder and stream threads, as long as       *)
(* FlowUpdateSpareFlows frees no flow whose mutex is held.                 *)
THEOREM FlowsAreKept == Spec /\ FreesUnheld => []FlowsKept
<1>1. EngineInv => FlowsKept
  BY KeptMeans
<1> QED BY <1>1, EngineInvariant, PTL

(* flow.h on use_cnt: FlowIncrUsecnt and FlowDecrUsecnt, called without    *)
(* f->m, and the resets of FLOW_INITIALIZE and FlowClearMemory leave it    *)
(* equal to the number of packets that use the flow.                       *)
THEOREM UseCountIsExactByOneDecoder ==
  ASSUME OneDecoder PROVE Spec => []UseCountExact
<1>1. Spec => []EngineInv
  BY OneDecoderInvariant
<1>2. EngineInv => UseCountExact
  BY KeptMeans
<1> QED BY <1>1, <1>2, PTL

(* The same for any number of decoder and stream threads, as long as       *)
(* FlowUpdateSpareFlows frees no flow whose mutex is held.                 *)
THEOREM UseCountIsExact == Spec /\ FreesUnheld => []UseCountExact
<1>1. EngineInv => UseCountExact
  BY KeptMeans
<1> QED BY <1>1, EngineInvariant, PTL

(***************************************************************************)
(* When a flow leaves the hash.                                            *)
(***************************************************************************)

(* What must hold when f leaves the hash. *)
Idle(f) ==
  /\ use_cnt[f] = 0 /\ refs[f] = 0
  /\ \E t \in Thread : /\ reg[t].f = f
                       /\ \/ /\ pc[t] = "prune_fb"
                             /\ fl[f].lastts + TimeoutOf(fl[f], emerg) < reg[t].ts
                          \/ pc[t] = "kill_walk" /\ reg[t].stage = 3
IdleIfRemoved == \A f \in Flow : fb[f] # NULL /\ fb'[f] = NULL => Idle(f)

(* All but four steps leave every hash chain as it is.                     *)
LEMMA ChainsStay ==
  ASSUME [Next]_vars
  PROVE  \/ UNCHANGED fb
         \/ \E t \in Worker : InsertNew(t) \/ KillWalk(t)
         \/ \E t \in Worker \cup {Mgr} : AllocMem(t) \/ PruneCheck(t)
<1>a. ASSUME NEW t, Alloc(t) PROVE UNCHANGED fb \/ AllocMem(t)
  BY <1>a DEF Alloc, AllocCheck, AllocAdd
<1>p. ASSUME NEW t, Prune(t) PROVE UNCHANGED fb \/ PruneCheck(t)
  BY <1>p DEF Prune, PruneTop, PruneUnlink, PruneSpare, PruneUnlock
<1>k. ASSUME NEW t, Kill(t) PROVE UNCHANGED fb \/ KillWalk(t)
  BY <1>k DEF Kill, KillStart, KillSpare, KillUnlock
<1>h. ASSUME NEW t, Handle(t) \/ Relink(t) PROVE UNCHANGED fb
  BY <1>h DEF Handle, Relink
<1>1. ASSUME NEW t \in Worker, Arrive(t) \/ WorkerStep(t)
      PROVE  UNCHANGED fb \/ InsertNew(t) \/ KillWalk(t) \/ AllocMem(t) \/ PruneCheck(t)
  <2>1. CASE Arrive(t) \/ LockBucket(t) \/ LockFlow(t) \/ GetNew(t) \/ CheckMemcap(t)
    BY <2>1 DEF Arrive, LockBucket, LockFlow, GetNew, CheckMemcap
  <2> QED BY <1>1, <1>a, <1>p, <1>k, <1>h, <2>1 DEF WorkerStep
<1>2. CASE MgrStep
  <2>1. CASE MgrWake \/ MgrEnqueue \/ MgrDequeue \/ MgrFree \/ MgrRecover \/ MgrClear
    BY <2>1 DEF MgrWake, MgrEnqueue, MgrDequeue, MgrFree, MgrRecover, MgrClear
  <2> QED BY <1>2, <1>a, <1>p, <2>1 DEF MgrStep
<1>3. ASSUME NEW s \in Streamer, StreamLock(s) \/ StreamStep(s) PROVE UNCHANGED fb
  BY <1>3, <1>h DEF StreamLock, StreamStep, StreamPacket
<1>4. CASE (\E f \in Flow : Output(f)) \/ Tick \/ UNCHANGED vars
  BY <1>4 DEF Output, Tick, vars
<1> QED BY <1>1, <1>2, <1>3, <1>4 DEF Next

LEMMA RemovedStep ==
  ASSUME EngineInv, [Next]_vars PROVE IdleIfRemoved
<1>t. /\ TypeInv /\ TypeOK /\ StageOK /\ (\A f \in Flow : FlowOK(f))
      /\ Worker \subseteq Thread /\ Mgr \in Thread
  BY DEF EngineInv, TypeInv, KeptInv, Labels, Thread
<1>n. ASSUME NEW f \in Flow, f \notin alloced PROVE fb[f] = NULL
  BY <1>t, <1>n, HashedFlow
<1>1. ASSUME NEW t \in Worker \cup {Mgr}, AllocMem(t) PROVE IdleIfRemoved
  <2>1. CASE UNCHANGED fb
    BY <2>1 DEF IdleIfRemoved
  <2>2. ASSUME NEW g \in Flow \ alloced, fb' = [fb EXCEPT ![g] = NULL] PROVE IdleIfRemoved
    <3>1. fb[g] = NULL
      BY <1>n
    <3> QED BY <1>t, <2>2, <3>1 DEF IdleIfRemoved, TypeOK
  <2> QED BY <1>1, <2>1, <2>2 DEF AllocMem
<1>2. ASSUME NEW t \in Worker, InsertNew(t) PROVE IdleIfRemoved
  <2>1. HashOf[reg[t].key] # NULL
    BY <1>2, <1>t, FlowEngineAssumption DEF InsertNew, TypeInv, HasKey
  <2>2. \A f \in Flow : fb'[f] = NULL => fb[f] = NULL
    BY <1>2, <1>t, <2>1 DEF InsertNew, TypeOK
  <2> QED BY <2>2 DEF IdleIfRemoved
<1>3. ASSUME NEW t \in Worker \cup {Mgr}, PruneCheck(t) PROVE IdleIfRemoved
  <2>1. CASE UNCHANGED fb
    BY <2>1 DEF IdleIfRemoved
  <2>2. CASE TimedOut(reg[t].f, reg[t].ts) /\ NotInUse(reg[t].f) /\ fb' = [fb EXCEPT ![reg[t].f] = NULL]
    <3> SUFFICES ASSUME NEW f \in Flow, fb[f] # NULL, fb'[f] = NULL PROVE Idle(f)
      BY DEF IdleIfRemoved
    <3>1. f = reg[t].f
      BY <1>t, <2>2 DEF TypeOK
    <3>2. use_cnt[f] = 0 /\ refs[f] = 0
      BY <1>t, <2>2, <3>1, NotInUseMeans DEF NotInUse
    <3>3. pc[t] = "prune_fb" /\ t \in Thread /\ fl[f].lastts + TimeoutOf(fl[f], emerg) < reg[t].ts
      BY <1>3, <1>t, <2>2, <3>1 DEF PruneCheck, TimedOut
    <3> QED BY <3>1, <3>2, <3>3 DEF Idle
  <2> QED BY <1>3, <2>1, <2>2 DEF PruneCheck
<1>4. ASSUME NEW t \in Worker, KillWalk(t) PROVE IdleIfRemoved
  <2>1. CASE UNCHANGED fb
    BY <2>1 DEF IdleIfRemoved
  <2>2. CASE NotInUse(reg[t].f) /\ fb' = [fb EXCEPT ![reg[t].f] = NULL]
    <3> SUFFICES ASSUME NEW f \in Flow, fb[f] # NULL, fb'[f] = NULL PROVE Idle(f)
      BY DEF IdleIfRemoved
    <3>1. f = reg[t].f
      BY <1>t, <2>2 DEF TypeOK
    <3>2. use_cnt[f] = 0 /\ refs[f] = 0
      BY <1>t, <2>2, <3>1, NotInUseMeans DEF NotInUse
    <3>3. pc[t] = "kill_walk" /\ t \in Thread /\ reg[t].stage = 3
      BY <1>4, <1>t DEF KillWalk, StageOK, Killing
    <3> QED BY <3>1, <3>2, <3>3 DEF Idle
  <2> QED BY <1>4, <2>1, <2>2 DEF KillWalk
<1>5. UNCHANGED fb => IdleIfRemoved
  BY DEF IdleIfRemoved
<1> QED BY <1>1, <1>2, <1>3, <1>4, <1>5, ChainsStay

(* flow.c, FlowPrune and FlowKill: the timeout and the use count are       *)
(* tested under the flow's and the bucket's lock, so a flow that leaves    *)
(* the hash is used by no packet and has timed out for the thread that     *)
(* removes it, or was taken in stage 3 of FlowGetNew's pruning.            *)
THEOREM OnlyIdleFlowsGoByOneDecoder ==
  ASSUME OneDecoder PROVE Spec => RemovedOnlyIfIdle
<1>1. Spec => []EngineInv
  BY OneDecoderInvariant
<1>2. EngineInv /\ [Next]_vars => [IdleIfRemoved]_vars
  BY RemovedStep
<1>3. RemovedOnlyIfIdle <=> [][IdleIfRemoved]_vars
  BY DEF RemovedOnlyIfIdle, IdleIfRemoved, Idle
<1> QED BY <1>1, <1>2, <1>3, PTL DEF Spec

(* The same for any number of decoder and stream threads, as long as       *)
(* FlowUpdateSpareFlows frees no flow whose mutex is held.                 *)
THEOREM OnlyIdleFlowsGo == Spec /\ FreesUnheld => RemovedOnlyIfIdle
<1>1. EngineInv /\ [Next]_vars => [IdleIfRemoved]_vars
  BY RemovedStep
<1>2. RemovedOnlyIfIdle <=> [][IdleIfRemoved]_vars
  BY DEF RemovedOnlyIfIdle, IdleIfRemoved, Idle
<1> QED BY <1>1, <1>2, EngineInvariant, PTL DEF Spec

(***************************************************************************)
(* flow_memuse.                                                            *)
(***************************************************************************)
MemuseStays == UNCHANGED heapVars /\ Allocating' = Allocating

LEMMA NoAllocation ==
  ASSUME TypeOK, NEW t, pc[t] # "alloc_mem", NEW l, l # "alloc_mem", Goto(t, l)
  PROVE  Allocating' = Allocating
BY DEF Goto, Allocating, TypeOK

LEMMA ContinueNoAllocation ==
  ASSUME TypeOK, NEW t, pc[t] # "alloc_mem", NEW w, Continue(t, w)
  PROVE  Allocating' = Allocating
<1>1. \E l \in {"kill", "prune", "idle", "alloc"} : Goto(t, l)
  BY DEF Continue, GiveUp, BackToIdle
<1> QED BY <1>1, NoAllocation

LEMMA PruneNoAllocation ==
  ASSUME TypeOK, NEW t, pc[t] # "alloc_mem", NEW r, PruneReturn(t, r)
  PROVE  Allocating' = Allocating
<1>1. CASE t # Mgr
  BY <1>1, ContinueNoAllocation DEF PruneReturn
<1>2. CASE t = Mgr
  <2>1. \E l \in {"prune", "m_recover"} : Goto(t, l)
    BY <1>2 DEF PruneReturn
  <2> QED BY <2>1, NoAllocation
<1> QED BY <1>1, <1>2

(* All but three steps leave the counter and the flows as they are.        *)
LEMMA WorkerMemuse ==
  ASSUME TypeOK, NEW t \in Worker, Arrive(t) \/ WorkerStep(t)
  PROVE  MemuseStays \/ AllocAdd(t) \/ AllocMem(t)
<1>1. CASE Arrive(t) \/ LockBucket(t) \/ LockFlow(t) \/ GetNew(t) \/ InsertNew(t)
  BY <1>1, NoAllocation DEF Arrive, LockBucket, LockFlow, GetNew, InsertNew, heapVars, MemuseStays
<1>2. CASE CheckMemcap(t)
  BY <1>2, NoAllocation, ContinueNoAllocation DEF CheckMemcap, heapVars, MemuseStays
<1>3. CASE Handle(t) \/ Relink(t)
  BY <1>3, NoAllocation DEF Handle, Relink, DoneWithFlow, BackToIdle, heapVars, MemuseStays
<1>4. CASE KillStart(t) \/ KillSpare(t) \/ KillUnlock(t)
  BY <1>4, NoAllocation, ContinueNoAllocation DEF KillStart, KillSpare, KillUnlock, heapVars, MemuseStays
<1>5. CASE KillWalk(t)
  <2>1. CASE UNCHANGED pc
    BY <1>5, <2>1 DEF KillWalk, heapVars, MemuseStays, Allocating
  <2>2. CASE Goto(t, "kill_spare")
    BY <1>5, <2>2, NoAllocation DEF KillWalk, heapVars, MemuseStays
  <2>3. CASE \E w : Continue(t, w)
    BY <1>5, <2>3, ContinueNoAllocation DEF KillWalk, heapVars, MemuseStays
  <2> QED BY <1>5, <2>1, <2>2, <2>3 DEF KillWalk
<1>6. CASE AllocCheck(t)
  BY <1>6, NoAllocation DEF AllocCheck, AllocFailed, GiveUp, BackToIdle, heapVars, MemuseStays
<1>7. CASE PruneTop(t)
  BY <1>7, NoAllocation, ContinueNoAllocation, PruneNoAllocation DEF PruneTop, heapVars, MemuseStays
<1>8. CASE PruneCheck(t) \/ PruneUnlink(t) \/ PruneSpare(t) \/ PruneUnlock(t)
  BY <1>8, NoAllocation, PruneNoAllocation
     DEF PruneCheck, PruneUnlink, PruneSpare, PruneUnlock, heapVars, MemuseStays
<1> QED BY <1>1, <1>2, <1>3, <1>4, <1>5, <1>6, <1>7, <1>8 DEF WorkerStep, Kill, Alloc, Prune

LEMMA MgrMemuse ==
  ASSUME TypeOK, MgrStep
  PROVE  MemuseStays \/ AllocAdd(Mgr) \/ AllocMem(Mgr) \/ MgrFree
<1>l. ASSUME pc[Mgr] # "alloc_mem", NEW l \in {"alloc", "m_free"}, MgrLoop(l)
      PROVE  Allocating' = Allocating
  BY <1>l, NoAllocation DEF MgrLoop
<1>1. CASE MgrWake
  BY <1>1, NoAllocation DEF MgrWake, heapVars, MemuseStays
<1>2. CASE MgrDequeue \/ MgrRecover \/ MgrClear
  BY <1>2, NoAllocation DEF MgrDequeue, MgrRecover, MgrClear, heapVars, MemuseStays
<1>3. CASE MgrEnqueue
  BY <1>3, <1>l DEF MgrEnqueue, heapVars, MemuseStays
<1>6. CASE AllocCheck(Mgr)
  BY <1>6, NoAllocation DEF AllocCheck, AllocFailed, GiveUp, BackToIdle, heapVars, MemuseStays
<1>7. CASE PruneTop(Mgr)
  BY <1>7, NoAllocation, ContinueNoAllocation, PruneNoAllocation DEF PruneTop, heapVars, MemuseStays
<1>8. CASE PruneCheck(Mgr) \/ PruneUnlink(Mgr) \/ PruneSpare(Mgr) \/ PruneUnlock(Mgr)
  BY <1>8, NoAllocation, PruneNoAllocation
     DEF PruneCheck, PruneUnlink, PruneSpare, PruneUnlock, heapVars, MemuseStays
<1> QED BY <1>1, <1>2, <1>3, <1>6, <1>7, <1>8 DEF MgrStep, Alloc, Prune

LEMMA OtherMemuse ==
  ASSUME TypeOK,
         \/ \E s \in Streamer : StreamLock(s) \/ StreamStep(s)
         \/ \E f \in Flow : Output(f)
         \/ Tick \/ UNCHANGED vars
  PROVE  MemuseStays
<1>1. ASSUME NEW s \in Streamer, StreamLock(s) \/ StreamStep(s) PROVE MemuseStays
  <2>1. CASE StreamLock(s) \/ StreamPacket(s)
    BY <2>1, NoAllocation DEF StreamLock, StreamPacket, BackToIdle, heapVars, MemuseStays
  <2>2. CASE Handle(s) \/ Relink(s)
    BY <2>2, NoAllocation DEF Handle, Relink, DoneWithFlow, BackToIdle, heapVars, MemuseStays
  <2> QED BY <1>1, <2>1, <2>2 DEF StreamStep
<1>2. CASE (\E f \in Flow : Output(f)) \/ Tick \/ UNCHANGED vars
  BY <1>2 DEF Output, Tick, vars, heapVars, MemuseStays, Allocating
<1> QED BY <1>1, <1>2

LEMMA HeapFinite ==
  ASSUME TypeOK
  PROVE  /\ IsFiniteSet(alloced) /\ Cardinality(alloced) \in Nat
         /\ IsFiniteSet(Allocating) /\ Cardinality(Allocating) \in Nat
<1>1. IsFiniteSet(alloced)
  BY FlowEngineAssumption, FS_Subset DEF TypeOK
<1>2. IsFiniteSet(Thread)
  BY FlowEngineAssumption, FS_Union, FS_Singleton DEF Thread
<1>3. IsFiniteSet(Allocating)
  BY <1>2, FS_Subset DEF Allocating
<1> QED BY <1>1, <1>3, FS_CardinalityType

LEMMA MemuseStep ==
  ASSUME EngineInv, MemuseExact, [Next]_vars
  PROVE  MemuseExact'
<1>t. TypeInv /\ TypeOK /\ KeptInv /\ memuse \in Int /\ Mgr \in Thread
  BY DEF EngineInv, TypeInv, TypeOK, Thread
<1>f. /\ IsFiniteSet(alloced) /\ Cardinality(alloced) \in Nat
      /\ IsFiniteSet(Allocating) /\ Cardinality(Allocating) \in Nat
  BY <1>t, HeapFinite
<1>m. memuse = Cardinality(alloced) + Cardinality(Allocating)
  BY DEF MemuseExact
<1>o. ASSUME NEW t \in Thread, pc[t] = "alloc_mem", NEW l, l # "alloc_mem", Goto(t, l)
      PROVE  t \in Allocating /\ Allocating' = Allocating \ {t}
  BY <1>o, <1>t DEF Goto, Allocating, TypeOK
<1>0. CASE MemuseStays
  BY <1>0, <1>m DEF MemuseStays, MemuseExact, heapVars
<1>1. ASSUME NEW t \in Thread, AllocAdd(t) PROVE MemuseExact'
  <2>1. t \notin Allocating /\ Allocating' = Allocating \cup {t}
    BY <1>1, <1>t DEF AllocAdd, Goto, Allocating, TypeOK
  <2>2. Cardinality(Allocating') = Cardinality(Allocating) + 1
    BY <2>1, <1>f, FS_AddElement
  <2> QED BY <1>1, <1>f, <1>m, <2>2 DEF AllocAdd, MemuseExact
<1>2. ASSUME NEW t \in Thread, AllocMem(t) PROVE MemuseExact'
  <2>0. pc[t] = "alloc_mem"
    BY <1>2 DEF AllocMem
  <2>1. t \in Allocating /\ Allocating' = Allocating \ {t}
    <3>1. \E l \in {"m_enq", "got", "idle", "prune"} : Goto(t, l)
      BY <1>2 DEF AllocMem, AllocFailed, GiveUp, BackToIdle
    <3> QED BY <1>o, <2>0, <3>1
  <2>2. Cardinality(Allocating') = Cardinality(Allocating) - 1
    BY <2>1, <1>f, FS_RemoveElement
  <2>3. CASE UNCHANGED memuse /\ \E f \in Flow \ alloced : alloced' = alloced \cup {f}
    <3>1. Cardinality(alloced') = Cardinality(alloced) + 1
      BY <2>3, <1>f, FS_AddElement
    <3> QED BY <2>3, <1>f, <1>m, <2>2, <3>1 DEF MemuseExact
  <2>4. CASE memuse' = memuse - 1 /\ UNCHANGED alloced
    BY <2>4, <1>f, <1>m, <2>2 DEF MemuseExact
  <2> QED BY <1>2, <2>3, <2>4 DEF AllocMem, GivenBack
<1>3. CASE MgrFree
  <2>1. PICK f \in Flow : f = reg[Mgr].f
    BY <1>3, <1>t DEF MgrFree, TypeInv, HasFlow, HoldsFlow
  <2>2. At(Mgr, {"m_enq", "m_ff"}, f) /\ FlowOK(f)
    BY <1>3, <1>t, <2>1 DEF MgrFree, At, KeptInv
  <2>3. f \in alloced
    BY <1>t, <2>2, CarriedFree
  <2>4. memuse' = memuse - 1 /\ alloced' = alloced \ {f}
    BY <1>3, <2>1 DEF MgrFree
  <2>5. Cardinality(alloced') = Cardinality(alloced) - 1
    BY <1>f, <2>3, <2>4, FS_RemoveElement
  <2>6. Allocating' = Allocating
    <3>1. pc[Mgr] # "alloc_mem" /\ \E l \in {"m_free", "prune"} : Goto(Mgr, l)
      BY <1>3 DEF MgrFree, MgrLoop
    <3> QED BY <1>t, <3>1, NoAllocation
  <2> QED BY <1>f, <1>m, <2>4, <2>5, <2>6 DEF MemuseExact
<1>4. CASE \E t \in Worker : Arrive(t) \/ WorkerStep(t)
  BY <1>t, <1>0, <1>1, <1>2, <1>4, WorkerMemuse DEF Thread
<1>5. CASE MgrStep
  BY <1>t, <1>0, <1>1, <1>2, <1>3, <1>5, MgrMemuse
<1>6. CASE ~(\E t \in Worker : Arrive(t) \/ WorkerStep(t)) /\ ~MgrStep
  BY <1>t, <1>0, <1>6, OtherMemuse DEF Next
<1> QED BY <1>4, <1>5, <1>6

LEMMA MemuseInit == Init => MemuseExact
<1> SUFFICES ASSUME Init PROVE MemuseExact
  OBVIOUS
<1>1. Allocating = {}
  BY DEF Init, Allocating
<1>2. Cardinality(Allocating) = 0
  BY <1>1, FS_EmptySet
<1>3. Cardinality(alloced) = Prealloc /\ memuse = Prealloc /\ Prealloc \in Int
  BY FlowEngineAssumption DEF Init
<1> QED BY <1>2, <1>3 DEF MemuseExact

(* flow.c, flow-util.c: flow_memuse is raised before SCMalloc, taken back  *)
(* when it fails and lowered by FlowFree, all by atomic operations outside *)
(* any lock: it counts the flows there are and those being allocated.      *)
THEOREM MemuseIsExactByOneDecoder ==
  ASSUME OneDecoder PROVE Spec => []MemuseExact
<1>1. Spec => []EngineInv
  BY OneDecoderInvariant
<1>2. EngineInv /\ MemuseExact /\ [Next]_vars => MemuseExact'
  BY MemuseStep
<1> QED BY <1>1, <1>2, MemuseInit, PTL DEF Spec

(* The same for any number of decoder and stream threads, as long as       *)
(* FlowUpdateSpareFlows frees no flow whose mutex is held.                 *)
THEOREM MemuseIsExact == Spec /\ FreesUnheld => []MemuseExact
<1>1. EngineInv /\ MemuseExact /\ [Next]_vars => MemuseExact'
  BY MemuseStep
<1> QED BY <1>1, EngineInvariant, MemuseInit, PTL DEF Spec

(***************************************************************************)
(* The queues of the flow engine stay ordered by last seen time when one   *)
(* decoder thread and no stream thread run, as RunModeIpsNFQAuto starts    *)
(* them.  FlowPrune looks at the top of a queue only, and takes it for the *)
(* flow that was idle longest: the theorem is what makes that right.       *)
(***************************************************************************)

(* One decoder thread, and no thread that runs StreamTcp.                 *)
OnePipeline == OneDecoder /\ Streamer = {}

(***************************************************************************)
(* The order of two flows in a list.                                       *)
(***************************************************************************)
Before(s, g, h) == \E i, j \in 1 .. Len(s) : i < j /\ s[i] = g /\ s[j] = h
Precedes(g, h, q) == Before(queue[q], g, h)

(* Unlinking keeps the order of the others.                                *)
LEMMA WithoutOrder ==
  ASSUME NEW S, NEW s \in Seq(S), NEW f \in Elems(s), NEW g, NEW h,
         Before(Without(s, f), g, h)
  PROVE  Before(s, g, h)
<1> DEFINE k == L!IndexIn(s, f)
           v == Without(s, f)
           n == Len(s) - 1
<1>1. k \in 1 .. Len(s) /\ Len(s) \in Nat
  BY DEF Elems, L!Elems, L!IndexIn
<1>2. v = [j \in 1 .. n |-> IF j < k THEN s[j] ELSE s[j + 1]]
  BY DEF Without, L!Without
<1>3. v \in Seq(S) /\ n \in Nat /\ Len(v) = n
  BY <1>1, <1>2, WithoutSeq
<1> HIDE DEF k, v
<1>4. PICK i \in 1 .. n, j \in 1 .. n : i < j /\ v[i] = g /\ v[j] = h
  BY <1>3 DEF Before, v
<1> DEFINE a == IF i < k THEN i ELSE i + 1
           b == IF j < k THEN j ELSE j + 1
<1>5. s[a] = g /\ s[b] = h
  BY <1>2, <1>4
<1>6. a \in 1 .. Len(s) /\ b \in 1 .. Len(s) /\ a < b
  BY <1>1, <1>4
<1> QED BY <1>5, <1>6 DEF Before

(* A flow that joins a list at the bottom comes after all the others.      *)
LEMMA AppendOrder ==
  ASSUME NEW S, NEW s \in Seq(S), NEW f \in S, NEW g, NEW h,
         Before(Append(s, f), g, h)
  PROVE  g \in Elems(s) /\ (Before(s, g, h) \/ h = f)
<1>1. Len(Append(s, f)) = Len(s) + 1 /\ Len(s) \in Nat
  OBVIOUS
<1>2. PICK i \in 1 .. Len(s) + 1, j \in 1 .. Len(s) + 1 :
        i < j /\ Append(s, f)[i] = g /\ Append(s, f)[j] = h
  BY <1>1 DEF Before
<1>3. i \in 1 .. Len(s) /\ (j \in 1 .. Len(s) \/ j = Len(s) + 1)
  BY <1>1, <1>2
<1>4. s[i] = g
  BY <1>2, <1>3
<1>5. (j \in 1 .. Len(s) /\ s[j] = h) \/ h = f
  BY <1>2, <1>3
<1> QED BY <1>2, <1>3, <1>4, <1>5 DEF Before, Elems, L!Elems

LEMMA BeforeElems ==
  ASSUME NEW S, NEW s \in Seq(S), NEW g, NEW h, Before(s, g, h)
  PROVE  g \in Elems(s) /\ h \in Elems(s)
  BY DEF Before, Elems, L!Elems

LEMMA PrecedesQueued ==
  ASSUME TypeOK, NEW q \in Queue, NEW g, NEW h, Precedes(g, h, q)
  PROVE  InQueue(g, q) /\ InQueue(h, q)
<1>1. queue[q] \in Seq(Flow)
  BY DEF TypeOK
<1> QED BY <1>1, BeforeElems DEF Precedes, InQueue

LEMMA UnlinkedOrder ==
  ASSUME TypeOK, NEW q \in Queue, NEW f, InQueue(f, q), queue' = Unlinked(q, f),
         NEW p \in Queue, NEW g, NEW h, Precedes(g, h, p)'
  PROVE  Precedes(g, h, p)
<1>1. queue[q] \in Seq(Flow) /\ f \in Elems(queue[q])
  BY DEF TypeOK, InQueue
<1>2. queue'[p] = IF p = q THEN Without(queue[q], f) ELSE queue[p]
  BY DEF Unlinked, TypeOK
<1> QED BY <1>1, <1>2, WithoutOrder DEF Precedes

LEMMA LinkedOrder ==
  ASSUME TypeOK, NEW q \in Queue, NEW f \in Flow, queue' = Linked(q, f),
         NEW p \in Queue, NEW g, NEW h, Precedes(g, h, p)'
  PROVE  InQueue(g, p) /\ (Precedes(g, h, p) \/ h = f)
<1>1. queue[q] \in Seq(Flow)
  BY DEF TypeOK
<1>2. queue'[p] = IF p = q THEN Append(queue[q], f) ELSE queue[p]
  BY DEF Linked, TypeOK
<1>3. CASE p = q
  <2>1. Before(Append(queue[q], f), g, h)
    BY <1>2, <1>3 DEF Precedes
  <2>2. g \in Elems(queue[q]) /\ (Before(queue[q], g, h) \/ h = f)
    BY <1>1, <2>1, AppendOrder
  <2> QED BY <1>3, <2>2 DEF Precedes, InQueue
<1>4. CASE p # q
  <2>1. Precedes(g, h, p)
    BY <1>2, <1>4 DEF Precedes
  <2> QED BY <2>1, PrecedesQueued
<1> QED BY <1>3, <1>4

LEMMA RotatedOrder ==
  ASSUME TypeOK, NoTwice, NEW q \in Queue, NEW f \in Flow, InQueue(f, q), queue' = Rotated(q, f),
         NEW p \in Queue, NEW g, NEW h, Precedes(g, h, p)', p = q \/ ~InQueue(f, p)
  PROVE  g # f /\ (Precedes(g, h, p) \/ h = f)
<1>1. queue[q] \in Seq(Flow) /\ f \in Elems(queue[q]) /\ NoDup(queue[q])
  BY DEF TypeOK, InQueue, NoTwice
<1> DEFINE w == Without(queue[q], f)
<1>2. queue'[p] = IF p = q THEN Append(w, f) ELSE queue[p]
  BY DEF Rotated, TypeOK
<1>3. CASE p = q
  <2>1. w \in Seq(Flow) /\ Elems(w) = Elems(queue[q]) \ {f}
    BY <1>1, WithoutSeq, WithoutElems
  <2>2. Before(Append(w, f), g, h)
    BY <1>2, <1>3 DEF Precedes
  <2> HIDE DEF w
  <2>3. g \in Elems(w) /\ (Before(w, g, h) \/ h = f)
    BY <2>1, <2>2, AppendOrder
  <2>4. Before(w, g, h) => Before(queue[q], g, h)
    BY <1>1, WithoutOrder DEF w
  <2> QED BY <1>3, <2>1, <2>3, <2>4 DEF Precedes
<1>4. CASE p # q
  <2>1. Precedes(g, h, p)
    BY <1>2, <1>4 DEF Precedes
  <2> QED BY <1>4, <2>1, PrecedesQueued
<1> QED BY <1>3, <1>4

(***************************************************************************)
(* The invariant.                                                          *)
(***************************************************************************)
InUse(f) == \E t \in Worker : Uses(t, f)

(* In every queue of the hash the flows that no thread is working on are   *)
(* in the order they were last seen in.                                    *)
Ordered ==
  \A q \in Queue \ {Spare}, g, h \in Flow :
    Precedes(g, h, q) /\ ~InUse(g) /\ ~InUse(h) => fl[g].lastts <= fl[h].lastts

(* No flow was seen later than the packet the thread has in hand, and the  *)
(* flow it is about to put at the bottom of its next queue was seen with   *)
(* that packet.                                                            *)
Clock ==
  /\ \A f \in Flow : fl[f].lastts <= now
  /\ \A t \in Worker : pc[t] # "idle" =>
       reg[t].ts <= now /\ \A f \in Flow : fl[f].lastts <= reg[t].ts
  /\ \A t \in Worker : pc[t] = "relink" => fl[reg[t].f].lastts = reg[t].ts

OrderInv == Ordered /\ Clock

(***************************************************************************)
(* Time stands still for a packet on its way through the engine.           *)
(***************************************************************************)
TimeKept(t) ==
  \E l, v : Moves(t, l, v) /\ l # "relink" /\ (l # "idle" => v.ts = reg[t].ts)

LEMMA TimeKeptBy ==
  ASSUME NEW t, NEW l, NEW v, Goto(t, l), reg' = [reg EXCEPT ![t] = v],
         l # "relink", v.ts = reg[t].ts
  PROVE  TimeKept(t)
  BY DEF TimeKept, Moves

LEMMA GivenUpTime ==
  ASSUME NEW t, BackToIdle(t) PROVE TimeKept(t)
<1>1. Moves(t, "idle", NoReg)
  BY DEF BackToIdle, Moves
<1> QED BY <1>1 DEF TimeKept

LEMMA ContinueTime ==
  ASSUME NEW t \in Worker, NEW w \in RegRec, w.ts = reg[t].ts, Continue(t, w)
  PROVE  TimeKept(t)
<1>1. ContinueShape(t, w)
  BY ContinueMoves
<1>2. CASE GiveUp(t)
  BY <1>2, GivenUpTime DEF GiveUp
<1>3. ASSUME NEW l \in {"prune", "kill", "alloc"}, NEW v \in RegRec, Moves(t, l, v), v.ts = w.ts
      PROVE  TimeKept(t)
  BY <1>3 DEF TimeKept
<1> QED BY <1>1, <1>2, <1>3 DEF ContinueShape

LEMMA PruneTime ==
  ASSUME TypeOK, NEW t \in Worker, NEW r \in {0, 1}, PruneReturn(t, r)
  PROVE  TimeKept(t)
<1>1. t # Mgr /\ reg[t] \in RegRec
  BY FlowEngineAssumption DEF TypeOK, Thread
<1>2. Continue(t, [reg[t] EXCEPT !.f = NULL, !.got = @ + r])
  BY <1>1 DEF PruneReturn
<1>3. /\ [reg[t] EXCEPT !.f = NULL, !.got = @ + r] \in RegRec
      /\ [reg[t] EXCEPT !.f = NULL, !.got = @ + r].ts = reg[t].ts
  BY <1>1, RegAfterPrune
<1> QED BY <1>2, <1>3, ContinueTime

LEMMA TryTime ==
  ASSUME TypeOK, NEW t \in Thread
  PROVE  Try(t) \in RegRec /\ Try(t).ts = reg[t].ts
<1>1. reg[t] \in RegRec
  BY DEF TypeOK
<1>2. reg[t].try - 1 \in Int
  BY <1>1 DEF RegRec
<1>3. [reg[t] EXCEPT !.try = @ - 1] \in RegRec /\ [reg[t] EXCEPT !.try = @ - 1].ts = reg[t].ts
  BY <1>1, <1>2 DEF RegRec
<1> QED BY <1>1, <1>3 DEF Try

(* From its arrival on, a packet keeps its timestamp.                      *)
LEMMA WorkerTime ==
  ASSUME TypeOK, NEW t \in Worker, WorkerStep(t)
  PROVE  Handle(t) \/ TimeKept(t)
<1>t. t \in Thread /\ t # Mgr /\ reg[t] \in RegRec
  BY FlowEngineAssumption DEF Thread, TypeOK
<1>i. UNCHANGED reg => reg' = [reg EXCEPT ![t] = reg[t]]
  BY <1>t DEF TypeOK
<1>f. ASSUME NEW v, reg' = [reg EXCEPT ![t].f = v]
      PROVE  reg' = [reg EXCEPT ![t] = [reg[t] EXCEPT !.f = v]] /\ [reg[t] EXCEPT !.f = v].ts = reg[t].ts
  BY <1>f, <1>t DEF RegRec
<1>m. ASSUME NEW l, l # "relink", Goto(t, l), UNCHANGED reg \/ \E v : reg' = [reg EXCEPT ![t].f = v]
      PROVE  TimeKept(t)
  <2>1. CASE UNCHANGED reg
    BY <1>m, <1>i, <2>1, TimeKeptBy
  <2>2. ASSUME NEW v, reg' = [reg EXCEPT ![t].f = v] PROVE TimeKept(t)
    BY <1>m, <1>f, <2>2, TimeKeptBy
  <2> QED BY <1>m, <2>1, <2>2
<1>g. GiveUp(t) => TimeKept(t)
  BY GivenUpTime DEF GiveUp
<1>1. CASE LockBucket(t)
  BY <1>1, <1>m DEF LockBucket
<1>2. CASE LockFlow(t)
  BY <1>2, <1>m DEF LockFlow
<1>3. CASE GetNew(t)
  BY <1>3, <1>m DEF GetNew
<1>4. CASE CheckMemcap(t)
  <2>1. 1 \in 0 .. 3 /\ TryRelease \in Int
    BY FlowEngineAssumption
  <2>2. StageOf(reg[t], 1, TryRelease) \in RegRec /\ StageOf(reg[t], 1, TryRelease).ts = reg[t].ts
    BY <1>t, <2>1, RegType DEF StageOf, RegRec
  <2> QED BY <1>4, <2>2, <1>m, ContinueTime DEF CheckMemcap
<1>5. CASE InsertNew(t)
  BY <1>5, <1>m DEF InsertNew
<1>6. CASE Relink(t)
  BY <1>6, GivenUpTime DEF Relink, DoneWithFlow
<1>7. CASE Alloc(t)
  <2>1. CASE AllocCheck(t)
    BY <1>t, <2>1, <1>m, <1>g DEF AllocCheck, AllocFailed
  <2>2. CASE AllocAdd(t)
    BY <2>2, <1>m DEF AllocAdd
  <2>3. CASE AllocMem(t)
    BY <1>t, <2>3, <1>m, <1>g DEF AllocMem, AllocFailed
  <2> QED BY <1>7, <2>1, <2>2, <2>3 DEF Alloc
<1>8. CASE Prune(t)
  <2>1. CASE PruneTop(t)
    <3>1. Try(t) \in RegRec /\ Try(t).ts = reg[t].ts
      BY <1>t, TryTime
    <3>2. ASSUME NEW v, Goto(t, "prune_fb"), reg' = [reg EXCEPT ![t] = [Try(t) EXCEPT !.f = v]]
          PROVE  TimeKept(t)
      <4>1. [Try(t) EXCEPT !.f = v].ts = reg[t].ts
        BY <3>1 DEF RegRec
      <4> QED BY <3>2, <4>1, TimeKeptBy
    <3> QED BY <1>t, <2>1, <3>1, <3>2, ContinueTime DEF PruneTop
  <2>2. CASE PruneCheck(t)
    BY <2>2, <1>m, PruneTime DEF PruneCheck
  <2>3. CASE PruneUnlink(t)
    BY <2>3, <1>m DEF PruneUnlink
  <2>4. CASE PruneSpare(t)
    BY <2>4, <1>m DEF PruneSpare
  <2>5. CASE PruneUnlock(t)
    BY <2>5, PruneTime DEF PruneUnlock
  <2> QED BY <1>8, <2>1, <2>2, <2>3, <2>4, <2>5 DEF Prune
<1>9. CASE Kill(t)
  <2>1. CASE KillStart(t)
    <3>1. Try(t) \in RegRec /\ Try(t).ts = reg[t].ts
      BY <1>t, TryTime
    <3>2. ASSUME NEW v, Goto(t, "kill_walk"), reg' = [reg EXCEPT ![t] = [Try(t) EXCEPT !.f = v]]
          PROVE  TimeKept(t)
      <4>1. [Try(t) EXCEPT !.f = v].ts = reg[t].ts
        BY <3>1 DEF RegRec
      <4> QED BY <3>2, <4>1, TimeKeptBy
    <3> QED BY <2>1, <3>1, <3>2, ContinueTime DEF KillStart
  <2>2. CASE KillWalk(t)
    <3>1. [reg[t] EXCEPT !.f = NULL] \in RegRec /\ [reg[t] EXCEPT !.f = NULL].ts = reg[t].ts
      BY <1>t DEF RegRec
    <3>2. UNCHANGED pc => Goto(t, "kill_walk")
      BY <2>2, <1>t DEF KillWalk, Goto, TypeOK
    <3>3. \/ Goto(t, "kill_spare") /\ UNCHANGED reg
          \/ UNCHANGED pc /\ \E v : reg' = [reg EXCEPT ![t].f = v]
          \/ Continue(t, [reg[t] EXCEPT !.f = NULL])
      BY <2>2 DEF KillWalk
    <3> QED BY <3>1, <3>2, <3>3, <1>m, ContinueTime
  <2>3. CASE KillSpare(t)
    BY <2>3, <1>m DEF KillSpare
  <2>4. CASE KillUnlock(t)
    <3>1. /\ [reg[t] EXCEPT !.f = NULL, !.got = @ + 1] \in RegRec
          /\ [reg[t] EXCEPT !.f = NULL, !.got = @ + 1].ts = reg[t].ts
      BY <1>t, RegAfterPrune
    <3> QED BY <2>4, <3>1, ContinueTime DEF KillUnlock
  <2> QED BY <1>9, <2>1, <2>2, <2>3, <2>4 DEF Kill
<1> QED BY <1>1, <1>2, <1>3, <1>4, <1>5, <1>6, <1>7, <1>8, <1>9 DEF WorkerStep

(* Every step of another thread, of the packets or of the clock leaves a   *)
(* decoder thread where it is.                                             *)
LEMMA OthersStay ==
  ASSUME TypeOK, StageOK, Streamer = {}, [Next]_vars, NEW t \in Worker, OneDecoder,
         ~Arrive(t), ~WorkerStep(t)
  PROVE  pc'[t] = pc[t] /\ reg'[t] = reg[t]
<1>1. \A u \in Worker : u = t
  BY DEF OneDecoder
<1>2. CASE MgrStep
  <2>1. PICK l, v : Moves(Mgr, l, v)
    BY <1>2, ManagerStaged DEF Staged
  <2>2. t # Mgr /\ t \in Thread
    BY FlowEngineAssumption DEF Thread
  <2> QED BY <2>1, <2>2 DEF Moves, Goto, TypeOK
<1>3. CASE (\E f \in Flow : Output(f)) \/ Tick \/ UNCHANGED vars
  BY <1>3 DEF Output, Tick, vars
<1> QED BY <1>1, <1>2, <1>3 DEF Next

(***************************************************************************)
(* What the steps do to the queues of the hash and to the last seen times. *)
(***************************************************************************)
OrderStays == UNCHANGED fl /\ \A q \in Queue \ {Spare} : queue'[q] = queue[q]

(* A flow is wiped that is in no queue of the hash afterwards.             *)
Wiped(f) ==
  /\ fl' = [fl EXCEPT ![f] = Blank] /\ ~InUse(f)
  /\ \A q \in Queue \ {Spare} : ~InQueue(f, q)'
  /\ \A q \in Queue, g, h \in Flow : Precedes(g, h, q)' => Precedes(g, h, q)

Places(t) == InsertNew(t) \/ Handle(t) \/ Relink(t)

LEMMA NotInUseIsFree ==
  ASSUME NEW f PROVE Users(f) = {} => ~InUse(f)
  BY DEF Users, InUse

LEMMA AllocWipes ==
  ASSUME TypeInv, KeptInv, NEW t \in Thread, AllocMem(t)
  PROVE  OrderStays \/ \E f \in Flow : Wiped(f)
<1>1. UNCHANGED queue
  BY DEF AllocMem
<1>2. CASE UNCHANGED fl
  BY <1>1, <1>2 DEF OrderStays
<1>3. ASSUME NEW f \in Flow \ alloced, fl' = [fl EXCEPT ![f] = Blank] PROVE Wiped(f)
  <2>1. FlowOK(f) /\ TypeOK
    BY DEF KeptInv, TypeInv
  <2>2. fb[f] = NULL
    BY <2>1, HashedFlow
  <2>3. ~InUse(f)
    BY <2>1, <2>2, NotInUseIsFree DEF FlowOK, Hashed
  <2>4. Lists(f) = {}
    BY <2>1 DEF FlowOK, Placed
  <2>5. \A q \in Queue : ~InQueue(f, q)'
    BY <1>1, <2>4 DEF Lists, InQueue
  <2>6. \A q, g, h : Precedes(g, h, q)' => Precedes(g, h, q)
    BY <1>1 DEF Precedes
  <2> QED BY <1>3, <2>3, <2>5, <2>6 DEF Wiped
<1> QED BY <1>2, <1>3 DEF AllocMem

(* FlowClearMemory in FlowPrune and FlowKill, as the flow leaves its queue. *)
LEMMA UnlinkWipes ==
  ASSUME TypeInv, KeptInv, NEW f \in Flow, NEW q \in Queue \ {Spare}, InQueue(f, q), Users(f) = {},
         fl' = [fl EXCEPT ![f] = Blank], queue' = Unlinked(q, f)
  PROVE  Wiped(f)
<1>t. TypeOK /\ NoTwice /\ FlowOK(f)
  BY DEF KeptInv, TypeInv
<1>1. Leaves(q, f)
  BY <1>t, UnlinkedLeaves
<1>2. Lists(f) = {q}
  <2>1. q \in Lists(f)
    BY DEF Lists
  <2> QED BY <1>t, <2>1 DEF FlowOK, Placed
<1>3. \A p \in Queue : ~InQueue(f, p)'
  BY <1>1, <1>2 DEF Leaves, Lists
<1>4. \A p \in Queue, g, h \in Flow : Precedes(g, h, p)' => Precedes(g, h, p)
  BY <1>t, UnlinkedOrder
<1> QED BY <1>3, <1>4, NotInUseIsFree DEF Wiped

LEMMA PruneWipes ==
  ASSUME TypeInv, KeptInv, NEW t \in Thread, PruneUnlink(t)
  PROVE  \E f \in Flow : Wiped(f)
<1>f. PICK f \in Flow : f = reg[t].f
  BY DEF PruneUnlink, TypeInv, HasFlow, HoldsFlow
<1>q. PICK q \in Queue \ {Spare} : q = QueueAt(reg[t].qi)
  BY QueueAtType DEF TypeInv, TypeOK, RegRec
<1>1. TypeOK /\ FlowOK(f) /\ At(t, Taking \ Late, f) /\ At(t, {"prune_unlink"}, f)
  BY <1>f DEF PruneUnlink, TypeInv, KeptInv, At, Taking, Late
<1>2. Users(f) = {}
  BY <1>1, TakingFlow
<1>3. InQueue(f, q)
  BY <1>1, <1>q DEF FlowOK, Pruned, At
<1>4. fl' = [fl EXCEPT ![f] = Blank] /\ queue' = Unlinked(q, f)
  BY <1>f, <1>q DEF PruneUnlink
<1> QED BY <1>2, <1>3, <1>4, UnlinkWipes

LEMMA KillWipes ==
  ASSUME TypeInv, KeptInv, NEW t \in Worker, KillWalk(t)
  PROVE  OrderStays \/ \E f \in Flow : Wiped(f)
<1>f. PICK f \in Flow : f = reg[t].f
  BY DEF KillWalk, Thread, TypeInv, HasFlow, HoldsFlow
<1>q. PICK q \in Queue \ {Spare} : q = QueueAt(reg[t].qi)
  BY QueueAtType DEF TypeInv, TypeOK, RegRec, Thread
<1>t. TypeOK /\ FlowOK(f) /\ InQueue(f, q)
  BY <1>f, <1>q DEF KillWalk, TypeInv, KeptInv, KillHolds, InQueue
<1>1. CASE UNCHANGED <<fl, queue>>
  BY <1>1 DEF OrderStays
<1>2. CASE NotInUse(f) /\ fl' = [fl EXCEPT ![f] = Blank] /\ queue' = Unlinked(q, f)
  <2>1. Users(f) = {}
    BY <1>2, <1>t, NotInUseMeans
  <2> QED BY <1>2, <1>t, <2>1, UnlinkWipes
<1>3. \/ UNCHANGED <<fl, queue>>
      \/ NotInUse(f) /\ fl' = [fl EXCEPT ![f] = Blank] /\ queue' = Unlinked(q, f)
  BY <1>f, <1>q DEF KillWalk
<1> QED BY <1>1, <1>2, <1>3

LEMMA WorkerOrder ==
  ASSUME TypeInv, KeptInv, NEW t \in Worker, Arrive(t) \/ WorkerStep(t)
  PROVE  OrderStays \/ (\E f \in Flow : Wiped(f)) \/ Places(t)
<1>t. TypeOK /\ t \in Thread
  BY DEF TypeInv, Thread
<1>u. UNCHANGED <<fl, queue>> => OrderStays
  BY DEF OrderStays
<1>s. ASSUME UNCHANGED fl, queue' = SpareTaken \/ \E f : queue' = Linked(Spare, f) PROVE OrderStays
  BY <1>s, <1>t DEF OrderStays, SpareTaken, Linked, TypeOK
<1>1. CASE Arrive(t) \/ LockBucket(t) \/ LockFlow(t) \/ CheckMemcap(t)
  BY <1>1, <1>u DEF Arrive, LockBucket, LockFlow, CheckMemcap
<1>2. CASE GetNew(t)
  BY <1>2, <1>u, <1>s DEF GetNew
<1>3. CASE Alloc(t)
  <2>1. CASE AllocCheck(t) \/ AllocAdd(t)
    BY <2>1, <1>u DEF AllocCheck, AllocAdd
  <2>2. CASE AllocMem(t)
    BY <1>t, <2>2, AllocWipes
  <2> QED BY <1>3, <2>1, <2>2 DEF Alloc
<1>4. CASE Prune(t)
  <2>1. CASE PruneTop(t) \/ PruneCheck(t) \/ PruneUnlock(t)
    BY <2>1, <1>u DEF PruneTop, PruneCheck, PruneUnlock
  <2>2. CASE PruneUnlink(t)
    BY <1>t, <2>2, PruneWipes
  <2>3. CASE PruneSpare(t)
    BY <2>3, <1>s DEF PruneSpare
  <2> QED BY <1>4, <2>1, <2>2, <2>3 DEF Prune
<1>5. CASE Kill(t)
  <2>1. CASE KillStart(t) \/ KillUnlock(t)
    BY <2>1, <1>u DEF KillStart, KillUnlock
  <2>2. CASE KillWalk(t)
    BY <2>2, KillWipes
  <2>3. CASE KillSpare(t)
    BY <2>3, <1>s DEF KillSpare
  <2> QED BY <1>5, <2>1, <2>2, <2>3 DEF Kill
<1> QED BY <1>1, <1>2, <1>3, <1>4, <1>5 DEF WorkerStep, Places

LEMMA ManagerOrder ==
  ASSUME TypeInv, KeptInv, MgrStep
  PROVE  OrderStays \/ \E f \in Flow : Wiped(f)
<1>t. TypeOK /\ Mgr \in Thread
  BY DEF TypeInv, Thread
<1>u. UNCHANGED <<fl, queue>> => OrderStays
  BY DEF OrderStays
<1>1. CASE MgrWake \/ MgrFree \/ MgrRecover \/ MgrClear
  BY <1>1, <1>u DEF MgrWake, MgrFree, MgrRecover, MgrClear
<1>2. CASE MgrEnqueue
  BY <1>2, <1>t DEF MgrEnqueue, OrderStays, TypeOK
<1>3. CASE MgrDequeue
  BY <1>3, <1>t DEF MgrDequeue, OrderStays, SpareTaken, TypeOK
<1>4. CASE Alloc(Mgr)
  <2>1. CASE AllocCheck(Mgr) \/ AllocAdd(Mgr)
    BY <2>1, <1>u DEF AllocCheck, AllocAdd
  <2>2. CASE AllocMem(Mgr)
    BY <1>t, <2>2, AllocWipes
  <2> QED BY <1>4, <2>1, <2>2 DEF Alloc
<1>5. CASE Prune(Mgr)
  <2>1. CASE PruneTop(Mgr) \/ PruneCheck(Mgr) \/ PruneUnlock(Mgr)
    BY <2>1, <1>u DEF PruneTop, PruneCheck, PruneUnlock
  <2>2. CASE PruneUnlink(Mgr)
    BY <1>t, <2>2, PruneWipes
  <2>3. CASE PruneSpare(Mgr)
    BY <2>3, <1>t DEF PruneSpare, OrderStays, Linked, TypeOK
  <2> QED BY <1>5, <2>1, <2>2, <2>3 DEF Prune
<1> QED BY <1>1, <1>2, <1>3, <1>4, <1>5 DEF MgrStep

LEMMA StepOrder ==
  ASSUME TypeInv, KeptInv, Streamer = {}, [Next]_vars
  PROVE  OrderStays \/ (\E f \in Flow : Wiped(f)) \/ (\E t \in Worker : Places(t))
<1>1. CASE (\E f \in Flow : Output(f)) \/ Tick \/ UNCHANGED vars
  BY <1>1 DEF Output, Tick, vars, OrderStays
<1> QED BY <1>1, WorkerOrder, ManagerOrder DEF Next

(* A thread that works on a flow goes on with it until it has put it at    *)
(* the bottom of a queue.                                                  *)
LEMMA InUseStays ==
  ASSUME TypeOK, StageOK, OnePipeline, [Next]_vars, NEW t \in Worker, ~Handle(t), ~Relink(t),
         NEW f, InUse(f)
  PROVE  InUse(f)'
<1>1. Uses(t, f) /\ t \in Thread
  BY DEF OnePipeline, OneDecoder, InUse, Thread
<1>2. CASE LockFlow(t)
  <2>1. pc'[t] = "handle" /\ reg'[t] = reg[t]
    BY <1>1, <1>2 DEF LockFlow, Goto, TypeOK
  <2> QED BY <1>1, <2>1 DEF InUse, Uses
<1>3. CASE (Arrive(t) \/ WorkerStep(t)) /\ ~LockFlow(t)
  <2>1. ~Arrive(t) /\ ~LockBucket(t) /\ ~GetNew(t) /\ ~CheckMemcap(t) /\ ~InsertNew(t)
    BY <1>1 DEF Uses, Arrive, LockBucket, GetNew, CheckMemcap, InsertNew
  <2>2. ~Alloc(t)
    BY <1>1 DEF Uses, Alloc, AllocCheck, AllocAdd, AllocMem
  <2>3. ~Prune(t)
    BY <1>1 DEF Uses, Prune, PruneTop, PruneCheck, PruneUnlink, PruneSpare, PruneUnlock
  <2>4. ~Kill(t)
    BY <1>1 DEF Uses, Kill, KillStart, KillWalk, KillSpare, KillUnlock
  <2> QED BY <1>3, <2>1, <2>2, <2>3, <2>4 DEF WorkerStep
<1>4. CASE ~Arrive(t) /\ ~WorkerStep(t)
  <2>1. pc'[t] = pc[t] /\ reg'[t] = reg[t]
    BY <1>4, OthersStay DEF OnePipeline
  <2> QED BY <1>1, <2>1 DEF InUse, Uses
<1> QED BY <1>2, <1>3, <1>4

(***************************************************************************)
(* The queues stay ordered.                                                *)
(***************************************************************************)
LEMMA LastTsType ==
  ASSUME TypeOK, NEW f \in Flow
  PROVE  fl[f].lastts \in Nat /\ fl[f] \in FlowRec
  BY DEF TypeOK, FlowRec

LEMMA OrderedQuiet ==
  ASSUME Ordered, OrderStays, \A f \in Flow : InUse(f) => InUse(f)'
  PROVE  Ordered'
<1> SUFFICES ASSUME NEW q \in Queue \ {Spare}, NEW g \in Flow, NEW h \in Flow,
                    Precedes(g, h, q)', ~InUse(g)', ~InUse(h)'
             PROVE  fl'[g].lastts <= fl'[h].lastts
  BY DEF Ordered
<1>1. Precedes(g, h, q)
  BY DEF OrderStays, Precedes
<1> QED BY <1>1 DEF Ordered, OrderStays

LEMMA OrderedWiped ==
  ASSUME TypeOK, TypeOK', Ordered, NEW f \in Flow, Wiped(f), \A g \in Flow : InUse(g) => InUse(g)'
  PROVE  Ordered'
<1> SUFFICES ASSUME NEW q \in Queue \ {Spare}, NEW g \in Flow, NEW h \in Flow,
                    Precedes(g, h, q)', ~InUse(g)', ~InUse(h)'
             PROVE  fl'[g].lastts <= fl'[h].lastts
  BY DEF Ordered
<1>1. Precedes(g, h, q)
  BY DEF Wiped
<1>2. InQueue(g, q)' /\ InQueue(h, q)'
  <2>1. queue'[q] \in Seq(Flow)
    BY DEF TypeOK
  <2> QED BY <2>1, BeforeElems DEF Precedes, InQueue
<1>3. g # f /\ h # f
  BY <1>2 DEF Wiped
<1>4. fl'[g] = fl[g] /\ fl'[h] = fl[h]
  BY <1>3 DEF Wiped, TypeOK
<1> QED BY <1>1, <1>4 DEF Ordered

(* A new flow is behind all the others, and the thread works on it.        *)
LEMMA OrderedInsert ==
  ASSUME TypeInv, KeptInv, Ordered, NEW t \in Worker, InsertNew(t),
         \A g \in Flow : InUse(g) => InUse(g)'
  PROVE  Ordered'
<1>f. PICK f \in Flow : f = reg[t].f
  BY DEF InsertNew, Thread, TypeInv, HasFlow, HoldsFlow
<1>t. t \in Thread /\ TypeOK /\ FlowOK(f) /\ reg[t].key \in Key
  BY DEF Thread, TypeInv, KeptInv, InsertNew, HasKey
<1>q. PICK q \in Queue \ {Spare} : q = <<"new", ProtoOf[reg[t].key]>>
  BY <1>t, ProtoQueue DEF State
<1>1. queue' = Linked(q, f) /\ InUse(f)'
  <2>1. pc'[t] = "handle" /\ reg'[t] = reg[t]
    BY <1>t DEF InsertNew, Goto, TypeOK
  <2> QED BY <1>f, <1>q, <2>1 DEF InsertNew, InUse, Uses
<1>2. \A p \in Queue : ~InQueue(f, p)
  <2>1. t \in Hands(f)
    BY <1>f, <1>t DEF InsertNew, Hands, At, Carrying
  <2> QED BY <1>t, <2>1 DEF FlowOK, Placed, Lists
<1>3. \A g \in Flow \ {f} : fl'[g] = fl[g]
  BY <1>f, <1>t DEF InsertNew, TypeOK
<1> SUFFICES ASSUME NEW p \in Queue \ {Spare}, NEW g \in Flow, NEW h \in Flow,
                    Precedes(g, h, p)', ~InUse(g)', ~InUse(h)'
             PROVE  fl'[g].lastts <= fl'[h].lastts
  BY DEF Ordered
<1>4. h # f /\ Precedes(g, h, p) /\ InQueue(g, p)
  BY <1>1, <1>t, LinkedOrder
<1>5. g # f
  BY <1>2, <1>4
<1> QED BY <1>3, <1>4, <1>5 DEF Ordered

(* A seen flow goes to the bottom with the latest time of all, or out of   *)
(* its queue with the thread still at work on it.                          *)
LEMMA HandleFl ==
  ASSUME TypeInv, KeptInv, Streamer = {}, NEW t \in Worker, Handle(t), NEW f \in Flow, f = reg[t].f
  PROVE  /\ fl'[f].lastts = reg[t].ts
         /\ \A g \in Flow \ {f} : fl'[g] = fl[g]
<1>t. TypeOK /\ t \in Thread /\ reg[t] \in RegRec /\ fl[f] \in FlowRec
  BY DEF TypeInv, TypeOK, Thread
<1>1. Touched(t) = Counted(t)
  BY DEF Touched
<1>2. Counted(t).lastts = reg[t].ts /\ \A l : [Counted(t) EXCEPT !.lst = l].lastts = reg[t].ts
  BY <1>t DEF Counted, FlowRec
<1>3. fl' = [fl EXCEPT ![f] = Counted(t)] \/ \E l : fl' = [fl EXCEPT ![f] = [Counted(t) EXCEPT !.lst = l]]
  BY <1>1 DEF Handle
<1>4. CASE fl' = [fl EXCEPT ![f] = Counted(t)]
  BY <1>t, <1>2, <1>4 DEF TypeOK
<1>5. ASSUME NEW l, fl' = [fl EXCEPT ![f] = [Counted(t) EXCEPT !.lst = l]]
      PROVE  /\ fl'[f].lastts = reg[t].ts
             /\ \A g \in Flow \ {f} : fl'[g] = fl[g]
  BY <1>t, <1>2, <1>5 DEF TypeOK
<1> QED BY <1>3, <1>4, <1>5

LEMMA OrderedHandle ==
  ASSUME TypeInv, KeptInv, Ordered, Clock, OnePipeline, NEW t \in Worker, Handle(t)
  PROVE  Ordered'
<1>f. PICK f \in Flow : f = reg[t].f
  BY DEF Handle, Thread, TypeInv, HasFlow, HoldsFlow
<1>t. /\ t \in Thread /\ TypeOK /\ NoTwice /\ FlowOK(f) /\ pc[t] = "handle"
      /\ At(t, {"stream", "handle", "prune_fb"}, f)
  BY <1>f DEF Handle, Thread, TypeInv, KeptInv, At
<1>h. InQueue(f, QueueOf(f)) /\ QueueOf(f) \in Queue \ {Spare} /\ Lists(f) = {QueueOf(f)}
  BY <1>t, HandlingFlow
<1>q. PICK q \in Queue \ {Spare} : q = QueueOf(f)
  BY <1>h
<1>1. fl'[f].lastts = reg[t].ts /\ \A g \in Flow \ {f} : fl'[g] = fl[g] /\ fl[g].lastts <= reg[t].ts
  BY <1>f, <1>t, HandleFl DEF OnePipeline, Clock
<1>2. \A g \in Flow \ {f} : ~InUse(g)
  BY <1>f, <1>t DEF OnePipeline, OneDecoder, InUse, Uses
<1>3. \A p \in Queue : p = q \/ ~InQueue(f, p)
  BY <1>h, <1>q DEF Lists
<1>4. queue' = Rotated(q, f) \/ queue' = Unlinked(q, f)
  BY <1>f, <1>q DEF Handle
<1> SUFFICES ASSUME NEW p \in Queue \ {Spare}, NEW g \in Flow, NEW h \in Flow,
                    Precedes(g, h, p)', ~InUse(g)', ~InUse(h)'
             PROVE  fl'[g].lastts <= fl'[h].lastts
  BY DEF Ordered
<1>5. CASE queue' = Rotated(q, f)
  <2>1. g # f /\ (Precedes(g, h, p) \/ h = f)
    BY <1>t, <1>h, <1>q, <1>3, <1>5, RotatedOrder
  <2> QED BY <1>1, <1>2, <2>1 DEF Ordered
<1>6. CASE queue' = Unlinked(q, f)
  <2>1. Precedes(g, h, p)
    BY <1>t, <1>h, <1>q, <1>6, UnlinkedOrder
  <2>2. g # f /\ h # f
    <3>1. Leaves(q, f)
      BY <1>t, <1>h, <1>q, <1>6, UnlinkedLeaves
    <3>2. ~InQueue(f, p)'
      BY <1>3, <3>1 DEF Leaves
    <3>3. InQueue(g, p)' /\ InQueue(h, p)'
      <4>1. queue'[p] \in Seq(Flow)
        BY <1>t, <1>6, ListsType
      <4> QED BY <4>1, BeforeElems DEF Precedes, InQueue
    <3> QED BY <3>2, <3>3
  <2> QED BY <1>1, <1>2, <2>1, <2>2 DEF Ordered
<1> QED BY <1>4, <1>5, <1>6

LEMMA OrderedRelink ==
  ASSUME TypeInv, KeptInv, Ordered, Clock, OnePipeline, NEW t \in Worker, Relink(t)
  PROVE  Ordered'
<1>f. PICK f \in Flow : f = reg[t].f
  BY DEF Relink, Thread, TypeInv, HasFlow, HoldsFlow
<1>t. /\ t \in Thread /\ TypeOK /\ FlowOK(f) /\ pc[t] = "relink" /\ UNCHANGED fl
  BY <1>f DEF Relink, Thread, TypeInv, KeptInv
<1>1. fl[f].lastts = reg[t].ts /\ \A g \in Flow : fl[g].lastts <= reg[t].ts
  BY <1>f, <1>t DEF Clock
<1>2. \A g \in Flow \ {f} : ~InUse(g)
  BY <1>f, <1>t DEF OnePipeline, OneDecoder, InUse, Uses
<1>3. \A p \in Queue : ~InQueue(f, p)
  <2>1. t \in Hands(f)
    BY <1>f, <1>t DEF Hands, At, Carrying
  <2> QED BY <1>t, <2>1 DEF FlowOK, Placed, Lists
<1>q. PICK q \in Queue : q = QueueOf(f)
  <2>1. At(t, Inside, f)
    BY <1>f, <1>t DEF At, Inside
  <2>2. fb[f] # NULL
    BY <1>t, <2>1 DEF FlowOK, Hashed
  <2> QED BY <1>t, <2>2, HashedFlow
<1>4. queue' = Linked(q, f)
  BY <1>f, <1>q DEF Relink
<1> SUFFICES ASSUME NEW p \in Queue \ {Spare}, NEW g \in Flow, NEW h \in Flow,
                    Precedes(g, h, p)', ~InUse(g)', ~InUse(h)'
             PROVE  fl'[g].lastts <= fl'[h].lastts
  BY DEF Ordered
<1>5. InQueue(g, p) /\ (Precedes(g, h, p) \/ h = f)
  BY <1>t, <1>4, LinkedOrder
<1>6. CASE h = f
  BY <1>t, <1>1, <1>6
<1>7. CASE h # f
  <2>1. g # f
    BY <1>3, <1>5
  <2> QED BY <1>t, <1>2, <1>5, <1>7, <2>1 DEF Ordered
<1> QED BY <1>6, <1>7

LEMMA OrderedStep ==
  ASSUME EngineInv, TypeOK', OrderInv, OnePipeline, [Next]_vars
  PROVE  Ordered'
<1>t. TypeInv /\ TypeOK /\ KeptInv /\ StageOK /\ Ordered /\ Clock /\ Streamer = {}
  BY DEF EngineInv, TypeInv, Labels, OrderInv, OnePipeline
<1>w. PICK w \in Worker : Worker = {w}
  BY DEF OnePipeline, OneDecoder
<1>1. CASE Handle(w)
  BY <1>t, <1>1, OrderedHandle
<1>2. CASE Relink(w)
  BY <1>t, <1>2, OrderedRelink
<1>3. CASE ~Handle(w) /\ ~Relink(w)
  <2>1. \A f \in Flow : InUse(f) => InUse(f)'
    BY <1>t, <1>3, InUseStays
  <2>2. OrderStays \/ (\E f \in Flow : Wiped(f)) \/ InsertNew(w)
    BY <1>t, <1>w, <1>3, StepOrder DEF Places
  <2> QED BY <1>t, <2>1, <2>2, OrderedQuiet, OrderedWiped, OrderedInsert
<1> QED BY <1>1, <1>2, <1>3

(***************************************************************************)
(* No flow is ahead of the packet in hand.                                 *)
(***************************************************************************)
LEMMA TimeGrows ==
  ASSUME TypeOK, [Next]_vars PROVE now' >= now
<1>0. now \in Nat
  BY DEF TypeOK
<1>u. UNCHANGED envVars => now' >= now
  BY <1>0 DEF envVars
<1>a. ASSUME NEW t, Alloc(t) PROVE now' >= now
  BY <1>a, <1>u DEF Alloc, AllocCheck, AllocAdd, AllocMem
<1>p. ASSUME NEW t, Prune(t) PROVE now' >= now
  BY <1>p, <1>u DEF Prune, PruneTop, PruneCheck, PruneUnlink, PruneSpare, PruneUnlock
<1>k. ASSUME NEW t, Kill(t) PROVE now' >= now
  BY <1>k, <1>u DEF Kill, KillStart, KillWalk, KillSpare, KillUnlock
<1>h. ASSUME NEW t, Handle(t) \/ Relink(t) PROVE now' >= now
  BY <1>h, <1>u DEF Handle, Relink
<1>1. ASSUME NEW t \in Worker, Arrive(t) \/ WorkerStep(t) PROVE now' >= now
  <2>1. CASE Arrive(t)
    BY <1>0, <2>1 DEF Arrive
  <2>2. CASE LockBucket(t) \/ LockFlow(t) \/ GetNew(t) \/ CheckMemcap(t) \/ InsertNew(t)
    BY <1>u, <2>2 DEF LockBucket, LockFlow, GetNew, CheckMemcap, InsertNew
  <2> QED BY <1>1, <1>a, <1>p, <1>k, <1>h, <2>1, <2>2 DEF WorkerStep
<1>2. CASE MgrStep
  <2>1. CASE MgrWake \/ MgrEnqueue \/ MgrDequeue \/ MgrFree \/ MgrRecover \/ MgrClear
    BY <1>u, <2>1 DEF MgrWake, MgrEnqueue, MgrDequeue, MgrFree, MgrRecover, MgrClear
  <2> QED BY <1>2, <1>a, <1>p, <2>1 DEF MgrStep
<1>3. ASSUME NEW s \in Streamer, StreamLock(s) \/ StreamStep(s) PROVE now' >= now
  BY <1>3, <1>u, <1>h DEF StreamLock, StreamStep, StreamPacket
<1>4. CASE (\E f \in Flow : Output(f)) \/ Tick \/ UNCHANGED vars
  BY <1>0, <1>4 DEF Output, Tick, vars, envVars
<1> QED BY <1>1, <1>2, <1>3, <1>4 DEF Next

(* Only FlowHandlePacket raises a last seen time.                          *)
LEMMA LastTsFalls ==
  ASSUME TypeInv, KeptInv, OnePipeline, [Next]_vars, \A t \in Worker : ~Handle(t)
  PROVE  \A f \in Flow : /\ fl'[f].lastts <= fl[f].lastts
                         /\ InUse(f) => fl'[f].lastts = fl[f].lastts
<1>t. TypeOK
  BY DEF TypeInv
<1>1. CASE UNCHANGED fl
  BY <1>t, <1>1, LastTsType
<1>2. ASSUME NEW g \in Flow, Wiped(g), NEW f \in Flow
      PROVE  fl'[f].lastts <= fl[f].lastts /\ (InUse(f) => fl'[f].lastts = fl[f].lastts)
  <2>0. fl[f].lastts \in Nat /\ Blank.lastts = 0
    BY <1>t, LastTsType DEF Blank
  <2>1. fl'[f] = IF f = g THEN Blank ELSE fl[f]
    BY <1>t, <1>2 DEF Wiped, TypeOK
  <2>2. ~InUse(g)
    BY <1>2 DEF Wiped
  <2> QED BY <2>0, <2>1, <2>2
<1>3. ASSUME NEW t \in Worker, InsertNew(t), NEW f \in Flow PROVE fl'[f].lastts = fl[f].lastts
  <2>1. fl[f] \in FlowRec
    BY <1>t, LastTsType
  <2> DEFINE r == [fl[f] EXCEPT !.key = reg[t].key, !.dir = reg[t].dir, !.lst = "new"]
  <2>2. r.lastts = fl[f].lastts
    BY <2>1 DEF FlowRec
  <2>3. fl'[f] = fl[f] \/ fl'[f] = r
    BY <1>t, <1>3 DEF InsertNew, TypeOK
  <2> HIDE DEF r
  <2> QED BY <2>2, <2>3
<1>4. \/ UNCHANGED fl
      \/ \E f \in Flow : Wiped(f)
      \/ \E t \in Worker : InsertNew(t)
  BY StepOrder DEF OnePipeline, Places, Relink, OrderStays
<1> QED BY <1>t, <1>1, <1>2, <1>3, <1>4, LastTsType

LEMMA ClockHandle ==
  ASSUME TypeInv, TypeOK', KeptInv, Clock, OnePipeline, NEW t \in Worker, Handle(t)
  PROVE  Clock'
<1>f. PICK f \in Flow : f = reg[t].f
  BY DEF Handle, Thread, TypeInv, HasFlow, HoldsFlow
<1>t. t \in Thread /\ TypeOK /\ pc[t] = "handle" /\ now' = now /\ Worker = {t}
  BY DEF Handle, Thread, TypeInv, envVars, OnePipeline, OneDecoder
<1>1. fl'[f].lastts = reg[t].ts /\ \A g \in Flow \ {f} : fl'[g] = fl[g]
  BY <1>f, HandleFl DEF OnePipeline
<1>2. reg[t].ts <= now /\ \A g \in Flow : fl[g].lastts <= reg[t].ts
  BY <1>t DEF Clock
<1>3. \A g \in Flow : fl'[g].lastts <= reg[t].ts
  <2>1. reg[t].ts \in Nat
    BY <1>t DEF TypeOK, RegRec
  <2> QED BY <1>1, <1>2, <2>1
<1>4. \A g \in Flow : fl'[g].lastts <= now'
  <2> SUFFICES ASSUME NEW g \in Flow PROVE fl'[g].lastts <= now'
    OBVIOUS
  <2>1. reg[t].ts \in Nat /\ now \in Nat /\ fl'[g].lastts \in Nat
    BY <1>t, LastTsType DEF TypeOK, RegRec, FlowRec
  <2> QED BY <1>t, <1>2, <1>3, <2>1
<1>5. pc'[t] = "idle" \/ (pc'[t] = "relink" /\ reg'[t] = reg[t])
  BY <1>t DEF Handle, DoneWithFlow, BackToIdle, Goto, TypeOK
<1> QED BY <1>f, <1>t, <1>1, <1>2, <1>3, <1>4, <1>5 DEF Clock

LEMMA ClockStep ==
  ASSUME EngineInv, TypeOK', Clock, OnePipeline, [Next]_vars
  PROVE  Clock'
<1>t. TypeInv /\ TypeOK /\ KeptInv /\ StageOK /\ Streamer = {} /\ OneDecoder
  BY DEF EngineInv, TypeInv, Labels, OnePipeline
<1>w. PICK w \in Worker : Worker = {w}
  BY DEF OnePipeline, OneDecoder
<1>y. /\ w \in Thread /\ now \in Nat /\ now' \in Nat /\ reg[w].ts \in Nat
      /\ \A f \in Flow : fl[f].lastts \in Nat /\ fl'[f].lastts \in Nat
  BY <1>t, LastTsType DEF Thread, TypeOK, RegRec, FlowRec
<1>n. now' >= now
  BY <1>t, TimeGrows
<1>1. CASE Handle(w)
  BY <1>t, <1>1, ClockHandle
<1> SUFFICES ASSUME ~Handle(w) PROVE Clock'
  BY <1>1
<1>2. \A f \in Flow : /\ fl'[f].lastts <= fl[f].lastts
                      /\ InUse(f) => fl'[f].lastts = fl[f].lastts
  BY <1>t, <1>w, LastTsFalls
<1>3. \A f \in Flow : fl[f].lastts <= now /\ fl'[f].lastts <= now
  <2> SUFFICES ASSUME NEW f \in Flow PROVE fl[f].lastts <= now /\ fl'[f].lastts <= now
    OBVIOUS
  <2>1. fl[f].lastts <= now /\ fl'[f].lastts <= fl[f].lastts
    BY <1>2 DEF Clock
  <2> QED BY <1>y, <2>1
<1>4. \A f \in Flow : fl'[f].lastts <= now'
  <2> SUFFICES ASSUME NEW f \in Flow PROVE fl'[f].lastts <= now'
    OBVIOUS
  <2> QED BY <1>y, <1>n, <1>3
<1>5. ASSUME pc[w] # "idle", reg'[w].ts = reg[w].ts
      PROVE  reg'[w].ts <= now' /\ \A f \in Flow : fl'[f].lastts <= reg'[w].ts
  <2>1. reg[w].ts <= now
    BY <1>5 DEF Clock
  <2>2. reg'[w].ts <= now'
    BY <1>5, <1>y, <1>n, <2>1
  <2>3. ASSUME NEW f \in Flow PROVE fl'[f].lastts <= reg'[w].ts
    <3>1. fl[f].lastts <= reg[w].ts /\ fl'[f].lastts <= fl[f].lastts
      BY <1>2, <1>5 DEF Clock
    <3> QED BY <1>y, <1>5, <3>1
  <2> QED BY <2>2, <2>3
<1>6. CASE Arrive(w)
  <2>1. pc'[w] = "bucket" /\ reg'[w].ts = now
    <3>1. \A k, d : [NoReg EXCEPT !.key = k, !.dir = d, !.ts = now].ts = now
      BY DEF NoReg
    <3> QED BY <1>6, <1>y, <1>t, <3>1 DEF Arrive, Goto, TypeOK
  <2>2. reg'[w].ts <= now' /\ \A f \in Flow : fl'[f].lastts <= reg'[w].ts
    BY <1>y, <1>n, <1>3, <2>1
  <2> QED BY <1>w, <1>4, <2>1, <2>2 DEF Clock
<1>7. CASE WorkerStep(w)
  <2>1. pc[w] # "idle"
    BY <1>7 DEF WorkerStep, LockBucket, LockFlow, GetNew, CheckMemcap, InsertNew, Handle, Relink,
                Alloc, AllocCheck, AllocAdd, AllocMem,
                Prune, PruneTop, PruneCheck, PruneUnlink, PruneSpare, PruneUnlock,
                Kill, KillStart, KillWalk, KillSpare, KillUnlock
  <2>2. PICK l, v : Moves(w, l, v) /\ l # "relink" /\ (l # "idle" => v.ts = reg[w].ts)
    BY <1>7, <1>t, WorkerTime DEF TimeKept
  <2>3. pc'[w] = l /\ reg'[w] = v
    BY <1>t, <1>y, <2>2 DEF Moves, Goto, TypeOK
  <2> QED BY <1>w, <1>4, <1>5, <2>1, <2>2, <2>3 DEF Clock
<1>8. CASE ~Arrive(w) /\ ~WorkerStep(w)
  <2>1. pc'[w] = pc[w] /\ reg'[w] = reg[w]
    BY <1>t, <1>8, OthersStay
  <2>2. ASSUME pc[w] = "relink" PROVE fl'[reg[w].f].lastts = reg[w].ts
    <3>1. reg[w].f \in Flow
      BY <1>t, <1>y, <2>2 DEF TypeInv, HasFlow, HoldsFlow
    <3>2. InUse(reg[w].f)
      BY <2>2 DEF InUse, Uses
    <3>3. fl[reg[w].f].lastts = reg[w].ts
      BY <2>2 DEF Clock
    <3> QED BY <1>2, <3>1, <3>2, <3>3
  <2> QED BY <1>w, <1>4, <1>5, <2>1, <2>2 DEF Clock
<1> QED BY <1>6, <1>7, <1>8

(***************************************************************************)
(* The theorem.                                                            *)
(***************************************************************************)
LEMMA OrderInit == Init => OrderInv
<1> SUFFICES ASSUME Init PROVE OrderInv
  OBVIOUS
<1>1. \A q \in Queue \ {Spare} : queue[q] = <<>>
  BY DEF Init
<1>2. Ordered
  BY <1>1 DEF Ordered, Precedes, Before
<1>3. \A t \in Worker : pc[t] = "idle"
  BY FlowEngineAssumption DEF Init, Thread
<1>4. \A f \in Flow : fl[f].lastts = 0 /\ now = 0
  BY DEF Init, Blank
<1>5. Clock
  BY <1>3, <1>4 DEF Clock
<1> QED BY <1>2, <1>5 DEF OrderInv

LEMMA OrderMeans == TypeOK /\ OrderInv => TopIsLeastRecent
<1> SUFFICES ASSUME TypeOK, OrderInv, NEW q \in Queue \ {Spare},
                    NEW i \in 1 .. Len(queue[q]), NEW j \in 1 .. Len(queue[q]), i < j,
                    \A t \in Worker : ~Uses(t, queue[q][i]) /\ ~Uses(t, queue[q][j])
             PROVE  fl[queue[q][i]].lastts <= fl[queue[q][j]].lastts
  BY DEF TopIsLeastRecent
<1>1. queue[q][i] \in Flow /\ queue[q][j] \in Flow
  <2>1. queue[q] \in Seq(Flow)
    BY DEF TypeOK
  <2> QED BY <2>1
<1>2. Precedes(queue[q][i], queue[q][j], q)
  BY DEF Precedes, Before
<1> QED BY <1>1, <1>2 DEF OrderInv, Ordered, InUse

(* flow.c, FlowUpdateQueue: "Pull and put back -- this way the flows on    *)
(* top of the list are least recently used."  With one decoder thread they *)
(* are, however its own pruning and killing and the manager's pruning,     *)
(* freeing and refilling interleave with it and whatever flows are reused: *)
(* when the top, the only flow FlowPrune looks at, has not timed out, no   *)
(* flow below it with the same timeout has.                                *)
THEOREM QueuesAreOrdered ==
  ASSUME OnePipeline PROVE Spec => []TopIsLeastRecent
<1>0. OneDecoder
  BY DEF OnePipeline
<1>1. Spec => []EngineInv
  BY <1>0, OneDecoderInvariant
<1>2. EngineInv => TypeOK
  BY DEF EngineInv, TypeInv
<1>3. EngineInv /\ TypeOK' /\ OrderInv /\ [Next]_vars => OrderInv'
  BY OrderedStep, ClockStep DEF OrderInv
<1> QED BY <1>1, <1>2, <1>3, OrderInit, OrderMeans, PTL DEF Spec

==============================================================================
