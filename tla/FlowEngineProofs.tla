-------------------------- MODULE FlowEngineProofs --------------------------
(* Theorems about FlowEngine, for every number of threads, flows, keys,    *)
(* buckets and protocols and every configuration: the flows are not lost   *)
(* or shared; the hash never holds two flows for one connection, because   *)
(* the lock of a bucket makes lookup and insertion one atomic step however *)
(* long FlowGetNew prunes and allocates in between; and how far the flows  *)
(* can pass the memcap.                                                    *)
EXTENDS FlowEngine, FiniteSetTheorems, TLAPS

(***************************************************************************)
(* Lists and queues.                                                       *)
(***************************************************************************)

(* FlowRequeue's unlinking leaves a list of the same flows or fewer. *)
LEMMA WithoutSeq ==
  ASSUME NEW S, NEW s \in Seq(S), NEW f
  PROVE  Without(s, f) \in Seq(S)
<1> DEFINE n == Len(s) - 1
           w == [i \in 1 .. n |-> IF i < L!IndexIn(s, f) THEN s[i] ELSE s[i + 1]]
<1>1. Without(s, f) = w
  BY DEF Without, L!Without
<1>2. \A i \in 1 .. n : i \in 1 .. Len(s) /\ i + 1 \in 1 .. Len(s)
  OBVIOUS
<1>3. w \in [1 .. n -> S]
  BY <1>2
<1>4. CASE n \in Nat
  BY <1>1, <1>3, <1>4
<1>5. CASE n \notin Nat
  <2>1. 1 .. n = 1 .. 0
    BY <1>5
  <2>2. w \in [1 .. 0 -> S]
    BY <1>3, <2>1
  <2> QED BY <1>1, <2>2
<1> QED BY <1>4, <1>5

(* Other flows stay in the list FlowRequeue unlinks a flow from. *)
LEMMA WithoutKeeps ==
  ASSUME NEW S, NEW s \in Seq(S), NEW f, f \in Elems(s), NEW g \in Elems(s), g # f
  PROVE  g \in Elems(Without(s, f))
<1> DEFINE k == L!IndexIn(s, f)
<1>1. k \in 1 .. Len(s) /\ s[k] = f
  BY DEF Elems, L!Elems, L!IndexIn
<1>2. PICK i \in 1 .. Len(s) : s[i] = g
  BY DEF Elems, L!Elems
<1>3. Without(s, f) = [j \in 1 .. Len(s) - 1 |-> IF j < k THEN s[j] ELSE s[j + 1]]
  BY DEF Without, L!Without
<1>4. CASE i < k
  <2>1. i \in 1 .. Len(s) - 1
    BY <1>1, <1>4
  <2> QED BY <1>2, <1>3, <1>4, <2>1 DEF Elems, L!Elems
<1>5. CASE i > k
  <2>1. i - 1 \in 1 .. Len(s) - 1 /\ ~(i - 1 < k) /\ (i - 1) + 1 = i
    BY <1>1, <1>5
  <2>2. Without(s, f)[i - 1] = g
    BY <1>2, <1>3, <2>1
  <2> QED BY <1>3, <2>1, <2>2 DEF Elems, L!Elems
<1> QED BY <1>1, <1>2, <1>4, <1>5

LEMMA AppendElems ==
  ASSUME NEW S, NEW s \in Seq(S), NEW f \in S
  PROVE  /\ Append(s, f) \in Seq(S)
         /\ Elems(Append(s, f)) = Elems(s) \cup {f}
<1>1. Append(s, f) \in Seq(S) /\ Len(Append(s, f)) = Len(s) + 1
  OBVIOUS
<1>2. \A i \in 1 .. Len(s) : Append(s, f)[i] = s[i]
  OBVIOUS
<1>3. Append(s, f)[Len(s) + 1] = f
  OBVIOUS
<1>4. DOMAIN Append(s, f) = DOMAIN s \cup {Len(s) + 1}
  BY <1>1
<1> QED BY <1>1, <1>2, <1>3, <1>4 DEF Elems, L!Elems

(* FlowPruneFlowsCnt and FlowManagerThread visit only the proto queues. *)
LEMMA QueueAtType ==
  ASSUME NEW i \in 1 .. NQueues
  PROVE  QueueAt(i) \in Queue /\ QueueAt(i) # Spare
<1>1. NProto \in Nat /\ NProto > 0
  BY FlowEngineAssumption
<1>2. ((i - 1) % 3) + 1 \in 1 .. 3
  BY <1>1 DEF NQueues
<1>3. ((i - 1) \div 3) + 1 \in 1 .. NProto
  BY <1>1 DEF NQueues
<1>4. <<"close", "new", "est">>[((i - 1) % 3) + 1] \in State
  BY <1>2 DEF State
<1> QED BY <1>3, <1>4 DEF QueueAt, Queue, Spare, State

(***************************************************************************)
(* Type correctness.                                                       *)
(***************************************************************************)

(* A thread inside FlowKill holds the mutex of the queue it walks, and the *)
(* flow it looks at is in that queue: without this f->lnext would not be a *)
(* flow at all.                                                            *)
KillHolds ==
  \A t \in Worker :
    LET q == QueueAt(reg[t].qi) IN
    /\ pc[t] \in {"kill_walk", "kill_spare", "kill_unlock"} => qLock[q] = t
    /\ pc[t] = "kill_walk" => reg[t].f \in Elems(queue[q])

(* A thread that is about to dereference f has one. *)
HoldsFlow == {"lock", "got", "stream", "handle", "relink", "prune_fb", "prune_unlink", "prune_spare",
              "prune_unlock", "kill_walk", "kill_spare", "kill_unlock", "m_enq", "m_ff"}
HasFlow == \A t \in Thread : pc[t] \in HoldsFlow => reg[t].f \in Flow

(* A worker that is not idle has a packet. *)
HasKey == \A t \in Worker : pc[t] # "idle" => reg[t].key \in Key

TypeInv == TypeOK /\ HasFlow /\ HasKey /\ KillHolds

LEMMA NQueuesType == NQueues \in Nat /\ NQueues > 0
  BY FlowEngineAssumption DEF NQueues

(* The locals of a thread stay typed when some of them are set. *)
LEMMA RegType ==
  /\ NoReg \in RegRec
  /\ \A w \in RegRec, f \in Flow \cup {NULL} : [w EXCEPT !.f = f] \in RegRec
  /\ \A w \in RegRec, s \in 0 .. 3, c \in Int : StageOf(w, s, c) \in RegRec
  /\ \A w \in RegRec, i \in 1 .. NQueues, c \in Int :
       [w EXCEPT !.f = NULL, !.qi = i, !.got = 0, !.cnt = c, !.try = c] \in RegRec
<1>1. NoReg \in RegRec
  BY NQueuesType DEF NoReg, RegRec, Dir
<1>2. ASSUME NEW w \in RegRec, NEW f \in Flow \cup {NULL}
      PROVE  [w EXCEPT !.f = f] \in RegRec
  BY DEF RegRec
<1>3. ASSUME NEW w \in RegRec, NEW i \in 1 .. NQueues, NEW c \in Int
      PROVE  [w EXCEPT !.f = NULL, !.qi = i, !.got = 0, !.cnt = c, !.try = c] \in RegRec
  BY DEF RegRec
<1>4. ASSUME NEW w \in RegRec, NEW s \in 0 .. 3, NEW c \in Int
      PROVE  StageOf(w, s, c) \in RegRec
  <2>1. 1 \in 1 .. NQueues
    BY NQueuesType
  <2> QED BY <2>1 DEF RegRec, StageOf
<1> QED BY <1>1, <1>2, <1>3, <1>4

LEMMA RegAfterPrune ==
  /\ \A w \in RegRec, r \in {0, 1} :
       LET v == [w EXCEPT !.f = NULL, !.got = @ + r] IN
       v \in RegRec /\ v.key = w.key /\ v.dir = w.dir /\ v.ts = w.ts
  /\ \A w \in RegRec, i \in 1 .. NQueues :
       LET v == [w EXCEPT !.f = NULL, !.qi = i] IN v \in RegRec /\ v.ts = w.ts
<1>1. ASSUME NEW w \in RegRec, NEW r \in {0, 1}
      PROVE  LET v == [w EXCEPT !.f = NULL, !.got = @ + r] IN
             v \in RegRec /\ v.key = w.key /\ v.dir = w.dir /\ v.ts = w.ts
  <2>1. w.got + r \in Nat
    BY DEF RegRec
  <2> QED BY <2>1 DEF RegRec
<1>2. ASSUME NEW w \in RegRec, NEW i \in 1 .. NQueues
      PROVE  LET v == [w EXCEPT !.f = NULL, !.qi = i] IN v \in RegRec /\ v.ts = w.ts
  BY DEF RegRec
<1> QED BY <1>1, <1>2

(* What the pruning loops of a worker do to its locals: it goes on, with   *)
(* its packet, or gives up and unlocks the bucket.                         *)
Moves(t, l, w) == Goto(t, l) /\ reg' = [reg EXCEPT ![t] = w]

ContinueShape(t, w) ==
  \/ \E l \in {"prune", "kill", "alloc"}, v \in RegRec :
       /\ Moves(t, l, v) /\ v.key = w.key /\ v.dir = w.dir /\ v.ts = w.ts
       /\ UNCHANGED bLock
  \/ GiveUp(t)

LEMMA ContinueMoves ==
  ASSUME NEW t \in Worker, NEW w \in RegRec, Continue(t, w)
  PROVE  ContinueShape(t, w)
<1> DEFINE c == w.cnt - w.got
<1>c. c \in Int /\ w.qi \in 1 .. NQueues /\ w.stage \in 0 .. 3
  BY DEF RegRec
<1>k. /\ (IF w.stage = 3 THEN "kill" ELSE "prune") \in {"prune", "kill", "alloc"}
      /\ (IF w.stage = 2 THEN "kill" ELSE "prune") \in {"prune", "kill", "alloc"}
  OBVIOUS
<1>d. TryRelease \in Int /\ DefaultPrune \in Int
  BY FlowEngineAssumption
<1>1. CASE /\ reg' = [reg EXCEPT ![t] = w]
           /\ Goto(t, IF w.stage = 3 THEN "kill" ELSE "prune")
           /\ UNCHANGED <<emerg, bLock>>
  BY <1>1, <1>k DEF ContinueShape, Moves
<1>2. CASE /\ w.qi < NQueues
           /\ reg' = [reg EXCEPT ![t] = [w EXCEPT !.f = NULL, !.qi = @ + 1, !.got = 0, !.cnt = c, !.try = c]]
           /\ Goto(t, IF w.stage = 3 THEN "kill" ELSE "prune")
           /\ UNCHANGED <<emerg, bLock>>
  <2> DEFINE v == [w EXCEPT !.f = NULL, !.qi = @ + 1, !.got = 0, !.cnt = c, !.try = c]
  <2>1. w.qi + 1 \in 1 .. NQueues
    BY <1>2, <1>c, NQueuesType
  <2>2. v \in RegRec
    BY <2>1, <1>c, RegType
  <2>3. v.key = w.key /\ v.dir = w.dir /\ v.ts = w.ts
    BY DEF RegRec
  <2> QED BY <1>2, <1>k, <2>2, <2>3 DEF ContinueShape, Moves
<1>3. CASE /\ w.stage < 3
           /\ reg' = [reg EXCEPT ![t] = StageOf(w, w.stage + 1, DefaultPrune)]
           /\ Goto(t, IF w.stage = 2 THEN "kill" ELSE "prune")
           /\ UNCHANGED bLock
  <2> DEFINE v == StageOf(w, w.stage + 1, DefaultPrune)
  <2>1. w.stage + 1 \in 0 .. 3
    BY <1>3, <1>c
  <2>2. v \in RegRec
    BY <2>1, <1>d, RegType
  <2>3. v.key = w.key /\ v.dir = w.dir /\ v.ts = w.ts
    BY DEF RegRec, StageOf
  <2> QED BY <1>3, <1>k, <2>2, <2>3 DEF ContinueShape, Moves
<1>4. CASE GiveUp(t)
  BY <1>4 DEF ContinueShape
<1>5. CASE /\ reg' = [reg EXCEPT ![t] = StageOf(w, 0, 0)]
           /\ Goto(t, "alloc")
           /\ UNCHANGED <<emerg, bLock>>
  <2>1. 0 \in 0 .. 3 /\ 0 \in Int
    OBVIOUS
  <2>2. StageOf(w, 0, 0) \in RegRec
    BY <2>1, RegType
  <2>3. /\ StageOf(w, 0, 0).key = w.key /\ StageOf(w, 0, 0).dir = w.dir
        /\ StageOf(w, 0, 0).ts = w.ts
    BY DEF RegRec, StageOf
  <2> QED BY <1>5, <2>2, <2>3 DEF ContinueShape, Moves
<1> QED BY <1>1, <1>2, <1>3, <1>4, <1>5 DEF Continue

LEMMA ContinueEmerg ==
  ASSUME NEW t \in Worker, NEW w \in RegRec, Continue(t, w), emerg \in BOOLEAN
  PROVE  emerg' \in BOOLEAN
  BY DEF Continue

(* FlowPrune returns to a worker's loop or to the manager's. *)
PruneShape(t) ==
  \/ t # Mgr /\ \E w \in RegRec : /\ w.key = reg[t].key /\ w.dir = reg[t].dir /\ w.ts = reg[t].ts
                                  /\ ContinueShape(t, w)
  \/ t = Mgr /\ UNCHANGED bLock /\ \E l \in {"prune", "m_recover"}, w \in RegRec :
       Moves(t, l, w) /\ w.ts = reg[t].ts

LEMMA PruneReturnMoves ==
  ASSUME TypeOK, NEW t \in Thread \ Streamer, NEW r \in {0, 1}, PruneReturn(t, r)
  PROVE  PruneShape(t) /\ emerg' \in BOOLEAN
<1>t. reg[t] \in RegRec
  BY DEF TypeOK
<1>1. CASE t # Mgr
  <2> DEFINE w == [reg[t] EXCEPT !.f = NULL, !.got = @ + r]
  <2>1. /\ w \in RegRec /\ w.key = reg[t].key /\ w.dir = reg[t].dir /\ w.ts = reg[t].ts
    BY <1>t, RegAfterPrune
  <2>2. t \in Worker /\ Continue(t, w)
    BY <1>1 DEF PruneReturn, Thread
  <2>3. ContinueShape(t, w) /\ emerg' \in BOOLEAN
    BY <2>1, <2>2, ContinueMoves, ContinueEmerg DEF TypeOK
  <2> QED BY <1>1, <2>1, <2>3 DEF PruneShape
<1>2. CASE t = Mgr
  <2>1. CASE reg' = [reg EXCEPT ![t].f = NULL] /\ Goto(t, "prune")
    <3> DEFINE w == [reg[t] EXCEPT !.f = NULL]
    <3>1. w \in RegRec /\ w.ts = reg[t].ts
      BY <1>t, RegType DEF RegRec
    <3>2. reg' = [reg EXCEPT ![t] = w]
      BY <2>1
    <3> QED BY <1>2, <2>1, <3>1, <3>2 DEF PruneReturn, PruneShape, Moves, TypeOK
  <2>2. CASE reg[t].qi < NQueues /\ reg' = [reg EXCEPT ![t].f = NULL, ![t].qi = @ + 1] /\ Goto(t, "prune")
    <3> DEFINE w == [reg[t] EXCEPT !.f = NULL, !.qi = @ + 1]
    <3>0. reg[t].qi + 1 \in 1 .. NQueues
      BY <1>t, <2>2, NQueuesType DEF RegRec
    <3>1. w \in RegRec /\ w.ts = reg[t].ts
      BY <1>t, <3>0, RegAfterPrune
    <3>2. reg' = [reg EXCEPT ![t] = w]
      BY <2>2, <1>t DEF TypeOK, RegRec
    <3> QED BY <1>2, <2>2, <3>1, <3>2 DEF PruneReturn, PruneShape, Moves, TypeOK
  <2>3. CASE reg' = [reg EXCEPT ![t].f = NULL, ![t].qi = 1] /\ Goto(t, "m_recover")
    <3> DEFINE w == [reg[t] EXCEPT !.f = NULL, !.qi = 1]
    <3>0. 1 \in 1 .. NQueues
      BY NQueuesType
    <3>1. w \in RegRec /\ w.ts = reg[t].ts
      BY <1>t, <3>0, RegAfterPrune
    <3>2. reg' = [reg EXCEPT ![t] = w]
      BY <2>3, <1>t DEF TypeOK, RegRec
    <3> QED BY <1>2, <2>3, <3>1, <3>2 DEF PruneReturn, PruneShape, Moves, TypeOK
  <2> QED BY <1>2, <2>1, <2>2, <2>3 DEF PruneReturn
<1> QED BY <1>1, <1>2

LEMMA MovesType ==
  ASSUME TypeOK, NEW t \in Thread, NEW l \in Label, NEW w \in RegRec, Moves(t, l, w)
  PROVE  pc' \in [Thread -> Label] /\ reg' \in [Thread -> RegRec]
  BY DEF TypeOK, Moves, Goto

LEMMA GiveUpType ==
  ASSUME TypeOK, NEW t \in Thread, GiveUp(t)
  PROVE  /\ Moves(t, "idle", NoReg)
         /\ pc' \in [Thread -> Label] /\ reg' \in [Thread -> RegRec]
         /\ bLock' \in [Bucket -> Thread \cup {NULL}]
  BY RegType, MovesType DEF GiveUp, BackToIdle, Moves, Label, TypeOK

LEMMA ContinueType ==
  ASSUME TypeOK, NEW t \in Worker, NEW w \in RegRec, ContinueShape(t, w)
  PROVE  /\ pc' \in [Thread -> Label] /\ reg' \in [Thread -> RegRec]
         /\ bLock' \in [Bucket -> Thread \cup {NULL}]
<1>t. t \in Thread
  BY DEF Thread
<1>1. CASE GiveUp(t)
  BY <1>1, <1>t, GiveUpType
<1>2. ASSUME NEW l \in {"prune", "kill", "alloc"}, NEW v \in RegRec, Moves(t, l, v), UNCHANGED bLock
      PROVE  /\ pc' \in [Thread -> Label] /\ reg' \in [Thread -> RegRec]
             /\ bLock' \in [Bucket -> Thread \cup {NULL}]
  <2>1. l \in Label
    BY DEF Label
  <2> QED BY <1>2, <2>1, <1>t, MovesType DEF TypeOK
<1> QED BY <1>1, <1>2 DEF ContinueShape

LEMMA PruneType ==
  ASSUME TypeOK, NEW t \in Thread \ Streamer, PruneShape(t)
  PROVE  /\ pc' \in [Thread -> Label] /\ reg' \in [Thread -> RegRec]
         /\ bLock' \in [Bucket -> Thread \cup {NULL}]
<1>1. CASE t # Mgr
  BY <1>1, ContinueType DEF PruneShape, Thread
<1>2. CASE t = Mgr
  <2>1. PICK l \in {"prune", "m_recover"}, w \in RegRec : Moves(t, l, w)
    BY <1>2 DEF PruneShape
  <2>2. l \in Label
    BY DEF Label
  <2> QED BY <1>2, <2>1, <2>2, MovesType DEF PruneShape, TypeOK
<1> QED BY <1>1, <1>2

(* The list updates keep the queues lists of flows. *)
LEMMA ListsType ==
  ASSUME TypeOK, NEW q, NEW f \in Flow
  PROVE  /\ Unlinked(q, f) \in [Queue -> Seq(Flow)]
         /\ Linked(q, f) \in [Queue -> Seq(Flow)]
         /\ Rotated(q, f) \in [Queue -> Seq(Flow)]
<1>1. CASE q \in Queue
  <2>1. Without(queue[q], f) \in Seq(Flow)
    BY <1>1, WithoutSeq DEF TypeOK
  <2>2. Append(queue[q], f) \in Seq(Flow) /\ Append(Without(queue[q], f), f) \in Seq(Flow)
    BY <1>1, <2>1 DEF TypeOK
  <2> QED BY <1>1, <2>1, <2>2 DEF TypeOK, Unlinked, Linked, Rotated
<1>2. CASE q \notin Queue
  <2>1. Unlinked(q, f) = queue /\ Linked(q, f) = queue /\ Rotated(q, f) = queue
    BY <1>2 DEF TypeOK, Unlinked, Linked, Rotated
  <2> QED BY <2>1 DEF TypeOK
<1> QED BY <1>1, <1>2

LEMMA SpareType ==
  ASSUME TypeOK, queue[Spare] # <<>>
  PROVE  SpareBot \in Flow /\ SpareTaken \in [Queue -> Seq(Flow)]
<1>1. Spare \in Queue /\ queue[Spare] \in Seq(Flow)
  BY DEF TypeOK, Queue
<1>2. Len(queue[Spare]) \in 1 .. Len(queue[Spare])
  BY <1>1
<1>3. SubSeq(queue[Spare], 1, Len(queue[Spare]) - 1) \in Seq(Flow)
  BY <1>1, <1>2
<1> QED BY <1>1, <1>2, <1>3 DEF SpareBot, SpareTaken, TypeOK

LEMMA InitType == Init => TypeInv
<1> SUFFICES ASSUME Init PROVE TypeInv
  OBVIOUS
<1>1. queue \in [Queue -> Seq(Flow)]
  <2>0. PICK S \in SUBSET Flow : \E s \in [1 .. Prealloc -> S] :
          queue = [q \in Queue |-> IF q = Spare THEN s ELSE <<>>]
    BY DEF Init
  <2>1. PICK s \in [1 .. Prealloc -> S] : queue = [q \in Queue |-> IF q = Spare THEN s ELSE <<>>]
    BY <2>0
  <2>2. s \in Seq(Flow)
    BY FlowEngineAssumption
  <2> QED BY <2>1, <2>2
<1>2. alloced \subseteq Flow /\ memuse \in Int
  BY FlowEngineAssumption DEF Init
<1>3. fl \in [Flow -> FlowRec]
  BY DEF Init, FlowRec, Blank, Dir, State
<1>4. pc \in [Thread -> Label] /\ reg \in [Thread -> RegRec]
  BY RegType DEF Init, Label
<1>8. /\ qLock \in [Queue -> Thread \cup {NULL}]
      /\ bLock \in [Bucket -> Thread \cup {NULL}]
      /\ fLock \in [Flow -> Thread \cup {NULL}]
      /\ fb \in [Flow -> Bucket \cup {NULL}]
      /\ use_cnt \in [Flow -> Int] /\ refs \in [Flow -> Int]
  BY DEF Init
<1>9. emerg \in BOOLEAN /\ mgrEmerg \in BOOLEAN /\ now \in Nat /\ npkts \in Nat
  BY DEF Init
<1>5. TypeOK
  BY <1>1, <1>2, <1>3, <1>4, <1>8, <1>9 DEF TypeOK
<1>6. HasFlow
  BY DEF Init, HasFlow, HoldsFlow
<1>7. KillHolds
  BY FlowEngineAssumption DEF Init, KillHolds, Thread
<1>10. HasKey
  BY FlowEngineAssumption DEF Init, HasKey, Thread
<1> QED BY <1>5, <1>6, <1>7, <1>10 DEF TypeInv

(* Every step of a thread keeps the types. *)
LEMMA LookupTypeStep ==
  ASSUME TypeInv, NEW t \in Worker,
         Arrive(t) \/ LockBucket(t) \/ LockFlow(t) \/ GetNew(t) \/ CheckMemcap(t)
  PROVE  TypeOK'
<1>t. t \in Thread /\ TypeOK /\ reg[t] \in RegRec
  BY DEF Thread, TypeInv, TypeOK
<1>1. CASE Arrive(t)
  <2>1. PICK k \in Key, d \in Dir :
          reg' = [reg EXCEPT ![t] = [NoReg EXCEPT !.key = k, !.dir = d, !.ts = now]]
    BY <1>1 DEF Arrive
  <2>2. [NoReg EXCEPT !.key = k, !.dir = d, !.ts = now] \in RegRec
    <3>1. \A w \in RegRec : [w EXCEPT !.key = k, !.dir = d, !.ts = now] \in RegRec
      BY <1>t DEF RegRec, TypeOK
    <3> QED BY <3>1, RegType
  <2>3. reg' \in [Thread -> RegRec]
    BY <2>1, <2>2, <1>t DEF TypeOK
  <2>6. npkts' = npkts + 1 /\ Goto(t, "bucket")
    BY <1>1 DEF Arrive
  <2>4. pc' \in [Thread -> Label] /\ npkts' \in Nat
    BY <2>6, <1>t DEF TypeOK, Goto, Label
  <2>5. UNCHANGED <<heapVars, queue, lockVars, fb, fl, use_cnt, refs, emerg, mgrEmerg, now>>
    BY <1>1 DEF Arrive
  <2> QED BY <1>t, <2>3, <2>4, <2>5 DEF TypeOK, heapVars, lockVars
<1>2. CASE LockBucket(t)
  <2>1. ASSUME NEW f \in Flow, use_cnt' = IncrUsecnt(f), reg' = [reg EXCEPT ![t].f = f]
        PROVE  use_cnt' \in [Flow -> Int] /\ reg' \in [Thread -> RegRec]
    <3>1. [reg[t] EXCEPT !.f = f] \in RegRec
      BY <1>t, RegType
    <3>2. reg' = [reg EXCEPT ![t] = [reg[t] EXCEPT !.f = f]]
      BY <2>1
    <3> QED BY <2>1, <1>t, <3>1, <3>2 DEF IncrUsecnt, TypeOK
  <2>2. use_cnt' \in [Flow -> Int] /\ reg' \in [Thread -> RegRec]
    BY <1>2, <1>t, <2>1 DEF LockBucket, Match, InChain, TypeOK
  <2>3. pc' \in [Thread -> Label]
    BY <1>2, <1>t DEF LockBucket, TypeOK, Goto, Label
  <2> QED BY <1>2, <1>t, <2>2, <2>3 DEF LockBucket, TypeOK, heapVars, envVars
<1>3. CASE LockFlow(t)
  BY <1>3, <1>t DEF LockFlow, TypeOK, Goto, Label, heapVars, envVars
<1>4. CASE GetNew(t)
  <2>1. CASE queue[Spare] # <<>>
    <3>1. [reg[t] EXCEPT !.f = SpareBot] \in RegRec
      BY <1>t, <2>1, SpareType, RegType
    <3>2. reg' = [reg EXCEPT ![t] = [reg[t] EXCEPT !.f = SpareBot]]
      BY <1>4, <2>1 DEF GetNew
    <3>3. reg' \in [Thread -> RegRec]
      BY <1>t, <3>1, <3>2 DEF TypeOK
    <3>4. queue' \in [Queue -> Seq(Flow)] /\ pc' \in [Thread -> Label]
      BY <1>4, <1>t, <2>1, SpareType DEF GetNew, TypeOK, Goto, Label
    <3> QED BY <1>4, <1>t, <3>3, <3>4 DEF GetNew, TypeOK, heapVars, lockVars, envVars
  <2>2. CASE queue[Spare] = <<>>
    BY <1>4, <1>t, <2>2 DEF GetNew, TypeOK, Goto, Label, heapVars, lockVars, envVars
  <2> QED BY <2>1, <2>2
<1>5. CASE CheckMemcap(t)
  <2>1. CASE Continue(t, StageOf(reg[t], 1, TryRelease))
    <3>1. 1 \in 0 .. 3 /\ TryRelease \in Int
      BY FlowEngineAssumption
    <3>2. StageOf(reg[t], 1, TryRelease) \in RegRec
      BY <1>t, <3>1, RegType
    <3>3. ContinueShape(t, StageOf(reg[t], 1, TryRelease)) /\ emerg' \in BOOLEAN
      BY <2>1, <3>2, <1>t, ContinueMoves, ContinueEmerg DEF TypeOK
    <3>4. /\ pc' \in [Thread -> Label] /\ reg' \in [Thread -> RegRec]
          /\ bLock' \in [Bucket -> Thread \cup {NULL}]
      BY <3>2, <3>3, <1>t, ContinueType
    <3> QED BY <1>5, <1>t, <3>3, <3>4 DEF CheckMemcap, TypeOK, heapVars, envVars
  <2>2. CASE Goto(t, "alloc") /\ UNCHANGED <<reg, emerg, bLock>>
    BY <1>5, <1>t, <2>2 DEF CheckMemcap, TypeOK, Goto, Label, heapVars, envVars
  <2> QED BY <1>5, <2>1, <2>2 DEF CheckMemcap
<1> QED BY <1>1, <1>2, <1>3, <1>4, <1>5

LEMMA NewFlowTypeStep ==
  ASSUME TypeInv, NEW t \in Worker \cup Streamer,
         (t \in Worker /\ InsertNew(t)) \/ Handle(t) \/ Relink(t)
  PROVE  TypeOK'
<1> DEFINE f == reg[t].f
<1>t. t \in Thread /\ TypeOK /\ reg[t] \in RegRec /\ f \in Flow
  BY DEF Thread, TypeInv, TypeOK, HasFlow, HoldsFlow, InsertNew, Handle, Relink
<1>f. fl[f] \in FlowRec /\ reg[t].key \in Key \cup {NULL} /\ reg[t].dir \in Dir /\ reg[t].ts \in Nat
  BY <1>t DEF TypeOK, RegRec
<1>1. CASE t \in Worker /\ InsertNew(t)
  <2> DEFINE k == reg[t].key
  <2>1. [fl[f] EXCEPT !.key = k, !.dir = reg[t].dir, !.lst = "new"] \in FlowRec
    BY <1>f DEF FlowRec, State
  <2>2. fl' \in [Flow -> FlowRec] /\ use_cnt' \in [Flow -> Int] /\ pc' \in [Thread -> Label]
    BY <1>1, <1>t, <2>1 DEF InsertNew, TypeOK, IncrUsecnt, Goto, Label
  <2>3. queue' \in [Queue -> Seq(Flow)]
    BY <1>1, <1>t, ListsType DEF InsertNew
  <2>4. fb' \in [Flow -> Bucket \cup {NULL}]
    <3>1. k \in Key /\ HashOf[k] \in Bucket
      BY <1>1, FlowEngineAssumption DEF InsertNew, TypeInv, HasKey
    <3> QED BY <1>1, <1>t, <3>1 DEF InsertNew, TypeOK
  <2>5. fLock' \in [Flow -> Thread \cup {NULL}] /\ bLock' \in [Bucket -> Thread \cup {NULL}]
    BY <1>1, <1>t DEF InsertNew, TypeOK
  <2> QED BY <1>1, <1>t, <2>2, <2>3, <2>4, <2>5 DEF InsertNew, TypeOK, heapVars, envVars
<1>2. CASE Handle(t)
  <2> DEFINE r == Touched(t)
             q == QueueOf(f)
  <2>1. r \in FlowRec
    BY <1>f DEF Touched, Counted, FlowRec
  <2>2. NextList(r) \in State \cup {"none"}
    BY <2>1 DEF NextList, FlowRec, State
  <2>3. [r EXCEPT !.lst = NextList(r)] \in FlowRec
    BY <2>1, <2>2 DEF FlowRec
  <2>4. CASE /\ queue' = Rotated(q, f) /\ fl' = [fl EXCEPT ![f] = r] /\ DoneWithFlow(t, f)
    <3>1. pc' \in [Thread -> Label] /\ reg' \in [Thread -> RegRec]
      BY <2>4, <1>t, RegType DEF DoneWithFlow, BackToIdle, Goto, Label, TypeOK
    <3>2. fLock' \in [Flow -> Thread \cup {NULL}] /\ refs' \in [Flow -> Int]
      BY <2>4, <1>t DEF DoneWithFlow, Unlocked, TypeOK
    <3>3. queue' \in [Queue -> Seq(Flow)] /\ fl' \in [Flow -> FlowRec]
      BY <2>4, <2>1, <1>t, ListsType DEF TypeOK
    <3> QED BY <1>2, <1>t, <3>1, <3>2, <3>3 DEF Handle, TypeOK, heapVars, envVars
  <2>5. CASE /\ queue' = Unlinked(q, f) /\ fl' = [fl EXCEPT ![f] = [r EXCEPT !.lst = NextList(r)]]
             /\ Goto(t, "relink") /\ UNCHANGED <<reg, fLock, refs>>
    <3>1. pc' \in [Thread -> Label]
      BY <2>5, <1>t DEF Goto, Label, TypeOK
    <3>2. queue' \in [Queue -> Seq(Flow)] /\ fl' \in [Flow -> FlowRec]
      BY <2>5, <2>3, <1>t, ListsType DEF TypeOK
    <3> QED BY <1>2, <1>t, <2>5, <3>1, <3>2 DEF Handle, TypeOK, heapVars, envVars
  <2> QED BY <1>2, <2>4, <2>5 DEF Handle
<1>3. CASE Relink(t)
  <2>1. pc' \in [Thread -> Label] /\ reg' \in [Thread -> RegRec]
    BY <1>3, <1>t, RegType DEF Relink, DoneWithFlow, BackToIdle, Goto, Label, TypeOK
  <2>2. fLock' \in [Flow -> Thread \cup {NULL}] /\ refs' \in [Flow -> Int]
    BY <1>3, <1>t DEF Relink, DoneWithFlow, Unlocked, TypeOK
  <2>3. queue' \in [Queue -> Seq(Flow)]
    BY <1>3, <1>t, ListsType DEF Relink
  <2> QED BY <1>3, <1>t, <2>1, <2>2, <2>3 DEF Relink, TypeOK, heapVars, envVars
<1> QED BY <1>1, <1>2, <1>3

LEMMA AllocTypeStep ==
  ASSUME TypeInv, NEW t \in Thread, AllocCheck(t) \/ AllocAdd(t) \/ AllocMem(t)
  PROVE  TypeOK'
<1>t. TypeOK /\ reg[t] \in RegRec
  BY DEF TypeInv, TypeOK
<1>f. ASSUME AllocFailed(t)
      PROVE  /\ pc' \in [Thread -> Label] /\ reg' \in [Thread -> RegRec]
             /\ bLock' \in [Bucket -> Thread \cup {NULL}]
  <2>1. CASE GiveUp(t)
    BY <2>1, <1>t, GiveUpType
  <2>2. CASE Goto(t, "prune") /\ reg' = [reg EXCEPT ![t].qi = 1] /\ UNCHANGED bLock
    <3>1. [reg[t] EXCEPT !.qi = 1] \in RegRec
      BY <1>t, NQueuesType DEF RegRec
    <3>2. reg' = [reg EXCEPT ![t] = [reg[t] EXCEPT !.qi = 1]]
      BY <2>2
    <3> QED BY <2>2, <3>1, <3>2, <1>t DEF TypeOK, Goto, Label
  <2> QED BY <1>f, <2>1, <2>2 DEF AllocFailed
<1>1. CASE AllocCheck(t)
  <2>1. CASE AllocFailed(t)
    BY <1>1, <1>t, <2>1, <1>f DEF AllocCheck, TypeOK, heapVars, envVars
  <2>2. CASE Goto(t, "alloc_add") /\ UNCHANGED <<reg, bLock>>
    BY <1>1, <1>t, <2>2 DEF AllocCheck, TypeOK, Goto, Label, heapVars, envVars
  <2> QED BY <1>1, <2>1, <2>2 DEF AllocCheck
<1>2. CASE AllocAdd(t)
  BY <1>2, <1>t DEF AllocAdd, TypeOK, Goto, Label, lockVars, envVars
<1>3. CASE AllocMem(t)
  <2>1. CASE memuse' = GivenBack /\ AllocFailed(t) /\ UNCHANGED <<alloced, fl, fb, use_cnt, fLock>>
    BY <1>3, <1>t, <2>1, <1>f DEF AllocMem, GivenBack, TypeOK, envVars
  <2>2. ASSUME NEW f \in Flow,
               /\ alloced' = alloced \cup {f}
               /\ fl' = [fl EXCEPT ![f] = Blank]
               /\ fb' = [fb EXCEPT ![f] = NULL]
               /\ use_cnt' = [use_cnt EXCEPT ![f] = 0]
               /\ fLock' = Unlocked(f)
               /\ reg' = [reg EXCEPT ![t].f = f]
               /\ Goto(t, IF t = Mgr THEN "m_enq" ELSE "got")
               /\ UNCHANGED <<memuse, bLock>>
        PROVE  TypeOK'
    <3>1. [reg[t] EXCEPT !.f = f] \in RegRec
      BY <1>t, RegType
    <3>2. reg' = [reg EXCEPT ![t] = [reg[t] EXCEPT !.f = f]]
      BY <2>2
    <3>3. reg' \in [Thread -> RegRec] /\ pc' \in [Thread -> Label]
      BY <2>2, <3>1, <3>2, <1>t DEF TypeOK, Goto, Label
    <3>4. Blank \in FlowRec
      BY DEF Blank, FlowRec, Dir, State
    <3>5. UNCHANGED <<queue, qLock, refs, emerg, mgrEmerg, envVars>>
      BY <1>3 DEF AllocMem
    <3>6. alloced' \subseteq Flow /\ fl' \in [Flow -> FlowRec]
      BY <2>2, <3>4, <1>t DEF TypeOK
    <3>7. /\ fb' \in [Flow -> Bucket \cup {NULL}] /\ use_cnt' \in [Flow -> Int]
          /\ fLock' \in [Flow -> Thread \cup {NULL}]
      BY <2>2, <1>t DEF TypeOK, Unlocked
    <3>8. /\ memuse' = memuse /\ bLock' = bLock /\ now' = now /\ npkts' = npkts
          /\ queue' = queue /\ qLock' = qLock /\ refs' = refs
          /\ emerg' = emerg /\ mgrEmerg' = mgrEmerg
      BY <2>2, <3>5 DEF envVars
    <3> QED BY <3>3, <3>6, <3>7, <3>8, <1>t DEF TypeOK
  <2> QED BY <1>3, <2>1, <2>2 DEF AllocMem
<1> QED BY <1>1, <1>2, <1>3

LEMMA PruneTypeStep ==
  ASSUME TypeInv, NEW t \in Thread \ Streamer, Prune(t)
  PROVE  TypeOK'
<1>t. TypeOK /\ reg[t] \in RegRec
  BY DEF TypeInv, TypeOK
<1>q. QueueAt(reg[t].qi) \in Queue
  BY <1>t, QueueAtType DEF RegRec
<1>r. Try(t) \in RegRec
  <2>1. reg[t].try - 1 \in Int
    BY <1>t DEF RegRec
  <2>2. [reg[t] EXCEPT !.try = @ - 1] \in RegRec
    BY <2>1, <1>t DEF RegRec
  <2> QED BY <1>t, <2>2 DEF Try
<1>p. ASSUME NEW r \in {0, 1}, PruneReturn(t, r)
      PROVE  /\ pc' \in [Thread -> Label] /\ reg' \in [Thread -> RegRec] /\ emerg' \in BOOLEAN
             /\ bLock' \in [Bucket -> Thread \cup {NULL}]
  BY <1>p, <1>t, PruneReturnMoves, PruneType
<1>1. CASE PruneTop(t)
  <2> DEFINE q == QueueAt(reg[t].qi)
  <2>1. CASE /\ queue[q] # <<>> /\ fLock' = [fLock EXCEPT ![queue[q][1]] = t]
             /\ reg' = [reg EXCEPT ![t] = [Try(t) EXCEPT !.f = queue[q][1]]]
             /\ Goto(t, "prune_fb") /\ UNCHANGED <<emerg, bLock>>
    <3>1. queue[q] \in Seq(Flow)
      BY <1>t, <1>q DEF TypeOK
    <3>2. queue[q][1] \in Flow
      BY <2>1, <3>1
    <3>3. [Try(t) EXCEPT !.f = queue[q][1]] \in RegRec
      BY <1>r, <3>2, RegType
    <3>4. reg' \in [Thread -> RegRec] /\ pc' \in [Thread -> Label]
      BY <2>1, <3>3, <1>t DEF TypeOK, Goto, Label
    <3>5. fLock' \in [Flow -> Thread \cup {NULL}]
      BY <2>1, <3>2, <1>t DEF TypeOK
    <3> QED BY <1>1, <2>1, <3>4, <3>5, <1>t DEF PruneTop, TypeOK, heapVars, envVars
  <2>2. CASE t = Mgr /\ PruneReturn(t, 0) /\ UNCHANGED fLock
    BY <1>1, <2>2, <1>p, <1>t DEF PruneTop, TypeOK, heapVars, envVars
  <2>3. CASE t # Mgr /\ Continue(t, Try(t)) /\ UNCHANGED fLock
    <3>1. t \in Worker
      BY <2>3 DEF Thread
    <3>2. ContinueShape(t, Try(t)) /\ emerg' \in BOOLEAN
      BY <2>3, <3>1, <1>r, <1>t, ContinueMoves, ContinueEmerg DEF TypeOK
    <3>3. /\ pc' \in [Thread -> Label] /\ reg' \in [Thread -> RegRec]
          /\ bLock' \in [Bucket -> Thread \cup {NULL}]
      BY <3>1, <3>2, <1>r, <1>t, ContinueType
    <3> QED BY <1>1, <2>3, <3>2, <3>3, <1>t DEF PruneTop, TypeOK, heapVars, envVars
  <2> QED BY <1>1, <2>1, <2>2, <2>3 DEF PruneTop
<1>2. CASE PruneCheck(t)
  <2>1. CASE PruneReturn(t, 0) /\ fLock' = Unlocked(reg[t].f) /\ UNCHANGED fb
    <3>1. fLock' \in [Flow -> Thread \cup {NULL}]
      BY <2>1, <1>t DEF TypeOK, Unlocked
    <3> QED BY <1>2, <2>1, <3>1, <1>p, <1>t DEF PruneCheck, TypeOK, heapVars, envVars
  <2>2. CASE /\ fb' = [fb EXCEPT ![reg[t].f] = NULL] /\ Goto(t, "prune_unlink")
             /\ UNCHANGED <<fLock, bLock, reg, emerg>>
    <3>1. fb' \in [Flow -> Bucket \cup {NULL}] /\ pc' \in [Thread -> Label]
      BY <2>2, <1>t DEF TypeOK, Goto, Label
    <3> QED BY <1>2, <2>2, <3>1, <1>t DEF PruneCheck, TypeOK, heapVars, envVars
  <2> QED BY <1>2, <2>1, <2>2 DEF PruneCheck
<1>3. CASE PruneUnlink(t)
  <2>1. reg[t].f \in Flow
    BY <1>3 DEF PruneUnlink, TypeInv, HasFlow, HoldsFlow
  <2>2. Blank \in FlowRec
    BY DEF Blank, FlowRec, Dir, State
  <2>5. fl' = [fl EXCEPT ![reg[t].f] = Blank] /\ use_cnt' = [use_cnt EXCEPT ![reg[t].f] = 0]
    BY <1>3 DEF PruneUnlink
  <2>6. pc' \in [Thread -> Label]
    BY <1>3, <1>t DEF PruneUnlink, TypeOK, Goto, Label
  <2>7. fl \in [Flow -> FlowRec] /\ use_cnt \in [Flow -> Int]
    BY <1>t DEF TypeOK
  <2>8. fl' \in [Flow -> FlowRec]
    BY <2>2, <2>5, <2>7
  <2>9. use_cnt' \in [Flow -> Int]
    <3>1. 0 \in Int
      OBVIOUS
    <3> QED BY <2>5, <2>7, <3>1
  <2>3. /\ fl' \in [Flow -> FlowRec] /\ use_cnt' \in [Flow -> Int] /\ pc' \in [Thread -> Label]
    BY <2>6, <2>8, <2>9
  <2>4. queue' \in [Queue -> Seq(Flow)]
    BY <1>3, <2>1, <1>t, ListsType DEF PruneUnlink
  <2> QED BY <1>3, <2>3, <2>4, <1>t DEF PruneUnlink, TypeOK, heapVars, lockVars, envVars
<1>4. CASE PruneSpare(t)
  <2>1. reg[t].f \in Flow
    BY <1>4 DEF PruneSpare, TypeInv, HasFlow, HoldsFlow
  <2>2. queue' \in [Queue -> Seq(Flow)] /\ pc' \in [Thread -> Label]
    BY <1>4, <2>1, <1>t, ListsType DEF PruneSpare, Goto, Label, TypeOK
  <2> QED BY <1>4, <2>2, <1>t DEF PruneSpare, TypeOK, heapVars, lockVars, envVars
<1>5. CASE PruneUnlock(t)
  <2>1. PruneReturn(t, 1) /\ fLock' \in [Flow -> Thread \cup {NULL}]
    BY <1>5, <1>t DEF PruneUnlock, TypeOK, Unlocked
  <2> QED BY <1>5, <2>1, <1>p, <1>t DEF PruneUnlock, TypeOK, heapVars, envVars
<1> QED BY <1>1, <1>2, <1>3, <1>4, <1>5 DEF Prune

LEMMA KillTypeStep ==
  ASSUME TypeInv, NEW t \in Worker, Kill(t)
  PROVE  TypeOK'
<1>t. t \in Thread /\ TypeOK /\ reg[t] \in RegRec
  BY DEF Thread, TypeInv, TypeOK
<1>q. QueueAt(reg[t].qi) \in Queue /\ queue[QueueAt(reg[t].qi)] \in Seq(Flow)
  BY <1>t, QueueAtType DEF RegRec, TypeOK
<1>r. Try(t) \in RegRec
  <2>1. reg[t].try - 1 \in Int
    BY <1>t DEF RegRec
  <2>2. [reg[t] EXCEPT !.try = @ - 1] \in RegRec
    BY <2>1, <1>t DEF RegRec
  <2> QED BY <1>t, <2>2 DEF Try
<1>c. ASSUME NEW w \in RegRec, Continue(t, w)
      PROVE  /\ pc' \in [Thread -> Label] /\ reg' \in [Thread -> RegRec] /\ emerg' \in BOOLEAN
             /\ bLock' \in [Bucket -> Thread \cup {NULL}]
  <2>1. ContinueShape(t, w) /\ emerg' \in BOOLEAN
    BY <1>c, <1>t, ContinueMoves, ContinueEmerg DEF TypeOK
  <2> QED BY <2>1, <1>t, ContinueType
<1>1. CASE KillStart(t)
  <2> DEFINE q == QueueAt(reg[t].qi)
  <2>1. CASE /\ queue[q] # <<>> /\ qLock' = [qLock EXCEPT ![q] = t]
             /\ reg' = [reg EXCEPT ![t] = [Try(t) EXCEPT !.f = queue[q][1]]]
             /\ Goto(t, "kill_walk") /\ UNCHANGED <<emerg, bLock>>
    <3>1. queue[q][1] \in Flow
      BY <2>1, <1>q
    <3>2. [Try(t) EXCEPT !.f = queue[q][1]] \in RegRec
      BY <1>r, <3>1, RegType
    <3>3. reg' \in [Thread -> RegRec] /\ pc' \in [Thread -> Label]
      BY <2>1, <3>2, <1>t DEF TypeOK, Goto, Label
    <3>4. qLock' \in [Queue -> Thread \cup {NULL}]
      BY <2>1, <1>t DEF TypeOK
    <3> QED BY <1>1, <2>1, <3>3, <3>4, <1>t DEF KillStart, TypeOK, heapVars, envVars
  <2>2. CASE Continue(t, Try(t)) /\ UNCHANGED qLock
    BY <1>1, <2>2, <1>c, <1>r, <1>t DEF KillStart, TypeOK, heapVars, envVars
  <2> QED BY <1>1, <2>1, <2>2 DEF KillStart
<1>2. CASE KillWalk(t)
  <2> DEFINE q == QueueAt(reg[t].qi)
             f == reg[t].f
  <2>1. CASE /\ fLock' = [fLock EXCEPT ![f] = t] /\ fb' = [fb EXCEPT ![f] = NULL]
             /\ fl' = [fl EXCEPT ![f] = Blank] /\ queue' = Unlinked(q, f)
             /\ Goto(t, "kill_spare") /\ UNCHANGED <<reg, qLock, emerg, bLock>>
    <3>1. f \in Flow
      BY <1>2 DEF KillWalk, TypeInv, HasFlow, HoldsFlow, Thread
    <3>2. Blank \in FlowRec
      BY DEF Blank, FlowRec, Dir, State
    <3>3. queue' \in [Queue -> Seq(Flow)]
      BY <2>1, <3>1, <1>t, ListsType
    <3>4. /\ fLock' \in [Flow -> Thread \cup {NULL}] /\ fb' \in [Flow -> Bucket \cup {NULL}]
          /\ fl' \in [Flow -> FlowRec] /\ pc' \in [Thread -> Label]
      BY <2>1, <3>2, <1>t DEF TypeOK, Goto, Label
    <3> QED BY <1>2, <2>1, <3>3, <3>4, <1>t DEF KillWalk, TypeOK, heapVars, envVars
  <2>2. CASE /\ After(q, f) # NULL /\ reg' = [reg EXCEPT ![t].f = After(q, f)]
             /\ UNCHANGED <<qLock, pc, emerg, bLock, fLock, fb, fl, queue>>
    <3>1. f \in Elems(queue[q])
      BY <1>2 DEF KillWalk, TypeInv, KillHolds
    <3>2. L!IndexIn(queue[q], f) \in 1 .. Len(queue[q])
      BY <3>1, <1>q DEF Elems, L!Elems, L!IndexIn
    <3>3. After(q, f) \in Flow
      BY <2>2, <3>2, <1>q DEF After
    <3>4. [reg[t] EXCEPT !.f = After(q, f)] \in RegRec
      BY <3>3, <1>t, RegType
    <3>5. reg' = [reg EXCEPT ![t] = [reg[t] EXCEPT !.f = After(q, f)]]
      BY <2>2
    <3> QED BY <1>2, <2>2, <3>4, <3>5, <1>t DEF KillWalk, TypeOK, heapVars, envVars
  <2>3. CASE /\ qLock' = [qLock EXCEPT ![q] = NULL] /\ Continue(t, [reg[t] EXCEPT !.f = NULL])
             /\ UNCHANGED <<fLock, fb, fl, queue>>
    <3>1. [reg[t] EXCEPT !.f = NULL] \in RegRec
      BY <1>t, RegType
    <3>2. qLock' \in [Queue -> Thread \cup {NULL}]
      BY <2>3, <1>t DEF TypeOK
    <3> QED BY <1>2, <2>3, <3>1, <3>2, <1>c, <1>t DEF KillWalk, TypeOK, heapVars, envVars
  <2> QED BY <1>2, <2>1, <2>2, <2>3 DEF KillWalk
<1>3. CASE KillSpare(t)
  <2>1. reg[t].f \in Flow
    BY <1>3 DEF KillSpare, TypeInv, HasFlow, HoldsFlow, Thread
  <2>2. queue' \in [Queue -> Seq(Flow)] /\ pc' \in [Thread -> Label]
    BY <1>3, <2>1, <1>t, ListsType DEF KillSpare, Goto, Label, TypeOK
  <2> QED BY <1>3, <2>2, <1>t DEF KillSpare, TypeOK, heapVars, lockVars, envVars
<1>4. CASE KillUnlock(t)
  <2>1. [reg[t] EXCEPT !.f = NULL, !.got = @ + 1] \in RegRec
    BY <1>t, RegAfterPrune
  <2>2. Continue(t, [reg[t] EXCEPT !.f = NULL, !.got = @ + 1])
    BY <1>4 DEF KillUnlock
  <2>3. fLock' \in [Flow -> Thread \cup {NULL}] /\ qLock' \in [Queue -> Thread \cup {NULL}]
    BY <1>4, <1>t DEF KillUnlock, TypeOK, Unlocked
  <2> QED BY <1>4, <2>1, <2>2, <2>3, <1>c, <1>t DEF KillUnlock, TypeOK, heapVars, envVars
<1> QED BY <1>1, <1>2, <1>3, <1>4 DEF Kill

LEMMA ManagerTypeStep ==
  ASSUME TypeInv, MgrWake \/ MgrEnqueue \/ MgrDequeue \/ MgrFree \/ MgrRecover \/ MgrClear
  PROVE  TypeOK'
<1>t. Mgr \in Thread /\ TypeOK /\ reg[Mgr] \in RegRec
  BY DEF Thread, TypeInv, TypeOK
<1>l. ASSUME NEW l \in {"alloc", "m_free"}, MgrLoop(l)
      PROVE  pc' \in [Thread -> Label] /\ reg' \in [Thread -> RegRec]
  <2> DEFINE w == [reg[Mgr] EXCEPT !.f = NULL, !.cnt = @ - 1]
  <2>1. reg[Mgr].cnt - 1 \in Int
    BY <1>t DEF RegRec
  <2>2. w \in RegRec
    BY <2>1, <1>t DEF RegRec
  <2>3. reg' = [reg EXCEPT ![Mgr] = w]
    BY <1>l, <1>t DEF MgrLoop, TypeOK, RegRec
  <2>4. pc' \in [Thread -> Label]
    BY <1>l, <1>t DEF MgrLoop, Goto, Label, TypeOK
  <2> QED BY <2>2, <2>3, <2>4, <1>t DEF TypeOK
<1>1. CASE MgrWake
  <2>1. PICK todo \in Int, l \in {"alloc", "m_free", "prune"} :
          reg' = [reg EXCEPT ![Mgr] = [NoReg EXCEPT !.ts = now, !.cnt = todo]] /\ Goto(Mgr, l)
    <3>1. Spare \in Queue /\ Len(queue[Spare]) \in Nat /\ Prealloc \in Nat
      BY <1>t, FlowEngineAssumption DEF TypeOK, Queue
    <3> DEFINE n == Len(queue[Spare])
               d == IF n < Prealloc THEN Prealloc - n ELSE n - Prealloc
    <3>2. d \in Int
      BY <3>1
    <3>3. /\ reg' = [reg EXCEPT ![Mgr] = [NoReg EXCEPT !.ts = now, !.cnt = d]]
          /\ Goto(Mgr, IF n < Prealloc THEN "alloc" ELSE IF n > Prealloc THEN "m_free" ELSE "prune")
      BY <1>1 DEF MgrWake
    <3>4. (IF n < Prealloc THEN "alloc" ELSE IF n > Prealloc THEN "m_free" ELSE "prune")
            \in {"alloc", "m_free", "prune"}
      OBVIOUS
    <3> HIDE DEF d, n
    <3> QED BY <3>2, <3>3, <3>4
  <2>2. [NoReg EXCEPT !.ts = now, !.cnt = todo] \in RegRec
    <3>1. \A w \in RegRec : [w EXCEPT !.ts = now, !.cnt = todo] \in RegRec
      BY <1>t DEF RegRec, TypeOK
    <3> QED BY <3>1, RegType
  <2>3. reg' \in [Thread -> RegRec] /\ pc' \in [Thread -> Label] /\ mgrEmerg' \in BOOLEAN
    BY <1>1, <2>1, <2>2, <1>t DEF MgrWake, Noted, TypeOK, Goto, Label
  <2> QED BY <1>1, <2>3, <1>t DEF MgrWake, TypeOK, heapVars, lockVars, envVars
<1>2. CASE MgrEnqueue
  <2>1. reg[Mgr].f \in Flow /\ Spare \in Queue
    BY <1>2, <1>t DEF MgrEnqueue, TypeInv, HasFlow, HoldsFlow, Queue
  <2>2. <<reg[Mgr].f>> \o queue[Spare] \in Seq(Flow)
    BY <2>1, <1>t DEF TypeOK
  <2>3. queue' \in [Queue -> Seq(Flow)]
    BY <1>2, <2>2, <1>t DEF MgrEnqueue, TypeOK
  <2>4. pc' \in [Thread -> Label] /\ reg' \in [Thread -> RegRec]
    BY <1>2, <1>l DEF MgrEnqueue
  <2> QED BY <1>2, <2>3, <2>4, <1>t DEF MgrEnqueue, TypeOK, heapVars, lockVars, envVars
<1>3. CASE MgrDequeue
  <2>1. CASE /\ queue[Spare] # <<>> /\ reg' = [reg EXCEPT ![Mgr].f = SpareBot]
             /\ queue' = SpareTaken /\ Goto(Mgr, "m_ff")
    <3>1. [reg[Mgr] EXCEPT !.f = SpareBot] \in RegRec
      BY <2>1, <1>t, SpareType, RegType
    <3>2. reg' = [reg EXCEPT ![Mgr] = [reg[Mgr] EXCEPT !.f = SpareBot]]
      BY <2>1
    <3>3. reg' \in [Thread -> RegRec] /\ pc' \in [Thread -> Label] /\ queue' \in [Queue -> Seq(Flow)]
      BY <2>1, <3>1, <3>2, <1>t, SpareType DEF TypeOK, Goto, Label
    <3> QED BY <1>3, <3>3, <1>t DEF MgrDequeue, TypeOK, heapVars, lockVars, envVars
  <2>2. CASE Goto(Mgr, "prune") /\ UNCHANGED <<queue, reg>>
    BY <1>3, <2>2, <1>t DEF MgrDequeue, TypeOK, Goto, Label, heapVars, lockVars, envVars
  <2> QED BY <1>3, <2>1, <2>2 DEF MgrDequeue
<1>4. CASE MgrFree
  <2>1. pc' \in [Thread -> Label] /\ reg' \in [Thread -> RegRec]
    BY <1>4, <1>l DEF MgrFree
  <2> QED BY <1>4, <2>1, <1>t DEF MgrFree, TypeOK, lockVars, envVars
<1>5. CASE MgrRecover
  <2>1. pc' \in [Thread -> Label] /\ reg' \in [Thread -> RegRec]
    BY <1>5, <1>t, RegType DEF MgrRecover, Goto, Label, TypeOK
  <2> QED BY <1>5, <2>1, <1>t DEF MgrRecover, TypeOK, heapVars, lockVars, envVars
<1>6. CASE MgrClear
  <2>1. pc' \in [Thread -> Label] /\ reg' \in [Thread -> RegRec]
    BY <1>6, <1>t, RegType DEF MgrClear, Goto, Label, TypeOK
  <2> QED BY <1>6, <2>1, <1>t DEF MgrClear, TypeOK, heapVars, lockVars, envVars
<1> QED BY <1>1, <1>2, <1>3, <1>4, <1>5, <1>6

LEMMA StreamTypeStep ==
  ASSUME TypeInv, NEW s \in Streamer, StreamLock(s) \/ StreamPacket(s)
  PROVE  TypeOK'
<1>t. s \in Thread /\ TypeOK /\ reg[s] \in RegRec
  BY DEF Thread, TypeInv, TypeOK
<1>1. CASE StreamLock(s)
  <2>1. PICK f \in Flow : /\ fLock' = [fLock EXCEPT ![f] = s]
                          /\ reg' = [reg EXCEPT ![s].f = f]
    BY <1>1 DEF StreamLock
  <2>2. [reg[s] EXCEPT !.f = f] \in RegRec
    BY <1>t DEF RegRec
  <2>3. reg' \in [Thread -> RegRec] /\ fLock' \in [Flow -> Thread \cup {NULL}]
    BY <2>1, <2>2, <1>t DEF TypeOK
  <2>4. pc' \in [Thread -> Label]
    BY <1>1, <1>t DEF StreamLock, Goto, Label, TypeOK
  <2> QED BY <1>1, <2>3, <2>4, <1>t DEF StreamLock, TypeOK, heapVars, envVars
<1>2. CASE StreamPacket(s)
  <2> DEFINE f == reg[s].f
  <2>1. CASE fLock' = Unlocked(f) /\ BackToIdle(s) /\ UNCHANGED fl
    <3>1. pc' \in [Thread -> Label] /\ reg' \in [Thread -> RegRec]
      BY <2>1, <1>t, RegType DEF BackToIdle, Goto, Label, TypeOK
    <3>2. fLock' \in [Flow -> Thread \cup {NULL}]
      BY <2>1, <1>t DEF Unlocked, TypeOK
    <3> QED BY <1>2, <2>1, <3>1, <3>2, <1>t DEF StreamPacket, TypeOK, heapVars, envVars
  <2>2. CASE /\ \E p \in NextSession(fl[f].pstate) : fl' = [fl EXCEPT ![f].pstate = p]
             /\ Goto(s, "handle") /\ UNCHANGED <<reg, fLock>>
    <3>1. PICK p \in NextSession(fl[f].pstate) : fl' = [fl EXCEPT ![f].pstate = p]
      BY <2>2
    <3>2. p \in State
      BY DEF NextSession, State
    <3>3. f \in Flow /\ fl[f] \in FlowRec
      BY <1>2, <1>t DEF StreamPacket, TypeInv, HasFlow, HoldsFlow, TypeOK
    <3>5. [fl[f] EXCEPT !.pstate = p] \in FlowRec
      BY <3>2, <3>3 DEF FlowRec
    <3>6. fl' \in [Flow -> FlowRec]
      BY <3>1, <3>3, <3>5, <1>t DEF TypeOK
    <3>4. pc' \in [Thread -> Label]
      BY <2>2, <1>t DEF Goto, Label, TypeOK
    <3> QED BY <1>2, <2>2, <3>6, <3>4, <1>t DEF StreamPacket, TypeOK, heapVars, envVars
  <2> QED BY <1>2, <2>1, <2>2 DEF StreamPacket
<1> QED BY <1>1, <1>2

LEMMA PipelineTypeStep ==
  ASSUME TypeInv, (\E f \in Flow : Output(f)) \/ Tick
  PROVE  TypeOK'
<1>t. TypeOK
  BY DEF TypeInv
<1>1. ASSUME NEW f \in Flow, Output(f) PROVE TypeOK'
  BY <1>1, <1>t DEF Output, DecrUsecnt, TypeOK, heapVars, lockVars, envVars
<1>2. CASE Tick
  BY <1>2, <1>t DEF Tick, TypeOK, heapVars, lockVars
<1> QED BY <1>1, <1>2

(* HasFlow, HasKey and KillHolds: what a move of one thread must satisfy.  *)
LEMMA MoveKeeps ==
  ASSUME TypeInv, NEW t \in Thread, NEW l, NEW w, Moves(t, l, w),
         l \in HoldsFlow => w.f \in Flow,
         t \in Worker /\ l # "idle" => w.key \in Key
  PROVE  HasFlow' /\ HasKey'
<1>1. ASSUME NEW u \in Thread
      PROVE  IF u = t THEN pc'[u] = l /\ reg'[u] = w ELSE pc'[u] = pc[u] /\ reg'[u] = reg[u]
  BY DEF Moves, Goto, TypeInv, TypeOK
<1> QED BY <1>1 DEF TypeInv, HasFlow, HasKey, Thread

KillLabel == {"kill_walk", "kill_spare", "kill_unlock"}

LEMMA KillKeeps ==
  ASSUME TypeInv, NEW t \in Thread, NEW l, NEW w, Moves(t, l, w), l \notin KillLabel,
         UNCHANGED qLock,
         \A q \in Queue \ {Spare} : qLock[q] # NULL => queue'[q] = queue[q]
  PROVE  KillHolds'
<1> SUFFICES ASSUME NEW u \in Worker, pc'[u] \in KillLabel
             PROVE  LET q == QueueAt(reg'[u].qi) IN
                    qLock'[q] = u /\ (pc'[u] = "kill_walk" => reg'[u].f \in Elems(queue'[q]))
  BY DEF KillHolds, KillLabel
<1>1. u # t /\ pc'[u] = pc[u] /\ reg'[u] = reg[u]
  BY DEF Moves, Goto, TypeInv, TypeOK, Thread
<1>2. reg[u].qi \in 1 .. NQueues
  BY DEF TypeInv, TypeOK, RegRec, Thread
<1> DEFINE q == QueueAt(reg[u].qi)
<1>3. q \in Queue \ {Spare}
  BY <1>2, QueueAtType
<1>4. qLock[q] = u /\ u # NULL
  BY <1>1, FlowEngineAssumption DEF TypeInv, KillHolds, KillLabel, Thread
<1>5. queue'[q] = queue[q]
  BY <1>3, <1>4
<1> QED BY <1>1, <1>4, <1>5 DEF TypeInv, KillHolds, KillLabel

(* The list updates touch no queue that is locked. *)
LEMMA ListsQuiet ==
  ASSUME TypeOK, NEW q, NEW f,
         \/ queue' = queue \/ queue' = SpareTaken
         \/ q = Spare \/ Free(q),
         \/ queue' = queue \/ queue' = SpareTaken
         \/ queue' = Unlinked(q, f) \/ queue' = Linked(q, f) \/ queue' = Rotated(q, f)
  PROVE  \A p \in Queue \ {Spare} : qLock[p] # NULL => queue'[p] = queue[p]
  BY DEF TypeOK, Free, Unlinked, Linked, Rotated, SpareTaken

LEMMA ContinueKeeps ==
  ASSUME TypeInv, NEW t \in Worker, NEW w \in RegRec, ContinueShape(t, w), w.key \in Key
  PROVE  /\ HasFlow' /\ HasKey'
         /\ \E l \in Label \ KillLabel, v \in RegRec : Moves(t, l, v)
<1>t. t \in Thread
  BY DEF Thread
<1>1. CASE GiveUp(t)
  <2>1. Moves(t, "idle", NoReg)
    BY <1>1, <1>t, GiveUpType DEF TypeInv
  <2>2. HasFlow' /\ HasKey'
    BY <2>1, <1>t, MoveKeeps DEF HoldsFlow
  <2> QED BY <2>1, <2>2, RegType DEF Label, KillLabel
<1>2. ASSUME NEW l \in {"prune", "kill", "alloc"}, NEW v \in RegRec, Moves(t, l, v), v.key = w.key
      PROVE  /\ HasFlow' /\ HasKey'
             /\ \E m \in Label \ KillLabel, x \in RegRec : Moves(t, m, x)
  <2>1. l \in Label \ KillLabel /\ l \notin HoldsFlow
    BY DEF Label, KillLabel, HoldsFlow
  <2>2. HasFlow' /\ HasKey'
    BY <1>2, <2>1, <1>t, MoveKeeps
  <2> QED BY <1>2, <2>1, <2>2
<1> QED BY <1>1, <1>2 DEF ContinueShape

LEMMA PruneKeeps ==
  ASSUME TypeInv, NEW t \in Thread \ Streamer, PruneShape(t), pc[t] # "idle"
  PROVE  /\ HasFlow' /\ HasKey'
         /\ \E l \in Label \ KillLabel, v \in RegRec : Moves(t, l, v)
<1>1. CASE t # Mgr
  <2>1. t \in Worker /\ reg[t].key \in Key
    BY <1>1 DEF Thread, TypeInv, HasKey
  <2> QED BY <1>1, <2>1, ContinueKeeps DEF PruneShape
<1>2. CASE t = Mgr
  <2>1. PICK l \in {"prune", "m_recover"}, w \in RegRec : Moves(t, l, w)
    BY <1>2 DEF PruneShape
  <2>2. l \in Label \ KillLabel /\ l \notin HoldsFlow /\ t \notin Worker
    BY <1>2, FlowEngineAssumption DEF Label, KillLabel, HoldsFlow
  <2>3. HasFlow' /\ HasKey'
    BY <2>1, <2>2, MoveKeeps
  <2> QED BY <2>1, <2>2, <2>3
<1> QED BY <1>1, <1>2

HoldInv == HasFlow /\ HasKey /\ KillHolds

LEMMA LookupHoldStep ==
  ASSUME TypeInv, NEW t \in Worker,
         Arrive(t) \/ LockBucket(t) \/ LockFlow(t) \/ GetNew(t) \/ CheckMemcap(t)
  PROVE  HoldInv'
<1>t. t \in Thread /\ reg[t] \in RegRec /\ (pc[t] # "idle" => reg[t].key \in Key)
  BY DEF Thread, TypeInv, TypeOK, HasKey
<1>r. \A w : reg' = [reg EXCEPT ![t] = w] => w = reg'[t]
  BY <1>t DEF TypeInv, TypeOK
<1>u. reg = [reg EXCEPT ![t] = reg[t]]
  BY DEF TypeInv, TypeOK
<1>1. CASE Arrive(t)
  <2>1. PICK k \in Key, d \in Dir :
          reg' = [reg EXCEPT ![t] = [NoReg EXCEPT !.key = k, !.dir = d, !.ts = now]]
    BY <1>1 DEF Arrive
  <2> DEFINE w == [NoReg EXCEPT !.key = k, !.dir = d, !.ts = now]
  <2>2. Moves(t, "bucket", w) /\ w.key \in Key
    BY <1>1, <2>1 DEF Arrive, Moves, NoReg
  <2>3. UNCHANGED <<queue, qLock>>
    BY <1>1 DEF Arrive, lockVars
  <2> HIDE DEF w
  <2> QED BY <2>2, <2>3, <1>t, MoveKeeps, KillKeeps DEF HoldInv, HoldsFlow, KillLabel
<1>2. CASE LockBucket(t)
  <2>1. CASE Goto(t, "getnew") /\ UNCHANGED <<reg, use_cnt>>
    <3>1. Moves(t, "getnew", reg[t])
      BY <2>1, <1>u DEF Moves
    <3> QED BY <1>2, <3>1, <1>t, MoveKeeps, KillKeeps DEF LockBucket, HoldInv, HoldsFlow, KillLabel
  <2>2. ASSUME NEW f \in Flow, reg' = [reg EXCEPT ![t].f = f], Goto(t, "lock")
        PROVE  HoldInv'
    <3> DEFINE w == [reg[t] EXCEPT !.f = f]
    <3>1. Moves(t, "lock", w) /\ w.f \in Flow /\ w.key = reg[t].key
      BY <2>2, <1>t DEF Moves, RegRec
    <3> HIDE DEF w
    <3> QED BY <1>2, <3>1, <1>t, MoveKeeps, KillKeeps DEF LockBucket, HoldInv, KillLabel
  <2> QED BY <1>2, <2>1, <2>2 DEF LockBucket, Match, InChain
<1>3. CASE LockFlow(t)
  <2>1. Moves(t, "handle", reg[t]) /\ reg[t].f \in Flow
    BY <1>3, <1>t, <1>u DEF LockFlow, Moves, TypeInv, HasFlow, HoldsFlow
  <2> QED BY <1>3, <2>1, <1>t, MoveKeeps, KillKeeps DEF LockFlow, HoldInv, KillLabel
<1>4. CASE GetNew(t)
  <2>q. ASSUME queue' = queue \/ queue' = SpareTaken
        PROVE  \A q \in Queue \ {Spare} : qLock[q] # NULL => queue'[q] = queue[q]
    BY <2>q, ListsQuiet DEF TypeInv
  <2>1. CASE /\ queue[Spare] # <<>> /\ reg' = [reg EXCEPT ![t].f = SpareBot]
             /\ queue' = SpareTaken /\ Goto(t, "got")
    <3> DEFINE w == [reg[t] EXCEPT !.f = SpareBot]
    <3>1. Moves(t, "got", w) /\ w.f = SpareBot /\ w.key = reg[t].key
      BY <2>1, <1>t DEF Moves, RegRec
    <3>2. SpareBot \in Flow
      BY <2>1, SpareType DEF TypeInv
    <3> HIDE DEF w
    <3> QED BY <1>4, <2>1, <2>q, <3>1, <3>2, <1>t, MoveKeeps, KillKeeps
            DEF GetNew, HoldInv, KillLabel, lockVars
  <2>2. CASE Goto(t, "cap") /\ UNCHANGED <<queue, reg>>
    <3>1. Moves(t, "cap", reg[t])
      BY <2>2, <1>u DEF Moves
    <3> QED BY <1>4, <2>2, <2>q, <3>1, <1>t, MoveKeeps, KillKeeps
            DEF GetNew, HoldInv, HoldsFlow, KillLabel, lockVars
  <2> QED BY <1>4, <2>1, <2>2 DEF GetNew
<1>5. CASE CheckMemcap(t)
  <2>1. CASE Continue(t, StageOf(reg[t], 1, TryRelease))
    <3> DEFINE w == StageOf(reg[t], 1, TryRelease)
    <3>1. 1 \in 0 .. 3 /\ TryRelease \in Int
      BY FlowEngineAssumption
    <3>2. w \in RegRec
      BY <1>t, <3>1, RegType
    <3>3. w.key = reg[t].key
      BY <1>t DEF StageOf, RegRec
    <3>4. w.key \in Key
      BY <1>5, <3>3, <1>t DEF CheckMemcap
    <3>5. ContinueShape(t, w)
      BY <2>1, <3>2, ContinueMoves
    <3>6. HasFlow' /\ HasKey' /\ \E l \in Label \ KillLabel, v \in RegRec : Moves(t, l, v)
      BY <3>2, <3>4, <3>5, ContinueKeeps
    <3> QED BY <1>5, <3>6, <1>t, KillKeeps DEF CheckMemcap, HoldInv
  <2>2. CASE Goto(t, "alloc") /\ UNCHANGED <<reg, emerg, bLock>>
    <3>1. Moves(t, "alloc", reg[t])
      BY <2>2, <1>u DEF Moves
    <3> QED BY <1>5, <2>2, <3>1, <1>t, MoveKeeps, KillKeeps
            DEF CheckMemcap, HoldInv, HoldsFlow, KillLabel
  <2> QED BY <1>5, <2>1, <2>2 DEF CheckMemcap
<1> QED BY <1>1, <1>2, <1>3, <1>4, <1>5

LEMMA NewFlowHoldStep ==
  ASSUME TypeInv, NEW t \in Worker \cup Streamer,
         (t \in Worker /\ InsertNew(t)) \/ Handle(t) \/ Relink(t)
  PROVE  HoldInv'
<1> DEFINE f == reg[t].f
<1>t. /\ t \in Thread /\ TypeOK /\ reg[t] \in RegRec /\ f \in Flow
      /\ t \in Worker => reg[t].key \in Key
  BY DEF Thread, TypeInv, TypeOK, HasFlow, HasKey, HoldsFlow, InsertNew, Handle, Relink
<1>u. reg = [reg EXCEPT ![t] = reg[t]]
  BY DEF TypeInv, TypeOK
<1>q. ASSUME NEW q, Free(q), queue' \in {Unlinked(q, f), Linked(q, f), Rotated(q, f)}
      PROVE  \A p \in Queue \ {Spare} : qLock[p] # NULL => queue'[p] = queue[p]
  BY <1>q, <1>t, ListsQuiet
<1>d. ASSUME DoneWithFlow(t, f) PROVE Moves(t, "idle", NoReg)
  BY <1>d DEF DoneWithFlow, BackToIdle, Moves
<1>1. CASE t \in Worker /\ InsertNew(t)
  <2>1. Moves(t, "handle", reg[t])
    BY <1>1, <1>u DEF InsertNew, Moves
  <2> QED BY <1>1, <2>1, <1>q, <1>t, MoveKeeps, KillKeeps DEF InsertNew, HoldInv, KillLabel
<1>2. CASE Handle(t)
  <2>1. \A p \in Queue \ {Spare} : qLock[p] # NULL => queue'[p] = queue[p]
    BY <1>2, <1>q DEF Handle
  <2>2. CASE DoneWithFlow(t, f)
    BY <1>2, <2>1, <2>2, <1>d, <1>t, MoveKeeps, KillKeeps DEF Handle, HoldInv, HoldsFlow, KillLabel
  <2>3. CASE Goto(t, "relink") /\ UNCHANGED <<reg, fLock, refs>>
    <3>1. Moves(t, "relink", reg[t])
      BY <2>3, <1>u DEF Moves
    <3> QED BY <1>2, <2>1, <3>1, <1>t, MoveKeeps, KillKeeps DEF Handle, HoldInv, KillLabel
  <2> QED BY <1>2, <2>2, <2>3 DEF Handle
<1>3. CASE Relink(t)
  BY <1>3, <1>q, <1>d, <1>t, MoveKeeps, KillKeeps DEF Relink, HoldInv, HoldsFlow, KillLabel
<1> QED BY <1>1, <1>2, <1>3

LEMMA AllocHoldStep ==
  ASSUME TypeInv, NEW t \in Thread, AllocCheck(t) \/ AllocAdd(t) \/ AllocMem(t)
  PROVE  HoldInv'
<1>t. reg[t] \in RegRec /\ pc[t] # "idle" /\ (t \in Worker => reg[t].key \in Key)
  BY DEF TypeInv, TypeOK, HasKey, AllocCheck, AllocAdd, AllocMem
<1>u. reg = [reg EXCEPT ![t] = reg[t]]
  BY DEF TypeInv, TypeOK
<1>q. UNCHANGED <<queue, qLock>>
  BY DEF AllocCheck, AllocAdd, AllocMem, lockVars
<1>f. ASSUME AllocFailed(t) PROVE HoldInv'
  <2>1. CASE GiveUp(t)
    BY <2>1, <1>q, GiveUpType, MoveKeeps, KillKeeps DEF HoldInv, HoldsFlow, KillLabel, TypeInv
  <2>2. CASE t = Mgr /\ Goto(t, "prune") /\ reg' = [reg EXCEPT ![t].qi = 1]
    <3>1. Moves(t, "prune", [reg[t] EXCEPT !.qi = 1]) /\ t \notin Worker
      BY <2>2, FlowEngineAssumption DEF Moves
    <3> QED BY <1>q, <3>1, MoveKeeps, KillKeeps DEF HoldInv, HoldsFlow, KillLabel
  <2> QED BY <1>f, <2>1, <2>2 DEF AllocFailed
<1>1. CASE AllocCheck(t)
  <2>1. CASE Goto(t, "alloc_add") /\ UNCHANGED <<reg, bLock>>
    <3>1. Moves(t, "alloc_add", reg[t])
      BY <2>1, <1>u DEF Moves
    <3> QED BY <1>q, <3>1, <1>t, MoveKeeps, KillKeeps DEF HoldInv, HoldsFlow, KillLabel
  <2> QED BY <1>1, <1>f, <2>1 DEF AllocCheck
<1>2. CASE AllocAdd(t)
  <2>1. Moves(t, "alloc_mem", reg[t])
    BY <1>2, <1>u DEF AllocAdd, Moves
  <2> QED BY <1>q, <2>1, <1>t, MoveKeeps, KillKeeps DEF HoldInv, HoldsFlow, KillLabel
<1>3. CASE AllocMem(t)
  <2>1. ASSUME NEW f \in Flow, reg' = [reg EXCEPT ![t].f = f],
               Goto(t, IF t = Mgr THEN "m_enq" ELSE "got")
        PROVE  HoldInv'
    <3> DEFINE w == [reg[t] EXCEPT !.f = f]
               l == IF t = Mgr THEN "m_enq" ELSE "got"
    <3>1. Moves(t, l, w) /\ w.f \in Flow /\ w.key = reg[t].key
      BY <2>1, <1>t DEF Moves, RegRec
    <3>2. l \notin KillLabel
      BY DEF KillLabel
    <3> HIDE DEF l, w
    <3> QED BY <1>q, <3>1, <3>2, <1>t, MoveKeeps, KillKeeps DEF HoldInv
  <2> QED BY <1>3, <1>f, <2>1 DEF AllocMem
<1> QED BY <1>1, <1>2, <1>3

LEMMA PruneHoldStep ==
  ASSUME TypeInv, NEW t \in Thread \ Streamer, Prune(t)
  PROVE  HoldInv'
<1> DEFINE q == QueueAt(reg[t].qi)
           f == reg[t].f
<1>t. /\ TypeOK /\ reg[t] \in RegRec /\ q \in Queue /\ queue[q] \in Seq(Flow)
      /\ (pc[t] # "idle" /\ t \in Worker => reg[t].key \in Key)
  BY QueueAtType DEF TypeInv, TypeOK, HasKey, RegRec
<1>u. reg = [reg EXCEPT ![t] = reg[t]]
  BY DEF TypeInv, TypeOK
<1>r. Try(t) \in RegRec /\ Try(t).key = reg[t].key
  <2>1. reg[t].try - 1 \in Int
    BY <1>t DEF RegRec
  <2>2. [reg[t] EXCEPT !.try = @ - 1] \in RegRec /\ [reg[t] EXCEPT !.try = @ - 1].key = reg[t].key
    BY <2>1, <1>t DEF RegRec
  <2> QED BY <1>t, <2>2 DEF Try
<1>p. ASSUME NEW r \in {0, 1}, PruneReturn(t, r), pc[t] # "idle", UNCHANGED <<queue, qLock>>
      PROVE  HoldInv'
  <2>1. PruneShape(t)
    BY <1>p, <1>t, PruneReturnMoves
  <2>2. HasFlow' /\ HasKey' /\ \E l \in Label \ KillLabel, v \in RegRec : Moves(t, l, v)
    BY <1>p, <2>1, PruneKeeps
  <2> QED BY <1>p, <2>2, KillKeeps DEF HoldInv
<1>1. CASE PruneTop(t)
  <2>0. UNCHANGED <<queue, qLock>> /\ pc[t] # "idle"
    BY <1>1 DEF PruneTop
  <2>1. CASE /\ queue[q] # <<>>
             /\ reg' = [reg EXCEPT ![t] = [Try(t) EXCEPT !.f = queue[q][1]]]
             /\ Goto(t, "prune_fb")
    <3> DEFINE w == [Try(t) EXCEPT !.f = queue[q][1]]
    <3>1. queue[q][1] \in Flow
      BY <2>1, <1>t
    <3>2. Moves(t, "prune_fb", w)
      BY <2>1 DEF Moves
    <3>3. w.f = queue[q][1] /\ w.key = reg[t].key
      BY <1>r DEF RegRec
    <3> HIDE DEF w
    <3> QED BY <2>0, <3>1, <3>2, <3>3, <1>t, MoveKeeps, KillKeeps DEF HoldInv, KillLabel
  <2>2. CASE t = Mgr /\ PruneReturn(t, 0)
    BY <2>0, <2>2, <1>p
  <2>3. CASE t # Mgr /\ Continue(t, Try(t))
    <3>1. t \in Worker
      BY <2>3 DEF Thread
    <3>2. ContinueShape(t, Try(t)) /\ Try(t).key \in Key
      BY <2>0, <2>3, <3>1, <1>r, <1>t, ContinueMoves
    <3>3. HasFlow' /\ HasKey' /\ \E l \in Label \ KillLabel, v \in RegRec : Moves(t, l, v)
      BY <3>1, <3>2, <1>r, ContinueKeeps
    <3> QED BY <2>0, <3>3, KillKeeps DEF HoldInv
  <2> QED BY <1>1, <2>1, <2>2, <2>3 DEF PruneTop
<1>2. CASE PruneCheck(t)
  <2>0. UNCHANGED <<queue, qLock>> /\ pc[t] # "idle" /\ f \in Flow
    BY <1>2 DEF PruneCheck, TypeInv, HasFlow, HoldsFlow
  <2>1. CASE PruneReturn(t, 0)
    BY <2>0, <2>1, <1>p
  <2>2. CASE Goto(t, "prune_unlink") /\ UNCHANGED <<fLock, bLock, reg, emerg>>
    <3>1. Moves(t, "prune_unlink", reg[t])
      BY <2>2, <1>u DEF Moves
    <3> QED BY <2>0, <3>1, <1>t, MoveKeeps, KillKeeps DEF HoldInv, KillLabel
  <2> QED BY <1>2, <2>1, <2>2 DEF PruneCheck
<1>3. CASE PruneUnlink(t)
  <2>1. Moves(t, "prune_spare", reg[t]) /\ f \in Flow /\ pc[t] # "idle" /\ UNCHANGED qLock
    BY <1>3, <1>u DEF PruneUnlink, Moves, TypeInv, HasFlow, HoldsFlow, lockVars
  <2>2. \A p \in Queue \ {Spare} : qLock[p] # NULL => queue'[p] = queue[p]
    BY <1>3, <1>t, ListsQuiet DEF PruneUnlink
  <2> QED BY <2>1, <2>2, <1>t, MoveKeeps, KillKeeps DEF HoldInv, KillLabel
<1>4. CASE PruneSpare(t)
  <2>1. Moves(t, "prune_unlock", reg[t]) /\ f \in Flow /\ pc[t] # "idle" /\ UNCHANGED qLock
    BY <1>4, <1>u DEF PruneSpare, Moves, TypeInv, HasFlow, HoldsFlow, lockVars
  <2>2. \A p \in Queue \ {Spare} : qLock[p] # NULL => queue'[p] = queue[p]
    BY <1>4, <1>t, ListsQuiet DEF PruneSpare
  <2> QED BY <2>1, <2>2, <1>t, MoveKeeps, KillKeeps DEF HoldInv, KillLabel
<1>5. CASE PruneUnlock(t)
  <2>1. PruneReturn(t, 1) /\ pc[t] # "idle" /\ UNCHANGED <<queue, qLock>>
    BY <1>5 DEF PruneUnlock
  <2> QED BY <2>1, <1>p
<1> QED BY <1>1, <1>2, <1>3, <1>4, <1>5 DEF Prune

(* FlowKill gets, walks and releases a queue; nobody else who walks one is *)
(* disturbed, since two threads never hold the same queue.                 *)
LEMMA OthersKill ==
  ASSUME TypeInv, NEW t \in Worker, NEW l, NEW w, Moves(t, l, w),
         NEW q \in Queue \ {Spare}, qLock[q] \in {t, NULL},
         NEW x \in {t, NULL}, qLock' = [qLock EXCEPT ![q] = x],
         \A p \in Queue \ {Spare, q} : queue'[p] = queue[p],
         l \in KillLabel => x = t /\ QueueAt(w.qi) = q,
         l = "kill_walk" => w.f \in Elems(queue'[q])
  PROVE  KillHolds'
<1> SUFFICES ASSUME NEW u \in Worker, pc'[u] \in KillLabel
             PROVE  LET p == QueueAt(reg'[u].qi) IN
                    qLock'[p] = u /\ (pc'[u] = "kill_walk" => reg'[u].f \in Elems(queue'[p]))
  BY DEF KillHolds, KillLabel
<1>1. CASE u = t
  <2>1. pc'[u] = l /\ reg'[u] = w
    BY <1>1 DEF Moves, Goto, TypeInv, TypeOK, Thread
  <2> QED BY <1>1, <2>1 DEF TypeInv, TypeOK
<1>2. CASE u # t
  <2> DEFINE p == QueueAt(reg[u].qi)
  <2>1. pc'[u] = pc[u] /\ reg'[u] = reg[u] /\ u \in Thread /\ reg[u].qi \in 1 .. NQueues
    BY <1>2 DEF Moves, Goto, TypeInv, TypeOK, RegRec, Thread
  <2>2. p \in Queue \ {Spare}
    BY <2>1, QueueAtType
  <2>3. qLock[p] = u /\ (pc[u] = "kill_walk" => reg[u].f \in Elems(queue[p]))
    BY <2>1 DEF TypeInv, KillHolds, KillLabel
  <2>4. p # q
    BY <1>2, <2>1, <2>3, FlowEngineAssumption
  <2> QED BY <2>1, <2>2, <2>3, <2>4 DEF TypeInv, TypeOK
<1> QED BY <1>1, <1>2

LEMMA KillReleases ==
  ASSUME TypeInv, NEW t \in Worker, NEW q \in Queue \ {Spare}, qLock[q] = t,
         qLock' = [qLock EXCEPT ![q] = NULL], UNCHANGED queue,
         \E l \in Label \ KillLabel, v \in RegRec : Moves(t, l, v)
  PROVE  KillHolds'
<1>1. PICK l \in Label \ KillLabel, v \in RegRec : Moves(t, l, v)
  OBVIOUS
<1>2. l # "kill_walk" /\ l \notin KillLabel
  BY <1>1 DEF KillLabel
<1>3. qLock[q] \in {t, NULL} /\ NULL \in {t, NULL}
  OBVIOUS
<1>4. \A p \in Queue \ {Spare, q} : queue'[p] = queue[p]
  OBVIOUS
<1>5. /\ l \in KillLabel => NULL = t /\ QueueAt(v.qi) = q
      /\ l = "kill_walk" => v.f \in Elems(queue'[q])
  BY <1>2
<1> QED BY <1>1, <1>3, <1>4, <1>5, OthersKill

LEMMA KillHoldStep ==
  ASSUME TypeInv, NEW t \in Worker, Kill(t)
  PROVE  HoldInv'
<1> DEFINE q == QueueAt(reg[t].qi)
           f == reg[t].f
<1>t. t \in Thread /\ TypeOK /\ reg[t] \in RegRec /\ reg[t].key \in Key /\ reg[t].f \in Flow \cup {NULL}
  BY DEF Thread, TypeInv, TypeOK, HasKey, RegRec, Kill, KillStart, KillWalk, KillSpare, KillUnlock
<1>q. q \in Queue \ {Spare} /\ queue[q] \in Seq(Flow)
  BY <1>t, QueueAtType DEF RegRec, TypeOK
<1>u. reg = [reg EXCEPT ![t] = reg[t]] /\ qLock = [qLock EXCEPT ![q] = qLock[q]]
  BY <1>t, <1>q DEF TypeOK
<1>r. Try(t) \in RegRec /\ Try(t).key = reg[t].key /\ Try(t).qi = reg[t].qi
  <2>1. reg[t].try - 1 \in Int
    BY <1>t DEF RegRec
  <2>2. /\ [reg[t] EXCEPT !.try = @ - 1] \in RegRec /\ [reg[t] EXCEPT !.try = @ - 1].key = reg[t].key
        /\ [reg[t] EXCEPT !.try = @ - 1].qi = reg[t].qi
    BY <2>1, <1>t DEF RegRec
  <2> QED BY <1>t, <2>2 DEF Try
<1>c. ASSUME NEW w \in RegRec, w.key = reg[t].key, Continue(t, w)
      PROVE  HasFlow' /\ HasKey' /\ \E l \in Label \ KillLabel, v \in RegRec : Moves(t, l, v)
  <2>1. ContinueShape(t, w) /\ w.key \in Key
    BY <1>c, <1>t, ContinueMoves
  <2> QED BY <2>1, ContinueKeeps
<1>s. ASSUME NEW l \in {"kill_spare", "kill_unlock"}, Moves(t, l, reg[t]),
             qLock[q] = t, qLock' = [qLock EXCEPT ![q] = t],
             \A p \in Queue \ {Spare, q} : queue'[p] = queue[p]
      PROVE  KillHolds'
  <2>1. l # "kill_walk" /\ t \in {t, NULL} /\ qLock[q] \in {t, NULL} /\ QueueAt(reg[t].qi) = q
    BY <1>s
  <2> HIDE DEF q
  <2> QED BY <1>s, <2>1, <1>q, OthersKill
<1>1. CASE KillStart(t)
  <2>0. UNCHANGED queue
    BY <1>1 DEF KillStart
  <2>1. CASE /\ Free(q) /\ queue[q] # <<>> /\ qLock' = [qLock EXCEPT ![q] = t]
             /\ reg' = [reg EXCEPT ![t] = [Try(t) EXCEPT !.f = queue[q][1]]]
             /\ Goto(t, "kill_walk")
    <3> DEFINE w == [Try(t) EXCEPT !.f = queue[q][1]]
    <3>1. queue[q][1] \in Flow /\ queue[q][1] \in Elems(queue[q])
      BY <2>1, <1>q DEF Elems, L!Elems
    <3>2. Moves(t, "kill_walk", w)
      BY <2>1 DEF Moves
    <3>3. w.f = queue[q][1] /\ w.key = reg[t].key /\ w.qi = reg[t].qi
      BY <1>r DEF RegRec
    <3> HIDE DEF w
    <3>4. HasFlow' /\ HasKey'
      BY <3>1, <3>2, <3>3, <1>t, MoveKeeps
    <3>5. KillHolds'
      BY <2>0, <2>1, <3>1, <3>2, <3>3, <1>q, OthersKill DEF Free
    <3> QED BY <3>4, <3>5 DEF HoldInv
  <2>2. CASE Continue(t, Try(t)) /\ UNCHANGED qLock
    <3>1. HasFlow' /\ HasKey' /\ \E l \in Label \ KillLabel, v \in RegRec : Moves(t, l, v)
      BY <2>2, <1>r, <1>c
    <3> QED BY <2>0, <2>2, <3>1, <1>t, KillKeeps DEF HoldInv
  <2> QED BY <1>1, <2>1, <2>2 DEF KillStart
<1>2. CASE KillWalk(t)
  <2>0. f \in Elems(queue[q]) /\ qLock[q] = t /\ f \in Flow
    BY <1>2, <1>t DEF KillWalk, TypeInv, KillHolds, HasFlow, HoldsFlow
  <2>1. CASE queue' = Unlinked(q, f) /\ Goto(t, "kill_spare") /\ UNCHANGED <<reg, qLock, emerg, bLock>>
    <3>1. Moves(t, "kill_spare", reg[t])
      BY <2>1, <1>u DEF Moves
    <3>2. HasFlow' /\ HasKey'
      BY <2>0, <3>1, <1>t, MoveKeeps
    <3>3. \A p \in Queue \ {Spare, q} : queue'[p] = queue[p]
      BY <2>1, <1>t DEF Unlinked, TypeOK
    <3>4. qLock' = [qLock EXCEPT ![q] = t]
      BY <2>0, <2>1, <1>u
    <3>5. KillHolds'
      BY <2>0, <3>1, <3>3, <3>4, <1>s
    <3> QED BY <3>2, <3>5 DEF HoldInv
  <2>2. CASE /\ After(q, f) # NULL /\ reg' = [reg EXCEPT ![t].f = After(q, f)]
             /\ UNCHANGED <<qLock, pc, emerg, bLock, fLock, fb, fl, queue>>
    <3> DEFINE w == [reg[t] EXCEPT !.f = After(q, f)]
    <3>1. L!IndexIn(queue[q], f) \in 1 .. Len(queue[q])
      BY <2>0, <1>q DEF Elems, L!Elems, L!IndexIn
    <3>2. After(q, f) \in Flow /\ After(q, f) \in Elems(queue[q])
      BY <2>2, <3>1, <1>q DEF After, Elems, L!Elems
    <3>3. Moves(t, "kill_walk", w)
      BY <1>2, <2>2, <1>t DEF KillWalk, Moves, Goto, TypeOK
    <3>4. w.f = After(q, f) /\ w.key = reg[t].key /\ w.qi = reg[t].qi
      BY <1>t DEF RegRec
    <3>5. qLock' = [qLock EXCEPT ![q] = t]
      BY <2>0, <2>2, <1>u
    <3> HIDE DEF w
    <3>6. HasFlow' /\ HasKey'
      BY <3>2, <3>3, <3>4, <1>t, MoveKeeps
    <3>7. w.f \in Elems(queue'[q]) /\ QueueAt(w.qi) = q
      BY <2>2, <3>2, <3>4
    <3>8. t \in {t, NULL} /\ qLock[q] \in {t, NULL} /\ \A p \in Queue \ {Spare, q} : queue'[p] = queue[p]
      BY <2>0, <2>2
    <3>9. KillHolds'
      BY <3>3, <3>5, <3>7, <3>8, <1>q, OthersKill
    <3> QED BY <3>6, <3>9 DEF HoldInv
  <2>3. CASE /\ qLock' = [qLock EXCEPT ![q] = NULL] /\ Continue(t, [reg[t] EXCEPT !.f = NULL])
             /\ UNCHANGED <<fLock, fb, fl, queue>>
    <3> DEFINE w == [reg[t] EXCEPT !.f = NULL]
    <3>1. w \in RegRec /\ w.key = reg[t].key
      BY <1>t, RegType DEF RegRec
    <3>2. HasFlow' /\ HasKey' /\ \E l \in Label \ KillLabel, v \in RegRec : Moves(t, l, v)
      BY <2>3, <3>1, <1>c
    <3>3. KillHolds'
      BY <2>0, <2>3, <3>2, <1>q, KillReleases
    <3> QED BY <3>2, <3>3 DEF HoldInv
  <2> QED BY <1>2, <2>1, <2>2, <2>3 DEF KillWalk
<1>3. CASE KillSpare(t)
  <2>1. Moves(t, "kill_unlock", reg[t]) /\ f \in Flow /\ qLock[q] = t /\ UNCHANGED qLock
    BY <1>3, <1>t, <1>u DEF KillSpare, Moves, TypeInv, HasFlow, KillHolds, HoldsFlow, lockVars
  <2>2. \A p \in Queue \ {Spare, q} : queue'[p] = queue[p]
    BY <1>3, <1>t DEF KillSpare, Linked, TypeOK
  <2>3. qLock' = [qLock EXCEPT ![q] = t]
    BY <2>1, <1>u
  <2>4. HasFlow' /\ HasKey'
    BY <2>1, <1>t, MoveKeeps
  <2>5. KillHolds'
    BY <2>1, <2>2, <2>3, <1>s
  <2> QED BY <2>4, <2>5 DEF HoldInv
<1>4. CASE KillUnlock(t)
  <2> DEFINE w == [reg[t] EXCEPT !.f = NULL, !.got = @ + 1]
  <2>1. w \in RegRec /\ w.key = reg[t].key
    BY <1>t, RegAfterPrune
  <2>2. Continue(t, w) /\ qLock' = [qLock EXCEPT ![q] = NULL] /\ qLock[q] = t /\ UNCHANGED queue
    BY <1>4 DEF KillUnlock, TypeInv, KillHolds
  <2>3. HasFlow' /\ HasKey' /\ \E l \in Label \ KillLabel, v \in RegRec : Moves(t, l, v)
    BY <2>1, <2>2, <1>c
  <2>4. KillHolds'
    BY <2>2, <2>3, <1>q, KillReleases
  <2> QED BY <2>3, <2>4 DEF HoldInv
<1> QED BY <1>1, <1>2, <1>3, <1>4 DEF Kill

(* The manager never runs FlowKill. *)
LEMMA ManagerHoldStep ==
  ASSUME TypeInv,
         MgrWake \/ MgrEnqueue \/ MgrDequeue \/ MgrFree \/ MgrRecover \/ MgrClear
  PROVE  HoldInv'
<1>t. TypeOK /\ Mgr \in Thread /\ Mgr \notin Worker /\ reg[Mgr] \in RegRec
  BY FlowEngineAssumption DEF TypeInv, TypeOK, Thread
<1>u. reg = [reg EXCEPT ![Mgr] = reg[Mgr]]
  BY DEF TypeInv, TypeOK
<1>m. ASSUME NEW l, NEW w, Moves(Mgr, l, w), l \notin KillLabel, UNCHANGED qLock,
             l \in HoldsFlow => w.f \in Flow,
             \A p \in Queue \ {Spare} : queue'[p] = queue[p]
      PROVE  HoldInv'
  BY <1>m, <1>t, MoveKeeps, KillKeeps DEF HoldInv
<1>l. ASSUME NEW l \in {"alloc", "m_free"}, MgrLoop(l), UNCHANGED qLock,
             \A p \in Queue \ {Spare} : queue'[p] = queue[p]
      PROVE  HoldInv'
  <2> DEFINE w == [reg[Mgr] EXCEPT !.f = NULL, !.cnt = @ - 1]
             m == IF reg[Mgr].cnt > 1 THEN l ELSE "prune"
  <2>1. Moves(Mgr, m, w)
    BY <1>l, <1>t DEF MgrLoop, Moves, TypeOK, RegRec
  <2>2. m \notin KillLabel /\ m \notin HoldsFlow
    BY DEF KillLabel, HoldsFlow
  <2> HIDE DEF w, m
  <2> QED BY <1>l, <2>1, <2>2, <1>m
<1>1. CASE MgrWake
  <2> DEFINE n == Len(queue[Spare])
             m == IF n < Prealloc THEN "alloc" ELSE IF n > Prealloc THEN "m_free" ELSE "prune"
  <2>1. \E w : Moves(Mgr, m, w)
    BY <1>1 DEF MgrWake, Moves
  <2>2. m \notin KillLabel /\ m \notin HoldsFlow
    BY DEF KillLabel, HoldsFlow
  <2>3. UNCHANGED <<queue, qLock>>
    BY <1>1 DEF MgrWake, lockVars
  <2> HIDE DEF m
  <2> QED BY <2>1, <2>2, <2>3, <1>m
<1>2. CASE MgrEnqueue
  BY <1>2, <1>t, <1>l DEF MgrEnqueue, lockVars, TypeOK
<1>3. CASE MgrDequeue
  <2>1. CASE /\ queue[Spare] # <<>> /\ reg' = [reg EXCEPT ![Mgr].f = SpareBot]
             /\ queue' = SpareTaken /\ Goto(Mgr, "m_ff")
    <3> DEFINE w == [reg[Mgr] EXCEPT !.f = SpareBot]
    <3>1. Moves(Mgr, "m_ff", w) /\ w.f = SpareBot
      BY <2>1, <1>t DEF Moves, RegRec
    <3>2. SpareBot \in Flow
      BY <2>1, <1>t, SpareType
    <3>3. \A p \in Queue \ {Spare} : queue'[p] = queue[p]
      BY <2>1, <1>t DEF SpareTaken, TypeOK
    <3>4. "m_ff" \notin KillLabel /\ UNCHANGED qLock
      BY <1>3 DEF KillLabel, MgrDequeue, lockVars
    <3> HIDE DEF w
    <3> QED BY <3>1, <3>2, <3>3, <3>4, <1>m
  <2>2. CASE Goto(Mgr, "prune") /\ UNCHANGED <<queue, reg>>
    <3>1. Moves(Mgr, "prune", reg[Mgr])
      BY <2>2, <1>u DEF Moves
    <3>2. "prune" \notin KillLabel /\ "prune" \notin HoldsFlow /\ UNCHANGED qLock
      BY <1>3 DEF KillLabel, HoldsFlow, MgrDequeue, lockVars
    <3> QED BY <2>2, <3>1, <3>2, <1>m
  <2> QED BY <1>3, <2>1, <2>2 DEF MgrDequeue
<1>4. CASE MgrFree
  BY <1>4, <1>l DEF MgrFree, lockVars
<1>s. ASSUME NEW l \in {"m_sleep", "m_clear"}, NEW w, Moves(Mgr, l, w), UNCHANGED <<queue, qLock>>
      PROVE  HoldInv'
  <2>1. l \notin KillLabel /\ l \notin HoldsFlow
    BY DEF KillLabel, HoldsFlow
  <2> QED BY <1>s, <2>1, <1>m
<1>5. CASE MgrRecover
  <2>1. UNCHANGED <<queue, qLock>>
    BY <1>5 DEF MgrRecover, lockVars
  <2>2. Moves(Mgr, "m_clear", reg[Mgr]) \/ Moves(Mgr, "m_sleep", NoReg)
    BY <1>5, <1>u DEF MgrRecover, Moves
  <2> QED BY <2>1, <2>2, <1>s
<1>6. CASE MgrClear
  <2>1. Moves(Mgr, "m_sleep", NoReg) /\ UNCHANGED <<queue, qLock>>
    BY <1>6 DEF MgrClear, Moves, lockVars
  <2> QED BY <2>1, <1>s
<1> QED BY <1>1, <1>2, <1>3, <1>4, <1>5, <1>6

LEMMA StreamHoldStep ==
  ASSUME TypeInv, NEW s \in Streamer, StreamLock(s) \/ StreamPacket(s)
  PROVE  HoldInv'
<1>t. s \in Thread /\ s \notin Worker /\ TypeOK /\ reg[s] \in RegRec
  BY FlowEngineAssumption DEF Thread, TypeInv, TypeOK
<1>q. UNCHANGED <<queue, qLock>>
  BY DEF StreamLock, StreamPacket
<1>m. ASSUME NEW l \in {"idle", "stream", "handle"}, NEW w, Moves(s, l, w),
             l # "idle" => w.f \in Flow
      PROVE  HoldInv'
  <2>1. HasFlow' /\ HasKey'
    BY <1>m, <1>t, MoveKeeps DEF HoldsFlow
  <2>2. KillHolds'
    BY <1>m, <1>q, <1>t, KillKeeps DEF KillLabel
  <2> QED BY <2>1, <2>2 DEF HoldInv
<1>1. CASE StreamLock(s)
  <2>1. PICK f \in Flow : reg' = [reg EXCEPT ![s].f = f]
    BY <1>1 DEF StreamLock
  <2>2. Moves(s, "stream", [reg[s] EXCEPT !.f = f])
    BY <1>1, <2>1 DEF StreamLock, Moves
  <2>3. [reg[s] EXCEPT !.f = f].f = f
    BY <1>t DEF RegRec
  <2> QED BY <2>2, <2>3, <1>m
<1>2. CASE StreamPacket(s)
  <2>1. CASE BackToIdle(s)
    BY <2>1, <1>m DEF BackToIdle, Moves
  <2>2. CASE Goto(s, "handle") /\ UNCHANGED reg
    <3>1. Moves(s, "handle", reg[s])
      BY <2>2, <1>t DEF Moves, TypeOK
    <3>2. reg[s].f \in Flow
      BY <1>2, <1>t DEF StreamPacket, TypeInv, HasFlow, HoldsFlow
    <3> QED BY <3>1, <3>2, <1>m
  <2> QED BY <1>2, <2>1, <2>2 DEF StreamPacket
<1> QED BY <1>1, <1>2

LEMMA PipelineHoldStep ==
  ASSUME TypeInv, (\E f \in Flow : Output(f)) \/ Tick
  PROVE  HoldInv'
<1>1. UNCHANGED <<pc, reg, queue, qLock>>
  BY DEF Output, Tick, lockVars
<1> QED BY <1>1 DEF TypeInv, HoldInv, HasFlow, HasKey, KillHolds

LEMMA TypeInvStep == TypeInv /\ [Next]_vars => TypeInv'
<1> SUFFICES ASSUME TypeInv, [Next]_vars PROVE TypeInv'
  OBVIOUS
<1>5. TypeOK' /\ HoldInv' => TypeInv'
  BY DEF TypeInv, HoldInv
<1>1. ASSUME NEW t \in Worker, Arrive(t) \/ WorkerStep(t) PROVE TypeOK' /\ HoldInv'
  <2>t. t \in Thread \ Streamer
    BY FlowEngineAssumption DEF Thread
  <2>1. CASE Arrive(t) \/ LockBucket(t) \/ LockFlow(t) \/ GetNew(t) \/ CheckMemcap(t)
    BY <2>1, LookupTypeStep, LookupHoldStep
  <2>2. CASE InsertNew(t) \/ Handle(t) \/ Relink(t)
    BY <2>2, NewFlowTypeStep, NewFlowHoldStep
  <2>3. CASE Alloc(t)
    BY <2>t, <2>3, AllocTypeStep, AllocHoldStep DEF Alloc
  <2>4. CASE Prune(t)
    BY <2>t, <2>4, PruneTypeStep, PruneHoldStep
  <2>5. CASE Kill(t)
    BY <2>5, KillTypeStep, KillHoldStep
  <2> QED BY <1>1, <2>1, <2>2, <2>3, <2>4, <2>5 DEF WorkerStep
<1>2. CASE MgrStep
  <2>t. Mgr \in Thread \ Streamer
    BY FlowEngineAssumption DEF Thread
  <2>1. CASE Alloc(Mgr)
    BY <2>t, <2>1, <1>5, AllocTypeStep, AllocHoldStep DEF Alloc
  <2>2. CASE Prune(Mgr)
    BY <2>t, <2>2, <1>5, PruneTypeStep, PruneHoldStep
  <2> QED BY <1>2, <1>5, <2>1, <2>2, ManagerTypeStep, ManagerHoldStep DEF MgrStep
<1>3. CASE (\E f \in Flow : Output(f)) \/ Tick
  BY <1>3, <1>5, PipelineTypeStep, PipelineHoldStep
<1>6. ASSUME NEW s \in Streamer, StreamLock(s) \/ StreamStep(s) PROVE TypeOK' /\ HoldInv'
  BY <1>6, StreamTypeStep, StreamHoldStep, NewFlowTypeStep, NewFlowHoldStep DEF StreamStep
<1>4. CASE UNCHANGED vars
  BY <1>4 DEF vars, TypeInv, TypeOK, HasFlow, HasKey, KillHolds
<1> QED BY <1>1, <1>2, <1>3, <1>4, <1>5, <1>6 DEF Next

(* Type correctness: every local and every list of every thread keeps its  *)
(* type; a thread that dereferences f in FlowPrune, FlowKill or after the  *)
(* lookup has a flow there, and the flow FlowKill stands on is in the list *)
(* it walks.                                                               *)
THEOREM TypeCorrect == Spec => []TypeOK
<1>1. Init => TypeInv
  BY InitType
<1>2. TypeInv /\ [Next]_vars => TypeInv'
  BY TypeInvStep
<1>3. TypeInv => TypeOK
  BY DEF TypeInv
<1> QED BY <1>1, <1>2, <1>3, PTL DEF Spec

(***************************************************************************)
(* One flow per connection.                                                *)
(***************************************************************************)

(* No flow enters the hash, or changes its identity while it is there. *)
NoNewHash ==
  \A f \in Flow : fb'[f] # NULL /\ fl'[f].key # NULL => fb'[f] = fb[f] /\ fl'[f].key = fl[f].key

LEMMA QuietHash ==
  ASSUME HashedByKey, OneFlowPerKey, NoNewHash
  PROVE  HashedByKey' /\ OneFlowPerKey'
  BY DEF HashedByKey, OneFlowPerKey, NoNewHash

(* A step of one thread: the others keep their buckets. *)
LEMMA BucketStep ==
  ASSUME TypeInv, BucketInv, NEW t \in Thread, NEW l, NEW v, Moves(t, l, v), NoNewHash,
         \A u \in Worker \ {t}, b \in Bucket : bLock[b] = u => bLock'[b] = u,
         t \in Worker /\ l \in Missed \cup {"lock"} => bLock'[HashOf[v.key]] = t,
         t \in Worker /\ l \in Missed =>
           \A f \in Flow : ~(fb'[f] = HashOf[v.key] /\ fl'[f].key = v.key)
  PROVE  BucketInv'
<1>1. ASSUME NEW u \in Thread
      PROVE  IF u = t THEN pc'[u] = l /\ reg'[u] = v ELSE pc'[u] = pc[u] /\ reg'[u] = reg[u]
  BY DEF Moves, Goto, TypeInv, TypeOK
<1>2. BucketHeld'
  <2> SUFFICES ASSUME NEW u \in Worker
               PROVE  LET b == HashOf[reg'[u].key] IN
                      /\ pc'[u] \in Missed \cup {"lock"} => bLock'[b] = u
                      /\ pc'[u] \in Missed =>
                           \A f \in Flow : ~(fb'[f] = b /\ fl'[f].key = reg'[u].key)
    BY DEF BucketHeld, Missed
  <2>t. u \in Thread
    BY DEF Thread
  <2>1. CASE u = t
    BY <1>1, <2>1
  <2>2. CASE u # t /\ pc[u] \in Missed \cup {"lock"}
    <3> DEFINE b == HashOf[reg[u].key]
    <3>1. pc'[u] = pc[u] /\ reg'[u] = reg[u]
      BY <1>1, <2>t, <2>2
    <3>2. reg[u].key \in Key /\ b \in Bucket
      BY <2>2, FlowEngineAssumption DEF Missed, TypeInv, HasKey
    <3>3. bLock'[b] = u
      BY <2>2, <3>2 DEF BucketInv, BucketHeld
    <3>4. ASSUME pc[u] \in Missed, NEW f \in Flow PROVE ~(fb'[f] = b /\ fl'[f].key = reg[u].key)
      <4>1. b # NULL /\ reg[u].key # NULL
        BY <3>2, FlowEngineAssumption
      <4>2. ~(fb[f] = b /\ fl[f].key = reg[u].key)
        BY <3>4 DEF BucketInv, BucketHeld
      <4> QED BY <4>1, <4>2 DEF NoNewHash
    <3> QED BY <3>1, <3>3, <3>4
  <2>3. CASE u # t /\ pc[u] \notin Missed \cup {"lock"}
    BY <1>1, <2>t, <2>3
  <2> QED BY <2>1, <2>2, <2>3
<1> QED BY <1>2, QuietHash DEF BucketInv

(* A thread that keeps its place, its packet and its bucket. *)
LEMMA BucketStay ==
  ASSUME TypeInv, BucketInv, NEW t \in Thread, NEW l, NEW v, Moves(t, l, v), NoNewHash,
         UNCHANGED bLock,
         t \in Worker /\ l \in Missed \cup {"lock"} => pc[t] \in Missed /\ v.key = reg[t].key
  PROVE  BucketInv'
<1>1. ASSUME t \in Worker, l \in Missed \cup {"lock"}
      PROVE  /\ bLock'[HashOf[v.key]] = t
             /\ \A f \in Flow : ~(fb'[f] = HashOf[v.key] /\ fl'[f].key = v.key)
  <2>1. pc[t] \in Missed /\ v.key = reg[t].key /\ v.key \in Key
    BY <1>1 DEF TypeInv, HasKey, Missed
  <2>2. v.key # NULL /\ HashOf[v.key] # NULL
    BY <2>1, FlowEngineAssumption
  <2>3. bLock[HashOf[v.key]] = t /\ \A f \in Flow : ~(fb[f] = HashOf[v.key] /\ fl[f].key = v.key)
    BY <1>1, <2>1 DEF BucketInv, BucketHeld
  <2> QED BY <2>2, <2>3 DEF NoNewHash
<1> QED BY <1>1, BucketStep

(* A thread that unlocks its bucket and is done with the lookup. *)
LEMMA BucketLeave ==
  ASSUME TypeInv, BucketInv, NEW t \in Worker, NEW l, NEW v, Moves(t, l, v), NoNewHash,
         pc[t] \in Missed \cup {"lock"}, l \notin Missed \cup {"lock"},
         bLock' = [bLock EXCEPT ![HashOf[reg[t].key]] = NULL]
  PROVE  BucketInv'
<1>1. t \in Thread /\ bLock[HashOf[reg[t].key]] = t
  BY DEF Thread, BucketInv, BucketHeld
<1>2. \A u \in Worker \ {t}, b \in Bucket : bLock[b] = u => bLock'[b] = u
  BY <1>1 DEF TypeInv, TypeOK
<1> QED BY <1>1, <1>2, BucketStep

LEMMA BucketContinue ==
  ASSUME TypeInv, BucketInv, NEW t \in Worker, NEW w \in RegRec, ContinueShape(t, w),
         w.key = reg[t].key, pc[t] \in Missed, NoNewHash
  PROVE  BucketInv'
<1>t. t \in Thread
  BY DEF Thread
<1>1. CASE GiveUp(t)
  <2>1. Moves(t, "idle", NoReg) /\ bLock' = [bLock EXCEPT ![HashOf[reg[t].key]] = NULL]
    BY <1>1, <1>t, GiveUpType DEF GiveUp, TypeInv
  <2>2. "idle" \notin Missed \cup {"lock"}
    BY DEF Missed
  <2> QED BY <2>1, <2>2, BucketLeave
<1>2. ASSUME NEW l \in {"prune", "kill", "alloc"}, NEW v \in RegRec, Moves(t, l, v),
             v.key = w.key, UNCHANGED bLock
      PROVE  BucketInv'
  BY <1>2, <1>t, BucketStay
<1> QED BY <1>1, <1>2 DEF ContinueShape

LEMMA BucketPrune ==
  ASSUME TypeInv, BucketInv, NEW t \in Thread \ Streamer, PruneShape(t), pc[t] \in Missed, NoNewHash
  PROVE  BucketInv'
<1>1. CASE t # Mgr
  BY <1>1, BucketContinue DEF PruneShape, Thread
<1>2. CASE t = Mgr
  <2>1. PICK l \in {"prune", "m_recover"}, w \in RegRec : Moves(t, l, w)
    BY <1>2 DEF PruneShape
  <2>2. t \notin Worker /\ UNCHANGED bLock
    BY <1>2, FlowEngineAssumption DEF PruneShape
  <2> QED BY <2>1, <2>2, BucketStay
<1> QED BY <1>1, <1>2

LEMMA SameHash ==
  ASSUME UNCHANGED <<fb, fl>>
  PROVE  NoNewHash
  BY DEF NoNewHash

(* A flow that leaves the hash, or is wiped, is no new flow. *)
LEMMA WipedHash ==
  ASSUME TypeOK, NEW f \in Flow,
         fb' = fb \/ fb' = [fb EXCEPT ![f] = NULL],
         fl' = fl \/ fl' = [fl EXCEPT ![f] = Blank]
  PROVE  NoNewHash
<1>1. ASSUME NEW g \in Flow, g # f PROVE fb'[g] = fb[g] /\ fl'[g] = fl[g]
  BY <1>1 DEF TypeOK
<1>2. Blank.key = NULL
  BY DEF Blank
<1>3. CASE fl' = [fl EXCEPT ![f] = Blank]
  BY <1>1, <1>2, <1>3 DEF NoNewHash, TypeOK
<1>4. CASE fb' = [fb EXCEPT ![f] = NULL]
  BY <1>1, <1>4 DEF NoNewHash, TypeOK
<1>5. CASE UNCHANGED <<fb, fl>>
  BY <1>5, SameHash
<1> QED BY <1>3, <1>4, <1>5

-----------------------------------------------------------------------------
LEMMA LookupBucketStep ==
  ASSUME TypeInv, BucketInv, NEW t \in Worker,
         Arrive(t) \/ LockBucket(t) \/ LockFlow(t) \/ GetNew(t) \/ CheckMemcap(t)
  PROVE  BucketInv'
<1>t. t \in Thread /\ TypeOK /\ reg[t] \in RegRec /\ (pc[t] # "idle" => reg[t].key \in Key)
  BY DEF Thread, TypeInv, TypeOK, HasKey
<1>u. reg = [reg EXCEPT ![t] = reg[t]]
  BY DEF TypeInv, TypeOK
<1>h. NoNewHash
  BY SameHash DEF Arrive, LockBucket, LockFlow, GetNew, CheckMemcap
<1>1. CASE Arrive(t)
  <2>1. PICK v : Moves(t, "bucket", v)
    BY <1>1 DEF Arrive, Moves
  <2>2. "bucket" \notin Missed \cup {"lock"} /\ UNCHANGED bLock
    BY <1>1 DEF Missed, Arrive, lockVars
  <2> HIDE DEF Missed
  <2> QED BY <2>1, <2>2, <1>t, <1>h, BucketStay
<1>2. CASE LockBucket(t)
  <2> DEFINE b == HashOf[reg[t].key]
  <2>1. /\ bLock[b] = NULL /\ bLock' = [bLock EXCEPT ![b] = t] /\ b \in Bucket
        /\ UNCHANGED <<fb, fl>> /\ reg[t].key \in Key
    BY <1>2, <1>t, FlowEngineAssumption DEF LockBucket
  <2>2. bLock'[b] = t /\ \A u \in Worker \ {t}, c \in Bucket : bLock[c] = u => bLock'[c] = u
    BY <2>1, FlowEngineAssumption DEF TypeInv, TypeOK, Thread
  <2>3. CASE Match(t) = {} /\ Goto(t, "getnew") /\ UNCHANGED <<reg, use_cnt>>
    <3>1. Moves(t, "getnew", reg[t])
      BY <2>3, <1>u DEF Moves
    <3>2. \A f \in Flow : ~(fb'[f] = b /\ fl'[f].key = reg[t].key)
      BY <2>1, <2>3 DEF Match, InChain
    <3> QED BY <2>2, <3>1, <3>2, <1>t, <1>h, BucketStep
  <2>4. ASSUME NEW f \in Flow, reg' = [reg EXCEPT ![t].f = f], Goto(t, "lock")
        PROVE  BucketInv'
    <3> DEFINE v == [reg[t] EXCEPT !.f = f]
    <3>1. Moves(t, "lock", v) /\ v.key = reg[t].key
      BY <2>4, <1>t DEF Moves, RegRec
    <3>2. "lock" \notin Missed
      BY DEF Missed
    <3> HIDE DEF v
    <3> QED BY <2>2, <3>1, <3>2, <1>t, <1>h, BucketStep
  <2> QED BY <1>2, <2>3, <2>4 DEF LockBucket, Match, InChain
<1>3. CASE LockFlow(t)
  <2>1. Moves(t, "handle", reg[t])
    BY <1>3, <1>u DEF LockFlow, Moves
  <2>2. "handle" \notin Missed \cup {"lock"}
    BY DEF Missed
  <2> QED BY <1>3, <2>1, <2>2, <1>h, BucketLeave DEF LockFlow
<1>4. CASE GetNew(t)
  <2>1. pc[t] \in Missed /\ UNCHANGED bLock
    BY <1>4 DEF GetNew, Missed, Label, lockVars
  <2>2. CASE reg' = [reg EXCEPT ![t].f = SpareBot] /\ Goto(t, "got")
    <3> DEFINE v == [reg[t] EXCEPT !.f = SpareBot]
    <3>1. Moves(t, "got", v) /\ v.key = reg[t].key
      BY <2>2, <1>t DEF Moves, RegRec
    <3> HIDE DEF v
    <3> QED BY <2>1, <3>1, <1>t, <1>h, BucketStay
  <2>3. CASE Goto(t, "cap") /\ UNCHANGED <<queue, reg>>
    <3>1. Moves(t, "cap", reg[t])
      BY <2>3, <1>u DEF Moves
    <3> QED BY <2>1, <3>1, <1>t, <1>h, BucketStay
  <2> QED BY <1>4, <2>2, <2>3 DEF GetNew
<1>5. CASE CheckMemcap(t)
  <2>1. pc[t] \in Missed
    BY <1>5 DEF CheckMemcap, Missed, Label
  <2>2. CASE Continue(t, StageOf(reg[t], 1, TryRelease))
    <3> DEFINE w == StageOf(reg[t], 1, TryRelease)
    <3>1. 1 \in 0 .. 3 /\ TryRelease \in Int
      BY FlowEngineAssumption
    <3>2. w \in RegRec
      BY <1>t, <3>1, RegType
    <3>3. w.key = reg[t].key
      BY <1>t DEF StageOf, RegRec
    <3>4. ContinueShape(t, w)
      BY <2>2, <3>2, ContinueMoves
    <3> QED BY <2>1, <3>2, <3>3, <3>4, <1>h, BucketContinue
  <2>3. CASE Goto(t, "alloc") /\ UNCHANGED <<reg, emerg, bLock>>
    <3>1. Moves(t, "alloc", reg[t])
      BY <2>3, <1>u DEF Moves
    <3> QED BY <2>1, <2>3, <3>1, <1>t, <1>h, BucketStay
  <2> QED BY <1>5, <2>2, <2>3 DEF CheckMemcap
<1> QED BY <1>1, <1>2, <1>3, <1>4, <1>5

(* The insertion: nobody else missed on this bucket, and no flow of this   *)
(* connection is in its chain.                                             *)
LEMMA InsertBucketStep ==
  ASSUME TypeInv, BucketInv, NEW t \in Worker, InsertNew(t)
  PROVE  BucketInv'
<1> DEFINE f == reg[t].f
           k == reg[t].key
           b == HashOf[k]
<1>t. /\ t \in Thread /\ f \in Flow /\ k \in Key /\ b \in Bucket /\ pc[t] \in Missed
      /\ b # NULL /\ k # NULL
  BY FlowEngineAssumption DEF InsertNew, Thread, TypeInv, HasFlow, HoldsFlow, HasKey, Missed, Label
<1>1. bLock[b] = t /\ \A g \in Flow : ~(fb[g] = b /\ fl[g].key = k)
  BY <1>t DEF BucketInv, BucketHeld
<1>2. fb' = [fb EXCEPT ![f] = b] /\ fb'[f] = b
  BY <1>t DEF InsertNew, TypeInv, TypeOK
<1>3. \A g \in Flow : IF g = f THEN fl'[g].key = k ELSE fl'[g] = fl[g]
  BY <1>t DEF InsertNew, TypeInv, TypeOK, FlowRec
<1>4. HashedByKey'
  BY <1>2, <1>3, <1>t DEF BucketInv, HashedByKey, TypeInv, TypeOK
<1>5. OneFlowPerKey'
  <2> SUFFICES ASSUME NEW g \in Flow, NEW h \in Flow, g # h, fb'[g] # NULL, fb'[h] # NULL,
                      fl'[g].key # NULL
               PROVE  fl'[g].key # fl'[h].key
    BY DEF OneFlowPerKey
  <2>1. CASE g = f
    <3>1. fb'[h] = fb[h] /\ fl'[h] = fl[h] /\ fl'[g].key = k
      BY <2>1, <1>2, <1>3, <1>t DEF TypeInv, TypeOK
    <3>2. fl[h].key = k => fb[h] = b
      BY <3>1, <1>t DEF BucketInv, HashedByKey
    <3> QED BY <3>1, <3>2, <1>1
  <2>2. CASE h = f
    <3>1. fb'[g] = fb[g] /\ fl'[g] = fl[g] /\ fl'[h].key = k
      BY <2>2, <1>2, <1>3, <1>t DEF TypeInv, TypeOK
    <3>2. fl[g].key = k => fb[g] = b
      BY <3>1, <1>t DEF BucketInv, HashedByKey
    <3> QED BY <3>1, <3>2, <1>1
  <2>3. CASE g # f /\ h # f
    BY <2>3, <1>2, <1>3, <1>t DEF BucketInv, OneFlowPerKey, TypeInv, TypeOK
  <2> QED BY <2>1, <2>2, <2>3
<1>6. BucketHeld'
  <2> SUFFICES ASSUME NEW u \in Worker, pc'[u] \in Missed \cup {"lock"}
               PROVE  LET c == HashOf[reg'[u].key] IN
                      /\ bLock'[c] = u
                      /\ pc'[u] \in Missed =>
                           \A g \in Flow : ~(fb'[g] = c /\ fl'[g].key = reg'[u].key)
    BY DEF BucketHeld, Missed
  <2>1. u # t
    BY DEF InsertNew, Goto, Missed, TypeInv, TypeOK, Thread
  <2>2. pc'[u] = pc[u] /\ reg'[u] = reg[u]
    BY <2>1 DEF InsertNew, Goto, TypeInv, TypeOK, Thread
  <2> DEFINE c == HashOf[reg[u].key]
  <2>3. reg[u].key \in Key /\ c \in Bucket
    BY <2>2, FlowEngineAssumption DEF TypeInv, HasKey, Missed
  <2>4. bLock[c] = u /\ c # b
    BY <2>1, <2>2, <1>1 DEF BucketInv, BucketHeld
  <2>5. bLock'[c] = u
    BY <2>3, <2>4 DEF InsertNew, TypeInv, TypeOK
  <2>6. ASSUME pc[u] \in Missed, NEW g \in Flow PROVE ~(fb'[g] = c /\ fl'[g].key = reg[u].key)
    <3>1. CASE g = f
      BY <3>1, <2>4, <1>2
    <3>2. CASE g # f
      BY <3>2, <2>6, <1>2, <1>3, <1>t DEF BucketInv, BucketHeld, TypeInv, TypeOK
    <3> QED BY <3>1, <3>2
  <2> QED BY <2>2, <2>5, <2>6
<1> QED BY <1>4, <1>5, <1>6 DEF BucketInv

(* Handling a packet and output change neither the hash nor the buckets. *)
LEMMA HandleBucketStep ==
  ASSUME TypeInv, BucketInv, NEW t \in Worker \cup Streamer, Handle(t) \/ Relink(t)
  PROVE  BucketInv'
<1> DEFINE f == reg[t].f
<1>t. t \in Thread /\ TypeOK /\ f \in Flow
  BY DEF Thread, TypeInv, HasFlow, HoldsFlow, Handle, Relink
<1>u. reg = [reg EXCEPT ![t] = reg[t]] /\ UNCHANGED <<bLock, fb>>
  BY DEF TypeInv, TypeOK, Handle, Relink
<1>k. \A g \in Flow : fl'[g].key = fl[g].key
  <2>1. CASE Handle(t)
    <3> DEFINE r == Touched(t)
    <3>0. fl[f] \in FlowRec /\ reg[t] \in RegRec
      BY <1>t DEF TypeOK
    <3>1. r.key = fl[f].key /\ [r EXCEPT !.lst = NextList(r)].key = fl[f].key
      BY <3>0 DEF Touched, Counted, FlowRec, RegRec
    <3>2. fl' = [fl EXCEPT ![f] = r] \/ fl' = [fl EXCEPT ![f] = [r EXCEPT !.lst = NextList(r)]]
      BY <2>1 DEF Handle
    <3> HIDE DEF r
    <3> QED BY <3>1, <3>2, <1>t DEF TypeOK
  <2>2. CASE Relink(t)
    BY <2>2 DEF Relink
  <2> QED BY <2>1, <2>2
<1>h. NoNewHash
  BY <1>k, <1>u DEF NoNewHash
<1>d. ASSUME NEW l \in {"idle", "relink"}, NEW v, Moves(t, l, v) PROVE BucketInv'
  <2>1. l \notin Missed \cup {"lock"}
    BY DEF Missed
  <2> QED BY <1>d, <2>1, <1>t, <1>u, <1>h, BucketStay
<1>1. CASE DoneWithFlow(t, f)
  <2>1. Moves(t, "idle", NoReg)
    BY <1>1 DEF DoneWithFlow, BackToIdle, Moves
  <2> QED BY <2>1, <1>d
<1>2. CASE Goto(t, "relink") /\ UNCHANGED <<reg, fLock, refs>>
  <2>1. Moves(t, "relink", reg[t])
    BY <1>2, <1>u DEF Moves
  <2> QED BY <2>1, <1>d
<1> QED BY <1>1, <1>2 DEF Handle, Relink

LEMMA AllocBucketStep ==
  ASSUME TypeInv, BucketInv, NEW t \in Thread \ Streamer, Alloc(t)
  PROVE  BucketInv'
<1>t. TypeOK /\ reg[t] \in RegRec /\ pc[t] \in Missed
  BY DEF TypeInv, TypeOK, Alloc, AllocCheck, AllocAdd, AllocMem, Missed, Label
<1>u. reg = [reg EXCEPT ![t] = reg[t]]
  BY DEF TypeInv, TypeOK
<1>f. ASSUME AllocFailed(t), UNCHANGED <<fb, fl>> PROVE BucketInv'
  <2>h. NoNewHash
    BY <1>f, SameHash
  <2>1. CASE t # Mgr /\ GiveUp(t)
    <3>1. t \in Worker /\ Moves(t, "idle", NoReg) /\ bLock' = [bLock EXCEPT ![HashOf[reg[t].key]] = NULL]
      BY <2>1, GiveUpType DEF GiveUp, TypeInv, Thread
    <3>2. "idle" \notin Missed \cup {"lock"}
      BY DEF Missed
    <3> QED BY <3>1, <3>2, <2>h, <1>t, BucketLeave
  <2>2. CASE t = Mgr /\ Goto(t, "prune") /\ reg' = [reg EXCEPT ![t].qi = 1] /\ UNCHANGED bLock
    <3>1. Moves(t, "prune", [reg[t] EXCEPT !.qi = 1]) /\ t \notin Worker
      BY <2>2, FlowEngineAssumption DEF Moves
    <3> QED BY <3>1, <2>2, <2>h, BucketStay
  <2> QED BY <1>f, <2>1, <2>2 DEF AllocFailed
<1>1. CASE AllocCheck(t)
  <2>1. CASE Goto(t, "alloc_add") /\ UNCHANGED <<reg, bLock>>
    <3>1. Moves(t, "alloc_add", reg[t]) /\ NoNewHash
      BY <1>1, <2>1, <1>u, SameHash DEF Moves, AllocCheck
    <3> QED BY <2>1, <3>1, <1>t, BucketStay
  <2> QED BY <1>1, <1>f, <2>1 DEF AllocCheck
<1>2. CASE AllocAdd(t)
  <2>1. Moves(t, "alloc_mem", reg[t]) /\ NoNewHash /\ UNCHANGED bLock
    BY <1>2, <1>u, SameHash DEF AllocAdd, Moves, lockVars
  <2> QED BY <2>1, <1>t, BucketStay
<1>3. CASE AllocMem(t)
  <2>1. ASSUME NEW f \in Flow, fl' = [fl EXCEPT ![f] = Blank], fb' = [fb EXCEPT ![f] = NULL],
               reg' = [reg EXCEPT ![t].f = f], Goto(t, IF t = Mgr THEN "m_enq" ELSE "got"),
               UNCHANGED bLock
        PROVE  BucketInv'
    <3> DEFINE v == [reg[t] EXCEPT !.f = f]
               l == IF t = Mgr THEN "m_enq" ELSE "got"
    <3>1. Moves(t, l, v) /\ v.key = reg[t].key
      BY <2>1, <1>t DEF Moves, RegRec
    <3>2. NoNewHash
      BY <2>1, <1>t, WipedHash DEF NoNewHash
    <3> HIDE DEF v, l
    <3> QED BY <2>1, <3>1, <3>2, <1>t, BucketStay
  <2> QED BY <1>3, <1>f, <2>1 DEF AllocMem
<1> QED BY <1>1, <1>2, <1>3 DEF Alloc

LEMMA PruneBucketStep ==
  ASSUME TypeInv, BucketInv, NEW t \in Thread \ Streamer, Prune(t)
  PROVE  BucketInv'
<1> DEFINE q == QueueAt(reg[t].qi)
           f == reg[t].f
<1>t. TypeOK /\ reg[t] \in RegRec /\ pc[t] \in Missed
  BY DEF TypeInv, TypeOK, Prune, PruneTop, PruneCheck, PruneUnlink, PruneSpare, PruneUnlock,
         Missed, Label
<1>f. pc[t] \in {"prune_fb", "prune_unlink"} => f \in Flow
  BY DEF TypeInv, HasFlow, HoldsFlow
<1>u. reg = [reg EXCEPT ![t] = reg[t]]
  BY DEF TypeInv, TypeOK
<1>r. Try(t) \in RegRec /\ Try(t).key = reg[t].key
  <2>1. reg[t].try - 1 \in Int
    BY <1>t DEF RegRec
  <2>2. [reg[t] EXCEPT !.try = @ - 1] \in RegRec /\ [reg[t] EXCEPT !.try = @ - 1].key = reg[t].key
    BY <2>1, <1>t DEF RegRec
  <2> QED BY <1>t, <2>2 DEF Try
<1>h. NoNewHash
  <2>1. CASE UNCHANGED <<fb, fl>>
    BY <2>1, SameHash
  <2>2. CASE PruneCheck(t) \/ PruneUnlink(t)
    <3>1. f \in Flow
      BY <2>2, <1>f DEF PruneCheck, PruneUnlink
    <3> QED BY <2>2, <3>1, <1>t, WipedHash DEF PruneCheck, PruneUnlink
  <2> QED BY <2>1, <2>2 DEF Prune, PruneTop, PruneSpare, PruneUnlock
<1>p. ASSUME NEW r \in {0, 1}, PruneReturn(t, r) PROVE BucketInv'
  <2>1. PruneShape(t)
    BY <1>p, <1>t, PruneReturnMoves
  <2> QED BY <2>1, <1>t, <1>h, BucketPrune
<1>s. ASSUME NEW l, NEW v, Moves(t, l, v), v.key = reg[t].key, UNCHANGED bLock PROVE BucketInv'
  BY <1>s, <1>t, <1>h, BucketStay
<1>1. CASE PruneTop(t)
  <2>1. CASE /\ reg' = [reg EXCEPT ![t] = [Try(t) EXCEPT !.f = queue[q][1]]]
             /\ Goto(t, "prune_fb") /\ UNCHANGED <<emerg, bLock>>
    <3> DEFINE v == [Try(t) EXCEPT !.f = queue[q][1]]
    <3>1. Moves(t, "prune_fb", v) /\ v.key = reg[t].key
      BY <2>1, <1>r DEF Moves, RegRec
    <3> HIDE DEF v
    <3> QED BY <2>1, <3>1, <1>s
  <2>2. CASE PruneReturn(t, 0)
    BY <2>2, <1>p
  <2>3. CASE t # Mgr /\ Continue(t, Try(t))
    <3>1. t \in Worker
      BY <2>3 DEF Thread
    <3>2. ContinueShape(t, Try(t))
      BY <2>3, <3>1, <1>r, ContinueMoves
    <3> QED BY <3>1, <3>2, <1>r, <1>t, <1>h, BucketContinue
  <2> QED BY <1>1, <2>1, <2>2, <2>3 DEF PruneTop
<1>2. CASE PruneCheck(t)
  <2>1. CASE PruneReturn(t, 0)
    BY <2>1, <1>p
  <2>2. CASE Goto(t, "prune_unlink") /\ UNCHANGED <<fLock, bLock, reg, emerg>>
    <3>1. Moves(t, "prune_unlink", reg[t])
      BY <2>2, <1>u DEF Moves
    <3> QED BY <2>2, <3>1, <1>s
  <2> QED BY <1>2, <2>1, <2>2 DEF PruneCheck
<1>3. CASE PruneUnlink(t) \/ PruneSpare(t)
  <2>1. UNCHANGED bLock /\ \E l : Moves(t, l, reg[t])
    BY <1>3, <1>u DEF PruneUnlink, PruneSpare, Moves, lockVars
  <2>2. PICK l : Moves(t, l, reg[t])
    BY <2>1
  <2> QED BY <2>1, <2>2, <1>s
<1>4. CASE PruneUnlock(t)
  BY <1>4, <1>p DEF PruneUnlock
<1> QED BY <1>1, <1>2, <1>3, <1>4 DEF Prune

LEMMA KillBucketStep ==
  ASSUME TypeInv, BucketInv, NEW t \in Worker, Kill(t)
  PROVE  BucketInv'
<1> DEFINE q == QueueAt(reg[t].qi)
           f == reg[t].f
<1>t. t \in Thread /\ TypeOK /\ reg[t] \in RegRec /\ pc[t] \in Missed
  BY DEF TypeInv, TypeOK, Thread, Kill, KillStart, KillWalk, KillSpare, KillUnlock, Missed, Label
<1>f. pc[t] = "kill_walk" => f \in Flow
  BY <1>t DEF TypeInv, HasFlow, HoldsFlow
<1>u. reg = [reg EXCEPT ![t] = reg[t]]
  BY <1>t DEF TypeOK
<1>r. Try(t) \in RegRec /\ Try(t).key = reg[t].key
  <2>1. reg[t].try - 1 \in Int
    BY <1>t DEF RegRec
  <2>2. [reg[t] EXCEPT !.try = @ - 1] \in RegRec /\ [reg[t] EXCEPT !.try = @ - 1].key = reg[t].key
    BY <2>1, <1>t DEF RegRec
  <2> QED BY <1>t, <2>2 DEF Try
<1>h. NoNewHash
  <2>1. CASE UNCHANGED <<fb, fl>>
    BY <2>1, SameHash
  <2>2. CASE KillWalk(t)
    BY <2>2, <1>f, <1>t, WipedHash DEF KillWalk
  <2> QED BY <2>1, <2>2 DEF Kill, KillStart, KillSpare, KillUnlock
<1>s. ASSUME NEW l, NEW v, Moves(t, l, v), v.key = reg[t].key, UNCHANGED bLock PROVE BucketInv'
  BY <1>s, <1>t, <1>h, BucketStay
<1>c. ASSUME NEW w \in RegRec, w.key = reg[t].key, Continue(t, w) PROVE BucketInv'
  <2>1. ContinueShape(t, w)
    BY <1>c, ContinueMoves
  <2> QED BY <1>c, <2>1, <1>t, <1>h, BucketContinue
<1>1. CASE KillStart(t)
  <2>1. CASE /\ reg' = [reg EXCEPT ![t] = [Try(t) EXCEPT !.f = queue[q][1]]]
             /\ Goto(t, "kill_walk") /\ UNCHANGED <<emerg, bLock>>
    <3> DEFINE v == [Try(t) EXCEPT !.f = queue[q][1]]
    <3>1. Moves(t, "kill_walk", v) /\ v.key = reg[t].key
      BY <2>1, <1>r DEF Moves, RegRec
    <3> HIDE DEF v
    <3> QED BY <2>1, <3>1, <1>s
  <2>2. CASE Continue(t, Try(t))
    BY <2>2, <1>r, <1>c
  <2> QED BY <1>1, <2>1, <2>2 DEF KillStart
<1>2. CASE KillWalk(t)
  <2>1. CASE Goto(t, "kill_spare") /\ UNCHANGED <<reg, qLock, emerg, bLock>>
    <3>1. Moves(t, "kill_spare", reg[t])
      BY <2>1, <1>u DEF Moves
    <3> QED BY <2>1, <3>1, <1>s
  <2>2. CASE /\ reg' = [reg EXCEPT ![t].f = After(q, f)]
             /\ UNCHANGED <<qLock, pc, emerg, bLock>>
    <3> DEFINE v == [reg[t] EXCEPT !.f = After(q, f)]
    <3>1. Moves(t, pc[t], v) /\ v.key = reg[t].key
      BY <2>2, <1>t DEF Moves, Goto, TypeOK, RegRec
    <3> HIDE DEF v
    <3> QED BY <2>2, <3>1, <1>s
  <2>3. CASE Continue(t, [reg[t] EXCEPT !.f = NULL])
    <3> DEFINE w == [reg[t] EXCEPT !.f = NULL]
    <3>1. w \in RegRec /\ w.key = reg[t].key
      BY <1>t, RegType DEF RegRec
    <3> QED BY <2>3, <3>1, <1>c
  <2> QED BY <1>2, <2>1, <2>2, <2>3 DEF KillWalk
<1>3. CASE KillSpare(t)
  <2>1. Moves(t, "kill_unlock", reg[t]) /\ UNCHANGED bLock
    BY <1>3, <1>u DEF KillSpare, Moves, lockVars
  <2> QED BY <2>1, <1>s
<1>4. CASE KillUnlock(t)
  <2> DEFINE w == [reg[t] EXCEPT !.f = NULL, !.got = @ + 1]
  <2>1. w \in RegRec /\ w.key = reg[t].key
    BY <1>t, RegAfterPrune
  <2> QED BY <1>4, <2>1, <1>c DEF KillUnlock
<1> QED BY <1>1, <1>2, <1>3, <1>4 DEF Kill

(* A stream thread takes no bucket and keeps the identity of its flow. *)
LEMMA StreamBucketStep ==
  ASSUME TypeInv, BucketInv, NEW s \in Streamer, StreamLock(s) \/ StreamPacket(s)
  PROVE  BucketInv'
<1>t. s \in Thread /\ s \notin Worker /\ TypeOK /\ reg[s] \in RegRec
  BY FlowEngineAssumption DEF TypeInv, TypeOK, Thread
<1>1. UNCHANGED <<bLock, fb>> /\ \A g \in Flow : fl'[g].key = fl[g].key
  <2>1. ASSUME NEW p, fl' = [fl EXCEPT ![reg[s].f].pstate = p], pc[s] = "stream"
        PROVE  \A g \in Flow : fl'[g].key = fl[g].key
    <3>1. reg[s].f \in Flow /\ fl[reg[s].f] \in FlowRec
      BY <2>1, <1>t DEF TypeInv, TypeOK, HasFlow, HoldsFlow
    <3>2. [fl[reg[s].f] EXCEPT !.pstate = p].key = fl[reg[s].f].key
      BY <3>1 DEF FlowRec
    <3> QED BY <2>1, <3>1, <3>2, <1>t DEF TypeOK
  <2> QED BY <2>1 DEF StreamLock, StreamPacket
<1>2. \E l, v : Moves(s, l, v)
  <2>1. reg = [reg EXCEPT ![s] = reg[s]]
    BY <1>t DEF TypeOK
  <2>2. \A f : [reg EXCEPT ![s].f = f] = [reg EXCEPT ![s] = [reg[s] EXCEPT !.f = f]]
    OBVIOUS
  <2> QED BY <2>1, <2>2 DEF StreamLock, StreamPacket, BackToIdle, Moves
<1>3. NoNewHash
  BY <1>1 DEF NoNewHash
<1> QED BY <1>1, <1>2, <1>3, <1>t, BucketStay

(* The manager holds no bucket outside FlowPrune. *)
LEMMA OtherBucketStep ==
  ASSUME TypeInv, BucketInv,
         \/ MgrWake \/ MgrEnqueue \/ MgrDequeue \/ MgrFree \/ MgrRecover \/ MgrClear
         \/ (\E f \in Flow : Output(f)) \/ Tick
  PROVE  BucketInv'
<1>t. TypeOK /\ Mgr \in Thread /\ Mgr \notin Worker
  BY FlowEngineAssumption DEF TypeInv, Thread
<1>1. UNCHANGED <<bLock, fb, fl>>
  BY DEF MgrWake, MgrEnqueue, MgrDequeue, MgrFree, MgrRecover, MgrClear, Output, Tick, lockVars
<1>2. \A u \in Worker : pc'[u] = pc[u] /\ reg'[u] = reg[u]
  BY <1>t DEF MgrWake, MgrEnqueue, MgrDequeue, MgrFree, MgrRecover, MgrClear, MgrLoop, Goto,
              Output, Tick, TypeOK, Thread
<1>3. NoNewHash
  BY <1>1, SameHash
<1>4. BucketHeld'
  BY <1>1, <1>2 DEF BucketInv, BucketHeld
<1> QED BY <1>3, <1>4, QuietHash DEF BucketInv

LEMMA BucketInvStep == TypeInv /\ BucketInv /\ [Next]_vars => BucketInv'
<1> SUFFICES ASSUME TypeInv, BucketInv, [Next]_vars PROVE BucketInv'
  OBVIOUS
<1>1. ASSUME NEW t \in Worker, Arrive(t) \/ WorkerStep(t) PROVE BucketInv'
  <2>t. t \in Thread \ Streamer
    BY FlowEngineAssumption DEF Thread
  <2> QED BY <1>1, <2>t, LookupBucketStep, InsertBucketStep, HandleBucketStep, AllocBucketStep,
             PruneBucketStep, KillBucketStep DEF WorkerStep
<1>2. CASE MgrStep
  <2>t. Mgr \in Thread \ Streamer
    BY FlowEngineAssumption DEF Thread
  <2> QED BY <1>2, <2>t, OtherBucketStep, AllocBucketStep, PruneBucketStep DEF MgrStep
<1>3. ASSUME NEW s \in Streamer, StreamLock(s) \/ StreamStep(s) PROVE BucketInv'
  BY <1>3, StreamBucketStep, HandleBucketStep DEF StreamStep
<1>4. CASE (\E f \in Flow : Output(f)) \/ Tick
  BY <1>4, OtherBucketStep
<1>5. CASE UNCHANGED vars
  BY <1>5 DEF vars, BucketInv, BucketHeld, HashedByKey, OneFlowPerKey
<1> QED BY <1>1, <1>2, <1>3, <1>4, <1>5 DEF Next

LEMMA BucketInvInit == Init => BucketInv
<1> SUFFICES ASSUME Init PROVE BucketInv
  OBVIOUS
<1>1. \A t \in Worker : pc[t] = "idle"
  BY FlowEngineAssumption DEF Init, Thread
<1>2. \A f \in Flow : fb[f] = NULL
  BY DEF Init
<1> QED BY <1>1, <1>2 DEF BucketInv, BucketHeld, HashedByKey, OneFlowPerKey, Missed

(* FlowGetFlowFromHash keeps its bucket from the miss to the insertion, so *)
(* nobody inserts a flow for the same connection meanwhile.                *)
THEOREM BucketDiscipline == Spec => []BucketInv
<1>1. Init => TypeInv /\ BucketInv
  BY InitType, BucketInvInit
<1>2. TypeInv /\ BucketInv /\ [Next]_vars => (TypeInv /\ BucketInv)'
  BY TypeInvStep, BucketInvStep
<1> QED BY <1>1, <1>2, PTL DEF Spec

(* A connection has at most one flow in the hash, with any number of       *)
(* decoder threads, pruning, killing, freeing and reallocating flows.      *)
THEOREM FlowIsUnique == Spec => []OneFlowPerKey
<1>1. BucketInv => OneFlowPerKey
  BY DEF BucketInv
<1> QED BY <1>1, BucketDiscipline, PTL

---------------------------------------------------------------------------
(* How far the flows can pass the memcap.  FlowAlloc tests flow_memuse and *)
(* adds to it in two atomic operations; what the threads between the two   *)
(* will still add is part of the invariant.                                *)

(* The threads that passed the test and have not added yet. *)
Allocator == Worker \cup {Mgr}
Adding == {t \in Allocator : pc[t] = "alloc_add"}
MemInv == memuse + Cardinality(Adding) <= Memcap + Cardinality(Worker)

LEMMA AllocatorsFinite ==
  /\ IsFiniteSet(Allocator) /\ Cardinality(Allocator) = Cardinality(Worker) + 1
  /\ Cardinality(Worker) \in Nat
<1>1. IsFiniteSet(Worker) /\ Mgr \notin Worker
  BY FlowEngineAssumption
<1>2. IsFiniteSet(Worker \cup {Mgr}) /\ Cardinality(Worker \cup {Mgr}) = Cardinality(Worker) + 1
  BY <1>1, FS_AddElement
<1> QED BY <1>1, <1>2, FS_CardinalityType DEF Allocator

LEMMA AddingFinite ==
  /\ IsFiniteSet(Adding) /\ Cardinality(Adding) \in Nat
  /\ Cardinality(Adding) <= Cardinality(Worker) + 1
<1>1. Adding \subseteq Allocator
  BY DEF Adding
<1> QED BY <1>1, AllocatorsFinite, FS_Subset, FS_CardinalityType

LEMMA AddingFiniteNext ==
  /\ IsFiniteSet(Adding') /\ Cardinality(Adding') \in Nat
  /\ Cardinality(Adding') <= Cardinality(Worker) + 1
<1>1. Adding' \subseteq Allocator
  BY DEF Adding
<1> QED BY <1>1, AllocatorsFinite, FS_Subset, FS_CardinalityType

(* Every step but the two halves of FlowAlloc. *)
LEMMA NoMore ==
  ASSUME TypeOK, MemInv, memuse' \in Int, memuse' <= memuse, Adding' \subseteq Adding
  PROVE  MemInv'
<1>1. Cardinality(Adding') <= Cardinality(Adding)
  BY AddingFinite, FS_Subset
<1>2. Memcap \in Int
  BY FlowEngineAssumption
<1> QED BY <1>1, <1>2, AddingFinite, AddingFiniteNext, AllocatorsFinite DEF MemInv, TypeOK

(* The threads that test and add, one by one. *)
LEMMA AllocMemcapStep ==
  ASSUME TypeInv, MemInv, NEW t \in Allocator, Alloc(t)
  PROVE  MemInv'
<1>t. TypeOK /\ memuse \in Int /\ Memcap \in Int /\ t \in Thread
  BY FlowEngineAssumption DEF TypeInv, TypeOK, Allocator, Thread
<1>g. ASSUME NEW l, l # "alloc_add", Goto(t, l) PROVE Adding' \subseteq Adding
  BY <1>g, <1>t DEF Goto, Adding, Allocator, Thread, TypeOK
<1>f. ASSUME AllocFailed(t) PROVE Adding' \subseteq Adding
  BY <1>f, <1>g DEF AllocFailed, GiveUp, BackToIdle
<1>1. CASE AllocCheck(t)
  <2>1. CASE Fits
    BY <2>1, <1>1, <1>t, AddingFiniteNext, AllocatorsFinite DEF AllocCheck, Fits, MemInv, heapVars
  <2>2. CASE ~Fits
    BY <2>2, <1>1, <1>f, <1>t, NoMore DEF AllocCheck, heapVars
  <2> QED BY <2>1, <2>2
<1>2. CASE AllocAdd(t)
  <2>1. t \in Adding /\ Adding' = Adding \ {t}
    BY <1>2, <1>t DEF AllocAdd, Goto, Adding, Allocator, Thread, TypeOK
  <2>2. Cardinality(Adding') = Cardinality(Adding) - 1
    BY <2>1, AddingFinite, FS_RemoveElement
  <2> QED BY <1>2, <1>t, <2>2, AddingFinite, AllocatorsFinite DEF AllocAdd, MemInv
<1>3. CASE AllocMem(t)
  <2>1. memuse' \in Int /\ memuse' <= memuse
    BY <1>3, <1>t DEF AllocMem, GivenBack
  <2>2. Adding' \subseteq Adding
    BY <1>3, <1>f, <1>g DEF AllocMem
  <2> QED BY <2>1, <2>2, <1>t, NoMore
<1> QED BY <1>1, <1>2, <1>3 DEF Alloc

LEMMA ContinueAdding ==
  ASSUME TypeOK, NEW t, NEW w, Continue(t, w) PROVE Adding' \subseteq Adding
  BY DEF Continue, GiveUp, BackToIdle, Goto, Adding, Allocator, Thread, TypeOK

LEMMA PruneAdding ==
  ASSUME TypeOK, NEW t, NEW r, PruneReturn(t, r) PROVE Adding' \subseteq Adding
<1>1. CASE t # Mgr
  BY <1>1, ContinueAdding DEF PruneReturn
<1>2. CASE t = Mgr
  BY <1>2 DEF PruneReturn, Goto, Adding, Allocator, Thread, TypeOK
<1> QED BY <1>1, <1>2

LEMMA WorkerAdding ==
  ASSUME TypeOK, NEW t \in Worker,
         \/ Arrive(t) \/ LockBucket(t) \/ LockFlow(t) \/ GetNew(t) \/ CheckMemcap(t)
         \/ InsertNew(t) \/ Handle(t) \/ Relink(t) \/ Kill(t)
  PROVE  Adding' \subseteq Adding /\ UNCHANGED memuse
<1>t. t \in Thread
  BY DEF Thread
<1>g. ASSUME NEW l, l # "alloc_add", Goto(t, l) PROVE Adding' \subseteq Adding
  BY <1>g DEF Goto, Adding, Allocator, Thread, TypeOK
<1>1. CASE Arrive(t) \/ LockBucket(t) \/ LockFlow(t) \/ GetNew(t) \/ InsertNew(t)
  BY <1>1, <1>g DEF Arrive, LockBucket, LockFlow, GetNew, InsertNew, heapVars
<1>2. CASE CheckMemcap(t)
  BY <1>2, <1>g, <1>t, ContinueAdding DEF CheckMemcap, heapVars
<1>3. CASE Handle(t) \/ Relink(t)
  BY <1>3, <1>g DEF Handle, Relink, DoneWithFlow, BackToIdle, heapVars
<1>4. CASE Kill(t)
  <2>1. CASE KillStart(t) \/ KillSpare(t) \/ KillUnlock(t)
    BY <2>1, <1>g, <1>t, ContinueAdding DEF KillStart, KillSpare, KillUnlock, heapVars
  <2>2. CASE KillWalk(t)
    <3>1. CASE UNCHANGED pc
      BY <2>2, <3>1 DEF KillWalk, Adding, heapVars
    <3>2. CASE Goto(t, "kill_spare")
      BY <2>2, <3>2, <1>g DEF KillWalk, heapVars
    <3>3. CASE \E w : Continue(t, w)
      BY <2>2, <3>3, <1>t, ContinueAdding DEF KillWalk, heapVars
    <3> QED BY <2>2, <3>1, <3>2, <3>3 DEF KillWalk
  <2> QED BY <1>4, <2>1, <2>2 DEF Kill
<1> QED BY <1>1, <1>2, <1>3, <1>4

LEMMA PruneStepAdding ==
  ASSUME TypeOK, NEW t, Prune(t)
  PROVE  Adding' \subseteq Adding /\ UNCHANGED memuse
<1>g. ASSUME NEW l, l # "alloc_add", Goto(t, l) PROVE Adding' \subseteq Adding
  BY <1>g DEF Goto, Adding, Allocator, Thread, TypeOK
<1>1. CASE PruneTop(t)
  BY <1>1, <1>g, ContinueAdding, PruneAdding DEF PruneTop, heapVars
<1>2. CASE PruneCheck(t)
  BY <1>2, <1>g, PruneAdding DEF PruneCheck, heapVars
<1>3. CASE PruneUnlink(t) \/ PruneSpare(t) \/ PruneUnlock(t)
  BY <1>3, <1>g, PruneAdding DEF PruneUnlink, PruneSpare, PruneUnlock, heapVars
<1> QED BY <1>1, <1>2, <1>3 DEF Prune

LEMMA MgrAdding ==
  ASSUME TypeOK, MgrWake \/ MgrEnqueue \/ MgrDequeue \/ MgrFree \/ MgrRecover \/ MgrClear
  PROVE  Adding' \subseteq Adding /\ memuse' \in Int /\ memuse' <= memuse
<1>t. Mgr \in Thread
  BY DEF Thread
<1>g. ASSUME NEW l, l # "alloc_add", Goto(Mgr, l) PROVE Adding' \subseteq Adding
  BY <1>g, <1>t DEF Goto, Adding, Allocator, Thread, TypeOK
<1>l. ASSUME NEW l \in {"alloc", "m_free"}, MgrLoop(l) PROVE Adding' \subseteq Adding
  BY <1>l, <1>g DEF MgrLoop
<1>1. CASE MgrWake \/ MgrDequeue \/ MgrRecover \/ MgrClear
  <2>1. UNCHANGED memuse
    BY <1>1 DEF MgrWake, MgrDequeue, MgrRecover, MgrClear, heapVars
  <2>2. Adding' \subseteq Adding
    BY <1>1, <1>g DEF MgrWake, MgrDequeue, MgrRecover, MgrClear
  <2> QED BY <2>1, <2>2 DEF TypeOK
<1>2. CASE MgrEnqueue \/ MgrFree
  <2>1. memuse' \in Int /\ memuse' <= memuse
    BY <1>2 DEF MgrEnqueue, MgrFree, heapVars, TypeOK
  <2> QED BY <2>1, <1>2, <1>l DEF MgrEnqueue, MgrFree
<1> QED BY <1>1, <1>2

LEMMA MemInvStep == TypeInv /\ MemInv /\ [Next]_vars => MemInv'
<1> SUFFICES ASSUME TypeInv, MemInv, [Next]_vars PROVE MemInv'
  OBVIOUS
<1>t. TypeOK /\ memuse \in Int
  BY DEF TypeInv, TypeOK
<1>1. ASSUME NEW t \in Worker, Arrive(t) \/ WorkerStep(t) PROVE MemInv'
  <2>t. t \in Allocator
    BY DEF Allocator
  <2>1. CASE Alloc(t)
    BY <2>1, <2>t, AllocMemcapStep
  <2>2. CASE Prune(t)
    BY <2>2, <1>t, PruneStepAdding, NoMore
  <2> QED BY <1>1, <2>1, <2>2, <1>t, WorkerAdding, NoMore DEF WorkerStep
<1>2. CASE MgrStep
  BY <1>2, <1>t, MgrAdding, AllocMemcapStep, PruneStepAdding, NoMore DEF MgrStep, Allocator
<1>3. CASE \E s \in Streamer : StreamLock(s) \/ StreamStep(s)
  <2>1. PICK s \in Streamer : StreamLock(s) \/ StreamPacket(s) \/ Handle(s) \/ Relink(s)
    BY <1>3 DEF StreamStep
  <2>2. s \notin Allocator
    BY FlowEngineAssumption DEF Allocator
  <2>3. (\E l : Goto(s, l)) /\ UNCHANGED memuse
    BY <2>1 DEF StreamLock, StreamPacket, Handle, Relink, DoneWithFlow, BackToIdle, heapVars
  <2>4. Adding' = Adding
    BY <2>2, <2>3, <1>t DEF Goto, Adding, Allocator, Thread, TypeOK
  <2> QED BY <2>3, <2>4 DEF MemInv
<1>4. CASE (\E f \in Flow : Output(f)) \/ Tick \/ UNCHANGED vars
  <2>1. UNCHANGED <<pc, memuse>>
    BY <1>4 DEF Output, Tick, vars, heapVars
  <2> QED BY <2>1 DEF MemInv, Adding
<1> QED BY <1>1, <1>2, <1>3, <1>4 DEF Next

LEMMA MemInvInit == Init => MemInv
<1> SUFFICES ASSUME Init PROVE MemInv
  OBVIOUS
<1>1. Adding = {}
  BY DEF Init, Adding, Allocator, Thread
<1>2. Cardinality(Adding) = 0
  BY <1>1, FS_EmptySet
<1>3. memuse = Prealloc /\ Prealloc \in 1 .. Memcap /\ Memcap \in Nat
  BY FlowEngineAssumption DEF Init
<1> QED BY <1>2, <1>3, AllocatorsFinite DEF MemInv

(* FlowAlloc passes the memcap by at most one flow for each thread but one *)
(* that runs it, whatever the interleaving of tests and additions.         *)
THEOREM MemcapHolds == Spec => []MemuseBounded
<1>1. Init => TypeInv /\ MemInv
  BY InitType, MemInvInit
<1>2. TypeInv /\ MemInv /\ [Next]_vars => (TypeInv /\ MemInv)'
  BY TypeInvStep, MemInvStep
<1>3. TypeInv /\ MemInv => MemuseBounded
  <2> SUFFICES ASSUME TypeInv, MemInv PROVE MemuseBounded
    OBVIOUS
  <2>1. memuse \in Int /\ Memcap \in Int
    BY FlowEngineAssumption DEF TypeInv, TypeOK
  <2> QED BY <2>1, AddingFinite, AllocatorsFinite DEF MemInv, MemuseBounded
<1> QED BY <1>1, <1>2, <1>3, PTL DEF Spec

=============================================================================
