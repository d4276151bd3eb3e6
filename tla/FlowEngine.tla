----------------------------- MODULE FlowEngine -----------------------------
(***************************************************************************)
(* The flow engine of src/src/flow.c, flow-hash.c, flow-util.c: decoder    *)
(* threads look the flow of each packet up in the hash and create it when  *)
(* it is new, later pipeline stages hold a reference until the packet is   *)
(* output, stream threads change the TCP session of a flow and with it the *)
(* flow's queue, and the flow manager thread refills the spare queue and   *)
(* removes timed out flows.  A decoder thread that finds the memcap        *)
(* reached prunes flows itself, in up to three more and more aggressive    *)
(* stages.                                                                 *)
(*                                                                         *)
(* Locks: fb->s (spinlock of a hash bucket), f->m (mutex of a flow) and    *)
(* q->mutex_q (mutex of a queue).  A queue is locked across several steps  *)
(* only by FlowKill, so only that is a variable (qLock); every other       *)
(* critical section of a queue is one action.                              *)
(***************************************************************************)
EXTENDS Integers, Sequences, FiniteSets

CONSTANTS
  Worker,       \* threads that run FlowHandlePacket
  Mgr,          \* FlowManagerThread
  Streamer,     \* threads that run StreamTcp: none in RunModeIpsNFQAuto
  Flow,         \* memory blocks SCMalloc can return for a Flow
  NULL,
  Key, Bucket, HashOf,   \* flow identities and the bucket FlowGetKey gives each
  NProto, ProtoOf,       \* FLOW_PROTO_MAX and the protocol of a key
  Stateful,     \* protocols with a GetProtoState function (TCP)
  Timeout,      \* [emergency: BOOLEAN -> [{"new","est","close"} -> seconds]]
  Memcap,       \* flow_config.memcap, in flows
  Prealloc,     \* flow_config.prealloc
  TryRelease,   \* flow_config.flow_try_release
  DefaultPrune, \* FLOW_DEFAULT_FLOW_PRUNE
  Recovery,     \* flow_config.emergency_recovery, a percentage
  MaxPkts,      \* bound: packets that arrive
  MaxTime,      \* bound: the clock
  LastArrival   \* bound: no packet arrives after this time

Thread == Worker \cup {Mgr} \cup Streamer
State == {"new", "est", "close"}
Dir == {"a2b", "b2a"}

ASSUME FlowEngineAssumption ==
  /\ IsFiniteSet(Flow) /\ IsFiniteSet(Worker) /\ IsFiniteSet(Streamer)
  /\ Mgr \notin Worker \cup Streamer /\ Worker \cap Streamer = {} /\ NULL \notin Thread /\ NULL \notin Flow
  /\ NULL \notin Bucket /\ NULL \notin Key
  /\ HashOf \in [Key -> Bucket]
  /\ NProto \in Nat \ {0} /\ ProtoOf \in [Key -> 1 .. NProto]
  /\ Stateful \subseteq 1 .. NProto
  /\ Timeout \in [BOOLEAN -> [State -> Nat]]
  /\ Memcap \in Nat /\ Prealloc \in 1 .. Memcap   \* FlowInitConfig exits otherwise
  /\ Cardinality(Flow) >= Prealloc
  /\ TryRelease \in Nat /\ DefaultPrune \in Nat \ {0}
  /\ Recovery \in 1 .. 100
  /\ MaxPkts \in Nat /\ MaxTime \in Nat /\ LastArrival \in Nat

(* The queues: one spare queue, and three per protocol, in the order both  *)
(* FlowPruneFlowsCnt and FlowManagerThread visit them.                     *)
Spare == <<"spare", 0>>
NQueues == 3 * NProto
QueueAt(i) == << <<"close", "new", "est">>[((i - 1) % 3) + 1], ((i - 1) \div 3) + 1 >>
Queue == {Spare} \cup (State \X (1 .. NProto))

VARIABLES
  alloced,    \* flows that exist
  memuse,     \* flow_memuse, in flows
  queue,      \* the queues, top first (FlowList)
  qLock,      \* the thread in FlowKill holding a queue's mutex
  bLock,      \* holder of each bucket's spinlock
  fLock,      \* holder of each flow's mutex
  fb,         \* f->fb: the bucket whose chain f is in
  fl,         \* the fields of a flow the engine decides on
  use_cnt,    \* f->use_cnt
  refs,       \* history: packets in the pipeline with p->flow = f
  emerg,      \* flow_flags & FLOW_EMERGENCY
  mgrEmerg,   \* the manager's local "emerg"
  now, npkts, \* clock; packets seen so far
  pc, reg     \* program counter and locals of each thread

vars == <<alloced, memuse, queue, qLock, bLock, fLock, fb, fl, use_cnt, refs,
          emerg, mgrEmerg, now, npkts, pc, reg>>

heapVars == <<alloced, memuse>>
lockVars == <<qLock, bLock, fLock>>
envVars == <<now, npkts>>

(* IndexIn, Without and Elems of FlowList. *)
L == INSTANCE FlowList WITH moving <- {}
Elems(s) == L!Elems(s)
Without(s, f) == L!Without(s, f)

\* A flow after FLOW_INITIALIZE or FLOW_RECYCLE.  (FLOW_RECYCLE leaves the
\* addresses; nothing reads them before the next FlowInit.)
Blank == [key |-> NULL, dir |-> "a2b", lst |-> "none", todst |-> FALSE,
          tosrc |-> FALSE, lastts |-> 0, pstate |-> "none"]

NoReg == [f |-> NULL, key |-> NULL, dir |-> "a2b", ts |-> 0, stage |-> 0,
          qi |-> 1, cnt |-> 0, try |-> 0, got |-> 0]

FlowRec == [key : Key \cup {NULL}, dir : Dir, lst : State \cup {"none"},
            todst : BOOLEAN, tosrc : BOOLEAN, lastts : Nat,
            pstate : State \cup {"none"}]   \* "none": f->protoctx == NULL
RegRec == [f : Flow \cup {NULL}, key : Key \cup {NULL}, dir : Dir, ts : Nat,
           stage : 0 .. 3, qi : 1 .. NQueues, cnt : Int, try : Int, got : Nat]
Label == {"idle", "bucket", "lock", "getnew", "cap", "alloc", "alloc_add", "alloc_mem",
          "got", "stream", "handle", "relink", "prune", "prune_fb", "prune_unlink",
          "prune_spare", "prune_unlock", "kill", "kill_walk", "kill_spare",
          "kill_unlock", "m_sleep", "m_enq", "m_free", "m_ff", "m_recover", "m_clear"}

TypeOK ==
  /\ alloced \subseteq Flow /\ memuse \in Int
  /\ queue \in [Queue -> Seq(Flow)]
  /\ qLock \in [Queue -> Thread \cup {NULL}]
  /\ bLock \in [Bucket -> Thread \cup {NULL}]
  /\ fLock \in [Flow -> Thread \cup {NULL}]
  /\ fb \in [Flow -> Bucket \cup {NULL}]
  /\ fl \in [Flow -> FlowRec]
  /\ use_cnt \in [Flow -> Int] /\ refs \in [Flow -> Int]
  /\ emerg \in BOOLEAN /\ mgrEmerg \in BOOLEAN
  /\ now \in Nat /\ npkts \in Nat
  /\ pc \in [Thread -> Label] /\ reg \in [Thread -> RegRec]

(* FlowInitConfig: Prealloc flows in the spare queue, an empty hash. *)
Init ==
  /\ \E S \in {T \in SUBSET Flow : Cardinality(T) = Prealloc} :
       /\ alloced = S
       /\ \E s \in [1 .. Prealloc -> S] :
            /\ {s[i] : i \in 1 .. Prealloc} = S
            /\ queue = [q \in Queue |-> IF q = Spare THEN s ELSE <<>>]
  /\ memuse = Prealloc
  /\ qLock = [q \in Queue |-> NULL]
  /\ bLock = [b \in Bucket |-> NULL]
  /\ fLock = [f \in Flow |-> NULL]
  /\ fb = [f \in Flow |-> NULL]
  /\ fl = [f \in Flow |-> Blank]
  /\ use_cnt = [f \in Flow |-> 0]
  /\ refs = [f \in Flow |-> 0]
  /\ emerg = FALSE /\ mgrEmerg = FALSE
  /\ now = 0 /\ npkts = 0
  /\ pc = [t \in Thread |-> IF t = Mgr THEN "m_sleep" ELSE "idle"]
  /\ reg = [t \in Thread |-> NoReg]

Goto(t, l) == pc' = [pc EXCEPT ![t] = l]
\* The worker gives up or is done with its packet.
BackToIdle(t) == Goto(t, "idle") /\ reg' = [reg EXCEPT ![t] = NoReg]

\* FlowIncrUsecnt and FlowDecrUsecnt, atomic and without a lock.
Uncounted(f) == use_cnt                                         \* mutant
IncrUsecnt(f) == [use_cnt EXCEPT ![f] = @ + 1]
KeepCount(f) == use_cnt                                         \* mutant
DecrUsecnt(f) == [use_cnt EXCEPT ![f] = @ - 1]

StaysLocked(f) == fLock                                         \* mutant
Unlocked(f) == [fLock EXCEPT ![f] = NULL]

\* The halves of FlowRequeue: f leaves list q, f joins list q at the bottom.
Unlinked(q, f) == [queue EXCEPT ![q] = Without(@, f)]
LosesSpare(q, f) ==                                             \* mutant
  IF q = Spare THEN queue ELSE [queue EXCEPT ![q] = Append(@, f)]
Linked(q, f) == [queue EXCEPT ![q] = Append(@, f)]
InPlace(q, f) == queue                                          \* mutant
Rotated(q, f) == [queue EXCEPT ![q] = Append(Without(@, f), f)]

\* FlowDequeue of the spare queue, in GetNew and by the manager.
SpareBot == queue[Spare][Len(queue[Spare])]
SpareKept == queue                                              \* mutant
SpareTaken == [queue EXCEPT ![Spare] = SubSeq(@, 1, Len(@) - 1)]

QueueOf(f) == <<fl[f].lst, ProtoOf[fl[f].key]>>
InChain(b) == {f \in Flow : fb[f] = b}
Free(q) == qLock[q] = NULL

-----------------------------------------------------------------------------
(* FlowGetFlowFromHash and FlowGetNew, run by a worker.                    *)

\* A packet arrives; it has a timestamp and a direction.
Arrive(t) ==
  /\ pc[t] = "idle" /\ npkts < MaxPkts /\ now <= LastArrival
  /\ \E k \in Key, d \in Dir :
       reg' = [reg EXCEPT ![t] = [NoReg EXCEPT !.key = k, !.dir = d, !.ts = now]]
  /\ npkts' = npkts + 1
  /\ Goto(t, "bucket")
  /\ UNCHANGED <<heapVars, queue, lockVars, fb, fl, use_cnt, refs, emerg, mgrEmerg, now>>

\* The flow FlowCompare accepts, in either direction.
MatchOneWay(t) ==                                               \* mutant
  {f \in InChain(HashOf[reg[t].key]) : fl[f].key = reg[t].key /\ fl[f].dir = reg[t].dir}
Match(t) == {f \in InChain(HashOf[reg[t].key]) : fl[f].key = reg[t].key}

\* SCSpinLock(&fb->s), then walk the chain.  A match takes a reference under
\* the bucket lock.
LockBucket(t) ==
  LET b == HashOf[reg[t].key] IN
  /\ pc[t] = "bucket" /\ bLock[b] = NULL
  /\ bLock' = [bLock EXCEPT ![b] = t]
  /\ \/ /\ Match(t) = {}
        /\ Goto(t, "getnew")
        /\ UNCHANGED <<reg, use_cnt>>
     \/ \E f \in Match(t) :
        /\ use_cnt' = IncrUsecnt(f)
        /\ reg' = [reg EXCEPT ![t].f = f]
        /\ Goto(t, "lock")
  /\ UNCHANGED <<heapVars, queue, qLock, fLock, fb, fl, refs, emerg, mgrEmerg, envVars>>

\* SCMutexLock(&f->m), then the bucket is unlocked.
LockFlow(t) ==
  LET f == reg[t].f IN
  /\ pc[t] = "lock" /\ fLock[f] = NULL
  /\ fLock' = [fLock EXCEPT ![f] = t]
  /\ bLock' = [bLock EXCEPT ![HashOf[reg[t].key]] = NULL]
  /\ Goto(t, "handle")
  /\ UNCHANGED <<heapVars, queue, qLock, fb, fl, use_cnt, refs, emerg, mgrEmerg, envVars, reg>>

\* FlowGetNew returned NULL: unlock the bucket, the packet gets no flow.
GiveUp(t) ==
  /\ bLock' = [bLock EXCEPT ![HashOf[reg[t].key]] = NULL]
  /\ BackToIdle(t)

\* FlowGetNew: a spare flow, else an allocation.
GetNew(t) ==
  /\ pc[t] = "getnew" /\ Free(Spare)
  /\ \/ /\ queue[Spare] # <<>>
        /\ reg' = [reg EXCEPT ![t].f = SpareBot]
        /\ queue' = SpareTaken
        /\ Goto(t, "got")
     \/ /\ queue[Spare] = <<>>
        /\ Goto(t, "cap")
        /\ UNCHANGED <<queue, reg>>
  /\ UNCHANGED <<heapVars, lockVars, fb, fl, use_cnt, refs, emerg, mgrEmerg, envVars>>

\* The loops of FlowPruneFlowsCnt, FlowKillFlowsCnt and their per queue helpers,
\* from locals w on: more tries on this queue, the next queue, or the end of the
\* stage.  A stage that released nothing (as measured against TryRelease, for
\* every stage) is followed by the next one; the first such failure raises
\* FLOW_EMERGENCY, the last one makes FlowGetNew return NULL.
StageOf(w, s, c) == [w EXCEPT !.f = NULL, !.stage = s, !.qi = 1, !.got = 0, !.cnt = c, !.try = c]

Continue(t, w) ==
  LET c == w.cnt - w.got
      moreQueues == c > 0 /\ w.qi < NQueues
  IN
  \/ /\ w.try > 0
     /\ reg' = [reg EXCEPT ![t] = w]
     /\ Goto(t, IF w.stage = 3 THEN "kill" ELSE "prune")
     /\ UNCHANGED <<emerg, bLock>>
  \/ /\ w.try = 0 /\ moreQueues
     /\ reg' = [reg EXCEPT ![t] = [w EXCEPT !.f = NULL, !.qi = @ + 1, !.got = 0, !.cnt = c, !.try = c]]
     /\ Goto(t, IF w.stage = 3 THEN "kill" ELSE "prune")
     /\ UNCHANGED <<emerg, bLock>>
  \/ /\ w.try = 0 /\ ~moreQueues /\ c = TryRelease /\ w.stage < 3
     /\ reg' = [reg EXCEPT ![t] = StageOf(w, w.stage + 1, DefaultPrune)]
     /\ Goto(t, IF w.stage = 2 THEN "kill" ELSE "prune")
     /\ emerg' = (emerg \/ w.stage = 1)
     /\ UNCHANGED bLock
  \/ /\ w.try = 0 /\ ~moreQueues /\ c = TryRelease /\ w.stage = 3
     /\ GiveUp(t)
     /\ UNCHANGED emerg
  \/ /\ w.try = 0 /\ ~moreQueues /\ c # TryRelease
     /\ reg' = [reg EXCEPT ![t] = StageOf(w, 0, 0)]
     /\ Goto(t, "alloc")
     /\ UNCHANGED <<emerg, bLock>>

\* FlowGetNew prunes when one more flow would pass the memcap.
CheckMemcap(t) ==
  /\ pc[t] = "cap"
  /\ \/ /\ memuse + 1 > Memcap
        /\ Continue(t, StageOf(reg[t], 1, TryRelease))
     \/ /\ memuse + 1 <= Memcap
        /\ Goto(t, "alloc")
        /\ UNCHANGED <<reg, emerg, bLock>>
  /\ UNCHANGED <<heapVars, queue, qLock, fLock, fb, fl, use_cnt, refs, mgrEmerg, envVars>>

\* FlowAlloc: test the counter, then add to it, then allocate.  Also run by the
\* manager in FlowUpdateSpareFlows.
AllocFailed(t) ==
  \/ t # Mgr /\ GiveUp(t)
  \/ t = Mgr /\ Goto(t, "prune") /\ reg' = [reg EXCEPT ![t].qi = 1] /\ UNCHANGED bLock

FitsOneOver == memuse <= Memcap                                 \* mutant
Fits == memuse + 1 <= Memcap

AllocCheck(t) ==
  /\ pc[t] = "alloc"
  /\ \/ /\ ~Fits
        /\ AllocFailed(t)
     \/ /\ Fits
        /\ Goto(t, "alloc_add")
        /\ UNCHANGED <<reg, bLock>>
  /\ UNCHANGED <<heapVars, queue, qLock, fLock, fb, fl, use_cnt, refs, emerg, mgrEmerg, envVars>>

AllocAdd(t) ==
  /\ pc[t] = "alloc_add"
  /\ memuse' = memuse + 1
  /\ Goto(t, "alloc_mem")
  /\ UNCHANGED <<alloced, queue, lockVars, fb, fl, use_cnt, refs, emerg, mgrEmerg, envVars, reg>>

Leaked == memuse                                                \* mutant
GivenBack == memuse - 1

\* SCMalloc may fail; the counter is then taken back.
AllocMem(t) ==
  /\ pc[t] = "alloc_mem"
  /\ \/ \E f \in Flow \ alloced :
          /\ alloced' = alloced \cup {f}
          /\ fl' = [fl EXCEPT ![f] = Blank]
          /\ fb' = [fb EXCEPT ![f] = NULL]
          /\ use_cnt' = [use_cnt EXCEPT ![f] = 0]
          /\ fLock' = Unlocked(f)
          /\ reg' = [reg EXCEPT ![t].f = f]
          /\ Goto(t, IF t = Mgr THEN "m_enq" ELSE "got")
          /\ UNCHANGED <<memuse, bLock>>
     \/ /\ memuse' = GivenBack
        /\ AllocFailed(t)
        /\ UNCHANGED <<alloced, fl, fb, use_cnt, fLock>>
  /\ UNCHANGED <<queue, qLock, refs, emerg, mgrEmerg, envVars>>

\* The rest of FlowGetNew and FlowGetFlowFromHash for a new flow: reference,
\* f->m, FlowInit, hash insertion, FlowRequeue to the new queue, unlock bucket.
InsertNew(t) ==
  LET f == reg[t].f
      k == reg[t].key
      q == <<"new", ProtoOf[k]>>
  IN
  /\ pc[t] = "got" /\ fLock[f] = NULL /\ Free(q)
  /\ use_cnt' = IncrUsecnt(f)
  /\ fLock' = [fLock EXCEPT ![f] = t]
  /\ fl' = [fl EXCEPT ![f] = [@ EXCEPT !.key = k, !.dir = reg[t].dir, !.lst = "new"]]
  /\ fb' = [fb EXCEPT ![f] = HashOf[k]]
  /\ queue' = Linked(q, f)
  /\ bLock' = [bLock EXCEPT ![HashOf[k]] = NULL]
  /\ Goto(t, "handle")
  /\ UNCHANGED <<heapVars, qLock, refs, emerg, mgrEmerg, envVars, reg>>

-----------------------------------------------------------------------------
(* FlowUpdateQueue with f->m held: by a worker in FlowHandlePacket, after  *)
(* the last seen time and the packet counters, or by a stream thread whose *)
(* packet changed the TCP session.  Then f->m is released, and FlowHandle- *)
(* Packet has set p->flow = f.                                             *)

SeenLate(t) == [fl[reg[t].f] EXCEPT !.lastts = reg[t].ts - 1]    \* mutant
Counted(t) ==
  LET f == reg[t].f IN
  [fl[f] EXCEPT !.lastts = reg[t].ts,
                !.todst = @ \/ reg[t].dir = fl[f].dir,
                !.tosrc = @ \/ reg[t].dir # fl[f].dir]

Touched(t) == IF t \in Streamer THEN fl[reg[t].f] ELSE Counted(t)

\* GetProtoState, StreamTcpGetFlowState: without a session the state is CLOSED.
ProtoState(r) == IF r.pstate = "none" THEN "close" ELSE r.pstate

\* The queue FlowUpdateQueue moves a flow to.
NextList(r) ==
  IF r.lst = "new" /\ r.todst /\ r.tosrc THEN "est"
  ELSE IF r.lst = "est" /\ ProtoOf[r.key] \in Stateful /\ ProtoState(r) = "close" THEN "close"
  ELSE r.lst

DoneWithFlow(t, f) ==
  /\ fLock' = Unlocked(f)
  /\ refs' = IF t \in Streamer THEN refs ELSE [refs EXCEPT ![f] = @ + 1]
  /\ BackToIdle(t)

Handle(t) ==
  LET f == reg[t].f
      q == QueueOf(f)
      r == Touched(t)
  IN
  /\ pc[t] = "handle" /\ Free(q)
  /\ \/ /\ NextList(r) = r.lst
        /\ queue' = Rotated(q, f)
        /\ fl' = [fl EXCEPT ![f] = r]
        /\ DoneWithFlow(t, f)
     \/ /\ NextList(r) # r.lst
        /\ queue' = Unlinked(q, f)
        /\ fl' = [fl EXCEPT ![f] = [r EXCEPT !.lst = NextList(r)]]
        /\ Goto(t, "relink")
        /\ UNCHANGED <<reg, fLock, refs>>
  /\ UNCHANGED <<heapVars, qLock, bLock, fb, use_cnt, emerg, mgrEmerg, envVars>>

Relink(t) ==
  LET f == reg[t].f IN
  /\ pc[t] = "relink" /\ Free(QueueOf(f))
  /\ queue' = Linked(QueueOf(f), f)
  /\ DoneWithFlow(t, f)
  /\ UNCHANGED <<heapVars, qLock, bLock, fb, fl, use_cnt, emerg, mgrEmerg, envVars>>

-----------------------------------------------------------------------------
(* Later pipeline stages, for a packet that holds f.                       *)

\* Packets that hold f and are not in the hands of a stream thread.
Passing(f) == refs[f] - Cardinality({s \in Streamer : reg[s].f = f})

\* StreamTcp on a TCP packet: lock its flow ...
StreamLock(s) ==
  /\ pc[s] = "idle"
  /\ \E f \in Flow :
       /\ Passing(f) > 0 /\ fLock[f] = NULL
       /\ fl[f].key # NULL /\ ProtoOf[fl[f].key] \in Stateful
       /\ fLock' = [fLock EXCEPT ![f] = s]
       /\ reg' = [reg EXCEPT ![s].f = f]
  /\ Goto(s, "stream")
  /\ UNCHANGED <<heapVars, queue, qLock, bLock, fb, fl, use_cnt, refs, emerg, mgrEmerg, envVars>>

\* ... and let the packet change the session: StreamTcpNewSession (a SYN, or any
\* packet when midstream pickup is on), or StreamTcpPacketSetState, which then
\* calls FlowUpdateQueue.  A closed session is never reopened.
NextSession(p) ==
  CASE p = "none" -> {"new", "est"}
    [] p = "new" -> {"new", "est", "close"}
    [] OTHER -> {"close"}

StreamPacket(s) ==
  LET f == reg[s].f IN
  /\ pc[s] = "stream"
  /\ \/ /\ fLock' = Unlocked(f)
        /\ BackToIdle(s)
        /\ UNCHANGED fl
     \/ /\ \E p \in NextSession(fl[f].pstate) : fl' = [fl EXCEPT ![f].pstate = p]
        /\ Goto(s, "handle")
        /\ UNCHANGED <<reg, fLock>>
  /\ UNCHANGED <<heapVars, queue, qLock, bLock, fb, use_cnt, refs, emerg, mgrEmerg, envVars>>

\* TmqhOutputPacketpool: FlowDecrUsecnt(p->flow), no lock.
Output(f) ==
  /\ Passing(f) > 0
  /\ refs' = [refs EXCEPT ![f] = @ - 1]
  /\ use_cnt' = DecrUsecnt(f)
  /\ UNCHANGED <<heapVars, queue, lockVars, fb, fl, emerg, mgrEmerg, envVars, pc, reg>>

-----------------------------------------------------------------------------
(* FlowPrune, run by the manager and, in stages 1 and 2, by workers.       *)

\* The manager's FlowPruneFlowQueue repeats while FlowPrune returns 1.
PruneReturn(t, r) ==
  \/ /\ t # Mgr
     /\ Continue(t, [reg[t] EXCEPT !.f = NULL, !.got = @ + r])
  \/ /\ t = Mgr /\ UNCHANGED <<emerg, bLock>>
     /\ \/ /\ r = 1
           /\ reg' = [reg EXCEPT ![t].f = NULL]
           /\ Goto(t, "prune")
        \/ /\ r = 0 /\ reg[t].qi < NQueues
           /\ reg' = [reg EXCEPT ![t].f = NULL, ![t].qi = @ + 1]
           /\ Goto(t, "prune")
        \/ /\ r = 0 /\ reg[t].qi = NQueues
           /\ reg' = [reg EXCEPT ![t].f = NULL, ![t].qi = 1]
           /\ Goto(t, "m_recover")

\* One iteration of the worker's "while (try_cnt--)".
Try(t) == IF t = Mgr THEN reg[t] ELSE [reg[t] EXCEPT !.try = @ - 1]

\* A thread whose next step is a critical section of a queue: a trylock of the
\* queue may fail while it runs.
AtQueue(u) == pc[u] \in {"getnew", "got", "handle", "relink", "prune", "prune_unlink",
                         "prune_spare", "kill", "m_enq", "m_free"}

\* Trylock the queue, look at its top, trylock that flow, unlock the queue.
\* Folds the failing cases of this step with the return to the caller's loop.
PruneTop(t) ==
  LET q == QueueAt(reg[t].qi) IN
  /\ pc[t] = "prune"
  /\ \/ /\ Free(q) /\ queue[q] # <<>> /\ fLock[queue[q][1]] = NULL
        /\ fLock' = [fLock EXCEPT ![queue[q][1]] = t]
        /\ reg' = [reg EXCEPT ![t] = [Try(t) EXCEPT !.f = queue[q][1]]]
        /\ Goto(t, "prune_fb")
        /\ UNCHANGED <<emerg, bLock>>
     \/ /\ \/ \E u \in Thread \ {t} : AtQueue(u)
           \/ ~Free(q)
           \/ queue[q] = <<>>
           \/ queue[q] # <<>> /\ fLock[queue[q][1]] # NULL
        /\ \/ t = Mgr /\ PruneReturn(t, 0)
           \/ t # Mgr /\ Continue(t, Try(t))
        /\ UNCHANGED fLock
  /\ UNCHANGED <<heapVars, queue, qLock, fb, fl, use_cnt, refs, mgrEmerg, envVars>>

\* The timeout of a flow, by session state or, without a state function, by list.
TimeoutOf(r, e) ==
  IF ProtoOf[r.key] \in Stateful THEN Timeout[e][ProtoState(r)]
  ELSE IF r.lst = "est" THEN Timeout[e]["est"] ELSE Timeout[e]["new"]

AnyAge(f, ts) == TRUE                                           \* mutant
TimedOut(f, ts) == fl[f].lastts + TimeoutOf(fl[f], emerg) < ts

\* "never prune a flow that is used by a packet or stream msg"
BusyOrNot(f) == TRUE                                            \* mutant
NotInUse(f) == use_cnt[f] = 0

\* Another thread is about to trylock bucket b, and may hold it just now.
Contended(t, b) ==
  \E u \in Thread \ {t} : pc[u] \in {"prune_fb", "kill_walk"} /\ fb[reg[u].f] = b

\* Trylock the bucket; under both locks test the timeout and the use count, and
\* take the flow out of the hash.
PruneCheck(t) ==
  LET f == reg[t].f IN
  /\ pc[t] = "prune_fb"
  /\ \/ /\ bLock[fb[f]] = NULL /\ TimedOut(f, reg[t].ts) /\ NotInUse(f)
        /\ fb' = [fb EXCEPT ![f] = NULL]
        /\ Goto(t, "prune_unlink")
        /\ UNCHANGED <<fLock, bLock, reg, emerg>>
     \/ /\ \/ bLock[fb[f]] # NULL
           \/ Contended(t, fb[f])
           \/ ~TimedOut(f, reg[t].ts)
           \/ ~NotInUse(f)
        /\ fLock' = Unlocked(f)
        /\ PruneReturn(t, 0)
        /\ UNCHANGED fb
  /\ UNCHANGED <<heapVars, queue, qLock, fl, use_cnt, refs, mgrEmerg, envVars>>

\* FlowClearMemory, then FlowRequeue(f, q, &flow_spare_q, 1): leave q ...
PruneUnlink(t) ==
  LET f == reg[t].f
      q == QueueAt(reg[t].qi)
  IN
  /\ pc[t] = "prune_unlink" /\ Free(q)
  /\ fl' = [fl EXCEPT ![f] = Blank]
  /\ use_cnt' = [use_cnt EXCEPT ![f] = 0]
  /\ queue' = Unlinked(q, f)
  /\ Goto(t, "prune_spare")
  /\ UNCHANGED <<heapVars, lockVars, fb, refs, emerg, mgrEmerg, envVars, reg>>

\* ... and join the spare queue, with f->m still held.
PruneSpare(t) ==
  /\ pc[t] = "prune_spare" /\ Free(Spare)
  /\ queue' = Linked(Spare, reg[t].f)
  /\ Goto(t, "prune_unlock")
  /\ UNCHANGED <<heapVars, lockVars, fb, fl, use_cnt, refs, emerg, mgrEmerg, envVars, reg>>

PruneUnlock(t) ==
  /\ pc[t] = "prune_unlock"
  /\ fLock' = Unlocked(reg[t].f)
  /\ PruneReturn(t, 1)
  /\ UNCHANGED <<heapVars, queue, qLock, fb, fl, use_cnt, refs, mgrEmerg, envVars>>

-----------------------------------------------------------------------------
(* FlowKill, stage 3: walk the queue from the top with its mutex held and  *)
(* take the first flow that is neither locked nor in use, timed out or not. *)

KillStart(t) ==
  LET q == QueueAt(reg[t].qi) IN
  /\ pc[t] = "kill"
  /\ \/ /\ Free(q) /\ queue[q] # <<>>
        /\ qLock' = [qLock EXCEPT ![q] = t]
        /\ reg' = [reg EXCEPT ![t] = [Try(t) EXCEPT !.f = queue[q][1]]]
        /\ Goto(t, "kill_walk")
        /\ UNCHANGED <<emerg, bLock>>
     \/ /\ ~Free(q) \/ queue[q] = <<>> \/ \E u \in Thread \ {t} : AtQueue(u)
        /\ Continue(t, Try(t))
        /\ UNCHANGED qLock
  /\ UNCHANGED <<heapVars, queue, fLock, fb, fl, use_cnt, refs, mgrEmerg, envVars>>

\* f->lnext, or NULL at the bottom.
After(q, f) ==
  LET i == L!IndexIn(queue[q], f) IN IF i = Len(queue[q]) THEN NULL ELSE queue[q][i + 1]

KillWalk(t) ==
  LET f == reg[t].f
      q == QueueAt(reg[t].qi)
      takeable == fLock[f] = NULL /\ bLock[fb[f]] = NULL /\ NotInUse(f)
  IN
  /\ pc[t] = "kill_walk"
  /\ \/ /\ takeable
        /\ fLock' = [fLock EXCEPT ![f] = t]
        /\ fb' = [fb EXCEPT ![f] = NULL]
        /\ fl' = [fl EXCEPT ![f] = Blank]
        /\ queue' = Unlinked(q, f)
        /\ Goto(t, "kill_spare")
        /\ UNCHANGED <<reg, qLock, emerg, bLock>>
     \/ /\ ~takeable \/ Contended(t, fb[f])
        /\ \/ /\ After(q, f) # NULL
              /\ reg' = [reg EXCEPT ![t].f = After(q, f)]
              /\ UNCHANGED <<qLock, pc, emerg, bLock>>
           \/ /\ After(q, f) = NULL
              /\ qLock' = [qLock EXCEPT ![q] = NULL]
              /\ Continue(t, [reg[t] EXCEPT !.f = NULL])
        /\ UNCHANGED <<fLock, fb, fl, queue>>
  /\ UNCHANGED <<heapVars, use_cnt, refs, mgrEmerg, envVars>>

KillSpare(t) ==
  /\ pc[t] = "kill_spare" /\ Free(Spare)
  /\ queue' = Linked(Spare, reg[t].f)
  /\ Goto(t, "kill_unlock")
  /\ UNCHANGED <<heapVars, lockVars, fb, fl, use_cnt, refs, emerg, mgrEmerg, envVars, reg>>

KillUnlock(t) ==
  /\ pc[t] = "kill_unlock"
  /\ fLock' = Unlocked(reg[t].f)
  /\ qLock' = [qLock EXCEPT ![QueueAt(reg[t].qi)] = NULL]
  /\ Continue(t, [reg[t] EXCEPT !.f = NULL, !.got = @ + 1])
  /\ UNCHANGED <<heapVars, queue, fb, fl, use_cnt, refs, mgrEmerg, envVars>>

-----------------------------------------------------------------------------
(* FlowManagerThread: refill or trim the spare queue, prune every queue,   *)
(* leave emergency mode when enough flows are spare again.                 *)

NeverNoted == mgrEmerg                                          \* mutant
Noted == mgrEmerg \/ emerg

\* One round begins: note the emergency flag and the time, then the length read
\* by FlowUpdateSpareFlows decides between allocating and freeing.
MgrWake ==
  LET n == Len(queue[Spare])
      todo == IF n < Prealloc THEN Prealloc - n ELSE n - Prealloc
  IN
  /\ pc[Mgr] = "m_sleep" /\ Free(Spare)
  /\ mgrEmerg' = Noted
  /\ reg' = [reg EXCEPT ![Mgr] = [NoReg EXCEPT !.ts = now, !.cnt = todo]]
  /\ Goto(Mgr, IF n < Prealloc THEN "alloc" ELSE IF n > Prealloc THEN "m_free" ELSE "prune")
  /\ UNCHANGED <<heapVars, queue, lockVars, fb, fl, use_cnt, refs, emerg, envVars>>

\* The "for (i = 0; i < toalloc; i++)" and "... tofree" loops.
MgrLoop(l) ==
  /\ reg' = [reg EXCEPT ![Mgr].f = NULL, ![Mgr].cnt = @ - 1]
  /\ Goto(Mgr, IF reg[Mgr].cnt > 1 THEN l ELSE "prune")

\* FlowEnqueue of an allocated flow, on top of the spare queue.
MgrEnqueue ==
  /\ pc[Mgr] = "m_enq" /\ Free(Spare)
  /\ queue' = [queue EXCEPT ![Spare] = <<reg[Mgr].f>> \o @]
  /\ MgrLoop("alloc")
  /\ UNCHANGED <<heapVars, lockVars, fb, fl, use_cnt, refs, emerg, mgrEmerg, envVars>>

MgrDequeue ==
  /\ pc[Mgr] = "m_free" /\ Free(Spare)
  /\ \/ /\ queue[Spare] # <<>>
        /\ reg' = [reg EXCEPT ![Mgr].f = SpareBot]
        /\ queue' = SpareTaken
        /\ Goto(Mgr, "m_ff")
     \/ /\ queue[Spare] = <<>>
        /\ Goto(Mgr, "prune")
        /\ UNCHANGED <<queue, reg>>
  /\ UNCHANGED <<heapVars, lockVars, fb, fl, use_cnt, refs, emerg, mgrEmerg, envVars>>

\* FlowFree: the flow's mutex is destroyed whoever holds it.
MgrFree ==
  /\ pc[Mgr] = "m_ff"
  /\ alloced' = alloced \ {reg[Mgr].f}
  /\ memuse' = memuse - 1
  /\ MgrLoop("m_free")
  /\ UNCHANGED <<queue, lockVars, fb, fl, use_cnt, refs, emerg, mgrEmerg, envVars>>

\* The spare length is read under the queue's mutex, the flag is cleared after
\* that mutex has been released.
MgrRecover ==
  /\ pc[Mgr] = "m_recover" /\ Free(Spare)
  /\ \/ /\ mgrEmerg /\ (Len(queue[Spare]) * 100) \div Prealloc > Recovery
        /\ Goto(Mgr, "m_clear")
        /\ UNCHANGED reg
     \/ /\ ~(mgrEmerg /\ (Len(queue[Spare]) * 100) \div Prealloc > Recovery)
        /\ Goto(Mgr, "m_sleep")
        /\ reg' = [reg EXCEPT ![Mgr] = NoReg]
  /\ UNCHANGED <<heapVars, queue, lockVars, fb, fl, use_cnt, refs, emerg, mgrEmerg, envVars>>

MgrClear ==
  /\ pc[Mgr] = "m_clear"
  /\ emerg' = FALSE /\ mgrEmerg' = FALSE
  /\ Goto(Mgr, "m_sleep")
  /\ reg' = [reg EXCEPT ![Mgr] = NoReg]
  /\ UNCHANGED <<heapVars, queue, lockVars, fb, fl, use_cnt, refs, envVars>>

-----------------------------------------------------------------------------
Tick ==
  /\ now < MaxTime
  /\ now' = now + 1
  /\ UNCHANGED <<heapVars, queue, lockVars, fb, fl, use_cnt, refs, emerg, mgrEmerg, npkts, pc, reg>>

Alloc(t) == AllocCheck(t) \/ AllocAdd(t) \/ AllocMem(t)
Prune(t) == PruneTop(t) \/ PruneCheck(t) \/ PruneUnlink(t) \/ PruneSpare(t) \/ PruneUnlock(t)
Kill(t) == KillStart(t) \/ KillWalk(t) \/ KillSpare(t) \/ KillUnlock(t)

WorkerStep(t) ==
  \/ LockBucket(t) \/ LockFlow(t) \/ GetNew(t) \/ CheckMemcap(t) \/ InsertNew(t)
  \/ Handle(t) \/ Relink(t) \/ Alloc(t) \/ Prune(t) \/ Kill(t)

MgrStep ==
  \/ MgrWake \/ MgrEnqueue \/ MgrDequeue \/ MgrFree \/ MgrRecover \/ MgrClear
  \/ Alloc(Mgr) \/ Prune(Mgr)

StreamStep(s) == StreamPacket(s) \/ Handle(s) \/ Relink(s)

Next ==
  \/ \E t \in Worker : Arrive(t) \/ WorkerStep(t)
  \/ \E s \in Streamer : StreamLock(s) \/ StreamStep(s)
  \/ MgrStep
  \/ \E f \in Flow : Output(f)
  \/ Tick

Spec == Init /\ [][Next]_vars

(* Threads keep running.  A mutex or spinlock that is free again and again *)
(* is eventually acquired, hence strong fairness for the threads that      *)
(* block on them.  Every packet is output in the end (it passes the stream *)
(* thread once, the model may let it pass more often) and time passes.     *)
Fairness ==
  /\ \A t \in Worker : SF_vars(WorkerStep(t))
  /\ \A s \in Streamer : SF_vars(StreamStep(s))
  /\ WF_vars(MgrStep)
  /\ \A f \in Flow : SF_vars(Output(f))
  /\ WF_vars(Tick)

FairSpec == Spec /\ Fairness
-----------------------------------------------------------------------------
(* Properties.                                                             *)

\* The flow a thread works on, in the states where it does.
Uses(t, f) == pc[t] \in {"lock", "handle", "relink"} /\ reg[t].f = f
Removing(t, f) == /\ pc[t] \in {"prune_unlink", "prune_spare", "prune_unlock",
                                "kill_spare", "kill_unlock"}
                  /\ reg[t].f = f
InQueue(f, q) == f \in Elems(queue[q])

(* flow.h on use_cnt: it is the number of packets using the flow right     *)
(* now.  FlowIncrUsecnt and FlowDecrUsecnt are called without f->m, and    *)
(* the pruning paths reset it, so the count could drift.                   *)
UseCountExact ==
  \A f \in alloced : use_cnt[f] = refs[f] + Cardinality({t \in Worker : Uses(t, f)})

(* A flow some packet uses is allocated, in the hash under its key, on its *)
(* way to no spare queue: timeouts, kills and frees never hit a flow that  *)
(* FlowGetFlowFromHash has returned or is about to lock.                   *)
UsedFlowIsLive ==
  \A f \in Flow :
    refs[f] > 0 \/ (\E t \in Worker : Uses(t, f)) =>
      /\ f \in alloced
      /\ fl[f].key # NULL /\ fb[f] = HashOf[fl[f].key]
      /\ ~InQueue(f, Spare)
      /\ \A t \in Thread : ~Removing(t, f)

(* Two flows in the hash never stand for the same connection, although two *)
(* threads may miss on the same key and prune for a long time before they  *)
(* insert (FlowGetFlowFromHash keeps the bucket locked meanwhile).         *)
OneFlowPerKey ==
  \A f, g \in Flow :
    f # g /\ fb[f] # NULL /\ fb[g] # NULL /\ fl[f].key # NULL => fl[f].key # fl[g].key

(* Why: from the miss to the insertion, through all of FlowGetNew, the     *)
(* thread holds the bucket and nobody else puts its connection there; a    *)
(* flow with an identity is in the chain of the bucket FlowGetKey gives it. *)
Missed == Label \ {"idle", "bucket", "lock", "handle", "relink"}
BucketHeld ==
  \A t \in Worker :
    LET b == HashOf[reg[t].key] IN
    /\ pc[t] \in Missed \cup {"lock"} => bLock[b] = t
    /\ pc[t] \in Missed => \A f \in Flow : ~(fb[f] = b /\ fl[f].key = reg[t].key)
HashedByKey == \A f \in Flow : fb[f] # NULL /\ fl[f].key # NULL => fb[f] = HashOf[fl[f].key]
BucketInv == BucketHeld /\ HashedByKey /\ OneFlowPerKey

(* A flow in the hash whose mutex is free is in the one queue its list     *)
(* flag names, and every flow in a queue other than the spare queue whose  *)
(* mutex is free is in the hash: FlowPrune and FlowKill take the top of a  *)
(* queue and dereference its f->fb.                                        *)
HashedIffQueued ==
  \A f \in Flow :
    fLock[f] = NULL =>
      \A q \in Queue \ {Spare} : InQueue(f, q) <=> (fb[f] # NULL /\ q = QueueOf(f))

(* Every allocated flow is in a queue, once, or in the hands of exactly    *)
(* one thread: no flow is lost to the memcap and none is handed out twice. *)
Carried(t, f) == reg[t].f = f /\ pc[t] \in {"got", "relink", "prune_spare", "kill_spare", "m_enq", "m_ff"}
NoFlowLost ==
  \A f \in Flow :
    LET places == {p \in Queue \X (1 .. Cardinality(Flow)) :
                     p[2] <= Len(queue[p[1]]) /\ queue[p[1]][p[2]] = f}
        hands == {t \in Thread : Carried(t, f)}
    IN Cardinality(places) + Cardinality(hands) = IF f \in alloced THEN 1 ELSE 0

(* FlowUpdateSpareFlows frees a flow whose mutex nobody holds: flow-hash.c *)
(* says of a flow from the spare queue that it is "initialized (recylced)  *)
(* but *unlocked*".  FlowPrune and FlowKill put a flow there while they    *)
(* hold f->m and unlock it afterwards, and FLOW_DESTROY does not ask.      *)
FreesUnheld == [][MgrFree => fLock[reg[Mgr].f] = NULL]_vars

(* What the threads rely on when they unlock a queue or a flow: flows are  *)
(* neither lost, nor handed out twice, nor taken while packets use them.    *)
FlowsKept == UsedFlowIsLive /\ HashedIffQueued /\ NoFlowLost

(* flow_memuse counts the flows there are and those being allocated, also  *)
(* after SCMalloc failed or FlowFree ran next to FlowAlloc.                *)
Allocating == {t \in Thread : pc[t] = "alloc_mem"}
MemuseExact == memuse = Cardinality(alloced) + Cardinality(Allocating)

(* FlowAlloc tests flow_memuse and adds to it in two atomic operations, so *)
(* the memcap can be passed, but by at most one flow per other thread that *)
(* tested before the others added.                                         *)
MemuseBounded == memuse <= Memcap + Cardinality(Worker)

(* A flow leaves the hash only when unused, and either timed out for the   *)
(* thread that removes it or by FlowKill.                                  *)
RemovedOnlyIfIdle ==
  [][\A f \in Flow :
       fb[f] # NULL /\ fb'[f] = NULL =>
         /\ use_cnt[f] = 0 /\ refs[f] = 0
         /\ \E t \in Thread : /\ reg[t].f = f
                              /\ \/ /\ pc[t] = "prune_fb"
                                    /\ fl[f].lastts + TimeoutOf(fl[f], emerg) < reg[t].ts
                                 \/ pc[t] = "kill_walk" /\ reg[t].stage = 3]_vars

(* With one decoder thread each queue is ordered by last seen time, so the *)
(* top, the only flow FlowPrune looks at, is the least recently used one.  *)
TopIsLeastRecent ==
  \A q \in Queue \ {Spare} :
    \A i, j \in 1 .. Len(queue[q]) :
      i < j /\ (\A t \in Worker : ~Uses(t, queue[q][i]) /\ ~Uses(t, queue[q][j]))
            /\ (\A t \in Thread : ~Removing(t, queue[q][i]))
        => fl[queue[q][i]].lastts <= fl[queue[q][j]].lastts

(* Every packet gets its flow or gives up: no two of bucket, flow and      *)
(* queue locks are ever waited for in a circle.                            *)
PacketsGetThrough == \A t \in Worker : (pc[t] # "idle") ~> (pc[t] = "idle")

(* Every flow times out once traffic stops, whatever stages of pruning and *)
(* of emergency it went through: no reference is kept that nobody drops,   *)
(* no queue is left for good without its turn in the manager's rounds.     *)
AllFlowsTimeOut == <>[](\A f \in Flow : fb[f] = NULL)

(* Emergency mode ends once traffic stops.                                 *)
EmergencyEnds == <>[]~emerg
=============================================================================
