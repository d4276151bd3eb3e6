----------------------------- MODULE PacketPool -----------------------------
(***************************************************************************)
(* The life of a packet from ReceiveNFQ to TmqhOutputPacketpool, and of    *)
(* the packets that are made from it: a tunnelled or defragmented packet   *)
(* (a "child", PacketPseudoPktSetup) travels on its own and refers to the  *)
(* packet it came in (its "root").  The root's counters tpr_cnt and        *)
(* rtv_cnt decide who gives the verdict and who returns the root to the    *)
(* pool.  The pool itself is a ring buffer (module RingBuffer).            *)
(***************************************************************************)
EXTENDS Integers, SequencesExt

CONSTANTS
  Pooled,       \* the packets preallocated at start-up (max_pending_packets)
  Extra,        \* memory blocks SCMalloc can return for a Packet
  Detector, Verdicter, Outputter,   \* threads of the pipeline
  NULL,
  FlowChoice,   \* bound: may a packet get a flow, may it get none
  MaxReceived,  \* bound: packets the kernel queues
  MaxChildren   \* bound: children of one root

Packet == Pooled \cup Extra

PacketPoolAssumption ==
  /\ IsFiniteSet(Packet) /\ Pooled \cap Extra = {} /\ NULL \notin Packet
  /\ IsFiniteSet(Detector) /\ IsFiniteSet(Verdicter) /\ IsFiniteSet(Outputter)
  /\ FlowChoice \subseteq BOOLEAN /\ MaxReceived \in Nat /\ MaxChildren \in 0 .. 255

VARIABLES
  pool,       \* the ring buffer: how often each packet is in it
  alloced,    \* extra packets that exist
  pk,         \* the fields of a packet the engine decides on
  pickup, decoded, inspected, verdicted,   \* the queues between the threads
  rpc,        \* ReceiveNFQ: before or after its wait loop
  decoding,   \* Decode1: the packets it will put out, its packet last
  dpc,        \* Decode1: still decoding, or putting out
  detecting,  \* [Detector -> the packet of each]
  vreg, oreg, \* [thread -> program counter and packet]
  received,
  verdicts,   \* history: verdicts of a packet since it was received
  done,       \* history: packets VerdictNFQ has seen since their root was received
  use_cnt     \* f->use_cnt, summed over all flows

vars == <<pool, alloced, pk, pickup, decoded, inspected, verdicted, rpc, decoding, dpc,
          detecting, vreg, oreg, received, verdicts, done, use_cnt>>
store == <<pool, alloced>>
decode == <<decoding, dpc>>
queues == <<pickup, decoded, inspected, verdicted>>
history == <<verdicts, done>>

Fresh == [root |-> NULL, tunnel |-> FALSE, tpr |-> 0, rtv |-> 0, verdicted |-> FALSE,
          flow |-> FALSE]
Fields == [root : Packet \cup {NULL}, tunnel : BOOLEAN, tpr : 0 .. 255, rtv : 0 .. 255,
           verdicted : BOOLEAN,   \* tunnel_verdicted
           flow : BOOLEAN]        \* p->flow # NULL
Idle == [pc |-> "idle", p |-> NULL]
VReg == [pc : {"idle", "act", "count"}, p : Packet \cup {NULL}]
OReg == [pc : {"idle", "root", "self"}, p : Packet \cup {NULL}]

TypeOK ==
  /\ pool \in [Packet -> Nat] /\ alloced \subseteq Extra
  /\ pk \in [Packet -> Fields]
  /\ \A s \in {pickup, decoded, inspected, verdicted, decoding} : s \in Seq(Packet)
  /\ rpc \in {"wait", "recv"} /\ dpc \in {"decode", "out"}
  /\ detecting \in [Detector -> Packet \cup {NULL}]
  /\ vreg \in [Verdicter -> VReg] /\ oreg \in [Outputter -> OReg]
  /\ received \in Nat /\ verdicts \in [Packet -> Nat] /\ done \subseteq Packet
  /\ use_cnt \in Int

Init ==
  /\ pool = [p \in Packet |-> IF p \in Pooled THEN 1 ELSE 0]
  /\ alloced = {}
  /\ pk = [p \in Packet |-> Fresh]
  /\ pickup = <<>> /\ decoded = <<>> /\ inspected = <<>> /\ verdicted = <<>>
  /\ rpc = "wait" /\ decoding = <<>> /\ dpc = "decode"
  /\ detecting = [d \in Detector |-> NULL]
  /\ vreg = [v \in Verdicter |-> Idle] /\ oreg = [o \in Outputter |-> Idle]
  /\ received = 0 /\ verdicts = [p \in Packet |-> 0] /\ done = {}
  /\ use_cnt = 0

InPool == {p \in Packet : pool[p] > 0}

(* PacketGetFromQueueOrAlloc gives packet p: one of the pool, or a new one. *)
(* RingBufferMrMwGetNoWait may miss a packet that is put while it looks, so *)
(* a new packet is possible whatever the pool holds.                        *)
GetPacket(p) ==
  \/ /\ p \in InPool
     /\ pool' = [pool EXCEPT ![p] = @ - 1]
     /\ UNCHANGED alloced
  \/ /\ p \in Extra \ alloced
     /\ alloced' = alloced \cup {p}
     /\ UNCHANGED pool

-----------------------------------------------------------------------------
(* ReceiveNFQ and NFQCallBack.                                             *)

\* while (PacketPoolSize() == 0) PacketPoolWait();
ReceiveWait ==
  /\ rpc = "wait" /\ InPool # {} /\ received < MaxReceived
  /\ rpc' = "recv"
  /\ UNCHANGED <<store, pk, queues, decode, detecting, vreg, oreg, received, history, use_cnt>>

\* A packet from the kernel; without memory it is not processed.
Receive ==
  /\ rpc = "recv"
  /\ rpc' = "wait"
  /\ received' = received + 1
  /\ \/ \E p \in Packet :
          /\ GetPacket(p)
          /\ pickup' = Append(pickup, p)
          /\ verdicts' = [verdicts EXCEPT ![p] = 0]
          /\ done' = done \ {p}
     \/ UNCHANGED <<store, pickup, history>>
  /\ UNCHANGED <<pk, decoded, inspected, verdicted, decode, detecting, vreg, oreg, use_cnt>>

-----------------------------------------------------------------------------
(* Decode1.                                                                *)

\* FlowHandlePacket may give a packet a flow.
TakesFlow(p, b) ==
  /\ pk' = [pk EXCEPT ![p].flow = b]
  /\ use_cnt' = IF b THEN use_cnt + 1 ELSE use_cnt

\* TmThreadsSlot1: the next packet.
Decode ==
  /\ decoding = <<>> /\ pickup # <<>>
  /\ decoding' = <<Head(pickup)>>
  /\ pickup' = Tail(pickup) /\ UNCHANGED dpc
  /\ \E b \in FlowChoice : TakesFlow(Head(pickup), b)
  /\ UNCHANGED <<store, decoded, inspected, verdicted, rpc, detecting, vreg, oreg, received, history>>

CountsNot(r) == pk[r].tpr                                       \* mutant
OneMore(r) == pk[r].tpr + 1

\* PacketPseudoPktSetup for a packet inside the root or inside another child;
\* "set the root ptr to the lowest layer".  The child is decoded at once and
\* joins the pre queue (a nested child before the one around it, a sibling
\* after its elder), which is put out before the root.
Root == decoding[Len(decoding)]
Pseudo ==
  /\ decoding # <<>> /\ dpc = "decode" /\ pk[Root].tpr < MaxChildren
  /\ \E p \in Packet, b \in FlowChoice :
       /\ GetPacket(p)
       /\ pk' = [pk EXCEPT ![p] = [@ EXCEPT !.root = Root, !.tunnel = TRUE, !.flow = b],
                           ![Root].tunnel = TRUE, ![Root].tpr = OneMore(Root)]
       /\ use_cnt' = IF b THEN use_cnt + 1 ELSE use_cnt
       /\ \E i \in 1 .. Len(decoding) : decoding' = InsertAt(decoding, i, p)
       /\ done' = done \ {p}
  /\ UNCHANGED <<queues, rpc, dpc, detecting, vreg, oreg, received, verdicts>>

\* tv->tmqh_out: one packet after the other, the root last.
DecodeOut ==
  /\ decoding # <<>>
  /\ decoded' = Append(decoded, Head(decoding))
  /\ decoding' = Tail(decoding)
  /\ dpc' = IF Len(decoding) = 1 THEN "decode" ELSE "out"
  /\ UNCHANGED <<store, pk, pickup, inspected, verdicted, rpc, detecting, vreg, oreg, received,
                 history, use_cnt>>

-----------------------------------------------------------------------------
(* Detect: several threads, so packets leave in any order.                 *)

DetectIn(d) ==
  /\ detecting[d] = NULL /\ decoded # <<>>
  /\ detecting' = [detecting EXCEPT ![d] = Head(decoded)]
  /\ decoded' = Tail(decoded)
  /\ UNCHANGED <<store, pk, pickup, inspected, verdicted, rpc, decode, vreg, oreg, received,
                 history, use_cnt>>

DetectOut(d) ==
  /\ detecting[d] # NULL
  /\ inspected' = Append(inspected, detecting[d])
  /\ detecting' = [detecting EXCEPT ![d] = NULL]
  /\ UNCHANGED <<store, pk, pickup, decoded, verdicted, rpc, decode, vreg, oreg, received,
                 history, use_cnt>>

-----------------------------------------------------------------------------
(* VerdictNFQ.                                                             *)

RootOf(p) == IF pk[p].root # NULL THEN pk[p].root ELSE p

\* "if there are more tunnel packets than ready to verdict packets, we won't
\* verdict this one"
NeverReady(p) == FALSE                                          \* mutant
IsReady(p) == ~(pk[p].tunnel /\ pk[RootOf(p)].tpr > pk[RootOf(p)].rtv)

VerdictIn(v) ==
  /\ vreg[v].pc = "idle" /\ inspected # <<>>
  /\ LET p == Head(inspected) IN
       vreg' = [vreg EXCEPT ![v] = [pc |-> IF IsReady(p) THEN "act" ELSE "count", p |-> p]]
  /\ inspected' = Tail(inspected)
  /\ UNCHANGED <<store, pk, pickup, decoded, verdicted, rpc, decode, detecting, oreg, received,
                 history, use_cnt>>

VerdictOut(v) ==
  /\ verdicted' = Append(verdicted, vreg[v].p)
  /\ vreg' = [vreg EXCEPT ![v] = Idle]
  /\ done' = done \cup {vreg[v].p}
  /\ UNCHANGED <<store, pickup, decoded, inspected, rpc, decode, detecting, oreg, received, use_cnt>>

\* NFQSetVerdict on the root.
SetVerdict(v) ==
  /\ vreg[v].pc = "act"
  /\ verdicts' = [verdicts EXCEPT ![RootOf(vreg[v].p)] = @ + 1]
  /\ VerdictOut(v)
  /\ UNCHANGED pk

\* TUNNEL_INCR_PKT_RTV, in a critical section of its own.
CountReady(v) ==
  /\ vreg[v].pc = "count"
  /\ pk' = [pk EXCEPT ![RootOf(vreg[v].p)].rtv = @ + 1]
  /\ VerdictOut(v)
  /\ UNCHANGED verdicts

-----------------------------------------------------------------------------
(* TmqhOutputPacketpool.                                                   *)

\* Which of the branches p takes, with the root's mutex held.
Waits(p) == pk[p].tunnel /\ pk[p].root = NULL /\ pk[p].tpr # 0
IsChild(p) == pk[p].tunnel /\ pk[p].root # NULL
NeverLast(p) == FALSE                                           \* mutant
LastIgnoresRoot(p) == IsChild(p) /\ pk[pk[p].root].tpr = 1      \* mutant
LastOfRoot(p) == IsChild(p) /\ pk[pk[p].root].verdicted /\ pk[pk[p].root].tpr = 1

ReleaseFlow(p) == use_cnt' = IF pk[p].flow THEN use_cnt - 1 ELSE use_cnt

\* The critical section, and FlowDecrUsecnt(p->flow) after it.
OutputIn(o) ==
  /\ oreg[o].pc = "idle" /\ verdicted # <<>>
  /\ verdicted' = Tail(verdicted)
  /\ LET p == Head(verdicted) IN
     \/ /\ Waits(p)
        /\ pk' = [pk EXCEPT ![p].verdicted = TRUE]
        /\ UNCHANGED <<oreg, use_cnt>>
     \/ /\ ~Waits(p)
        /\ pk' = IF IsChild(p) THEN [pk EXCEPT ![pk[p].root].tpr = @ - 1] ELSE pk
        /\ oreg' = [oreg EXCEPT ![o] = [pc |-> IF LastOfRoot(p) THEN "root" ELSE "self", p |-> p]]
        /\ ReleaseFlow(p)
  /\ UNCHANGED <<store, pickup, decoded, inspected, rpc, decode, detecting, vreg, received, history>>

\* Recycle a packet and put it in the ring buffer, or free it (PKT_ALLOC).
LeavesFields(p) == pk                                           \* mutant
Recycled(p) == [pk EXCEPT ![p] = Fresh]

PutBack(p) ==
  /\ pk' = Recycled(p)
  /\ \/ /\ p \in Extra
        /\ alloced' = alloced \ {p}
        /\ UNCHANGED pool
     \/ /\ p \in Pooled
        /\ pool' = [pool EXCEPT ![p] = @ + 1]
        /\ UNCHANGED alloced

OutputRoot(o) ==
  /\ oreg[o].pc = "root"
  /\ PutBack(pk[oreg[o].p].root)
  /\ oreg' = [oreg EXCEPT ![o].pc = "self"]
  /\ UNCHANGED <<queues, rpc, decode, detecting, vreg, received, history, use_cnt>>

OutputSelf(o) ==
  /\ oreg[o].pc = "self"
  /\ PutBack(oreg[o].p)
  /\ oreg' = [oreg EXCEPT ![o] = Idle]
  /\ UNCHANGED <<queues, rpc, decode, detecting, vreg, received, history, use_cnt>>

-----------------------------------------------------------------------------
ReceiveStep == ReceiveWait \/ Receive
DecodeStep == Decode \/ DecodeOut
DetectStep(d) == DetectIn(d) \/ DetectOut(d)
VerdictStep(v) == VerdictIn(v) \/ SetVerdict(v) \/ CountReady(v)
OutputStep(o) == OutputIn(o) \/ OutputRoot(o) \/ OutputSelf(o)

Next ==
  \/ ReceiveStep \/ DecodeStep \/ Pseudo
  \/ \E d \in Detector : DetectStep(d)
  \/ \E v \in Verdicter : VerdictStep(v)
  \/ \E o \in Outputter : OutputStep(o)

Spec == Init /\ [][Next]_vars

(* Threads keep running.  Several threads of a kind compete for one queue, *)
(* hence fairness of all of them together for taking a packet.             *)
Fairness ==
  /\ WF_vars(DecodeStep)
  /\ WF_vars(\E d \in Detector : DetectIn(d)) /\ \A d \in Detector : WF_vars(DetectOut(d))
  /\ WF_vars(\E v \in Verdicter : VerdictIn(v))
  /\ \A v \in Verdicter : WF_vars(SetVerdict(v) \/ CountReady(v))
  /\ WF_vars(\E o \in Outputter : OutputIn(o))
  /\ \A o \in Outputter : WF_vars(OutputRoot(o) \/ OutputSelf(o))

FairSpec == Spec /\ Fairness
-----------------------------------------------------------------------------
(* Properties.                                                             *)

Queued(p, s) == Cardinality({i \in DOMAIN s : s[i] = p})
InHand(p) == Cardinality({d \in Detector : detecting[d] = p})
             + Cardinality({v \in Verdicter : vreg[v].p = p})
             + Cardinality({o \in Outputter : oreg[o].p = p})
Travelling(p) == Queued(p, pickup) + Queued(p, decoded) + Queued(p, inspected)
                 + Queued(p, verdicted) + Queued(p, decoding) + InHand(p)
\* A root that went through TmqhOutputPacketpool before its last child.
Parked(p) == IF pk[p].verdicted THEN 1 ELSE 0

(* Every packet is in one place: in the pool, free memory, on its way, or  *)
(* waiting for its children.  A packet returned by root and child both, or *)
(* by neither, would be in two or in none.                                 *)
InOnePlace ==
  \A p \in Packet :
    pool[p] + Travelling(p) + Parked(p) = IF p \in Extra \ alloced THEN 0 ELSE 1

(* A root waits, or is on its way, as long as a child refers to it, and    *)
(* tpr_cnt is the number of the children TmqhOutputPacketpool has not seen; *)
(* so the mutex a child locks exists, and a waiting root has a child left  *)
(* that will return it.                                                    *)
Unseen(r) == {p \in Packet : pk[p].root = r /\ \A o \in Outputter : oreg[o].p # p}
RootOutlivesChildren ==
  \A r \in Packet :
    /\ pk[r].tpr = Cardinality(Unseen(r))
    /\ Unseen(r) # {} => pool[r] = 0 /\ (r \in Extra => r \in alloced)
    /\ pk[r].verdicted =>
         Unseen(r) # {} \/ \E o \in Outputter : oreg[o].pc = "root" /\ pk[oreg[o].p].root = r

(* The kernel waits for a verdict on every packet it queued: one has been  *)
(* given when a received packet is returned or freed, although any member *)
(* of a tunnel may be the one that gives it and test and count are two     *)
(* critical sections.                                                      *)
NoPacketUnjudged ==
  [][\A p \in Packet :
       pk[p].root = NULL /\ (pool'[p] > pool[p] \/ p \in alloced \ alloced')
         => verdicts[p] > 0]_vars

(* EngineStop in suricata.c waits until "all packets are returned to the   *)
(* packetpool": once no packet arrives the pool fills up again.            *)
PoolFillsUp == <>[](\A p \in Pooled : pool[p] = 1)

(* source-nfq.c: "if this is a tunnel packet we check if we are ready to   *)
(* verdict already": a verdict is given when the root and all its children *)
(* have been through detection.                                            *)
ReadyBeforeVerdict ==
  [][\A v \in Verdicter :
       vreg[v].pc = "act" /\ vreg'[v].pc = "idle" =>
         LET r == RootOf(vreg[v].p) IN
         \A p \in Packet : p = r \/ (pk[p].root = r /\ Travelling(p) > 0)
                             => p \in done \/ p = vreg[v].p]_vars

(* flow.h on use_cnt: "how many pkts and stream msgs are using the flow    *)
(* *right now*": every reference a packet took is dropped when it returns. *)
UsersAreInFlight ==
  use_cnt = Cardinality({p \in Packet : pk[p].flow /\ \A o \in Outputter : oreg[o].p # p})
=============================================================================
