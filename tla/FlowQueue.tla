----------------------------- MODULE FlowQueue ------------------------------
(***************************************************************************)
(* The intrusive doubly linked lists of src/src/flow-queue.c.  Every queue *)
(* keeps top, bot and len; every flow keeps lnext and lprev.  Each critical *)
(* section under q->mutex_q is one action.  FlowRequeue with two different *)
(* queues is two critical sections, so it is two actions (unlink, link)    *)
(* and other threads may run in between.                                   *)
(*                                                                         *)
(* "owner" is what the callers know about a flow from its list flags       *)
(* (FLOW_NEW_LIST, FLOW_EST_LIST, ...): the queue it is in, Detached when  *)
(* the caller owns it, Moving in the middle of a FlowRequeue.              *)
(***************************************************************************)
EXTENDS Naturals, Sequences, FiniteSets

CONSTANTS Flow, Queue,
          NULL,               \* the null pointer
          Detached, Moving    \* owners that are not queues

FlowQueueAssumption ==
  /\ IsFiniteSet(Flow)
  /\ NULL \notin Flow
  /\ Detached \notin Queue /\ Moving \notin Queue /\ Detached # Moving

VARIABLES top, bot, len,    \* FlowQueue_ : [Queue -> pointer or number]
          lnext, lprev,     \* Flow_ : [Flow -> pointer]
          owner             \* [Flow -> Queue or Detached or Moving]

vars == <<top, bot, len, lnext, lprev, owner>>

TypeOK ==
  /\ top \in [Queue -> Flow \cup {NULL}]
  /\ bot \in [Queue -> Flow \cup {NULL}]
  /\ len \in [Queue -> Nat]
  /\ lnext \in [Flow -> Flow \cup {NULL}]
  /\ lprev \in [Flow -> Flow \cup {NULL}]
  /\ owner \in [Flow -> Queue \cup {Detached, Moving}]

(* FlowQueueInit on every queue; FLOW_INITIALIZE on every flow. *)
Init ==
  /\ top = [q \in Queue |-> NULL]
  /\ bot = [q \in Queue |-> NULL]
  /\ len = [q \in Queue |-> 0]
  /\ lnext = [f \in Flow |-> NULL]
  /\ lprev = [f \in Flow |-> NULL]
  /\ owner = [f \in Flow |-> Detached]

(* FlowEnqueue: push on top.  f's own lprev is left as it is (NULL for a   *)
(* flow that is in no queue); lnext is written only if the queue has flows. *)
FlowEnqueue(q, f) ==
  /\ owner[f] = Detached
  /\ \/ /\ top[q] # NULL
        /\ lnext' = [lnext EXCEPT ![f] = top[q]]
        /\ lprev' = [lprev EXCEPT ![top[q]] = f]
        /\ top' = [top EXCEPT ![q] = f]
        /\ UNCHANGED bot
     \/ /\ top[q] = NULL
        /\ top' = [top EXCEPT ![q] = f]
        /\ bot' = [bot EXCEPT ![q] = f]
        /\ UNCHANGED <<lnext, lprev>>
  /\ len' = [len EXCEPT ![q] = @ + 1]
  /\ owner' = [owner EXCEPT ![f] = q]

(* Mutants, each a slip that pointer code invites. *)

\* FlowDequeue that forgets to clear the new bottom's lnext.
DequeueStaleNext(q) ==
  LET f == bot[q] IN
  /\ f # NULL
  /\ top' = [top EXCEPT ![q] = IF lprev[f] = NULL THEN NULL ELSE @]
  /\ bot' = [bot EXCEPT ![q] = lprev[f]]
  /\ lnext' = [lnext EXCEPT ![f] = NULL]
  /\ len' = [len EXCEPT ![q] = @ - 1]
  /\ lprev' = [lprev EXCEPT ![f] = NULL]
  /\ owner' = [owner EXCEPT ![f] = Detached]

(* FlowDequeue: pop the bottom. *)
FlowDequeue(q) ==
  LET f == bot[q] IN
  /\ f # NULL
  /\ \/ /\ lprev[f] # NULL
        /\ bot' = [bot EXCEPT ![q] = lprev[f]]
        /\ lnext' = [lnext EXCEPT ![lprev[f]] = NULL, ![f] = NULL]
        /\ UNCHANGED top
     \/ /\ lprev[f] = NULL
        /\ top' = [top EXCEPT ![q] = NULL]
        /\ bot' = [bot EXCEPT ![q] = NULL]
        /\ lnext' = [lnext EXCEPT ![f] = NULL]
  /\ len' = [len EXCEPT ![q] = @ - 1]
  /\ lprev' = [lprev EXCEPT ![f] = NULL]
  /\ owner' = [owner EXCEPT ![f] = Detached]

(* The two halves of FlowRequeue as pointer updates on a heap record       *)
(* [top, bot, len, lnext, lprev].  Writes through a NULL pointer do not    *)
(* happen: the code tests lprev/lnext first.                               *)
Heap == [top |-> top, bot |-> bot, len |-> len, lnext |-> lnext, lprev |-> lprev]

SetIf(cond, fn, x, v) == IF cond THEN [fn EXCEPT ![x] = v] ELSE fn

UnlinkFrom(h, q, f) ==
  [top   |-> SetIf(h.top[q] = f, h.top, q, h.lnext[f]),
   bot   |-> SetIf(h.bot[q] = f, h.bot, q, h.lprev[f]),
   len   |-> [h.len EXCEPT ![q] = @ - 1],
   lnext |-> [SetIf(h.lprev[f] # NULL, h.lnext, h.lprev[f], h.lnext[f]) EXCEPT ![f] = NULL],
   lprev |-> [SetIf(h.lnext[f] # NULL, h.lprev, h.lnext[f], h.lprev[f]) EXCEPT ![f] = NULL]]

LinkAtBot(h, q, f) ==
  [top   |-> SetIf(h.top[q] = NULL, h.top, q, f),
   bot   |-> [h.bot EXCEPT ![q] = f],
   len   |-> [h.len EXCEPT ![q] = @ + 1],
   lnext |-> [SetIf(h.bot[q] # NULL, h.lnext, h.bot[q], f) EXCEPT ![f] = NULL],
   lprev |-> [h.lprev EXCEPT ![f] = h.bot[q]]]

Store(h) ==
  /\ top' = h.top /\ bot' = h.bot /\ len' = h.len
  /\ lnext' = h.lnext /\ lprev' = h.lprev

(* FlowRequeue(f, src, dst, 1), src # dst: leave src and unlock it ... *)
RequeueUnlink(f, src) ==
  /\ owner[f] = src
  /\ Store(UnlinkFrom(Heap, src, f))
  /\ owner' = [owner EXCEPT ![f] = Moving]

(* ... then lock dst and append.  Also FlowRequeue(f, NULL, dst, 1). *)
RequeueLink(f, dst) ==
  /\ owner[f] \in {Moving, Detached}
  /\ Store(LinkAtBot(Heap, dst, f))
  /\ owner' = [owner EXCEPT ![f] = dst]

(* FlowRequeue(f, q, q, 1): both halves under one lock. *)
RequeueSame(f, q) ==
  /\ owner[f] = q
  /\ Store(LinkAtBot(UnlinkFrom(Heap, q, f), q, f))
  /\ UNCHANGED owner

Next ==
  \E q \in Queue :
    \/ FlowDequeue(q)
    \/ \E f \in Flow : \/ FlowEnqueue(q, f)
                       \/ RequeueUnlink(f, q)
                       \/ RequeueLink(f, q)
                       \/ RequeueSame(f, q)

Spec == Init /\ [][Next]_vars

-----------------------------------------------------------------------------
(* Where a reader of a queue is after n steps, and the list it has seen    *)
(* when it comes to the end.  Cardinality(Flow) steps are enough for any    *)
(* list; with a cycle the result is longer than that.                      *)
StepsFrom(start, next) ==
  LET at[n \in 0 .. Cardinality(Flow)] ==
        IF n = 0 THEN start ELSE IF at[n - 1] = NULL THEN NULL ELSE next[at[n - 1]]
  IN at
Walk(start, next) ==
  LET at == StepsFrom(start, next)
      seen == {n \in 0 .. Cardinality(Flow) : at[n] # NULL}
  IN [i \in 1 .. Cardinality(seen) |-> at[i - 1]]

(* Along lnext from the top, and along lprev from the bottom, which yields *)
(* the last element first.                                                 *)
Forward(q) == Walk(top[q], lnext)
Backward(q) == Walk(bot[q], lprev)

(* The two walks over a queue agree, have q->len elements and contain just *)
(* the flows whose callers think they are in that queue: no half-linked    *)
(* neighbour, no cycle, no flow in two queues, no lost flow.               *)
WellLinked ==
  \A q \in Queue :
    LET fw == Forward(q)
        bw == Backward(q)
    IN /\ Len(fw) = len[q]
       /\ Len(bw) = len[q]
       /\ \A i \in 1 .. len[q] : fw[i] = bw[len[q] + 1 - i]
       /\ {fw[i] : i \in DOMAIN fw} = {f \in Flow : owner[f] = q}

(* The linked lists implement the abstract lists, in both directions:      *)
(* every update of the pointers is one list operation or none.             *)
List == INSTANCE FlowList
          WITH queue <- [q \in Queue |-> Forward(q)],
               moving <- {f \in Flow : owner[f] = Moving}

ImplementsFlowList ==
  /\ WellLinked /\ List!Init
  /\ [][vars' # vars => WellLinked' /\ [List!Next]_(List!listVars)]_vars
=============================================================================
