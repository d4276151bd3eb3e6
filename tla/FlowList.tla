------------------------------ MODULE FlowList ------------------------------
(***************************************************************************)
(* What a flow queue promises its users (src/src/flow-queue.h): each queue *)
(* is a list of distinct flows.  Element 1 is the "top" (the least         *)
(* recently used flow), the last element is the "bot".  A flow that is     *)
(* being moved between two queues is, for a moment, in neither of them.    *)
(***************************************************************************)
EXTENDS Naturals, Sequences

CONSTANTS Flow,  \* the flow structures
          Queue  \* flow_spare_q and the new/est/close queues

VARIABLES queue,   \* [Queue -> Seq(Flow)]
          moving   \* flows unlinked from one queue, not yet linked in the next

listVars == <<queue, moving>>

(* The position of an element and the list without it. *)
IndexIn(s, f) == CHOOSE i \in DOMAIN s : s[i] = f
Without(s, f) ==
  [i \in 1 .. Len(s) - 1 |-> IF i < IndexIn(s, f) THEN s[i] ELSE s[i + 1]]

Elems(s) == {s[i] : i \in DOMAIN s}
Queued == UNION {Elems(queue[q]) : q \in Queue}

Init == queue = [q \in Queue |-> <<>>] /\ moving = {}

(* A detached flow becomes the top. *)
PutTop(q, f) ==
  /\ f \notin Queued \cup moving
  /\ queue' = [queue EXCEPT ![q] = <<f>> \o @]
  /\ UNCHANGED moving

(* The bottom flow is handed to the caller. *)
TakeBot(q) ==
  /\ queue[q] # <<>>
  /\ queue' = [queue EXCEPT ![q] = SubSeq(@, 1, Len(@) - 1)]
  /\ UNCHANGED moving

(* A move, in two critical sections, and a rotation inside one queue. *)
TakeOut(q, f) ==
  /\ f \in Elems(queue[q])
  /\ queue' = [queue EXCEPT ![q] = Without(@, f)]
  /\ moving' = moving \cup {f}

PutBot(q, f) ==
  /\ f \notin Queued
  /\ queue' = [queue EXCEPT ![q] = Append(@, f)]
  /\ moving' = moving \ {f}

Rotate(q, f) ==
  /\ f \in Elems(queue[q])
  /\ queue' = [queue EXCEPT ![q] = Append(Without(@, f), f)]
  /\ UNCHANGED moving

Next == \E q \in Queue :
          \/ TakeBot(q)
          \/ \E f \in Flow : PutTop(q, f) \/ TakeOut(q, f) \/ PutBot(q, f) \/ Rotate(q, f)

Spec == Init /\ [][Next]_listVars
=============================================================================
