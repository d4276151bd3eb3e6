-------------------------------- MODULE Fifo --------------------------------
(***************************************************************************)
(* What a ring buffer promises its users (src/src/util-ringbuffer.h): a    *)
(* bounded first-in first-out queue.  A writer hands a pointer in, which   *)
(* joins the queue at one instant or, at shutdown, is handed back; a       *)
(* reader takes the head of the queue at one instant.                      *)
(***************************************************************************)
EXTENDS Naturals, Sequences

CONSTANTS Reader, Writer, Item, NULL,
          Capacity  \* pointers the buffer holds at most

VARIABLES q,    \* the queue
          inp,  \* what each writer has handed in and not yet put
          out   \* what each reader has taken and not yet returned

fifoVars == <<q, inp, out>>

Init == q = <<>> /\ inp = [w \in Writer |-> NULL] /\ out = [r \in Reader |-> NULL]

HandIn(w, i) ==
  /\ inp[w] = NULL
  /\ inp' = [inp EXCEPT ![w] = i]
  /\ UNCHANGED <<q, out>>

HandBack(w) ==
  /\ inp' = [inp EXCEPT ![w] = NULL]
  /\ UNCHANGED <<q, out>>

Put(w) ==
  /\ inp[w] # NULL /\ Len(q) < Capacity
  /\ q' = Append(q, inp[w])
  /\ inp' = [inp EXCEPT ![w] = NULL]
  /\ UNCHANGED out

Get(r) ==
  /\ q # <<>> /\ out[r] = NULL
  /\ q' = Tail(q)
  /\ out' = [out EXCEPT ![r] = Head(q)]
  /\ UNCHANGED inp

Return(r) ==
  /\ out' = [out EXCEPT ![r] = NULL]
  /\ UNCHANGED <<q, inp>>

Next ==
  \/ \E w \in Writer : HandBack(w) \/ Put(w) \/ \E i \in Item : HandIn(w, i)
  \/ \E r \in Reader : Get(r) \/ Return(r)

Spec == Init /\ [][Next]_fifoVars
=============================================================================
