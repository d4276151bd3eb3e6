----------------------------- MODULE RingBuffer -----------------------------
(***************************************************************************)
(* The ring buffers of src/src/util-ringbuffer.c, in all four variants:    *)
(* one or several readers (which race for rb->read with compare-and-swap), *)
(* one or several writers (which take the spin lock).  A test "empty" or   *)
(* "full" reads two atomic variables; C leaves their order open, so a      *)
(* thread samples either one first and compares in a later step.  Indices  *)
(* are unsigned char or short and wrap at Size.                            *)
(***************************************************************************)
EXTENDS Integers, Sequences, FiniteSets

CONSTANTS
  Reader, Writer,
  NoWait,        \* readers that call the variant that returns NULL at once
  MultiReader, MultiWriter,   \* the variant of Get, and of Put
  Size,          \* 256 or 65536
  NULL,
  MaxPuts        \* bound: pointers put; the n-th one is n

Thread == Reader \cup Writer
Index == 0 .. Size - 1
Item == 1 .. MaxPuts

ASSUME RingBufferAssumption ==
  /\ Size \in Nat /\ Size > 1 /\ MaxPuts \in Nat
  /\ Reader \cap Writer = {} /\ NoWait \subseteq Reader
  /\ IsFiniteSet(Reader) /\ IsFiniteSet(Writer)
  /\ MultiReader \in BOOLEAN /\ MultiWriter \in BOOLEAN
  /\ MultiReader \/ Cardinality(Reader) = 1
  /\ MultiWriter \/ Cardinality(Writer) = 1
  /\ NULL \notin Nat /\ NULL \notin Thread

VARIABLES
  array, read, write,   \* rb->array, rb->read, rb->write
  spin,                 \* holder of rb->spin
  shutdown,             \* rb->shutdown
  npput,                \* pointers handed to Put so far
  pc, reg               \* program counter and locals of each thread

vars == <<array, read, write, spin, shutdown, npput, pc, reg>>
bufVars == <<array, read, write, spin>>

Label == {"idle", "test", "compare", "start", "scan", "recheck", "load", "take", "return",
          "lock", "locked", "store", "advance"}
\* First sampled index and its value; readp; the pointer.
NoReg == [first |-> "read", seen |-> 0, readp |-> 0, ptr |-> NULL]
RegRec == [first : {"read", "write"}, seen : Index, readp : Index, ptr : Item \cup {NULL}]

TypeOK ==
  /\ array \in [Index -> Item \cup {NULL}]
  /\ read \in Index /\ write \in Index
  /\ spin \in Writer \cup {NULL} /\ shutdown \in BOOLEAN /\ npput \in 0 .. MaxPuts
  /\ pc \in [Thread -> Label] /\ reg \in [Thread -> RegRec]

Succ(i) == IF i = Size - 1 THEN 0 ELSE i + 1
NoWrap(i) == i - 1                                              \* mutant
Pred(i) == IF i = 0 THEN Size - 1 ELSE i - 1
Empty(r, w) == w = r
Full(r, w) == Succ(w) = r

(* RingBufferInit *)
Init ==
  /\ array = [i \in Index |-> NULL]
  /\ read = 0 /\ write = 0
  /\ spin = NULL /\ shutdown = FALSE /\ npput = 0
  /\ pc = [t \in Thread |-> "idle"] /\ reg = [t \in Thread |-> NoReg]

Goto(t, l) == pc' = [pc EXCEPT ![t] = l]
BackToIdle(t) == Goto(t, "idle") /\ reg' = [reg EXCEPT ![t] = NoReg]

\* The two reads of a test; First is the first one, the arguments of the
\* test are then known.
Sample(t) ==
  \/ reg' = [reg EXCEPT ![t].first = "read", ![t].seen = read]
  \/ reg' = [reg EXCEPT ![t].first = "write", ![t].seen = write]
ReadSeen(t) == IF reg[t].first = "read" THEN reg[t].seen ELSE read
WriteSeen(t) == IF reg[t].first = "write" THEN reg[t].seen ELSE write
Seen(t) == [reg EXCEPT ![t].first = "read", ![t].seen = 0]   \* forget the sample
SawEmpty(t) == Empty(ReadSeen(t), WriteSeen(t))
SawFull(t) == Full(ReadSeen(t), WriteSeen(t))

-----------------------------------------------------------------------------
(* Calls, and the wait loop both sides begin with.                         *)

CallGet(r) ==
  /\ pc[r] = "idle"
  /\ Goto(r, "test")
  /\ UNCHANGED <<bufVars, shutdown, npput, reg>>

CallPut(w) ==
  /\ pc[w] = "idle" /\ npput < MaxPuts
  /\ npput' = npput + 1
  /\ reg' = [reg EXCEPT ![w].ptr = npput + 1]
  /\ Goto(w, "test")
  /\ UNCHANGED <<bufVars, shutdown>>

Test(t) ==
  /\ pc[t] = "test"
  /\ Sample(t)
  /\ Goto(t, "compare")
  /\ UNCHANGED <<bufVars, shutdown, npput>>

WaitsOn == FALSE                                                \* mutant
GivesUp == shutdown

\* Empty or full: leave at shutdown (or at once, in GetNoWait), else sleep and
\* test again.  Otherwise go on to the variant's next step.
Compare(t) ==
  LET blocked == IF t \in Reader THEN SawEmpty(t) ELSE SawFull(t) IN
  /\ pc[t] = "compare"
  /\ \/ /\ blocked /\ (GivesUp \/ t \in NoWait)
        /\ BackToIdle(t)
     \/ /\ blocked /\ ~(GivesUp \/ t \in NoWait)
        /\ Goto(t, "test")
        /\ reg' = Seen(t)
     \/ /\ ~blocked
        /\ Goto(t, IF t \in Reader THEN IF MultiReader THEN "start" ELSE "load"
                   ELSE IF MultiWriter THEN "lock" ELSE "store")
        /\ reg' = Seen(t)
  /\ UNCHANGED <<bufVars, shutdown, npput>>

-----------------------------------------------------------------------------
(* Get.                                                                    *)

\* readp = rb->read - 1
Start(r) ==
  /\ pc[r] = "start"
  /\ reg' = [reg EXCEPT ![r].readp = Pred(read)]
  /\ Goto(r, "scan")
  /\ UNCHANGED <<bufVars, shutdown, npput>>

\* The second test for empty, inside the do loop: empty leads back to "retry".
Scan(r) ==
  /\ pc[r] = "scan"
  /\ Sample(r)
  /\ Goto(r, "recheck")
  /\ UNCHANGED <<bufVars, shutdown, npput>>

EmptyAgain(r) == SawEmpty(r)

Recheck(r) ==
  /\ pc[r] = "recheck"
  /\ \/ /\ EmptyAgain(r)
        /\ Goto(r, "test")
        /\ reg' = [reg EXCEPT ![r] = NoReg]
     \/ /\ ~EmptyAgain(r)
        /\ Goto(r, "load")
        /\ reg' = Seen(r)
  /\ UNCHANGED <<bufVars, shutdown, npput>>

\* readp++ and ptr = rb->array[readp], or ptr = rb->array[rb->read].
Load(r) ==
  LET i == IF MultiReader THEN Succ(reg[r].readp) ELSE read IN
  /\ pc[r] = "load"
  /\ reg' = [reg EXCEPT ![r].readp = i, ![r].ptr = array[i]]
  /\ Goto(r, "take")
  /\ UNCHANGED <<bufVars, shutdown, npput>>

\* The index a reader in the do loop will compare rb->read with.
Target(u) == IF pc[u] = "take" THEN reg[u].readp ELSE Succ(reg[u].readp)

(* Bound: no reader sleeps in its do loop while rb->read makes a complete  *)
(* lap and comes back to the index the reader is about to compare it with. *)
NoLap(r) ==
  \A u \in Reader \ {r} : pc[u] \in {"scan", "recheck", "load", "take"} => Succ(read) # Target(u)

\* The compare-and-swap, or the atomic increment of a single reader.
Swaps(r) == ~MultiReader \/ read = reg[r].readp

Take(r) ==
  /\ pc[r] = "take"
  /\ \/ /\ Swaps(r) /\ NoLap(r)
        /\ read' = Succ(read)
        /\ Goto(r, "return")
        /\ UNCHANGED reg
     \/ /\ ~Swaps(r)
        /\ Goto(r, "scan")
        /\ reg' = [reg EXCEPT ![r].ptr = NULL]
        /\ UNCHANGED read
  /\ UNCHANGED <<array, write, spin, shutdown, npput>>

ReturnPtr(r) ==
  /\ pc[r] = "return"
  /\ BackToIdle(r)
  /\ UNCHANGED <<bufVars, shutdown, npput>>

-----------------------------------------------------------------------------
(* Put.                                                                    *)

\* SCSpinLock, then test for full once more.
Lock(w) ==
  /\ pc[w] = "lock" /\ spin = NULL
  /\ spin' = w
  /\ Goto(w, "locked")
  /\ UNCHANGED <<array, read, write, shutdown, npput, reg>>

NotTested == FALSE                                              \* mutant
FullAgain == Full(read, write)

Locked(w) ==
  /\ pc[w] = "locked"
  /\ \/ /\ FullAgain
        /\ spin' = NULL
        /\ Goto(w, "test")
     \/ /\ ~FullAgain
        /\ Goto(w, "store")
        /\ UNCHANGED spin
  /\ UNCHANGED <<array, read, write, shutdown, npput, reg>>

Store(w) ==
  /\ pc[w] = "store"
  /\ array' = [array EXCEPT ![write] = reg[w].ptr]
  /\ Goto(w, "advance")
  /\ UNCHANGED <<read, write, spin, shutdown, npput, reg>>

\* The unlocking has no effect of its own; it goes with the increment.
Advance(w) ==
  /\ pc[w] = "advance"
  /\ write' = Succ(write)
  /\ spin' = NULL
  /\ BackToIdle(w)
  /\ UNCHANGED <<array, read, shutdown, npput>>

\* RingBufferShutdown
Shutdown ==
  /\ ~shutdown
  /\ shutdown' = TRUE
  /\ UNCHANGED <<bufVars, npput, pc, reg>>

-----------------------------------------------------------------------------
ReaderStep(r) ==
  Test(r) \/ Compare(r) \/ Start(r) \/ Scan(r) \/ Recheck(r) \/ Load(r) \/ Take(r) \/ ReturnPtr(r)
WriterStep(w) == Test(w) \/ Compare(w) \/ Lock(w) \/ Locked(w) \/ Store(w) \/ Advance(w)

Next ==
  \/ \E r \in Reader : CallGet(r) \/ ReaderStep(r)
  \/ \E w \in Writer : CallPut(w) \/ WriterStep(w)
  \/ Shutdown

Spec == Init /\ [][Next]_vars

(* Threads keep running.                                                    *)
Fairness ==
  /\ \A r \in Reader : WF_vars(ReaderStep(r))
  /\ \A w \in Writer : WF_vars(WriterStep(w))

FairSpec == Spec /\ Fairness
-----------------------------------------------------------------------------
(* Properties.                                                             *)

Count == IF write >= read THEN write - read ELSE write - read + Size
Slot(i) == IF read + i < Size THEN read + i ELSE read + i - Size
Contents == [i \in 1 .. Count |-> array[Slot(i - 1)]]

(* util-ringbuffer.c: every pointer is got once and in the order of the    *)
(* puts, "the threads don't interfere with one another", whatever readers  *)
(* race for an index and writers for a slot.                               *)
F == INSTANCE Fifo WITH Capacity <- Size - 1, q <- Contents,
       inp <- [w \in Writer |-> reg[w].ptr],
       out <- [r \in Reader |-> IF pc[r] = "return" THEN reg[r].ptr ELSE NULL]
ImplementsFifo == F!Spec

(* RingBufferShutdown: no thread stays in the wait loop of an empty or     *)
(* full buffer, or in the loop around the compare-and-swap.                *)
ShutdownReleases == \A t \in Thread : (shutdown /\ pc[t] # "idle") ~> (pc[t] = "idle")
=============================================================================
