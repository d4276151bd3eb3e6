-------------------------- MODULE RingBufferProofs --------------------------
(* The ring buffers of util-ringbuffer.c implement a bounded first-in      *)
(* first-out queue, for every size, for any number of readers and writers  *)
(* and in all four variants: a reader whose compare-and-swap succeeds has  *)
(* read the head of the queue, and a writer finds its slot free.           *)
EXTENDS RingBuffer, FiniteSetTheorems, SequenceTheorems, TLAPS

(***************************************************************************)
(* Indices.                                                                *)
(***************************************************************************)

(* The pointers between two indices.                                       *)
Dist(a, b) == IF b >= a THEN b - a ELSE b - a + Size

LEMMA SizeType == Size \in Nat /\ Size > 1
BY RingBufferAssumption

LEMMA SuccType ==
  ASSUME NEW i \in Index PROVE Succ(i) \in Index /\ Pred(i) \in Index /\ Succ(Pred(i)) = i
BY SizeType DEF Index, Succ, Pred

LEMMA DistType ==
  ASSUME NEW a \in Index, NEW b \in Index
  PROVE  Dist(a, b) \in Nat /\ Dist(a, b) <= Size - 1 /\ (Dist(a, b) = 0 <=> a = b)
BY SizeType DEF Index, Dist

(* The test for full leaves one slot unused.                               *)
LEMMA FullMeans ==
  ASSUME NEW a \in Index, NEW b \in Index PROVE Full(a, b) <=> Dist(a, b) = Size - 1
BY SizeType DEF Index, Dist, Full, Succ

LEMMA DistPut ==
  ASSUME NEW a \in Index, NEW b \in Index, Dist(a, b) < Size - 1
  PROVE  Dist(a, Succ(b)) = Dist(a, b) + 1
BY SizeType DEF Index, Dist, Succ

LEMMA DistGet ==
  ASSUME NEW a \in Index, NEW b \in Index, a # b
  PROVE  Dist(Succ(a), b) = Dist(a, b) - 1
BY SizeType DEF Index, Dist, Succ

(***************************************************************************)
(* The invariant.                                                          *)
(***************************************************************************)

(* A variant for one reader or writer has one.                             *)
LEMMA OneReader ==
  ASSUME ~MultiReader, NEW r \in Reader, NEW u \in Reader PROVE u = r
BY RingBufferAssumption, FS_Singleton

LEMMA OneWriter ==
  ASSUME ~MultiWriter, NEW w \in Writer, NEW u \in Writer PROVE u = w
BY RingBufferAssumption, FS_Singleton

(* A writer inside Put holds the spin lock, finds room until it is done    *)
(* and its pointer in the slot once it is stored.  The only writer of its  *)
(* buffer samples an index that nobody else moves: what it tests can only  *)
(* have become less full.                                                  *)
Inside == {"locked", "store", "advance"}
WriterOK(w) ==
  /\ pc[w] \in {"idle", "test", "compare", "lock"} \cup Inside
  /\ IF pc[w] = "idle" THEN reg[w].ptr = NULL ELSE reg[w].ptr \in Item
  /\ MultiWriter /\ pc[w] \in Inside => spin = w
  /\ pc[w] \in {"store", "advance"} => Dist(read, write) < Size - 1
  /\ pc[w] = "advance" => array[write] = reg[w].ptr
  /\ ~MultiWriter /\ pc[w] = "compare" =>
       IF reg[w].first = "read" THEN Dist(read, write) <= Dist(reg[w].seen, write)
                                ELSE reg[w].seen = write

(* What the test before the load saw is still so for a reader whose        *)
(* compare-and-swap would succeed: rb->read does not come back to the      *)
(* index it waits for.                                                     *)
OnTarget(r) == MultiReader => read = Target(r)
ReaderOK(r) ==
  /\ pc[r] \in {"idle", "test", "compare", "load", "take", "return"}
       \cup (IF MultiReader THEN {"start", "scan", "recheck"} ELSE {})
  /\ pc[r] = (IF MultiReader THEN "recheck" ELSE "compare") /\ OnTarget(r) =>
       IF reg[r].first = "read" THEN reg[r].seen = read
                                ELSE Dist(read, reg[r].seen) <= Dist(read, write)
  /\ pc[r] \in {"load", "take"} /\ OnTarget(r) => read # write
  /\ pc[r] = "take" /\ OnTarget(r) => reg[r].ptr = array[read]

RingInv == TypeOK /\ (\A w \in Writer : WriterOK(w)) /\ (\A r \in Reader : ReaderOK(r))

(* The threads other than t stay where they are.                           *)
Moves(t) == \A u \in Thread \ {t} : pc'[u] = pc[u] /\ reg'[u] = reg[u]

LEMMA ThreadTypes ==
  /\ Reader \subseteq Thread /\ Writer \subseteq Thread /\ Reader \cap Writer = {}
  /\ NULL \notin Item /\ NULL \notin Thread /\ \A w \in Writer : w \in Thread /\ w \notin Reader
BY RingBufferAssumption DEF Thread, Item

(* Threads do not notice the step of another one that changes no index and *)
(* no slot they look at.                                                   *)
LEMMA OtherReaders ==
  ASSUME TypeOK, NEW t, Moves(t), UNCHANGED <<read, write, array>>, NEW r \in Reader \ {t}, ReaderOK(r)
  PROVE  ReaderOK(r)'
BY ThreadTypes DEF ReaderOK, Moves, OnTarget, Target, Dist

LEMMA OtherWriters ==
  ASSUME TypeOK, NEW t, Moves(t), UNCHANGED bufVars, NEW w \in Writer \ {t}, WriterOK(w)
  PROVE  WriterOK(w)'
BY ThreadTypes DEF WriterOK, Moves, Dist, bufVars

LEMMA QuietStep ==
  ASSUME RingInv, TypeOK', NEW t \in Thread, Moves(t), UNCHANGED bufVars,
         t \in Writer => WriterOK(t)', t \in Reader => ReaderOK(t)'
  PROVE  RingInv'
BY OtherReaders, OtherWriters DEF RingInv, bufVars

(***************************************************************************)
(* Types, and the first state.                                             *)
(***************************************************************************)

LEMMA InitInv == Init => RingInv
<1> SUFFICES ASSUME Init PROVE RingInv
  OBVIOUS
<1>1. TypeOK
  <2>1. 0 \in Index /\ 0 \in 0 .. MaxPuts
    BY SizeType, RingBufferAssumption DEF Index
  <2>2. NoReg \in RegRec
    BY <2>1 DEF NoReg, RegRec
  <2>3. "idle" \in Label
    BY DEF Label
  <2> QED BY <2>1, <2>2, <2>3 DEF Init, TypeOK
<1>2. ASSUME NEW w \in Writer PROVE WriterOK(w)
  BY ThreadTypes DEF Init, WriterOK, Inside, NoReg
<1>3. ASSUME NEW r \in Reader PROVE ReaderOK(r)
  BY ThreadTypes DEF Init, ReaderOK
<1> QED BY <1>1, <1>2, <1>3 DEF RingInv

(* The fields of a thread's locals, one by one.                            *)
LEMMA RegType ==
  ASSUME TypeOK, NEW t \in Thread
  PROVE  /\ reg[t] \in RegRec /\ pc[t] \in Label
         /\ reg[t].seen \in Index /\ reg[t].readp \in Index /\ reg[t].ptr \in Item \cup {NULL}
         /\ reg[t].first \in {"read", "write"} /\ NoReg \in RegRec
BY SizeType DEF TypeOK, RegRec, NoReg, Index

(* Thread t goes to l with these locals.                                   *)
Goes(t, l, f, s, p, x) ==
  /\ pc' = [pc EXCEPT ![t] = l]
  /\ \E v \in RegRec : /\ reg' = [reg EXCEPT ![t] = v]
                       /\ v.first = f /\ v.seen = s /\ v.readp = p /\ v.ptr = x

LEMMA GoesType ==
  ASSUME TypeOK, NEW t \in Thread, NEW l \in Label, NEW f, NEW s, NEW p, NEW x,
         Goes(t, l, f, s, p, x)
  PROVE  /\ pc' \in [Thread -> Label] /\ reg' \in [Thread -> RegRec]
         /\ Moves(t)
         /\ pc'[t] = l /\ reg'[t].first = f /\ reg'[t].seen = s /\ reg'[t].readp = p /\ reg'[t].ptr = x
<1>1. PICK v \in RegRec : /\ reg' = [reg EXCEPT ![t] = v]
                          /\ v.first = f /\ v.seen = s /\ v.readp = p /\ v.ptr = x
  BY DEF Goes
<1>2. pc' = [pc EXCEPT ![t] = l]
  BY DEF Goes
<1>3. reg'[t] = v /\ pc'[t] = l
  BY <1>1, <1>2 DEF TypeOK
<1>4. pc' \in [Thread -> Label] /\ reg' \in [Thread -> RegRec] /\ Moves(t)
  BY <1>1, <1>2 DEF TypeOK, Moves
<1> QED BY <1>1, <1>3, <1>4

LEMMA SampledForm ==
  ASSUME TypeOK, NEW t \in Thread, NEW l, NEW f \in {"read", "write"}, NEW s \in Index,
         reg' = [reg EXCEPT ![t].first = f, ![t].seen = s], Goto(t, l)
  PROVE  Goes(t, l, f, s, reg[t].readp, reg[t].ptr)
<1> DEFINE v == [reg[t] EXCEPT !.first = f, !.seen = s]
<1>0. reg[t] \in RegRec
  BY DEF TypeOK
<1>1. v \in RegRec
  BY <1>0 DEF RegRec
<1>2. v.first = f /\ v.seen = s /\ v.readp = reg[t].readp /\ v.ptr = reg[t].ptr
  BY <1>0 DEF RegRec
<1>3. [reg EXCEPT ![t].first = f, ![t].seen = s] = [reg EXCEPT ![t] = v]
  BY DEF TypeOK
<1> HIDE DEF v
<1> QED BY <1>1, <1>2, <1>3 DEF Goto, Goes

LEMMA SampleForm ==
  ASSUME TypeOK, NEW t \in Thread, NEW l, Sample(t), Goto(t, l)
  PROVE  \/ Goes(t, l, "read", read, reg[t].readp, reg[t].ptr)
         \/ Goes(t, l, "write", write, reg[t].readp, reg[t].ptr)
<1>1. PICK r \in Index, w \in Index : r = read /\ w = write
  BY DEF TypeOK
<1>2. "read" \in {"read", "write"} /\ "write" \in {"read", "write"}
  OBVIOUS
<1>3. CASE reg' = [reg EXCEPT ![t].first = "read", ![t].seen = r]
  <2>1. Goes(t, l, "read", r, reg[t].readp, reg[t].ptr)
    BY <1>2, <1>3, SampledForm
  <2> QED BY <1>1, <2>1 DEF Goes
<1>4. CASE reg' = [reg EXCEPT ![t].first = "write", ![t].seen = w]
  <2>1. Goes(t, l, "write", w, reg[t].readp, reg[t].ptr)
    BY <1>2, <1>4, SampledForm
  <2> QED BY <1>1, <2>1 DEF Goes
<1> QED BY <1>1, <1>3, <1>4 DEF Sample

LEMMA SeenForm ==
  ASSUME TypeOK, NEW t \in Thread, NEW l, reg' = Seen(t), Goto(t, l)
  PROVE  Goes(t, l, "read", 0, reg[t].readp, reg[t].ptr)
<1> DEFINE v == [reg[t] EXCEPT !.first = "read", !.seen = 0]
<1>0. reg[t] \in RegRec /\ 0 \in Index
  BY SizeType DEF TypeOK, Index
<1>1. v \in RegRec
  BY <1>0 DEF RegRec
<1>2. v.first = "read" /\ v.seen = 0 /\ v.readp = reg[t].readp /\ v.ptr = reg[t].ptr
  BY <1>0 DEF RegRec
<1>3. Seen(t) = [reg EXCEPT ![t] = v]
  BY DEF TypeOK, Seen
<1> HIDE DEF v
<1> QED BY <1>1, <1>2, <1>3 DEF Goto, Goes

LEMMA SameForm ==
  ASSUME TypeOK, NEW t \in Thread, NEW l, UNCHANGED reg, Goto(t, l)
  PROVE  Goes(t, l, reg[t].first, reg[t].seen, reg[t].readp, reg[t].ptr)
<1>1. reg[t] \in RegRec /\ reg = [reg EXCEPT ![t] = reg[t]]
  BY DEF TypeOK
<1> QED BY <1>1 DEF Goto, Goes

(* ptr or readp changes, or both.                                          *)
LEMMA PtrForm ==
  ASSUME TypeOK, NEW t \in Thread, NEW l, NEW x \in Item \cup {NULL}, NEW i \in Index,
         Goto(t, l)
  PROVE  /\ reg' = [reg EXCEPT ![t].ptr = x] =>
              Goes(t, l, reg[t].first, reg[t].seen, reg[t].readp, x)
         /\ reg' = [reg EXCEPT ![t].readp = i] =>
              Goes(t, l, reg[t].first, reg[t].seen, i, reg[t].ptr)
         /\ reg' = [reg EXCEPT ![t].readp = i, ![t].ptr = x] =>
              Goes(t, l, reg[t].first, reg[t].seen, i, x)
<1> DEFINE v == [reg[t] EXCEPT !.ptr = x]
           u == [reg[t] EXCEPT !.readp = i]
           w == [reg[t] EXCEPT !.readp = i, !.ptr = x]
<1>0. reg[t] \in RegRec
  BY DEF TypeOK
<1>1. v \in RegRec /\ u \in RegRec /\ w \in RegRec
  BY <1>0 DEF RegRec
<1>2. v.first = reg[t].first /\ v.seen = reg[t].seen /\ v.readp = reg[t].readp /\ v.ptr = x
  BY <1>0 DEF RegRec
<1>3. u.first = reg[t].first /\ u.seen = reg[t].seen /\ u.readp = i /\ u.ptr = reg[t].ptr
  BY <1>0 DEF RegRec
<1>4. w.first = reg[t].first /\ w.seen = reg[t].seen /\ w.readp = i /\ w.ptr = x
  BY <1>0 DEF RegRec
<1>5. /\ [reg EXCEPT ![t].ptr = x] = [reg EXCEPT ![t] = v]
      /\ [reg EXCEPT ![t].readp = i] = [reg EXCEPT ![t] = u]
      /\ [reg EXCEPT ![t].readp = i, ![t].ptr = x] = [reg EXCEPT ![t] = w]
  BY DEF TypeOK
<1> HIDE DEF u, v, w
<1> QED BY <1>1, <1>2, <1>3, <1>4, <1>5 DEF Goto, Goes

LEMMA IdleNoReg ==
  ASSUME NEW t, NEW l, reg' = [reg EXCEPT ![t] = NoReg], Goto(t, l)
  PROVE  Goes(t, l, "read", 0, 0, NULL)
<1>1. NoReg \in RegRec
  BY SizeType DEF NoReg, RegRec, Index
<1> QED BY <1>1 DEF Goto, Goes, NoReg

LEMMA IdleForm ==
  ASSUME NEW t, BackToIdle(t) PROVE Goes(t, "idle", "read", 0, 0, NULL)
BY IdleNoReg DEF BackToIdle

(***************************************************************************)
(* Steps that leave the buffer alone.                                      *)
(***************************************************************************)

(* Where thread t is after the step, and what it has in its locals.        *)
Landed(t, l, f, s, p, x) ==
  /\ TypeOK' /\ Moves(t) /\ pc'[t] = l
  /\ reg'[t].first = f /\ reg'[t].seen = s /\ reg'[t].readp = p /\ reg'[t].ptr = x

LEMMA QuietGoes ==
  ASSUME RingInv, NEW t \in Thread, NEW l \in Label, NEW f, NEW s, NEW p, NEW x,
         Goes(t, l, f, s, p, x), UNCHANGED <<bufVars, shutdown>>, npput' \in 0 .. MaxPuts,
         Landed(t, l, f, s, p, x) => (t \in Writer => WriterOK(t)') /\ (t \in Reader => ReaderOK(t)')
  PROVE  RingInv'
<1>0. TypeOK
  BY DEF RingInv
<1>1. /\ pc' \in [Thread -> Label] /\ reg' \in [Thread -> RegRec] /\ Moves(t) /\ pc'[t] = l
      /\ reg'[t].first = f /\ reg'[t].seen = s /\ reg'[t].readp = p /\ reg'[t].ptr = x
  BY <1>0, GoesType
<1>2. TypeOK'
  BY <1>0, <1>1 DEF TypeOK, bufVars
<1>3. Landed(t, l, f, s, p, x)
  BY <1>1, <1>2 DEF Landed
<1> QED BY <1>1, <1>2, <1>3, QuietStep

(* The locals of a thread have their types.                                *)
LEMMA RegParts ==
  ASSUME TypeOK, NEW t \in Thread
  PROVE  /\ reg[t].seen \in Index /\ reg[t].readp \in Index /\ reg[t].ptr \in Item \cup {NULL}
         /\ read \in Index /\ write \in Index
<1>1. reg[t] \in RegRec
  BY DEF TypeOK
<1> QED BY <1>1 DEF RegRec, TypeOK

LEMMA SampleStep ==
  ASSUME RingInv, NEW t \in Thread, NEW l,
         (pc[t] = "test" /\ l = "compare") \/ (t \in Reader /\ pc[t] = "scan" /\ l = "recheck"),
         Sample(t), Goto(t, l), UNCHANGED <<bufVars, shutdown, npput>>
  PROVE  RingInv'
<1>0. TypeOK /\ npput' \in 0 .. MaxPuts /\ l \in Label
  BY DEF RingInv, TypeOK, Label
<1>d. /\ read \in Index /\ write \in Index /\ Dist(read, write) \in Nat
      /\ Dist(read, write) <= Dist(read, write)
  BY <1>0, DistType DEF TypeOK
<1>1. ASSUME NEW f, NEW s, Landed(t, l, f, s, reg[t].readp, reg[t].ptr),
             (f = "read" /\ s = read) \/ (f = "write" /\ s = write)
      PROVE  (t \in Writer => WriterOK(t)') /\ (t \in Reader => ReaderOK(t)')
  <2>1. ASSUME t \in Writer PROVE WriterOK(t)'
    <3>1. WriterOK(t) /\ t \notin Reader /\ pc[t] = "test" /\ l = "compare"
      BY <2>1, ThreadTypes DEF RingInv
    <3>2. pc'[t] = "compare" /\ reg'[t].ptr \in Item
      BY <1>1, <3>1 DEF WriterOK, Landed
    <3>3. IF reg'[t].first = "read" THEN Dist(read', write') <= Dist(reg'[t].seen, write')
                                    ELSE reg'[t].seen = write'
      BY <1>1, <1>d DEF bufVars, Landed
    <3> QED BY <3>2, <3>3 DEF WriterOK, Inside
  <2>2. ASSUME t \in Reader PROVE ReaderOK(t)'
    <3>1. ReaderOK(t)
      BY <2>2 DEF RingInv
    <3>2. pc'[t] \in {"compare"} \cup (IF MultiReader THEN {"recheck"} ELSE {})
      BY <1>1, <3>1 DEF ReaderOK, Landed
    <3>3. IF reg'[t].first = "read" THEN reg'[t].seen = read'
                                    ELSE Dist(read', reg'[t].seen) <= Dist(read', write')
      BY <1>1, <1>d DEF bufVars, Landed
    <3> QED BY <3>2, <3>3 DEF ReaderOK
  <2> QED BY <2>1, <2>2
<1>2. CASE Goes(t, l, "read", read, reg[t].readp, reg[t].ptr)
  BY <1>0, <1>1, <1>2, QuietGoes
<1>3. CASE Goes(t, l, "write", write, reg[t].readp, reg[t].ptr)
  BY <1>0, <1>1, <1>3, QuietGoes
<1> QED BY <1>0, <1>2, <1>3, SampleForm

LEMMA TestStep == ASSUME RingInv, NEW t \in Thread, Test(t) PROVE RingInv'
BY SampleStep DEF Test

LEMMA ScanStep == ASSUME RingInv, NEW r \in Reader, Scan(r) PROVE RingInv'
BY SampleStep, ThreadTypes DEF Scan

LEMMA CallGetStep == ASSUME RingInv, NEW r \in Reader, CallGet(r) PROVE RingInv'
<1>0. TypeOK /\ npput' \in 0 .. MaxPuts /\ "test" \in Label /\ r \in Thread /\ r \notin Writer
  BY ThreadTypes DEF RingInv, TypeOK, Label, CallGet
<1>1. Goes(r, "test", reg[r].first, reg[r].seen, reg[r].readp, reg[r].ptr)
  BY <1>0, SameForm DEF CallGet
<1>2. pc'[r] = "test" => ReaderOK(r)'
  BY DEF ReaderOK
<1> QED BY <1>0, <1>1, <1>2, QuietGoes DEF CallGet, Landed

LEMMA CallPutStep == ASSUME RingInv, NEW w \in Writer, CallPut(w) PROVE RingInv'
<1>0. TypeOK /\ "test" \in Label /\ w \in Thread /\ w \notin Reader
  BY ThreadTypes DEF RingInv, Label
<1>1. npput' \in 0 .. MaxPuts /\ npput + 1 \in Item
  BY <1>0, RingBufferAssumption DEF TypeOK, CallPut, Item
<1>2. Goes(w, "test", reg[w].first, reg[w].seen, reg[w].readp, npput + 1)
  BY <1>0, <1>1, RegParts, PtrForm DEF CallPut
<1>3. pc'[w] = "test" /\ reg'[w].ptr = npput + 1 => WriterOK(w)'
  BY <1>1 DEF WriterOK, Inside
<1> QED BY <1>0, <1>1, <1>2, <1>3, QuietGoes DEF CallPut, Landed

LEMMA ReturnStep == ASSUME RingInv, NEW r \in Reader, ReturnPtr(r) PROVE RingInv'
<1>0. TypeOK /\ npput' \in 0 .. MaxPuts /\ "idle" \in Label /\ r \in Thread /\ r \notin Writer
  BY ThreadTypes DEF RingInv, TypeOK, Label, ReturnPtr
<1>1. Goes(r, "idle", "read", 0, 0, NULL)
  BY IdleForm DEF ReturnPtr
<1>2. pc'[r] = "idle" => ReaderOK(r)'
  BY DEF ReaderOK
<1> QED BY <1>0, <1>1, <1>2, QuietGoes DEF ReturnPtr, Landed

LEMMA ShutdownStep == ASSUME RingInv, Shutdown PROVE RingInv'
<1>1. TypeOK'
  BY DEF Shutdown, RingInv, TypeOK, bufVars
<1>2. ASSUME NEW w \in Writer PROVE WriterOK(w)'
  BY DEF Shutdown, RingInv, WriterOK, Dist, bufVars
<1>3. ASSUME NEW r \in Reader PROVE ReaderOK(r)'
  BY DEF Shutdown, RingInv, ReaderOK, OnTarget, Target, Dist, bufVars
<1> QED BY <1>1, <1>2, <1>3 DEF RingInv

(* What the comparison finds is what the tests of the next steps rely on.  *)
LEMMA CompareReader ==
  ASSUME RingInv, NEW r \in Reader, pc[r] = (IF MultiReader THEN "recheck" ELSE "compare"),
         ~SawEmpty(r), OnTarget(r)
  PROVE  read # write
<1>1. ReaderOK(r) /\ TypeOK /\ r \in Thread
  BY ThreadTypes DEF RingInv
<1>2. reg[r].seen \in Index /\ read \in Index /\ write \in Index
  BY <1>1, RegParts
<1>3. CASE reg[r].first = "read"
  BY <1>1, <1>3 DEF ReaderOK, SawEmpty, ReadSeen, WriteSeen, Empty
<1>4. CASE reg[r].first # "read"
  <2>1. Dist(read, reg[r].seen) <= Dist(read, write)
    BY <1>1, <1>4 DEF ReaderOK
  <2>2. reg[r].first = "write"
    BY <1>1, <1>4 DEF TypeOK, RegRec
  <2>3. reg[r].seen # read
    BY <1>4, <2>2 DEF SawEmpty, ReadSeen, WriteSeen, Empty
  <2> QED BY <1>2, <2>1, <2>3, DistType
<1> QED BY <1>3, <1>4

LEMMA CompareWriter ==
  ASSUME RingInv, NEW w \in Writer, ~MultiWriter, pc[w] = "compare", ~SawFull(w)
  PROVE  Dist(read, write) < Size - 1
<1>1. WriterOK(w) /\ TypeOK /\ w \in Thread
  BY ThreadTypes DEF RingInv
<1>2. reg[w].seen \in Index /\ read \in Index /\ write \in Index
  BY <1>1, RegParts
<1>3. CASE reg[w].first = "read"
  <2>1. Dist(read, write) <= Dist(reg[w].seen, write)
    BY <1>1, <1>3 DEF WriterOK
  <2>2. ~Full(reg[w].seen, write)
    BY <1>3 DEF SawFull, ReadSeen, WriteSeen
  <2>3. Dist(reg[w].seen, write) < Size - 1
    BY <1>2, <2>2, DistType, FullMeans, SizeType
  <2> QED BY <1>2, <2>1, <2>3, DistType, SizeType
<1>4. CASE reg[w].first # "read"
  <2>1. reg[w].first = "write" /\ reg[w].seen = write
    BY <1>1, <1>4 DEF WriterOK, TypeOK, RegRec
  <2>2. ~Full(read, write)
    BY <1>4, <2>1 DEF SawFull, ReadSeen, WriteSeen
  <2> QED BY <1>2, <2>2, DistType, FullMeans, SizeType
<1> QED BY <1>3, <1>4

LEMMA CompareStep == ASSUME RingInv, NEW t \in Thread, Compare(t) PROVE RingInv'
<1>0. TypeOK /\ npput' \in 0 .. MaxPuts /\ {"idle", "test", "start", "load", "lock", "store"} \subseteq Label
  BY DEF RingInv, TypeOK, Label, Compare
<1>t. pc[t] = "compare" /\ UNCHANGED <<bufVars, shutdown>>
  BY DEF Compare
<1>1. CASE BackToIdle(t)
  <2>1. Landed(t, "idle", "read", 0, 0, NULL) =>
          (t \in Writer => WriterOK(t)') /\ (t \in Reader => ReaderOK(t)')
    BY DEF Landed, WriterOK, ReaderOK, Inside
  <2> QED BY <1>0, <1>t, <1>1, <2>1, IdleForm, QuietGoes
<1>2. CASE Goto(t, "test") /\ reg' = Seen(t)
  <2>1. ASSUME Landed(t, "test", "read", 0, reg[t].readp, reg[t].ptr)
        PROVE  (t \in Writer => WriterOK(t)') /\ (t \in Reader => ReaderOK(t)')
    <3>1. t \in Writer => reg[t].ptr \in Item
      BY <1>t DEF RingInv, WriterOK
    <3> QED BY <2>1, <3>1 DEF Landed, WriterOK, ReaderOK, Inside
  <2> QED BY <1>0, <1>t, <1>2, <2>1, SeenForm, QuietGoes
<1>3. CASE /\ t \in Reader /\ ~SawEmpty(t) /\ reg' = Seen(t)
           /\ Goto(t, IF MultiReader THEN "start" ELSE "load")
  <2> DEFINE l == IF MultiReader THEN "start" ELSE "load"
  <2>0. l \in Label /\ t \notin Writer
    BY <1>0, <1>3, ThreadTypes
  <2>1. ASSUME Landed(t, l, "read", 0, reg[t].readp, reg[t].ptr) PROVE ReaderOK(t)'
    <3>1. ~MultiReader => read # write
      BY <1>t, <1>3, CompareReader DEF OnTarget
    <3> QED BY <2>1, <3>1, <1>t DEF Landed, ReaderOK, bufVars, OnTarget
  <2> HIDE DEF l
  <2>2. Goes(t, l, "read", 0, reg[t].readp, reg[t].ptr)
    BY <1>0, <1>3, SeenForm DEF l
  <2> QED BY <1>0, <1>t, <2>0, <2>1, <2>2, QuietGoes
<1>4. CASE /\ t \in Writer /\ t \notin Reader /\ ~SawFull(t) /\ reg' = Seen(t)
           /\ Goto(t, IF MultiWriter THEN "lock" ELSE "store")
  <2> DEFINE l == IF MultiWriter THEN "lock" ELSE "store"
  <2>0. l \in Label
    BY <1>0
  <2>1. ASSUME Landed(t, l, "read", 0, reg[t].readp, reg[t].ptr) PROVE WriterOK(t)'
    <3>1. ~MultiWriter => Dist(read, write) < Size - 1
      BY <1>t, <1>4, CompareWriter
    <3>2. reg[t].ptr \in Item
      BY <1>t, <1>4 DEF RingInv, WriterOK
    <3>3. ~MultiWriter => Dist(read', write') < Size - 1
      BY <1>t, <3>1 DEF bufVars
    <3> QED BY <2>1, <3>2, <3>3 DEF Landed, WriterOK, Inside
  <2> HIDE DEF l
  <2>2. Goes(t, l, "read", 0, reg[t].readp, reg[t].ptr)
    BY <1>0, <1>4, SeenForm DEF l
  <2> QED BY <1>0, <1>t, <1>4, <2>0, <2>1, <2>2, QuietGoes
<1>5. t \in Reader \/ (t \in Writer /\ t \notin Reader)
  BY ThreadTypes DEF Thread
<1> QED BY <1>1, <1>2, <1>3, <1>4, <1>5 DEF Compare

LEMMA StartStep == ASSUME RingInv, NEW r \in Reader, Start(r) PROVE RingInv'
<1>0. /\ TypeOK /\ npput' \in 0 .. MaxPuts /\ "scan" \in Label /\ r \in Thread /\ r \notin Writer
      /\ ReaderOK(r) /\ Pred(read) \in Index
  BY ThreadTypes, SuccType DEF RingInv, TypeOK, Label, Start
<1>1. Goes(r, "scan", reg[r].first, reg[r].seen, Pred(read), reg[r].ptr)
  BY <1>0, PtrForm, RegParts DEF Start
<1>2. pc'[r] = "scan" => ReaderOK(r)'
  BY <1>0 DEF ReaderOK, Start
<1> QED BY <1>0, <1>1, <1>2, QuietGoes DEF Start, Landed

LEMMA RecheckStep == ASSUME RingInv, NEW r \in Reader, Recheck(r) PROVE RingInv'
<1>0. /\ TypeOK /\ npput' \in 0 .. MaxPuts /\ {"test", "load"} \subseteq Label /\ r \in Thread
      /\ r \notin Writer /\ ReaderOK(r) /\ pc[r] = "recheck" /\ UNCHANGED <<bufVars, shutdown>>
  BY ThreadTypes DEF RingInv, TypeOK, Label, Recheck
<1>m. MultiReader
  BY <1>0 DEF ReaderOK
<1>1. CASE Goto(r, "test") /\ reg' = [reg EXCEPT ![r] = NoReg]
  <2>1. Goes(r, "test", "read", 0, 0, NULL)
    BY <1>1, IdleNoReg
  <2>2. pc'[r] = "test" => ReaderOK(r)'
    BY DEF ReaderOK
  <2> QED BY <1>0, <2>1, <2>2, QuietGoes DEF Landed
<1>2. CASE ~EmptyAgain(r) /\ Goto(r, "load") /\ reg' = Seen(r)
  <2>1. ASSUME Landed(r, "load", "read", 0, reg[r].readp, reg[r].ptr) PROVE ReaderOK(r)'
    <3>1. OnTarget(r) => read # write
      BY <1>0, <1>m, <1>2, CompareReader DEF EmptyAgain
    <3>2. OnTarget(r)' => OnTarget(r)
      BY <1>0, <2>1 DEF OnTarget, Target, Landed, bufVars
    <3> QED BY <1>0, <1>m, <2>1, <3>1, <3>2 DEF Landed, ReaderOK, bufVars
  <2>2. Goes(r, "load", "read", 0, reg[r].readp, reg[r].ptr)
    BY <1>0, <1>2, SeenForm
  <2> QED BY <1>0, <2>1, <2>2, QuietGoes
<1> QED BY <1>1, <1>2 DEF Recheck

LEMMA LoadStep == ASSUME RingInv, NEW r \in Reader, Load(r) PROVE RingInv'
<1> DEFINE i == IF MultiReader THEN Succ(reg[r].readp) ELSE read
<1>0. /\ TypeOK /\ npput' \in 0 .. MaxPuts /\ "take" \in Label /\ r \in Thread /\ r \notin Writer
      /\ ReaderOK(r) /\ pc[r] = "load" /\ UNCHANGED <<bufVars, shutdown>>
  BY ThreadTypes DEF RingInv, TypeOK, Label, Load
<1>1. i \in Index
  BY <1>0, RegParts, SuccType
<1>2. array[i] \in Item \cup {NULL}
  BY <1>0, <1>1 DEF TypeOK
<1>3. reg' = [reg EXCEPT ![r].readp = i, ![r].ptr = array[i]] /\ Goto(r, "take")
  BY DEF Load
<1>4. ASSUME Landed(r, "take", reg[r].first, reg[r].seen, i, array[i]) PROVE ReaderOK(r)'
  <2>1. OnTarget(r)' => OnTarget(r) /\ i = read
    BY <1>0, <1>4 DEF OnTarget, Target, Landed, bufVars
  <2> QED BY <1>0, <1>4, <2>1 DEF Landed, ReaderOK, bufVars
<1> HIDE DEF i
<1>5. Goes(r, "take", reg[r].first, reg[r].seen, i, array[i])
  BY <1>0, <1>1, <1>2, <1>3, PtrForm
<1> QED BY <1>0, <1>4, <1>5, QuietGoes

(***************************************************************************)
(* Steps on the buffer.                                                    *)
(***************************************************************************)

(* A reader that takes a pointer moves rb->read, for the readers and the   *)
(* writers that sampled it before.                                         *)
LEMMA TakeStep == ASSUME RingInv, NEW r \in Reader, Take(r) PROVE RingInv'
<1>0. /\ TypeOK /\ {"return", "scan"} \subseteq Label /\ r \in Thread /\ r \notin Writer
      /\ ReaderOK(r) /\ pc[r] = "take" /\ UNCHANGED <<array, write, spin, shutdown, npput>>
  BY ThreadTypes DEF RingInv, Label, Take
<1>r. /\ read \in Index /\ write \in Index /\ reg[r].readp \in Index
      /\ reg[r].ptr \in Item \cup {NULL} /\ NULL \in Item \cup {NULL}
  BY <1>0, RegParts
<1>1. CASE /\ Swaps(r) /\ NoLap(r) /\ read' = Succ(read)
           /\ Goto(r, "return") /\ UNCHANGED reg
  <2>0. Goes(r, "return", reg[r].first, reg[r].seen, reg[r].readp, reg[r].ptr)
    BY <1>0, <1>1, SameForm
  <2>1. pc' \in [Thread -> Label] /\ reg' \in [Thread -> RegRec] /\ Moves(r) /\ pc'[r] = "return"
    BY <1>0, <2>0, GoesType
  <2>2. Succ(read) \in Index
    BY <1>r, SuccType
  <2>3. TypeOK'
    BY <1>0, <1>1, <2>1, <2>2 DEF TypeOK
  <2>4. read # write
    BY <1>0, <1>1 DEF ReaderOK, OnTarget, Target, Swaps
  <2>5. /\ Dist(read', write') = Dist(read, write) - 1 /\ Dist(read, write) \in Nat
        /\ Dist(read, write) <= Size - 1
    BY <1>0, <1>1, <1>r, <2>4, DistGet, DistType
  <2>6. ReaderOK(r)'
    BY <2>1 DEF ReaderOK
  <2>7. ASSUME NEW u \in Reader, u # r PROVE ReaderOK(u)'
    <3>1. pc'[u] = pc[u] /\ reg'[u] = reg[u] /\ ReaderOK(u) /\ MultiReader
      BY <2>1, <2>7, ThreadTypes, OneReader DEF Moves, RingInv
    <3>2. pc'[u] \in {"recheck", "load", "take"} => ~OnTarget(u)'
      BY <1>1, <2>7, <3>1 DEF NoLap, OnTarget, Target
    <3> QED BY <3>1, <3>2 DEF ReaderOK
  <2>8. ASSUME NEW w \in Writer PROVE WriterOK(w)'
    <3>1. pc'[w] = pc[w] /\ reg'[w] = reg[w] /\ WriterOK(w) /\ w \in Thread
      BY <1>0, <2>1, ThreadTypes DEF Moves, RingInv
    <3>2. reg[w].seen \in Index /\ Dist(reg[w].seen, write) \in Nat
      BY <1>0, <1>r, <3>1, RegParts, DistType
    <3>3. pc'[w] \in {"store", "advance"} => Dist(read', write') < Size - 1
      BY <2>5, <3>1, SizeType DEF WriterOK
    <3>4. ~MultiWriter /\ pc'[w] = "compare" =>
            IF reg'[w].first = "read" THEN Dist(read', write') <= Dist(reg'[w].seen, write')
                                      ELSE reg'[w].seen = write'
      BY <1>0, <2>5, <3>1, <3>2 DEF WriterOK
    <3> QED BY <1>0, <3>1, <3>3, <3>4 DEF WriterOK
  <2> QED BY <2>3, <2>6, <2>7, <2>8 DEF RingInv
<1>2. CASE ~Swaps(r) /\ Goto(r, "scan") /\ reg' = [reg EXCEPT ![r].ptr = NULL] /\ UNCHANGED read
  <2>0. Goes(r, "scan", reg[r].first, reg[r].seen, reg[r].readp, NULL)
    BY <1>0, <1>2, <1>r, PtrForm
  <2>1. pc'[r] = "scan" => ReaderOK(r)'
    BY <1>2 DEF ReaderOK, Swaps
  <2>2. npput' \in 0 .. MaxPuts /\ UNCHANGED <<bufVars, shutdown>>
    BY <1>0, <1>2 DEF TypeOK, bufVars
  <2> QED BY <1>0, <2>0, <2>1, <2>2, QuietGoes DEF Landed
<1> QED BY <1>1, <1>2 DEF Take

(* Only the thread that holds the spin lock is inside Put.                 *)
LEMMA OneInside ==
  ASSUME RingInv, NEW w \in Writer, NEW u \in Writer,
         pc[w] \in Inside, pc[u] \in Inside
  PROVE  u = w
BY OneWriter DEF RingInv, WriterOK

LEMMA SpinStep ==
  ASSUME RingInv, NEW w \in Writer, Lock(w) \/ Locked(w) PROVE RingInv'
<1>0. /\ TypeOK /\ {"locked", "test", "store"} \subseteq Label /\ w \in Thread /\ w \notin Reader
      /\ WriterOK(w) /\ UNCHANGED <<array, read, write, shutdown, npput, reg>>
  BY ThreadTypes DEF RingInv, Label, Lock, Locked
<1>1. PICK l \in {"locked", "test", "store"} : Goto(w, l)
  BY DEF Lock, Locked
<1>2. pc' \in [Thread -> Label] /\ reg' \in [Thread -> RegRec] /\ Moves(w) /\ pc'[w] = l
  BY <1>0, <1>1, SameForm, GoesType
<1>3. TypeOK'
  <2>1. spin' \in Writer \cup {NULL}
    BY <1>0 DEF Lock, Locked, TypeOK
  <2> QED BY <1>0, <1>2, <2>1 DEF TypeOK
<1>4. ASSUME NEW r \in Reader PROVE ReaderOK(r)'
  <2>1. r # w /\ ReaderOK(r)
    BY <1>0 DEF RingInv
  <2> QED BY <1>0, <1>2, <2>1, OtherReaders
<1>5. WriterOK(w)'
  <2>p. reg'[w].ptr \in Item
    BY <1>0 DEF WriterOK, Lock, Locked
  <2>1. CASE Lock(w)
    <3>1. pc'[w] = "locked" /\ spin' = w
      BY <1>0, <2>1 DEF Lock, Goto, TypeOK
    <3> QED BY <2>p, <3>1 DEF WriterOK, Inside
  <2>2. CASE Locked(w) /\ FullAgain
    <3>1. pc'[w] = "test"
      BY <1>0, <2>2 DEF Locked, Goto, TypeOK
    <3> QED BY <2>p, <3>1 DEF WriterOK, Inside
  <2>3. CASE Locked(w) /\ ~FullAgain
    <3>1. pc'[w] = "store" /\ spin' = spin /\ pc[w] = "locked"
      BY <1>0, <2>3 DEF Locked, Goto, TypeOK
    <3>2. read \in Index /\ write \in Index
      BY <1>0 DEF TypeOK
    <3>3. Dist(read', write') < Size - 1
      BY <1>0, <2>3, <3>2, FullMeans, DistType, SizeType DEF FullAgain
    <3> QED BY <1>0, <2>p, <3>1, <3>3 DEF WriterOK, Inside
  <2> QED BY <2>1, <2>2, <2>3
<1>6. ASSUME NEW u \in Writer, u # w PROVE WriterOK(u)'
  <2>1. pc'[u] = pc[u] /\ reg'[u] = reg[u] /\ WriterOK(u)
    BY <1>2, <1>6, ThreadTypes DEF Moves, RingInv
  <2>2. MultiWriter /\ pc'[u] \notin Inside
    <3>1. MultiWriter
      BY <1>6, OneWriter
    <3>2. CASE Lock(w)
      BY <2>1, <3>1, <3>2, ThreadTypes DEF Lock, WriterOK
    <3>3. CASE Locked(w)
      <4>1. pc[w] \in Inside
        BY <3>3 DEF Locked, Inside
      <4> QED BY <1>6, <2>1, <3>1, <4>1, OneInside
    <3> QED BY <1>0, <3>1, <3>2, <3>3
  <2> QED BY <2>1, <2>2 DEF WriterOK, Inside
<1> QED BY <1>3, <1>4, <1>5, <1>6 DEF RingInv

LEMMA StoreStep == ASSUME RingInv, NEW w \in Writer, Store(w) PROVE RingInv'
<1>0. /\ TypeOK /\ "advance" \in Label /\ w \in Thread /\ w \notin Reader /\ WriterOK(w)
      /\ pc[w] = "store" /\ UNCHANGED <<read, write, spin, shutdown, npput, reg>>
      /\ write \in Index /\ read \in Index
  BY ThreadTypes DEF RingInv, TypeOK, Label, Store
<1>1. pc' \in [Thread -> Label] /\ reg' \in [Thread -> RegRec] /\ Moves(w) /\ pc'[w] = "advance"
  BY <1>0, SameForm, GoesType DEF Store
<1>2. array' = [array EXCEPT ![write] = reg[w].ptr] /\ reg[w].ptr \in Item
  BY <1>0 DEF Store, WriterOK
<1>3. TypeOK' /\ array'[write] = reg[w].ptr
  BY <1>0, <1>1, <1>2 DEF TypeOK
<1>4. WriterOK(w)'
  BY <1>0, <1>1, <1>2, <1>3 DEF WriterOK, Inside, Dist
<1>5. ASSUME NEW u \in Writer, u # w PROVE WriterOK(u)'
  <2>1. pc'[u] = pc[u] /\ reg'[u] = reg[u] /\ WriterOK(u)
    BY <1>1, <1>5, ThreadTypes DEF Moves, RingInv
  <2>2. MultiWriter /\ pc'[u] \notin Inside
    BY <1>0, <1>5, <2>1, OneInside, OneWriter DEF Inside
  <2> QED BY <2>1, <2>2 DEF WriterOK, Inside
<1>6. ASSUME NEW r \in Reader PROVE ReaderOK(r)'
  <2>1. r # w /\ ReaderOK(r) /\ pc'[r] = pc[r] /\ reg'[r] = reg[r]
    BY <1>0, <1>1, <1>6, ThreadTypes DEF RingInv, Moves
  <2>2. pc'[r] = "take" /\ OnTarget(r)' => reg'[r].ptr = array'[read']
    <3> SUFFICES ASSUME pc'[r] = "take", OnTarget(r)' PROVE reg'[r].ptr = array'[read']
      OBVIOUS
    <3>1. OnTarget(r)
      BY <1>0, <2>1 DEF OnTarget, Target
    <3>2. read # write /\ reg[r].ptr = array[read]
      BY <2>1, <3>1 DEF ReaderOK
    <3> QED BY <1>0, <1>2, <2>1, <3>2 DEF TypeOK
  <2>3. OnTarget(r)' <=> OnTarget(r)
    BY <1>0, <2>1 DEF OnTarget, Target
  <2> QED BY <1>0, <2>1, <2>2, <2>3 DEF ReaderOK, Dist
<1> QED BY <1>3, <1>4, <1>5, <1>6 DEF RingInv

LEMMA AdvanceStep == ASSUME RingInv, NEW w \in Writer, Advance(w) PROVE RingInv'
<1>0. /\ TypeOK /\ "idle" \in Label /\ w \in Thread /\ w \notin Reader /\ WriterOK(w)
      /\ pc[w] = "advance" /\ UNCHANGED <<array, read, shutdown, npput>>
      /\ write \in Index /\ read \in Index /\ write' = Succ(write) /\ spin' = NULL
  BY ThreadTypes DEF RingInv, TypeOK, Label, Advance
<1>1. /\ pc' \in [Thread -> Label] /\ reg' \in [Thread -> RegRec] /\ Moves(w)
      /\ pc'[w] = "idle" /\ reg'[w].ptr = NULL
  BY <1>0, IdleForm, GoesType DEF Advance
<1>2. Succ(write) \in Index
  BY <1>0, SuccType
<1>3. TypeOK'
  BY <1>0, <1>1, <1>2 DEF TypeOK
<1>4. Dist(read', write') = Dist(read, write) + 1 /\ Dist(read, write) \in Nat
  BY <1>0, DistPut, DistType DEF WriterOK
<1>5. WriterOK(w)'
  BY <1>1 DEF WriterOK, Inside
<1>6. ASSUME NEW u \in Writer, u # w PROVE WriterOK(u)'
  <2>1. pc'[u] = pc[u] /\ reg'[u] = reg[u] /\ WriterOK(u)
    BY <1>1, <1>6, ThreadTypes DEF Moves, RingInv
  <2>2. MultiWriter /\ pc'[u] \notin Inside
    BY <1>0, <1>6, <2>1, OneInside, OneWriter DEF Inside
  <2> QED BY <2>1, <2>2 DEF WriterOK, Inside
<1>7. ASSUME NEW r \in Reader PROVE ReaderOK(r)'
  <2>1. /\ r # w /\ ReaderOK(r) /\ pc'[r] = pc[r] /\ reg'[r] = reg[r] /\ r \in Thread
        /\ (OnTarget(r)' <=> OnTarget(r))
    BY <1>0, <1>1, <1>7, ThreadTypes DEF RingInv, Moves, OnTarget, Target
  <2>2. read' # write'
    BY <1>0, <1>2, <1>4, DistType
  <2>3. reg[r].seen \in Index /\ Dist(read, reg[r].seen) \in Nat /\ Dist(read', reg'[r].seen) = Dist(read, reg[r].seen)
    BY <1>0, <2>1, RegParts, DistType
  <2>4. Dist(read, reg[r].seen) <= Dist(read, write) => Dist(read', reg'[r].seen) <= Dist(read', write')
    BY <1>4, <2>3
  <2> QED BY <1>0, <2>1, <2>2, <2>4 DEF ReaderOK
<1> QED BY <1>3, <1>5, <1>6, <1>7 DEF RingInv

LEMMA InvStep == RingInv /\ [Next]_vars => RingInv'
<1> SUFFICES ASSUME RingInv, [Next]_vars PROVE RingInv'
  OBVIOUS
<1>1. ASSUME NEW r \in Reader, CallGet(r) \/ ReaderStep(r) PROVE RingInv'
  BY <1>1, ThreadTypes, CallGetStep, TestStep, CompareStep, StartStep, ScanStep, RecheckStep,
     LoadStep, TakeStep, ReturnStep DEF ReaderStep
<1>2. ASSUME NEW w \in Writer, CallPut(w) \/ WriterStep(w) PROVE RingInv'
  BY <1>2, ThreadTypes, CallPutStep, TestStep, CompareStep, SpinStep, StoreStep, AdvanceStep
     DEF WriterStep
<1>3. CASE UNCHANGED vars
  BY <1>3 DEF vars, RingInv, TypeOK, WriterOK, ReaderOK, OnTarget, Target, Dist
<1> QED BY <1>1, <1>2, <1>3, ShutdownStep DEF Next

THEOREM InvHolds == Spec => []RingInv
BY InitInv, InvStep, PTL DEF Spec

(***************************************************************************)
(* The queue a ring buffer stands for.                                     *)
(***************************************************************************)

SlotOf(r, i) == IF r + i < Size THEN r + i ELSE r + i - Size
QueueOf(a, r, w) == [i \in 1 .. Dist(r, w) |-> a[SlotOf(r, i - 1)]]
Arrays == [Index -> Item \cup {NULL}]

LEMMA ContentsIs ==
  Contents = QueueOf(array, read, write) /\ Contents' = QueueOf(array', read', write')
BY DEF Contents, Count, Slot, QueueOf, Dist, SlotOf

LEMMA SlotType ==
  ASSUME NEW r \in Index, NEW w \in Index, NEW i \in 0 .. Size - 1
  PROVE  /\ SlotOf(r, i) \in Index
         /\ i < Dist(r, w) => SlotOf(r, i) # w
         /\ i = Dist(r, w) => SlotOf(r, i) = w
         /\ i < Size - 1 => SlotOf(Succ(r), i) = SlotOf(r, i + 1)
BY SizeType DEF Index, SlotOf, Dist, Succ

LEMMA QueueType ==
  ASSUME NEW a \in Arrays, NEW r \in Index, NEW w \in Index
  PROVE  /\ QueueOf(a, r, w) \in Seq(Item \cup {NULL}) /\ Len(QueueOf(a, r, w)) = Dist(r, w)
         /\ \A i \in 1 .. Dist(r, w) : QueueOf(a, r, w)[i] = a[SlotOf(r, i - 1)]
<1> DEFINE n == Dist(r, w)
           q == QueueOf(a, r, w)
<1>1. n \in Nat /\ n <= Size - 1
  BY DistType
<1>2. ASSUME NEW i \in 1 .. n PROVE a[SlotOf(r, i - 1)] \in Item \cup {NULL}
  <2>1. i - 1 \in 0 .. Size - 1
    BY <1>1, SizeType
  <2> QED BY <2>1, SlotType DEF Arrays
<1>3. q \in [1 .. n -> Item \cup {NULL}] /\ \A i \in 1 .. n : q[i] = a[SlotOf(r, i - 1)]
  BY <1>2 DEF QueueOf
<1> HIDE DEF n, q
<1>4. q \in Seq(Item \cup {NULL}) /\ Len(q) = n
  BY <1>1, <1>3
<1> QED BY <1>3, <1>4 DEF n, q

LEMMA QueueAfterPut ==
  ASSUME NEW a \in Arrays, NEW r \in Index, NEW w \in Index, Dist(r, w) < Size - 1
  PROVE  QueueOf(a, r, Succ(w)) = Append(QueueOf(a, r, w), a[w])
<1> DEFINE n == Dist(r, w)
           q == QueueOf(a, r, w)
           p == QueueOf(a, r, Succ(w))
<1>1. Succ(w) \in Index /\ n \in Nat /\ n <= Size - 1 /\ Dist(r, Succ(w)) = n + 1
  BY SuccType, DistType, DistPut
<1>2. /\ q \in Seq(Item \cup {NULL}) /\ Len(q) = n /\ \A i \in 1 .. n : q[i] = a[SlotOf(r, i - 1)]
      /\ p \in Seq(Item \cup {NULL}) /\ Len(p) = n + 1
      /\ \A i \in 1 .. n + 1 : p[i] = a[SlotOf(r, i - 1)]
  <2>1. q \in Seq(Item \cup {NULL}) /\ Len(q) = n /\ \A i \in 1 .. n : q[i] = a[SlotOf(r, i - 1)]
    BY QueueType
  <2>2. /\ p \in Seq(Item \cup {NULL}) /\ Len(p) = Dist(r, Succ(w))
        /\ \A i \in 1 .. Dist(r, Succ(w)) : p[i] = a[SlotOf(r, i - 1)]
    BY <1>1, QueueType
  <2> QED BY <1>1, <2>1, <2>2
<1>3. SlotOf(r, n) = w /\ a[w] \in Item \cup {NULL}
  BY <1>1, SlotType, SizeType DEF Arrays
<1>4. p[n + 1] = a[w]
  BY <1>1, <1>2, <1>3
<1> HIDE DEF n, q, p
<1>5. /\ Append(q, a[w]) \in Seq(Item \cup {NULL}) /\ Len(Append(q, a[w])) = n + 1
      /\ \A i \in 1 .. n : Append(q, a[w])[i] = q[i]
      /\ Append(q, a[w])[n + 1] = a[w]
  BY <1>1, <1>2, <1>3, AppendProperties
<1>6. ASSUME NEW i \in 1 .. n + 1 PROVE p[i] = Append(q, a[w])[i]
  <2>1. i \in 1 .. n \/ i = n + 1
    BY <1>1
  <2>2. CASE i \in 1 .. n
    BY <1>1, <1>2, <1>5, <2>2
  <2> QED BY <1>4, <1>5, <2>1, <2>2
<1>7. p = Append(q, a[w])
  BY <1>2, <1>5, <1>6, SeqEqual
<1> QED BY <1>7 DEF p, q

LEMMA QueueAfterGet ==
  ASSUME NEW a \in Arrays, NEW r \in Index, NEW w \in Index, r # w
  PROVE  /\ QueueOf(a, r, w) # <<>>
         /\ Head(QueueOf(a, r, w)) = a[r]
         /\ QueueOf(a, Succ(r), w) = Tail(QueueOf(a, r, w))
<1> DEFINE n == Dist(r, w)
           q == QueueOf(a, r, w)
           p == QueueOf(a, Succ(r), w)
<1>1. /\ Succ(r) \in Index /\ n \in Nat /\ n <= Size - 1 /\ n > 0 /\ Dist(Succ(r), w) = n - 1
  BY SuccType, DistType, DistGet
<1>2. /\ q \in Seq(Item \cup {NULL}) /\ Len(q) = n /\ \A i \in 1 .. n : q[i] = a[SlotOf(r, i - 1)]
      /\ p \in Seq(Item \cup {NULL}) /\ Len(p) = n - 1
      /\ \A i \in 1 .. n - 1 : p[i] = a[SlotOf(Succ(r), i - 1)]
  <2>1. q \in Seq(Item \cup {NULL}) /\ Len(q) = n /\ \A i \in 1 .. n : q[i] = a[SlotOf(r, i - 1)]
    BY QueueType
  <2>2. /\ p \in Seq(Item \cup {NULL}) /\ Len(p) = Dist(Succ(r), w)
        /\ \A i \in 1 .. Dist(Succ(r), w) : p[i] = a[SlotOf(Succ(r), i - 1)]
    BY <1>1, QueueType
  <2> QED BY <1>1, <2>1, <2>2
<1>3. q[1] = a[r]
  <2>1. SlotOf(r, 0) = r
    BY SizeType DEF SlotOf, Index
  <2> QED BY <1>1, <1>2, <2>1
<1>4. ASSUME NEW i \in 1 .. n - 1 PROVE p[i] = q[i + 1]
  <2>1. i - 1 \in 0 .. Size - 1 /\ i - 1 < Size - 1 /\ (i - 1) + 1 = (i + 1) - 1 /\ i + 1 \in 1 .. n
    BY <1>1, SizeType
  <2>2. SlotOf(Succ(r), i - 1) = SlotOf(r, (i + 1) - 1)
    BY <2>1, SlotType
  <2> QED BY <1>2, <2>1, <2>2
<1> HIDE DEF n, q, p
<1>5. q # <<>>
  BY <1>1, <1>2
<1>6. /\ Tail(q) \in Seq(Item \cup {NULL}) /\ Len(Tail(q)) = n - 1
      /\ \A i \in 1 .. n - 1 : Tail(q)[i] = q[i + 1]
  BY <1>2, <1>5, HeadTailProperties
<1>7. p = Tail(q)
  BY <1>2, <1>4, <1>6, SeqEqual
<1>8. Head(q) = q[1]
  BY <1>2, <1>5
<1> QED BY <1>3, <1>5, <1>7, <1>8 DEF p, q

(* The slot a writer fills is none of the queue's.                         *)
LEMMA QueueAfterStore ==
  ASSUME NEW a \in Arrays, NEW r \in Index, NEW w \in Index, NEW x \in Item
  PROVE  QueueOf([a EXCEPT ![w] = x], r, w) = QueueOf(a, r, w)
<1> DEFINE n == Dist(r, w)
           b == [a EXCEPT ![w] = x]
<1>1. n \in Nat /\ n <= Size - 1
  BY DistType
<1>2. ASSUME NEW i \in 1 .. n PROVE b[SlotOf(r, i - 1)] = a[SlotOf(r, i - 1)]
  <2>1. i - 1 \in 0 .. Size - 1 /\ i - 1 < n
    BY <1>1, SizeType
  <2>2. SlotOf(r, i - 1) \in Index /\ SlotOf(r, i - 1) # w
    BY <2>1, SlotType
  <2> QED BY <2>2 DEF Arrays
<1> HIDE DEF b, n
<1>3. QueueOf(b, r, w) = QueueOf(a, r, w)
  BY <1>2 DEF QueueOf, n
<1> QED BY <1>3 DEF b

(***************************************************************************)
(* Every step is one of the queue's, or none.                              *)
(***************************************************************************)

Given == [w \in Writer |-> reg[w].ptr]
Taken == [r \in Reader |-> IF pc[r] = "return" THEN reg[r].ptr ELSE NULL]

LEMMA ContentsAre == TypeOK => array \in Arrays /\ read \in Index /\ write \in Index
BY DEF TypeOK, Arrays

(* Nobody but t gives or takes.                                            *)
LEMMA OthersGive ==
  ASSUME NEW t \in Thread, Moves(t)
  PROVE  /\ \A w \in Writer \ {t} : Given'[w] = Given[w]
         /\ \A r \in Reader \ {t} : Taken'[r] = Taken[r]
BY ThreadTypes DEF Moves, Given, Taken

(* A step that neither gives nor takes.                                    *)
LEMMA Stutters ==
  ASSUME NEW t \in Thread, Moves(t), Contents' = Contents,
         t \in Writer => reg'[t].ptr = reg[t].ptr,
         t \in Reader => pc[t] # "return" /\ pc'[t] # "return"
  PROVE  UNCHANGED F!fifoVars
<1>1. ASSUME NEW w \in Writer PROVE reg'[w].ptr = reg[w].ptr
  BY ThreadTypes DEF Moves
<1>2. ASSUME NEW r \in Reader
      PROVE  (IF pc'[r] = "return" THEN reg'[r].ptr ELSE NULL)
               = (IF pc[r] = "return" THEN reg[r].ptr ELSE NULL)
  BY ThreadTypes DEF Moves
<1> QED BY <1>1, <1>2 DEF F!fifoVars

LEMMA QuietRefines ==
  ASSUME TypeOK, NEW t \in Thread, NEW l \in Label \ {"return"}, NEW f, NEW s, NEW p, NEW x,
         Goes(t, l, f, s, p, x), UNCHANGED <<array, read, write>>, pc[t] # "return",
         t \in Writer => x = reg[t].ptr
  PROVE  UNCHANGED F!fifoVars
<1>1. Moves(t) /\ pc'[t] = l /\ reg'[t].ptr = x
  BY GoesType
<1>2. Contents' = Contents
  BY DEF Contents, Count, Slot
<1> QED BY <1>1, <1>2, Stutters

LEMMA SampleRefines ==
  ASSUME RingInv, NEW t \in Thread, Test(t) \/ (t \in Reader /\ Scan(t))
  PROVE  UNCHANGED F!fifoVars
<1>1. PICK l \in {"compare", "recheck"} : Goto(t, l)
  BY DEF Test, Scan
<1>2. TypeOK /\ l \in Label \ {"return"} /\ pc[t] # "return" /\ UNCHANGED <<array, read, write>> /\ Sample(t)
  BY DEF RingInv, Label, Test, Scan, bufVars
<1>3. \E f, s : Goes(t, l, f, s, reg[t].readp, reg[t].ptr)
  BY <1>1, <1>2, SampleForm
<1> QED BY <1>2, <1>3, QuietRefines

LEMMA CompareRefines ==
  ASSUME RingInv, NEW t \in Thread, Compare(t)
  PROVE  [F!Next]_F!fifoVars
<1>0. /\ TypeOK /\ pc[t] = "compare" /\ UNCHANGED <<array, read, write>>
      /\ {"idle", "test", "start", "load", "lock", "store"} \subseteq Label \ {"return"}
  BY DEF RingInv, Compare, Label, bufVars
<1>1. CASE BackToIdle(t) /\ t \notin Writer
  BY <1>0, <1>1, IdleForm, QuietRefines
<1>2. CASE BackToIdle(t) /\ t \in Writer
  <2>1. Goes(t, "idle", "read", 0, 0, NULL)
    BY <1>2, IdleForm
  <2>2. Moves(t) /\ reg'[t].ptr = NULL /\ t \notin Reader
    BY <1>0, <1>2, <2>1, GoesType, ThreadTypes
  <2>3. Given' = [Given EXCEPT ![t] = NULL]
    BY <1>2, <2>2, OthersGive DEF Given
  <2>4. Taken' = Taken
    BY <2>2, OthersGive DEF Taken
  <2>5. Contents' = Contents
    BY <1>0 DEF Contents, Count, Slot
  <2>6. F!HandBack(t)
    BY <2>3, <2>4, <2>5 DEF F!HandBack, Given, Taken
  <2> QED BY <1>2, <2>6 DEF F!Next
<1>3. CASE \E l \in {"test", "start", "load", "lock", "store"} : Goto(t, l) /\ reg' = Seen(t)
  <2>1. PICK l \in {"test", "start", "load", "lock", "store"} :
          Goes(t, l, "read", 0, reg[t].readp, reg[t].ptr)
    BY <1>0, <1>3, SeenForm
  <2> QED BY <1>0, <2>1, QuietRefines
<1>4. BackToIdle(t) \/ \E l \in {"test", "start", "load", "lock", "store"} : Goto(t, l) /\ reg' = Seen(t)
  BY DEF Compare
<1> QED BY <1>1, <1>2, <1>3, <1>4

LEMMA ReaderRefines ==
  ASSUME RingInv, NEW r \in Reader, CallGet(r) \/ Start(r) \/ Recheck(r) \/ Load(r)
  PROVE  UNCHANGED F!fifoVars
<1>0. /\ TypeOK /\ r \in Thread /\ r \notin Writer /\ pc[r] # "return" /\ UNCHANGED <<array, read, write>>
      /\ {"test", "scan", "load", "take"} \subseteq Label \ {"return"}
  BY ThreadTypes DEF RingInv, CallGet, Start, Recheck, Load, Label, bufVars
<1>r. /\ read \in Index /\ reg[r].readp \in Index /\ reg[r].ptr \in Item \cup {NULL}
      /\ Pred(read) \in Index /\ Succ(reg[r].readp) \in Index
  BY <1>0, RegParts, SuccType
<1>1. CASE CallGet(r)
  BY <1>0, <1>1, SameForm, QuietRefines DEF CallGet
<1>2. CASE Start(r)
  <2>1. Goes(r, "scan", reg[r].first, reg[r].seen, Pred(read), reg[r].ptr)
    BY <1>0, <1>2, <1>r, PtrForm DEF Start
  <2> QED BY <1>0, <2>1, QuietRefines
<1>3. CASE Recheck(r) /\ reg' = [reg EXCEPT ![r] = NoReg] /\ Goto(r, "test")
  BY <1>0, <1>3, IdleNoReg, QuietRefines
<1>4. CASE Recheck(r) /\ reg' = Seen(r) /\ Goto(r, "load")
  BY <1>0, <1>4, SeenForm, QuietRefines
<1>5. CASE Load(r)
  <2>1. PICK i \in Index : /\ reg' = [reg EXCEPT ![r].readp = i, ![r].ptr = array[i]]
                           /\ Goto(r, "take")
    BY <1>5, <1>r DEF Load
  <2>2. array[i] \in Item \cup {NULL}
    BY <1>0 DEF TypeOK
  <2>3. Goes(r, "take", reg[r].first, reg[r].seen, i, array[i])
    BY <1>0, <2>1, <2>2, PtrForm
  <2> QED BY <1>0, <2>3, QuietRefines
<1> QED BY <1>1, <1>2, <1>3, <1>4, <1>5 DEF Recheck

(* The compare-and-swap that succeeds takes the head of the queue.         *)
LEMMA TakeRefines ==
  ASSUME RingInv, NEW r \in Reader, Take(r)
  PROVE  [F!Next]_F!fifoVars
<1>0. /\ TypeOK /\ {"return", "scan"} \subseteq Label /\ r \in Thread /\ r \notin Writer
      /\ ReaderOK(r) /\ pc[r] = "take" /\ UNCHANGED <<array, write>>
  BY ThreadTypes DEF RingInv, Label, Take
<1>r. /\ array \in Arrays /\ read \in Index /\ write \in Index /\ reg[r].readp \in Index
      /\ NULL \in Item \cup {NULL}
  BY <1>0, RegParts, ContentsAre
<1>1. CASE Swaps(r) /\ read' = Succ(read) /\ Goto(r, "return") /\ UNCHANGED reg
  <2>1. OnTarget(r)
    BY <1>0, <1>1 DEF OnTarget, Target, Swaps
  <2>2. read # write /\ reg[r].ptr = array[read]
    BY <1>0, <2>1 DEF ReaderOK
  <2>3. Moves(r) /\ pc'[r] = "return" /\ reg'[r].ptr = array[read]
    BY <1>0, <1>1, <2>2, SameForm, GoesType
  <2>4. /\ Contents # <<>> /\ Head(Contents) = array[read]
        /\ Contents' = Tail(Contents)
    BY <1>0, <1>1, <1>r, <2>2, QueueAfterGet, ContentsIs
  <2>5. Taken[r] = NULL /\ Taken' = [Taken EXCEPT ![r] = Head(Contents)]
    BY <1>0, <2>3, <2>4, OthersGive DEF Taken
  <2>6. Given' = Given
    BY <1>0, <2>3, OthersGive DEF Given
  <2>7. F!Get(r)
    BY <2>4, <2>5, <2>6 DEF F!Get, Given, Taken
  <2> QED BY <2>7 DEF F!Next
<1>2. CASE Goto(r, "scan") /\ reg' = [reg EXCEPT ![r].ptr = NULL] /\ UNCHANGED read
  <2>1. Goes(r, "scan", reg[r].first, reg[r].seen, reg[r].readp, NULL)
    BY <1>0, <1>2, <1>r, PtrForm
  <2> QED BY <1>0, <1>2, <2>1, QuietRefines
<1> QED BY <1>1, <1>2 DEF Take

LEMMA ReturnRefines ==
  ASSUME RingInv, NEW r \in Reader, ReturnPtr(r)
  PROVE  [F!Next]_F!fifoVars
<1>0. /\ TypeOK /\ "idle" \in Label /\ r \in Thread /\ r \notin Writer /\ UNCHANGED <<array, read, write>>
  BY ThreadTypes DEF RingInv, Label, ReturnPtr, bufVars
<1>1. Moves(r) /\ pc'[r] = "idle"
  BY <1>0, IdleForm, GoesType DEF ReturnPtr
<1>2. Taken' = [Taken EXCEPT ![r] = NULL]
  BY <1>0, <1>1, OthersGive DEF Taken
<1>3. Given' = Given
  BY <1>0, <1>1, OthersGive DEF Given
<1>4. Contents' = Contents
  BY <1>0 DEF Contents, Count, Slot
<1>5. F!Return(r)
  BY <1>2, <1>3, <1>4 DEF F!Return, Given, Taken
<1> QED BY <1>5 DEF F!Next

LEMMA CallPutRefines ==
  ASSUME RingInv, NEW w \in Writer, CallPut(w)
  PROVE  [F!Next]_F!fifoVars
<1>0. /\ TypeOK /\ "test" \in Label /\ w \in Thread /\ w \notin Reader /\ WriterOK(w)
      /\ UNCHANGED <<array, read, write>> /\ pc[w] = "idle"
  BY ThreadTypes DEF RingInv, Label, CallPut, bufVars
<1>1. PICK i \in Item : i = npput + 1
  BY <1>0, RingBufferAssumption DEF TypeOK, CallPut, Item
<1>2. Goes(w, "test", reg[w].first, reg[w].seen, reg[w].readp, i)
  BY <1>0, <1>1, RegParts, PtrForm DEF CallPut
<1>3. Moves(w) /\ reg'[w].ptr = i
  BY <1>0, <1>2, GoesType
<1>4. Given[w] = NULL /\ Given' = [Given EXCEPT ![w] = i]
  BY <1>0, <1>3, OthersGive DEF Given, WriterOK
<1>5. Taken' = Taken
  BY <1>0, <1>3, OthersGive DEF Taken
<1>6. Contents' = Contents
  BY <1>0 DEF Contents, Count, Slot
<1>7. F!HandIn(w, i)
  BY <1>4, <1>5, <1>6 DEF F!HandIn, Given, Taken
<1> QED BY <1>7 DEF F!Next

LEMMA InsideRefines ==
  ASSUME RingInv, NEW w \in Writer, Lock(w) \/ Locked(w) \/ Store(w)
  PROVE  UNCHANGED F!fifoVars
<1>0. /\ TypeOK /\ w \in Thread /\ w \notin Reader /\ WriterOK(w) /\ pc[w] # "return"
      /\ UNCHANGED reg /\ {"locked", "test", "store", "advance"} \subseteq Label \ {"return"}
  BY ThreadTypes DEF RingInv, Label, Lock, Locked, Store
<1>1. PICK l \in {"locked", "test", "store", "advance"} : Goto(w, l)
  BY DEF Lock, Locked, Store
<1>2. Goes(w, l, reg[w].first, reg[w].seen, reg[w].readp, reg[w].ptr)
  BY <1>0, <1>1, SameForm
<1>3. CASE Lock(w) \/ Locked(w)
  BY <1>0, <1>2, <1>3, QuietRefines DEF Lock, Locked
<1>4. CASE Store(w)
  <2>1. Moves(w)
    BY <1>0, <1>2, GoesType
  <2>2. /\ array' = [array EXCEPT ![write] = reg[w].ptr] /\ reg[w].ptr \in Item
        /\ UNCHANGED <<read, write>>
    BY <1>0, <1>4 DEF Store, WriterOK
  <2>3. Contents' = Contents
    BY <1>0, <2>2, ContentsAre, ContentsIs, QueueAfterStore
  <2> QED BY <1>0, <2>1, <2>3, Stutters
<1> QED BY <1>3, <1>4

(* The pointer joins the queue when rb->write passes it.                   *)
LEMMA AdvanceRefines ==
  ASSUME RingInv, NEW w \in Writer, Advance(w)
  PROVE  [F!Next]_F!fifoVars
<1>0. /\ TypeOK /\ "idle" \in Label /\ w \in Thread /\ w \notin Reader /\ WriterOK(w)
      /\ pc[w] = "advance" /\ UNCHANGED <<array, read>> /\ write' = Succ(write)
  BY ThreadTypes DEF RingInv, Label, Advance
<1>1. Moves(w) /\ reg'[w].ptr = NULL
  BY <1>0, IdleForm, GoesType DEF Advance
<1>2. /\ Dist(read, write) < Size - 1 /\ array[write] = reg[w].ptr /\ reg[w].ptr \in Item
      /\ array \in Arrays /\ read \in Index /\ write \in Index
  BY <1>0, ContentsAre DEF WriterOK
<1>3. Contents' = Append(Contents, reg[w].ptr) /\ Len(Contents) < Size - 1
  BY <1>0, <1>2, QueueAfterPut, QueueType, ContentsIs
<1>4. Given[w] = reg[w].ptr /\ Given[w] # NULL /\ Given' = [Given EXCEPT ![w] = NULL]
  BY <1>1, <1>2, OthersGive, ThreadTypes DEF Given
<1>5. Taken' = Taken
  BY <1>0, <1>1, OthersGive DEF Taken
<1>6. F!Put(w)
  BY <1>3, <1>4, <1>5 DEF F!Put, Given, Taken
<1> QED BY <1>6 DEF F!Next

LEMMA InitRefines == Init => F!Init
<1> SUFFICES ASSUME Init PROVE F!Init
  OBVIOUS
<1>1. Contents = <<>>
  BY DEF Init, Contents, Count
<1>2. \A w \in Writer : reg[w].ptr = NULL
  BY ThreadTypes DEF Init, NoReg
<1>3. \A r \in Reader : pc[r] # "return"
  BY ThreadTypes DEF Init
<1> QED BY <1>1, <1>2, <1>3 DEF F!Init

LEMMA StepRefines == RingInv /\ [Next]_vars => [F!Next]_F!fifoVars
<1> SUFFICES ASSUME RingInv, [Next]_vars PROVE [F!Next]_F!fifoVars
  OBVIOUS
<1>1. ASSUME NEW r \in Reader, CallGet(r) \/ ReaderStep(r) PROVE [F!Next]_F!fifoVars
  BY <1>1, ThreadTypes, SampleRefines, CompareRefines, ReaderRefines, TakeRefines, ReturnRefines
     DEF ReaderStep
<1>2. ASSUME NEW w \in Writer, CallPut(w) \/ WriterStep(w) PROVE [F!Next]_F!fifoVars
  BY <1>2, ThreadTypes, CallPutRefines, SampleRefines, CompareRefines, InsideRefines, AdvanceRefines
     DEF WriterStep
<1>3. CASE Shutdown \/ UNCHANGED vars
  BY <1>3 DEF Shutdown, vars, bufVars, F!fifoVars, Contents, Count, Slot
<1> QED BY <1>1, <1>2, <1>3 DEF Next

(***************************************************************************)
(* Results.                                                                *)
(***************************************************************************)

(* Every variable of the buffer keeps its type: the indices stay inside    *)
(* the array, in all variants and for any number of threads.               *)
THEOREM TypeHolds == Spec => []TypeOK
BY InvHolds, PTL DEF RingInv

(* util-ringbuffer.c: every pointer is got once and in the order of the    *)
(* puts, and no more than Size - 1 are held at a time.                     *)
THEOREM RingBufferIsAFifo == Spec => ImplementsFifo
BY InitRefines, StepRefines, InvHolds, PTL DEF Spec, ImplementsFifo, F!Spec
=============================================================================
