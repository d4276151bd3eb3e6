---------------------------- MODULE ThreadsProofs ----------------------------
(* No signal of a queue's condition variable is lost, for any number of    *)
(* threads and queues: TmqhInputSimple waits at most once for a packet, so *)
(* a packet that finds every reader asleep needs the one signal of         *)
(* TmqhOutputSimple to wake one of them.  And no packet goes astray: the   *)
(* pool, the queues and the threads' hands always have max_pending_packets *)
(* between them.  And nothing is cleaned up under a running thread: the    *)
(* shutdown joins each thread of the list once, and only then goes on.     *)
EXTENDS Threads, FiniteSetTheorems, WellFoundedInduction, TLAPS

(* What the proof needs of the constants, part of ThreadsAssumption.       *)
Finite == IsFiniteSet(Thread) /\ InQ \in [Slot -> Queue]

Awake(k) == {t \in Readers(k) : pc[t] = "woken"}
Covered(k) == Waiting(k) # {} => len[k] <= Cardinality(Awake(k))

Typed ==
  /\ pc \in [Thread -> Place] /\ len \in [Queue -> Nat]
  /\ flags \in [Thread -> SUBSET Flag]

(* While main spawns threads none of them is past its pause, so that the   *)
(* one it spawns is not one that a signal has just woken.                  *)
Paused ==
  main.pc \in {"spawn", "initwait"} =>
    \A t \in Thread : /\ pc[t] \in {"none", "init", "pause", "exited"}
                      /\ "PAUSE" \in flags[t] /\ "KILL" \notin flags[t]

WakeInv == Typed /\ Paused /\ WakeupsCoverPackets

---------------------------------------------------------------------------
(* Sets of readers                                                         *)

LEMMA WaitingIn == ASSUME NEW k, Finite PROVE IsFiniteSet(Waiting(k)) /\ Cardinality(Waiting(k)) \in Nat
<1>1. Waiting(k) \subseteq Thread
  BY DEF Waiting, Thread
<1> QED BY <1>1, FS_Subset, FS_CardinalityType DEF Finite

LEMMA AwakeIn == ASSUME NEW k, Finite PROVE IsFiniteSet(Awake(k)) /\ Cardinality(Awake(k)) \in Nat
<1>1. Awake(k) \subseteq Thread
  BY DEF Awake, Readers, Thread
<1> QED BY <1>1, FS_Subset, FS_CardinalityType DEF Finite

LEMMA AwakeInNext == ASSUME NEW k, Finite PROVE IsFiniteSet(Awake(k)') /\ Cardinality(Awake(k)') \in Nat
<1>1. Awake(k)' \subseteq Thread
  BY DEF Awake, Readers, Thread
<1> QED BY <1>1, FS_Subset, FS_CardinalityType DEF Finite

LEMMA CoversByDef == WakeupsCoverPackets <=> \A k \in Queue : Covered(k)
BY DEF WakeupsCoverPackets, Covered, Awake

LEMMA CoversByDefNext == WakeupsCoverPackets' <=> \A k \in Queue : Covered(k)'
BY DEF WakeupsCoverPackets, Covered, Awake

(* Nobody falls asleep, nobody who was woken goes, no packet comes.        *)
LEMMA StaysCovered ==
  ASSUME NEW k \in Queue, Finite, Covered(k), len[k] \in Nat, len'[k] \in Nat, len'[k] <= len[k],
         Waiting(k)' \subseteq Waiting(k), Awake(k) \subseteq Awake(k)'
  PROVE  Covered(k)'
<1>1. Cardinality(Awake(k)) <= Cardinality(Awake(k)')
  BY AwakeInNext, FS_Subset
<1> QED BY <1>1, AwakeIn, AwakeInNext DEF Covered

(* One signal wakes one waiter if there is one.                            *)
LEMMA OneSignal ==
  ASSUME NEW k, Finite, NEW W \in Woken(k, 1), Waiting(k) # {}
  PROVE  \E u \in Waiting(k) : W = {u}
<1> DEFINE c == Cardinality(Waiting(k))
<1>1. c \in Nat /\ c # 0
  BY WaitingIn, FS_EmptySet
<1>2. Min({1, c}) = 1
  <2>1. 1 \in {1, c} /\ \A y \in {1, c} : 1 =< y
    BY <1>1
  <2>2. \A x \in {1, c} : (\A y \in {1, c} : x =< y) => x = 1
    BY <1>1
  <2> QED BY <2>1, <2>2 DEF Min
<1>3. W \subseteq Waiting(k) /\ Cardinality(W) = 1
  BY <1>2 DEF Woken
<1>4. IsFiniteSet(W)
  BY <1>3, WaitingIn, FS_Subset
<1> QED BY <1>3, <1>4, FS_Singleton

---------------------------------------------------------------------------
(* The three ways in which a step touches the queues                       *)

(* A thread goes on, others are woken perhaps; the queues are left alone.  *)
LEMMA NothingQueued ==
  ASSUME Finite, Typed, WakeupsCoverPackets, UNCHANGED len,
         \A u \in Slot : pc'[u] = "wait" => pc[u] = "wait",
         \A u \in Slot : pc[u] = "woken" => pc'[u] = "woken"
  PROVE  WakeupsCoverPackets'
<1> SUFFICES ASSUME NEW k \in Queue PROVE Covered(k)'
  BY CoversByDefNext
<1>1. Covered(k) /\ len[k] \in Nat /\ len'[k] = len[k]
  BY CoversByDef DEF Typed
<1>2. Waiting(k)' \subseteq Waiting(k) /\ Awake(k) \subseteq Awake(k)'
  BY DEF Waiting, Awake, Readers
<1> QED BY <1>1, <1>2, StaysCovered

LEMMA MovesOn ==
  ASSUME Finite, Typed, WakeupsCoverPackets, UNCHANGED len, NEW t, NEW l,
         Goto(t, l), l # "wait", t \in Thread => pc[t] # "woken"
  PROVE  WakeupsCoverPackets'
<1>1. \A u \in Slot : u \in Thread
  BY DEF Thread
<1>2. \A u \in Thread : pc'[u] = IF u = t THEN l ELSE pc[u]
  BY DEF Typed, Goto
<1> QED BY <1>1, <1>2, NothingQueued

(* A packet comes to a queue: if readers sleep there, one of them wakes.   *)
LEMMA PacketComes ==
  ASSUME Finite, Typed, WakeupsCoverPackets, NEW q, NEW t \in Thread, NEW l,
         TmqhOutputSimple(q, t, l), l \notin {"wait", "woken"}, pc[t] \notin {"wait", "woken"}
  PROVE  WakeupsCoverPackets'
<1> SUFFICES ASSUME NEW k \in Queue PROVE Covered(k)'
  BY CoversByDefNext
<1>1. PICK W \in Woken(q, 1) : Wake(W, t, l)
  BY DEF TmqhOutputSimple
<1>2. /\ Covered(k) /\ len[k] \in Nat
      /\ len' = [len EXCEPT ![q] = @ + 1]
  BY CoversByDef DEF Typed, TmqhOutputSimple
<1>3. \A u \in Thread : pc'[u] = IF u = t THEN l ELSE IF u \in W THEN "woken" ELSE pc[u]
  BY <1>1 DEF Wake
<1>4. W \subseteq Waiting(q)
  BY DEF Woken
<1>5. Slot \subseteq Thread
  BY DEF Thread
<1>6. Waiting(k)' \subseteq Waiting(k) /\ Awake(k) \subseteq Awake(k)'
  BY <1>3, <1>4, <1>5 DEF Waiting, Awake, Readers
<1>7. CASE k # q
  <2>1. len'[k] = len[k]
    BY <1>2, <1>7 DEF Typed
  <2> QED BY <2>1, <1>2, <1>6, StaysCovered
<1>8. CASE k = q /\ Waiting(k) = {}
  BY <1>6, <1>8 DEF Covered
<1>9. CASE k = q /\ Waiting(k) # {}
  <2>1. len'[k] = len[k] + 1
    BY <1>2, <1>9 DEF Typed
  <2>2. PICK u \in Waiting(k) : W = {u}
    BY <1>9, OneSignal
  <2>3. u \in Slot /\ InQ[u] = k /\ pc[u] = "wait" /\ u \in Thread /\ u # t
    BY <2>2, <1>5 DEF Waiting
  <2>4. u \notin Awake(k) /\ Awake(k) \cup {u} \subseteq Awake(k)'
    BY <2>2, <2>3, <1>3, <1>6 DEF Awake, Readers
  <2>5. Cardinality(Awake(k) \cup {u}) = Cardinality(Awake(k)) + 1
    BY <2>4, AwakeIn, FS_AddElement
  <2>6. Cardinality(Awake(k) \cup {u}) <= Cardinality(Awake(k)')
    BY <2>4, AwakeInNext, FS_Subset
  <2>7. len[k] <= Cardinality(Awake(k))
    BY <1>2, <1>9 DEF Covered
  <2> QED BY <2>1, <2>5, <2>6, <2>7, <1>2, AwakeIn, AwakeInNext DEF Covered
<1> QED BY <1>7, <1>8, <1>9

(* A reader takes a packet, or falls asleep on an empty queue, or has been *)
(* woken for nothing.                                                      *)
LEMMA PacketTaken ==
  ASSUME Finite, Typed, WakeupsCoverPackets, NEW t \in Slot, TmqhInputSimple(t)
  PROVE  WakeupsCoverPackets'
<1> DEFINE q == InQ[t]
<1> SUFFICES ASSUME NEW k \in Queue PROVE Covered(k)'
  BY CoversByDefNext
<1>0. q \in Queue /\ t \in Thread /\ Slot \subseteq Thread
  BY DEF Finite, Thread
<1>1. Covered(k) /\ len[k] \in Nat /\ len[q] \in Nat /\ pc[t] \in {"in", "woken"}
  BY <1>0, CoversByDef DEF Typed, TmqhInputSimple
<1>2. CASE len[q] > 0
  <2>1. len' = [len EXCEPT ![q] = @ - 1] /\ pc' = [pc EXCEPT ![t] = "work"]
    BY <1>2 DEF TmqhInputSimple, Goto
  <2>2. \A u \in Thread : pc'[u] = IF u = t THEN "work" ELSE pc[u]
    BY <2>1 DEF Typed
  <2>3. Waiting(k)' \subseteq Waiting(k) /\ Awake(k)' = Awake(k) \ {t}
    BY <2>2, <1>0 DEF Waiting, Awake, Readers
  <2>4. CASE k # q
    <3>1. len'[k] = len[k] /\ t \notin Awake(k)
      BY <2>1, <2>4 DEF Typed, Awake, Readers
    <3> QED BY <3>1, <2>3, <1>1, StaysCovered
  <2>5. CASE k = q
    <3>1. len'[k] = len[k] - 1
      BY <2>1, <2>5 DEF Typed
    <3>2. IsFiniteSet(Awake(k)) /\ Cardinality(Awake(k)) \in Nat
      BY AwakeIn
    <3>3. Cardinality(Awake(k) \ {t}) \in {Cardinality(Awake(k)) - 1, Cardinality(Awake(k))}
      BY <3>2, FS_RemoveElement
    <3>4. Cardinality(Awake(k)') >= Cardinality(Awake(k)) - 1
      BY <2>3, <3>2, <3>3
    <3> QED BY <3>1, <3>4, <2>3, <1>1, AwakeIn, AwakeInNext DEF Covered
  <2> QED BY <2>4, <2>5
<1>3. CASE ~(len[q] > 0)
  <2> DEFINE l == IF pc[t] = "in" THEN "wait" ELSE "check"
  <2>1. len' = len /\ pc' = [pc EXCEPT ![t] = l]
    BY <1>3 DEF TmqhInputSimple, Goto
  <2>2. \A u \in Thread : pc'[u] = IF u = t THEN l ELSE pc[u]
    BY <2>1 DEF Typed
  <2>3. CASE k # q
    <3>1. Waiting(k)' \subseteq Waiting(k) /\ Awake(k) \subseteq Awake(k)'
      BY <2>2, <2>3, <1>0 DEF Waiting, Awake, Readers
    <3> QED BY <3>1, <2>1, <1>1, StaysCovered
  <2>4. CASE k = q
    BY <2>1, <2>4, <1>1, <1>3, AwakeInNext DEF Covered
  <2> QED BY <2>3, <2>4
<1> QED BY <1>1, <1>2, <1>3

---------------------------------------------------------------------------
(* The steps                                                               *)

LEMMA GotoTyped ==
  ASSUME Typed, NEW t, NEW l \in Place, Goto(t, l)
  PROVE  pc' \in [Thread -> Place]
BY DEF Typed, Goto

LEMMA OutputTyped ==
  ASSUME Typed, NEW q, NEW t, NEW l \in Place, TmqhOutputSimple(q, t, l)
  PROVE  pc' \in [Thread -> Place] /\ len' \in [Queue -> Nat]
<1>1. pc' \in [Thread -> Place]
  BY DEF Typed, TmqhOutputSimple, Wake, Place
<1>2. len' \in [Queue -> Nat]
  <2>1. len' = [len EXCEPT ![q] = @ + 1] /\ len \in [Queue -> Nat]
    BY DEF TmqhOutputSimple, Typed
  <2>2. \A x \in Queue : len[x] + 1 \in Nat
    BY <2>1
  <2> QED BY <2>1, <2>2
<1> QED BY <1>1, <1>2

(* Flags of threads are set and cleared one at a time.                     *)
LEMMA FlagTyped ==
  ASSUME Typed, NEW t, NEW f \in Flag, SetFlag(t, f)
  PROVE  flags' \in [Thread -> SUBSET Flag]
BY DEF Typed, SetFlag

(* Threads past their pause do not step while main spawns.                 *)
LEMMA Working ==
  ASSUME Paused, NEW t \in Thread,
         pc[t] \notin {"none", "init", "pause", "exited"} \/ "PAUSE" \notin flags[t] \/ "KILL" \in flags[t]
  PROVE  main.pc \notin {"spawn", "initwait"}
BY DEF Paused

LEMMA ThreadKeeps ==
  ASSUME Finite, WakeInv, NEW t \in Thread, ThreadStep(t)
  PROVE  WakeInv'
<1> USE DEF WakeInv
<1>0. pc[t] \in Place /\ flags[t] \subseteq Flag /\ UNCHANGED main
  BY DEF Typed, ThreadStep, ThreadInit, TmThreadTestThreadUnPaused, ReceiveNFQ, TmqhInputSimple,
         SlotOut, SlotFails, Wakeup, CheckKill, ThreadExit
<1>1. CASE ThreadInit(t)
  <2>1. pc[t] = "init" /\ UNCHANGED len
    BY <1>1 DEF ThreadInit, packets
  <2>2. PICK l \in {"pause", "exited"}, f \in {"INIT_DONE", "CLOSED"} : Goto(t, l) /\ SetFlag(t, f)
    BY <1>1 DEF ThreadInit
  <2>3. WakeupsCoverPackets'
    BY <2>1, <2>2, MovesOn
  <2>4. Typed'
    BY <2>1, <2>2, GotoTyped, FlagTyped DEF Typed, Place, Flag
  <2>5. \A u \in Thread : /\ pc'[u] = IF u = t THEN l ELSE pc[u]
                          /\ flags'[u] = IF u = t THEN flags[u] \cup {f} ELSE flags[u]
    BY <2>2 DEF Typed, Goto, SetFlag
  <2>6. Paused'
    <3> SUFFICES ASSUME main.pc \in {"spawn", "initwait"}, NEW u \in Thread
                 PROVE  /\ pc'[u] \in {"none", "init", "pause", "exited"}
                        /\ "PAUSE" \in flags'[u] /\ "KILL" \notin flags'[u]
      BY <1>0 DEF Paused
    <3>1. l \in {"pause", "exited"} /\ f # "KILL"
      OBVIOUS
    <3>2. /\ pc[u] \in {"none", "init", "pause", "exited"}
          /\ "PAUSE" \in flags[u] /\ "KILL" \notin flags[u]
      BY DEF Paused
    <3> QED BY <3>1, <3>2, <2>5
  <2> QED BY <2>3, <2>4, <2>6
<1>2. CASE TmThreadTestThreadUnPaused(t)
  <2>1. /\ pc[t] = "pause" /\ Goto(t, "in") /\ UNCHANGED <<len, flags>>
        /\ "PAUSE" \notin flags[t] \/ "KILL" \in flags[t]
    BY <1>2 DEF TmThreadTestThreadUnPaused, packets
  <2>2. WakeupsCoverPackets'
    BY <2>1, MovesOn
  <2>3. Typed'
    BY <2>1, GotoTyped DEF Typed, Place
  <2>4. Paused'
    BY <2>1, <1>0, Working DEF Paused
  <2> QED BY <2>2, <2>3, <2>4
<1>3. CASE ReceiveNFQ(t)
  <2>1. pc[t] = "in" /\ UNCHANGED flags
    BY <1>3 DEF ReceiveNFQ
  <2>2. CASE Goto(t, "check") /\ UNCHANGED packets
    <3>1. Typed'
      BY <2>1, <2>2, GotoTyped DEF Typed, Place, packets
    <3>2. WakeupsCoverPackets'
      BY <2>1, <2>2, MovesOn DEF packets
    <3> QED BY <3>1, <3>2, <2>1, <1>0, Working DEF Paused
  <2>3. CASE TmqhOutputSimple(OutQ[t], t, "check")
    <3>1. Typed'
      BY <2>1, <2>3, OutputTyped DEF Typed, Place
    <3>2. WakeupsCoverPackets'
      BY <2>1, <2>3, PacketComes
    <3> QED BY <3>1, <3>2, <2>1, <1>0, Working DEF Paused
  <2> QED BY <1>3, <2>2, <2>3 DEF ReceiveNFQ
<1>4. CASE t \in Slot /\ TmqhInputSimple(t)
  <2>1. pc[t] \in {"in", "woken"} /\ UNCHANGED flags
    BY <1>4 DEF TmqhInputSimple
  <2>2. WakeupsCoverPackets'
    BY <1>4, PacketTaken
  <2>3. PICK l \in {"work", "wait", "check"} : Goto(t, l)
    BY <1>4 DEF TmqhInputSimple
  <2>4. len' \in [Queue -> Nat]
    <3>1. InQ[t] \in Queue /\ len[InQ[t]] \in Nat
      BY <1>4 DEF Finite, Typed
    <3>2. UNCHANGED len \/ (len[InQ[t]] > 0 /\ len' = [len EXCEPT ![InQ[t]] = @ - 1])
      BY <1>4 DEF TmqhInputSimple
    <3> QED BY <3>1, <3>2 DEF Typed
  <2>5. Typed'
    BY <2>1, <2>3, <2>4, GotoTyped DEF Typed, Place
  <2> QED BY <2>1, <2>2, <2>5, <1>0, Working DEF Paused
<1>5. CASE SlotOut(t)
  <2>1. pc[t] = "work" /\ UNCHANGED flags
    BY <1>5 DEF SlotOut
  <2>2. CASE Goto(t, "check") /\ UNCHANGED len
    <3>1. Typed'
      BY <2>1, <2>2, GotoTyped DEF Typed, Place
    <3>2. WakeupsCoverPackets'
      BY <2>1, <2>2, MovesOn
    <3> QED BY <3>1, <3>2, <2>1, <1>0, Working DEF Paused
  <2>3. CASE TmqhOutputSimple(OutQ[t], t, "check")
    <3>1. Typed'
      BY <2>1, <2>3, OutputTyped DEF Typed, Place
    <3>2. WakeupsCoverPackets'
      BY <2>1, <2>3, PacketComes
    <3> QED BY <3>1, <3>2, <2>1, <1>0, Working DEF Paused
  <2> QED BY <1>5, <2>2, <2>3 DEF SlotOut
<1>6. CASE SlotFails(t)
  <2>1. pc[t] = "work" /\ SetFlag(t, "FAILED") /\ Goto(t, "deinit") /\ UNCHANGED len
    BY <1>6 DEF SlotFails
  <2>2. WakeupsCoverPackets'
    BY <2>1, MovesOn
  <2>3. Typed'
    BY <2>1, GotoTyped, FlagTyped DEF Typed, Place, Flag
  <2> QED BY <2>1, <2>2, <2>3, <1>0, Working DEF Paused
<1>7. CASE Wakeup(t)
  <2>1. pc[t] = "in" /\ UNCHANGED <<flags, len>>
    BY <1>7 DEF Wakeup, packets
  <2>2. PICK W \in SUBSET UNION {Waiting(k) : k \in Queue} : Wake(W, t, "check")
    BY <1>7 DEF Wakeup
  <2>3. \A u \in Thread :
          pc'[u] = IF u = t THEN "check" ELSE IF u \in W THEN "woken" ELSE pc[u]
    BY <2>2 DEF Wake
  <2>4. WakeupsCoverPackets'
    BY <2>1, <2>3, NothingQueued DEF Thread
  <2>5. Typed'
    BY <2>1, <2>2 DEF Typed, Wake, Place
  <2> QED BY <2>1, <2>4, <2>5, <1>0, Working DEF Paused
<1>8. CASE CheckKill(t)
  <2>1. pc[t] = "check" /\ UNCHANGED <<flags, len>>
    BY <1>8 DEF CheckKill, packets
  <2>2. PICK l \in {"deinit", "pause"} : Goto(t, l)
    BY <1>8 DEF CheckKill
  <2>3. WakeupsCoverPackets'
    BY <2>1, <2>2, MovesOn
  <2>4. Typed'
    BY <2>1, <2>2, GotoTyped DEF Typed, Place
  <2> QED BY <2>1, <2>3, <2>4, <1>0, Working DEF Paused
<1>9. CASE ThreadExit(t)
  <2>1. pc[t] = "deinit" /\ SetFlag(t, "CLOSED") /\ Goto(t, "exited") /\ UNCHANGED len
    BY <1>9 DEF ThreadExit, packets
  <2>2. WakeupsCoverPackets'
    BY <2>1, MovesOn
  <2>3. Typed'
    BY <2>1, GotoTyped, FlagTyped DEF Typed, Place, Flag
  <2> QED BY <2>1, <2>2, <2>3, <1>0, Working DEF Paused
<1> QED BY <1>1, <1>2, <1>3, <1>4, <1>5, <1>6, <1>7, <1>8, <1>9 DEF ThreadStep

LEMMA MainAt == ASSUME NEW l, NEW t, MainGoto(l, t) PROVE main'.pc = l
BY DEF MainGoto

(* Main walks, sets flags and joins; it wakes sleepers when it stops the   *)
(* threads, and restarts a thread only when it has ended.                  *)
LEMMA MainKeeps ==
  ASSUME Finite, WakeInv, MainStep
  PROVE  WakeInv'
<1> USE DEF WakeInv
<1>1. CASE Spawn
  <2>1. main.pc = "spawn" /\ Goto(main.tv, "init") /\ UNCHANGED <<flags, len>>
    BY <1>1 DEF Spawn, packets
  <2>2. \A u \in Thread : pc[u] \in {"none", "init", "pause", "exited"}
    BY <2>1 DEF Paused
  <2>3. \A u \in Thread : pc'[u] = IF u = main.tv THEN "init" ELSE pc[u]
    BY <2>1 DEF Typed, Goto
  <2>4. WakeupsCoverPackets'
    BY <2>1, <2>2, MovesOn
  <2>5. Typed'
    BY <2>1, GotoTyped DEF Typed, Place
  <2>6. Paused'
    BY <2>1, <2>2, <2>3 DEF Paused
  <2> QED BY <2>4, <2>5, <2>6
<1>2. CASE TmThreadWaitOnThreadInit
  <2>1. main.pc = "initwait" /\ UNCHANGED <<pc, flags, len>>
    BY <1>2 DEF TmThreadWaitOnThreadInit, packets
  <2> QED BY <2>1, NothingQueued DEF Typed, Paused
<1>3. CASE TmThreadContinueThreads
  <2>1. /\ UNCHANGED <<pc, len>> /\ main'.pc \in {"top", "continue"}
        /\ flags' = [flags EXCEPT ![main.tv] = @ \ {"PAUSE"}]
    BY <1>3 DEF TmThreadContinueThreads, packets, MainGoto
  <2>2. flags' \in [Thread -> SUBSET Flag]
    BY <2>1 DEF Typed
  <2> QED BY <2>1, <2>2, NothingQueued DEF Typed, Paused
<1>4. CASE MainTop \/ TmThreadCheckThreadState \/ EngineStopWait \/ Join
  <2>1. UNCHANGED <<pc, len, flags>>
    BY <1>4 DEF MainTop, TmThreadCheckThreadState, EngineStopWait, Join, packets
  <2>2. PICK l \in {"top", "state", "join failed", "stop", "kill", "done"} :
             \E t : MainGoto(l, t)
    BY <1>4 DEF MainTop, TmThreadCheckThreadState, NextState, EngineStopWait, Join
  <2>3. main'.pc = l
    BY <2>2, MainAt
  <2> QED BY <2>1, <2>3, NothingQueued DEF Typed, Paused
<1>5. CASE TmThreadRestartThread
  <2>0. PICK l \in {"top", "state"} : \E t : MainGoto(l, t)
    BY <1>5 DEF TmThreadRestartThread, NextState
  <2>1. main'.pc \notin {"spawn", "initwait"}
    <3>1. main'.pc = l
      BY <2>0, MainAt
    <3> QED BY <3>1
  <2>4. pc[main.tv] = "exited" /\ UNCHANGED len
    BY <1>5 DEF TmThreadRestartThread, packets
  <2>2. CASE UNCHANGED <<pc, flags>>
    BY <2>1, <2>2, <2>4, NothingQueued DEF Typed, Paused
  <2>3. CASE /\ flags' = [flags EXCEPT ![main.tv] = @ \ {"CLOSED", "FAILED"}]
             /\ Goto(main.tv, "init")
    <3>1. WakeupsCoverPackets'
      BY <2>4, <2>3, MovesOn
    <3>2. flags' \in [Thread -> SUBSET Flag]
      BY <2>3 DEF Typed
    <3>3. Typed'
      BY <2>4, <2>3, <3>2, GotoTyped DEF Typed, Place
    <3> QED BY <2>1, <3>1, <3>3 DEF Paused
  <2> QED BY <1>5, <2>2, <2>3 DEF TmThreadRestartThread
<1>6. CASE SetKill
  <2>1. UNCHANGED <<pc, len>> /\ SetFlag(main.tv, "KILL") /\ main'.pc = "signal"
    BY <1>6 DEF SetKill, MainGoto, packets
  <2>2. flags' \in [Thread -> SUBSET Flag]
    BY <2>1, FlagTyped DEF Flag
  <2> QED BY <2>1, <2>2, NothingQueued DEF Typed, Paused
<1>7. CASE SignalUntilClosed
  <2>1. /\ UNCHANGED <<len, flags>> /\ main.pc = "signal" /\ main'.pc \in {"signal", "join"}
        /\ \/ UNCHANGED pc
           \/ pc' = [u \in Thread |-> IF u \in Waiting(InQ[main.tv]) THEN "woken" ELSE pc[u]]
    BY <1>7 DEF SignalUntilClosed, MainGoto, packets
  <2>2. /\ pc' \in [Thread -> Place]
        /\ \A u \in Thread : pc'[u] = pc[u] \/ (pc[u] = "wait" /\ pc'[u] = "woken")
    BY <2>1 DEF Typed, Place, Waiting
  <2>3. WakeupsCoverPackets'
    BY <2>1, <2>2, NothingQueued DEF Thread
  <2> QED BY <2>1, <2>2, <2>3 DEF Typed, Paused
<1> QED BY <1>1, <1>2, <1>3, <1>4, <1>5, <1>6, <1>7 DEF MainStep

LEMMA WakeInvInit == ASSUME Finite, ThreadsInit PROVE WakeInv
<1>1. Typed /\ Paused
  BY DEF ThreadsInit, Typed, Paused, Place, Flag, CreationFlags
<1>2. \A k \in Queue : Waiting(k) = {}
  BY DEF ThreadsInit, Waiting, Thread
<1> QED BY <1>1, <1>2 DEF WakeInv, WakeupsCoverPackets

LEMMA WakeInvStep == ASSUME Finite, WakeInv, [ThreadsNext]_threadsVars PROVE WakeInv'
<1>1. CASE \E t \in Thread : ThreadStep(t)
  BY <1>1, ThreadKeeps
<1>2. CASE MainStep
  BY <1>2, MainKeeps
<1>3. CASE SignalHandler \/ Ended \/ UNCHANGED threadsVars
  <2>1. UNCHANGED <<pc, len, flags, main>>
    BY <1>3 DEF SignalHandler, Ended, threadsVars, packets
  <2> QED BY <2>1, NothingQueued DEF WakeInv, Typed, Paused
<1> QED BY <1>1, <1>2, <1>3 DEF ThreadsNext

---------------------------------------------------------------------------
(* Sums over finite sets (FoldFunction)                                    *)

(* Every set of natural numbers has a least one: the form of induction     *)
(* that needs no operator for its hypothesis.                              *)
LEMMA LeastNatural ==
  ASSUME NEW T, T \subseteq Nat, T # {}
  PROVE  \E n \in T : \A m \in T : n <= m
<1> DEFINE R == {ss \in Nat \X Nat : ss[1] < ss[2]}
<1>1. IsWellFoundedOn(R, Nat)
  BY NatLessThanWellFounded DEF OpToRel
<1> HIDE DEF R
<1>2. PICK n \in T : \A m \in T : ~(<<m, n>> \in R)
  BY <1>1, WFMin
<1>3. \A m \in T : ~(m < n)
  BY <1>2 DEF R
<1> QED BY <1>3

LEMMA AllNaturals ==
  ASSUME NEW T, 0 \in T, \A n \in Nat : n \in T => n + 1 \in T
  PROVE  Nat \subseteq T
<1> SUFFICES ASSUME Nat \ T # {} PROVE FALSE
  OBVIOUS
<1>1. PICK n \in Nat \ T : \A m \in Nat \ T : n <= m
  BY LeastNatural
<1>2. n - 1 \in Nat /\ n - 1 \in T
  BY <1>1
<1> QED BY <1>1, <1>2

(* The sum of a function, one element of its domain after the other.       *)
AnyOf(s) == CHOOSE x \in s : TRUE
AddsUp(g, f, D) ==
  /\ DOMAIN g = D
  /\ \A s \in D : g[s] = IF s = {} THEN 0 ELSE f[AnyOf(s)] + g[s \ {AnyOf(s)}]

Small(S, n) == {s \in SUBSET S : Cardinality(s) <= n}

(* There is such a function for the small subsets of a finite set, hence   *)
(* for all of them.                                                        *)
LEMMA PartialSum ==
  ASSUME NEW S, IsFiniteSet(S), NEW f, NEW n \in Nat
  PROVE  \E g : AddsUp(g, f, Small(S, n))
<1> DEFINE T == {k \in Nat : \E g : AddsUp(g, f, Small(S, k))}
<1>0. \A s \in SUBSET S : IsFiniteSet(s) /\ Cardinality(s) \in Nat /\ (Cardinality(s) = 0 <=> s = {})
  BY FS_Subset, FS_CardinalityType, FS_EmptySet
<1>s. \A s \in SUBSET S : s # {} => /\ AnyOf(s) \in s
                                    /\ s \ {AnyOf(s)} \in SUBSET S
                                    /\ Cardinality(s \ {AnyOf(s)}) = Cardinality(s) - 1
  <2> TAKE s \in SUBSET S
  <2> HAVE s # {}
  <2>1. AnyOf(s) \in s
    BY DEF AnyOf
  <2> QED BY <2>1, <1>0, FS_RemoveElement
<1>1. 0 \in T
  <2> DEFINE g == [s \in Small(S, 0) |-> 0]
  <2>1. \A s \in Small(S, 0) : s = {}
    BY <1>0 DEF Small
  <2>2. AddsUp(g, f, Small(S, 0))
    BY <2>1 DEF AddsUp
  <2> QED BY <2>2
<1>2. ASSUME NEW k \in Nat, k \in T PROVE k + 1 \in T
  <2>1. PICK h : AddsUp(h, f, Small(S, k))
    BY <1>2
  <2> DEFINE g == [s \in Small(S, k + 1) |->
                     IF s = {} THEN 0 ELSE f[AnyOf(s)] + h[s \ {AnyOf(s)}]]
  <2>2. \A s \in Small(S, k) : s \in Small(S, k + 1) /\ g[s] = h[s]
    <3> TAKE s \in Small(S, k)
    <3>1. s \in Small(S, k + 1)
      BY <1>0 DEF Small
    <3> QED BY <3>1, <2>1 DEF AddsUp
  <2>3. \A s \in Small(S, k + 1) : s # {} => s \ {AnyOf(s)} \in Small(S, k)
    BY <1>s, <1>0 DEF Small
  <2>4. AddsUp(g, f, Small(S, k + 1))
    BY <2>2, <2>3 DEF AddsUp
  <2> QED BY <2>4
<1> QED BY <1>1, <1>2, AllNaturals

LEMMA SumExists ==
  ASSUME NEW S, IsFiniteSet(S), NEW f
  PROVE  \E g : AddsUp(g, f, SUBSET S)
<1> DEFINE n == Cardinality(S)
<1>1. n \in Nat /\ \A s \in SUBSET S : Cardinality(s) <= n
  BY FS_CardinalityType, FS_Subset
<1>2. Small(S, n) = SUBSET S
  BY <1>1 DEF Small
<1> QED BY <1>1, <1>2, PartialSum

(* The recursive function that FoldFunction iterates.                      *)
Iter(f) == CHOOSE g : g = [s \in SUBSET DOMAIN f |->
                             IF s = {} THEN 0 ELSE f[AnyOf(s)] + g[s \ {AnyOf(s)}]]

LEMMA IterAddsUp ==
  ASSUME NEW f, IsFiniteSet(DOMAIN f)
  PROVE  AddsUp(Iter(f), f, SUBSET DOMAIN f)
<1> DEFINE D == SUBSET DOMAIN f
           E(g) == [s \in D |-> IF s = {} THEN 0 ELSE f[AnyOf(s)] + g[s \ {AnyOf(s)}]]
<1>1. PICK g : AddsUp(g, f, D)
  BY SumExists
<1> DEFINE h == [s \in D |-> g[s]]
<1>2. \A s \in D : h[s] = IF s = {} THEN 0 ELSE f[AnyOf(s)] + h[s \ {AnyOf(s)}]
  BY <1>1 DEF AddsUp
<1>3. h = E(h)
  BY <1>2
<1>4. Iter(f) = E(Iter(f))
  BY <1>3 DEF Iter
<1> QED BY <1>4 DEF AddsUp

Total(f) == FoldFunction(+, 0, f)

LEMMA TotalIs ==
  ASSUME NEW f
  PROVE  Total(f) = Iter(f)[DOMAIN f]
BY DEF Total, FoldFunction, FoldFunctionOnSet, MapThenFoldSet, Iter, AnyOf

(* Induction over the subsets, one element taken away at a time.           *)
LEMMA SubsetInduction ==
  ASSUME NEW S, IsFiniteSet(S), NEW T, {} \in T,
         \A s \in SUBSET S : s # {} /\ s \ {AnyOf(s)} \in T => s \in T
  PROVE  SUBSET S \subseteq T
<1> DEFINE N == {n \in Nat : \A s \in SUBSET S : Cardinality(s) = n => s \in T}
<1>0. \A s \in SUBSET S : IsFiniteSet(s) /\ Cardinality(s) \in Nat /\ (Cardinality(s) = 0 <=> s = {})
  BY FS_Subset, FS_CardinalityType, FS_EmptySet
<1>1. 0 \in N
  BY <1>0
<1>2. ASSUME NEW n \in Nat, n \in N PROVE n + 1 \in N
  <2> SUFFICES ASSUME NEW s \in SUBSET S, Cardinality(s) = n + 1 PROVE s \in T
    OBVIOUS
  <2>1. s # {} /\ AnyOf(s) \in s
    BY <1>0 DEF AnyOf
  <2>2. s \ {AnyOf(s)} \in SUBSET S /\ Cardinality(s \ {AnyOf(s)}) = Cardinality(s) - 1
    BY <2>1, <1>0, FS_RemoveElement
  <2>3. n + 1 - 1 = n
    OBVIOUS
  <2> QED BY <1>2, <2>1, <2>2, <2>3
<1> HIDE DEF N
<1>3. Nat \subseteq N
  BY <1>1, <1>2, AllNaturals
<1> QED BY <1>0, <1>3 DEF N

(* A sum of numbers is a number.                                           *)
LEMMA IterIsInt ==
  ASSUME NEW S, IsFiniteSet(S), NEW f \in [S -> Int]
  PROVE  \A s \in SUBSET S : Iter(f)[s] \in Int
<1> DEFINE T == {s \in SUBSET S : Iter(f)[s] \in Int}
<1>1. \A s \in SUBSET S : Iter(f)[s] = IF s = {} THEN 0 ELSE f[AnyOf(s)] + Iter(f)[s \ {AnyOf(s)}]
  BY IterAddsUp DEF AddsUp
<1>2. \A s \in SUBSET S : s # {} => AnyOf(s) \in S
  BY DEF AnyOf
<1>3. {} \in T
  <2>1. {} \in SUBSET S /\ Iter(f)[{}] = 0
    BY <1>1
  <2> QED BY <2>1
<1>4. \A s \in SUBSET S : s # {} /\ s \ {AnyOf(s)} \in T => s \in T
  <2> TAKE s \in SUBSET S
  <2> HAVE s # {} /\ s \ {AnyOf(s)} \in T
  <2>1. Iter(f)[s] = f[AnyOf(s)] + Iter(f)[s \ {AnyOf(s)}]
    BY <1>1
  <2>2. f[AnyOf(s)] \in Int /\ Iter(f)[s \ {AnyOf(s)}] \in Int
    BY <1>2
  <2> QED BY <2>1, <2>2
<1> HIDE DEF T
<1>5. SUBSET S \subseteq T
  BY <1>3, <1>4, SubsetInduction
<1> QED BY <1>5 DEF T

(* One term of a sum changes.                                              *)
LEMMA TotalChanges ==
  ASSUME NEW S, IsFiniteSet(S), NEW f \in [S -> Int], NEW g \in [S -> Int], NEW k \in S,
         \A i \in S : i # k => g[i] = f[i]
  PROVE  Total(g) = Total(f) + (g[k] - f[k]) /\ Total(f) \in Int
<1> DEFINE d(s) == IF k \in s THEN g[k] - f[k] ELSE 0
           T == {s \in SUBSET S : Iter(g)[s] = Iter(f)[s] + d(s)}
<1>1. \A s \in SUBSET S :
        /\ Iter(f)[s] = IF s = {} THEN 0 ELSE f[AnyOf(s)] + Iter(f)[s \ {AnyOf(s)}]
        /\ Iter(g)[s] = IF s = {} THEN 0 ELSE g[AnyOf(s)] + Iter(g)[s \ {AnyOf(s)}]
  BY IterAddsUp DEF AddsUp
<1>2. \A s \in SUBSET S : Iter(f)[s] \in Int /\ Iter(g)[s] \in Int
  BY IterIsInt
<1>3. {} \in T
  <2>1. {} \in SUBSET S /\ Iter(f)[{}] = 0 /\ Iter(g)[{}] = 0 /\ d({}) = 0
    BY <1>1
  <2> QED BY <2>1
<1>4. ASSUME NEW s \in SUBSET S, s # {}, s \ {AnyOf(s)} \in T PROVE s \in T
  <2> DEFINE x == AnyOf(s)
             r == s \ {x}
  <2>1. x \in s /\ x \in S /\ r \in SUBSET S
    BY <1>4 DEF AnyOf
  <2>2. Iter(g)[r] = Iter(f)[r] + d(r)
    BY <1>4
  <2>3. Iter(f)[s] = f[x] + Iter(f)[r] /\ Iter(g)[s] = g[x] + Iter(g)[r]
    BY <1>1, <1>4
  <2>4. /\ Iter(f)[r] \in Int /\ Iter(g)[r] \in Int /\ f[x] \in Int /\ g[x] \in Int
        /\ f[k] \in Int /\ g[k] \in Int
    BY <1>2, <2>1
  <2> HIDE DEF x
  <2>5. CASE x = k
    <3>1. d(s) = g[k] - f[k] /\ d(r) = 0
      BY <2>1, <2>5
    <3> QED BY <3>1, <2>2, <2>3, <2>4, <2>5
  <2>6. CASE x # k
    <3>1. d(s) = d(r) /\ g[x] = f[x]
      BY <2>1, <2>6
    <3>2. d(r) \in Int
      BY <2>4
    <3> QED BY <3>1, <3>2, <2>2, <2>3, <2>4
  <2> QED BY <2>5, <2>6
<1> HIDE DEF T
<1>5. SUBSET S \subseteq T
  BY <1>3, <1>4, SubsetInduction
<1>6. Iter(g)[S] = Iter(f)[S] + (g[k] - f[k])
  BY <1>5 DEF T
<1>7. Total(f) = Iter(f)[S] /\ Total(g) = Iter(g)[S]
  BY TotalIs
<1> QED BY <1>2, <1>6, <1>7

(* A sum of zeroes.                                                        *)
LEMMA TotalOfNone ==
  ASSUME NEW S, IsFiniteSet(S)
  PROVE  Total([i \in S |-> 0]) = 0
<1> DEFINE f == [i \in S |-> 0]
           T == {s \in SUBSET S : Iter(f)[s] = 0}
<1>1. \A s \in SUBSET S : Iter(f)[s] = IF s = {} THEN 0 ELSE f[AnyOf(s)] + Iter(f)[s \ {AnyOf(s)}]
  BY IterAddsUp DEF AddsUp
<1>2. {} \in T
  BY <1>1
<1>3. \A s \in SUBSET S : s # {} /\ s \ {AnyOf(s)} \in T => s \in T
  <2> TAKE s \in SUBSET S
  <2> HAVE s # {} /\ s \ {AnyOf(s)} \in T
  <2>1. AnyOf(s) \in S
    BY DEF AnyOf
  <2> QED BY <1>1, <2>1
<1> HIDE DEF T
<1>4. SUBSET S \subseteq T
  BY <1>2, <1>3, SubsetInduction
<1>5. Iter(f)[S] = 0
  BY <1>4 DEF T
<1> QED BY <1>5, TotalIs


---------------------------------------------------------------------------
(* Packets in the pool, in the queues and with threads                     *)

AtWork == {t \in Slot : pc[t] = "work"}
Accounts == poolSize \in Int /\ poolSize + Cardinality(AtWork) + Total(len) = max_pending_packets
Ways == IsFiniteSet(Queue) /\ OutQ[Receiver] \in Queue /\ OutQ \in [Ppt -> Queue \cup {POOL}]
        /\ MayFail \subseteq Slot

LEMMA AtWorkIn == ASSUME Finite PROVE IsFiniteSet(AtWork) /\ Cardinality(AtWork) \in Nat
<1>1. AtWork \subseteq Thread
  BY DEF AtWork, Thread
<1> QED BY <1>1, FS_Subset, FS_CardinalityType DEF Finite

LEMMA QueueChanges ==
  ASSUME Ways, Typed, NEW k \in Queue, NEW d \in {-1, 1}, len' = [len EXCEPT ![k] = @ + d]
  PROVE  Total(len') = Total(len) + d /\ Total(len) \in Int
<1>1. len \in [Queue -> Int] /\ len' \in [Queue -> Int] /\ len'[k] - len[k] = d
  BY DEF Typed
<1>2. \A i \in Queue : i # k => len'[i] = len[i]
  BY DEF Typed
<1>3. IsFiniteSet(Queue)
  BY DEF Ways
<1>4. Total(len') = Total(len) + (len'[k] - len[k]) /\ Total(len) \in Int
  BY ONLY <1>1, <1>2, <1>3, k \in Queue, TotalChanges
<1> QED BY <1>1, <1>4

LEMMA TotalIsInt == ASSUME Ways, Typed PROVE Total(len) \in Int
<1>1. len \in [Queue -> Int] /\ DOMAIN len = Queue
  BY DEF Typed
<1> QED BY <1>1, IterIsInt, TotalIs DEF Ways

(* A packet goes from the pool to a queue, from a queue to a thread, from  *)
(* a thread to a queue or the pool, or none moves.                         *)
PacketMoves ==
  \/ UNCHANGED <<poolSize, len>> /\ AtWork' = AtWork
  \/ /\ poolSize' = poolSize - 1 /\ AtWork' = AtWork
     /\ \E k \in Queue : len' = [len EXCEPT ![k] = @ + 1]
  \/ \E t \in Slot \ AtWork :
       /\ AtWork' = AtWork \cup {t} /\ UNCHANGED poolSize
       /\ \E k \in Queue : len' = [len EXCEPT ![k] = @ - 1]
  \/ \E t \in AtWork :
       /\ AtWork' = AtWork \ {t}
       /\ \/ poolSize' = poolSize + 1 /\ UNCHANGED len
          \/ UNCHANGED poolSize /\ \E k \in Queue : len' = [len EXCEPT ![k] = @ + 1]

LEMMA StaysAccounted ==
  ASSUME Finite, Ways, Typed, Accounts, PacketMoves
  PROVE  Accounts'
<1>0. Cardinality(AtWork) \in Nat /\ IsFiniteSet(AtWork) /\ Total(len) \in Int
  BY AtWorkIn, TotalIsInt
<1>1. CASE UNCHANGED <<poolSize, len>> /\ AtWork' = AtWork
  BY <1>1 DEF Accounts
<1>2. ASSUME poolSize' = poolSize - 1, AtWork' = AtWork,
             NEW k \in Queue, len' = [len EXCEPT ![k] = @ + 1]
      PROVE  Accounts'
  <2>1. Total(len') = Total(len) + 1
    BY <1>2, QueueChanges
  <2> QED BY <1>0, <1>2, <2>1 DEF Accounts
<1>3. ASSUME NEW t \in Slot \ AtWork, AtWork' = AtWork \cup {t}, UNCHANGED poolSize,
             NEW k \in Queue, len' = [len EXCEPT ![k] = @ - 1]
      PROVE  Accounts'
  <2>1. len' = [len EXCEPT ![k] = @ + (-1)]
    BY <1>3 DEF Typed
  <2>2. Total(len') = Total(len) - 1
    BY <2>1, <1>0, QueueChanges
  <2>3. Cardinality(AtWork') = Cardinality(AtWork) + 1
    BY <1>0, <1>3, FS_AddElement
  <2> QED BY <1>0, <1>3, <2>2, <2>3 DEF Accounts
<1>4. ASSUME NEW t \in AtWork, AtWork' = AtWork \ {t},
             \/ poolSize' = poolSize + 1 /\ UNCHANGED len
             \/ UNCHANGED poolSize /\ \E k \in Queue : len' = [len EXCEPT ![k] = @ + 1]
      PROVE  Accounts'
  <2>1. Cardinality(AtWork') = Cardinality(AtWork) - 1
    BY <1>0, <1>4, FS_RemoveElement
  <2>2. \/ poolSize' = poolSize + 1 /\ Total(len') = Total(len)
        \/ poolSize' = poolSize /\ Total(len') = Total(len) + 1
    BY <1>4, QueueChanges
  <2> QED BY <1>0, <2>1, <2>2 DEF Accounts
<1> QED BY <1>1, <1>2, <1>3, <1>4 DEF PacketMoves

(* Who goes from one place to another that is not "work" moves no packet,  *)
(* whomever he wakes.                                                      *)
LEMMA NobodyWorks ==
  ASSUME Typed, UNCHANGED <<poolSize, len>>,
         \A u \in Slot : pc'[u] = "work" <=> pc[u] = "work"
  PROVE  PacketMoves
<1>1. AtWork' = AtWork
  BY DEF AtWork
<1> QED BY <1>1 DEF PacketMoves

LEMMA GoesElsewhere ==
  ASSUME Typed, UNCHANGED <<poolSize, len>>, NEW t, NEW l, Goto(t, l), l # "work",
         t \in Thread => pc[t] # "work"
  PROVE  PacketMoves
<1>1. \A u \in Slot : u \in Thread /\ pc'[u] = IF u = t THEN l ELSE pc[u]
  BY DEF Typed, Goto, Thread
<1> QED BY <1>1, NobodyWorks

(* A signal does not change who is at work, but for the one who gives it.  *)
LEMMA OutputWork ==
  ASSUME Typed, NEW q, NEW t \in Thread, TmqhOutputSimple(q, t, "check")
  PROVE  AtWork' = AtWork \ {t} /\ len' = [len EXCEPT ![q] = @ + 1]
<1>1. PICK W \in Woken(q, 1) : Wake(W, t, "check")
  BY DEF TmqhOutputSimple
<1>2. \A u \in W : pc[u] # "work"
  BY DEF Woken, Waiting
<1>3. \A u \in Slot : u \in Thread /\ pc'[u] = IF u = t THEN "check" ELSE IF u \in W THEN "woken" ELSE pc[u]
  BY <1>1 DEF Wake, Thread
<1> QED BY <1>2, <1>3 DEF AtWork, TmqhOutputSimple

LEMMA ThreadMoves ==
  ASSUME Finite, Ways, Typed, NEW t \in Thread, ThreadStep(t)
  PROVE  PacketMoves
<1>0. Slot \subseteq Thread /\ (pc[t] # "work" => t \notin AtWork)
  BY DEF Thread, AtWork
<1>1. CASE ThreadInit(t)
  <2>1. pc[t] = "init" /\ UNCHANGED <<poolSize, len>> /\ \E l \in {"pause", "exited"} : Goto(t, l)
    BY <1>1 DEF ThreadInit, packets
  <2> QED BY <2>1, GoesElsewhere
<1>2. CASE TmThreadTestThreadUnPaused(t)
  BY <1>2, GoesElsewhere DEF TmThreadTestThreadUnPaused, packets
<1>3. CASE ReceiveNFQ(t)
  <2>1. pc[t] = "in" /\ t = Receiver
    BY <1>3 DEF ReceiveNFQ
  <2>2. CASE Goto(t, "check") /\ UNCHANGED packets
    BY <2>1, <2>2, GoesElsewhere DEF packets
  <2>3. CASE poolSize' = poolSize - 1 /\ TmqhOutputSimple(OutQ[t], t, "check")
    <3>1. AtWork' = AtWork \ {t} /\ len' = [len EXCEPT ![OutQ[t]] = @ + 1]
      BY <2>3, OutputWork
    <3>2. t \notin AtWork /\ OutQ[t] \in Queue
      BY <2>1 DEF AtWork, Ways
    <3> QED BY <2>3, <3>1, <3>2 DEF PacketMoves
  <2> QED BY <1>3, <2>2, <2>3 DEF ReceiveNFQ
<1>4. CASE t \in Slot /\ TmqhInputSimple(t)
  <2>1. pc[t] \in {"in", "woken"} /\ UNCHANGED poolSize /\ InQ[t] \in Queue
    BY <1>4 DEF TmqhInputSimple, Finite
  <2>2. CASE len' = [len EXCEPT ![InQ[t]] = @ - 1] /\ Goto(t, "work")
    <3>1. \A u \in Slot : pc'[u] = IF u = t THEN "work" ELSE pc[u]
      BY <2>2, <1>0 DEF Typed, Goto
    <3>2. AtWork' = AtWork \cup {t} /\ t \in Slot \ AtWork
      BY <3>1, <2>1, <1>4 DEF AtWork
    <3> QED BY <2>1, <2>2, <3>2 DEF PacketMoves
  <2>3. CASE UNCHANGED len /\ \E l \in {"wait", "check"} : Goto(t, l)
    BY <2>1, <2>3, GoesElsewhere
  <2> QED BY <1>4, <2>2, <2>3 DEF TmqhInputSimple
<1>5. CASE SlotOut(t)
  <2>1. t \in AtWork
    BY <1>5 DEF SlotOut, AtWork
  <2>2. CASE poolSize' = poolSize + 1 /\ UNCHANGED len /\ Goto(t, "check")
    <3>1. \A u \in Slot : pc'[u] = IF u = t THEN "check" ELSE pc[u]
      BY <2>2, <1>0 DEF Typed, Goto
    <3>2. AtWork' = AtWork \ {t}
      BY <3>1 DEF AtWork
    <3> QED BY <2>1, <2>2, <3>2 DEF PacketMoves
  <2>3. CASE OutQ[t] # POOL /\ TmqhOutputSimple(OutQ[t], t, "check") /\ UNCHANGED poolSize
    <3>1. OutQ[t] \in Queue
      BY <2>1, <2>3 DEF Ways, AtWork, Ppt
    <3> QED BY <2>1, <2>3, <3>1, OutputWork DEF PacketMoves
  <2> QED BY <1>5, <2>2, <2>3 DEF SlotOut
<1>6. CASE SlotFails(t)
  <2>1. t \in AtWork /\ poolSize' = poolSize + 1 /\ UNCHANGED len /\ Goto(t, "deinit")
    BY <1>6 DEF SlotFails, AtWork, Ways
  <2>2. \A u \in Slot : pc'[u] = IF u = t THEN "deinit" ELSE pc[u]
    BY <2>1, <1>0 DEF Typed, Goto
  <2>3. AtWork' = AtWork \ {t}
    BY <2>2 DEF AtWork
  <2> QED BY <2>1, <2>3 DEF PacketMoves
<1>7. CASE Wakeup(t)
  <2>1. pc[t] = "in" /\ UNCHANGED <<poolSize, len>>
    BY <1>7 DEF Wakeup, packets
  <2>2. PICK W \in SUBSET UNION {Waiting(k) : k \in Queue} : Wake(W, t, "check")
    BY <1>7 DEF Wakeup
  <2>3. \A u \in W : pc[u] # "work"
    BY DEF Waiting
  <2>4. \A u \in Slot : pc'[u] = IF u = t THEN "check" ELSE IF u \in W THEN "woken" ELSE pc[u]
    BY <2>2, <1>0 DEF Wake
  <2> QED BY <2>1, <2>3, <2>4, NobodyWorks
<1>8. CASE CheckKill(t)
  <2>1. pc[t] = "check" /\ UNCHANGED <<poolSize, len>> /\ \E l \in {"deinit", "pause"} : Goto(t, l)
    BY <1>8 DEF CheckKill, packets
  <2> QED BY <2>1, GoesElsewhere
<1>9. CASE ThreadExit(t)
  BY <1>9, GoesElsewhere DEF ThreadExit, packets
<1> QED BY <1>1, <1>2, <1>3, <1>4, <1>5, <1>6, <1>7, <1>8, <1>9 DEF ThreadStep

LEMMA MainMovesNone ==
  ASSUME Finite, Typed, Paused, MainStep
  PROVE  PacketMoves
<1>0. UNCHANGED <<poolSize, len>>
  BY DEF MainStep, Spawn, TmThreadWaitOnThreadInit, TmThreadContinueThreads, MainTop,
         TmThreadCheckThreadState, TmThreadRestartThread, EngineStopWait, SetKill,
         SignalUntilClosed, Join, packets
<1>1. CASE Spawn
  <2>1. Goto(main.tv, "init") /\ \A u \in Thread : pc[u] # "work"
    BY <1>1 DEF Spawn, Paused
  <2> QED BY <1>0, <2>1, GoesElsewhere
<1>2. CASE TmThreadRestartThread
  <2>1. pc[main.tv] = "exited" /\ (UNCHANGED pc \/ Goto(main.tv, "init"))
    BY <1>2 DEF TmThreadRestartThread
  <2> QED BY <1>0, <2>1, GoesElsewhere, NobodyWorks
<1>3. CASE SignalUntilClosed
  <2>1. \/ UNCHANGED pc
        \/ pc' = [u \in Thread |-> IF u \in Waiting(InQ[main.tv]) THEN "woken" ELSE pc[u]]
    BY <1>3 DEF SignalUntilClosed
  <2>2. \A u \in Slot : pc'[u] = "work" <=> pc[u] = "work"
    BY <2>1 DEF Waiting, Thread
  <2> QED BY <1>0, <2>2, NobodyWorks
<1>4. CASE UNCHANGED pc
  BY <1>0, <1>4, NobodyWorks
<1> QED BY <1>1, <1>2, <1>3, <1>4
        DEF MainStep, TmThreadWaitOnThreadInit, TmThreadContinueThreads, MainTop,
            TmThreadCheckThreadState, EngineStopWait, SetKill, Join

LEMMA AccountsInit ==
  ASSUME Finite, Ways, max_pending_packets \in Nat, ThreadsInit
  PROVE  Accounts
<1>1. AtWork = {} /\ len = [k \in Queue |-> 0] /\ poolSize = max_pending_packets
  BY DEF ThreadsInit, AtWork, Thread
<1>2. Cardinality(AtWork) = 0 /\ Total(len) = 0
  BY <1>1, FS_EmptySet, TotalOfNone DEF Ways
<1> QED BY <1>1, <1>2 DEF Accounts

LEMMA AccountsStep ==
  ASSUME Finite, Ways, WakeInv, Accounts, [ThreadsNext]_threadsVars
  PROVE  Accounts'
<1> USE DEF WakeInv
<1>1. CASE \E t \in Thread : ThreadStep(t)
  BY <1>1, ThreadMoves, StaysAccounted
<1>2. CASE MainStep
  BY <1>2, MainMovesNone, StaysAccounted
<1>3. CASE SignalHandler \/ Ended \/ UNCHANGED threadsVars
  <2>1. UNCHANGED <<pc, poolSize, len>>
    BY <1>3 DEF SignalHandler, Ended, threadsVars, packets
  <2> QED BY <2>1, NobodyWorks, StaysAccounted
<1> QED BY <1>1, <1>2, <1>3 DEF ThreadsNext

---------------------------------------------------------------------------

(* A reader that sleeps while its queue has packets is not left behind: as *)
(* many readers are awake as packets are there (TmqhInputSimple,           *)
(* TmqhOutputSimple, SCPerfWakeupThread and TmThreadKillThreads on one     *)
(* condition variable), for any threads, queues and failures.              *)
THEOREM WakeupsAreEnough ==
  ASSUME ThreadsAssumption
  PROVE  ThreadsSpec => []WakeupsCoverPackets
<1>1. Finite
  BY DEF ThreadsAssumption, Finite
<1>2. ThreadsInit => WakeInv
  BY <1>1, WakeInvInit
<1>3. WakeInv /\ [ThreadsNext]_threadsVars => WakeInv'
  BY <1>1, WakeInvStep
<1>4. WakeInv => WakeupsCoverPackets
  BY DEF WakeInv
<1> QED BY <1>2, <1>3, <1>4, PTL DEF ThreadsSpec

(* None of the threads takes a packet before main has seen all of them     *)
(* initialised (TmThreadWaitOnThreadInit, THV_PAUSE).                      *)
THEOREM StartUpInOrder ==
  ASSUME ThreadsAssumption
  PROVE  ThreadsSpec => []PausedUntilReady
<1>1. Finite
  BY DEF ThreadsAssumption, Finite
<1>2. ThreadsInit => WakeInv
  BY <1>1, WakeInvInit
<1>3. WakeInv /\ [ThreadsNext]_threadsVars => WakeInv'
  BY <1>1, WakeInvStep
<1>4. WakeInv => PausedUntilReady
  BY DEF WakeInv, Paused, PausedUntilReady
<1> QED BY <1>2, <1>3, <1>4, PTL DEF ThreadsSpec

(* Every packet is in the pool, in one queue or with one thread, through   *)
(* every output, every failing module function (tm-threads.c, TmThreadsSlot1), *)
(* restart and kill, so that EngineStop, which waits for a full pool, waits *)
(* for no packet that is lost.                                             *)
THEOREM NoPacketGoesAstray ==
  ASSUME ThreadsAssumption
  PROVE  ThreadsSpec => []PacketsAccounted
<1>1. Finite /\ Ways /\ max_pending_packets \in Nat
  BY DEF ThreadsAssumption, Finite, Ways
<1>2. ThreadsInit => WakeInv /\ Accounts
  BY <1>1, WakeInvInit, AccountsInit
<1>3. WakeInv /\ Accounts /\ [ThreadsNext]_threadsVars => (WakeInv /\ Accounts)'
  BY <1>1, WakeInvStep, AccountsStep
<1>4. Accounts => PacketsAccounted
  BY DEF Accounts, PacketsAccounted, AtWork, Total
<1> QED BY <1>2, <1>3, <1>4, PTL DEF ThreadsSpec
---------------------------------------------------------------------------
(* The list of threads                                                     *)

Pos(t) == CHOOSE i \in DOMAIN SpawnOrder : SpawnOrder[i] = t

LEMMA PosIs ==
  ASSUME ThreadsAssumption
  PROVE  /\ Cardinality(Thread) \in Nat /\ Len(SpawnOrder) = Cardinality(Thread)
         /\ DOMAIN SpawnOrder = 1 .. Len(SpawnOrder) /\ 1 \in 1 .. Len(SpawnOrder)
         /\ \A t \in Thread : Pos(t) \in 1 .. Len(SpawnOrder) /\ SpawnOrder[Pos(t)] = t
         /\ \A i \in 1 .. Len(SpawnOrder) : SpawnOrder[i] \in Thread /\ Pos(SpawnOrder[i]) = i
<1> DEFINE N == Cardinality(Thread)
<1>1. /\ N \in Nat /\ Len(SpawnOrder) = N /\ DOMAIN SpawnOrder = 1 .. N
      /\ SpawnOrder \in [1 .. N -> Thread]
  <2>1. SpawnOrder \in Seq(Thread) /\ Len(SpawnOrder) = N /\ N \in Nat
    BY FS_CardinalityType DEF ThreadsAssumption
  <2> HIDE DEF N
  <2> QED BY <2>1
<1>2. \A t \in Thread : \E i \in 1 .. N : SpawnOrder[i] = t
  <2> HIDE DEF N
  <2> QED BY <1>1 DEF ThreadsAssumption
<1>3. SpawnOrder \in Surjection(1 .. N, Thread)
  <2> HIDE DEF N
  <2> QED BY <1>1, <1>2 DEF Surjection
<1>4. \A i, j \in 1 .. N : SpawnOrder[i] = SpawnOrder[j] => i = j
  <2>1. Cardinality(1 .. N) = N /\ IsFiniteSet(1 .. N)
    <3>1. Cardinality(1 .. N) = IF 1 > N THEN 0 ELSE N - 1 + 1
      BY <1>1, FS_Interval
    <3> HIDE DEF N
    <3> QED BY <1>1, <3>1, FS_Interval
  <2>2. SpawnOrder \in Injection(1 .. N, Thread)
    BY <1>3, <2>1, FS_SurjSameCardinalityImpliesInj
  <2> QED BY <2>2 DEF Injection, IsInjective
<1>5. \A t \in Thread : Pos(t) \in 1 .. N /\ SpawnOrder[Pos(t)] = t
  <2> HIDE DEF N
  <2> QED BY <1>1, <1>2 DEF Pos
<1>6. \A i \in 1 .. N : SpawnOrder[i] \in Thread /\ Pos(SpawnOrder[i]) = i
  <2> HIDE DEF N
  <2> QED BY <1>1, <1>4, <1>5
<1>7. 1 \in 1 .. N
  <2>1. Receiver \in Thread
    BY DEF Thread
  <2> HIDE DEF N
  <2>2. Pos(Receiver) \in 1 .. N
    BY <1>5, <2>1
  <2> QED BY <1>1, <2>2
<1> QED BY <1>1, <1>5, <1>6, <1>7

(* The threads of S, each type from its root in the order of creation.     *)
Chain(S, r, nx) ==
  /\ \A ty \in {"PPT", "MGMT"} :
       \/ r[ty] = NoThread /\ \A u \in S : Type(u) # ty
       \/ r[ty] \in S /\ Type(r[ty]) = ty /\ \A u \in S : Type(u) = ty => Pos(r[ty]) <= Pos(u)
  /\ \A t \in S :
       \/ nx[t] = NoThread /\ \A u \in S : Type(u) = Type(t) => Pos(u) <= Pos(t)
       \/ /\ nx[t] \in S /\ Type(nx[t]) = Type(t) /\ Pos(t) < Pos(nx[t])
          /\ \A u \in S : Type(u) = Type(t) => Pos(u) <= Pos(t) \/ Pos(nx[t]) <= Pos(u)

Onward(x) == (x \cup {next[u] : u \in x}) \ {NoThread}

(* What a walk has seen after i steps.                                     *)
Sees(h, t, n) ==
  h = [i \in 0 .. n |-> IF i = 0 THEN {t} \ {NoThread}
                        ELSE Onward(h[i - 1])]

LEMMA WalkExists ==
  ASSUME NEW t, NEW n \in Nat
  PROVE  \E h : Sees(h, t, n)
<1> DEFINE T == {k \in Nat : \E h : Sees(h, t, k)}
<1>1. 0 \in T
  <2> DEFINE g == [i \in 0 .. 0 |-> {t} \ {NoThread}]
  <2>1. Sees(g, t, 0)
    BY DEF Sees
  <2> QED BY <2>1
<1>2. ASSUME NEW k \in Nat, k \in T PROVE k + 1 \in T
  <2>1. PICK h : Sees(h, t, k)
    BY <1>2
  <2> DEFINE g == [i \in 0 .. k + 1 |-> IF i = 0 THEN {t} \ {NoThread}
                                        ELSE Onward(h[i - 1])]
  <2>2. \A i \in 0 .. k : g[i] = h[i]
    <3>1. \A i \in 0 .. k : h[i] = IF i = 0 THEN {t} \ {NoThread}
                                   ELSE Onward(h[i - 1])
      BY <2>1 DEF Sees
    <3>2. \A i \in 0 .. k : i \in 0 .. k + 1
      OBVIOUS
    <3> QED BY <3>1, <3>2
  <2>3. \A i \in 0 .. k + 1 : i # 0 => i - 1 \in 0 .. k
    OBVIOUS
  <2>4. g = [i \in 0 .. k + 1 |-> IF i = 0 THEN {t} \ {NoThread}
                                  ELSE Onward(g[i - 1])]
    BY <2>2, <2>3
  <2>5. Sees(g, t, k + 1)
    BY <2>4 DEF Sees
  <2> QED BY <2>5
<1> HIDE DEF T
<1>3. Nat \subseteq T
  BY <1>1, <1>2, AllNaturals
<1> QED BY <1>3 DEF T

LEMMA FromIs ==
  ASSUME ThreadsAssumption, NEW t
  PROVE  \E h : /\ From(t) = h[Cardinality(Thread)] /\ h[0] = {t} \ {NoThread}
                /\ \A i \in Nat : i + 1 <= Cardinality(Thread) =>
                     h[i + 1] = Onward(h[i])
<1> DEFINE N == Cardinality(Thread)
           h == CHOOSE g : Sees(g, t, N)
<1>1. N \in Nat
  BY PosIs
<1>2. From(t) = h[N]
  BY DEF From, Sees, Onward
<1>3. Sees(h, t, N)
  BY <1>1, WalkExists
<1> HIDE DEF h, N
<1>4. h[0] = {t} \ {NoThread}
  <2>1. 0 \in 0 .. N
    BY <1>1
  <2> QED BY <1>3, <2>1 DEF Sees
<1>5. ASSUME NEW i \in Nat, i + 1 <= N
      PROVE  h[i + 1] = Onward(h[i])
  <2>1. i + 1 \in 0 .. N /\ i + 1 # 0 /\ i + 1 - 1 = i
    BY <1>1, <1>5
  <2>2. h[i + 1] = Onward(h[i + 1 - 1])
    <3>1. \A j \in 0 .. N : h[j] = IF j = 0 THEN {t} \ {NoThread}
                                   ELSE Onward(h[j - 1])
      BY <1>3 DEF Sees
    <3> QED BY <2>1, <3>1
  <2> QED BY <2>1, <2>2
<1> QED BY <1>2, <1>4, <1>5 DEF N

LEMMA LastIs ==
  ASSUME ThreadsAssumption, NEW S, S \subseteq Thread, Chain(S, root, next),
         NEW t \in Thread, root[Type(t)] # NoThread
  PROVE  /\ LastListed(t) \in S /\ Type(LastListed(t)) = Type(t) /\ next[LastListed(t)] = NoThread
         /\ \A u \in S : Type(u) = Type(t) => Pos(u) <= Pos(LastListed(t))
<1> DEFINE N == Cardinality(Thread)
           r == root[Type(t)]
           Kind == {u \in S : Type(u) = Type(t)}
<1>1. N \in Nat /\ NoThread \notin Thread /\ \A u \in Thread : Pos(u) \in Nat /\ 1 <= Pos(u) /\ Pos(u) <= N
  BY PosIs DEF ThreadsAssumption
<1>2. r \in Kind /\ r # NoThread
  <2>1. Type(t) \in {"PPT", "MGMT"}
    BY DEF Type
  <2> QED BY <2>1 DEF Chain
<1>3. \A u \in Kind : u \in Thread /\ (next[u] = NoThread \/ (next[u] \in Kind /\ Pos(u) < Pos(next[u])))
  BY DEF Chain
<1>4. PICK h : /\ From(r) = h[N] /\ h[0] = {r} \ {NoThread}
               /\ \A i \in Nat : i + 1 <= N => h[i + 1] = Onward(h[i])
  BY FromIs
<1> DEFINE Good(i) == h[i] \subseteq Kind /\ \E u \in h[i] : next[u] = NoThread \/ Pos(u) >= i + 1
           T == {i \in Nat : i <= N => Good(i)}
<1> HIDE DEF r, Kind, N
<1>5. 0 \in T
  <2>1. h[0] = {r}
    BY <1>2, <1>4
  <2>2. Pos(r) >= 0 + 1
    BY <1>1, <1>2, <1>3
  <2> QED BY <1>2, <2>1, <2>2
<1>6. ASSUME NEW i \in Nat, i \in T PROVE i + 1 \in T
  <2> SUFFICES ASSUME i + 1 <= N PROVE Good(i + 1)
    OBVIOUS
  <2>1. Good(i) /\ h[i + 1] = Onward(h[i])
    BY <1>1, <1>4, <1>6
  <2>2. h[i + 1] \subseteq Kind
    BY <1>3, <2>1 DEF Onward
  <2>3. \A u \in h[i] : u # NoThread /\ u \in h[i + 1]
    BY <1>1, <1>3, <2>1 DEF Onward
  <2>4. PICK u \in h[i] : next[u] = NoThread \/ Pos(u) >= i + 1
    BY <2>1
  <2>5. CASE next[u] = NoThread
    BY <2>2, <2>3, <2>5
  <2>6. CASE next[u] # NoThread
    <3>1. u \in Kind /\ next[u] \in Kind /\ Pos(u) < Pos(next[u]) /\ next[u] \in h[i + 1]
      BY <1>1, <1>3, <2>1, <2>6 DEF Onward
    <3>2. Pos(u) \in Nat /\ Pos(next[u]) \in Nat /\ Pos(u) >= i + 1
      BY <1>1, <1>3, <2>4, <2>6, <3>1
    <3>3. Pos(next[u]) >= i + 1 + 1
      BY <3>1, <3>2
    <3> QED BY <2>2, <3>1, <3>3
  <2> QED BY <2>5, <2>6
<1>7. Good(N)
  <2> HIDE DEF Good
  <2>1. Nat \subseteq T
    <3> HIDE DEF T
    <3> QED BY <1>5, <1>6, AllNaturals
  <2> QED BY <1>1, <2>1
<1>8. \E u \in From(r) : next[u] = NoThread
  <2>1. PICK u \in h[N] : next[u] = NoThread \/ Pos(u) >= N + 1
    BY <1>7
  <2>2. Pos(u) \in Nat /\ Pos(u) <= N
    BY <1>1, <1>3, <1>7
  <2> QED BY <1>1, <1>4, <2>1, <2>2
<1>9. LastListed(t) \in Kind /\ next[LastListed(t)] = NoThread
  <2>1. LastListed(t) \in From(r) /\ next[LastListed(t)] = NoThread
    BY <1>8 DEF LastListed, r
  <2> QED BY <1>4, <1>7, <2>1
<1>10. LastListed(t) \in S /\ Type(LastListed(t)) = Type(t) /\ next[LastListed(t)] \notin S
  BY <1>1, <1>9 DEF Kind
<1>11. \A u \in S : Type(u) = Type(LastListed(t)) => Pos(u) <= Pos(LastListed(t))
  BY <1>10 DEF Chain
<1> QED BY <1>9, <1>10, <1>11

LEMMA Appended ==
  ASSUME ThreadsAssumption, NEW S, S \subseteq Thread, Chain(S, root, next),
         root \in [{"PPT", "MGMT"} -> Thread \cup {NoThread}], next \in [Thread -> Thread \cup {NoThread}],
         NEW t \in Thread, t \notin S, \A u \in S : Pos(u) < Pos(t), TmThreadAppend(t)
  PROVE  /\ Chain(S \cup {t}, root', next')
         /\ root' \in [{"PPT", "MGMT"} -> Thread \cup {NoThread}] /\ next' \in [Thread -> Thread \cup {NoThread}]
<1>1. Type(t) \in {"PPT", "MGMT"} /\ NoThread \notin Thread
  BY DEF Type, ThreadsAssumption
<1>2. \A u \in S : u # t /\ Pos(u) < Pos(t) /\ ~(Pos(t) <= Pos(u)) /\ Pos(u) <= Pos(t)
  BY PosIs
<1>3. Pos(t) <= Pos(t)
  BY PosIs
<1>4. CASE root[Type(t)] = NoThread
  <2>1. root' = [root EXCEPT ![Type(t)] = t] /\ next' = [next EXCEPT ![t] = NoThread]
    BY <1>4 DEF TmThreadAppend
  <2>2. \A u \in S : Type(u) # Type(t) /\ next'[u] = next[u]
    BY <1>1, <1>2, <1>4, <2>1 DEF Chain
  <2>3. root'[Type(t)] = t /\ next'[t] = NoThread
    BY <1>1, <2>1
  <2>4. \A ty \in {"PPT", "MGMT"} : ty # Type(t) => root'[ty] = root[ty]
    BY <2>1
  <2>5. Chain(S \cup {t}, root', next')
    BY <1>2, <1>3, <2>2, <2>3, <2>4 DEF Chain
  <2> QED BY <2>1, <2>5
<1>5. CASE root[Type(t)] # NoThread
  <2> DEFINE l == LastListed(t)
  <2>1. root' = root /\ next' = [next EXCEPT ![l] = t, ![t] = NoThread]
    BY <1>5 DEF TmThreadAppend
  <2>2. l \in S /\ Type(l) = Type(t) /\ next[l] = NoThread /\ \A u \in S : Type(u) = Type(t) => Pos(u) <= Pos(l)
    BY <1>5, LastIs
  <2> HIDE DEF l
  <2>3. next'[l] = t /\ next'[t] = NoThread /\ \A u \in S : u # l => next'[u] = next[u]
    BY <1>2, <2>1, <2>2
  <2>4. \A ty \in {"PPT", "MGMT"} :
          \/ root'[ty] = NoThread /\ \A u \in S \cup {t} : Type(u) # ty
          \/ /\ root'[ty] \in S \cup {t} /\ Type(root'[ty]) = ty
             /\ \A u \in S \cup {t} : Type(u) = ty => Pos(root'[ty]) <= Pos(u)
    BY <1>2, <1>5, <2>1 DEF Chain
  <2>5. ASSUME NEW x \in S \cup {t}
        PROVE  \/ next'[x] = NoThread /\ \A u \in S \cup {t} : Type(u) = Type(x) => Pos(u) <= Pos(x)
               \/ /\ next'[x] \in S \cup {t} /\ Type(next'[x]) = Type(x) /\ Pos(x) < Pos(next'[x])
                  /\ \A u \in S \cup {t} : Type(u) = Type(x) => Pos(u) <= Pos(x) \/ Pos(next'[x]) <= Pos(u)
    <3>1. CASE x = t
      BY <1>2, <1>3, <2>3, <3>1
    <3>2. CASE x = l
      BY <1>2, <1>3, <2>2, <2>3, <3>2
    <3>3. CASE x # t /\ x # l /\ next[x] = NoThread
      <4>1. x \in S /\ Type(x) # Type(t)
        <5>1. x \in S
          BY <3>3
        <5>2. Type(x) = Type(t) => Pos(l) <= Pos(x) /\ Pos(x) <= Pos(l)
          <6>1. next[x] \notin S
            BY <1>1, <3>3
          <6>2. \A u \in S : Type(u) = Type(x) => Pos(u) <= Pos(x)
            BY <5>1, <6>1 DEF Chain
          <6> QED BY <2>2, <5>1, <6>2
        <5>3. Pos(x) = Pos(l) => x = l
          BY <2>2, <5>1, PosIs
        <5> QED BY <2>2, <3>3, <5>1, <5>2, <5>3, PosIs
      <4> QED BY <2>3, <3>3, <4>1 DEF Chain
    <3>4. CASE x # t /\ x # l /\ next[x] # NoThread
      BY <1>2, <2>3, <3>4 DEF Chain
    <3> QED BY <3>1, <3>2, <3>3, <3>4
  <2> QED BY <2>1, <2>4, <2>5 DEF Chain
<1> QED BY <1>4, <1>5
---------------------------------------------------------------------------
(* The lives of the threads                                                *)

(* A failed thread is restarted, and there is no thread behind it in the   *)
(* list that TmThreadAppend would cut off.                                 *)
RestartsWell ==
  [][TmThreadRestartThread => MayRestart(main.tv) /\ next[main.tv] = NoThread]_threadsVars

Spawned == IF main.pc = "spawn" THEN {t \in Thread : Pos(t) < Pos(main.tv)} ELSE Thread
Before(u, t) ==
  \/ Type(u) = "PPT" /\ Type(t) = "MGMT"
  \/ Type(u) = Type(t) /\ Pos(u) < Pos(t)

Stopping == {"kill", "signal", "join"}
AtThread == Stopping \cup {"spawn", "initwait", "continue", "state", "join failed"}

Listing ==
  /\ root \in [{"PPT", "MGMT"} -> Thread \cup {NoThread}] /\ next \in [Thread -> Thread \cup {NoThread}]
  /\ Chain(Spawned, root, next)

(* Who has been joined: those the walk of the shutdown has passed.         *)
Joins(m, js) ==
  /\ m.pc \in MainPlace
  /\ m.pc \in AtThread => m.tv \in Thread
  /\ js = IF m.pc \in Stopping THEN {u \in Thread : Before(u, m.tv)}
          ELSE IF m.pc = "done" THEN Thread ELSE {}

LifeInv ==
  /\ Listing /\ Joins(main, joined)
  /\ \A t \in joined : pc[t] = "exited"

LEMMA Walks ==
  ASSUME ThreadsAssumption, Chain(Thread, root, next)
  PROVE  /\ First \in Thread /\ \A u \in Thread : ~Before(u, First)
         /\ \A t \in Thread :
              /\ ~Before(t, t)
              /\ After(t) # NoThread =>
                   /\ After(t) \in Thread
                   /\ \A u \in Thread : Before(u, After(t)) <=> u = t \/ Before(u, t)
              /\ After(t) = NoThread => \A u \in Thread : u = t \/ Before(u, t)
<1>1. /\ NoThread \notin Thread /\ \A u \in Thread : Pos(u) \in Nat /\ Type(u) \in {"PPT", "MGMT"}
      /\ \A u, t \in Thread : Pos(u) = Pos(t) => u = t
  BY PosIs DEF Type, ThreadsAssumption
<1>2. Receiver \in Thread /\ Type(Receiver) = "PPT"
  BY DEF ThreadsAssumption, Thread, Ppt, Type
<1>3. \A ty \in {"PPT", "MGMT"} :
       \/ root[ty] = NoThread /\ \A u \in Thread : Type(u) # ty
       \/ /\ root[ty] # NoThread /\ root[ty] \in Thread /\ Type(root[ty]) = ty
          /\ \A u \in Thread : Type(u) = ty => Pos(root[ty]) <= Pos(u)
  BY <1>1 DEF Chain
<1>4. \A t \in Thread :
       \/ next[t] = NoThread /\ \A u \in Thread : Type(u) = Type(t) => Pos(u) <= Pos(t)
       \/ /\ next[t] # NoThread /\ next[t] \in Thread /\ Type(next[t]) = Type(t) /\ Pos(t) < Pos(next[t])
          /\ \A u \in Thread : Type(u) = Type(t) => Pos(u) <= Pos(t) \/ Pos(next[t]) <= Pos(u)
  BY <1>1 DEF Chain
<1>5. /\ First = root["PPT"] /\ First \in Thread /\ Type(First) = "PPT"
      /\ \A u \in Thread : Type(u) = "PPT" => Pos(First) <= Pos(u)
  BY <1>2, <1>3 DEF First
<1>6. \A u \in Thread : ~Before(u, First)
  BY <1>1, <1>5 DEF Before
<1>7. ASSUME NEW t \in Thread
      PROVE  /\ ~Before(t, t)
             /\ After(t) # NoThread =>
                  /\ After(t) \in Thread
                  /\ \A u \in Thread : Before(u, After(t)) <=> u = t \/ Before(u, t)
             /\ After(t) = NoThread => \A u \in Thread : u = t \/ Before(u, t)
  <2>1. ~Before(t, t)
    BY <1>1 DEF Before
  <2>2. CASE next[t] # NoThread
    <3>1. /\ After(t) = next[t] /\ next[t] \in Thread /\ Type(next[t]) = Type(t) /\ Pos(t) < Pos(next[t])
          /\ \A u \in Thread : Type(u) = Type(t) => Pos(u) <= Pos(t) \/ Pos(next[t]) <= Pos(u)
      BY <1>4, <2>2 DEF After
    <3>2. ASSUME NEW u \in Thread PROVE Before(u, next[t]) <=> u = t \/ Before(u, t)
      <4>1. Pos(u) \in Nat /\ Pos(t) \in Nat /\ Pos(next[t]) \in Nat /\ (Pos(u) = Pos(t) => u = t)
        BY <1>1, <3>1
      <4> QED BY <3>1, <4>1 DEF Before
    <3> QED BY <2>1, <2>2, <3>1, <3>2
  <2>3. CASE next[t] = NoThread /\ Type(t) = "PPT"
    <3>1. /\ After(t) = root["MGMT"]
          /\ \A u \in Thread : Type(u) = "PPT" => Pos(u) <= Pos(t)
      BY <1>4, <2>3 DEF After
    <3>2. CASE root["MGMT"] = NoThread
      <4>1. \A u \in Thread : Type(u) = "PPT"
        BY <1>1, <1>3, <3>2
      <4>2. \A u \in Thread : u = t \/ Before(u, t)
        <5> TAKE u \in Thread
        <5>1. Pos(u) \in Nat /\ Pos(t) \in Nat /\ (Pos(u) = Pos(t) => u = t)
          BY <1>1
        <5> QED BY <2>3, <3>1, <4>1, <5>1 DEF Before
      <4> QED BY <2>1, <3>1, <3>2, <4>2
    <3>3. CASE root["MGMT"] # NoThread
      <4>1. /\ root["MGMT"] \in Thread /\ Type(root["MGMT"]) = "MGMT"
            /\ \A u \in Thread : Type(u) = "MGMT" => Pos(root["MGMT"]) <= Pos(u)
        BY <1>3, <3>3
      <4>2. ASSUME NEW u \in Thread PROVE Before(u, root["MGMT"]) <=> u = t \/ Before(u, t)
        <5>1. /\ Pos(u) \in Nat /\ Pos(t) \in Nat /\ Pos(root["MGMT"]) \in Nat
              /\ (Pos(u) = Pos(t) => u = t) /\ Type(u) \in {"PPT", "MGMT"}
          BY <1>1, <4>1
        <5> QED BY <2>3, <3>1, <4>1, <5>1 DEF Before
      <4> QED BY <2>1, <3>1, <3>3, <4>1, <4>2
    <3> QED BY <3>2, <3>3
  <2>4. CASE next[t] = NoThread /\ Type(t) # "PPT"
    <3>1. After(t) = NoThread /\ Type(t) = "MGMT" /\ \A u \in Thread : Type(u) = "MGMT" => Pos(u) <= Pos(t)
      BY <1>1, <1>4, <2>4 DEF After
    <3>2. \A u \in Thread : u = t \/ Before(u, t)
      <4> TAKE u \in Thread
      <4>1. Pos(u) \in Nat /\ Pos(t) \in Nat /\ (Pos(u) = Pos(t) => u = t) /\ Type(u) \in {"PPT", "MGMT"}
        BY <1>1
      <4> QED BY <3>1, <4>1 DEF Before
    <3> QED BY <2>1, <3>1, <3>2
  <2> QED BY <2>2, <2>3, <2>4
<1> QED BY <1>5, <1>6, <1>7

LEMMA LifeInit ==
  ASSUME ThreadsAssumption, ThreadsInit
  PROVE  LifeInv
<1>1. /\ main.pc = "spawn" /\ main.tv = SpawnOrder[1] /\ joined = {}
      /\ root = [ty \in {"PPT", "MGMT"} |-> NoThread] /\ next = [t \in Thread |-> NoThread]
  BY DEF ThreadsInit
<1>2. SpawnOrder[1] \in Thread /\ Pos(SpawnOrder[1]) = 1 /\ \A t \in Thread : ~(Pos(t) < 1)
  BY PosIs
<1>3. Spawned = {}
  BY <1>1, <1>2 DEF Spawned
<1>4. Listing
  BY <1>1, <1>3 DEF Listing, Chain
<1>5. Joins(main, joined)
  BY <1>1, <1>2 DEF Joins, Stopping, AtThread, MainPlace
<1> QED BY <1>1, <1>4, <1>5 DEF LifeInv

(* A thread leaves its life once: nobody moves it any more.                *)
LEMMA ThreadLives ==
  ASSUME Finite, Typed, LifeInv, NEW t \in Thread, ThreadStep(t)
  PROVE  LifeInv'
<1>1. UNCHANGED <<root, next, main, joined>>
  BY DEF ThreadStep, ThreadInit, TmThreadTestThreadUnPaused, ReceiveNFQ, TmqhInputSimple, SlotOut,
         SlotFails, Wakeup, CheckKill, ThreadExit, lists, life
<1>2. \A u \in Thread : pc[u] = "exited" => pc'[u] = "exited"
  <2>1. ASSUME NEW l, Goto(t, l), pc[t] # "exited" PROVE \A u \in Thread : pc[u] = "exited" => pc'[u] = "exited"
    BY <2>1 DEF Goto, Typed
  <2>2. ASSUME NEW l, NEW W, Wake(W, t, l), \A u \in W : pc[u] = "wait", pc[t] # "exited"
        PROVE  \A u \in Thread : pc[u] = "exited" => pc'[u] = "exited"
    BY <2>2 DEF Wake
  <2>3. ASSUME NEW k, NEW l, TmqhOutputSimple(k, t, l), pc[t] # "exited"
        PROVE  \A u \in Thread : pc[u] = "exited" => pc'[u] = "exited"
    <3>1. PICK W \in Woken(k, 1) : Wake(W, t, l)
      BY <2>3 DEF TmqhOutputSimple
    <3>2. \A u \in W : pc[u] = "wait"
      BY <3>1 DEF Woken, Waiting
    <3> QED BY <2>2, <2>3, <3>1, <3>2
  <2>4. CASE ThreadInit(t)
    BY <2>1, <2>4 DEF ThreadInit
  <2>5. CASE TmThreadTestThreadUnPaused(t)
    BY <2>1, <2>5 DEF TmThreadTestThreadUnPaused
  <2>6. CASE ReceiveNFQ(t)
    BY <2>1, <2>3, <2>6 DEF ReceiveNFQ
  <2>7. CASE TmqhInputSimple(t)
    <3>1. pc[t] # "exited" /\ \E l : Goto(t, l)
      BY <2>7 DEF TmqhInputSimple
    <3> QED BY <2>1, <3>1
  <2>8. CASE SlotOut(t)
    BY <2>1, <2>3, <2>8 DEF SlotOut
  <2>9. CASE SlotFails(t)
    BY <2>1, <2>9 DEF SlotFails
  <2>10. CASE Wakeup(t)
    <3>1. PICK W \in SUBSET UNION {Waiting(k) : k \in Queue} : Wake(W, t, "check")
      BY <2>10 DEF Wakeup
    <3>2. \A u \in W : pc[u] = "wait"
      BY <3>1 DEF Waiting
    <3>3. pc[t] # "exited"
      BY <2>10 DEF Wakeup
    <3> QED BY <2>2, <3>1, <3>2, <3>3
  <2>11. CASE CheckKill(t)
    <3>1. pc[t] # "exited" /\ \E l : Goto(t, l)
      BY <2>11 DEF CheckKill
    <3> QED BY <2>1, <3>1
  <2>12. CASE ThreadExit(t)
    BY <2>1, <2>12 DEF ThreadExit
  <2> QED BY <2>4, <2>5, <2>6, <2>7, <2>8, <2>9, <2>10, <2>11, <2>12 DEF ThreadStep
<1>3. joined \subseteq Thread
  BY DEF LifeInv, Joins
<1> QED BY <1>1, <1>2, <1>3 DEF LifeInv, Listing, Spawned

(* Main walks the lists without changing them.                             *)
LEMMA MainWalks ==
  ASSUME ThreadsAssumption, LifeInv, UNCHANGED <<root, next>>,
         main.pc # "spawn", main'.pc # "spawn", Joins(main', joined'),
         \A t \in joined' : pc'[t] = "exited"
  PROVE  LifeInv'
<1>1. Spawned = Thread /\ Spawned' = Thread
  BY DEF Spawned
<1>2. Listing'
  BY <1>1 DEF Listing, LifeInv
<1> QED BY <1>2 DEF LifeInv

LEMMA MainLives ==
  ASSUME ThreadsAssumption, Finite, Typed, LifeInv, MainStep,
         TmThreadRestartThread => MayRestart(main.tv) /\ next[main.tv] = NoThread
  PROVE  LifeInv'
<1> USE DEF AtThread, Stopping
<1>0. /\ NoThread \notin Thread /\ main.pc \in MainPlace
      /\ main.pc \in AtThread => main.tv \in Thread
      /\ joined \subseteq Thread /\ \A t \in joined : pc[t] = "exited"
  BY DEF ThreadsAssumption, LifeInv, Joins
<1>w. main.pc # "spawn" =>
        /\ First \in Thread /\ \A u \in Thread : ~Before(u, First)
        /\ \A t \in Thread :
             /\ ~Before(t, t)
             /\ After(t) # NoThread =>
                  /\ After(t) \in Thread
                  /\ \A u \in Thread : Before(u, After(t)) <=> u = t \/ Before(u, t)
             /\ After(t) = NoThread => \A u \in Thread : u = t \/ Before(u, t)
  BY Walks DEF LifeInv, Listing, Spawned
<1>1. CASE Spawn
  <2> DEFINE t == main.tv
             S == {u \in Thread : Pos(u) < Pos(t)}
  <2>1. /\ main.pc = "spawn" /\ t \in Thread /\ TmThreadAppend(t) /\ joined' = joined \ {t} /\ joined = {}
        /\ IF Pos(t) < Len(SpawnOrder) THEN MainGoto("spawn", SpawnOrder[Pos(t) + 1])
           ELSE MainGoto("initwait", SpawnOrder[1])
    BY <1>1 DEF Spawn, TmThreadSpawn, Pos, LifeInv, Joins
  <2>2. Chain(S, root, next) /\ root \in [{"PPT", "MGMT"} -> Thread \cup {NoThread}]
        /\ next \in [Thread -> Thread \cup {NoThread}] /\ S \subseteq Thread
    BY <2>1 DEF LifeInv, Listing, Spawned
  <2>3. t \notin S /\ \A u \in S : Pos(u) < Pos(t)
    BY <2>1, PosIs
  <2> HIDE DEF t
  <2>4. /\ Chain(S \cup {t}, root', next')
        /\ root' \in [{"PPT", "MGMT"} -> Thread \cup {NoThread}] /\ next' \in [Thread -> Thread \cup {NoThread}]
    <3> HIDE DEF S
    <3> QED BY <2>1, <2>2, <2>3, Appended
  <2>p. /\ Len(SpawnOrder) \in Nat
        /\ \A u \in Thread : Pos(u) \in 1 .. Len(SpawnOrder) /\ SpawnOrder[Pos(u)] = u
        /\ \A i \in 1 .. Len(SpawnOrder) : SpawnOrder[i] \in Thread /\ Pos(SpawnOrder[i]) = i
        /\ 1 \in 1 .. Len(SpawnOrder)
    BY PosIs
  <2>5. CASE Pos(t) < Len(SpawnOrder)
    <3>1. main'.pc = "spawn" /\ main'.tv = SpawnOrder[Pos(t) + 1]
      BY <2>1, <2>5 DEF MainGoto
    <3>2. Pos(t) + 1 \in 1 .. Len(SpawnOrder)
      BY <2>1, <2>5, <2>p
    <3>3. main'.tv \in Thread /\ Pos(main'.tv) = Pos(t) + 1
      BY <2>p, <3>1, <3>2
    <3>4. S \cup {t} = {u \in Thread : Pos(u) < Pos(main'.tv)}
      BY <2>1, <2>p, <3>3
    <3>5. Spawned' = S \cup {t}
      BY <3>1, <3>4 DEF Spawned
    <3>6. Joins(main', joined')
      BY <2>1, <3>1, <3>3 DEF Joins, MainPlace
    <3> QED BY <2>1, <2>4, <3>5, <3>6 DEF LifeInv, Listing
  <2>6. CASE ~(Pos(t) < Len(SpawnOrder))
    <3>1. main'.pc = "initwait" /\ main'.tv = SpawnOrder[1]
      BY <2>1, <2>6 DEF MainGoto
    <3>2. S \cup {t} = Thread
      BY <2>1, <2>6, <2>p
    <3>3. Spawned' = S \cup {t}
      BY <3>1, <3>2 DEF Spawned
    <3>4. Joins(main', joined')
      BY <2>1, <2>p, <3>1 DEF Joins, MainPlace
    <3> QED BY <2>1, <2>4, <3>3, <3>4 DEF LifeInv, Listing
  <2> QED BY <2>5, <2>6
<1>2. CASE TmThreadWaitOnThreadInit \/ TmThreadContinueThreads \/ TmThreadCheckThreadState
  <2>1. /\ main.pc \in {"initwait", "continue", "state"} /\ UNCHANGED <<root, next, joined, pc>>
        /\ \/ MainGoto("exit", NoThread) \/ MainGoto("top", NoThread)
           \/ \E l \in {"initwait", "continue", "state", "join failed"} :
                \E u \in {First, main.tv, After(main.tv)} : u # NoThread /\ MainGoto(l, u)
    BY <1>0, <1>2, <1>w DEF TmThreadWaitOnThreadInit, TmThreadContinueThreads, TmThreadCheckThreadState,
                     NextState, lists, life
  <2>2. joined = {} /\ main.tv \in Thread
    BY <1>0, <2>1 DEF LifeInv, Joins
  <2>3. main'.pc # "spawn" /\ Joins(main', joined)
    <3>1. CASE MainGoto("exit", NoThread) \/ MainGoto("top", NoThread)
      <4>1. main'.pc = "exit" \/ main'.pc = "top"
        BY <3>1 DEF MainGoto
      <4> QED BY <2>2, <4>1 DEF Joins, MainPlace
    <3>2. ASSUME NEW l \in {"initwait", "continue", "state", "join failed"},
                 NEW u \in {First, main.tv, After(main.tv)}, u # NoThread, MainGoto(l, u)
          PROVE  main'.pc # "spawn" /\ Joins(main', joined)
      <4>1. u \in Thread
        <5>1. main.pc # "spawn"
          BY <2>1
        <5>2. First \in Thread /\ (After(main.tv) # NoThread => After(main.tv) \in Thread)
          BY <1>w, <2>2, <5>1
        <5> QED BY <2>2, <3>2, <5>2
      <4>2. main'.pc = l /\ main'.tv = u
        BY <3>2 DEF MainGoto
      <4> QED BY <2>2, <4>1, <4>2 DEF Joins, MainPlace
    <3> QED BY <2>1, <3>1, <3>2
  <2> QED BY <1>0, <2>1, <2>3, MainWalks
<1>3. CASE MainTop \/ EngineStopWait
  <2>1. /\ main.pc \in {"top", "stop"} /\ UNCHANGED <<root, next, joined, pc>>
        /\ MainGoto("stop", NoThread) \/ MainGoto("state", First) \/ MainGoto("kill", First)
    BY <1>3 DEF MainTop, EngineStopWait, lists, life
  <2>2. joined = {} /\ First \in Thread /\ \A u \in Thread : ~Before(u, First)
    BY <1>w, <2>1 DEF LifeInv, Joins
  <2>3. main'.pc # "spawn" /\ Joins(main', joined)
    <3>1. \/ main'.pc = "stop"
          \/ main'.pc \in {"state", "kill"} /\ main'.tv = First
      BY <2>1 DEF MainGoto
    <3>2. CASE main'.pc = "stop"
      BY <2>2, <3>2 DEF Joins, MainPlace
    <3>3. CASE main'.pc = "state" /\ main'.tv = First
      BY <2>2, <3>3 DEF Joins, MainPlace
    <3>4. CASE main'.pc = "kill" /\ main'.tv = First
      <4>1. {u \in Thread : Before(u, First)} = {}
        BY <2>2
      <4> QED BY <2>2, <3>4, <4>1 DEF Joins, MainPlace
    <3> QED BY <3>1, <3>2, <3>3, <3>4
  <2> QED BY <1>0, <2>1, <2>3, MainWalks
<1>4. CASE TmThreadRestartThread
  <2> DEFINE t == main.tv
  <2>1. /\ main.pc = "join failed" /\ t \in Thread /\ joined = {} /\ joined' = joined \ {t}
        /\ TmThreadAppend(t) /\ next[t] = NoThread
        /\ \/ MainGoto("top", NoThread)
           \/ root'["MGMT"] # NoThread /\ MainGoto("state", root'["MGMT"])
    BY <1>0, <1>4 DEF TmThreadRestartThread, TmThreadSpawn, LifeInv, Joins
  <2>2. Listing /\ Spawned = Thread
    BY <2>1 DEF LifeInv, Spawned
  <2>3. UNCHANGED <<root, next>>
    <3>1. Type(t) \in {"PPT", "MGMT"} /\ Chain(Thread, root, next)
      BY <2>2 DEF Type, Listing
    <3>2. root[Type(t)] # NoThread
      BY <1>0, <2>1, <3>1 DEF Chain
    <3>3. /\ LastListed(t) \in Thread /\ Type(LastListed(t)) = Type(t) /\ next[LastListed(t)] = NoThread
          /\ \A u \in Thread : Type(u) = Type(t) => Pos(u) <= Pos(LastListed(t))
      BY <2>1, <3>1, <3>2, LastIs
    <3>4. \A u \in Thread : Type(u) = Type(t) => Pos(u) <= Pos(t)
      BY <1>0, <2>1, <3>1 DEF Chain
    <3>5. Pos(LastListed(t)) = Pos(t)
      <4>1. Pos(t) \in Nat /\ Pos(LastListed(t)) \in Nat
        <5>1. \A u \in Thread : Pos(u) \in Nat
          BY PosIs
        <5> QED BY <2>1, <3>3, <5>1
      <4>2. Pos(t) <= Pos(LastListed(t)) /\ Pos(LastListed(t)) <= Pos(t)
        BY <2>1, <3>3, <3>4
      <4> QED BY <4>1, <4>2
    <3>6. LastListed(t) = t
      BY <2>1, <3>3, <3>5, PosIs
    <3>7. UNCHANGED root /\ next' = [next EXCEPT ![t] = t, ![t] = NoThread]
      BY <2>1, <3>2, <3>6 DEF TmThreadAppend
    <3>8. next' = next
      BY <2>1, <2>2, <3>7 DEF Listing
    <3> QED BY <3>7, <3>8
  <2>4. main'.pc # "spawn" /\ Joins(main', joined')
    <3>1. CASE MainGoto("top", NoThread)
      BY <2>1, <3>1 DEF MainGoto, Joins, MainPlace
    <3>2. CASE root'["MGMT"] # NoThread /\ MainGoto("state", root'["MGMT"])
      <4>1. root'["MGMT"] \in Thread
        BY <2>2, <2>3, <3>2 DEF Listing
      <4> QED BY <2>1, <3>2, <4>1 DEF MainGoto, Joins, MainPlace
    <3> QED BY <2>1, <3>1, <3>2
  <2> QED BY <2>1, <2>3, <2>4, MainWalks
<1>5. CASE SetKill \/ SignalUntilClosed
  <2>1. /\ main.pc \in {"kill", "signal"} /\ main'.pc \in {"signal", "join"} /\ main'.tv = main.tv
        /\ UNCHANGED <<root, next, joined>>
        /\ \A u \in Thread : pc[u] = "exited" => pc'[u] = "exited"
    <3>1. CASE SetKill
      BY <3>1 DEF SetKill, MainGoto, lists, life
    <3>2. CASE SignalUntilClosed
      <4>1. /\ main.pc = "signal" /\ UNCHANGED <<root, next, joined>>
            /\ (MainGoto("join", main.tv) \/ UNCHANGED main)
        BY <3>2 DEF SignalUntilClosed, lists, life
      <4>2. \/ UNCHANGED pc
            \/ pc' = [u \in Thread |-> IF u \in Waiting(InQ[main.tv]) THEN "woken" ELSE pc[u]]
        BY <3>2 DEF SignalUntilClosed
      <4>3. \A u \in Thread : pc[u] = "exited" => pc'[u] = "exited"
        BY <4>2 DEF Waiting
      <4> QED BY <4>1, <4>3 DEF MainGoto
    <3> QED BY <1>5, <3>1, <3>2
  <2>2. main'.pc # "spawn" /\ Joins(main', joined)
    BY <1>0, <2>1 DEF LifeInv, Joins, MainPlace
  <2> QED BY <1>0, <2>1, <2>2, MainWalks
<1>6. CASE Join
  <2> DEFINE t == main.tv
  <2>1. /\ main.pc = "join" /\ t \in Thread /\ pc[t] = "exited" /\ joined' = joined \cup {t}
        /\ joined = {u \in Thread : Before(u, t)} /\ UNCHANGED <<root, next, pc>>
        /\ \/ After(t) = NoThread /\ MainGoto("done", NoThread)
           \/ After(t) # NoThread /\ MainGoto("kill", After(t))
    BY <1>0, <1>6 DEF Join, LifeInv, Joins, lists
  <2> HIDE DEF t
  <2>2. main'.pc # "spawn" /\ Joins(main', joined')
    <3>1. CASE After(t) = NoThread /\ MainGoto("done", NoThread)
      <4>1. joined' = Thread
        BY <1>w, <2>1, <3>1
      <4> QED BY <3>1, <4>1 DEF MainGoto, Joins, MainPlace
    <3>2. CASE After(t) # NoThread /\ MainGoto("kill", After(t))
      <4>1. After(t) \in Thread /\ joined' = {u \in Thread : Before(u, After(t))}
        BY <1>w, <2>1, <3>2
      <4> QED BY <3>2, <4>1 DEF MainGoto, Joins, MainPlace
    <3> QED BY <2>1, <3>1, <3>2
  <2>3. \A u \in joined' : pc'[u] = "exited"
    BY <1>0, <2>1
  <2> QED BY <2>1, <2>2, <2>3, MainWalks
<1> QED BY <1>1, <1>2, <1>3, <1>4, <1>5, <1>6 DEF MainStep

LEMMA LifeStep ==
  ASSUME ThreadsAssumption, Finite, Typed, LifeInv, [ThreadsNext]_threadsVars,
         [TmThreadRestartThread => MayRestart(main.tv) /\ next[main.tv] = NoThread]_threadsVars
  PROVE  LifeInv'
<1>1. CASE \E t \in Thread : ThreadStep(t)
  BY <1>1, ThreadLives
<1>2. CASE UNCHANGED threadsVars
  BY <1>2 DEF threadsVars, LifeInv, Listing, Spawned
<1>3. CASE MainStep /\ ~UNCHANGED threadsVars
  BY <1>3, MainLives
<1>4. CASE SignalHandler \/ Ended
  BY <1>4 DEF SignalHandler, Ended, threadsVars, lists, life, LifeInv, Listing, Spawned
<1> QED BY <1>1, <1>2, <1>3, <1>4 DEF ThreadsNext

LEMMA LifeIsInOrder ==
  ASSUME ThreadsAssumption, Paused, LifeInv
  PROVE  LifeInOrder
<1>1. PausedUntilReady
  BY DEF Paused, PausedUntilReady
<1>2. JoinedOnce
  <2> SUFFICES ASSUME main.pc \in {"join", "join failed"} PROVE main.tv \notin joined
    BY DEF JoinedOnce
  <2>1. CASE main.pc = "join failed"
    BY <2>1 DEF LifeInv, Joins, Stopping
  <2>2. CASE main.pc = "join"
    <3>1. main.tv \in Thread /\ joined = {u \in Thread : Before(u, main.tv)}
      BY <2>2 DEF LifeInv, Joins, Stopping, AtThread
    <3>2. ~Before(main.tv, main.tv)
      <4>1. Chain(Thread, root, next)
        BY <2>2 DEF LifeInv, Listing, Spawned
      <4> QED BY <3>1, <4>1, Walks
    <3> QED BY <3>1, <3>2
  <2> QED BY <2>1, <2>2
<1>3. StoppedBeforeCleanup
  BY DEF LifeInv, Joins, Stopping, StoppedBeforeCleanup
<1> QED BY <1>1, <1>2, <1>3 DEF LifeInOrder

(* Nothing is cleaned up (FlowShutdown and what follows it in main) before *)
(* every thread has ended, none is joined twice, and none passes its pause *)
(* before main has continued them: the walk of TmThreadKillThreads comes   *)
(* to each thread once, as long as a thread that fails is restarted, and   *)
(* is the last of its list then: TmThreadAppend cuts off what is behind.   *)
THEOREM ThreadsLiveInOrder ==
  ASSUME ThreadsAssumption
  PROVE  ThreadsSpec /\ RestartsWell => []LifeInOrder
<1>1. Finite
  BY DEF ThreadsAssumption, Finite
<1>2. ThreadsInit => WakeInv /\ LifeInv
  BY <1>1, WakeInvInit, LifeInit
<1>3. WakeInv /\ [ThreadsNext]_threadsVars => WakeInv'
  BY <1>1, WakeInvStep
<1>4. WakeInv /\ LifeInv /\ [ThreadsNext]_threadsVars
      /\ [TmThreadRestartThread => MayRestart(main.tv) /\ next[main.tv] = NoThread]_threadsVars => LifeInv'
  BY <1>1, LifeStep DEF WakeInv
<1>5. WakeInv /\ LifeInv => LifeInOrder
  BY LifeIsInOrder DEF WakeInv
<1> QED BY <1>2, <1>3, <1>4, <1>5, PTL DEF ThreadsSpec, RestartsWell
=============================================================================
