------------------------------ MODULE Threads ------------------------------
(***************************************************************************)
(* The threads of the engine: how main spawns, unpauses, watches, restarts *)
(* and kills them (tm-threads.c, suricata.c), how they wait for packets on *)
(* the condition variable of their queue (tmqh-simple.c), and the list     *)
(* tv_root through which main reaches them.  Packets are counted, not told *)
(* apart (PacketPool follows them one by one).                             *)
(***************************************************************************)
EXTENDS Integers, FiniteSetsExt, Sequences, Functions

CONSTANTS
  Receiver,       \* ReceiveNFQ, slot "1slot_noinout"
  Slot,           \* threads with an input queue, slot "1slot"
  Mgmt,           \* SCPerfWakeupThread, of type TVT_MGMT
  SpawnOrder,     \* all of them, in the order main spawns them
  Queue, POOL,
  NoThread,       \* NULL
  InQ,            \* [Slot -> Queue]
  OutQ,           \* [Slot and Receiver -> Queue or POOL]
  Counting,       \* readers whose modules have counters (sc_perf_pctx.head)
  InitMayFail, MayFail,   \* threads whose module's init or function can fail
  max_pending_packets, THV_MAX_RESTARTS,
  MaxArrived, MaxFailures   \* bounds: packets received, failures of module functions

Thread == {Receiver} \cup Slot \cup Mgmt
Ppt == {Receiver} \cup Slot

ThreadsAssumption ==
  /\ IsFiniteSet(Thread) /\ NoThread \notin Thread /\ POOL \notin Queue
  /\ Receiver \notin Slot /\ Ppt \cap Mgmt = {}
  /\ IsFiniteSet(Queue) /\ InQ \in [Slot -> Queue]
  /\ OutQ \in [Ppt -> Queue \cup {POOL}] /\ OutQ[Receiver] \in Queue
  /\ max_pending_packets \in Nat \ {0} /\ THV_MAX_RESTARTS \in Nat
  /\ MaxArrived \in Nat /\ MaxFailures \in Nat /\ MayFail \cup Counting \subseteq Slot
  /\ SpawnOrder \in Seq(Thread) /\ Len(SpawnOrder) = Cardinality(Thread)
  /\ {SpawnOrder[i] : i \in DOMAIN SpawnOrder} = Thread

VARIABLES
  root,       \* tv_root: [type -> the first thread of the list]
  next,       \* tv->next
  flags,      \* tv->flags
  restarted,  \* tv->restarted
  pc,         \* where each thread is
  len,        \* [Queue -> packets in trans_q]
  poolSize,   \* PacketPoolSize()
  ctl,        \* suricata_ctl_flags
  main,       \* the main thread: its place, and the thread its walk is at
  joined,     \* history: pthread_join has returned for the pthread of tv->t
  arrived, failures   \* for the bounds

threadsVars ==
  <<root, next, flags, restarted, pc, len, poolSize, ctl, main, joined, arrived, failures>>
lists == <<root, next>>
packets == <<len, poolSize, arrived>>
life == <<restarted, joined>>

Flag == {"INIT_DONE", "PAUSE", "KILL", "FAILED", "CLOSED"}
Place == {"none", "init", "pause", "in", "wait", "woken", "work", "check", "deinit", "exited"}
MainPlace == {"spawn", "initwait", "continue", "top", "state", "join failed", "stop", "kill",
              "signal", "join", "done", "exit"}

ThreadsTypeOK ==
  /\ root \in [{"PPT", "MGMT"} -> Thread \cup {NoThread}]
  /\ next \in [Thread -> Thread \cup {NoThread}]
  /\ flags \in [Thread -> SUBSET Flag] /\ restarted \in [Thread -> 0 .. THV_MAX_RESTARTS]
  /\ pc \in [Thread -> Place] /\ len \in [Queue -> Nat] /\ poolSize \in 0 .. max_pending_packets
  /\ ctl \subseteq {"STOP", "KILL"} /\ joined \subseteq Thread
  /\ main.pc \in MainPlace /\ main.tv \in Thread \cup {NoThread}

\* TmThreadCreate: paused; nothing is in the list before TmThreadSpawn.
CreationFlags == {"PAUSE"}
ThreadsInit ==
  /\ root = [ty \in {"PPT", "MGMT"} |-> NoThread] /\ next = [t \in Thread |-> NoThread]
  /\ flags = [t \in Thread |-> CreationFlags] /\ restarted = [t \in Thread |-> 0]
  /\ pc = [t \in Thread |-> "none"]
  /\ len = [k \in Queue |-> 0] /\ poolSize = max_pending_packets
  /\ ctl = {} /\ main = [pc |-> "spawn", tv |-> SpawnOrder[1]] /\ joined = {}
  /\ arrived = 0 /\ failures = 0

Goto(t, l) == pc' = [pc EXCEPT ![t] = l]
SetFlag(t, f) == flags' = [flags EXCEPT ![t] = @ \cup {f}]
MainGoto(l, t) == main' = [pc |-> l, tv |-> t]
Running == main.pc # "exit"

-----------------------------------------------------------------------------
(* The list of threads.                                                    *)

Type(t) == IF t \in Mgmt THEN "MGMT" ELSE "PPT"

\* The threads a walk from t visits.
From(t) ==
  LET reached[n \in 0 .. Cardinality(Thread)] ==
        IF n = 0 THEN {t} \ {NoThread}
        ELSE (reached[n - 1] \cup {next[u] : u \in reached[n - 1]}) \ {NoThread}
  IN reached[Cardinality(Thread)]
Listed == From(root["PPT"]) \cup From(root["MGMT"])

LastListed(t) == CHOOSE u \in From(root[Type(t)]) : next[u] = NoThread

\* Append t to the list of its type, whether or not it is in it already; the
\* back pointers, which nothing reads, are left out.
TmThreadAppend(t) ==
  IF root[Type(t)] = NoThread
  THEN /\ root' = [root EXCEPT ![Type(t)] = t]
       /\ next' = [next EXCEPT ![t] = NoThread]
  ELSE /\ next' = [next EXCEPT ![LastListed(t)] = t, ![t] = NoThread]
       /\ UNCHANGED root

\* What a walk over both lists goes to after t; First starts it.
First == IF root["PPT"] # NoThread THEN root["PPT"] ELSE root["MGMT"]
After(t) == IF next[t] = NoThread /\ Type(t) = "PPT" THEN root["MGMT"] ELSE next[t]

-----------------------------------------------------------------------------
(* Queues: TmqhInputSimple and TmqhOutputSimple, each one critical section *)
(* of mutex_q but for the wait in between.                                 *)

Waiting(k) == {t \in Slot : InQ[t] = k /\ pc[t] = "wait"}
Readers(k) == {t \in Slot : InQ[t] = k}

\* n signals of a condition variable wake n of its waiters, or all if they are fewer.
Woken(k, n) == {W \in SUBSET Waiting(k) : Cardinality(W) = Min({n, Cardinality(Waiting(k))})}

Wake(W, t, l) == pc' = [u \in Thread |-> IF u = t THEN l ELSE IF u \in W THEN "woken" ELSE pc[u]]

OutputWithoutSignal(k, t, l) == len' = [len EXCEPT ![k] = @ + 1] /\ Goto(t, l)     \* mutant
TmqhOutputSimple(k, t, l) ==
  /\ len' = [len EXCEPT ![k] = @ + 1]
  /\ \E W \in Woken(k, 1) : Wake(W, t, l)

\* One test of the length, one wait, and the length again: NULL if it is 0.
TmqhInputSimple(t) ==
  LET k == InQ[t] IN
  /\ pc[t] \in {"in", "woken"}
  /\ IF len[k] > 0
     THEN len' = [len EXCEPT ![k] = @ - 1] /\ Goto(t, "work")
     ELSE UNCHANGED len /\ Goto(t, IF pc[t] = "in" THEN "wait" ELSE "check")
  /\ UNCHANGED <<lists, flags, life, poolSize, ctl, main, arrived, failures>>

-----------------------------------------------------------------------------
(* The threads.                                                            *)

\* SlotThreadInit; a failure ends the thread and tells main to stop.
ThreadInit(t) ==
  /\ pc[t] = "init"
  /\ \/ SetFlag(t, "INIT_DONE") /\ Goto(t, "pause") /\ UNCHANGED ctl
     \/ /\ t \in InitMayFail
        /\ ctl' = ctl \cup {"KILL"}            \* EngineKill
        /\ SetFlag(t, "CLOSED") /\ Goto(t, "exited")
  /\ UNCHANGED <<lists, life, packets, main, failures>>

TmThreadTestThreadUnPaused(t) ==
  /\ pc[t] = "pause"
  /\ "PAUSE" \notin flags[t] \/ "KILL" \in flags[t]
  /\ Goto(t, "in")
  /\ UNCHANGED <<lists, flags, life, packets, ctl, main, failures>>

\* ReceiveNFQ: wait until the pool has a packet, then recv with a timeout.
ReceiveNFQ(t) ==
  /\ t = Receiver /\ pc[t] = "in" /\ poolSize > 0
  /\ \/ Goto(t, "check") /\ UNCHANGED packets
     \/ /\ arrived < MaxArrived
        /\ arrived' = arrived + 1 /\ poolSize' = poolSize - 1
        /\ TmqhOutputSimple(OutQ[t], t, "check")
  /\ UNCHANGED <<lists, flags, life, ctl, main, failures>>

\* SlotFunc succeeds: the packet goes to the next queue or back to the pool.
SlotOut(t) ==
  /\ t \in Slot /\ pc[t] = "work"
  /\ IF OutQ[t] = POOL
     THEN poolSize' = poolSize + 1 /\ UNCHANGED len /\ Goto(t, "check")
     ELSE TmqhOutputSimple(OutQ[t], t, "check") /\ UNCHANGED poolSize
  /\ UNCHANGED <<lists, flags, life, arrived, ctl, main, failures>>

FailureKeepsPacket(t) ==                                        \* mutant
  /\ t \in MayFail /\ pc[t] = "work" /\ failures < MaxFailures
  /\ failures' = failures + 1
  /\ SetFlag(t, "FAILED") /\ Goto(t, "deinit")
  /\ UNCHANGED <<lists, life, len, poolSize, arrived, ctl, main>>

\* SlotFunc fails: the packet goes to the pool, the thread leaves its loop.
SlotFails(t) ==
  /\ t \in MayFail /\ pc[t] = "work" /\ failures < MaxFailures
  /\ failures' = failures + 1
  /\ poolSize' = poolSize + 1
  /\ SetFlag(t, "FAILED") /\ Goto(t, "deinit")
  /\ UNCHANGED <<lists, life, len, arrived, ctl, main>>

\* SCPerfWakeupThread after its timed wait: one signal for every listed
\* thread that reads a queue and has counters.
Wakeup(t) ==
  /\ t \in Mgmt /\ pc[t] = "in"
  /\ LET tvs == From(root["PPT"]) \cap Counting
         n(k) == Cardinality(tvs \cap Readers(k)) IN
     \E W \in SUBSET UNION {Waiting(k) : k \in Queue} :
        /\ \A k \in Queue : W \cap Waiting(k) \in Woken(k, n(k))
        /\ Wake(W, t, "check")
  /\ UNCHANGED <<lists, flags, life, packets, ctl, main, failures>>

CheckKill(t) ==
  /\ pc[t] = "check"
  /\ Goto(t, IF "KILL" \in flags[t] THEN "deinit" ELSE "pause")
  /\ UNCHANGED <<lists, flags, life, packets, ctl, main, failures>>

\* SlotThreadDeinit, THV_CLOSED, pthread_exit
ThreadExit(t) ==
  /\ pc[t] = "deinit"
  /\ SetFlag(t, "CLOSED") /\ Goto(t, "exited")
  /\ UNCHANGED <<lists, life, packets, ctl, main, failures>>

ThreadStep(t) ==
  /\ Running
  /\ \/ ThreadInit(t) \/ TmThreadTestThreadUnPaused(t) \/ ReceiveNFQ(t)
     \/ t \in Slot /\ TmqhInputSimple(t)
     \/ SlotOut(t) \/ SlotFails(t) \/ Wakeup(t) \/ CheckKill(t) \/ ThreadExit(t)

-----------------------------------------------------------------------------
(* Start-up: spawn, wait for the initialisation of every thread, unpause.  *)

TmThreadSpawn(t) == TmThreadAppend(t) /\ joined' = joined \ {t}

Spawn ==
  /\ main.pc = "spawn"
  /\ TmThreadSpawn(main.tv) /\ Goto(main.tv, "init")
  /\ LET i == CHOOSE n \in DOMAIN SpawnOrder : SpawnOrder[n] = main.tv IN
     IF i < Len(SpawnOrder) THEN MainGoto("spawn", SpawnOrder[i + 1])
     ELSE MainGoto("initwait", SpawnOrder[1])
  /\ UNCHANGED <<flags, restarted, packets, ctl, failures>>

TmThreadWaitOnThreadInit ==
  /\ main.pc = "initwait"
  /\ IF {"FAILED", "CLOSED"} \cap flags[main.tv] # {} THEN MainGoto("exit", NoThread)
     ELSE /\ "INIT_DONE" \in flags[main.tv]
          /\ IF After(main.tv) = NoThread THEN MainGoto("continue", First)
             ELSE MainGoto("initwait", After(main.tv))
  /\ UNCHANGED <<lists, flags, life, pc, packets, ctl, failures>>

TmThreadContinueThreads ==
  /\ main.pc = "continue"
  /\ flags' = [flags EXCEPT ![main.tv] = @ \ {"PAUSE"}]
  /\ IF After(main.tv) = NoThread THEN MainGoto("top", NoThread)
     ELSE MainGoto("continue", After(main.tv))
  /\ UNCHANGED <<lists, life, pc, packets, ctl, failures>>

(* The loop of main: look for a request to stop, then for failed threads.  *)

MainTop ==
  /\ main.pc = "top"
  /\ IF ctl = {} THEN MainGoto("state", First)
     ELSE IF "STOP" \in ctl THEN MainGoto("stop", NoThread) ELSE MainGoto("kill", First)
  /\ UNCHANGED <<lists, flags, life, pc, packets, ctl, failures>>

NextState(t) ==
  IF After(t) = NoThread THEN MainGoto("top", NoThread) ELSE MainGoto("state", After(t))

TmThreadCheckThreadState ==
  /\ main.pc = "state"
  /\ IF "FAILED" \in flags[main.tv] THEN MainGoto("join failed", main.tv) ELSE NextState(main.tv)
  /\ UNCHANGED <<lists, flags, life, pc, packets, ctl, failures>>

MayRestart(t) == restarted[t] < THV_MAX_RESTARTS

\* Joined: restarted, unless it was restarted too often.  The walk goes on with
\* the tv->next that TmThreadAppend has just changed.
TmThreadRestartThread ==
  /\ main.pc = "join failed" /\ pc[main.tv] = "exited"
  /\ IF MayRestart(main.tv)
     THEN /\ flags' = [flags EXCEPT ![main.tv] = @ \ {"CLOSED", "FAILED"}]
          /\ TmThreadSpawn(main.tv) /\ Goto(main.tv, "init")
          /\ restarted' = [restarted EXCEPT ![main.tv] = @ + 1]
          /\ IF Type(main.tv) = "MGMT" \/ root'["MGMT"] = NoThread THEN MainGoto("top", NoThread)
             ELSE MainGoto("state", root'["MGMT"])
     ELSE /\ joined' = joined \cup {main.tv}
          /\ NextState(main.tv)
          /\ UNCHANGED <<lists, flags, pc, restarted>>
  /\ UNCHANGED <<packets, ctl, failures>>

\* Every packet of the pool must be back, unless a kill cuts it short.
EngineStopWait ==
  /\ main.pc = "stop"
  /\ "KILL" \in ctl \/ poolSize = max_pending_packets
  /\ MainGoto("kill", First)
  /\ UNCHANGED <<lists, flags, life, pc, packets, ctl, failures>>

-----------------------------------------------------------------------------
(* TmThreadKillThreads: one thread after the other.                        *)

SetKill ==
  /\ main.pc = "kill"
  /\ SetFlag(main.tv, "KILL")
  /\ MainGoto("signal", main.tv)
  /\ UNCHANGED <<lists, life, pc, packets, ctl, failures>>

SignalOnce ==                                                   \* mutant
  LET t == main.tv IN
  /\ main.pc = "signal"
  /\ MainGoto("join", t)
  /\ IF t \notin Slot THEN UNCHANGED pc
     ELSE pc' = [u \in Thread |-> IF u \in Waiting(InQ[t]) THEN "woken" ELSE pc[u]]
  /\ UNCHANGED <<lists, flags, life, packets, ctl, failures>>

\* Signal its queue as often as it has readers and writers, until it is closed.
\* A thread without a queue is joined at once (a management thread's condition
\* variable only shortens its timed wait).
SignalUntilClosed ==
  LET t == main.tv IN
  /\ main.pc = "signal"
  /\ IF t \notin Slot \/ "CLOSED" \in flags[t]
     THEN MainGoto("join", t) /\ UNCHANGED pc
     ELSE /\ pc' = [u \in Thread |-> IF u \in Waiting(InQ[t]) THEN "woken" ELSE pc[u]]
          /\ UNCHANGED main
  /\ UNCHANGED <<lists, flags, life, packets, ctl, failures>>

JoinLeavesMgmt ==                                               \* mutant
  /\ main.pc = "join" /\ pc[main.tv] = "exited"
  /\ joined' = joined \cup {main.tv}
  /\ IF next[main.tv] = NoThread THEN MainGoto("done", NoThread)
     ELSE MainGoto("kill", next[main.tv])
  /\ UNCHANGED <<lists, flags, restarted, pc, packets, ctl, failures>>
Join ==
  /\ main.pc = "join" /\ pc[main.tv] = "exited"
  /\ joined' = joined \cup {main.tv}
  /\ IF After(main.tv) = NoThread THEN MainGoto("done", NoThread)
     ELSE MainGoto("kill", After(main.tv))
  /\ UNCHANGED <<lists, flags, restarted, pc, packets, ctl, failures>>

MainStep ==
  \/ Spawn \/ TmThreadWaitOnThreadInit \/ TmThreadContinueThreads
  \/ MainTop \/ TmThreadCheckThreadState \/ TmThreadRestartThread
  \/ EngineStopWait \/ SetKill \/ SignalUntilClosed \/ Join

\* SIGINT and SIGTERM
SignalHandler ==
  /\ main.pc \notin {"done", "exit"}
  /\ \E s \in {"STOP", "KILL"} \ ctl : ctl' = ctl \cup {s}
  /\ UNCHANGED <<lists, flags, life, pc, packets, main, failures>>

\* The process has ended, or is about to.
Ended == main.pc \in {"done", "exit"} /\ UNCHANGED threadsVars

ThreadsNext == (\E t \in Thread : ThreadStep(t)) \/ MainStep \/ SignalHandler \/ Ended

\* Every thread and main are scheduled again and again; no signal need arrive.
ThreadsSpec ==
  /\ ThreadsInit /\ [][ThreadsNext]_threadsVars
  /\ \A t \in Thread : WF_threadsVars(ThreadStep(t))
  /\ WF_threadsVars(MainStep)

-----------------------------------------------------------------------------
(* Properties.                                                             *)

\* While a thread sleeps on a queue, every packet in the queue has a woken
\* thread on its way to it: no signal of TmqhOutputSimple is lost, although
\* TmqhInputSimple tests and waits once and the wakeup thread and the shutdown
\* signal the same condition variable.
WakeupsCoverPackets ==
  \A k \in Queue : Waiting(k) # {} => len[k] <= Cardinality({t \in Readers(k) : pc[t] = "woken"})

\* A packet is in the pool, in one queue or with one thread, whatever fails or
\* is killed (what EngineStop waits for).
PacketsAccounted ==
  poolSize + Cardinality({t \in Slot : pc[t] = "work"}) + FoldFunction(+, 0, len)
    = max_pending_packets

\* Threads are spawned before StreamTcpInitConfig and DefragInit have run; none
\* takes a packet before main has seen all of them initialised.
PausedUntilReady ==
  main.pc \in {"spawn", "initwait"} =>
    \A t \in Thread : pc[t] \in {"none", "init", "pause", "exited"}

\* pthread_join is not called for a thread that is joined already, by the watch
\* over failed threads or by the shutdown after it.
JoinedOnce == main.pc \in {"join", "join failed"} => main.tv \notin joined

\* FlowShutdown and the other clean-ups that follow free what threads use.
StoppedBeforeCleanup == main.pc = "done" => \A t \in Thread : pc[t] = "exited"

\* A thread's life: not at work before main is ready, not joined twice, and over when
\* main frees what it used.
LifeInOrder == PausedUntilReady /\ JoinedOnce /\ StoppedBeforeCleanup

\* The engine ends after SIGTERM, EngineKill or (its packets being processed)
\* SIGINT: TmThreadKillThreads reaches even a thread that had tested THV_KILL
\* and not yet slept when its queue was signalled first.
EngineEnds == ctl # {} ~> main.pc \in {"done", "exit"}

\* The list TmThreadKillThreads, TmThreadCheckThreadState and the statistics
\* walk has every thread that was spawned ("root of the threadvars list").
AllListed == \A t \in Thread : pc[t] # "none" => t \in Listed
=============================================================================
