# A TLA+ development for LoRa_IPS

LoRa_IPS is a fork of an early Suricata: a multi-threaded intrusion prevention
engine in C.  Packets are received in one thread, decoded, tied to a *flow*,
tracked and reassembled as TCP streams, matched against rules, given a verdict
and logged, each by threads that pass the packet on through queues.  This
directory holds TLA+ modules of that engine, TLC configurations that check them
on small instances and TLAPS proofs of what holds for every instance.  All code
paths below are relative to the repository (`src/src/flow.c` is `flow.c` of the
program).  Every definition that models code is listed, with the lines it
stands for, under `map` in `PROJECT.json`.

## 1. Inventory

### 1.1 How a packet travels

The only run mode, `RunModeIpsNFQAuto` (`runmodes.c` 188-372), starts

    ReceiveNFQ -> pickup-queue -> Decode1 -> decode-queue1 -> Detect1..N
      -> verdict-queue -> Verdict -> respond-queue -> RespondReject
      -> alert-queue1 -> Outputs -> packetpool

plus the flow manager and the statistics threads.  Two things about this commit
matter for what the models assume:

* The comment above the run mode lists a stream thread (`runmodes.c` 172) but
  none is started: there is no `StreamTcp` slot in the pipeline.
* `DecodeNFQ` (`source-nfq.c` 492-513) hands a packet only to the LoRaWAN
  decoders, and only when `p->lorawanmh`, which those decoders set, is already
  set.  `DecodeIPV4`, `DecodeTCP` and through them `FlowHandlePacket` are
  reached from the unit tests and `DecodeEthernet`, not from `DecodeNFQ`; and the
  LoRaWAN decoders name macros and members that their headers do not declare.
  The engine behind the decoders is therefore modelled at its own interface
  (`FlowHandlePacket`, the packet pool, ...), driven by any sequence of packets
  its callers `decode-tcp.c` and `decode-udp.c` can hand it.

### 1.2 Components

For each component: its state, its operations, who it talks to, what is hard
about it and what makes it correct.  `PROJECT.json` lists the same parts with
their sources and what is modelled of each.

**Flow engine** (`flow.c`, `flow-hash.c`, `flow-util.c`).
*State*: a hash of buckets, each with a spinlock and a chain of flows; per flow
a mutex, the bucket it is in, the addresses, last seen time, direction flags,
an atomic use count and the TCP session; a spare queue and a new, established
and closing queue per protocol; the memory counter; the emergency flag.
*Operations*: `FlowHandlePacket` (look up or create, count, move between queues,
take a reference), `FlowPrune` (timeout), `FlowKill`, `FlowManagerThread`
(refill or trim the spare queue, prune, leave emergency mode).
*Interaction*: called by the decoders; stream threads change a flow's session
and call `FlowUpdateQueue`; the packet pool drops the reference.
*Hard*: three kinds of locks taken in two orders (bucket then flow on lookup,
queue then flow then bucket when pruning, with trylocks), references counted
without a lock, pruning by the very thread that needs the flow while it holds
its bucket, a queue change in two critical sections.
*Correct when*: a flow in use is never recycled; one flow per connection; no
flow is lost or in two queues; memory stays near the memcap; idle flows go;
emergency mode ends; nobody waits for ever.

**Flow queues** (`flow-queue.c`): intrusive doubly linked lists with a count.
*Correct when* both directions and the count agree and they are lists.

**Packet pool** (`tmqh-packetpool.c`, the tunnel counters of `decode.h`).
*State*: a ring buffer of free packets; in a tunnel's root packet the counters
of its children ("ready to verdict" and "to process") under a mutex.
*Operations*: get, wait, return; the verdict of a tunnel is given by whoever
comes last. *Hard*: children and root are returned by different threads, each
object must go back once, after its last user.

**Ring buffers** (`util-ringbuffer.c`): single or multiple readers and writers
on 8 and 16 bit indices, with polling waits and shutdown. *Hard*: indices that
wrap, readers that race with compare-and-swap, writers that test before they
lock. *Correct when* every pointer put is got once, in order.

**TCP session tracking** (`stream-tcp.c`): per flow a session with two streams,
its state, windows, sequence numbers. *Operations*: one handler per state,
reset and window validation. *Hard*: sequence arithmetic modulo 2^32, packets in
any order, retransmissions, midstream pickup. *Correct when* a state change is
one the TCP state machine allows and needs a packet inside the window.

**TCP reassembly** (`stream-tcp-reassemble.c`): a segment list per stream,
overlap policies per target system, depth and memory limits, messages to the
application layer. *Hard*: overlaps in any order, gaps, acknowledgements that
run ahead. *Correct when* the list is sorted and free of overlap, every byte
has one value, chosen by the policy, and is delivered once and in order.

**IP defragmentation** (`defrag.c`): trackers in a hash under a lock, a sorted
fragment list, policies, timeouts, pools. Same hazards as reassembly.

**Thread modules and queues** (`tm-threads.c`, `tmqh-*.c`, `tm-queue*.c`,
`threads.c`): slots run one after another on a packet, queue handlers with
condition variables, start-up, pause and kill flags. *Hard*: lost wake-ups,
order of shutdown, a failed thread restarted. *Correct when* every packet goes
on and every thread stops.

**NFQ source** (`source-nfq.c`): receives, sets the verdict once for each packet.

**Packet decoders** (`decode*.c`): one packet, one buffer; header and option
lengths. *Correct when* no field is read beyond the packet.

**Detection engine** (`detect.c`, `detect-engine*.c`) and **stateful detection**
(`detect-engine-state.c`): rule groups, pattern prefilter, payload matching,
alerts in order of priority; partial matches kept per flow and continued.
*Correct when* a rule alerts exactly when all its conditions matched in one
transaction, and once.

**Thresholds and tags**, **flow bits/variables/integers**: shared tables that
several detection threads change and time out.

**Address, port and signature grouping**, **signature parsing and ordering**:
start-up algorithms on ranges and lists, against reference definitions.

**Application layer** (`app-layer*.c`): protocol detection, incremental parsers
with transaction ids. **Pattern matchers**, **containers** (pool, radix tree,
Bloom filters, hash lists), **reputation**, **action order**, **statistics
counters**: sequential algorithms and counters at limits.

**Outputs, reject responses, configuration, libhtp, start-up**: files, network
and text; not modelled.

### 1.3 What is hard to test here

`hazards` in `PROJECT.json` lists each at its line.  The groups: lock order and
trylocks in the flow engine; a reference count changed without the lock that
protects the object; counters tested in one atomic step and changed in
another; two critical sections for one logical move; flags written by several
threads; stages of pruning whose results are compared with each other's
requests; indices and sequence numbers that wrap; counts of children that
different threads bring to zero; overlaps and expiry in reassembly.

## 2. Plan

| order | module | models | abstract specification, main properties |
|---|---|---|---|
| 1 (done) | `FlowQueue`, `FlowList` | `flow-queue.c` | pointers implement lists |
| 2 (done) | `FlowEngine` | `flow.c`, `flow-hash.c`, `flow-util.c`, the flow side of `stream-tcp.c` and of the packet pool | references, uniqueness, memcap, timeouts, emergency mode |
| 3 (done) | `RingBuffer`, `Fifo` | `util-ringbuffer.c` | implements a bounded FIFO; shutdown releases every thread |
| 4 (done) | `PacketPool` | `tmqh-packetpool.c`, the packet sources and tunnel counters of `decode.c`, `decode.h`, `source-nfq.c` | every packet is in one place, roots outlive children, no packet without verdict |
| 5 (done) | `TcpSeq`, `TcpSession`, `TcpPath` | `stream-tcp.c`: state handlers, windows, resets, sequence arithmetic | what the tracker believes against what the hosts did |
| 6 (done) | `Reassembly` | `stream-tcp-reassemble.c`: insertion with policies, trimming, messages; `AppLayerHandleMsg` | parsed bytes are a prefix of the stream; the policy decides overlaps |
| 7 (done) | `Defrag` | `defrag.c`: trackers, insertion, timeout | the datagram, per policy |
| 8 (done) | `Threads`, `MCPipeline` | `tm-threads.c`, `tmqh-simple.c`, `suricata.c`: waits, restart, kill, shutdown order | no packet waits while its thread sleeps; the engine ends |
| 9 (done) | `Threshold`, `DetectState`, `MCInspection` | `detect-engine-threshold.c`, `detect-engine-state.c`, the transactions of `app-layer-parser.c`, `app-layer-htp.c` | counts against a reference, one alert per transaction |
| 10 | in `Threshold`'s place a sibling for tags | `detect-engine-tag.c` | facts in section 6 |
| 11 (done) | `ThreadsProofs`, `PacketPoolProofs` | `WakeupsCoverPackets`, `PacketsAccounted`, `InOnePlace`, `RootOutlivesChildren`, `NoPacketUnjudged` | for every instance |
| 12 (done) | `FlowKeptProofs`, `RingBufferProofs` | `FlowsKept`, `UseCountExact`, `RemovedOnlyIfIdle`, `MemuseExact`; `ImplementsFifo` | for every instance |
| 13 (done) | `FlowKeptProofs` | `TopIsLeastRecent` | for one decoder and no stream thread |
| 14 (done) | `FlowQueueProofs` | `ImplementsFlowList`: `FlowQueue` implements `FlowList` | for every instance |
| 15 (done) | `ThreadsProofs` | `LifeInOrder` | within `RestartsWell` |
| 16 (done) | `DetectProofs` | `TransactionsKept`, `StatefulAlerts`, `RequestsJudged` | for every instance |
| 17 (done) | `InspectionProofs` | `AlertsAreEarned` | for every instance with packets less than a second late |
| 18 (done) | `InspectionProofs` | `TrackersKept`, `DefragTypeOK` | for every instance |

Each concurrent component is a module with the code's locks and program counters
as variables, and where its promise is simple an abstract specification it is
shown to refine.  A component that one thread runs at a time is a module whose
handlers are functions from the state before a packet to the state after it.
Runs are few, one for each distinct question; components that do not share state
share a run (section 3.10).  Start-up algorithms (grouping of addresses and
ports, ordering of signatures) and pattern matchers stay out: they are functions
of data, run once by one thread, which the repository's unit tests enumerate.

## 3. The modules and the code

### 3.1 `FlowQueue`, `FlowList`

`FlowQueue` has the pointers of `flow-queue.c` (`top`, `bot`, `len`, `lnext`,
`lprev`) as functions of queues and flows, and one action per critical section:
`FlowEnqueue`, `FlowDequeue`, and the two halves of `FlowRequeue`, `RequeueUnlink` and
`RequeueLink`, which lock the two queues one after the other (`RequeueSame` when
both are one queue).  `FlowList` is the promise: sequences of distinct
flows, of which some are on their way (`moving`) between two lists.  The
refinement reads each list along `lnext`; `WellLinked` reads it backwards too.  Where a
reader is after n steps is a recursive function (`StepsFrom`), and what it has seen
when it comes to the end is the list (`Walk`).
`FlowEngine` uses the operators of `FlowList` in place of pointers.

### 3.2 `FlowEngine`

One state machine of the decoder threads (`Worker`), the flow manager (`Mgr`) and
stream threads (`Streamer`).  State: the heap (`alloced`, `memuse`), the
queues, one variable per kind of lock (`qLock`, `bLock`, `fLock`: the holder), the
fields of a flow the engine decides on (`fl`), the bucket it hangs in (`fb`), the
reference count (`use_cnt`), the flags (`emerg`, and `mgrEmerg`, the local variable
of the manager), a clock and, for each thread, its program counter and locals.
`refs` is a history variable: the packets in the pipeline that point to a flow.

| code | actions |
|---|---|
| `FlowHandlePacket`, `FlowGetFlowFromHash` | `Arrive` `LockBucket` `LockFlow` `InsertNew` `GiveUp`; `Handle` `Relink` |
| `FlowGetNew`, `FlowAlloc` | `GetNew` `CheckMemcap` `AllocFailed`; `AllocCheck` `AllocAdd` `AllocMem` |
| `FlowUpdateQueue` | `Handle` (unlinks) and `Relink` (links) |
| `FlowPruneFlowsCnt`, `FlowPruneFlowQueueCnt`, `FlowPrune` | `Try` `PruneTop` `PruneCheck` `PruneUnlink` `PruneSpare` `PruneUnlock` `PruneReturn` |
| `FlowKillFlowsCnt`, `FlowKill` | `KillStart` `KillWalk` `KillSpare` `KillUnlock` |
| `FlowManagerThread`, `FlowUpdateSpareFlows`, `FlowFree` | `MgrWake` `MgrEnqueue` `MgrDequeue` `MgrFree` `MgrRecover` `MgrClear` and the shared `Alloc...`, `Prune...` |
| `StreamTcp`, `StreamTcpPacketSetState` | `StreamLock` `StreamPacket`, then `Handle`, `Relink` |
| `FlowDecrUsecnt` at the end of the pipeline | `Output` |

A step ends where another thread can observe or change something: at every
lock, unlock, trylock and atomic operation that matters to another thread.
Critical sections of a queue are one action; only `FlowKill` keeps a queue locked
across steps.  Atomic variables are sequentially consistent, as the `__sync`
built-ins behind `SC_ATOMIC_*` are.  Flow references that other code takes
while it handles a packet (`detect.c`, `stream-tcp-reassemble.c`, `app-layer.c`) lie
within the packet's own reference and are not modelled apart.

### 3.3 `RingBuffer`, `Fifo`

`array`, `read`, `write`, `spin` and `shutdown` are the fields of `RingBuffer8` and
`RingBuffer16`; `Size` stands for 256 or 65536.  A loop condition
`write == read` reads two atomic variables in an order C leaves open: `Test` samples
either one, `Compare` reads the other and decides.  `Start`, `Scan`, `Recheck`,
`Load`, `Take` are the compare-and-swap loop of the multiple reader variants
(a single reader has `Load` and an unconditional `Take`), `Lock`, `Locked`,
`Store`, `Advance` the put.  `MultiReader` and `MultiWriter` choose the variant;
readers in `NoWait` call `RingBufferMrMwGetNoWait`.  The linearization points of
the refinement are `Take` and `Advance`.

### 3.4 `PacketPool`

A packet's fields that matter to ownership (`pk`), the queues between the threads
of `RunModeIpsNFQAuto`, and each thread's place.  `ReceiveWait` and `Receive` are
`ReceiveNFQ` and `NFQCallBack`; `Decode`, `Pseudo`, `DecodeOut` are a slot of
`TmThreadsSlot1` whose module makes child packets with `PacketPseudoPktSetup`;
`DetectIn`, `DetectOut` the detection threads; `VerdictIn`, `SetVerdict`, `CountReady`
`VerdictNFQ`; `OutputIn`, `OutputRoot`, `OutputSelf` `TmqhOutputPacketpool`.  Steps end
at the root's mutex, at a queue and at the ring buffer, which is a bag here.
RespondReject passes packets on unchanged and is left out.

### 3.5 `Threads`

`next`, `root`, `flags` and `restarted` are the fields of the same names in
`ThreadVars` and `tv_root`; `pc` is where a thread is in its slot function, `main`
where the main thread is.  Packets are counted (`poolSize`, `len`), `PacketPool`
tells them apart.

| code | actions |
|---|---|
| `TmThreadSpawn`, `TmThreadAppend`, `TmThreadWaitOnThreadInit`, `TmThreadContinueThreads` | `Spawn`, `TmThreadWaitOnThreadInit`, `TmThreadContinueThreads` |
| `TmThreadsSlot1NoInOut`, `TmThreadsSlot1` | `ThreadInit`, `TmThreadTestThreadUnPaused`, `ReceiveNFQ`, `TmqhInputSimple`, `SlotOut`, `SlotFails`, `CheckKill`, `ThreadExit` |
| `TmqhOutputSimple` | part of `ReceiveNFQ` and `SlotOut`, with its one signal |
| `SCPerfWakeupThread` | `Wakeup` |
| main's loop, `TmThreadCheckThreadState`, `TmThreadRestartThread` | `MainTop`, `TmThreadCheckThreadState`, `TmThreadRestartThread` |
| `EngineStop`, `TmThreadKillThreads` | `EngineStopWait`, `SetKill`, `SignalUntilClosed`, `Join`; `SignalHandler` sets the control flags at any time |

A signal of a condition variable wakes any one of its waiters and is lost when
there is none; a wait may not end by itself.

### 3.6 `TcpSeq`, `TcpSession`, `TcpPath`

`TcpSeq` compares numbers modulo `Mod` as `SEQ_LT` and its relatives compare them
modulo 2^32.  `TcpSession` is the tracker: a record with the fields of `TcpSession`
and its two `TcpStream`s the handlers read and write, and one operator per
`StreamTcpPacketState...` handler (`StateNone`, `StateSynSent`, ... `StateTimeWait`),
`ValidTimestamp`, `ValidReset`, `HandleFin`; `StreamTcpPacket` dispatches.  `StreamTcp`
holds the flow's mutex around all of this, so a packet is one step.
`TcpPath` is the environment: two hosts that open, send, close and reset a
connection, and a network that reorders packets and loses or repeats them, before
or behind the tracker.  It is what makes the properties meaningful: they compare
the tracker's session with the hosts' state, which the tracker does not see.

### 3.7 `Reassembly`

`stream` is a `TcpStream` (segment list, `ra_base_seq`, `tmp_ra_base_seq`, `last_ack`),
`app` the flow's application layer flags and what a parser has been given, `pool`
the flags segments keep when they go back to their pool.  `Segment` is a packet
handed to `StreamTcpReassembleHandleSegment`, with `ReassembleInsertSegment` and its
three `HandleSegmentStarts...` functions per target system; `Ack` is
`StreamTcpReassembleHandleSegmentUpdateACK` followed by `AppLayerHandleMsg` for each
message; `Finish` and `Close` end the stream.  Bytes carry the packet and the position they
come from, so that a byte in a wrong place shows.

### 3.8 `Defrag`

`table` is the tracker list of the hash, oldest first, with each tracker's
fragments; `frags` counts what the fragment pool has handed out.  `ReceiveFragment` is a call of
`Defrag`: `DefragGetTracker` (find, take from the pool, or give up a tracker past its
time), `DefragInsertFrag` under the policy, and `Defrag4Reassemble` or its
sibling for IPv6, whose list algorithm is the same.  One decoder thread calls it; offsets
count blocks of 8 bytes, the unit of the header field.  A `Fragment` has an offset or more
to come: `Defrag` returns at once for any other packet (`defrag.c` 1148), and a fragment that ends behind the
largest datagram, which `DefragInsertFrag` ignores, is left out.

### 3.9 `Threshold`, `DetectState`

`Threshold`: `entries` stands for the tables of `detect-engine-threshold.c`, keyed by
rule and address as each table's compare function tells them apart; one action is
`PacketAlertThreshold` for the next alert of a thread's packet (the table lock is
held throughout), with `PacketAlertFinalize`'s treatment of the result and
`ThresholdTimeoutRemove`.  Time is the packets' own; threads take packets up to
`Late` seconds late.  `judged` is a history variable.

`DetectState`: `http` and `ids` are the transactions of a flow and the four ids of
`AppLayerParserStateStore`; `de_state` the stored items.  The parser's actions (`Request`,
`RequestRest`, `Response`, `Eof`, each with `AppLayerParse`'s end and clean-up) and
`LogHttpLog` interleave with the detection threads, whose steps end where
`SigMatchSignatures` gives up a lock: `HasState`, `Continue`, `InspectUri`, `MatchPart`,
`StoreStart` or `StoreContinue`, `End` (`MATCH_NEW` alerts and
`AppLayerTransactionUpdateInspectId`), `Reset`.

### 3.10 `MCPipeline`, `MCInspection`

Modules that put components side by side for TLC.  A variable `part`, fixed in
the first state, says which of them a behaviour is about; the others stay in
their first state.  No step of one component depends on another's, so a
behaviour of the composition is a behaviour of one component, and one run checks
several without multiplying their states.  `Parts` in a configuration chooses.

`MCPipeline` extends `PacketPool` and `Threads`, so that the properties it checks are the ones
that are proved: the packet pool (`packetpool`; `packetflow` is the same with packets that
have flows) and the threads (`threads`).  `pipeline` has two threads on one queue
(`TwoReaders`), of which the last of the list may fail; `threads_restart` has three threads in a row
(`InARow`), where one fails that has another behind it in the list and cuts it off.
`MCInspection` extends `FlowQueue`, `DetectState`, `Threshold` and `Defrag`, so that the properties it checks of
the queues, of stateful detection, of thresholds and of trackers are the ones that are proved, and has `tcp`,
`reassembly`, `flowqueue`, `defrag`, `threshold` and `detect`, and `overlap` for a violation.  `defrag_hole`
has one datagram of its own (`Repeated`).

## 4. The runs

| run | question | instance |
|---|---|---|
| `flow_timeout` | are references, timeouts and queue moves consistent | 2 decoders, 1 stream thread, manager, 2 flows, 2 keys in one bucket, 2 packets, clock to 2 |
| `flow_shipped` | where flows are, order of the queues and memory accounting as the engine is started, with a decoder that prunes and kills | 1 decoder, manager, 3 flows, 3 keys in 2 buckets, memcap 2, 3 packets |
| `flow_emergency` | are buckets kept while two decoders prune and kill, does everybody get through, does the emergency end, do flows go | 2 decoders, memcap 1, 2 packets, fair |
| `ring_buffer` | is it a FIFO, does shutdown release | 2 readers (one no-wait), 2 writers, 3 slots, 3 pointers, fair |
| `pipeline` | is every packet returned once and judged; do waits, failures and the shutdown work | see below, fair |
| `inspection` | do the six components of `MCInspection` keep their promises | see below |
| `flow_free`, `tunnel_verdict`, `root_flow`, `threads_restart`, `reassembly_overlap`, `defrag_hole` | (violations) statements of the repository the code does not keep | as above, reduced |

**Properties.**  Several are conjunctions of named parts, each stated with a
comment in its module.  In `FlowEngine` `FlowsKept` joins what must hold of every
flow (a flow in use is live, a hashed flow is in a queue, none is lost).  `LifeInOrder`
joins `PausedUntilReady`, `JoinedOnce` and `StoppedBeforeCleanup`; `SessionTrue` joins
`IsnAgreed`, `NeverAhead` and `ClosedForAReason`; `FlowFollows` joins `FlowMonotone` and
`FinNoticed`; `ListRight` joins `ListConsistent` and `PolicyDecides`; `StreamInspected` joins
`ParsedInOrder` and `EndsForGaps`; `Reassembles` joins `DatagramIntact`, `NoneStuck` and
`OverlapDecided`; `TrackersKept` joins `GivenUpLate` and `RefusedWhenFull`; `AlertsAreEarned`
joins `Earned` and `Regular`; `ImplementsFlowList` has `WellLinked` with it.

**Bounds of the parts.**

* `packetpool`: 2 pooled and 1 allocated packet, 2 received, up to 2 children, 2
  detection threads, 1 verdict thread, 2 output threads.
* `threads`: the receiver, two threads on one queue, the statistics thread, 2 packets,
  1 failure, 1 restart; one of the threads may fail to initialise.  In `threads_restart`
  the receiver, a thread that may fail, the outputs behind it; 1 packet.  That packets are
  counted and wake their readers in such a row too, with a thread cut off the list, is proved
  (`WakeupsAreEnough`, `NoPacketGoesAstray`).
* `tcp`: numbers modulo 16, windows of 3, initial numbers 14 and 6, so that the
  numbers wrap in every connection; twelve connections: one packet lost, repeated or
  overtaken, no memory for a session, data both ways, resets, four packets to
  open, time stamps with three kinds of host, pick-up midstream and at the SYN/ACK,
  one side only, packets of an earlier connection.
* `reassembly`: numbers modulo 32 from 26; three packets that touch and overlap, four
  arrivals in any order and number, for six target systems; and packets of 1 to 3 bytes
  at 1 to 4 that overlap in every way, three arrivals; messages that fill,
  chunks, a gap.
* `flowqueue`: 4 flows, 2 queues, every sequence of operations.
* `defrag`: a datagram of three fragments whose copies come in any order, five
  arrivals, or each once; fragments that overlap in every way, four arrivals, six
  policies; three datagrams for two trackers and three fragments in the pool, a timeout of 1,
  clock to 4.
* `threshold`: two threads, ten configurations of one rule or two, four packets (three
  with two rules), seconds 2, clock from 10 to 13, packets up to one second late.
* `detect`: up to three requests (four without rules), four to seven packets, one or two
  rules and threads, the parser as far ahead as it likes, requests whole or in two
  pieces, with a logger or without.

**Bounds of the others.**  `MaxPkts`, `MaxTime`, `LastArrival`, `MaxPuts`, `MaxReceived`,
`MaxChildren`, `MaxFailures` limit how long a behaviour is, `NoLap` excludes one race (below),
`FlowChoice` says whether packets may get flows.  They are large enough for the
interesting meetings: two packets of two threads meet on one flow, on one bucket and on the
memcap, and the third runs into a flow that is being pruned; the third pointer wraps
the ring's index and finds it full with two writers waiting; a second packet is
received while the first one's children still refer to it, and reuses packets they
returned.  Every property is broken by a mutation of the code's model in its
run (`mutants` in `PROJECT.json`; the definitions marked `mutant` in the modules), so none
holds for want of behaviours.  Symmetry is used in runs without liveness only,
over flows, decoder threads and keys of one bucket, which no property tells apart.

**Deadlock.**  The flow engine's runs and the ring buffer's check for deadlock.  In the two
composed modules a component really stops: the kernel sends nothing more, a
connection is closed, the packets of a scenario have come.  That threads do not wait for
each other for ever is stated there as `WakeupsCoverPackets`, `NoPacketUnjudged`,
`PoolFillsUp` and `EngineEnds`.

**Fairness.**  Threads keep running (weak fairness of a thread's steps).
In `FlowEngine` the steps that block on a mutex or spinlock have strong fairness: a
lock that is released again and again is eventually had; the pthread locks the
code uses promise no more and no less in practice.  Packets leave the pipeline
(`Output`) and time passes (`Tick`).  No fairness on arrivals and none on signals.  In
`RingBuffer`, `PacketPool` and `Threads` weak fairness is enough; threads that
compete for one queue have it together.  In `MCPipeline` the fairness of each component is
that of the behaviours of its part.  The components of `MCInspection` are driven by
packets nobody owes; they have safety and action properties, and no fairness.

**What the six violations show.**
* `flow_free` (the instance of `flow_shipped`): `FlowPrune` and `FlowKill` unlock a flow
  after they have put it into the spare queue; in between the manager takes it out and
  frees it, mutex and all.
* `tunnel_verdict`: with two children the verdict of a tunnel can be given before
  the outer packet or the second child has been through detection, and then a
  second time: returning a child lowers `tpr_cnt` but not `rtv_cnt`.
* `root_flow`: a tunnel root returned by its last child keeps its reference on
  its flow.
* `threads_restart`: `TmThreadRestartThread` spawns a thread that is in the list
  already; `TmThreadAppend` links it behind the last one and clears its `next`, so
  that the threads behind it are out of reach of the shutdown.
* `reassembly_overlap`: a segment that begins inside the last segment of the list and ends
  behind it loses the bytes that lie beyond.
* `defrag_hole`: the lengths of overlapping fragments are added up, so that a
  datagram with a missing fragment counts as complete.

## 5. The proofs

TLAPS proves, for any number of decoder and stream threads, flows, connections,
buckets and protocols, any timeouts and any packets; for any number of packets,
children, queues and threads of the pipeline; for any number of flows in any number of
queues; for any requests, rules and detection threads of an HTTP flow; for any rules with thresholds,
packets and threads that match them; for any fragments, policy and sizes of the pools of defragmentation; and for ring buffers of any size, of all
four variants, with any number of readers and writers:

| theorem | module | states |
|---|---|---|
| `TypeCorrect` | `FlowEngineProofs` | `TypeOK`, with what the program counters imply |
| `BucketDiscipline`, `FlowIsUnique` | `FlowEngineProofs` | from the miss to the insertion the thread holds the bucket and nobody inserts the connection; hence one flow per connection |
| `MemcapHolds` | `FlowEngineProofs` | `memuse <= Memcap + number of decoder threads` |
| `FlowsAreKept` | `FlowKeptProofs` | `FlowsKept`: a flow in use is live, a hashed flow is in one queue, none is lost |
| `UseCountIsExact` | `FlowKeptProofs` | `UseCountExact`: `use_cnt` is the number of packets that refer to the flow |
| `OnlyIdleFlowsGo` | `FlowKeptProofs` | `RemovedOnlyIfIdle`, an action property |
| `MemuseIsExact` | `FlowKeptProofs` | `MemuseExact`: `flow_memuse` is the memory there is and is about to be |
| the four with `...ByOneDecoder` | `FlowKeptProofs` | the same, with one decoder thread instead of `FreesUnheld` |
| `QueuesAreOrdered` | `FlowKeptProofs` | `TopIsLeastRecent`: the queues of the hash are ordered by last seen time |
| `QueuesAreLists` | `FlowQueueProofs` | `ImplementsFlowList`: the pointers of the flow queues are those of lists in both directions, and each critical section is one operation on lists |
| `QueuesImplementFlowList` | `FlowQueueProofs` | the specification of `FlowQueue` implements that of `FlowList` |
| `TypeHolds` | `RingBufferProofs` | `TypeOK` |
| `RingBufferIsAFifo` | `RingBufferProofs` | `ImplementsFifo`: Get and Put refine a bounded first-in first-out queue |
| `WakeupsAreEnough` | `ThreadsProofs` | `WakeupsCoverPackets`: no signal of a queue's condition variable is lost |
| `NoPacketGoesAstray` | `ThreadsProofs` | `PacketsAccounted`: the packets in the pool, the queues and the threads' hands are `max_pending_packets`, across failures and restarts |
| `StartUpInOrder` | `ThreadsProofs` | no thread is past its pause before main has seen all of them initialised |
| `ThreadsLiveInOrder` | `ThreadsProofs` | `LifeInOrder`: no thread is at work before main is ready, none is joined twice, and all have ended when main cleans up; within `RestartsWell` |
| `EachInOnePlace` | `PacketPoolProofs` | `InOnePlace`: each packet is returned once |
| `RootsOutliveChildren` | `PacketPoolProofs` | `RootOutlivesChildren`: the root a child locks has not been returned, and `tpr_cnt` counts the children to come |
| `EveryPacketIsJudged` | `PacketPoolProofs` | `NoPacketUnjudged`, an action property: no packet is returned before the kernel has its verdict |
| `TransactionsAreKept` | `DetectProofs` | `TransactionsKept`: no transaction is freed before it was inspected and logged, none is logged twice or out of order |
| `AlertsAreTrue` | `DetectProofs` | `StatefulAlerts`: a rule alerts for parts that came in requests, and with one detection thread once for a transaction |
| `NoRequestIsMissed` | `DetectProofs` | `RequestsJudged`: with one detection thread and whole requests, every rule that fits a request has alerted for it when it is passed |
| `AlertsFollowMatches` | `InspectionProofs` | `Earned`, the part of `AlertsAreEarned` about each decision: which matches and alerts it rests on |
| `AlertsKeepTheRate` | `InspectionProofs` | `AlertsAreEarned`, with the bounds on the alerts of any period as long as the rule's seconds; within `CountsMatter` |
| `TrackersAreKept` | `InspectionProofs` | `TrackersKept`, two action properties: no tracker is given up within its timeout before its datagram is whole, and a datagram gets none only while all are in use |
| `FragmentsAreReturned` | `InspectionProofs` | `DefragTypeOK`: each datagram has one tracker, and what `frag_pool` has handed out is in the trackers' lists |

*Assumptions*: `ThreadsAssumption`, of which the proofs use that threads and queues are finitely
many, that every slot has an input queue, that the receiver puts out to a queue and that `SpawnOrder`
names every thread once; `PacketPoolAssumption` (finite sets of packets
and threads, preallocated packets are not heap blocks, NULL is no packet); and
`FlowEngineAssumption` (finite sets of threads and flows, the
memcap admits the preallocated flows, which `FlowInitConfig` enforces,
`prealloc` and the timeouts are natural numbers, threads and flows are not NULL);
`RingBufferAssumption` (at least two slots, finitely many threads, one reader or writer for
the variants made for one); `FlowQueueAssumption` (finitely many flows, NULL is none of them, and
a detached flow or one on its way is in no queue); `DetectAssumption` (finitely many detection
threads, at least one, and every rule of the state has a URI or another part to look for, or it would not
be stateful); `ThresholdAssumption` (finitely many threads, a packet's alerts are rules that matched it,
a `detection_filter` has a count and seconds above 0, as `detect-detection-filter.c` 182 demands, and
the packets' time, Unix time, is later than any `timeout` of a rule); `DefragAssumption` (the
configuration's values are natural numbers, and what arrives is a `Fragment`).  The ring buffer's theorems are about behaviours within `NoLap`
(section 6.1).

*Hypotheses of `FlowKeptProofs`.*  Each of its results but the last is proved twice.  For one
decoder thread (`OneDecoder`), which is what `RunModeIpsNFQAuto` starts, nothing else is
assumed.  For any number of decoder threads the specification is `Spec /\ FreesUnheld`: the
manager frees no flow whose mutex is held.  The code does not see to that, and
`flow_free` shows the step that breaks it; with several decoders the freed memory may
by then be another connection's flow, whose mutex the late unlock would release.  With
one decoder the flow it has just put away cannot be in use by anybody else, so the
unlock, whatever it does to the freed mutex, leaves the state as it should be.  In the model it
releases the mutex and has no other effect.  The theorems say that the step
`FreesUnheld` excludes is the only one between the code and these invariants.

*Hypotheses of `QueuesAreOrdered`.*  One decoder thread and no stream thread
(`OnePipeline`), as `RunModeIpsNFQAuto` starts them.  Both are needed: two decoders can stamp a
flow and move it to the bottom of its queue in different orders, and a stream thread moves it
there without a new `lastts`.

*Hypothesis of `EveryPacketIsJudged`.*  One verdict thread (`OneVerdictThread`), as
`RunModeIpsNFQAuto` starts it.  With two, each can find the packet of the other still missing,
count its own and leave the verdict to the other (section 6.1).

*Hypothesis of `ThreadsLiveInOrder`.*  `RestartsWell`: `TmThreadRestartThread` is called only for a thread that
may be restarted, and that has no other thread behind it in its list.  Both are about what the code
does not see to: `threads_restart` shows a restart in the middle of a list to cut off the threads
behind, which the shutdown then neither stops nor joins, and a thread beyond
`THV_MAX_RESTARTS` is joined again and again (section 6.2).  The threads of `pipeline` live within it.

*Hypothesis of `AlertsKeepTheRate`.*  `CountsMatter`: a packet waits less than a second for its thread,
a `limit` and a `threshold` have a count of at least 1, a `detection_filter` one of at least 2.  A limit of 0
still alerts once in a window; a threshold of 0 and a `detection_filter` of 1 do not alert at a match that replaces
an entry too old (section 6.6).  A packet that is later than that takes the time of a window back, and a second
window can open within the seconds of the first.  `AlertsFollowMatches` needs none of this: its periods are longer by
`Late`.

*Inductive invariants.*  `TypeOK` is not inductive: that `fl[f].key` of a flow
taken from a list is a key, or that `reg[t].f` is a flow, depends on the program
counter.  `TypeInv` adds for each label which locals are set and where a list's
flows have an identity.  Every action is reduced to `Moves(t, l, v)`, "thread `t`
goes to label `l` with locals `v`", so a step's proof is one lemma about `Moves` and
one about the data it changes.
`OneFlowPerKey` needs `BucketInv`: a thread between the miss and the insertion
holds the spinlock of its bucket, no flow of its connection is in the chain, and
a flow with an identity is in the chain its key hashes to.  All that other
threads can do to a chain meanwhile is remove flows, which needs the bucket
lock, or insert flows in other buckets.
`MemuseBounded` needs `MemInv`: the threads between `FlowAlloc`'s test and its
addition count as if they had added.  The bound is reached, not only approached.
`FlowsKept`, `UseCountExact` and `RemovedOnlyIfIdle` need `KeptInv`, a statement about every flow
`f` (`FlowOK`): it is in one queue or in one thread's hands, which are those that hold it,
took it from the spare queue or allocated it (`Placed`); while its mutex is held the holder is
at a label of a critical section (`Owned`) and a thread at such a label holds it (`Locked`,
with the late unlock of a single decoder, `Broken`, as its exception); memory that is free
is unlocked (`Unheld`); with an identity it is in the hash or being taken from it, under its key
(`Named`, `Hashed`), and in a queue of its state or between two (`Listed`); a
thread that prunes it has found it unused and holds the locks that keep it so (`Pruned`,
`Removed`); and `use_cnt` counts the packets (`Counts`).  No queue holds a flow twice (`NoTwice`).  `Labels`
adds that stream threads never allocate or prune and that a thread that kills is in the third
stage.  Each action changes one flow: the lemmas about `SameFlow` carry all others over, so
each step is proved for the flow in the thread's hands.  `MemuseExact` follows from
the same invariant, since a flow is added to the heap by the thread that has counted
itself in, and freed by the manager, who holds the only way to it.
`TopIsLeastRecent` needs `OrderInv`: the same order, for flows that are being removed as well
(`Ordered`), and `Clock`: no flow was seen later than the packet the decoder has in hand, which
keeps its time stamp on its way through the engine, and the flow it is about to link was seen
with that packet.  Unlinking keeps the order of the others, and a flow that joins at the bottom
is the latest of all.
`ImplementsFlowList` needs `Inv` of `FlowQueueProofs`: each queue has the pointers of a list
of distinct flows (`Linked`: top, bottom, length, every `lnext` and every `lprev`), that list is the
one a walk along `lnext` yields, its members are the flows whose callers think they are
in the queue, and a flow in no queue has no pointers left, which `FlowEnqueue` relies on: it
writes neither of them when the queue is empty.  That the walk along the pointers of a list is that
list is an induction over its steps (`StepsAre`, from the least-element principle of
`LeastNatural`), and that it ends in time is the pigeonhole principle (`NotLonger`).  Then the
work is in three lemmas about pointers alone, `Pushed`, `Appended` and `Unlinked`, which say what
each group of assignments makes of a linked list at its ends and in its middle;
`FlowDequeue` turns out to be `UnlinkFrom` of the bottom flow, and an
operation on one queue leaves the pointers of all others as they were (`OneQueue`).
`ImplementsFifo` needs `RingInv`: a reader whose compare-and-swap would succeed (`OnTarget`) has
in hand what its slot still holds, in a buffer that is not empty (`ReaderOK`): the
writers fill other slots and a reader that moves `read` takes the others off their target.  A writer
with the spin lock, or the only one, finds its slot free until it has moved `write`
(`WriterOK`); a test that samples the indices at different moments errs on the safe side, as each
index can only have moved in the direction that makes more room, or more to take.  Then the
pointers between `read` and `write` are the queue: `Take` removes its head, `Advance` adds at its
end, `Store` touches a slot that is not in it, and every other step leaves it alone.
`WakeupsCoverPackets` needs `Paused`: while main spawns, no thread is past its pause, or
the thread it spawns could be one that a signal has just woken.  Then each packet put into
a queue comes with one more reader that is awake, unless none sleeps, and each reader that
is awake takes at most one packet before it waits again.
`LifeInOrder` needs `LifeInv`: the list of each type has the threads spawned so far, from
its root on in the order of their creation (`Chain`), the joined threads are those that the walk of
`TmThreadKillThreads` has passed (`Joins`), and they have exited.  That
`TmThreadAppend` finds the end of such a list is an induction over the steps of its walk
(`LastIs`), and `Walks` says of `After` that it is the next of all threads, first those of the
packet path, then those of management: so the walk ends with everybody joined, and does not meet
a thread a second time.
`PacketsAccounted` is a sum over the lengths of all queues, written with `FoldFunction`.
That such a sum exists, is an integer and changes by what one of its terms changes are
facts about a recursion over finite sets, for which `ThreadsProofs` builds its own induction: a set of
natural numbers that is not empty has a least element (`LeastNatural`, from
`WFMin`), so what holds for 0 and is handed on holds for all (`AllNaturals`), so the
recursive function of the fold is the one function that satisfies its equation (`SumExists`,
`TotalChanges`).  The rest is one lemma about a step that moves a packet between the pool,
a queue and a thread (`PacketMoves`) and its uses.
`InOnePlace` is a sum over the pool, the queues, the threads' hands and the waiting roots;
lemmas about one queue and one thread give what a step adds to each term.  Which term
changes by how much depends on the tunnel, so it is proved together with `RootInv`:
packets at rest belong to no tunnel (`TunnelsOpen`), `tpr_cnt` is the number of children
`TmqhOutputPacketpool` has not seen (`Counted`), a root with such children has not been taken by
it (`RootsStay`), only one thread can find its packet the last child of a waiting root
(`OneReturns`), and a waiting root has a child to come or such a thread (`WaitsForSome`).
`OneReturns` is what the mutex buys: the thread that brings `tpr_cnt` from 1 to 0 is
unique, because nothing adds a child once Decode1 has put the root out.
`NoPacketUnjudged` needs `JudgeInv` on top of these.  `tpr_cnt` shrinks at the output while
`rtv_cnt` grows at the verdict, so the test that compares them is right only because, until there is a
verdict, `rtv_cnt` is no less than the number of members that have passed `VerdictNFQ` and not yet
the output (`Judged`); hence a thread that counts its packet leaves another member behind
(`Leaves`), and a root that has passed with no verdict has a child that has not.

The three theorems of `DetectProofs` share `DetectInv`.  `TxInv` is about the parser's transactions
and the four ids: what is freed is below `base`, `base` is not above what is inspected and, with a logger, logged,
and the log is the numbers up to `logged`; `TransactionsKept` follows from it.  That the logger's loop
over the transactions that are left writes consecutive numbers needs an enumeration of finite sets
of numbers, for which `DetectProofs` has an induction of its own (`Enumerable`, `OrderOfInterval`).
`Placed` says where a thread is in its list of rules or items: one thread continues at a time
(`de_state_m`), so the list it walks does not change under it except at its end.  `Matched` says of
each stored item, each thread in the middle of a rule and each alert that the parts it has behind it came
in requests; requests only grow, so the parser does not disturb it.  `OneThread` adds, for one detection thread,
that item `n` is rule `n`'s, that a URI an item has seen is in a transaction above `ids.inspect`, that a rule which
has alerted for the transaction under inspection has a full item, which `DeStateDetectContinueDetection`
will not take up again, and that a rule found new has not alerted yet.  All of it is relative to `ids.inspect`: the step that
moves the id, `AppLayerTransactionUpdateInspectId`, is followed by a reset of the state, and between the two
nothing has alerted for the new id.  `Judged` is the other direction, for whole requests: behind the thread
no rule is left that fits the request and has not alerted, and the flag that lets
the id move is set only then.  `RequestsJudged` is false for two threads or for requests in pieces
(section 6.7), which is where the proof uses both hypotheses.

`AlertsAreEarned` needs `ThresholdInv`, which says of an entry what it is a summary of.  A function `w`, of
which the invariant says only that it exists, gives for each decision the match at which its window began: one that
found no entry, or one too old (`Windows`).  The entry of a key has the time and the count of the
latest window, none of whose members it has forgotten (`Current`): for a `threshold`, of the matches after the last
alert (`Unspent`), for a `limit` with the alerts among them (`Tally`), for a `rate_filter` a moment when
the rate was reached (`Reached`).  Where two threads have decided and `ThresholdTimeoutRemove` has taken the
entry, what remains is that the window is over for packets to come (`Gone`); so windows of a key begin at
least the rule's seconds apart (`Apart`), and a period as long as the seconds meets two of them.  `Laws` says what a
window comes to at each decision, and two windows give the factor 2 of `Regular`.  A rule that needs one match and no
window, a `threshold` of 1, removes its entry as it alerts, and is proved by itself (`Spaced`).
`KeptExpires` is the expiry, `NewDecision` is `PacketAlertThreshold`, and `LastIndex`, by
the least-element principle, gives the last decision of a period.

`TrackersKept` needs `DefragInv`: the types, and that a tracker's time is its last fragment's plus the timeout
(`TimedBut` with 0; the number is a place in the table that is just being filled).  `GivesUp`
says what `DefragTimeoutTracker` finds: a tracker past its time wherever it is in the list, or that there
is none.  A table that is as it was could mean two more things than a datagram refused: a new tracker that was
complete at once, and one that took the place of an equal one.  The first cannot be, since the
only fragment of a datagram that has an offset does not reach back to its start (`EndNeedsStart`; here the
early return of `Defrag` is needed), and the second has another datagram's id.  `DefragTypeOK` says that
`frags` is the sum over the trackers, written with `FoldLeft`; that a running total ends at this sum
(`RunningEnds`) is an induction by `AllNaturals`, and `SumAppends`, `SumChanges` and `SumRemoves` follow by giving
the running total of the new table.  `InsertedIs` is `DefragInsertFrag` on the list of one tracker, which
grows by at most one fragment, and only if the pool has one.

*Model-checked only*: the other invariants and action properties, and all liveness properties (which, like ENABLED, are beyond the prover).

## 6. What the model shows beside its properties

What follows was met while the code was modelled.  It bounds the properties
above: each is claimed where the code keeps it.

### 6.1 Flow engine, packets, ring buffer

* **A flow in the spare queue can still be locked**: `FlowPrune` moves it there before it
  unlocks it (`flow.c` 306-308, 454-457), though `FlowGetNew` is commented to dequeue
  an unlocked flow (`flow-hash.c` 353); and the manager may free it (`flow_free`).  With several
  decoders and room for flows to be freed (`Memcap` 2) `UsedFlowIsLive` then fails: when
  the memory is allocated again, the unlock hits the mutex of a flow another thread uses.
  The theorems of section 5 hold for one decoder, as shipped, or where this step does
  not happen; `flow_timeout` has two decoders that do not prune.
* **Emergency recovery of 100** never ends the emergency: the test is strict and the
  manager trims the spare queue to `prealloc` first.  `EmergencyEnds` is claimed
  for 30, the default.
* **Flows are killed outside emergency mode**: the stages of pruning depend on what the
  thread's own pruning released, not on the flag, which the manager can
  have cleared meanwhile.
* **At the memcap a packet may get no flow although one is spare**: after
  pruning, `FlowGetNew` allocates (and fails) instead of dequeuing what it made spare.
* **Without a stream thread** every TCP flow seen in both directions counts as
  closed (`stream-tcp.c` 2830), so it has the closed timeout, not the established one
  that `suricata.yaml` 193-195 describes.
* **A ring buffer can hand out a stale pointer** if a reader sleeps in its
  compare-and-swap loop while the others take a complete lap (65536 or 256 pointers) and come
  back to its index; without the bound `NoLap` the refinement fails.
* **`RingBufferMrMwGetNoWait` can find nothing in a buffer that was never
  empty**, as its test reads the two indices at different moments; `PacketPool`
  lets a new packet be allocated whatever the pool holds.
* **With several verdict threads** a packet can be returned without a verdict:
  both test before either counts.  The run mode has one.
* `decode-ipv4.c` 563 does not test the result of `PacketPseudoPktSetup`.
* **The second stage of pruning counts wrongly**: it asks for
  `FLOW_DEFAULT_FLOW_PRUNE` flows and compares the result with `prune_flows`
  (`flow-hash.c` 329-330, `suricata.yaml` 178-179), so that flows are killed only
  when the two are equal.  `prune_flows` is also cut to 8 bits: 256 means 0.
* `use_cnt` has 16 bits; `prealloc: 0` is accepted and divides by zero when an
  emergency is to end.  The stream thread calls `FlowUpdateQueue` without a new
  `lastts`.

### 6.2 Threads

* A thread that failed more often than `THV_MAX_RESTARTS` is joined again and again by
  the watch; its queue fills, `ReceiveNFQ` then polls the pool without testing
  `THV_KILL`, and the join of the shutdown waits for it.  The runs bound failures by
  the restarts.
* `EngineStop` waits until all packets are back in the pool at one moment: under
  traffic that never pauses it need not end.
* In the slots with several functions a thread whose post queue fails sets
  `THV_FAILED` and goes on.

### 6.3 TCP sessions

* `ValidReset` answers -1 for a reset whose time stamp does not fit, which its callers
  take for true.  It sets the server's policy when the client's is unset, and
  `ValidTimestamp` that of the other stream.
* The ACK that completes the handshake is not compared with anything.  If it is lost before
  the tracker, a FIN/ACK that follows is ignored, as is data out of order before
  `ESTABLISHED`, data in the half closed states, and a FIN that overtakes data
  until it is repeated.  `FinNoticed` is claimed for connections whose opening was
  seen with three packets, in both directions.
* `EstablishedReset` swaps the two `next_seq`.  In FIN_WAIT2 a misplaced parenthesis compares
  a sequence number with 0 or 1.  LAST_ACK is left only by an ACK to the
  server; the RST that refuses a connection does not close it; `TCP_CLOSING` is never entered.
* A closed session ignores a new SYN between the same ports as long as the flow lives.

### 6.4 Reassembly

* `StreamTcpSegmentDataReplace` copies from the beginning of the new payload whatever the
  position, so that replaced bytes stand in the wrong place; its bound checks are off by one.
  `PolicyDecides` therefore speaks of segments that overlap wholly or not at all.
* A segment keeps `SEGMENTTCP_FLAG_PROCESSED` in the pool and may be taken for
  processed when it is used again: with `again` set in a configuration `EndsForGaps`
  fails.
* `tmp_ra_base_seq` is compared as an unsigned number.  An ACK inside a segment removes the
  whole segment once the protocol is known; what is then sent again in part is delivered again.
* With an empty message pool the segment's data is not stored at all.

### 6.5 Defragmentation

* The context's policy is set in the unit tests only; the engine has 0, for which no
  overlap is handled, and `BSD_RIGHT` has no case.
* A last fragment that an earlier one covers is dropped before `seen_last` is set, and
  the datagram is never reassembled.  Under four policies a new fragment that begins before
  the first one it meets without covering it does not win.  Only one earlier fragment is trimmed
  or skipped for each new one, and stays so if the new one cannot be stored.
  `OverlapDecided` is claimed for one overlap.
* The time of a tracker is not looked at when a fragment finds it: a datagram that uses
  an id again joins fragments of the old one.
* The tracker is used after the table is unlocked; the run mode has one decoder.

### 6.6 Thresholds, tags, flow integers

* Entries by destination and for IPv6 never expire: the walk is over the IPv4 table by source.
* A `rate_filter`'s time-out is cleared at the second match of an entry whose rate was not
  reached, and expiry loses the time-out of an entry that was.  Below
  the rate it removes the alert instead of leaving it as it is.
* With a count of 1, `both` and `detection_filter` do not alert on the match that starts
  a window anew.
* `th_entry` has as many slots as rules but is indexed by another number of the rule.
* *Tags*: the counter of a host's tags is read before the entry is locked and raised after; removing
  the head of a host's list loses the rest and removing another frees all that follow it;
  a full list counts a tag it does not link.
* *Flow integers* (`detect-flowint.c` 110-170): the variable is looked up without the flow's
  mutex and added under it, so that of two additions one can be lost; `FlowVarGet` takes an
  8 bit index for ids of 16 bits.

### 6.7 Stateful detection

* **A transaction can be passed uninspected.**  Requests that come in pieces, or two detection
  threads, let the parser or the other thread move between the inspection of the URIs and
  `AppLayerTransactionUpdateInspectId` (against the comment at `app-layer-parser.c` 730).
  TLC shows `RequestsJudged` to fail in both cases; it is claimed for whole requests and one
  thread.  The parts of `StatefulAlerts` about one alert per transaction are claimed for one
  thread as well: two can start the same rule.
* A match completed on a packet to the client is new in a packet whose rules do
  not have it, and its alert is lost; so is one whose rule wants payload that is not in this packet.
* A reset between `DeStateFlowHasState` and the continuation skips all stateful rules for the
  packet; results computed before a reset are stored after it.
* Requests of one chunk count as one transaction, so that some are not logged.
  `FLOW_RECYCLE` (`flow-util.h` 75) clears `de_state` without freeing it.

## 7. Not modelled, and why

`components` in `PROJECT.json` gives each part's reason.

*In the modelled parts*: the hash function (a parameter), configuration parsing, the exit of
the flow manager, `TmqhReleasePacketsToPacketPool`, what a verdict says (accept, drop, mark),
the contents of packets, the ring buffer's condition variable (`RINGBUFFER_MUTEX_WAIT` is
not defined), the slots with several functions, pausing at run time, window scaling
negotiated by hosts, time stamps older than 24 days, exhausted segment and message pools,
reassembly depth, several decoder threads in `defrag.c`, failed allocations, and the 16 bits of
`use_cnt`, which the packets in flight do not fill.  Only the multiple reader and multiple
writer ring buffer, the pool's, is checked by a run; the other variants are the same
module with other constants.  Tags are left out because what they do beyond counting is the
list handling of section 6.6, which keeps no promise one could state.

*Left out entirely*: packet decoders, rule keywords and pattern matchers are functions of
one buffer; the LoRaWAN decoders do not belong to a program that can be built (section 1.1).
Grouping of addresses, ports and rules is computed once, in one thread, by recursion
over lists of ranges; small instances would add nothing to the unit tests.
Statistics, output formats, reject packets, configuration and the bundled HTTP parser are
reporting, input and output, or another project's code.

*Share of the code.*  Most of the 200,000 lines are unit tests (nearly every file
ends with its own), parsers, tables of keywords and matchers.  What the modules map is the part in
which order, sharing and time matter.
