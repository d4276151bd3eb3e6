------------------------------- MODULE Threshold -------------------------------
(***************************************************************************)
(* detect-engine-threshold.c and the part of detect-engine-alert.c that    *)
(* calls it: the rules that matched a packet become its alerts unless      *)
(* their threshold, detection_filter or rate_filter says otherwise.  The   *)
(* detection threads share the tables of counters; the time is that of the *)
(* packets, which the threads do not take in order.                        *)
(***************************************************************************)
EXTENDS Integers, Sequences, FiniteSets, SequencesExt

CONSTANTS Thread,    \* the detection threads
          ThConfs,   \* scenarios: rules in the order of their actions, packets
          Start,     \* time of the first packet: large, as Unix time is
          LastTime,  \* bound on the clock
          Late       \* bound: how long a packet waits in a thread

(* As the keywords are parsed: a detection_filter counts and lasts; a rule *)
(* stands in a packet's alerts because it matched.  Unix time is later     *)
(* than any time-out.                                                      *)
ThresholdAssumption ==
    /\ IsFiniteSet(Thread) /\ Start \in Nat /\ LastTime \in Nat /\ Late \in Nat \ {0}
    /\ \A c \in ThConfs :
         /\ c.packets \in Nat
         /\ \A m \in c.matches : m # <<>> /\ m \in Seq(DOMAIN c.rules)
         /\ \A r \in DOMAIN c.rules :
              /\ c.rules[r].type \in {"none", "limit", "threshold", "both", "detection", "rate"}
              /\ {c.rules[r].count, c.rules[r].seconds, c.rules[r].timeout} \subseteq Nat
              /\ c.rules[r].type = "detection" => c.rules[r].count > 0 /\ c.rules[r].seconds > 0
              /\ c.rules[r].timeout < Start

VARIABLES
    th,        \* the scenario
    timeouts,  \* td->timeout of each rule, which PacketAlertThreshold writes
    entries,   \* the hash tables and th_entry: from keys to DetectThresholdEntry
    work,      \* per thread: its packet, p->alerts from the next one on, p->action
    clock,
    judged     \* what was decided, in the order of threshold_table_lock
thresholdVars == <<th, timeouts, entries, work, clock, judged>>

None == [since |-> 0, count |-> 0, until |-> 0]   \* no entry
NoPacket == [pkt |-> [src |-> "", dst |-> "", v |-> 0], ts |-> 0, alerts |-> <<>>, action |-> {}]
Rules == DOMAIN th.rules

(* What ThresholdHashFunc and ThresholdCompareFunc tell apart, and the     *)
(* table; th_entry is indexed by the rule alone.                           *)
Key(r, p) ==
    [rule |-> r, track |-> th.rules[r].track,
     v |-> IF th.rules[r].track = "rule" THEN 0 ELSE p.v,
     addr |-> CASE th.rules[r].track = "src" -> p.src
                [] th.rules[r].track = "dst" -> p.dst
                [] OTHER -> "any"]

Lookup(k) == IF k \in DOMAIN entries THEN entries[k] ELSE None

InWindow(rule, e, ts) == ts - e.since < rule.seconds

SameWindow(rule, e, ts) ==                                      \* mutant
    IF e # None /\ InWindow(rule, e, ts) THEN [e EXCEPT !.count = @ + 1]
    ELSE [e EXCEPT !.since = IF e = None THEN ts ELSE @, !.count = 1]

(* The entry with this match counted.                                      *)
Counted(rule, e, ts) ==
    IF e # None /\ InWindow(rule, e, ts) THEN [e EXCEPT !.count = @ + 1]
    ELSE [e EXCEPT !.since = ts, !.count = 1]

(* PacketAlertThreshold: whether to alert, whether a rate_filter takes its *)
(* new action, the entry and the time-out it leaves.                       *)
Decide(rule, e, ts, timeout) ==
    LET counted == Counted(rule, e, ts)
        within == e # None /\ InWindow(rule, e, ts)
        enough == within /\ counted.count >= rule.count
        atOnce == e = None /\ rule.count = 1
        acting == e # None /\ ts - e.until <= timeout
        plain == [alert |-> enough \/ atOnce, acted |-> FALSE,
                  entry |-> counted, timeout |-> timeout]
    IN  CASE rule.type = "limit" ->
               [plain EXCEPT !.alert = ~within \/ counted.count <= rule.count]
          [] rule.type = "threshold" ->
               [plain EXCEPT !.entry = CASE atOnce -> None
                                         [] enough -> [counted EXCEPT !.count = 0]
                                         [] OTHER -> counted]
          [] rule.type = "both" ->
               [plain EXCEPT !.alert = (within /\ counted.count = rule.count) \/ atOnce]
          [] rule.type = "detection" -> plain
          [] rule.type = "rate" ->
               [alert |-> enough \/ atOnce \/ acting, acted |-> enough \/ acting,
                entry |-> IF enough THEN [counted EXCEPT !.until = ts] ELSE counted,
                timeout |-> IF e = None \/ acting THEN timeout ELSE 0]

(* ThresholdTimeoutRemove walks the IPv4 table by source.                  *)
Expired(k, e, ts) == k.track = "src" /\ k.v = 4 /\ ts - e.since > th.rules[k.rule].seconds

Put(k, e) == [x \in (DOMAIN entries \cup {k}) \ (IF e = None THEN {k} ELSE {}) |->
                IF x = k THEN e ELSE entries[x]]
Expire(es, ts) == [k \in {k \in DOMAIN es : ~Expired(k, es[k], ts)} |-> es[k]]

---------------------------------------------------------------------------
ThresholdInit ==
    /\ th \in ThConfs
    /\ timeouts = [r \in DOMAIN th.rules |-> th.rules[r].timeout]
    /\ entries = <<>>
    /\ work = [t \in Thread |-> NoPacket]
    /\ clock = Start
    /\ judged = <<>>

(* A packet that these rules matched comes to a thread.                    *)
Receive(t) ==
    /\ work[t] = NoPacket
    /\ Len(judged) + Cardinality({o \in Thread : work[o] # NoPacket}) < th.packets
    /\ \E p \in th.pkts, m \in th.matches :
         work' = [work EXCEPT ![t] = [pkt |-> p, ts |-> clock, alerts |-> m, action |-> {}]]
    /\ UNCHANGED <<th, timeouts, entries, clock, judged>>

(* PacketAlertFinalize goes on: the alert stays and its action becomes the *)
(* packet's, "pass" ends the list; or it is removed.                       *)
Finalize(t, alert, act) ==
    LET w == work[t]
        r == Head(w.alerts)
        action == w.action \cup act \cup (IF alert THEN {th.rules[r].action} ELSE {})
        rest == IF alert /\ th.rules[r].action = "pass" THEN <<>> ELSE Tail(w.alerts)
    IN  work' = [work EXCEPT ![t] = IF rest = <<>> THEN NoPacket
                                    ELSE [w EXCEPT !.alerts = rest, !.action = action]]

(* PacketAlertHandle of the next alert of the packet.                      *)
PacketAlertHandle(t) ==
    /\ work[t] # NoPacket
    /\ LET r == Head(work[t].alerts)
           ts == work[t].ts
           k == Key(r, work[t].pkt)
           d == Decide(th.rules[r], Lookup(k), ts, timeouts[r])
       IN  IF th.rules[r].type = "none"
           THEN Finalize(t, TRUE, {}) /\ UNCHANGED <<timeouts, entries, judged>>
           ELSE /\ entries' = Expire(Put(k, d.entry), ts)
                /\ timeouts' = [timeouts EXCEPT ![r] = d.timeout]
                /\ Finalize(t, d.alert, IF d.acted THEN {th.rules[r].new} ELSE {})
                /\ judged' = Append(judged, [key |-> k, ts |-> ts, alert |-> d.alert,
                                             acted |-> d.acted])
    /\ UNCHANGED <<th, clock>>

Tick ==
    /\ clock < LastTime
    /\ \A t \in Thread : work[t] # NoPacket => clock - work[t].ts < Late
    /\ clock' = clock + 1
    /\ UNCHANGED <<th, timeouts, entries, work, judged>>

ThresholdNext == Tick \/ \E t \in Thread : Receive(t) \/ PacketAlertHandle(t)
ThresholdSpec == ThresholdInit /\ [][ThresholdNext]_thresholdVars

---------------------------------------------------------------------------
(* The tables, the threads' packets and the decisions keep their types.    *)
ThresholdTypeOK ==
    /\ \A r \in Rules : timeouts[r] \in {0, th.rules[r].timeout}
    /\ \A k \in DOMAIN entries :
         /\ k.rule \in Rules
         /\ entries[k].since \in Start .. clock
         /\ entries[k].count \in 0 .. th.packets
         /\ entries[k].until \in {0} \cup Start .. clock
    /\ \A t \in Thread :
         work[t] # NoPacket => work[t].ts \in Start .. clock /\ Range(work[t].alerts) \subseteq Rules
    /\ clock \in Start .. LastTime

RuleOf(i) == th.rules[judged[i].key.rule]
Same(i) == {j \in DOMAIN judged : judged[j].key = judged[i].key}
Ago(i, ts) == {j \in Same(i) : j <= i /\ judged[j].ts > ts}
Recent(i) == Ago(i, judged[i].ts - RuleOf(i).seconds - Late)
Alerts(ix) == {j \in ix : judged[j].alert}

(* Nothing alerts without its matches, nothing is suppressed without its   *)
(* alerts: a limit suppresses only after count alerts within its seconds;  *)
(* a threshold alerts only after count matches within them, none of which  *)
(* counted for an earlier alert; both and detection_filter after count     *)
(* matches; a rate_filter acts only within its time-out of a moment when   *)
(* the rate was reached (PacketAlertThreshold, with the entries that       *)
(* ThresholdTimeoutRemove takes away and packets that come late).          *)
Earned ==
    \A i \in DOMAIN judged :
        LET rule == RuleOf(i)
        IN  CASE rule.type = "limit" ->
                   judged[i].alert \/ Cardinality(Alerts(Recent(i) \ {i})) >= rule.count
              [] rule.type = "threshold" ->
                   judged[i].alert =>
                     Cardinality({j \in Recent(i) : Alerts((j .. i - 1) \cap Same(i)) = {}})
                       >= rule.count
              [] rule.type \in {"both", "detection"} ->
                   judged[i].alert => Cardinality(Recent(i)) >= rule.count
              [] OTHER ->
                   judged[i].acted =>
                     \E m \in Ago(i, judged[i].ts - rule.timeout - 1) :
                        Cardinality(Recent(m)) >= rule.count

(* The decisions from i to j, of one key and less than seconds apart.      *)
Period(i, j) ==
    LET ix == Same(i) \cap (i .. j)
    IN  IF \A k, l \in ix : judged[k].ts - judged[l].ts < RuleOf(i).seconds THEN ix ELSE {}

(* However the windows fall, in any seconds a limit lets at most 2 * count *)
(* alerts through and both lets two; and 2 * count - 1 matches are not     *)
(* without an alert of a threshold or a detection_filter.                  *)
Regular ==
    \A i, j \in DOMAIN judged :
        LET rule == RuleOf(i)
            n == Cardinality(Alerts(Period(i, j)))
        IN  CASE rule.type = "limit" -> n <= 2 * rule.count
              [] rule.type = "both" -> n <= 2
              [] rule.type \in {"threshold", "detection"} ->
                   Cardinality(Period(i, j)) >= 2 * rule.count - 1 => n > 0
              [] OTHER -> TRUE

AlertsAreEarned == Earned /\ Regular
===============================================================================
