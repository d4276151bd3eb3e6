-------------------------- MODULE InspectionProofs --------------------------
(* What a threshold, a detection_filter or a rate_filter decides about an  *)
(* alert is what its rule promises, over all the matches of its key, with  *)
(* detection threads whose packets are not in order and entries that time  *)
(* out.  And what defragmentation promises with too few trackers: one is   *)
(* given up only after its timeout, and no fragment is lost to the pool.   *)
EXTENDS Threshold, Defrag, FiniteSetTheorems, SequenceTheorems, WellFoundedInduction, TLAPS

(***************************************************************************)
(* The inductive invariant.  w tells for each decision where its window    *)
(* began: at a match that found no entry or one too old.                   *)
(***************************************************************************)

Upto(w, i) == {j \in DOMAIN w : w[j] = w[i] /\ j <= i}
Block(w, m) == {j \in DOMAIN w : w[j] = m}
Alarms(log, ix) == {j \in ix : log[j].alert}
\* The decisions that no alert before i comes after.
Unspent(log, ix, i) == {j \in ix : \A l \in ix : j <= l /\ l < i => ~log[l].alert}
\* Recent of Threshold, of any log.
Lately(rules, log, i) ==
  {j \in DOMAIN log : log[j].key = log[i].key /\ j <= i
                      /\ log[j].ts > log[i].ts - rules[log[i].key.rule].seconds - Late}

\* The rules of which it is claimed that they open at most one window in their seconds.
Spaced(rule) == Late = 1 /\ ~(rule.type = "threshold" /\ rule.count = 1)

Windows(log, w) ==
  /\ w \in [DOMAIN log -> DOMAIN log]
  /\ \A i \in DOMAIN log : w[i] <= i /\ log[w[i]].key = log[i].key /\ w[w[i]] = w[i]
  /\ \A i, j \in DOMAIN log : log[j].key = log[i].key /\ j < i => w[j] = w[i] \/ j < w[i]
Apart(rules, log, w) ==
  \A i, j \in DOMAIN log :
    log[j].key = log[i].key /\ j < i /\ w[i] = i /\ Spaced(rules[log[i].key.rule]) =>
      log[i].ts - log[w[j]].ts >= rules[log[i].key.rule].seconds

Law(rule, log, w, i) ==
  /\ rule.type = "limit" /\ log[i].alert => w[i] = i \/ Cardinality(Upto(w, i)) <= rule.count
  /\ rule.type = "both" /\ log[i].alert => Cardinality(Upto(w, i)) = rule.count
  /\ rule.type = "detection" /\ ~log[i].alert /\ rule.count > 1 => Cardinality(Upto(w, i)) < rule.count
  /\ rule.type = "threshold" /\ ~log[i].alert /\ rule.count > 0 =>
       Cardinality(Unspent(log, Upto(w, i), i)) < rule.count
Laws(rules, log, w) == \A i \in DOMAIN log : Law(rules[log[i].key.rule], log, w, i)

Tally(rule, log, b, count) ==
  IF rule.type = "threshold" THEN rule.count # 1 /\ count = Cardinality(Unspent(log, b, Len(log) + 1))
  ELSE /\ count = Cardinality(b)
       /\ rule.type = "limit" =>
            (Cardinality(Alarms(log, b)) >= rule.count \/ Cardinality(Alarms(log, b)) >= count)
Reached(rules, log, k, until) ==
  until = 0 \/ \E n \in DOMAIN log : /\ log[n].key = k /\ log[n].ts = until
                                     /\ Cardinality(Lately(rules, log, n)) >= rules[k.rule].count
Current(rules, log, w, k, e) ==
  /\ \E m \in DOMAIN log :
       /\ log[m].key = k /\ w[m] = m /\ e.since = log[m].ts
       /\ \A i \in DOMAIN log : log[i].key = k /\ i > m => w[i] = m
       /\ Tally(rules[k.rule], log, Block(w, m), e.count)
  /\ rules[k.rule].type = "rate" => Reached(rules, log, k, e.until)
\* A window whose entry has timed out is over.
Gone(rules, log, w, k, moment) ==
  Spaced(rules[k.rule]) =>
    \A i \in DOMAIN log : log[i].key = k => log[w[i]].ts + rules[k.rule].seconds + Late <= moment

Kept(rules, log, w, es, moment) ==
  /\ Windows(log, w) /\ Apart(rules, log, w) /\ Laws(rules, log, w)
  /\ \A k \in DOMAIN es : Current(rules, log, w, k, es[k])
  /\ \A i \in DOMAIN log : log[i].key \notin DOMAIN es => Gone(rules, log, w, log[i].key, moment)

Limiting == {"limit", "threshold", "both", "detection", "rate"}
EntryType == [since : Nat \ {0}, count : Nat, until : Nat]
\* The packet of a thread.
Work(w, moment) ==
  /\ DOMAIN w = {"pkt", "ts", "alerts", "action"}
  /\ w.ts \in Nat /\ Start <= w.ts /\ w.ts <= moment /\ moment <= w.ts + Late
  /\ w.alerts \in Seq(Rules) /\ w.alerts # <<>>
Typed ==
  /\ th \in ThConfs
  /\ timeouts \in [Rules -> Nat] /\ \A r \in Rules : timeouts[r] <= th.rules[r].timeout
  /\ entries \in [DOMAIN entries -> EntryType]
  /\ clock \in Nat /\ Start <= clock
  /\ \A k \in DOMAIN entries : k.rule \in Rules
  /\ DOMAIN work = Thread
  /\ \A t \in Thread : work[t] # NoPacket => Work(work[t], clock)
Logged ==
  /\ judged \in Seq({judged[i] : i \in DOMAIN judged})
  /\ \A i \in DOMAIN judged :
       /\ judged[i].key.rule \in Rules /\ RuleOf(i).type \in Limiting
       /\ judged[i].ts \in Nat /\ Start <= judged[i].ts /\ judged[i].ts <= clock
       /\ judged[i].alert \in BOOLEAN
  /\ \A i, j \in DOMAIN judged : j < i => judged[j].ts <= judged[i].ts + Late

\* Earned of Threshold, of decision i of any log.
EarnedAt(rules, log, i) ==
  LET rule == rules[log[i].key.rule]
      same == {j \in DOMAIN log : log[j].key = log[i].key}
      recent == Lately(rules, log, i)
  IN  CASE rule.type = "limit" ->
             log[i].alert \/ Cardinality(Alarms(log, recent \ {i})) >= rule.count
        [] rule.type = "threshold" ->
             log[i].alert =>
               Cardinality({j \in recent : Alarms(log, (j .. i - 1) \cap same) = {}}) >= rule.count
        [] rule.type \in {"both", "detection"} ->
             log[i].alert => Cardinality(recent) >= rule.count
        [] OTHER ->
             log[i].acted =>
               \E m \in same : /\ m <= i /\ log[m].ts > log[i].ts - rule.timeout - 1
                               /\ Cardinality(Lately(rules, log, m)) >= rule.count

ThresholdInv ==
  /\ Typed /\ Logged
  /\ \A i \in DOMAIN judged : EarnedAt(th.rules, judged, i)
  /\ \E w \in [DOMAIN judged -> DOMAIN judged] : Kept(th.rules, judged, w, entries, clock)

(***************************************************************************)
(* Sets of indices                                                         *)
(***************************************************************************)

LEMMA Indices ==
  ASSUME NEW n \in Nat, NEW Q, Q \subseteq 1 .. n
  PROVE  /\ IsFiniteSet(Q) /\ Cardinality(Q) \in Nat
         /\ \A R \in SUBSET Q : Cardinality(R) <= Cardinality(Q) /\ Cardinality(R) \in Nat
         /\ \A x : x \notin Q => Cardinality(Q \cup {x}) = Cardinality(Q) + 1
<1>1. IsFiniteSet(1 .. n)
  BY FS_Interval
<1>2. IsFiniteSet(Q)
  BY <1>1, FS_Subset
<1>3. \A R \in SUBSET Q : IsFiniteSet(R) /\ Cardinality(R) <= Cardinality(Q)
  BY <1>2, FS_Subset
<1>4. \A x : x \notin Q => Cardinality(Q \cup {x}) = Cardinality(Q) + 1
  BY <1>2, FS_AddElement
<1> QED BY <1>2, <1>3, <1>4, FS_CardinalityType

LEMMA Alone == \A x : IsFiniteSet({x}) /\ Cardinality({x}) = 1
  BY FS_Singleton

(* Every set of natural numbers has a least one: the form of induction     *)
(* that needs no operator for its hypothesis.                              *)
LEMMA LeastNatural ==
  ASSUME NEW T, T \subseteq Nat, T # {}
  PROVE  \E n \in T : \A m \in T : n <= m
<1> DEFINE R == {ss \in Nat \X Nat : ss[1] < ss[2]}
<1>1. IsWellFoundedOn(R, Nat)
  BY NatLessThanWellFounded DEF OpToRel
<1> HIDE DEF R
<1>2. PICK n \in T : \A m \in T : ~(<<m, n>> \in R)
  BY <1>1, WFMin
<1>3. \A m \in T : ~(m < n)
  BY <1>2 DEF R
<1> QED BY <1>3

LEMMA AllNaturals ==
  ASSUME NEW T, 0 \in T, \A n \in Nat : n \in T => n + 1 \in T
  PROVE  Nat \subseteq T
<1> SUFFICES ASSUME Nat \ T # {} PROVE FALSE
  OBVIOUS
<1>1. PICK n \in Nat \ T : \A m \in Nat \ T : n <= m
  BY LeastNatural
<1>2. n - 1 \in Nat /\ n - 1 \in T
  BY <1>1
<1> QED BY <1>1, <1>2

(* The last index of a set. *)
LEMMA LastIndex ==
  ASSUME NEW n \in Nat, NEW Q, Q \subseteq 1 .. n, Q # {}
  PROVE  \E x \in Q : \A y \in Q : y <= x
<1> DEFINE T == {n - x : x \in Q}
<1>1. \A x \in Q : x \in 1 .. n /\ n - x \in Nat
  OBVIOUS
<1>2. T \subseteq Nat /\ T # {}
  BY <1>1
<1> HIDE DEF T
<1>3. PICK d \in T : \A c \in T : d <= c
  BY <1>2, LeastNatural
<1>4. PICK x \in Q : d = n - x
  BY DEF T
<1>5. \A y \in Q : n - x <= n - y
  BY <1>3, <1>4 DEF T
<1> QED BY <1>1, <1>5

(***************************************************************************)
(* One more decision                                                       *)
(***************************************************************************)

Appends(log, log2, x) ==
  /\ Len(log) \in Nat /\ DOMAIN log = 1 .. Len(log)
  /\ Len(log2) = Len(log) + 1 /\ DOMAIN log2 = 1 .. Len(log) + 1
  /\ \A i \in 1 .. Len(log) : log2[i] = log[i]
  /\ log2[Len(log) + 1] = x

LEMMA AppendAppends ==
  ASSUME NEW log, log \in Seq({log[i] : i \in DOMAIN log}), NEW x
  PROVE  /\ Appends(log, Append(log, x), x)
         /\ Append(log, x) \in Seq({Append(log, x)[i] : i \in DOMAIN Append(log, x)})
<1> DEFINE S == {log[i] : i \in DOMAIN log} \cup {x}
           log2 == Append(log, x)
           T == {log2[i] : i \in DOMAIN log2}
<1>1. log \in Seq(S) /\ x \in S
  OBVIOUS
<1> HIDE DEF S
<1>2. log2 \in Seq(S) /\ Appends(log, log2, x)
  BY <1>1 DEF Appends
<1>3. Len(log2) \in Nat /\ log2 \in [1 .. Len(log2) -> T]
  <2> HIDE DEF log2
  <2> QED BY <1>2
<1>4. log2 \in Seq(T)
  <2> HIDE DEF log2, T
  <2> QED BY <1>3
<1> QED BY <1>2, <1>4

\* The window of the new decision starts at s: at an earlier match or there.
Longer(w, n, s) == [i \in 1 .. n + 1 |-> IF i = n + 1 THEN s ELSE w[i]]
Opens(log, w, k, s) ==
  \/ s = Len(log) + 1
  \/ /\ s \in DOMAIN log /\ log[s].key = k /\ w[s] = s
     /\ \A i \in DOMAIN log : log[i].key = k /\ i > s => w[i] = s

Prolongs(w, n, s, w2) ==
  /\ w2 \in [1 .. n + 1 -> 1 .. n + 1] /\ w2[n + 1] = s
  /\ \A i \in 1 .. n : w2[i] = w[i] /\ w[i] \in 1 .. n /\ Upto(w2, i) = Upto(w, i)
  /\ Upto(w2, n + 1) = Block(w, s) \cup {n + 1}
  /\ \A m : Block(w2, m) = IF m = s THEN Block(w, m) \cup {n + 1} ELSE Block(w, m)
  /\ Block(w, s) \subseteq 1 .. n /\ (s = n + 1 => Block(w, s) = {})
  /\ \A i \in 1 .. n : i \in Upto(w, i) /\ Upto(w, i) \subseteq 1 .. n

LEMMA LongerIs ==
  ASSUME NEW n \in Nat, NEW w \in [1 .. n -> 1 .. n], NEW s \in 1 .. n + 1
  PROVE  Prolongs(w, n, s, Longer(w, n, s))
<1> DEFINE w2 == Longer(w, n, s)
<1>1. DOMAIN w2 = 1 .. n + 1 /\ w2[n + 1] = s /\ \A i \in 1 .. n : w2[i] = w[i]
  BY DEF Longer
<1>2. w2 \in [1 .. n + 1 -> 1 .. n + 1]
  BY DEF Longer
<1>3. DOMAIN w = 1 .. n
  OBVIOUS
<1> HIDE DEF w2
<1>4. 1 .. n + 1 = (1 .. n) \cup {n + 1} /\ n + 1 \notin 1 .. n
  OBVIOUS
<1>5. \A i \in 1 .. n : Upto(w2, i) = Upto(w, i)
  BY <1>1, <1>3, <1>4 DEF Upto
<1>6. Upto(w2, n + 1) = Block(w, s) \cup {n + 1}
  BY <1>1, <1>3, <1>4 DEF Upto, Block
<1>7. \A m : Block(w2, m) = IF m = s THEN Block(w, m) \cup {n + 1} ELSE Block(w, m)
  BY <1>1, <1>3, <1>4 DEF Block
<1>8. Block(w, s) \subseteq 1 .. n /\ (s = n + 1 => Block(w, s) = {})
  BY <1>3, <1>4 DEF Block
<1>9. \A i \in 1 .. n : i \in Upto(w, i) /\ Upto(w, i) \subseteq 1 .. n
  BY <1>3 DEF Upto
<1>10. \A i \in 1 .. n : w[i] \in 1 .. n
  OBVIOUS
<1> QED BY <1>1, <1>2, <1>5, <1>6, <1>7, <1>8, <1>9, <1>10 DEF w2, Prolongs

(* What was decided stays as it is. *)
LEMMA OldOnes ==
  ASSUME NEW rules, NEW log, NEW log2, NEW x, Appends(log, log2, x),
         NEW w \in [1 .. Len(log) -> 1 .. Len(log)], NEW s \in 1 .. Len(log) + 1
  PROVE  LET w2 == Longer(w, Len(log), s) IN
         /\ \A i \in DOMAIN log : Lately(rules, log2, i) = Lately(rules, log, i)
         /\ \A i \in DOMAIN log : \A rule : Law(rule, log, w, i) => Law(rule, log2, w2, i)
         /\ \A b \in SUBSET DOMAIN log :
              /\ Alarms(log2, b) = Alarms(log, b)
              /\ \A i \in 1 .. Len(log) + 1 : Unspent(log2, b, i) = Unspent(log, b, i)
              /\ Unspent(log2, b, Len(log) + 2) = Unspent(log, b, Len(log) + 1)
         /\ \A k, until : Reached(rules, log, k, until) => Reached(rules, log2, k, until)
<1> DEFINE n == Len(log)
           w2 == Longer(w, n, s)
<1>1. /\ n \in Nat /\ DOMAIN log = 1 .. n /\ DOMAIN log2 = 1 .. n + 1 /\ Len(log2) = n + 1
      /\ \A i \in 1 .. n : log2[i] = log[i]
  BY DEF Appends
<1>w. w \in [1 .. n -> 1 .. n] /\ s \in 1 .. n + 1
  OBVIOUS
<1> HIDE DEF n
<1>l. Prolongs(w, n, s, w2)
  BY <1>1, <1>w, LongerIs
<1>2. \A i \in 1 .. n : /\ w2[i] = w[i] /\ Upto(w2, i) = Upto(w, i)
                        /\ Upto(w, i) \subseteq 1 .. n
  BY <1>l DEF Prolongs
<1> HIDE DEF w2
<1>3. \A i \in DOMAIN log : Lately(rules, log2, i) = Lately(rules, log, i)
  <2> SUFFICES ASSUME NEW i \in 1 .. n
               PROVE  Lately(rules, log2, i) = Lately(rules, log, i)
    BY <1>1
  <2>1. \A j \in 1 .. n + 1 : j <= i => j \in 1 .. n
    BY <1>1
  <2>2. \A j \in 1 .. n : j \in 1 .. n + 1
    BY <1>1
  <2> QED BY <1>1, <2>1, <2>2 DEF Lately
<1>4. \A b \in SUBSET DOMAIN log :
        /\ Alarms(log2, b) = Alarms(log, b)
        /\ \A i \in 1 .. n + 1 : Unspent(log2, b, i) = Unspent(log, b, i)
        /\ Unspent(log2, b, n + 2) = Unspent(log, b, n + 1)
  <2> SUFFICES ASSUME NEW b \in SUBSET (1 .. n)
               PROVE  /\ Alarms(log2, b) = Alarms(log, b)
                      /\ \A i \in 1 .. n + 1 : Unspent(log2, b, i) = Unspent(log, b, i)
                      /\ Unspent(log2, b, n + 2) = Unspent(log, b, n + 1)
    BY <1>1
  <2>1. \A j \in b : log2[j] = log[j] /\ j < n + 2 /\ j < n + 1
    BY <1>1
  <2> QED BY <2>1 DEF Alarms, Unspent
<1>5. \A i \in DOMAIN log : \A rule : Law(rule, log, w, i) => Law(rule, log2, w2, i)
  <2> SUFFICES ASSUME NEW i \in 1 .. n, NEW rule, Law(rule, log, w, i)
               PROVE  Law(rule, log2, w2, i)
    BY <1>1
  <2>1. Unspent(log2, Upto(w, i), i) = Unspent(log, Upto(w, i), i)
    <3>1. Upto(w, i) \in SUBSET DOMAIN log /\ i \in 1 .. n + 1
      BY <1>1, <1>2
    <3> QED BY <1>4, <3>1
  <2> QED BY <1>1, <1>2, <2>1 DEF Law
<1>6. \A k, until : Reached(rules, log, k, until) => Reached(rules, log2, k, until)
  BY <1>1, <1>3 DEF Reached
<1> QED BY <1>3, <1>4, <1>5, <1>6 DEF w2, n

LEMMA WindowsGrow ==
  ASSUME NEW rules, NEW log, NEW log2, NEW x, Appends(log, log2, x),
         NEW w \in [1 .. Len(log) -> 1 .. Len(log)], NEW s \in 1 .. Len(log) + 1,
         Windows(log, w), Apart(rules, log, w), Opens(log, w, x.key, s),
         s = Len(log) + 1 /\ Spaced(rules[x.key.rule]) =>
           \A j \in DOMAIN log : log[j].key = x.key =>
             x.ts - log[w[j]].ts >= rules[x.key.rule].seconds
  PROVE  LET w2 == Longer(w, Len(log), s) IN
         Windows(log2, w2) /\ Apart(rules, log2, w2)
<1> DEFINE n == Len(log)
           w2 == Longer(w, n, s)
<1>1. /\ n \in Nat /\ DOMAIN log = 1 .. n /\ DOMAIN log2 = 1 .. n + 1
      /\ \A i \in 1 .. n : log2[i] = log[i]
      /\ log2[n + 1] = x
  BY DEF Appends
<1>w. w \in [1 .. n -> 1 .. n] /\ s \in 1 .. n + 1
  OBVIOUS
<1>3. s = n + 1 \/ (/\ s \in 1 .. n /\ log[s].key = x.key /\ w[s] = s
                    /\ \A i \in 1 .. n : log[i].key = x.key /\ i > s => w[i] = s)
  BY <1>1 DEF Opens
<1> HIDE DEF n
<1>l. Prolongs(w, n, s, w2)
  BY <1>1, <1>w, LongerIs
<1>2. /\ w2 \in [1 .. n + 1 -> 1 .. n + 1] /\ w2[n + 1] = s
      /\ \A i \in 1 .. n : w2[i] = w[i] /\ w[i] \in 1 .. n
  BY <1>l DEF Prolongs
<1> HIDE DEF w2
<1>o. /\ \A i \in 1 .. n : w[i] <= i /\ log[w[i]].key = log[i].key /\ w[w[i]] = w[i]
      /\ \A i, j \in 1 .. n : log[j].key = log[i].key /\ j < i => w[j] = w[i] \/ j < w[i]
  BY <1>1 DEF Windows
<1>4. \A i \in 1 .. n + 1 : i \in 1 .. n \/ i = n + 1
  BY <1>1
<1>5. w2 \in [DOMAIN log2 -> DOMAIN log2]
  BY <1>1, <1>2
<1>6. \A i \in 1 .. n + 1 : w2[i] <= i /\ log2[w2[i]].key = log2[i].key /\ w2[w2[i]] = w2[i]
  <2> TAKE i \in 1 .. n + 1
  <2>1. CASE i \in 1 .. n
    <3>1. w2[i] = w[i] /\ w[i] \in 1 .. n
      BY <1>2, <2>1
    <3>2. w2[w[i]] = w[w[i]] /\ log2[w[i]] = log[w[i]] /\ log2[i] = log[i]
      BY <1>1, <1>2, <2>1, <3>1
    <3> QED BY <1>o, <2>1, <3>1, <3>2
  <2>2. CASE i = n + 1
    BY <1>1, <1>2, <1>3, <2>2
  <2> QED BY <1>4, <2>1, <2>2
<1>7. \A i, j \in 1 .. n + 1 : log2[j].key = log2[i].key /\ j < i => w2[j] = w2[i] \/ j < w2[i]
  <2> SUFFICES ASSUME NEW i \in 1 .. n + 1, NEW j \in 1 .. n + 1,
                      log2[j].key = log2[i].key, j < i
               PROVE  w2[j] = w2[i] \/ j < w2[i]
    OBVIOUS
  <2>0. j \in 1 .. n
    BY <1>1
  <2>1. CASE i \in 1 .. n
    <3>1. w2[i] = w[i] /\ w2[j] = w[j] /\ log[j].key = log[i].key
      BY <1>1, <1>2, <2>0, <2>1
    <3> QED BY <1>o, <2>0, <2>1, <3>1
  <2>2. CASE i = n + 1
    <3>1. w2[i] = s /\ w2[j] = w[j] /\ j \in Int
      BY <1>2, <2>0, <2>2
    <3>2. log2[j] = log[j] /\ log2[i] = x /\ log[j].key = x.key
      BY <1>1, <2>0, <2>2
    <3> QED BY <1>3, <2>0, <2>2, <3>1, <3>2
  <2> QED BY <1>4, <2>1, <2>2
<1>8. Apart(rules, log2, w2)
  <2> SUFFICES ASSUME NEW i \in 1 .. n + 1, NEW j \in 1 .. n + 1,
                      log2[j].key = log2[i].key, j < i, w2[i] = i, Spaced(rules[log2[i].key.rule])
               PROVE  log2[i].ts - log2[w2[j]].ts >= rules[log2[i].key.rule].seconds
    BY <1>1 DEF Apart
  <2>0. j \in 1 .. n
    BY <1>1
  <2>j. w2[j] = w[j] /\ log2[w2[j]] = log[w[j]] /\ log2[j] = log[j]
    BY <1>1, <1>2, <2>0
  <2>1. CASE i \in 1 .. n
    <3>1. w[i] = i /\ log2[i] = log[i] /\ log[j].key = log[i].key
      BY <1>1, <1>2, <2>1, <2>j
    <3>2. log[i].ts - log[w[j]].ts >= rules[log[i].key.rule].seconds
      BY <1>1, <2>0, <2>1, <3>1 DEF Apart
    <3> QED BY <2>j, <3>1, <3>2
  <2>2. CASE i = n + 1
    <3>1. s = n + 1 /\ log2[i] = x /\ log[j].key = x.key
      BY <1>1, <1>2, <2>2, <2>j
    <3>2. x.ts - log[w[j]].ts >= rules[x.key.rule].seconds
      BY <1>1, <2>0, <3>1 DEF n
    <3> QED BY <2>j, <3>1, <3>2
  <2> QED BY <1>4, <2>1, <2>2
<1> QED BY <1>1, <1>5, <1>6, <1>7, <1>8 DEF Windows, w2, n

(* Other keys keep their windows and their entries. *)
LEMMA OtherKeys ==
  ASSUME NEW rules, NEW log, NEW log2, NEW x, Appends(log, log2, x),
         NEW w \in [1 .. Len(log) -> 1 .. Len(log)], NEW s \in 1 .. Len(log) + 1,
         Opens(log, w, x.key, s), NEW k, k # x.key, NEW e,
         Current(rules, log, w, k, e)
  PROVE  Current(rules, log2, Longer(w, Len(log), s), k, e)
<1> DEFINE n == Len(log)
           w2 == Longer(w, n, s)
<1>1. /\ n \in Nat /\ DOMAIN log = 1 .. n /\ DOMAIN log2 = 1 .. n + 1 /\ Len(log2) = n + 1
      /\ \A i \in 1 .. n : log2[i] = log[i]
      /\ log2[n + 1] = x
  BY DEF Appends
<1>2. Prolongs(w, n, s, w2)
  BY <1>1, LongerIs
<1>3. PICK m \in DOMAIN log :
        /\ log[m].key = k /\ w[m] = m /\ e.since = log[m].ts
        /\ \A i \in DOMAIN log : log[i].key = k /\ i > m => w[i] = m
        /\ Tally(rules[k.rule], log, Block(w, m), e.count)
  BY DEF Current
<1>4. rules[k.rule].type = "rate" => Reached(rules, log2, k, e.until)
  BY OldOnes DEF Current
<1>5. s # m
  BY <1>1, <1>3 DEF Opens
<1>6. Block(w2, m) = Block(w, m)
  BY <1>2, <1>5 DEF Prolongs
<1>7. Block(w, m) \in SUBSET DOMAIN log
  BY <1>1 DEF Block
<1>8. /\ Alarms(log2, Block(w, m)) = Alarms(log, Block(w, m))
      /\ Unspent(log2, Block(w, m), n + 2) = Unspent(log, Block(w, m), n + 1)
  BY <1>7, OldOnes
<1>9. n + 2 = Len(log2) + 1
  BY <1>1
<1>10. Tally(rules[k.rule], log2, Block(w2, m), e.count)
  BY <1>3, <1>6, <1>8, <1>9 DEF Tally
<1>11. m \in DOMAIN log2 /\ log2[m] = log[m] /\ w2[m] = m
  BY <1>1, <1>2, <1>3 DEF Prolongs
<1>12. \A i \in DOMAIN log2 : log2[i].key = k /\ i > m => w2[i] = m
  <2> SUFFICES ASSUME NEW i \in 1 .. n + 1, log2[i].key = k, i > m
               PROVE  w2[i] = m
    BY <1>1
  <2>1. i \in 1 .. n
    BY <1>1
  <2> QED BY <1>1, <1>2, <1>3, <2>1 DEF Prolongs
<1> QED BY <1>3, <1>4, <1>10, <1>11, <1>12 DEF Current, n

LEMMA KeptGrows ==
  ASSUME NEW rules, NEW log, NEW log2, NEW x, Appends(log, log2, x),
         NEW w \in [1 .. Len(log) -> 1 .. Len(log)], NEW s \in 1 .. Len(log) + 1,
         NEW es, NEW es2, NEW moment,
         Kept(rules, log, w, es, moment), Opens(log, w, x.key, s),
         s = Len(log) + 1 /\ Spaced(rules[x.key.rule]) =>
           \A j \in DOMAIN log : log[j].key = x.key =>
             x.ts - log[w[j]].ts >= rules[x.key.rule].seconds,
         Law(rules[x.key.rule], log2, Longer(w, Len(log), s), Len(log) + 1),
         \A k \in DOMAIN es2 : k # x.key => k \in DOMAIN es /\ es2[k] = es[k],
         \A k \in DOMAIN es : k # x.key => k \in DOMAIN es2,
         x.key \in DOMAIN es2 =>
           Current(rules, log2, Longer(w, Len(log), s), x.key, es2[x.key]),
         x.key \notin DOMAIN es2 => ~Spaced(rules[x.key.rule])
  PROVE  Kept(rules, log2, Longer(w, Len(log), s), es2, moment)
<1> DEFINE n == Len(log)
           w2 == Longer(w, n, s)
<1>1. /\ n \in Nat /\ DOMAIN log = 1 .. n /\ DOMAIN log2 = 1 .. n + 1 /\ Len(log2) = n + 1
      /\ \A i \in 1 .. n : log2[i] = log[i]
      /\ log2[n + 1] = x
  BY DEF Appends
<1>2. Prolongs(w, n, s, w2)
  BY <1>1, LongerIs
<1>3. Windows(log2, w2) /\ Apart(rules, log2, w2)
  BY WindowsGrow DEF Kept
<1>4. Laws(rules, log2, w2)
  <2> SUFFICES ASSUME NEW i \in 1 .. n + 1
               PROVE  Law(rules[log2[i].key.rule], log2, w2, i)
    BY <1>1 DEF Laws
  <2>1. CASE i \in 1 .. n
    BY <1>1, <2>1, OldOnes DEF Kept, Laws
  <2>2. CASE i = n + 1
    BY <1>1, <2>2
  <2> QED BY <1>1, <2>1, <2>2
<1>5. \A k \in DOMAIN es2 : Current(rules, log2, w2, k, es2[k])
  BY OtherKeys DEF Kept
<1>6. ASSUME NEW i \in DOMAIN log2, log2[i].key \notin DOMAIN es2
      PROVE  Gone(rules, log2, w2, log2[i].key, moment)
  <2>1. CASE log2[i].key = x.key
    BY <1>6, <2>1 DEF Gone
  <2>2. CASE log2[i].key # x.key
    <3>1. i \in 1 .. n /\ log2[i] = log[i]
      BY <1>1, <1>6, <2>2
    <3> DEFINE k == log[i].key
    <3>2. k \notin DOMAIN es /\ k # x.key
      BY <1>6, <2>2, <3>1
    <3>3. Gone(rules, log, w, k, moment)
      BY <1>1, <3>1, <3>2 DEF Kept
    <3> HIDE DEF k
    <3>4. \A j \in 1 .. n + 1 : log2[j].key = k =>
            /\ j \in 1 .. n /\ log[j].key = k
            /\ w2[j] = w[j] /\ log2[w2[j]] = log[w[j]]
      <4> SUFFICES ASSUME NEW j \in 1 .. n + 1, log2[j].key = k
                   PROVE  /\ j \in 1 .. n /\ log[j].key = k
                          /\ w2[j] = w[j] /\ log2[w2[j]] = log[w[j]]
        OBVIOUS
      <4>1. j \in 1 .. n
        BY <1>1, <3>2
      <4> QED BY <1>1, <1>2, <4>1 DEF Prolongs
    <3>5. Gone(rules, log2, w2, k, moment)
      BY <1>1, <3>3, <3>4 DEF Gone
    <3> QED BY <3>1, <3>5 DEF k
  <2> QED BY <2>1, <2>2
<1> QED BY <1>3, <1>4, <1>5, <1>6 DEF Kept

(* ThresholdTimeoutRemove: the entries left out are those of windows that  *)
(* are over.                                                               *)
LEMMA KeptExpires ==
  ASSUME NEW rules, NEW log, NEW w, NEW es, NEW es2, NEW moment \in Nat, NEW ts \in Nat, ts <= moment,
         Kept(rules, log, w, es, moment),
         DOMAIN log = 1 .. Len(log), Len(log) \in Nat,
         \A i \in DOMAIN log : log[i].ts \in Nat /\ rules[log[i].key.rule].seconds \in Nat,
         DOMAIN es2 \subseteq DOMAIN es, \A k \in DOMAIN es2 : es2[k] = es[k],
         \A k \in DOMAIN es : k \notin DOMAIN es2 => ts - es[k].since > rules[k.rule].seconds
  PROVE  Kept(rules, log, w, es2, moment)
<1>1. \A k \in DOMAIN es2 : Current(rules, log, w, k, es2[k])
  BY DEF Kept
<1>2. ASSUME NEW i \in DOMAIN log, log[i].key \notin DOMAIN es2
      PROVE  Gone(rules, log, w, log[i].key, moment)
  <2> DEFINE k == log[i].key
  <2>1. CASE k \notin DOMAIN es
    BY <1>2, <2>1 DEF Kept
  <2>2. CASE k \in DOMAIN es
    <3>0. rules[k.rule].seconds \in Nat
      OBVIOUS
    <3>1. PICK m \in DOMAIN log :
            /\ log[m].key = k /\ w[m] = m /\ es[k].since = log[m].ts
            /\ \A j \in DOMAIN log : log[j].key = k /\ j > m => w[j] = m
      BY <2>2 DEF Kept, Current
    <3>2. ts - log[m].ts > rules[k.rule].seconds
      BY <1>2, <2>2, <3>1
    <3> HIDE DEF k
    <3> SUFFICES ASSUME Spaced(rules[k.rule]), NEW j \in DOMAIN log, log[j].key = k
                 PROVE  log[w[j]].ts + rules[k.rule].seconds + Late <= moment
      BY DEF Gone, k
    <3>3. Late = 1 /\ w \in [DOMAIN log -> DOMAIN log]
      BY DEF Spaced, Kept, Windows
    <3>4. w[j] \in DOMAIN log /\ log[w[j]].ts \in Nat /\ log[m].ts \in Nat
      BY <3>3
    <3>5. CASE j >= m
      <4>1. w[j] = m
        BY <3>1, <3>5
      <4> QED BY <3>0, <3>2, <3>3, <3>4, <4>1
    <3>6. CASE ~(j >= m)
      <4>1. j < m /\ log[m].key = log[j].key
        BY <3>1, <3>6
      <4>2. log[m].ts - log[w[j]].ts >= rules[k.rule].seconds
        BY <3>1, <4>1 DEF Kept, Apart
      <4>3. \A a, b, d \in Nat : b - a >= d /\ ts - b > d => a + d + 1 <= moment
        OBVIOUS
      <4> QED BY <3>0, <3>2, <3>3, <3>4, <4>2, <4>3
    <3> QED BY <3>5, <3>6
  <2> QED BY <2>1, <2>2
<1> QED BY <1>1, <1>2 DEF Kept

(***************************************************************************)
(* What PacketAlertThreshold decides                                       *)
(***************************************************************************)

Within(rule, e, ts) == e # None /\ InWindow(rule, e, ts)
AtOnce(rule, e) == e = None /\ rule.count = 1
Enough(rule, e, ts) == Within(rule, e, ts) /\ e.count + 1 >= rule.count
Acting(e, ts, timeout) == e # None /\ ts - e.until <= timeout
NewCount(rule, e, ts) == IF Within(rule, e, ts) THEN e.count + 1 ELSE 1
NewSince(rule, e, ts) == IF Within(rule, e, ts) THEN e.since ELSE ts

LEMMA CountedIs ==
  ASSUME NEW rule, NEW e, e = None \/ e \in EntryType, NEW ts
  PROVE  Counted(rule, e, ts) = [since |-> NewSince(rule, e, ts), count |-> NewCount(rule, e, ts),
                                 until |-> e.until]
<1>1. e = [since |-> e.since, count |-> e.count, until |-> e.until]
  BY DEF EntryType, None
<1>2. CASE Within(rule, e, ts)
  <2>1. Counted(rule, e, ts) = [e EXCEPT !.count = e.count + 1]
    BY <1>2 DEF Counted, Within
  <2> QED BY <1>1, <1>2, <2>1 DEF NewCount, NewSince
<1>3. CASE ~Within(rule, e, ts)
  <2>1. Counted(rule, e, ts) = [e EXCEPT !.since = ts, !.count = 1]
    BY <1>3 DEF Counted, Within
  <2> QED BY <1>1, <1>3, <2>1 DEF NewCount, NewSince
<1> QED BY <1>2, <1>3

\* The decision about a match, and what it leaves of the entry.
Left(rule, e, ts) ==
  [since |-> NewSince(rule, e, ts),
   count |-> IF rule.type = "threshold" /\ Enough(rule, e, ts) THEN 0 ELSE NewCount(rule, e, ts),
   until |-> IF rule.type = "rate" /\ Enough(rule, e, ts) THEN ts ELSE e.until]
Decision(rule, e, ts, timeout, d) ==
  /\ rule.type = "limit" =>
       d.alert = (~Within(rule, e, ts) \/ NewCount(rule, e, ts) <= rule.count)
  /\ rule.type = "both" =>
       d.alert = ((Within(rule, e, ts) /\ NewCount(rule, e, ts) = rule.count) \/ AtOnce(rule, e))
  /\ rule.type \in {"detection", "threshold"} =>
       d.alert = (Enough(rule, e, ts) \/ AtOnce(rule, e))
  /\ rule.type = "rate" => d.acted = (Enough(rule, e, ts) \/ Acting(e, ts, timeout))
  /\ d.alert \in BOOLEAN /\ d.timeout \in {0, timeout}
  /\ d.entry = IF rule.type = "threshold" /\ AtOnce(rule, e) THEN None ELSE Left(rule, e, ts)

LEMMA Decisions ==
  ASSUME NEW rule, NEW e, e = None \/ e \in EntryType, NEW ts \in Nat, NEW timeout,
         rule.count \in Nat, rule.type \in Limiting
  PROVE  Decision(rule, e, ts, timeout, Decide(rule, e, ts, timeout))
<1> DEFINE c == Counted(rule, e, ts)
           count == NewCount(rule, e, ts)
           within == e # None /\ InWindow(rule, e, ts)
           enough == within /\ c.count >= rule.count
           atOnce == e = None /\ rule.count = 1
           acting == e # None /\ ts - e.until <= timeout
           plain == [alert |-> enough \/ atOnce, acted |-> FALSE, entry |-> c, timeout |-> timeout]
           d == Decide(rule, e, ts, timeout)
<1>1. c = [since |-> NewSince(rule, e, ts), count |-> count, until |-> e.until]
  BY CountedIs
<1>2. c.count = count /\ (within <=> Within(rule, e, ts)) /\ (atOnce <=> AtOnce(rule, e))
      /\ (acting <=> Acting(e, ts, timeout))
  BY <1>1 DEF Within, AtOnce, Acting
<1>3. enough <=> Enough(rule, e, ts)
  BY <1>2 DEF Enough, NewCount
<1>4. /\ rule.type = "limit" => d = [plain EXCEPT !.alert = ~within \/ c.count <= rule.count]
      /\ rule.type = "threshold" =>
           d = [plain EXCEPT !.entry = CASE atOnce -> None
                                         [] enough -> [c EXCEPT !.count = 0]
                                         [] OTHER -> c]
      /\ rule.type = "both" => d = [plain EXCEPT !.alert = (within /\ c.count = rule.count) \/ atOnce]
      /\ rule.type = "detection" => d = plain
      /\ rule.type = "rate" =>
           d = [alert |-> enough \/ atOnce \/ acting, acted |-> enough \/ acting,
                entry |-> IF enough THEN [c EXCEPT !.until = ts] ELSE c,
                timeout |-> IF e = None \/ acting THEN timeout ELSE 0]
  BY DEF Decide
<1> HIDE DEF c, count, d, enough, within, atOnce, acting
<1>5. rule.type = "limit" =>
        d = [alert |-> ~within \/ c.count <= rule.count, acted |-> FALSE, entry |-> c,
             timeout |-> timeout]
  BY <1>4
<1>6. rule.type = "both" =>
        d = [alert |-> (within /\ c.count = rule.count) \/ atOnce, acted |-> FALSE, entry |-> c,
             timeout |-> timeout]
  BY <1>4
<1>7. rule.type = "threshold" =>
        d = [alert |-> enough \/ atOnce, acted |-> FALSE,
             entry |-> IF atOnce THEN None ELSE IF enough THEN [c EXCEPT !.count = 0] ELSE c,
             timeout |-> timeout]
  <2>1. (CASE atOnce -> None [] enough -> [c EXCEPT !.count = 0] [] OTHER -> c) =
          IF atOnce THEN None ELSE IF enough THEN [c EXCEPT !.count = 0] ELSE c
    BY DEF atOnce, enough, within
  <2> QED BY <1>4, <2>1
<1>8. rule.type = "limit" => d.entry = c /\ d.alert = (~within \/ c.count <= rule.count)
                             /\ d.timeout = timeout
  BY <1>5
<1>9. rule.type = "both" => d.entry = c /\ d.alert = ((within /\ c.count = rule.count) \/ atOnce)
                            /\ d.timeout = timeout
  BY <1>6
<1>10. rule.type = "detection" => d.entry = c /\ d.alert = (enough \/ atOnce) /\ d.timeout = timeout
  BY <1>4
<1>11. rule.type = "threshold" =>
         /\ d.alert = (enough \/ atOnce) /\ d.timeout = timeout
         /\ d.entry = IF atOnce THEN None ELSE IF enough THEN [c EXCEPT !.count = 0] ELSE c
  BY <1>7
<1>12. rule.type = "rate" =>
         /\ d.alert = (enough \/ atOnce \/ acting) /\ d.acted = (enough \/ acting)
         /\ d.entry = IF enough THEN [c EXCEPT !.until = ts] ELSE c
         /\ d.timeout \in {0, timeout}
  BY <1>4
<1> HIDE DEF c, count, d, enough, within, atOnce, acting, plain
<1>13. /\ rule.type = "limit" => d.alert = (~Within(rule, e, ts) \/ count <= rule.count)
       /\ rule.type = "both" => d.alert = ((Within(rule, e, ts) /\ count = rule.count) \/ AtOnce(rule, e))
       /\ rule.type \in {"detection", "threshold"} =>
            d.alert = (Enough(rule, e, ts) \/ AtOnce(rule, e))
       /\ rule.type = "rate" => d.acted = (Enough(rule, e, ts) \/ Acting(e, ts, timeout))
  BY <1>2, <1>3, <1>8, <1>9, <1>10, <1>11, <1>12
<1>14. /\ rule.type \in {"limit", "both", "detection"} => d.entry = c
       /\ rule.type = "threshold" =>
            d.entry = IF AtOnce(rule, e) THEN None
                      ELSE IF Enough(rule, e, ts) THEN [c EXCEPT !.count = 0] ELSE c
       /\ rule.type = "rate" =>
            d.entry = IF Enough(rule, e, ts) THEN [c EXCEPT !.until = ts] ELSE c
  BY <1>2, <1>3, <1>8, <1>9, <1>10, <1>11, <1>12
<1>15. d.alert \in BOOLEAN /\ d.timeout \in {0, timeout}
  BY <1>8, <1>9, <1>10, <1>11, <1>12 DEF Limiting
<1>16. d.entry = IF rule.type = "threshold" /\ AtOnce(rule, e) THEN None ELSE Left(rule, e, ts)
  <2>1. /\ [c EXCEPT !.count = 0] = [since |-> NewSince(rule, e, ts), count |-> 0, until |-> e.until]
        /\ [c EXCEPT !.until = ts] = [since |-> NewSince(rule, e, ts), count |-> count, until |-> ts]
    BY <1>1
  <2>2. rule.type \in {"limit", "both", "detection", "threshold", "rate"}
    BY DEF Limiting
  <2> QED BY <1>1, <1>14, <2>1, <2>2 DEF Left, count
<1> QED BY <1>13, <1>15, <1>16 DEF Decision, count, d

(***************************************************************************)
(* A decision about key k                                                  *)
(***************************************************************************)

RuleOK(rule) ==
  /\ rule.type \in Limiting
  /\ rule.count \in Nat /\ rule.seconds \in Nat /\ rule.timeout \in Nat /\ rule.timeout < Start
LogOK(rules, log, moment) ==
  /\ DOMAIN log = 1 .. Len(log) /\ Len(log) \in Nat
  /\ \A i \in DOMAIN log :
       /\ log[i].ts \in Nat /\ Start <= log[i].ts /\ log[i].ts <= moment
       /\ log[i].alert \in BOOLEAN /\ RuleOK(rules[log[i].key.rule])
  /\ \A i, j \in DOMAIN log : j < i => log[j].ts <= log[i].ts + Late

EntryOf(es, k) == IF k \in DOMAIN es THEN es[k] ELSE None
\* What is known of the window that begins at s, for a match at ts.
Window(rules, log, w, k, e, ts, s) ==
  /\ s \in 1 .. Len(log) + 1 /\ Opens(log, w, k, s)
  /\ IF Within(rules[k.rule], e, ts)
     THEN /\ s <= Len(log) /\ log[s].ts = e.since
          /\ Tally(rules[k.rule], log, Block(w, s), e.count)
     ELSE /\ s = Len(log) + 1
          /\ Spaced(rules[k.rule]) =>
               \A j \in DOMAIN log : log[j].key = k => ts - log[w[j]].ts >= rules[k.rule].seconds
  /\ e # None /\ rules[k.rule].type = "threshold" => rules[k.rule].count # 1

LEMMA WindowOf ==
  ASSUME ThresholdAssumption,
         NEW rules, NEW log, NEW w, NEW es, NEW moment \in Nat, NEW k, NEW ts \in Nat,
         moment <= ts + Late, LogOK(rules, log, moment), Kept(rules, log, w, es, moment),
         RuleOK(rules[k.rule])
  PROVE  \E s : Window(rules, log, w, k, EntryOf(es, k), ts, s)
<1> DEFINE e == EntryOf(es, k)
           rule == rules[k.rule]
           n == Len(log)
<1>1. n \in Nat /\ DOMAIN log = 1 .. n /\ w \in [1 .. n -> 1 .. n]
  BY DEF LogOK, Kept, Windows
<1>2. \A j \in 1 .. n : w[j] \in 1 .. n /\ log[j].ts \in Nat /\ log[w[j]].ts \in Nat
  BY <1>1 DEF LogOK
<1>3. rule.seconds \in Nat
  BY DEF RuleOK
<1>4. CASE k \in DOMAIN es
  <2>1. e = es[k]
    BY <1>4 DEF EntryOf
  <2>2. PICK m \in DOMAIN log :
          /\ log[m].key = k /\ w[m] = m /\ e.since = log[m].ts
          /\ \A i \in DOMAIN log : log[i].key = k /\ i > m => w[i] = m
          /\ Tally(rule, log, Block(w, m), e.count)
    BY <1>4, <2>1 DEF Kept, Current
  <2>3. rule.type = "threshold" => rule.count # 1
    BY <2>2 DEF Tally
  <2>4. CASE Within(rule, e, ts)
    <3>1. m \in 1 .. n + 1 /\ m <= n /\ Opens(log, w, k, m)
      BY <1>1, <2>2 DEF Opens
    <3> QED BY <2>2, <2>3, <2>4, <3>1 DEF Window
  <2>5. CASE ~Within(rule, e, ts)
    <3>s. Start \in Nat /\ Start > 0
      BY DEF ThresholdAssumption, RuleOK
    <3>0. e # None
      BY <1>2, <2>2, <3>s DEF None, LogOK
    <3>1. ts - log[m].ts >= rule.seconds
      <4>1. ~(ts - log[m].ts < rule.seconds)
        BY <2>2, <2>5, <3>0 DEF Within, InWindow
      <4> HIDE DEF rule
      <4>2. log[m].ts \in Nat
        BY <1>1, <1>2, <2>2
      <4> QED BY <1>3, <4>1, <4>2
    <3>2. ASSUME Spaced(rule), NEW j \in 1 .. n, log[j].key = k
          PROVE  ts - log[w[j]].ts >= rule.seconds
      <4>1. CASE j >= m
        <5>1. w[j] = m
          BY <1>1, <2>2, <3>2, <4>1
        <5> QED BY <3>1, <5>1
      <4>2. CASE j < m
        <5>1. log[m].ts - log[w[j]].ts >= rule.seconds
          BY <1>1, <2>2, <3>2, <4>2 DEF Kept, Apart
        <5>2. \A a, b, d \in Nat : b - a >= d /\ ts - b >= d => ts - a >= d
          OBVIOUS
        <5> QED BY <1>1, <1>2, <1>3, <3>1, <3>2, <5>1, <5>2
      <4> QED BY <1>1, <4>1, <4>2
    <3> QED BY <1>1, <2>3, <2>5, <3>2 DEF Window, Opens
  <2> QED BY <2>4, <2>5
<1>5. CASE k \notin DOMAIN es
  <2>1. e = None
    BY <1>5 DEF EntryOf
  <2>2. ASSUME Spaced(rule), NEW j \in 1 .. n, log[j].key = k
        PROVE  ts - log[w[j]].ts >= rule.seconds
    <3>1. log[w[j]].ts + rule.seconds + Late <= moment /\ Late = 1
      BY <1>1, <1>5, <2>2 DEF Kept, Gone, Spaced
    <3>2. \A a, d \in Nat : a + d + 1 <= moment /\ moment <= ts + 1 => ts - a >= d
      OBVIOUS
    <3> QED BY <1>2, <1>3, <2>2, <3>1, <3>2
  <2> QED BY <1>1, <2>1, <2>2 DEF Window, Opens, Within
<1> QED BY <1>4, <1>5

\* The decision x, d is as its rule says, and so is the entry it leaves.
Fits(rules, log, log2, w, s, x, d) ==
  LET rule == rules[x.key.rule]
      w2 == Longer(w, Len(log), s)
  IN  /\ Law(rule, log2, w2, Len(log) + 1)
      /\ EarnedAt(rules, log2, Len(log) + 1)
      /\ d.entry # None => d.entry \in EntryType /\ Current(rules, log2, w2, x.key, d.entry)
      /\ d.entry = None => ~Spaced(rule)

LEMMA NewDecision ==
  ASSUME ThresholdAssumption,
         NEW rules, NEW log, NEW log2, NEW x, NEW w, NEW moment \in Nat, NEW e, NEW timeout \in Nat, NEW s,
         e = None \/ e \in EntryType,
         Appends(log, log2, x), LogOK(rules, log, moment), Windows(log, w),
         x.ts \in Nat, Start <= x.ts, x.ts <= moment, moment <= x.ts + Late,
         RuleOK(rules[x.key.rule]), timeout <= rules[x.key.rule].timeout,
         Window(rules, log, w, x.key, e, x.ts, s),
         e # None /\ rules[x.key.rule].type = "rate" => Reached(rules, log, x.key, e.until),
         x.alert = Decide(rules[x.key.rule], e, x.ts, timeout).alert,
         x.acted = Decide(rules[x.key.rule], e, x.ts, timeout).acted
  PROVE  Fits(rules, log, log2, w, s, x, Decide(rules[x.key.rule], e, x.ts, timeout))
<1> DEFINE rule == rules[x.key.rule]
           n == Len(log)
           N == n + 1
           w2 == Longer(w, n, s)
           d == Decide(rule, e, x.ts, timeout)
           B == Block(w, s)
           U == B \cup {N}
           V == Unspent(log, B, N)
           count == NewCount(rule, e, x.ts)
           within == Within(rule, e, x.ts)
           recent == Lately(rules, log2, N)
           same == {j \in DOMAIN log2 : log2[j].key = log2[N].key}
<1>1. /\ n \in Nat /\ DOMAIN log = 1 .. n /\ DOMAIN log2 = 1 .. N /\ Len(log2) = N
      /\ \A i \in 1 .. n : log2[i] = log[i]
      /\ log2[N] = x /\ w \in [1 .. n -> 1 .. n] /\ s \in 1 .. N
  BY DEF Appends, Windows, Window
<1>2. Prolongs(w, n, s, w2)
  BY <1>1, LongerIs
<1>3. /\ w2[N] = s /\ Upto(w2, N) = U /\ Block(w2, s) = U /\ B \subseteq 1 .. n
      /\ (s = N => B = {}) /\ \A i \in 1 .. n : w2[i] = w[i]
  BY <1>2 DEF Prolongs
<1>4. /\ rule.count \in Nat /\ rule.seconds \in Nat /\ rule.timeout \in Nat /\ rule.type \in Limiting
      /\ rule.timeout < Start /\ Start \in Nat /\ Late \in Nat \ {0}
  BY DEF RuleOK, ThresholdAssumption
<1>5. IF within THEN /\ s <= n /\ log[s].ts = e.since /\ Tally(rule, log, B, e.count)
                ELSE s = N
  BY DEF Window
<1>6. s = N \/ (/\ s \in 1 .. n /\ log[s].key = x.key /\ w[s] = s
                /\ \A i \in 1 .. n : log[i].key = x.key /\ i > s => w[i] = s)
  BY <1>1 DEF Window, Opens
<1>7. \A i \in 1 .. n : /\ log[i].ts \in Nat /\ log[i].alert \in BOOLEAN
                        /\ w[i] \in 1 .. n /\ w[i] <= i /\ log[w[i]].key = log[i].key
                        /\ \A j \in 1 .. n : j < i => log[j].ts <= log[i].ts + Late
  BY <1>1 DEF LogOK, Windows
<1>d. Decision(rule, e, x.ts, timeout, d) /\ x.alert = d.alert /\ x.acted = d.acted
  BY <1>4, Decisions
<1>8. /\ rule.type = "limit" => x.alert = (~within \/ count <= rule.count)
      /\ rule.type = "both" => x.alert = ((within /\ count = rule.count) \/ AtOnce(rule, e))
      /\ rule.type \in {"detection", "threshold"} =>
           x.alert = (Enough(rule, e, x.ts) \/ AtOnce(rule, e))
      /\ rule.type = "rate" => x.acted = (Enough(rule, e, x.ts) \/ Acting(e, x.ts, timeout))
      /\ x.alert \in BOOLEAN
      /\ d.entry = IF rule.type = "threshold" /\ AtOnce(rule, e) THEN None ELSE Left(rule, e, x.ts)
  <2> HIDE DEF rule, d
  <2> QED BY <1>d DEF Decision
<1> HIDE DEF rule, n, w2, d, B, V, count, within, recent
<1>9. N \in 1 .. N /\ N \notin 1 .. n /\ 1 .. N = (1 .. n) \cup {N} /\ N \in Nat /\ N - 1 = n
  <2>1. n \in Nat
    BY <1>1
  <2>2. N \in Nat /\ N - 1 = n /\ N \in 1 .. N /\ N \notin 1 .. n
    BY <2>1
  <2>3. \A i : i \in 1 .. N <=> i \in (1 .. n) \cup {N}
    BY <2>1
  <2> QED BY <2>2, <2>3
<1>10. ASSUME NEW j \in B
       PROVE  /\ j \in 1 .. n /\ w[j] = s /\ s <= j /\ s \in 1 .. n /\ log2[j] = log[j]
              /\ log[j].key = x.key /\ within
  <2>1. j \in 1 .. n /\ w[j] = s /\ s # N
    BY <1>1, <1>3, <1>10 DEF Block, B
  <2>2. within
    BY <1>5, <2>1
  <2> QED BY <1>1, <1>6, <1>7, <2>1, <2>2
<1>11. U \subseteq recent
  <2>1. ASSUME NEW j \in B PROVE j \in recent
    <3>1. log[s].ts = e.since /\ x.ts - e.since < rule.seconds
      BY <1>5, <1>10, <2>1 DEF within, Within, InWindow
    <3>2. log[s].ts <= log[j].ts + Late
      <4>1. /\ j \in 1 .. n /\ s \in 1 .. n /\ s <= j /\ log[j].ts \in Nat /\ log[s].ts \in Nat
            /\ s < j => log[s].ts <= log[j].ts + Late
        BY <1>7, <1>10, <2>1
      <4>2. Late \in Nat /\ (s = j \/ s < j)
        BY <1>4, <4>1
      <4> QED BY <4>1, <4>2
    <3>3. \A a, b \in Nat : x.ts - a < rule.seconds /\ a <= b + Late => b > x.ts - rule.seconds - Late
      BY <1>4
    <3>4. log[j].ts > x.ts - rule.seconds - Late
      BY <1>7, <1>10, <2>1, <3>1, <3>2, <3>3
    <3>5. j <= N
      BY <1>1, <1>10, <2>1
    <3> QED BY <1>1, <1>9, <1>10, <2>1, <3>4, <3>5 DEF recent, Lately, rule
  <2>2. N \in recent
    <3>1. x.ts > x.ts - rule.seconds - Late
      BY <1>4
    <3> QED BY <1>1, <1>9, <3>1 DEF recent, Lately, rule
  <2> QED BY <2>1, <2>2
<1>12. recent \subseteq 1 .. N
  BY <1>1 DEF recent, Lately
<1>13. \A R \in SUBSET recent : Cardinality(R) <= Cardinality(recent) /\ Cardinality(R) \in Nat
  BY <1>9, <1>12, Indices
<1>14. Cardinality(B) \in Nat /\ Cardinality(U) = Cardinality(B) + 1
  BY <1>1, <1>3, <1>9, Indices
<1>15. s = N => Cardinality(B) = 0
  BY <1>3, FS_EmptySet
<1>16. rule.type # "threshold" => count = Cardinality(U)
  BY <1>5, <1>14, <1>15 DEF Tally, count, NewCount, within
<1>17. /\ V \subseteq B /\ Unspent(log2, U, N) = V \cup {N}
       /\ Unspent(log2, U, N + 1) = IF x.alert THEN {} ELSE V \cup {N}
  <2>1. \A j \in B : log2[j] = log[j] /\ j < N /\ j < N + 1 /\ j <= N
    BY <1>1, <1>10
  <2>2. N < N + 1 /\ ~(N < N) /\ N <= N /\ \A l \in B : ~(N <= l)
    BY <1>1, <1>10
  <2>0. V \subseteq B
    BY DEF Unspent, V
  <2>3. V = {j \in B : \A l \in B : j <= l => ~log[l].alert}
    BY <2>1 DEF Unspent, V
  <2>4. Unspent(log2, U, N) = V \cup {N}
    BY <2>1, <2>2, <2>3 DEF Unspent
  <2>5. CASE x.alert
    <3>1. N <= N /\ N < N + 1 /\ log2[N].alert
      BY <1>1, <2>2, <2>5
    <3>2. \A j \in U : j <= N
      BY <2>1, <3>1
    <3> QED BY <2>0, <2>4, <3>1, <3>2, <2>5 DEF Unspent
  <2>6. CASE ~x.alert
    <3>1. ~log2[N].alert /\ \A j \in U : j = N \/ j \in B
      BY <1>1, <2>6
    <3>2. \A j \in U : (\A l \in U : j <= l /\ l < N + 1 => ~log2[l].alert) <=> j \in V \cup {N}
      <4> HIDE DEF N
      <4> QED BY <2>1, <2>2, <2>3, <3>1
    <3>3. Unspent(log2, U, N + 1) = {j \in U : j \in V \cup {N}}
      BY <3>2 DEF Unspent
    <3>4. {j \in U : j \in V \cup {N}} = V \cup {N}
      BY <2>0
    <3> QED BY <2>0, <2>4, <2>6, <3>3, <3>4
  <2> QED BY <2>0, <2>4, <2>5, <2>6
<1>18. Cardinality(V) \in Nat /\ Cardinality(V \cup {N}) = Cardinality(V) + 1
  <2>1. V \subseteq 1 .. n /\ N \notin V
    BY <1>3, <1>9, <1>17
  <2> QED BY <1>1, <2>1, Indices
<1>19. rule.type = "threshold" => count = Cardinality(V \cup {N})
  <2>1. s = N => V = {} /\ Cardinality(V) = 0
    BY <1>3, <1>17, FS_EmptySet
  <2>2. within /\ rule.type = "threshold" => e.count = Cardinality(V)
    BY <1>5 DEF Tally, V, n
  <2> QED BY <1>5, <1>18, <2>1, <2>2 DEF count, NewCount, within
<1>20. within => count = e.count + 1
  BY DEF count, NewCount, within
<1>21. ~within => count = 1
  BY DEF count, NewCount, within
<1>22. e # None /\ rule.type = "threshold" => rule.count # 1
  BY DEF Window, rule
<1>23. Law(rule, log2, w2, N)
  <2>1. rule.type = "limit" /\ x.alert => w2[N] = N \/ Cardinality(U) <= rule.count
    BY <1>3, <1>5, <1>8, <1>16
  <2>2. rule.type = "both" /\ x.alert => Cardinality(U) = rule.count
    BY <1>8, <1>16, <1>21 DEF AtOnce, within, Within
  <2>3. rule.type = "detection" /\ ~x.alert /\ rule.count > 1 => Cardinality(U) < rule.count
    BY <1>4, <1>8, <1>14, <1>16, <1>20, <1>21 DEF Enough, within
  <2>4. rule.type = "threshold" /\ ~x.alert /\ rule.count > 0 => Cardinality(V \cup {N}) < rule.count
    BY <1>4, <1>8, <1>18, <1>19, <1>20, <1>21, <1>22 DEF Enough, within, AtOnce
  <2> QED BY <1>1, <1>3, <1>17, <2>1, <2>2, <2>3, <2>4 DEF Law
<1>24. N \in same /\ N \in recent /\ B \subseteq recent \ {N} /\ N \in U
  BY <1>1, <1>3, <1>9, <1>11
<1>25. rule.type = "limit" =>
         x.alert \/ Cardinality(Alarms(log2, recent \ {N})) >= rule.count
  <2> SUFFICES ASSUME rule.type = "limit", ~x.alert
               PROVE  Cardinality(Alarms(log2, recent \ {N})) >= rule.count
    OBVIOUS
  <2>1. within /\ e.count \in Nat /\ e.count >= rule.count
    <3>1. within /\ ~(count <= rule.count) /\ e \in EntryType
      BY <1>8 DEF within, Within
    <3> QED BY <1>4, <1>20, <3>1 DEF EntryType
  <2>2. Cardinality(Alarms(log, B)) >= rule.count \/ Cardinality(Alarms(log, B)) >= e.count
    BY <1>5, <2>1 DEF Tally
  <2>3. Alarms(log, B) \subseteq Alarms(log2, recent \ {N})
    BY <1>10, <1>24 DEF Alarms
  <2>4. Alarms(log2, recent \ {N}) \subseteq 1 .. N
    BY <1>12 DEF Alarms
  <2>5. /\ Cardinality(Alarms(log2, recent \ {N})) \in Nat /\ Cardinality(Alarms(log, B)) \in Nat
        /\ Cardinality(Alarms(log, B)) <= Cardinality(Alarms(log2, recent \ {N}))
    BY <1>9, <2>3, <2>4, Indices
  <2> QED BY <1>4, <2>1, <2>2, <2>5
<1>26. x.alert /\ rule.type \in {"threshold", "both", "detection"} => count >= rule.count
  <2> SUFFICES ASSUME x.alert, rule.type \in {"threshold", "both", "detection"}
               PROVE  count >= rule.count
    OBVIOUS
  <2>1. Enough(rule, e, x.ts) \/ AtOnce(rule, e) \/ count = rule.count
    BY <1>8
  <2>2. Enough(rule, e, x.ts) => count >= rule.count
    BY <1>20 DEF Enough, within
  <2>3. AtOnce(rule, e) => count = 1 /\ rule.count = 1
    BY <1>21 DEF AtOnce, within, Within
  <2> QED BY <1>4, <2>1, <2>2, <2>3
<1>27. rule.type = "threshold" /\ x.alert =>
         Cardinality({j \in recent : Alarms(log2, (j .. N - 1) \cap same) = {}}) >= rule.count
  <2> SUFFICES ASSUME rule.type = "threshold", x.alert
               PROVE  Cardinality({j \in recent : Alarms(log2, (j .. N - 1) \cap same) = {}})
                        >= rule.count
    OBVIOUS
  <2> DEFINE Z == {j \in recent : Alarms(log2, (j .. N - 1) \cap same) = {}}
  <2>1. N \in Z
    <3>1. N .. N - 1 = {}
      BY <1>1
    <3> QED BY <1>24, <3>1 DEF Alarms
  <2>2. ASSUME NEW j \in V PROVE j \in Z
    <3>1. j \in B /\ j \in recent /\ j \in 1 .. n /\ s \in 1 .. n /\ s <= j
      BY <1>10, <1>17, <1>24, <2>2
    <3>2. ASSUME NEW l \in (j .. N - 1) \cap same PROVE ~log2[l].alert
      <4>0. l \in j .. N - 1 /\ log2[l].key = x.key
        BY <1>1, <3>2
      <4>1. l \in 1 .. n /\ j <= l /\ s <= l /\ l < N
        <5> HIDE DEF same
        <5> QED BY <1>1, <3>1, <4>0
      <4>2. log2[l] = log[l] /\ log[l].key = x.key
        BY <1>1, <4>0, <4>1
      <4>3. s # N
        BY <1>9, <3>1
      <4>4. w[l] = s
        <5>1. CASE l = s
          BY <1>6, <4>3, <5>1
        <5>2. CASE l > s
          BY <1>6, <4>1, <4>2, <4>3, <5>2
        <5> QED BY <3>1, <4>1, <5>1, <5>2
      <4>5. l \in B
        BY <1>1, <4>1, <4>4 DEF Block, B
      <4> QED BY <2>2, <4>1, <4>2, <4>5 DEF V, Unspent
    <3> QED BY <3>1, <3>2 DEF Alarms
  <2>3. V \cup {N} \subseteq Z /\ Z \subseteq recent
    BY <2>1, <2>2
  <2> HIDE DEF Z
  <2>4. Z \subseteq 1 .. N
    BY <1>12, <2>3
  <2>5. Cardinality(Z) \in Nat /\ Cardinality(V \cup {N}) \in Nat
        /\ Cardinality(V \cup {N}) <= Cardinality(Z)
    BY <1>9, <2>3, <2>4, Indices
  <2>6. Cardinality(Z) >= rule.count
    BY <1>4, <1>19, <1>26, <2>5
  <2> QED BY <2>6 DEF Z
<1>28. rule.type # "threshold" => /\ count <= Cardinality(recent) /\ count \in Nat
                                  /\ Cardinality(recent) \in Nat
  BY <1>11, <1>13, <1>14, <1>16
<1>29. rule.type \in {"both", "detection"} /\ x.alert => Cardinality(recent) >= rule.count
  BY <1>4, <1>26, <1>28
<1>30. Enough(rule, e, x.ts) /\ rule.type = "rate" => Cardinality(recent) >= rule.count
  BY <1>4, <1>20, <1>28 DEF Enough, within
<1>31. rule.type = "rate" /\ x.acted =>
         \E m \in same : /\ m <= N /\ log2[m].ts > x.ts - rule.timeout - 1
                         /\ Cardinality(Lately(rules, log2, m)) >= rule.count
  <2>1. CASE rule.type = "rate" /\ Enough(rule, e, x.ts)
    <3>1. x.ts > x.ts - rule.timeout - 1
      BY <1>4
    <3>2. N <= N
      BY <1>9
    <3> QED BY <3>2, <1>1, <1>24, <1>30, <2>1, <3>1 DEF recent
  <2>2. CASE rule.type = "rate" /\ Acting(e, x.ts, timeout)
    <3>1. e # None /\ e.until \in Nat /\ x.ts - e.until <= timeout
      BY <2>2 DEF Acting, EntryType
    <3>2. e.until # 0
      BY <1>4, <3>1 DEF rule
    <3>3. PICK m \in DOMAIN log : /\ log[m].key = x.key /\ log[m].ts = e.until
                                  /\ Cardinality(Lately(rules, log, m)) >= rule.count
      BY <2>2, <3>1, <3>2 DEF Reached, rule
    <3>4. Lately(rules, log2, m) = Lately(rules, log, m)
      BY <1>1, OldOnes DEF n
    <3>5. m \in same /\ m <= N /\ log2[m].ts = e.until
      <4>1. m \in 1 .. n /\ m \in 1 .. N /\ m <= N
        BY <1>1, <3>3
      <4> QED BY <1>1, <3>3, <4>1
    <3>6. e.until > x.ts - rule.timeout - 1
      BY <1>4, <3>1 DEF rule
    <3> QED BY <3>3, <3>4, <3>5, <3>6
  <2> QED BY <1>8, <2>1, <2>2
<1>32. EarnedAt(rules, log2, N)
  <2>1. rule.type \in {"limit", "threshold", "both", "detection", "rate"}
    BY <1>4 DEF Limiting
  <2> HIDE DEF N
  <2> QED BY <1>1, <1>25, <1>27, <1>29, <1>31, <2>1 DEF EarnedAt, recent, rule
<1> DEFINE left == Left(rule, e, x.ts)
<1>33. /\ left.since = NewSince(rule, e, x.ts)
       /\ left.count = IF rule.type = "threshold" /\ Enough(rule, e, x.ts) THEN 0 ELSE count
       /\ left.until = IF rule.type = "rate" /\ Enough(rule, e, x.ts) THEN x.ts ELSE e.until
  BY DEF Left, count
<1>34. left \in EntryType /\ left # None
  <2>1. NewSince(rule, e, x.ts) \in Nat \ {0}
    <3>1. CASE within
      BY <3>1 DEF NewSince, within, Within, EntryType
    <3>2. CASE ~within
      <4>1. NewSince(rule, e, x.ts) = x.ts
        BY <3>2 DEF NewSince, within
      <4> QED BY <1>4, <4>1
    <3> QED BY <3>1, <3>2
  <2>2. count \in Nat /\ e.until \in Nat
    <3>1. e.count \in Nat /\ e.until \in Nat
      BY DEF EntryType, None
    <3> QED BY <1>20, <1>21, <3>1
  <2>3. left \in EntryType
    BY <2>1, <2>2 DEF Left, EntryType, count
  <2>4. None.since = 0
    BY DEF None
  <2> QED BY <1>33, <2>1, <2>3, <2>4
<1>35. d.entry = None => ~Spaced(rule)
  BY <1>8, <1>34 DEF AtOnce, Spaced
<1> HIDE DEF left
<1>36. ~(rule.type = "threshold" /\ AtOnce(rule, e)) => Tally(rule, log2, U, left.count)
  <2> SUFFICES ASSUME ~(rule.type = "threshold" /\ AtOnce(rule, e))
               PROVE  Tally(rule, log2, U, left.count)
    OBVIOUS
  <2>1. CASE rule.type = "threshold"
    <3>1. rule.count # 1
      BY <1>22, <2>1 DEF AtOnce
    <3>2. Cardinality({}) = 0
      BY FS_EmptySet
    <3>3. left.count = Cardinality(Unspent(log2, U, N + 1))
      BY <1>8, <1>17, <1>19, <1>33, <2>1, <3>2
    <3> QED BY <1>1, <2>1, <3>1, <3>3 DEF Tally
  <2>2. CASE rule.type = "limit"
    <3> DEFINE a == Cardinality(Alarms(log, B))
               b == Cardinality(Alarms(log2, U))
    <3>1. left.count = count /\ count = Cardinality(U)
      BY <1>16, <1>33, <2>2
    <3>2. Alarms(log, B) \subseteq 1 .. n /\ N \notin Alarms(log, B)
      BY <1>3, <1>9 DEF Alarms
    <3>3. a \in Nat /\ Cardinality(Alarms(log, B) \cup {N}) = a + 1
      BY <1>1, <3>2, Indices
    <3>4. Alarms(log2, U) = IF x.alert THEN Alarms(log, B) \cup {N} ELSE Alarms(log, B)
      BY <1>1, <1>10 DEF Alarms
    <3>5. b = IF x.alert THEN a + 1 ELSE a
      BY <3>3, <3>4
    <3> HIDE DEF a, b
    <3>6. CASE within
      <4>1. a >= rule.count \/ a >= e.count
        BY <1>5, <2>2, <3>6 DEF Tally, a
      <4>2. e.count \in Nat /\ count = e.count + 1
        BY <1>20, <3>6 DEF EntryType, within, Within
      <4>3. x.alert = (count <= rule.count)
        BY <1>8, <2>2, <3>6
      <4>4. b >= rule.count \/ b >= count
        <5>1. CASE x.alert
          BY <1>4, <3>3, <3>5, <4>1, <4>2, <5>1
        <5>2. CASE ~x.alert
          <6>1. b = a
            BY <3>5, <5>2
          <6>2. ~(count <= rule.count)
            BY <4>3, <5>2
          <6>3. e.count >= rule.count
            BY <1>4, <4>2, <6>2
          <6> QED BY <1>4, <3>3, <4>1, <4>2, <6>1, <6>3
        <5> QED BY <5>1, <5>2
      <4> QED BY <2>2, <3>1, <4>4 DEF Tally, b
    <3>7. CASE ~within
      <4>1. x.alert /\ count = 1
        BY <1>8, <1>21, <2>2, <3>7
      <4>2. b >= count
        BY <3>3, <3>5, <4>1
      <4> QED BY <2>2, <3>1, <4>2 DEF Tally, b
    <3> QED BY <3>6, <3>7
  <2>3. CASE rule.type \notin {"threshold", "limit"}
    BY <1>16, <1>33, <2>3 DEF Tally
  <2> QED BY <2>1, <2>2, <2>3
<1>37. rule.type = "rate" => Reached(rules, log2, x.key, left.until)
  <2> SUFFICES ASSUME rule.type = "rate" PROVE Reached(rules, log2, x.key, left.until)
    OBVIOUS
  <2>1. CASE Enough(rule, e, x.ts)
    <3>1. N \in DOMAIN log2 /\ log2[N].key = x.key /\ log2[N].ts = left.until
      BY <1>1, <1>9, <1>33, <2>1
    <3>2. Cardinality(Lately(rules, log2, N)) >= rules[x.key.rule].count
      BY <1>30, <2>1 DEF recent, rule
    <3> HIDE DEF N
    <3> QED BY <3>1, <3>2 DEF Reached
  <2>2. CASE ~Enough(rule, e, x.ts)
    <3>1. left.until = e.until
      BY <1>33, <2>2
    <3>2. CASE e = None
      BY <3>1, <3>2 DEF None, Reached
    <3>3. CASE e # None
      <4>1. Reached(rules, log, x.key, e.until)
        BY <3>3 DEF rule
      <4> QED BY <1>1, <3>1, <4>1, OldOnes DEF n
    <3> QED BY <3>2, <3>3
  <2> QED BY <2>1, <2>2
<1>38. /\ s \in DOMAIN log2 /\ log2[s].key = x.key /\ w2[s] = s /\ left.since = log2[s].ts
       /\ \A i \in DOMAIN log2 : log2[i].key = x.key /\ i > s => w2[i] = s
  <2>1. CASE s = N
    <3>1. ~within
      BY <1>1, <1>5, <2>1
    <3>2. left.since = x.ts
      BY <1>33, <3>1 DEF NewSince, within
    <3>3. \A i \in 1 .. N : ~(i > N)
      BY <1>1
    <3> QED BY <1>1, <1>3, <2>1, <3>2, <3>3
  <2>2. CASE s # N
    <3>1. within
      BY <1>5, <2>2
    <3>2. left.since = log[s].ts
      BY <1>5, <1>33, <3>1 DEF NewSince, within
    <3>3. \A i \in 1 .. N : i \in 1 .. n \/ i = N
      BY <1>9
    <3>4. /\ s \in 1 .. n /\ log[s].key = x.key /\ w[s] = s
          /\ \A i \in 1 .. n : log[i].key = x.key /\ i > s => w[i] = s
      BY <1>6, <2>2
    <3>5. s \in 1 .. N /\ log2[s] = log[s] /\ w2[s] = s
      BY <1>1, <1>3, <3>4
    <3>6. \A i \in 1 .. N : log2[i].key = x.key /\ i > s => w2[i] = s
      <4> TAKE i \in 1 .. N
      <4>1. CASE i \in 1 .. n
        BY <1>1, <1>3, <3>4, <4>1
      <4>2. CASE i = N
        BY <1>3, <4>2
      <4> QED BY <3>3, <4>1, <4>2
    <3> QED BY <1>1, <3>2, <3>4, <3>5, <3>6
  <2> QED BY <2>1, <2>2
<1>39. ~(rule.type = "threshold" /\ AtOnce(rule, e)) => Current(rules, log2, w2, x.key, left)
  BY <1>3, <1>36, <1>37, <1>38 DEF Current, rule
<1>40. d.entry # None => d.entry \in EntryType /\ Current(rules, log2, w2, x.key, d.entry)
  BY <1>8, <1>34, <1>39 DEF left
<1> QED BY <1>23, <1>32, <1>35, <1>40 DEF Fits, rule, n, w2, d

LEMMA OldEarned ==
  ASSUME NEW rules, NEW log, NEW log2, NEW x, Appends(log, log2, x),
         NEW i \in DOMAIN log, EarnedAt(rules, log, i)
  PROVE  EarnedAt(rules, log2, i)
<1> DEFINE n == Len(log)
           rule == rules[log[i].key.rule]
           same(l) == {j \in DOMAIN l : l[j].key = l[i].key}
           recent == Lately(rules, log, i)
<1>1. /\ n \in Nat /\ DOMAIN log = 1 .. n /\ DOMAIN log2 = 1 .. n + 1
      /\ \A j \in 1 .. n : log2[j] = log[j]
  BY DEF Appends
<1> HIDE DEF n
<1>2. \A j \in DOMAIN log : Lately(rules, log2, j) = Lately(rules, log, j)
  <2> SUFFICES ASSUME NEW j \in 1 .. n
               PROVE  Lately(rules, log2, j) = Lately(rules, log, j)
    BY <1>1
  <2>1. \A l \in 1 .. n + 1 : l <= j => l \in 1 .. n
    BY <1>1
  <2>2. \A l \in 1 .. n : l \in 1 .. n + 1
    BY <1>1
  <2> QED BY <1>1, <2>1, <2>2 DEF Lately
<1>3. recent \subseteq 1 .. n /\ i \in 1 .. n
  BY <1>1 DEF Lately
<1>4. \A j \in 1 .. n : (j .. i - 1) \cap same(log2) = (j .. i - 1) \cap same(log)
  <2> TAKE j \in 1 .. n
  <2>1. \A l \in j .. i - 1 : l \in 1 .. n /\ l \in 1 .. n + 1
    BY <1>1, <1>3
  <2> QED BY <1>1, <1>3, <2>1
<1>5. \A b \in SUBSET (1 .. n) : Alarms(log2, b) = Alarms(log, b)
  BY <1>1 DEF Alarms
<1>6. \A j \in 1 .. n : (j .. i - 1) \cap same(log) \in SUBSET (1 .. n)
  BY <1>1
<1>7. {j \in recent : Alarms(log2, (j .. i - 1) \cap same(log2)) = {}} =
      {j \in recent : Alarms(log, (j .. i - 1) \cap same(log)) = {}}
  <2> HIDE DEF same, recent
  <2> QED BY <1>3, <1>4, <1>5, <1>6
<1>8. Alarms(log2, recent \ {i}) = Alarms(log, recent \ {i})
  BY <1>3, <1>5
<1>9. same(log) \subseteq same(log2) /\ \A m \in same(log) : m \in 1 .. n /\ log2[m] = log[m]
  BY <1>1
<1>10. log2[i] = log[i] /\ Lately(rules, log2, i) = recent
  BY <1>1, <1>2
<1>11. CASE rule.type = "limit"
  BY <1>8, <1>10, <1>11 DEF EarnedAt
<1>12. CASE rule.type = "threshold"
  BY <1>7, <1>10, <1>12 DEF EarnedAt
<1>13. CASE rule.type \in {"both", "detection"}
  BY <1>10, <1>13 DEF EarnedAt
<1>14. CASE rule.type \notin {"limit", "threshold", "both", "detection"}
  <2> HIDE DEF n
  <2>1. log[i].acted =>
          \E m \in same(log) : /\ m <= i /\ log[m].ts > log[i].ts - rule.timeout - 1
                               /\ Cardinality(Lately(rules, log, m)) >= rule.count
    BY <1>14 DEF EarnedAt
  <2>2. log2[i].acted =>
          \E m \in same(log2) : /\ m <= i /\ log2[m].ts > log2[i].ts - rule.timeout - 1
                                /\ Cardinality(Lately(rules, log2, m)) >= rule.count
    BY <1>1, <1>2, <1>9, <1>10, <2>1
  <2> QED BY <1>10, <1>14, <2>2 DEF EarnedAt
<1> QED BY <1>11, <1>12, <1>13, <1>14

LEMMA EarnedIs ==
  (\A i \in DOMAIN judged : EarnedAt(th.rules, judged, i)) => Earned
<1> SUFFICES ASSUME \A i \in DOMAIN judged : EarnedAt(th.rules, judged, i)
             PROVE  Earned
  OBVIOUS
<1>1. \A i : Recent(i) = Lately(th.rules, judged, i)
  BY DEF Recent, Ago, Same, RuleOf, Lately
<1>2. \A b : Alerts(b) = Alarms(judged, b)
  BY DEF Alerts, Alarms
<1> SUFFICES ASSUME NEW i \in DOMAIN judged
             PROVE  LET rule == RuleOf(i)
                    IN  CASE rule.type = "limit" ->
                               judged[i].alert \/ Cardinality(Alerts(Recent(i) \ {i})) >= rule.count
                          [] rule.type = "threshold" ->
                               judged[i].alert =>
                                 Cardinality({j \in Recent(i) : Alerts((j .. i - 1) \cap Same(i)) = {}})
                                   >= rule.count
                          [] rule.type \in {"both", "detection"} ->
                               judged[i].alert => Cardinality(Recent(i)) >= rule.count
                          [] OTHER ->
                               judged[i].acted =>
                                 \E m \in Ago(i, judged[i].ts - rule.timeout - 1) :
                                    Cardinality(Recent(m)) >= rule.count
  BY DEF Earned
<1> DEFINE rule == RuleOf(i)
<1>3. EarnedAt(th.rules, judged, i)
  OBVIOUS
<1>4. rule = th.rules[judged[i].key.rule]
  BY DEF RuleOf
<1>5. CASE rule.type = "limit"
  BY <1>1, <1>2, <1>3, <1>4, <1>5 DEF EarnedAt
<1>6. CASE rule.type = "threshold"
  BY <1>1, <1>2, <1>3, <1>4, <1>6 DEF EarnedAt, Same
<1>7. CASE rule.type \in {"both", "detection"}
  BY <1>1, <1>3, <1>4, <1>7 DEF EarnedAt
<1>8. CASE rule.type \notin {"limit", "threshold", "both", "detection"}
  <2>1. judged[i].acted =>
          \E m \in {j \in DOMAIN judged : judged[j].key = judged[i].key} :
             /\ m <= i /\ judged[m].ts > judged[i].ts - rule.timeout - 1
             /\ Cardinality(Lately(th.rules, judged, m)) >= rule.count
    BY <1>3, <1>4, <1>8 DEF EarnedAt
  <2> QED BY <1>1, <1>8, <2>1 DEF Ago, Same
<1> QED BY <1>5, <1>6, <1>7, <1>8

(***************************************************************************)
(* The steps                                                               *)
(***************************************************************************)

LEMMA RulesOK ==
  ASSUME ThresholdAssumption, Typed
  PROVE  \A r \in Rules : /\ {th.rules[r].count, th.rules[r].seconds, th.rules[r].timeout} \subseteq Nat
                          /\ th.rules[r].timeout < Start
                          /\ th.rules[r].type # "none" => RuleOK(th.rules[r])
<1>1. th \in ThConfs
  BY DEF Typed
<1>2. \A r \in DOMAIN th.rules :
        /\ th.rules[r].type \in {"none", "limit", "threshold", "both", "detection", "rate"}
        /\ {th.rules[r].count, th.rules[r].seconds, th.rules[r].timeout} \subseteq Nat
        /\ th.rules[r].timeout < Start
  BY <1>1 DEF ThresholdAssumption
<1> QED BY <1>2 DEF RuleOK, Limiting, Rules

LEMMA LogIsOK ==
  ASSUME ThresholdAssumption, Typed, Logged
  PROVE  LogOK(th.rules, judged, clock)
<1>1. \A i \in DOMAIN judged : RuleOK(th.rules[judged[i].key.rule])
  BY RulesOK DEF Logged, RuleOf, Limiting
<1>2. Len(judged) \in Nat /\ DOMAIN judged = 1 .. Len(judged)
  BY DEF Logged
<1> QED BY <1>1, <1>2 DEF Logged, LogOK

LEMMA Finalizes ==
  ASSUME Typed, NEW t \in Thread, work[t] # NoPacket, NEW alert, NEW act,
         Finalize(t, alert, act)
  PROVE  /\ Head(work[t].alerts) \in Rules
         /\ DOMAIN work' = Thread
         /\ \A o \in Thread : work'[o] # NoPacket => Work(work'[o], clock)
<1> DEFINE w == work[t]
           r == Head(w.alerts)
           action == w.action \cup act \cup (IF alert THEN {th.rules[r].action} ELSE {})
           rest == IF alert /\ th.rules[r].action = "pass" THEN <<>> ELSE Tail(w.alerts)
           w2 == IF rest = <<>> THEN NoPacket ELSE [w EXCEPT !.alerts = rest, !.action = action]
<1>1. \A o \in Thread : work[o] # NoPacket => Work(work[o], clock)
  BY DEF Typed
<1>2. Work(w, clock)
  BY <1>1
<1>3. r \in Rules /\ rest \in Seq(Rules)
  BY <1>2 DEF Work
<1>4. work' = [work EXCEPT ![t] = w2]
  BY DEF Finalize
<1> HIDE DEF rest, action
<1>5. w2 # NoPacket => Work(w2, clock)
  <2> SUFFICES ASSUME rest # <<>>
               PROVE  Work([w EXCEPT !.alerts = rest, !.action = action], clock)
    OBVIOUS
  <2> QED BY <1>2, <1>3 DEF Work
<1> HIDE DEF w2
<1> QED BY <1>1, <1>3, <1>4, <1>5 DEF Typed

LEMMA TablesKeep ==
  ASSUME NEW k, NEW e, NEW ts
  PROVE  LET es1 == Put(k, e)
             es2 == Expire(es1, ts)
         IN  /\ \A l \in DOMAIN es1 : l # k => l \in DOMAIN entries /\ es1[l] = entries[l]
             /\ \A l \in DOMAIN entries : l # k => l \in DOMAIN es1
             /\ k \in DOMAIN es1 => e # None /\ es1[k] = e
             /\ k \notin DOMAIN es1 => e = None
             /\ DOMAIN es2 \subseteq DOMAIN es1 /\ \A l \in DOMAIN es2 : es2[l] = es1[l]
             /\ \A l \in DOMAIN es1 :
                  l \notin DOMAIN es2 => ts - es1[l].since > th.rules[l.rule].seconds
             /\ es2 \in [DOMAIN es2 -> {es2[l] : l \in DOMAIN es2}]
<1> DEFINE es1 == Put(k, e)
           D == (DOMAIN entries \cup {k}) \ (IF e = None THEN {k} ELSE {})
<1>1. DOMAIN es1 = D /\ \A l \in D : es1[l] = IF l = k THEN e ELSE entries[l]
  BY DEF Put
<1>2. DOMAIN Expire(es1, ts) = {l \in DOMAIN es1 : ~Expired(l, es1[l], ts)}
      /\ \A l \in DOMAIN Expire(es1, ts) : Expire(es1, ts)[l] = es1[l]
  BY DEF Expire
<1>3. Expire(es1, ts) \in [DOMAIN Expire(es1, ts) -> {Expire(es1, ts)[l] : l \in DOMAIN Expire(es1, ts)}]
  <2> HIDE DEF es1
  <2> QED BY DEF Expire
<1> HIDE DEF es1
<1> QED BY <1>1, <1>2, <1>3 DEF Expired, es1

LEMMA HandlePacket ==
  ASSUME ThresholdAssumption, ThresholdInv, NEW t \in Thread, PacketAlertHandle(t)
  PROVE  ThresholdInv'
<1> DEFINE p == work[t]
           r == Head(p.alerts)
           rule == th.rules[r]
           k == Key(r, p.pkt)
           e == Lookup(k)
           d == Decide(rule, e, p.ts, timeouts[r])
           x == [key |-> k, ts |-> p.ts, alert |-> d.alert, acted |-> d.acted]
           log2 == Append(judged, x)
<1>1. Typed /\ Logged /\ work[t] # NoPacket
  BY DEF ThresholdInv, PacketAlertHandle
<1>2. Work(p, clock) /\ r \in Rules
  <2>1. Work(p, clock)
    BY <1>1 DEF Typed
  <2> QED BY <2>1 DEF Work
<1>3. th' = th /\ clock' = clock /\ Rules' = Rules
  BY DEF PacketAlertHandle, Rules
<1>4. CASE rule.type = "none"
  <2>1. Finalize(t, TRUE, {}) /\ UNCHANGED <<timeouts, entries, judged>>
    BY <1>4 DEF PacketAlertHandle
  <2>2. DOMAIN work' = Thread /\ \A o \in Thread : work'[o] # NoPacket => Work(work'[o], clock)
    BY <1>1, <2>1, Finalizes
  <2>3. Typed'
    BY <1>1, <1>3, <2>1, <2>2 DEF Typed, Work
  <2>4. Logged'
    BY <1>1, <1>3, <2>1 DEF Logged, RuleOf
  <2> QED BY <1>3, <2>1, <2>3, <2>4 DEF ThresholdInv
<1>5. CASE rule.type # "none"
  <2>1. /\ entries' = Expire(Put(k, d.entry), p.ts)
        /\ timeouts' = [timeouts EXCEPT ![r] = d.timeout]
        /\ Finalize(t, d.alert, IF d.acted THEN {rule.new} ELSE {})
        /\ judged' = log2
    BY <1>5 DEF PacketAlertHandle
  <2>2. DOMAIN work' = Thread /\ \A o \in Thread : work'[o] # NoPacket => Work(work'[o], clock)
    BY <1>1, <2>1, Finalizes
  <2>3. /\ k.rule = r /\ x.key = k /\ x.ts = p.ts /\ x.alert = d.alert /\ x.acted = d.acted
        /\ th.rules[x.key.rule] = rule
    BY DEF Key
  <2>4. RuleOK(rule) /\ {rule.count, rule.seconds, rule.timeout} \subseteq Nat
    BY <1>1, <1>2, <1>5, RulesOK
  <2>5. LogOK(th.rules, judged, clock)
    BY <1>1, LogIsOK
  <2>6. /\ clock \in Nat /\ p.ts \in Nat /\ Start <= p.ts /\ p.ts <= clock /\ clock <= p.ts + Late
        /\ timeouts[r] \in Nat /\ timeouts[r] <= rule.timeout
    BY <1>1, <1>2 DEF Typed, Work
  <2>7. e = EntryOf(entries, k) /\ (e = None \/ e \in EntryType)
    BY <1>1 DEF Lookup, EntryOf, Typed
  <2>8. Appends(judged, log2, x) /\ log2 \in Seq({log2[i] : i \in DOMAIN log2})
    <3> HIDE DEF x
    <3>1. judged \in Seq({judged[i] : i \in DOMAIN judged})
      BY <1>1 DEF Logged
    <3>2. \A y : /\ Appends(judged, Append(judged, y), y)
                /\ Append(judged, y) \in Seq({Append(judged, y)[i] : i \in DOMAIN Append(judged, y)})
      BY <3>1, AppendAppends
    <3> QED BY <3>2
  <2>9. PICK w \in [DOMAIN judged -> DOMAIN judged] : Kept(th.rules, judged, w, entries, clock)
    BY DEF ThresholdInv
  <2> HIDE DEF x, d, e, k, log2, rule, r, p
  <2>10. PICK s : Window(th.rules, judged, w, k, e, p.ts, s)
    BY <2>3, <2>4, <2>5, <2>6, <2>7, <2>9, WindowOf
  <2> DEFINE n == Len(judged)
             w2 == Longer(w, n, s)
  <2>11. n \in Nat /\ DOMAIN judged = 1 .. n /\ s \in 1 .. n + 1
    BY <2>5, <2>10 DEF LogOK, Window
  <2>12. e # None /\ rule.type = "rate" => Reached(th.rules, judged, k, e.until)
    <3> SUFFICES ASSUME e # None, rule.type = "rate" PROVE Reached(th.rules, judged, k, e.until)
      OBVIOUS
    <3>1. k \in DOMAIN entries /\ e = entries[k]
      BY <2>7 DEF EntryOf
    <3>2. Current(th.rules, judged, w, k, e)
      BY <2>9, <3>1 DEF Kept
    <3> QED BY <2>3, <3>2 DEF Current
  <2>13. /\ Law(rule, log2, w2, n + 1)
         /\ EarnedAt(th.rules, log2, n + 1)
         /\ d.entry # None => d.entry \in EntryType /\ Current(th.rules, log2, w2, k, d.entry)
         /\ d.entry = None => ~Spaced(rule)
    <3>1. /\ d = Decide(th.rules[x.key.rule], e, x.ts, timeouts[r])
          /\ x.alert = d.alert /\ x.acted = d.acted
      BY <2>3 DEF d
    <3>2. /\ x.ts \in Nat /\ Start <= x.ts /\ x.ts <= clock /\ clock <= x.ts + Late
          /\ RuleOK(th.rules[x.key.rule]) /\ timeouts[r] <= th.rules[x.key.rule].timeout
          /\ Window(th.rules, judged, w, x.key, e, x.ts, s)
          /\ e # None /\ th.rules[x.key.rule].type = "rate" =>
               Reached(th.rules, judged, x.key, e.until)
      BY <2>3, <2>4, <2>6, <2>10, <2>12
    <3>3. Windows(judged, w)
      BY <2>9 DEF Kept
    <3>4. Fits(th.rules, judged, log2, w, s, x, d)
      BY <2>5, <2>6, <2>7, <2>8, <3>1, <3>2, <3>3, NewDecision
    <3> QED BY <2>3, <3>4 DEF Fits
  <2> DEFINE es1 == Put(k, d.entry)
             es2 == Expire(es1, p.ts)
  <2>14. /\ \A l \in DOMAIN es1 : l # k => l \in DOMAIN entries /\ es1[l] = entries[l]
         /\ \A l \in DOMAIN entries : l # k => l \in DOMAIN es1
         /\ k \in DOMAIN es1 => d.entry # None /\ es1[k] = d.entry
         /\ k \notin DOMAIN es1 => d.entry = None
         /\ DOMAIN es2 \subseteq DOMAIN es1 /\ \A l \in DOMAIN es2 : es2[l] = es1[l]
         /\ \A l \in DOMAIN es1 :
              l \notin DOMAIN es2 => p.ts - es1[l].since > th.rules[l.rule].seconds
         /\ es2 \in [DOMAIN es2 -> {es2[l] : l \in DOMAIN es2}]
    BY TablesKeep
  <2> HIDE DEF es1, es2, n, w2
  <2>15. Kept(th.rules, log2, w2, es1, clock)
    <3>1. /\ Appends(judged, log2, x) /\ w \in [1 .. Len(judged) -> 1 .. Len(judged)]
          /\ s \in 1 .. Len(judged) + 1 /\ Opens(judged, w, x.key, s)
          /\ s = Len(judged) + 1 /\ Spaced(th.rules[x.key.rule]) =>
               \A j \in DOMAIN judged : judged[j].key = x.key =>
                 x.ts - judged[w[j]].ts >= th.rules[x.key.rule].seconds
      <4>1. w \in [1 .. Len(judged) -> 1 .. Len(judged)] /\ s \in 1 .. Len(judged) + 1
        BY <2>11 DEF n
      <4>2. Window(th.rules, judged, w, x.key, e, x.ts, s)
        BY <2>3, <2>10
      <4> QED BY <2>8, <4>1, <4>2 DEF Window
    <3>2. /\ Law(th.rules[x.key.rule], log2, Longer(w, Len(judged), s), Len(judged) + 1)
          /\ x.key \in DOMAIN es1 =>
               Current(th.rules, log2, Longer(w, Len(judged), s), x.key, es1[x.key])
          /\ x.key \notin DOMAIN es1 => ~Spaced(th.rules[x.key.rule])
          /\ \A l \in DOMAIN es1 : l # x.key => l \in DOMAIN entries /\ es1[l] = entries[l]
          /\ \A l \in DOMAIN entries : l # x.key => l \in DOMAIN es1
      BY <2>3, <2>13, <2>14 DEF n, w2
    <3> QED BY <2>9, <3>1, <3>2, KeptGrows DEF n, w2
  <2>16. /\ Len(log2) = n + 1 /\ DOMAIN log2 = 1 .. n + 1
         /\ \A i \in 1 .. n : log2[i] = judged[i]
         /\ log2[n + 1] = x /\ \A i \in 1 .. n + 1 : i \in 1 .. n \/ i = n + 1
    BY <2>8, <2>11 DEF Appends, n
  <2>17. LogOK(th.rules, log2, clock)
    <3>1. \A i \in 1 .. n : judged[i].ts \in Nat /\ judged[i].ts <= clock
      BY <2>5, <2>11 DEF LogOK
    <3>2. /\ x.ts \in Nat /\ Start <= x.ts /\ x.ts <= clock /\ x.alert \in BOOLEAN
          /\ RuleOK(th.rules[x.key.rule])
      <4>1. Decision(rule, e, p.ts, timeouts[r], d)
        BY <2>4, <2>6, <2>7, Decisions DEF RuleOK, d
      <4> QED BY <2>3, <2>4, <2>6, <4>1 DEF Decision
    <3>3. \A i, j \in 1 .. n + 1 : j < i => log2[j].ts <= log2[i].ts + Late
      <4> SUFFICES ASSUME NEW i \in 1 .. n + 1, NEW j \in 1 .. n + 1, j < i
                   PROVE  log2[j].ts <= log2[i].ts + Late
        OBVIOUS
      <4>1. j \in 1 .. n
        BY <2>11
      <4>2. CASE i \in 1 .. n
        BY <2>5, <2>11, <2>16, <4>1, <4>2 DEF LogOK
      <4>3. CASE i = n + 1
        <5>1. log2[j].ts \in Nat /\ log2[j].ts <= clock /\ log2[i].ts = p.ts
          BY <2>3, <2>16, <3>1, <4>1, <4>3
        <5>2. Late \in Nat
          BY DEF ThresholdAssumption
        <5> QED BY <2>6, <5>1, <5>2
      <4> QED BY <2>16, <4>2, <4>3
    <3>4. \A i \in 1 .. n : /\ log2[i].ts \in Nat /\ Start <= log2[i].ts /\ log2[i].ts <= clock
                            /\ log2[i].alert \in BOOLEAN /\ RuleOK(th.rules[log2[i].key.rule])
      BY <2>5, <2>11, <2>16 DEF LogOK
    <3>5. \A i \in 1 .. n + 1 : /\ log2[i].ts \in Nat /\ Start <= log2[i].ts /\ log2[i].ts <= clock
                                /\ log2[i].alert \in BOOLEAN /\ RuleOK(th.rules[log2[i].key.rule])
      BY <2>16, <3>2, <3>4
    <3>6. DOMAIN log2 = 1 .. n + 1 /\ DOMAIN log2 = 1 .. Len(log2) /\ Len(log2) \in Nat
      BY <2>11, <2>16
    <3> QED BY <3>3, <3>5, <3>6 DEF LogOK
  <2>18. Kept(th.rules, log2, w2, es2, clock)
    <3>1. \A i \in DOMAIN log2 : log2[i].ts \in Nat /\ th.rules[log2[i].key.rule].seconds \in Nat
      BY <2>17 DEF LogOK, RuleOK
    <3>2. DOMAIN log2 = 1 .. Len(log2) /\ Len(log2) \in Nat
      BY <2>17 DEF LogOK
    <3> QED BY <2>6, <2>14, <2>15, <3>1, <3>2, KeptExpires
  <2>19. /\ entries' = es2 /\ timeouts' = [timeouts EXCEPT ![r] = d.timeout] /\ judged' = log2
    BY <2>1 DEF es1, es2
  <2>20. Typed'
    <3>1. \A l \in DOMAIN es2 : es2[l] \in EntryType /\ l.rule \in Rules
      <4>1. \A l \in DOMAIN entries : entries[l] \in EntryType /\ l.rule \in Rules
        BY <1>1 DEF Typed
      <4> QED BY <1>2, <2>3, <2>13, <2>14, <4>1
    <3>2. es2 \in [DOMAIN es2 -> EntryType]
      BY <2>14, <3>1
    <3>3. d.timeout \in {0, timeouts[r]}
      BY <2>4, <2>6, <2>7, Decisions DEF Decision, RuleOK, d
    <3>4. /\ timeouts' \in [Rules -> Nat]
          /\ \A q \in Rules : timeouts'[q] <= th.rules[q].timeout
      <4>1. timeouts \in [Rules -> Nat] /\ \A q \in Rules : timeouts[q] <= th.rules[q].timeout
        BY <1>1 DEF Typed
      <4>2. rule = th.rules[r] /\ rule.timeout \in Nat
        BY <2>4 DEF rule
      <4> QED BY <1>2, <2>6, <2>19, <3>3, <4>1, <4>2
    <3> QED BY <1>1, <1>3, <2>2, <2>19, <3>1, <3>2, <3>4 DEF Typed, Work
  <2>21. Logged'
    <3>1. \A i \in DOMAIN log2 : /\ log2[i].key.rule \in Rules
                                 /\ th.rules[log2[i].key.rule].type \in Limiting
      BY <1>1, <1>2, <2>3, <2>4, <2>11, <2>16 DEF Logged, RuleOf, RuleOK
    <3> QED BY <1>3, <2>8, <2>17, <2>19, <3>1 DEF Logged, LogOK, RuleOf
  <2>22. \A i \in DOMAIN log2 : EarnedAt(th.rules, log2, i)
    <3>1. \A i \in DOMAIN judged : EarnedAt(th.rules, log2, i)
      BY <2>8, OldEarned DEF ThresholdInv
    <3> QED BY <2>11, <2>13, <2>16, <3>1
  <2>23. w2 \in [DOMAIN log2 -> DOMAIN log2]
    BY <2>18 DEF Kept, Windows
  <2> QED BY <1>3, <2>18, <2>19, <2>20, <2>21, <2>22, <2>23 DEF ThresholdInv
<1> QED BY <1>4, <1>5

LEMMA ThresholdStart ==
  ASSUME ThresholdAssumption, ThresholdInit
  PROVE  ThresholdInv
<1>1. judged = <<>> /\ DOMAIN judged = {} /\ entries = <<>> /\ DOMAIN entries = {}
  BY DEF ThresholdInit
<1>2. \A r \in Rules : th.rules[r].timeout \in Nat
  BY DEF ThresholdAssumption, ThresholdInit, Rules
<1>3. Typed
  <2>1. entries \in [DOMAIN entries -> EntryType]
    BY <1>1
  <2>2. \A t \in Thread : work[t] = NoPacket
    BY DEF ThresholdInit
  <2> QED BY <1>1, <1>2, <2>1, <2>2 DEF ThresholdInit, ThresholdAssumption, Typed, Rules
<1>4. Logged
  BY <1>1 DEF Logged
<1>5. Kept(th.rules, judged, <<>>, entries, clock)
  BY <1>1 DEF Kept, Windows, Apart, Laws
<1>6. <<>> \in [DOMAIN judged -> DOMAIN judged]
  BY <1>1
<1> QED BY <1>1, <1>3, <1>4, <1>5, <1>6 DEF ThresholdInv

LEMMA ReceivePacket ==
  ASSUME ThresholdAssumption, ThresholdInv, NEW t \in Thread, Receive(t)
  PROVE  ThresholdInv'
<1>1. UNCHANGED <<th, timeouts, entries, clock, judged>> /\ Rules' = Rules
  BY DEF Receive, Rules
<1>2. PICK p \in th.pkts, m \in th.matches :
        work' = [work EXCEPT ![t] = [pkt |-> p, ts |-> clock, alerts |-> m, action |-> {}]]
  BY DEF Receive
<1>3. clock \in Nat /\ Start <= clock /\ m # <<>> /\ m \in Seq(Rules) /\ Late \in Nat
  BY DEF ThresholdInv, Typed, ThresholdAssumption, Rules
<1>4. Work([pkt |-> p, ts |-> clock, alerts |-> m, action |-> {}], clock)
  BY <1>3 DEF Work
<1>5. Typed'
  <2>1. /\ DOMAIN work = Thread /\ DOMAIN work' = Thread
        /\ \A o \in Thread : work'[o] # NoPacket => Work(work'[o], clock)
    BY <1>2, <1>4 DEF ThresholdInv, Typed
  <2> QED BY <1>1, <2>1 DEF ThresholdInv, Typed, Work
<1>6. Logged'
  BY <1>1 DEF ThresholdInv, Logged, RuleOf
<1> QED BY <1>1, <1>5, <1>6 DEF ThresholdInv

LEMMA TimePasses ==
  ASSUME ThresholdAssumption, ThresholdInv, Tick
  PROVE  ThresholdInv'
<1>1. UNCHANGED <<th, timeouts, entries, work, judged>> /\ clock' = clock + 1 /\ Rules' = Rules
  BY DEF Tick, Rules
<1>2. clock \in Nat /\ clock' \in Nat /\ Start \in Nat /\ Late \in Nat /\ Start <= clock
      /\ Typed /\ Logged
  BY <1>1 DEF ThresholdInv, Typed, ThresholdAssumption
<1>3. \A t \in Thread : work[t] # NoPacket => Work(work[t], clock')
  <2> SUFFICES ASSUME NEW t \in Thread, work[t] # NoPacket PROVE Work(work[t], clock')
    OBVIOUS
  <2>1. Work(work[t], clock) /\ clock - work[t].ts < Late
    BY <1>2 DEF Typed, Tick
  <2> QED BY <1>1, <1>2, <2>1 DEF Work
<1>4. Typed'
  BY <1>1, <1>2, <1>3 DEF Typed, Work
<1>5. Logged'
  <2>1. \A i \in DOMAIN judged : judged[i].ts \in Nat /\ judged[i].ts <= clock'
    BY <1>1, <1>2 DEF Logged
  <2> QED BY <1>1, <1>2, <2>1 DEF Logged, RuleOf
<1>6. PICK w \in [DOMAIN judged -> DOMAIN judged] : Kept(th.rules, judged, w, entries, clock)
  BY DEF ThresholdInv
<1>7. Kept(th.rules, judged, w, entries, clock')
  <2>1. \A i \in DOMAIN judged : /\ judged[i].ts \in Nat /\ w[i] \in DOMAIN judged
                                 /\ th.rules[judged[i].key.rule].seconds \in Nat
    BY <1>2, RulesOK DEF Logged
  <2>2. \A i \in DOMAIN judged :
          Gone(th.rules, judged, w, judged[i].key, clock) =>
            Gone(th.rules, judged, w, judged[i].key, clock')
    <3> SUFFICES ASSUME NEW i \in DOMAIN judged, Gone(th.rules, judged, w, judged[i].key, clock),
                        Spaced(th.rules[judged[i].key.rule]),
                        NEW j \in DOMAIN judged, judged[j].key = judged[i].key
                 PROVE  judged[w[j]].ts + th.rules[judged[i].key.rule].seconds + Late <= clock'
      BY DEF Gone
    <3>1. judged[w[j]].ts + th.rules[judged[i].key.rule].seconds + Late <= clock
      BY DEF Gone
    <3> QED BY <1>1, <1>2, <2>1, <3>1
  <2> QED BY <1>6, <2>2 DEF Kept
<1> QED BY <1>1, <1>4, <1>5, <1>7 DEF ThresholdInv

LEMMA ThresholdInvKept ==
  ASSUME ThresholdAssumption
  PROVE  ThresholdSpec => []ThresholdInv
<1>1. ThresholdInit => ThresholdInv
  BY ThresholdStart
<1>2. ThresholdInv /\ [ThresholdNext]_thresholdVars => ThresholdInv'
  <2> SUFFICES ASSUME ThresholdInv, [ThresholdNext]_thresholdVars PROVE ThresholdInv'
    OBVIOUS
  <2>1. CASE Tick
    BY <2>1, TimePasses
  <2>2. ASSUME NEW t \in Thread, Receive(t) PROVE ThresholdInv'
    BY <2>2, ReceivePacket
  <2>3. ASSUME NEW t \in Thread, PacketAlertHandle(t) PROVE ThresholdInv'
    BY <2>3, HandlePacket
  <2>4. CASE UNCHANGED thresholdVars
    BY <2>4 DEF thresholdVars, ThresholdInv, Typed, Work, Logged, RuleOf, Rules
  <2> QED BY <2>1, <2>2, <2>3, <2>4 DEF ThresholdNext
<1> QED BY <1>1, <1>2, PTL DEF ThresholdSpec

(* Earned of AlertsAreEarned: whatever the threads' order and however late *)
(* their packets, PacketAlertThreshold suppresses and alerts on account of *)
(* the matches and the alerts that the rule names.                         *)
THEOREM AlertsFollowMatches ==
  ASSUME ThresholdAssumption
  PROVE  ThresholdSpec => []Earned
<1>1. ThresholdInv => Earned
  BY EarnedIs DEF ThresholdInv
<1> QED BY <1>1, ThresholdInvKept, PTL

(***************************************************************************)
(* In any seconds                                                          *)
(***************************************************************************)

LEMMA Together ==
  ASSUME NEW n \in Nat, NEW P, NEW Q, P \subseteq 1 .. n, Q \subseteq 1 .. n
  PROVE  Cardinality(P \cup Q) <= Cardinality(P) + Cardinality(Q)
<1>1. IsFiniteSet(P) /\ IsFiniteSet(Q)
  BY Indices
<1>2. Cardinality(P \cup Q) = Cardinality(P) + Cardinality(Q) - Cardinality(P \cap Q)
  BY <1>1, FS_Union
<1>3. P \cap Q \subseteq 1 .. n
  OBVIOUS
<1>4. Cardinality(P) \in Nat /\ Cardinality(Q) \in Nat /\ Cardinality(P \cap Q) \in Nat
  BY <1>3, Indices
<1> QED BY <1>2, <1>4

\* What decisions of one window come to.
Bounded(rule, log, w, n, Q) ==
  /\ Cardinality(Q) \in Nat /\ Cardinality(Alarms(log, Q)) \in Nat
  /\ rule.type = "limit" /\ rule.count > 0 => Cardinality(Alarms(log, Q)) <= rule.count
  /\ rule.type = "both" => Cardinality(Alarms(log, Q)) <= 1
  /\ rule.type = "detection" /\ rule.count > 1 /\ Alarms(log, Q) = {} =>
       Cardinality(Q) < rule.count
  /\ rule.type = "threshold" /\ rule.count > 0
       /\ (\A x, y \in Q, l \in 1 .. n : w[l] = w[y] /\ x <= l /\ l <= y => ~log[l].alert) =>
            Cardinality(Q) < rule.count

LEMMA OneWindow ==
  ASSUME NEW rule, NEW log, NEW w, NEW n \in Nat, DOMAIN log = 1 .. n, Windows(log, w),
         NEW Q, Q \subseteq 1 .. n, \A x, y \in Q : w[x] = w[y],
         \A x \in Q : Law(rule, log, w, x), rule.count \in Nat,
         \A x \in Q : log[x].alert \in BOOLEAN
  PROVE  Bounded(rule, log, w, n, Q)
<1> DEFINE A == Alarms(log, Q)
<1>1. A \subseteq Q /\ A \subseteq 1 .. n
  BY DEF Alarms
<1>2. Cardinality(Q) \in Nat /\ Cardinality(A) \in Nat
  BY <1>1, Indices
<1>3. \A x \in 1 .. n : Upto(w, x) \subseteq 1 .. n /\ x \in Upto(w, x)
  BY DEF Windows, Upto
<1>4. \A x \in 1 .. n : /\ Cardinality(Upto(w, x)) \in Nat
                        /\ \A R \in SUBSET Upto(w, x) : /\ Cardinality(R) <= Cardinality(Upto(w, x))
                                                       /\ Cardinality(R) \in Nat
  BY <1>3, Indices
<1>5. /\ \A R : R = {} => Cardinality(R) = 0
      /\ rule.count > 0 => 0 < rule.count /\ 0 <= rule.count
      /\ rule.count > 1 => rule.count > 0
  <2>1. \A R : R = {} => Cardinality(R) = 0
    BY FS_EmptySet
  <2>2. \A c \in Nat : (c > 0 => 0 < c /\ 0 <= c) /\ (c > 1 => c > 0)
    OBVIOUS
  <2> QED BY <2>1, <2>2
<1>6. \A R \in SUBSET Q : R # {} =>
        \E x \in R : R \subseteq Upto(w, x) /\ \A y \in R : y <= x
  <2> SUFFICES ASSUME NEW R \in SUBSET Q, R # {}
               PROVE  \E x \in R : R \subseteq Upto(w, x) /\ \A y \in R : y <= x
    OBVIOUS
  <2>1. PICK x \in R : \A y \in R : y <= x
    BY LastIndex
  <2>2. DOMAIN w = 1 .. n
    BY DEF Windows
  <2> QED BY <2>1, <2>2 DEF Upto
<1> HIDE DEF A
<1>7. rule.type = "limit" /\ rule.count > 0 => Cardinality(A) <= rule.count
  <2> SUFFICES ASSUME rule.type = "limit", rule.count > 0, A # {}
               PROVE  Cardinality(A) <= rule.count
    BY <1>5
  <2>1. PICK x \in A : A \subseteq Upto(w, x) /\ \A y \in A : y <= x
    BY <1>1, <1>6
  <2>2. x \in 1 .. n /\ log[x].alert /\ Law(rule, log, w, x)
    BY <1>1, <2>1 DEF Alarms, A
  <2>3. CASE w[x] = x
    <3>1. A \subseteq {x}
      <4>1. \A y \in A : y \in 1 .. n /\ w[y] = x /\ y <= x /\ w[y] <= y
        BY <1>1, <2>1, <2>2, <2>3 DEF Upto, Windows
      <4> QED BY <2>2, <4>1
    <3>2. A = {x} /\ Cardinality({x}) = 1
      BY <2>1, <3>1, Alone
    <3> QED BY <3>2
  <2>4. CASE Cardinality(Upto(w, x)) <= rule.count
    BY <1>2, <1>4, <2>1, <2>2, <2>4
  <2> QED BY <2>2, <2>3, <2>4 DEF Law
<1>8. rule.type = "both" => Cardinality(A) <= 1
  <2> SUFFICES ASSUME rule.type = "both", A # {}
               PROVE  Cardinality(A) <= 1
    BY <1>5
  <2>1. PICK x \in A : A \subseteq Upto(w, x) /\ \A y \in A : y <= x
    BY <1>1, <1>6
  <2>2. \A y \in A : y \in 1 .. n /\ Cardinality(Upto(w, y)) = rule.count
    BY <1>1 DEF Alarms, A, Law
  <2>3. ASSUME NEW y \in A, y # x PROVE FALSE
    <3>1. y \in 1 .. n /\ x \in 1 .. n /\ y < x /\ w[y] = w[x]
      BY <1>1, <2>1, <2>3
    <3>2. x \notin Upto(w, y) /\ Upto(w, y) \cup {x} \subseteq Upto(w, x)
      <4>1. \A z \in Upto(w, y) : z \in 1 .. n
        BY <1>3, <3>1
      <4> QED BY <1>3, <3>1, <4>1 DEF Upto
    <3>3. Cardinality(Upto(w, y) \cup {x}) = Cardinality(Upto(w, y)) + 1
      BY <1>3, <3>1, <3>2, Indices
    <3> QED BY <1>4, <2>2, <3>1, <3>2, <3>3
  <2>4. A = {x} /\ Cardinality({x}) = 1
    BY <2>1, <2>3, Alone
  <2> QED BY <2>4
<1>9. rule.type = "detection" /\ rule.count > 1 /\ A = {} => Cardinality(Q) < rule.count
  <2> SUFFICES ASSUME rule.type = "detection", rule.count > 1, A = {}, Q # {}
               PROVE  Cardinality(Q) < rule.count
    BY <1>5
  <2>1. PICK x \in Q : Q \subseteq Upto(w, x)
    BY <1>6
  <2>2. x \in 1 .. n /\ ~log[x].alert /\ Law(rule, log, w, x)
    BY <2>1 DEF Alarms, A
  <2>3. Cardinality(Upto(w, x)) < rule.count
    BY <2>2 DEF Law
  <2>4. Cardinality(Q) <= Cardinality(Upto(w, x)) /\ Cardinality(Upto(w, x)) \in Nat
    BY <1>4, <2>1, <2>2
  <2> QED BY <1>2, <2>3, <2>4
<1>10. rule.type = "threshold" /\ rule.count > 0
         /\ (\A x, y \in Q, l \in 1 .. n : w[l] = w[y] /\ x <= l /\ l <= y => ~log[l].alert) =>
              Cardinality(Q) < rule.count
  <2> SUFFICES ASSUME rule.type = "threshold", rule.count > 0, Q # {},
                      \A x, y \in Q, l \in 1 .. n : w[l] = w[y] /\ x <= l /\ l <= y => ~log[l].alert
               PROVE  Cardinality(Q) < rule.count
    BY <1>5
  <2>1. PICK x \in Q : Q \subseteq Upto(w, x)
    BY <1>6
  <2> DEFINE V == Unspent(log, Upto(w, x), x)
  <2>2. x \in 1 .. n /\ Law(rule, log, w, x) /\ x <= x
    BY <2>1
  <2>3. ~log[x].alert
    <3>1. \A y, l : y \in Q /\ l \in 1 .. n /\ w[l] = w[y] /\ y <= l /\ l <= y => ~log[l].alert
      OBVIOUS
    <3> QED BY <2>1, <2>2, <3>1
  <2>4. Cardinality(V) < rule.count
    BY <2>2, <2>3 DEF Law
  <2>5. V \subseteq 1 .. n
    BY <1>3, <2>2 DEF Unspent
  <2>6. Q \subseteq V
    <3> SUFFICES ASSUME NEW y \in Q, NEW l \in Upto(w, x), y <= l, l < x
                 PROVE  ~log[l].alert
      BY <2>1 DEF Unspent
    <3>1. l \in 1 .. n /\ w[l] = w[x] /\ l <= x
      BY <1>3, <2>2 DEF Upto
    <3> QED BY <2>1, <3>1
  <2> HIDE DEF V
  <2>7. Cardinality(Q) <= Cardinality(V) /\ Cardinality(V) \in Nat
    BY <2>5, <2>6, Indices
  <2> QED BY <1>2, <2>4, <2>7
<1> QED BY <1>2, <1>7, <1>8, <1>9, <1>10 DEF A, Bounded

(* Packets wait less than a second for their thread, and the rules count:  *)
(* a limit of 0 alerts once; a threshold of 0 and a detection_filter of 1  *)
(* do not alert at the match that replaces an entry too old.               *)
CountsMatter ==
  /\ Late = 1
  /\ \A c \in ThConfs : \A r \in DOMAIN c.rules :
       /\ c.rules[r].type \in {"limit", "threshold"} => c.rules[r].count > 0
       /\ c.rules[r].type = "detection" => c.rules[r].count > 1

LEMMA RegularIs ==
  ASSUME ThresholdAssumption, CountsMatter, ThresholdInv
  PROVE  Regular
<1> SUFFICES ASSUME NEW i \in DOMAIN judged, NEW j \in DOMAIN judged
             PROVE  LET rule == RuleOf(i)
                        n == Cardinality(Alerts(Period(i, j)))
                    IN  CASE rule.type = "limit" -> n <= 2 * rule.count
                          [] rule.type = "both" -> n <= 2
                          [] rule.type \in {"threshold", "detection"} ->
                               Cardinality(Period(i, j)) >= 2 * rule.count - 1 => n > 0
                          [] OTHER -> TRUE
  BY DEF Regular
<1> DEFINE rule == RuleOf(i)
           P == Period(i, j)
           a == Cardinality(Alarms(judged, P))
<1>1. PICK w \in [DOMAIN judged -> DOMAIN judged] : Kept(th.rules, judged, w, entries, clock)
  BY DEF ThresholdInv
<1>2. LogOK(th.rules, judged, clock) /\ Typed /\ Logged
  BY LogIsOK DEF ThresholdInv
<1>3. /\ DOMAIN judged = 1 .. Len(judged) /\ Len(judged) \in Nat
      /\ \A x \in DOMAIN judged : judged[x].ts \in Nat /\ judged[x].alert \in BOOLEAN
  BY <1>2 DEF LogOK
<1>4. /\ rule = th.rules[judged[i].key.rule] /\ rule.count \in Nat /\ rule.seconds \in Nat
      /\ rule.type \in {"limit", "threshold"} => rule.count > 0
      /\ rule.type = "detection" => rule.count > 1
  BY <1>2, RulesOK DEF RuleOf, Logged, Rules, Typed, CountsMatter
<1>5. /\ \A x \in P : x \in DOMAIN judged /\ judged[x].key = judged[i].key /\ i <= x /\ x <= j
      /\ P # {} => i \in P
      /\ \A x, y \in P : judged[x].ts - judged[y].ts < rule.seconds
      /\ \A x \in DOMAIN judged : P # {} /\ judged[x].key = judged[i].key /\ i <= x /\ x <= j => x \in P
  <2> DEFINE ix == Same(i) \cap (i .. j)
  <2>1. P = IF \A k, l \in ix : judged[k].ts - judged[l].ts < rule.seconds THEN ix ELSE {}
    BY DEF Period
  <2>2. /\ \A x \in ix : x \in DOMAIN judged /\ judged[x].key = judged[i].key /\ i <= x /\ x <= j
        /\ \A x \in DOMAIN judged : judged[x].key = judged[i].key /\ i <= x /\ x <= j => x \in ix
    BY <1>3 DEF Same
  <2>3. ix # {} => i <= i /\ i <= j
    BY <1>3, <2>2
  <2> HIDE DEF ix, rule, P
  <2> QED BY <2>1, <2>2, <2>3
<1>6. Alerts(P) = Alarms(judged, P) /\ Alarms(judged, P) \subseteq P
  BY DEF Alerts, Alarms
<1> HIDE DEF rule, P
<1>7. \A x \in P : Law(rule, judged, w, x)
  BY <1>1, <1>4, <1>5 DEF Kept, Laws
<1>8. /\ P \subseteq 1 .. Len(judged) /\ a \in Nat /\ Cardinality(P) \in Nat
      /\ (a > 0 <=> Alarms(judged, P) # {}) /\ (P = {} => a = 0 /\ Cardinality(P) = 0)
  <2>1. P \subseteq 1 .. Len(judged) /\ Alarms(judged, P) \subseteq 1 .. Len(judged)
    BY <1>3, <1>5, <1>6
  <2>2. IsFiniteSet(Alarms(judged, P)) /\ a \in Nat /\ Cardinality(P) \in Nat
    BY <1>3, <2>1, Indices
  <2>3. (a = 0 <=> Alarms(judged, P) = {}) /\ Cardinality({}) = 0
    BY <2>2, FS_EmptySet
  <2> HIDE DEF a
  <2>4. a > 0 <=> Alarms(judged, P) # {}
    BY <2>2, <2>3
  <2> QED BY <1>6, <2>1, <2>2, <2>3, <2>4
<1>9. CASE rule.type = "threshold" /\ rule.count = 1
  <2>1. ASSUME NEW x \in P PROVE judged[x].alert
    <3>1. x \in Unspent(judged, Upto(w, x), x) /\ Unspent(judged, Upto(w, x), x) \subseteq 1 .. Len(judged)
      BY <1>1, <1>3, <1>5 DEF Unspent, Upto
    <3>2. Cardinality({x}) <= Cardinality(Unspent(judged, Upto(w, x), x))
          /\ Cardinality(Unspent(judged, Upto(w, x), x)) \in Nat
      BY <1>3, <3>1, Indices
    <3>3. Cardinality({x}) = 1
      BY Alone
    <3>4. ~(Cardinality(Unspent(judged, Upto(w, x), x)) < rule.count)
      BY <1>9, <3>2, <3>3
    <3> QED BY <1>7, <1>9, <2>1, <3>4 DEF Law
  <2>2. P # {} => a > 0
    BY <1>8, <2>1 DEF Alarms
  <2>3. Cardinality(P) >= 2 * rule.count - 1 => a > 0
    BY <1>8, <1>9, <2>2
  <2> QED BY <1>6, <1>9, <2>3 DEF rule, P
<1>10. CASE ~(rule.type = "threshold" /\ rule.count = 1) /\ P # {}
  <2> DEFINE Q == {x \in P : w[x] = w[i]}
             R == {x \in P : w[x] # w[i]}
  <2>1. \A x \in P : /\ x \in 1 .. Len(judged) /\ w[x] \in 1 .. Len(judged) /\ w[x] <= x
                     /\ w[w[x]] = w[x] /\ judged[w[x]].key = judged[x].key
    BY <1>1, <1>3, <1>5 DEF Kept, Windows
  <2>2. \A x \in R : w[x] \in P
    <3> TAKE x \in R
    <3>1. i < x
      BY <1>3, <1>5
    <3>2. i < w[x]
      BY <1>1, <1>5, <3>1 DEF Kept, Windows
    <3>3. x \in P /\ x \in 1 .. Len(judged) /\ w[x] \in 1 .. Len(judged) /\ w[x] <= x
          /\ judged[w[x]].key = judged[i].key /\ x <= j
      BY <1>5, <2>1
    <3>4. i <= w[x] /\ w[x] <= j
      BY <1>3, <3>2, <3>3
    <3> QED BY <1>3, <1>5, <3>3, <3>4
  <2>3. ASSUME NEW x \in R, NEW y \in R, w[x] < w[y] PROVE FALSE
    <3> DEFINE c == w[x]
               d == w[y]
    <3>1. c \in P /\ d \in P /\ c < d /\ w[c] = c /\ w[d] = d
      BY <2>1, <2>2, <2>3
    <3>2. /\ c \in DOMAIN judged /\ d \in DOMAIN judged
          /\ judged[c].key = judged[d].key /\ rule = th.rules[judged[d].key.rule]
          /\ judged[d].ts - judged[c].ts < rule.seconds
      BY <1>4, <1>5, <3>1
    <3>3. Spaced(rule)
      BY <1>10 DEF Spaced, CountsMatter
    <3> HIDE DEF c, d
    <3>4. judged[d].ts - judged[c].ts >= rule.seconds
      BY <1>1, <3>1, <3>2, <3>3 DEF Kept, Apart
    <3> QED BY <1>3, <1>4, <3>2, <3>4
  <2>4. \A x, y \in R : w[x] = w[y]
    BY <2>1, <2>3
  <2> DEFINE aq == Cardinality(Alarms(judged, Q))
             ar == Cardinality(Alarms(judged, R))
             cq == Cardinality(Q)
             cr == Cardinality(R)
  <2>5. /\ Alarms(judged, P) = Alarms(judged, Q) \cup Alarms(judged, R) /\ P = Q \cup R
        /\ Alarms(judged, Q) \subseteq 1 .. Len(judged) /\ Alarms(judged, R) \subseteq 1 .. Len(judged)
        /\ Q \subseteq 1 .. Len(judged) /\ R \subseteq 1 .. Len(judged)
    BY <1>8 DEF Alarms
  <2> HIDE DEF Q, R
  <2>6. a <= aq + ar /\ Cardinality(P) <= cq + cr
    BY <1>3, <2>5, Together
  <2>7. ASSUME NEW S, S \subseteq P, \A x, y \in S : w[x] = w[y]
        PROVE  /\ Cardinality(S) \in Nat /\ Cardinality(Alarms(judged, S)) \in Nat
               /\ rule.type = "limit" => Cardinality(Alarms(judged, S)) <= rule.count
               /\ rule.type = "both" => Cardinality(Alarms(judged, S)) <= 1
               /\ rule.type \in {"detection", "threshold"} /\ Alarms(judged, P) = {} =>
                    Cardinality(S) < rule.count
    <3>1. Windows(judged, w)
      BY <1>1 DEF Kept
    <3>2. \A x \in S : Law(rule, judged, w, x) /\ judged[x].alert \in BOOLEAN
      BY <1>3, <1>5, <1>7, <2>7
    <3>3. S \subseteq 1 .. Len(judged)
      BY <1>8, <2>7
    <3>4. Alarms(judged, P) = {} =>
            \A x, y \in S, l \in 1 .. Len(judged) : w[l] = w[y] /\ x <= l /\ l <= y => ~judged[l].alert
      <4> SUFFICES ASSUME Alarms(judged, P) = {},
                          NEW x \in S, NEW y \in S, NEW l \in 1 .. Len(judged),
                          w[l] = w[y], x <= l, l <= y
                   PROVE  ~judged[l].alert
        OBVIOUS
      <4>1. judged[l].key = judged[i].key
        <5>1. judged[w[l]].key = judged[l].key /\ judged[w[y]].key = judged[y].key
          BY <1>3, <2>1, <2>7, <3>1 DEF Windows
        <5> QED BY <1>5, <2>7, <5>1
      <4>2. i <= l /\ l <= j
        <5>1. i <= x /\ y <= j /\ x \in 1 .. Len(judged) /\ y \in 1 .. Len(judged)
          BY <1>5, <2>1, <2>7
        <5> QED BY <1>3, <5>1
      <4> QED BY <1>3, <1>5, <1>10, <4>1, <4>2 DEF Alarms
    <3>5. Alarms(judged, P) = {} => Alarms(judged, S) = {}
      BY <2>7 DEF Alarms
    <3>6. Bounded(rule, judged, w, Len(judged), S)
      BY <1>3, <1>4, <2>7, <3>1, <3>2, <3>3, OneWindow
    <3> QED BY <1>4, <3>4, <3>5, <3>6 DEF Bounded
  <2>8. /\ cq \in Nat /\ cr \in Nat /\ aq \in Nat /\ ar \in Nat
        /\ rule.type = "limit" => aq <= rule.count /\ ar <= rule.count
        /\ rule.type = "both" => aq <= 1 /\ ar <= 1
        /\ rule.type \in {"detection", "threshold"} /\ Alarms(judged, P) = {} =>
             cq < rule.count /\ cr < rule.count
    <3>1. Q \subseteq P /\ R \subseteq P /\ \A x, y \in Q : w[x] = w[y]
      BY DEF Q, R
    <3> QED BY <2>4, <2>7, <3>1
  <2> HIDE DEF aq, ar, cq, cr, a
  <2> DEFINE c == rule.count
             b == Cardinality(P)
  <2>9. c \in Nat /\ a \in Nat /\ b \in Nat /\ a <= aq + ar /\ b <= cq + cr
    BY <1>4, <1>8, <2>6
  <2>10. rule.type = "limit" => aq <= c /\ ar <= c
    BY <2>8
  <2>11. rule.type \in {"detection", "threshold"} /\ ~(a > 0) => cq < c /\ cr < c
    BY <1>8, <2>8
  <2> HIDE DEF b, c
  <2>12. rule.type = "limit" => a <= 2 * c
    BY <2>8, <2>9, <2>10
  <2>13. rule.type = "both" => a <= 2
    BY <2>8, <2>9
  <2>14. rule.type \in {"detection", "threshold"} /\ b >= 2 * c - 1 => a > 0
    BY <2>8, <2>9, <2>11
  <2> QED BY <1>6, <2>12, <2>13, <2>14 DEF rule, P, a, b, c
<1>11. CASE ~(rule.type = "threshold" /\ rule.count = 1) /\ P = {}
  <2>1. a = 0 /\ Cardinality(P) = 0
    BY <1>8, <1>11
  <2> HIDE DEF a
  <2>2. rule.type \in {"detection", "threshold"} => ~(Cardinality(P) >= 2 * rule.count - 1)
    BY <1>4, <2>1
  <2>3. a <= 2 * rule.count /\ a <= 2
    BY <1>4, <2>1
  <2> QED BY <1>6, <2>2, <2>3 DEF rule, P, a
<1> QED BY <1>9, <1>10, <1>11

(* AlertsAreEarned: with it, however the windows fall, the alerts in any   *)
(* seconds have their upper bound, or their lower one                      *)
(* (PacketAlertThreshold and ThresholdTimeoutRemove).                      *)
THEOREM AlertsKeepTheRate ==
  ASSUME ThresholdAssumption, CountsMatter
  PROVE  ThresholdSpec => []AlertsAreEarned
<1>1. ThresholdInv => AlertsAreEarned
  BY EarnedIs, RegularIs DEF ThresholdInv, AlertsAreEarned
<1> QED BY <1>1, ThresholdInvKept, PTL

---------------------------------------------------------------------------
(***************************************************************************)
(* The inductive invariant of defragmentation: the type, and the time a    *)
(* tracker is kept, which counts from its last fragment.                   *)
(***************************************************************************)

Distinct(tab) == \A i, j \in DOMAIN tab : tab[i].id = tab[j].id => i = j
TimedBut(tab, n) == \A i \in DOMAIN tab : i # n => tab[i].timeout = tab[i].last + df.timeout
DefragInv == DefragTypeOK /\ TimedBut(table, 0)

(***************************************************************************)
(* Sets of indices and places in sequences                                 *)
(***************************************************************************)

LEMMA MaxIs ==
  ASSUME NEW n \in Nat, NEW Q, Q \subseteq 1 .. n, Q # {}
  PROVE  Max(Q) \in Q /\ \A y \in Q : y <= Max(Q)
<1>1. PICK x \in Q : \A y \in Q : y <= x
  BY LastIndex
<1>2. \A y \in Q : x >= y
  BY <1>1
<1>3. Max(Q) \in Q /\ \A y \in Q : Max(Q) >= y
  BY <1>2 DEF Max
<1> QED BY <1>3

LEMMA MinIs ==
  ASSUME NEW n \in Nat, NEW Q, Q \subseteq 1 .. n, Q # {}
  PROVE  Min(Q) \in Q /\ \A y \in Q : Min(Q) <= y
<1>1. Q \subseteq Nat
  OBVIOUS
<1>2. PICK x \in Q : \A y \in Q : x <= y
  BY <1>1, LeastNatural
<1> QED BY <1>2 DEF Min

(* Find, GiveUp and Stopped return a place in the list, or 0. *)
LEMMA Found ==
  ASSUME NEW p, table \in Seq(Tracker)
  PROVE  \/ Find(p) \in DOMAIN table /\ table[Find(p)].id = p.id
         \/ Find(p) = 0 /\ \A i \in DOMAIN table : table[i].id # p.id
<1> DEFINE Q == {i \in 1 .. Len(table) : table[i].id = p.id}
<1>1. Len(table) \in Nat /\ DOMAIN table = 1 .. Len(table)
  OBVIOUS
<1>2. Find(p) = IF Q # {} THEN Min(Q) ELSE 0
  BY DEF Find, SelectInSeq
<1>3. CASE Q = {}
  BY <1>1, <1>2, <1>3
<1>4. CASE Q # {}
  <2>1. Min(Q) \in Q
    BY <1>1, <1>4, MinIs
  <2> QED BY <1>1, <1>2, <1>4, <2>1
<1> QED BY <1>3, <1>4

LEMMA GivesUp ==
  ASSUME table \in Seq(Tracker)
  PROVE  \/ GiveUp \in DOMAIN table /\ PastTime(table[GiveUp])
         \/ GiveUp = 0 /\ \A i \in DOMAIN table : ~PastTime(table[i])
<1> DEFINE Q == {i \in 1 .. Len(table) : PastTime(table[i])}
<1>1. Len(table) \in Nat /\ DOMAIN table = 1 .. Len(table)
  OBVIOUS
<1>2. GiveUp = IF Q # {} THEN Min(Q) ELSE 0
  BY DEF GiveUp, SelectInSeq
<1>3. CASE Q = {}
  BY <1>1, <1>2, <1>3
<1>4. CASE Q # {}
  <2>1. Min(Q) \in Q
    BY <1>1, <1>4, MinIs
  <2> QED BY <1>1, <1>2, <1>4, <2>1
<1> QED BY <1>3, <1>4

LEMMA StopsAt ==
  ASSUME NEW t \in Tracker, NEW p
  PROVE  \/ Stopped(t, p) \in DOMAIN t.frags /\ Stops(df.policy, p, t.frags[Stopped(t, p)])
         \/ Stopped(t, p) = 0
<1> DEFINE Q == {i \in 1 .. Len(t.frags) : Stops(df.policy, p, t.frags[i])}
<1>1. t.frags \in Seq(Frag)
  BY DEF Tracker
<1>2. Len(t.frags) \in Nat /\ DOMAIN t.frags = 1 .. Len(t.frags)
  BY <1>1
<1>3. Stopped(t, p) = IF Q # {} THEN Min(Q) ELSE 0
  BY DEF Stopped, SelectInSeq
<1>4. Q # {} => Min(Q) \in Q
  BY <1>2, MinIs
<1> QED BY <1>2, <1>3, <1>4

LEMMA Removed ==
  ASSUME NEW S, NEW s \in Seq(S), NEW i \in 1 .. Len(s)
  PROVE  /\ RemoveAt(s, i) \in Seq(S) /\ Len(RemoveAt(s, i)) = Len(s) - 1
         /\ \A k \in 1 .. Len(s) - 1 : RemoveAt(s, i)[k] = s[IF k < i THEN k ELSE k + 1]
<1> DEFINE a == SubSeq(s, 1, i - 1)
           b == SubSeq(s, i + 1, Len(s))
<1>1. Len(s) \in Nat /\ \A k \in 1 .. Len(s) : s[k] \in S
  OBVIOUS
<1>2. /\ a \in Seq(S) /\ Len(a) = i - 1 /\ \A k \in 1 .. i - 1 : a[k] = s[k]
  <2>1. /\ a \in Seq(S) /\ Len(a) = (IF 1 <= i - 1 THEN i - 1 - 1 + 1 ELSE 0)
        /\ \A k \in 1 .. i - 1 - 1 + 1 : a[k] = s[1 + k - 1]
    BY <1>1, SubSeqProperties
  <2> HIDE DEF a
  <2> QED BY <2>1, <1>1
<1>3. /\ b \in Seq(S) /\ Len(b) = Len(s) - i /\ \A k \in 1 .. Len(s) - i : b[k] = s[i + k]
  <2>1. /\ b \in Seq(S) /\ Len(b) = (IF i + 1 <= Len(s) THEN Len(s) - (i + 1) + 1 ELSE 0)
        /\ \A k \in 1 .. Len(s) - (i + 1) + 1 : b[k] = s[i + 1 + k - 1]
    BY <1>1, SubSeqProperties
  <2> HIDE DEF b
  <2> QED BY <2>1, <1>1
<1> HIDE DEF a, b
<1>4. /\ a \o b \in Seq(S) /\ Len(a \o b) = Len(a) + Len(b)
      /\ \A k \in 1 .. Len(a) + Len(b) : (a \o b)[k] = IF k <= Len(a) THEN a[k] ELSE b[k - Len(a)]
  BY <1>2, <1>3, ConcatProperties
<1>5. RemoveAt(s, i) = a \o b
  BY DEF RemoveAt, a, b
<1>6. \A k \in 1 .. Len(s) - 1 : (a \o b)[k] = s[IF k < i THEN k ELSE k + 1]
  <2> TAKE k \in 1 .. Len(s) - 1
  <2>1. CASE k < i
    BY <2>1, <1>1, <1>2, <1>3, <1>4
  <2>2. CASE ~(k < i)
    <3>1. (a \o b)[k] = b[k - (i - 1)] /\ k - (i - 1) \in 1 .. Len(s) - i
      BY <2>2, <1>1, <1>2, <1>3, <1>4
    <3>2. b[k - (i - 1)] = s[i + (k - (i - 1))] /\ i + (k - (i - 1)) = k + 1
      BY <3>1, <1>3
    <3> QED BY <2>2, <3>1, <3>2
  <2> QED BY <2>1, <2>2
<1>7. Len(a \o b) = Len(s) - 1
  BY <1>1, <1>2, <1>3, <1>4
<1> QED BY <1>4, <1>5, <1>6, <1>7

(***************************************************************************)
(* Fragments handed out: the sum over the trackers, as FoldLeft takes it   *)
(***************************************************************************)

Amount(tab, k) == Len(tab[k].frags)
AddsUp(g, tab, n) ==
  /\ DOMAIN g = SUBSET (1 .. n)
  /\ \A s \in SUBSET (1 .. n) :
       g[s] = IF s = {} THEN 0 ELSE g[s \ {Max(s)}] + Amount(tab, Max(s))

LEMMA SumExists ==
  ASSUME NEW tab, NEW n \in Nat
  PROVE  \E g : AddsUp(g, tab, n)
<1> DEFINE T == {k \in Nat : \E g : AddsUp(g, tab, k)}
<1>1. 0 \in T
  <2> DEFINE g == [s \in SUBSET (1 .. 0) |-> 0]
  <2>1. \A s \in SUBSET (1 .. 0) : s = {}
    OBVIOUS
  <2>2. AddsUp(g, tab, 0)
    BY <2>1 DEF AddsUp
  <2> QED BY <2>2
<1>2. ASSUME NEW k \in Nat, k \in T PROVE k + 1 \in T
  <2>1. PICK h : AddsUp(h, tab, k)
    BY <1>2
  <2> DEFINE g == [s \in SUBSET (1 .. k + 1) |->
                     IF s = {} THEN 0 ELSE h[s \ {Max(s)}] + Amount(tab, Max(s))]
  <2>2. \A s \in SUBSET (1 .. k) : s \in SUBSET (1 .. k + 1) /\ g[s] = h[s]
    <3> TAKE s \in SUBSET (1 .. k)
    <3>1. s \in SUBSET (1 .. k + 1)
      OBVIOUS
    <3> QED BY <3>1, <2>1 DEF AddsUp
  <2>3. \A s \in SUBSET (1 .. k + 1) : s # {} => s \ {Max(s)} \in SUBSET (1 .. k)
    <3> SUFFICES ASSUME NEW s \in SUBSET (1 .. k + 1), s # {}, NEW x \in s, x # Max(s)
                 PROVE  x \in 1 .. k
      OBVIOUS
    <3>0. k + 1 \in Nat
      OBVIOUS
    <3>1. Max(s) \in s /\ x <= Max(s)
      BY <3>0, MaxIs
    <3>2. x \in 1 .. k + 1 /\ Max(s) \in 1 .. k + 1
      BY <3>1
    <3> QED BY <3>1, <3>2
  <2>4. AddsUp(g, tab, k + 1)
    BY <2>2, <2>3 DEF AddsUp
  <2> QED BY <2>4
<1>3. Nat \subseteq T
  <2> HIDE DEF T
  <2> QED BY <1>1, <1>2, AllNaturals
<1> QED BY <1>3

(* The recursive function that FoldLeft iterates. *)
Iter(tab) == CHOOSE g : g = [s \in SUBSET DOMAIN tab |->
                               IF s = {} THEN 0 ELSE g[s \ {Max(s)}] + Amount(tab, Max(s))]

LEMMA IterAddsUp ==
  ASSUME NEW tab \in Seq(Tracker)
  PROVE  AddsUp(Iter(tab), tab, Len(tab)) /\ FragsOf(tab) = Iter(tab)[1 .. Len(tab)]
<1> DEFINE n == Len(tab)
           D == SUBSET (1 .. n)
           E(g) == [s \in D |-> IF s = {} THEN 0 ELSE g[s \ {Max(s)}] + Amount(tab, Max(s))]
<1>0. n \in Nat /\ DOMAIN tab = 1 .. n
  OBVIOUS
<1>1. PICK g : AddsUp(g, tab, n)
  BY <1>0, SumExists
<1> DEFINE h == [s \in D |-> g[s]]
<1>2. \A s \in D : h[s] = IF s = {} THEN 0 ELSE h[s \ {Max(s)}] + Amount(tab, Max(s))
  BY <1>1 DEF AddsUp
<1>3. h = E(h)
  BY <1>2
<1>4. Iter(tab) = E(Iter(tab))
  BY <1>0, <1>3 DEF Iter
<1>5. FragsOf(tab) = Iter(tab)[DOMAIN tab]
  BY DEF FragsOf, FoldLeft, MapThenFoldSet, Iter, Amount
<1> QED BY <1>0, <1>4, <1>5 DEF AddsUp

(* A running total ends at the sum, and there is one. *)
Running(g, tab) ==
  /\ g \in [0 .. Len(tab) -> Int] /\ g[0] = 0
  /\ \A k \in 1 .. Len(tab) : g[k] = g[k - 1] + Amount(tab, k)

LEMMA AmountIs ==
  ASSUME NEW tab \in Seq(Tracker), NEW k \in 1 .. Len(tab)
  PROVE  tab[k].frags \in Seq(Frag) /\ Amount(tab, k) \in Nat
<1>1. tab[k] \in Tracker
  OBVIOUS
<1>2. tab[k].frags \in Seq(Frag)
  BY <1>1 DEF Tracker
<1> QED BY <1>2 DEF Amount

LEMMA IterStep ==
  ASSUME NEW tab, NEW n \in Nat, NEW g, AddsUp(g, tab, n)
  PROVE  /\ g[1 .. 0] = 0
         /\ \A k \in Nat : k + 1 <= n => g[1 .. k + 1] = g[1 .. k] + Amount(tab, k + 1)
<1>1. 1 .. 0 = {} /\ 1 .. 0 \in SUBSET (1 .. n)
  OBVIOUS
<1>2. ASSUME NEW k \in Nat, k + 1 <= n PROVE g[1 .. k + 1] = g[1 .. k] + Amount(tab, k + 1)
  <2>1. 1 .. k + 1 \in SUBSET (1 .. n) /\ k + 1 \in 1 .. k + 1
    BY <1>2
  <2>2. Max(1 .. k + 1) \in 1 .. k + 1 /\ \A y \in 1 .. k + 1 : y <= Max(1 .. k + 1)
    BY <2>1, MaxIs
  <2>3. Max(1 .. k + 1) = k + 1
    BY <2>1, <2>2
  <2>4. (1 .. k + 1) \ {k + 1} = 1 .. k
    OBVIOUS
  <2> QED BY <2>1, <2>3, <2>4 DEF AddsUp
<1> QED BY <1>1, <1>2 DEF AddsUp

LEMMA RunningEnds ==
  ASSUME NEW tab \in Seq(Tracker), NEW g, Running(g, tab)
  PROVE  FragsOf(tab) = g[Len(tab)]
<1> DEFINE n == Len(tab)
           I == Iter(tab)
           T == {k \in Nat : k <= n => g[k] = I[1 .. k]}
<1>0. n \in Nat
  OBVIOUS
<1>i. AddsUp(I, tab, n) /\ FragsOf(tab) = I[1 .. n]
  BY IterAddsUp
<1> HIDE DEF I
<1>1. 0 \in T
  BY <1>0, <1>i, IterStep DEF Running
<1>2. ASSUME NEW k \in Nat, k \in T PROVE k + 1 \in T
  <2> SUFFICES ASSUME k + 1 <= n PROVE g[k + 1] = I[1 .. k + 1]
    OBVIOUS
  <2>1. g[k] = I[1 .. k]
    BY <1>0, <1>2
  <2> HIDE DEF T
  <2>2. I[1 .. k + 1] = I[1 .. k] + Amount(tab, k + 1)
    BY <1>0, <1>i, IterStep
  <2>3. k + 1 \in 1 .. n /\ k + 1 - 1 = k
    BY <1>0
  <2>4. g[k + 1] = g[k] + Amount(tab, k + 1)
    BY <2>3 DEF Running
  <2> QED BY <2>1, <2>2, <2>4
<1>3. Nat \subseteq T
  <2> HIDE DEF T
  <2> QED BY <1>1, <1>2, AllNaturals
<1> QED BY <1>0, <1>3, <1>i

LEMMA RunningExists ==
  ASSUME NEW tab \in Seq(Tracker)
  PROVE  /\ \E g : Running(g, tab) /\ g[Len(tab)] = FragsOf(tab)
                   /\ \A k \in 0 .. Len(tab) : g[k] \in Nat
         /\ FragsOf(tab) \in Nat
<1> DEFINE n == Len(tab)
           I == Iter(tab)
           T == {k \in Nat : k <= n => I[1 .. k] \in Nat}
           g == [k \in 0 .. n |-> I[1 .. k]]
<1>0. n \in Nat
  OBVIOUS
<1>i. AddsUp(I, tab, n)
  BY IterAddsUp
<1>s. /\ I[1 .. 0] = 0
      /\ \A k \in Nat : k + 1 <= n => I[1 .. k + 1] = I[1 .. k] + Amount(tab, k + 1)
  <2> HIDE DEF I
  <2> QED BY <1>0, <1>i, IterStep
<1>1. 0 \in T
  BY <1>s
<1> HIDE DEF I
<1>2. ASSUME NEW k \in Nat, k \in T PROVE k + 1 \in T
  <2> SUFFICES ASSUME k + 1 <= n PROVE I[1 .. k + 1] \in Nat
    OBVIOUS
  <2>1. I[1 .. k] \in Nat
    BY <1>0, <1>2
  <2>2. k + 1 \in 1 .. n
    BY <1>0
  <2> QED BY <2>1, <2>2, <1>s, AmountIs
<1>3. Nat \subseteq T
  <2> HIDE DEF T
  <2> QED BY <1>1, <1>2, AllNaturals
<1>4. \A k \in 0 .. n : g[k] = I[1 .. k] /\ g[k] \in Nat
  BY <1>0, <1>3
<1>5. \A k \in 1 .. n : g[k] = g[k - 1] + Amount(tab, k)
  <2> TAKE k \in 1 .. n
  <2>1. k - 1 \in Nat /\ k - 1 + 1 = k /\ k - 1 \in 0 .. n /\ k \in 0 .. n
    BY <1>0
  <2>2. I[1 .. k] = I[1 .. k - 1] + Amount(tab, k)
    BY <2>1, <1>s
  <2> QED BY <2>1, <2>2, <1>4
<1>6. Running(g, tab)
  <2>1. g \in [0 .. n -> Int] /\ g[0] = 0
    BY <1>0, <1>4, <1>s
  <2> QED BY <2>1, <1>5 DEF Running
<1>7. FragsOf(tab) = g[n]
  <2> HIDE DEF g
  <2> QED BY <1>6, RunningEnds
<1> QED BY <1>0, <1>4, <1>6, <1>7

LEMMA SumOfNone == FragsOf(<<>>) = 0
<1>1. <<>> \in Seq(Tracker) /\ Len(<<>>) = 0
  OBVIOUS
<1>2. Running([k \in 0 .. 0 |-> 0], <<>>)
  BY <1>1 DEF Running
<1> QED BY <1>1, <1>2, RunningEnds

LEMMA SumAppends ==
  ASSUME NEW tab \in Seq(Tracker), NEW t \in Tracker
  PROVE  FragsOf(Append(tab, t)) = FragsOf(tab) + Len(t.frags)
<1> DEFINE n == Len(tab)
           tab2 == Append(tab, t)
<1>1. /\ n \in Nat /\ tab2 \in Seq(Tracker) /\ Len(tab2) = n + 1
      /\ tab2[n + 1] = t /\ \A k \in 1 .. n : tab2[k] = tab[k]
  OBVIOUS
<1>2. PICK g : Running(g, tab) /\ g[n] = FragsOf(tab)
  BY RunningExists
<1>3. Len(t.frags) \in Nat
  <2>1. t.frags \in Seq(Frag)
    BY DEF Tracker
  <2> QED BY <2>1
<1> DEFINE h == [k \in 0 .. n + 1 |-> IF k = n + 1 THEN g[n] + Len(t.frags) ELSE g[k]]
<1>4. h \in [0 .. n + 1 -> Int] /\ h[0] = 0 /\ h[n + 1] = g[n] + Len(t.frags)
  BY <1>1, <1>2, <1>3 DEF Running
<1>5. \A k \in 0 .. n : h[k] = g[k]
  BY <1>1
<1> HIDE DEF h, tab2
<1>6. \A k \in 1 .. n + 1 : h[k] = h[k - 1] + Amount(tab2, k)
  <2> TAKE k \in 1 .. n + 1
  <2>1. CASE k = n + 1
    BY <2>1, <1>1, <1>4, <1>5 DEF Amount
  <2>2. CASE k # n + 1
    <3>1. k \in 1 .. n /\ k \in 0 .. n /\ k - 1 \in 0 .. n
      BY <2>2, <1>1
    <3>2. g[k] = g[k - 1] + Amount(tab, k)
      BY <3>1, <1>2 DEF Running
    <3> QED BY <3>1, <3>2, <1>1, <1>5 DEF Amount
  <2> QED BY <2>1, <2>2
<1>7. Running(h, tab2)
  BY <1>1, <1>4, <1>6 DEF Running
<1>8. FragsOf(tab2) = h[n + 1]
  BY <1>1, <1>7, RunningEnds
<1> QED BY <1>2, <1>4, <1>8 DEF tab2

LEMMA SumChanges ==
  ASSUME NEW tab \in Seq(Tracker), NEW t \in Tracker, NEW i \in 1 .. Len(tab)
  PROVE  FragsOf([tab EXCEPT ![i] = t]) = FragsOf(tab) + (Len(t.frags) - Len(tab[i].frags))
<1> DEFINE n == Len(tab)
           tab2 == [tab EXCEPT ![i] = t]
           more == Len(t.frags) - Amount(tab, i)
<1>1. /\ n \in Nat /\ tab2 \in Seq(Tracker) /\ Len(tab2) = n
      /\ \A k \in 1 .. n : tab2[k] = IF k = i THEN t ELSE tab[k]
  BY ExceptSeq
<1>2. PICK g : Running(g, tab) /\ g[n] = FragsOf(tab)
  BY RunningExists
<1>3. more \in Int
  <2>1. t.frags \in Seq(Frag)
    BY DEF Tracker
  <2>2. Len(t.frags) \in Nat
    BY <2>1
  <2> QED BY <2>2, AmountIs
<1> HIDE DEF more, tab2
<1> DEFINE h == [k \in 0 .. n |-> IF k < i THEN g[k] ELSE g[k] + more]
<1>g. g \in [0 .. n -> Int] /\ g[0] = 0
  BY <1>2 DEF Running
<1>4. h \in [0 .. n -> Int] /\ h[0] = 0 /\ h[n] = g[n] + more
  BY <1>1, <1>g, <1>3
<1>5. \A k \in 0 .. n : h[k] = IF k < i THEN g[k] ELSE g[k] + more
  BY <1>1
<1> HIDE DEF h
<1>6. \A k \in 1 .. n : h[k] = h[k - 1] + Amount(tab2, k)
  <2> TAKE k \in 1 .. n
  <2>1. k \in 0 .. n /\ k - 1 \in 0 .. n
    BY <1>1
  <2>2. g[k] = g[k - 1] + Amount(tab, k) /\ g[k] \in Int /\ g[k - 1] \in Int
    BY <2>1, <1>2, <1>g DEF Running
  <2>3. Amount(tab2, k) = IF k = i THEN Amount(tab, k) + more ELSE Amount(tab, k)
    <3>1. CASE k = i
      <4>1. t.frags \in Seq(Frag)
        BY DEF Tracker
      <4>2. Len(t.frags) \in Nat
        BY <4>1
      <4>3. Amount(tab2, k) = Len(t.frags)
        BY <3>1, <1>1 DEF Amount
      <4>4. Amount(tab, i) \in Nat
        BY AmountIs
      <4> QED BY <3>1, <4>2, <4>3, <4>4 DEF more
    <3>2. CASE k # i
      BY <3>2, <1>1 DEF Amount
    <3> QED BY <3>1, <3>2
  <2>4. Amount(tab, k) \in Nat
    BY AmountIs
  <2>5. CASE k < i
    BY <2>5, <2>1, <2>2, <2>3, <1>5
  <2>6. CASE k = i
    <3>1. h[k] = g[k] + more /\ h[k - 1] = g[k - 1]
      BY <2>6, <2>1, <1>5
    <3> QED BY <3>1, <2>6, <2>2, <2>3, <2>4, <1>3
  <2>7. CASE k > i
    <3>1. h[k] = g[k] + more /\ h[k - 1] = g[k - 1] + more
      BY <2>7, <2>1, <1>5
    <3> QED BY <3>1, <2>7, <2>2, <2>3, <2>4, <1>3
  <2> QED BY <2>5, <2>6, <2>7
<1>7. Running(h, tab2)
  BY <1>1, <1>4, <1>6 DEF Running
<1>8. FragsOf(tab2) = h[n]
  BY <1>1, <1>7, RunningEnds
<1> QED BY <1>2, <1>4, <1>8 DEF tab2, more, Amount

LEMMA SumRemoves ==
  ASSUME NEW tab \in Seq(Tracker), NEW i \in 1 .. Len(tab)
  PROVE  /\ FragsOf(RemoveAt(tab, i)) = FragsOf(tab) - Len(tab[i].frags)
         /\ FragsOf(RemoveAt(tab, i)) \in Nat
<1> DEFINE n == Len(tab)
           tab2 == RemoveAt(tab, i)
           less == Amount(tab, i)
<1>1. /\ n \in Nat /\ tab2 \in Seq(Tracker) /\ Len(tab2) = n - 1
      /\ \A k \in 1 .. n - 1 : tab2[k] = tab[IF k < i THEN k ELSE k + 1]
  BY Removed
<1>2. PICK g : Running(g, tab) /\ g[n] = FragsOf(tab)
  BY RunningExists
<1>3. less \in Nat
  BY AmountIs
<1> HIDE DEF less, tab2
<1> DEFINE h == [k \in 0 .. n - 1 |-> IF k < i THEN g[k] ELSE g[k + 1] - less]
<1>g. g \in [0 .. n -> Int] /\ g[0] = 0
  BY <1>2 DEF Running
<1>e. \A k \in 0 .. n : g[k] \in Int
  BY <1>g
<1>i. g[i] = g[i - 1] + less /\ g[i] \in Int /\ g[i - 1] \in Int
  <2>1. g[i] = g[i - 1] + less
    BY <1>2 DEF Running, less
  <2>2. i \in 0 .. n /\ i - 1 \in 0 .. n
    BY <1>1
  <2> QED BY <2>1, <2>2, <1>e
<1>4. h \in [0 .. n - 1 -> Int] /\ h[0] = 0 /\ h[n - 1] = g[n] - less
  <2>1. \A k \in 0 .. n - 1 : k + 1 \in 0 .. n /\ g[k] \in Int /\ g[k + 1] \in Int
    <3> TAKE k \in 0 .. n - 1
    <3>1. k \in 0 .. n /\ k + 1 \in 0 .. n
      BY <1>1
    <3> QED BY <3>1, <1>e
  <2>2. h \in [0 .. n - 1 -> Int] /\ h[0] = 0
    BY <1>1, <1>g, <1>3, <2>1
  <2>3. h[n - 1] = IF n - 1 < i THEN g[n - 1] ELSE g[n - 1 + 1] - less
    BY <1>1
  <2>4. n - 1 < i => i = n
    BY <1>1
  <2>5. h[n - 1] = g[n] - less
    <3>1. CASE n - 1 < i
      <4> HIDE DEF h
      <4> QED BY <3>1, <2>3, <2>4, <1>1, <1>i, <1>3
    <3>2. CASE ~(n - 1 < i)
      <4> HIDE DEF h
      <4> QED BY <3>2, <2>3, <1>1
    <3> QED BY <3>1, <3>2
  <2> QED BY <2>2, <2>5
<1>5. \A k \in 0 .. n - 1 : h[k] = IF k < i THEN g[k] ELSE g[k + 1] - less
  BY <1>1
<1> HIDE DEF h
<1>6. \A k \in 1 .. n - 1 : h[k] = h[k - 1] + Amount(tab2, k)
  <2> TAKE k \in 1 .. n - 1
  <2>1. k \in 0 .. n - 1 /\ k - 1 \in 0 .. n - 1 /\ k \in 1 .. n /\ k + 1 \in 1 .. n
    BY <1>1
  <2>2. /\ g[k] = g[k - 1] + Amount(tab, k) /\ g[k] \in Int /\ g[k - 1] \in Int
        /\ g[k + 1] = g[k] + Amount(tab, k + 1) /\ g[k + 1] \in Int
    <3>1. g[k + 1] = g[k + 1 - 1] + Amount(tab, k + 1)
      BY <2>1, <1>2 DEF Running
    <3>2. g[k] = g[k - 1] + Amount(tab, k)
      BY <2>1, <1>2 DEF Running
    <3>3. g[k] \in Int /\ g[k - 1] \in Int /\ g[k + 1] \in Int
      <4>1. k \in 0 .. n /\ k - 1 \in 0 .. n /\ k + 1 \in 0 .. n
        BY <2>1, <1>1
      <4> QED BY <4>1, <1>e
    <3> QED BY <3>1, <3>2, <3>3
  <2>3. Amount(tab2, k) = IF k < i THEN Amount(tab, k) ELSE Amount(tab, k + 1)
    BY <1>1 DEF Amount
  <2>4. Amount(tab, k) \in Nat /\ Amount(tab, k + 1) \in Nat
    BY <2>1, AmountIs
  <2>5. CASE k < i
    <3>1. h[k] = g[k] /\ h[k - 1] = g[k - 1]
      <4>1. k - 1 < i
        BY <2>5, <2>1
      <4> QED BY <4>1, <2>5, <2>1, <1>5
    <3> QED BY <3>1, <2>5, <2>2, <2>3
  <2>6. CASE k = i
    <3>1. h[k] = g[k + 1] - less /\ h[k - 1] = g[k - 1]
      BY <2>6, <2>1, <1>5
    <3>2. g[k] = g[k - 1] + less /\ Amount(tab2, k) = Amount(tab, k + 1)
      <4>1. g[k] = g[k - 1] + less
        BY <2>6, <1>i
      <4>2. ~(k < i)
        BY <2>6, <2>1
      <4> QED BY <4>1, <4>2, <2>3
    <3>3. \A x, y, z, w \in Int : x = y + less /\ z = x + w => z - less = y + w
      BY <1>3
    <3>4. g[k + 1] - less = g[k - 1] + Amount(tab, k + 1)
      BY <3>2, <3>3, <2>2, <2>4
    <3> QED BY <3>1, <3>2, <3>4
  <2>7. CASE k > i
    <3>1. h[k] = g[k + 1] - less /\ h[k - 1] = g[k] - less
      <4>1. ~(k < i) /\ ~(k - 1 < i) /\ k - 1 + 1 = k
        BY <2>7, <2>1
      <4> QED BY <4>1, <2>1, <1>5
    <3> QED BY <3>1, <2>7, <2>2, <2>3, <2>4, <1>3
  <2> QED BY <2>5, <2>6, <2>7
<1>7. Running(h, tab2)
  BY <1>1, <1>4, <1>6 DEF Running
<1>8. FragsOf(tab2) = h[n - 1]
  BY <1>1, <1>7, RunningEnds
<1>9. FragsOf(tab2) \in Nat
  BY <1>1, RunningExists
<1> QED BY <1>2, <1>4, <1>8, <1>9 DEF tab2, less, Amount

(***************************************************************************)
(* What DefragInsertFrag makes of a tracker                                *)
(***************************************************************************)

LEMMA FragmentIs ==
  ASSUME NEW p \in Fragment
  PROVE  /\ p \in [id : Nat \ {0}, off : Nat, len : Nat, mf : BOOLEAN, who : Nat]
         /\ p.off > 0 \/ p.mf
         /\ p.id \in Nat \ {0} /\ p.off \in Nat /\ p.len \in Nat /\ p.mf \in BOOLEAN /\ p.who \in Nat
         /\ EndOf(p) \in Nat
BY DEF Fragment, EndOf

LEMMA FragIs ==
  ASSUME NEW f \in Frag
  PROVE  /\ f.offset \in Nat /\ f.data \in Seq(Nat \X Nat) /\ f.data # <<>>
         /\ f.ltrim \in Nat /\ f.skip \in BOOLEAN
         /\ Length(f) \in Nat /\ Behind(f) \in Nat
<1>1. f.offset \in Nat /\ f.data \in Seq(Nat \X Nat) /\ f.data # <<>> /\ f.ltrim \in Nat /\ f.skip \in BOOLEAN
  BY DEF Frag
<1>2. Length(f) \in Nat
  BY <1>1 DEF Length
<1> QED BY <1>1, <1>2 DEF Behind

LEMMA LtrimIs ==
  ASSUME NEW policy, NEW p \in Fragment, NEW f \in Frag, Stops(policy, p, f)
  PROVE  Ltrim(policy, p, f) \in Nat
<1>1. p.off \in Nat /\ f.offset \in Nat /\ Behind(f) \in Nat
  BY FragmentIs, FragIs
<1>2. CASE policy = "LAST"
  BY <1>1, <1>2 DEF Ltrim
<1>3. CASE policy # "LAST"
  <2>1. p.off < Behind(f)
    BY <1>3 DEF Stops
  <2> QED BY <1>1, <2>1 DEF Ltrim
<1> QED BY <1>2, <1>3

LEMMA CutIs ==
  ASSUME NEW p \in Fragment, NEW f \in Frag
  PROVE  Cut(p, f) \in Frag
<1>1. EndOf(p) \in Nat /\ f.offset \in Nat
  BY FragmentIs, FragIs
<1>2. CASE EndOf(p) > f.offset
  <2>1. EndOf(p) - f.offset \in Nat
    BY <1>1, <1>2
  <2>2. [f EXCEPT !.ltrim = EndOf(p) - f.offset] \in Frag
    BY <2>1 DEF Frag
  <2> QED BY <2>2, <1>2 DEF Cut
<1>3. CASE ~(EndOf(p) > f.offset)
  BY <1>3 DEF Cut
<1> QED BY <1>2, <1>3

LEMMA OverlappedIs ==
  ASSUME NEW policy, NEW p \in Fragment, NEW list \in Seq(Frag), NEW i
  PROVE  Overlapped(policy, p, list, i) \in Seq(Frag) /\ Len(Overlapped(policy, p, list, i)) = Len(list)
<1> DEFINE over == Overlapped(policy, p, list, i)
<1>1. Len(list) \in Nat /\ DOMAIN list = 1 .. Len(list) /\ \A k \in 1 .. Len(list) : list[k] \in Frag
  OBVIOUS
<1>2. DOMAIN over = 1 .. Len(list)
  BY <1>1 DEF Overlapped
<1>3. \A f \in Frag : [f EXCEPT !.skip = TRUE] \in Frag
  BY DEF Frag
<1>4. \A k \in 1 .. Len(list) : over[k] \in Frag
  <2> TAKE k \in 1 .. Len(list)
  <2>1. over[k] \in {Cut(p, list[k]), [list[k] EXCEPT !.skip = TRUE], list[k]}
    BY <1>1 DEF Overlapped
  <2> QED BY <2>1, <1>1, <1>3, CutIs
<1>5. over = [k \in 1 .. Len(list) |-> over[k]]
  BY <1>1, <1>2 DEF Overlapped
<1> HIDE DEF over
<1>6. over \in [1 .. Len(list) -> Frag]
  BY <1>4, <1>5
<1>7. over \in Seq(Frag) /\ Len(over) = Len(list)
  BY <1>1, <1>6
<1> QED BY <1>7 DEF over

LEMMA StoredIs ==
  ASSUME NEW p \in Fragment, NEW ltrim \in Nat, ltrim < p.len, NEW list \in Seq(Frag)
  PROVE  /\ Stored(p, ltrim, list) \in Seq(Frag)
         /\ Len(Stored(p, ltrim, list)) = Len(list) + 1
         /\ list = <<>> => /\ Stored(p, ltrim, list)[1].offset = p.off + ltrim
                           /\ ~Stored(p, ltrim, list)[1].skip
<1> DEFINE data == SubSeq(Blocks(p), ltrim + 1, p.len)
           new == [offset |-> p.off + ltrim, data |-> data, ltrim |-> 0, skip |-> FALSE]
           Q == {k \in 1 .. Len(list) : p.off < list[k].offset}
           larger == IF Q # {} THEN Min(Q) ELSE 0
           a == SubSeq(list, 1, larger - 1)
           b == SubSeq(list, larger, Len(list))
<1>p. p.off \in Nat /\ p.len \in Nat /\ p.who \in Nat
  BY FragmentIs
<1>l. Len(list) \in Nat /\ DOMAIN list = 1 .. Len(list) /\ \A k \in 1 .. Len(list) : list[k] \in Frag
  OBVIOUS
<1>1. data \in Seq(Nat \X Nat) /\ data # <<>>
  <2>1. \A k \in ltrim + 1 .. p.len : Blocks(p)[k] \in Nat \X Nat
    BY <1>p DEF Blocks
  <2>2. data \in Seq(Nat \X Nat) /\ Len(data) = IF ltrim + 1 <= p.len THEN p.len - (ltrim + 1) + 1 ELSE 0
    BY <1>p, <2>1, SubSeqProperties
  <2> HIDE DEF data
  <2>3. Len(data) # 0
    BY <1>p, <2>2
  <2> QED BY <2>2, <2>3
<1> HIDE DEF data
<1>2. new \in Frag /\ new.offset = p.off + ltrim /\ ~new.skip
  BY <1>1, <1>p DEF Frag
<1>3. Stored(p, ltrim, list) = IF larger = 0 THEN Append(list, new) ELSE InsertAt(list, larger, new)
  BY DEF Stored, SelectInSeq, data
<1> HIDE DEF new
<1>4. CASE Q = {}
  <2>1. larger = 0
    BY <1>4
  <2>2. Stored(p, ltrim, list) = Append(list, new)
    BY <2>1, <1>3
  <2>3. Append(list, new) \in Seq(Frag) /\ Len(Append(list, new)) = Len(list) + 1
    BY <1>2
  <2>4. list = <<>> => Append(list, new)[1] = new
    BY <1>2
  <2> QED BY <2>2, <2>3, <2>4, <1>2
<1>5. CASE Q # {}
  <2>1. Min(Q) \in Q
    BY <1>l, <1>5, MinIs
  <2>2. larger \in 1 .. Len(list) /\ list # <<>>
    BY <2>1, <1>5
  <2> HIDE DEF larger
  <2>0. larger # 0
    BY <2>2, <1>l
  <2>3. Stored(p, ltrim, list) = a \o <<new>> \o b
    BY <2>0, <1>3 DEF InsertAt
  <2>4. a \in Seq(Frag) /\ Len(a) = larger - 1
    <3>1. a \in Seq(Frag) /\ Len(a) = IF 1 <= larger - 1 THEN larger - 1 - 1 + 1 ELSE 0
      BY <1>l, <2>2, SubSeqProperties
    <3> HIDE DEF a
    <3> QED BY <3>1, <2>2, <1>l
  <2>5. b \in Seq(Frag) /\ Len(b) = Len(list) - larger + 1
    <3>1. b \in Seq(Frag) /\ Len(b) = IF larger <= Len(list) THEN Len(list) - larger + 1 ELSE 0
      BY <1>l, <2>2, SubSeqProperties
    <3> HIDE DEF b
    <3> QED BY <3>1, <2>2, <1>l
  <2> HIDE DEF a, b
  <2>6. <<new>> \in Seq(Frag) /\ Len(<<new>>) = 1
    BY <1>2
  <2> DEFINE c == a \o <<new>>
  <2>7. c \in Seq(Frag) /\ Len(c) = larger - 1 + 1
    BY <2>4, <2>6, ConcatProperties
  <2> HIDE DEF c
  <2>c. c \o b \in Seq(Frag) /\ Len(c \o b) = Len(c) + Len(b)
    BY <2>5, <2>7, ConcatProperties
  <2>8. /\ a \o <<new>> \o b \in Seq(Frag)
        /\ Len(a \o <<new>> \o b) = larger - 1 + 1 + (Len(list) - larger + 1)
    BY <2>c, <2>5, <2>7 DEF c
  <2>9. larger - 1 + 1 + (Len(list) - larger + 1) = Len(list) + 1
    BY <2>2, <1>l
  <2> QED BY <2>2, <2>3, <2>8, <2>9
<1> QED BY <1>4, <1>5

LEMMA EndNeedsStart ==
  ASSUME NEW list, ReachesEnd(list)
  PROVE  list[1].skip \/ list[1].offset = 0
BY DEF ReachesEnd, FoldLeft, MapThenFoldSet

\* At most one fragment more, from the pool; a tracker's first one does not complete it.
Grown(t, given, p, u) ==
  /\ u \in Tracker
  /\ u.id = t.id /\ u.last = now /\ u.timeout = now + df.timeout /\ u.came = Append(t.came, p)
  /\ \/ Len(u.frags) = Len(t.frags)
     \/ given # df.pool /\ Len(u.frags) = Len(t.frags) + 1
  /\ t.frags = <<>> /\ ~t.seen_last /\ Len(u.frags) > Len(t.frags) =>
       ~(u.seen_last /\ ReachesEnd(u.frags))

LEMMA InsertedIs ==
  ASSUME df \in DefragConf, now \in Nat, NEW t \in Tracker, NEW given, NEW p \in Fragment
  PROVE  Grown(t, given, p, Inserted(t, given, p))
<1> DEFINE i == Stopped(t, p)
           ltrim == IF i = 0 THEN 0 ELSE Ltrim(df.policy, p, t.frags[i])
           u == InsertedAt(t, given, p, i, ltrim)
           dropped == i # 0 /\ Contained(df.policy, p, t.frags[i])
           list == IF i = 0 \/ dropped THEN t.frags ELSE Overlapped(df.policy, p, t.frags, i)
           stored == ~dropped /\ p.len > ltrim /\ given # df.pool
           grown == IF stored THEN Stored(p, ltrim, list) ELSE list
           seen == t.seen_last \/ (stored /\ ~p.mf)
<1>t. /\ t.frags \in Seq(Frag) /\ t.came \in Seq(Fragment) /\ t.seen_last \in BOOLEAN
      /\ Len(t.frags) \in Nat
  <2>1. t.frags \in Seq(Frag) /\ t.came \in Seq(Fragment) /\ t.seen_last \in BOOLEAN
    BY DEF Tracker
  <2> QED BY <2>1
<1>p. p.off \in Nat /\ p.len \in Nat /\ p.mf \in BOOLEAN /\ (p.off > 0 \/ p.mf)
  BY FragmentIs
<1>0. df.timeout \in Nat
  BY DEF DefragConf
<1>1. \/ i = 0
      \/ i \in DOMAIN t.frags /\ Stops(df.policy, p, t.frags[i]) /\ t.frags[i] \in Frag
  BY <1>t, StopsAt
<1> HIDE DEF i
<1>2. ltrim \in Nat
  BY <1>1, LtrimIs
<1>3. list \in Seq(Frag) /\ Len(list) = Len(t.frags)
  BY <1>t, OverlappedIs
<1>e. t.frags = <<>> => i = 0
  BY <1>1
<1>f. t.frags = <<>> => ltrim = 0 /\ list = <<>>
  BY <1>e
<1> HIDE DEF ltrim, list
<1>4. /\ grown \in Seq(Frag)
      /\ \/ Len(grown) = Len(t.frags)
         \/ stored /\ Len(grown) = Len(t.frags) + 1
      /\ Len(grown) > Len(t.frags) => stored
  <2>1. CASE stored
    <3>1. ltrim < p.len
      BY <2>1, <1>2, <1>p
    <3> HIDE DEF stored
    <3>2. grown = Stored(p, ltrim, list)
      BY <2>1
    <3>3. Stored(p, ltrim, list) \in Seq(Frag) /\ Len(Stored(p, ltrim, list)) = Len(list) + 1
      BY <3>1, <1>2, <1>3, StoredIs
    <3> QED BY <2>1, <3>2, <3>3, <1>3
  <2>2. CASE ~stored
    <3> HIDE DEF stored
    <3>1. grown = list
      BY <2>2
    <3> QED BY <2>2, <3>1, <1>3, <1>t
  <2> QED BY <2>1, <2>2
<1>5. stored => given # df.pool
  OBVIOUS
<1>6. t.frags = <<>> /\ stored => grown[1].offset = p.off /\ ~grown[1].skip
  <2> SUFFICES ASSUME t.frags = <<>>, stored PROVE grown[1].offset = p.off /\ ~grown[1].skip
    OBVIOUS
  <2>1. ltrim = 0 /\ list = <<>>
    BY <1>f
  <2>2. ltrim < p.len
    BY <1>2, <1>p
  <2>3. grown = Stored(p, ltrim, list)
    OBVIOUS
  <2>4. Stored(p, ltrim, list)[1].offset = p.off + ltrim /\ ~Stored(p, ltrim, list)[1].skip
    BY <2>1, <2>2, <1>2, <1>3, StoredIs
  <2> QED BY <2>1, <2>3, <2>4, <1>p
<1>u. u = [t EXCEPT !.timeout = now + df.timeout, !.came = Append(@, p), !.last = now,
                    !.frags = grown, !.seen_last = seen]
  BY DEF InsertedAt, list
<1>i. Inserted(t, given, p) = u
  BY DEF Inserted, i, ltrim
<1>b. seen \in BOOLEAN /\ (~t.seen_last /\ seen => ~p.mf)
  BY <1>t
<1> HIDE DEF grown, u, seen, stored
<1>c. Append(t.came, p) \in Seq(Fragment)
  BY <1>t
<1>7. u \in Tracker
  <2>1. now + df.timeout \in Nat
    BY <1>0
  <2> QED BY <2>1, <1>b, <1>c, <1>4, <1>u DEF Tracker
<1>8. /\ u.id = t.id /\ u.last = now /\ u.timeout = now + df.timeout
      /\ u.came = Append(t.came, p) /\ u.frags = grown /\ u.seen_last = seen
  BY <1>u DEF Tracker
<1>9. t.frags = <<>> /\ ~t.seen_last /\ Len(u.frags) > Len(t.frags) =>
        ~(u.seen_last /\ ReachesEnd(u.frags))
  <2> SUFFICES ASSUME t.frags = <<>>, ~t.seen_last, Len(grown) > Len(t.frags), seen
               PROVE  ~ReachesEnd(grown)
    BY <1>8
  <2>1. grown[1].offset = p.off /\ ~grown[1].skip
    BY <1>4, <1>6
  <2>2. p.off > 0
    BY <1>b, <1>p
  <2> QED BY <2>1, <2>2, <1>p, EndNeedsStart
<1> QED BY <1>i, <1>4, <1>5, <1>7, <1>8, <1>9 DEF Grown

Fresh(t) == t.frags = <<>> /\ ~t.seen_last
Completes(tab, i) == table' = RemoveAt(tab, i) /\ out'.id = tab[i].id /\ ~Fresh(tab[i])
Waits(tab, i, p) ==
  \E t \in Tracker : /\ t.id = tab[i].id /\ t.timeout = t.last + df.timeout
                     /\ t.came = Append(tab[i].came, p)
                     /\ table' = [tab EXCEPT ![i] = t]

LEMMA InsertsFrag ==
  ASSUME df \in DefragConf, now \in Nat, NEW tab \in Seq(Tracker), NEW i \in 1 .. Len(tab),
         NEW p \in Fragment, FragsOf(tab) <= df.pool,
         DefragInsertFrag(tab, FragsOf(tab), i, p)
  PROVE  /\ frags' = FragsOf(table') /\ frags' <= df.pool
         /\ Completes(tab, i) \/ Waits(tab, i, p)
<1> DEFINE given == FragsOf(tab)
           t == Inserted(tab[i], given, p)
           more == Len(t.frags) - Len(tab[i].frags)
<1>1. tab[i] \in Tracker /\ df.pool \in Nat /\ df.timeout \in Nat
  BY DEF DefragConf
<1>2. Grown(tab[i], given, p, t)
  BY <1>1, InsertedIs
<1>3. given \in Nat
  BY RunningExists
<1>4. IF more > 0 /\ t.seen_last /\ ReachesEnd(t.frags)
      THEN /\ table' = RemoveAt(tab, i)
           /\ frags' = given - Len(tab[i].frags)
           /\ out' = [id |-> t.id, blocks |-> Reassembled(t.frags), came |-> t.came]
      ELSE /\ table' = [tab EXCEPT ![i] = t]
           /\ frags' = given + more
  BY DEF DefragInsertFrag
<1> HIDE DEF given, t
<1>5. Len(tab[i].frags) \in Nat /\ Len(t.frags) \in Nat
  <2>1. tab[i].frags \in Seq(Frag) /\ t.frags \in Seq(Frag)
    BY <1>1, <1>2 DEF Tracker, Grown
  <2> QED BY <2>1
<1>6. CASE more > 0 /\ t.seen_last /\ ReachesEnd(t.frags)
  <2>1. /\ table' = RemoveAt(tab, i)
        /\ frags' = given - Len(tab[i].frags)
        /\ out'.id = t.id
    BY <1>4, <1>6
  <2>2. FragsOf(RemoveAt(tab, i)) = given - Len(tab[i].frags)
    BY SumRemoves DEF given
  <2>3. Len(t.frags) > Len(tab[i].frags)
    <3>1. more > 0
      BY <1>6
    <3>2. \A a, b \in Nat : a - b > 0 => a > b
      OBVIOUS
    <3> QED BY <3>1, <3>2, <1>5
  <2>4. ~Fresh(tab[i])
    BY <1>2, <1>6, <2>3 DEF Fresh, Grown
  <2>5. frags' <= df.pool
    BY <2>1, <1>1, <1>3, <1>5 DEF given
  <2> QED BY <2>1, <2>2, <2>4, <2>5, <1>2 DEF Completes, Grown
<1>7. CASE ~(more > 0 /\ t.seen_last /\ ReachesEnd(t.frags))
  <2>1. table' = [tab EXCEPT ![i] = t] /\ frags' = given + more
    BY <1>4, <1>7
  <2>2. t \in Tracker /\ t.id = tab[i].id /\ t.came = Append(tab[i].came, p)
    BY <1>2 DEF Grown
  <2>3. t.timeout = t.last + df.timeout
    BY <1>2 DEF Grown
  <2>4. FragsOf(table') = given + more
    BY <2>1, <2>2, SumChanges DEF given
  <2>5. given + more <= df.pool
    <3>1. more = 0 \/ (more = 1 /\ given # df.pool)
      BY <1>2, <1>5 DEF Grown
    <3>2. given <= df.pool
      BY DEF given
    <3> HIDE DEF more
    <3> QED BY <3>1, <3>2, <1>1, <1>3
  <2>6. Waits(tab, i, p)
    BY <2>1, <2>2, <2>3 DEF Waits
  <2> QED BY <2>1, <2>4, <2>5, <2>6
<1> QED BY <1>6, <1>7

LEMMA RemovedKeeps ==
  ASSUME NEW tab \in Seq(Tracker), NEW i \in 1 .. Len(tab), Distinct(tab), TimedBut(tab, i)
  PROVE  /\ RemoveAt(tab, i) \in Seq(Tracker) /\ Len(RemoveAt(tab, i)) = Len(tab) - 1
         /\ Distinct(RemoveAt(tab, i)) /\ TimedBut(RemoveAt(tab, i), 0)
         /\ \A k \in 1 .. Len(tab) : k # i => \E j \in DOMAIN RemoveAt(tab, i) : RemoveAt(tab, i)[j] = tab[k]
         /\ \A j \in DOMAIN RemoveAt(tab, i) : \E k \in 1 .. Len(tab) : RemoveAt(tab, i)[j] = tab[k]
<1> DEFINE n == Len(tab)
           tab2 == RemoveAt(tab, i)
           at(k) == IF k < i THEN k ELSE k + 1
<1>1. n \in Nat /\ DOMAIN tab = 1 .. n
  OBVIOUS
<1>2. tab2 \in Seq(Tracker) /\ Len(tab2) = n - 1 /\ \A k \in 1 .. n - 1 : tab2[k] = tab[at(k)]
  BY Removed
<1> HIDE DEF tab2
<1>3. DOMAIN tab2 = 1 .. n - 1
  BY <1>1, <1>2
<1>4. \A k \in 1 .. n - 1 : at(k) \in 1 .. n /\ at(k) # i
  BY <1>1
<1>5. \A j, k \in 1 .. n - 1 : at(j) = at(k) => j = k
  BY <1>1
<1>6. \A k \in 1 .. n : k # i => \E j \in 1 .. n - 1 : at(j) = k
  <2> SUFFICES ASSUME NEW k \in 1 .. n, k # i PROVE \E j \in 1 .. n - 1 : at(j) = k
    OBVIOUS
  <2>1. CASE k < i
    <3>1. k \in 1 .. n - 1 /\ at(k) = k
      BY <2>1, <1>1
    <3> QED BY <3>1
  <2>2. CASE k > i
    <3>1. k - 1 \in 1 .. n - 1 /\ at(k - 1) = k
      BY <2>2, <1>1
    <3> QED BY <3>1
  <2> QED BY <2>1, <2>2
<1> HIDE DEF at
<1>7. Distinct(tab2)
  BY <1>1, <1>2, <1>3, <1>4, <1>5 DEF Distinct
<1>8. TimedBut(tab2, 0)
  BY <1>1, <1>2, <1>3, <1>4 DEF TimedBut
<1>9. \A k \in 1 .. n : k # i => \E j \in DOMAIN tab2 : tab2[j] = tab[k]
  BY <1>2, <1>3, <1>6
<1>10. \A j \in DOMAIN tab2 : \E k \in 1 .. n : tab2[j] = tab[k]
  BY <1>2, <1>3, <1>4
<1> QED BY <1>2, <1>7, <1>8, <1>9, <1>10 DEF tab2

(***************************************************************************)
(* What one fragment does to the table                                     *)
(***************************************************************************)

TableKept ==
  /\ table' \in Seq(Tracker) /\ Len(table') <= df.trackers
  /\ Distinct(table') /\ TimedBut(table', 0)
  /\ frags' = FragsOf(table') /\ frags' <= df.pool
\* The steps of TrackersKept.
LateOnly ==
  \A i \in DOMAIN table :
    Alive(table[i]) => \/ \E j \in DOMAIN table' : table'[j].id = table[i].id
                       \/ out'.id = table[i].id
FullOnly == table' = table => \A i \in DOMAIN table : Alive(table[i])

LEMMA InTheTable ==
  ASSUME df \in DefragConf, now \in Nat, DefragInv, NEW i \in 1 .. Len(table)
  PROVE  /\ table[i] \in Tracker /\ table[i].timeout = table[i].last + df.timeout
         /\ PastTime(table[i]) <=> ~Alive(table[i])
<1>1. table[i] \in Tracker /\ i \in DOMAIN table /\ i # 0
  BY DEF DefragInv, DefragTypeOK
<1>2. table[i].timeout = table[i].last + df.timeout
  BY <1>1 DEF DefragInv, TimedBut
<1>3. table[i].last \in Nat /\ df.timeout \in Nat
  BY <1>1 DEF Tracker, DefragConf
<1> QED BY <1>1, <1>2, <1>3 DEF PastTime, Alive

LEMMA FoundKeeps ==
  ASSUME DefragInv, NEW i \in 1 .. Len(table), NEW p \in Fragment,
         DefragInsertFrag(table, frags, i, p)
  PROVE  TableKept /\ LateOnly /\ FullOnly
<1>1. /\ df \in DefragConf /\ now \in Nat /\ table \in Seq(Tracker) /\ Len(table) <= df.trackers
      /\ Distinct(table) /\ TimedBut(table, 0) /\ frags = FragsOf(table) /\ frags <= df.pool
  BY DEF DefragInv, DefragTypeOK, Distinct
<1>2. Len(table) \in Nat /\ DOMAIN table = 1 .. Len(table) /\ df.trackers \in Nat
  BY <1>1 DEF DefragConf
<1>3. /\ frags' = FragsOf(table') /\ frags' <= df.pool
      /\ Completes(table, i) \/ Waits(table, i, p)
  BY <1>1, InsertsFrag
<1>4. CASE Completes(table, i)
  <2>1. table' = RemoveAt(table, i) /\ out'.id = table[i].id
    BY <1>4 DEF Completes
  <2>2. TimedBut(table, i)
    BY <1>1, <1>2 DEF TimedBut
  <2>3. /\ table' \in Seq(Tracker) /\ Len(table') = Len(table) - 1
        /\ Distinct(table') /\ TimedBut(table', 0)
        /\ \A k \in 1 .. Len(table) : k # i => \E j \in DOMAIN table' : table'[j] = table[k]
    BY <1>1, <2>1, <2>2, RemovedKeeps
  <2>4. TableKept
    BY <1>2, <1>1, <1>3, <2>3 DEF TableKept
  <2>5. LateOnly
    <3> SUFFICES ASSUME NEW k \in 1 .. Len(table)
                 PROVE  \/ \E j \in DOMAIN table' : table'[j].id = table[k].id
                        \/ out'.id = table[k].id
      BY <1>2 DEF LateOnly
    <3>1. CASE k = i
      BY <3>1, <2>1
    <3>2. CASE k # i
      <4>1. PICK j \in DOMAIN table' : table'[j] = table[k]
        BY <3>2, <2>3
      <4> QED BY <4>1
    <3> QED BY <3>1, <3>2
  <2>6. FullOnly
    BY <1>2, <2>3 DEF FullOnly
  <2> QED BY <2>4, <2>5, <2>6
<1>5. CASE Waits(table, i, p)
  <2>1. PICK t \in Tracker : /\ t.id = table[i].id /\ t.timeout = t.last + df.timeout
                             /\ t.came = Append(table[i].came, p)
                             /\ table' = [table EXCEPT ![i] = t]
    BY <1>5 DEF Waits
  <2>2. /\ table' \in Seq(Tracker) /\ Len(table') = Len(table)
        /\ \A k \in 1 .. Len(table) : table'[k] = IF k = i THEN t ELSE table[k]
    BY <1>1, <2>1, ExceptSeq
  <2>3. DOMAIN table' = 1 .. Len(table)
    BY <2>2
  <2>4. \A k \in 1 .. Len(table) : table'[k].id = table[k].id
    BY <2>1, <2>2
  <2>5. Distinct(table')
    BY <1>1, <1>2, <2>3, <2>4 DEF Distinct
  <2>6. TimedBut(table', 0)
    BY <1>1, <1>2, <2>1, <2>2, <2>3 DEF TimedBut
  <2>7. TableKept
    BY <1>1, <1>3, <2>2, <2>5, <2>6 DEF TableKept
  <2>8. LateOnly
    BY <1>2, <2>3, <2>4 DEF LateOnly
  <2>9. table' # table
    <3>1. table[i].came \in Seq(Fragment)
      <4>1. table[i] \in Tracker
        BY <1>1
      <4> QED BY <4>1 DEF Tracker
    <3>2. Append(table[i].came, p) # table[i].came
      <4>1. Len(Append(table[i].came, p)) = Len(table[i].came) + 1 /\ Len(table[i].came) \in Nat
        BY <3>1
      <4>2. Len(table[i].came) + 1 # Len(table[i].came)
        BY <4>1
      <4> QED BY <4>1, <4>2
    <3>3. table'[i].came # table[i].came
      BY <2>1, <2>2, <3>2
    <3> QED BY <3>3
  <2> QED BY <2>7, <2>8, <2>9 DEF FullOnly
<1> QED BY <1>3, <1>4, <1>5

LEMMA NewKeeps ==
  ASSUME df \in DefragConf, now \in Nat, NEW p \in Fragment, NEW base \in Seq(Tracker),
         Len(base) < df.trackers, Distinct(base), TimedBut(base, 0), FragsOf(base) <= df.pool,
         \A k \in DOMAIN base : base[k].id # p.id,
         DefragInsertFrag(Append(base, NewTracker(p)), FragsOf(base), Len(base) + 1, p)
  PROVE  /\ TableKept /\ Len(table') = Len(base) + 1
         /\ \A k \in 1 .. Len(base) : table'[k] = base[k]
         /\ table'[Len(base) + 1].id = p.id
<1> DEFINE n == Len(base)
           new == NewTracker(p)
           tab == Append(base, new)
<1>1. new \in Tracker /\ new.id = p.id /\ new.frags = <<>> /\ Fresh(new)
  <2>1. p.id \in Nat \ {0}
    BY FragmentIs
  <2> QED BY <2>1 DEF NewTracker, Tracker, Fresh
<1>2. n \in Nat /\ DOMAIN base = 1 .. n /\ df.trackers \in Nat
  BY DEF DefragConf
<1> HIDE DEF new
<1>3. /\ tab \in Seq(Tracker) /\ Len(tab) = n + 1 /\ tab[n + 1] = new
      /\ \A k \in 1 .. n : tab[k] = base[k]
  BY <1>1
<1>4. FragsOf(tab) = FragsOf(base)
  <2>1. FragsOf(tab) = FragsOf(base) + Len(new.frags)
    BY <1>1, SumAppends
  <2>2. Len(new.frags) = 0 /\ FragsOf(base) \in Nat
    BY <1>1, RunningExists
  <2> QED BY <2>1, <2>2
<1>5. DefragInsertFrag(tab, FragsOf(tab), n + 1, p)
  BY <1>4 DEF new
<1>6. n + 1 \in 1 .. Len(tab)
  BY <1>2, <1>3
<1> HIDE DEF tab
<1>7. /\ frags' = FragsOf(table') /\ frags' <= df.pool
      /\ Completes(tab, n + 1) \/ Waits(tab, n + 1, p)
  BY <1>3, <1>4, <1>5, <1>6, InsertsFrag
<1>8. ~Completes(tab, n + 1)
  BY <1>1, <1>3 DEF Completes
<1>9. PICK t \in Tracker : /\ t.id = tab[n + 1].id /\ t.timeout = t.last + df.timeout
                           /\ table' = [tab EXCEPT ![n + 1] = t]
  BY <1>7, <1>8 DEF Waits
<1>10. /\ table' \in Seq(Tracker) /\ Len(table') = n + 1
       /\ \A k \in 1 .. n + 1 : table'[k] = IF k = n + 1 THEN t ELSE tab[k]
  BY <1>3, <1>6, <1>9, ExceptSeq
<1>11. /\ \A k \in 1 .. n : table'[k] = base[k]
       /\ table'[n + 1] = t /\ t.id = p.id
       /\ DOMAIN table' = (1 .. n) \cup {n + 1}
  <2>1. DOMAIN table' = 1 .. n + 1
    BY <1>10
  <2>2. 1 .. n + 1 = (1 .. n) \cup {n + 1} /\ n + 1 \notin 1 .. n
    BY <1>2
  <2>3. table'[n + 1] = t /\ t.id = p.id
    BY <2>2, <1>1, <1>3, <1>9, <1>10
  <2>4. \A k \in 1 .. n : table'[k] = base[k]
    BY <2>2, <1>3, <1>10
  <2> QED BY <2>1, <2>2, <2>3, <2>4
<1>12. Distinct(table')
  BY <1>2, <1>11 DEF Distinct
<1>13. TimedBut(table', 0)
  BY <1>2, <1>9, <1>11 DEF TimedBut
<1>14. TableKept
  BY <1>2, <1>7, <1>10, <1>12, <1>13 DEF TableKept
<1> QED BY <1>10, <1>11, <1>14

LEMMA DefragKeeps ==
  ASSUME DefragInv, NEW p \in Fragment, Defrag(p)
  PROVE  TableKept /\ LateOnly /\ FullOnly
<1> DEFINE found == Find(p)
           oldest == GiveUp
           n == Len(table)
<1>1. /\ df \in DefragConf /\ now \in Nat /\ table \in Seq(Tracker) /\ n <= df.trackers
      /\ Distinct(table) /\ TimedBut(table, 0) /\ frags = FragsOf(table) /\ frags <= df.pool
  BY DEF DefragInv, DefragTypeOK, Distinct
<1>2. n \in Nat /\ DOMAIN table = 1 .. n /\ df.trackers \in Nat /\ df.pool \in Nat
  BY <1>1 DEF DefragConf
<1>3. \/ found \in 1 .. n /\ table[found].id = p.id
      \/ found = 0 /\ \A i \in 1 .. n : table[i].id # p.id
  BY <1>1, <1>2, Found
<1>4. \/ oldest \in 1 .. n /\ PastTime(table[oldest])
      \/ oldest = 0 /\ \A i \in 1 .. n : ~PastTime(table[i])
  BY <1>1, <1>2, GivesUp
<1>5. LET x == DefragGetTracker(p, found, oldest)
      IN  IF x = <<>> THEN out' = Nothing /\ UNCHANGED <<table, frags>>
          ELSE DefragInsertFrag(x[1], x[2], x[3], p)
  BY DEF Defrag
<1> HIDE DEF found, oldest
<1>6. CASE found # 0
  <2>1. DefragGetTracker(p, found, oldest) = <<table, frags, found>>
    BY <1>6 DEF DefragGetTracker
  <2>2. DefragInsertFrag(table, frags, found, p)
    BY <1>5, <2>1
  <2> QED BY <1>3, <1>6, <2>2, FoundKeeps
<1>7. CASE found = 0 /\ n < df.trackers
  <2>1. DefragGetTracker(p, found, oldest) = <<Append(table, NewTracker(p)), frags, n + 1>>
    BY <1>7 DEF DefragGetTracker
  <2>2. DefragInsertFrag(Append(table, NewTracker(p)), frags, n + 1, p)
    BY <1>5, <2>1
  <2>3. \A i \in 1 .. n : table[i].id # p.id
    BY <1>2, <1>3, <1>7
  <2>4. /\ TableKept /\ Len(table') = n + 1 /\ \A k \in 1 .. n : table'[k] = table[k]
    BY <1>1, <1>2, <1>7, <2>2, <2>3, NewKeeps
  <2>5. \A k \in 1 .. n : k \in DOMAIN table'
    BY <1>2, <2>4 DEF TableKept
  <2>6. LateOnly
    BY <1>2, <2>4, <2>5 DEF LateOnly
  <2>7. FullOnly
    BY <1>2, <2>4 DEF FullOnly
  <2> QED BY <2>4, <2>6, <2>7
<1>8. CASE found = 0 /\ ~(n < df.trackers) /\ oldest # 0
  <2> DEFINE base == RemoveAt(table, oldest)
             given == frags - Len(table[oldest].frags)
  <2>0. oldest \in 1 .. n /\ PastTime(table[oldest])
    BY <1>4, <1>8
  <2>1. TimedBut(table, oldest)
    BY <1>1, <1>2 DEF TimedBut
  <2>2. /\ base \in Seq(Tracker) /\ Len(base) = n - 1 /\ Distinct(base) /\ TimedBut(base, 0)
        /\ \A k \in 1 .. n : k # oldest => \E j \in DOMAIN base : base[j] = table[k]
        /\ \A j \in DOMAIN base : \E k \in 1 .. n : base[j] = table[k]
    BY <1>1, <2>0, <2>1, RemovedKeeps
  <2>3. FragsOf(base) = given /\ given <= df.pool
    <3>1. FragsOf(base) = given /\ FragsOf(base) \in Nat
      BY <1>1, <2>0, SumRemoves
    <3>2. Len(table[oldest].frags) \in Nat
      BY <1>1, <2>0, AmountIs DEF Amount
    <3>3. frags \in Nat
      BY <1>1, RunningExists
    <3> QED BY <3>1, <3>2, <3>3, <1>1, <1>2
  <2>4. Len(table) = Len(base) + 1
    BY <1>2, <2>2
  <2>5. DefragGetTracker(p, found, oldest) = <<Append(base, NewTracker(p)), given, n>>
    BY <1>8 DEF DefragGetTracker
  <2>6. DefragInsertFrag(Append(base, NewTracker(p)), FragsOf(base), Len(base) + 1, p)
    BY <1>5, <2>3, <2>4, <2>5
  <2> HIDE DEF base, given
  <2>7. \A k \in DOMAIN base : base[k].id # p.id
    BY <1>2, <1>3, <1>8, <2>2
  <2>8. /\ TableKept /\ Len(table') = Len(base) + 1
        /\ \A k \in 1 .. Len(base) : table'[k] = base[k]
        /\ table'[Len(base) + 1].id = p.id
    <3>1. Len(base) < df.trackers
      BY <1>1, <1>2, <2>2
    <3> QED BY <3>1, <1>1, <2>2, <2>3, <2>6, <2>7, NewKeeps
  <2>9. LateOnly
    <3> SUFFICES ASSUME NEW k \in 1 .. n, Alive(table[k])
                 PROVE  \E j \in DOMAIN table' : table'[j].id = table[k].id
      BY <1>2 DEF LateOnly
    <3>1. k # oldest
      BY <2>0, <1>1, InTheTable
    <3>2. PICK j \in DOMAIN base : base[j] = table[k]
      BY <3>1, <2>2
    <3>3. j \in 1 .. Len(base) /\ j \in DOMAIN table'
      BY <1>2, <2>2, <2>8 DEF TableKept
    <3> QED BY <3>2, <3>3, <2>8
  <2>10. FullOnly
    <3>1. table'[n].id = p.id /\ n \in 1 .. n
      BY <1>2, <2>0, <2>4, <2>8
    <3>2. table[n].id # p.id
      BY <3>1, <1>2, <1>3, <1>8
    <3> QED BY <3>1, <3>2 DEF FullOnly
  <2> QED BY <2>8, <2>9, <2>10
<1>9. CASE found = 0 /\ ~(n < df.trackers) /\ oldest = 0
  <2>1. DefragGetTracker(p, found, oldest) = <<>>
    BY <1>9 DEF DefragGetTracker
  <2>2. table' = table /\ frags' = frags
    BY <1>5, <2>1
  <2>3. TableKept
    BY <1>1, <2>2 DEF TableKept
  <2>4. LateOnly
    BY <2>2 DEF LateOnly
  <2>5. \A i \in 1 .. n : Alive(table[i])
    BY <1>1, <1>2, <1>4, <1>9, InTheTable
  <2>6. FullOnly
    BY <1>2, <2>5 DEF FullOnly
  <2> QED BY <2>3, <2>4, <2>6
<1> QED BY <1>6, <1>7, <1>8, <1>9

LEMMA ReceiveKeeps ==
  ASSUME DefragInv, ReceiveFragment
  PROVE  DefragInv' /\ LateOnly /\ FullOnly
<1>1. df \in DefragConf /\ now \in Nat
  BY DEF DefragInv, DefragTypeOK
<1>2. PICK p \in df.sends :
        /\ Defrag([p EXCEPT !.who = IF df.differ THEN df.packets ELSE p.id])
        /\ df' = [df EXCEPT !.packets = @ - 1, !.sends = IF df.once THEN @ \ {p} ELSE @]
        /\ df.packets > 0 /\ now' = now
  BY DEF ReceiveFragment
<1>3. df.packets \in Nat /\ df.sends \in SUBSET Fragment
  BY <1>1 DEF DefragConf
<1> DEFINE who == IF df.differ THEN df.packets ELSE p.id
           q == [p EXCEPT !.who = who]
<1>4. q \in Fragment
  <2>1. p \in [id : Nat \ {0}, off : Nat, len : Nat, mf : BOOLEAN, who : Nat] /\ (p.off > 0 \/ p.mf)
    BY <1>3, FragmentIs
  <2>2. who \in Nat
    BY <2>1, <1>3
  <2> HIDE DEF who
  <2>3. q \in [id : Nat \ {0}, off : Nat, len : Nat, mf : BOOLEAN, who : Nat]
    BY <2>1, <2>2
  <2>4. q.off = p.off /\ q.mf = p.mf
    BY <2>1
  <2> QED BY <2>1, <2>3, <2>4 DEF Fragment
<1>5. TableKept /\ LateOnly /\ FullOnly
  BY <1>2, <1>4, DefragKeeps
<1>6. /\ df' \in DefragConf
      /\ df'.trackers = df.trackers /\ df'.pool = df.pool /\ df'.timeout = df.timeout
  <2> DEFINE packets == df.packets - 1
             sends == IF df.once THEN df.sends \ {p} ELSE df.sends
  <2>1. packets \in Nat /\ sends \in SUBSET Fragment
    BY <1>2, <1>3
  <2>2. df' = [df EXCEPT !.packets = packets, !.sends = sends]
    BY <1>2
  <2> HIDE DEF packets, sends
  <2> QED BY <1>1, <2>1, <2>2 DEF DefragConf
<1>7. DefragTypeOK'
  BY <1>1, <1>2, <1>5, <1>6 DEF TableKept, DefragTypeOK, Distinct
<1>8. TimedBut(table, 0)'
  BY <1>5, <1>6 DEF TableKept, TimedBut
<1> QED BY <1>5, <1>7, <1>8 DEF DefragInv

LEMMA DefragStart == ASSUME DefragAssumption, DefragInit PROVE DefragInv
<1>1. df \in DefragConf /\ table = <<>> /\ frags = 0 /\ now = 0
  BY DEF DefragAssumption, DefragInit
<1>2. df.trackers \in Nat /\ df.pool \in Nat
  BY <1>1 DEF DefragConf
<1>3. table \in Seq(Tracker) /\ Len(table) = 0 /\ DOMAIN table = {}
  BY <1>1
<1> QED BY <1>1, <1>2, <1>3, SumOfNone DEF DefragInv, DefragTypeOK, TimedBut

LEMMA DefragInvKept == ASSUME DefragInv, [DefragNext]_defragVars PROVE DefragInv'
<1>1. CASE ReceiveFragment
  BY <1>1, ReceiveKeeps
<1>2. CASE DefragTick
  <2>1. now' = now + 1 /\ now \in Nat /\ UNCHANGED <<df, table, frags>>
    BY <1>2 DEF DefragTick, DefragInv, DefragTypeOK
  <2> QED BY <2>1 DEF DefragInv, DefragTypeOK, TimedBut
<1>3. CASE UNCHANGED defragVars
  BY <1>3 DEF defragVars, DefragInv, DefragTypeOK, TimedBut
<1> QED BY <1>1, <1>2, <1>3 DEF DefragNext

\* Every fragment that frag_pool has handed out hangs in the list of one tracker, each
\* datagram has one tracker, and neither pool gives more than it has: DefragInsertFrag,
\* DefragGetTracker and DefragTrackerReset account for all of them.
THEOREM FragmentsAreReturned ==
  ASSUME DefragAssumption
  PROVE  DefragSpec => []DefragTypeOK
<1>1. DefragInit => DefragInv
  BY DefragStart
<1>2. DefragInv /\ [DefragNext]_defragVars => DefragInv'
  BY DefragInvKept
<1>3. DefragInv => DefragTypeOK
  BY DEF DefragInv
<1> QED BY <1>1, <1>2, <1>3, PTL DEF DefragSpec

\* DefragTimeoutTracker gives up only trackers whose last fragment is longer ago than the
\* timeout, whatever the order of the list, and DefragGetTracker leaves a datagram without
\* one only while all trackers are in use within it.
THEOREM TrackersAreKept ==
  ASSUME DefragAssumption
  PROVE  DefragSpec => TrackersKept
<1> DEFINE Lost == \A i \in DOMAIN table :
                     Alive(table[i]) => \/ \E j \in DOMAIN table' : table'[j].id = table[i].id
                                        \/ out'.id = table[i].id
           Full == df' # df /\ table' = table => \A i \in DOMAIN table : Alive(table[i])
<1>1. DefragInit => DefragInv
  BY DefragStart
<1>2. DefragInv /\ [DefragNext]_defragVars => DefragInv'
  BY DefragInvKept
<1>3. ASSUME DefragInv, [DefragNext]_defragVars PROVE [Lost]_defragVars /\ [Full]_defragVars
  <2>1. CASE ReceiveFragment
    <3>1. LateOnly /\ FullOnly
      BY <1>3, <2>1, ReceiveKeeps
    <3> QED BY <3>1 DEF LateOnly, FullOnly
  <2>2. CASE DefragTick
    BY <2>2 DEF DefragTick
  <2>3. CASE UNCHANGED defragVars
    BY <2>3
  <2> QED BY <1>3, <2>1, <2>2, <2>3 DEF DefragNext
<1> HIDE DEF Lost, Full
<1>4. DefragSpec => [][Lost]_defragVars /\ [][Full]_defragVars
  BY <1>1, <1>2, <1>3, PTL DEF DefragSpec
<1> QED BY <1>4 DEF Lost, Full, TrackersKept, GivenUpLate, RefusedWhenFull
=============================================================================
