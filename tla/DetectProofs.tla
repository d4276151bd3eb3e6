----------------------------- MODULE DetectProofs -----------------------------
(* No transaction of an HTTP flow is freed before it is inspected and      *)
(* logged, a stateful rule alerts for what is in the requests and once for *)
(* a transaction, and no request is passed without the alerts it deserves. *)
EXTENDS DetectState, FiniteSetTheorems, SequenceTheorems, WellFoundedInduction, TLAPS

---------------------------------------------------------------------------
(* Numbers in order                                                        *)

LEMMA AllNaturals ==
  ASSUME NEW T, 0 \in T, \A n \in Nat : n \in T => n + 1 \in T
  PROVE  Nat \subseteq T
<1> DEFINE R == {ss \in Nat \X Nat : ss[1] < ss[2]}
           Others == Nat \ T
<1>1. IsWellFoundedOn(R, Nat)
  BY NatLessThanWellFounded DEF OpToRel
<1> SUFFICES ASSUME Others # {} PROVE FALSE
  OBVIOUS
<1>2. PICK n \in Others : \A m \in Others : ~(<<m, n>> \in R)
  <2> HIDE DEF R
  <2> QED BY <1>1, WFMin
<1>3. n \in Nat /\ n \notin T /\ n # 0
  BY <1>2
<1>4. n - 1 \in Nat /\ <<n - 1, n>> \in R
  BY <1>3
<1>5. n - 1 \in T
  BY <1>2, <1>4
<1> QED BY <1>3, <1>4, <1>5

Rises(s) == \A i, j \in DOMAIN s : i < j => s[i] < s[j]

LEMMA Enumerable ==
  ASSUME NEW n \in Nat, NEW S \in SUBSET (1 .. n)
  PROVE  /\ IsFiniteSet(S) /\ Cardinality(S) \in Nat
         /\ \E s \in [1 .. Cardinality(S) -> S] : Rises(s)
<1> DEFINE Enum(U) == \E s \in [1 .. Cardinality(U) -> U] : Rises(s)
           T == {k \in Nat : \A U \in SUBSET (1 .. k) : Enum(U)}
<1>0. \A k \in Nat : \A U \in SUBSET (1 .. k) : IsFiniteSet(U) /\ Cardinality(U) \in Nat
  <2> TAKE k \in Nat
  <2>1. IsFiniteSet(1 .. k)
    BY FS_Interval
  <2> QED BY <2>1, FS_Subset, FS_CardinalityType
<1>1. 0 \in T
  <2> SUFFICES ASSUME NEW U \in SUBSET (1 .. 0) PROVE Enum(U)
    OBVIOUS
  <2>1. U = {}
    OBVIOUS
  <2>2. Cardinality(U) = 0
    BY <2>1, FS_EmptySet
  <2> DEFINE s == [i \in 1 .. 0 |-> i]
  <2>3. s \in [1 .. Cardinality(U) -> U] /\ Rises(s)
    BY <2>1, <2>2 DEF Rises
  <2> QED BY <2>3
<1>2. ASSUME NEW k \in Nat, k \in T PROVE k + 1 \in T
  <2> SUFFICES ASSUME NEW U \in SUBSET (1 .. k + 1) PROVE Enum(U)
    OBVIOUS
  <2>1. CASE k + 1 \notin U
    <3>1. U \in SUBSET (1 .. k)
      BY <2>1
    <3> QED BY <1>2, <3>1
  <2>2. CASE k + 1 \in U
    <3> DEFINE V == U \ {k + 1}
               N == Cardinality(V)
    <3>1. V \in SUBSET (1 .. k)
      OBVIOUS
    <3>2. N \in Nat /\ Cardinality(U) = N + 1
      <4>1. k + 1 \in Nat
        OBVIOUS
      <4>4. IsFiniteSet(U) /\ Cardinality(U) \in Nat
        BY <1>0, <4>1
      <4>2. Cardinality(V) = Cardinality(U) - 1 /\ IsFiniteSet(V)
        BY <2>2, <4>4, FS_RemoveElement
      <4>3. Cardinality(V) \in Nat
        BY <4>2, FS_CardinalityType
      <4> QED BY <4>4, <4>2, <4>3
    <3>3. PICK v \in [1 .. N -> V] : Rises(v)
      BY <1>2, <3>1
    <3> HIDE DEF N
    <3> DEFINE s == [i \in 1 .. N + 1 |-> IF i = N + 1 THEN k + 1 ELSE v[i]]
    <3>4. \A i \in 1 .. N : v[i] \in 1 .. k /\ v[i] \in U
      BY <3>1, <3>3
    <3>5. s \in [1 .. N + 1 -> U]
      BY <2>2, <3>2, <3>4
    <3>6. ASSUME NEW i \in 1 .. N + 1, NEW j \in 1 .. N + 1, i < j PROVE s[i] < s[j]
      BY <3>2, <3>3, <3>4, <3>6 DEF Rises
    <3>7. Rises(s)
      BY <3>6 DEF Rises
    <3> QED BY <3>2, <3>5, <3>7
  <2> QED BY <2>1, <2>2
<1> HIDE DEF T
<1>3. n \in T
  BY <1>1, <1>2, AllNaturals
<1> QED BY <1>0, <1>3 DEF T

LEMMA OrderIs ==
  ASSUME NEW n \in Nat, NEW S \in SUBSET (1 .. n)
  PROVE  /\ Cardinality(S) \in Nat
         /\ InOrder(S) \in [1 .. Cardinality(S) -> S] /\ Rises(InOrder(S))
         /\ \A x \in S : \E i \in 1 .. Cardinality(S) : InOrder(S)[i] = x
         /\ \A i, j \in 1 .. Cardinality(S) : InOrder(S)[i] = InOrder(S)[j] => i = j
<1> DEFINE N == Cardinality(S)
           s == InOrder(S)
<1>1. N \in Nat /\ IsFiniteSet(S)
  BY Enumerable
<1>2. s \in [1 .. N -> S] /\ Rises(s)
  <2>1. \E z \in [1 .. N -> S] : \A i, j \in DOMAIN z : i < j => z[i] < z[j]
    BY Enumerable DEF Rises
  <2> QED BY <2>1 DEF InOrder, Rises
<1> HIDE DEF N, s
<1>3. \A i, j \in 1 .. N : s[i] = s[j] => i = j
  <2> TAKE i, j \in 1 .. N
  <2>1. s[i] \in Nat /\ s[j] \in Nat /\ DOMAIN s = 1 .. N
    <3>1. s[i] \in S /\ s[j] \in S /\ DOMAIN s = 1 .. N
      BY <1>2
    <3>2. \A x \in S : x \in Nat
      OBVIOUS
    <3> QED BY <3>1, <3>2
  <2>2. (i < j => s[i] < s[j]) /\ (j < i => s[j] < s[i])
    BY <1>2, <2>1 DEF Rises
  <2> QED BY <1>1, <2>1, <2>2
<1>4. s \in Injection(1 .. N, S)
  BY <1>2, <1>3 DEF Injection, IsInjective
<1>5. Cardinality(1 .. N) = Cardinality(S)
  <2>1. Cardinality(1 .. N) = IF 1 > N THEN 0 ELSE N - 1 + 1
    BY <1>1, FS_Interval
  <2>2. Cardinality(S) = N
    BY DEF N
  <2> QED BY <1>1, <2>1, <2>2
<1>6. s \in Surjection(1 .. N, S)
  BY <1>1, <1>4, <1>5, FS_Injection
<1>7. \A x \in S : \E i \in 1 .. N : s[i] = x
  BY <1>6 DEF Surjection
<1> QED BY <1>1, <1>2, <1>3, <1>7 DEF N, s

LEMMA OrderOfInterval ==
  ASSUME NEW a \in Nat, NEW b \in Nat, a <= b
  PROVE  InOrder(a + 1 .. b) = [i \in 1 .. b - a |-> a + i]
<1> DEFINE S == a + 1 .. b
           s == InOrder(S)
<1>1. Cardinality(S) = b - a
  <2>1. Cardinality(a + 1 .. b) = IF a + 1 > b THEN 0 ELSE b - (a + 1) + 1
    BY FS_Interval
  <2> QED BY <2>1
<1>2. S \in SUBSET (1 .. b)
  OBVIOUS
<1> HIDE DEF S
<1>3. s \in [1 .. b - a -> S] /\ Rises(s)
  BY <1>1, <1>2, OrderIs
<1> HIDE DEF s
<1>4. \A i \in 1 .. b - a : s[i] \in Nat /\ a + 1 <= s[i] /\ s[i] <= b
  BY <1>3 DEF S
<1>5. \A i \in 1 .. b - a : a + i <= s[i]
  <2> DEFINE T == {k \in Nat : k + 1 \in 1 .. b - a => a + k + 1 <= s[k + 1]}
  <2>1. 0 \in T
    BY <1>4
  <2>2. ASSUME NEW k \in Nat, k \in T PROVE k + 1 \in T
    <3> SUFFICES ASSUME k + 2 \in 1 .. b - a PROVE a + k + 2 <= s[k + 2]
      OBVIOUS
    <3>1. k + 1 \in 1 .. b - a /\ k + 1 < k + 2
      OBVIOUS
    <3>2. s[k + 1] < s[k + 2]
      BY <1>3, <3>1 DEF Rises
    <3> QED BY <1>4, <2>2, <3>1, <3>2
  <2> HIDE DEF T
  <2>3. Nat \subseteq T
    BY <2>1, <2>2, AllNaturals
  <2> TAKE i \in 1 .. b - a
  <2>4. i - 1 \in T
    BY <2>3
  <2> QED BY <2>4 DEF T
<1>6. \A i \in 1 .. b - a : s[i] <= a + i
  <2> DEFINE T == {k \in Nat : b - a - k \in 1 .. b - a => s[b - a - k] <= b - k}
  <2>1. 0 \in T
    BY <1>4
  <2>2. ASSUME NEW k \in Nat, k \in T PROVE k + 1 \in T
    <3> SUFFICES ASSUME b - a - (k + 1) \in 1 .. b - a PROVE s[b - a - (k + 1)] <= b - (k + 1)
      OBVIOUS
    <3>1. b - a - k \in 1 .. b - a /\ b - a - (k + 1) < b - a - k
      OBVIOUS
    <3>2. s[b - a - (k + 1)] < s[b - a - k]
      BY <1>3, <3>1 DEF Rises
    <3> QED BY <1>4, <2>2, <3>1, <3>2
  <2> HIDE DEF T
  <2>3. Nat \subseteq T
    BY <2>1, <2>2, AllNaturals
  <2> TAKE i \in 1 .. b - a
  <2>4. b - a - i \in T /\ b - a - (b - a - i) = i
    BY <2>3
  <2> QED BY <2>4 DEF T
<1>7. \A i \in 1 .. b - a : s[i] = a + i
  BY <1>4, <1>5, <1>6
<1> QED BY <1>3, <1>7 DEF s, S
---------------------------------------------------------------------------
(* The inductive invariant                                                 *)

Place == {"idle", "has", "continue", "uri", "parts", "store", "end", "reset"}
Inspecting == {"uri", "parts", "store"}
Tx == [has : ds.sends \cup {{}}, whole : BOOLEAN, gone : BOOLEAN]
Http == [txs : Seq(Tx), cnt : Nat, new : BOOLEAN, done : Nat, answers : Nat]
IdSet == [avail : Nat, inspect : Nat, logged : Nat, base : Nat, flags : SUBSET Directions, eof : BOOLEAN]
Worker == [at : Place, dir : Directions, start : BOOLEAN, i : Nat, uri : BOOLEAN, nm : Nat, lo : Nat,
           sigs : [DOMAIN ds.rules -> {"full", "new", "partial"}]]

Typed ==
  /\ ds \in DsConfs /\ http \in Http /\ ids \in IdSet
  /\ de_state \in Seq([rule : DOMAIN ds.rules, uri : BOOLEAN, nm : Nat])
  /\ det \in [ds.threads -> Worker]
  /\ packets \in Nat /\ logbook \in Seq(Nat)
  /\ alerts \in Seq([rule : DOMAIN ds.rules, lo : Nat, upto : Nat])

(* The transactions and the ids that count them.                           *)
Requests == Len(http.txs)
Transactions ==
  /\ ids.avail = Requests
  /\ http.txs = <<>> => http.cnt = 0 /\ ~http.new
  /\ http.txs # <<>> => Requests = http.cnt + 1 /\ http.new = http.txs[Requests].whole
  /\ \A k \in 1 .. Requests : k < Requests => http.txs[k].whole
  /\ \A k \in 1 .. Requests : http.txs[k].whole \/ (http.txs[k].has = {} /\ ds.split)
Freed ==
  /\ ids.base <= ids.inspect /\ (ds.logger => ids.base <= ids.logged) /\ http.done <= ids.base
  /\ ids.inspect < Requests \/ ids.inspect = 0
  /\ \A k \in 1 .. Requests : http.txs[k].gone => k <= ids.base
Logged ==
  /\ ids.logged < Requests \/ ids.eof \/ ids.logged = 0
  /\ ids.logged <= Requests /\ (~ds.logger => ids.logged = 0)
  /\ logbook = [n \in 1 .. ids.logged |-> n]
TxInv == Typed /\ Transactions /\ Freed /\ Logged

(* Where a thread is in its list; de_state_m keeps the items in place.     *)
Past(rule) == Len(rule.parts) + 1
Item(items, w) == IF w.start THEN w.i ELSE items[w.i].rule
Sits(rules, items, w) ==
  /\ w.at \in Inspecting =>
       /\ w.i \in 1 .. (IF w.start THEN Len(rules) ELSE Len(items))
       /\ w.nm \in 1 .. Past(rules[Item(items, w)])
       /\ ~w.start => items[w.i].nm <= w.nm
  /\ w.at \in {"idle", "has", "continue", "reset"} => ~w.start
  /\ w.at \in Inspecting /\ w.start => w.dir = "toserver"
Placed ==
  /\ \A t, u \in ds.threads : Continues(det[t]) /\ Continues(det[u]) => t = u
  /\ \A t \in ds.threads :
       Sits(ds.rules, de_state, det[t]) /\ (det[t].at # "idle" => Requests > 0)
  /\ \A n \in 1 .. Len(de_state) : de_state[n].nm \in 1 .. Past(ds.rules[de_state[n].rule])

(* The first parts of a rule, and a URI, are in the requests.              *)
Met(txs, rule, nm) ==
  \A i \in 1 .. Len(rule.parts) : i < nm => \E k \in 1 .. Len(txs) : rule.parts[i] \in txs[k].has
UriIn(txs, lo, upto) == \E k \in 1 .. Len(txs) : "uri" \in txs[k].has /\ lo < k /\ k <= upto

Holds(rules, items, txs, w) ==
  /\ w.at \in Inspecting =>
       Met(txs, rules[Item(items, w)], w.nm) /\ (w.uri => UriIn(txs, 0, Len(txs)))
  /\ \A r \in DOMAIN rules : w.sigs[r] = "new" =>
       /\ Met(txs, rules[r], Past(rules[r]))
       /\ w.dir = "toserver" /\ rules[r].uri => UriIn(txs, 0, Len(txs))
Matched ==
  /\ \A n \in 1 .. Len(de_state) :
       /\ Met(http.txs, ds.rules[de_state[n].rule], de_state[n].nm)
       /\ de_state[n].uri => UriIn(http.txs, 0, Requests)
  /\ \A t \in ds.threads : Holds(ds.rules, de_state, http.txs, det[t])
  /\ \A n \in 1 .. Len(alerts) :
       /\ Met(http.txs, ds.rules[alerts[n].rule], Past(ds.rules[alerts[n].rule]))
       /\ ds.rules[alerts[n].rule].uri => UriIn(http.txs, 0, alerts[n].upto)

(* One thread: what an item says is of the transaction under inspection.   *)
Alerted(log, r, lo) == \E n \in 1 .. Len(log) : log[n].rule = r /\ log[n].lo = lo
ItemDone(rule, item) == item.nm = Past(rule) /\ (rule.uri => item.uri)
Unique(rules, txs, log, lo) ==
  /\ \A n \in 1 .. Len(log) :
       /\ log[n].lo <= lo
       /\ rules[log[n].rule].uri => UriIn(txs, log[n].lo, log[n].upto)
  /\ \A n, o \in 1 .. Len(log) : log[n].rule = log[o].rule /\ log[n].lo = log[o].lo => n = o
OwnItems(txs, items, lo) ==
  \A n \in 1 .. Len(items) : items[n].rule = n /\ (items[n].uri => UriIn(txs, lo, Len(txs)))
Ended(rules, items, log, lo) ==
  \A r \in DOMAIN rules : Alerted(log, r, lo) => r \in 1 .. Len(items) /\ ItemDone(rules[r], items[r])
Found(rules, txs, items, log, lo, w) ==
  \A r \in DOMAIN rules : w.sigs[r] = "new" =>
    /\ ~w.start /\ ~Alerted(log, r, lo) /\ w.lo = lo /\ r \in 1 .. Len(items)
    /\ w.dir = "toserver" => /\ ItemDone(rules[r], items[r])
                             /\ rules[r].uri => UriIn(txs, lo, Len(txs))
Looks(txs, items, lo, w) ==
  /\ w.at \in {"parts", "store"} => w.lo = lo /\ (w.uri => UriIn(txs, lo, Len(txs)))
  /\ w.at \in Inspecting /\ w.start => Len(items) = w.i - 1
Current(rules, txs, items, log, lo, w) ==
  /\ OwnItems(txs, items, lo) /\ Ended(rules, items, log, lo)
  /\ Found(rules, txs, items, log, lo, w) /\ Looks(txs, items, lo, w)
OneThread ==
  \A t \in ds.threads : ds.threads = {t} =>
    /\ Unique(ds.rules, http.txs, alerts, ids.inspect)
    /\ det[t].at = "reset" => \A r \in DOMAIN ds.rules : ~Alerted(alerts, r, ids.inspect)
    /\ det[t].at # "reset" => Current(ds.rules, http.txs, de_state, alerts, ids.inspect, det[t])

(* Whole requests: none is passed before it was judged.                    *)
Suits(rule, tx) == (rule.uri => "uri" \in tx.has) /\ \A i \in 1 .. Len(rule.parts) : rule.parts[i] \in tx.has
Served(log, r, k) == \E n \in 1 .. Len(log) : log[n].rule = r /\ log[n].lo < k /\ k <= log[n].upto
Now(rules, txs, log, r, k) == k <= Len(txs) /\ (Suits(rules[r], txs[k]) => Served(log, r, k))
AllNow(rules, txs, log, k) == \A r \in DOMAIN rules : Now(rules, txs, log, r, k)
Judging(rules, txs, items, log, d, w) ==
  IF w.start /\ w.at \in Inspecting
  THEN /\ \A r \in 1 .. w.i - 1 : Now(rules, txs, log, r, d.inspect + 1)
       /\ Suits(rules[w.i], txs[d.inspect + 1]) =>
            /\ w.at # "uri" => (rules[w.i].uri => w.uri)
            /\ w.at = "store" => w.nm = Past(rules[w.i])
  ELSE IF w.at \in {"idle", "has"} \/ (w.start /\ w.dir = "toclient")
  THEN Len(items) > 0 \/ "toserver" \in d.flags => AllNow(rules, txs, log, d.inspect + 1)
  ELSE AllNow(rules, txs, log, d.inspect + 1)
Judged ==
  \A t \in ds.threads : ds.threads = {t} /\ ~ds.split =>
    /\ \A k \in 1 .. ids.inspect : AllNow(ds.rules, http.txs, alerts, k)
    /\ det[t].at = "reset" => ids.flags = {}
    /\ det[t].at # "reset" => Judging(ds.rules, http.txs, de_state, alerts, ids, det[t])

DetectInv == TxInv /\ Placed /\ Matched /\ OneThread /\ Judged
---------------------------------------------------------------------------
(* The requests                                                            *)

LEMMA Scenario ==
  ASSUME DetectAssumption, ds \in DsConfs
  PROVE  /\ DOMAIN ds.rules = 1 .. Len(ds.rules) /\ Len(ds.rules) \in Nat
         /\ \A r \in DOMAIN ds.rules :
              /\ Rule(r).uri \in BOOLEAN /\ DOMAIN Rule(r).parts = 1 .. Len(Rule(r).parts)
              /\ Len(Rule(r).parts) \in Nat /\ Done(r) = Len(Rule(r).parts) + 1
              /\ Rule(r).uri \/ Rule(r).parts # <<>>
         /\ IsFiniteSet(ds.threads) /\ ds.threads # {}
         /\ ds.requests \in Nat /\ ds.packets \in Nat
         /\ ds.split \in BOOLEAN /\ ds.close \in BOOLEAN /\ ds.logger \in BOOLEAN
BY DEF DetectAssumption, Rule, Done

HttpStep == Request \/ RequestRest \/ Response \/ Eof

(* What a step of the parser does to the requests.                         *)
Grown ==
  /\ UNCHANGED <<ds, de_state, det, packets, alerts>>
  /\ UNCHANGED <<ids.inspect, ids.flags>>
  /\ Requests <= Requests'
  /\ \A k \in 1 .. Requests :
       /\ http.txs[k].has \subseteq http'.txs[k].has
       /\ ds.split \/ http'.txs[k].has = http.txs[k].has

LEMMA CleanupIs ==
  ASSUME DetectAssumption, Typed, NEW h \in Http, NEW d \in IdSet, Cleanup(h, d)
  PROVE  /\ http' \in Http /\ ids' \in IdSet
         /\ http'.txs = h.txs /\ http'.cnt = h.cnt /\ http'.new = h.new
         /\ ids'.avail = d.avail /\ ids'.inspect = d.inspect /\ ids'.logged = d.logged
         /\ ids'.flags = d.flags /\ ids'.eof = d.eof
         /\ d.base <= d.inspect /\ (ds.logger => d.base <= d.logged) /\ h.done <= d.base =>
              /\ d.base <= ids'.base /\ http'.done <= ids'.base
              /\ ids'.base <= d.inspect /\ (ds.logger => ids'.base <= d.logged)
<1> DEFINE low == IF ds.logger /\ d.logged < d.inspect THEN d.logged ELSE d.inspect
<1>1. /\ http' = IF low > d.base THEN [h EXCEPT !.done = low - 1] ELSE h
      /\ ids' = [d EXCEPT !.base = low]
  BY DEF Cleanup
<1>2. low \in Nat /\ d.base \in Nat /\ d.inspect \in Nat /\ d.logged \in Nat /\ h.done \in Nat
      /\ low <= d.inspect /\ (ds.logger => low <= d.logged) /\ low \in {d.logged, d.inspect}
      /\ (~ds.logger => low = d.inspect)
  BY DEF Http, IdSet
<1>3. d.base <= d.inspect /\ (ds.logger => d.base <= d.logged) => d.base <= low
  BY <1>2
<1> HIDE DEF low
<1>4. /\ ids' \in IdSet /\ ids'.avail = d.avail /\ ids'.inspect = d.inspect /\ ids'.logged = d.logged
      /\ ids'.flags = d.flags /\ ids'.eof = d.eof /\ ids'.base = low
  BY <1>1, <1>2 DEF IdSet
<1>5. CASE low > d.base
  <2>1. /\ http' \in Http /\ http'.txs = h.txs /\ http'.cnt = h.cnt /\ http'.new = h.new
        /\ http'.done = low - 1
    BY <1>1, <1>2, <1>5 DEF Http
  <2> QED BY <1>2, <1>3, <1>4, <2>1
<1>6. CASE ~(low > d.base)
  <2>1. http' = h
    BY <1>1, <1>6
  <2> QED BY <1>2, <1>3, <1>4, <1>6, <2>1 DEF Http
<1> QED BY <1>5, <1>6

LEMMA TxHttp ==
  ASSUME DetectAssumption, TxInv, HttpStep
  PROVE  TxInv' /\ Grown
<1> DEFINE N == Requests
<1>0. /\ N \in Nat /\ http.txs \in Seq(Tx) /\ DOMAIN http.txs = 1 .. N
      /\ (http.txs = <<>> <=> N = 0) /\ \A k \in 1 .. N : http.txs[k] \in Tx
  BY DEF TxInv, Typed, Http, Requests
<1>1. /\ UNCHANGED <<ds, de_state, det, packets, logbook, alerts>>
  BY DEF HttpStep, Request, RequestRest, Response, Eof, Parsed
<1>2. ASSUME NEW h \in Http, NEW d \in IdSet, Cleanup(h, d),
             d.inspect = ids.inspect, d.logged = ids.logged, d.flags = ids.flags, d.base = ids.base,
             d.avail = Len(h.txs), ids.eof => d.eof, h.done = http.done,
             h.cnt + 1 = Len(h.txs), h.new = h.txs[Len(h.txs)].whole,
             N <= Len(h.txs), d.eof => N = Len(h.txs) \/ ids.eof, Len(h.txs) # 0,
             \A k \in 1 .. N :
                 /\ http.txs[k].has \subseteq h.txs[k].has
                 /\ ds.split \/ h.txs[k].has = http.txs[k].has,
             \A k \in 1 .. Len(h.txs) :
               /\ k < Len(h.txs) => h.txs[k].whole
               /\ h.txs[k].whole \/ (h.txs[k].has = {} /\ ds.split)
               /\ h.txs[k].gone => k <= ids.base
      PROVE  TxInv' /\ Grown
  <2>1. /\ ids.base <= ids.inspect /\ (ds.logger => ids.base <= ids.logged) /\ http.done <= ids.base
        /\ ids.inspect < N \/ ids.inspect = 0
        /\ ids.base \in Nat /\ ids.inspect \in Nat /\ ids.logged \in Nat
    BY DEF TxInv, Freed, Typed, IdSet
  <2>2. /\ http' \in Http /\ ids' \in IdSet
        /\ http'.txs = h.txs /\ http'.cnt = h.cnt /\ http'.new = h.new
        /\ ids'.avail = d.avail /\ ids'.inspect = ids.inspect /\ ids'.logged = ids.logged
        /\ ids'.flags = ids.flags /\ ids'.eof = d.eof
        /\ ids.base <= ids'.base /\ http'.done <= ids'.base
        /\ ids'.base <= ids.inspect /\ (ds.logger => ids'.base <= ids.logged)
        /\ ids'.base \in Nat
    <3>1. Typed
      BY DEF TxInv
    <3>2. d.base <= d.inspect /\ (ds.logger => d.base <= d.logged) /\ h.done <= d.base
      BY <1>2, <2>1
    <3>3. /\ http' \in Http /\ ids' \in IdSet
          /\ http'.txs = h.txs /\ http'.cnt = h.cnt /\ http'.new = h.new
          /\ ids'.avail = d.avail /\ ids'.inspect = d.inspect /\ ids'.logged = d.logged
          /\ ids'.flags = d.flags /\ ids'.eof = d.eof
          /\ d.base <= ids'.base /\ http'.done <= ids'.base
          /\ ids'.base <= d.inspect /\ (ds.logger => ids'.base <= d.logged)
      BY <1>2, <3>1, <3>2, CleanupIs
    <3>4. ids'.base \in Nat
      BY <3>3 DEF IdSet
    <3> QED BY <1>2, <3>3, <3>4
  <2>3. Len(h.txs) \in Nat /\ Requests' = Len(h.txs)
    BY <1>2, <2>2 DEF Http, Requests
  <2>4. Typed'
    BY <1>1, <2>2 DEF TxInv, Typed, Http, IdSet, Worker, Tx
  <2>5. Transactions'
    BY <1>1, <1>2, <2>2, <2>3 DEF Transactions
  <2>6. Freed'
    <3>1. \A k \in 1 .. Requests' : http'.txs[k].gone => k <= ids'.base
      BY <1>2, <2>1, <2>2, <2>3
    <3> QED BY <1>0, <1>1, <1>2, <2>1, <2>2, <2>3, <3>1 DEF Freed
  <2>7. Logged'
    BY <1>0, <1>1, <1>2, <2>1, <2>2, <2>3 DEF TxInv, Logged
  <2>8. Grown
    BY <1>1, <1>2, <2>2, <2>3 DEF Grown
  <2> QED BY <2>4, <2>5, <2>6, <2>7, <2>8 DEF TxInv
<1> HIDE DEF N
<1>3. /\ ids \in IdSet /\ http \in Http /\ ids.avail = N /\ http.cnt \in Nat
      /\ N = 0 => http.cnt = 0 /\ ~http.new
      /\ N # 0 => N = http.cnt + 1 /\ http.new = http.txs[N].whole
      /\ \A k \in 1 .. N :
             /\ k < N => http.txs[k].whole
             /\ http.txs[k].whole \/ (http.txs[k].has = {} /\ ds.split)
             /\ http.txs[k].gone => k <= ids.base
      /\ ids.base \in Nat /\ http.done <= ids.base /\ http.done \in Nat /\ http.answers \in Nat
  <2>1. Typed /\ Transactions /\ Freed
    BY DEF TxInv
  <2>2. /\ ids \in IdSet /\ http \in Http /\ http.cnt \in Nat /\ ids.base \in Nat /\ http.done \in Nat
        /\ http.answers \in Nat
    BY <2>1 DEF Typed, Http, IdSet
  <2> QED BY <1>0, <2>1, <2>2 DEF Transactions, Freed, N
<1>s. ds.split \in BOOLEAN
  BY Scenario DEF TxInv, Typed
<1>4. ASSUME NEW h \in Http, h.cnt + 1 = Len(h.txs), N <= Len(h.txs), Len(h.txs) \in Nat, Parsed(h)
      PROVE  \E d \in IdSet : /\ Cleanup(h, d) /\ d.avail = Len(h.txs) /\ d.inspect = ids.inspect
                              /\ d.logged = ids.logged /\ d.flags = ids.flags /\ d.base = ids.base
                              /\ d.eof = ids.eof
  <2> DEFINE d == [ids EXCEPT !.avail = IF h.cnt + 1 > @ THEN h.cnt + 1 ELSE @]
  <2>1. Cleanup(h, d)
    BY <1>4 DEF Parsed
  <2>2. /\ d \in IdSet /\ d.avail = IF h.cnt + 1 > N THEN h.cnt + 1 ELSE N
        /\ d.inspect = ids.inspect /\ d.logged = ids.logged /\ d.flags = ids.flags
        /\ d.base = ids.base /\ d.eof = ids.eof
    BY <1>0, <1>3, <1>4 DEF IdSet
  <2> HIDE DEF d
  <2> QED BY <1>0, <1>4, <2>1, <2>2
<1>5. CASE Request
  <2>1. PICK has \in ds.sends, whole \in {TRUE} \cup {~ds.split} :
          Parsed([http EXCEPT !.txs = Append(@, [has |-> IF whole THEN has ELSE {},
                                                 whole |-> whole, gone |-> FALSE]),
                              !.cnt = NextCount(http), !.new = whole])
    BY <1>5 DEF Request
  <2> DEFINE tx == [has |-> IF whole THEN has ELSE {}, whole |-> whole, gone |-> FALSE]
             h == [http EXCEPT !.txs = Append(@, tx), !.cnt = NextCount(http), !.new = whole]
  <2>2. tx \in Tx /\ tx.whole = whole /\ ~tx.gone /\ (whole \/ (tx.has = {} /\ ds.split)) /\ whole \in BOOLEAN
    BY <1>s DEF Tx
  <2> HIDE DEF tx
  <2>3. ~ids.eof /\ (N # 0 => http.txs[N].whole)
    BY <1>0, <1>5 DEF Request, Complete
  <2>4. NextCount(http) = N
    BY <1>0, <1>3, <2>3 DEF NextCount
  <2>5. /\ Append(http.txs, tx) \in Seq(Tx) /\ Len(Append(http.txs, tx)) = N + 1
        /\ \A k \in 1 .. N : Append(http.txs, tx)[k] = http.txs[k]
        /\ Append(http.txs, tx)[N + 1] = tx
    BY <1>0, <2>2 DEF Requests, N
  <2>6. /\ h \in Http /\ h.txs = Append(http.txs, tx) /\ h.cnt = N /\ h.new = whole /\ h.done = http.done
    BY <1>0, <1>3, <2>2, <2>4, <2>5 DEF Http
  <2>7. Parsed(h)
    BY <2>1 DEF tx
  <2> HIDE DEF h
  <2>8. PICK d \in IdSet : /\ Cleanup(h, d) /\ d.avail = Len(h.txs) /\ d.inspect = ids.inspect
                          /\ d.logged = ids.logged /\ d.flags = ids.flags /\ d.base = ids.base
                          /\ d.eof = ids.eof
    BY <1>0, <1>4, <2>5, <2>6, <2>7
  <2>9. \A k \in 1 .. Len(h.txs) :
          /\ k < Len(h.txs) => h.txs[k].whole
          /\ h.txs[k].whole \/ (h.txs[k].has = {} /\ ds.split)
          /\ h.txs[k].gone => k <= ids.base
    <3> TAKE k \in 1 .. Len(h.txs)
    <3>1. k \in 1 .. N + 1
      BY <2>5, <2>6
    <3>2. CASE k \in 1 .. N
      <4>1. h.txs[k] = http.txs[k] /\ (k < N \/ k = N)
        BY <1>0, <2>5, <2>6, <3>2
      <4> QED BY <1>3, <2>3, <3>2, <4>1
    <3>3. CASE k = N + 1
      <4>1. h.txs[k] = tx /\ ~(k < Len(h.txs))
        BY <1>0, <2>5, <2>6, <3>3
      <4> QED BY <2>2, <4>1
    <3> QED BY <1>0, <3>1, <3>2, <3>3
  <2>10. /\ h.cnt + 1 = Len(h.txs) /\ h.new = h.txs[Len(h.txs)].whole /\ N <= Len(h.txs) /\ Len(h.txs) # 0
         /\ ~d.eof /\ \A k \in 1 .. N : h.txs[k] = http.txs[k]
    BY <1>0, <2>2, <2>3, <2>5, <2>6, <2>8
  <2> QED BY <1>2, <2>3, <2>6, <2>8, <2>9, <2>10
<1>6. CASE RequestRest
  <2>1. PICK has \in ds.sends :
          Parsed([http EXCEPT !.txs[Len(http.txs)] = [has |-> has, whole |-> TRUE, gone |-> @.gone],
                              !.new = TRUE])
    BY <1>6 DEF RequestRest
  <2> DEFINE h == [http EXCEPT !.txs[Len(http.txs)] = [has |-> has, whole |-> TRUE, gone |-> @.gone],
                               !.new = TRUE]
  <2>2. N # 0 /\ ~http.txs[N].whole /\ http.txs[N].has = {} /\ ds.split /\ ~ids.eof
    <3>1. PICK k \in 1 .. N : ~http.txs[k].whole
      BY <1>0, <1>6 DEF RequestRest, Complete
    <3>2. k = N
      BY <1>0, <1>3, <3>1
    <3> QED BY <1>0, <1>3, <1>6, <3>1, <3>2 DEF RequestRest
  <2>3. /\ h \in Http /\ Len(h.txs) = N /\ h.cnt = http.cnt /\ h.new = TRUE /\ h.done = http.done
        /\ \A k \in 1 .. N : k # N => h.txs[k] = http.txs[k]
        /\ h.txs[N].whole = TRUE /\ h.txs[N].gone = http.txs[N].gone
    <3>1. Len(http.txs) = N
      BY DEF N, Requests
    <3>2. N \in 1 .. N /\ http.txs[N] \in Tx
      BY <1>0, <2>2
    <3> DEFINE tx == [has |-> has, whole |-> TRUE, gone |-> http.txs[N].gone]
    <3>3. tx \in Tx /\ tx.whole = TRUE /\ tx.gone = http.txs[N].gone
      BY <3>2 DEF Tx
    <3> DEFINE u == [http.txs EXCEPT ![N] = tx]
    <3>5. h = [http EXCEPT !.txs = u, !.new = TRUE]
      BY <3>1
    <3>6. /\ u \in Seq(Tx) /\ Len(u) = N /\ u[N] = tx
          /\ \A k \in 1 .. N : k # N => u[k] = http.txs[k]
      <4> HIDE DEF tx
      <4> QED BY <1>0, <3>1, <3>2, <3>3
    <3> HIDE DEF tx, h, u
    <3> QED BY <1>0, <1>3, <3>2, <3>3, <3>5, <3>6 DEF Http
  <2>4. Parsed(h)
    BY <2>1
  <2> HIDE DEF h
  <2>c. h.cnt + 1 = Len(h.txs)
    <3>1. N = http.cnt + 1
      BY <1>3, <2>2
    <3> QED BY <2>3, <3>1
  <2>5. PICK d \in IdSet : /\ Cleanup(h, d) /\ d.avail = Len(h.txs) /\ d.inspect = ids.inspect
                          /\ d.logged = ids.logged /\ d.flags = ids.flags /\ d.base = ids.base
                          /\ d.eof = ids.eof
    BY <1>0, <1>4, <2>c, <2>3, <2>4
  <2>6. \A k \in 1 .. Len(h.txs) :
          /\ k < Len(h.txs) => h.txs[k].whole
          /\ h.txs[k].whole \/ (h.txs[k].has = {} /\ ds.split)
          /\ h.txs[k].gone => k <= ids.base
    BY <1>0, <1>3, <2>2, <2>3
  <2>7. \A k \in 1 .. N :
            /\ http.txs[k].has \subseteq h.txs[k].has
            /\ ds.split \/ h.txs[k].has = http.txs[k].has
    BY <1>0, <2>2, <2>3
  <2>8. h.new = h.txs[Len(h.txs)].whole
    BY <2>3
  <2>9. ~d.eof /\ N <= Len(h.txs)
    BY <1>0, <2>2, <2>3, <2>5
  <2> QED BY <1>2, <2>c, <2>2, <2>3, <2>5, <2>6, <2>7, <2>8, <2>9
<1>7. CASE Response
  <2> DEFINE txs == [k \in DOMAIN http.txs |-> IF k <= http.done THEN [http.txs[k] EXCEPT !.gone = TRUE]
                                               ELSE http.txs[k]]
             h == [http EXCEPT !.answers = @ + 1, !.txs = txs]
  <2>1. Parsed(h)
    BY <1>3, <1>7 DEF Response, Http
  <2>2. N # 0
    <3> SUFFICES ASSUME N = 0 PROVE FALSE
      OBVIOUS
    <3>1. {k \in DOMAIN http.txs : http.txs[k].whole} = {}
      BY <1>0
    <3>2. http.answers < 0
      BY <1>7, <3>1, FS_EmptySet DEF Response
    <3> QED BY <1>3, <3>2
  <2>3. /\ txs \in Seq(Tx) /\ Len(txs) = N
        /\ \A k \in 1 .. N :
               /\ txs[k].has = http.txs[k].has /\ txs[k].whole = http.txs[k].whole
               /\ txs[k].gone => k <= http.done \/ http.txs[k].gone
    <3>1. \A k \in 1 .. N :
              /\ txs[k] \in Tx /\ txs[k].has = http.txs[k].has
              /\ txs[k].whole = http.txs[k].whole
              /\ txs[k].gone => k <= http.done \/ http.txs[k].gone
      BY <1>0 DEF Tx
    <3>2. DOMAIN txs = 1 .. N /\ txs = [k \in 1 .. N |-> txs[k]]
      BY <1>0
    <3> HIDE DEF txs
    <3> QED BY <1>0, <3>1, <3>2
  <2> HIDE DEF txs
  <2>4. /\ h \in Http /\ h.txs = txs /\ h.cnt = http.cnt /\ h.new = http.new /\ h.done = http.done
    <3> DEFINE a == http.answers + 1
    <3>1. a \in Nat /\ h = [http EXCEPT !.answers = a, !.txs = txs]
      BY <1>3
    <3> HIDE DEF a, h
    <3> QED BY <1>3, <2>3, <3>1 DEF Http
  <2> HIDE DEF h
  <2>5. PICK d \in IdSet : /\ Cleanup(h, d) /\ d.avail = Len(h.txs) /\ d.inspect = ids.inspect
                          /\ d.logged = ids.logged /\ d.flags = ids.flags /\ d.base = ids.base
                          /\ d.eof = ids.eof
    BY <1>0, <1>3, <1>4, <2>1, <2>2, <2>3, <2>4
  <2>6. \A k \in 1 .. Len(h.txs) :
          /\ k < Len(h.txs) => h.txs[k].whole
          /\ h.txs[k].whole \/ (h.txs[k].has = {} /\ ds.split)
          /\ h.txs[k].gone => k <= ids.base
    BY <1>0, <1>3, <2>3, <2>4
  <2>7. \A k \in 1 .. N :
            /\ http.txs[k].has \subseteq h.txs[k].has
            /\ ds.split \/ h.txs[k].has = http.txs[k].has
    BY <2>3, <2>4
  <2>8. N \in 1 .. N
    BY <1>0, <2>2
  <2> QED BY <1>0, <1>2, <1>3, <2>2, <2>3, <2>4, <2>5, <2>6, <2>7, <2>8
<1>8. CASE Eof
  <2> DEFINE d == [ids EXCEPT !.eof = TRUE]
  <2>1. Cleanup(http, d) /\ N # 0
    BY <1>0, <1>8 DEF Eof
  <2>2. /\ d \in IdSet /\ d.avail = N /\ d.inspect = ids.inspect /\ d.logged = ids.logged
        /\ d.flags = ids.flags /\ d.base = ids.base /\ d.eof
    BY <1>3 DEF IdSet
  <2> HIDE DEF d
  <2>3. Len(http.txs) = N
    BY DEF N, Requests
  <2> QED BY <1>0, <1>2, <1>3, <2>1, <2>2, <2>3
<1> QED BY <1>5, <1>6, <1>7, <1>8 DEF HttpStep

LEMMA Facts ==
  ASSUME DetectAssumption, Typed
  PROVE  /\ Threads = ds.threads /\ DOMAIN det = ds.threads
         /\ Requests \in Nat /\ DOMAIN http.txs = 1 .. Requests
         /\ \A k \in 1 .. Requests : http.txs[k] \in Tx
         /\ ids \in IdSet /\ ids.inspect \in Nat /\ ids.logged \in Nat /\ ids.avail \in Nat
         /\ ids.flags \subseteq Directions
         /\ Len(de_state) \in Nat /\ DOMAIN de_state = 1 .. Len(de_state)
         /\ \A n \in 1 .. Len(de_state) :
              de_state[n].rule \in DOMAIN ds.rules /\ de_state[n].uri \in BOOLEAN /\ de_state[n].nm \in Nat
         /\ Len(alerts) \in Nat /\ DOMAIN alerts = 1 .. Len(alerts)
         /\ \A n \in 1 .. Len(alerts) :
              alerts[n].rule \in DOMAIN ds.rules /\ alerts[n].lo \in Nat /\ alerts[n].upto \in Nat
         /\ DOMAIN ds.rules = 1 .. Len(ds.rules) /\ Len(ds.rules) \in Nat
         /\ \A r \in DOMAIN ds.rules :
              /\ ds.rules[r].uri \in BOOLEAN
              /\ DOMAIN ds.rules[r].parts = 1 .. Len(ds.rules[r].parts)
              /\ Len(ds.rules[r].parts) \in Nat /\ Past(ds.rules[r]) = Len(ds.rules[r].parts) + 1
              /\ Done(r) = Past(ds.rules[r])
              /\ ds.rules[r].uri \/ ds.rules[r].parts # <<>>
<1>1. /\ Requests \in Nat /\ DOMAIN http.txs = 1 .. Requests
      /\ \A k \in 1 .. Requests : http.txs[k] \in Tx
  BY DEF Typed, Http, Requests
<1>2. /\ ids \in IdSet /\ ids.inspect \in Nat /\ ids.logged \in Nat /\ ids.avail \in Nat
      /\ ids.flags \subseteq Directions
  BY DEF Typed, IdSet
<1>3. /\ Len(de_state) \in Nat /\ DOMAIN de_state = 1 .. Len(de_state)
      /\ \A n \in 1 .. Len(de_state) :
           de_state[n].rule \in DOMAIN ds.rules /\ de_state[n].uri \in BOOLEAN /\ de_state[n].nm \in Nat
  <2> DEFINE I == [rule : DOMAIN ds.rules, uri : BOOLEAN, nm : Nat]
  <2>1. de_state \in Seq(I)
    BY DEF Typed
  <2>2. \A x \in I : x.rule \in DOMAIN ds.rules /\ x.uri \in BOOLEAN /\ x.nm \in Nat
    OBVIOUS
  <2> HIDE DEF I
  <2>3. /\ Len(de_state) \in Nat /\ DOMAIN de_state = 1 .. Len(de_state)
        /\ \A n \in 1 .. Len(de_state) : de_state[n] \in I
    BY <2>1
  <2> QED BY <2>2, <2>3
<1>4. /\ Len(alerts) \in Nat /\ DOMAIN alerts = 1 .. Len(alerts)
      /\ \A n \in 1 .. Len(alerts) :
           alerts[n].rule \in DOMAIN ds.rules /\ alerts[n].lo \in Nat /\ alerts[n].upto \in Nat
  <2> DEFINE I == [rule : DOMAIN ds.rules, lo : Nat, upto : Nat]
  <2>1. alerts \in Seq(I)
    BY DEF Typed
  <2>2. \A x \in I : x.rule \in DOMAIN ds.rules /\ x.lo \in Nat /\ x.upto \in Nat
    OBVIOUS
  <2> HIDE DEF I
  <2>3. /\ Len(alerts) \in Nat /\ DOMAIN alerts = 1 .. Len(alerts)
        /\ \A n \in 1 .. Len(alerts) : alerts[n] \in I
    BY <2>1
  <2> QED BY <2>2, <2>3
<1>5. Threads = ds.threads /\ DOMAIN det = ds.threads
  BY DEF Typed, Threads
<1>6. ds \in DsConfs
  BY DEF Typed
<1> QED BY <1>1, <1>2, <1>3, <1>4, <1>5, <1>6, Scenario DEF Rule, Past

LEMMA WorkerIs ==
  ASSUME DetectAssumption, Typed, NEW w \in Worker
  PROVE  /\ w.at \in Place /\ w.dir \in Directions /\ w.start \in BOOLEAN /\ w.i \in Nat
         /\ w.uri \in BOOLEAN /\ w.nm \in Nat /\ w.lo \in Nat
         /\ \A r \in DOMAIN ds.rules : w.sigs[r] \in {"full", "new", "partial"}
         /\ Idle \in Worker /\ Idle.at = "idle" /\ Idle.start = FALSE
         /\ \A r \in DOMAIN ds.rules : Idle.sigs[r] = "full"
BY DEF Worker, Idle, Place, Directions

LEMMA Moved ==
  ASSUME det \in [ds.threads -> Worker], NEW t \in ds.threads, NEW v \in Worker,
         det' = [det EXCEPT ![t] = v]
  PROVE  /\ det' \in [ds.threads -> Worker] /\ det'[t] = v
         /\ \A u \in ds.threads : u # t => det'[u] = det[u]
OBVIOUS

(* The next rule or item of thread t.                                      *)
LEMMA TurnIs ==
  ASSUME DetectAssumption, Typed, NEW t \in ds.threads, NEW w \in Worker, NEW i \in Nat, NEW last \in Nat,
         i > 0, w.start \/ last <= Len(de_state), Turn(t, w, i, last)
  PROVE  /\ det' \in [ds.threads -> Worker]
         /\ \A u \in ds.threads : u # t => det'[u] = det[u]
         /\ det'[t].dir = w.dir /\ det'[t].start = w.start /\ det'[t].sigs = w.sigs /\ det'[t].lo = w.lo
         /\ i > last => det'[t].at = "end"
         /\ i <= last => /\ det'[t].at = "uri" /\ det'[t].i = i /\ det'[t].uri = FALSE
                         /\ det'[t].nm = IF w.start THEN 1 ELSE de_state[i].nm
<1>1. det \in [ds.threads -> Worker]
  BY DEF Typed
<1>2. CASE i > last
  <2> DEFINE v == [w EXCEPT !.at = "end"]
  <2>1. v \in Worker /\ v.dir = w.dir /\ v.start = w.start /\ v.sigs = w.sigs /\ v.lo = w.lo /\ v.at = "end"
    BY DEF Worker, Place
  <2>2. det' = [det EXCEPT ![t] = v]
    BY <1>2 DEF Turn
  <2> HIDE DEF v
  <2>3. /\ det' \in [ds.threads -> Worker] /\ det'[t] = v
        /\ \A u \in ds.threads : u # t => det'[u] = det[u]
    BY <1>1, <2>1, <2>2, Moved
  <2> QED BY <1>2, <2>1, <2>3
<1>3. CASE ~(i > last)
  <2> DEFINE m == IF w.start THEN 1 ELSE de_state[i].nm
             v == [w EXCEPT !.at = "uri", !.i = i, !.uri = FALSE, !.nm = m]
  <2>1. m \in Nat
    <3>1. ASSUME ~w.start PROVE i \in 1 .. Len(de_state)
      <4>1. Len(de_state) \in Nat
        BY Facts
      <4> QED BY <1>3, <3>1, <4>1
    <3>2. \A n \in 1 .. Len(de_state) : de_state[n].nm \in Nat
      BY Facts
    <3> QED BY <3>1, <3>2
  <2>2. det' = [det EXCEPT ![t] = v]
    BY <1>3 DEF Turn
  <2> HIDE DEF m
  <2>3. /\ v \in Worker /\ v.dir = w.dir /\ v.start = w.start /\ v.sigs = w.sigs /\ v.lo = w.lo
        /\ v.at = "uri" /\ v.i = i /\ v.uri = FALSE /\ v.nm = m
    BY <2>1 DEF Worker, Place
  <2> HIDE DEF v
  <2>4. /\ det' \in [ds.threads -> Worker] /\ det'[t] = v
        /\ \A u \in ds.threads : u # t => det'[u] = det[u]
    BY <1>1, <2>2, <2>3, Moved
  <2> QED BY <1>3, <2>3, <2>4 DEF m
<1> QED BY <1>2, <1>3

(* What a step of thread t leaves alone: the requests and other threads.   *)
Alone(t) ==
  /\ UNCHANGED <<ds, http, logbook>>
  /\ det' \in [ds.threads -> Worker]
  /\ \A u \in ds.threads : u # t => det'[u] = det[u]

LEMMA PacketIs ==
  ASSUME DetectAssumption, Typed, NEW t \in ds.threads, Packet(t)
  PROVE  /\ Alone(t) /\ UNCHANGED <<ids, de_state, alerts>> /\ packets' \in Nat /\ Requests > 0
         /\ det[t].at = "idle" /\ det'[t].at = "has" /\ ~det'[t].start
         /\ \A r \in DOMAIN ds.rules : det'[t].sigs[r] = "full"
<1>1. PICK dir \in Directions : det' = [det EXCEPT ![t] = [Idle EXCEPT !.at = "has", !.dir = dir]]
  BY DEF Packet
<1> DEFINE v == [Idle EXCEPT !.at = "has", !.dir = dir]
<1>2. /\ v \in Worker /\ v.at = "has" /\ v.start = FALSE /\ \A r \in DOMAIN ds.rules : v.sigs[r] = "full"
  BY DEF Worker, Idle, Place, Directions
<1>3. det \in [ds.threads -> Worker] /\ packets \in Nat /\ det' = [det EXCEPT ![t] = v]
  BY <1>1 DEF Typed
<1> HIDE DEF v
<1>4. /\ det' \in [ds.threads -> Worker] /\ det'[t] = v
      /\ \A u \in ds.threads : u # t => det'[u] = det[u]
  BY <1>2, <1>3, Moved
<1>5. Requests > 0
  <2>1. http.txs \in Seq(Tx) /\ http.txs # <<>>
    BY DEF Packet, Typed, Http
  <2> QED BY <2>1 DEF Requests
<1>6. packets' \in Nat /\ det[t].at = "idle" /\ UNCHANGED <<ds, http, ids, de_state, logbook, alerts>>
  BY <1>3 DEF Packet
<1> QED BY <1>2, <1>4, <1>5, <1>6 DEF Alone

LEMMA HasStateIs ==
  ASSUME DetectAssumption, Typed, Placed, NEW t \in ds.threads, HasState(t)
  PROVE  /\ Alone(t) /\ UNCHANGED <<ids, de_state, alerts, packets>>
         /\ det[t].at = "has" /\ det'[t].dir = det[t].dir /\ det'[t].sigs = det[t].sigs
         /\ det'[t].lo = det[t].lo
         /\ \/ /\ Len(de_state) > 0 /\ det'[t].at = "continue" /\ ~det'[t].start
            \/ /\ Len(de_state) = 0 /\ det'[t].start
               /\ \/ det'[t].at = "end" /\ (det[t].dir = "toserver" => Len(ds.rules) = 0)
                  \/ /\ det'[t].at = "uri" /\ det[t].dir = "toserver" /\ det'[t].i = 1
                     /\ Len(ds.rules) > 0 /\ ~det'[t].uri /\ det'[t].nm = 1
<1>1. /\ det[t].at = "has" /\ ~det[t].start /\ UNCHANGED <<ds, http, ids, de_state, packets, logbook, alerts>>
  BY DEF HasState, Placed, Sits
<1>2. /\ det \in [ds.threads -> Worker] /\ det[t] \in Worker
  BY DEF Typed
<1>3. Len(de_state) \in Nat /\ (Len(de_state) = 0 <=> de_state = <<>>) /\ Len(ds.rules) \in Nat
  <2>1. Len(de_state) \in Nat /\ (Len(de_state) = 0 <=> de_state = <<>>)
    BY DEF Typed
  <2> QED BY <2>1, Facts
<1>4. CASE de_state # <<>>
  <2> DEFINE v == [det[t] EXCEPT !.at = "continue"]
  <2>1. det' = [det EXCEPT ![t] = v]
    BY <1>4 DEF HasState
  <2>2. /\ v \in Worker /\ v.at = "continue" /\ v.start = det[t].start /\ v.dir = det[t].dir
        /\ v.sigs = det[t].sigs /\ v.lo = det[t].lo
    BY <1>2 DEF Worker, Place
  <2> HIDE DEF v
  <2>3. /\ det' \in [ds.threads -> Worker] /\ det'[t] = v
        /\ \A u \in ds.threads : u # t => det'[u] = det[u]
    BY <1>2, <2>1, <2>2, Moved
  <2> QED BY <1>1, <1>3, <1>4, <2>2, <2>3 DEF Alone
<1>5. CASE de_state = <<>>
  <2> DEFINE w == [det[t] EXCEPT !.start = TRUE]
             last == IF det[t].dir = "toserver" THEN Len(ds.rules) ELSE 0
  <2>1. Turn(t, w, 1, last)
    BY <1>5 DEF HasState
  <2>2. /\ w \in Worker /\ w.start = TRUE /\ w.dir = det[t].dir /\ w.sigs = det[t].sigs /\ w.lo = det[t].lo
    BY <1>2 DEF Worker
  <2>3. last \in Nat /\ 1 \in Nat /\ 1 > 0
    BY <1>3
  <2> HIDE DEF w, last
  <2>w. w.start
    BY <2>2
  <2>4. /\ det' \in [ds.threads -> Worker]
        /\ \A u \in ds.threads : u # t => det'[u] = det[u]
        /\ det'[t].dir = w.dir /\ det'[t].start = w.start /\ det'[t].sigs = w.sigs /\ det'[t].lo = w.lo
        /\ 1 > last => det'[t].at = "end"
        /\ 1 <= last => /\ det'[t].at = "uri" /\ det'[t].i = 1 /\ det'[t].uri = FALSE
                        /\ det'[t].nm = IF w.start THEN 1 ELSE de_state[1].nm
    BY <2>1, <2>2, <2>3, <2>w, TurnIs
  <2>5. (1 > last => (det[t].dir = "toserver" => Len(ds.rules) = 0))
        /\ (1 <= last => det[t].dir = "toserver" /\ Len(ds.rules) > 0) /\ (1 > last \/ 1 <= last)
    BY <1>3, <2>3 DEF last
  <2> QED BY <1>1, <1>3, <1>5, <2>2, <2>4, <2>5 DEF Alone
<1> QED BY <1>4, <1>5

LEMMA ContinueIs ==
  ASSUME DetectAssumption, Typed, Placed, NEW t \in ds.threads, Continue(t)
  PROVE  /\ Alone(t) /\ UNCHANGED <<ids, de_state, alerts, packets>> /\ Free
         /\ det[t].at = "continue" /\ ~det'[t].start /\ det'[t].dir = det[t].dir
         /\ det'[t].sigs = det[t].sigs /\ det'[t].lo = det[t].lo
         /\ \/ det'[t].at = "end"
            \/ /\ det'[t].at = "uri" /\ det'[t].i \in 1 .. Len(de_state) /\ ~det'[t].uri
               /\ det'[t].nm = de_state[det'[t].i].nm
<1>1. /\ det[t].at = "continue" /\ ~det[t].start /\ Free
      /\ UNCHANGED <<ds, http, ids, de_state, packets, logbook, alerts>>
      /\ Turn(t, det[t], 1, Len(de_state))
  BY DEF Continue, Placed, Sits
<1>2. det[t] \in Worker /\ Len(de_state) \in Nat /\ 1 \in Nat /\ 1 > 0 /\ Len(de_state) <= Len(de_state)
  <2>1. Len(de_state) \in Nat
    BY Facts
  <2> QED BY <2>1 DEF Typed
<1>3. /\ det' \in [ds.threads -> Worker]
      /\ \A u \in ds.threads : u # t => det'[u] = det[u]
      /\ det'[t].dir = det[t].dir /\ det'[t].start = det[t].start /\ det'[t].sigs = det[t].sigs
      /\ det'[t].lo = det[t].lo
      /\ 1 > Len(de_state) => det'[t].at = "end"
      /\ 1 <= Len(de_state) => /\ det'[t].at = "uri" /\ det'[t].i = 1 /\ det'[t].uri = FALSE
                               /\ det'[t].nm = IF det[t].start THEN 1 ELSE de_state[1].nm
  BY <1>1, <1>2, TurnIs
<1> QED BY <1>1, <1>2, <1>3 DEF Alone

LEMMA InspectUriIs ==
  ASSUME DetectAssumption, Typed, NEW t \in ds.threads, InspectUri(t)
  PROVE  /\ Alone(t) /\ UNCHANGED <<ids, de_state, alerts, packets>>
         /\ det[t].at = "uri" /\ det'[t].at = "parts" /\ det'[t].lo = ids.inspect
         /\ det'[t].dir = det[t].dir /\ det'[t].start = det[t].start /\ det'[t].sigs = det[t].sigs
         /\ det'[t].i = det[t].i /\ det'[t].nm = det[t].nm
         /\ det'[t].uri <=> /\ Inspects(det[t])
                            /\ \E k \in Txs : k > ids.inspect /\ "uri" \in http.txs[k].has
<1> DEFINE b == Inspects(det[t]) /\ \E k \in Txs : k > ids.inspect /\ "uri" \in http.txs[k].has
           v == [det[t] EXCEPT !.at = "parts", !.lo = ids.inspect, !.uri = b]
<1>1. det' = [det EXCEPT ![t] = v]
  BY DEF InspectUri, Typed
<1>2. b \in BOOLEAN
  OBVIOUS
<1> HIDE DEF b
<1>3. /\ v \in Worker /\ v.at = "parts" /\ v.lo = ids.inspect /\ v.uri = b /\ v.dir = det[t].dir
      /\ v.start = det[t].start /\ v.sigs = det[t].sigs /\ v.i = det[t].i /\ v.nm = det[t].nm
  <2>1. det[t] \in Worker /\ ids.inspect \in Nat
    BY DEF Typed, IdSet
  <2> QED BY <1>2, <2>1 DEF Worker, Place
<1> HIDE DEF v
<1>4. det \in [ds.threads -> Worker]
  BY DEF Typed
<1>5. /\ det' \in [ds.threads -> Worker] /\ det'[t] = v
      /\ \A u \in ds.threads : u # t => det'[u] = det[u]
  BY <1>1, <1>3, <1>4, Moved
<1>6. det[t].at = "uri" /\ UNCHANGED <<ds, http, ids, de_state, packets, logbook, alerts>>
  BY DEF InspectUri
<1> QED BY <1>3, <1>5, <1>6 DEF Alone, b

LEMMA MatchPartIs ==
  ASSUME DetectAssumption, Typed, NEW t \in ds.threads, MatchPart(t)
  PROVE  /\ Alone(t) /\ UNCHANGED <<ids, de_state, alerts, packets>>
         /\ det[t].at = "parts" /\ det'[t].lo = det[t].lo
         /\ det'[t].dir = det[t].dir /\ det'[t].start = det[t].start /\ det'[t].sigs = det[t].sigs
         /\ det'[t].i = det[t].i /\ det'[t].uri = det[t].uri
         /\ LET parts == ds.rules[Item(de_state, det[t])].parts
                more == /\ det[t].nm <= Len(parts)
                        /\ \E k \in Txs : parts[det[t].nm] \in http.txs[k].has
            IN  \/ more /\ det'[t].at = "parts" /\ det'[t].nm = det[t].nm + 1
                \/ ~more /\ det'[t].at = "store" /\ det'[t].nm = det[t].nm
<1> DEFINE parts == ds.rules[Item(de_state, det[t])].parts
           more == /\ det[t].nm <= Len(parts)
                   /\ \E k \in Txs : parts[det[t].nm] \in http.txs[k].has
           m == det[t].nm + 1
           v == IF more THEN [det[t] EXCEPT !.nm = m] ELSE [det[t] EXCEPT !.at = "store"]
<1>0. det \in [ds.threads -> Worker] /\ det[t] \in Worker
  BY DEF Typed
<1>1. det' = [det EXCEPT ![t] = v]
  BY <1>0 DEF MatchPart, RuleAt, Rule, Item, Worker
<1>6. det[t].at = "parts" /\ UNCHANGED <<ds, http, ids, de_state, packets, logbook, alerts>>
  BY DEF MatchPart
<1> HIDE DEF more
<1>2. m \in Nat
  BY <1>0 DEF Worker
<1> HIDE DEF m
<1>3. /\ v \in Worker /\ v.lo = det[t].lo /\ v.uri = det[t].uri /\ v.dir = det[t].dir
      /\ v.start = det[t].start /\ v.sigs = det[t].sigs /\ v.i = det[t].i
      /\ more => v.at = "parts" /\ v.nm = m
      /\ ~more => v.at = "store" /\ v.nm = det[t].nm
  BY <1>0, <1>2, <1>6 DEF Worker, Place
<1> HIDE DEF v
<1>5. /\ det' \in [ds.threads -> Worker] /\ det'[t] = v
      /\ \A u \in ds.threads : u # t => det'[u] = det[u]
  BY <1>0, <1>1, <1>3, Moved
<1> QED BY <1>3, <1>5, <1>6 DEF Alone, more, m

LEMMA StoreStartIs ==
  ASSUME DetectAssumption, Typed, Placed, NEW t \in ds.threads, StoreStart(t)
  PROVE  LET w == det[t]
             all == /\ w.nm = Past(ds.rules[w.i]) /\ (ds.rules[w.i].uri => w.uri)
                    /\ ds.rules[w.i].parts = <<>> => w.uri
         IN  /\ Alone(t) /\ UNCHANGED <<ids, packets>> /\ Free
             /\ w.at = "store" /\ w.start /\ w.dir = "toserver" /\ w.i \in 1 .. Len(ds.rules)
             /\ w.nm \in 1 .. Past(ds.rules[w.i])
             /\ de_state' = Append(de_state, [rule |-> w.i, uri |-> w.uri, nm |-> w.nm])
             /\ all => alerts' = Append(alerts, [rule |-> w.i, lo |-> w.lo, upto |-> Requests])
             /\ ~all => alerts' = alerts
             /\ det'[t].start /\ det'[t].dir = w.dir /\ det'[t].sigs = w.sigs /\ det'[t].lo = w.lo
             /\ \/ det'[t].at = "end" /\ w.i = Len(ds.rules)
                \/ /\ det'[t].at = "uri" /\ det'[t].i = w.i + 1 /\ w.i < Len(ds.rules)
                   /\ ~det'[t].uri /\ det'[t].nm = 1
<1> DEFINE w == det[t]
           all == /\ w.nm = Past(ds.rules[w.i]) /\ (ds.rules[w.i].uri => w.uri)
                  /\ ds.rules[w.i].parts = <<>> => w.uri
<1>0. w \in Worker
  BY DEF Typed
<1>1. /\ w.at = "store" /\ w.start /\ Free /\ UNCHANGED <<ds, http, ids, packets, logbook>>
      /\ de_state' = Append(de_state, [rule |-> w.i, uri |-> w.uri, nm |-> w.nm])
      /\ Turn(t, w, w.i + 1, Len(ds.rules))
  BY DEF StoreStart
<1>2. w.dir = "toserver" /\ w.i \in 1 .. Len(ds.rules) /\ w.nm \in 1 .. Past(ds.rules[w.i])
  BY <1>1 DEF Placed, Sits, Inspecting, Item
<1>3. Done(w.i) = Past(ds.rules[w.i]) /\ Len(ds.rules) \in Nat /\ w.i \in Nat
  BY <1>2, Facts
<1>4. (Inspects(w) => w.uri) <=> (ds.rules[w.i].uri => w.uri)
  BY <1>1, <1>2 DEF Inspects, RuleAt, Rule
<1>5. /\ all => alerts' = Append(alerts, [rule |-> w.i, lo |-> w.lo, upto |-> Requests])
      /\ ~all => alerts' = alerts
  BY <1>3, <1>4 DEF StoreStart, Rule, Alert, Requests
<1> DEFINE j == w.i + 1
<1>6. j \in Nat /\ j > 0 /\ Turn(t, w, j, Len(ds.rules)) /\ (w.start \/ Len(ds.rules) <= Len(de_state))
  BY <1>1, <1>3
<1>j. j = w.i + 1
  OBVIOUS
<1> HIDE DEF j, w
<1>7. /\ det' \in [ds.threads -> Worker]
      /\ \A u \in ds.threads : u # t => det'[u] = det[u]
      /\ det'[t].dir = w.dir /\ det'[t].start = w.start /\ det'[t].sigs = w.sigs /\ det'[t].lo = w.lo
      /\ j > Len(ds.rules) => det'[t].at = "end"
      /\ j <= Len(ds.rules) => /\ det'[t].at = "uri" /\ det'[t].i = j /\ det'[t].uri = FALSE
                               /\ det'[t].nm = IF w.start THEN 1 ELSE de_state[j].nm
  BY <1>0, <1>3, <1>6, TurnIs
<1>8. /\ det'[t].start
      /\ \/ det'[t].at = "end" /\ w.i = Len(ds.rules)
         \/ /\ det'[t].at = "uri" /\ det'[t].i = w.i + 1 /\ w.i < Len(ds.rules)
            /\ ~det'[t].uri /\ det'[t].nm = 1
  BY <1>1, <1>2, <1>3, <1>7, <1>j
<1> QED BY <1>1, <1>2, <1>5, <1>7, <1>8 DEF Alone, w

LEMMA StoreContinueIs ==
  ASSUME DetectAssumption, Typed, Placed, NEW t \in ds.threads, StoreContinue(t)
  PROVE  LET w == det[t]
             item == de_state[w.i]
             rule == ds.rules[item.rule]
             inspects == w.dir = "toserver" /\ rule.uri /\ ~item.uri
             touched == item.nm # Past(rule) \/ inspects
             matched == w.nm = Past(rule) /\ (inspects => w.uri)
         IN  /\ Alone(t) /\ UNCHANGED <<ids, packets, alerts>>
             /\ w.at = "store" /\ ~w.start /\ w.i \in 1 .. Len(de_state)
             /\ w.nm \in 1 .. Past(rule) /\ item.nm <= w.nm
             /\ de_state' = [de_state EXCEPT ![w.i].uri = @ \/ w.uri, ![w.i].nm = w.nm]
             /\ ~det'[t].start /\ det'[t].dir = w.dir /\ det'[t].lo = w.lo
             /\ \A r \in DOMAIN ds.rules : r # item.rule => det'[t].sigs[r] = w.sigs[r]
             /\ det'[t].sigs[item.rule] =
                  IF ~touched THEN w.sigs[item.rule] ELSE IF matched THEN "new" ELSE "partial"
             /\ \/ det'[t].at = "end" /\ w.i = Len(de_state)
                \/ /\ det'[t].at = "uri" /\ det'[t].i = w.i + 1 /\ w.i < Len(de_state)
                   /\ ~det'[t].uri /\ det'[t].nm = de_state[w.i + 1].nm
<1> DEFINE w == det[t]
           item == de_state[w.i]
           rule == ds.rules[item.rule]
           inspects == w.dir = "toserver" /\ rule.uri /\ ~item.uri
           touched == item.nm # Past(rule) \/ inspects
           matched == w.nm = Past(rule) /\ (inspects => w.uri)
           result == IF ~touched THEN w.sigs[item.rule] ELSE IF matched THEN "new" ELSE "partial"
           v == [w EXCEPT !.sigs[item.rule] = result]
<1>0. w \in Worker
  BY DEF Typed
<1>1. /\ w.at = "store" /\ ~w.start /\ UNCHANGED <<ds, http, ids, packets, logbook, alerts>>
      /\ de_state' = [de_state EXCEPT ![w.i].uri = @ \/ w.uri, ![w.i].nm = w.nm]
      /\ Turn(t, [w EXCEPT !.sigs[RuleAt(w)] = Result(w, w.sigs[RuleAt(w)])], w.i + 1, Len(de_state))
  BY DEF StoreContinue
<1>2. w.i \in 1 .. Len(de_state) /\ w.nm \in 1 .. Past(rule) /\ item.nm <= w.nm
  BY <1>1 DEF Placed, Sits, Inspecting, Item
<1>3. Len(de_state) \in Nat /\ w.i \in Nat /\ item.rule \in DOMAIN ds.rules /\ Done(item.rule) = Past(rule)
  BY <1>2, Facts
<1>4. RuleAt(w) = item.rule /\ Result(w, w.sigs[RuleAt(w)]) = result
  BY <1>1, <1>3 DEF RuleAt, Result, Inspects, Rule
<1>5. result \in {"full", "new", "partial"}
  BY <1>0, <1>3 DEF Worker
<1>6. Turn(t, v, w.i + 1, Len(de_state))
  BY <1>1, <1>4
<1>r. result = IF ~touched THEN w.sigs[item.rule] ELSE IF matched THEN "new" ELSE "partial"
  OBVIOUS
<1> HIDE DEF result
<1>7. /\ v \in Worker /\ v.at = w.at /\ v.start = w.start /\ v.dir = w.dir /\ v.lo = w.lo
      /\ v.sigs[item.rule] = result
      /\ \A r \in DOMAIN ds.rules : r # item.rule => v.sigs[r] = w.sigs[r]
  BY <1>0, <1>3, <1>5 DEF Worker
<1> DEFINE j == w.i + 1
<1>8. j \in Nat /\ j > 0 /\ Turn(t, v, j, Len(de_state)) /\ (v.start \/ Len(de_state) <= Len(de_state))
  BY <1>3, <1>6
<1>j. j = w.i + 1
  OBVIOUS
<1> HIDE DEF j, v, w
<1>9. /\ det' \in [ds.threads -> Worker]
      /\ \A u \in ds.threads : u # t => det'[u] = det[u]
      /\ det'[t].dir = v.dir /\ det'[t].start = v.start /\ det'[t].sigs = v.sigs /\ det'[t].lo = v.lo
      /\ j > Len(de_state) => det'[t].at = "end"
      /\ j <= Len(de_state) => /\ det'[t].at = "uri" /\ det'[t].i = j /\ det'[t].uri = FALSE
                               /\ det'[t].nm = IF v.start THEN 1 ELSE de_state[j].nm
  BY <1>3, <1>7, <1>8, TurnIs
<1>10. /\ ~det'[t].start
       /\ \/ det'[t].at = "end" /\ w.i = Len(de_state)
          \/ /\ det'[t].at = "uri" /\ det'[t].i = w.i + 1 /\ w.i < Len(de_state)
             /\ ~det'[t].uri /\ det'[t].nm = de_state[w.i + 1].nm
  BY <1>1, <1>2, <1>3, <1>7, <1>9, <1>j
<1>11. /\ det'[t].dir = w.dir /\ det'[t].lo = w.lo
       /\ \A r \in DOMAIN ds.rules : r # item.rule => det'[t].sigs[r] = w.sigs[r]
       /\ det'[t].sigs[item.rule] =
            IF ~touched THEN w.sigs[item.rule] ELSE IF matched THEN "new" ELSE "partial"
  BY <1>7, <1>9, <1>r
<1> QED BY <1>1, <1>2, <1>9, <1>10, <1>11 DEF Alone, w

LEMMA EndIs ==
  ASSUME DetectAssumption, Typed, NEW t \in ds.threads, End(t)
  PROVE  LET w == det[t]
             S == {r \in DOMAIN ds.rules : w.dir = "toserver" /\ w.sigs[r] = "new"}
         IN  /\ Alone(t) /\ UNCHANGED <<de_state, packets>> /\ w.at = "end"
             /\ alerts' \in Seq([rule : DOMAIN ds.rules, lo : Nat, upto : Nat])
             /\ Len(alerts) <= Len(alerts') /\ Len(alerts') \in Nat
             /\ \A n \in 1 .. Len(alerts) : alerts'[n] = alerts[n]
             /\ \A n \in Len(alerts) + 1 .. Len(alerts') :
                  alerts'[n].rule \in S /\ alerts'[n].lo = w.lo /\ alerts'[n].upto = Requests
             /\ \A r \in S : \E n \in Len(alerts) + 1 .. Len(alerts') : alerts'[n].rule = r
             /\ \A n, o \in Len(alerts) + 1 .. Len(alerts') : alerts'[n].rule = alerts'[o].rule => n = o
             /\ ids' \in IdSet /\ ids'.avail = ids.avail /\ ids'.logged = ids.logged
             /\ ids'.base = ids.base /\ ids'.eof = ids.eof
             /\ \/ /\ ids'.inspect = ids.inspect + 1 /\ ids.inspect + 1 < ids.avail
                   /\ ids.flags \cup {w.dir} = Directions /\ ids'.flags = {} /\ det'[t].at = "reset"
                \/ /\ ids'.inspect = ids.inspect /\ ids'.flags = ids.flags \cup {w.dir}
                   /\ det'[t].at = "idle"
             /\ ~det'[t].start /\ \A r \in DOMAIN ds.rules : det'[t].sigs[r] = "full"
<1> DEFINE w == det[t]
           S == {r \in DOMAIN ds.rules : w.dir = "toserver" /\ w.sigs[r] = "new"}
           new == InOrder(S)
           A == [rule : DOMAIN ds.rules, lo : Nat, upto : Nat]
           N == Cardinality(S)
           more == [n \in 1 .. N |-> [rule |-> new[n], lo |-> w.lo, upto |-> Requests]]
<1>0. w \in Worker /\ w.dir \in Directions /\ w.lo \in Nat
  BY DEF Typed, Worker
<1>1. /\ w.at = "end" /\ UNCHANGED <<ds, http, de_state, packets, logbook>>
      /\ alerts' = alerts \o [n \in DOMAIN new |-> Alert(new[n], w)]
      /\ ids' = UpdateInspectId(ids, w.dir)
      /\ det' = [det EXCEPT ![t] = IF ids'.inspect > ids.inspect
                                     THEN [Idle EXCEPT !.at = "reset"] ELSE Idle]
  BY DEF End
<1>2. /\ N \in Nat /\ new \in [1 .. N -> S]
      /\ \A x \in S : \E i \in 1 .. N : new[i] = x
      /\ \A i, j \in 1 .. N : new[i] = new[j] => i = j
  <2>1. Len(ds.rules) \in Nat /\ S \in SUBSET (1 .. Len(ds.rules))
    BY Facts
  <2> HIDE DEF S
  <2> QED BY <2>1, OrderIs
<1>3. alerts' = alerts \o more
  BY <1>1, <1>2 DEF Alert, Requests
<1>4. alerts \in Seq(A) /\ Requests \in Nat
  BY Facts DEF Typed
<1> HIDE DEF new
<1>5. /\ more \in Seq(A) /\ Len(more) = N
      /\ \A n \in 1 .. N : more[n].rule = new[n] /\ more[n].lo = w.lo /\ more[n].upto = Requests
  <2>1. \A n \in 1 .. N : [rule |-> new[n], lo |-> w.lo, upto |-> Requests] \in A
    BY <1>0, <1>2, <1>4
  <2> HIDE DEF A, N, w
  <2> QED BY <1>2, <2>1
<1> HIDE DEF more, N, A
<1>6. /\ alerts' \in Seq(A) /\ Len(alerts') = Len(alerts) + N /\ Len(alerts) \in Nat
      /\ \A n \in 1 .. Len(alerts) : alerts'[n] = alerts[n]
      /\ \A n \in Len(alerts) + 1 .. Len(alerts) + N : alerts'[n] = more[n - Len(alerts)]
  BY <1>2, <1>3, <1>4, <1>5
<1> HIDE DEF S
<1>7. /\ \A n \in Len(alerts) + 1 .. Len(alerts') :
           alerts'[n].rule \in S /\ alerts'[n].lo = w.lo /\ alerts'[n].upto = Requests
      /\ \A r \in S : \E n \in Len(alerts) + 1 .. Len(alerts') : alerts'[n].rule = r
      /\ \A n, o \in Len(alerts) + 1 .. Len(alerts') : alerts'[n].rule = alerts'[o].rule => n = o
  <2> HIDE DEF w
  <2>1. ASSUME NEW n \in Len(alerts) + 1 .. Len(alerts')
        PROVE  /\ n - Len(alerts) \in 1 .. N /\ alerts'[n].rule = new[n - Len(alerts)]
               /\ alerts'[n].lo = w.lo /\ alerts'[n].upto = Requests /\ alerts'[n].rule \in S
    BY <1>2, <1>5, <1>6
  <2>2. ASSUME NEW r \in S PROVE \E n \in Len(alerts) + 1 .. Len(alerts') : alerts'[n].rule = r
    <3>1. PICK i \in 1 .. N : new[i] = r
      BY <1>2
    <3>2. i + Len(alerts) \in Len(alerts) + 1 .. Len(alerts') /\ (i + Len(alerts)) - Len(alerts) = i
      BY <1>2, <1>6
    <3>3. alerts'[i + Len(alerts)].rule = r
      BY <2>1, <3>1, <3>2
    <3> QED BY <3>2, <3>3
  <2>3. ASSUME NEW n \in Len(alerts) + 1 .. Len(alerts'), NEW o \in Len(alerts) + 1 .. Len(alerts'),
               alerts'[n].rule = alerts'[o].rule
        PROVE  n = o
    <3>1. n - Len(alerts) = o - Len(alerts)
      BY <1>2, <2>1, <2>3
    <3> QED BY <1>6, <3>1
  <2> QED BY <2>1, <2>2, <2>3
<1>8. ids \in IdSet /\ ids.inspect \in Nat /\ ids.flags \subseteq Directions
  BY Facts
<1>9. /\ ids' \in IdSet /\ ids'.avail = ids.avail /\ ids'.logged = ids.logged
      /\ ids'.base = ids.base /\ ids'.eof = ids.eof
      /\ \/ /\ ids'.inspect = ids.inspect + 1 /\ ids.inspect + 1 < ids.avail
            /\ ids.flags \cup {w.dir} = Directions /\ ids'.flags = {}
         \/ /\ ids'.inspect = ids.inspect /\ ids'.flags = ids.flags \cup {w.dir}
  <2>1. CASE ids.inspect + 1 < ids.avail /\ ids.flags \cup {w.dir} = Directions
    <3> DEFINE m == ids.inspect + 1
    <3>1. ids' = [ids EXCEPT !.inspect = m, !.flags = {}]
      BY <1>1, <1>8, <2>1 DEF UpdateInspectId, Passed
    <3>2. m \in Nat
      BY <1>8
    <3>m. m = ids.inspect + 1
      OBVIOUS
    <3> HIDE DEF m
    <3> QED BY <1>8, <2>1, <3>1, <3>2, <3>m DEF IdSet
  <2>2. CASE ~(ids.inspect + 1 < ids.avail /\ ids.flags \cup {w.dir} = Directions)
    <3> DEFINE f == ids.flags \cup {w.dir}
    <3>1. ids' = [ids EXCEPT !.flags = f]
      BY <1>1, <1>8, <2>2 DEF UpdateInspectId
    <3>2. f \in SUBSET Directions
      BY <1>0, <1>8
    <3>f. f = ids.flags \cup {w.dir}
      OBVIOUS
    <3> HIDE DEF f
    <3> QED BY <1>8, <3>1, <3>2, <3>f DEF IdSet
  <2> QED BY <2>1, <2>2
<1> DEFINE v == IF ids'.inspect > ids.inspect THEN [Idle EXCEPT !.at = "reset"] ELSE Idle
<1>10. /\ v \in Worker /\ v.start = FALSE /\ \A r \in DOMAIN ds.rules : v.sigs[r] = "full"
       /\ v.at = IF ids'.inspect > ids.inspect THEN "reset" ELSE "idle"
  <2>1. Idle \in Worker /\ Idle.at = "idle" /\ Idle.start = FALSE
        /\ \A r \in DOMAIN ds.rules : Idle.sigs[r] = "full"
    BY <1>0, WorkerIs
  <2> QED BY <2>1 DEF Worker, Place
<1>11. det' = [det EXCEPT ![t] = v]
  BY <1>1
<1> HIDE DEF v
<1>12. /\ det' \in [ds.threads -> Worker] /\ det'[t] = v
       /\ \A u \in ds.threads : u # t => det'[u] = det[u]
  <2>1. det \in [ds.threads -> Worker]
    BY DEF Typed
  <2> QED BY <1>10, <1>11, <2>1, Moved
<1>13. /\ Len(alerts) <= Len(alerts') /\ Len(alerts') \in Nat
       /\ ids'.inspect = ids.inspect + 1 => det'[t].at = "reset"
       /\ ids'.inspect = ids.inspect => det'[t].at = "idle"
       /\ ~det'[t].start
  BY <1>2, <1>6, <1>8, <1>10, <1>12
<1>14. Alone(t)
  BY <1>1, <1>12 DEF Alone
<1> QED BY <1>1, <1>6, <1>7, <1>9, <1>10, <1>12, <1>13, <1>14 DEF w, S, A

LEMMA ResetIs ==
  ASSUME DetectAssumption, Typed, NEW t \in ds.threads, Reset(t)
  PROVE  /\ Alone(t) /\ UNCHANGED <<ids, alerts, packets>> /\ Free /\ det[t].at = "reset"
         /\ de_state' = <<>> /\ det'[t].at = "idle" /\ ~det'[t].start
         /\ \A r \in DOMAIN ds.rules : det'[t].sigs[r] = "full"
<1>1. det \in [ds.threads -> Worker] /\ det[t] \in Worker
  BY DEF Typed
<1>2. Idle \in Worker /\ Idle.at = "idle" /\ Idle.start = FALSE
      /\ \A r \in DOMAIN ds.rules : Idle.sigs[r] = "full"
  BY <1>1, WorkerIs
<1>3. /\ det' = [det EXCEPT ![t] = Idle] /\ de_state' = <<>> /\ Free /\ det[t].at = "reset"
      /\ UNCHANGED <<ds, http, ids, packets, logbook, alerts>>
  BY DEF Reset
<1>4. /\ det' \in [ds.threads -> Worker] /\ det'[t] = Idle
      /\ \A u \in ds.threads : u # t => det'[u] = det[u]
  <2> HIDE DEF Idle
  <2> QED BY <1>1, <1>2, <1>3, Moved
<1> QED BY <1>2, <1>3, <1>4 DEF Alone

---------------------------------------------------------------------------
(* The transactions, under every step                                      *)

LEMMA TxDetect ==
  ASSUME DetectAssumption, TxInv, Placed, NEW t \in ds.threads, Detect(t)
  PROVE  /\ TxInv' /\ Alone(t)
         /\ \/ ids'.inspect = ids.inspect
            \/ ids'.inspect = ids.inspect + 1 /\ ids'.inspect < Requests
<1> DEFINE I == [rule : DOMAIN ds.rules, uri : BOOLEAN, nm : Nat]
           A == [rule : DOMAIN ds.rules, lo : Nat, upto : Nat]
<1>1. /\ Typed /\ det[t] \in Worker /\ de_state \in Seq(I) /\ alerts \in Seq(A) /\ packets \in Nat
      /\ Requests \in Nat /\ ids \in IdSet /\ ids.avail = Requests /\ ids.inspect \in Nat
  <2>1. Typed
    BY DEF TxInv
  <2> QED BY <2>1, Facts DEF TxInv, Typed, Transactions
<1>2. ASSUME Alone(t), de_state' \in Seq(I), alerts' \in Seq(A), packets' \in Nat, ids' \in IdSet,
             ids'.avail = ids.avail, ids'.logged = ids.logged, ids'.base = ids.base, ids'.eof = ids.eof,
             \/ ids'.inspect = ids.inspect
             \/ ids'.inspect = ids.inspect + 1 /\ ids'.inspect < Requests
      PROVE  TxInv'
  <2>1. UNCHANGED <<ds, http, logbook>> /\ det' \in [ds.threads -> Worker]
    BY <1>2 DEF Alone
  <2>2. Typed'
    BY <1>2, <2>1 DEF TxInv, Typed, Http, IdSet, Worker, Tx
  <2>3. Transactions'
    BY <1>2, <2>1 DEF TxInv, Transactions, Requests
  <2>4. Freed'
    <3>1. ids.base \in Nat /\ http.done \in Nat /\ ids.logged \in Nat
      BY <1>1 DEF Typed, Http, IdSet
    <3>2. Requests' = Requests
      BY <2>1 DEF Requests
    <3> QED BY <1>1, <1>2, <2>1, <3>1, <3>2 DEF TxInv, Freed
  <2>5. Logged'
    BY <1>2, <2>1 DEF TxInv, Logged, Requests
  <2> QED BY <2>2, <2>3, <2>4, <2>5 DEF TxInv
<1>3. CASE Packet(t)
  BY <1>1, <1>2, <1>3, PacketIs
<1>4. CASE HasState(t)
  BY <1>1, <1>2, <1>4, HasStateIs
<1>5. CASE Continue(t)
  BY <1>1, <1>2, <1>5, ContinueIs
<1>6. CASE InspectUri(t)
  BY <1>1, <1>2, <1>6, InspectUriIs
<1>7. CASE MatchPart(t)
  BY <1>1, <1>2, <1>7, MatchPartIs
<1>8. CASE StoreStart(t)
  <2> DEFINE item == [rule |-> det[t].i, uri |-> det[t].uri, nm |-> det[t].nm]
             alert == [rule |-> det[t].i, lo |-> det[t].lo, upto |-> Requests]
  <2>1. /\ Alone(t) /\ UNCHANGED <<ids, packets>> /\ det[t].i \in 1 .. Len(ds.rules)
        /\ de_state' = Append(de_state, item) /\ alerts' \in {alerts, Append(alerts, alert)}
    BY <1>1, <1>8, StoreStartIs
  <2>2. item \in I /\ alert \in A
    <3>1. det[t].i \in DOMAIN ds.rules
      BY <1>1, <2>1, Facts
    <3> QED BY <1>1, <3>1 DEF Worker
  <2> HIDE DEF item, alert, I, A
  <2>3. de_state' \in Seq(I)
    <3>1. Append(de_state, item) \in Seq(I)
      BY <1>1, <2>2, AppendProperties
    <3> QED BY <2>1, <3>1
  <2>4. alerts' \in Seq(A)
    <3>1. Append(alerts, alert) \in Seq(A)
      BY <1>1, <2>2, AppendProperties
    <3> QED BY <1>1, <2>1, <3>1
  <2> QED BY <1>1, <1>2, <2>1, <2>3, <2>4
<1>9. CASE StoreContinue(t)
  <2> DEFINE w == det[t]
             b == de_state[w.i].uri \/ w.uri
             item == [de_state[w.i] EXCEPT !.uri = b, !.nm = w.nm]
  <2>1. /\ Alone(t) /\ UNCHANGED <<ids, packets, alerts>> /\ w.i \in 1 .. Len(de_state)
        /\ de_state' = [de_state EXCEPT ![w.i].uri = @ \/ w.uri, ![w.i].nm = w.nm]
    BY <1>1, <1>9, StoreContinueIs
  <2>2. de_state[w.i] \in I
    <3> HIDE DEF I
    <3> QED BY <1>1, <2>1
  <2>3. item \in I
    <3>1. b \in BOOLEAN
      OBVIOUS
    <3>2. w.nm \in Nat
      BY <1>1 DEF Worker
    <3> HIDE DEF b, w
    <3> QED BY <2>2, <3>1, <3>2
  <2>4. de_state' = [de_state EXCEPT ![w.i] = item]
    BY <1>1, <2>1, <2>3
  <2> HIDE DEF item, I
  <2>5. de_state' \in Seq(I)
    BY <1>1, <2>1, <2>3, <2>4
  <2> QED BY <1>1, <1>2, <2>1, <2>5
<1>10. CASE End(t)
  <2>1. /\ Alone(t) /\ UNCHANGED <<de_state, packets>> /\ alerts' \in Seq(A)
        /\ ids' \in IdSet /\ ids'.avail = ids.avail /\ ids'.logged = ids.logged
        /\ ids'.base = ids.base /\ ids'.eof = ids.eof
        /\ \/ ids'.inspect = ids.inspect + 1 /\ ids.inspect + 1 < ids.avail
           \/ ids'.inspect = ids.inspect
    BY <1>1, <1>10, EndIs
  <2> QED BY <1>1, <1>2, <2>1
<1>11. CASE Reset(t)
  <2>1. <<>> \in Seq(I)
    OBVIOUS
  <2> QED BY <1>1, <1>2, <1>11, <2>1, ResetIs
<1> QED BY <1>3, <1>4, <1>5, <1>6, <1>7, <1>8, <1>9, <1>10, <1>11 DEF Detect

LEMMA TxLog ==
  ASSUME DetectAssumption, TxInv, LogHttpLog
  PROVE  TxInv' /\ Grown
<1>1. /\ Typed /\ Transactions /\ Freed /\ Logged
  BY DEF TxInv
<1>2. /\ Requests \in Nat /\ DOMAIN http.txs = 1 .. Requests /\ ids \in IdSet /\ ids.inspect \in Nat
      /\ ids.logged \in Nat /\ ids.avail = Requests /\ ids.eof \in BOOLEAN /\ ids.base \in Nat
  BY <1>1, Facts DEF Transactions, IdSet
<1>3. /\ ds.logger /\ ids.logged < Loggable
      /\ UNCHANGED <<ds, http, de_state, det, packets, alerts>>
  BY DEF LogHttpLog
<1>4. Loggable \in Nat /\ Loggable <= Requests /\ (Loggable < Requests \/ ids.eof)
  BY <1>2, <1>3 DEF Loggable
<1>5. (ids.logged + 1 .. Loggable) \cap Txs = ids.logged + 1 .. Loggable
  <2>1. ASSUME NEW k \in ids.logged + 1 .. Loggable PROVE k \in Txs
    <3>1. k \in 1 .. Requests /\ k > ids.base
      BY <1>1, <1>2, <1>3, <1>4 DEF Freed
    <3>2. ~http.txs[k].gone
      BY <1>1, <1>2, <3>1 DEF Freed
    <3> QED BY <1>2, <3>1, <3>2 DEF Txs
  <2> QED BY <2>1
<1> DEFINE lines == InOrder(ids.logged + 1 .. Loggable)
<1>6. logbook' = logbook \o lines /\ ids' = [ids EXCEPT !.logged = @ + Len(lines)]
  BY <1>5 DEF LogHttpLog
<1>7. lines = [i \in 1 .. Loggable - ids.logged |-> ids.logged + i]
  <2>1. ids.logged <= Loggable
    BY <1>2, <1>3, <1>4
  <2>2. ASSUME NEW a \in Nat, NEW b \in Nat, a <= b
        PROVE  InOrder(a + 1 .. b) = [i \in 1 .. b - a |-> a + i]
    BY <2>2, OrderOfInterval
  <2> QED BY <1>2, <1>4, <2>1, <2>2
<1> HIDE DEF lines
<1>8. Len(lines) = Loggable - ids.logged /\ lines \in Seq(Nat) /\ Loggable - ids.logged \in Nat
  <2>1. Loggable - ids.logged \in Nat
    BY <1>2, <1>3, <1>4
  <2>2. \A i \in 1 .. Loggable - ids.logged : ids.logged + i \in Nat
    BY <1>2
  <2> QED BY <1>7, <2>1, <2>2
<1> DEFINE m == ids.logged + Len(lines)
<1>9. m = Loggable /\ ids' = [ids EXCEPT !.logged = m]
  BY <1>2, <1>4, <1>6, <1>8
<1> HIDE DEF m
<1>10. /\ ids' \in IdSet /\ ids'.logged = Loggable /\ ids'.avail = ids.avail /\ ids'.inspect = ids.inspect
       /\ ids'.base = ids.base /\ ids'.flags = ids.flags /\ ids'.eof = ids.eof
  BY <1>2, <1>4, <1>9 DEF IdSet
<1>11. logbook' = [n \in 1 .. Loggable |-> n] /\ logbook' \in Seq(Nat)
  <2>1. logbook = [n \in 1 .. ids.logged |-> n] /\ logbook \in Seq(Nat)
    BY <1>1 DEF Logged, Typed
  <2>2. Len(logbook) = ids.logged
    BY <1>2, <2>1
  <2>3. logbook' \in Seq(Nat) /\ Len(logbook') = Loggable /\ DOMAIN logbook' = 1 .. Loggable
    BY <1>2, <1>4, <1>6, <1>8, <2>1, <2>2
  <2>4. \A n \in 1 .. Loggable : logbook'[n] = n
    <3> TAKE n \in 1 .. Loggable
    <3>1. CASE n <= ids.logged
      BY <1>2, <1>6, <1>8, <2>1, <2>2, <3>1
    <3>2. CASE n > ids.logged
      <4>1. n - ids.logged \in 1 .. Loggable - ids.logged
        BY <1>2, <1>4, <3>2
      <4>2. logbook'[n] = lines[n - ids.logged]
        BY <1>2, <1>4, <1>6, <1>8, <2>1, <2>2, <3>2
      <4> QED BY <1>2, <1>7, <4>1, <4>2
    <3> QED BY <1>2, <1>4, <3>1, <3>2
  <2> QED BY <2>3, <2>4
<1>12. Typed'
  BY <1>1, <1>3, <1>10, <1>11 DEF Typed, Http, IdSet, Worker, Tx
<1>13. Transactions'
  BY <1>1, <1>3, <1>10 DEF Transactions, Requests
<1>14. Requests' = Requests
  BY <1>3 DEF Requests
<1>15. Freed'
  BY <1>1, <1>2, <1>3, <1>4, <1>10, <1>14 DEF Freed
<1>16. Logged'
  BY <1>3, <1>4, <1>10, <1>11, <1>14 DEF Logged
<1>17. Grown
  <2>1. http'.txs = http.txs
    BY <1>3
  <2> QED BY <1>2, <1>3, <1>10, <1>14, <2>1 DEF Grown
<1> QED BY <1>12, <1>13, <1>15, <1>16, <1>17 DEF TxInv

LEMMA DetectStart ==
  ASSUME DetectAssumption, DetectInit
  PROVE  DetectInv
<1>1. /\ ds \in DsConfs
      /\ http = [txs |-> <<>>, cnt |-> 0, new |-> FALSE, done |-> 0, answers |-> 0]
      /\ ids = [avail |-> 0, inspect |-> 0, logged |-> 0, base |-> 0, flags |-> {}, eof |-> FALSE]
      /\ de_state = <<>> /\ det = [t \in ds.threads |-> Idle] /\ packets = 0
      /\ logbook = <<>> /\ alerts = <<>>
  BY DEF DetectInit
<1>2. Idle \in Worker /\ Idle.at = "idle" /\ Idle.start = FALSE
      /\ \A r \in DOMAIN ds.rules : Idle.sigs[r] = "full"
  BY DEF Worker, Idle, Place, Directions
<1>3. \A t \in ds.threads : det[t] = Idle
  BY <1>1
<1> HIDE DEF Idle
<1>4. Requests = 0 /\ Len(de_state) = 0 /\ Len(alerts) = 0 /\ ids.inspect = 0 /\ ids.flags = {}
  BY <1>1 DEF Requests
<1>5. Typed
  <2>1. http \in Http
    <3>1. <<>> \in Seq(Tx)
      OBVIOUS
    <3> QED BY <1>1, <3>1 DEF Http
  <2>2. ids \in IdSet
    BY <1>1 DEF IdSet
  <2>3. det \in [ds.threads -> Worker]
    BY <1>1, <1>2
  <2> QED BY <1>1, <2>1, <2>2, <2>3 DEF Typed
<1>6. TxInv
  <2>1. Transactions
    BY <1>1 DEF Transactions, Requests
  <2>2. Freed
    BY <1>1 DEF Freed, Requests
  <2>3. Logged
    BY <1>1 DEF Logged, Requests
  <2> QED BY <1>5, <2>1, <2>2, <2>3 DEF TxInv
<1>7. Placed
  BY <1>2, <1>3, <1>4 DEF Placed, Sits, Inspecting, Continues
<1>8. Matched
  BY <1>2, <1>3, <1>4 DEF Matched, Holds, Inspecting
<1>9. OneThread
  BY <1>2, <1>3, <1>4 DEF OneThread, Unique, Current, OwnItems, Ended, Found, Looks, Alerted, Inspecting
<1>10. Judged
  BY <1>2, <1>3, <1>4 DEF Judged, Judging, Inspecting
<1> QED BY <1>6, <1>7, <1>8, <1>9, <1>10 DEF DetectInv

---------------------------------------------------------------------------
(* Where the threads are, under every step                                 *)

LEMMA PlacedGrown ==
  ASSUME DetectAssumption, Typed, Placed, Grown, Requests' \in Nat
  PROVE  Placed'
<1>1. /\ UNCHANGED <<ds, de_state, det>> /\ Requests \in Nat /\ Requests <= Requests'
  BY Facts DEF Grown
<1>2. \A t \in ds.threads : det[t].at # "idle" => Requests' > 0
  BY <1>1 DEF Placed
<1> QED BY <1>1, <1>2 DEF Placed

LEMMA SitsStill ==
  ASSUME NEW rules, NEW items, NEW more, NEW w, Sits(rules, items, w), more = items \/ ~Continues(w)
  PROVE  Sits(rules, more, w)
BY DEF Sits, Continues, Inspecting, Item

LEMMA PlacedDetect ==
  ASSUME DetectAssumption, TxInv, Placed, NEW t \in ds.threads, Detect(t)
  PROVE  Placed'
<1> DEFINE Good(items) == \A n \in 1 .. Len(items) : items[n].nm \in 1 .. Past(ds.rules[items[n].rule])
<1>1. /\ Typed /\ det[t] \in Worker /\ Threads = ds.threads
      /\ Len(de_state) \in Nat /\ Len(ds.rules) \in Nat /\ DOMAIN ds.rules = 1 .. Len(ds.rules)
      /\ \A n \in 1 .. Len(de_state) : de_state[n].rule \in DOMAIN ds.rules /\ de_state[n].nm \in Nat
      /\ \A r \in DOMAIN ds.rules : Past(ds.rules[r]) \in Nat /\ Past(ds.rules[r]) > 0
  <2>1. Typed
    BY DEF TxInv
  <2>2. \A r \in DOMAIN ds.rules : Past(ds.rules[r]) \in Nat /\ Past(ds.rules[r]) > 0
    <3>1. \A r \in DOMAIN ds.rules : Len(ds.rules[r].parts) \in Nat
      BY <2>1, Facts
    <3> QED BY <3>1 DEF Past
  <2> QED BY <2>1, <2>2, Facts DEF Typed
<1>2. /\ Good(de_state) /\ Sits(ds.rules, de_state, det[t])
      /\ \A u \in ds.threads : Sits(ds.rules, de_state, det[u]) /\ (det[u].at # "idle" => Requests > 0)
      /\ \A u, v \in ds.threads : Continues(det[u]) /\ Continues(det[v]) => u = v
      /\ det[t].nm \in Nat /\ det[t].i \in Nat
  BY <1>1 DEF Placed, Worker
<1>3. ASSUME Alone(t), Good(de_state'), Sits(ds.rules, de_state', det'[t]), Requests > 0,
             de_state' = de_state \/ \A u \in ds.threads : u # t => ~Continues(det[u]),
             Continues(det'[t]) => \A u \in ds.threads : u # t => ~Continues(det[u])
      PROVE  Placed'
  <2>1. UNCHANGED <<ds, http>> /\ Requests' = Requests /\ \A u \in ds.threads : u # t => det'[u] = det[u]
    BY <1>3 DEF Alone, Requests
  <2>2. \A u \in ds.threads : Sits(ds.rules, de_state', det'[u])
    <3> TAKE u \in ds.threads
    <3>1. CASE u = t
      BY <1>3, <3>1
    <3>2. CASE u # t
      BY <1>2, <1>3, <2>1, <3>2, SitsStill
    <3> QED BY <3>1, <3>2
  <2>3. \A u, v \in ds.threads : Continues(det'[u]) /\ Continues(det'[v]) => u = v
    BY <1>2, <1>3, <2>1
  <2> QED BY <1>3, <2>1, <2>2, <2>3 DEF Placed
<1> HIDE DEF Good
<1>4. Free => \A u \in ds.threads : ~Continues(det[u])
  BY <1>1 DEF Free
<1>5. Continues(det[t]) => \A u \in ds.threads : u # t => ~Continues(det[u])
  BY <1>2
<1>n. det[t].at # "idle" => Requests > 0
  BY <1>2
<1>6. CASE Packet(t)
  <2>1. /\ Alone(t) /\ de_state' = de_state /\ Requests > 0 /\ det'[t].at = "has" /\ ~det'[t].start
    BY <1>1, <1>6, PacketIs
  <2>2. Sits(ds.rules, de_state', det'[t]) /\ ~Continues(det'[t])
    BY <2>1 DEF Sits, Inspecting, Continues
  <2> QED BY <1>2, <1>3, <2>1, <2>2
<1>7. CASE HasState(t)
  <2>1. /\ Alone(t) /\ de_state' = de_state /\ det[t].at = "has" /\ det'[t].dir = det[t].dir
        /\ \/ det'[t].at = "continue" /\ ~det'[t].start
           \/ /\ det'[t].start
              /\ \/ det'[t].at = "end"
                 \/ /\ det'[t].at = "uri" /\ det[t].dir = "toserver" /\ det'[t].i = 1
                    /\ Len(ds.rules) > 0 /\ det'[t].nm = 1
    BY <1>1, <1>7, HasStateIs
  <2>2. ~Continues(det'[t])
    BY <2>1 DEF Continues
  <2>3. Sits(ds.rules, de_state', det'[t])
    <3>1. CASE det'[t].at = "continue" /\ ~det'[t].start
      BY <2>1, <3>1 DEF Sits, Inspecting
    <3>2. CASE det'[t].start /\ det'[t].at = "end"
      BY <3>2 DEF Sits, Inspecting
    <3>3. CASE /\ det'[t].start /\ det'[t].at = "uri" /\ det[t].dir = "toserver" /\ det'[t].i = 1
               /\ Len(ds.rules) > 0 /\ det'[t].nm = 1
      <4>1. 1 \in DOMAIN ds.rules
        BY <1>1, <3>3
      <4>2. 1 \in 1 .. Past(ds.rules[1]) /\ 1 \in 1 .. Len(ds.rules)
        BY <1>1, <3>3, <4>1
      <4> QED BY <2>1, <3>3, <4>2 DEF Sits, Item
    <3> QED BY <2>1, <3>1, <3>2, <3>3
  <2> QED BY <1>2, <1>3, <1>n, <2>1, <2>2, <2>3
<1>8. CASE Continue(t)
  <2>1. /\ Alone(t) /\ de_state' = de_state /\ Free /\ det[t].at = "continue" /\ ~det'[t].start
        /\ \/ det'[t].at = "end"
           \/ /\ det'[t].at = "uri" /\ det'[t].i \in 1 .. Len(de_state)
              /\ det'[t].nm = de_state[det'[t].i].nm
    BY <1>1, <1>2, <1>8, ContinueIs
  <2>2. Sits(ds.rules, de_state', det'[t])
    <3>1. CASE det'[t].at = "end"
      BY <2>1, <3>1 DEF Sits, Inspecting
    <3>2. CASE /\ det'[t].at = "uri" /\ det'[t].i \in 1 .. Len(de_state)
               /\ det'[t].nm = de_state[det'[t].i].nm
      <4>1. de_state[det'[t].i].nm \in 1 .. Past(ds.rules[de_state[det'[t].i].rule]) /\ de_state[det'[t].i].nm \in Nat
        BY <1>1, <1>2, <3>2 DEF Good
      <4> QED BY <2>1, <3>2, <4>1 DEF Sits, Item
    <3> QED BY <2>1, <3>1, <3>2
  <2> QED BY <1>2, <1>3, <1>4, <1>n, <2>1, <2>2
<1>9. CASE InspectUri(t)
  <2>1. /\ Alone(t) /\ de_state' = de_state /\ det[t].at = "uri" /\ det'[t].at = "parts"
        /\ det'[t].dir = det[t].dir /\ det'[t].start = det[t].start
        /\ det'[t].i = det[t].i /\ det'[t].nm = det[t].nm
    BY <1>1, <1>9, InspectUriIs
  <2>2. Sits(ds.rules, de_state', det'[t])
    BY <1>2, <2>1 DEF Sits, Item, Inspecting
  <2>3. Continues(det'[t]) => Continues(det[t])
    BY <2>1 DEF Continues
  <2> QED BY <1>2, <1>3, <1>5, <1>n, <2>1, <2>2, <2>3
<1>10. CASE MatchPart(t)
  <2> DEFINE rule == ds.rules[Item(de_state, det[t])]
  <2>1. /\ Alone(t) /\ de_state' = de_state /\ det[t].at = "parts"
        /\ det'[t].dir = det[t].dir /\ det'[t].start = det[t].start /\ det'[t].i = det[t].i
        /\ \/ det[t].nm <= Len(rule.parts) /\ det'[t].at = "parts" /\ det'[t].nm = det[t].nm + 1
           \/ det'[t].at = "store" /\ det'[t].nm = det[t].nm
    BY <1>1, <1>10, MatchPartIs
  <2>2. Sits(ds.rules, de_state', det'[t])
    <3>1. /\ det[t].i \in 1 .. (IF det[t].start THEN Len(ds.rules) ELSE Len(de_state))
          /\ det[t].nm \in 1 .. Past(rule)
          /\ ~det[t].start => de_state[det[t].i].nm <= det[t].nm
          /\ det[t].start => det[t].dir = "toserver"
      BY <1>2, <2>1 DEF Sits, Inspecting
    <3>2. Item(de_state', det'[t]) = Item(de_state, det[t])
      BY <2>1 DEF Item
    <3>3. Item(de_state, det[t]) \in DOMAIN ds.rules
      BY <1>1, <3>1 DEF Item
    <3>4. Len(rule.parts) \in Nat /\ Past(rule) = Len(rule.parts) + 1
      BY <1>1, <3>3, Facts
    <3>5. det'[t].nm \in 1 .. Past(rule) /\ (~det[t].start => de_state[det[t].i].nm <= det'[t].nm)
      <4>1. ~det[t].start => de_state[det[t].i].nm \in Nat
        BY <1>1, <3>1
      <4> HIDE DEF rule
      <4> QED BY <1>2, <2>1, <3>1, <3>4, <4>1
    <3> HIDE DEF rule
    <3>6. det'[t].nm \in 1 .. Past(ds.rules[Item(de_state', det'[t])])
      BY <3>2, <3>5 DEF rule
    <3> QED BY <2>1, <3>1, <3>5, <3>6 DEF Sits, Inspecting
  <2>3. Continues(det'[t]) => Continues(det[t])
    BY <2>1 DEF Continues
  <2> QED BY <1>2, <1>3, <1>5, <1>n, <2>1, <2>2, <2>3
<1>11. CASE StoreStart(t)
  <2> DEFINE w == det[t]
             item == [rule |-> w.i, uri |-> w.uri, nm |-> w.nm]
  <2>1. /\ Alone(t) /\ Free /\ w.at = "store" /\ w.dir = "toserver"
        /\ w.i \in 1 .. Len(ds.rules) /\ w.nm \in 1 .. Past(ds.rules[w.i])
        /\ de_state' = Append(de_state, item)
        /\ det'[t].start /\ det'[t].dir = w.dir
        /\ \/ det'[t].at = "end"
           \/ /\ det'[t].at = "uri" /\ det'[t].i = w.i + 1 /\ w.i < Len(ds.rules) /\ det'[t].nm = 1
    BY <1>1, <1>11, StoreStartIs
  <2>2. Good(de_state')
    <3> SUFFICES ASSUME NEW n \in 1 .. Len(de_state')
                 PROVE  de_state'[n].nm \in 1 .. Past(ds.rules[de_state'[n].rule])
      BY DEF Good
    <3>1. de_state \in Seq([rule : DOMAIN ds.rules, uri : BOOLEAN, nm : Nat])
      BY <1>1 DEF Typed
    <3> HIDE DEF item
    <3>2. n \in 1 .. Len(de_state) + 1 /\ (n \in 1 .. Len(de_state) => de_state'[n] = de_state[n])
          /\ (n = Len(de_state) + 1 => de_state'[n] = item)
      BY <2>1, <3>1
    <3>3. item.rule = w.i /\ item.nm = w.nm
      BY DEF item
    <3> QED BY <1>1, <1>2, <2>1, <3>2, <3>3 DEF Good
  <2>3. Sits(ds.rules, de_state', det'[t])
    <3>1. CASE det'[t].at = "end"
      BY <3>1 DEF Sits, Inspecting
    <3>2. CASE det'[t].at = "uri" /\ det'[t].i = w.i + 1 /\ w.i < Len(ds.rules) /\ det'[t].nm = 1
      <4>1. w.i + 1 \in 1 .. Len(ds.rules) /\ w.i + 1 \in DOMAIN ds.rules
        BY <1>1, <2>1, <3>2
      <4>2. 1 \in 1 .. Past(ds.rules[w.i + 1])
        BY <1>1, <4>1
      <4>3. Item(de_state', det'[t]) = w.i + 1
        BY <2>1, <3>2 DEF Item
      <4> HIDE DEF w
      <4> QED BY <2>1, <3>2, <4>1, <4>2, <4>3 DEF Sits, Inspecting
    <3> QED BY <2>1, <3>1, <3>2
  <2>4. ~Continues(det'[t])
    BY <2>1 DEF Continues
  <2> QED BY <1>3, <1>4, <1>n, <2>1, <2>2, <2>3, <2>4
<1>12. CASE StoreContinue(t)
  <2> DEFINE w == det[t]
             rule == ds.rules[de_state[w.i].rule]
  <2>1. /\ Alone(t) /\ w.at = "store" /\ ~w.start /\ w.i \in 1 .. Len(de_state)
        /\ w.nm \in 1 .. Past(rule) /\ ~det'[t].start
        /\ de_state' = [de_state EXCEPT ![w.i].uri = @ \/ w.uri, ![w.i].nm = w.nm]
        /\ \/ det'[t].at = "end"
           \/ /\ det'[t].at = "uri" /\ det'[t].i = w.i + 1 /\ w.i < Len(de_state)
              /\ det'[t].nm = de_state[w.i + 1].nm
    BY <1>1, <1>12, StoreContinueIs
  <2>2. /\ Len(de_state') = Len(de_state)
        /\ \A n \in 1 .. Len(de_state) : n # w.i => de_state'[n] = de_state[n]
        /\ de_state'[w.i].rule = de_state[w.i].rule /\ de_state'[w.i].nm = w.nm
    <3> DEFINE I == [rule : DOMAIN ds.rules, uri : BOOLEAN, nm : Nat]
    <3>1. de_state \in Seq(I)
      BY <1>1 DEF Typed
    <3>2. de_state[w.i] \in I
      <4> HIDE DEF w, I
      <4> QED BY <2>1, <3>1
    <3> HIDE DEF w
    <3> QED BY <2>1, <3>1, <3>2
  <2>3. Good(de_state')
    BY <1>2, <2>1, <2>2 DEF Good
  <2>4. Sits(ds.rules, de_state', det'[t])
    <3>1. CASE det'[t].at = "end"
      BY <2>1, <3>1 DEF Sits, Inspecting
    <3>2. CASE /\ det'[t].at = "uri" /\ det'[t].i = w.i + 1 /\ w.i < Len(de_state)
               /\ det'[t].nm = de_state[w.i + 1].nm
      <4>1. w.i + 1 \in 1 .. Len(de_state) /\ w.i + 1 # w.i
        BY <1>1, <2>1, <3>2
      <4>2. de_state'[w.i + 1] = de_state[w.i + 1] /\ de_state[w.i + 1].nm \in Nat
            /\ de_state[w.i + 1].nm \in 1 .. Past(ds.rules[de_state[w.i + 1].rule])
        BY <1>1, <1>2, <2>2, <4>1 DEF Good
      <4>3. Item(de_state', det'[t]) = de_state[w.i + 1].rule
        BY <2>1, <3>2, <4>2 DEF Item
      <4> HIDE DEF w
      <4> QED BY <2>1, <2>2, <3>2, <4>1, <4>2, <4>3 DEF Sits, Inspecting
    <3> QED BY <2>1, <3>1, <3>2
  <2>5. Continues(det[t])
    BY <2>1 DEF Continues
  <2> QED BY <1>3, <1>5, <1>n, <2>1, <2>3, <2>4, <2>5
<1>13. CASE End(t)
  <2>1. /\ Alone(t) /\ de_state' = de_state /\ det[t].at = "end" /\ det'[t].at \in {"reset", "idle"}
        /\ ~det'[t].start
    BY <1>1, <1>13, EndIs
  <2>2. Sits(ds.rules, de_state', det'[t]) /\ ~Continues(det'[t])
    BY <2>1 DEF Sits, Inspecting, Continues
  <2> QED BY <1>2, <1>3, <1>n, <2>1, <2>2
<1>14. CASE Reset(t)
  <2>1. /\ Alone(t) /\ Free /\ det[t].at = "reset" /\ de_state' = <<>> /\ det'[t].at = "idle"
        /\ ~det'[t].start
    BY <1>1, <1>14, ResetIs
  <2>2. Sits(ds.rules, de_state', det'[t]) /\ ~Continues(det'[t]) /\ Good(de_state')
    BY <2>1 DEF Sits, Inspecting, Continues, Good
  <2> QED BY <1>3, <1>4, <1>n, <2>1, <2>2
<1> QED BY <1>6, <1>7, <1>8, <1>9, <1>10, <1>11, <1>12, <1>13, <1>14 DEF Detect

---------------------------------------------------------------------------
(* What has matched, under every step                                      *)

Grows(txs, more) ==
  Len(txs) <= Len(more) /\ \A k \in 1 .. Len(txs) : txs[k].has \subseteq more[k].has

LEMMA MetGrows ==
  ASSUME NEW txs, NEW more, Len(txs) \in Nat, Len(more) \in Nat, Grows(txs, more)
  PROVE  /\ \A rule, nm : Met(txs, rule, nm) => Met(more, rule, nm)
         /\ \A lo, upto \in Nat, m \in Nat :
              upto <= m /\ UriIn(txs, lo, upto) => UriIn(more, lo, m)
<1>1. \A k \in 1 .. Len(txs) : k \in 1 .. Len(more) /\ txs[k].has \subseteq more[k].has
  BY DEF Grows
<1>2. ASSUME NEW rule, NEW nm, Met(txs, rule, nm) PROVE Met(more, rule, nm)
  <2> SUFFICES ASSUME NEW i \in 1 .. Len(rule.parts), i < nm
               PROVE  \E k \in 1 .. Len(more) : rule.parts[i] \in more[k].has
    BY DEF Met
  <2>1. PICK k \in 1 .. Len(txs) : rule.parts[i] \in txs[k].has
    BY <1>2 DEF Met
  <2> QED BY <1>1, <2>1
<1>3. ASSUME NEW lo \in Nat, NEW upto \in Nat, NEW m \in Nat, upto <= m, UriIn(txs, lo, upto)
      PROVE  UriIn(more, lo, m)
  <2>1. PICK k \in 1 .. Len(txs) : "uri" \in txs[k].has /\ lo < k /\ k <= upto
    BY <1>3 DEF UriIn
  <2>2. k \in 1 .. Len(more) /\ "uri" \in more[k].has /\ lo < k /\ k <= m
    BY <1>1, <1>3, <2>1
  <2> QED BY <2>2 DEF UriIn
<1> QED BY <1>2, <1>3

LEMMA GrownIs ==
  ASSUME Grown, Requests \in Nat, Requests' \in Nat
  PROVE  /\ Grows(http.txs, http'.txs) /\ Len(http.txs) = Requests /\ Len(http'.txs) = Requests'
         /\ \A rule, nm : Met(http.txs, rule, nm) => Met(http'.txs, rule, nm)
         /\ \A lo, upto \in Nat, m \in Nat :
              upto <= m /\ UriIn(http.txs, lo, upto) => UriIn(http'.txs, lo, m)
<1>1. Grows(http.txs, http'.txs) /\ Len(http.txs) = Requests /\ Len(http'.txs) = Requests'
  BY DEF Grown, Grows, Requests
<1> QED BY <1>1, MetGrows

LEMMA MatchedGrown ==
  ASSUME DetectAssumption, Typed, Matched, Grown, Requests' \in Nat
  PROVE  Matched'
<1>1. /\ UNCHANGED <<ds, de_state, det, alerts>> /\ Requests <= Requests'
  BY DEF Grown
<1>2. /\ Requests \in Nat /\ 0 \in Nat /\ \A n \in 1 .. Len(alerts) : alerts[n].upto \in Nat
  BY Facts
<1>3. /\ Len(http.txs) = Requests /\ Len(http'.txs) = Requests'
      /\ \A rule, nm : Met(http.txs, rule, nm) => Met(http'.txs, rule, nm)
      /\ \A lo, upto \in Nat, m \in Nat :
           upto <= m /\ UriIn(http.txs, lo, upto) => UriIn(http'.txs, lo, m)
  BY <1>2, GrownIs
<1>4. UriIn(http.txs, 0, Requests) => UriIn(http'.txs, 0, Requests')
  BY <1>1, <1>2, <1>3
<1>5. \A n \in 1 .. Len(alerts) : UriIn(http.txs, 0, alerts[n].upto) => UriIn(http'.txs, 0, alerts[n].upto)
  BY <1>2, <1>3
<1>6. \A t \in ds.threads : Holds(ds.rules, de_state, http'.txs, det[t])
  BY <1>3, <1>4 DEF Matched, Holds
<1> QED BY <1>1, <1>3, <1>4, <1>5, <1>6 DEF Matched

LEMMA HoldsStill ==
  ASSUME NEW rules, NEW items, NEW txs, NEW more, NEW w, Holds(rules, items, txs, w),
         more = items \/ ~Continues(w)
  PROVE  Holds(rules, more, txs, w)
BY DEF Holds, Continues, Inspecting, Item

LEMMA MatchedDetect ==
  ASSUME DetectAssumption, TxInv, Placed, Matched, NEW t \in ds.threads, Detect(t)
  PROVE  Matched'
<1> DEFINE Good(items) ==
             \A n \in 1 .. Len(items) : /\ Met(http.txs, ds.rules[items[n].rule], items[n].nm)
                                        /\ items[n].uri => UriIn(http.txs, 0, Requests)
           Fair(log) ==
             \A n \in 1 .. Len(log) : /\ Met(http.txs, ds.rules[log[n].rule], Past(ds.rules[log[n].rule]))
                                      /\ ds.rules[log[n].rule].uri => UriIn(http.txs, 0, log[n].upto)
           Fresh(w) == \A r \in DOMAIN ds.rules : w.sigs[r] = "full"
           w == det[t]
           v == det'[t]
<1>1. /\ Typed /\ w \in Worker /\ Threads = ds.threads /\ Requests \in Nat /\ Requests = Len(http.txs)
      /\ Len(de_state) \in Nat /\ Len(ds.rules) \in Nat /\ DOMAIN ds.rules = 1 .. Len(ds.rules)
      /\ \A n \in 1 .. Len(de_state) : de_state[n].rule \in DOMAIN ds.rules /\ de_state[n].nm \in Nat
      /\ w.nm \in Nat /\ DOMAIN http.txs = 1 .. Requests
  <2>1. Typed
    BY DEF TxInv
  <2> QED BY <2>1, Facts DEF Typed, Requests, Worker
<1>2. /\ Good(de_state) /\ Fair(alerts) /\ Holds(ds.rules, de_state, http.txs, w)
      /\ \A u \in ds.threads : Holds(ds.rules, de_state, http.txs, det[u])
      /\ \A u, x \in ds.threads : Continues(det[u]) /\ Continues(det[x]) => u = x
  BY DEF Matched, Placed
<1>3. ASSUME Alone(t), Good(de_state'), Fair(alerts'), Holds(ds.rules, de_state', http.txs, v),
             de_state' = de_state \/ \A u \in ds.threads : u # t => ~Continues(det[u])
      PROVE  Matched'
  <2>1. UNCHANGED <<ds, http>> /\ Requests' = Requests /\ \A u \in ds.threads : u # t => det'[u] = det[u]
    BY <1>3 DEF Alone, Requests
  <2>2. \A u \in ds.threads : Holds(ds.rules, de_state', http.txs, det'[u])
    <3> TAKE u \in ds.threads
    <3>1. CASE u = t
      BY <1>3, <3>1
    <3>2. CASE u # t
      BY <1>2, <1>3, <2>1, <3>2, HoldsStill
    <3> QED BY <3>1, <3>2
  <2> QED BY <1>3, <2>1, <2>2 DEF Matched
<1>4. Free => \A u \in ds.threads : ~Continues(det[u])
  BY <1>1 DEF Free
<1>5. Continues(w) => \A u \in ds.threads : u # t => ~Continues(det[u])
  BY <1>2
<1>6. \A rule : Met(http.txs, rule, 1)
  BY DEF Met
<1>7. /\ w.at \in Inspecting =>
           /\ Met(http.txs, ds.rules[Item(de_state, w)], w.nm)
           /\ w.uri => UriIn(http.txs, 0, Requests)
      /\ \A r \in DOMAIN ds.rules : w.sigs[r] = "new" =>
           /\ Met(http.txs, ds.rules[r], Past(ds.rules[r]))
           /\ w.dir = "toserver" /\ ds.rules[r].uri => UriIn(http.txs, 0, Requests)
  BY <1>1, <1>2 DEF Holds
<1>8. ASSUME v.at \notin Inspecting,
             Fresh(v) \/ (v.sigs = w.sigs /\ v.dir = w.dir)
      PROVE  Holds(ds.rules, de_state', http.txs, v)
  BY <1>1, <1>7, <1>8 DEF Holds
<1>9. ASSUME v.sigs = w.sigs, v.dir = w.dir,
             v.at \in Inspecting => /\ Met(http.txs, ds.rules[Item(de_state', v)], v.nm)
                                    /\ v.uri => UriIn(http.txs, 0, Requests)
      PROVE  Holds(ds.rules, de_state', http.txs, v)
  BY <1>1, <1>7, <1>9 DEF Holds
<1> HIDE DEF Good, Fair
<1>10. CASE Packet(t)
  <2>1. Alone(t) /\ UNCHANGED <<de_state, alerts>> /\ v.at = "has" /\ Fresh(v)
    BY <1>1, <1>10, PacketIs
  <2> HIDE DEF v, Fresh
  <2> QED BY <1>2, <1>3, <1>8, <2>1 DEF Inspecting
<1>11. CASE HasState(t)
  <2>1. /\ Alone(t) /\ UNCHANGED <<de_state, alerts>> /\ v.dir = w.dir /\ v.sigs = w.sigs
        /\ v.at \in Inspecting => ~v.uri /\ v.nm = 1
    BY <1>1, <1>11, HasStateIs DEF Inspecting
  <2> HIDE DEF v, w
  <2>2. Holds(ds.rules, de_state', http.txs, v)
    BY <1>6, <1>9, <2>1
  <2> QED BY <1>2, <1>3, <2>1, <2>2
<1>12. CASE Continue(t)
  <2>1. /\ Alone(t) /\ UNCHANGED <<de_state, alerts>> /\ v.dir = w.dir /\ v.sigs = w.sigs
        /\ v.at \in Inspecting =>
             ~v.start /\ ~v.uri /\ v.i \in 1 .. Len(de_state) /\ v.nm = de_state[v.i].nm
    BY <1>1, <1>12, ContinueIs DEF Inspecting
  <2> HIDE DEF v, w
  <2>2. Holds(ds.rules, de_state', http.txs, v)
    BY <1>2, <1>9, <2>1 DEF Good, Item
  <2> QED BY <1>2, <1>3, <2>1, <2>2
<1>13. CASE InspectUri(t)
  <2>1. /\ Alone(t) /\ UNCHANGED <<de_state, alerts>> /\ w.at = "uri" /\ v.dir = w.dir /\ v.sigs = w.sigs
        /\ v.i = w.i /\ v.nm = w.nm /\ v.start = w.start
        /\ v.uri => \E k \in Txs : k > ids.inspect /\ "uri" \in http.txs[k].has
    BY <1>1, <1>13, InspectUriIs
  <2>2. v.uri => UriIn(http.txs, 0, Requests)
    <3> SUFFICES ASSUME v.uri PROVE UriIn(http.txs, 0, Requests)
      OBVIOUS
    <3>1. PICK k \in Txs : k > ids.inspect /\ "uri" \in http.txs[k].has
      BY <2>1
    <3>2. k \in 1 .. Requests
      BY <1>1 DEF Txs
    <3> QED BY <1>1, <3>1, <3>2 DEF UriIn
  <2>3. Item(de_state', v) = Item(de_state, w)
    BY <2>1 DEF Item
  <2> HIDE DEF v, w
  <2>4. Holds(ds.rules, de_state', http.txs, v)
    BY <1>7, <1>9, <2>1, <2>2, <2>3 DEF Inspecting
  <2> QED BY <1>2, <1>3, <2>1, <2>4
<1>14. CASE MatchPart(t)
  <2> DEFINE rule == ds.rules[Item(de_state, w)]
             more == w.nm <= Len(rule.parts) /\ \E k \in Txs : rule.parts[w.nm] \in http.txs[k].has
  <2>1. /\ Alone(t) /\ UNCHANGED <<de_state, alerts>> /\ w.at = "parts" /\ v.dir = w.dir /\ v.sigs = w.sigs
        /\ v.i = w.i /\ v.start = w.start /\ v.uri = w.uri
        /\ (more /\ v.nm = w.nm + 1) \/ (~more /\ v.nm = w.nm)
    BY <1>1, <1>14, MatchPartIs
  <2>2. Item(de_state', v) = Item(de_state, w)
    BY <2>1 DEF Item
  <2> HIDE DEF v, w
  <2>3. Met(http.txs, rule, w.nm) /\ (w.uri => UriIn(http.txs, 0, Requests))
    BY <1>7, <2>1 DEF Inspecting
  <2>4. Met(http.txs, rule, v.nm)
    <3>1. CASE v.nm = w.nm
      BY <2>3, <3>1
    <3>2. CASE more /\ v.nm = w.nm + 1
      <4>1. PICK k \in 1 .. Len(http.txs) : rule.parts[w.nm] \in http.txs[k].has
        BY <1>1, <3>2 DEF Txs
      <4> HIDE DEF rule
      <4> SUFFICES ASSUME NEW i \in 1 .. Len(rule.parts), i < w.nm + 1
                   PROVE  \E j \in 1 .. Len(http.txs) : rule.parts[i] \in http.txs[j].has
        BY <3>2 DEF Met
      <4>2. i = w.nm \/ i < w.nm
        BY <1>1
      <4> QED BY <2>3, <4>1, <4>2 DEF Met
    <3> QED BY <2>1, <3>1, <3>2
  <2> HIDE DEF more
  <2>5. Holds(ds.rules, de_state', http.txs, v)
    BY <1>9, <2>1, <2>2, <2>3, <2>4
  <2> QED BY <1>2, <1>3, <2>1, <2>5
<1>15. CASE StoreStart(t)
  <2> DEFINE rule == ds.rules[w.i]
             item == [rule |-> w.i, uri |-> w.uri, nm |-> w.nm]
             alert == [rule |-> w.i, lo |-> w.lo, upto |-> Requests]
             all == w.nm = Past(rule) /\ (rule.uri => w.uri) /\ (rule.parts = <<>> => w.uri)
  <2>1. /\ Alone(t) /\ Free /\ w.at = "store" /\ w.start
        /\ de_state' = Append(de_state, item)
        /\ (all /\ alerts' = Append(alerts, alert)) \/ alerts' = alerts
        /\ v.dir = w.dir /\ v.sigs = w.sigs
        /\ v.at \in Inspecting => ~v.uri /\ v.nm = 1
    BY <1>1, <1>15, StoreStartIs DEF Inspecting
  <2>2. Met(http.txs, rule, w.nm) /\ (w.uri => UriIn(http.txs, 0, Requests))
    BY <1>7, <2>1 DEF Inspecting, Item
  <2>3. /\ de_state \in Seq([rule : DOMAIN ds.rules, uri : BOOLEAN, nm : Nat])
        /\ alerts \in Seq([rule : DOMAIN ds.rules, lo : Nat, upto : Nat])
    BY <1>1 DEF Typed
  <2>4. item.rule = w.i /\ item.uri = w.uri /\ item.nm = w.nm /\ alert.rule = w.i /\ alert.upto = Requests
    OBVIOUS
  <2> HIDE DEF item, alert, v, w
  <2>5. Good(de_state')
    <3> SUFFICES ASSUME NEW n \in 1 .. Len(de_state')
                 PROVE  /\ Met(http.txs, ds.rules[de_state'[n].rule], de_state'[n].nm)
                        /\ de_state'[n].uri => UriIn(http.txs, 0, Requests)
      BY DEF Good
    <3>1. /\ n \in 1 .. Len(de_state) + 1 /\ (n \in 1 .. Len(de_state) => de_state'[n] = de_state[n])
          /\ (n = Len(de_state) + 1 => de_state'[n] = item)
      BY <2>1, <2>3
    <3> QED BY <1>1, <1>2, <2>2, <2>4, <3>1 DEF Good
  <2>6. Fair(alerts')
    <3>1. CASE alerts' = alerts
      BY <1>2, <3>1
    <3>2. CASE all /\ alerts' = Append(alerts, alert)
      <4> SUFFICES ASSUME NEW n \in 1 .. Len(alerts')
                   PROVE  /\ Met(http.txs, ds.rules[alerts'[n].rule], Past(ds.rules[alerts'[n].rule]))
                          /\ ds.rules[alerts'[n].rule].uri => UriIn(http.txs, 0, alerts'[n].upto)
        BY DEF Fair
      <4>1. /\ Len(alerts) \in Nat
            /\ n \in 1 .. Len(alerts) + 1 /\ (n \in 1 .. Len(alerts) => alerts'[n] = alerts[n])
            /\ (n = Len(alerts) + 1 => alerts'[n] = alert)
        BY <2>3, <3>2
      <4> QED BY <1>2, <2>2, <2>4, <3>2, <4>1 DEF Fair
    <3> QED BY <2>1, <3>1, <3>2
  <2>7. Holds(ds.rules, de_state', http.txs, v)
    BY <1>6, <1>9, <2>1
  <2> QED BY <1>3, <1>4, <2>1, <2>5, <2>6, <2>7
<1>16. CASE StoreContinue(t)
  <2> DEFINE item == de_state[w.i]
             rule == ds.rules[item.rule]
             inspects == w.dir = "toserver" /\ rule.uri /\ ~item.uri
             touched == item.nm # Past(rule) \/ inspects
             matched == w.nm = Past(rule) /\ (inspects => w.uri)
  <2>1. /\ Alone(t) /\ alerts' = alerts /\ w.at = "store" /\ ~w.start /\ w.i \in 1 .. Len(de_state)
        /\ de_state' = [de_state EXCEPT ![w.i].uri = @ \/ w.uri, ![w.i].nm = w.nm]
        /\ ~v.start /\ v.dir = w.dir
        /\ \A r \in DOMAIN ds.rules : r # item.rule => v.sigs[r] = w.sigs[r]
        /\ v.sigs[item.rule] = IF ~touched THEN w.sigs[item.rule] ELSE IF matched THEN "new" ELSE "partial"
        /\ v.at \in Inspecting => /\ v.i = w.i + 1 /\ w.i < Len(de_state)
                                  /\ ~v.uri /\ v.nm = de_state[w.i + 1].nm
    BY <1>1, <1>16, StoreContinueIs DEF Inspecting
  <2>2. Met(http.txs, rule, w.nm) /\ (w.uri => UriIn(http.txs, 0, Requests))
    BY <1>7, <2>1 DEF Inspecting, Item
  <2>3. /\ Len(de_state') = Len(de_state)
        /\ \A n \in 1 .. Len(de_state) : n # w.i => de_state'[n] = de_state[n]
        /\ de_state'[w.i].rule = item.rule /\ de_state'[w.i].nm = w.nm
        /\ de_state'[w.i].uri = (item.uri \/ w.uri)
    <3> DEFINE I == [rule : DOMAIN ds.rules, uri : BOOLEAN, nm : Nat]
    <3>1. de_state \in Seq(I)
      BY <1>1 DEF Typed
    <3>2. de_state[w.i] \in I
      <4> HIDE DEF w, I
      <4> QED BY <2>1, <3>1
    <3> HIDE DEF w
    <3> QED BY <2>1, <3>1, <3>2
  <2> HIDE DEF v, w
  <2>i. item.rule \in DOMAIN ds.rules
    BY <1>1, <2>1
  <2>4. item.uri => UriIn(http.txs, 0, Requests)
    BY <1>2, <2>1 DEF Good
  <2>5. Good(de_state')
    <3> SUFFICES ASSUME NEW n \in 1 .. Len(de_state)
                 PROVE  /\ Met(http.txs, ds.rules[de_state'[n].rule], de_state'[n].nm)
                        /\ de_state'[n].uri => UriIn(http.txs, 0, Requests)
      BY <2>3 DEF Good
    <3>1. CASE n = w.i
      BY <2>2, <2>3, <2>4, <3>1
    <3>2. CASE n # w.i
      BY <1>2, <2>3, <3>2 DEF Good
    <3> QED BY <3>1, <3>2
  <2>6. \A r \in DOMAIN ds.rules : v.sigs[r] = "new" =>
          /\ Met(http.txs, ds.rules[r], Past(ds.rules[r]))
          /\ v.dir = "toserver" /\ ds.rules[r].uri => UriIn(http.txs, 0, Requests)
    <3> SUFFICES ASSUME NEW r \in DOMAIN ds.rules, v.sigs[r] = "new"
                 PROVE  /\ Met(http.txs, ds.rules[r], Past(ds.rules[r]))
                        /\ v.dir = "toserver" /\ ds.rules[r].uri => UriIn(http.txs, 0, Requests)
      OBVIOUS
    <3>1. CASE r # item.rule \/ ~touched
      <4>1. w.sigs[r] = "new"
        BY <2>1, <3>1
      <4> QED BY <1>7, <2>1, <4>1
    <3>2. CASE r = item.rule /\ touched
      <4>1. matched
        BY <2>1, <3>2
      <4>2. v.dir = "toserver" /\ rule.uri => UriIn(http.txs, 0, Requests)
        BY <2>1, <2>2, <2>4, <4>1
      <4> QED BY <2>2, <3>2, <4>1, <4>2
    <3> QED BY <3>1, <3>2
  <2>7. v.at \in Inspecting => /\ Met(http.txs, ds.rules[Item(de_state', v)], v.nm)
                               /\ v.uri => UriIn(http.txs, 0, Requests)
    <3> SUFFICES ASSUME v.at \in Inspecting
                 PROVE  Met(http.txs, ds.rules[Item(de_state', v)], v.nm) /\ ~v.uri
      OBVIOUS
    <3>1. w.i + 1 \in 1 .. Len(de_state) /\ w.i + 1 # w.i
      BY <1>1, <2>1
    <3>2. Item(de_state', v) = de_state[w.i + 1].rule
      BY <2>1, <2>3, <3>1 DEF Item
    <3> QED BY <1>2, <2>1, <3>1, <3>2 DEF Good
  <2>8. Holds(ds.rules, de_state', http.txs, v)
    BY <1>1, <2>6, <2>7 DEF Holds
  <2>9. Continues(w)
    BY <2>1 DEF Continues
  <2> QED BY <1>2, <1>3, <1>5, <2>1, <2>5, <2>8, <2>9
<1>17. CASE End(t)
  <2> DEFINE S == {r \in DOMAIN ds.rules : w.dir = "toserver" /\ w.sigs[r] = "new"}
  <2>1. /\ Alone(t) /\ de_state' = de_state /\ v.at \in {"idle", "reset"} /\ Fresh(v)
        /\ Len(alerts') \in Nat /\ Len(alerts) <= Len(alerts')
        /\ \A n \in 1 .. Len(alerts) : alerts'[n] = alerts[n]
        /\ \A n \in Len(alerts) + 1 .. Len(alerts') :
             alerts'[n].rule \in S /\ alerts'[n].lo = w.lo /\ alerts'[n].upto = Requests
    BY <1>1, <1>17, EndIs
  <2> HIDE DEF v, w, Fresh
  <2>2. Fair(alerts')
    <3> SUFFICES ASSUME NEW n \in 1 .. Len(alerts')
                 PROVE  /\ Met(http.txs, ds.rules[alerts'[n].rule], Past(ds.rules[alerts'[n].rule]))
                        /\ ds.rules[alerts'[n].rule].uri => UriIn(http.txs, 0, alerts'[n].upto)
      BY DEF Fair
    <3>1. CASE n \in 1 .. Len(alerts)
      BY <1>2, <2>1, <3>1 DEF Fair
    <3>2. CASE n \in Len(alerts) + 1 .. Len(alerts')
      BY <1>7, <2>1, <3>2
    <3>3. Len(alerts) \in Nat
      BY <1>1, Facts
    <3> QED BY <2>1, <3>1, <3>2, <3>3
  <2>3. Holds(ds.rules, de_state', http.txs, v)
    BY <1>8, <2>1 DEF Inspecting
  <2> QED BY <1>2, <1>3, <2>1, <2>2, <2>3
<1>18. CASE Reset(t)
  <2>1. /\ Alone(t) /\ Free /\ de_state' = <<>> /\ alerts' = alerts /\ v.at = "idle" /\ Fresh(v)
    BY <1>1, <1>18, ResetIs
  <2> HIDE DEF v, Fresh
  <2>2. Good(de_state')
    BY <2>1 DEF Good
  <2>3. Holds(ds.rules, de_state', http.txs, v)
    BY <1>8, <2>1 DEF Inspecting
  <2> QED BY <1>2, <1>3, <1>4, <2>1, <2>2, <2>3
<1> QED BY <1>10, <1>11, <1>12, <1>13, <1>14, <1>15, <1>16, <1>17, <1>18 DEF Detect

---------------------------------------------------------------------------
(* One thread, under every step                                            *)

LEMMA OneThreadGrown ==
  ASSUME DetectAssumption, Typed, OneThread, Grown, Requests' \in Nat
  PROVE  OneThread'
<1>1. UNCHANGED <<ds, de_state, det, alerts>> /\ ids'.inspect = ids.inspect /\ Requests <= Requests'
  BY DEF Grown
<1>2. /\ Requests \in Nat /\ ids.inspect \in Nat
      /\ \A n \in 1 .. Len(alerts) : alerts[n].lo \in Nat /\ alerts[n].upto \in Nat
  BY Facts
<1>3. /\ Len(http.txs) = Requests /\ Len(http'.txs) = Requests'
      /\ \A lo, upto \in Nat, m \in Nat :
           upto <= m /\ UriIn(http.txs, lo, upto) => UriIn(http'.txs, lo, m)
  BY <1>2, GrownIs
<1>4. UriIn(http.txs, ids.inspect, Len(http.txs)) => UriIn(http'.txs, ids.inspect, Len(http'.txs))
  BY <1>1, <1>2, <1>3
<1>5. \A n \in 1 .. Len(alerts) : UriIn(http.txs, alerts[n].lo, alerts[n].upto)
                                    => UriIn(http'.txs, alerts[n].lo, alerts[n].upto)
  BY <1>2, <1>3
<1>6. ASSUME Unique(ds.rules, http.txs, alerts, ids.inspect)
      PROVE  Unique(ds.rules, http'.txs, alerts, ids.inspect)
  BY <1>5, <1>6 DEF Unique
<1>7. ASSUME NEW w, Current(ds.rules, http.txs, de_state, alerts, ids.inspect, w)
      PROVE  Current(ds.rules, http'.txs, de_state, alerts, ids.inspect, w)
  BY <1>4, <1>7 DEF Current, OwnItems, Ended, Found, Looks
<1> QED BY <1>1, <1>6, <1>7 DEF OneThread

LEMMA OneThreadDetect ==
  ASSUME DetectAssumption, TxInv, Placed, OneThread, NEW t \in ds.threads, Detect(t)
  PROVE  OneThread'
<1> DEFINE txs == http.txs
           rules == ds.rules
           at == ids.inspect
           Fresh(x) == \A r \in DOMAIN rules : x.sigs[r] = "full"
           w == det[t]
           v == det'[t]
<1>1. /\ Typed /\ w \in Worker /\ Threads = ds.threads /\ Requests \in Nat /\ Requests = Len(txs)
      /\ Len(de_state) \in Nat /\ Len(rules) \in Nat /\ DOMAIN rules = 1 .. Len(rules)
      /\ \A n \in 1 .. Len(de_state) : de_state[n].rule \in DOMAIN rules /\ de_state[n].nm \in Nat
      /\ DOMAIN txs = 1 .. Requests /\ at \in Nat
      /\ Len(alerts) \in Nat
      /\ \A n \in 1 .. Len(alerts) : alerts[n].lo \in Nat
  <2>1. Typed
    BY DEF TxInv
  <2> QED BY <2>1, Facts DEF Typed, Requests
<1>2. Alone(t)
  BY TxDetect
<1>3. UNCHANGED <<ds, http>>
  BY <1>2 DEF Alone
<1> SUFFICES ASSUME ds.threads = {t}
             PROVE  /\ Unique(rules, txs, alerts', ids'.inspect)
                    /\ v.at = "reset" => \A r \in DOMAIN rules : ~Alerted(alerts', r, ids'.inspect)
                    /\ v.at # "reset" => Current(rules, txs, de_state', alerts', ids'.inspect, v)
  BY <1>3 DEF OneThread
<1>4. /\ Unique(rules, txs, alerts, at)
      /\ w.at = "reset" => \A r \in DOMAIN rules : ~Alerted(alerts, r, at)
      /\ w.at # "reset" => /\ OwnItems(txs, de_state, at) /\ Ended(rules, de_state, alerts, at)
                           /\ Found(rules, txs, de_state, alerts, at, w) /\ Looks(txs, de_state, at, w)
  BY DEF OneThread, Current
<1>5. Sits(rules, de_state, w)
  BY DEF Placed
<1> HIDE DEF txs, rules, at, w, v
<1>at. ids.inspect = at
  BY DEF at
<1>10. CASE Packet(t)
  <2>1. /\ UNCHANGED <<ids, de_state, alerts>> /\ w.at = "idle" /\ v.at = "has" /\ Fresh(v)
    BY <1>1, <1>10, PacketIs DEF w, v, rules
  <2>2. Found(rules, txs, de_state, alerts, at, v) /\ Looks(txs, de_state, at, v)
    BY <2>1 DEF Found, Looks, Inspecting
  <2> QED BY <1>4, <1>at, <2>1, <2>2 DEF Current
<1>11. CASE HasState(t)
  <2>1. /\ UNCHANGED <<ids, de_state, alerts>> /\ w.at = "has" /\ v.dir = w.dir /\ v.sigs = w.sigs
        /\ v.lo = w.lo
        /\ \/ /\ v.at = "continue" /\ ~v.start
           \/ /\ Len(de_state) = 0 /\ v.start
              /\ v.at = "end" \/ (v.at = "uri" /\ v.i = 1)
    BY <1>1, <1>11, HasStateIs DEF w, v
  <2>2. Found(rules, txs, de_state, alerts, at, v)
    <3>1. CASE ~v.start
      BY <1>4, <2>1, <3>1 DEF Found
    <3>2. CASE Len(de_state) = 0
      BY <1>4, <2>1, <3>2 DEF Found
    <3> QED BY <2>1, <3>1, <3>2
  <2>3. Looks(txs, de_state, at, v) /\ v.at # "reset"
    BY <2>1 DEF Looks, Inspecting
  <2> QED BY <1>4, <1>at, <2>1, <2>2, <2>3 DEF Current
<1>12. CASE Continue(t)
  <2>1. /\ UNCHANGED <<ids, de_state, alerts>> /\ w.at = "continue" /\ v.dir = w.dir /\ v.sigs = w.sigs
        /\ v.lo = w.lo /\ ~v.start /\ v.at \in {"end", "uri"}
    BY <1>1, <1>12, ContinueIs DEF w, v
  <2>2. Found(rules, txs, de_state, alerts, at, v) /\ Looks(txs, de_state, at, v)
    BY <1>4, <2>1 DEF Found, Looks, Inspecting
  <2> QED BY <1>4, <1>at, <2>1, <2>2 DEF Current
<1>13. CASE InspectUri(t)
  <2>1. /\ UNCHANGED <<ids, de_state, alerts>> /\ w.at = "uri" /\ v.at = "parts" /\ v.dir = w.dir
        /\ v.sigs = w.sigs /\ v.lo = at /\ v.start = w.start /\ v.i = w.i
        /\ v.uri => \E k \in Txs : k > at /\ "uri" \in txs[k].has
    BY <1>1, <1>13, InspectUriIs DEF w, v, at, txs
  <2>2. v.uri => UriIn(txs, at, Len(txs))
    <3>1. \A k \in Txs : k \in 1 .. Requests
      BY <1>1 DEF Txs, txs
    <3> QED BY <1>1, <2>1, <3>1 DEF UriIn
  <2>3. Found(rules, txs, de_state, alerts, at, v) /\ Looks(txs, de_state, at, v)
    BY <1>4, <2>1, <2>2 DEF Found, Looks, Inspecting
  <2> QED BY <1>4, <1>at, <2>1, <2>3 DEF Current
<1>14. CASE MatchPart(t)
  <2>1. /\ UNCHANGED <<ids, de_state, alerts>> /\ w.at = "parts" /\ v.at \in {"parts", "store"}
        /\ v.dir = w.dir /\ v.sigs = w.sigs /\ v.lo = w.lo /\ v.start = w.start /\ v.i = w.i
        /\ v.uri = w.uri
    BY <1>1, <1>14, MatchPartIs DEF w, v
  <2>2. Found(rules, txs, de_state, alerts, at, v) /\ Looks(txs, de_state, at, v)
    BY <1>4, <2>1 DEF Found, Looks, Inspecting
  <2> QED BY <1>4, <1>at, <2>1, <2>2 DEF Current
<1>15. CASE StoreStart(t)
  <2> DEFINE item == [rule |-> w.i, uri |-> w.uri, nm |-> w.nm]
             alert == [rule |-> w.i, lo |-> w.lo, upto |-> Requests]
             all == /\ w.nm = Past(rules[w.i]) /\ (rules[w.i].uri => w.uri)
                    /\ rules[w.i].parts = <<>> => w.uri
  <2>1. /\ ids' = ids /\ w.at = "store" /\ w.start /\ w.i \in 1 .. Len(rules)
        /\ de_state' = Append(de_state, item)
        /\ (all /\ alerts' = Append(alerts, alert)) \/ alerts' = alerts
        /\ v.start /\ v.dir = w.dir /\ v.sigs = w.sigs
        /\ v.at = "end" \/ (v.at = "uri" /\ v.i = w.i + 1)
    BY <1>1, <1>15, StoreStartIs DEF w, v, rules
  <2>2. /\ de_state \in Seq([rule : DOMAIN rules, uri : BOOLEAN, nm : Nat])
        /\ alerts \in Seq([rule : DOMAIN rules, lo : Nat, upto : Nat])
    BY <1>1 DEF Typed, rules
  <2>3. /\ item.rule = w.i /\ item.uri = w.uri /\ item.nm = w.nm
        /\ alert.rule = w.i /\ alert.lo = w.lo /\ alert.upto = Requests
    OBVIOUS
  <2> HIDE DEF item, alert
  <2>4. /\ w.lo = at /\ (w.uri => UriIn(txs, at, Len(txs))) /\ Len(de_state) = w.i - 1
        /\ OwnItems(txs, de_state, at) /\ Ended(rules, de_state, alerts, at)
    BY <1>4, <2>1 DEF Looks, Inspecting
  <2>5. /\ Len(de_state') = w.i /\ de_state'[w.i] = item
        /\ \A n \in 1 .. w.i - 1 : de_state'[n] = de_state[n]
    <3>1. Len(de_state) + 1 = w.i /\ Len(de_state) = w.i - 1 /\ w.i \in Nat
      BY <1>1, <2>1, <2>4
    <3>2. /\ Len(de_state') = Len(de_state) + 1 /\ de_state'[Len(de_state) + 1] = item
          /\ \A n \in 1 .. Len(de_state) : de_state'[n] = de_state[n]
      BY <2>1, <2>2
    <3> QED BY <3>1, <3>2
  <2>6. ~Alerted(alerts, w.i, at)
    <3>1. ~(w.i \in 1 .. Len(de_state)) /\ w.i \in DOMAIN rules
      BY <1>1, <2>1, <2>4
    <3> QED BY <2>4, <3>1 DEF Ended
  <2>7. OwnItems(txs, de_state', at)
    <3> SUFFICES ASSUME NEW n \in 1 .. w.i
                 PROVE  de_state'[n].rule = n /\ (de_state'[n].uri => UriIn(txs, at, Len(txs)))
      BY <2>5 DEF OwnItems
    <3>1. n = w.i \/ n \in 1 .. w.i - 1
      BY <2>1
    <3> QED BY <2>3, <2>4, <2>5, <3>1 DEF OwnItems
  <2>8. \A r \in DOMAIN rules : Alerted(alerts, r, at) =>
          r \in 1 .. Len(de_state') /\ ItemDone(rules[r], de_state'[r])
    <3> SUFFICES ASSUME NEW r \in DOMAIN rules, Alerted(alerts, r, at)
                 PROVE  r \in 1 .. Len(de_state') /\ ItemDone(rules[r], de_state'[r])
      OBVIOUS
    <3>1. r \in 1 .. w.i - 1 /\ ItemDone(rules[r], de_state[r])
      BY <2>4 DEF Ended
    <3> QED BY <2>1, <2>5, <3>1
  <2>9. Unique(rules, txs, alerts', at) /\ Ended(rules, de_state', alerts', at)
    <3>1. CASE alerts' = alerts
      BY <1>4, <2>8, <3>1 DEF Ended
    <3>2. CASE all /\ alerts' = Append(alerts, alert)
      <4>1. /\ Len(alerts') = Len(alerts) + 1 /\ alerts'[Len(alerts) + 1] = alert
            /\ \A n \in 1 .. Len(alerts) : alerts'[n] = alerts[n]
        BY <2>2, <3>2
      <4>2. \A n \in 1 .. Len(alerts') : n \in 1 .. Len(alerts) \/ n = Len(alerts) + 1
        BY <1>1, <4>1
      <4>3. rules[w.i].uri => UriIn(txs, w.lo, Requests)
        BY <1>1, <2>4, <3>2
      <4>4. \A n \in 1 .. Len(alerts') :
              /\ alerts'[n].lo <= at
              /\ rules[alerts'[n].rule].uri => UriIn(txs, alerts'[n].lo, alerts'[n].upto)
        <5> TAKE n \in 1 .. Len(alerts')
        <5>1. CASE n \in 1 .. Len(alerts)
          BY <1>4, <4>1, <5>1 DEF Unique
        <5>2. CASE n = Len(alerts) + 1
          BY <1>1, <2>3, <2>4, <4>1, <4>3, <5>2
        <5> QED BY <4>2, <5>1, <5>2
      <4>5. \A n \in 1 .. Len(alerts) : ~(alerts[n].rule = w.i /\ alerts[n].lo = at)
        BY <2>6 DEF Alerted
      <4>6. \A n, o \in 1 .. Len(alerts') :
              alerts'[n].rule = alerts'[o].rule /\ alerts'[n].lo = alerts'[o].lo => n = o
        <5> TAKE n, o \in 1 .. Len(alerts')
        <5>1. CASE n \in 1 .. Len(alerts) /\ o \in 1 .. Len(alerts)
          BY <1>4, <4>1, <5>1 DEF Unique
        <5>2. CASE n = Len(alerts) + 1 /\ o = Len(alerts) + 1
          BY <5>2
        <5>3. CASE n \in 1 .. Len(alerts) /\ o = Len(alerts) + 1
          BY <2>3, <2>4, <4>1, <4>5, <5>3
        <5>4. CASE o \in 1 .. Len(alerts) /\ n = Len(alerts) + 1
          BY <2>3, <2>4, <4>1, <4>5, <5>4
        <5> QED BY <4>2, <5>1, <5>2, <5>3, <5>4
      <4>7. ASSUME NEW r \in DOMAIN rules, Alerted(alerts', r, at)
            PROVE  r \in 1 .. Len(de_state') /\ ItemDone(rules[r], de_state'[r])
        <5>1. PICK n \in 1 .. Len(alerts') : alerts'[n].rule = r /\ alerts'[n].lo = at
          BY <4>7 DEF Alerted
        <5>2. CASE n \in 1 .. Len(alerts)
          <6>1. Alerted(alerts, r, at)
            BY <4>1, <5>1, <5>2 DEF Alerted
          <6> QED BY <2>8, <6>1
        <5>3. CASE n = Len(alerts) + 1
          <6>1. r = w.i
            BY <2>3, <4>1, <5>1, <5>3
          <6>2. ItemDone(rules[r], item)
            BY <2>3, <3>2, <6>1 DEF ItemDone
          <6> QED BY <2>1, <2>5, <6>1, <6>2
        <5> QED BY <4>2, <5>2, <5>3
      <4> QED BY <4>4, <4>6, <4>7 DEF Unique, Ended
    <3> QED BY <2>1, <3>1, <3>2
  <2>10. Found(rules, txs, de_state', alerts', at, v)
    BY <1>4, <2>1 DEF Found
  <2>11. Looks(txs, de_state', at, v) /\ v.at # "reset"
    BY <2>1, <2>5 DEF Looks, Inspecting
  <2> QED BY <1>at, <2>1, <2>7, <2>9, <2>10, <2>11 DEF Current
<1>16. CASE StoreContinue(t)
  <2> DEFINE i == w.i
             item == de_state[i]
             inspects == w.dir = "toserver" /\ rules[i].uri /\ ~item.uri
             touched == item.nm # Past(rules[i]) \/ inspects
             matched == w.nm = Past(rules[i]) /\ (inspects => w.uri)
  <2>1. /\ UNCHANGED <<ids, alerts>> /\ w.at = "store" /\ ~w.start /\ i \in 1 .. Len(de_state)
        /\ de_state' = [de_state EXCEPT ![i].uri = @ \/ w.uri, ![i].nm = w.nm]
        /\ w.nm \in 1 .. Past(rules[item.rule]) /\ item.nm <= w.nm
        /\ ~v.start /\ v.dir = w.dir /\ v.lo = w.lo
    BY <1>1, <1>16, StoreContinueIs DEF w, v, rules
  <2>2. /\ OwnItems(txs, de_state, at) /\ Ended(rules, de_state, alerts, at)
        /\ Found(rules, txs, de_state, alerts, at, w)
        /\ w.lo = at /\ (w.uri => UriIn(txs, at, Len(txs)))
    BY <1>4, <2>1 DEF Looks
  <2>3. item.rule = i
    BY <2>1, <2>2 DEF OwnItems
  <2>4. /\ \A r \in DOMAIN rules : r # i => v.sigs[r] = w.sigs[r]
        /\ v.sigs[i] = IF ~touched THEN w.sigs[i] ELSE IF matched THEN "new" ELSE "partial"
        /\ v.at \in {"end", "uri"} /\ w.nm \in 1 .. Past(rules[i]) /\ i \in DOMAIN rules
    <3>1. /\ \A r \in DOMAIN rules : r # item.rule => v.sigs[r] = w.sigs[r]
          /\ v.sigs[item.rule] =
               IF ~(item.nm # Past(rules[item.rule]) \/ (w.dir = "toserver" /\ rules[item.rule].uri /\ ~item.uri))
               THEN w.sigs[item.rule]
               ELSE IF /\ w.nm = Past(rules[item.rule])
                       /\ (w.dir = "toserver" /\ rules[item.rule].uri /\ ~item.uri) => w.uri
                    THEN "new" ELSE "partial"
          /\ v.at \in {"end", "uri"}
      BY <1>1, <1>16, StoreContinueIs DEF w, v, rules
    <3>2. item.rule \in DOMAIN rules
      BY <1>1, <2>1
    <3> QED BY <2>1, <2>3, <3>1, <3>2
  <2>5. /\ Len(de_state') = Len(de_state)
        /\ \A n \in 1 .. Len(de_state) : n # i => de_state'[n] = de_state[n]
        /\ de_state'[i].rule = i /\ de_state'[i].nm = w.nm
        /\ de_state'[i].uri = (item.uri \/ w.uri)
    <3> DEFINE I == [rule : DOMAIN rules, uri : BOOLEAN, nm : Nat]
    <3>1. de_state \in Seq(I)
      BY <1>1 DEF Typed, rules
    <3>2. de_state[i] \in I
      <4> HIDE DEF I, i
      <4> QED BY <2>1, <3>1
    <3> HIDE DEF i
    <3> QED BY <2>1, <2>3, <3>1, <3>2
  <2> HIDE DEF i
  <2>6. OwnItems(txs, de_state', at)
    <3> SUFFICES ASSUME NEW n \in 1 .. Len(de_state)
                 PROVE  de_state'[n].rule = n /\ (de_state'[n].uri => UriIn(txs, at, Len(txs)))
      BY <2>5 DEF OwnItems
    <3>1. CASE n = i
      BY <2>1, <2>2, <2>5, <3>1 DEF OwnItems
    <3>2. CASE n # i
      BY <2>2, <2>5, <3>2 DEF OwnItems
    <3> QED BY <3>1, <3>2
  <2>7. \A r \in 1 .. Len(de_state) : ItemDone(rules[r], de_state[r]) => ItemDone(rules[r], de_state'[r])
    <3> SUFFICES ASSUME ItemDone(rules[i], item) PROVE ItemDone(rules[i], de_state'[i])
      BY <2>5
    <3>1. item.nm = Past(rules[i]) /\ (rules[i].uri => item.uri)
      BY DEF ItemDone
    <3>2. w.nm = Past(rules[i])
      <4>1. item.nm \in Nat /\ w.nm \in Nat
        BY <1>1, <2>1 DEF Worker
      <4> QED BY <2>1, <2>4, <3>1, <4>1
    <3> QED BY <2>5, <3>1, <3>2 DEF ItemDone
  <2>8. Ended(rules, de_state', alerts, at)
    BY <2>2, <2>5, <2>7 DEF Ended
  <2>9. Found(rules, txs, de_state', alerts, at, v)
    <3> SUFFICES ASSUME NEW r \in DOMAIN rules, v.sigs[r] = "new"
                 PROVE  /\ ~Alerted(alerts, r, at) /\ r \in 1 .. Len(de_state)
                        /\ w.dir = "toserver" => /\ ItemDone(rules[r], de_state'[r])
                                                 /\ rules[r].uri => UriIn(txs, at, Len(txs))
      BY <2>1, <2>2, <2>5 DEF Found
    <3>1. CASE r # i \/ ~touched
      <4>1. w.sigs[r] = "new"
        BY <2>4, <3>1
      <4>2. /\ ~Alerted(alerts, r, at) /\ r \in 1 .. Len(de_state)
            /\ w.dir = "toserver" => /\ ItemDone(rules[r], de_state[r])
                                     /\ rules[r].uri => UriIn(txs, at, Len(txs))
        BY <2>2, <4>1 DEF Found
      <4> QED BY <2>7, <4>2
    <3>2. CASE r = i /\ touched
      <4>1. matched
        BY <2>4, <3>2
      <4>2. ~ItemDone(rules[i], item)
        BY <3>2 DEF ItemDone
      <4>3. ~Alerted(alerts, i, at)
        BY <2>2, <2>4, <4>2 DEF Ended
      <4>4. w.dir = "toserver" /\ rules[i].uri => (item.uri \/ w.uri)
        BY <4>1
      <4>5. item.uri => UriIn(txs, at, Len(txs))
        BY <2>1, <2>2 DEF OwnItems
      <4>6. w.dir = "toserver" => /\ ItemDone(rules[i], de_state'[i])
                                  /\ rules[i].uri => UriIn(txs, at, Len(txs))
        BY <2>2, <2>5, <4>1, <4>4, <4>5 DEF ItemDone
      <4> QED BY <2>1, <3>2, <4>3, <4>6
    <3> QED BY <3>1, <3>2
  <2>10. Looks(txs, de_state', at, v)
    BY <2>1, <2>4 DEF Looks, Inspecting
  <2> QED BY <1>4, <1>at, <2>1, <2>4, <2>6, <2>8, <2>9, <2>10 DEF Current
<1>17. CASE End(t)
  <2> DEFINE S == {r \in DOMAIN rules : w.dir = "toserver" /\ w.sigs[r] = "new"}
  <2>1. /\ de_state' = de_state /\ w.at = "end" /\ v.at \in {"idle", "reset"} /\ Fresh(v)
        /\ Len(alerts') \in Nat /\ Len(alerts) <= Len(alerts')
        /\ \A n \in 1 .. Len(alerts) : alerts'[n] = alerts[n]
        /\ \A n \in Len(alerts) + 1 .. Len(alerts') :
             alerts'[n].rule \in S /\ alerts'[n].lo = w.lo /\ alerts'[n].upto = Requests
        /\ \A n, o \in Len(alerts) + 1 .. Len(alerts') : alerts'[n].rule = alerts'[o].rule => n = o
        /\ \/ ids'.inspect = at + 1 /\ v.at = "reset"
           \/ ids'.inspect = at /\ v.at = "idle"
    BY <1>1, <1>17, EndIs DEF w, v, rules, at
  <2> HIDE DEF S
  <2>2. /\ OwnItems(txs, de_state, at) /\ Ended(rules, de_state, alerts, at)
        /\ Found(rules, txs, de_state, alerts, at, w)
    BY <1>4, <2>1
  <2>3. \A r \in S : /\ r \in DOMAIN rules /\ ~Alerted(alerts, r, at) /\ w.lo = at
                     /\ r \in 1 .. Len(de_state) /\ ItemDone(rules[r], de_state[r])
                     /\ rules[r].uri => UriIn(txs, at, Len(txs))
    BY <2>2 DEF Found, S
  <2>4. \A n \in 1 .. Len(alerts') : n \in 1 .. Len(alerts) \/ n \in Len(alerts) + 1 .. Len(alerts')
    BY <1>1, <2>1
  <2>5. \A n \in 1 .. Len(alerts') :
          /\ alerts'[n].lo <= at
          /\ rules[alerts'[n].rule].uri => UriIn(txs, alerts'[n].lo, alerts'[n].upto)
    <3> TAKE n \in 1 .. Len(alerts')
    <3>1. CASE n \in 1 .. Len(alerts)
      BY <1>4, <2>1, <3>1 DEF Unique
    <3>2. CASE n \in Len(alerts) + 1 .. Len(alerts')
      <4>1. alerts'[n].rule \in S /\ alerts'[n].lo = w.lo /\ alerts'[n].upto = Len(txs)
        BY <1>1, <2>1, <3>2
      <4>2. alerts'[n].lo = at /\ at <= at
        BY <1>1, <2>3, <4>1
      <4>3. rules[alerts'[n].rule].uri => UriIn(txs, at, Len(txs))
        BY <2>3, <4>1
      <4> QED BY <4>1, <4>2, <4>3
    <3> QED BY <2>4, <3>1, <3>2
  <2>6. \A n, o \in 1 .. Len(alerts') :
          alerts'[n].rule = alerts'[o].rule /\ alerts'[n].lo = alerts'[o].lo => n = o
    <3>1. ASSUME NEW n \in 1 .. Len(alerts), NEW o \in Len(alerts) + 1 .. Len(alerts')
          PROVE  ~(alerts'[n].rule = alerts'[o].rule /\ alerts'[n].lo = alerts'[o].lo)
      <4>1. alerts'[n] = alerts[n] /\ alerts'[o].lo = at /\ alerts'[o].rule \in S
        BY <2>1, <2>3, <3>1
      <4>2. ~Alerted(alerts, alerts'[o].rule, at)
        BY <2>3, <4>1
      <4> QED BY <4>1, <4>2 DEF Alerted
    <3> TAKE n, o \in 1 .. Len(alerts')
    <3>2. CASE n \in 1 .. Len(alerts) /\ o \in 1 .. Len(alerts)
      BY <1>4, <2>1, <3>2 DEF Unique
    <3>3. CASE n \in Len(alerts) + 1 .. Len(alerts') /\ o \in Len(alerts) + 1 .. Len(alerts')
      BY <2>1, <3>3
    <3> QED BY <2>4, <3>1, <3>2, <3>3
  <2>7. CASE ids'.inspect = at + 1 /\ v.at = "reset"
    <3>1. Unique(rules, txs, alerts', at + 1)
      <4>1. \A n \in 1 .. Len(alerts') : alerts'[n].lo <= at + 1
        <5> TAKE n \in 1 .. Len(alerts')
        <5>1. alerts'[n].lo \in Nat
          BY <1>1, <2>1, <2>3, <2>4
        <5> QED BY <1>1, <2>5, <5>1
      <4> QED BY <2>5, <2>6, <4>1 DEF Unique
    <3>2. \A r \in DOMAIN rules : ~Alerted(alerts', r, at + 1)
      BY <1>1, <2>5 DEF Alerted
    <3> QED BY <2>7, <3>1, <3>2
  <2>8. CASE ids'.inspect = at /\ v.at = "idle"
    <3>1. Unique(rules, txs, alerts', at)
      BY <2>5, <2>6 DEF Unique
    <3>2. Ended(rules, de_state, alerts', at)
      <4> SUFFICES ASSUME NEW r \in DOMAIN rules, Alerted(alerts', r, at)
                   PROVE  r \in 1 .. Len(de_state) /\ ItemDone(rules[r], de_state[r])
        BY DEF Ended
      <4>1. PICK n \in 1 .. Len(alerts') : alerts'[n].rule = r /\ alerts'[n].lo = at
        BY DEF Alerted
      <4>2. CASE n \in 1 .. Len(alerts)
        <5>1. Alerted(alerts, r, at)
          BY <2>1, <4>1, <4>2 DEF Alerted
        <5> QED BY <2>2, <5>1 DEF Ended
      <4>3. CASE n \in Len(alerts) + 1 .. Len(alerts')
        BY <2>1, <2>3, <4>1, <4>3
      <4> QED BY <2>4, <4>2, <4>3
    <3>3. Found(rules, txs, de_state, alerts', at, v) /\ Looks(txs, de_state, at, v)
      BY <2>1, <2>8 DEF Found, Looks, Inspecting
    <3> QED BY <2>1, <2>2, <2>8, <3>1, <3>2, <3>3 DEF Current
  <2> QED BY <2>1, <2>7, <2>8
<1>18. CASE Reset(t)
  <2>1. /\ UNCHANGED <<ids, alerts>> /\ w.at = "reset" /\ de_state' = <<>> /\ v.at = "idle" /\ Fresh(v)
    BY <1>1, <1>18, ResetIs DEF w, v, rules
  <2>2. OwnItems(txs, de_state', at) /\ Ended(rules, de_state', alerts, at)
    BY <1>4, <2>1 DEF OwnItems, Ended
  <2>3. Found(rules, txs, de_state', alerts, at, v) /\ Looks(txs, de_state', at, v)
    BY <2>1 DEF Found, Looks, Inspecting
  <2> QED BY <1>4, <1>at, <2>1, <2>2, <2>3 DEF Current
<1> QED BY <1>10, <1>11, <1>12, <1>13, <1>14, <1>15, <1>16, <1>17, <1>18 DEF Detect

---------------------------------------------------------------------------
(* Requests that are passed, under every step                              *)

LEMMA JudgedGrown ==
  ASSUME DetectAssumption, TxInv, Placed, Judged, Grown, Requests' \in Nat
  PROVE  Judged'
<1> DEFINE txs == http.txs
           more == http'.txs
<1>1. UNCHANGED <<ds, de_state, det, alerts>> /\ ids'.inspect = ids.inspect /\ ids'.flags = ids.flags
      /\ Len(txs) <= Len(more) /\ Len(txs) = Requests /\ Len(more) \in Nat
  BY DEF Grown, Requests
<1>2. Typed /\ Requests \in Nat /\ ids.inspect \in Nat
  BY Facts DEF TxInv
<1> SUFFICES ASSUME NEW t \in ds.threads, ds.threads = {t}, ~ds.split
             PROVE  /\ \A k \in 1 .. ids.inspect : AllNow(ds.rules, more, alerts, k)
                    /\ det[t].at = "reset" => ids.flags = {}
                    /\ det[t].at # "reset" => Judging(ds.rules, more, de_state, alerts, ids', det[t])
  BY <1>1 DEF Judged
<1>3. \A k \in 1 .. Len(txs) : more[k].has = txs[k].has
  BY DEF Grown, Requests
<1>4. /\ \A k \in 1 .. ids.inspect : AllNow(ds.rules, txs, alerts, k)
      /\ det[t].at = "reset" => ids.flags = {}
      /\ det[t].at # "reset" => Judging(ds.rules, txs, de_state, alerts, ids, det[t])
  BY DEF Judged
<1>5. det[t].at # "idle" => ids.inspect + 1 \in 1 .. Len(txs)
  <2>1. ids.inspect < Requests \/ ids.inspect = 0
    BY DEF TxInv, Freed
  <2>2. det[t].at # "idle" => Requests > 0
    BY DEF Placed
  <2> QED BY <1>1, <1>2, <2>1, <2>2
<1> HIDE DEF txs, more
<1>6. \A rule : \A k \in 1 .. Len(txs) : Suits(rule, more[k]) = Suits(rule, txs[k])
  BY <1>3 DEF Suits
<1>7. \A k \in Nat \ {0} : \A r : Now(ds.rules, txs, alerts, r, k) => Now(ds.rules, more, alerts, r, k)
  <2> TAKE k \in Nat \ {0}
  <2> TAKE r
  <2> HAVE Now(ds.rules, txs, alerts, r, k)
  <2>1. k \in 1 .. Len(txs) /\ k <= Len(more)
    BY <1>1, <1>2 DEF Now
  <2>2. Suits(ds.rules[r], more[k]) => Served(alerts, r, k)
    BY <1>6, <2>1 DEF Now
  <2> QED BY <2>1, <2>2 DEF Now
<1>8. \A k \in Nat \ {0} : AllNow(ds.rules, txs, alerts, k) => AllNow(ds.rules, more, alerts, k)
  BY <1>7 DEF AllNow
<1>9. \A k \in 1 .. ids.inspect : AllNow(ds.rules, more, alerts, k)
  BY <1>2, <1>4, <1>8
<1>10. ASSUME det[t].at # "reset" PROVE Judging(ds.rules, more, de_state, alerts, ids', det[t])
  <2> DEFINE K == ids.inspect + 1
  <2>1. K \in Nat \ {0}
    BY <1>2
  <2>2. /\ AllNow(ds.rules, txs, alerts, K) => AllNow(ds.rules, more, alerts, K)
        /\ \A r : Now(ds.rules, txs, alerts, r, K) => Now(ds.rules, more, alerts, r, K)
    BY <1>7, <1>8, <2>1
  <2>3. det[t].at \in Inspecting => \A rule : Suits(rule, more[K]) = Suits(rule, txs[K])
    BY <1>5, <1>6 DEF Inspecting
  <2>4. Judging(ds.rules, txs, de_state, alerts, ids, det[t])
    BY <1>4, <1>10
  <2>5. ids'.inspect + 1 = K /\ ids.inspect + 1 = K
    BY <1>1
  <2> HIDE DEF K
  <2> QED BY <1>1, <2>2, <2>3, <2>4, <2>5 DEF Judging
<1> QED BY <1>4, <1>9, <1>10

LEMMA NowStays ==
  ASSUME NEW log, NEW more, Len(log) \in Nat, Len(more) \in Nat, Len(log) <= Len(more),
         \A n \in 1 .. Len(log) : more[n] = log[n]
  PROVE  /\ \A rules, txs, r, k : Now(rules, txs, log, r, k) => Now(rules, txs, more, r, k)
         /\ \A rules, txs, k : AllNow(rules, txs, log, k) => AllNow(rules, txs, more, k)
<1>1. \A n \in 1 .. Len(log) : n \in 1 .. Len(more)
  OBVIOUS
<1>2. \A r, k : Served(log, r, k) => Served(more, r, k)
  BY <1>1 DEF Served
<1>3. \A rules, txs, r, k : Now(rules, txs, log, r, k) => Now(rules, txs, more, r, k)
  BY <1>2 DEF Now
<1> QED BY <1>3 DEF AllNow

LEMMA JudgedDetect ==
  ASSUME DetectAssumption, TxInv, Placed, OneThread, Judged, NEW t \in ds.threads, Detect(t)
  PROVE  Judged'
<1> DEFINE txs == http.txs
           rules == ds.rules
           at == ids.inspect
           K == at + 1
           w == det[t]
           v == det'[t]
<1>1. /\ Typed /\ w \in Worker /\ Threads = ds.threads /\ Requests \in Nat /\ Requests = Len(txs)
      /\ Len(de_state) \in Nat /\ Len(rules) \in Nat /\ DOMAIN rules = 1 .. Len(rules)
      /\ DOMAIN txs = 1 .. Requests /\ at \in Nat /\ Len(alerts) \in Nat /\ ids.flags \subseteq Directions
  <2>1. Typed
    BY DEF TxInv
  <2> QED BY <2>1, Facts DEF Typed, Requests
<1>w. /\ w.dir \in Directions /\ w.start \in BOOLEAN /\ w.nm \in Nat /\ w.i \in Nat
  BY <1>1 DEF Worker
<1>2. Alone(t)
  BY TxDetect
<1>3. UNCHANGED <<ds, http>>
  BY <1>2 DEF Alone
<1> SUFFICES ASSUME ds.threads = {t}, ~ds.split
             PROVE  /\ \A k \in 1 .. ids'.inspect : AllNow(rules, txs, alerts', k)
                    /\ v.at = "reset" => ids'.flags = {}
                    /\ v.at # "reset" => Judging(rules, txs, de_state', alerts', ids', v)
  BY <1>3 DEF Judged
<1>4. /\ \A k \in 1 .. at : AllNow(rules, txs, alerts, k)
      /\ w.at = "reset" => ids.flags = {}
      /\ w.at # "reset" => Judging(rules, txs, de_state, alerts, ids, w)
  BY DEF Judged
<1>5. Sits(rules, de_state, w)
  BY DEF Placed
<1>6. w.at # "idle" => K \in 1 .. Requests /\ K \in Txs
  <2> SUFFICES ASSUME w.at # "idle" PROVE K \in 1 .. Requests /\ K \in Txs
    OBVIOUS
  <2>1. /\ ids.inspect < Requests \/ ids.inspect = 0
        /\ ids.base <= ids.inspect
        /\ \A k \in 1 .. Requests : http.txs[k].gone => k <= ids.base
    BY DEF TxInv, Freed
  <2>2. Requests > 0 /\ ids.base \in Nat
    BY <1>1 DEF Placed, Typed, IdSet
  <2>3. K \in 1 .. Requests
    BY <1>1, <2>1, <2>2
  <2>4. ~http.txs[K].gone
    BY <1>1, <2>1, <2>2, <2>3
  <2> QED BY <1>1, <2>3, <2>4 DEF Txs
<1> HIDE DEF txs, rules, at, w, v
<1>at. ids.inspect = at
  BY DEF at
<1>k. K = at + 1 /\ K \in Nat
  BY <1>1
<1> HIDE DEF K
<1>10. CASE Packet(t)
  <2>1. UNCHANGED <<ids, de_state, alerts>> /\ w.at = "idle" /\ v.at = "has" /\ ~v.start
    BY <1>1, <1>10, PacketIs DEF w, v
  <2>2. Judging(rules, txs, de_state, alerts, ids, v)
    BY <1>4, <2>1 DEF Judging, Inspecting
  <2> QED BY <1>4, <1>at, <2>1, <2>2
<1>11. CASE HasState(t)
  <2>1. /\ UNCHANGED <<ids, de_state, alerts>> /\ w.at = "has" /\ v.dir = w.dir
        /\ \/ /\ Len(de_state) > 0 /\ v.at = "continue" /\ ~v.start
           \/ /\ Len(de_state) = 0 /\ v.start
              /\ \/ v.at = "end" /\ (w.dir = "toserver" => Len(rules) = 0)
                 \/ v.at = "uri" /\ v.i = 1
    BY <1>1, <1>11, HasStateIs DEF w, v, rules
  <2>2. Len(de_state) > 0 \/ "toserver" \in ids.flags => AllNow(rules, txs, alerts, K)
    BY <1>4, <1>k, <1>at, <2>1 DEF Judging, Inspecting
  <2>3. Judging(rules, txs, de_state, alerts, ids, v) /\ v.at # "reset"
    <3>1. CASE Len(de_state) > 0 /\ v.at = "continue" /\ ~v.start
      BY <1>k, <1>at, <2>2, <3>1 DEF Judging, Inspecting
    <3>2. CASE v.start /\ v.at = "end" /\ (w.dir = "toserver" => Len(rules) = 0)
      <4>1. CASE w.dir = "toserver"
        <5>1. AllNow(rules, txs, alerts, K)
          BY <1>1, <3>2, <4>1 DEF AllNow
        <5> QED BY <1>k, <1>at, <3>2, <5>1 DEF Judging, Inspecting
      <4>2. CASE w.dir = "toclient"
        BY <1>k, <1>at, <2>1, <2>2, <3>2, <4>2 DEF Judging, Inspecting
      <4> QED BY <1>w, <4>1, <4>2 DEF Directions
    <3>3. CASE v.start /\ v.at = "uri" /\ v.i = 1
      BY <3>3 DEF Judging, Inspecting
    <3> QED BY <2>1, <3>1, <3>2, <3>3
  <2> QED BY <1>4, <1>at, <2>1, <2>3
<1>12. CASE Continue(t)
  <2>1. /\ UNCHANGED <<ids, de_state, alerts>> /\ w.at = "continue" /\ ~v.start /\ v.at \in {"end", "uri"}
    BY <1>1, <1>12, ContinueIs DEF w, v
  <2>2. ~w.start
    BY <1>5, <2>1 DEF Sits
  <2>3. AllNow(rules, txs, alerts, K)
    BY <1>4, <1>k, <1>at, <2>1, <2>2 DEF Judging, Inspecting
  <2>4. Judging(rules, txs, de_state, alerts, ids, v)
    BY <1>k, <1>at, <2>1, <2>3 DEF Judging
  <2> QED BY <1>4, <1>at, <2>1, <2>4
<1>13. CASE InspectUri(t)
  <2>1. /\ UNCHANGED <<ids, de_state, alerts>> /\ w.at = "uri" /\ v.at = "parts"
        /\ v.start = w.start /\ v.i = w.i
        /\ v.uri <=> Inspects(w) /\ \E k \in Txs : k > at /\ "uri" \in txs[k].has
    BY <1>1, <1>13, InspectUriIs DEF w, v, at, txs
  <2>2. Judging(rules, txs, de_state, alerts, ids, v)
    <3>1. CASE ~w.start
      <4>1. AllNow(rules, txs, alerts, K)
        BY <1>4, <1>k, <1>at, <2>1, <3>1 DEF Judging, Inspecting
      <4> QED BY <1>k, <1>at, <2>1, <3>1, <4>1 DEF Judging
    <3>2. CASE w.start
      <4>1. \A r \in 1 .. w.i - 1 : Now(rules, txs, alerts, r, K)
        BY <1>4, <1>k, <1>at, <2>1, <3>2 DEF Judging, Inspecting
      <4>2. Suits(rules[w.i], txs[K]) => (rules[w.i].uri => v.uri)
        <5>1. rules[w.i].uri => Inspects(w)
          BY <1>5, <2>1, <3>2 DEF Sits, Inspects, RuleAt, Rule, Inspecting, rules
        <5>2. K \in Txs /\ K > at
          BY <1>1, <1>6, <1>k, <2>1
        <5> QED BY <2>1, <5>1, <5>2 DEF Suits
      <4> QED BY <1>k, <1>at, <2>1, <3>2, <4>1, <4>2 DEF Judging, Inspecting
    <3> QED BY <3>1, <3>2
  <2> QED BY <1>4, <1>at, <2>1, <2>2
<1>14. CASE MatchPart(t)
  <2> DEFINE parts == rules[Item(de_state, w)].parts
             more == w.nm <= Len(parts) /\ \E k \in Txs : parts[w.nm] \in txs[k].has
  <2>1. /\ UNCHANGED <<ids, de_state, alerts>> /\ w.at = "parts"
        /\ v.start = w.start /\ v.i = w.i /\ v.uri = w.uri
        /\ \/ v.at = "parts"
           \/ ~more /\ v.at = "store" /\ v.nm = w.nm
    BY <1>1, <1>14, MatchPartIs DEF w, v, rules, txs
  <2>2. Judging(rules, txs, de_state, alerts, ids, v)
    <3>1. CASE ~w.start
      <4>1. AllNow(rules, txs, alerts, K)
        BY <1>4, <1>k, <1>at, <2>1, <3>1 DEF Judging, Inspecting
      <4> QED BY <1>k, <1>at, <2>1, <3>1, <4>1 DEF Judging
    <3>2. CASE w.start
      <4>1. /\ \A r \in 1 .. w.i - 1 : Now(rules, txs, alerts, r, K)
            /\ Suits(rules[w.i], txs[K]) => (rules[w.i].uri => w.uri)
        BY <1>4, <1>k, <1>at, <2>1, <3>2 DEF Judging, Inspecting
      <4>2. ASSUME Suits(rules[w.i], txs[K]), v.at = "store" PROVE v.nm = Past(rules[w.i])
        <5>1. Item(de_state, w) = w.i /\ w.i \in DOMAIN rules /\ w.nm \in 1 .. Past(rules[w.i])
          BY <1>1, <1>5, <2>1, <3>2 DEF Sits, Item, Inspecting
        <5>2. ~more /\ v.nm = w.nm
          BY <2>1, <4>2
        <5>3. Len(rules[w.i].parts) \in Nat /\ Past(rules[w.i]) = Len(rules[w.i].parts) + 1
          BY <1>1, <5>1, Facts DEF rules
        <5>4. ~(w.nm <= Len(rules[w.i].parts))
          <6> SUFFICES ASSUME w.nm <= Len(rules[w.i].parts) PROVE FALSE
            OBVIOUS
          <6>1. w.nm \in 1 .. Len(rules[w.i].parts)
            BY <5>1, <5>3
          <6>2. rules[w.i].parts[w.nm] \in txs[K].has
            BY <4>2, <6>1 DEF Suits
          <6>3. K \in Txs
            BY <1>6, <2>1
          <6> QED BY <5>1, <5>2, <6>2, <6>3
        <5> QED BY <5>1, <5>2, <5>3, <5>4
      <4> HIDE DEF more
      <4> QED BY <1>k, <1>at, <2>1, <3>2, <4>1, <4>2 DEF Judging, Inspecting
    <3> QED BY <3>1, <3>2
  <2> QED BY <1>4, <1>at, <2>1, <2>2
<1>15. CASE StoreStart(t)
  <2> DEFINE alert == [rule |-> w.i, lo |-> w.lo, upto |-> Requests]
             rule == rules[w.i]
             all == w.nm = Past(rule) /\ (rule.uri => w.uri) /\ (rule.parts = <<>> => w.uri)
  <2>1. /\ ids' = ids /\ w.at = "store" /\ w.start /\ w.i \in 1 .. Len(rules) /\ w.dir = "toserver"
        /\ all => alerts' = Append(alerts, alert)
        /\ ~all => alerts' = alerts
        /\ v.start /\ v.dir = w.dir
        /\ \/ v.at = "end" /\ w.i = Len(rules)
           \/ v.at = "uri" /\ v.i = w.i + 1
    BY <1>1, <1>15, StoreStartIs DEF w, v, rules
  <2>2. alerts \in Seq([rule : DOMAIN rules, lo : Nat, upto : Nat])
    BY <1>1 DEF Typed, rules
  <2>3. alert.rule = w.i /\ alert.lo = w.lo /\ alert.upto = Requests
    OBVIOUS
  <2> HIDE DEF alert
  <2>4. /\ Len(alerts') \in Nat /\ Len(alerts) <= Len(alerts')
        /\ \A n \in 1 .. Len(alerts) : alerts'[n] = alerts[n]
        /\ all => Len(alerts) + 1 \in 1 .. Len(alerts') /\ alerts'[Len(alerts) + 1] = alert
    <3> HIDE DEF all
    <3>1. CASE all
      BY <2>1, <2>2, <3>1
    <3>2. CASE ~all
      BY <1>1, <2>1, <3>2
    <3> QED BY <3>1, <3>2
  <2>5. w.lo = at
    BY <2>1, <1>at DEF OneThread, Current, Looks, w
  <2>6. rule.uri \/ rule.parts # <<>>
    BY <1>1, <2>1, Facts DEF rules
  <2>7. Suits(rule, txs[K]) => all
    BY <1>4, <1>k, <1>at, <2>1, <2>6 DEF Judging, Inspecting
  <2>8. Now(rules, txs, alerts', w.i, K)
    <3>1. K <= Len(txs)
      BY <1>1, <1>6, <2>1
    <3>2. ASSUME all PROVE Served(alerts', w.i, K)
      <4>1. at < K /\ K <= Requests
        BY <1>1, <1>6, <1>k, <2>1
      <4> HIDE DEF all
      <4> QED BY <2>3, <2>4, <2>5, <3>2, <4>1 DEF Served
    <3> HIDE DEF all
    <3> QED BY <2>7, <3>1, <3>2 DEF Now
  <2> HIDE DEF all
  <2>9. \A r \in 1 .. w.i : Now(rules, txs, alerts', r, K)
    <3> TAKE r \in 1 .. w.i
    <3>1. CASE r = w.i
      BY <2>8, <3>1
    <3>2. CASE r # w.i
      <4>1. r \in 1 .. w.i - 1
        BY <1>w, <3>2
      <4>2. Now(rules, txs, alerts, r, K)
        BY <1>4, <1>k, <1>at, <2>1, <4>1 DEF Judging, Inspecting
      <4> QED BY <1>1, <2>4, <4>2, NowStays
    <3> QED BY <3>1, <3>2
  <2>10. Judging(rules, txs, de_state', alerts', ids, v) /\ v.at # "reset"
    <3>1. CASE v.at = "end" /\ w.i = Len(rules)
      <4>1. AllNow(rules, txs, alerts', K)
        BY <1>1, <2>9, <3>1 DEF AllNow
      <4> QED BY <1>k, <1>at, <2>1, <3>1, <4>1 DEF Judging, Inspecting
    <3>2. CASE v.at = "uri" /\ v.i = w.i + 1
      <4>1. \A r \in 1 .. v.i - 1 : Now(rules, txs, alerts', r, K)
        BY <1>w, <2>9, <3>2
      <4> QED BY <1>k, <1>at, <2>1, <3>2, <4>1 DEF Judging, Inspecting
    <3> QED BY <2>1, <3>1, <3>2
  <2>11. \A k \in 1 .. at : AllNow(rules, txs, alerts', k)
    BY <1>1, <1>4, <2>4, NowStays
  <2> QED BY <1>at, <2>1, <2>10, <2>11
<1>16. CASE StoreContinue(t)
  <2>1. UNCHANGED <<ids, alerts>> /\ w.at = "store" /\ ~w.start /\ ~v.start /\ v.at \in {"end", "uri"}
    BY <1>1, <1>16, StoreContinueIs DEF w, v
  <2>2. AllNow(rules, txs, alerts, K)
    BY <1>4, <1>k, <1>at, <2>1 DEF Judging, Inspecting
  <2>3. Judging(rules, txs, de_state', alerts, ids, v)
    BY <1>k, <1>at, <2>1, <2>2 DEF Judging
  <2> QED BY <1>4, <1>at, <2>1, <2>3
<1>17. CASE End(t)
  <2>1. /\ de_state' = de_state /\ w.at = "end" /\ ~v.start
        /\ Len(alerts') \in Nat /\ Len(alerts) <= Len(alerts')
        /\ \A n \in 1 .. Len(alerts) : alerts'[n] = alerts[n]
        /\ \/ /\ ids'.inspect = at + 1 /\ ids.flags \cup {w.dir} = Directions /\ ids'.flags = {}
              /\ v.at = "reset"
           \/ ids'.inspect = at /\ ids'.flags = ids.flags \cup {w.dir} /\ v.at = "idle"
    BY <1>1, <1>17, EndIs DEF w, v, at
  <2>2. ("toserver" \in ids.flags \/ w.dir = "toserver" => AllNow(rules, txs, alerts, K))
        /\ (Len(de_state) > 0 => AllNow(rules, txs, alerts, K))
    BY <1>4, <1>k, <1>at, <2>1 DEF Judging, Inspecting
  <2>3. AllNow(rules, txs, alerts, K) => AllNow(rules, txs, alerts', K)
    BY <1>1, <2>1, NowStays
  <2>4. \A k \in 1 .. at : AllNow(rules, txs, alerts', k)
    BY <1>1, <1>4, <2>1, NowStays
  <2>5. CASE /\ ids'.inspect = at + 1 /\ ids.flags \cup {w.dir} = Directions /\ ids'.flags = {}
             /\ v.at = "reset"
    <3>1. "toserver" \in ids.flags \/ w.dir = "toserver"
      BY <2>5 DEF Directions
    <3>2. \A k \in 1 .. at + 1 : AllNow(rules, txs, alerts', k)
      <4> TAKE k \in 1 .. at + 1
      <4>1. k \in 1 .. at \/ k = K
        BY <1>1, <1>k
      <4> QED BY <2>2, <2>3, <2>4, <3>1, <4>1
    <3> QED BY <2>5, <3>2
  <2>6. CASE ids'.inspect = at /\ ids'.flags = ids.flags \cup {w.dir} /\ v.at = "idle"
    <3>1. Len(de_state) > 0 \/ "toserver" \in ids'.flags => AllNow(rules, txs, alerts', K)
      BY <2>2, <2>3, <2>6
    <3>2. Judging(rules, txs, de_state, alerts', ids', v)
      BY <1>k, <2>1, <2>6, <3>1 DEF Judging, Inspecting
    <3> QED BY <2>1, <2>4, <2>6, <3>2
  <2> QED BY <2>1, <2>5, <2>6
<1>18. CASE Reset(t)
  <2>1. /\ UNCHANGED <<ids, alerts>> /\ w.at = "reset" /\ de_state' = <<>> /\ v.at = "idle" /\ ~v.start
    BY <1>1, <1>18, ResetIs DEF w, v
  <2>2. Len(de_state') = 0 /\ ids.flags = {}
    BY <1>4, <2>1
  <2>3. Judging(rules, txs, de_state', alerts, ids, v)
    BY <2>1, <2>2 DEF Judging, Inspecting
  <2> QED BY <1>4, <1>at, <2>1, <2>3
<1> QED BY <1>10, <1>11, <1>12, <1>13, <1>14, <1>15, <1>16, <1>17, <1>18 DEF Detect

---------------------------------------------------------------------------
(* The theorems                                                            *)

LEMMA DetectStep ==
  ASSUME DetectAssumption, DetectInv, [DetectNext]_detectVars
  PROVE  DetectInv'
<1>1. /\ TxInv /\ Placed /\ Matched /\ OneThread /\ Judged /\ Typed /\ Threads = ds.threads
  <2>1. TxInv /\ Placed /\ Matched /\ OneThread /\ Judged /\ Typed
    BY DEF DetectInv, TxInv
  <2> QED BY <2>1, Facts
<1>2. TxInv' => Requests' \in Nat
  BY DEF TxInv, Typed, Http, Requests
<1>3. CASE HttpStep
  <2>1. TxInv' /\ Grown
    BY <1>1, <1>3, TxHttp
  <2> QED BY <1>1, <1>2, <2>1, PlacedGrown, MatchedGrown, OneThreadGrown, JudgedGrown DEF DetectInv
<1>4. CASE LogHttpLog
  <2>1. TxInv' /\ Grown
    BY <1>1, <1>4, TxLog
  <2> QED BY <1>1, <1>2, <2>1, PlacedGrown, MatchedGrown, OneThreadGrown, JudgedGrown DEF DetectInv
<1>5. ASSUME NEW t \in Threads, Detect(t)
      PROVE  DetectInv'
  <2>1. t \in ds.threads
    BY <1>1
  <2>2. TxInv' /\ Placed'
    BY <1>1, <1>5, <2>1, TxDetect, PlacedDetect
  <2>3. Matched'
    BY <1>1, <1>5, <2>1, MatchedDetect
  <2>4. OneThread'
    BY <1>1, <1>5, <2>1, OneThreadDetect
  <2>5. Judged'
    BY <1>1, <1>5, <2>1, JudgedDetect
  <2> QED BY <2>2, <2>3, <2>4, <2>5 DEF DetectInv
<1>6. CASE UNCHANGED detectVars
  <2>1. UNCHANGED <<ds, http, ids, de_state, det, packets, logbook, alerts>>
    BY <1>6 DEF detectVars
  <2>2. TxInv'
    BY <1>1, <2>1 DEF TxInv, Typed, Http, IdSet, Worker, Tx, Transactions, Freed, Logged, Requests
  <2>3. Grown
    BY <1>1, <1>2, <2>1, <2>2, Facts DEF Grown, Requests
  <2> QED BY <1>1, <1>2, <2>2, <2>3, PlacedGrown, MatchedGrown, OneThreadGrown, JudgedGrown DEF DetectInv
<1> QED BY <1>3, <1>4, <1>5, <1>6 DEF DetectNext, HttpStep

LEMMA TransactionsFromInv ==
  ASSUME DetectAssumption, DetectInv
  PROVE  TransactionsKept
<1>1. /\ Typed /\ Transactions /\ Freed /\ Logged
  BY DEF DetectInv, TxInv
<1>2. /\ Requests \in Nat /\ DOMAIN http.txs = 1 .. Requests /\ ids.inspect \in Nat /\ ids.logged \in Nat
      /\ ids.avail = Requests /\ ids.base \in Nat
  BY <1>1, Facts DEF Transactions, IdSet
<1>3. ids.inspect <= ids.avail /\ ids.logged <= ids.avail
  BY <1>1, <1>2 DEF Freed, Logged
<1>4. \A k \in 1 .. Requests : http.txs[k].gone => k <= ids.inspect /\ (ds.logger => k <= ids.logged)
  BY <1>1, <1>2 DEF Freed
<1>5. logbook = [n \in 1 .. ids.logged |-> n]
  BY <1>1 DEF Logged
<1>6. \A n \in 1 .. ids.logged : http.txs[n].whole \/ ids.eof
  <2> SUFFICES ASSUME NEW n \in 1 .. ids.logged, ~ids.eof PROVE http.txs[n].whole
    OBVIOUS
  <2>1. n \in 1 .. Requests /\ n < Requests
    BY <1>1, <1>2 DEF Logged
  <2> QED BY <1>1, <2>1 DEF Transactions
<1>7. ids.base <= ids.inspect /\ (ds.logger => ids.base <= ids.logged) /\ DOMAIN logbook = 1 .. ids.logged
  BY <1>1, <1>5 DEF Freed
<1> QED BY <1>2, <1>3, <1>4, <1>5, <1>6, <1>7 DEF TransactionsKept

LEMMA OneThreadOnly ==
  ASSUME DetectAssumption, Typed, Cardinality(Threads) = 1
  PROVE  \E t \in ds.threads : ds.threads = {t}
<1>1. Threads = ds.threads /\ IsFiniteSet(ds.threads)
  BY Facts, Scenario DEF Typed
<1>2. PICK x : ds.threads = {x}
  BY <1>1, FS_Singleton
<1> QED BY <1>2

LEMMA AlertsFromInv ==
  ASSUME DetectAssumption, DetectInv
  PROVE  StatefulAlerts
<1>1. /\ Typed /\ Matched /\ OneThread
  BY DEF DetectInv, TxInv
<1>2. /\ Requests = Len(http.txs) /\ DOMAIN http.txs = 1 .. Requests /\ DOMAIN alerts = 1 .. Len(alerts)
      /\ \A r \in DOMAIN ds.rules : DOMAIN ds.rules[r].parts = 1 .. Len(ds.rules[r].parts)
      /\ \A r \in DOMAIN ds.rules : Past(ds.rules[r]) = Len(ds.rules[r].parts) + 1
      /\ \A r \in DOMAIN ds.rules : Len(ds.rules[r].parts) \in Nat
      /\ \A n \in 1 .. Len(alerts) : alerts[n].lo \in Nat /\ alerts[n].upto \in Nat
  BY <1>1, Facts DEF Requests
<1>3. Cardinality(Threads) = 1 => Unique(ds.rules, http.txs, alerts, ids.inspect)
  BY <1>1, OneThreadOnly DEF OneThread
<1> SUFFICES ASSUME NEW r \in DOMAIN ds.rules
             PROVE  /\ \A n \in AlertsOf(r) :
                         /\ \A part \in Range(Rule(r).parts) : \E k \in DOMAIN http.txs : part \in http.txs[k].has
                         /\ Rule(r).uri =>
                              \E k \in DOMAIN http.txs :
                                 /\ "uri" \in http.txs[k].has /\ k <= alerts[n].upto
                                 /\ Cardinality(Threads) = 1 => k > alerts[n].lo
                    /\ Cardinality(Threads) = 1 =>
                         \A n, o \in AlertsOf(r) : alerts[n].lo = alerts[o].lo => n = o
  BY DEF StatefulAlerts
<1>4. \A n \in AlertsOf(r) : n \in 1 .. Len(alerts) /\ alerts[n].rule = r
  BY <1>2 DEF AlertsOf
<1>5. ASSUME NEW n \in AlertsOf(r), NEW part \in Range(Rule(r).parts)
      PROVE  \E k \in DOMAIN http.txs : part \in http.txs[k].has
  <2>1. PICK i \in 1 .. Len(ds.rules[r].parts) : ds.rules[r].parts[i] = part
    BY <1>2 DEF Range, Rule
  <2>2. Met(http.txs, ds.rules[r], Past(ds.rules[r])) /\ i < Past(ds.rules[r])
    BY <1>1, <1>2, <1>4 DEF Matched
  <2> QED BY <1>2, <2>1, <2>2 DEF Met
<1>6. ASSUME NEW n \in AlertsOf(r), Rule(r).uri
      PROVE  \E k \in DOMAIN http.txs :
                /\ "uri" \in http.txs[k].has /\ k <= alerts[n].upto
                /\ Cardinality(Threads) = 1 => k > alerts[n].lo
  <2>1. UriIn(http.txs, 0, alerts[n].upto)
    BY <1>1, <1>4, <1>6 DEF Matched, Rule
  <2>2. Cardinality(Threads) = 1 => UriIn(http.txs, alerts[n].lo, alerts[n].upto)
    BY <1>3, <1>4, <1>6 DEF Unique, Rule
  <2>3. alerts[n].lo \in Nat
    BY <1>2, <1>4
  <2>4. CASE Cardinality(Threads) = 1
    <3>1. PICK k \in 1 .. Len(http.txs) : "uri" \in http.txs[k].has /\ alerts[n].lo < k /\ k <= alerts[n].upto
      BY <2>2, <2>4 DEF UriIn
    <3>2. k > alerts[n].lo
      BY <2>3, <3>1
    <3> QED BY <1>2, <3>1, <3>2
  <2>5. CASE Cardinality(Threads) # 1
    BY <1>2, <2>1, <2>5 DEF UriIn
  <2> QED BY <2>4, <2>5
<1>7. ASSUME Cardinality(Threads) = 1, NEW n \in AlertsOf(r), NEW o \in AlertsOf(r), alerts[n].lo = alerts[o].lo
      PROVE  n = o
  BY <1>3, <1>4, <1>7 DEF Unique
<1> QED BY <1>5, <1>6, <1>7

LEMMA JudgedFromInv ==
  ASSUME DetectAssumption, DetectInv
  PROVE  RequestsJudged
<1>1. /\ Typed /\ Judged
  BY DEF DetectInv, TxInv
<1> SUFFICES ASSUME Cardinality(Threads) = 1, ~ds.split, NEW k \in 1 .. ids.inspect,
                    NEW r \in DOMAIN ds.rules, Fits(r, k)
             PROVE  \E n \in AlertsOf(r) : alerts[n].lo < k /\ k <= alerts[n].upto
  BY DEF RequestsJudged
<1>2. Now(ds.rules, http.txs, alerts, r, k)
  BY <1>1, OneThreadOnly DEF Judged, AllNow
<1>3. DOMAIN ds.rules[r].parts = 1 .. Len(ds.rules[r].parts) /\ DOMAIN alerts = 1 .. Len(alerts)
  BY <1>1, Facts
<1>4. Suits(ds.rules[r], http.txs[k])
  <2>1. \A i \in 1 .. Len(ds.rules[r].parts) : ds.rules[r].parts[i] \in Range(ds.rules[r].parts)
    BY <1>3 DEF Range
  <2> QED BY <2>1 DEF Fits, Rule, Suits
<1>5. PICK n \in 1 .. Len(alerts) : alerts[n].rule = r /\ alerts[n].lo < k /\ k <= alerts[n].upto
  BY <1>2, <1>4 DEF Now, Served
<1> QED BY <1>3, <1>5 DEF AlertsOf

LEMMA DetectInvHolds ==
  ASSUME DetectAssumption
  PROVE  DetectSpec => []DetectInv
<1>1. DetectInit => DetectInv
  BY DetectStart
<1>2. DetectInv /\ [DetectNext]_detectVars => DetectInv'
  BY DetectStep
<1> QED BY <1>1, <1>2, PTL DEF DetectSpec

(* app-layer-parser.c, log-httplog.c: whatever the order in which a flow   *)
(* is parsed, inspected and logged, no transaction is freed before it was  *)
(* inspected and logged, and the log has every one once and in order.      *)
THEOREM TransactionsAreKept ==
  ASSUME DetectAssumption
  PROVE  DetectSpec => []TransactionsKept
<1>1. DetectInv => TransactionsKept
  BY TransactionsFromInv
<1> QED BY <1>1, DetectInvHolds, PTL

(* detect-engine-state.c: what a stateful rule alerts for is in requests   *)
(* that came, with one thread also in one that is not passed, and it does  *)
(* so once for the transaction under inspection.                           *)
THEOREM AlertsAreTrue ==
  ASSUME DetectAssumption
  PROVE  DetectSpec => []StatefulAlerts
<1>1. DetectInv => StatefulAlerts
  BY AlertsFromInv
<1> QED BY <1>1, DetectInvHolds, PTL

(* AppLayerTransactionUpdateInspectId against DeStateDetectContinue- and   *)
(* StartDetection: with one thread and whole requests none is passed       *)
(* before every rule that fits it has alerted for it.                      *)
THEOREM NoRequestIsMissed ==
  ASSUME DetectAssumption
  PROVE  DetectSpec => []RequestsJudged
<1>1. DetectInv => RequestsJudged
  BY JudgedFromInv
<1> QED BY <1>1, DetectInvHolds, PTL
===============================================================================
