------------------------------- MODULE Defrag -------------------------------
(***************************************************************************)
(* IP defragmentation (defrag.c) in the one decoder thread that calls it:  *)
(* trackers from a pool, found by datagram; the list of fragments of each, *)
(* where a policy trims and skips what overlaps; reassembly; and the time  *)
(* out of trackers, which happens only when the pool is empty.             *)
(* Offsets and lengths count blocks of 8 bytes.  A block of a fragment is  *)
(* <<who, where>>: the fragment that brought it, its place in the datagram.*)
(***************************************************************************)
EXTENDS Integers, FiniteSets, Sequences, SequencesExt, Functions

CONSTANT DfConfs   \* see DefragInit

\* Defrag returns at once for a packet that is none of these.  Not among them: a fragment
\* that ends behind the largest datagram, which DefragInsertFrag ignores.
Fragment == {p \in [id : Nat \ {0}, off : Nat, len : Nat, mf : BOOLEAN, who : Nat] :
               p.off > 0 \/ p.mf}
DefragConf ==
    [policy : {"BSD", "LINUX", "WINDOWS", "SOLARIS", "FIRST", "LAST", "BSD_RIGHT", "unset"},
     timeout : Nat, trackers : Nat, pool : Nat, until : Nat, packets : Nat,
     differ : BOOLEAN, once : BOOLEAN, sends : SUBSET Fragment]
DefragAssumption == DfConfs \subseteq DefragConf

\* struct Frag_, struct DefragTracker_; came and last, what came and when: history
Frag == [offset : Nat, data : Seq(Nat \X Nat) \ {<<>>}, ltrim : Nat, skip : BOOLEAN]
Tracker == [id : Nat \ {0}, timeout : Nat, seen_last : BOOLEAN, frags : Seq(Frag),
            came : Seq(Fragment), last : Nat]

VARIABLES
    df,       \* the configuration and the traffic of this behaviour
    table,    \* dc->frag_table, in the order of its list; each tracker of tracker_pool
              \* is in it or free
    frags,    \* dc->frag_pool: fragments handed out
    now,      \* p->ts
    out       \* what the last call returned, and from what
defragVars == <<df, table, frags, now, out>>

EndOf(p) == p.off + p.len
Blocks(p) == [i \in 1 .. p.len |-> <<p.who, p.off + i - 1>>]
Nothing == [id |-> 0, blocks |-> <<>>, came |-> <<>>]

---------------------------------------------------------------------------
(* The list of fragments: offset and data of what is stored, the blocks a  *)
(* later fragment replaces (ltrim), and whether all are replaced (skip).   *)

Length(f) == Len(f.data)
Behind(f) == f.offset + Length(f)

\* DefragInsertFrag stops its walk at the first fragment this holds of ...
Stops(policy, p, f) ==
    CASE policy = "LAST" -> p.off <= f.offset
      [] policy \in {"BSD", "LINUX", "WINDOWS", "SOLARIS", "FIRST"} -> p.off < Behind(f)
      [] OTHER -> FALSE                  \* "BSD_RIGHT", and 0, the default of the context
\* ... and cuts this much from the front of the new one,
Ltrim(policy, p, f) ==
    IF policy = "LAST" \/ p.off < f.offset \/ (policy = "LINUX" /\ p.off = f.offset) THEN 0
    ELSE Behind(f) - p.off
\* or drops the new one,
Contained(policy, p, f) == policy = "FIRST" /\ p.off >= f.offset /\ EndOf(p) <= Behind(f)
\* or skips the one it has, or cuts the one behind it (LAST: the one it has).
Covers(policy, p, f) ==
    /\ p.off < f.offset
    /\ \/ policy \in {"BSD", "LINUX", "SOLARIS"} /\ EndOf(p) >= Behind(f)
       \/ policy = "WINDOWS" /\ EndOf(p) > Behind(f)
CutsNext(policy) == policy \in {"BSD", "LINUX"}
Cut(p, f) == IF EndOf(p) > f.offset THEN [f EXCEPT !.ltrim = EndOf(p) - f.offset] ELSE f

Overlapped(policy, p, list, i) ==
    [k \in DOMAIN list |->
       IF k = i /\ policy = "LAST" THEN Cut(p, list[k])
       ELSE IF k = i /\ Covers(policy, p, list[k]) THEN [list[k] EXCEPT !.skip = TRUE]
       ELSE IF k = i + 1 /\ CutsNext(policy) THEN Cut(p, list[k])
       ELSE list[k]]

\* new->offset is trimmed, its place in the list is found with the untrimmed offset.
Stored(p, ltrim, list) ==
    LET new == [offset |-> p.off + ltrim, data |-> SubSeq(Blocks(p), ltrim + 1, p.len),
                ltrim |-> 0, skip |-> FALSE]
        larger == SelectInSeq(list, LAMBDA f : p.off < f.offset)
    IN IF larger = 0 THEN Append(list, new) ELSE InsertAt(list, larger, new)

---------------------------------------------------------------------------
(* Defrag4Reassemble, Defrag6Reassemble                                    *)

\* The lengths add up, overlaps count twice.
AddsBehind(len, f) ==                                           \* mutant
    IF len = -1 \/ f.offset >= len THEN -1 ELSE len + Length(f)
Adds(len, f) == IF len = -1 \/ f.offset > len THEN -1 ELSE len + Length(f)
ReachesEnd(list) ==
    /\ list[1].skip \/ list[1].offset = 0
    /\ FoldLeft(LAMBDA len, k :
                  IF list[k].skip THEN len ELSE IF k = 1 THEN Length(list[1]) ELSE Adds(len, list[k]),
                0, [k \in DOMAIN list |-> k]) # -1

Junk == <<0, 0>>     \* what was in the packet before
Write(blocks, at, data) ==
    [k \in 1 .. (IF at + Len(data) > Len(blocks) THEN at + Len(data) ELSE Len(blocks)) |->
       IF k \in at + 1 .. at + Len(data) THEN data[k - at]
       ELSE IF k \in DOMAIN blocks THEN blocks[k] ELSE Junk]
\* A fragment at 0 is copied whole and sets the length.
Copy(rp, f) ==
    IF f.skip \/ Length(f) <= f.ltrim THEN rp
    ELSE IF f.offset = 0
    THEN [bytes |-> Write(rp.bytes, 0, f.data), len |-> Length(f)]
    ELSE [bytes |-> Write(rp.bytes, f.offset + f.ltrim, SubSeq(f.data, f.ltrim + 1, Length(f))),
          len |-> IF Behind(f) > rp.len THEN Behind(f) ELSE rp.len]
Reassembled(list) ==
    LET rp == FoldLeft(Copy, [bytes |-> <<>>, len |-> 0], list)
    IN SubSeq(rp.bytes, 1, rp.len)

---------------------------------------------------------------------------
(* DefragInsertFrag on the tracker at table position i                     *)

Stopped(t, p) == SelectInSeq(t.frags, LAMBDA f : Stops(df.policy, p, f))
InsertedAt(t, given, p, i, ltrim) ==
    LET dropped == i # 0 /\ Contained(df.policy, p, t.frags[i])
        list == IF i = 0 \/ dropped THEN t.frags ELSE Overlapped(df.policy, p, t.frags, i)
        stored == ~dropped /\ p.len > ltrim /\ given # df.pool
    IN  [t EXCEPT !.timeout = now + df.timeout, !.came = Append(@, p), !.last = now,
                  !.frags = IF stored THEN Stored(p, ltrim, list) ELSE list,
                  !.seen_last = @ \/ (stored /\ ~p.mf)]
Inserted(t, given, p) ==
    LET at(i) == InsertedAt(t, given, p, i, IF i = 0 THEN 0 ELSE Ltrim(df.policy, p, t.frags[i]))
    IN  at(Stopped(t, p))

DefragInsertFrag(tab, given, i, p) ==
    LET more(t) == Len(t.frags) - Len(tab[i].frags)
        complete(t) ==
            /\ table' = RemoveAt(tab, i)
            /\ frags' = given - Len(tab[i].frags)
            /\ out' = [id |-> t.id, blocks |-> Reassembled(t.frags), came |-> t.came]
        waits(t) ==
            /\ table' = [tab EXCEPT ![i] = t]
            /\ frags' = given + more(t)
            /\ out' = Nothing
        inserted(t) == IF more(t) > 0 /\ t.seen_last /\ ReachesEnd(t.frags)
                       THEN complete(t) ELSE waits(t)
    IN  inserted(Inserted(tab[i], given, p))

\* DefragGetTracker: the table, the fragments handed out and the tracker's place.
\* DefragTimeoutTracker gives up the first tracker of the list that is past its time, and
\* only if the pool is empty.
NewTracker(p) == [id |-> p.id, timeout |-> 0, seen_last |-> FALSE, frags |-> <<>>,
                  came |-> <<>>, last |-> 0]
Find(p) == SelectInSeq(table, LAMBDA t : t.id = p.id)
PastTime(t) == t.timeout < now
GiveUpHead == IF table # <<>> /\ PastTime(table[1]) THEN 1 ELSE 0   \* mutant
GiveUp == SelectInSeq(table, PastTime)

DefragGetTracker(p, found, oldest) ==
    IF found # 0 THEN <<table, frags, found>>
    ELSE IF Len(table) < df.trackers
    THEN <<Append(table, NewTracker(p)), frags, Len(table) + 1>>
    ELSE IF oldest # 0
    THEN <<Append(RemoveAt(table, oldest), NewTracker(p)),
           frags - Len(table[oldest].frags), Len(table)>>
    ELSE <<>>

Defrag(p) ==
    LET insert(x) == IF x = <<>> THEN out' = Nothing /\ UNCHANGED <<table, frags>>
                                 ELSE DefragInsertFrag(x[1], x[2], x[3], p)
    IN  insert(DefragGetTracker(p, Find(p), GiveUp))

---------------------------------------------------------------------------
DefragInit ==
    /\ df \in DfConfs      \* policy, timeout and trackers: the configuration
    /\ table = <<>> /\ frags = 0 /\ now = 0 /\ out = Nothing

\* A fragment of the scenario, in any order and, but for df.once, again and again.
\* Where the copies differ each arrival brings blocks of its own.
ReceiveFragment ==
    /\ df.packets > 0
    /\ \E p \in df.sends :
         /\ Defrag([p EXCEPT !.who = IF df.differ THEN df.packets ELSE p.id])
         /\ df' = [df EXCEPT !.packets = @ - 1, !.sends = IF df.once THEN @ \ {p} ELSE @]
    /\ UNCHANGED now
DefragTick == now < df.until /\ now' = now + 1 /\ out' = Nothing /\ UNCHANGED <<df, table, frags>>
DefragNext == ReceiveFragment \/ DefragTick
DefragSpec == DefragInit /\ [][DefragNext]_defragVars

---------------------------------------------------------------------------
(* Properties.                                                             *)

Came(s) == {s[i] : i \in DOMAIN s}
FragsOf(tab) == FoldLeft(LAMBDA n, t : n + Len(t.frags), 0, tab)

\* Each datagram has one tracker, and every fragment that frag_pool has handed out hangs in
\* the list of one: "Make sure all frags were returned back to the pool".
DefragTypeOK ==
    /\ df \in DefragConf /\ now \in Nat
    /\ table \in Seq(Tracker) /\ Len(table) <= df.trackers
    /\ \A i, j \in DOMAIN table : table[i].id = table[j].id => i = j
    /\ frags = FragsOf(table) /\ frags <= df.pool

\* What is reassembled from fragments that do not overlap, whatever their order, or that
\* come again unchanged, is the datagram: no block is missing, moved or cut off.
WholeDatagram(s) ==
    LET last == CHOOSE p \in Came(s) : ~p.mf
    IN [k \in 1 .. EndOf(last) |-> <<last.who, k - 1>>]
DatagramIntact == ~df.differ /\ out # Nothing => out.blocks = WholeDatagram(out.came)

\* A datagram is reassembled with the fragment that completes it; no tracker waits for
\* more once all have come.
Has(p, k) == k \in p.off .. EndOf(p) - 1
AllCame(s) ==
    \E last \in Came(s) : ~last.mf /\ \A k \in 0 .. EndOf(last) - 1 : \E p \in Came(s) : Has(p, k)
NoneStuck == \A i \in DOMAIN table : ~AllCame(table[i].came)

\* Where two fragments overlap and all others are apart, the policy and not the order of
\* the list decides whose blocks the packet has: those of the later fragment b where it
\* wins over a.
Wins(policy, a, b) ==
    CASE policy = "FIRST" -> FALSE
      [] policy = "LAST" -> TRUE
      [] policy = "WINDOWS" -> b.off < a.off /\ EndOf(b) > EndOf(a)
      [] policy = "LINUX" -> b.off = a.off \/ (b.off < a.off /\ EndOf(b) >= EndOf(a))
      [] OTHER -> b.off < a.off /\ EndOf(b) >= EndOf(a)
Overlapping(s) ==
    {x \in (DOMAIN s) \X (DOMAIN s) :
       x[1] < x[2] /\ \E k \in s[x[1]].off .. EndOf(s[x[1]]) - 1 : Has(s[x[2]], k)}
Whose(s, k) == CHOOSE i \in {j \in DOMAIN s : Has(s[j], k)} :
                 \A j \in DOMAIN s \ {i} :
                   Has(s[j], k) => IF i < j THEN ~Wins(df.policy, s[i], s[j])
                                            ELSE Wins(df.policy, s[j], s[i])
OverlapDecided ==
    df.differ /\ out # Nothing /\ Cardinality(Overlapping(out.came)) = 1 =>
      \A k \in 0 .. Len(out.blocks) - 1 :
         (\E p \in Came(out.came) : Has(p, k)) =>
            out.blocks[k + 1] = <<out.came[Whose(out.came, k)].who, k>>

\* What the fragments of a datagram come to.
Reassembles == DatagramIntact /\ NoneStuck /\ OverlapDecided

\* Fragments that keep coming within the timeout are not dropped, whatever other datagrams
\* want trackers; and a datagram gets none only while all trackers are in use that way.
Alive(t) == now - t.last <= df.timeout
GivenUpLate ==
    [][\A i \in DOMAIN table :
         Alive(table[i]) => \/ \E j \in DOMAIN table' : table'[j].id = table[i].id
                            \/ out'.id = table[i].id]_defragVars
RefusedWhenFull ==
    [][df' # df /\ table' = table => \A i \in DOMAIN table : Alive(table[i])]_defragVars

\* What becomes of trackers when there are too few.
TrackersKept == GivenUpLate /\ RefusedWhenFull

\* "Check that we have all the data": what is reassembled has no hole.
NoHoles == \A k \in DOMAIN out.blocks : out.blocks[k] # Junk
=============================================================================
