------------------------------ MODULE Reassembly ------------------------------
(***************************************************************************)
(* Reassembly of one stream (stream-tcp-reassemble.c): the segments of a   *)
(* host go into a list ordered by sequence number, overlaps are settled by *)
(* the policy of the system they go to, and what the other host            *)
(* acknowledges is sent to the application layer.                          *)
(* The tracker locks the flow around each packet, so each action is one    *)
(* packet.  A byte is a record of the packet that carried it and its       *)
(* position; Junk is what a segment of the pool held before.               *)
(* Left out: an exhausted pool of segments or messages, pausing, and the   *)
(* size classes of the segment pool.                                       *)
(***************************************************************************)
EXTENDS TcpSeq, FiniteSets, Sequences, SequencesExt

CONSTANT RaConfs   \* the streams: see Init

VARIABLES
    ra,      \* what this stream is like: see Init
    stream,  \* the TcpStream
    pool,    \* the flags of the segments returned to the pool, last one first
    app,     \* the application layer of the flow
    sent     \* the packets that came, and what they carried

vars == <<ra, stream, pool, app, sent>>

Junk == [id |-> 0, pos |-> 0]
Seq1(pos) == Add(ra.isn, pos)        \* the sequence number of a position
Pos(seq) == Distance(ra.isn, seq)    \* and back
End(seg) == Add(seg.seq, Len(seg.data))

---------------------------------------------------------------------------
(* Bytes                                                                   *)

(* A segment comes from the pool with the flags it was returned with.      *)
Fresh(seq, len, processed) ==
    [seq |-> seq, data |-> [i \in 1 .. len |-> Junk], processed |-> processed]

(* Whatever the start point, the bytes are taken from the start of src.    *)
StreamTcpSegmentDataReplace(dst, src, start, len) ==
    LET at == IF SEQ_GT(start, dst.seq) THEN Distance(dst.seq, start) ELSE 0
        put(i) == IF i - at \in 1 .. len
                  THEN (IF i - at <= Len(src.data) THEN src.data[i - at] ELSE Junk)
                  ELSE dst.data[i]
    IN  IF len + at - 1 > Len(dst.data) THEN dst
        ELSE [dst EXCEPT !.data = [i \in DOMAIN dst.data |-> put(i)]]

StreamTcpSegmentDataCopy(dst, src) ==
    LET at == Distance(dst.seq, src.seq)
        put(i) == IF i - at \in DOMAIN src.data THEN src.data[i - at] ELSE dst.data[i]
    IN  [dst EXCEPT !.data = [i \in DOMAIN dst.data |-> put(i)]]

---------------------------------------------------------------------------
(* Insertion.  w is the list, the pool and the segment seg; a handler for  *)
(* the element l = w.list[i] leaves the list and the pool, tells whether   *)
(* it is done with seg, and where the loop goes on: next_list_seg was read *)
(* before.                                                                 *)

(* Where seg ends, seen from l.                                            *)
Ends(l, seg) == CASE SEQ_LT(End(seg), End(l)) -> "before"
                  [] End(seg) = End(l) -> "same"
                  [] OTHER -> "after"

(* The segment the handlers take from the pool.                            *)
Flag(w) == w.pool # <<>> /\ Head(w.pool)
Get(w) == IF w.pool = <<>> THEN w.pool ELSE Tail(w.pool)

(* Whether the bytes of seg replace those of l where they overlap, if seg  *)
(* starts before l, with it or after it.                                   *)
ReplacesBefore(os, e) ==
    CASE os \in {"SOLARIS", "HPUX11"} -> e # "before"
      [] os \in {"VISTA", "FIRST"} -> FALSE
      [] OTHER -> TRUE
(* Mutant: Linux takes a retransmission that ends where l does, too.       *)
LinuxTakesSame(os, e) ==
    CASE os \in {"LINUX", "OLD_LINUX", "SOLARIS", "HPUX11"} -> e # "before"
      [] OTHER -> os = "LAST"

ReplacesSame(os, e) ==
    CASE os \in {"OLD_LINUX", "SOLARIS", "HPUX11"} -> e # "before"
      [] os = "LAST" -> TRUE
      [] os = "LINUX" -> e = "after"
      [] OTHER -> FALSE
ReplacesAfter(os, e) ==
    CASE os \in {"SOLARIS", "HPUX11"} -> e = "after"
      [] OTHER -> os = "LAST"

(* l and what seg adds before it, from start on, and behind it.            *)
Extended(w, l, seg, start, len, before, e) ==
    LET copy == StreamTcpSegmentDataCopy(Fresh(start, len, Flag(w)), l)
        behind(new) ==
            IF e # "after" THEN new
            ELSE StreamTcpSegmentDataReplace(new, seg, End(l), Distance(End(l), End(seg)))
    IN  behind(StreamTcpSegmentDataReplace(copy, seg, before.at, before.len))

(* l is put aside for its extended copy.                                   *)
Swapped(w, i, new) ==
    [w EXCEPT !.list = [@ EXCEPT ![i] = new], !.pool = <<w.list[i].processed>> \o Get(w)]

BeforeFirst(w, i) ==
    LET l == w.list[i]
        e == Ends(l, w.seg)
        more == /\ e = "after" /\ i < Len(w.list)
                /\ SEQ_LT(w.list[i + 1].seq, End(w.seg))
        ahead == Distance(w.seg.seq, l.seq)
        len == ahead + (IF e = "after" /\ ~more THEN Distance(l.seq, End(w.seg))
                                                ELSE Len(l.data))
    IN  [Swapped(w, i, Extended(w, l, w.seg, w.seg.seq, len,
                                [at |-> w.seg.seq, len |-> ahead],
                                IF more THEN "before" ELSE e))
         EXCEPT !.done = ~more]

(* Behind another element the gap before l is filled, if there is one.     *)
BeforeOther(w, i) ==
    LET l == w.list[i]
        e == Ends(l, w.seg)
        prev == w.list[i - 1]
        start == IF SEQ_GT(End(prev), w.seg.seq) THEN End(prev) ELSE w.seg.seq
        gap == Distance(IF SEQ_LT(prev.seq, w.seg.seq) THEN w.seg.seq ELSE End(prev), l.seq)
        room == i = Len(w.list) \/ SEQ_LEQ(End(w.seg), w.list[i + 1].seq)
    IN  CASE e # "after" /\ SEQ_GT(l.seq, End(prev)) ->
               [Swapped(w, i, Extended(w, l, w.seg, start, Len(l.data) + gap,
                                       [at |-> End(prev), len |-> Distance(w.seg.seq, l.seq)],
                                       e))
                EXCEPT !.done = TRUE]
          [] e = "after" /\ room ->
               [Swapped(w, i, Extended(w, l, w.seg, start,
                                       Distance(start, l.seq) + Len(l.data)
                                           + Distance(End(l), End(w.seg)),
                                       [at |-> start, len |-> Distance(start, l.seq)], e))
                EXCEPT !.done = TRUE]
          [] OTHER -> [w EXCEPT !.done = e # "after"]

HandleSegmentStartsBeforeListSegment(w, i, os) ==
    LET l == w.list[i]
        e == Ends(l, w.seg)
        overlap == IF e = "before" THEN Distance(l.seq, End(w.seg)) ELSE Len(l.data)
        replaced(new) == IF ReplacesBefore(os, e)
                         THEN StreamTcpSegmentDataReplace(new, w.seg, l.seq, overlap) ELSE new
    IN  [(IF i = 1 THEN BeforeFirst(w, i) ELSE BeforeOther(w, i))
         EXCEPT !.list[i] = replaced(@)]

(* A new segment behind l takes what seg has beyond it; the loop goes on   *)
(* behind the new segment.                                                 *)
FillGap(w, i, len) ==
    LET start == End(w.list[i])
        new == StreamTcpSegmentDataReplace(Fresh(start, len, Flag(w)), w.seg, start, len)
    IN  [w EXCEPT !.list = InsertAt(@, i + 1, new), !.pool = Get(w), !.next = i + 2]

(* seg reaches into the element behind l.                                  *)
Beyond(w, i) == i < Len(w.list) /\ SEQ_GT(End(w.seg), w.list[i + 1].seq)

(* What seg does to l, where it starts with it or behind its start.       *)
Overlay(w, i, e, gap, replaces, overlap) ==
    LET beyond == e = "after" /\ Beyond(w, i)
        upto == IF beyond THEN w.list[i + 1].seq ELSE End(w.seg)
    IN  [(IF e = "after" /\ gap THEN FillGap(w, i, Distance(End(w.list[i]), upto)) ELSE w)
         EXCEPT !.list[i] = IF replaces
                            THEN StreamTcpSegmentDataReplace(@, w.seg, w.seg.seq, overlap)
                            ELSE @,
                !.done = ~beyond]

HandleSegmentStartsAtSameListSegment(w, i, os) ==
    LET l == w.list[i]
        e == Ends(l, w.seg)
        gap == i = Len(w.list) \/ SEQ_LT(End(l), w.list[i + 1].seq)
    IN  Overlay(w, i, e, gap, ReplacesSame(os, e),
                IF e = "after" THEN Len(l.data) ELSE Len(w.seg.data))

(* Behind the last element nothing is filled: what seg has beyond it is    *)
(* not stored.                                                             *)
HandleSegmentStartsAfterListSegment(w, i, os) ==
    LET l == w.list[i]
        e == Ends(l, w.seg)
        gap == i < Len(w.list) /\ SEQ_LT(End(l), w.list[i + 1].seq)
    IN  Overlay(w, i, e, gap, ReplacesAfter(os, e),
                IF e = "after" THEN Distance(w.seg.seq, End(l)) ELSE Len(w.seg.data))

Handled(w, i, os) ==
    LET l == w.list[i] IN
    IF SEQ_LT(w.seg.seq, l.seq) THEN HandleSegmentStartsBeforeListSegment(w, i, os)
    ELSE IF w.seg.seq = l.seq THEN HandleSegmentStartsAtSameListSegment(w, i, os)
    ELSE IF SEQ_GEQ(w.seg.seq, End(l)) THEN w
    ELSE HandleSegmentStartsAfterListSegment(w, i, os)

RECURSIVE ReassembleFrom(_, _, _)
ReassembleFrom(w, i, os) ==
    LET further(v) == IF v.done THEN [v EXCEPT !.pool = <<w.seg.processed>> \o @]
                                ELSE ReassembleFrom(v, v.next, os)
    IN  IF i > Len(w.list) THEN w
        ELSE IF SEQ_LT(w.seg.seq, w.list[i].seq) /\ SEQ_LEQ(End(w.seg), w.list[i].seq)
             THEN [w EXCEPT !.list = InsertAt(@, i, w.seg)]
             ELSE further(Handled([w EXCEPT !.next = i + 1], i, os))

(* The list and the pool with seg inserted.                                *)
ReassembleInsertSegment(w, os) ==
    IF w.list = <<>> \/ SEQ_GEQ(w.seg.seq, End(Last(w.list)))
    THEN [w EXCEPT !.list = Append(@, w.seg)]
    ELSE ReassembleFrom(w, 1, os)

---------------------------------------------------------------------------
(* What has been acknowledged goes to the application layer.  u is the     *)
(* list and the pool, the base reached, next, the sequence number expected *)
(* next, the message msg being filled, the messages out, and what is left  *)
(* in ra_base_seq (kept) and tmp_ra_base_seq (saved).                      *)

NoMsg == [start |-> FALSE, gap |-> FALSE, data |-> <<>>, none |-> TRUE]
SetupMsg(u) ==
    IF ~u.msg.none THEN u
    ELSE [u EXCEPT !.msg = [NoMsg EXCEPT !.none = FALSE, !.start = u.kept = ra.isn]]
(* StreamMsgPutInQueue, and the base written back: ra_base_seq once the    *)
(* protocol is known, tmp_ra_base_seq before.                              *)
Put(u) == [u EXCEPT !.out = Append(@, u.msg), !.msg = NoMsg,
                    ![IF app.found THEN "kept" ELSE "saved"] = u.base]
PutIfFull(u) == IF Len(u.msg.data) = ra.size THEN Put(u) ELSE u

Smaller(a, b) == IF a < b THEN a ELSE b
(* Copies n bytes of data from offset at.                                  *)
Fill(u, data, at, n) ==
    [u EXCEPT !.msg.data = @ \o SubSeq(data, at + 1, at + n), !.base = Add(@, n)]

(* The rest of a segment that does not fit goes into messages of its own,  *)
(* acknowledged or not.                                                    *)
RECURSIVE FillMore(_, _, _)
FillMore(u, data, at) ==
    LET n == Smaller(ra.size, Len(data) - at)
        more(v) == IF at + n < Len(data) THEN FillMore(v, data, at + n) ELSE v
    IN  more(PutIfFull(Fill(SetupMsg(u), data, at, n)))

(* How much of seg is taken, and from where.                               *)
Offset(u, seg) == IF SEQ_GT(u.base, seg.seq) THEN Distance(seg.seq, u.base) ELSE 0
Amount(u, seg) ==
    LET at == Offset(u, seg)
        upto == IF SEQ_LT(u.upto, End(seg)) THEN Distance(seg.seq, u.upto)
                                                     ELSE Len(seg.data)
    IN  IF at > 0 /\ SEQ_LT(u.upto, u.base) THEN upto ELSE upto - at

CopySegment(u, seg) ==
    LET at == Offset(u, seg)
        fits(v) == Smaller(ra.size - Len(v.msg.data), Amount(u, seg))
        filled(v, n) == IF n < Amount(u, seg) THEN FillMore(v, seg.data, at + n) ELSE v
        fill(v, n) == filled(PutIfFull(Fill(v, seg.data, at, n)), n)
        copied(v) == fill(v, fits(v))
    IN  IF SEQ_LEQ(End(seg), u.base) THEN u ELSE copied(SetupMsg(u))

(* A gap ends the message before it and has one of its own.                *)
Gap(u, seg) ==
    LET ended(v) == [v EXCEPT !.msg = NoMsg, ![IF app.found THEN "kept" ELSE "saved"] = v.base]
        marked(v) == [v EXCEPT !.base = Add(seg.seq, -1), !.msg = NoMsg,
                               !.out = Append(@, [v.msg EXCEPT !.gap = TRUE])]
    IN  marked(SetupMsg(ended(IF u.msg.data # <<>> THEN Put(u) ELSE u)))

Old(u, seg) ==
    \/ SEQ_LEQ(End(seg), Add(u.base, 1))
    \/ SEQ_LEQ(u.upto, Add(u.base, Distance(seg.seq, u.base)))

(* The element i of the list goes back to the pool.                        *)
Drop(u, i, processed) ==
    [u EXCEPT !.list = RemoveAt(@, i), !.pool = <<processed>> \o @]

PutIfAny(u) == IF u.msg.none THEN u ELSE Put(u)
Copied(u, seg) ==
    [CopySegment(IF SEQ_GT(seg.seq, u.next) THEN Gap(u, seg) ELSE u, seg)
     EXCEPT !.next = End(seg)]

RECURSIVE Walk(_, _)
Walk(u, i) ==
    LET seg == u.list[i]
        detecting(v) == IF \E k \in DOMAIN v.out : ~v.out[k].gap THEN PutIfAny(v)
                                                                 ELSE Walk(v, i + 1)
    IN  IF i > Len(u.list) \/ ~SEQ_LT(u.list[i].seq, u.upto) THEN PutIfAny(u)
        ELSE IF app.found /\ seg.processed THEN Walk(Drop(u, i, FALSE), i)
        ELSE IF Old(u, seg) THEN Walk(Drop(u, i, seg.processed), i)
        ELSE IF app.found THEN Walk(Drop(Copied(u, seg), i, FALSE), i)
        ELSE detecting([Copied(u, seg) EXCEPT !.list[i].processed = TRUE])

(* Mutant: the limit of the first message goes for all of them.            *)
AlwaysLimited(st) == st.ending \/ ra.chunk <= Distance(st.ra_base_seq, st.last_ack)

(* StreamTcpReassembleCheckLimit: before the first message enough has to   *)
(* be acknowledged to recognise a protocol by.                             *)
EnoughAcked(st) ==
    \/ st.ending
    \/ st.ra_base_seq # ra.isn
    \/ ra.chunk <= Distance(st.ra_base_seq, st.last_ack)

(* Mutant: the base the detection reached is forgotten.                    *)
BaseOfStream(st) == st.ra_base_seq

(* The two bases are compared as unsigned numbers.                         *)
StartBase(st) == IF app.found /\ st.tmp_ra_base_seq > st.ra_base_seq
                 THEN st.tmp_ra_base_seq ELSE st.ra_base_seq

StreamTcpReassembleHandleSegmentUpdateACK(st) ==
    LET base == StartBase(st)
        u == [list |-> st.list, pool |-> pool, base |-> base, next |-> Add(base, 1),
              msg |-> NoMsg, out |-> <<>>, kept |-> base, upto |-> st.last_ack,
              saved |-> IF app.found THEN st.tmp_ra_base_seq ELSE base]
    IN  IF st.list = <<>> THEN [u EXCEPT !.kept = st.ra_base_seq, !.saved = st.tmp_ra_base_seq]
        ELSE IF EnoughAcked([st EXCEPT !.ra_base_seq = base]) THEN Walk(u, 1)
        ELSE u

---------------------------------------------------------------------------
(* The application layer                                                   *)

(* The protocol is recognised by its first ra.need bytes; whoever sent     *)
(* ra.most without that is not looked at again.                            *)
Parse(a, m, gap) == IF gap THEN [a EXCEPT !.noinspection = TRUE]
                           ELSE [a EXCEPT !.parsed = @ \o m.data]
AppLayerHandleMsg(a0, m) ==
    LET a == [a0 EXCEPT !.gap = @ \/ m.gap]
        detects == ~a.known /\ m.start
    IN  IF a.noinspection THEN a
        ELSE IF detects /\ Len(m.data) >= ra.need
        THEN Parse([a EXCEPT !.known = TRUE, !.found = TRUE], m, a.gap)
        ELSE IF detects /\ Len(m.data) >= ra.most
        THEN [a EXCEPT !.found = TRUE, !.noreassembly = TRUE]
        ELSE IF a.known THEN Parse(a, m, m.gap)
        ELSE a
StreamTcpReassembleProcessAppLayer(out) == FoldLeft(AppLayerHandleMsg, app, out)

---------------------------------------------------------------------------
(* Packets                                                                 *)

NewStream(isn) == [list |-> <<>>, ra_base_seq |-> isn, tmp_ra_base_seq |-> 0,
                   last_ack |-> Add(isn, 1), ending |-> FALSE]
NewApp == [known |-> FALSE, found |-> FALSE, gap |-> FALSE, noinspection |-> FALSE,
           noreassembly |-> FALSE, parsed |-> <<>>]

(* A packet carries the bytes at x.len positions from x.at on.             *)
Segment(x) ==
    LET byte(k) == [id |-> Len(sent) + 1, pos |-> k]
        seg == [seq |-> Seq1(x.at), processed |-> pool # <<>> /\ Head(pool),
                data |-> [i \in 1 .. x.len |-> byte(x.at + i - 1)]]
        stored(w) == stream' = [stream EXCEPT !.list = w.list] /\ pool' = w.pool
    IN  /\ Len(sent) < ra.packets
        /\ sent' = Append(sent, [at |-> x.at, len |-> x.len, acked |-> Pos(stream.last_ack)])
        /\ IF app.noreassembly THEN UNCHANGED <<stream, pool>>
           ELSE stored(ReassembleInsertSegment(
                           [list |-> stream.list, seg |-> seg, done |-> FALSE, next |-> 1,
                            pool |-> IF pool = <<>> THEN pool ELSE Tail(pool)], ra.os))
        /\ UNCHANGED <<ra, app>>

Covers(x) == x.at .. x.at + x.len - 1
Arrived == UNION {Covers(x) : x \in Range(sent)}

(* The other host acknowledges what comes before position n.               *)
Ack(n) ==
    LET st == [stream EXCEPT !.last_ack = Seq1(n)]
        reached(u) ==
            /\ stream' = [st EXCEPT !.list = u.list, !.ra_base_seq = u.kept,
                                    !.tmp_ra_base_seq = u.saved]
            /\ pool' = u.pool
            /\ app' = StreamTcpReassembleProcessAppLayer(u.out)
    IN  /\ n > Pos(stream.last_ack)
        /\ ra.gaps \/ 1 .. n - 1 \subseteq Arrived
        /\ reached(StreamTcpReassembleHandleSegmentUpdateACK(st))
        /\ UNCHANGED <<ra, sent>>

(* Both hosts have sent their FIN.                                         *)
Finish ==
    /\ ~stream.ending /\ stream' = [stream EXCEPT !.ending = TRUE]
    /\ UNCHANGED <<ra, pool, app, sent>>

(* StreamTcpSessionPktFree; a new connection uses the segments again.      *)
Close ==
    /\ ra.again /\ sent # <<>>
    /\ pool' = [i \in DOMAIN stream.list |-> Reverse(stream.list)[i].processed] \o pool
    /\ ra' = [ra EXCEPT !.again = FALSE]
    /\ stream' = NewStream(ra.isn) /\ app' = NewApp /\ sent' = <<>>

Init ==
    /\ ra \in RaConfs
    /\ stream = NewStream(ra.isn) /\ pool = <<>> /\ app = NewApp /\ sent = <<>>

Next ==
    \/ \E x \in ra.sends : Segment(x)
    \/ \E n \in ra.acks : Ack(n)
    \/ Finish \/ Close

Spec == Init /\ [][Next]_vars

---------------------------------------------------------------------------
(* What reassembly owes the host                                           *)

Byte == [id : 0 .. ra.packets, pos : 0 .. Half]
TypeOK ==
    /\ \A i \in DOMAIN stream.list :
         /\ stream.list[i].seq \in 0 .. Mod - 1 /\ stream.list[i].processed \in BOOLEAN
         /\ Range(stream.list[i].data) \subseteq Byte
    /\ {stream.ra_base_seq, stream.last_ack} \subseteq 0 .. Mod - 1
    /\ Range(app.parsed) \subseteq Byte

(* The list is as PrintList demands after each insertion, or it aborts:    *)
(* in order, and no segment reaches into the next one.                     *)
ListConsistent ==
    \A i \in 1 .. Len(stream.list) - 1 :
        SEQ_LEQ(End(stream.list[i]), stream.list[i + 1].seq)

(* What arrived and is not acknowledged yet is in the list.                *)
NothingLost ==
    ~app.noreassembly =>
        \A k \in Arrived : k >= Pos(stream.last_ack) =>
            \E i \in DOMAIN stream.list :
                k \in Covers([at |-> Pos(stream.list[i].seq), len |-> Len(stream.list[i].data)])

(* Of segments that came twice the host keeps the first or the last, by    *)
(* its system (HandleSegmentStartsAtSameListSegment).  Claimed as long as  *)
(* nothing is acknowledged and packets overlap wholly or not at all.       *)
Firsts == {"BSD", "LINUX", "WINDOWS", "VISTA", "FIRST"}
PolicyDecides ==
    /\ Pos(stream.last_ack) = 1
    /\ \A x, y \in ra.sends : x = y \/ Covers(x) \cap Covers(y) = {}
    => \A i \in DOMAIN stream.list, k \in DOMAIN sent :
         LET b == Head(stream.list[i].data) IN
         b.pos \in Covers(sent[k]) => IF ra.os \in Firsts THEN b.id <= k ELSE b.id >= k

(* The parser is given the bytes of the stream once each and in order.     *)
ParsedInOrder == \A k \in DOMAIN app.parsed : app.parsed[k].pos = k

(* Inspection only ends for a byte the other host has and that never       *)
(* passed here before.                                                     *)
EndsForGaps ==
    app.noinspection => \E k \in 1 .. Pos(stream.last_ack) - 1 :
        ~\E x \in Range(sent) : k \in Covers(x) /\ x.acked <= k

(* The list in which data waits, and what the parser gets from it.         *)
ListRight == ListConsistent /\ PolicyDecides
StreamInspected == ParsedInOrder /\ EndsForGaps

(* Once the protocol is known, what is acknowledged does not stay in       *)
(* memory beyond the packet that acknowledges it.                          *)
FreedWhenAcked ==
    [][stream'.last_ack # stream.last_ack /\ app.found /\ stream'.list # <<>> =>
         SEQ_GEQ(Head(stream'.list).seq, stream'.last_ack)]_vars
===============================================================================
