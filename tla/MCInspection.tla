----------------------------- MODULE MCInspection -----------------------------
(***************************************************************************)
(* The components of packet inspection that one thread runs at a time,     *)
(* most of them under a lock, side by side: part says which of them a      *)
(* behaviour is about, the others stay in their first state.               *)
(***************************************************************************)
EXTENDS FlowQueue, DetectState, Threshold, Defrag

CONSTANT Parts   \* the components this run is about
VARIABLE part

---------------------------------------------------------------------------
(* TCP connections: sequence numbers wrap during each of them.             *)

VARIABLES stream_config, conf, host, wire, faults, src, ssn, handed
tcp == <<stream_config, conf, host, wire, faults, src, ssn, handed>>

Both(c, s) == [h \in {"c", "s"} |-> IF h = "c" THEN c ELSE s]
(* Nothing is lost, one byte goes to the server; clock -1: no time stamps. *)
Plain == [open |-> "three", clock |-> -1, os |-> Both("BSD", "LINUX"), data |-> Both(1, 0),
          faults |-> 0, resets |-> FALSE, memcap |-> FALSE, midstream |-> FALSE,
          async |-> FALSE, oneside |-> FALSE, old |-> {}]
Old(h, fl, seq) == [src |-> h, fl |-> fl, seq |-> seq, len |-> 0, win |-> 3, ack |-> 5,
                    ts |-> -1, ecr |-> 0]
Connections ==
    {[Plain EXCEPT !.faults = 1, !.memcap = TRUE],
     [Plain EXCEPT !.data = Both(2, 0)], [Plain EXCEPT !.data = Both(1, 1)],
     [Plain EXCEPT !.resets = TRUE], [Plain EXCEPT !.open = "four"],
     [Plain EXCEPT !.clock = 0],
     [Plain EXCEPT !.clock = 1, !.resets = TRUE, !.os = Both("SOLARIS", "HPUX11")],
     [Plain EXCEPT !.open = "open", !.midstream = TRUE, !.clock = 1],
     [Plain EXCEPT !.open = "synack", !.midstream = TRUE],
     [Plain EXCEPT !.oneside = TRUE, !.async = TRUE, !.data = Both(2, 0)],
     [Plain EXCEPT !.old = {Old("s", "SA", 3), Old("s", "RA", 3)}],
     [Plain EXCEPT !.old = {Old("c", "FA", 5), Old("s", "FA", 1)}]}
Tcp == INSTANCE TcpPath WITH Mod <- 16, Win <- 3, Isn <- Both(14, 6), Confs <- Connections
ASSUME Tcp!TcpAssumption /\ Tcp!PathAssumption
TcpInit == Tcp!Init /\ (part # "tcp" => conf = [Plain EXCEPT !.resets = TRUE])

SessionTrue == Tcp!SessionTrue
FlowFollows == Tcp!FlowFollows
DataInspected == Tcp!DataInspected

---------------------------------------------------------------------------
(* Reassembly                                                              *)

VARIABLES ra, stream, pool, app, sent
reassembly == <<ra, stream, pool, app, sent>>

At(a, n) == [at |-> a, len |-> n]
(* Three packets in any order and more than once.                          *)
InThree == [os |-> "LINUX", isn |-> 26, size |-> 8, chunk |-> 0, need |-> 2, most |-> 4,
            packets |-> 4, gaps |-> FALSE, again |-> FALSE,
            sends |-> {At(1, 2), At(3, 1), At(4, 2)}, acks |-> {3, 4, 6}]
(* Packets that overlap in every way.                                      *)
Overlap(os) == [InThree EXCEPT !.os = os, !.acks = {}, !.packets = 3,
                               !.sends = {At(a, n) : a \in 1 .. 4, n \in 1 .. 3}]
Systems == {"BSD", "LINUX", "SOLARIS", "OLD_LINUX", "LAST", "FIRST"}
RaStreams ==
    {InThree, [InThree EXCEPT !.size = 3, !.chunk = 4], [InThree EXCEPT !.gaps = TRUE]}
    \cup {[InThree EXCEPT !.os = os, !.acks = {}] : os \in Systems}
    \cup {Overlap(os) : os \in Systems}
Ra == INSTANCE Reassembly WITH Mod <- 32, RaConfs <- RaStreams
RaInit ==
    /\ Ra!Init
    /\ CASE part = "reassembly" -> TRUE
         [] part = "overlap" -> ra = Overlap("BSD")
         [] OTHER -> ra = InThree

ListRight == Ra!ListRight
StreamInspected == Ra!StreamInspected
FreedWhenAcked == Ra!FreedWhenAcked
NothingLost == Ra!NothingLost

---------------------------------------------------------------------------
(* The flow queues: every sequence of operations.                          *)

flowqueue == vars
ASSUME FlowQueueAssumption

---------------------------------------------------------------------------
(* Defragmentation                                                         *)

F(o, n, mf) == [id |-> 1, off |-> o, len |-> n, mf |-> mf, who |-> 0]
Apart == {F(0, 2, TRUE), F(2, 2, TRUE), F(4, 1, FALSE)}
\* One datagram in pieces that come again and again.
Again(p) == [policy |-> p, trackers |-> 1, timeout |-> 5, until |-> 0, packets |-> 5,
             pool |-> 9, differ |-> FALSE, once |-> FALSE, sends |-> Apart]
Once(p) == [Again(p) EXCEPT !.once = TRUE]
Pieces == {p \in {F(o, n, TRUE) : o \in 0 .. 3, n \in 1 .. 4} : p.off + p.len <= 4}
          \cup {F(4, 1, FALSE)}
Differ(p) == [Again(p) EXCEPT !.differ = TRUE, !.packets = 4, !.sends = Pieces]
\* Three datagrams, two trackers.
Many == [Again("BSD") EXCEPT
           !.trackers = 2, !.timeout = 1, !.until = 4, !.packets = 4, !.pool = 3, !.once = TRUE,
           !.sends = {[p EXCEPT !.id = i] : i \in 1 .. 3, p \in {F(0, 1, TRUE), F(1, 1, TRUE)}}]
Datagrams ==
    {Again(p) : p \in {"BSD", "WINDOWS", "SOLARIS", "FIRST"}}
    \cup {Once(p) : p \in {"LINUX", "LAST", "BSD_RIGHT", "unset"}}
    \cup {Differ(p) : p \in {"BSD", "LINUX", "WINDOWS", "SOLARIS", "FIRST", "LAST"}}
    \cup {Many}
\* Linux keeps two copies of a fragment that comes again.
Repeated == {Again("LINUX")}
ASSUME DefragAssumption
DfInit == DefragInit /\ (part # "defrag" => df = Many)

---------------------------------------------------------------------------
(* Thresholds: two threads with packets of one address or two.             *)

Rated(type, track, count) ==
    [type |-> type, track |-> track, count |-> count, seconds |-> 2, timeout |-> 0,
     new |-> "drop", action |-> "alert"]
Pkt(a, v) == [src |-> a, dst |-> "x", v |-> v]
One(r) == [rules |-> <<r>>, packets |-> 4, matches |-> {<<1>>},
           pkts |-> {Pkt("a", 4), Pkt("b", 4)}]
Rates(track, n) == One([Rated("rate", track, n) EXCEPT !.timeout = 1])
\* A rule that passes the packet before one that alerts; an address of IPv6.
Two == [rules |-> <<[Rated("limit", "dst", 1) EXCEPT !.action = "pass"], Rated("both", "src", 2)>>,
        packets |-> 3, matches |-> {<<1, 2>>, <<2>>}, pkts |-> {Pkt("a", 4), Pkt("b", 6)}]
Thresholds ==
    {One(Rated("limit", "src", 1)), One(Rated("threshold", "src", 2)),
     One(Rated("threshold", "dst", 1)), One(Rated("both", "src", 2)),
     One(Rated("detection", "src", 2)), Rates("src", 2), Rates("rule", 2), Rates("dst", 1),
     Two, [Two EXCEPT !.rules[1].type = "none"]}
ASSUME ThresholdAssumption
TrInit == ThresholdInit /\ (part # "threshold" => th = Two)

---------------------------------------------------------------------------
(* Stateful detection: the parser as far ahead as it likes.                *)

Wants(uri, parts) == [uri |-> uri, parts |-> parts]
(* One rule with a URI and one without, requests that fit one or both.     *)
Whole == [rules |-> <<Wants(TRUE, <<"m">>), Wants(FALSE, <<"m">>)>>, threads |-> {"t1"},
          requests |-> 3, packets |-> 5, sends |-> {{"uri"}, {"m"}, {"uri", "m"}},
          split |-> FALSE, close |-> FALSE, logger |-> FALSE]
OnlyUri == [Whole EXCEPT !.rules = <<Wants(TRUE, <<>>)>>, !.packets = 7, !.sends = {{}, {"uri"}}]
(* A rule that needs two requests, which come in pieces.                   *)
Split == [Whole EXCEPT !.rules = <<Wants(TRUE, <<"m", "n">>)>>, !.packets = 4, !.requests = 2,
                       !.sends = {{"uri", "m"}, {"uri", "n"}},
                       !.split = TRUE, !.close = TRUE, !.logger = TRUE]
TwoThreads == [Whole EXCEPT !.rules = <<Wants(TRUE, <<"m">>)>>, !.packets = 4, !.requests = 2,
                            !.threads = {"t1", "t2"}, !.sends = {{"uri"}, {"m"}}]
(* No rules: the transactions alone, with a logger and without.            *)
Ids == [Split EXCEPT !.rules = <<>>, !.packets = 6, !.requests = 4, !.sends = {{}}]
Detections ==
    {Whole, OnlyUri, Split, TwoThreads, Ids, [Ids EXCEPT !.logger = FALSE, !.requests = 3]}
ASSUME DetectAssumption
DsInit == DetectInit /\ (part # "detect" => ds = Whole)

---------------------------------------------------------------------------
InspectionInit == part \in Parts /\ TcpInit /\ RaInit /\ Init /\ DfInit /\ TrInit /\ DsInit
InspectionNext ==
    /\ UNCHANGED part
    /\ \/ part = "tcp" /\ Tcp!Next
       \/ part \in {"reassembly", "overlap"} /\ Ra!Next
       \/ part = "flowqueue" /\ Next
       \/ part = "defrag" /\ DefragNext
       \/ part = "threshold" /\ ThresholdNext
       \/ part = "detect" /\ DetectNext
    /\ part # "tcp" => UNCHANGED tcp
    /\ part \notin {"reassembly", "overlap"} => UNCHANGED reassembly
    /\ part # "flowqueue" => UNCHANGED flowqueue
    /\ part # "defrag" => UNCHANGED defragVars
    /\ part # "threshold" => UNCHANGED thresholdVars
    /\ part # "detect" => UNCHANGED detectVars
InspectionSpec ==
    /\ InspectionInit
    /\ [][InspectionNext]_<<part, tcp, reassembly, flowqueue, defragVars, thresholdVars, detectVars>>

(* The types of all of them; the others are in their first state.          *)
InspectionTypeOK ==
    CASE part = "tcp" -> Tcp!TypeOK
      [] part = "reassembly" -> Ra!TypeOK
      [] part = "flowqueue" -> TypeOK
      [] part = "defrag" -> DefragTypeOK
      [] part = "threshold" -> ThresholdTypeOK
      [] part = "detect" -> DetectTypeOK
===============================================================================
