-------------------------------- MODULE TcpPath --------------------------------
(***************************************************************************)
(* A connection between two hosts whose packets pass the tracker of        *)
(* TcpSession.  The hosts and the network are the environment: packets     *)
(* pass the tracker in any order, and up to conf.faults of them are lost     *)
(* before the tracker or behind it, or come twice; a host keeps data that  *)
(* arrives out of order.  The tracker judges by what it sees; the          *)
(* properties compare its session with what the hosts really did.          *)
(***************************************************************************)
EXTENDS TcpSession

CONSTANTS
    Confs,     \* the connections: see Init
    Isn,       \* the initial sequence number of each host
    Win        \* the window every packet advertises

Hosts == {"c", "s"}
Other(h) == IF h = "c" THEN "s" ELSE "c"

PathAssumption ==
    /\ Isn \in [Hosts -> 0 .. Mod - 1]
    /\ Win < Half
    /\ \A x \in Confs, h \in Hosts : x.data[h] < Win

VARIABLES
    conf,    \* how this connection is opened, and what its hosts are
    host,    \* the two ends
    wire,    \* the packets under way
    faults,  \* the losses and duplicates so far
    src,     \* the sender of the packet that created the flow
    ssn,     \* p->flow->protoctx
    handed   \* the bytes handed to StreamTcpReassembleHandleSegment
vars == <<stream_config, conf, host, wire, faults, src, ssn, handed>>

---------------------------------------------------------------------------
(* The hosts                                                               *)

(* rx holds the positions that arrived; position k of host h has sequence  *)
(* number Isn[h] + k, and its FIN follows its last byte.                   *)
Closed == [st |-> "closed", sent |-> 0, fin |-> FALSE, rx |-> {}]
Got(x) == CHOOSE n \in 0 .. Cardinality(x.rx) :
             /\ 1 .. n \subseteq x.rx /\ n + 1 \notin x.rx
Clock(x) == IF conf.clock = NoTs THEN NoTs ELSE conf.clock + x.sent
Sent(x) == x.sent + (IF x.fin THEN 1 ELSE 0)

Packet(h, x, fl, pos, len) ==
    [src |-> h, fl |-> fl, seq |-> Add(Isn[h], pos), len |-> len, win |-> Win,
     ack |-> IF fl = "S" THEN 0 ELSE Add(Isn[Other(h)], 1 + Got(x)),
     ts |-> Clock(x), ecr |-> IF conf.clock = NoTs THEN 0 ELSE conf.clock + Got(x)]
Ack(h, x) == Packet(h, x, "A", 1 + Sent(x), 0)

SendSyn ==
    /\ host["c"].st = "closed"
    /\ host' = [host EXCEPT !["c"].st = "syn_sent"]
    /\ wire' = wire \cup {Packet("c", host["c"], "S", 0, 0)}
    /\ UNCHANGED <<stream_config, conf, faults, src, ssn, handed>>

SendData(h) ==
    LET x == host[h] IN
    /\ x.st = "open" /\ ~x.fin /\ x.sent < conf.data[h]
    /\ host' = [host EXCEPT ![h].sent = @ + 1]
    /\ wire' = wire \cup {Packet(h, x, "PA", 1 + x.sent, 1)}
    /\ UNCHANGED <<stream_config, conf, faults, src, ssn, handed>>

SendFin(h) ==
    LET x == host[h] IN
    /\ x.st = "open" /\ ~x.fin
    /\ host' = [host EXCEPT ![h].fin = TRUE]
    /\ wire' = wire \cup {Packet(h, x, "FA", 1 + x.sent, 0)}
    /\ UNCHANGED <<stream_config, conf, faults, src, ssn, handed>>

SendReset(h) ==
    LET x == host[h] IN
    /\ conf.resets /\ x.st = "open" /\ ~x.fin
    /\ host' = [host EXCEPT ![h].st = "reset"]
    /\ wire' = wire \cup {Packet(h, x, "RA", 1 + x.sent, 0)}
    /\ UNCHANGED <<stream_config, conf, faults, src, ssn, handed>>

(* Position of p in its sender's stream: 1 is the first byte.              *)
Position(p) == (p.seq - Isn[p.src]) % Mod
Takes(p) == p.len = 1 \/ p.fl \in Fins

(* The receiving host, and what it answers.                                *)
Received(h, p) ==
    LET x == host[h]
        open == [x EXCEPT !.st = "open",
                          !.rx = IF Takes(p) THEN @ \cup {Position(p)} ELSE @]
    IN  CASE x.st = "closed" /\ h = "s" /\ p.fl = "S" ->
               [x |-> [x EXCEPT !.st = "syn_rcvd"],
                out |-> {Packet(h, x, IF conf.open = "four" THEN "S" ELSE "SA", 0, 0)}]
          [] x.st = "syn_sent" /\ p.fl = "SA" -> [x |-> open, out |-> {Ack(h, x)}]
          [] x.st = "syn_sent" /\ p.fl = "S" ->
               [x |-> [x EXCEPT !.st = "syn_rcvd"], out |-> {Packet(h, x, "SA", 0, 0)}]
          [] x.st = "syn_rcvd" /\ p.fl = "SA" -> [x |-> open, out |-> {Ack(h, x)}]
          [] /\ x.st = "open" \/ x.st = "syn_rcvd"
             /\ p.fl \in Data \cup Fins ->
               [x |-> open, out |-> IF Takes(p) THEN {Ack(h, open)} ELSE {}]
          [] x.st = "open" /\ p.fl \in Resets /\ Position(p) = 1 + Got(x) ->
               [x |-> [x EXCEPT !.st = "reset"], out |-> {}]
          [] OTHER -> [x |-> x, out |-> {}]

---------------------------------------------------------------------------
(* The tracker                                                             *)

(* The stream of host h in session s.                                      *)
StreamOf(h, s, first) ==
    IF (h = first) = ("MIDSTREAM_SYNACK" \notin s.flags) THEN "client" ELSE "server"

Seen(p, first) ==
    [to |-> IF p.src = first THEN "server" ELSE "client", fl |-> p.fl, seq |-> p.seq,
     ack |-> p.ack, len |-> p.len, win |-> p.win, ts |-> p.ts, ecr |-> p.ecr,
     os |-> conf.os[Other(p.src)]]

(* PoolGet gives no session at the memcap.                                 *)
Settled(p, s, first) ==
    /\ src' = first
    /\ ssn' = s
    /\ handed' = IF p.len = 1 /\ s.hand = StreamOf(p.src, s, first)
                    THEN handed \cup {<<p.src, Position(p)>>} ELSE handed
Handle(p, memory) ==
    LET first == IF src = "none" THEN p.src ELSE src IN
    Settled(p, IF ssn.state = "NULL" /\ ~memory THEN NoSession
               ELSE StreamTcpPacket(ssn, Seen(p, first)), first)

(* Of a connection that is routed one way only the client's side is seen.  *)
Track(p, memory) == IF conf.oneside /\ p.src = "s" THEN UNCHANGED <<src, ssn, handed>>
                                                   ELSE Handle(p, memory)
Arrive(p) ==
    LET r == Received(Other(p.src), p) IN
    host' = [host EXCEPT ![Other(p.src)] = r.x] /\ wire' = (wire \ {p}) \cup r.out

Deliver(p, memory) ==
    /\ Track(p, memory) /\ Arrive(p)
    /\ UNCHANGED <<stream_config, conf, faults>>

Fault == faults < conf.faults /\ faults' = faults + 1 /\ UNCHANGED <<stream_config, conf>>

(* The packet is lost behind the tracker; its sender repeats it, unless it *)
(* is a mere acknowledgement.                                              *)
Repeats(p) == p.len = 1 \/ p.fl \notin Data
LoseBehind(p) ==
    /\ Fault /\ Track(p, TRUE) /\ UNCHANGED host
    /\ wire' = IF Repeats(p) THEN wire ELSE wire \ {p}
LoseBefore(p) ==
    /\ Fault /\ ~Repeats(p)
    /\ wire' = wire \ {p} /\ UNCHANGED <<host, src, ssn, handed>>
(* It arrives and comes once more.                                         *)
Duplicate(p) ==
    /\ Fault /\ Track(p, TRUE)
    /\ LET r == Received(Other(p.src), p) IN
         host' = [host EXCEPT ![Other(p.src)] = r.x] /\ wire' = wire \cup r.out

(* Where the connection is when the tracker starts: before its beginning,  *)
(* between SYN and SYN/ACK, or after it.  conf.old are packets of an       *)
(* earlier connection between the same ports.                              *)
Opened(h) == [Closed EXCEPT !.st = "open"]
Init ==
    /\ conf \in Confs
    /\ stream_config = [midstream |-> conf.midstream, async_oneside |-> conf.async]
    /\ host = [h \in Hosts |->
                 CASE conf.open = "open" -> Opened(h)
                   [] conf.open = "synack" -> [Closed EXCEPT !.st = IF h = "c" THEN "syn_sent" ELSE "syn_rcvd"]
                   [] OTHER -> Closed]
    /\ wire = conf.old \cup
              (IF conf.open = "synack" THEN {Packet("s", Closed, "SA", 0, 0)} ELSE {})
    /\ faults = 0 /\ src = "none" /\ ssn = NoSession /\ handed = {}

Next ==
    \/ SendSyn
    \/ \E h \in Hosts : SendData(h) \/ SendFin(h) \/ SendReset(h)
    \/ \E p \in wire :
         \/ \E memory \in BOOLEAN : Deliver(p, memory \/ ssn.state # "NULL" \/ ~conf.memcap)
         \/ LoseBehind(p) \/ LoseBefore(p) \/ Duplicate(p)

Spec == Init /\ [][Next]_vars

---------------------------------------------------------------------------
(* What the tracker knows about the hosts                                  *)

TypeOK ==
    /\ ssn \in Session
    /\ src \in Hosts \cup {"none"}

Tracked == ssn.state \in States \ {"SYN_SENT", "CLOSED"}

(* A session that saw the connection open has the initial sequence numbers *)
(* of its hosts, whatever was repeated, reordered or left over from an     *)
(* earlier connection (StreamTcpPacketStateSynSent compares th_ack, but    *)
(* StreamTcpPacketStateNone takes any SYN).                                *)
IsnAgreed ==
    Tracked /\ "MIDSTREAM" \notin ssn.flags =>
        \A h \in Hosts : ssn[StreamOf(h, ssn, src)].isn = Isn[h]

(* The session never expects data its host has not sent, and never counts  *)
(* as acknowledged what the other host has not got: segments are freed and *)
(* windows judged by it.  (A session picked up in the middle starts from   *)
(* a guess.)                                                               *)
NeverAhead ==
    Tracked /\ conf.open # "open" =>
        \A h \in Hosts :
            LET x == ssn[StreamOf(h, ssn, src)] IN
            /\ SEQ_LEQ(x.next_seq, Add(Isn[h], 1 + Sent(host[h])))
            /\ SEQ_LEQ(x.last_ack, Add(Isn[h], 1 + Got(host[Other(h)])))

(* The flow a session belongs to goes from NEW to ESTABLISHED to CLOSED    *)
(* and never back: FlowUpdateQueue moves it from queue to queue by this.   *)
FlowMonotone ==
    [][ssn.state # "NULL" =>
         LET rank == [NEW |-> 0, ESTABLISHED |-> 1, CLOSED |-> 2] IN
         rank[StreamTcpGetFlowState(ssn')] >= rank[StreamTcpGetFlowState(ssn)]]_vars

(* Before either host closes, no byte gets past an established session     *)
(* into a host without having been handed to reassembly, in whatever order *)
(* packets come and also where sequence numbers wrap.                      *)
DataInspected ==
    [][\A h \in Hosts, k \in 1 .. 3 :
         /\ ssn.state = "ESTABLISHED" /\ (conf.oneside => h = "c")
         /\ \A g \in Hosts : ~host[g].fin
         /\ k \in host'[Other(h)].rx \ host[Other(h)].rx
         => <<h, k>> \in handed']_vars

(* When a host takes the FIN of the other one, an established session has  *)
(* left that state: the flow gets the short timeout.  Claimed where the    *)
(* tracker saw SYN and SYN/ACK, or SYN/ACK and ACK, of both directions.    *)
FinNoticed ==
    [][\A h \in Hosts :
         /\ conf.open \in {"three", "synack"} /\ ~conf.oneside
         /\ ssn.state = "ESTABLISHED" /\ host[h].fin
         /\ host[h].sent + 1 \in host'[Other(h)].rx \ host[Other(h)].rx
         => ssn'.state # "ESTABLISHED"]_vars

(* A session is closed by what its hosts do, not by a packet of an earlier *)
(* connection that turns up late (ValidReset, StreamTcpHandleFin).         *)
ClosedForAReason ==
    StreamTcpGetFlowState(ssn) = "CLOSED" /\ ssn.state # "NULL" =>
        \E h \in Hosts : host[h].fin \/ host[h].st = "reset"

(* What the tracker holds of the connection is true of its hosts.          *)
SessionTrue == IsnAgreed /\ NeverAhead /\ ClosedForAReason

(* The flow of the session moves from queue to queue as the connection     *)
(* does: never back, and on when a host closes.                            *)
FlowFollows == FlowMonotone /\ FinNoticed
===============================================================================
