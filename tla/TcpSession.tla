------------------------------- MODULE TcpSession -------------------------------
(***************************************************************************)
(* The TCP session tracker of stream-tcp.c: one session, the two streams   *)
(* it follows, and the function that each state applies to a packet.       *)
(* Every packet is handled with the flow locked (StreamTcp), so a handler  *)
(* is a function from the session before the packet to the session after   *)
(* it.  Sequence numbers are counted modulo Mod, as SEQ_LT and its         *)
(* relatives count them modulo 2^32.                                       *)
(* Left out: the ECN and CWR bits of th_flags, window scaling that a host  *)
(* really negotiates, and a connection that idles for 24 days.             *)
(***************************************************************************)
EXTENDS TcpSeq, FiniteSets

VARIABLE stream_config   \* [midstream, async_oneside], read at start-up

Midstream == stream_config.midstream
Async == stream_config.async_oneside

(* The later of two acknowledgements.                                       *)
Newer(old, ack) == IF SEQ_GT(ack, old) THEN ack ELSE old

---------------------------------------------------------------------------
(* Sessions, streams and packets                                           *)

Streams == {"client", "server"}
States == {"SYN_SENT", "SYN_RECV", "ESTABLISHED", "FIN_WAIT1", "FIN_WAIT2",
           "TIME_WAIT", "LAST_ACK", "CLOSE_WAIT", "CLOSED"}
Policies == {"BSD", "HPUX11", "LINUX", "OLD_LINUX", "SOLARIS", "WINDOWS",
             "VISTA", "WINDOWS2K3"}
Flags == {"MIDSTREAM", "MIDSTREAM_SYNACK", "MIDSTREAM_ESTABLISHED", "TIMESTAMP",
          "ASYNC", "4WHS"}
NoTs == -1
Data == {"A", "PA"}
Fins == {"F", "FA", "FPA"}
Resets == {"R", "RA"}

(* A packet p as its handler sees it: its direction p.to in the flow, the  *)
(* flags fl, seq, ack, len and win, the time stamps ts and ecr, and os, the *)
(* policy SCHInfoGetIPv4HostOSFlavour gives for its destination.           *)
From(p) == IF p.to = "server" THEN "client" ELSE "server"
To(p) == p.to

NoStream == [isn |-> 0, next_seq |-> 0, last_ack |-> 0, next_win |-> 0, window |-> 0,
             wscale |-> FALSE, os |-> "unset", last_ts |-> 0, ts |-> FALSE, zero |-> FALSE]
(* p->flow->protoctx is NULL.                                              *)
NoSession == [state |-> "NULL", flags |-> {}, client |-> NoStream, server |-> NoStream,
              hand |-> "none"]
Stream == [isn : 0 .. Mod - 1, next_seq : 0 .. Mod - 1, last_ack : 0 .. Mod - 1,
           next_win : 0 .. Mod - 1, window : 0 .. Half - 1, wscale : BOOLEAN,
           os : Policies \cup {"unset"}, last_ts : Nat, ts : BOOLEAN, zero : BOOLEAN]
Session == [state : States \cup {"NULL"}, flags : SUBSET Flags, client : Stream,
            server : Stream, hand : Streams \cup {"none"}]

(* TCP_WSCALE_MAX shifts a window by 14: a quarter of the space at most.   *)
Scaled(x, win) == IF x.wscale /\ win > 0 THEN Mod \div 4 ELSE win
(* The session as TCP_SYN_RECV and TCP_ESTABLISHED enter it from nothing:  *)
(* both isn are taken from one packet.                                     *)
Base(isn) == [NoStream EXCEPT !.isn = isn, !.next_seq = Add(isn, 1)]
WithTs(x, t) == [x EXCEPT !.last_ts = t, !.zero = @ \/ t = 0]
(* StreamTcpReassembleHandleSegment is handed the packet for stream r.     *)
Hand(s, r) == [s EXCEPT !.hand = r]
(* StreamTcpPacketSetState; TCP_CLOSED always comes with                   *)
(* StreamTcpSessionPktFree, which returns the segments of both streams.    *)
Enter(s, state) == [s EXCEPT !.state = state]

---------------------------------------------------------------------------
(* Timestamps and resets.  Both answer with the session they leave, for    *)
(* they set policies and time stamps whatever they decide.                 *)

SetOSPolicy(s, r, p) == IF s[r].os = "unset" THEN [s EXCEPT ![r].os = p.os] ELSE s

(* A stream that began with time stamp 0: some hosts never compare them    *)
(* again, some take the next one as the first.                             *)
ZeroTs(s, p, os) ==
    LET me == From(p) IN
    IF ~s[me].zero THEN s
    ELSE CASE os \in {"LINUX", "WINDOWS2K3"} -> [s EXCEPT !.flags = @ \ {"TIMESTAMP"}]
           [] os \in {"OLD_LINUX", "WINDOWS", "VISTA"} -> [s EXCEPT ![me].zero = FALSE]
           [] OTHER -> s

(* check_ts is set: the packet's time stamp has to be compared.            *)
ChecksTs(s, p, os) ==
    LET next == s[From(p)].next_seq = p.seq IN
    /\ s[From(p)].zero => /\ os \notin {"LINUX", "WINDOWS2K3"}
                          /\ os \in {"OLD_LINUX", "WINDOWS", "VISTA"} => ~next
    /\ os = "HPUX11" => next

TsInOrder(x, p, os) ==
    LET slack == IF os = "LINUX" THEN 1 ELSE 0 IN p.ts + slack >= x.last_ts

(* z is the session with ZeroTs done.                                      *)
TakeTs(z, p) == [z EXCEPT ![From(p)].last_ts = IF z[From(p)].next_seq = p.seq THEN p.ts ELSE @]
CompareTs(s, z, p, os) ==
    IF p.ts = NoTs
    THEN [valid |-> TRUE,
          s |-> IF os = "SOLARIS" THEN [s EXCEPT !.flags = @ \ {"TIMESTAMP"}] ELSE s]
    ELSE IF p.ts = 0 /\ os \notin {"OLD_LINUX", "WINDOWS", "WINDOWS2K3", "VISTA", "SOLARIS"}
    THEN [valid |-> FALSE, s |-> z]
    ELSE IF ~ChecksTs(s, p, os)
    THEN [valid |-> TRUE, s |-> IF s[From(p)].zero /\ ~z[From(p)].zero THEN TakeTs(z, p) ELSE z]
    ELSE IF TsInOrder(z[From(p)], p, os) THEN [valid |-> TRUE, s |-> TakeTs(z, p)]
    ELSE [valid |-> FALSE, s |-> z]

KnownOS(s, p, os) == CompareTs(s, ZeroTs(s, p, os), p, os)
ValidTimestamp(s, p) ==
    LET answer(known) == KnownOS(known, p, known[To(p)].os) IN answer(SetOSPolicy(s, To(p), p))

(* The guard of a handler's branch: the time stamp is only looked at once  *)
(* both sides have agreed on the option.                                   *)
CheckTs(s, p) == IF "TIMESTAMP" \in s.flags THEN ValidTimestamp(s, p)
                                            ELSE [valid |-> TRUE, s |-> s]

(* StreamTcpSetOSPolicy is given the server's stream in both directions.   *)
ResetPolicy(s, p) ==
    IF s[To(p)].os = "unset" THEN SetOSPolicy([s EXCEPT !.server.os = "unset"], "server", p)
                             ELSE s

ResetInWindow(s, p) ==
    LET x == s[From(p)] IN
    CASE s[To(p)].os = "HPUX11" -> SEQ_GEQ(p.seq, x.next_seq)
      [] s[To(p)].os \in {"OLD_LINUX", "LINUX", "SOLARIS"} ->
           /\ SEQ_GEQ(Add(p.seq, p.len), x.last_ack)
           /\ SEQ_LT(p.seq, Add(x.next_seq, x.window))
      [] OTHER -> p.seq = x.next_seq

(* t is what CheckTs says of the packet.  A time stamp that does not fit   *)
(* makes ValidReset answer -1, and every caller takes that for true.       *)
ValidReset(t, p) ==
    LET judged(s) == [valid |-> ResetInWindow(s, p), s |-> s] IN
    IF t.valid THEN judged(ResetPolicy(t.s, p)) ELSE [valid |-> TRUE, s |-> t.s]

ResetCloses(t, p) ==
    LET closes(r) == IF r.valid THEN Enter(r.s, "CLOSED") ELSE r.s IN closes(ValidReset(t, p))

---------------------------------------------------------------------------
(* The opening of a connection                                             *)

(* The packet of stream r is taken for one of a connection whose beginning *)
(* was missed.                                                             *)
MidstreamTs(s, p, r) ==
    LET other == CHOOSE x \in Streams : x # r IN
    IF p.ts = NoTs THEN s
    ELSE [s EXCEPT !.flags = @ \cup {"TIMESTAMP"}, ![r] = WithTs(@, p.ts),
                   ![other] = WithTs(@, p.ecr)]

StateNone(p) ==
    CASE p.fl = "S" ->
           [NoSession EXCEPT !.state = "SYN_SENT",
               !.client = IF p.ts = NoTs THEN Base(p.seq)
                          ELSE [WithTs(Base(p.seq), p.ts) EXCEPT !.ts = TRUE],
               !.server.window = p.win]
      [] p.fl = "SA" /\ (Midstream \/ Async) ->
           MidstreamTs([NoSession EXCEPT !.state = "SYN_RECV",
               !.flags = {"MIDSTREAM", "MIDSTREAM_SYNACK"},
               !.server = [Base(p.seq) EXCEPT !.window = p.win],
               !.client = [Base(Add(p.ack, -1)) EXCEPT !.last_ack = p.ack]], p, "server")
      [] p.fl \in Data /\ Midstream ->
           Hand(MidstreamTs([NoSession EXCEPT !.state = "ESTABLISHED",
               !.flags = {"MIDSTREAM", "MIDSTREAM_ESTABLISHED"},
               !.client = [Base(Add(p.seq, -1)) EXCEPT
                   !.next_seq = Add(p.seq, p.len), !.window = p.win, !.last_ack = p.seq,
                   !.next_win = Add(p.seq, p.win), !.wscale = TRUE],
               !.server = [Base(Add(p.ack, -1)) EXCEPT
                   !.last_ack = p.ack, !.next_win = p.ack, !.wscale = TRUE]],
               p, "client"), "client")
      [] OTHER -> NoSession

(* The SYN/ACK tells whether both sides use time stamps; x is the stream   *)
(* that offered them first.                                                *)
AgreeTs(s, p, x, y) ==
    IF p.ts # NoTs /\ s[x].ts
    THEN [s EXCEPT !.flags = @ \cup {"TIMESTAMP"}, ![x].ts = FALSE, ![y] = WithTs(@, p.ts)]
    ELSE [s EXCEPT ![x].last_ts = 0, ![y].last_ts = 0, ![x].ts = FALSE, ![x].zero = FALSE]

NextWins(s) ==
    [s EXCEPT !.client.next_win = Add(s.client.last_ack, s.client.window),
              !.server.next_win = Add(s.server.last_ack, s.server.window)]

(* Four packets open the connection: SYN, SYN, SYN/ACK, ACK.               *)
FourWaySyn(s, p) ==
    [s EXCEPT !.flags = @ \cup {"4WHS"},
              !.server = [(IF p.ts = NoTs THEN @ ELSE [WithTs(@, p.ts) EXCEPT !.ts = TRUE])
                          EXCEPT !.isn = p.seq, !.next_seq = Add(p.seq, 1), !.window = p.win]]

FourWaySynAck(s, p) ==
    LET agreed == AgreeTs([Enter(s, "SYN_RECV") EXCEPT
                              !.client.isn = p.seq, !.client.next_seq = Add(p.seq, 1),
                              !.server.window = p.win], p, "server", "client")
    IN  IF p.ack # Add(s.server.isn, 1) \/ p.seq # s.client.isn THEN s
        ELSE NextWins([agreed EXCEPT
                          !.server.last_ack = p.ack, !.client.last_ack = Add(p.seq, 1),
                          !.server.wscale = FALSE])

SynAck(s, p) ==
    LET agreed == AgreeTs([Enter(s, "SYN_RECV") EXCEPT
                              !.server.isn = p.seq, !.server.next_seq = Add(p.seq, 1),
                              !.client.window = p.win], p, "client", "server")
    IN  IF p.to = "server" \/ p.ack # Add(s.client.isn, 1) THEN s
        ELSE NextWins([agreed EXCEPT
                          !.client.last_ack = p.ack, !.server.last_ack = Add(p.seq, 1),
                          !.client.wscale = FALSE, !.flags = @ \ {"4WHS"}])

(* Only one side of the connection is seen: its ACK opens the session.     *)
AsyncAck(s, p) ==
    IF p.seq # s.client.next_seq THEN s
    ELSE [Enter(s, "ESTABLISHED") EXCEPT
             !.flags = @ \cup {"ASYNC"} \cup
                       (IF p.ts # NoTs /\ s.client.ts THEN {"TIMESTAMP"} ELSE {}),
             !.client = [(IF p.ts # NoTs /\ @.ts THEN @
                                                 ELSE [@ EXCEPT !.last_ts = 0, !.zero = FALSE])
                         EXCEPT !.window = p.win, !.last_ack = p.seq, !.ts = FALSE,
                                !.next_win = Add(p.seq, p.win), !.wscale = TRUE],
             !.server = [s.server EXCEPT
                         !.isn = Add(p.ack, -1), !.next_seq = p.ack, !.last_ack = p.ack,
                         !.next_win = p.ack, !.wscale = TRUE]]

SynSentReset(s, p, t) ==
    IF p.seq = s.client.isn /\ p.win = 0 /\ p.ack = Add(s.client.isn, 1)
    THEN ResetCloses(t, p) ELSE ValidReset(t, p).s

StateSynSent(s, p, t) ==
    CASE p.fl = "S" /\ p.to = "client" -> FourWaySyn(s, p)
      [] p.fl = "SA" -> IF "4WHS" \in s.flags /\ p.to = "server"
                        THEN FourWaySynAck(s, p) ELSE SynAck(s, p)
      [] p.fl \in Data /\ Async -> AsyncAck(s, p)
      [] p.fl \in Resets -> SynSentReset(s, p, t)
      [] OTHER -> s

(* The ACK that ends the opening.  Its acknowledgement number is not       *)
(* compared with anything.                                                 *)
FourWayAck(s, p) ==
    IF p.seq # s.server.next_seq THEN s
    ELSE LET win == Scaled(s.client, p.win) IN
         Hand([Enter(s, "ESTABLISHED") EXCEPT
                  !.client.last_ack = p.ack, !.server.next_seq = Add(@, p.len),
                  !.client.window = win, !.client.next_win = Add(p.ack, win)], "server")

OpeningAck(s, p) ==
    LET win == Scaled(s.server, p.win)
        mid == "MIDSTREAM" \in s.flags
    IN  Hand([Enter(s, "ESTABLISHED") EXCEPT
                 !.server.last_ack = p.ack, !.client.next_seq = Add(@, p.len),
                 !.server.window = win, !.server.next_win = Add(p.ack, win),
                 !.client.window = IF mid THEN p.win ELSE @,
                 !.server.wscale = @ \/ mid, !.client.wscale = @ \/ mid], "client")

OpeningAckAsync(s, p) ==
    LET mid == "MIDSTREAM" \in s.flags IN
    Hand([Enter(s, "ESTABLISHED") EXCEPT
             !.flags = @ \cup {"ASYNC"},
             !.server.next_seq = Add(@, p.len), !.server.last_ack = p.seq,
             !.client.window = Scaled(s.client, p.win), !.client.last_ack = p.ack,
             !.server.window = IF mid THEN p.win ELSE @,
             !.client.next_win = IF mid THEN Add(p.seq, p.win) ELSE @,
             !.server.wscale = @ \/ mid, !.client.wscale = @ \/ mid], "server")

SynRecvAck(s, p) ==
    IF "4WHS" \in s.flags /\ p.to = "client" THEN FourWayAck(s, p)
    ELSE IF p.to = "client" /\ "MIDSTREAM_SYNACK" \notin s.flags THEN s
    ELSE IF p.seq = s.client.next_seq THEN OpeningAck(s, p)
    ELSE IF Async /\ p.seq = s.server.next_seq THEN OpeningAckAsync(s, p)
    ELSE s

---------------------------------------------------------------------------
(* An open connection                                                      *)

(* What a packet says about the other stream: its window and how much of   *)
(* it has arrived.                                                         *)
AckPeer(s, p) ==
    [s EXCEPT ![To(p)].window = Scaled(s[To(p)], p.win),
              ![To(p)].last_ack = Newer(@, p.ack)]

(* A data packet to the server may begin before last_ack if only one side  *)
(* of the connection is seen.                                              *)
TurnsAsync(s, p) ==
    /\ Async /\ "MIDSTREAM" \in s.flags
    /\ s.client.next_seq = p.seq \/ s.client.last_ack = Add(s.client.isn, 1)
OldData(s, p) ==
    IF SEQ_GEQ(p.seq, s[From(p)].last_ack) THEN [valid |-> TRUE, s |-> s]
    ELSE IF "ASYNC" \in s.flags \/ (p.to = "server" /\ TurnsAsync(s, p))
    THEN [valid |-> TRUE, s |-> [s EXCEPT ![From(p)].last_ack = p.seq,
                                          !.flags = @ \cup {"ASYNC"}]]
    ELSE [valid |-> FALSE, s |-> s]

(* The first packet to the client of a session picked up midstream.        *)
FirstToClient(s, p) ==
    IF p.to = "client" /\ {"MIDSTREAM", "MIDSTREAM_ESTABLISHED"} \subseteq s.flags
    THEN [s EXCEPT !.server.window = p.win,
                   !.server.next_win = Add(s.server.last_ack, p.win),
                   !.flags = @ \ {"MIDSTREAM_ESTABLISHED"}]
    ELSE s

(* Mutant: a repeated segment counts again.                                *)
CountsAgain(s, p, r, n) == [s EXCEPT ![r].next_seq = Add(@, n)]

InOrder(s, p, r, n) ==
    [s EXCEPT ![r].next_seq = IF @ = p.seq THEN Add(p.seq, n) ELSE @]

(* s is the session with next_seq moved on: what the packet acknowledges   *)
(* counts if its data is within the window.                                *)
Advance(s, p) ==
    LET right == Add(s[To(p)].last_ack, s[To(p)].window)
    IN  Hand([s EXCEPT ![To(p)].next_win = Newer(@, right)], From(p))
DataInWindow(s, p) ==
    \/ SEQ_LEQ(Add(p.seq, p.len), s[From(p)].next_win)
    \/ s.flags \cap {"MIDSTREAM", "ASYNC"} # {}
TakeData(s, p) == IF DataInWindow(s, p) THEN Advance(AckPeer(s, p), p) ELSE s
EstablishedData(s, p) ==
    LET taken(o) == IF o.valid THEN TakeData(InOrder(o.s, p, From(p), p.len), p) ELSE o.s
    IN  taken(OldData(FirstToClient(s, p), p))

(* The reset of an open connection leaves the next sequence number of each *)
(* stream in the other one when it goes to the server.                     *)
EstablishedReset(t, p) ==
    LET closed(s) ==
            Hand([Enter(s, "CLOSED") EXCEPT
                     !.client.next_seq = p.ack, !.server.next_seq = Add(p.seq, p.len + 1),
                     ![From(p)].window = Scaled(s[From(p)], p.win),
                     ![To(p)].last_ack = Newer(@, p.ack)], From(p))
        answer(r) == IF r.valid THEN closed(r.s) ELSE r.s
    IN  answer(ValidReset(t, p))

---------------------------------------------------------------------------

(* Mutant: the ends of the window are compared as unsigned numbers.        *)
InWindowPlain(s, p) ==
    LET x == s[From(p)] IN p.seq >= x.next_seq /\ p.seq <= Add(x.last_ack, x.window)

(* The end of a connection                                                 *)
InWindow(s, p) ==
    LET x == s[From(p)] IN
    /\ ~SEQ_LT(p.seq, x.next_seq)
    /\ ~SEQ_GT(p.seq, Add(x.last_ack, x.window))

HandleFin(s, p) ==
    LET moved == Enter(s, IF p.to = "server" THEN "CLOSE_WAIT" ELSE "FIN_WAIT1")
        peer(x) == [x EXCEPT ![To(p)].next_seq = p.ack]
    IN  IF ~InWindow(s, p) THEN s
        ELSE Hand(AckPeer(peer(InOrder(moved, p, From(p), p.len + 1)), p), From(p))

(* The step a handler takes for a packet it accepts: to the given state,   *)
(* with what the packet acknowledges, and its payload to reassembly.       *)
Step(s, p, state) == Hand(AckPeer(Enter(s, state), p), From(p))
StepTo(s, p, accepts, state) == IF accepts THEN Step(s, p, state) ELSE s
IsNext(s, p) == p.seq = s[From(p)].next_seq

(* The handlers of the states: s is the session, t what CheckTs says of    *)
(* the packet, for the branches that ask it.                               *)
StateSynRecv(s, p, t) ==
    CASE p.fl \in Data -> IF t.valid THEN SynRecvAck(t.s, p) ELSE t.s
      [] p.fl \in Resets -> ResetCloses(t, p)
      [] p.fl = "F" -> IF t.valid THEN HandleFin(t.s, p) ELSE t.s
      [] OTHER -> s

StateEstablished(s, p, t) ==
    CASE p.fl \in Data -> IF t.valid THEN EstablishedData(t.s, p) ELSE t.s
      [] p.fl \in Fins -> IF t.valid THEN HandleFin(t.s, p) ELSE t.s
      [] p.fl \in Resets -> EstablishedReset(t, p)
      [] OTHER -> s

FinWait1Step(s, p, accepts, state) ==
    InOrder(StepTo(s, p, accepts, state), p, From(p), IF accepts THEN p.len ELSE 0)
StateFinWait1(s, p, t) ==
    CASE p.fl = "A" -> IF t.valid THEN FinWait1Step(t.s, p, IsNext(t.s, p), "FIN_WAIT2") ELSE t.s
      [] p.fl \in Fins ->
           IF t.valid THEN FinWait1Step(t.s, p, InWindow(t.s, p), "TIME_WAIT") ELSE t.s
      [] p.fl \in Resets -> ResetCloses(t, p)
      [] OTHER -> s

(* The sequence number of a FIN to the server is compared with the result  *)
(* of the window test, 0 or 1.                                             *)
FinInWindow(s, p) ==
    LET x == s.client
        test == x.next_seq # 0 \/ SEQ_GT(p.seq, Add(x.last_ack, x.window))
    IN  IF p.to = "client" THEN InWindow(s, p)
        ELSE ~SEQ_LT(p.seq, IF test THEN 1 ELSE 0)

StateFinWait2(s, p, t) ==
    CASE p.fl = "A" ->
           IF t.valid /\ IsNext(t.s, p)
           THEN InOrder(Step(t.s, p, "TIME_WAIT"), p, From(p), p.len) ELSE t.s
      [] p.fl = "F" -> StepTo(t.s, p, t.valid /\ FinInWindow(t.s, p), "TIME_WAIT")
      [] p.fl \in Resets -> ResetCloses(t, p)
      [] OTHER -> s

StateCloseWait(s, p, t) ==
    CASE p.fl \in {"F", "FA"} ->
           StepTo(t.s, p, t.valid /\ InWindow(t.s, p), "LAST_ACK")
      [] p.fl = "A" -> StepTo(t.s, p, t.valid /\ InWindow(t.s, p), "CLOSE_WAIT")
      [] OTHER -> s

StateLastAck(s, p, t) ==
    IF p.fl = "A"
    THEN StepTo(t.s, p, t.valid /\ p.to = "server" /\ IsNext(t.s, p), "CLOSED")
    ELSE s

StateTimeWait(s, p, t) ==
    IF p.fl = "A" THEN StepTo(t.s, p, t.valid /\ IsNext(t.s, p), "CLOSED") ELSE s

---------------------------------------------------------------------------
(* The handler of a packet                                                 *)

(* A session that began with a SYN/ACK has the directions of its flow the  *)
(* wrong way round.                                                        *)
SwitchDir(s, p) ==
    IF "MIDSTREAM_SYNACK" \in s.flags THEN [p EXCEPT !.to = From(p)] ELSE p

StateOf(s, p, t) ==
    CASE s.state = "SYN_SENT" -> StateSynSent(s, p, t)
      [] s.state = "SYN_RECV" -> StateSynRecv(s, p, t)
      [] s.state = "ESTABLISHED" -> StateEstablished(s, p, t)
      [] s.state = "FIN_WAIT1" -> StateFinWait1(s, p, t)
      [] s.state = "FIN_WAIT2" -> StateFinWait2(s, p, t)
      [] s.state = "CLOSE_WAIT" -> StateCloseWait(s, p, t)
      [] s.state = "LAST_ACK" -> StateLastAck(s, p, t)
      [] s.state = "TIME_WAIT" -> StateTimeWait(s, p, t)
      [] s.state = "CLOSED" -> s
StreamTcpPacket(ssn, p0) ==
    LET handled(s, p) == StateOf(s, p, CheckTs(s, p)) IN
    IF ssn.state = "NULL" THEN StateNone(p0)
                          ELSE handled([ssn EXCEPT !.hand = "none"], SwitchDir(ssn, p0))

StreamTcpGetFlowState(s) ==
    CASE s.state \in {"SYN_SENT", "SYN_RECV"} -> "NEW"
      [] s.state = "ESTABLISHED" -> "ESTABLISHED"
      [] OTHER -> "CLOSED"
===============================================================================
