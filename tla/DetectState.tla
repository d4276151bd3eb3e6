------------------------------ MODULE DetectState ------------------------------
(***************************************************************************)
(* Stateful detection on an HTTP flow: app-layer-parser.c and app-layer-   *)
(* htp.c count its transactions and free them once they are inspected and  *)
(* logged; detect-engine-state.c keeps on the flow what each rule has      *)
(* matched so far of the transaction under inspection, and detection       *)
(* threads start, continue and reset it packet by packet.  Two locks: f->m *)
(* for the transactions, taken for one look at a time, and de_state_m,     *)
(* held while a thread continues.  The rules are of packets to the server; *)
(* each wants a URI or not, and a list of http_method keywords.            *)
(***************************************************************************)
EXTENDS Integers, Sequences, FiniteSets, SequencesExt

CONSTANTS DsConfs   \* scenarios: rules, threads, what the client sends and how

(* A rule is stateful because it has a keyword that needs the state; the   *)
(* threads are those of the run mode, the rest bounds what happens.        *)
DetectAssumption ==
    \A c \in DsConfs :
        /\ DOMAIN c.rules = 1 .. Len(c.rules) /\ Len(c.rules) \in Nat
        /\ \A r \in DOMAIN c.rules :
             /\ c.rules[r].uri \in BOOLEAN
             /\ DOMAIN c.rules[r].parts = 1 .. Len(c.rules[r].parts) /\ Len(c.rules[r].parts) \in Nat
             /\ c.rules[r].uri \/ c.rules[r].parts # <<>>
        /\ IsFiniteSet(c.threads) /\ c.threads # {}
        /\ c.requests \in Nat /\ c.packets \in Nat
        /\ {c.split, c.close, c.logger} \subseteq BOOLEAN

VARIABLES
    ds,        \* the scenario
    http,      \* HtpState: transactions, their count, HTP_FLAG_NEW_REQUEST,
               \*   transaction_done, and the answers seen
    ids,       \* AppLayerParserStateStore: the transaction ids and id_flags
    de_state,  \* the items of f->de_state, in the order of their chunks
    det,       \* per detection thread: its packet and where it is
    packets,   \* bound: packets that came so far
    logbook,   \* the lines LogHttpLog wrote
    alerts     \* the alerts of stateful rules, in order
detectVars == <<ds, http, ids, de_state, det, packets, logbook, alerts>>

Directions == {"toserver", "toclient"}
Idle == [at |-> "idle", dir |-> "toserver", start |-> FALSE, i |-> 0, uri |-> FALSE, nm |-> 1,
         lo |-> 0, sigs |-> [r \in DOMAIN ds.rules |-> "full"]]

Rule(r) == ds.rules[r]
Done(r) == Len(Rule(r).parts) + 1   \* nm of an item whose list has no more SigMatch
Threads == DOMAIN det
InOrder(S) == CHOOSE s \in [1 .. Cardinality(S) -> S] : \A i, j \in DOMAIN s : i < j => s[i] < s[j]
Txs == {k \in DOMAIN http.txs : ~http.txs[k].gone}   \* what list_get finds, from 1

---------------------------------------------------------------------------
(* The transactions                                                        *)

AllOfThem(h, d) ==                                              \* mutant
    /\ http' = IF d.inspect > d.base THEN [h EXCEPT !.done = d.inspect - 1] ELSE h
    /\ ids' = [d EXCEPT !.base = d.inspect]

(* AppLayerTransactionsCleanup: HTPStateTransactionFree of each obsolete   *)
(* transaction notes its id.                                               *)
Cleanup(h, d) ==
    LET low == IF ds.logger /\ d.logged < d.inspect THEN d.logged ELSE d.inspect
    IN  /\ http' = IF low > d.base THEN [h EXCEPT !.done = low - 1] ELSE h
        /\ ids' = [d EXCEPT !.base = low]

(* The end of AppLayerParse: avail_id follows transaction_cnt.             *)
Parsed(h) ==
    /\ Cleanup(h, [ids EXCEPT !.avail = IF h.cnt + 1 > @ THEN h.cnt + 1 ELSE @])
    /\ UNCHANGED <<ds, de_state, det, packets, logbook, alerts>>

(* HTPHandleRequestData: after a request that is complete, the next one.   *)
NextCount(h) == IF h.new THEN h.cnt + 1 ELSE h.cnt
Complete(h) == \A k \in DOMAIN h.txs : h.txs[k].whole

(* A request, or its beginning: nothing of it is known yet.                *)
Request ==
    /\ ~ids.eof /\ Complete(http) /\ Len(http.txs) < ds.requests
    /\ \E has \in ds.sends, whole \in {TRUE} \cup {~ds.split} :
         Parsed([http EXCEPT !.txs = Append(@, [has |-> IF whole THEN has ELSE {},
                                                whole |-> whole, gone |-> FALSE]),
                             !.cnt = NextCount(http), !.new = whole])

(* The rest of a request; HTPCallbackRequest.                              *)
RequestRest ==
    /\ ~ids.eof /\ ~Complete(http)
    /\ \E has \in ds.sends :
         Parsed([http EXCEPT !.txs[Len(http.txs)] = [has |-> has, whole |-> TRUE, gone |-> @.gone],
                             !.new = TRUE])

(* HTPCallbackResponse destroys the transactions before transaction_done.  *)
Response ==
    /\ ds.close
    /\ http.answers < Cardinality({k \in DOMAIN http.txs : http.txs[k].whole})
    /\ Parsed([http EXCEPT !.answers = @ + 1,
                           !.txs = [k \in DOMAIN @ |-> IF k <= http.done
                                                       THEN [@[k] EXCEPT !.gone = TRUE] ELSE @[k]]])

(* An empty message at the end of the stream, its transactions cleaned up. *)
Eof ==
    /\ ds.close /\ ~ids.eof /\ http.txs # <<>>
    /\ Cleanup(http, [ids EXCEPT !.eof = TRUE])
    /\ UNCHANGED <<ds, de_state, det, packets, logbook, alerts>>

(* LogHttpLogIPv4: from the logged to the loggable transaction; those that *)
(* are gone are skipped, and not counted.                                  *)
Loggable == IF ids.eof THEN ids.avail ELSE ids.avail - 1
LogHttpLog ==
    /\ ds.logger /\ ids.logged < Loggable
    /\ LET lines == InOrder((ids.logged + 1 .. Loggable) \cap Txs)
       IN  /\ logbook' = logbook \o lines
           /\ ids' = [ids EXCEPT !.logged = @ + Len(lines)]
    /\ UNCHANGED <<ds, http, de_state, det, packets, alerts>>

---------------------------------------------------------------------------
(* Detection: SigMatchSignatures on one packet                             *)

(* de_state_m is held by the thread that continues.                        *)
Continues(w) == w.at \in {"uri", "parts", "store"} /\ ~w.start
Free == \A t \in Threads : ~Continues(det[t])

(* Thread t goes on with rule or item i of its list, or is through.        *)
Turn(t, w, i, last) ==
    det' = [det EXCEPT ![t] =
                IF i > last THEN [w EXCEPT !.at = "end"]
                ELSE [w EXCEPT !.at = "uri", !.i = i, !.uri = FALSE,
                               !.nm = IF w.start THEN 1 ELSE de_state[i].nm]]

RuleAt(w) == IF w.start THEN w.i ELSE de_state[w.i].rule

(* A packet of the flow, once there is an app layer state.                 *)
Packet(t) ==
    /\ det[t].at = "idle" /\ http.txs # <<>> /\ packets < ds.packets
    /\ \E dir \in Directions : det' = [det EXCEPT ![t] = [Idle EXCEPT !.at = "has", !.dir = dir]]
    /\ packets' = packets + 1
    /\ UNCHANGED <<ds, http, ids, de_state, logbook, alerts>>

(* DeStateFlowHasState; packets to the client meet no rule that starts.    *)
HasState(t) ==
    /\ det[t].at = "has" /\ Free
    /\ IF de_state # <<>> THEN det' = [det EXCEPT ![t].at = "continue"]
       ELSE Turn(t, [det[t] EXCEPT !.start = TRUE], 1,
                 IF det[t].dir = "toserver" THEN Len(ds.rules) ELSE 0)
    /\ UNCHANGED <<ds, http, ids, de_state, packets, logbook, alerts>>

(* DeStateDetectContinueDetection locks; another thread may have reset.    *)
Continue(t) ==
    /\ det[t].at = "continue" /\ Free
    /\ Turn(t, det[t], 1, Len(de_state))
    /\ UNCHANGED <<ds, http, ids, de_state, packets, logbook, alerts>>

(* Whether the URI is inspected: not again once it has matched.            *)
Inspects(w) ==
    /\ w.dir = "toserver" /\ Rule(RuleAt(w)).uri
    /\ w.start \/ ~de_state[w.i].uri

(* DetectEngineInspectPacketUris: the transactions from inspect_id on.     *)
InspectUri(t) ==
    /\ det[t].at = "uri"
    /\ det' = [det EXCEPT
         ![t].at = "parts", ![t].lo = ids.inspect,
         ![t].uri = Inspects(det[t]) /\ \E k \in Txs : k > ids.inspect /\ "uri" \in http.txs[k].has]
    /\ UNCHANGED <<ds, http, ids, de_state, packets, logbook, alerts>>

(* DetectHttpMethodMatch: any transaction has the next method of the list. *)
MatchPart(t) ==
    LET w == det[t]
        parts == Rule(RuleAt(w)).parts
    IN  /\ w.at = "parts"
        /\ det' = [det EXCEPT ![t] =
                      IF /\ w.nm <= Len(parts)
                         /\ \E k \in Txs : parts[w.nm] \in http.txs[k].has
                      THEN [w EXCEPT !.nm = @ + 1] ELSE [w EXCEPT !.at = "store"]]
        /\ UNCHANGED <<ds, http, ids, de_state, packets, logbook, alerts>>

Alert(r, w) == [rule |-> r, lo |-> w.lo, upto |-> Len(http.txs)]

(* The end of DeStateDetectStartDetection: the rule alerts if everything   *)
(* matched, the state is stored anyway.                                    *)
StoreStart(t) ==
    LET w == det[t]
        r == w.i
        all == w.nm = Done(r) /\ (Inspects(w) => w.uri) /\ (Rule(r).parts = <<>> => w.uri)
    IN  /\ w.at = "store" /\ w.start /\ Free
        /\ de_state' = Append(de_state, [rule |-> r, uri |-> w.uri, nm |-> w.nm])
        /\ alerts' = IF all THEN Append(alerts, Alert(r, w)) ELSE alerts
        /\ Turn(t, w, r + 1, Len(ds.rules))
        /\ UNCHANGED <<ds, http, ids, packets, logbook>>

ListOnly(w, was) ==                                             \* mutant
    IF de_state[w.i].nm = Done(RuleAt(w)) /\ ~Inspects(w) THEN was
    ELSE IF w.nm = Done(RuleAt(w)) THEN "new" ELSE "partial"

(* What de_state_sig_array says of the rule of an item, from what it was.  *)
Result(w, was) ==
    LET listed == de_state[w.i].nm # Done(RuleAt(w))   \* there was a list to go on with
        matched == w.nm = Done(RuleAt(w)) /\ (Inspects(w) => w.uri)
    IN  IF ~listed /\ ~Inspects(w) THEN was ELSE IF matched THEN "new" ELSE "partial"

StoreContinue(t) ==
    LET w == det[t]
        result == Result(w, w.sigs[RuleAt(w)])
    IN  /\ w.at = "store" /\ ~w.start
        /\ de_state' = [de_state EXCEPT ![w.i].uri = @ \/ w.uri, ![w.i].nm = w.nm]
        /\ Turn(t, [w EXCEPT !.sigs[RuleAt(w)] = result], w.i + 1, Len(de_state))
        /\ UNCHANGED <<ds, http, ids, packets, logbook, alerts>>

Passed(d) == [d EXCEPT !.inspect = @ + 1, !.flags = {}]

EitherWay(d, dir) ==                                            \* mutant
    IF d.inspect + 1 < d.avail THEN Passed(d) ELSE [d EXCEPT !.flags = @ \cup {dir}]

(* AppLayerTransactionUpdateInspectId: the transaction is passed when both *)
(* directions were inspected and there is another one.                     *)
UpdateInspectId(d, dir) ==
    IF d.inspect + 1 < d.avail /\ d.flags \cup {dir} = Directions
    THEN Passed(d) ELSE [d EXCEPT !.flags = @ \cup {dir}]

(* The rest of SigMatchSignatures: rules whose match is new alert, on a    *)
(* packet to the server; then the id is updated.                           *)
End(t) ==
    LET w == det[t]
        new == InOrder({r \in DOMAIN ds.rules : w.dir = "toserver" /\ w.sigs[r] = "new"})
    IN  /\ w.at = "end"
        /\ alerts' = alerts \o [n \in DOMAIN new |-> Alert(new[n], w)]
        /\ ids' = UpdateInspectId(ids, w.dir)
        /\ det' = [det EXCEPT ![t] = IF ids'.inspect > ids.inspect
                                       THEN [Idle EXCEPT !.at = "reset"] ELSE Idle]
        /\ UNCHANGED <<ds, http, de_state, packets, logbook>>

(* DetectEngineStateReset, for the next transaction.                       *)
Reset(t) ==
    /\ det[t].at = "reset" /\ Free
    /\ de_state' = <<>>
    /\ det' = [det EXCEPT ![t] = Idle]
    /\ UNCHANGED <<ds, http, ids, packets, logbook, alerts>>

---------------------------------------------------------------------------
DetectInit ==
    /\ ds \in DsConfs
    /\ http = [txs |-> <<>>, cnt |-> 0, new |-> FALSE, done |-> 0, answers |-> 0]
    /\ ids = [avail |-> 0, inspect |-> 0, logged |-> 0, base |-> 0, flags |-> {}, eof |-> FALSE]
    /\ de_state = <<>>
    /\ det = [t \in ds.threads |-> Idle]
    /\ packets = 0
    /\ logbook = <<>>
    /\ alerts = <<>>

Detect(t) ==
    \/ Packet(t) \/ HasState(t) \/ Continue(t) \/ InspectUri(t) \/ MatchPart(t)
    \/ StoreStart(t) \/ StoreContinue(t) \/ End(t) \/ Reset(t)
DetectNext ==
    \/ Request \/ RequestRest \/ Response \/ Eof \/ LogHttpLog
    \/ \E t \in Threads : Detect(t)
DetectSpec == DetectInit /\ [][DetectNext]_detectVars

---------------------------------------------------------------------------
(* The ids, the items and the threads keep their types.                    *)
DetectTypeOK ==
    /\ ids.avail \in 0 .. ds.requests /\ ids.flags \subseteq Directions
    /\ http.cnt \in 0 .. ds.requests /\ http.answers <= Len(http.txs)
    /\ \A n \in DOMAIN de_state :
         /\ de_state[n].rule \in DOMAIN ds.rules
         /\ de_state[n].nm \in 1 .. Done(de_state[n].rule)
    /\ \A t \in Threads : det[t].at \in {"idle", "has", "continue", "uri", "parts", "store",
                                          "end", "reset"}

(* A transaction goes away only after it was inspected and logged, the log *)
(* has each transaction once and in order, and before the end of the       *)
(* stream only complete ones (AppLayerTransactionsCleanup, LogHttpLog).    *)
TransactionsKept ==
    /\ ids.base <= ids.inspect /\ (ds.logger => ids.base <= ids.logged)
    /\ ids.inspect <= ids.avail /\ ids.logged <= ids.avail
    /\ \A k \in DOMAIN http.txs : http.txs[k].gone => k <= ids.inspect /\ (ds.logger => k <= ids.logged)
    /\ logbook = [n \in 1 .. ids.logged |-> n]
    /\ \A n \in DOMAIN logbook : http.txs[n].whole \/ ids.eof

AlertsOf(r) == {n \in DOMAIN alerts : alerts[n].rule = r}

(* A rule alerts only when each of its parts is in some request; with one  *)
(* thread, its URI is in a request not yet passed when it alerts, and it   *)
(* alerts once for the transaction under inspection (the state items that  *)
(* DeStateDetectStartDetection stores and Continue completes).             *)
StatefulAlerts ==
    \A r \in DOMAIN ds.rules :
        /\ \A n \in AlertsOf(r) :
             /\ \A part \in Range(Rule(r).parts) : \E k \in DOMAIN http.txs : part \in http.txs[k].has
             /\ Rule(r).uri =>
                  \E k \in DOMAIN http.txs :
                     /\ "uri" \in http.txs[k].has /\ k <= alerts[n].upto
                     /\ Cardinality(Threads) = 1 => k > alerts[n].lo
        /\ Cardinality(Threads) = 1 =>
             \A n, o \in AlertsOf(r) : alerts[n].lo = alerts[o].lo => n = o

Fits(r, k) ==
    /\ Rule(r).uri => "uri" \in http.txs[k].has
    /\ Range(Rule(r).parts) \subseteq http.txs[k].has

(* Where requests come whole and one thread detects, however far ahead the *)
(* parser is, no request is passed without an alert of every rule it fits, *)
(* given while it was among the transactions to inspect                    *)
(* (AppLayerTransactionUpdateInspectId against the state that is continued *)
(* or reset).                                                              *)
RequestsJudged ==
    Cardinality(Threads) = 1 /\ ~ds.split =>
        \A k \in 1 .. ids.inspect, r \in DOMAIN ds.rules :
            Fits(r, k) => \E n \in AlertsOf(r) : alerts[n].lo < k /\ k <= alerts[n].upto
===============================================================================
