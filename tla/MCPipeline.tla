----------------------------- MODULE MCPipeline -----------------------------
(***************************************************************************)
(* The threads of the engine side by side with the packets they hand on:   *)
(* part says which of the two a behaviour is about, the other stays in its *)
(* first state.                                                            *)
(***************************************************************************)
EXTENDS PacketPool, Threads, TLC

CONSTANT Parts   \* what this run is about
VARIABLE part

\* Only the count of flow references needs packets with and without a flow.
ASSUME
  /\ PacketPoolAssumption /\ ThreadsAssumption
  /\ FlowChoice = IF "packetflow" \in Parts THEN BOOLEAN ELSE {FALSE}

\* Two threads read one queue and give the packets back.
TwoReaders == <<"Receive", "d1", "d2", "Wake1">>
TwoReadersIn == [t \in {"d1", "d2"} |-> "decode"]
TwoReadersOut == ("Receive" :> "decode") @@ ("d1" :> "POOL") @@ ("d2" :> "POOL")

\* A thread behind the one that fails.
InARow == <<"Receive", "d1", "Outputs", "Wake1">>
InARowIn == ("d1" :> "decode") @@ ("Outputs" :> "alert")
InARowOut == ("Receive" :> "decode") @@ ("d1" :> "alert") @@ ("Outputs" :> "POOL")

---------------------------------------------------------------------------
\* The types of both; the other part is in its first state.
PipelineTypeOK ==
    /\ TypeOK
    /\ part = "threads" => ThreadsTypeOK

PipelineInit == part \in Parts /\ Init /\ ThreadsInit

InPoolPart(A) == part \in {"packetpool", "packetflow"} /\ A /\ UNCHANGED <<part, threadsVars>>
InThreads(A) == part = "threads" /\ A /\ UNCHANGED <<part, vars>>
PipelineNext == InPoolPart(Next) \/ InThreads(ThreadsNext)
all == <<part, vars, threadsVars>>
PipelineSpec == PipelineInit /\ [][PipelineNext]_all

\* The fairness of PacketPool and of Threads, each in the behaviours of its part.
FairPipelineSpec ==
    /\ PipelineSpec
    /\ WF_all(InPoolPart(DecodeStep))
    /\ WF_all(InPoolPart(\E d \in Detector : DetectIn(d)))
    /\ \A d \in Detector : WF_all(InPoolPart(DetectOut(d)))
    /\ WF_all(InPoolPart(\E v \in Verdicter : VerdictIn(v)))
    /\ \A v \in Verdicter : WF_all(InPoolPart(SetVerdict(v) \/ CountReady(v)))
    /\ WF_all(InPoolPart(\E o \in Outputter : OutputIn(o)))
    /\ \A o \in Outputter : WF_all(InPoolPart(OutputRoot(o) \/ OutputSelf(o)))
    /\ \A t \in Thread : WF_all(InThreads(ThreadStep(t)))
    /\ WF_all(InThreads(MainStep))
=============================================================================
