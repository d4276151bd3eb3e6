---------------------------- MODULE MCFlowEngine ----------------------------
(* Finite instances of FlowEngine for TLC. *)
EXTENDS FlowEngine, TLC

CONSTANTS k1, k2, k3, b1, b2

\* Two connections in one bucket, or in two.
OneBucket == [k \in Key |-> b1]
TwoBuckets == (k1 :> b1) @@ (k2 :> b2)

\* Three connections, two of them in one bucket.
ThreeKeys == (k1 :> b1) @@ (k2 :> b2) @@ (k3 :> b1)

OneProto == [k \in Key |-> 1]
NoneStateful == {}
AllStateful == {1}

\* Timeouts: shorter in an emergency, none for closed flows.
Timeouts == (FALSE :> [new |-> 1, est |-> 2, close |-> 0])
            @@ (TRUE :> [new |-> 0, est |-> 1, close |-> 0])

\* Every flow idle for a second has timed out.
ShortTimeouts == [e \in BOOLEAN |-> [s \in State |-> 0]]

FlowKeySymmetry == Permutations(Flow) \cup Permutations({k1, k3})   \* with ThreeKeys only
FlowWorkerSymmetry == Permutations(Flow) \cup Permutations(Worker)
=============================================================================
