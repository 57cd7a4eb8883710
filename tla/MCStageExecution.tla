--------------------------- MODULE MCStageExecution ---------------------------
(* Instances of StageExecution: two independent hard gates, and the same   *)
(* with a measurement producer above both.                                 *)
EXTENDS StageExecution, TLC

CONSTANTS c1, c2, alice, k1

MCTwoStages == 1..2
MCThreeStages == 1..3

MCPair == [depends_on |-> (1 :> {}) @@ (2 :> {}), hard_gates |-> {1, 2}, producers |-> {}]

MCJoin == [depends_on |-> (1 :> {}) @@ (2 :> {}) @@ (3 :> {1, 2}),
           hard_gates |-> {1, 2}, producers |-> {3}]
=============================================================================
