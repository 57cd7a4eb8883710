----------------------------- MODULE MCJournalLaw -----------------------------
(* Two instances of the journal law: one candidate whose three stages may  *)
(* be open at once, and one candidate with participant tools, provider     *)
(* requests and incarnations.                                              *)
EXTENDS JournalLaw

CONSTANTS c1, alice, bob, q1, q2, r1, k1, p1, p2

MCStages == 1..3

MCOneStage == {1}

(* A plain stage, and behind it a hard gate and a measurement producer.    *)
MCFork ==
  [depends_on |-> [s \in Stages |-> IF s = 1 THEN {} ELSE {1}],
   hard_gates |-> {2}, producers |-> {3}]

MCGate ==
  [depends_on |-> [s \in Stages |-> {}], hard_gates |-> {1}, producers |-> {}]
=============================================================================
