------------------------- MODULE EvaluationWalkProofs -------------------------
(***************************************************************************)
(* Proofs about the traversal of one candidate, for every task.            *)
(***************************************************************************)
EXTENDS EvaluationWalk, PromotionProofs

(* The state and the variables that a stage execution reads.               *)
LEMMA ExecutedStageWasReady ==
  ASSUME TypeOK, NEW s \in Stages, NEW o \in StageOutcomes, ExecuteStage(s, o)
  PROVE  /\ ~IsTerminal(results, s)
         /\ Blockers(task, results, s) = {}
         /\ WaitingOn(task, results, s) = {}
         /\ results' = [results EXCEPT ![s] = o]
         /\ results' \in Snapshots
         /\ o # NoResult
         /\ UNCHANGED <<task, decision, stopped>>
<1>1. StageEligibility(task, results, s) = "ready"
  BY DEF ExecuteStage, IsFirstReady, ReadyStages
<1>2. o \in Outcomes
  BY StageOutcomesAssumption
<1>3. results' \in Snapshots
  BY <1>2 DEF ExecuteStage, TypeOK, Snapshots
<1>4. o # NoResult
  BY <1>2 DEF Outcomes, PromotingOutcomes, NoResult
<1> QED
  BY <1>1, <1>3, <1>4 DEF StageEligibility, ExecuteStage

(* Type correctness of the traversal.                                      *)
THEOREM TypeCorrect == Spec => []TypeOK
<1>1. Init => TypeOK
  BY DEF Init, TypeOK, Snapshots, NoResults, NoResult, Decisions, StopReasons
<1>2. TypeOK /\ [Next]_vars => TypeOK'
  <2> SUFFICES ASSUME TypeOK, [Next]_vars
               PROVE  TypeOK'
    OBVIOUS
  <2>1. ASSUME NEW s \in Stages, NEW o \in StageOutcomes, ExecuteStage(s, o)
        PROVE  TypeOK'
    BY <2>1, ExecutedStageWasReady DEF TypeOK
  <2>2. CASE RecordScoring
    <3>1. ScorerEligibility(task, results) \in Decisions
      BY DEF ScorerEligibility, Decisions
    <3> QED
      BY <2>2, <3>1 DEF RecordScoring, TypeOK
  <2>3. CASE EndRun
    <3>1. ScoringFailureStopReason(results, ScorerBlockers(task, results)) \in StopReasons
      BY DEF ScoringFailureStopReason, StopReasons
    <3> QED
      BY <2>3, <3>1 DEF EndRun, TypeOK, StopReasons
  <2>4. CASE UNCHANGED vars
    BY <2>4 DEF vars, TypeOK
  <2> QED
    BY <2>1, <2>2, <2>3, <2>4 DEF Next
<1> QED
  BY <1>1, <1>2, PTL DEF Spec

(* A recorded decision is the eligibility of the results it was derived    *)
(* from, and those results no longer change.                               *)
DecisionIsCurrent ==
  decision # "none" => ~HasStageToRun /\ decision = ScorerEligibility(task, results)

WalkInv == TypeOK /\ ResultsAreValid /\ DecisionIsCurrent /\ SuccessRestsOnPromotion

(* The first state of the walk satisfies the invariant. *)
LEMMA WalkInvInit == Init => WalkInv
<1> SUFFICES ASSUME Init
             PROVE  WalkInv
  OBVIOUS
<1>1. TypeOK
  BY DEF Init, TypeOK, Snapshots, NoResults, NoResult, Decisions, StopReasons
<1> QED
  BY <1>1 DEF Init, WalkInv, ResultsAreValid, ValidResults, IsTerminal, NoResults,
              DecisionIsCurrent, SuccessRestsOnPromotion

(* A new result sits above promoting dependencies and disturbs no other.   *)
LEMMA ExecuteStageKeepsResultsValid ==
  ASSUME TypeOK, ResultsAreValid, NEW s \in Stages, NEW o \in StageOutcomes,
         ExecuteStage(s, o)
  PROVE  ResultsAreValid'
<1>1. /\ ~IsTerminal(results, s)
      /\ Blockers(task, results, s) = {}
      /\ WaitingOn(task, results, s) = {}
      /\ results' = [results EXCEPT ![s] = o]
      /\ task' = task
      /\ results \in Snapshots /\ task \in Tasks
  BY ExecutedStageWasReady DEF TypeOK
<1>2. task.depends_on \in [Stages -> SUBSET Stages]
  BY <1>1, TaskTypes
<1> SUFFICES ASSUME NEW x \in Stages, IsTerminal(results', x),
                    NEW d \in task.depends_on[x]
             PROVE  Promotes(results'[d])
  BY <1>1 DEF ResultsAreValid, ValidResults
<1>3. d \in Stages
  BY <1>2
<1>4. Promotes(results[d])
  <2>1. CASE x = s
    <3>1. IsTerminal(results, d)
      BY <1>1, <2>1 DEF WaitingOn
    <3>2. d \in Ancestors(task, s)
      BY <1>1, <2>1, AncestorsClosed
    <3> QED
      BY <1>1, <3>1, <3>2 DEF Blockers, FailedToPromote
  <2>2. CASE x # s
    BY <1>1, <2>2 DEF IsTerminal, Snapshots, ResultsAreValid, ValidResults
  <2> QED
    BY <2>1, <2>2
<1>5. d # s
  BY <1>1, <1>4 DEF IsTerminal, Promotes, PromotingOutcomes, NoResult
<1> QED
  BY <1>1, <1>3, <1>4, <1>5 DEF Snapshots

(* Every step of the walk keeps the invariant. *)
LEMMA WalkInvNext == WalkInv /\ [Next]_vars => WalkInv'
<1> SUFFICES ASSUME WalkInv, [Next]_vars
             PROVE  WalkInv'
  OBVIOUS
<1>0. TypeOK /\ ResultsAreValid /\ DecisionIsCurrent /\ SuccessRestsOnPromotion
  BY DEF WalkInv
<1>1. ASSUME NEW s \in Stages, NEW o \in StageOutcomes, ExecuteStage(s, o)
      PROVE  WalkInv'
  <2>1. TypeOK' /\ UNCHANGED <<task, decision, stopped>>
    BY <1>0, <1>1, ExecutedStageWasReady DEF TypeOK
  <2>2. ResultsAreValid'
    BY <1>0, <1>1, ExecuteStageKeepsResultsValid
  <2>3. decision = "none" /\ stopped = "none"
    BY <1>0, <1>1 DEF ExecuteStage, DecisionIsCurrent
  <2> QED
    BY <2>1, <2>2, <2>3 DEF WalkInv, DecisionIsCurrent, SuccessRestsOnPromotion
<1>2. CASE RecordScoring
  <2>1. ScorerEligibility(task, results) \in Decisions
    BY DEF ScorerEligibility, Decisions
  <2>2. TypeOK'
    BY <1>0, <1>2, <2>1 DEF RecordScoring, TypeOK
  <2>3. ResultsAreValid'
    BY <1>0, <1>2 DEF RecordScoring, ResultsAreValid
  <2>4. DecisionIsCurrent'
    BY <1>2 DEF RecordScoring, DecisionIsCurrent, HasStageToRun
  <2>5. SuccessRestsOnPromotion'
    BY <1>2 DEF RecordScoring, SuccessRestsOnPromotion
  <2> QED
    BY <2>2, <2>3, <2>4, <2>5 DEF WalkInv
<1>3. CASE EndRun
  <2>1. ScoringFailureStopReason(results, ScorerBlockers(task, results))
           \in StopReasons \ {"verifier_success"}
    BY DEF ScoringFailureStopReason, StopReasons
  <2>2. TypeOK' /\ UNCHANGED <<task, results, decision>>
    BY <1>0, <1>3, <2>1 DEF EndRun, TypeOK, StopReasons
  <2>3. ResultsAreValid'
    BY <1>0, <2>2 DEF ResultsAreValid
  <2>4. DecisionIsCurrent'
    BY <1>0, <2>2 DEF DecisionIsCurrent, HasStageToRun
  <2>5. SuccessRestsOnPromotion'
    <3> SUFFICES ASSUME stopped' = "verifier_success",
                        NEW g \in task.hard_gates \cup task.producers,
                        NEW a \in Ancestors(task, g) \cup {g}
                 PROVE  Promotes(results[a])
      BY <2>2 DEF SuccessRestsOnPromotion
    <3>1. /\ HardGateStatus(task, results) = "succeeded"
          /\ decision \in {"ready", "not_configured"}
      BY <1>3, <2>1 DEF EndRun
    <3>2. task \in Tasks /\ results \in Snapshots /\ g \in Stages
      BY <1>0, TaskTypes DEF TypeOK
    <3>3. ScorerEligibility(task, results) \in {"ready", "not_configured"}
      BY <1>0, <3>1 DEF DecisionIsCurrent
    <3>4. IsTerminal(results, g) /\ Promotes(results[g])
      BY <3>1, <3>2, <3>3, SucceededGatesPromote, ScoredProducersPromote
    <3> QED
      BY <1>0, <3>2, <3>4, TerminalAbovePromoting DEF ResultsAreValid
  <2> QED
    BY <2>2, <2>3, <2>4, <2>5 DEF WalkInv
<1>4. CASE UNCHANGED vars
  BY <1>0, <1>4 DEF vars, WalkInv, TypeOK, ResultsAreValid, DecisionIsCurrent,
                    HasStageToRun, SuccessRestsOnPromotion
<1> QED
  BY <1>1, <1>2, <1>3, <1>4 DEF Next

(* For every task: each result the traversal journals sits above promoting *)
(* dependencies, so validate_stage_results accepts every snapshot.         *)
THEOREM ResultsStayValid == Spec => []ResultsAreValid
<1>1. WalkInv => ResultsAreValid
  BY DEF WalkInv
<1> QED
  BY <1>1, WalkInvInit, WalkInvNext, PTL DEF Spec

(* For every task: the scoring decision _record_scoring derives is never   *)
(* WAITING, which ScoringDecision would refuse.                            *)
THEOREM DecisionsAreTerminal == Spec => []DecisionIsTerminal
<1>1. WalkInv => DecisionIsTerminal
  <2> SUFFICES ASSUME WalkInv, decision # "none"
               PROVE  decision # "waiting"
    BY DEF DecisionIsTerminal
  <2>1. /\ task \in Tasks /\ results \in Snapshots
        /\ ~HasStageToRun /\ decision = ScorerEligibility(task, results)
    BY DEF WalkInv, TypeOK, DecisionIsCurrent
  <2> QED
    BY <2>1, ScorerNeverWaits DEF HasStageToRun
<1> QED
  BY <1>1, WalkInvInit, WalkInvNext, PTL DEF Spec

(* For every task: a run that ends in verifier success promoted every hard *)
(* gate, every measurement producer and all of their ancestors.            *)
THEOREM SuccessIsEarned == Spec => []SuccessRestsOnPromotion
<1>1. WalkInv => SuccessRestsOnPromotion
  BY DEF WalkInv
<1> QED
  BY <1>1, WalkInvInit, WalkInvNext, PTL DEF Spec

(* For every task: a verdict of the hard gates other than pending is kept  *)
(* by every later step.                                                    *)
THEOREM GateVerdictsAreFinal == Spec => GateVerdictIsFinal
<1> DEFINE Keeps == HardGateStatus(task, results) # "pending" =>
                      HardGateStatus(task, results)' = HardGateStatus(task, results)
<1>1. WalkInv /\ [Next]_vars => [Keeps]_vars
  <2> SUFFICES ASSUME WalkInv, [Next]_vars, HardGateStatus(task, results) # "pending"
               PROVE  HardGateStatus(task', results') = HardGateStatus(task, results)
    OBVIOUS
  <2>0. TypeOK
    BY DEF WalkInv
  <2>1. CASE UNCHANGED <<task, results>>
    BY <2>1
  <2>2. ASSUME NEW s \in Stages, NEW o \in StageOutcomes, ExecuteStage(s, o)
        PROVE  HardGateStatus(task', results') = HardGateStatus(task, results)
    <3>1. /\ ~IsTerminal(results, s) /\ task' = task
          /\ results' = [results EXCEPT ![s] = o]
          /\ task \in Tasks /\ results \in Snapshots
          /\ task.hard_gates \in SUBSET Stages
      BY <2>0, <2>2, ExecutedStageWasReady, TaskTypes DEF TypeOK
    <3>2. HardGateStatus(task, results) = "succeeded"
      BY <2>2 DEF ExecuteStage, HasStageToRun, HardGateStatus
    <3>3. \A g \in task.hard_gates : IsTerminal(results, g) /\ Promotes(results[g])
      BY <3>1, <3>2, SucceededGatesPromote
    <3>4. \A g \in task.hard_gates : IsTerminal(results', g) /\ Promotes(results'[g])
      BY <3>1, <3>3 DEF Snapshots, IsTerminal
    <3>5. FailedGates(task, results') = {}
      BY <3>4 DEF FailedGates, FailedToPromote
    <3>6. GateBlockers(task, results') = {}
      BY <3>4 DEF GateBlockers
    <3>7. PendingGates(task, results') = {}
      BY <3>4 DEF PendingGates, StageEligibility
    <3> QED
      BY <3>1, <3>2, <3>5, <3>6, <3>7 DEF HardGateStatus
  <2> QED
    BY <2>1, <2>2 DEF Next, RecordScoring, EndRun, vars
<1> QED
  BY <1>1, WalkInvInit, WalkInvNext, PTL DEF Spec, GateVerdictIsFinal
=============================================================================
