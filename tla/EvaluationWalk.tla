---------------------------- MODULE EvaluationWalk ----------------------------
(***************************************************************************)
(* The orchestrator's traversal of the evaluator graph for one candidate   *)
(* of a benchmark run: one evaluator stage per advance, then one scoring   *)
(* decision, then the end of the run                                       *)
(* (src/edagym/runtime/orchestrator.py, _advance_once).                    *)
(*                                                                         *)
(* Only the decisions are modelled here; how one stage is executed, and    *)
(* every way that execution can be interrupted, is module StageExecution.  *)
(***************************************************************************)
EXTENDS Promotion

CONSTANT StageOutcomes    \* outcomes an evaluator may return

ASSUME StageOutcomesAssumption == StageOutcomes \subseteq Outcomes

VARIABLES
  task,       \* the TaskSpec facts of the run; never change
  results,    \* the candidate's stage results
  decision,   \* the journaled scoring eligibility, or "none"
  stopped     \* the run's stop reason, or "none"

vars == <<task, results, decision, stopped>>

Decisions == {"none", "not_configured", "ready", "waiting", "blocked"}
StopReasons == {"none", "verifier_success", "security_failure",
                "infrastructure_failure", "unrankable"}

Init ==
  /\ task \in Tasks
  /\ results = NoResults
  /\ decision = "none"
  /\ stopped = "none"

(* A stage is worth running while no hard gate has failed.                 *)
HasStageToRun ==
  /\ HardGateStatus(task, results) # "failed"
  /\ ReadyStages(task, results) # {}

(* _execute_stage of ready[0], as its outcome.                             *)
ExecuteStage(s, outcome) ==
  /\ stopped = "none"
  /\ HasStageToRun
  /\ IsFirstReady(task, results, s)
  /\ results' = [results EXCEPT ![s] = outcome]
  /\ UNCHANGED <<task, decision, stopped>>

(* _record_scoring: the eligibility is derived and journaled once.         *)
RecordScoring ==
  /\ stopped = "none"
  /\ ~HasStageToRun
  /\ decision = "none"
  /\ decision' = ScorerEligibility(task, results)
  /\ UNCHANGED <<task, results, stopped>>

(* The benchmark branch that ends the run from the recorded decision.      *)
EndRun ==
  /\ stopped = "none"
  /\ ~HasStageToRun
  /\ decision # "none"
  /\ stopped' =
       IF HardGateStatus(task, results) = "succeeded"
          /\ decision \in {"ready", "not_configured"}
       THEN "verifier_success"
       ELSE ScoringFailureStopReason(results, ScorerBlockers(task, results))
  /\ UNCHANGED <<task, results, decision>>

Next ==
  \/ \E s \in Stages, outcome \in StageOutcomes : ExecuteStage(s, outcome)
  \/ RecordScoring
  \/ EndRun

Spec == Init /\ [][Next]_vars
-----------------------------------------------------------------------------
TypeOK ==
  /\ task \in Tasks
  /\ results \in Snapshots
  /\ decision \in Decisions
  /\ stopped \in StopReasons

(* Every result the traversal produces sits above promoting dependencies,  *)
(* so validate_stage_results never refuses an EvaluationCompleted fact.    *)
ResultsAreValid == ValidResults(task, results)

(* When the traversal reaches _record_scoring no input of the scorer is    *)
(* still outstanding: ScoringDecision never refuses a WAITING decision and *)
(* the run is never left without a scoring fact.                           *)
DecisionIsTerminal == decision # "waiting"

(* A blocked decision names stages, and each of them has a terminal,       *)
(* non-promoting outcome: _scoring_failure_stop_reason never raises        *)
(* "scoring blockers do not have terminal evaluator outcomes".             *)
BlockersExplainFailure ==
  decision = "blocked" =>
    /\ ScorerBlockers(task, results) # {}
    /\ \A s \in ScorerBlockers(task, results) : FailedToPromote(results, s)

(* A run that ends in verifier success promoted every hard gate, every     *)
(* stage that produces a measurement, and everything those depend on.      *)
SuccessRestsOnPromotion ==
  stopped = "verifier_success" =>
    \A s \in task.hard_gates \cup task.producers :
      \A a \in Ancestors(task, s) \cup {s} : Promotes(results[a])

(* Once the gates have failed, or have all succeeded, no later stage       *)
(* result changes that verdict (hard_gate_status over a growing snapshot). *)
GateVerdictIsFinal ==
  [][HardGateStatus(task, results) # "pending" =>
       HardGateStatus(task, results)' = HardGateStatus(task, results)]_vars

(* topological_stage_ids lists every stage once, after its dependencies.   *)
OrderIsTopological ==
  LET order == TopologicalStageIds(task)
  IN /\ Len(order) = Cardinality(Stages)
     /\ TakenStages(order) = Stages
     /\ \A s \in Stages : \A d \in task.depends_on[s] :
          Position(order, d) < Position(order, s)
=============================================================================
