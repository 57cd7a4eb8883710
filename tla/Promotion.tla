------------------------------ MODULE Promotion ------------------------------
(***************************************************************************)
(* The evaluator graph of one task and the pure promotion rules that the   *)
(* run journal and the orchestrator both derive their decisions from       *)
(* (src/edagym/evaluation/promotion.py).                                   *)
(*                                                                         *)
(* A task is a record of the facts of a TaskSpec that promotion looks at:  *)
(*   depends_on  for every stage the set of stages it depends on,          *)
(*   hard_gates  the stages whose purpose is HARD_GATE,                    *)
(*   producers   the stages that produce at least one measurement.         *)
(* A result snapshot of one candidate is a function from stages to         *)
(* outcomes, NoResult standing for a stage without a terminal result.      *)
(* Measurements and evidence are abstracted: a snapshot only says which    *)
(* stages are terminal and how they ended.                                 *)
(***************************************************************************)
EXTENDS Integers, FiniteSets, Sequences

CONSTANT Stages     \* stage identifiers; their order is the identifiers' sort order

ASSUME StagesAssumption == Stages \subseteq Nat /\ IsFiniteSet(Stages)

(* OutcomeKind *)
PromotingOutcomes == {"passed", "proved"}
Outcomes == PromotingOutcomes \cup
            {"counterexample", "candidate_failure", "unknown", "timeout",
             "infrastructure_failure", "license_unavailable", "security_violation"}

NoResult == "none"

NoResults == [s \in Stages |-> NoResult]

Snapshots == [Stages -> Outcomes \cup {NoResult}]

(* Every non-empty set of stages has a member that depends on no other     *)
(* member: what TaskSpec's depth-first visit establishes.                  *)
Acyclic(deps) ==
  \A T \in SUBSET Stages : T # {} => \E s \in T : deps[s] \cap T = {}

(* The tasks that TaskSpec admits.                                         *)
Tasks == [depends_on : {deps \in [Stages -> SUBSET Stages] : Acyclic(deps)},
          hard_gates : SUBSET Stages \ {{}},
          producers  : SUBSET Stages]

(* outcome_promotes *)
Promotes(outcome) == outcome \in PromotingOutcomes

IsTerminal(results, s) == results[s] # NoResult

FailedToPromote(results, s) == IsTerminal(results, s) /\ ~Promotes(results[s])

(* _ancestor_ids: the least set that holds the dependencies of s and is    *)
(* closed under taking dependencies.                                       *)
Closed(task, T) == \A t \in T : task.depends_on[t] \subseteq T

Ancestors(task, s) ==
  {a \in Stages : \A T \in SUBSET Stages :
                     Closed(task, T) /\ task.depends_on[s] \subseteq T => a \in T}

(* validate_stage_results: a stage has a result only above promoting       *)
(* dependencies.                                                           *)
ValidResults(task, results) ==
  \A s \in Stages : IsTerminal(results, s) =>
     \A d \in task.depends_on[s] : Promotes(results[d])

(* Faulty variant: looks at the direct dependencies only. *)
BlockersDirectOnly(task, results, s) ==
  {a \in task.depends_on[s] : FailedToPromote(results, a)}

(* stage_eligibility *)
Blockers(task, results, s) ==
  {a \in Ancestors(task, s) : FailedToPromote(results, a)}

WaitingOn(task, results, s) ==
  {d \in task.depends_on[s] : ~IsTerminal(results, d)}

StageEligibility(task, results, s) ==
  IF IsTerminal(results, s) THEN "completed"
  ELSE IF Blockers(task, results, s) # {} THEN "blocked"
  ELSE IF WaitingOn(task, results, s) # {} THEN "waiting"
  ELSE "ready"

ReadyStages(task, results) ==
  {s \in Stages : StageEligibility(task, results, s) = "ready"}

(* hard_gate_status *)
FailedGates(task, results) ==
  {g \in task.hard_gates : FailedToPromote(results, g)}

GateBlockers(task, results) ==
  UNION {Blockers(task, results, g) :
           g \in {h \in task.hard_gates : ~IsTerminal(results, h)}}

(* Faulty variant: a gate that waits for a dependency is not pending. *)
PendingGatesReadyOnly(task, results) ==
  {g \in task.hard_gates : StageEligibility(task, results, g) = "ready"}

PendingGates(task, results) ==
  {g \in task.hard_gates : StageEligibility(task, results, g) \in {"waiting", "ready"}}

HardGateStatus(task, results) ==
  IF FailedGates(task, results) \cup GateBlockers(task, results) # {} THEN "failed"
  ELSE IF PendingGates(task, results) # {} THEN "pending"
  ELSE "succeeded"

(* scorer_eligibility, as its state and the stages it names as blocking.   *)
FailedProducers(task, results) ==
  {p \in task.producers : FailedToPromote(results, p)}

ProducerBlockers(task, results) ==
  UNION {Blockers(task, results, p) :
           p \in {q \in task.producers : ~IsTerminal(results, q)}}

WaitingProducers(task, results) ==
  {p \in task.producers : StageEligibility(task, results, p) \in {"waiting", "ready"}}

ScorerEligibility(task, results) ==
  CASE HardGateStatus(task, results) = "failed"  -> "blocked"
    [] HardGateStatus(task, results) = "pending" -> "waiting"
    [] OTHER ->
         IF task.producers = {} THEN "not_configured"
         ELSE IF FailedProducers(task, results) \cup ProducerBlockers(task, results) # {}
              THEN "blocked"
         ELSE IF WaitingProducers(task, results) # {} THEN "waiting"
         ELSE "ready"

(* Faulty variant: names failed producers but not what kept a producer from running. *)
ScorerBlockersFailedOnly(task, results) ==
  IF HardGateStatus(task, results) = "failed"
  THEN FailedGates(task, results) \cup GateBlockers(task, results)
  ELSE FailedProducers(task, results)

ScorerBlockers(task, results) ==
  IF HardGateStatus(task, results) = "failed"
  THEN FailedGates(task, results) \cup GateBlockers(task, results)
  ELSE IF HardGateStatus(task, results) = "pending" THEN {}
  ELSE IF FailedProducers(task, results) # {} THEN FailedProducers(task, results)
  ELSE ProducerBlockers(task, results)

(* topological_stage_ids: repeatedly take the least identifier among the   *)
(* stages whose dependencies have all been taken.                          *)
LeastOf(S) == CHOOSE s \in S : \A t \in S : s <= t

TakenStages(order) == {order[i] : i \in 1..Len(order)}

(* Faulty variant: ignores dependencies. *)
AvailableAnyOrder(task, taken) == Stages \ taken

Available(task, taken) ==
  {s \in Stages \ taken : task.depends_on[s] \subseteq taken}

TopologicalPrefix(task) ==
  LET prefix[n \in 0..Cardinality(Stages)] ==
        IF n = 0 THEN << >>
        ELSE LET taken == prefix[n - 1]
             IN Append(taken, LeastOf(Available(task, TakenStages(taken))))
  IN prefix

TopologicalStageIds(task) == TopologicalPrefix(task)[Cardinality(Stages)]

Position(order, s) == CHOOSE i \in 1..Len(order) : order[i] = s

(* s is ready[0]: the ready stage that comes first in topological order.   *)
IsFirstReady(task, results, s) ==
  /\ s \in ReadyStages(task, results)
  /\ LET order == TopologicalStageIds(task)
     IN \A r \in ReadyStages(task, results) : Position(order, s) <= Position(order, r)

(* Faulty variant: reports a stage outcome where a stop reason is due. *)
ScoringFailureOutcome(results, blocking) ==
  CHOOSE o \in {results[s] : s \in blocking} : TRUE

(* _scoring_failure_stop_reason of the orchestrator.                       *)
ScoringFailureStopReason(results, blocking) ==
  LET outcomes == {results[s] : s \in blocking}
  IN IF "security_violation" \in outcomes THEN "security_failure"
     ELSE IF outcomes \cap {"infrastructure_failure", "license_unavailable"} # {}
          THEN "infrastructure_failure"
     ELSE "unrankable"
=============================================================================
