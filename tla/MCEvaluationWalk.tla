--------------------------- MODULE MCEvaluationWalk ---------------------------
(* Every acyclic evaluator graph on three stages, with every choice of     *)
(* hard gates and measurement producers.                                   *)
EXTENDS EvaluationWalk

MCStages == 1..3

MCOutcomes == {"passed", "candidate_failure", "infrastructure_failure", "security_violation"}

(* Faulty variant: stops after the direct dependencies. *)
DependencyWorklistOneLevel(t, pending, found) == pending \cup found

(* _ancestor_ids as written: a worklist of dependencies still to visit,    *)
(* popped from its end.                                                    *)
RECURSIVE DependencyWorklist(_, _, _)
DependencyWorklist(t, pending, found) ==
  IF pending = {} THEN found
  ELSE LET d == CHOOSE x \in pending : TRUE
       IN IF d \in found THEN DependencyWorklist(t, pending \ {d}, found)
          ELSE DependencyWorklist(t, (pending \ {d}) \cup (t.depends_on[d] \ found),
                                  found \cup {d})

AncestorIds(t, s) == DependencyWorklist(t, t.depends_on[s], {})

(* The worklist of _ancestor_ids finds exactly the least dependency-closed *)
(* set, so blocked and waiting are told apart on the whole ancestry.       *)
WorklistFindsAncestors ==
  \A s \in Stages : AncestorIds(task, s) = Ancestors(task, s)
=============================================================================
