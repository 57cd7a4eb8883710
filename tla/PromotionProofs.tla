---------------------------- MODULE PromotionProofs ----------------------------
(***************************************************************************)
(* What the promotion rules guarantee, for every task and every snapshot   *)
(* of results: the lemmas the proofs about the traversal and about the     *)
(* journal rest on.                                                        *)
(***************************************************************************)
EXTENDS Promotion, TLAPS

(* What task and results are, in the form the provers use.                 *)
LEMMA TaskTypes ==
  ASSUME NEW t \in Tasks
  PROVE  /\ t.depends_on \in [Stages -> SUBSET Stages]
         /\ Acyclic(t.depends_on)
         /\ t.hard_gates \in SUBSET Stages
         /\ t.producers \in SUBSET Stages
BY DEF Tasks

(* The ancestors of a stage are stages.                                    *)
LEMMA AncestorsAreStages ==
  ASSUME NEW t, NEW s
  PROVE  Ancestors(t, s) \subseteq Stages
BY DEF Ancestors

(* The ancestors of a stage hold its dependencies and are closed under     *)
(* taking dependencies (_ancestor_ids).                                    *)
LEMMA AncestorsClosed ==
  ASSUME NEW t \in Tasks, NEW s \in Stages
  PROVE  /\ t.depends_on[s] \subseteq Ancestors(t, s)
         /\ Closed(t, Ancestors(t, s))
<1>1. t.depends_on \in [Stages -> SUBSET Stages]
  BY TaskTypes
<1>2. t.depends_on[s] \subseteq Ancestors(t, s)
  BY <1>1 DEF Ancestors
<1>3. ASSUME NEW a \in Ancestors(t, s), NEW d \in t.depends_on[a]
      PROVE  d \in Ancestors(t, s)
  <2>1. a \in Stages
    BY DEF Ancestors
  <2>2. d \in Stages
    BY <1>1, <1>3, <2>1
  <2>3. ASSUME NEW T \in SUBSET Stages, Closed(t, T), t.depends_on[s] \subseteq T
        PROVE  d \in T
    <3>1. a \in T
      BY <1>3, <2>3 DEF Ancestors
    <3> QED
      BY <1>3, <2>3, <3>1 DEF Closed
  <2> QED
    BY <2>2, <2>3 DEF Ancestors
<1> QED
  BY <1>2, <1>3 DEF Closed

(* An ancestor's ancestors are ancestors.                                  *)
LEMMA AncestorsTransitive ==
  ASSUME NEW t \in Tasks, NEW s \in Stages, NEW a \in Ancestors(t, s)
  PROVE  Ancestors(t, a) \subseteq Ancestors(t, s)
<1>1. Closed(t, Ancestors(t, s)) /\ Ancestors(t, s) \in SUBSET Stages
  BY AncestorsClosed, AncestorsAreStages
<1>2. t.depends_on[a] \subseteq Ancestors(t, s)
  BY <1>1 DEF Closed
<1> QED
  BY <1>1, <1>2 DEF Ancestors

(* When no stage is ready, every stage without a result has an ancestor    *)
(* that failed to promote: a traversal never stops short of a stage that   *)
(* could still be waited for.                                              *)
LEMMA NothingReadyNothingWaiting ==
  ASSUME NEW t \in Tasks, NEW r \in Snapshots, ReadyStages(t, r) = {},
         NEW s \in Stages, ~IsTerminal(r, s)
  PROVE  Blockers(t, r, s) # {}
<1> SUFFICES ASSUME Blockers(t, r, s) = {}
             PROVE  FALSE
  OBVIOUS
<1> DEFINE Open == {x \in Ancestors(t, s) \cup {s} : ~IsTerminal(r, x)}
<1>1. /\ t.depends_on \in [Stages -> SUBSET Stages]
      /\ Acyclic(t.depends_on)
  BY TaskTypes
<1>2. Open \in SUBSET Stages /\ Open # {}
  BY AncestorsAreStages
<1>3. PICK x \in Open : t.depends_on[x] \cap Open = {}
  BY <1>1, <1>2 DEF Acyclic
<1>4. x \in Stages /\ ~IsTerminal(r, x)
  BY <1>2, <1>3
<1>5. t.depends_on[x] \subseteq Ancestors(t, s) /\ Ancestors(t, x) \subseteq Ancestors(t, s)
  <2>1. CASE x = s
    BY <2>1, AncestorsClosed
  <2>2. CASE x \in Ancestors(t, s)
    BY <2>2, AncestorsClosed, AncestorsTransitive DEF Closed
  <2> QED
    BY <1>3, <2>1, <2>2
<1>6. WaitingOn(t, r, x) = {}
  BY <1>3, <1>5 DEF WaitingOn
<1>7. Blockers(t, r, x) = {}
  BY <1>5 DEF Blockers
<1>8. StageEligibility(t, r, x) = "ready"
  BY <1>4, <1>6, <1>7 DEF StageEligibility
<1> QED
  BY <1>4, <1>8 DEF ReadyStages

(* A stage with a result has only promoting ancestors.                     *)
LEMMA TerminalAbovePromoting ==
  ASSUME NEW t \in Tasks, NEW r \in Snapshots, ValidResults(t, r),
         NEW s \in Stages, IsTerminal(r, s)
  PROVE  \A a \in Ancestors(t, s) : Promotes(r[a])
<1> DEFINE T == {x \in Stages : Promotes(r[x])}
<1>1. t.depends_on \in [Stages -> SUBSET Stages]
  BY TaskTypes
<1>2. t.depends_on[s] \subseteq T
  BY <1>1 DEF ValidResults
<1>3. Closed(t, T)
  BY <1>1 DEF Closed, ValidResults, IsTerminal, Promotes, PromotingOutcomes, NoResult
<1>4. Ancestors(t, s) \subseteq T
  BY <1>2, <1>3 DEF Ancestors
<1> QED
  BY <1>4

(* With nothing left to run, the scorer never waits.                       *)
LEMMA ScorerNeverWaits ==
  ASSUME NEW t \in Tasks, NEW r \in Snapshots,
         HardGateStatus(t, r) = "failed" \/ ReadyStages(t, r) = {}
  PROVE  ScorerEligibility(t, r) # "waiting"
<1>1. CASE HardGateStatus(t, r) = "failed"
  BY <1>1 DEF ScorerEligibility
<1>2. CASE HardGateStatus(t, r) # "failed" /\ ReadyStages(t, r) = {}
  <2>0. t.hard_gates \in SUBSET Stages /\ t.producers \in SUBSET Stages
    BY TaskTypes
  <2>1. ASSUME NEW s \in Stages
        PROVE  StageEligibility(t, r, s) \notin {"waiting", "ready"}
    BY <1>2, NothingReadyNothingWaiting DEF StageEligibility, ReadyStages
  <2>2. PendingGates(t, r) = {}
    BY <2>0, <2>1 DEF PendingGates
  <2>3. HardGateStatus(t, r) # "pending"
    BY <2>2 DEF HardGateStatus
  <2>4. WaitingProducers(t, r) = {}
    BY <2>0, <2>1 DEF WaitingProducers
  <2> QED
    BY <1>2, <2>3, <2>4 DEF ScorerEligibility
<1> QED
  BY <1>1, <1>2

(* Gates that have succeeded are terminal and promoting.                   *)
LEMMA SucceededGatesPromote ==
  ASSUME NEW t \in Tasks, NEW r \in Snapshots, HardGateStatus(t, r) = "succeeded",
         NEW g \in t.hard_gates
  PROVE  IsTerminal(r, g) /\ Promotes(r[g])
<1>1. /\ g \notin FailedGates(t, r)
      /\ GateBlockers(t, r) = {}
      /\ g \notin PendingGates(t, r)
  BY DEF HardGateStatus
<1>2. IsTerminal(r, g)
  <2> SUFFICES ASSUME ~IsTerminal(r, g)
               PROVE  FALSE
    OBVIOUS
  <2>1. Blockers(t, r, g) = {}
    BY <1>1 DEF GateBlockers
  <2> QED
    BY <1>1, <2>1 DEF PendingGates, StageEligibility
<1> QED
  BY <1>1, <1>2 DEF FailedGates, FailedToPromote

(* A scorer that is ready, or not configured, has only terminal and        *)
(* promoting producers.                                                    *)
LEMMA ScoredProducersPromote ==
  ASSUME NEW t \in Tasks, NEW r \in Snapshots, HardGateStatus(t, r) = "succeeded",
         ScorerEligibility(t, r) \in {"ready", "not_configured"},
         NEW p \in t.producers
  PROVE  IsTerminal(r, p) /\ Promotes(r[p])
<1>1. /\ p \notin FailedProducers(t, r)
      /\ ProducerBlockers(t, r) = {}
      /\ p \notin WaitingProducers(t, r)
  BY DEF ScorerEligibility
<1>2. IsTerminal(r, p)
  <2> SUFFICES ASSUME ~IsTerminal(r, p)
               PROVE  FALSE
    OBVIOUS
  <2>1. Blockers(t, r, p) = {}
    BY <1>1 DEF ProducerBlockers
  <2> QED
    BY <1>1, <2>1 DEF WaitingProducers, StageEligibility
<1> QED
  BY <1>1, <1>2 DEF FailedProducers, FailedToPromote
=============================================================================
