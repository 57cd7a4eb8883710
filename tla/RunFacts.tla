------------------------------- MODULE RunFacts -------------------------------
(***************************************************************************)
(* The law of the run journal: for every kind of event, when replay admits *)
(* it after a prefix, and what it adds to the state replay reconstructs    *)
(* (src/edagym/run/journal.py, replay).                                    *)
(*                                                                         *)
(* A prefix is represented by the state it replays to, a record J:         *)
(*   sequence    0, 1, or 2 for "two or more" events                       *)
(*   ended       the stop reason, or "none"                                *)
(*   winner      the successful candidate of a run that ended in success   *)
(*   writer      the actor that owns the workspace                         *)
(*   lifecycle   "none", "active" or "terminated" (a pending termination)  *)
(*   generation  of the newest participant incarnation                     *)
(*   owner       the process of the newest participant incarnation         *)
(*   candidates  the submitted candidates, oldest first                    *)
(*   results     the stage results of every candidate                      *)
(*   scoring     the scoring decision of every candidate, or "none"        *)
(*   jobs        the journaled state of every evaluator job                *)
(*   open        the started evaluations without a completion              *)
(*   decided     the jobs and invocations with a license decision          *)
(*   leases      the jobs and invocations with an active license lease     *)
(*   tools       every tool request: "absent", "open" or "resolved"        *)
(*   requester   the actor of every tool request                           *)
(*   dispatch    "none", "reserved", "settled" or "lost" per tool request  *)
(*   provider    every provider request: "absent", "started", "answered"   *)
(*   checkpoints the committed checkpoints, oldest first                   *)
(*   pending     the checkpoint of a pending termination                   *)
(* An evaluator job is named by its candidate and stage, because           *)
(* evaluation_job_id derives its identity from them, and a participant     *)
(* tool invocation by its request, for the same reason.  Artifacts,        *)
(* digests and provenance are abstracted.                                  *)
(***************************************************************************)
EXTENDS Promotion

CONSTANTS
  Task,             \* the TaskSpec facts of the run
  Candidates,       \* candidate identifiers
  Actors,           \* actors of the session
  Harnesses,        \* the actors that are harnesses
  InitialWriter,
  HandoffEnabled,
  RequiresIncarnation,  \* the purpose is not STANDARD
  Requests,         \* interaction identifiers of tool requests
  ExecutorRequests, \* the requests for the executor tool
  LicensedRequests, \* the executor requests whose operation binds a license
  ProviderRequests,
  Checkpoints,
  Processes         \* process incarnations

ASSUME RunAssumption ==
  /\ Task \in Tasks
  /\ InitialWriter \in Actors
  /\ Harnesses \subseteq Actors
  /\ HandoffEnabled \in BOOLEAN
  /\ RequiresIncarnation \in BOOLEAN
  /\ ExecutorRequests \subseteq Requests
  /\ LicensedRequests \subseteq ExecutorRequests
  /\ Requests \cap (Candidates \X Stages) = {}   \* the identifiers differ in prefix

Jobs == Candidates \X Stages

LeaseHolders == Jobs \cup Requests

NoCheckpoint == "no_checkpoint"
NoProcess == "no_process"
NoCandidate == "no_candidate"

JobStates == {"absent", "queued", "running", "checkpointing",
              "completed", "failed", "cancelled"}
TerminalJobStates == {"completed", "failed", "cancelled"}

(* Faulty variant: a failed job may be queued again. *)
JobTransitionsRetry ==
  {<<"queued", "running">>, <<"running", "completed">>, <<"failed", "queued">>}
  \cup {"queued", "running", "checkpointing"} \X {"failed", "cancelled"}

(* _JOB_TRANSITIONS *)
JobTransitions ==
  {<<"queued", "running">>, <<"running", "checkpointing">>, <<"running", "completed">>,
   <<"checkpointing", "running">>, <<"checkpointing", "completed">>}
  \cup {"queued", "running", "checkpointing"} \X {"failed", "cancelled"}

Decisions == {"none", "not_configured", "ready", "blocked"}

Reasons == {"verifier_success", "security_failure", "infrastructure_failure",
            "unrankable", "explicit_cancel", "budget", "policy_failure"}

EmptyJournal ==
  [sequence |-> 0, ended |-> "none", winner |-> NoCandidate, writer |-> InitialWriter,
   lifecycle |-> "none", generation |-> 0, owner |-> NoProcess,
   candidates |-> << >>, results |-> [c \in Candidates |-> NoResults],
   scoring |-> [c \in Candidates |-> "none"],
   jobs |-> [j \in Jobs |-> "absent"], open |-> {}, decided |-> {}, leases |-> {},
   tools |-> [q \in Requests |-> "absent"],
   requester |-> [q \in Requests |-> InitialWriter],
   dispatch |-> [q \in Requests |-> "none"],
   provider |-> [r \in ProviderRequests |-> "absent"],
   checkpoints |-> << >>, pending |-> NoCheckpoint]

Grow(J) == IF J.sequence < 2 THEN J.sequence + 1 ELSE 2

CandidateSet(J) == {J.candidates[i] : i \in 1..Len(J.candidates)}

CheckpointSet(J) == {J.checkpoints[i] : i \in 1..Len(J.checkpoints)}

(* What every event after the first needs.  The second event of a run that *)
(* requires an incarnation is the start of that incarnation, and nothing   *)
(* but a restore may follow a termination.                                 *)
Extendable(J) ==
  /\ J.ended = "none"
  /\ J.sequence > 0
  /\ J.lifecycle # "terminated"
  /\ RequiresIncarnation => J.lifecycle # "none"
-----------------------------------------------------------------------------
(* run_started, and participant_incarnation_started as the second event.   *)
CanStartRun(J) == J.sequence = 0

StartRun(J) == [J EXCEPT !.sequence = 1]

CanStartIncarnation(J) == J.ended = "none" /\ J.sequence = 1 /\ J.lifecycle = "none"

StartIncarnation(J, p) ==
  [J EXCEPT !.sequence = 2, !.lifecycle = "active", !.owner = p]

(* No work is in flight that a termination or the end of the run would     *)
(* strand.                                                                 *)
NoOpenEvaluation(J) == J.open = {}
NoOpenLease(J) == J.leases = {}
NoOpenProviderRequest(J) == \A r \in ProviderRequests : J.provider[r] # "started"
NoOpenTool(J) == \A q \in Requests : J.tools[q] # "open"
NoOpenDispatch(J) == \A q \in Requests : J.dispatch[q] # "reserved"

Quiescent(J) ==
  /\ NoOpenEvaluation(J)
  /\ NoOpenLease(J)
  /\ NoOpenProviderRequest(J)
  /\ NoOpenTool(J)
  /\ NoOpenDispatch(J)

LatestCheckpoint(J) == J.checkpoints[Len(J.checkpoints)]

(* Faulty variant: does not ask for quiescent work. *)
CanTerminateBusy(J, k) ==
  /\ Extendable(J)
  /\ J.lifecycle = "active"
  /\ J.checkpoints # << >>
  /\ k = LatestCheckpoint(J)

(* participant_incarnation_terminated *)
CanTerminate(J, k) ==
  /\ Extendable(J)
  /\ J.lifecycle = "active"
  /\ J.checkpoints # << >>
  /\ k = LatestCheckpoint(J)
  /\ Quiescent(J)

Terminate(J, k) ==
  [J EXCEPT !.sequence = Grow(J), !.lifecycle = "terminated", !.pending = k]

(* participant_incarnation_restored *)
CanRestore(J, k, p) ==
  /\ J.ended = "none"
  /\ J.lifecycle = "terminated"
  /\ k = J.pending
  /\ p # J.owner

Restore(J, p) ==
  [J EXCEPT !.sequence = Grow(J), !.lifecycle = "active", !.pending = NoCheckpoint,
            !.generation = @ + 1, !.owner = p]

(* provider_request_started and provider_response_recorded *)
CanStartProviderRequest(J, r) ==
  /\ Extendable(J)
  /\ J.writer \in Harnesses
  /\ J.provider[r] = "absent"

StartProviderRequest(J, r) ==
  [J EXCEPT !.sequence = Grow(J), !.provider[r] = "started"]

CanRecordResponse(J, r) == Extendable(J) /\ J.provider[r] = "started"

RecordResponse(J, r) ==
  [J EXCEPT !.sequence = Grow(J), !.provider[r] = "answered"]

(* interaction_recorded, as a tool request of the writer and as its result *)
CanRequestTool(J, q) == Extendable(J) /\ J.tools[q] = "absent"

RequestTool(J, q) ==
  [J EXCEPT !.sequence = Grow(J), !.tools[q] = "open", !.requester[q] = J.writer]

CanResolveTool(J, q) ==
  /\ Extendable(J)
  /\ J.tools[q] = "open"
  /\ J.requester[q] = J.writer
  /\ q \in ExecutorRequests => J.dispatch[q] # "reserved"

ResolveTool(J, q) ==
  [J EXCEPT !.sequence = Grow(J), !.tools[q] = "resolved"]

(* participant_tool_reserved, participant_tool_settled and _lost *)
CanReserveTool(J, q) ==
  /\ Extendable(J)
  /\ q \in ExecutorRequests
  /\ J.tools[q] = "open"
  /\ J.dispatch[q] = "none"

ReserveTool(J, q) ==
  [J EXCEPT !.sequence = Grow(J), !.dispatch[q] = "reserved"]

(* Faulty variant: closes an invocation that still holds its license. *)
CanCloseToolHoldingLicense(J, q) ==
  /\ Extendable(J)
  /\ J.dispatch[q] = "reserved"
  /\ J.tools[q] # "resolved"

CanCloseTool(J, q) ==
  /\ Extendable(J)
  /\ J.dispatch[q] = "reserved"
  /\ J.tools[q] # "resolved"
  /\ q \notin J.leases

CloseTool(J, q, how) ==
  [J EXCEPT !.sequence = Grow(J), !.dispatch[q] = how]

(* control_transferred *)
CanTransfer(J, a) == Extendable(J) /\ HandoffEnabled /\ a \in Actors

Transfer(J, a) == [J EXCEPT !.sequence = Grow(J), !.writer = a]

(* candidate_submitted, journaled together with its snapshot artifact *)
CanSubmit(J, c) == Extendable(J) /\ c \notin CandidateSet(J)

Submit(J, c) ==
  [J EXCEPT !.sequence = Grow(J), !.candidates = Append(@, c)]

(* Faulty variant: evaluates a candidate that is already scored. *)
CanStartEvaluationScored(J, c, s) ==
  /\ Extendable(J)
  /\ c \in CandidateSet(J)
  /\ J.jobs[<<c, s>>] = "absent"
  /\ StageEligibility(Task, J.results[c], s) = "ready"

(* Faulty variant: starts a stage whose dependencies have not all ended. *)
CanStartEvaluationWaiting(J, c, s) ==
  /\ Extendable(J)
  /\ c \in CandidateSet(J)
  /\ J.scoring[c] = "none"
  /\ J.jobs[<<c, s>>] = "absent"
  /\ StageEligibility(Task, J.results[c], s) \in {"waiting", "ready"}

(* evaluation_started *)
CanStartEvaluation(J, c, s) ==
  /\ Extendable(J)
  /\ c \in CandidateSet(J)
  /\ J.scoring[c] = "none"
  /\ J.jobs[<<c, s>>] = "absent"
  /\ StageEligibility(Task, J.results[c], s) = "ready"

StartEvaluation(J, c, s) ==
  [J EXCEPT !.sequence = Grow(J), !.jobs[<<c, s>>] = "queued",
            !.open = @ \cup {<<c, s>>}]

(* job_state_changed *)
CanChangeJob(J, j, state) ==
  Extendable(J) /\ <<J.jobs[j], state>> \in JobTransitions

ChangeJob(J, j, state) ==
  [J EXCEPT !.sequence = Grow(J), !.jobs[j] = state]

(* evaluation_completed *)
CanCompleteEvaluation(J, c, s, outcome) ==
  /\ Extendable(J)
  /\ <<c, s>> \in J.open
  /\ J.jobs[<<c, s>>] \in TerminalJobStates
  /\ J.results[c][s] = NoResult
  /\ ValidResults(Task, [J.results[c] EXCEPT ![s] = outcome])

(* Faulty variant: records the state of the job as the result. *)
CompleteEvaluationJobState(J, c, s, outcome) ==
  [J EXCEPT !.sequence = Grow(J), !.results[c][s] = J.jobs[<<c, s>>],
            !.open = @ \ {<<c, s>>}]

CompleteEvaluation(J, c, s, outcome) ==
  [J EXCEPT !.sequence = Grow(J), !.results[c][s] = outcome,
            !.open = @ \ {<<c, s>>}]

(* scoring_recorded *)
CanRecordScoring(J, c, decision) ==
  /\ Extendable(J)
  /\ c \in CandidateSet(J)
  /\ J.scoring[c] = "none"
  /\ \A s \in Stages : <<c, s>> \notin J.open
  /\ decision = ScorerEligibility(Task, J.results[c])
  /\ decision # "waiting"

RecordScoring(J, c, decision) ==
  [J EXCEPT !.sequence = Grow(J), !.scoring[c] = decision]

(* license_lease_acquired, _denied, _released and _lost *)
CanDecideLicense(J, h) ==
  /\ Extendable(J)
  /\ \/ h \in Jobs /\ J.jobs[h] = "queued"
     \/ h \in LicensedRequests /\ J.dispatch[h] = "reserved"
  /\ h \notin J.decided

AcquireLicense(J, h) ==
  [J EXCEPT !.sequence = Grow(J), !.decided = @ \cup {h}, !.leases = @ \cup {h}]

DenyLicense(J, h) ==
  [J EXCEPT !.sequence = Grow(J), !.decided = @ \cup {h}]

CanCloseLicense(J, h) == Extendable(J) /\ h \in J.leases

CloseLicense(J, h) ==
  [J EXCEPT !.sequence = Grow(J), !.leases = @ \ {h}]

(* checkpoint_committed *)
CanCommitCheckpoint(J, k) == Extendable(J) /\ k \notin CheckpointSet(J)

CommitCheckpoint(J, k) ==
  [J EXCEPT !.sequence = Grow(J), !.checkpoints = Append(@, k)]

(* Faulty variant: success rests on the hard gates alone. *)
CanEndUnscored(J, reason, c) ==
  /\ Extendable(J)
  /\ Quiescent(J)
  /\ \A j \in Jobs : J.jobs[j] \in TerminalJobStates \cup {"absent"}
  /\ reason = "verifier_success" =>
       /\ c \in CandidateSet(J)
       /\ HardGateStatus(Task, J.results[c]) = "succeeded"

(* run_ended; c is the successful candidate when the reason is success *)
CanEnd(J, reason, c) ==
  /\ Extendable(J)
  /\ Quiescent(J)
  /\ \A j \in Jobs : J.jobs[j] \in TerminalJobStates \cup {"absent"}
  /\ reason = "verifier_success" =>
       /\ c \in CandidateSet(J)
       /\ HardGateStatus(Task, J.results[c]) = "succeeded"
       /\ J.scoring[c] \in {"ready", "not_configured"}

End(J, reason, c) ==
  [J EXCEPT !.sequence = Grow(J), !.ended = reason,
            !.winner = IF reason = "verifier_success" THEN c ELSE NoCandidate]
=============================================================================
