---------------------------- MODULE StageExecution ----------------------------
(***************************************************************************)
(* The trial orchestrator at work: the advance loop, the execution of one  *)
(* evaluator stage step by step, a concurrent cancel, checkpoints, crashes *)
(* of the controlling process, and the reconciliation and the restored     *)
(* incarnation that follow them (src/edagym/runtime/orchestrator.py,       *)
(* runtime/participant_recovery.py, run/checkpoints.py).                   *)
(*                                                                         *)
(* Every call to the executor, to the license provider and to the journal  *)
(* is a step of its own, so that a crash and a cancel fall between any two *)
(* of them, and every one may raise: an append before or after its record  *)
(* is written.  The journal obeys RunFacts.  The participant's turn is one *)
(* step here: it submits a candidate or fails, and makes no tool request.  *)
(* Budgets other than the journal's own facts depend on clocks and sizes,  *)
(* so a budget stop is a choice wherever the code consults one.            *)
(*                                                                         *)
(* The run has a participant, as every run the program creates does, so    *)
(* only the process that owns the active incarnation advances or ends it.  *)
(* A process is named by the number of crashes before it.                  *)
(***************************************************************************)
EXTENDS RunFacts, FiniteSets

CONSTANTS
  LicensedStages,    \* the stages whose tool binds a license
  HasStorage,        \* the executor is an ExecutorStorageProvider
  Training,          \* the session's mode is TrainingMode
  Recovery,          \* session and environment permit checkpoints and resume
  Faults,            \* calls to executor, provider and journal may raise
  EvaluatorOutcomes, \* the outcomes an evaluator may give a completed job
  MaxCrashes         \* bound on crashes of the controlling process

ASSUME ExecutionAssumption ==
  /\ LicensedStages \subseteq Stages
  /\ {HasStorage, Training, Recovery, Faults} \subseteq BOOLEAN
  /\ EvaluatorOutcomes \subseteq Outcomes
  /\ MaxCrashes \in Nat
  /\ Processes = 0..MaxCrashes

VARIABLES
  journal,     \* the state the run journal replays to
  worker,      \* the thread inside advance or resume, which holds the operation lock
  canceller,   \* the thread inside cancel: "idle", "kill", "lock" or "done"
  requested,   \* _requested_stop is set
  active,      \* _active_handle, as the job it names
  target,      \* the handle that cancel read
  executor,    \* the executor's state of every job
  held,        \* the jobs whose license lease the provider has not got back
  released,    \* the jobs with a license_lease_released event
  storage,     \* the jobs whose writable storage exists
  crashes

vars == <<journal, worker, canceller, requested, active, target, executor,
          held, released, storage, crashes>>

(* Not a job: no stage and no candidate has these names.                   *)
NoJob == <<NoCandidate, 0>>

ExecutorStates == {"none", "running", "completed", "failed", "cancelled"}
ExecutorTerminal == {"completed", "failed", "cancelled"}

(* The local variables of _execute_stage: the job, lease, handle and       *)
(* storage_lease (as whether they are set), requested_stop, the exception  *)
(* being handled and the outcome to journal; whether a recovery is part of *)
(* a resume; and, for the properties, the last step of this call whose     *)
(* append raised although it had written its record.                       *)
Idle == [pc |-> "idle", job |-> NoJob, lease |-> FALSE, handle |-> FALSE,
         storage |-> FALSE, stop |-> "none", fault |-> "none", outcome |-> NoResult,
         resume |-> FALSE, unacknowledged |-> "none"]

Init ==
  /\ journal = StartIncarnation(StartRun(EmptyJournal), 0)
  /\ worker = Idle
  /\ canceller = "idle"
  /\ requested = FALSE
  /\ active = NoJob
  /\ target = NoJob
  /\ executor = [j \in Jobs |-> "none"]
  /\ held = {}
  /\ released = {}
  /\ storage = {}
  /\ crashes = 0

job == worker.job
Candidate == job[1]
Stage == job[2]

Latest == journal.candidates[Len(journal.candidates)]

(* The worker at its next step, and in the handlers of _execute_stage that *)
(* an exception enters.                                                    *)
At(pc) == [worker EXCEPT !.pc = pc]

Raised(fault) ==
  [worker EXCEPT !.pc = IF worker.lease THEN "handler_release" ELSE "handler_abort",
                 !.fault = fault,
                 !.outcome = IF fault = "integrity" THEN "security_violation"
                             ELSE "infrastructure_failure"]

Goto(pc) == worker' = At(pc)
Raise(fault) == worker' = Raised(fault)

(* One append of the worker: it is made, or replay refuses it, or it       *)
(* raises before its record is written or after, in the fsync.             *)
Transact(can, next, done, raised) ==
  \/ can /\ journal' = next /\ worker' = done
  \/ (Faults \/ ~can) /\ worker' = raised /\ UNCHANGED journal
  \/ /\ Faults /\ can
     /\ journal' = next
     /\ worker' = IF raised = Idle THEN Idle
                  ELSE [raised EXCEPT !.unacknowledged = worker.pc]

(* _require_active_incarnation *)
OwnsIncarnation == journal.lifecycle = "active" /\ journal.owner = crashes

threads == <<canceller, requested, target>>
custody == <<held, released>>
-----------------------------------------------------------------------------
(* _advance_once: refuse a foreign incarnation and an interrupted journal, *)
(* then act, begin a stage, score or stop.                                 *)
Advancing ==
  /\ worker.pc = "idle"
  /\ OwnsIncarnation
  /\ journal.ended = "none"
  /\ NoOpenEvaluation(journal)

GatesHold == HardGateStatus(Task, journal.results[Latest]) # "failed"

StageIsReady == GatesHold /\ ReadyStages(Task, journal.results[Latest]) # {}

(* _end, where the worker owns the incarnation and the run has not ended.  *)
EndRun(reason, c, done, raised) ==
  Transact(CanEnd(journal, reason, c), End(journal, reason, c), done, raised)

(* The participant's turn, where its budget is not exhausted.              *)
ParticipantTurn ==
  \/ \E c \in Candidates \ CandidateSet(journal) :
       Transact(CanSubmit(journal, c), Submit(journal, c), Idle, Idle)
  \/ \E reason \in {"budget", "infrastructure_failure"} :
       EndRun(reason, NoCandidate, Idle, Idle)

Act ==
  /\ Advancing
  /\ journal.candidates = << >>
  /\ ParticipantTurn
  /\ UNCHANGED <<threads, active, executor, custody, storage, crashes>>

(* Faulty variant: neither a foreign incarnation nor an interrupted        *)
(* evaluation stops the loop.                                              *)
BeginStageOverInterrupted ==
  /\ worker.pc = "idle" /\ journal.ended = "none"
  /\ journal.candidates # << >>
  /\ GatesHold
  /\ \E s \in Stages :
       /\ s \in ReadyStages(Task, journal.results[Latest])
       /\ journal.jobs[<<Latest, s>>] = "absent"
       /\ worker' = [Idle EXCEPT !.pc = IF HasStorage THEN "storage" ELSE "start",
                                 !.job = <<Latest, s>>]
  /\ UNCHANGED <<journal, threads, active, executor, custody, storage, crashes>>

BeginStage ==
  /\ Advancing
  /\ journal.candidates # << >>
  /\ GatesHold
  /\ \E s \in Stages :
       /\ IsFirstReady(Task, journal.results[Latest], s)
       /\ worker' = [Idle EXCEPT !.pc = IF HasStorage THEN "storage" ELSE "start",
                                 !.job = <<Latest, s>>]
  /\ UNCHANGED <<journal, threads, active, executor, custody, storage, crashes>>

BudgetStop ==
  /\ Advancing
  /\ journal.candidates # << >>
  /\ StageIsReady
  /\ EndRun("budget", NoCandidate, Idle, Idle)
  /\ UNCHANGED <<threads, active, executor, custody, storage, crashes>>

RecordDecision ==
  /\ Advancing
  /\ journal.candidates # << >>
  /\ ~StageIsReady
  /\ IF journal.scoring[Latest] = "none"
     THEN LET decision == ScorerEligibility(Task, journal.results[Latest])
          IN Transact(CanRecordScoring(journal, Latest, decision),
                      RecordScoring(journal, Latest, decision), At("decide"), Idle)
     ELSE Goto("decide") /\ UNCHANGED journal
  /\ UNCHANGED <<threads, active, executor, custody, storage, crashes>>

FailureReason ==
  ScoringFailureStopReason(journal.results[Latest],
                           ScorerBlockers(Task, journal.results[Latest]))

Succeeded ==
  /\ HardGateStatus(Task, journal.results[Latest]) = "succeeded"
  /\ journal.scoring[Latest] \in {"ready", "not_configured"}

Decide ==
  /\ worker.pc = "decide"
  /\ IF Training
     THEN IF journal.scoring[Latest] = "blocked" /\ FailureReason = "security_failure"
          THEN EndRun(FailureReason, NoCandidate, Idle, Idle)
          ELSE ParticipantTurn
     ELSE IF Succeeded
          THEN EndRun("verifier_success", Latest, Idle, Idle)
          ELSE EndRun(FailureReason, NoCandidate, Idle, Idle)
  /\ UNCHANGED <<threads, active, executor, custody, storage, crashes>>

(* _checkpoint, which the participant asks for between the stages.         *)
Checkpoint ==
  /\ Recovery
  /\ Advancing
  /\ \E k \in Checkpoints \ CheckpointSet(journal) :
       Transact(CanCommitCheckpoint(journal, k), CommitCheckpoint(journal, k), Idle, Idle)
  /\ UNCHANGED <<threads, active, executor, custody, storage, crashes>>
-----------------------------------------------------------------------------
(* _execute_stage up to the launch.                                        *)
AcquireStorage ==
  /\ worker.pc = "storage"
  /\ \/ /\ storage' = storage \cup {job}
        /\ worker' = [worker EXCEPT !.pc = "start", !.storage = TRUE]
     \/ /\ Faults
        /\ worker' = [worker EXCEPT !.pc = "start", !.outcome = "infrastructure_failure"]
        /\ UNCHANGED storage
  /\ UNCHANGED <<journal, threads, active, executor, custody, crashes>>

(* The storage lease of a start that raises is dropped, not released.      *)
EvaluationStarted ==
  /\ worker.pc = "start"
  /\ Transact(CanStartEvaluation(journal, Candidate, Stage),
              StartEvaluation(journal, Candidate, Stage),
              At(IF worker.outcome = NoResult THEN "prepare" ELSE "fail"), Idle)
  /\ UNCHANGED <<threads, active, executor, custody, storage, crashes>>

Refused(outcome) ==
  [worker EXCEPT !.pc = IF worker.storage THEN "refuse" ELSE "fail", !.outcome = outcome]

Prepare ==
  /\ worker.pc = "prepare"
  /\ \/ Goto(IF Stage \in LicensedStages THEN "license" ELSE "launch")
     \/ /\ Faults
        /\ \E o \in {"security_violation", "infrastructure_failure"} : worker' = Refused(o)
  /\ UNCHANGED <<journal, threads, active, executor, custody, storage, crashes>>

(* The provider's answer.  A lease of another provider or feature, or one  *)
(* that is not active, is no lease: it is handed back and denied.          *)
AcquireFromProvider ==
  /\ worker.pc = "license"
  /\ \/ held' = held \cup {job} /\ Goto("licensed")
     \/ /\ \E o \in {"license_unavailable"} \cup
                    (IF Faults THEN {"infrastructure_failure"} ELSE {}) :
             worker' = [worker EXCEPT !.pc = "deny", !.outcome = o]
        /\ UNCHANGED held
  /\ UNCHANGED <<journal, threads, active, executor, released, storage, crashes>>

LicenseDenied ==
  /\ worker.pc = "deny"
  /\ Transact(CanDecideLicense(journal, job), DenyLicense(journal, job),
              Refused(worker.outcome), Refused("infrastructure_failure"))
  /\ UNCHANGED <<threads, active, executor, custody, storage, crashes>>

(* If the append raises the lease is handed back, failure suppressed; the  *)
(* record that it may have written stays.                                  *)
LicenseAcquired ==
  /\ worker.pc = "licensed"
  /\ Transact(CanDecideLicense(journal, job), AcquireLicense(journal, job),
              [worker EXCEPT !.pc = "launch", !.lease = TRUE],
              Refused("infrastructure_failure"))
  /\ held' \in IF worker'.lease THEN {held} ELSE {held, held \ {job}}
  /\ UNCHANGED <<threads, active, executor, released, storage, crashes>>

(* executor.abandon: nothing of the invocation runs any more.              *)
Fence(j) == [executor EXCEPT ![j] = IF @ = "running" THEN "cancelled" ELSE @]

Stored(pc) == worker' = [worker EXCEPT !.pc = pc, !.storage = FALSE]

(* Faulty variant: closes the storage without fencing the invocation. *)
ReleaseStorageUnfenced(then, raised) ==
  storage' = storage \ {job} /\ then /\ UNCHANGED executor

(* release_executor_storage: fence, then close.  It may fail at either.    *)
ReleaseStorage(then, raised) ==
  \/ executor' = Fence(job) /\ storage' = storage \ {job} /\ then
  \/ Faults /\ executor' \in {executor, Fence(job)} /\ raised /\ UNCHANGED storage

Refuse ==
  /\ worker.pc = "refuse"
  /\ ReleaseStorage(Stored("fail"), worker' = Idle)
  /\ UNCHANGED <<journal, threads, active, custody, crashes>>

(* _failed_evaluation: two events, the first only for an unfinished job.   *)
(* What it raises leaves _execute_stage, through the finally clause if it  *)
(* was called by a handler.                                                *)
Unwound == IF worker.fault = "none" THEN Idle ELSE At("cleanup")

FailJob ==
  /\ worker.pc = "fail"
  /\ journal.jobs[job] \notin TerminalJobStates
  /\ Transact(CanChangeJob(journal, job, "failed"), ChangeJob(journal, job, "failed"),
              worker, Unwound)
  /\ UNCHANGED <<threads, active, executor, custody, storage, crashes>>

FailEvaluation ==
  /\ worker.pc = "fail"
  /\ journal.jobs[job] \in TerminalJobStates
  /\ Transact(CanCompleteEvaluation(journal, Candidate, Stage, worker.outcome),
              CompleteEvaluation(journal, Candidate, Stage, worker.outcome),
              IF worker.fault \in {"quota", "integrity"} THEN At("fail_end") ELSE Unwound,
              Unwound)
  /\ UNCHANGED <<threads, active, executor, custody, storage, crashes>>

FailEnd ==
  /\ worker.pc = "fail_end"
  /\ EndRun(IF worker.fault = "quota" THEN "budget" ELSE "security_failure", NoCandidate,
            At("cleanup"), At("cleanup"))
  /\ UNCHANGED <<threads, active, executor, custody, storage, crashes>>
-----------------------------------------------------------------------------
(* _execute_stage from the launch on.  A launch that raises may have       *)
(* started the job, as an uncertain submission to a scheduler does.        *)
Launch ==
  /\ worker.pc = "launch"
  /\ \/ /\ executor' = [executor EXCEPT ![job] = "running"]
        /\ worker' = [worker EXCEPT !.pc = "register", !.handle = TRUE]
     \/ /\ Faults
        /\ executor' \in {executor, [executor EXCEPT ![job] = "running"]}
        /\ Raise("other")
  /\ UNCHANGED <<journal, threads, active, custody, storage, crashes>>

SetActiveHandle ==
  /\ worker.pc = "register"
  /\ \/ active' = job /\ Goto("run")
     \/ Faults /\ Raise("other") /\ UNCHANGED active    \* _validate_handle
  /\ UNCHANGED <<journal, threads, executor, custody, storage, crashes>>

JobRunning ==
  /\ worker.pc = "run"
  /\ Transact(CanChangeJob(journal, job, "running"), ChangeJob(journal, job, "running"),
              At("wait"), Raised("other"))
  /\ UNCHANGED <<threads, active, executor, custody, storage, crashes>>

(* One turn of _wait_for_terminal: inspect, then read the stop, then       *)
(* cancel once.  The stop is the first one seen.                           *)
StopSeen(stop) ==
  IF worker.stop # "none" THEN stop = worker.stop
  ELSE IF requested THEN stop = "explicit_cancel"
  ELSE stop \in {"none", "budget"}

WaitForTerminal ==
  /\ worker.pc = "wait"
  /\ \E stop \in {"none", "budget", "explicit_cancel"} :
       /\ StopSeen(stop)
       /\ \/ /\ executor[job] \in ExecutorTerminal
             /\ worker' = [worker EXCEPT !.pc = "terminal", !.stop = stop]
             /\ UNCHANGED executor
          \/ /\ executor[job] = "running" /\ stop # "none" /\ worker.stop = "none"
             /\ \/ /\ executor' = Fence(job)
                   /\ worker' = [worker EXCEPT !.pc = "terminal", !.stop = stop]
                \/ /\ Faults    \* the cancellation is still in progress
                   /\ worker' = [worker EXCEPT !.stop = stop]
                   /\ UNCHANGED executor
  /\ UNCHANGED <<journal, threads, active, custody, storage, crashes>>

(* Inspecting or cancelling raises.                                        *)
WaitRaises ==
  /\ worker.pc = "wait" /\ Faults
  /\ Raise("other")
  /\ UNCHANGED <<journal, threads, active, executor, custody, storage, crashes>>

(* Faulty variant: journals the executor's own word for a failure. *)
JobTerminalRaw ==
  /\ worker.pc = "terminal"
  /\ journal' = ChangeJob(journal, job,
                          IF executor[job] = "failed" THEN "timed_out" ELSE executor[job])
  /\ Goto("collect")
  /\ UNCHANGED <<threads, active, executor, custody, storage, crashes>>

JobTerminal ==
  /\ worker.pc = "terminal"
  /\ Transact(CanChangeJob(journal, job, executor[job]), ChangeJob(journal, job, executor[job]),
              At("collect"), Raised("other"))
  /\ UNCHANGED <<threads, active, executor, custody, storage, crashes>>

RaisedFaults == {"quota", "integrity", "other"}

Collect ==
  /\ worker.pc = "collect"
  /\ \/ Goto(IF worker.lease THEN "release" ELSE "record")
     \/ Faults /\ \E f \in RaisedFaults : Raise(f)
  /\ UNCHANGED <<journal, threads, active, executor, custody, storage, crashes>>

(* Faulty variant: a failed release is journaled as a release. *)
ReleaseToProviderUnchecked(at, next, raised) ==
  /\ worker.pc = at
  /\ held' \in {held, held \ {job}}
  /\ Goto(next)
  /\ UNCHANGED <<journal, threads, active, executor, released, storage, crashes>>

(* _release_license: the provider first, then the journal.                 *)
ReleaseToProvider(at, next, raised) ==
  /\ worker.pc = at
  /\ \/ held' = held \ {job} /\ Goto(next)
     \/ Faults /\ worker' = raised /\ UNCHANGED held
  /\ UNCHANGED <<journal, threads, active, executor, released, storage, crashes>>

(* lease = None, after a release.                                          *)
Unleased(pc) == [worker EXCEPT !.pc = pc, !.lease = FALSE]

(* Faulty variant: the released lease is not forgotten. *)
LicenseReleasedKept(at, next, raised) ==
  /\ worker.pc = at
  /\ Transact(CanCloseLicense(journal, job), CloseLicense(journal, job), At(next.pc), raised)
  /\ released' = IF journal' = journal THEN released ELSE released \cup {job}
  /\ UNCHANGED <<threads, active, executor, held, storage, crashes>>

LicenseReleased(at, next, raised) ==
  /\ worker.pc = at
  /\ Transact(CanCloseLicense(journal, job), CloseLicense(journal, job), next, raised)
  /\ released' = IF journal' = journal THEN released ELSE released \cup {job}
  /\ UNCHANGED <<threads, active, executor, held, storage, crashes>>

(* Faulty variant: asks the evaluator about a job that did not complete. *)
InterpretedAnyway(state) == EvaluatorOutcomes

(* _interpret_result: what an execution may come to.                       *)
Interpreted(state) ==
  IF state = "completed" THEN EvaluatorOutcomes \cup {"infrastructure_failure"}
  ELSE IF state = "cancelled" THEN {"unknown"}
  ELSE {"candidate_failure", "timeout", "infrastructure_failure"}

RecordAndInterpret ==
  /\ worker.pc = "record"
  /\ \/ \E o \in Interpreted(executor[job]) :
          worker' = [worker EXCEPT !.pc = IF worker.storage THEN "unstore" ELSE "complete",
                                   !.outcome = o]
     \/ Faults /\ \E f \in RaisedFaults : Raise(f)
  /\ UNCHANGED <<journal, threads, active, executor, custody, storage, crashes>>

ReleaseStorageBeforeCompletion ==
  /\ worker.pc = "unstore"
  /\ ReleaseStorage(Stored("complete"), Raise("other"))
  /\ UNCHANGED <<journal, threads, active, custody, crashes>>

EvaluationCompleted ==
  /\ worker.pc = "complete"
  /\ Transact(CanCompleteEvaluation(journal, Candidate, Stage, worker.outcome),
              CompleteEvaluation(journal, Candidate, Stage, worker.outcome),
              At(IF worker.stop = "none" THEN "cleanup" ELSE "stop"), Raised("other"))
  /\ UNCHANGED <<threads, active, executor, custody, storage, crashes>>

StopAfterStage ==
  /\ worker.pc = "stop"
  /\ EndRun(worker.stop, NoCandidate, At("cleanup"), At("cleanup"))
  /\ UNCHANGED <<threads, active, executor, custody, storage, crashes>>

(* _abort_evaluation: cancel what was launched, failures suppressed.       *)
Abort ==
  /\ worker.pc = "handler_abort"
  /\ IF worker.handle
     THEN executor' = Fence(job) \/ (Faults /\ UNCHANGED executor)
     ELSE UNCHANGED executor
  /\ Goto("fail")
  /\ UNCHANGED <<journal, threads, active, custody, storage, crashes>>

(* The finally clause: forget the handle, give the lease back if a handler *)
(* could not, failures suppressed, and release the storage.                *)
Settled == IF worker.storage THEN At("cleanup_storage") ELSE Idle

ClearActiveHandle ==
  /\ worker.pc = "cleanup"
  /\ active' = IF active = job THEN NoJob ELSE active
  /\ worker' = IF worker.lease THEN At("cleanup_release") ELSE Settled
  /\ UNCHANGED <<journal, threads, executor, custody, storage, crashes>>

CleanupStorage ==
  /\ worker.pc = "cleanup_storage"
  /\ ReleaseStorage(worker' = Idle, worker' = Idle)
  /\ UNCHANGED <<journal, threads, active, custody, crashes>>
-----------------------------------------------------------------------------
(* Faulty variant: the loss is journaled before the invocation is fenced. *)
RecoverUnfenced(resume) ==
  /\ worker.pc = "idle" /\ active = NoJob
  /\ IF NoOpenEvaluation(journal)
     THEN worker' = [Idle EXCEPT !.pc = "terminate", !.resume = resume]
     ELSE \E j \in journal.open :
            worker' = [Idle EXCEPT !.pc = "reconcile", !.job = j, !.resume = resume]
  /\ UNCHANGED <<journal, threads, active, executor, custody, storage, crashes>>

(* reconcile_interrupted_run_work, called by itself or by a resume: fence  *)
(* the interrupted evaluation and close its storage, then close it in one  *)
(* record.  At most one evaluation is open (OneEvaluationAtATime).  What   *)
(* fails is left to the next recovery.                                     *)
Recover(resume) ==
  /\ worker.pc = "idle" /\ active = NoJob
  /\ IF NoOpenEvaluation(journal)
     THEN worker' = [Idle EXCEPT !.pc = "terminate", !.resume = resume]
     ELSE \E j \in journal.open :
            worker' = [Idle EXCEPT !.pc = "abandon", !.job = j, !.resume = resume]
  /\ UNCHANGED <<journal, threads, active, executor, custody, storage, crashes>>

RecoverInterrupted == ~NoOpenEvaluation(journal) /\ Recover(FALSE)

(* _resume, from the latest checkpoint; a process that owns the active     *)
(* incarnation has nothing to restore.                                     *)
Resume ==
  /\ Recovery /\ ~OwnsIncarnation
  /\ journal.ended = "none" /\ journal.checkpoints # << >>
  /\ Recover(TRUE)

AbandonInterrupted ==
  /\ worker.pc = "abandon"
  /\ \/ executor' = Fence(job) /\ Goto(IF HasStorage THEN "close" ELSE "reconcile")
     \/ Faults /\ executor' \in {executor, Fence(job)} /\ worker' = Idle
  /\ UNCHANGED <<journal, threads, active, custody, storage, crashes>>

CloseInterrupted ==
  /\ worker.pc = "close"
  /\ \/ storage' = storage \ {job} /\ Goto("reconcile")
     \/ Faults /\ storage' \in {storage, storage \ {job}} /\ worker' = Idle
  /\ UNCHANGED <<journal, threads, active, executor, custody, crashes>>

InterruptedFailed(J, j) ==
  IF J.jobs[j] \in TerminalJobStates THEN J ELSE ChangeJob(J, j, "failed")

InterruptedLost(J, j) == IF j \in J.leases THEN CloseLicense(J, j) ELSE J

(* Replay admits the events of the record one after the other.             *)
CanReconcile(J, j) ==
  /\ J.jobs[j] \in TerminalJobStates \/ CanChangeJob(J, j, "failed")
  /\ CanCompleteEvaluation(InterruptedLost(InterruptedFailed(J, j), j), j[1], j[2],
                           "infrastructure_failure")

ReconcileInterrupted ==
  /\ worker.pc = "reconcile"
  /\ Transact(CanReconcile(journal, job),
              CompleteEvaluation(InterruptedLost(InterruptedFailed(journal, job), job),
                                 Candidate, Stage, "infrastructure_failure"),
              IF worker.resume THEN At("terminate") ELSE Idle, Idle)
  /\ UNCHANGED <<threads, active, executor, custody, storage, crashes>>

(* Faulty variant: a termination journaled by a dead process is an error. *)
TerminateIncarnationOnce ==
  /\ worker.pc = "terminate"
  /\ Transact(CanTerminate(journal, LatestCheckpoint(journal)),
              Terminate(journal, LatestCheckpoint(journal)), At("restore"), Idle)
  /\ UNCHANGED <<threads, active, executor, custody, storage, crashes>>

(* restore_participant_incarnation: two appends, the first unless an       *)
(* earlier resume has made it, and between them the workspace.             *)
TerminateIncarnation ==
  /\ worker.pc = "terminate"
  /\ IF journal.pending = NoCheckpoint
     THEN Transact(CanTerminate(journal, LatestCheckpoint(journal)),
                   Terminate(journal, LatestCheckpoint(journal)), At("restore"), Idle)
     ELSE Goto("restore") /\ UNCHANGED journal
  /\ UNCHANGED <<threads, active, executor, custody, storage, crashes>>

RestoreIncarnation ==
  /\ worker.pc = "restore"
  /\ Transact(CanRestore(journal, LatestCheckpoint(journal), crashes),
              Restore(journal, crashes), Idle, Idle)
  /\ UNCHANGED <<threads, active, executor, custody, storage, crashes>>
-----------------------------------------------------------------------------
(* cancel: note the stop and read the active handle, then either cancel    *)
(* that job or wait for the operation lock and end the run.                *)
CancelRequested ==
  /\ canceller = "idle"
  /\ requested' = TRUE
  /\ target' = active
  /\ canceller' = IF active # NoJob THEN "kill" ELSE "lock"
  /\ UNCHANGED <<journal, worker, active, executor, custody, storage, crashes>>

CancelActive ==
  /\ canceller = "kill"
  /\ executor' = Fence(target) \/ (Faults /\ UNCHANGED executor)
  /\ canceller' = "done"
  /\ UNCHANGED <<journal, worker, requested, active, target, custody, storage, crashes>>

(* It ends the run under the conditions of _advance_once: no evaluation is *)
(* open (so that its recovery finds nothing to close), the incarnation is  *)
(* its own, the run goes on.  Otherwise it returns, or raises.             *)
CancelLocked ==
  /\ canceller = "lock"
  /\ worker.pc = "idle"
  /\ \/ /\ Advancing /\ CanEnd(journal, "explicit_cancel", NoCandidate)
        /\ journal' = End(journal, "explicit_cancel", NoCandidate)
     \/ /\ Faults \/ ~Advancing \/ ~CanEnd(journal, "explicit_cancel", NoCandidate)
        /\ UNCHANGED journal
  /\ canceller' = "done"
  /\ UNCHANGED <<worker, requested, active, target, executor, custody, storage, crashes>>

(* The executor's job ends by itself.                                      *)
JobFinishes ==
  /\ \E j \in Jobs, state \in {"completed", "failed"} :
       executor[j] = "running" /\ executor' = [executor EXCEPT ![j] = state]
  /\ UNCHANGED <<journal, worker, threads, active, custody, storage, crashes>>

(* The controlling process dies and is started again: the journal, the     *)
(* executor's jobs, their storage and the provider's leases remain.        *)
Crash ==
  /\ crashes < MaxCrashes
  /\ crashes' = crashes + 1
  /\ worker' = Idle
  /\ canceller' = "idle" /\ requested' = FALSE /\ target' = NoJob /\ active' = NoJob
  /\ UNCHANGED <<journal, executor, custody, storage>>

WorkerStep ==
  \/ Act \/ BeginStage \/ BudgetStop \/ RecordDecision \/ Decide
  \/ AcquireStorage \/ EvaluationStarted \/ Prepare \/ AcquireFromProvider
  \/ LicenseDenied \/ LicenseAcquired \/ Refuse \/ FailJob \/ FailEvaluation \/ FailEnd
  \/ Launch \/ SetActiveHandle \/ JobRunning \/ WaitForTerminal \/ WaitRaises
  \/ JobTerminal \/ Collect
  \/ ReleaseToProvider("release", "released", Raised("other"))
  \/ LicenseReleased("released", Unleased("record"), Raised("other"))
  \/ RecordAndInterpret \/ ReleaseStorageBeforeCompletion
  \/ EvaluationCompleted \/ StopAfterStage
  \/ ReleaseToProvider("handler_release", "handler_released", At("cleanup"))
  \/ LicenseReleased("handler_released", Unleased("handler_abort"), At("cleanup"))
  \/ Abort \/ ClearActiveHandle
  \/ ReleaseToProvider("cleanup_release", "cleanup_released", Settled)
  \/ LicenseReleased("cleanup_released", Settled, Settled)
  \/ CleanupStorage
  \/ RecoverInterrupted \/ Resume \/ AbandonInterrupted \/ CloseInterrupted
  \/ ReconcileInterrupted \/ TerminateIncarnation \/ RestoreIncarnation

CancelStep == CancelRequested \/ CancelActive \/ CancelLocked

Next == WorkerStep \/ Checkpoint \/ CancelStep \/ JobFinishes \/ Crash

Spec == Init /\ [][Next]_vars

(* advance is called in a loop, a job ends or is ended, and after a crash  *)
(* the run is resumed, where it can be, before the loop goes on.  Nothing  *)
(* says that a checkpoint is ever made.                                    *)
FairSpec == Spec /\ WF_vars(WorkerStep) /\ WF_vars(JobFinishes)
-----------------------------------------------------------------------------
Pcs == {"idle", "decide", "storage", "start", "prepare", "license", "licensed", "deny",
        "refuse", "fail", "fail_end", "launch", "register", "run", "wait", "terminal",
        "collect", "release", "released", "record", "unstore", "complete", "stop",
        "handler_release", "handler_released", "handler_abort", "cleanup",
        "cleanup_release", "cleanup_released", "cleanup_storage",
        "abandon", "close", "reconcile", "terminate", "restore"}

(* The types of the orchestrator's state, of the worker's local variables  *)
(* and of the executor's and the provider's.                               *)
TypeOK ==
  /\ journal.open \subseteq Jobs /\ journal.leases \subseteq Jobs
  /\ journal.results \in [Candidates -> Snapshots]
  /\ journal.jobs \in [Jobs -> JobStates]
  /\ worker \in [pc : Pcs, job : Jobs \cup {NoJob}, lease : BOOLEAN, handle : BOOLEAN,
                 storage : BOOLEAN, stop : {"none", "budget", "explicit_cancel"},
                 fault : {"none"} \cup RaisedFaults, outcome : Outcomes \cup {NoResult},
                 resume : BOOLEAN, unacknowledged : Pcs \cup {"none"}]
  /\ canceller \in {"idle", "kill", "lock", "done"}
  /\ requested \in BOOLEAN
  /\ {active, target} \subseteq Jobs \cup {NoJob}
  /\ executor \in [Jobs -> ExecutorStates]
  /\ held \subseteq Jobs /\ released \subseteq Jobs /\ storage \subseteq Jobs
  /\ journal.owner \in 0..crashes
  /\ crashes \in 0..MaxCrashes

(* The journaled leases that neither the worker nor a recovery will close. *)
Orphaned == journal.leases \ journal.open

(* Every event the orchestrator appends is one that replay admits,         *)
(* whatever crashed, was cancelled, failed or was reconciled before: those *)
(* of _execute_stage, _failed_evaluation, _record_scoring, _end, the       *)
(* reconciliation and the restore.  Replay refuses exactly                 *)
(*   - what an exception handler appends again after an append that had    *)
(*     written its record and raised (a release, a completion), and        *)
(*   - an end or a termination over a lease that was journaled by an       *)
(*     append of _acquire_license that raised, so that no job ran under it. *)
AppendsAreAdmitted ==
  /\ worker.pc = "start" => CanStartEvaluation(journal, Candidate, Stage)
  /\ worker.pc \in {"licensed", "deny"} => CanDecideLicense(journal, job)
  /\ worker.pc = "run" => CanChangeJob(journal, job, "running")
  /\ worker.pc = "terminal" => CanChangeJob(journal, job, executor[job])
  /\ worker.pc = "complete" =>
       CanCompleteEvaluation(journal, Candidate, Stage, worker.outcome)
  /\ worker.pc \in {"released", "handler_released", "cleanup_released"} =>
       (CanCloseLicense(journal, job)
          <=> worker.unacknowledged \notin {"released", "handler_released"})
  /\ worker.pc = "fail" =>
       (worker.unacknowledged # "complete"
          <=> \/ CanChangeJob(journal, job, "failed")
              \/ CanCompleteEvaluation(journal, Candidate, Stage, worker.outcome))
  /\ worker.pc = "reconcile" => CanReconcile(journal, job)
  /\ worker.pc = "restore" => CanRestore(journal, LatestCheckpoint(journal), crashes)
  /\ Advancing /\ journal.candidates # << >> /\ ~StageIsReady
       /\ journal.scoring[Latest] = "none" =>
       CanRecordScoring(journal, Latest, ScorerEligibility(Task, journal.results[Latest]))
  /\ worker.pc = "decide" /\ ~Training /\ Succeeded /\ Orphaned = {} =>
       CanEnd(journal, "verifier_success", Latest)
  /\ worker.pc \in {"stop", "fail_end", "decide"} \/ Advancing =>
       (CanEnd(journal, "budget", NoCandidate) <=> Orphaned = {})
  /\ worker.pc = "terminate" /\ journal.pending = NoCheckpoint =>
       (CanTerminate(journal, LatestCheckpoint(journal)) <=> Orphaned = {})
  /\ \A j \in Orphaned : executor[j] = "none"

(* One evaluation at a time: while a stage is executed no other evaluation *)
(* is open, although a failing append, storage or license call and a crash *)
(* may leave one open behind them.                                         *)
OneEvaluationAtATime ==
  /\ Cardinality(journal.open) <= 1
  /\ job # NoJob => journal.open \subseteq {job}

(* A license whose release is journaled has gone back to the provider:     *)
(* _release_license journals only after the provider confirmed.            *)
ReleasedIsReturned == released \cap held = {}

(* A job runs only on storage that still exists: release_executor_storage  *)
(* and the recovery fence an invocation before its storage is closed.      *)
StorageOutlivesJob ==
  HasStorage => \A j \in Jobs : executor[j] = "running" => j \in storage

(* A promoting result is only recorded for a job that the executor         *)
(* completed and that the journal calls completed, across cancels, aborts, *)
(* crashes and reconciliation.                                             *)
PromotionNeedsCompletion ==
  \A c \in Candidates, s \in Stages :
    Promotes(journal.results[c][s]) =>
      executor[<<c, s>>] = "completed" /\ journal.jobs[<<c, s>>] = "completed"

(* Without failing calls nothing else runs when a stage is launched, and   *)
(* nothing at all when the run has ended: what a crash left behind has     *)
(* been fenced by the reconciliation.                                      *)
NothingElseRuns ==
  ~Faults /\ (worker.pc = "launch" \/ journal.ended # "none") =>
    \A j \in Jobs : executor[j] # "running"

(* Nobody can continue the run: the process that owned its incarnation is  *)
(* dead, and there is no checkpoint or no permission to restore one.       *)
Stranded ==
  /\ journal.lifecycle = "active" /\ ~OwnsIncarnation
  /\ ~Recovery \/ journal.checkpoints = << >>

(* The loop ends the run: whatever crashes and cancels intervene, also     *)
(* between the two appends that hand the incarnation over, a run that is   *)
(* resumed and advanced reaches a terminal reason, unless the process died *)
(* before the first checkpoint.                                            *)
RunEnds == <>(journal.ended # "none" \/ Stranded)

(* "An uncertain submission is cancelled and proven absent before the      *)
(* journal may recover past it" (docs/environment-contract.md): a job with *)
(* a journaled result is not running.                                      *)
JournalPassesOnlyAbsentJobs ==
  \A c \in Candidates, s \in Stages :
    journal.results[c][s] # NoResult => executor[<<c, s>>] # "running"
=============================================================================
