# EdaGym in TLA+

A verification development kept beside the EdaGym sources. It models the
concurrent, crash-prone and decision-making parts of the program as TLA+
modules, checks them with TLC on small instances, and proves the central facts
with TLAPS for every value of the constants. Source paths below are relative to
`src/edagym/`.

## The system

EdaGym runs a *task* (a design problem with a graph of evaluator stages) for a
*participant* (a model behind a provider API, an external program, or a person)
and keeps an append-only, hash-chained *run journal* from which every decision
is derived again by replay. A *campaign* runs many such trials against a paid
provider under fixed caps, and keeps a second journal for what was reserved and
charged.

| Part | Sources | State | Operations |
| --- | --- | --- | --- |
| run journal | `run/journal.py`, `run/model.py` | one locked JSONL file per run | create, open, append, transact, replay |
| evaluation promotion | `evaluation/promotion.py`, `evaluation/scoring.py` | none (pure) | stage, gate and scorer eligibility, topological order, score |
| orchestrator | `runtime/orchestrator.py`, `runtime/budget.py` | active job handle, requested stop; the rest is in the journal | advance, execute a stage, cancel, checkpoint, resume, recover |
| participant control | `participants/controller.py`, `adapters.py`, `external.py` | the single writer, in the journal | act, submit, transfer control, finish |
| participant tools | `participants/execution.py`, `responses.py` | open tool requests and dispatches, in the journal | request, dispatch, resolve, close after an interruption |
| checkpoints and recovery | `run/checkpoints.py`, `runtime/participant_recovery.py` | checkpoint objects in the store, incarnation generation in the journal | commit, match, reconcile, terminate and restore an incarnation |
| paid campaigns | `providers/campaign_*.py` | campaign journal: reservations, charges, outcomes | reserve, mark dispatched, settle, cancel, recover, stop, report |
| trial dispatch | `providers/campaign_operation.py`, `trial_runtime.py`, `responses.py` | both journals, the trial's directories | start, resume, dispatch, exchange, finalize, stop unfinished |
| executors | `executors/*.py`, `guest/edagym-vm-agent` | jobs of a backend, storage, leases, broker domains | launch, inspect, cancel, collect, abandon |
| artifact store | `run/artifacts.py`, `run/materialization.py` | content-addressed blobs under a quota | put, verify, link, checkpoint marker, materialize |
| security | `security/*.py` | one-use attestations, canaries, credentials | collect, attest, consume, scan |
| authoring | `authoring/*.py` | staged generations, a generator process | generate, materialize, publish |
| drivers | `drivers/*.py` | qualification records | probe, qualify, verify |
| flow tasks, families, specs | `flow_tasks/`, `task_families/`, `specs/`, `resolution.py` | none | define and validate documents |
| projections, command line | `projections/`, `cli.py`, `cli_support/` | none | render, dispatch |
| release, policy | `release_*.py`, `policy/*.py` | reports | collect evidence, gate a release |

How they interact. The orchestrator, the participant tools, the checkpoints and
the recovery code share nothing but the run journal: each reads a replayed
state, acts on the world (an executor, a license provider, a provider API) and
appends. The journal is therefore both the lock and the law: `append_events`
and `transact_events` replay the whole journal with the new events before they
write. A campaign operation holds the lock of its state root, takes one trial
after the other, and writes to the campaign journal and to the run journal of
the trial in alternation; nothing makes the two writes atomic.

What is hard. A crash between any two of: journal append, executor call,
license call, provider call, fsync. A cancel from another thread while a stage
is prepared, runs, is collected or cleaned up. A call that raises after it took
effect. Two campaign runners, or two writers of a journal, over the same file.
Limits met exactly. Recovery that meets a half-finished step, or a process that
is not dead. Progress: an interrupted trial that nothing can continue or end.
`PROJECT.json` lists these as hazards at the lines where they bite.

What correctness means here. The journal decodes, grows only at its end and
keeps what it acknowledged. Replay admits what the code appends. A verdict
rests on promoted results. Nothing stays running, leased or reserved without a
journaled owner. Every paid dispatch is charged once and within the caps. A run
and a campaign end.

## Modules

| Module | Models | State | Actions and the code they stand for |
| --- | --- | --- | --- |
| `Promotion` | `evaluation/promotion.py` | none | `StageEligibility`, `HardGateStatus`, `ScorerEligibility`, `TopologicalStageIds`: one operator per function |
| `EvaluationWalk` | `_advance_once` of the orchestrator, decisions only | task, results, decision, stop | execute the first ready stage; record scoring; end |
| `RunFacts` | `replay` of `run/journal.py` | none | for every event type a guard `Can...` and an effect on the replayed state |
| `JournalLaw` | every journal `replay` accepts | the replayed state | one action per event type |
| `StageExecution` | advance, `_execute_stage`, cancel, checkpoint, resume, reconciliation | journal, worker program counter, canceller, executor jobs, leases, storage | one step per call to executor, license provider or journal; every append is a `Transact`, made, refused or raising before or after its write; crash, fence, reconcile, terminate and restore |
| `JournalFile` | the file under both journals | file, images the disk may hold, lock, calls | lock, truncate, sync, check, write a part, sync; a process dies, power is lost |
| `AppendLog` | what a journal promises | log, acknowledged batches | commit, acknowledge, lose an unacknowledged end |
| `CampaignFacts` | `campaign_replay.py` | none | admission rules and the effect of every campaign event |
| `CampaignLedger` | `CampaignRunner`, `CampaignReservation` | ledger, handles, recovery transaction | reserve, mark, settle, cancel, recover (a loop inside one transaction), stop, report, crash |
| `CampaignTrial` | `execute_campaign_operation`, `CampaignTrialDispatcher.dispatch`, `MeteredResponsesSender`, the run journal's recorder | ledger, one run per trial, the operation's program counter | one step per durable write or outside call; crash |

`RunFacts` and `CampaignFacts` hold no variables: a journal is the state it
replays to, and an append is the effect of an event whose guard holds. This is
what lets `JournalLaw` (any writer) and `StageExecution` (the orchestrator)
share one law; `StageExecution` asks with `AppendsAreAdmitted` when the
orchestrator appends what the law refuses, and `CampaignLedger` and
`CampaignTrial` share the accounting in the same way. The `MC...` modules give
constants their values.

Abstractions. Digests, artifacts, measurements and provenance are left out: no
modelled decision reads them. A stage job is named by its candidate and stage,
because `evaluation_job_id` derives its identity from them. Tokens, seconds and
bytes are small vectors with the dimensions of the code, among them the derived
`total_tokens`. A record of a journal is written in parts, so that it can be
torn. Clocks appear only as a choice: a deadline or a budget may be met
wherever the code consults one. After a power loss the journal file is one of
the images it had since the last fsync; a file system that reorders operations
on one file is not modelled.

Definitions commented "Faulty variant" are plausible bugs in the definition
that follows them. No specification uses them; each is there to show that a
property can fail.

## Runs

Evaluation.

- `walk` takes every acyclic graph on three stages with every choice of gates
  and producers, and four outcomes. Three stages have chains, forks, joins and
  independent stages. It checks that scoring is decided and not waiting when no
  stage is left (`DecisionIsTerminal`), that a blocked decision names failed
  stages (`BlockersExplainFailure`), that a verdict on the gates is final, and
  that the two loops of the code agree with their reference definitions
  (`OrderIsTopological`, `WorklistFindsAncestors`).

Run journal.

- `journal_law_evaluations` has three stages that may be open at once, and
  `journal_law_tools` two actors, a licensed executor tool and a controller
  tool, a provider request, a checkpoint and a restore. The two halves meet
  only in the guards of stopping, which both have. The first checks that
  a started evaluation can be completed with any outcome once its job has ended
  (`StartedCanComplete`: what `evaluation_completed` checks never refuses what
  `evaluation_started` let in, however stages overlap), that a
  scoring decision stays current, that success is earned and that no fact is
  revised; the second that license custody lies inside dispatch and dispatch
  inside an open request, and that nothing stops with work in flight.
- `journal_file`: two processes, two appended batches and a transaction,
  records of three parts, two deaths and two power losses. Two batches are
  needed for a stale position, a third for a commit after a repair. The file
  implements `AppendLog` (`AbstractSpec`). An append that finds its batch
  already in the file returns without an fsync; such a return is not an
  acknowledgement in the sense of `AppendLog`, and a batch whose first writer
  died before its fsync may still be lost after it.

Orchestrator.

- `stage_execution`: a join of three stages, one licensed, storage, every call
  failing or not, every append refused, failing or failing after its record is
  in the file, a cancel at any time, a checkpoint to resume from and two crashes
  (the second during the recovery from the first).
  `AppendsAreAdmitted` says of every append of the orchestrator, its ends, its
  reconciliation and its restore included, that replay admits it, and names the
  exceptions exactly: what a handler appends again after an append that raised
  with its record written, and an end or a termination over a lease whose
  `license_lease_acquired` was written by an append that raised
  (`_acquire_license` gives the lease back and forgets it, so nothing ever closes
  it in the journal). Evaluations never overlap although failing calls and
  crashes leave them open (`OneEvaluationAtATime`), a journaled release is a
  returned lease, storage outlives its job, and only completed jobs promote.
- `stage_crash`: two candidates in training mode, no storage, no failing
  calls, two crashes, the second possibly between the termination and the
  restoration of an incarnation: nothing else runs when a stage is launched, nothing
  at all once the run has ended, and the run ends (`RunEnds`). Only the process that owns the active
  incarnation may advance or end a run (`_require_active_incarnation`), so
  `RunEnds` excepts a run whose owner died before its first checkpoint
  (`Stranded`). Fairness: the worker takes its next step (a thread of a live
  process; after a crash someone resumes the run and advances it) and a job ends
  (a job has a wall-clock limit). Neither a cancel nor a checkpoint is assumed
  to happen.
- `stage_uncertain_submission` (violated): see Findings.

Campaigns.

- `campaign_ledger`: two runners that crash and recover at any time, two
  trials, two reservations, so that a late settlement meets a recovery. Two
  requests fill the tokens exactly, a second unit of work is rejected, usage may
  exceed its claim. It checks the limits, that the totals add up, that a
  request is not attempted twice, that every dispatch is charged, and that
  outcomes are final.
- `trial_dispatch`: two trials, up to two requests each, six kinds of fault and
  a crash between any two durable steps: a provider call is covered by a
  dispatched reservation (`CallsAreCovered`), recovery charges what the run
  journal knows (`RecoveryHasEvidence`, `ChargesMatchRun`), the campaign can
  always be stopped, and a trial's work is dispatched once.
- `trial_progress`: no faults, up to two crashes, and caps of two requests and
  three turns that the campaign may or may not reach, by work or by a request.
  Within the caps and without a crash it is reported; a cap met by work or by a
  request after a trial's first ends it; and a trial interrupted outside an
  exchange gets an outcome (`InterruptedTrialIsSettled`), if not by continuing:
  see `trial_interrupted`. Fairness: the operation takes its next step, and
  after a crash it is started again.
- `trial_interrupted`, `trial_first_cap` (violated): see Findings.

Deadlock is not checked where a system stops for good: an ended run, a spent
bound of reservations, deaths or crashes. It is checked in the campaign runs of
`CampaignTrial`, whose operation is always started again.

## Findings

Each is a disagreement between the code and a text of the repository, shown by
a run whose property states the text.

- `stage_uncertain_submission`: a launch that raises after the job was
  submitted is journaled as finished although nothing was cancelled.
- `trial_interrupted`: interrupted trials do not all continue. Its property has
  two halves and the code breaks each of them, also when TLC is given that half
  alone. A crash inside a provider exchange leaves a trial that can be neither
  continued nor ended (`InterruptedTrialGetsOutcome`). And a trial that has
  reached the provider and is resumed by another operation is refused every
  further request, because each operation makes its own random security
  attestation and all requests of a run must share one
  (`ReservedRequestIsSent`): the trial is restored only to end as an
  infrastructure failure. `trial_progress` shows that every trial interrupted
  outside an exchange does end in an outcome.
- `trial_first_cap`: a cap met by the first request of a trial blocks the
  campaign. `trial_progress` shows that every later cap ends it as documented.

## Proofs

- `PromotionProofs`: lemmas on the graph. Acyclicity gives a ready stage
  whenever something is waited for, so a scorer never waits when nothing is
  ready.
- `EvaluationWalkProofs`: types, valid results, terminal decisions, earned
  success, final verdicts, for every finite graph. Success alone is not
  inductive: `WalkInv` adds that a recorded decision is the eligibility of the
  current results.
- `JournalLawProofs`: types, completable evaluations, current scoring, earned
  success, nested custody, quiescent stops, and that facts are never revised, for any
  task, candidates, actors, requests, processes and generations. Every event has a lemma
  saying which fields it changes. `LawInv` adds to the properties that an
  unstarted run is not over, that results sit above promoting dependencies and
  that only executor requests are dispatched. `StartedEvaluationsComplete` needs
  besides that the dependencies of an open evaluation have promoted and that its
  journal can be extended (`OpenIsSupported`).
- `CampaignLedgerProofs`: limits, final outcomes and single attempts, for any
  schedule, limits, claims and number of runners. `IInv` adds that only trials
  without an outcome have open reservations, that a request is reserved only
  while it was never attempted, and only once, and that a request whose attempt
  could be retried has poisoned the campaign. It says the same of the
  projection inside an unfinished recovery transaction, which moreover leaves
  closed trials alone. Without the first a settlement could change a closed
  trial; without the others a retry could follow an attempt.
- `JournalFileProofs`: types with mutual exclusion, decodability, ownership of
  positions, and `Refinement`: the file implements `AppendLog`. `Inv` says what
  the holder of the lock has done so far to the file (`Holding`), and that every
  image the disk may hold is a prefix of the file that keeps the acknowledged
  batches (`OnDisk`). It is needed because decodability survives a write only
  if the tail is exactly the holder's own.

The assumptions are those named in the modules: stages are finitely many
numbers, the limits are ordered as `CampaignSpec` validates them, claims and
usages are vectors of naturals, `Parts` is positive, and special values are
distinct.

Only model-checked: everything about `StageExecution` and `CampaignTrial`,
`TotalsAddUp`, `EveryDispatchIsCharged`, `BlockersExplainFailure`, the loop
definitions of `Promotion`, and all liveness
(the prover has no fairness rule for `ENABLED`).

## Not modelled

`PROJECT.json` lists every component with its status and reason. Documents,
schemas, projections, the command line and the scans of working trees have no
state to interleave. `StageExecution` models runs with a participant; a run
without one has no incarnation and never restores. Executors, the artifact store, the files of a
checkpoint, the participant's turn, security attestations, authoring and drivers have state and
are on the plan.

## Plan

In order; each step has its module, the question it asks, and what it composes
with.

1. `ParticipantTurn`: the controller's action, the executor tool dispatcher and
   the closing of interrupted tools over `RunFacts`, two processes and a crash;
   tool and request budgets; two starters of one run.
2. `Checkpoint`: marker in the store, then artifact and checkpoint events;
   restore; composed with `ParticipantTurn` for the incarnation handover.
3. `ArtifactStore`: put under quota, temporary files, link and verify with
   crashes and power loss; abstract specification: a map from digest to blob
   that only grows.
4. Executors. An abstract `Executor` (launch, inspect, cancel, collect,
   abandon, at most one job per invocation), implemented by `SlurmJob` (record
   phases against a scheduler), `LocalProcess`, `RootlessStorage` and
   `VmBroker`; `StageExecution` then rests on `Executor`.
5. `LicenseProvider`: expiry and renewal.
6. Pure modules with reference definitions: score expressions, campaign
   schedule, release gates, driver admission, authoring frames.
7. `RunDirectory`: creation of a run by staging and rename.
8. Security attestations and the authoring provider's publication.
9. Proofs: the safety of `StageExecution` (`StorageOutlivesJob`,
   `ReleasedIsReturned`), charge conservation in `CampaignLedger`,
   `CallsAreCovered` of `CampaignTrial`, and the refinements of step 4.
