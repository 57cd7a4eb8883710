------------------------------ MODULE JournalLaw ------------------------------
(***************************************************************************)
(* Every journal that replay accepts: the most general writer, which       *)
(* appends any admitted event next.  Whatever the orchestrator, the        *)
(* participant tools and the recovery code do, a journal they produce is a *)
(* behaviour of this specification, because append_events and              *)
(* transact_events replay the whole journal before they commit.            *)
(***************************************************************************)
EXTENDS RunFacts

CONSTANT MaxGeneration    \* bound on participant restores, for model checking

VARIABLE journal

Init == journal = EmptyJournal

Start ==
  \/ /\ CanStartRun(journal)
     /\ ~RequiresIncarnation
     /\ journal' = StartRun(journal)
  \/ \E p \in Processes :
       /\ CanStartRun(journal)
       /\ journal' = StartIncarnation(StartRun(journal), p)

TerminateIncarnation ==
  \E k \in Checkpoints : CanTerminate(journal, k) /\ journal' = Terminate(journal, k)

RestoreIncarnation ==
  \E k \in Checkpoints, p \in Processes :
    /\ journal.generation < MaxGeneration
    /\ CanRestore(journal, k, p)
    /\ journal' = Restore(journal, p)

ProviderRequestStarted ==
  \E r \in ProviderRequests :
    CanStartProviderRequest(journal, r) /\ journal' = StartProviderRequest(journal, r)

ProviderResponseRecorded ==
  \E r \in ProviderRequests :
    CanRecordResponse(journal, r) /\ journal' = RecordResponse(journal, r)

ToolRequested ==
  \E q \in Requests : CanRequestTool(journal, q) /\ journal' = RequestTool(journal, q)

ToolResolved ==
  \E q \in Requests : CanResolveTool(journal, q) /\ journal' = ResolveTool(journal, q)

ToolReserved ==
  \E q \in Requests : CanReserveTool(journal, q) /\ journal' = ReserveTool(journal, q)

ToolClosed ==
  \E q \in Requests, how \in {"settled", "lost"} :
    CanCloseTool(journal, q) /\ journal' = CloseTool(journal, q, how)

ControlTransferred ==
  \E a \in Actors : CanTransfer(journal, a) /\ journal' = Transfer(journal, a)

CandidateSubmitted ==
  \E c \in Candidates : CanSubmit(journal, c) /\ journal' = Submit(journal, c)

EvaluationStarted ==
  \E c \in Candidates, s \in Stages :
    CanStartEvaluation(journal, c, s) /\ journal' = StartEvaluation(journal, c, s)

JobStateChanged ==
  \E j \in Jobs, state \in JobStates :
    CanChangeJob(journal, j, state) /\ journal' = ChangeJob(journal, j, state)

EvaluationCompleted ==
  \E c \in Candidates, s \in Stages, outcome \in Outcomes :
    /\ CanCompleteEvaluation(journal, c, s, outcome)
    /\ journal' = CompleteEvaluation(journal, c, s, outcome)

ScoringRecorded ==
  \E c \in Candidates, decision \in Decisions :
    /\ CanRecordScoring(journal, c, decision)
    /\ journal' = RecordScoring(journal, c, decision)

LicenseAcquired ==
  \E h \in LeaseHolders : CanDecideLicense(journal, h) /\ journal' = AcquireLicense(journal, h)

LicenseDenied ==
  \E h \in LeaseHolders : CanDecideLicense(journal, h) /\ journal' = DenyLicense(journal, h)

LicenseClosed ==
  \E h \in LeaseHolders : CanCloseLicense(journal, h) /\ journal' = CloseLicense(journal, h)

CheckpointCommitted ==
  \E k \in Checkpoints :
    CanCommitCheckpoint(journal, k) /\ journal' = CommitCheckpoint(journal, k)

RunEnded ==
  \E reason \in Reasons, c \in Candidates \cup {NoCandidate} :
    CanEnd(journal, reason, c) /\ journal' = End(journal, reason, c)

Next ==
  \/ Start \/ TerminateIncarnation \/ RestoreIncarnation
  \/ ProviderRequestStarted \/ ProviderResponseRecorded
  \/ ToolRequested \/ ToolResolved \/ ToolReserved \/ ToolClosed
  \/ ControlTransferred \/ CandidateSubmitted
  \/ EvaluationStarted \/ JobStateChanged \/ EvaluationCompleted \/ ScoringRecorded
  \/ LicenseAcquired \/ LicenseDenied \/ LicenseClosed
  \/ CheckpointCommitted \/ RunEnded

Spec == Init /\ [][Next]_journal
-----------------------------------------------------------------------------
RunStates ==
  [sequence : 0..2, ended : Reasons \cup {"none"},
   winner : Candidates \cup {NoCandidate}, writer : Actors,
   lifecycle : {"none", "active", "terminated"}, generation : Nat,
   owner : Processes \cup {NoProcess},
   candidates : Seq(Candidates), results : [Candidates -> Snapshots],
   scoring : [Candidates -> Decisions], jobs : [Jobs -> JobStates],
   open : SUBSET Jobs, decided : SUBSET LeaseHolders, leases : SUBSET LeaseHolders,
   tools : [Requests -> {"absent", "open", "resolved"}],
   requester : [Requests -> Actors],
   dispatch : [Requests -> {"none", "reserved", "settled", "lost"}],
   provider : [ProviderRequests -> {"absent", "started", "answered"}],
   checkpoints : Seq(Checkpoints), pending : Checkpoints \cup {NoCheckpoint}]

TypeOK == journal \in RunStates

(* Every candidate's results sit above promoting dependencies.             *)
ResultsAreValid == \A c \in Candidates : ValidResults(Task, journal.results[c])

(* An evaluation is open exactly while its job was started and its stage   *)
(* has no result: active_jobs of replay never forgets or duplicates one.   *)
OpenMeansUnfinished ==
  \A c \in Candidates, s \in Stages :
    <<c, s>> \in journal.open <=>
      journal.jobs[<<c, s>>] # "absent" /\ journal.results[c][s] = NoResult

(* An evaluation that was started can be completed, with any outcome, once *)
(* its job has ended: the check of all the candidate's results in          *)
(* evaluation_completed never refuses a stage that evaluation_started      *)
(* found ready, whichever other stages ended in between and however.       *)
(* Refused, it would stay open, and the run could never end.               *)
StartedCanComplete ==
  \A c \in Candidates, s \in Stages, outcome \in Outcomes :
    <<c, s>> \in journal.open /\ journal.jobs[<<c, s>>] \in TerminalJobStates =>
      CanCompleteEvaluation(journal, c, s, outcome)

(* A recorded scoring decision stays the eligibility of the candidate's    *)
(* results: nothing journaled after it can change them.                    *)
ScoringStaysCurrent ==
  \A c \in Candidates : journal.scoring[c] # "none" =>
    /\ journal.scoring[c] = ScorerEligibility(Task, journal.results[c])
    /\ \A s \in Stages : <<c, s>> \notin journal.open

(* Verifier success names a candidate whose gates, measurement producers   *)
(* and all of their ancestors promoted.                                    *)
SuccessIsEarned ==
  journal.ended = "verifier_success" =>
    \A s \in Task.hard_gates \cup Task.producers :
      \A a \in Ancestors(Task, s) \cup {s} : Promotes(journal.results[journal.winner][a])

(* A participant invocation holds a license only between its reservation   *)
(* and its settlement, and a request that has its result has no running    *)
(* invocation: custody never outlives the work it was granted for.         *)
CustodyFollowsDispatch ==
  \A q \in Requests :
    /\ q \in journal.leases => journal.dispatch[q] = "reserved"
    /\ journal.dispatch[q] = "reserved" => journal.tools[q] = "open"

(* A terminated incarnation, and an ended run, left no work in flight.     *)
StoppedIsQuiescent ==
  journal.ended # "none" \/ journal.lifecycle = "terminated" => Quiescent(journal)

(* The journal only grows: results, decisions, terminal jobs, closed       *)
(* dispatches and the end of the run are never revised, and the generation *)
(* of the participant never goes back.                                     *)
FactsAreNeverRevised ==
  [][/\ journal.ended # "none" => journal' = journal
     /\ \A c \in Candidates, s \in Stages :
          journal.results[c][s] # NoResult => journal'.results[c][s] = journal.results[c][s]
     /\ \A c \in Candidates :
          journal.scoring[c] # "none" => journal'.scoring[c] = journal.scoring[c]
     /\ \A j \in Jobs :
          journal.jobs[j] \in TerminalJobStates => journal'.jobs[j] = journal.jobs[j]
     /\ \A q \in Requests :
          journal.dispatch[q] \in {"settled", "lost"} =>
            journal'.dispatch[q] = journal.dispatch[q]
     /\ journal'.generation >= journal.generation]_journal
=============================================================================
