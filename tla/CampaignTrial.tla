---------------------------- MODULE CampaignTrial ----------------------------
(***************************************************************************)
(* A campaign operation (execute_campaign_operation) dispatches the trials *)
(* of its schedule one after the other (CampaignTrialDispatcher.dispatch). *)
(* Two journals must stay in step: the campaign journal, whose projection  *)
(* is the ledger of CampaignFacts, and the run journal of every trial.     *)
(* Between them stands the provider exchange of MeteredResponsesSender,    *)
(* observed by the run journal's recorder.                                 *)
(*                                                                         *)
(* An operation is one process; the exclusive lock of the state root       *)
(* refuses a second one, so op is the only process there is.  It may crash *)
(* between any two durable steps.  A run journal is kept as the facts the  *)
(* exchange depends on:                                                    *)
(*   phase        absent, started or ended,                                *)
(*   requests     provider requests with what the response said,           *)
(*   tool         whether a participant tool request is open,              *)
(*   checkpoint   whether a checkpoint is committed,                       *)
(*   incarnation  none, current (this process), dead, or terminated (its   *)
(*                termination is journaled, its restoration is not),       *)
(*   attestation  the security attestation its requests share: none yet,   *)
(*                current (of this operation's admission) or earlier.      *)
(* Candidate submission and evaluation are steps between two participant   *)
(* actions and change none of these facts.                                 *)
(***************************************************************************)
EXTENDS CampaignFacts, FiniteSets

CONSTANTS
  Schedule,        \* the trials in dispatch order
  TokenClaim,      \* the token claim of every request
  WorkClaim,       \* _run_work_claim
  WorkActuals,     \* what the work of a run may turn out to use
  Usages,          \* token usage a response may report
  MaxRequests,     \* session.model_budget.max_requests
  MaxPerAction,    \* maximum_requests_per_action
  Faults,          \* which of the faults below may happen
  MaxCrashes       \* bound on crashes

FaultKinds == {"admission", "deadline", "observer", "exchange", "usage", "tool"}

ASSUME TrialAssumption ==
  /\ Trials = {Schedule[i] : i \in 1..Len(Schedule)}
  /\ TokenClaim \in TokenVectors /\ Usages \subseteq TokenVectors
  /\ WorkClaim \in Resources /\ WorkActuals \subseteq Resources
  /\ MaxRequests \in Nat \ {0} /\ MaxPerAction \in 1..MaxRequests
  /\ Faults \subseteq FaultKinds /\ MaxCrashes \in Nat

VARIABLES
  ledger,    \* the projection of the campaign journal
  run,       \* the run journal of every trial
  disk,      \* the trials whose runtime directories exist
  op,        \* control state of the operation's process
  calls,     \* the requests the provider has seen
  reported,  \* a campaign report was built
  crashes

vars == <<ledger, run, disk, op, calls, reported, crashes>>

NoTokens == [f \in TokenFields |-> 0]

NoProcess ==
  [pc |-> "idle", trial |-> Schedule[1], key |-> NoKey, reservation |-> 0, left |-> 0,
   known |-> FALSE, usage |-> NoTokens]

AbsentRun ==
  [phase |-> "absent", requests |-> << >>, tool |-> FALSE, checkpoint |-> FALSE,
   incarnation |-> "none", attestation |-> "none"]

Init ==
  /\ ledger = EmptyLedger
  /\ run = [t \in Trials |-> AbsentRun]
  /\ disk = {}
  /\ op = NoProcess
  /\ calls = {}
  /\ reported = FALSE
  /\ crashes = 0

At(pc) == op.pc = pc

Goto(pc) == op' = [op EXCEPT !.pc = pc]

T == op.trial

Unanswered(R) == {k \in DOMAIN R.requests : ~R.requests[k].answered}

(* What the run journal asks before a run ends or an incarnation is        *)
(* terminated.                                                             *)
Quiescent(R) == Unanswered(R) = {} /\ ~R.tool

(* The process exits or dies: its incarnation is no longer alive, and the  *)
(* next admission of the trial will come with another attestation.         *)
Detached ==
  [t \in Trials |->
     [run[t] EXCEPT !.incarnation = IF @ = "current" THEN "dead" ELSE @,
                    !.attestation = IF @ = "current" THEN "earlier" ELSE @]]

(* CampaignOperationRefusal *)
Refuse ==
  /\ op' = NoProcess
  /\ run' = Detached
  /\ UNCHANGED <<ledger, disk, calls, reported, crashes>>

(* execute_campaign_operation: run asks for an untouched campaign journal, *)
(* resume for one with commits.                                            *)
Started == ledger # EmptyLedger

StartOperation(resume) ==
  /\ At("idle")
  /\ resume = Started
  /\ Goto("next")
  /\ UNCHANGED <<ledger, run, disk, calls, reported, crashes>>

(* pending_trials, in the order of the schedule.                           *)
FirstPending ==
  Schedule[CHOOSE i \in 1..Len(Schedule) :
             /\ Schedule[i] \in Unfinished(ledger)
             /\ \A j \in 1..(i - 1) : Schedule[j] \notin Unfinished(ledger)]

Admit ==
  /\ At("next")
  /\ Unfinished(ledger) # {}
  /\ \/ /\ op' = [op EXCEPT !.pc = "workspace", !.trial = FirstPending]
        /\ UNCHANGED <<ledger, run, disk, calls, reported, crashes>>
     \/ "admission" \in Faults /\ Refuse

(* No trial is pending: the report closes the campaign.                    *)
Report ==
  /\ At("next")
  /\ Unfinished(ledger) = {}
  /\ reported' = TRUE
  /\ op' = NoProcess
  /\ run' = Detached
  /\ UNCHANGED <<ledger, disk, calls, crashes>>

(* prepare_trial_workspace: every operation is a new process, so a started *)
(* run belongs to a dead one and is resumed from its checkpoint.           *)
PrepareWorkspace ==
  /\ At("workspace")
  /\ IF \/ run[T].phase = "absent" /\ T \in disk
        \/ run[T].phase = "started" /\ ~run[T].checkpoint
     THEN Refuse
     ELSE /\ disk' = disk \cup {T}
          /\ Goto(IF run[T].phase = "started" THEN "recover" ELSE "start")
          /\ UNCHANGED <<ledger, run, calls, reported, crashes>>

(* recover_incomplete_provider_dispatches, with the requests of the run    *)
(* journal as evidence.  The exchange is sequential, so at most one        *)
(* provider reservation is open.                                           *)
HasEvidence(t) ==
  \A r \in ProvidersOf(ledger, t) :
    LET res == ledger.reservations[r]
    IN IF res.dispatched THEN res.key \in DOMAIN run[t].requests
       ELSE res.key \notin DOMAIN run[t].requests \/ ~run[t].requests[res.key].answered

(* Faulty variant: the claim is charged although the run knows the usage. *)
RecoveredAtClaim(t) ==
  LET r == CHOOSE r \in ProvidersOf(ledger, t) : TRUE
      res == ledger.reservations[r]
      request == run[t].requests[res.key]
  IN IF ProvidersOf(ledger, t) = {} THEN ledger
     ELSE IF ~res.dispatched THEN ReservationCancelled(ledger, r)
     ELSE ProviderAttemptSettled(ledger, r,
            IF request.answered THEN "completed" ELSE "terminal_failure",
            request.known, [f \in TokenFields |-> res.claim[f]])

Recovered(t) ==
  LET r == CHOOSE r \in ProvidersOf(ledger, t) : TRUE
      res == ledger.reservations[r]
      request == run[t].requests[res.key]
  IN IF ProvidersOf(ledger, t) = {} THEN ledger
     ELSE IF ~res.dispatched THEN ReservationCancelled(ledger, r)
     ELSE ProviderAttemptSettled(ledger, r,
            IF request.answered THEN "completed" ELSE "terminal_failure",
            request.known,
            IF request.known THEN request.usage ELSE [f \in TokenFields |-> res.claim[f]])

RecoverProviders(pc, next) ==
  /\ At(pc)
  /\ IF HasEvidence(T)
     THEN /\ ledger' = Recovered(T)
          /\ Goto(next)
          /\ UNCHANGED <<run, disk, calls, reported, crashes>>
     ELSE Refuse

(* reconcile_interrupted_run_work: open tool requests are closed.          *)
Reconcile(pc, next) ==
  /\ At(pc)
  /\ run' = [run EXCEPT ![T].tool = FALSE]
  /\ Goto(next)
  /\ UNCHANGED <<ledger, disk, calls, reported, crashes>>

(* Faulty variant: a termination that is already journaled is not resumed. *)
TerminateIncarnationOnce ==
  /\ At("terminate")
  /\ IF run[T].incarnation = "dead" /\ Quiescent(run[T])
     THEN /\ run' = [run EXCEPT ![T].incarnation = "terminated"]
          /\ Goto("restore")
          /\ UNCHANGED <<ledger, disk, calls, reported, crashes>>
     ELSE Refuse

(* restore_participant_incarnation, its two journal commits.               *)
TerminateIncarnation ==
  /\ At("terminate")
  /\ \/ /\ run[T].incarnation = "terminated"
        /\ Goto("restore")
        /\ UNCHANGED <<ledger, run, disk, calls, reported, crashes>>
     \/ /\ run[T].incarnation = "dead"
        /\ IF Quiescent(run[T])
           THEN /\ run' = [run EXCEPT ![T].incarnation = "terminated"]
                /\ Goto("restore")
                /\ UNCHANGED <<ledger, disk, calls, reported, crashes>>
           ELSE Refuse

RestoreIncarnation ==
  /\ At("restore")
  /\ run' = [run EXCEPT ![T].incarnation = "current"]
  /\ Goto("start")
  /\ UNCHANGED <<ledger, disk, calls, reported, crashes>>

(* RunOrchestrator.create with _start_once.                                *)
StartRun ==
  /\ At("start")
  /\ run' = IF run[T].phase = "absent"
            THEN [run EXCEPT ![T].phase = "started", ![T].incarnation = "current"]
            ELSE run
  /\ Goto("settle")
  /\ UNCHANGED <<ledger, disk, calls, reported, crashes>>

Stopped(L, t) == L.global_stop # NoDimension \/ L.trial_stop[t] # NoDimension

(* Faulty variant: the durable work reservation of the trial is overlooked. *)
ReserveWorkAgain ==
  /\ At("work")
  /\ Ready(ledger, T)
  /\ ledger' = ReservationCreated(ledger, T, NoKey, WorkClaim)
  /\ op' = [op EXCEPT !.pc = "dispatch", !.reservation = ledger.issued + 1]
  /\ UNCHANGED <<run, disk, calls, reported, crashes>>

(* Faulty variant: a cap is looked at before the reservation to adopt. *)
ReserveWorkUnlessStopped ==
  /\ At("work")
  /\ IF Stopped(ledger, T) THEN Goto("stop") /\ UNCHANGED ledger
     ELSE IF WorkOf(ledger, T) # {}
     THEN /\ \E r \in WorkOf(ledger, T) : op' = [op EXCEPT !.pc = "run", !.reservation = r]
          /\ UNCHANGED ledger
     ELSE /\ ledger' = ReservationCreated(ledger, T, NoKey, WorkClaim)
          /\ op' = [op EXCEPT !.pc = "dispatch", !.reservation = ledger.issued + 1]
  /\ UNCHANGED <<run, disk, calls, reported, crashes>>

(* Faulty variant: a cap reached earlier is an error and not the end of the campaign. *)
ReserveWorkStopRefused ==
  /\ At("work")
  /\ IF WorkOf(ledger, T) # {}
     THEN /\ \E r \in WorkOf(ledger, T) : op' = [op EXCEPT !.pc = "run", !.reservation = r]
          /\ UNCHANGED <<ledger, run, disk, calls, reported, crashes>>
     ELSE IF Ready(ledger, T) /\ ~Rejected(ledger, T, WorkClaim)
     THEN /\ ledger' = ReservationCreated(ledger, T, NoKey, WorkClaim)
          /\ op' = [op EXCEPT !.pc = "dispatch", !.reservation = ledger.issued + 1]
          /\ UNCHANGED <<run, disk, calls, reported, crashes>>
     ELSE Refuse

(* resume_work_reservation, or else reserve_work; a cap ends the campaign. *)
ReserveWork ==
  /\ At("work")
  /\ LET open == WorkOf(ledger, T)
         claim == WorkClaim
     IN \/ /\ open # {}
           /\ \E r \in open :
                op' = [op EXCEPT !.reservation = r,
                         !.pc = IF ledger.reservations[r].dispatched THEN "run" ELSE "dispatch"]
           /\ UNCHANGED <<ledger, run, disk, calls, reported, crashes>>
        \/ /\ open = {} /\ Stopped(ledger, T)
           /\ Goto("stop")
           /\ UNCHANGED <<ledger, run, disk, calls, reported, crashes>>
        \/ /\ open = {} /\ ~Stopped(ledger, T) /\ ~Ready(ledger, T)
           /\ Refuse
        \/ /\ open = {} /\ Ready(ledger, T)
           /\ IF Rejected(ledger, T, claim)
              THEN /\ ledger' = BudgetStopped(ledger, T, claim)
                   /\ Goto("stop")
              ELSE /\ ledger' = ReservationCreated(ledger, T, NoKey, claim)
                   /\ op' = [op EXCEPT !.pc = "dispatch", !.reservation = ledger.issued + 1]
           /\ UNCHANGED <<run, disk, calls, reported, crashes>>

DispatchWork ==
  /\ At("dispatch")
  /\ ledger' = ReservationDispatched(ledger, op.reservation)
  /\ Goto("run")
  /\ UNCHANGED <<run, disk, calls, reported, crashes>>

(* run_to_completion: an ended run is left; otherwise the participant acts *)
(* or the run ends, by a budget stop or by its evaluation.  Before the     *)
(* first request only a time budget can end it.                            *)
Advance ==
  /\ At("advance")
  /\ \/ /\ run[T].phase = "ended"
        /\ Goto("finish")
        /\ UNCHANGED run
     \/ /\ run[T].phase = "started"
        /\ op' = [op EXCEPT !.pc = "ask", !.left = MaxPerAction]
        /\ UNCHANGED run
     \/ /\ run[T].phase = "started" /\ Quiescent(run[T])
        /\ run[T].requests # << >> \/ "deadline" \in Faults
        /\ run' = [run EXCEPT ![T].phase = "ended"]
        /\ UNCHANGED op
  /\ UNCHANGED <<ledger, disk, calls, reported, crashes>>

(* next_intent and MeteredResponsesSender.request, step by step.  A        *)
(* request key is drawn by uuid4 and never comes twice.                    *)
UsedKeys(t) ==
  DOMAIN run[t].requests \cup {k \in Keys : ledger.trial[t].attempts[k] # << >>}
    \cup ledger.trial[t].cancelled

FreshKey(t) == CHOOSE k \in Keys \ UsedKeys(t) : TRUE

Ask ==
  /\ At("ask")
  /\ LET k == FreshKey(T)
         claim == RequestResources(TokenClaim)
         withinBudget == op.left > 0 /\ Cardinality(DOMAIN run[T].requests) < MaxRequests
     IN \/ /\ ~withinBudget \/ ~Ready(ledger, T)
           /\ Goto("fail")
           /\ UNCHANGED ledger
        \/ /\ withinBudget /\ Ready(ledger, T) /\ Rejected(ledger, T, claim)
           /\ ledger' = BudgetStopped(ledger, T, claim)
           /\ Goto("fail")
        \/ /\ withinBudget /\ Ready(ledger, T) /\ ~Rejected(ledger, T, claim)
           /\ ledger' = ReservationCreated(ledger, T, k, claim)
           /\ op' = [op EXCEPT !.pc = "observe", !.key = k, !.left = @ - 1]
  /\ UNCHANGED <<run, disk, calls, reported, crashes>>

Exchange == CHOOSE r \in ProvidersOf(ledger, T) : ledger.reservations[r].key = op.key

(* Faulty variant: the run journal learns of a request with its response only. *)
RequestReservedUnseen ==
  /\ At("observe")
  /\ Goto("send")
  /\ UNCHANGED <<ledger, run, disk, calls, reported, crashes>>

(* request_reserved: the run journal learns of the request before it is    *)
(* dispatched.  A request under another attestation than the run's earlier *)
(* requests is refused; a failure cancels the reservation.                 *)
RequestReserved ==
  /\ At("observe")
  /\ \/ /\ run[T].attestation # "earlier"
        /\ run' = [run EXCEPT ![T].attestation = "current",
                              ![T].requests =
                     [k \in DOMAIN @ \cup {op.key} |->
                        IF k = op.key
                        THEN [answered |-> FALSE, known |-> FALSE, usage |-> NoTokens]
                        ELSE @[k]]]
        /\ Goto("send")
        /\ UNCHANGED ledger
     \/ /\ run[T].attestation = "earlier" \/ "observer" \in Faults
        /\ ledger' = ReservationCancelled(ledger, Exchange)
        /\ Goto("fail")
        /\ UNCHANGED run
  /\ UNCHANGED <<disk, calls, reported, crashes>>

(* Faulty variant: the provider is called although no dispatch is durable. *)
MarkDispatchedNowhere ==
  /\ At("send")
  /\ Goto("exchange")
  /\ UNCHANGED <<ledger, run, disk, calls, reported, crashes>>

MarkDispatched ==
  /\ At("send")
  /\ ledger' = ReservationDispatched(ledger, Exchange)
  /\ Goto("exchange")
  /\ UNCHANGED <<run, disk, calls, reported, crashes>>

(* The transport: an answer with its usage, or a failure, which is charged *)
(* its claim and whose usage is unknown.                                   *)
Claimed == [f \in TokenFields |-> ledger.reservations[Exchange].claim[f]]

CallProvider ==
  /\ At("exchange")
  /\ calls' = calls \cup {<<T, op.key>>}
  /\ \/ /\ \E u \in Usages : op' = [op EXCEPT !.pc = "record", !.known = TRUE, !.usage = u]
        /\ UNCHANGED ledger
     \/ /\ "usage" \in Faults
        /\ op' = [op EXCEPT !.pc = "record", !.known = FALSE, !.usage = NoTokens]
        /\ UNCHANGED ledger
     \/ /\ "exchange" \in Faults
        /\ \E d \in {"retryable_failure", "terminal_failure"} :
             ledger' = ProviderAttemptSettled(ledger, Exchange, d, FALSE, Claimed)
        /\ Goto("fail")
  /\ UNCHANGED <<run, disk, reported, crashes>>

SettleCompleted ==
  ProviderAttemptSettled(ledger, Exchange, "completed", op.known,
                         IF op.known THEN op.usage ELSE Claimed)

(* response_received, or its failure, after which the attempt is settled   *)
(* all the same.                                                           *)
ResponseReceived ==
  /\ At("record")
  /\ \/ /\ run' = [run EXCEPT ![T].requests[op.key] =
                     [answered |-> TRUE, known |-> op.known, usage |-> op.usage]]
        /\ Goto("charge")
        /\ UNCHANGED ledger
     \/ /\ "observer" \in Faults
        /\ ledger' = SettleCompleted
        /\ Goto("fail")
        /\ UNCHANGED run
  /\ UNCHANGED <<disk, calls, reported, crashes>>

(* settle_completed raises when the usage exceeds the claim; a result      *)
(* without usage, or without one usable tool call, is a channel failure.   *)
Charge ==
  /\ At("charge")
  /\ ledger' = SettleCompleted
  /\ \/ /\ op.known /\ \A f \in TokenFields : op.usage[f] <= Claimed[f]
        /\ Goto("tool")
     \/ /\ ~op.known \/ (\E f \in TokenFields : op.usage[f] > Claimed[f]) \/ "tool" \in Faults
        /\ Goto("fail")
  /\ UNCHANGED <<run, disk, calls, reported, crashes>>

(* The tool call of the response: its request is journaled, it may commit  *)
(* a checkpoint, and its result is journaled.  Then the participant is     *)
(* asked again, or has returned an intent.                                 *)
RecordToolRequest ==
  /\ At("tool")
  /\ run' = [run EXCEPT ![T].tool = TRUE]
  /\ Goto("invoke")
  /\ UNCHANGED <<ledger, disk, calls, reported, crashes>>

InvokeTool ==
  /\ At("invoke")
  /\ \/ run' = [run EXCEPT ![T].checkpoint = TRUE] /\ Goto("result")
     \/ UNCHANGED run /\ Goto("result")
     \/ "tool" \in Faults /\ UNCHANGED run /\ Goto("fail")
  /\ UNCHANGED <<ledger, disk, calls, reported, crashes>>

RecordToolResult ==
  /\ At("result")
  /\ run' = [run EXCEPT ![T].tool = FALSE]
  /\ \E next \in {"ask", "advance", "fail"} :
       (next = "fail" => "tool" \in Faults) /\ Goto(next)
  /\ UNCHANGED <<ledger, disk, calls, reported, crashes>>

(* _act on a ParticipantAdapterError: recover, then end the run.  The      *)
(* journal refuses the end over an open provider request, and the          *)
(* operation is refused.                                                   *)
ParticipantFailed ==
  /\ At("fail")
  /\ IF Unanswered(run[T]) = {}
     THEN /\ run' = [run EXCEPT ![T].tool = FALSE, ![T].phase = "ended"]
          /\ Goto("advance")
          /\ UNCHANGED <<ledger, disk, calls, reported, crashes>>
     ELSE /\ op' = NoProcess
          /\ run' = [Detached EXCEPT ![T].tool = FALSE]
          /\ UNCHANGED <<ledger, disk, calls, reported, crashes>>

(* Faulty variant: the trial is examined before its work is settled. *)
FinalizeRunUnsettled ==
  /\ At("finalize")
  /\ \E actual \in WorkActuals :
       IF MayEndTrial(ledger, T, "completed_run")
       THEN /\ ledger' = TrialOutcomeRecorded(Settle(ledger, op.reservation, actual), T, "completed_run")
            /\ Goto("next")
            /\ UNCHANGED <<run, disk, calls, reported, crashes>>
       ELSE Refuse

(* finalize_run: the work is settled and the outcome recorded at once.     *)
(* Work above its claim is recorded too, and then refused.                 *)
FinalizeRun ==
  /\ At("finalize")
  /\ LET answers == [k \in DOMAIN run[T].requests |-> run[T].requests[k].answered]
     IN \E actual \in WorkActuals :
          LET settled == Settle(ledger, op.reservation, actual)
          IN IF MayEndTrial(settled, T, "completed_run") /\ RequestsMatch(settled, T, answers)
             THEN /\ ledger' = TrialOutcomeRecorded(settled, T, "completed_run")
                  /\ IF Exceeds(actual, WorkClaim)
                     THEN op' = NoProcess /\ run' = Detached
                     ELSE Goto("next") /\ UNCHANGED run
                  /\ UNCHANGED <<disk, calls, reported, crashes>>
             ELSE Refuse

(* _stop_unfinished *)
StopUnfinished ==
  /\ At("stop")
  /\ IF Active(ledger) = {}
     THEN /\ ledger' = AllStopped(ledger)
          /\ Goto("next")
          /\ UNCHANGED <<run, disk, calls, reported, crashes>>
     ELSE Refuse

Crash ==
  /\ ~At("idle")
  /\ crashes < MaxCrashes
  /\ crashes' = crashes + 1
  /\ op' = NoProcess
  /\ run' = Detached
  /\ UNCHANGED <<ledger, disk, calls, reported>>

Step ==
  \/ \E resume \in BOOLEAN : StartOperation(resume)
  \/ Admit
  \/ Report
  \/ PrepareWorkspace
  \/ RecoverProviders("recover", "reconcile")
  \/ Reconcile("reconcile", "terminate")
  \/ TerminateIncarnation
  \/ RestoreIncarnation
  \/ StartRun
  \/ RecoverProviders("settle", "work")
  \/ ReserveWork
  \/ DispatchWork
  \/ Reconcile("run", "advance")
  \/ Advance
  \/ Ask
  \/ RequestReserved
  \/ MarkDispatched
  \/ CallProvider
  \/ ResponseReceived
  \/ Charge
  \/ RecordToolRequest
  \/ InvokeTool
  \/ RecordToolResult
  \/ ParticipantFailed
  \/ RecoverProviders("finish", "finalize")
  \/ FinalizeRun
  \/ StopUnfinished

Next == Step \/ Crash

Spec == Init /\ [][Next]_vars

(* The operation is started again as long as the campaign is unfinished,   *)
(* and a process that does not crash goes on.                              *)
FairSpec == Spec /\ WF_vars(Step)

(* ------------------------------------------------------------------------ *)
(* Properties                                                               *)
(* ------------------------------------------------------------------------ *)

(* The two journals and the process are well formed; an exchange in flight *)
(* holds the one open provider reservation of its trial.                   *)
TypeOK ==
  /\ ledger.committed \in Resources /\ ledger.reserved \in Resources
  /\ \A t \in Trials :
       /\ run[t].phase \in {"absent", "started", "ended"}
       /\ DOMAIN run[t].requests \subseteq Keys
       /\ run[t].incarnation \in {"none", "current", "dead", "terminated"}
       /\ run[t].attestation \in {"none", "current", "earlier"}
       /\ run[t].attestation = "none" <=> run[t].requests = << >>
       /\ Cardinality(ProvidersOf(ledger, t)) <= 1
  /\ disk \subseteq Trials /\ calls \subseteq Trials \X Keys
  /\ At("idle") => \A t \in Trials : run[t].incarnation # "current"
  /\ op.pc \in {"observe", "send", "exchange", "record", "charge"} =>
        \E r \in ProvidersOf(ledger, T) : ledger.reservations[r].key = op.key

(* Everything the provider was asked is accounted for: the request is an   *)
(* attempt that was charged, or a durable reservation that is marked       *)
(* dispatched and will be (request of MeteredResponsesSender).             *)
CallsAreCovered ==
  \A c \in calls :
    \/ ledger.trial[c[1]].attempts[c[2]] # << >>
    \/ \E r \in ProvidersOf(ledger, c[1]) :
         ledger.reservations[r].key = c[2] /\ ledger.reservations[r].dispatched

(* Whenever the process dies, the run journal holds what the recovery of   *)
(* the campaign journal asks for: a dispatched request is known to the     *)
(* run, and one that was not dispatched has no response                    *)
(* (recover_incomplete_provider_dispatches never refuses).                 *)
RecoveryHasEvidence == \A t \in Trials : HasEvidence(t)

(* The work of a trial is dispatched once: its reservation stays open,     *)
(* through crashes, refusals and resumed operations, until the outcome of  *)
(* the trial is recorded with it (resume_work_reservation).                *)
WorkIsDispatchedOnce ==
  [][\A t \in Trials : \A r \in WorkOf(ledger, t) :
        ledger.reservations[r].dispatched =>
           IF ledger'.trial[t].outcome = NoOutcome THEN WorkOf(ledger', t) = {r}
           ELSE WorkOf(ledger', t) = {}]_vars

(* A completed trial was charged exactly what its run journal says it      *)
(* used, request by request, whichever of live settlement and crash        *)
(* recovery charged it (_settle_provider, Recovered).                      *)
ChargedTokens(R, f) ==
  LET sum[K \in SUBSET Keys] ==
        IF K = {} THEN 0
        ELSE LET k == CHOOSE k \in K : TRUE
             IN (IF R.requests[k].known THEN R.requests[k].usage[f] ELSE TokenClaim[f])
                + sum[K \ {k}]
  IN sum[DOMAIN R.requests]

ChargesMatchRun ==
  \A t \in Trials : ledger.trial[t].outcome = "completed_run" =>
     /\ run[t].phase = "ended"
     /\ ledger.trial[t].committed["requests"] = Cardinality(DOMAIN run[t].requests)
     /\ \A f \in TokenFields : ledger.trial[t].committed[f] = ChargedTokens(run[t], f)

(* When a cap ends the campaign, no reservation of any trial is open: the  *)
(* stop is never refused (_stop_unfinished), and a trial it records as not *)
(* dispatched never reached the provider.                                  *)
StopIsNeverRefused ==
  /\ At("stop") => Active(ledger) = {}
  /\ \A t \in Trials : ledger.trial[t].outcome = "not_dispatched" => \A c \in calls : c[1] # t

(* Without faults and crashes, a campaign within its caps is reported      *)
(* (execute_campaign_operation).                                           *)
CampaignCompletes == <>(reported \/ crashes > 0 \/ ledger.global_stop # NoDimension)

(* After the last crash, a trial that was interrupted between exchanges    *)
(* and has a checkpoint, or whose run has ended, gets its outcome: by its  *)
(* evaluation, or by the failure of the next request, which the run        *)
(* refuses for its new attestation.  No reservation stays open behind it   *)
(* (dispatch over restore_participant_incarnation, finalize_run).          *)
Recoverable(t) ==
  /\ run[t].requests # << >> /\ Unanswered(run[t]) = {}
  /\ \/ run[t].phase = "ended"
     \/ run[t].phase = "started" /\ run[t].checkpoint

HasOutcome(t) == ledger.trial[t].outcome # NoOutcome

InterruptedTrialIsSettled ==
  \A t \in Trials : (crashes = MaxCrashes /\ At("idle") /\ Recoverable(t)) ~> HasOutcome(t)

(* After the last crash, an interrupted trial that has a checkpoint gets   *)
(* its outcome, wherever the crash was (restore_participant_incarnation).  *)
InterruptedTrialGetsOutcome ==
  \A t \in Trials :
     (crashes = MaxCrashes /\ At("idle") /\ run[t].phase = "started" /\ run[t].checkpoint)
        ~> HasOutcome(t)

(* After the last crash, a request that the participant of a trial has     *)
(* reserved reaches the provider (request_reserved, then                   *)
(* MeteredResponsesSender.request).                                        *)
ReservedRequestIsSent ==
  \A t \in Trials, k \in Keys :
     (crashes = MaxCrashes /\ At("observe") /\ T = t /\ op.key = k) ~> <<t, k>> \in calls

(* "an interrupted trial continues" (docs/architecture.md): it is settled, *)
(* and until then it can go on asking the provider.  The code breaks both: *)
(* the first after a crash inside an exchange, the second after any crash  *)
(* that follows the trial's first request.                                 *)
InterruptedTrialContinues == InterruptedTrialGetsOutcome /\ ReservedRequestIsSent

(* A cap of the campaign that rejects the work of a trial, or a request    *)
(* after the trial's first, ends every unfinished trial, unless the        *)
(* operation crashes: the running one completes, the others are stopped    *)
(* (dispatch, _stop_unfinished).                                           *)
LaterCapEndsCampaign ==
  (/\ ledger.global_stop # NoDimension
   /\ \A t \in Trials : WorkOf(ledger, t) # {} => run[t].requests # << >>)
     ~> (Unfinished(ledger) = {} \/ crashes > 0)

(* A cap of the campaign that rejects a dispatch ends every unfinished     *)
(* trial (_stop_unfinished).                                               *)
CapEndsCampaign == (ledger.global_stop # NoDimension) ~> (Unfinished(ledger) = {})
=============================================================================
