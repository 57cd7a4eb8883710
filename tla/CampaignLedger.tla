--------------------------- MODULE CampaignLedger ---------------------------
(***************************************************************************)
(* The runners of a paid campaign (CampaignRunner and CampaignReservation  *)
(* of providers/campaign_runner.py).  Every runner is a process over the   *)
(* same campaign journal; it may crash and lose its reservation handles,   *)
(* and another may reopen the journal while it lives, for CampaignRunner   *)
(* itself takes no lock beyond a transaction.                              *)
(*                                                                         *)
(* A transaction of the campaign journal holds the file lock from its read *)
(* to its write, so an action is one transaction.  The loop of the         *)
(* recovery transaction is spelled out: txn holds the projection it works  *)
(* on and the reservations it has still to close, and nothing is durable   *)
(* before it commits.                                                      *)
(***************************************************************************)
EXTENDS CampaignFacts, FiniteSets

CONSTANTS
  TokenClaims,         \* token claims a request may reserve
  WorkClaims,          \* resource claims a unit of work may reserve
  Usages,              \* token usage a provider may report
  WorkActuals,         \* resources a unit of work may turn out to use
  Runners,             \* campaign runner processes over the same journal
  MaxReservations      \* bound on the reservations ever made

ASSUME InputsAssumption ==
  /\ TokenClaims \subseteq TokenVectors /\ Usages \subseteq TokenVectors
  /\ WorkClaims \subseteq Resources /\ WorkActuals \subseteq Resources
  /\ \A w \in WorkClaims \cup WorkActuals : \A f \in ProviderFields : w[f] = 0
  /\ \A w \in WorkClaims : \E f \in WorkFields : w[f] > 0

VARIABLES
  ledger,    \* the projection of the durable campaign journal
  handles,   \* per runner its active reservations, with the handle's dispatched flag
  closed,    \* the runners that built a report
  txn        \* the recovery transaction that holds the journal lock

vars == <<ledger, handles, closed, txn>>

NoTxn == [runner |-> "none"]

Idle == txn = NoTxn

Init ==
  /\ ledger = EmptyLedger
  /\ handles = [n \in Runners |-> << >>]
  /\ closed = {}
  /\ txn = NoTxn

Open(n) == n \notin closed

Holds(n, r) == r \in DOMAIN handles[n]

AddHandle(n, r, dispatched) ==
  handles' = [handles EXCEPT ![n] =
                [x \in DOMAIN @ \cup {r} |-> IF x = r THEN dispatched ELSE @[x]]]

DropHandle(n, r) == handles' = [handles EXCEPT ![n] = Without(@, r)]

(* The transaction of reserve_provider_attempt and of reserve_work: the    *)
(* claim is reserved, or its rejection is recorded as a budget stop.       *)
Reserve(n, t, k, claim) ==
  /\ Open(n)
  /\ Ready(ledger, t)
  /\ k # NoKey => MayRetry(ledger, t, k)
  /\ IF Rejected(ledger, t, claim)
     THEN /\ ledger' = BudgetStopped(ledger, t, claim)
          /\ UNCHANGED handles
     ELSE /\ k # NoKey => MayAttempt(ledger, t, k, claim)
          /\ ledger.issued < MaxReservations
          /\ ledger' = ReservationCreated(ledger, t, k, claim)
          /\ AddHandle(n, ledger.issued + 1, FALSE)
  /\ UNCHANGED <<closed, txn>>

ReserveProvider(n, t, k, tokens) ==
  /\ Idle
  /\ Reserve(n, t, k, RequestResources(tokens))

ReserveWork(n, t, claim) ==
  /\ Idle
  /\ Reserve(n, t, NoKey, claim)

(* resume_work_reservation: adopt the one durable work reservation.        *)
ResumeWork(n, t, r) ==
  /\ Idle /\ Open(n)
  /\ WorkOf(ledger, t) = {r}
  /\ ~Holds(n, r)
  /\ AddHandle(n, r, ledger.reservations[r].dispatched)
  /\ UNCHANGED <<ledger, closed, txn>>

MarkDispatched(n, r) ==
  /\ Idle
  /\ Holds(n, r) /\ ~handles[n][r]
  /\ r \in Active(ledger) /\ ~ledger.reservations[r].dispatched
  /\ ledger' = ReservationDispatched(ledger, r)
  /\ AddHandle(n, r, TRUE)
  /\ UNCHANGED <<closed, txn>>

Cancel(n, r) ==
  /\ Idle
  /\ Holds(n, r) /\ ~handles[n][r]
  /\ r \in Active(ledger) /\ ~ledger.reservations[r].dispatched
  /\ ledger' = ReservationCancelled(ledger, r)
  /\ DropHandle(n, r)
  /\ UNCHANGED <<closed, txn>>

(* What settle_work, finalize_run and settle_provider ask of a handle and  *)
(* of the durable reservation.                                             *)
MaySettle(n, r, provider) ==
  /\ Idle
  /\ Holds(n, r) /\ handles[n][r]
  /\ r \in Active(ledger) /\ ledger.reservations[r].dispatched
  /\ IsProvider(ledger.reservations[r]) = provider

SettleWork(n, r, actual) ==
  /\ MaySettle(n, r, FALSE)
  /\ ledger' = Settle(ledger, r, actual)
  /\ DropHandle(n, r)
  /\ UNCHANGED <<closed, txn>>

(* finalize_run: the settlement and the outcome in one transaction.        *)
FinalizeRun(n, r, actual, requests) ==
  LET t == ledger.reservations[r].trial
      settled == Settle(ledger, r, actual)
  IN /\ MaySettle(n, r, FALSE)
     /\ MayEndTrial(settled, t, "completed_run")
     /\ RequestsMatch(settled, t, requests)
     /\ ledger' = TrialOutcomeRecorded(settled, t, "completed_run")
     /\ DropHandle(n, r)
     /\ UNCHANGED <<closed, txn>>

(* settle_provider: a completed attempt may carry usage; a failed one      *)
(* never does, and is charged its claim.                                   *)
SettleProvider(n, r, disposition, known, usage) ==
  /\ MaySettle(n, r, TRUE)
  /\ disposition = "retryable_failure" => MaxRequestAttempts > 1
  /\ known => disposition = "completed"
  /\ ~known => usage = [f \in TokenFields |-> ledger.reservations[r].claim[f]]
  /\ ledger' = ProviderAttemptSettled(ledger, r, disposition, known, usage)
  /\ DropHandle(n, r)
  /\ UNCHANGED <<closed, txn>>

(* record_outcome *)
RecordOutcome(n, t, disposition, requests) ==
  /\ Idle /\ Open(n)
  /\ MayEndTrial(ledger, t, disposition)
  /\ disposition = "completed_run" => RequestsMatch(ledger, t, requests)
  /\ ledger' = TrialOutcomeRecorded(ledger, t, disposition)
  /\ UNCHANGED <<handles, closed, txn>>

StopUnfinished(n) ==
  /\ Idle /\ Open(n)
  /\ Active(ledger) = {}
  /\ Unfinished(ledger) # {}
  /\ ledger' = AllStopped(ledger)
  /\ UNCHANGED <<handles, closed, txn>>

(* build_report: project_campaign_report refuses an unfinished campaign.   *)
BuildReport(n) ==
  /\ Idle /\ Open(n)
  /\ Unfinished(ledger) = {}
  /\ closed' = closed \cup {n}
  /\ UNCHANGED <<ledger, handles, txn>>

(* recover_incomplete_dispatches (of = Trials, every reservation) and      *)
(* recover_incomplete_provider_dispatches (of = {t}, with what the run     *)
(* journal of t knows about its provider requests).                        *)
RecoverAll(n) ==
  /\ Idle /\ Open(n)
  /\ Active(ledger) # {}
  /\ txn' = [runner |-> n, todo |-> Active(ledger), work |-> ledger, evidence |-> FALSE]
  /\ UNCHANGED <<ledger, handles, closed>>

RecoverProviders(n, t) ==
  /\ Idle /\ Open(n)
  /\ ProvidersOf(ledger, t) # {}
  /\ txn' = [runner |-> n, todo |-> ProvidersOf(ledger, t), work |-> ledger, evidence |-> TRUE]
  /\ UNCHANGED <<ledger, handles, closed>>

(* Faulty variant: a dispatched reservation is given back. *)
RecoverOneByCancelling(r) ==
  /\ ~Idle /\ r \in txn.todo
  /\ txn' = [txn EXCEPT !.todo = @ \ {r}, !.work = ReservationCancelled(@, r)]
  /\ UNCHANGED <<ledger, handles, closed>>

(* One turn of the loop: an undispatched reservation is cancelled, a       *)
(* dispatched one is charged its claim, or the usage the run journal has.  *)
RecoverOne(r) ==
  LET L == txn.work
      res == L.reservations[r]
      claimed == [f \in TokenFields |-> res.claim[f]]
      closing == IF ~res.dispatched THEN {ReservationCancelled(L, r)}
                 ELSE IF ~IsProvider(res) THEN {Settle(L, r, res.claim)}
                 ELSE {ProviderAttemptSettled(L, r, "terminal_failure", FALSE, claimed)}
                      \cup (IF txn.evidence
                            THEN {ProviderAttemptSettled(L, r, "completed", FALSE, claimed)}
                                 \cup {ProviderAttemptSettled(L, r, "completed", TRUE, u) : u \in Usages}
                            ELSE {})
  IN /\ ~Idle /\ r \in txn.todo
     /\ \E work \in closing : txn' = [txn EXCEPT !.todo = @ \ {r}, !.work = work]
     /\ UNCHANGED <<ledger, handles, closed>>

RecoverCommit ==
  /\ ~Idle /\ txn.todo = {}
  /\ ledger' = txn.work
  /\ txn' = NoTxn
  /\ UNCHANGED <<handles, closed>>

(* The process dies: its handles, and a transaction of its that was not    *)
(* committed, are gone; a new process takes its place.                     *)
Crash(n) ==
  /\ handles' = [handles EXCEPT ![n] = << >>]
  /\ closed' = closed \ {n}
  /\ txn' = IF ~Idle /\ txn.runner = n THEN NoTxn ELSE txn
  /\ UNCHANGED ledger

(* What a run journal may say about the provider requests of a trial.      *)
RunRequests == UNION {[K -> BOOLEAN] : K \in SUBSET Keys}

Ids == 1..MaxReservations

Next ==
  \/ \E n \in Runners, t \in Trials :
       \/ \E k \in Keys, c \in TokenClaims : ReserveProvider(n, t, k, c)
       \/ \E c \in WorkClaims : ReserveWork(n, t, c)
       \/ \E r \in Ids : ResumeWork(n, t, r)
       \/ \E d \in {"completed_run", "failed_before_run", "not_dispatched"}, q \in RunRequests :
            RecordOutcome(n, t, d, q)
       \/ RecoverProviders(n, t)
  \/ \E n \in Runners, r \in Ids :
       \/ MarkDispatched(n, r)
       \/ Cancel(n, r)
       \/ \E w \in WorkActuals : SettleWork(n, r, w)
       \/ \E w \in WorkActuals, q \in RunRequests : FinalizeRun(n, r, w, q)
       \/ \E d \in {"completed", "retryable_failure", "terminal_failure"}, known \in BOOLEAN,
             u \in Usages \cup TokenClaims : SettleProvider(n, r, d, known, u)
  \/ \E n \in Runners : StopUnfinished(n) \/ BuildReport(n) \/ RecoverAll(n) \/ Crash(n)
  \/ \E r \in Ids : RecoverOne(r)
  \/ RecoverCommit

Spec == Init /\ [][Next]_vars
(* ------------------------------------------------------------------------ *)
(* Properties                                                               *)
(* ------------------------------------------------------------------------ *)

LedgerType(L) ==
  /\ L.issued \in 0..MaxReservations
  /\ L.reservations \in
       [DOMAIN L.reservations -> [trial : Trials, key : Keys \cup {NoKey},
                                  claim : Resources, dispatched : BOOLEAN]]
  /\ DOMAIN L.reservations \subseteq 1..L.issued
  /\ L.committed \in Resources /\ L.reserved \in Resources
  /\ L.global_stop \in Dimensions \cup {NoDimension}
  /\ L.trial_stop \in [Trials -> Dimensions \cup {NoDimension}]
  /\ L.violation \in BOOLEAN
  /\ \A t \in Trials :
       /\ L.trial[t].committed \in Resources /\ L.trial[t].reserved \in Resources
       /\ L.trial[t].cancelled \subseteq Keys
       /\ L.trial[t].outcome \in
            {NoOutcome, "completed_run", "failed_before_run", "not_dispatched"}

(* The projection, the handles and the open transaction are well formed:   *)
(* in particular no total that _MutableResources.subtract works on ever    *)
(* drops below zero.                                                       *)
TypeOK ==
  /\ LedgerType(ledger)
  /\ handles \in [Runners -> UNION {[R -> BOOLEAN] : R \in SUBSET Ids}]
  /\ closed \subseteq Runners
  /\ txn # NoTxn => LedgerType(txn.work) /\ txn.todo \subseteq Active(txn.work)

(* Everything charged and everything still claimed fits the limits of the  *)
(* campaign and of each trial, in every dimension, unless the ledger says  *)
(* that some usage was above its claim or unknown                          *)
(* (reservation_rejection against _settle).                                *)
Fits(committed, reserved, limit) ==
  \A d \in Dimensions : Amount(Plus(committed, reserved), d) <= limit[d]

WithinLimits ==
  ~ledger.violation =>
     /\ Fits(ledger.committed, ledger.reserved, GlobalLimit)
     /\ \A t \in Trials : Fits(ledger.trial[t].committed, ledger.trial[t].reserved, TrialLimit)

(* A trial with an outcome is closed for good: no reservation of it is     *)
(* open, so no recovery, late settlement or adopted handle changes what    *)
(* its outcome was recorded over (_apply_trial_outcome).                   *)
TerminalIsFinal ==
  [][\A t \in Trials : ledger.trial[t].outcome # NoOutcome =>
        ledger'.trial[t] = ledger.trial[t]]_vars

(* No provider request is attempted twice, whatever the retry policy       *)
(* allows: an attempt that may be retried has no usage, and an attempt     *)
(* without usage poisons the campaign (_apply_provider_settlement against  *)
(* ready_campaign_projection).                                             *)
AtMostOneAttempt ==
  \A t \in Trials, k \in Keys :
     LET attempts == ledger.trial[t].attempts[k]
         open == {r \in Active(ledger) : /\ ledger.reservations[r].trial = t
                                         /\ ledger.reservations[r].key = k}
     IN /\ Len(attempts) <= 1
        /\ open # {} => attempts = << >>
        /\ \A r, s \in open : r = s

(* A provider call is never forgotten: a dispatched request stays an open  *)
(* reservation until it is charged, through crashes and through recovery   *)
(* by another runner (recover_incomplete_dispatches).                      *)
ProviderCalls(L) ==
  L.committed["requests"]
  + Cardinality({r \in Active(L) : IsProvider(L.reservations[r]) /\ L.reservations[r].dispatched})

EveryDispatchIsCharged == [][ProviderCalls(ledger') >= ProviderCalls(ledger)]_vars
=============================================================================
