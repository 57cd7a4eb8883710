---------------------------- MODULE CampaignFacts ----------------------------
(***************************************************************************)
(* The accounting of a paid campaign: the projection that replaying the    *)
(* campaign journal yields (providers/campaign_replay.py) as one record L, *)
(* the rules that admit an event, and an operator for the effect of every  *)
(* event.                                                                  *)
(*   trial         per trial what is committed and reserved, the provider  *)
(*                 attempts per request key, the request keys whose        *)
(*                 reservation was cancelled, the outcome, and whether its *)
(*                 accounting was violated,                                *)
(*   reservations  the active reservations by identifier,                  *)
(*   issued        how many identifiers were ever drawn (uuid4),           *)
(*   committed, reserved, global_stop, trial_stop, violation               *)
(*                 the totals, the budget stops and the poison flag.       *)
(* Tokens, turns, seconds and bytes are resource vectors.  The frozen      *)
(* route facts every reservation repeats (model, service tier, token       *)
(* floor, security binding) are fixed for a trial and are left out.        *)
(***************************************************************************)
EXTENDS Integers, Sequences

CONSTANTS
  Trials,              \* the frozen schedule
  Keys,                \* provider request keys
  GlobalLimit,         \* _limits(campaign, per_trial=False)
  TrialLimit,          \* _limits(campaign, per_trial=True)
  RequestLimit,        \* max_input/output_tokens_per_request
  MaxRequestAttempts   \* retry_policy.max_request_attempts

(* CampaignResources and BudgetDimension, in the order of the code.        *)
TokenFields == {"input_tokens", "output_tokens"}
ProviderFields == TokenFields \cup {"requests"}
WorkFields == {"turns", "tool_calls", "wall_seconds", "eda_compute_seconds",
               "license_seconds", "artifact_bytes"}
Fields == ProviderFields \cup WorkFields
BudgetDimension ==
  <<"requests", "input_tokens", "output_tokens", "total_tokens", "turns", "tool_calls",
    "wall_seconds", "eda_compute_seconds", "license_seconds", "artifact_bytes">>
Dimensions == Fields \cup {"total_tokens"}

Resources == [Fields -> Nat]
TokenVectors == [TokenFields -> Nat]

(* The relations between the limits that CampaignSpec validates.           *)
ASSUME LimitsAssumption ==
  /\ GlobalLimit \in [Dimensions -> Nat] /\ TrialLimit \in [Dimensions -> Nat]
  /\ \A d \in Dimensions : TrialLimit[d] <= GlobalLimit[d]
  /\ RequestLimit \in TokenVectors
  /\ MaxRequestAttempts \in Nat \ {0}

NoKey == "work"
NoDimension == "none"
NoOutcome == "none"

ASSUME NamesAssumption == NoKey \notin Keys

(* _MutableResources *)
Zero == [f \in Fields |-> 0]
Plus(a, b) == [f \in Fields |-> a[f] + b[f]]
Minus(a, b) == [f \in Fields |-> a[f] - b[f]]

Amount(r, d) == IF d = "total_tokens" THEN r["input_tokens"] + r["output_tokens"] ELSE r[d]

(* One request and its token claim. *)
RequestResources(tokens) ==
  [f \in Fields |-> IF f = "requests" THEN 1 ELSE IF f \in TokenFields THEN tokens[f] ELSE 0]

Exceeds(actual, claim) == \E f \in Fields : actual[f] > claim[f]

(* ------------------------------------------------------------------------ *)
(* The projection                                                           *)
(* ------------------------------------------------------------------------ *)

EmptyTrial ==
  [committed |-> Zero, reserved |-> Zero, attempts |-> [k \in Keys |-> << >>],
   cancelled |-> {}, outcome |-> NoOutcome, violation |-> FALSE]

EmptyLedger ==
  [trial |-> [t \in Trials |-> EmptyTrial], reservations |-> [r \in {} |-> Zero], issued |-> 0,
   committed |-> Zero, reserved |-> Zero, global_stop |-> NoDimension,
   trial_stop |-> [t \in Trials |-> NoDimension], violation |-> FALSE]

Active(L) == DOMAIN L.reservations

IsProvider(res) == res.key # NoKey

(* Faulty variant: a campaign with an unknown charge keeps dispatching. *)
ReadyUnlessStopped(L, t) ==
  /\ L.trial[t].outcome = NoOutcome
  /\ L.global_stop = NoDimension
  /\ L.trial_stop[t] = NoDimension

(* ready_campaign_projection *)
Ready(L, t) ==
  /\ L.trial[t].outcome = NoOutcome
  /\ L.global_stop = NoDimension
  /\ L.trial_stop[t] = NoDimension
  /\ ~L.violation

(* The dimensions in which what is committed and reserved leaves no room.  *)
Exceeded(committed, reserved, claim, limit) ==
  {d \in Dimensions : Amount(Plus(Plus(committed, reserved), claim), d) > limit[d]}

(* _first_exceeded *)
FirstOf(dims) ==
  BudgetDimension[CHOOSE i \in 1..Len(BudgetDimension) :
                    /\ BudgetDimension[i] \in dims
                    /\ \A j \in 1..(i - 1) : BudgetDimension[j] \notin dims]

(* The request limits that reservation_rejection looks at first.           *)
OversizedTokens(claim) == {f \in TokenFields : claim[f] > RequestLimit[f]}

Overall(L, claim) == Exceeded(L.committed, L.reserved, claim, GlobalLimit)

OfTrial(L, t, claim) ==
  Exceeded(L.trial[t].committed, L.trial[t].reserved, claim, TrialLimit)

(* reservation_rejection: whether a claim is rejected, in which dimension, *)
(* and whether only its own trial is stopped.                              *)
Rejected(L, t, claim) ==
  OversizedTokens(claim) \cup Overall(L, claim) \cup OfTrial(L, t, claim) # {}

RejectedPerTrial(L, claim) == OversizedTokens(claim) # {} \/ Overall(L, claim) = {}

RejectedDimension(L, t, claim) ==
  FirstOf(IF OversizedTokens(claim) # {} THEN OversizedTokens(claim)
          ELSE IF Overall(L, claim) # {} THEN Overall(L, claim)
          ELSE OfTrial(L, t, claim))

(* ------------------------------------------------------------------------ *)
(* Events                                                                   *)
(* ------------------------------------------------------------------------ *)

(* BudgetStoppedEvent *)
BudgetStopped(L, t, claim) ==
  LET dimension == RejectedDimension(L, t, claim)
  IN IF RejectedPerTrial(L, claim)
     THEN [L EXCEPT !.trial_stop[t] = dimension]
     ELSE [L EXCEPT !.global_stop = dimension]

LastOf(attempts) == attempts[Len(attempts)]

(* The retry rules that reserve_provider_attempt checks before it looks at *)
(* the budget, and the ones that only admitting a reservation checks.      *)
MayRetry(L, t, k) ==
  LET attempts == L.trial[t].attempts[k]
  IN attempts # << >> => /\ LastOf(attempts).disposition = "retryable_failure"
                         /\ Len(attempts) + 1 <= MaxRequestAttempts

MayAttempt(L, t, k, claim) ==
  LET attempts == L.trial[t].attempts[k]
  IN /\ \A r \in Active(L) : ~(L.reservations[r].trial = t /\ L.reservations[r].key = k)
     /\ attempts # << >> => \A f \in TokenFields : LastOf(attempts).tokens[f] = claim[f]

(* _apply_reservation_created, for a claim that is not rejected.           *)
ReservationCreated(L, t, k, claim) ==
  [L EXCEPT !.issued = @ + 1,
            !.reserved = Plus(@, claim),
            !.trial[t].reserved = Plus(@, claim),
            !.reservations =
               [r \in DOMAIN @ \cup {L.issued + 1} |->
                  IF r = L.issued + 1
                  THEN [trial |-> t, key |-> k, claim |-> claim, dispatched |-> FALSE]
                  ELSE @[r]]]

ReservationDispatched(L, r) == [L EXCEPT !.reservations[r].dispatched = TRUE]

Without(f, r) == [x \in DOMAIN f \ {r} |-> f[x]]

(* Faulty variant: the trial keeps what it had reserved. *)
ReleaseGlobally(L, r) ==
  [L EXCEPT !.reserved = Minus(@, L.reservations[r].claim),
            !.reservations = Without(@, r)]

(* _release_reservation *)
Release(L, r) ==
  [L EXCEPT !.reserved = Minus(@, L.reservations[r].claim),
            !.trial[L.reservations[r].trial].reserved = Minus(@, L.reservations[r].claim),
            !.reservations = Without(@, r)]

(* Faulty variant: a cancelled claim is given back twice. *)
ReservationCancelledTwice(L, r) ==
  [Release(L, r) EXCEPT !.reserved = Minus(@, L.reservations[r].claim)]

ReservationCancelled(L, r) ==
  LET res == L.reservations[r]
  IN IF IsProvider(res)
     THEN [Release(L, r) EXCEPT !.trial[res.trial].cancelled = @ \cup {res.key}]
     ELSE Release(L, r)

(* Faulty variant: usage above the claim goes unnoticed. *)
SettleUnflagged(L, r, actual) ==
  LET t == L.reservations[r].trial
  IN [Release(L, r) EXCEPT !.committed = Plus(@, actual),
                           !.trial[t].committed = Plus(@, actual)]

(* _settle *)
Settle(L, r, actual) ==
  LET released == Release(L, r)
      t == L.reservations[r].trial
      owner == released.trial[t]
      overrun == Exceeds(actual, L.reservations[r].claim)
      charged == [owner EXCEPT !.committed = Plus(@, actual), !.violation = @ \/ overrun]
  IN [released EXCEPT !.committed = Plus(@, actual), !.violation = @ \/ overrun,
                      !.trial[t] = charged]

(* _apply_provider_settlement: usage is the reported token usage, or the   *)
(* claim itself when none was reported.                                    *)
ProviderAttemptSettled(L, r, disposition, known, usage) ==
  LET res == L.reservations[r]
      attempt == [disposition |-> disposition, known |-> known,
                  tokens |-> [f \in TokenFields |-> res.claim[f]]]
      settled == Settle(L, r, RequestResources(usage))
      owner == [settled.trial[res.trial] EXCEPT !.violation = @ \/ ~known,
                                                !.attempts[res.key] = Append(@, attempt)]
  IN [settled EXCEPT !.violation = @ \/ ~known, !.trial[res.trial] = owner]

(* _validate_provider_requests: requests says for every provider request   *)
(* of the run journal whether it has a response.                           *)
RequestsMatch(L, t, requests) ==
  LET attempted == {k \in Keys : L.trial[t].attempts[k] # << >>}
  IN /\ DOMAIN requests # {}
     /\ attempted \subseteq DOMAIN requests
     /\ DOMAIN requests \subseteq attempted \cup L.trial[t].cancelled
     /\ \A k \in DOMAIN requests :
          IF k \in attempted
          THEN requests[k] = (LastOf(L.trial[t].attempts[k]).disposition = "completed")
          ELSE ~requests[k]

(* Faulty variant: an outcome may come before the last settlement. *)
MayEndTrialEarly(L, t, disposition) ==
  /\ L.trial[t].outcome = NoOutcome
  /\ disposition = "not_dispatched" =>
        L.trial[t].committed = Zero /\ \A k \in Keys : L.trial[t].attempts[k] = << >>

(* _apply_trial_outcome *)
MayEndTrial(L, t, disposition) ==
  /\ L.trial[t].outcome = NoOutcome
  /\ \A r \in Active(L) : L.reservations[r].trial # t
  /\ disposition = "not_dispatched" =>
        L.trial[t].committed = Zero /\ \A k \in Keys : L.trial[t].attempts[k] = << >>

TrialOutcomeRecorded(L, t, disposition) == [L EXCEPT !.trial[t].outcome = disposition]

(* The open reservations of a trial, and the trials without an outcome.    *)
WorkOf(L, t) == {r \in Active(L) : L.reservations[r].trial = t /\ ~IsProvider(L.reservations[r])}

ProvidersOf(L, t) == {r \in Active(L) : L.reservations[r].trial = t /\ IsProvider(L.reservations[r])}

Unfinished(L) == {t \in Trials : L.trial[t].outcome = NoOutcome}

Dispatched(L, t) ==
  L.trial[t].committed # Zero \/ \E k \in Keys : L.trial[t].attempts[k] # << >>

(* stop_unfinished: every unfinished trial gets its terminal record.       *)
AllStopped(L) ==
  [L EXCEPT !.trial =
     [t \in Trials |->
        IF t \notin Unfinished(L) THEN L.trial[t]
        ELSE [L.trial[t] EXCEPT !.outcome =
                IF Dispatched(L, t) THEN "failed_before_run" ELSE "not_dispatched"]]]
=============================================================================
