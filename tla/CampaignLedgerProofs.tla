------------------------ MODULE CampaignLedgerProofs ------------------------
(***************************************************************************)
(* Proofs about CampaignLedger, for every schedule, every set of claims    *)
(* and limits, and any number of runners: the hard limits hold, a trial    *)
(* with an outcome is final, and no provider request is attempted twice.   *)
(***************************************************************************)
EXTENDS CampaignLedger, TLAPS

(* Totals are integers here: that they stay natural numbers rests on their *)
(* being sums of claims, which TLC checks (TotalsAddUp).                   *)
Vectors == [Fields -> Int]

Dispositions == {"completed", "retryable_failure", "terminal_failure"}

Attempts == [disposition : Dispositions, known : BOOLEAN, tokens : [TokenFields -> Int]]

Outcomes == {NoOutcome, "completed_run", "failed_before_run", "not_dispatched"}

TrialLedgers ==
  [committed : Vectors, reserved : Vectors, attempts : [Keys -> Seq(Attempts)],
   cancelled : SUBSET Keys, outcome : Outcomes, violation : BOOLEAN]

ReservationRecords ==
  [trial : Trials, key : Keys \cup {NoKey}, claim : Resources, dispatched : BOOLEAN]

ReservationMaps == UNION {[S -> ReservationRecords] : S \in SUBSET Nat}

(* What a budget stop names: no dimension, or the first of some that were exceeded. *)
Stops == {NoDimension} \cup {FirstOf(dims) : dims \in SUBSET Dimensions}

Ledgers ==
  [trial : [Trials -> TrialLedgers], reservations : ReservationMaps, issued : Nat,
   committed : Vectors, reserved : Vectors, global_stop : Stops,
   trial_stop : [Trials -> Stops], violation : BOOLEAN]

(* ------------------------------------------------------------------------ *)
(* Resource vectors                                                         *)
(* ------------------------------------------------------------------------ *)

(* Adding and subtracting keeps vectors vectors (_MutableResources). *)
LEMMA VectorSums ==
  ASSUME NEW a \in Vectors, NEW b \in Vectors
  PROVE  Plus(a, b) \in Vectors /\ Minus(a, b) \in Vectors
BY DEF Vectors, Plus, Minus

(* A natural vector is a vector, and so are the zero vector and the        *)
(* resources of one request.                                               *)
LEMMA VectorConstants ==
  /\ Zero \in Vectors
  /\ Resources \subseteq Vectors
  /\ \A tokens \in TokenVectors : RequestResources(tokens) \in Resources
BY DEF Zero, Vectors, Resources, RequestResources, TokenVectors, TokenFields, Fields,
       ProviderFields, WorkFields

(* The total of a sum of vectors, dimension by dimension. *)
LEMMA AmountOfSum ==
  ASSUME NEW a \in Vectors, NEW b \in Vectors, NEW d \in Dimensions
  PROVE  Amount(Plus(a, b), d) = Amount(a, d) + Amount(b, d) /\ Amount(a, d) \in Int
BY DEF Vectors, Plus, Amount, Dimensions, Fields, ProviderFields, TokenFields

(* The total of a difference of vectors, dimension by dimension. *)
LEMMA AmountOfDifference ==
  ASSUME NEW a \in Vectors, NEW b \in Vectors, NEW d \in Dimensions
  PROVE  Amount(Minus(a, b), d) = Amount(a, d) - Amount(b, d)
BY DEF Vectors, Minus, Amount, Dimensions, Fields, ProviderFields, TokenFields

(* Usage that does not exceed a claim is within it in every dimension (_exceeds). *)
LEMMA AmountMonotone ==
  ASSUME NEW a \in Vectors, NEW b \in Vectors, NEW d \in Dimensions, ~Exceeds(a, b)
  PROVE  Amount(a, d) <= Amount(b, d)
BY DEF Vectors, Exceeds, Amount, Dimensions, Fields, ProviderFields, TokenFields

(* The total of a claim is a natural number. *)
LEMMA AmountOfClaim ==
  ASSUME NEW a \in Resources, NEW d \in Dimensions
  PROVE  Amount(a, d) \in Nat
BY DEF Resources, Amount, Dimensions, Fields, ProviderFields, TokenFields

Limits == [Dimensions -> Nat]

(* An admitted claim still fits. *)
LEMMA FitsAfterReserve ==
  ASSUME NEW c \in Vectors, NEW r \in Vectors, NEW claim \in Vectors, NEW limit \in Limits,
         Exceeded(c, r, claim, limit) = {}
  PROVE  Fits(c, Plus(r, claim), limit)
<1> SUFFICES ASSUME NEW d \in Dimensions
             PROVE  Amount(Plus(c, Plus(r, claim)), d) <= limit[d]
  BY DEF Fits
<1>1. Amount(Plus(Plus(c, r), claim), d) <= limit[d]
  <2>1. limit[d] \in Nat /\ Amount(Plus(Plus(c, r), claim), d) \in Int
    BY VectorSums, AmountOfSum DEF Limits
  <2> QED BY <2>1 DEF Exceeded
<1>2. /\ Amount(Plus(Plus(c, r), claim), d) = Amount(c, d) + Amount(r, d) + Amount(claim, d)
      /\ Amount(Plus(c, Plus(r, claim)), d) = Amount(c, d) + (Amount(r, d) + Amount(claim, d))
      /\ Amount(c, d) \in Int /\ Amount(r, d) \in Int /\ Amount(claim, d) \in Int
  BY VectorSums, AmountOfSum
<1> QED BY <1>1, <1>2

(* Settling at most the claim, or giving a claim back, still fits. *)
LEMMA FitsAfterSettle ==
  ASSUME NEW c \in Vectors, NEW r \in Vectors, NEW claim \in Resources, NEW actual \in Vectors,
         NEW limit \in Limits, Fits(c, r, limit), ~Exceeds(actual, claim)
  PROVE  Fits(Plus(c, actual), Minus(r, claim), limit)
<1> SUFFICES ASSUME NEW d \in Dimensions
             PROVE  Amount(Plus(Plus(c, actual), Minus(r, claim)), d) <= limit[d]
  BY DEF Fits
<1>0. claim \in Vectors /\ limit[d] \in Nat
  BY VectorConstants DEF Limits
<1>1. Amount(Plus(c, r), d) <= limit[d]
  BY DEF Fits
<1>2. Amount(actual, d) <= Amount(claim, d)
  BY <1>0, AmountMonotone
<1>3. /\ Amount(Plus(c, r), d) = Amount(c, d) + Amount(r, d)
      /\ Amount(Plus(Plus(c, actual), Minus(r, claim)), d)
           = (Amount(c, d) + Amount(actual, d)) + (Amount(r, d) - Amount(claim, d))
      /\ Amount(c, d) \in Int /\ Amount(r, d) \in Int
      /\ Amount(actual, d) \in Int /\ Amount(claim, d) \in Int
  BY <1>0, VectorSums, AmountOfSum, AmountOfDifference
<1> QED BY <1>0, <1>1, <1>2, <1>3

(* Giving a claim back still fits (_release_reservation). *)
LEMMA FitsAfterRelease ==
  ASSUME NEW c \in Vectors, NEW r \in Vectors, NEW claim \in Resources,
         NEW limit \in Limits, Fits(c, r, limit)
  PROVE  Fits(c, Minus(r, claim), limit)
<1> SUFFICES ASSUME NEW d \in Dimensions
             PROVE  Amount(Plus(c, Minus(r, claim)), d) <= limit[d]
  BY DEF Fits
<1>0. claim \in Vectors /\ limit[d] \in Nat /\ Amount(claim, d) \in Nat
  BY VectorConstants, AmountOfClaim DEF Limits
<1>1. Amount(Plus(c, r), d) <= limit[d]
  BY DEF Fits
<1>3. /\ Amount(Plus(c, r), d) = Amount(c, d) + Amount(r, d)
      /\ Amount(Plus(c, Minus(r, claim)), d) = Amount(c, d) + (Amount(r, d) - Amount(claim, d))
      /\ Amount(c, d) \in Int /\ Amount(r, d) \in Int
  BY <1>0, VectorSums, AmountOfSum, AmountOfDifference
<1> QED BY <1>0, <1>1, <1>3
(* ------------------------------------------------------------------------ *)
(* What every event does to the ledger, field by field                      *)
(* ------------------------------------------------------------------------ *)

(* The reservation a ledger holds under an active identifier. *)
LEMMA ActiveReservation ==
  ASSUME NEW L \in Ledgers, NEW r \in Active(L)
  PROVE  /\ L.reservations[r] \in ReservationRecords
         /\ Active(L) \subseteq Nat
<1>1. L.reservations \in ReservationMaps
  BY DEF Ledgers
<1> PICK S \in SUBSET Nat : L.reservations \in [S -> ReservationRecords]
  BY <1>1 DEF ReservationMaps
<1> QED BY DEF Active

(* Releasing a reservation leaves a map of reservations. *)
LEMMA MapsWithout ==
  ASSUME NEW f \in ReservationMaps, NEW r
  PROVE  Without(f, r) \in ReservationMaps
<1> PICK S \in SUBSET Nat : f \in [S -> ReservationRecords]
  BY DEF ReservationMaps
<1>1. Without(f, r) \in [S \ {r} -> ReservationRecords]
  BY Zenon DEF Without
<1> QED BY <1>1 DEF ReservationMaps

(* _release_reservation *)
ReleaseShape(L, r, K) ==
  /\ K.reserved = Minus(L.reserved, L.reservations[r].claim)
  /\ K.reservations = Without(L.reservations, r)
  /\ K.trial = [L.trial EXCEPT ![L.reservations[r].trial].reserved =
                  Minus(@, L.reservations[r].claim)]
  /\ K.committed = L.committed /\ K.issued = L.issued
  /\ K.global_stop = L.global_stop /\ K.trial_stop = L.trial_stop
  /\ K.violation = L.violation

(* What releasing a reservation changes. *)
LEMMA ReleaseFields ==
  ASSUME NEW L \in Ledgers, NEW r \in Active(L), NEW K, K = Release(L, r)
  PROVE  ReleaseShape(L, r, K)
BY DEF Ledgers, Release, ReleaseShape

(* Releasing a reservation leaves a ledger. *)
LEMMA ReleaseType ==
  ASSUME NEW L \in Ledgers, NEW r \in Active(L)
  PROVE  Release(L, r) \in Ledgers
<1> DEFINE res == L.reservations[r]
           owner == L.trial[res.trial]
           reserved == Minus(L.reserved, res.claim)
           left == Minus(owner.reserved, res.claim)
           maps == Without(L.reservations, r)
<1>1. res \in ReservationRecords /\ L.reservations \in ReservationMaps
  BY ActiveReservation DEF Ledgers
<1>2. res.trial \in Trials /\ res.claim \in Vectors
  BY <1>1, VectorConstants DEF ReservationRecords
<1>3. L.trial \in [Trials -> TrialLedgers] /\ owner \in TrialLedgers /\ L.reserved \in Vectors
  BY <1>2 DEF Ledgers
<1>4. reserved \in Vectors /\ left \in Vectors /\ maps \in ReservationMaps
  BY <1>1, <1>2, <1>3, VectorSums, MapsWithout DEF TrialLedgers
<1>5. [owner EXCEPT !.reserved = left] \in TrialLedgers
  <2> HIDE DEF left, owner
  <2> QED BY <1>3, <1>4, Zenon DEF TrialLedgers
<1>6. [L.trial EXCEPT ![res.trial].reserved = left] \in [Trials -> TrialLedgers]
  <2> HIDE DEF left
  <2> QED BY <1>2, <1>3, <1>5
<1>7. Release(L, r) = [L EXCEPT !.reserved = reserved, !.reservations = maps,
                                !.trial = [L.trial EXCEPT ![res.trial].reserved = left]]
  BY Zenon DEF Release, Ledgers
<1> DEFINE trials == [L.trial EXCEPT ![res.trial].reserved = left]
<1> HIDE DEF reserved, maps, trials
<1> QED BY <1>4, <1>6, <1>7, Zenon DEF Ledgers, trials

(* ReservationCancelledEvent *)
CancelledShape(L, r, K) ==
  /\ K \in Ledgers
  /\ K.reserved = Minus(L.reserved, L.reservations[r].claim)
  /\ K.reservations = Without(L.reservations, r)
  /\ K.committed = L.committed /\ K.issued = L.issued
  /\ K.violation = L.violation
  /\ \A t \in Trials :
       /\ K.trial[t].committed = L.trial[t].committed
       /\ K.trial[t].attempts = L.trial[t].attempts
       /\ K.trial[t].outcome = L.trial[t].outcome
       /\ K.trial[t].reserved = IF t = L.reservations[r].trial
                                THEN Minus(L.trial[t].reserved, L.reservations[r].claim)
                                ELSE L.trial[t].reserved
       /\ t # L.reservations[r].trial => K.trial[t] = L.trial[t]

(* What cancelling a reservation changes. *)
LEMMA CancelledFields ==
  ASSUME NEW L \in Ledgers, NEW r \in Active(L), NEW K, K = ReservationCancelled(L, r)
  PROVE  CancelledShape(L, r, K)
<1> DEFINE res == L.reservations[r]
           R == Release(L, r)
<1>1. res \in ReservationRecords /\ R \in Ledgers
  BY ActiveReservation, ReleaseType
<1>2. /\ R.reserved = Minus(L.reserved, res.claim) /\ R.reservations = Without(L.reservations, r)
      /\ R.committed = L.committed /\ R.issued = L.issued /\ R.violation = L.violation
      /\ R.trial = [L.trial EXCEPT ![res.trial].reserved = Minus(@, res.claim)]
  <2>1. ReleaseShape(L, r, R)
    BY ReleaseFields
  <2> HIDE DEF R
  <2> QED BY <2>1 DEF ReleaseShape
<1>3. /\ res.trial \in Trials /\ L.trial \in [Trials -> TrialLedgers]
      /\ R.trial \in [Trials -> TrialLedgers]
  BY <1>1 DEF ReservationRecords, Ledgers
<1>4. \A t \in Trials :
        /\ R.trial[t].committed = L.trial[t].committed
        /\ R.trial[t].attempts = L.trial[t].attempts
        /\ R.trial[t].outcome = L.trial[t].outcome
        /\ R.trial[t].reserved = IF t = res.trial THEN Minus(L.trial[t].reserved, res.claim)
                                 ELSE L.trial[t].reserved
        /\ t # res.trial => R.trial[t] = L.trial[t]
  <2> HIDE DEF R, res
  <2> QED BY <1>2, <1>3 DEF TrialLedgers
<1>5. CASE ~IsProvider(res)
  <2>1. K = R
    BY <1>5 DEF ReservationCancelled
  <2>2. \A t \in Trials :
          /\ K.trial[t].committed = L.trial[t].committed
          /\ K.trial[t].attempts = L.trial[t].attempts
          /\ K.trial[t].outcome = L.trial[t].outcome
          /\ K.trial[t].reserved = IF t = res.trial THEN Minus(L.trial[t].reserved, res.claim)
                                   ELSE L.trial[t].reserved
          /\ t # res.trial => K.trial[t] = L.trial[t]
    <3> HIDE DEF R
    <3> QED BY <1>4, <2>1, Zenon
  <2>3. /\ K.reserved = Minus(L.reserved, res.claim) /\ K.reservations = Without(L.reservations, r)
        /\ K.committed = L.committed /\ K.issued = L.issued /\ K.violation = L.violation
        /\ K \in Ledgers
    <3> HIDE DEF R
    <3> QED BY <1>1, <1>2, <2>1
  <2> QED BY <2>2, <2>3, Zenon DEF CancelledShape
<1>6. CASE IsProvider(res)
  <2>1. res.key \in Keys
    BY <1>1, <1>6 DEF ReservationRecords, IsProvider
  <2> DEFINE names == R.trial[res.trial].cancelled \cup {res.key}
             owner == [R.trial[res.trial] EXCEPT !.cancelled = names]
             trials == [R.trial EXCEPT ![res.trial] = owner]
  <2>2. K = [R EXCEPT !.trial = trials]
    <3>1. K = [R EXCEPT !.trial[res.trial].cancelled = @ \cup {res.key}]
      BY <1>6, Zenon DEF ReservationCancelled
    <3> HIDE DEF R, res
    <3> QED BY <1>1, <1>3, <3>1 DEF Ledgers
  <2>3. names \in SUBSET Keys /\ R.trial[res.trial] \in TrialLedgers
    <3> HIDE DEF R, res
    <3> QED BY <1>3, <2>1 DEF TrialLedgers
  <2>4. /\ owner \in TrialLedgers
        /\ owner.committed = R.trial[res.trial].committed
        /\ owner.reserved = R.trial[res.trial].reserved
        /\ owner.attempts = R.trial[res.trial].attempts
        /\ owner.outcome = R.trial[res.trial].outcome
    <3> HIDE DEF R, res, names
    <3>1. owner \in TrialLedgers
      BY <2>3, Zenon DEF TrialLedgers
    <3> QED BY <2>3, <3>1 DEF TrialLedgers
  <2>5. trials \in [Trials -> TrialLedgers]
    <3> HIDE DEF R, res, owner
    <3> QED BY <1>3, <2>4
  <2>6. K \in Ledgers
    <3> HIDE DEF R, trials
    <3> QED BY <1>1, <2>2, <2>5, Zenon DEF Ledgers
  <2>7. /\ K.reserved = R.reserved /\ K.reservations = R.reservations /\ K.issued = R.issued
        /\ K.committed = R.committed /\ K.violation = R.violation /\ K.trial = trials
    <3> HIDE DEF R, trials
    <3> QED BY <1>1, <2>2 DEF Ledgers
  <2>8. \A t \in Trials : IF t = res.trial THEN trials[t] = owner ELSE trials[t] = R.trial[t]
    <3> HIDE DEF R, res, owner
    <3> QED BY <1>3
  <2>9. ASSUME NEW t \in Trials
        PROVE  /\ K.trial[t].committed = R.trial[t].committed
               /\ K.trial[t].reserved = R.trial[t].reserved
               /\ K.trial[t].attempts = R.trial[t].attempts
               /\ K.trial[t].outcome = R.trial[t].outcome
               /\ t # res.trial => K.trial[t] = R.trial[t]
    <3> HIDE DEF R, res, owner, trials
    <3> QED BY <2>4, <2>7, <2>8
  <2>10. ASSUME NEW t \in Trials
         PROVE  /\ K.trial[t].committed = L.trial[t].committed
                /\ K.trial[t].attempts = L.trial[t].attempts
                /\ K.trial[t].outcome = L.trial[t].outcome
                /\ K.trial[t].reserved = IF t = res.trial
                                         THEN Minus(L.trial[t].reserved, res.claim)
                                         ELSE L.trial[t].reserved
                /\ t # res.trial => K.trial[t] = L.trial[t]
    <3> HIDE DEF R, res
    <3> QED BY <1>4, <2>9
  <2> HIDE DEF R, owner, trials
  <2> QED BY <1>2, <2>6, <2>7, <2>10, Zenon DEF CancelledShape
<1> QED BY <1>5, <1>6

(* _settle *)
SettledShape(L, r, actual, K) ==
  /\ K \in Ledgers
  /\ K.reserved = Minus(L.reserved, L.reservations[r].claim)
  /\ K.committed = Plus(L.committed, actual)
  /\ K.reservations = Without(L.reservations, r)
  /\ K.issued = L.issued
  /\ K.violation = (L.violation \/ Exceeds(actual, L.reservations[r].claim))
  /\ \A t \in Trials :
       /\ K.trial[t].attempts = L.trial[t].attempts
       /\ K.trial[t].outcome = L.trial[t].outcome
       /\ K.trial[t].reserved = IF t = L.reservations[r].trial
                                THEN Minus(L.trial[t].reserved, L.reservations[r].claim)
                                ELSE L.trial[t].reserved
       /\ K.trial[t].committed = IF t = L.reservations[r].trial
                                 THEN Plus(L.trial[t].committed, actual)
                                 ELSE L.trial[t].committed
       /\ t # L.reservations[r].trial => K.trial[t] = L.trial[t]

(* What settling a reservation changes. *)
LEMMA SettledFields ==
  ASSUME NEW L \in Ledgers, NEW r \in Active(L), NEW actual \in Vectors,
         NEW K, K = Settle(L, r, actual)
  PROVE  SettledShape(L, r, actual, K)
<1> DEFINE res == L.reservations[r]
           R == Release(L, r)
           overrun == Exceeds(actual, res.claim)
           total == Plus(R.committed, actual)
           flag == R.violation \/ overrun
           sum == Plus(R.trial[res.trial].committed, actual)
           mark == R.trial[res.trial].violation \/ overrun
           owner == [R.trial[res.trial] EXCEPT !.committed = sum, !.violation = mark]
           trials == [R.trial EXCEPT ![res.trial] = owner]
<1>1. res \in ReservationRecords /\ R \in Ledgers
  BY ActiveReservation, ReleaseType
<1>2. /\ R.reserved = Minus(L.reserved, res.claim) /\ R.reservations = Without(L.reservations, r)
      /\ R.committed = L.committed /\ R.issued = L.issued /\ R.violation = L.violation
      /\ R.trial = [L.trial EXCEPT ![res.trial].reserved = Minus(@, res.claim)]
  <2>1. ReleaseShape(L, r, R)
    BY ReleaseFields
  <2> HIDE DEF R
  <2> QED BY <2>1 DEF ReleaseShape
<1>3. /\ res.trial \in Trials /\ L.trial \in [Trials -> TrialLedgers]
      /\ R.trial \in [Trials -> TrialLedgers] /\ R.committed \in Vectors
      /\ R.violation \in BOOLEAN
  BY <1>1 DEF ReservationRecords, Ledgers
<1>4. \A t \in Trials :
        /\ R.trial[t].committed = L.trial[t].committed
        /\ R.trial[t].attempts = L.trial[t].attempts
        /\ R.trial[t].outcome = L.trial[t].outcome
        /\ R.trial[t].reserved = IF t = res.trial THEN Minus(L.trial[t].reserved, res.claim)
                                 ELSE L.trial[t].reserved
        /\ t # res.trial => R.trial[t] = L.trial[t]
  <2> HIDE DEF R, res
  <2> QED BY <1>2, <1>3 DEF TrialLedgers
<1>5. K = [R EXCEPT !.committed = total, !.violation = flag, !.trial = trials]
  <2>1. K = [R EXCEPT !.committed = total, !.violation = flag, !.trial[res.trial] = owner]
    BY DEF Settle
  <2> HIDE DEF R, res, total, flag, owner
  <2> QED BY <1>1, <2>1 DEF Ledgers
<1>6. /\ total \in Vectors /\ sum \in Vectors /\ flag \in BOOLEAN /\ mark \in BOOLEAN
      /\ R.trial[res.trial] \in TrialLedgers
  <2>1. overrun \in BOOLEAN
    BY DEF Exceeds
  <2> HIDE DEF R, res, overrun
  <2> QED BY <1>3, <2>1, VectorSums DEF TrialLedgers
<1>7. /\ owner \in TrialLedgers
      /\ owner.committed = sum
      /\ owner.reserved = R.trial[res.trial].reserved
      /\ owner.attempts = R.trial[res.trial].attempts
      /\ owner.outcome = R.trial[res.trial].outcome
  <2> HIDE DEF R, res, sum, mark
  <2>1. owner \in TrialLedgers
    BY <1>6, Zenon DEF TrialLedgers
  <2> QED BY <1>6, <2>1 DEF TrialLedgers
<1>8. trials \in [Trials -> TrialLedgers]
  <2> HIDE DEF R, res, owner
  <2> QED BY <1>3, <1>7
<1>9. K \in Ledgers
  <2> HIDE DEF R, total, flag, trials
  <2> QED BY <1>1, <1>5, <1>6, <1>8, Zenon DEF Ledgers
<1>10. /\ K.reserved = R.reserved /\ K.reservations = R.reservations /\ K.issued = R.issued
       /\ K.committed = total /\ K.violation = flag /\ K.trial = trials
  <2> HIDE DEF R, total, flag, trials
  <2> QED BY <1>1, <1>5 DEF Ledgers
<1>11. \A t \in Trials : IF t = res.trial THEN trials[t] = owner ELSE trials[t] = R.trial[t]
  <2> HIDE DEF R, res, owner
  <2> QED BY <1>3
<1>12. ASSUME NEW t \in Trials
       PROVE  /\ K.trial[t].attempts = L.trial[t].attempts
              /\ K.trial[t].outcome = L.trial[t].outcome
              /\ K.trial[t].reserved = IF t = res.trial
                                       THEN Minus(L.trial[t].reserved, res.claim)
                                       ELSE L.trial[t].reserved
              /\ K.trial[t].committed = IF t = res.trial
                                        THEN Plus(L.trial[t].committed, actual)
                                        ELSE L.trial[t].committed
              /\ t # res.trial => K.trial[t] = L.trial[t]
  <2>1. t = res.trial => sum = Plus(L.trial[t].committed, actual)
    BY <1>4
  <2> HIDE DEF R, res, sum, owner, trials
  <2> QED BY <1>4, <1>7, <1>10, <1>11, <2>1
<1> HIDE DEF R, owner, trials
<1> QED BY <1>2, <1>9, <1>10, <1>12, Zenon DEF SettledShape

(* _apply_provider_settlement *)
AttemptShape(L, r, disposition, known, S, K) ==
  /\ K \in Ledgers
  /\ K.reserved = S.reserved /\ K.committed = S.committed
  /\ K.reservations = S.reservations /\ K.issued = S.issued
  /\ K.violation = (S.violation \/ ~known)
  /\ \A t \in Trials :
       /\ K.trial[t].committed = S.trial[t].committed
       /\ K.trial[t].reserved = S.trial[t].reserved
       /\ K.trial[t].outcome = S.trial[t].outcome
       /\ t # L.reservations[r].trial => K.trial[t] = S.trial[t]
  /\ \E attempt \in Attempts :
       /\ attempt.disposition = disposition
       /\ \A t \in Trials, k \in Keys :
            K.trial[t].attempts[k] =
              IF t = L.reservations[r].trial /\ k = L.reservations[r].key
              THEN Append(S.trial[t].attempts[k], attempt) ELSE S.trial[t].attempts[k]

(* What settling a provider attempt changes. *)
LEMMA AttemptFields ==
  ASSUME NEW L \in Ledgers, NEW r \in Active(L), NEW known \in BOOLEAN, NEW usage \in TokenVectors,
         NEW disposition \in Dispositions, IsProvider(L.reservations[r]),
         NEW K, K = ProviderAttemptSettled(L, r, disposition, known, usage),
         NEW S, S = Settle(L, r, RequestResources(usage))
  PROVE  AttemptShape(L, r, disposition, known, S, K)
<1> DEFINE res == L.reservations[r]
           attempt == [disposition |-> disposition, known |-> known,
                       tokens |-> [f \in TokenFields |-> res.claim[f]]]
           flag == S.violation \/ ~known
           before == S.trial[res.trial]
           mark == before.violation \/ ~known
           tries == [before.attempts EXCEPT ![res.key] = Append(@, attempt)]
           owner == [before EXCEPT !.violation = mark, !.attempts = tries]
           trials == [S.trial EXCEPT ![res.trial] = owner]
<1>1. /\ res \in ReservationRecords /\ S \in Ledgers
      /\ RequestResources(usage) \in Vectors
  <2>1. RequestResources(usage) \in Vectors
    BY VectorConstants
  <2>2. SettledShape(L, r, RequestResources(usage), S)
    BY <2>1, SettledFields
  <2> QED BY <2>1, <2>2, ActiveReservation DEF SettledShape
<1>2. res.trial \in Trials /\ res.key \in Keys /\ res.claim \in Resources
  BY <1>1 DEF ReservationRecords, IsProvider
<1>3. /\ S.trial \in [Trials -> TrialLedgers] /\ S.violation \in BOOLEAN
      /\ before \in TrialLedgers
  BY <1>1, <1>2 DEF Ledgers
<1>4. attempt \in Attempts /\ attempt.disposition = disposition
  <2>1. [f \in TokenFields |-> res.claim[f]] \in [TokenFields -> Int]
    BY <1>2 DEF Resources, TokenFields, Fields, ProviderFields
  <2> QED BY <2>1 DEF Attempts
<1>5. /\ tries \in [Keys -> Seq(Attempts)] /\ mark \in BOOLEAN
      /\ flag \in BOOLEAN
      /\ \A k \in Keys : tries[k] = IF k = res.key THEN Append(before.attempts[k], attempt)
                                    ELSE before.attempts[k]
  <2>1. before.attempts \in [Keys -> Seq(Attempts)] /\ before.violation \in BOOLEAN
    BY <1>3, Zenon DEF TrialLedgers
  <2> HIDE DEF before, attempt, res
  <2> QED BY <1>2, <1>3, <1>4, <2>1
<1>6. /\ owner \in TrialLedgers
      /\ owner.committed = before.committed /\ owner.reserved = before.reserved
      /\ owner.attempts = tries /\ owner.outcome = before.outcome
  <2> HIDE DEF before, mark, tries
  <2>1. owner \in TrialLedgers
    BY <1>3, <1>5, Zenon DEF TrialLedgers
  <2> QED BY <1>3, <2>1 DEF TrialLedgers
<1>7. /\ trials \in [Trials -> TrialLedgers]
      /\ \A t \in Trials : IF t = res.trial THEN trials[t] = owner ELSE trials[t] = S.trial[t]
  <2> HIDE DEF res, owner
  <2> QED BY <1>2, <1>3, <1>6, Zenon
<1>8. K = [S EXCEPT !.violation = flag, !.trial = trials]
  <2>1. owner = [before EXCEPT !.violation = mark, !.attempts[res.key] = Append(@, attempt)]
    <3> HIDE DEF before, res, mark, attempt
    <3> QED BY <1>3 DEF TrialLedgers
  <2>2. K = [S EXCEPT !.violation = flag,
                      !.trial[res.trial] = [before EXCEPT !.violation = mark,
                                              !.attempts[res.key] = Append(@, attempt)]]
    BY Zenon DEF ProviderAttemptSettled
  <2>3. K = [S EXCEPT !.violation = flag, !.trial[res.trial] = owner]
    <3> HIDE DEF before, res, mark, attempt, owner, flag
    <3> QED BY <2>1, <2>2
  <2> HIDE DEF res, flag, owner
  <2> QED BY <1>1, <2>3 DEF Ledgers
<1>9. K \in Ledgers
  <2> HIDE DEF flag, trials
  <2> QED BY <1>1, <1>5, <1>7, <1>8, ZenonT(40) DEF Ledgers
<1>10. /\ K.reserved = S.reserved /\ K.reservations = S.reservations /\ K.issued = S.issued
       /\ K.committed = S.committed /\ K.violation = flag /\ K.trial = trials
  <2> HIDE DEF flag, trials
  <2> QED BY <1>1, <1>8 DEF Ledgers
<1>11. ASSUME NEW t \in Trials
       PROVE  /\ K.trial[t].committed = S.trial[t].committed
              /\ K.trial[t].reserved = S.trial[t].reserved
              /\ K.trial[t].outcome = S.trial[t].outcome
              /\ t # res.trial => K.trial[t] = S.trial[t]
              /\ \A k \in Keys : K.trial[t].attempts[k] =
                   IF t = res.trial /\ k = res.key
                   THEN Append(S.trial[t].attempts[k], attempt) ELSE S.trial[t].attempts[k]
  <2>0. t = res.trial => before = S.trial[t]
    OBVIOUS
  <2> HIDE DEF res, attempt, before, tries, owner, trials
  <2>1. CASE t = res.trial
    <3>1. K.trial[t] = owner
      BY <1>7, <1>10, <2>1
    <3>2. \A k \in Keys : K.trial[t].attempts[k] =
            IF k = res.key THEN Append(S.trial[t].attempts[k], attempt)
            ELSE S.trial[t].attempts[k]
      <4>1. K.trial[t].attempts = tries /\ S.trial[t].attempts = before.attempts
        BY <1>6, <2>0, <2>1, <3>1
      <4>2. \A k \in Keys : tries[k] = IF k = res.key THEN Append(before.attempts[k], attempt)
                                       ELSE before.attempts[k]
        BY <1>5
      <4> QED BY <4>1, <4>2, Zenon
    <3> QED BY <1>6, <2>0, <2>1, <3>1, <3>2
  <2>2. CASE t # res.trial
    BY <1>7, <1>10, <2>2
  <2> QED BY <2>1, <2>2, Zenon
<1>12. \E a \in Attempts :
         /\ a.disposition = disposition
         /\ \A t \in Trials, k \in Keys :
              K.trial[t].attempts[k] = IF t = res.trial /\ k = res.key
                                       THEN Append(S.trial[t].attempts[k], a)
                                       ELSE S.trial[t].attempts[k]
  <2>1. \A t \in Trials, k \in Keys :
          K.trial[t].attempts[k] = IF t = res.trial /\ k = res.key
                                   THEN Append(S.trial[t].attempts[k], attempt)
                                   ELSE S.trial[t].attempts[k]
    <3> HIDE DEF attempt, res
    <3> QED BY <1>11
  <2> HIDE DEF attempt, res
  <2> QED BY <1>4, <2>1, Zenon
<1>13. \A t \in Trials :
         /\ K.trial[t].committed = S.trial[t].committed
         /\ K.trial[t].reserved = S.trial[t].reserved
         /\ K.trial[t].outcome = S.trial[t].outcome
         /\ t # res.trial => K.trial[t] = S.trial[t]
  BY <1>11, Zenon
<1> HIDE DEF trials
<1> QED BY <1>9, <1>10, <1>12, <1>13, Zenon DEF AttemptShape

(* _apply_reservation_created *)
CreatedShape(L, t, k, claim, K) ==
  /\ K \in Ledgers
  /\ K.reserved = Plus(L.reserved, claim) /\ K.committed = L.committed
  /\ K.issued = L.issued + 1 /\ K.violation = L.violation
  /\ Active(K) = Active(L) \cup {L.issued + 1}
  /\ \A r \in Active(K) :
       K.reservations[r] =
         IF r = L.issued + 1
         THEN [trial |-> t, key |-> k, claim |-> claim, dispatched |-> FALSE]
         ELSE L.reservations[r]
  /\ \A u \in Trials :
       /\ K.trial[u].committed = L.trial[u].committed
       /\ K.trial[u].attempts = L.trial[u].attempts
       /\ K.trial[u].outcome = L.trial[u].outcome
       /\ K.trial[u].reserved = IF u = t THEN Plus(L.trial[u].reserved, claim)
                                ELSE L.trial[u].reserved
       /\ u # t => K.trial[u] = L.trial[u]

(* What creating a reservation changes. *)
LEMMA CreatedFields ==
  ASSUME NEW L \in Ledgers, NEW t \in Trials, NEW k \in Keys \cup {NoKey}, NEW claim \in Resources,
         NEW K, K = ReservationCreated(L, t, k, claim)
  PROVE  CreatedShape(L, t, k, claim, K)
<1> DEFINE next == L.issued + 1
           fresh == [trial |-> t, key |-> k, claim |-> claim, dispatched |-> FALSE]
           maps == [r \in DOMAIN L.reservations \cup {next} |->
                      IF r = next THEN fresh ELSE L.reservations[r]]
           total == Plus(L.reserved, claim)
           left == Plus(L.trial[t].reserved, claim)
           owner == [L.trial[t] EXCEPT !.reserved = left]
           trials == [L.trial EXCEPT ![t] = owner]
<1>1. /\ L.trial \in [Trials -> TrialLedgers] /\ L.trial[t] \in TrialLedgers
      /\ L.reserved \in Vectors /\ next \in Nat /\ claim \in Vectors
      /\ L.reservations \in ReservationMaps
  BY VectorConstants DEF Ledgers
<1>2. fresh \in ReservationRecords
  BY DEF ReservationRecords
<1>3. maps \in ReservationMaps
  <2> PICK S \in SUBSET Nat : L.reservations \in [S -> ReservationRecords]
    BY <1>1 DEF ReservationMaps
  <2> HIDE DEF fresh, next
  <2>1. maps \in [S \cup {next} -> ReservationRecords]
    BY <1>2, Zenon
  <2>2. S \cup {next} \in SUBSET Nat
    BY <1>1
  <2> HIDE DEF maps
  <2> QED BY <2>1, <2>2, Zenon DEF ReservationMaps
<1>4. total \in Vectors /\ left \in Vectors
  BY <1>1, VectorSums DEF TrialLedgers
<1>5. /\ owner \in TrialLedgers
      /\ owner.committed = L.trial[t].committed /\ owner.reserved = left
      /\ owner.attempts = L.trial[t].attempts /\ owner.outcome = L.trial[t].outcome
  <2> HIDE DEF left
  <2>1. owner \in TrialLedgers
    BY <1>1, <1>4, Zenon DEF TrialLedgers
  <2> QED BY <1>1, <2>1, Zenon DEF TrialLedgers
<1>6. /\ trials \in [Trials -> TrialLedgers]
      /\ \A u \in Trials : IF u = t THEN trials[u] = owner ELSE trials[u] = L.trial[u]
  <2> HIDE DEF owner
  <2> QED BY <1>1, <1>5
<1>7. K = [L EXCEPT !.issued = next, !.reserved = total, !.trial = trials, !.reservations = maps]
  BY DEF ReservationCreated, Ledgers
<1>8. K \in Ledgers
  <2> HIDE DEF next, total, trials, maps
  <2> QED BY <1>1, <1>3, <1>4, <1>6, <1>7, Zenon DEF Ledgers
<1>9. /\ K.reserved = total /\ K.committed = L.committed /\ K.issued = next
      /\ K.violation = L.violation /\ K.reservations = maps /\ K.trial = trials
  <2> HIDE DEF next, total, trials, maps
  <2> QED BY <1>7 DEF Ledgers
<1>10. /\ Active(K) = Active(L) \cup {next}
       /\ \A r \in Active(K) : K.reservations[r] = IF r = next THEN fresh ELSE L.reservations[r]
  <2> HIDE DEF next, fresh
  <2> QED BY <1>9 DEF Active
<1>11. ASSUME NEW u \in Trials
       PROVE  /\ K.trial[u].committed = L.trial[u].committed
              /\ K.trial[u].attempts = L.trial[u].attempts
              /\ K.trial[u].outcome = L.trial[u].outcome
              /\ K.trial[u].reserved = IF u = t THEN Plus(L.trial[u].reserved, claim)
                                       ELSE L.trial[u].reserved
              /\ u # t => K.trial[u] = L.trial[u]
  <2>1. u = t => left = Plus(L.trial[u].reserved, claim)
    OBVIOUS
  <2> HIDE DEF left, owner, trials
  <2> QED BY <1>5, <1>6, <1>9, <2>1
<1> HIDE DEF trials, maps
<1> QED BY <1>8, <1>9, <1>10, <1>11, Zenon DEF CreatedShape

(* ReservationDispatchedEvent *)
LEMMA DispatchedFields ==
  ASSUME NEW L \in Ledgers, NEW r \in Active(L), NEW K, K = ReservationDispatched(L, r)
  PROVE  /\ K \in Ledgers
         /\ K.reserved = L.reserved /\ K.committed = L.committed /\ K.issued = L.issued
         /\ K.violation = L.violation /\ K.trial = L.trial
         /\ Active(K) = Active(L)
         /\ \A x \in Active(L) : /\ K.reservations[x].trial = L.reservations[x].trial
                                 /\ K.reservations[x].key = L.reservations[x].key
<1> DEFINE one == [L.reservations[r] EXCEPT !.dispatched = TRUE]
           maps == [L.reservations EXCEPT ![r] = one]
<1>1. L.reservations[r] \in ReservationRecords /\ L.reservations \in ReservationMaps
  BY ActiveReservation DEF Ledgers
<1>2. /\ one \in ReservationRecords
      /\ one.trial = L.reservations[r].trial /\ one.key = L.reservations[r].key
  BY <1>1, Zenon DEF ReservationRecords
<1>3. maps \in ReservationMaps
  <2> PICK S \in SUBSET Nat : L.reservations \in [S -> ReservationRecords]
    BY <1>1 DEF ReservationMaps
  <2> HIDE DEF one
  <2>1. maps \in [S -> ReservationRecords]
    BY <1>2, Zenon
  <2> HIDE DEF maps
  <2> QED BY <2>1, Zenon DEF ReservationMaps
<1>4. K = [L EXCEPT !.reservations = maps]
  BY DEF ReservationDispatched, Ledgers
<1>5. K \in Ledgers
  <2> HIDE DEF maps
  <2> QED BY <1>3, <1>4, Zenon DEF Ledgers
<1>6. /\ K.reserved = L.reserved /\ K.committed = L.committed /\ K.issued = L.issued
      /\ K.violation = L.violation /\ K.trial = L.trial /\ K.reservations = maps
  <2> HIDE DEF maps
  <2> QED BY <1>4 DEF Ledgers
<1>7. /\ DOMAIN maps = DOMAIN L.reservations
      /\ \A x \in DOMAIN L.reservations : /\ maps[x].trial = L.reservations[x].trial
                                          /\ maps[x].key = L.reservations[x].key
  <2> HIDE DEF one
  <2> QED BY <1>2
<1> HIDE DEF maps
<1> QED BY <1>5, <1>6, <1>7 DEF Active

(* BudgetStoppedEvent *)
LEMMA StoppedFields ==
  ASSUME NEW L \in Ledgers, NEW t \in Trials, NEW claim, NEW K, K = BudgetStopped(L, t, claim)
  PROVE  /\ K \in Ledgers
         /\ K.reserved = L.reserved /\ K.committed = L.committed /\ K.issued = L.issued
         /\ K.violation = L.violation /\ K.trial = L.trial
         /\ K.reservations = L.reservations
<1> DEFINE dims == IF OversizedTokens(claim) # {} THEN OversizedTokens(claim)
                   ELSE IF Overall(L, claim) # {} THEN Overall(L, claim)
                   ELSE OfTrial(L, t, claim)
           dimension == RejectedDimension(L, t, claim)
           stops == [L.trial_stop EXCEPT ![t] = dimension]
<1>1. dimension \in Stops
  <2>1. dims \in SUBSET Dimensions
    BY DEF OversizedTokens, Overall, OfTrial, Exceeded, Dimensions, Fields, ProviderFields
  <2>2. dimension = FirstOf(dims)
    BY DEF RejectedDimension
  <2> HIDE DEF dims, dimension
  <2> QED BY <2>1, <2>2, Zenon DEF Stops
<1>2. stops \in [Trials -> Stops]
  <2> HIDE DEF dimension
  <2> QED BY <1>1 DEF Ledgers
<1>3. CASE RejectedPerTrial(L, claim)
  <2>1. K = [L EXCEPT !.trial_stop = stops]
    BY <1>3 DEF BudgetStopped, Ledgers
  <2> HIDE DEF stops
  <2>2. K \in Ledgers
    BY <1>2, <2>1, Zenon DEF Ledgers
  <2> QED BY <2>1, <2>2 DEF Ledgers
<1>4. CASE ~RejectedPerTrial(L, claim)
  <2>1. K = [L EXCEPT !.global_stop = dimension]
    BY <1>4 DEF BudgetStopped
  <2> HIDE DEF dimension
  <2>2. K \in Ledgers
    BY <1>1, <2>1, Zenon DEF Ledgers
  <2> QED BY <2>1, <2>2 DEF Ledgers
<1> QED BY <1>3, <1>4

(* _apply_trial_outcome *)
LEMMA OutcomeFields ==
  ASSUME NEW L \in Ledgers, NEW t \in Trials, NEW disposition \in Outcomes,
         NEW K, K = TrialOutcomeRecorded(L, t, disposition)
  PROVE  /\ K \in Ledgers
         /\ K.reserved = L.reserved /\ K.committed = L.committed /\ K.issued = L.issued
         /\ K.violation = L.violation /\ K.reservations = L.reservations
         /\ \A u \in Trials :
              /\ K.trial[u].committed = L.trial[u].committed
              /\ K.trial[u].reserved = L.trial[u].reserved
              /\ K.trial[u].attempts = L.trial[u].attempts
              /\ u # t => K.trial[u] = L.trial[u]
<1> DEFINE owner == [L.trial[t] EXCEPT !.outcome = disposition]
           trials == [L.trial EXCEPT ![t] = owner]
<1>1. L.trial \in [Trials -> TrialLedgers] /\ L.trial[t] \in TrialLedgers
  BY DEF Ledgers
<1>2. /\ owner \in TrialLedgers
      /\ owner.committed = L.trial[t].committed /\ owner.reserved = L.trial[t].reserved
      /\ owner.attempts = L.trial[t].attempts
  <2>1. owner \in TrialLedgers
    BY <1>1, Zenon DEF TrialLedgers
  <2> QED BY <1>1, <2>1, Zenon DEF TrialLedgers
<1>3. /\ trials \in [Trials -> TrialLedgers]
      /\ \A u \in Trials : IF u = t THEN trials[u] = owner ELSE trials[u] = L.trial[u]
  <2> HIDE DEF owner
  <2> QED BY <1>1, <1>2
<1>4. K = [L EXCEPT !.trial = trials]
  BY DEF TrialOutcomeRecorded, Ledgers
<1> HIDE DEF trials
<1>5. K \in Ledgers
  BY <1>3, <1>4, Zenon DEF Ledgers
<1>6. /\ K.reserved = L.reserved /\ K.committed = L.committed /\ K.issued = L.issued
      /\ K.violation = L.violation /\ K.reservations = L.reservations /\ K.trial = trials
  BY <1>4 DEF Ledgers
<1> HIDE DEF owner
<1> QED BY <1>2, <1>3, <1>5, <1>6

(* The outcomes that stop_unfinished records. *)
LEMMA AllStoppedFields ==
  ASSUME NEW L \in Ledgers, NEW K, K = AllStopped(L)
  PROVE  /\ K \in Ledgers
         /\ K.reserved = L.reserved /\ K.committed = L.committed /\ K.issued = L.issued
         /\ K.violation = L.violation /\ K.reservations = L.reservations
         /\ \A u \in Trials :
              /\ K.trial[u].committed = L.trial[u].committed
              /\ K.trial[u].reserved = L.trial[u].reserved
              /\ K.trial[u].attempts = L.trial[u].attempts
              /\ L.trial[u].outcome # NoOutcome => K.trial[u] = L.trial[u]
<1> DEFINE word(t) == IF Dispatched(L, t) THEN "failed_before_run" ELSE "not_dispatched"
           ended(t) == [L.trial[t] EXCEPT !.outcome = word(t)]
           trials == [t \in Trials |-> IF t \notin Unfinished(L) THEN L.trial[t] ELSE ended(t)]
<1>1. ASSUME NEW t \in Trials
      PROVE  /\ L.trial[t] \in TrialLedgers /\ ended(t) \in TrialLedgers
             /\ ended(t).committed = L.trial[t].committed
             /\ ended(t).reserved = L.trial[t].reserved
             /\ ended(t).attempts = L.trial[t].attempts
  <2>1. L.trial[t] \in TrialLedgers /\ word(t) \in Outcomes
    BY DEF Ledgers, Outcomes
  <2> HIDE DEF word
  <2>2. ended(t) \in TrialLedgers
    BY <2>1, Zenon DEF TrialLedgers
  <2> QED BY <2>1, <2>2 DEF TrialLedgers
<1>2. trials \in [Trials -> TrialLedgers]
  <2> HIDE DEF ended
  <2> QED BY <1>1
<1>3. K = [L EXCEPT !.trial = trials]
  BY DEF AllStopped
<1>4. ASSUME NEW u \in Trials
      PROVE  /\ trials[u].committed = L.trial[u].committed
             /\ trials[u].reserved = L.trial[u].reserved
             /\ trials[u].attempts = L.trial[u].attempts
             /\ L.trial[u].outcome # NoOutcome => trials[u] = L.trial[u]
  <2> HIDE DEF ended
  <2> QED BY <1>1 DEF Unfinished
<1> HIDE DEF trials
<1>5. K \in Ledgers
  BY <1>2, <1>3, Zenon DEF Ledgers
<1>6. /\ K.reserved = L.reserved /\ K.committed = L.committed /\ K.issued = L.issued
      /\ K.violation = L.violation /\ K.reservations = L.reservations /\ K.trial = trials
  BY <1>3 DEF Ledgers
<1> QED BY <1>4, <1>5, <1>6

(* ------------------------------------------------------------------------ *)
(* What replay keeps true of a ledger                                       *)
(* ------------------------------------------------------------------------ *)

LedgerFits(L) ==
  ~L.violation =>
     /\ Fits(L.committed, L.reserved, GlobalLimit)
     /\ \A t \in Trials : Fits(L.trial[t].committed, L.trial[t].reserved, TrialLimit)

(* Only a trial without an outcome has open reservations. *)
OpenTrials(L) == \A r \in Active(L) : L.trial[L.reservations[r].trial].outcome = NoOutcome

(* A request is reserved only while it was never attempted, and only once. *)
FirstAttempts(L) ==
  \A r \in Active(L) : IsProvider(L.reservations[r]) =>
     L.trial[L.reservations[r].trial].attempts[L.reservations[r].key] = << >>

OneClaimPerRequest(L) ==
  \A r, s \in Active(L) :
     /\ IsProvider(L.reservations[r])
     /\ L.reservations[r].trial = L.reservations[s].trial
     /\ L.reservations[r].key = L.reservations[s].key
     => r = s

(* A request has at most one attempt, and one that could be retried has    *)
(* poisoned the campaign.                                                  *)
OneTry(L) ==
  \A t \in Trials, k \in Keys :
     L.trial[t].attempts[k] # << >> =>
       /\ Len(L.trial[t].attempts[k]) = 1
       /\ L.trial[t].attempts[k][1].disposition = "retryable_failure" => L.violation

Sound(L) ==
  /\ L \in Ledgers
  /\ Active(L) \subseteq 1..L.issued
  /\ LedgerFits(L) /\ OpenTrials(L) /\ FirstAttempts(L) /\ OneClaimPerRequest(L) /\ OneTry(L)

(* Trials with an outcome are left alone. *)
Keeps(L, K) == \A t \in Trials : L.trial[t].outcome # NoOutcome => K.trial[t] = L.trial[t]

(* Leaving closed trials alone composes (finalize_run records two events). *)
LEMMA KeepsTransitive ==
  ASSUME NEW L, NEW S, NEW K, Keeps(L, S), Keeps(S, K)
  PROVE  Keeps(L, K)
BY DEF Keeps

(* Taking one reservation out leaves what the others were. *)
LEMMA AfterRelease ==
  ASSUME NEW L, Sound(L), NEW r \in Active(L), NEW K \in Ledgers,
         K.reservations = Without(L.reservations, r), K.issued = L.issued,
         \A t \in Trials : K.trial[t].outcome = L.trial[t].outcome
  PROVE  /\ Active(K) = Active(L) \ {r}
         /\ \A x \in Active(K) : K.reservations[x] = L.reservations[x]
         /\ Active(K) \subseteq 1..K.issued
         /\ OpenTrials(K) /\ OneClaimPerRequest(K)
<1>1. /\ Active(K) = Active(L) \ {r}
      /\ \A x \in Active(K) : K.reservations[x] = L.reservations[x]
  BY DEF Active, Without
<1>2. \A x \in Active(L) : L.reservations[x].trial \in Trials
  BY ActiveReservation DEF Sound, ReservationRecords
<1>3. Active(K) \subseteq 1..K.issued
  BY <1>1 DEF Sound
<1>4. OpenTrials(K)
  BY <1>1, <1>2 DEF Sound, OpenTrials
<1>5. OneClaimPerRequest(K)
  BY <1>1 DEF Sound, OneClaimPerRequest
<1> QED BY <1>1, <1>3, <1>4, <1>5

(* Cancelling a reservation (ReservationCancelledEvent). *)
LEMMA SoundCancelled ==
  ASSUME NEW L, Sound(L), NEW r \in Active(L), NEW K, K = ReservationCancelled(L, r)
  PROVE  Sound(K) /\ Keeps(L, K) /\ Active(K) = Active(L) \ {r}
<1> DEFINE res == L.reservations[r]
<1>0. L \in Ledgers /\ res \in ReservationRecords /\ res.trial \in Trials /\ res.claim \in Resources
  BY ActiveReservation DEF Sound, ReservationRecords
<1>1. /\ K \in Ledgers
      /\ K.reserved = Minus(L.reserved, res.claim)
      /\ K.reservations = Without(L.reservations, r)
      /\ K.committed = L.committed /\ K.issued = L.issued /\ K.violation = L.violation
      /\ \A t \in Trials :
           /\ K.trial[t].committed = L.trial[t].committed
           /\ K.trial[t].attempts = L.trial[t].attempts
           /\ K.trial[t].outcome = L.trial[t].outcome
           /\ K.trial[t].reserved = IF t = res.trial THEN Minus(L.trial[t].reserved, res.claim)
                                    ELSE L.trial[t].reserved
           /\ t # res.trial => K.trial[t] = L.trial[t]
  <2>1. CancelledShape(L, r, K)
    BY <1>0, CancelledFields
  <2> QED BY <2>1 DEF CancelledShape
<1> HIDE DEF res
<1>2. /\ Active(K) = Active(L) \ {r}
      /\ \A x \in Active(K) : K.reservations[x] = L.reservations[x]
      /\ Active(K) \subseteq 1..K.issued
      /\ OpenTrials(K) /\ OneClaimPerRequest(K)
  <2>1. /\ K \in Ledgers /\ K.reservations = Without(L.reservations, r) /\ K.issued = L.issued
        /\ \A t \in Trials : K.trial[t].outcome = L.trial[t].outcome
    BY <1>1
  <2> QED BY <2>1, AfterRelease
<1>3. LedgerFits(K)
  <2> SUFFICES ASSUME ~K.violation
               PROVE  /\ Fits(K.committed, K.reserved, GlobalLimit)
                      /\ \A t \in Trials :
                           Fits(K.trial[t].committed, K.trial[t].reserved, TrialLimit)
    BY DEF LedgerFits
  <2>1. /\ Fits(L.committed, L.reserved, GlobalLimit)
        /\ \A t \in Trials : Fits(L.trial[t].committed, L.trial[t].reserved, TrialLimit)
        /\ GlobalLimit \in Limits /\ TrialLimit \in Limits
    BY <1>1, LimitsAssumption DEF Sound, LedgerFits, Limits
  <2>2. L.committed \in Vectors /\ L.reserved \in Vectors
    BY <1>0 DEF Ledgers
  <2>3. Fits(K.committed, K.reserved, GlobalLimit)
    BY <1>0, <1>1, <2>1, <2>2, FitsAfterRelease
  <2>4. ASSUME NEW t \in Trials
        PROVE  Fits(K.trial[t].committed, K.trial[t].reserved, TrialLimit)
    <3>1. L.trial[t].committed \in Vectors /\ L.trial[t].reserved \in Vectors
      BY <1>0 DEF Ledgers, TrialLedgers
    <3>2. Fits(L.trial[t].committed, Minus(L.trial[t].reserved, res.claim), TrialLimit)
      BY <1>0, <2>1, <3>1, FitsAfterRelease
    <3> QED BY <1>1, <2>1, <3>2
  <2> QED BY <2>3, <2>4
<1>4. FirstAttempts(K)
  <2> SUFFICES ASSUME NEW x \in Active(K), IsProvider(K.reservations[x])
               PROVE  K.trial[K.reservations[x].trial].attempts[K.reservations[x].key] = << >>
    BY Zenon DEF FirstAttempts
  <2>1. x \in Active(L) /\ K.reservations[x] = L.reservations[x]
    BY <1>2
  <2>2. L.reservations[x].trial \in Trials
    BY <1>0, <2>1, ActiveReservation DEF ReservationRecords
  <2>3. L.trial[L.reservations[x].trial].attempts[L.reservations[x].key] = << >>
    BY <2>1, Zenon DEF Sound, FirstAttempts
  <2>4. \A t \in Trials : K.trial[t].attempts = L.trial[t].attempts
    BY <1>1, Zenon
  <2> QED BY <2>1, <2>2, <2>3, <2>4, Zenon
<1>5. OneTry(K)
  <2>1. L.violation => K.violation
    BY <1>1
  <2>2. \A t \in Trials : K.trial[t].attempts = L.trial[t].attempts
    BY <1>1, Zenon
  <2>3. OneTry(L)
    BY DEF Sound
  <2> QED BY <2>1, <2>2, <2>3 DEF OneTry
<1>6. Keeps(L, K)
  <2>1. L.trial[res.trial].outcome = NoOutcome
    BY DEF Sound, OpenTrials, res
  <2> QED BY <1>1, <2>1 DEF Keeps
<1> QED BY <1>1, <1>2, <1>3, <1>4, <1>5, <1>6, Zenon DEF Sound

(* Settling a reservation (_settle). *)
LEMMA SoundSettled ==
  ASSUME NEW L, Sound(L), NEW r \in Active(L), NEW actual \in Vectors,
         NEW K, K = Settle(L, r, actual)
  PROVE  Sound(K) /\ Keeps(L, K) /\ Active(K) = Active(L) \ {r}
<1> DEFINE res == L.reservations[r]
<1>0. L \in Ledgers /\ res \in ReservationRecords /\ res.trial \in Trials /\ res.claim \in Resources
  BY ActiveReservation DEF Sound, ReservationRecords
<1>1. /\ K \in Ledgers
      /\ K.reserved = Minus(L.reserved, res.claim)
      /\ K.committed = Plus(L.committed, actual)
      /\ K.reservations = Without(L.reservations, r)
      /\ K.issued = L.issued
      /\ K.violation = (L.violation \/ Exceeds(actual, res.claim))
      /\ \A t \in Trials :
           /\ K.trial[t].attempts = L.trial[t].attempts
           /\ K.trial[t].outcome = L.trial[t].outcome
           /\ K.trial[t].reserved = IF t = res.trial THEN Minus(L.trial[t].reserved, res.claim)
                                    ELSE L.trial[t].reserved
           /\ K.trial[t].committed = IF t = res.trial THEN Plus(L.trial[t].committed, actual)
                                     ELSE L.trial[t].committed
           /\ t # res.trial => K.trial[t] = L.trial[t]
  <2>1. SettledShape(L, r, actual, K)
    BY <1>0, SettledFields
  <2> QED BY <2>1, Zenon DEF SettledShape
<1> HIDE DEF res
<1>2. /\ Active(K) = Active(L) \ {r}
      /\ \A x \in Active(K) : K.reservations[x] = L.reservations[x]
      /\ Active(K) \subseteq 1..K.issued
      /\ OpenTrials(K) /\ OneClaimPerRequest(K)
  <2>1. /\ K \in Ledgers /\ K.reservations = Without(L.reservations, r) /\ K.issued = L.issued
        /\ \A t \in Trials : K.trial[t].outcome = L.trial[t].outcome
    BY <1>1
  <2> QED BY <2>1, AfterRelease
<1>3. LedgerFits(K)
  <2> SUFFICES ASSUME ~K.violation
               PROVE  /\ Fits(K.committed, K.reserved, GlobalLimit)
                      /\ \A t \in Trials :
                           Fits(K.trial[t].committed, K.trial[t].reserved, TrialLimit)
    BY DEF LedgerFits
  <2>1. /\ ~Exceeds(actual, res.claim)
        /\ Fits(L.committed, L.reserved, GlobalLimit)
        /\ \A t \in Trials : Fits(L.trial[t].committed, L.trial[t].reserved, TrialLimit)
        /\ GlobalLimit \in Limits /\ TrialLimit \in Limits
    BY <1>1, LimitsAssumption, Zenon DEF Sound, LedgerFits, Limits
  <2>2. L.committed \in Vectors /\ L.reserved \in Vectors
    BY <1>0 DEF Ledgers
  <2>3. Fits(K.committed, K.reserved, GlobalLimit)
    <3>1. Fits(Plus(L.committed, actual), Minus(L.reserved, res.claim), GlobalLimit)
      BY <1>0, <2>1, <2>2, FitsAfterSettle
    <3> QED BY <1>1, <3>1, Zenon
  <2>4. ASSUME NEW t \in Trials
        PROVE  Fits(K.trial[t].committed, K.trial[t].reserved, TrialLimit)
    <3>1. L.trial[t].committed \in Vectors /\ L.trial[t].reserved \in Vectors
      BY <1>0 DEF Ledgers, TrialLedgers
    <3>2. Fits(Plus(L.trial[t].committed, actual), Minus(L.trial[t].reserved, res.claim), TrialLimit)
      BY <1>0, <2>1, <3>1, FitsAfterSettle, Zenon
    <3> QED BY <1>1, <2>1, <3>2, Zenon
  <2> QED BY <2>3, <2>4
<1>4. FirstAttempts(K)
  <2> SUFFICES ASSUME NEW x \in Active(K), IsProvider(K.reservations[x])
               PROVE  K.trial[K.reservations[x].trial].attempts[K.reservations[x].key] = << >>
    BY Zenon DEF FirstAttempts
  <2>1. x \in Active(L) /\ K.reservations[x] = L.reservations[x]
    BY <1>2
  <2>2. L.reservations[x].trial \in Trials
    BY <1>0, <2>1, ActiveReservation DEF ReservationRecords
  <2>3. L.trial[L.reservations[x].trial].attempts[L.reservations[x].key] = << >>
    BY <2>1, Zenon DEF Sound, FirstAttempts
  <2>4. \A t \in Trials : K.trial[t].attempts = L.trial[t].attempts
    BY <1>1, Zenon
  <2> QED BY <2>1, <2>2, <2>3, <2>4, Zenon
<1>5. OneTry(K)
  <2>1. L.violation => K.violation
    BY <1>1, Zenon
  <2>2. \A t \in Trials : K.trial[t].attempts = L.trial[t].attempts
    BY <1>1, Zenon
  <2>3. OneTry(L)
    BY DEF Sound
  <2> QED BY <2>1, <2>2, <2>3 DEF OneTry
<1>6. Keeps(L, K)
  <2>1. L.trial[res.trial].outcome = NoOutcome
    BY DEF Sound, OpenTrials, res
  <2> QED BY <1>1, <2>1 DEF Keeps
<1> QED BY <1>1, <1>2, <1>3, <1>4, <1>5, <1>6 DEF Sound

(* Settling a provider attempt (_apply_provider_settlement). *)
LEMMA SoundAttempt ==
  ASSUME NEW L, Sound(L), NEW r \in Active(L), IsProvider(L.reservations[r]),
         NEW known \in BOOLEAN, NEW usage \in TokenVectors, NEW disposition \in Dispositions,
         disposition = "retryable_failure" => ~known,
         NEW K, K = ProviderAttemptSettled(L, r, disposition, known, usage)
  PROVE  Sound(K) /\ Keeps(L, K) /\ Active(K) = Active(L) \ {r}
<1> DEFINE res == L.reservations[r]
           S == Settle(L, r, RequestResources(usage))
<1>0. /\ L \in Ledgers /\ res \in ReservationRecords /\ res.trial \in Trials /\ res.key \in Keys
      /\ RequestResources(usage) \in Vectors
  BY ActiveReservation, VectorConstants, Zenon DEF Sound, ReservationRecords, IsProvider
<1>1. Sound(S) /\ Keeps(L, S) /\ Active(S) = Active(L) \ {r}
  BY <1>0, SoundSettled
<1>2. /\ S.reservations = Without(L.reservations, r)
      /\ \A t \in Trials : S.trial[t].attempts = L.trial[t].attempts
  <2>1. SettledShape(L, r, RequestResources(usage), S)
    BY <1>0, SettledFields
  <2> HIDE DEF S
  <2> QED BY <2>1 DEF SettledShape
<1>a. AttemptShape(L, r, disposition, known, S, K)
  BY <1>0, AttemptFields
<1>3. /\ K \in Ledgers
      /\ K.reserved = S.reserved /\ K.committed = S.committed
      /\ K.reservations = S.reservations /\ K.issued = S.issued
      /\ K.violation = (S.violation \/ ~known)
      /\ \A t \in Trials :
           /\ K.trial[t].committed = S.trial[t].committed
           /\ K.trial[t].reserved = S.trial[t].reserved
           /\ K.trial[t].outcome = S.trial[t].outcome
           /\ t # res.trial => K.trial[t] = S.trial[t]
  <2> HIDE DEF S
  <2> QED BY <1>a DEF AttemptShape
<1>p. PICK attempt \in Attempts :
      /\ attempt.disposition = disposition
      /\ \A t \in Trials, k \in Keys :
           K.trial[t].attempts[k] = IF t = res.trial /\ k = res.key
                                    THEN Append(S.trial[t].attempts[k], attempt)
                                    ELSE S.trial[t].attempts[k]
  <2> HIDE DEF S
  <2> QED BY <1>a DEF AttemptShape
<1> HIDE DEF S, res
<1>4. /\ Active(K) = Active(S)
      /\ \A x \in Active(K) : K.reservations[x] = S.reservations[x] /\ S.reservations[x] = L.reservations[x]
      /\ \A x \in Active(K) : L.reservations[x] \in ReservationRecords
  <2>1. \A x \in Active(L) : L.reservations[x] \in ReservationRecords
    BY <1>0, ActiveReservation
  <2> QED BY <1>1, <1>2, <1>3, <2>1 DEF Active, Without
<1>5. L.trial[res.trial].attempts[res.key] = << >>
  BY Zenon DEF Sound, FirstAttempts, res
<1>6. Active(K) \subseteq 1..K.issued /\ LedgerFits(K)
  BY <1>1, <1>3, <1>4, Zenon DEF Sound, LedgerFits
<1>7. OpenTrials(K) /\ OneClaimPerRequest(K)
  <2>1. OpenTrials(S) /\ OneClaimPerRequest(S)
    BY <1>1 DEF Sound
  <2>2. /\ \A x \in Active(K) : K.reservations[x] = S.reservations[x]
        /\ \A x \in Active(K) : S.reservations[x].trial \in Trials
        /\ \A t \in Trials : K.trial[t].outcome = S.trial[t].outcome
    BY <1>3, <1>4 DEF ReservationRecords
  <2>3. OpenTrials(K)
    BY <1>4, <2>1, <2>2 DEF OpenTrials
  <2>4. OneClaimPerRequest(K)
    BY <1>4, <2>1, <2>2 DEF OneClaimPerRequest
  <2> QED BY <2>3, <2>4
<1>8. FirstAttempts(K)
  <2> SUFFICES ASSUME NEW x \in Active(K), IsProvider(K.reservations[x])
               PROVE  K.trial[K.reservations[x].trial].attempts[K.reservations[x].key] = << >>
    BY Zenon DEF FirstAttempts
  <2>1. /\ x \in Active(L) /\ x # r /\ K.reservations[x] = L.reservations[x]
        /\ L.reservations[x].trial \in Trials /\ L.reservations[x].key \in Keys
    BY <1>1, <1>4 DEF ReservationRecords, IsProvider
  <2>2. ~(L.reservations[x].trial = res.trial /\ L.reservations[x].key = res.key)
    BY <2>1 DEF Sound, OneClaimPerRequest, res
  <2>3. L.trial[L.reservations[x].trial].attempts[L.reservations[x].key] = << >>
    BY <2>1, Zenon DEF Sound, FirstAttempts
  <2>4. /\ K.trial[L.reservations[x].trial].attempts[L.reservations[x].key]
             = S.trial[L.reservations[x].trial].attempts[L.reservations[x].key]
        /\ S.trial[L.reservations[x].trial].attempts = L.trial[L.reservations[x].trial].attempts
    BY <1>2, <1>p, <2>1, <2>2, Zenon
  <2> QED BY <2>1, <2>3, <2>4, Zenon
<1>9. OneTry(K)
  <2> SUFFICES ASSUME NEW t \in Trials, NEW k \in Keys, K.trial[t].attempts[k] # << >>
               PROVE  /\ Len(K.trial[t].attempts[k]) = 1
                      /\ K.trial[t].attempts[k][1].disposition = "retryable_failure"
                           => K.violation
    BY DEF OneTry
  <2>1. CASE t = res.trial /\ k = res.key
    <3>1. K.trial[t].attempts[k] = Append(<< >>, attempt)
      <4>1. S.trial[t].attempts[k] = << >>
        BY <1>2, <1>5, <2>1
      <4>2. K.trial[t].attempts[k] = Append(S.trial[t].attempts[k], attempt)
        BY <1>p, <2>1, Zenon
      <4> QED BY <4>1, <4>2
    <3>2. Len(Append(<< >>, attempt)) = 1 /\ Append(<< >>, attempt)[1] = attempt
      OBVIOUS
    <3>3. ~known => K.violation
      BY <1>3, Zenon
    <3> QED BY <1>p, <3>1, <3>2, <3>3
  <2>2. CASE ~(t = res.trial /\ k = res.key)
    <3>1. K.trial[t].attempts[k] = S.trial[t].attempts[k]
      BY <1>p, <2>2
    <3>2. S.violation => K.violation
      BY <1>3, Zenon
    <3>3. OneTry(S)
      BY <1>1 DEF Sound
    <3> QED BY <3>1, <3>2, <3>3 DEF OneTry
  <2> QED BY <2>1, <2>2, Zenon
<1>10. Keeps(L, K)
  <2>1. L.trial[res.trial].outcome = NoOutcome
    BY DEF Sound, OpenTrials, res
  <2> QED BY <1>1, <1>3, <2>1 DEF Keeps
<1> QED BY <1>1, <1>3, <1>4, <1>6, <1>7, <1>8, <1>9, <1>10, Zenon DEF Sound

(* Admitting a reservation (reservation_rejection, _apply_reservation_created). *)
LEMMA SoundCreated ==
  ASSUME NEW L, Sound(L), NEW t \in Trials, NEW k \in Keys \cup {NoKey}, NEW claim \in Resources,
         Ready(L, t), ~Rejected(L, t, claim),
         k # NoKey => MayRetry(L, t, k) /\ MayAttempt(L, t, k, claim),
         NEW K, K = ReservationCreated(L, t, k, claim)
  PROVE  Sound(K) /\ Keeps(L, K)
<1>0. /\ L \in Ledgers /\ Active(L) \subseteq 1..L.issued /\ L.issued \in Nat
      /\ claim \in Vectors /\ ~L.violation /\ L.trial[t].outcome = NoOutcome
  BY VectorConstants DEF Sound, Ledgers, Ready
<1> DEFINE fresh == [trial |-> t, key |-> k, claim |-> claim, dispatched |-> FALSE]
           next == L.issued + 1
<1>1. /\ K \in Ledgers
      /\ K.reserved = Plus(L.reserved, claim) /\ K.committed = L.committed
      /\ K.issued = next /\ K.violation = L.violation
      /\ Active(K) = Active(L) \cup {next}
      /\ \A r \in Active(K) : K.reservations[r] = IF r = next THEN fresh ELSE L.reservations[r]
      /\ \A u \in Trials :
           /\ K.trial[u].committed = L.trial[u].committed
           /\ K.trial[u].attempts = L.trial[u].attempts
           /\ K.trial[u].outcome = L.trial[u].outcome
           /\ K.trial[u].reserved = IF u = t THEN Plus(L.trial[u].reserved, claim)
                                    ELSE L.trial[u].reserved
           /\ u # t => K.trial[u] = L.trial[u]
  <2>1. CreatedShape(L, t, k, claim, K)
    BY <1>0, CreatedFields
  <2> QED BY <2>1, Zenon DEF CreatedShape
<1>2. /\ fresh.trial = t /\ fresh.key = k /\ next \in Nat /\ next \notin Active(L)
      /\ Active(K) \subseteq 1..K.issued
  <2>1. Active(K) = Active(L) \cup {next} /\ K.issued = next
    BY <1>1, Zenon
  <2> QED BY <1>0, <2>1
<1>3. \A r \in Active(L) : L.reservations[r] \in ReservationRecords
  BY <1>0, ActiveReservation, Zenon
<1>4. k # NoKey => /\ L.trial[t].attempts[k] = << >>
                   /\ \A r \in Active(L) :
                        ~(L.reservations[r].trial = t /\ L.reservations[r].key = k)
  <2> SUFFICES ASSUME k # NoKey
               PROVE  /\ L.trial[t].attempts[k] = << >>
                      /\ \A r \in Active(L) :
                           ~(L.reservations[r].trial = t /\ L.reservations[r].key = k)
    OBVIOUS
  <2>1. \A r \in Active(L) : ~(L.reservations[r].trial = t /\ L.reservations[r].key = k)
    BY Zenon DEF MayAttempt
  <2>2. ASSUME L.trial[t].attempts[k] # << >> PROVE FALSE
    <3>1. /\ Len(L.trial[t].attempts[k]) = 1
          /\ L.trial[t].attempts[k][1].disposition # "retryable_failure"
      BY <1>0, <2>2, Zenon DEF Sound, OneTry
    <3>2. L.trial[t].attempts[k][Len(L.trial[t].attempts[k])].disposition = "retryable_failure"
      BY <2>2, Zenon DEF MayRetry, LastOf
    <3> QED BY <3>1, <3>2
  <2> QED BY <2>1, <2>2
<1>5. LedgerFits(K)
  <2>1. /\ Exceeded(L.committed, L.reserved, claim, GlobalLimit) = {}
        /\ Exceeded(L.trial[t].committed, L.trial[t].reserved, claim, TrialLimit) = {}
    BY DEF Rejected, Overall, OfTrial
  <2>2. /\ \A u \in Trials : Fits(L.trial[u].committed, L.trial[u].reserved, TrialLimit)
        /\ GlobalLimit \in Limits /\ TrialLimit \in Limits
    BY <1>0, LimitsAssumption, Zenon DEF Sound, LedgerFits, Limits
  <2>3. L.committed \in Vectors /\ L.reserved \in Vectors
    BY <1>0 DEF Ledgers
  <2>4. L.trial[t].committed \in Vectors /\ L.trial[t].reserved \in Vectors
    BY <1>0 DEF Ledgers, TrialLedgers
  <2>5. /\ Fits(L.committed, Plus(L.reserved, claim), GlobalLimit)
        /\ Fits(L.trial[t].committed, Plus(L.trial[t].reserved, claim), TrialLimit)
    BY <1>0, <2>1, <2>2, <2>3, <2>4, FitsAfterReserve, Zenon
  <2>6. ASSUME NEW u \in Trials
        PROVE  Fits(K.trial[u].committed, K.trial[u].reserved, TrialLimit)
    <3>1. /\ K.trial[u].committed = L.trial[u].committed
          /\ K.trial[u].reserved = IF u = t THEN Plus(L.trial[u].reserved, claim)
                                   ELSE L.trial[u].reserved
      BY <1>1, Zenon
    <3> QED BY <2>2, <2>5, <3>1, Zenon
  <2>7. Fits(K.committed, K.reserved, GlobalLimit)
    <3>1. K.committed = L.committed /\ K.reserved = Plus(L.reserved, claim)
      BY <1>1, Zenon
    <3> QED BY <2>5, <3>1, Zenon
  <2> QED BY <2>6, <2>7 DEF LedgerFits
<1> HIDE DEF fresh, next
<1>6. OpenTrials(K)
  <2> SUFFICES ASSUME NEW r \in Active(K)
               PROVE  K.trial[K.reservations[r].trial].outcome = NoOutcome
    BY DEF OpenTrials
  <2>0. \A u \in Trials : K.trial[u].outcome = L.trial[u].outcome
    BY <1>1, Zenon
  <2>1. CASE r = next
    <3>1. K.reservations[r].trial = t
      BY <1>1, <1>2, <2>1, Zenon
    <3> QED BY <1>0, <2>0, <3>1
  <2>2. CASE r # next
    <3>1. K.reservations[r] = L.reservations[r] /\ r \in Active(L)
      BY <1>1, <2>2, Zenon
    <3>2. L.reservations[r].trial \in Trials
      BY <1>3, <3>1 DEF ReservationRecords
    <3> QED BY <2>0, <3>1, <3>2, Zenon DEF Sound, OpenTrials
  <2> QED BY <2>1, <2>2, Zenon
<1>7. FirstAttempts(K)
  <2> SUFFICES ASSUME NEW r \in Active(K), IsProvider(K.reservations[r])
               PROVE  K.trial[K.reservations[r].trial].attempts[K.reservations[r].key] = << >>
    BY Zenon DEF FirstAttempts
  <2>0. \A u \in Trials : K.trial[u].attempts = L.trial[u].attempts
    BY <1>1, Zenon
  <2>1. CASE r = next
    <3>1. K.reservations[r].trial = t /\ K.reservations[r].key = k /\ k # NoKey
      BY <1>1, <1>2, <2>1, Zenon DEF IsProvider
    <3> QED BY <1>4, <2>0, <3>1
  <2>2. CASE r # next
    <3>1. K.reservations[r] = L.reservations[r] /\ r \in Active(L)
      BY <1>1, <2>2, Zenon
    <3>2. L.reservations[r].trial \in Trials
      BY <1>3, <3>1 DEF ReservationRecords
    <3> QED BY <2>0, <3>1, <3>2, Zenon DEF Sound, FirstAttempts
  <2> QED BY <2>1, <2>2, Zenon
<1>8. OneClaimPerRequest(K)
  <2> SUFFICES ASSUME NEW r \in Active(K), NEW s \in Active(K),
                      IsProvider(K.reservations[r]),
                      K.reservations[r].trial = K.reservations[s].trial,
                      K.reservations[r].key = K.reservations[s].key
               PROVE  r = s
    BY DEF OneClaimPerRequest
  <2>1. /\ Active(K) = Active(L) \cup {next}
        /\ \A x \in Active(K) : K.reservations[x] = IF x = next THEN fresh ELSE L.reservations[x]
    BY <1>1, Zenon
  <2>2. CASE r # next /\ s # next
    BY <2>1, <2>2, Zenon DEF Sound, OneClaimPerRequest
  <2>3. CASE r = next /\ s # next
    BY <1>2, <1>4, <2>1, <2>3, Zenon DEF IsProvider
  <2>4. CASE r # next /\ s = next
    BY <1>2, <1>4, <2>1, <2>4, Zenon DEF IsProvider
  <2> QED BY <2>2, <2>3, <2>4
<1>9. OneTry(K)
  <2>1. (L.violation => K.violation) /\ \A u \in Trials : K.trial[u].attempts = L.trial[u].attempts
    BY <1>1, Zenon
  <2>2. OneTry(L)
    BY DEF Sound
  <2> QED BY <2>1, <2>2, Zenon DEF OneTry
<1>10. Keeps(L, K)
  BY <1>0, <1>1, Zenon DEF Keeps
<1> QED BY <1>1, <1>2, <1>5, <1>6, <1>7, <1>8, <1>9, <1>10, Zenon DEF Sound

(* An event that moves no resources and opens or closes no reservation. *)
LEMMA SoundSame ==
  ASSUME NEW L, Sound(L), NEW K \in Ledgers, OpenTrials(K),
         K.reserved = L.reserved, K.committed = L.committed, K.issued = L.issued,
         K.violation = L.violation, Active(K) = Active(L),
         \A x \in Active(L) : /\ K.reservations[x].trial = L.reservations[x].trial
                              /\ K.reservations[x].key = L.reservations[x].key,
         \A u \in Trials : /\ K.trial[u].committed = L.trial[u].committed
                           /\ K.trial[u].reserved = L.trial[u].reserved
                           /\ K.trial[u].attempts = L.trial[u].attempts
  PROVE  Sound(K)
<1>1. LedgerFits(K)
  BY Zenon DEF Sound, LedgerFits
<1>2. FirstAttempts(K)
  <2> SUFFICES ASSUME NEW x \in Active(K), IsProvider(K.reservations[x])
               PROVE  K.trial[K.reservations[x].trial].attempts[K.reservations[x].key] = << >>
    BY Zenon DEF FirstAttempts
  <2>1. /\ x \in Active(L) /\ K.reservations[x].trial = L.reservations[x].trial
        /\ K.reservations[x].key = L.reservations[x].key
    OBVIOUS
  <2>2. L.reservations[x].trial \in Trials
    BY <2>1, ActiveReservation, Zenon DEF Sound, ReservationRecords
  <2>3. L.trial[L.reservations[x].trial].attempts[L.reservations[x].key] = << >>
    BY <2>1, Zenon DEF Sound, FirstAttempts, IsProvider
  <2> QED BY <2>1, <2>2, <2>3, Zenon
<1>3. OneClaimPerRequest(K)
  BY DEF Sound, OneClaimPerRequest, IsProvider
<1>4. OneTry(K)
  BY Zenon DEF Sound, OneTry
<1> QED BY <1>1, <1>2, <1>3, <1>4, Zenon DEF Sound

(* Marking a reservation dispatched (ReservationDispatchedEvent). *)
LEMMA SoundDispatched ==
  ASSUME NEW L, Sound(L), NEW r \in Active(L), NEW K, K = ReservationDispatched(L, r)
  PROVE  Sound(K) /\ Keeps(L, K)
<1>0. L \in Ledgers
  BY DEF Sound
<1>1. /\ K \in Ledgers
      /\ K.reserved = L.reserved /\ K.committed = L.committed /\ K.issued = L.issued
      /\ K.violation = L.violation /\ K.trial = L.trial
      /\ Active(K) = Active(L)
      /\ \A x \in Active(L) : /\ K.reservations[x].trial = L.reservations[x].trial
                              /\ K.reservations[x].key = L.reservations[x].key
  BY <1>0, DispatchedFields
<1>2. OpenTrials(K)
  BY <1>1, Zenon DEF Sound, OpenTrials
<1> QED BY <1>1, <1>2, SoundSame DEF Keeps

(* Recording a budget stop (BudgetStoppedEvent). *)
LEMMA SoundStopped ==
  ASSUME NEW L, Sound(L), NEW t \in Trials, NEW claim, NEW K, K = BudgetStopped(L, t, claim)
  PROVE  Sound(K) /\ Keeps(L, K)
<1>0. L \in Ledgers
  BY DEF Sound
<1>1. /\ K \in Ledgers
      /\ K.reserved = L.reserved /\ K.committed = L.committed /\ K.issued = L.issued
      /\ K.violation = L.violation /\ K.trial = L.trial /\ K.reservations = L.reservations
  BY <1>0, StoppedFields
<1>2. OpenTrials(K) /\ Active(K) = Active(L)
  BY <1>1 DEF Sound, OpenTrials, Active
<1> QED BY <1>1, <1>2, SoundSame DEF Keeps

(* Recording an outcome (_apply_trial_outcome). *)
LEMMA SoundOutcome ==
  ASSUME NEW L, Sound(L), NEW t \in Trials, NEW disposition \in Outcomes,
         MayEndTrial(L, t, disposition), NEW K, K = TrialOutcomeRecorded(L, t, disposition)
  PROVE  Sound(K) /\ Keeps(L, K)
<1>0. L \in Ledgers
  BY DEF Sound
<1>1. /\ K \in Ledgers
      /\ K.reserved = L.reserved /\ K.committed = L.committed /\ K.issued = L.issued
      /\ K.violation = L.violation /\ K.reservations = L.reservations
      /\ \A u \in Trials : /\ K.trial[u].committed = L.trial[u].committed
                           /\ K.trial[u].reserved = L.trial[u].reserved
                           /\ K.trial[u].attempts = L.trial[u].attempts
                           /\ u # t => K.trial[u] = L.trial[u]
  BY <1>0, OutcomeFields
<1>2. Active(K) = Active(L)
  BY <1>1 DEF Active
<1>3. OpenTrials(K)
  <2> SUFFICES ASSUME NEW r \in Active(K)
               PROVE  K.trial[K.reservations[r].trial].outcome = NoOutcome
    BY Zenon DEF OpenTrials
  <2>1. r \in Active(L) /\ K.reservations[r] = L.reservations[r]
    BY <1>1, <1>2
  <2>2. L.reservations[r].trial \in Trials
    BY <1>0, <2>1, ActiveReservation DEF ReservationRecords
  <2>3. L.reservations[r].trial # t
    BY <2>1 DEF MayEndTrial
  <2>4. L.trial[L.reservations[r].trial].outcome = NoOutcome
    BY <2>1 DEF Sound, OpenTrials
  <2> QED BY <1>1, <2>1, <2>2, <2>3, <2>4, Zenon
<1>4. Keeps(L, K)
  BY <1>1 DEF Keeps, MayEndTrial
<1>5. Sound(K)
  BY <1>1, <1>2, <1>3, SoundSame
<1> QED BY <1>4, <1>5

(* Recording the outcomes of stop_unfinished. *)
LEMMA SoundAllStopped ==
  ASSUME NEW L, Sound(L), Active(L) = {}, NEW K, K = AllStopped(L)
  PROVE  Sound(K) /\ Keeps(L, K)
<1>0. L \in Ledgers
  BY DEF Sound
<1>1. /\ K \in Ledgers
      /\ K.reserved = L.reserved /\ K.committed = L.committed /\ K.issued = L.issued
      /\ K.violation = L.violation /\ K.reservations = L.reservations
      /\ \A u \in Trials : /\ K.trial[u].committed = L.trial[u].committed
                           /\ K.trial[u].reserved = L.trial[u].reserved
                           /\ K.trial[u].attempts = L.trial[u].attempts
                           /\ L.trial[u].outcome # NoOutcome => K.trial[u] = L.trial[u]
  BY <1>0, AllStoppedFields
<1>2. Active(K) = Active(L)
  BY <1>1 DEF Active
<1>3. OpenTrials(K)
  BY <1>2 DEF OpenTrials
<1>4. Keeps(L, K)
  BY <1>1 DEF Keeps
<1>5. Sound(K)
  BY <1>1, <1>2, <1>3, SoundSame, Zenon
<1> QED BY <1>4, <1>5

(* ------------------------------------------------------------------------ *)
(* The invariant                                                            *)
(* ------------------------------------------------------------------------ *)

Transactions ==
  [runner : Runners, todo : SUBSET Nat, work : Ledgers, evidence : BOOLEAN]

(* The durable ledger is sound, and so is the one an open recovery works   *)
(* on, which leaves the closed trials of the durable one alone.            *)
IInv ==
  /\ Sound(ledger)
  /\ txn # NoTxn =>
       /\ txn \in Transactions
       /\ Sound(txn.work) /\ txn.todo \subseteq Active(txn.work)
       /\ Keeps(ledger, txn.work)

(* The ledger of an empty campaign journal is sound. *)
LEMMA InitSound == Init => IInv
<1> SUFFICES ASSUME Init PROVE IInv
  OBVIOUS
<1> DEFINE L == EmptyLedger
<1>1. EmptyTrial \in TrialLedgers
  <2>1. Zero \in Vectors /\ NoOutcome \in Outcomes
    BY VectorConstants DEF Outcomes
  <2>2. [k \in Keys |-> << >>] \in [Keys -> Seq(Attempts)]
    OBVIOUS
  <2> QED BY <2>1, <2>2 DEF EmptyTrial, TrialLedgers
<1>2. [r \in {} |-> Zero] \in ReservationMaps
  <2>1. [r \in {} |-> Zero] \in [{} -> ReservationRecords]
    OBVIOUS
  <2> QED BY <2>1, Zenon DEF ReservationMaps
<1>3. NoDimension \in Stops
  BY DEF Stops
<1>4. L \in Ledgers
  <2>1. [t \in Trials |-> EmptyTrial] \in [Trials -> TrialLedgers]
    BY <1>1
  <2>2. [t \in Trials |-> NoDimension] \in [Trials -> Stops]
    BY <1>3
  <2> QED BY <1>2, <1>3, <2>1, <2>2, VectorConstants, Zenon DEF EmptyLedger, Ledgers
<1>5. Active(L) = {}
  BY DEF EmptyLedger, Active
<1>6. Fits(Zero, Zero, GlobalLimit) /\ Fits(Zero, Zero, TrialLimit)
  BY LimitsAssumption DEF Fits, Zero, Plus, Amount, Dimensions, Fields, ProviderFields, TokenFields
<1>7. LedgerFits(L)
  BY <1>6, Zenon DEF LedgerFits, EmptyLedger, EmptyTrial
<1>8. OpenTrials(L) /\ FirstAttempts(L) /\ OneClaimPerRequest(L)
  BY <1>5 DEF OpenTrials, FirstAttempts, OneClaimPerRequest
<1>9. OneTry(L)
  BY Zenon DEF OneTry, EmptyLedger, EmptyTrial
<1>10. Sound(L)
  BY <1>4, <1>5, <1>7, <1>8, <1>9 DEF Sound
<1> HIDE DEF L
<1> QED BY <1>10, Zenon DEF IInv, Init, L

(* A transaction that writes a sound ledger keeping the closed trials. *)
LEMMA Written ==
  ASSUME IInv, Idle, Sound(ledger'), Keeps(ledger, ledger'), txn' = txn
  PROVE  IInv' /\ Keeps(ledger, ledger')
BY DEF IInv, Idle

(* A step that leaves the ledger leaves its closed trials. *)
LEMMA KeepsSame ==
  ASSUME NEW L PROVE Keeps(L, L)
BY DEF Keeps

(* What settling usage and work is given. *)
LEMMA Inputs ==
  /\ \A w \in WorkActuals : w \in Vectors
  /\ \A u \in Usages \cup TokenClaims : u \in TokenVectors
  /\ \A c \in TokenClaims : RequestResources(c) \in Resources
  /\ \A c \in WorkClaims : c \in Resources
  /\ \A res \in ReservationRecords : /\ res.claim \in Vectors
                                     /\ [f \in TokenFields |-> res.claim[f]] \in TokenVectors
<1>1. \A c \in TokenClaims : RequestResources(c) \in Resources
  BY VectorConstants, InputsAssumption
<1>2. ASSUME NEW res \in ReservationRecords
      PROVE  /\ res.claim \in Vectors
             /\ [f \in TokenFields |-> res.claim[f]] \in TokenVectors
  <2>1. res.claim \in Resources
    BY DEF ReservationRecords
  <2> QED BY <2>1, VectorConstants DEF Resources, TokenVectors, TokenFields, Fields, ProviderFields
<1> QED BY <1>1, <1>2, InputsAssumption, VectorConstants

(* A reservation transaction, admitted or rejected (reserve_provider_attempt, reserve_work). *)
LEMMA ReserveStep ==
  ASSUME IInv, Idle, NEW n \in Runners, NEW t \in Trials, NEW k \in Keys \cup {NoKey},
         NEW claim \in Resources, Reserve(n, t, k, claim)
  PROVE  IInv' /\ Keeps(ledger, ledger')
<1>0. Sound(ledger) /\ Ready(ledger, t) /\ txn' = txn
  BY Zenon DEF IInv, Reserve
<1>1. CASE Rejected(ledger, t, claim)
  <2>1. ledger' = BudgetStopped(ledger, t, claim)
    BY <1>1 DEF Reserve
  <2>2. Sound(ledger') /\ Keeps(ledger, ledger')
    BY <1>0, <2>1, SoundStopped
  <2> QED BY <1>0, <2>2, Written
<1>2. CASE ~Rejected(ledger, t, claim)
  <2>1. /\ ledger' = ReservationCreated(ledger, t, k, claim)
        /\ k # NoKey => MayRetry(ledger, t, k) /\ MayAttempt(ledger, t, k, claim)
    BY <1>2 DEF Reserve
  <2>2. Sound(ledger') /\ Keeps(ledger, ledger')
    BY <1>0, <1>2, <2>1, SoundCreated
  <2> QED BY <1>0, <2>2, Written
<1> QED BY <1>1, <1>2

(* One turn of the recovery loop. *)
LEMMA RecoverStep ==
  ASSUME IInv, NEW r, RecoverOne(r)
  PROVE  IInv' /\ Keeps(ledger, ledger')
<1> DEFINE L == txn.work
           res == L.reservations[r]
           claimed == [f \in TokenFields |-> res.claim[f]]
<1>0. /\ txn \in Transactions /\ Sound(L) /\ r \in Active(L) /\ r \in txn.todo
      /\ txn.todo \subseteq Active(L) /\ Keeps(ledger, L) /\ ledger' = ledger
      /\ Sound(ledger)
  BY DEF IInv, RecoverOne, Idle
<1>1. /\ res \in ReservationRecords /\ res.claim \in Vectors /\ claimed \in TokenVectors
      /\ \A u \in Usages : u \in TokenVectors
  <2>1. res \in ReservationRecords
    BY <1>0, ActiveReservation, Zenon DEF Sound
  <2> HIDE DEF res
  <2> QED BY <2>1, Inputs
<1>2. PICK work :
        /\ \/ ~res.dispatched /\ work = ReservationCancelled(L, r)
           \/ ~IsProvider(res) /\ work = Settle(L, r, res.claim)
           \/ IsProvider(res) /\ work = ProviderAttemptSettled(L, r, "terminal_failure", FALSE, claimed)
           \/ IsProvider(res) /\ work = ProviderAttemptSettled(L, r, "completed", FALSE, claimed)
           \/ /\ IsProvider(res)
              /\ \E u \in Usages : work = ProviderAttemptSettled(L, r, "completed", TRUE, u)
        /\ txn' = [txn EXCEPT !.todo = @ \ {r}, !.work = work]
  BY Zenon DEF RecoverOne
<1>3. Sound(work) /\ Keeps(L, work) /\ Active(work) = Active(L) \ {r}
  <2>0. /\ "terminal_failure" \in Dispositions /\ "completed" \in Dispositions
        /\ ~("terminal_failure" = "retryable_failure") /\ ~("completed" = "retryable_failure")
    BY DEF Dispositions
  <2> HIDE DEF claimed, L
  <2>1. CASE work = ReservationCancelled(L, r)
    BY <1>0, <2>1, SoundCancelled
  <2>2. CASE work = Settle(L, r, res.claim)
    BY <1>0, <1>1, <2>2, SoundSettled
  <2>6. ASSUME NEW d \in Dispositions, NEW known \in BOOLEAN, NEW u \in TokenVectors,
               IsProvider(res), d = "retryable_failure" => ~known,
               work = ProviderAttemptSettled(L, r, d, known, u)
        PROVE  Sound(work) /\ Keeps(L, work) /\ Active(work) = Active(L) \ {r}
    BY <1>0, <2>6, SoundAttempt, SMTT(30)
  <2>3. CASE IsProvider(res) /\ work = ProviderAttemptSettled(L, r, "terminal_failure", FALSE, claimed)
    BY <1>1, <2>0, <2>3, <2>6, Zenon
  <2>4. CASE IsProvider(res) /\ work = ProviderAttemptSettled(L, r, "completed", FALSE, claimed)
    BY <1>1, <2>0, <2>4, <2>6, Zenon
  <2>5. CASE IsProvider(res) /\ \E u \in Usages :
               work = ProviderAttemptSettled(L, r, "completed", TRUE, u)
    <3> PICK u \in Usages : work = ProviderAttemptSettled(L, r, "completed", TRUE, u)
      BY <2>5, Zenon
    <3> QED BY <1>1, <2>0, <2>5, <2>6, Zenon
  <2> QED BY <1>2, <2>1, <2>2, <2>3, <2>4, <2>5, Zenon
<1>4. txn' \in Transactions /\ txn'.work = work /\ txn'.todo = txn.todo \ {r}
  <2>1. work \in Ledgers
    BY <1>3 DEF Sound
  <2> QED BY <1>0, <1>2, <2>1, Zenon DEF Transactions
<1>5. Keeps(ledger, work)
  BY <1>0, <1>3, KeepsTransitive
<1>6. txn'.todo \subseteq Active(work)
  BY <1>0, <1>3, <1>4
<1> HIDE DEF L
<1>7. IInv'
  BY <1>0, <1>3, <1>4, <1>5, <1>6 DEF IInv
<1> QED BY <1>0, <1>7, KeepsSame

(* Every step keeps the invariant and leaves closed trials alone. *)
LEMMA StepSound ==
  ASSUME IInv, [Next]_vars
  PROVE  IInv' /\ Keeps(ledger, ledger')
<1>0. Sound(ledger) /\ ledger \in Ledgers
  BY Zenon DEF IInv, Sound
<1>1. CASE UNCHANGED vars
  BY <1>1, KeepsSame DEF IInv, vars
<1>2. ASSUME NEW n \in Runners, NEW t \in Trials, NEW k \in Keys, NEW c \in TokenClaims,
             ReserveProvider(n, t, k, c)
      PROVE  IInv' /\ Keeps(ledger, ledger')
  <2>1. /\ Idle /\ Reserve(n, t, k, RequestResources(c))
        /\ RequestResources(c) \in Resources
    BY <1>2, Inputs DEF ReserveProvider
  <2> QED BY <2>1, ReserveStep
<1>3. ASSUME NEW n \in Runners, NEW t \in Trials, NEW c \in WorkClaims, ReserveWork(n, t, c)
      PROVE  IInv' /\ Keeps(ledger, ledger')
  <2>1. Idle /\ Reserve(n, t, NoKey, c) /\ c \in Resources
    BY <1>3, Inputs DEF ReserveWork
  <2> QED BY <2>1, ReserveStep
<1>4. ASSUME NEW n \in Runners, NEW t \in Trials,
             NEW d \in {"completed_run", "failed_before_run", "not_dispatched"},
             NEW q, RecordOutcome(n, t, d, q)
      PROVE  IInv' /\ Keeps(ledger, ledger')
  <2>1. /\ Idle /\ MayEndTrial(ledger, t, d) /\ ledger' = TrialOutcomeRecorded(ledger, t, d)
        /\ txn' = txn /\ d \in Outcomes
    BY <1>4 DEF RecordOutcome, Outcomes
  <2>2. Sound(ledger') /\ Keeps(ledger, ledger')
    BY <1>0, <2>1, SoundOutcome
  <2> QED BY <2>1, <2>2, Written
<1>5. ASSUME NEW n \in Runners, NEW r, MarkDispatched(n, r)
      PROVE  IInv' /\ Keeps(ledger, ledger')
  <2>1. Idle /\ r \in Active(ledger) /\ ledger' = ReservationDispatched(ledger, r) /\ txn' = txn
    BY <1>5 DEF MarkDispatched
  <2>2. Sound(ledger') /\ Keeps(ledger, ledger')
    BY <1>0, <2>1, SoundDispatched
  <2> QED BY <2>1, <2>2, Written
<1>6. ASSUME NEW n \in Runners, NEW r, Cancel(n, r)
      PROVE  IInv' /\ Keeps(ledger, ledger')
  <2>1. Idle /\ r \in Active(ledger) /\ ledger' = ReservationCancelled(ledger, r) /\ txn' = txn
    BY <1>6 DEF Cancel
  <2>2. Sound(ledger') /\ Keeps(ledger, ledger')
    BY <1>0, <2>1, SoundCancelled
  <2> QED BY <2>1, <2>2, Written
<1>7. ASSUME NEW n \in Runners, NEW r, NEW w \in WorkActuals, SettleWork(n, r, w)
      PROVE  IInv' /\ Keeps(ledger, ledger')
  <2>1. /\ Idle /\ r \in Active(ledger) /\ ledger' = Settle(ledger, r, w) /\ txn' = txn
        /\ w \in Vectors
    BY <1>7, Inputs, Zenon DEF SettleWork, MaySettle
  <2>2. Sound(ledger') /\ Keeps(ledger, ledger')
    BY <1>0, <2>1, SoundSettled
  <2> QED BY <2>1, <2>2, Written
<1>8. ASSUME NEW n \in Runners, NEW r, NEW w \in WorkActuals, NEW q, FinalizeRun(n, r, w, q)
      PROVE  IInv' /\ Keeps(ledger, ledger')
  <2> DEFINE t == ledger.reservations[r].trial
             S == Settle(ledger, r, w)
  <2>1. /\ Idle /\ r \in Active(ledger) /\ MayEndTrial(S, t, "completed_run")
        /\ ledger' = TrialOutcomeRecorded(S, t, "completed_run") /\ txn' = txn
        /\ w \in Vectors
    BY <1>8, Inputs, Zenon DEF FinalizeRun, MaySettle
  <2>2. t \in Trials /\ "completed_run" \in Outcomes
    BY <1>0, <2>1, ActiveReservation, Zenon DEF ReservationRecords, Outcomes
  <2>3. Sound(S) /\ Keeps(ledger, S)
    BY <1>0, <2>1, SoundSettled
  <2> HIDE DEF S, t
  <2>4. Sound(ledger') /\ Keeps(S, ledger')
    BY <2>1, <2>2, <2>3, SoundOutcome
  <2>5. Keeps(ledger, ledger')
    BY <2>3, <2>4, KeepsTransitive
  <2> QED BY <2>1, <2>4, <2>5, Written
<1>9. ASSUME NEW n \in Runners, NEW r, NEW known \in BOOLEAN, NEW u \in Usages \cup TokenClaims,
             NEW d \in {"completed", "retryable_failure", "terminal_failure"},
             SettleProvider(n, r, d, known, u)
      PROVE  IInv' /\ Keeps(ledger, ledger')
  <2>1. /\ Idle /\ r \in Active(ledger) /\ IsProvider(ledger.reservations[r]) /\ txn' = txn
        /\ ledger' = ProviderAttemptSettled(ledger, r, d, known, u)
        /\ known => d = "completed"
    BY <1>9, Zenon DEF SettleProvider, MaySettle
  <2>2. u \in TokenVectors /\ d \in Dispositions /\ (d = "retryable_failure" => ~known)
    BY <2>1, Inputs DEF Dispositions
  <2>3. Sound(ledger') /\ Keeps(ledger, ledger')
    BY <1>0, <2>1, <2>2, SoundAttempt
  <2> QED BY <2>1, <2>3, Written
<1>10. ASSUME NEW n \in Runners, StopUnfinished(n)
       PROVE  IInv' /\ Keeps(ledger, ledger')
  <2>1. Idle /\ Active(ledger) = {} /\ ledger' = AllStopped(ledger) /\ txn' = txn
    BY <1>10 DEF StopUnfinished
  <2>2. Sound(ledger') /\ Keeps(ledger, ledger')
    BY <1>0, <2>1, SoundAllStopped
  <2> QED BY <2>1, <2>2, Written
<1>11. ASSUME NEW n \in Runners, NEW todo, NEW evidence \in BOOLEAN, todo \subseteq Active(ledger),
              txn' = [runner |-> n, todo |-> todo, work |-> ledger, evidence |-> evidence],
              ledger' = ledger
       PROVE  IInv' /\ Keeps(ledger, ledger')
  <2>1. todo \subseteq Nat
    BY <1>0, <1>11, ActiveReservation
  <2>2. /\ txn' \in Transactions /\ txn'.work = ledger /\ txn'.todo = todo
    BY <1>0, <1>11, <2>1 DEF Transactions
  <2> QED BY <1>0, <1>11, <2>2, KeepsSame, Zenon DEF IInv
<1>12. ASSUME NEW n \in Runners, RecoverAll(n)
       PROVE  IInv' /\ Keeps(ledger, ledger')
  BY <1>11, <1>12, Zenon DEF RecoverAll
<1>13. ASSUME NEW n \in Runners, NEW t \in Trials, RecoverProviders(n, t)
       PROVE  IInv' /\ Keeps(ledger, ledger')
  <2>1. ProvidersOf(ledger, t) \subseteq Active(ledger)
    BY DEF ProvidersOf
  <2> QED BY <1>11, <1>13, <2>1, Zenon DEF RecoverProviders
<1>14. ASSUME NEW n \in Runners, NEW t \in Trials, NEW r, ResumeWork(n, t, r)
       PROVE  IInv' /\ Keeps(ledger, ledger')
  BY <1>14, KeepsSame, Zenon DEF ResumeWork, IInv
<1>15. ASSUME NEW n \in Runners, BuildReport(n)
       PROVE  IInv' /\ Keeps(ledger, ledger')
  BY <1>15, KeepsSame, Zenon DEF BuildReport, IInv
<1>16. ASSUME NEW n \in Runners, Crash(n)
       PROVE  IInv' /\ Keeps(ledger, ledger')
  <2>1. ledger' = ledger /\ (txn' = txn \/ txn' = NoTxn)
    BY <1>16 DEF Crash
  <2> QED BY <2>1, KeepsSame DEF IInv
<1>17. CASE RecoverCommit
  <2>1. ledger' = txn.work /\ txn' = NoTxn /\ Sound(txn.work) /\ Keeps(ledger, txn.work)
    BY <1>17 DEF RecoverCommit, Idle, IInv
  <2> QED BY <2>1 DEF IInv
<1>18. ASSUME NEW r, RecoverOne(r)
       PROVE  IInv' /\ Keeps(ledger, ledger')
  BY <1>18, RecoverStep
<1> HIDE DEF IInv
<1>20. CASE Next
  BY <1>2, <1>3, <1>4, <1>5, <1>6, <1>7, <1>8, <1>9, <1>10, <1>12, <1>13, <1>14, <1>15, <1>16,
     <1>17, <1>18, <1>20, Zenon DEF Next
<1> QED BY <1>1, <1>20

(* The limits hold for every campaign: unless the ledger is flagged, what  *)
(* is charged and what is claimed fit the limits of the campaign and of    *)
(* every trial (reservation_rejection, _settle, _release_reservation).     *)
THEOREM LimitsHold == Spec => []WithinLimits
<1>1. IInv => WithinLimits
  BY Zenon DEF IInv, Sound, LedgerFits, WithinLimits
<1>2. IInv /\ [Next]_vars => IInv'
  BY StepSound
<1> QED BY <1>1, <1>2, InitSound, PTL DEF Spec

(* A recorded outcome is final (_apply_trial_outcome): no step of any      *)
(* runner, no recovery and no settlement changes a trial that has one.     *)
THEOREM OutcomesAreFinal == Spec => TerminalIsFinal
<1>1. IInv /\ [Next]_vars => IInv'
  BY StepSound
<1>2. IInv /\ [Next]_vars => [\A t \in Trials : ledger.trial[t].outcome # NoOutcome =>
                                  ledger'.trial[t] = ledger.trial[t]]_vars
  BY StepSound DEF Keeps
<1> QED BY <1>1, <1>2, InitSound, PTL DEF Spec, TerminalIsFinal

(* No provider request is attempted twice (_apply_reservation_created      *)
(* against _apply_provider_settlement and ready_campaign_projection),      *)
(* whatever max_request_attempts allows.                                   *)
THEOREM RequestsAreNotRepeated == Spec => []AtMostOneAttempt
<1>1. IInv => AtMostOneAttempt
  <2> SUFFICES ASSUME IInv, NEW t \in Trials, NEW k \in Keys
               PROVE  LET attempts == ledger.trial[t].attempts[k]
                          open == {r \in Active(ledger) : /\ ledger.reservations[r].trial = t
                                                          /\ ledger.reservations[r].key = k}
                      IN /\ Len(attempts) <= 1
                         /\ open # {} => attempts = << >>
                         /\ \A r, s \in open : r = s
    BY DEF AtMostOneAttempt
  <2>0. FirstAttempts(ledger) /\ OneClaimPerRequest(ledger) /\ OneTry(ledger)
    BY Zenon DEF IInv, Sound
  <2>1. k # NoKey
    BY NamesAssumption
  <2>2. Len(ledger.trial[t].attempts[k]) <= 1
    <3>1. CASE ledger.trial[t].attempts[k] = << >>
      BY <3>1
    <3>2. CASE ledger.trial[t].attempts[k] # << >>
      <4>1. Len(ledger.trial[t].attempts[k]) = 1
        BY <2>0, <3>2 DEF OneTry
      <4> QED BY <4>1
    <3> QED BY <3>1, <3>2
  <2> DEFINE open == {r \in Active(ledger) : /\ ledger.reservations[r].trial = t
                                             /\ ledger.reservations[r].key = k}
  <2>3. ASSUME NEW r \in open PROVE ledger.trial[t].attempts[k] = << >>
    BY <2>0, <2>1, Zenon DEF FirstAttempts, IsProvider
  <2>4. ASSUME NEW r \in open, NEW s \in open PROVE r = s
    BY <2>0, <2>1 DEF OneClaimPerRequest, IsProvider
  <2>5. (open # {} => ledger.trial[t].attempts[k] = << >>) /\ \A r, s \in open : r = s
    <3> HIDE DEF open
    <3> QED BY <2>3, <2>4
  <2> QED BY <2>2, <2>5, Zenon
<1>2. IInv /\ [Next]_vars => IInv'
  BY StepSound
<1> QED BY <1>1, <1>2, InitSound, PTL DEF Spec
=============================================================================
