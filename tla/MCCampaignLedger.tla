-------------------------- MODULE MCCampaignLedger --------------------------
(* A small campaign for CampaignLedger.  Two requests of the smaller claim *)
(* fill the campaign's input tokens exactly; a second unit of work is      *)
(* rejected, and so is the oversized claim.  Usage may stay below a claim  *)
(* or exceed it.                                                           *)
EXTENDS CampaignLedger, FiniteSetsExt, TLC

CONSTANTS t1, t2, r1, r2, k1

MCSymmetry == Permutations(Trials) \cup Permutations(Runners)

Vector(requests, input, output, turns) ==
  [f \in Fields |-> IF f = "requests" THEN requests
                    ELSE IF f = "input_tokens" THEN input
                    ELSE IF f = "output_tokens" THEN output
                    ELSE IF f = "turns" THEN turns ELSE 0]

Tokens(input, output) == [f \in TokenFields |-> IF f = "input_tokens" THEN input ELSE output]

Limit(requests, input, output, total, turns) ==
  [d \in Dimensions |->
     IF d = "total_tokens" THEN total ELSE Vector(requests, input, output, turns)[d]]

MCGlobalLimit == Limit(3, 4, 4, 6, 3)
MCTrialLimit == Limit(2, 4, 3, 6, 2)
MCRequestLimit == Tokens(2, 2)
MCTokenClaims == {Tokens(2, 1), Tokens(3, 1)}
MCUsages == {Tokens(1, 1), Tokens(2, 2)}
MCWorkClaims == {Vector(0, 0, 0, 2)}
MCWorkActuals == {Vector(0, 0, 0, 1), Vector(0, 0, 0, 3)}

(* The totals that replay keeps incrementally are what they stand for: the *)
(* reserved totals are the sums of the active claims, and the campaign's   *)
(* totals are the sums over its trials (_settle, _release_reservation,     *)
(* _apply_reservation_created).                                            *)
SumOf(S, value(_), f) == FoldSet(LAMBDA x, sum : sum + value(x)[f], 0, S)

TotalsAddUp ==
  \A f \in Fields :
    /\ ledger.reserved[f] = SumOf(Active(ledger), LAMBDA r : ledger.reservations[r].claim, f)
    /\ ledger.committed[f] = SumOf(Trials, LAMBDA t : ledger.trial[t].committed, f)
    /\ \A t \in Trials :
         ledger.trial[t].reserved[f] =
           SumOf({r \in Active(ledger) : ledger.reservations[r].trial = t},
                 LAMBDA r : ledger.reservations[r].claim, f)
=============================================================================
