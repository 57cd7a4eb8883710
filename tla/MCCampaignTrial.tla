--------------------------- MODULE MCCampaignTrial ---------------------------
(* Two trials of at most two requests each, in campaigns that are large    *)
(* enough, or run out of requests or turns sooner or later.                *)
EXTENDS CampaignTrial, TLC

CONSTANTS t1, t2, k1, k2, k3, k4, k5

MCSchedule == <<t1, t2>>

Vector(requests, input, output, turns) ==
  [f \in Fields |-> IF f = "requests" THEN requests
                    ELSE IF f = "input_tokens" THEN input
                    ELSE IF f = "output_tokens" THEN output
                    ELSE IF f = "turns" THEN turns ELSE 0]

Tokens(input, output) == [f \in TokenFields |-> IF f = "input_tokens" THEN input ELSE output]

Limit(requests, tokens, turns) ==
  [d \in Dimensions |-> IF d = "total_tokens" THEN 2 * tokens
                        ELSE Vector(requests, tokens, tokens, turns)[d]]

MCRoomy == Limit(4, 12, 4)
MCTight == Limit(3, 12, 3)
MCTwoRequests == Limit(2, 12, 4)
MCTwoRequestsThreeTurns == Limit(2, 12, 3)
MCTrialLimit == Limit(2, 12, 2)
MCRequestLimit == Tokens(2, 2)
MCTokenClaim == Tokens(2, 1)
MCUsages == {Tokens(1, 1), Tokens(2, 2)}
MCExactUsages == {Tokens(1, 1)}
MCWorkClaim == Vector(0, 0, 0, 2)
MCWorkActuals == {Vector(0, 0, 0, n) : n \in 1..3}
MCModestActuals == {Vector(0, 0, 0, n) : n \in 1..2}
=============================================================================
