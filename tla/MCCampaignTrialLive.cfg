\* Two crashes, and caps that the campaign may or may not reach.
CONSTANTS
  t1 = t1
  t2 = t2
  k1 = k1
  k2 = k2
  k3 = k3
  k4 = k4
  k5 = k5
  Trials = {t1, t2}
  Keys = {k1, k2, k3, k4, k5}
  Schedule <- MCSchedule
  GlobalLimit <- MCTwoRequestsThreeTurns
  TrialLimit <- MCTrialLimit
  RequestLimit <- MCRequestLimit
  MaxRequestAttempts = 1
  TokenClaim <- MCTokenClaim
  Usages <- MCExactUsages
  WorkClaim <- MCWorkClaim
  WorkActuals <- MCModestActuals
  MaxRequests = 3
  MaxPerAction = 2
  Faults = {}
  MaxCrashes = 2
SPECIFICATION FairSpec
PROPERTIES CampaignCompletes LaterCapEndsCampaign InterruptedTrialIsSettled
