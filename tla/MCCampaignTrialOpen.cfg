\* One crash and no other fault.
CONSTANTS
  t1 = t1
  t2 = t2
  k1 = k1
  k2 = k2
  k3 = k3
  k4 = k4
  k5 = k5
  Trials = {t1, t2}
  Keys = {k1, k2, k3, k4, k5}
  Schedule <- MCSchedule
  GlobalLimit <- MCRoomy
  TrialLimit <- MCTrialLimit
  RequestLimit <- MCRequestLimit
  MaxRequestAttempts = 1
  TokenClaim <- MCTokenClaim
  Usages <- MCExactUsages
  WorkClaim <- MCWorkClaim
  WorkActuals <- MCModestActuals
  MaxRequests = 2
  MaxPerAction = 2
  Faults = {}
  MaxCrashes = 1
SPECIFICATION FairSpec
PROPERTIES InterruptedTrialContinues
