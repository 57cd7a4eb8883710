\* Every fault and one crash.
CONSTANTS
  t1 = t1
  t2 = t2
  k1 = k1
  k2 = k2
  k3 = k3
  k4 = k4
  k5 = k5
  Trials = {t1, t2}
  Keys = {k1, k2, k3, k4, k5}
  Schedule <- MCSchedule
  GlobalLimit <- MCTight
  TrialLimit <- MCTrialLimit
  RequestLimit <- MCRequestLimit
  MaxRequestAttempts = 1
  TokenClaim <- MCTokenClaim
  Usages <- MCUsages
  WorkClaim <- MCWorkClaim
  WorkActuals <- MCWorkActuals
  MaxRequests = 2
  MaxPerAction = 2
  Faults = {"admission", "deadline", "observer", "exchange", "usage", "tool"}
  MaxCrashes = 1
SPECIFICATION Spec
INVARIANTS TypeOK CallsAreCovered RecoveryHasEvidence ChargesMatchRun StopIsNeverRefused
PROPERTIES WorkIsDispatchedOnce
