\* Two runners over the same journal, two trials, two reservations.
CONSTANTS
  t1 = t1
  t2 = t2
  r1 = r1
  r2 = r2
  k1 = k1
  Trials = {t1, t2}
  Keys = {k1}
  Runners = {r1, r2}
  GlobalLimit <- MCGlobalLimit
  TrialLimit <- MCTrialLimit
  RequestLimit <- MCRequestLimit
  TokenClaims <- MCTokenClaims
  Usages <- MCUsages
  WorkClaims <- MCWorkClaims
  WorkActuals <- MCWorkActuals
  MaxRequestAttempts = 2
  MaxReservations = 2
SPECIFICATION Spec
INVARIANTS TypeOK WithinLimits TotalsAddUp AtMostOneAttempt
PROPERTIES TerminalIsFinal EveryDispatchIsCharged
SYMMETRY MCSymmetry
CHECK_DEADLOCK FALSE
