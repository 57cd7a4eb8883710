CONSTANTS
  c1 = c1  alice = alice  bob = bob  q1 = q1  q2 = q2  r1 = r1  k1 = k1  p1 = p1  p2 = p2
  Stages <- MCOneStage
  Task <- MCGate
  Candidates = {c1}
  Actors = {alice, bob}
  Harnesses = {alice}
  InitialWriter = alice
  HandoffEnabled = TRUE
  RequiresIncarnation = TRUE
  Requests = {q1, q2}
  ExecutorRequests = {q1}
  LicensedRequests = {q1}
  ProviderRequests = {r1}
  Checkpoints = {k1}
  Processes = {p1, p2}
  MaxGeneration = 1
SPECIFICATION Spec
INVARIANTS
  CustodyFollowsDispatch
  StoppedIsQuiescent
CHECK_DEADLOCK FALSE
