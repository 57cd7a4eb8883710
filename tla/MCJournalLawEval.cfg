CONSTANTS
  c1 = c1  alice = alice  bob = bob  q1 = q1  q2 = q2  r1 = r1  k1 = k1  p1 = p1  p2 = p2
  Stages <- MCStages
  Task <- MCFork
  Candidates = {c1}
  Actors = {alice}
  Harnesses = {alice}
  InitialWriter = alice
  HandoffEnabled = FALSE
  RequiresIncarnation = FALSE
  Requests = {}
  ExecutorRequests = {}
  LicensedRequests = {}
  ProviderRequests = {}
  Checkpoints = {}
  Processes = {}
  MaxGeneration = 0
SPECIFICATION Spec
INVARIANTS
  TypeOK
  StartedCanComplete
  ScoringStaysCurrent
  SuccessIsEarned
PROPERTIES
  FactsAreNeverRevised
CHECK_DEADLOCK FALSE
