CONSTANTS
  c1 = c1
  c2 = c2
  alice = alice
  k1 = k1
  Stages <- MCTwoStages
  Task <- MCPair
  Candidates = {c1, c2}
  Actors = {alice}
  Harnesses = {alice}
  InitialWriter = alice
  HandoffEnabled = FALSE
  RequiresIncarnation = TRUE
  Requests = {}
  ExecutorRequests = {}
  LicensedRequests = {}
  ProviderRequests = {}
  Checkpoints = {k1}
  Processes = {0, 1, 2}
  LicensedStages = {1}
  HasStorage = FALSE
  Training = TRUE
  Recovery = TRUE
  Faults = FALSE
  EvaluatorOutcomes = {"passed", "counterexample"}
  MaxCrashes = 2
SPECIFICATION FairSpec
CHECK_DEADLOCK FALSE
INVARIANTS NothingElseRuns
PROPERTY RunEnds
