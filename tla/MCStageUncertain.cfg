CONSTANTS
  c1 = c1
  c2 = c2
  alice = alice
  k1 = k1
  Stages <- MCTwoStages
  Task <- MCPair
  Candidates = {c1}
  Actors = {alice}
  Harnesses = {alice}
  InitialWriter = alice
  HandoffEnabled = FALSE
  RequiresIncarnation = TRUE
  Requests = {}
  ExecutorRequests = {}
  LicensedRequests = {}
  ProviderRequests = {}
  Checkpoints = {k1}
  Processes = {0, 1, 2}
  LicensedStages = {}
  HasStorage = FALSE
  Training = FALSE
  Recovery = TRUE
  Faults = TRUE
  EvaluatorOutcomes = {"passed", "counterexample"}
  MaxCrashes = 2
SPECIFICATION Spec
CHECK_DEADLOCK FALSE
INVARIANT JournalPassesOnlyAbsentJobs
