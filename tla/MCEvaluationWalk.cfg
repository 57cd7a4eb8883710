CONSTANTS
  Stages <- MCStages
  StageOutcomes <- MCOutcomes
SPECIFICATION Spec
INVARIANTS
  TypeOK
  DecisionIsTerminal
  BlockersExplainFailure
  OrderIsTopological
  WorklistFindsAncestors
PROPERTIES
  GateVerdictIsFinal
CHECK_DEADLOCK FALSE
