CONSTANTS
  Tree <- HandlerChildTree
  FlowAttempts = 1
  FlowTimeout = FALSE
  MaxRuns = 1
  MaxFaults = 0
  Careful = TRUE
SPECIFICATION Spec
INVARIANTS
  NothingLost
CHECK_DEADLOCK FALSE
