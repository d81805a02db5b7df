CONSTANTS
  Tree <- RetryTree
  FlowAttempts = 2
  FlowTimeout = TRUE
  MaxRuns = 1
  MaxFaults = 1
  Careful = TRUE
SPECIFICATION Spec
INVARIANTS
  NothingLost
\* The job completes or is not started again: nothing more happens.
CHECK_DEADLOCK FALSE
