CONSTANTS
  Tree <- ShardTree
  FlowAttempts = 1
  FlowTimeout = TRUE
  MaxRuns = 2
  MaxFaults = 1
  Careful = TRUE
SPECIFICATION Spec
INVARIANTS
  AllWorkDone
  Isolation
  ShardAccounts
\* The job completes or is not started again: nothing more happens.
CHECK_DEADLOCK FALSE
