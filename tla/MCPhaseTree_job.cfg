CONSTANTS
  Tree <- EtlTree
  FlowAttempts = 2
  FlowTimeout = TRUE
  MaxRuns = 3
  MaxFaults = 2
  Careful = TRUE
SPECIFICATION FairSpec
INVARIANTS
  TypeOK
  AllWorkDone
  PipelineOrder
  UpstreamVisible
  Isolation
  Quiescent
PROPERTIES
  CompletedKept
  RunEnds
  JobCompletes
\* The job completes or is not started again: nothing more happens.
CHECK_DEADLOCK FALSE
