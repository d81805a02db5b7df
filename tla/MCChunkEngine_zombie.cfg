CONSTANTS
  N = 2
  ChunkSize = 1
  ReadSize = 1
  SkipLimit = 1
  MaxAttempts = 3
  MaxFaults = 2
  Restartable = TRUE
  Shared = FALSE
  Transactional = TRUE
  None = None
SPECIFICATION Spec
INVARIANTS
  CommittedNotRerun
PROPERTIES
  CheckpointMonotonic
\* The execution ends and no attempt is left running: nothing more happens.
CHECK_DEADLOCK FALSE
