CONSTANTS
  N = 3
  ChunkSize = 2
  ReadSize = 2
  SkipLimit = 1
  MaxAttempts = 2
  MaxFaults = 1
  Restartable = FALSE
  Shared = FALSE
  Transactional = TRUE
  None = None
SPECIFICATION FairSpec
INVARIANTS
  AtLeastOnce
  CountsExact
PROPERTIES
  ImplementsContract
  Completes
  Terminates
\* The execution ends and no attempt is left running: nothing more happens.
CHECK_DEADLOCK FALSE
