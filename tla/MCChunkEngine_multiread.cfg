CONSTANTS
  N = 3
  ChunkSize = 1
  ReadSize = 2
  SkipLimit = 1
  MaxAttempts = 2
  MaxFaults = 1
  Restartable = TRUE
  Shared = FALSE
  Transactional = TRUE
  None = None
SPECIFICATION Spec
INVARIANTS
  EveryAcceptedItemPersisted
\* The execution ends and no attempt is left running: nothing more happens.
CHECK_DEADLOCK FALSE
