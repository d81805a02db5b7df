CONSTANTS
  N = 3
  ChunkSize = 2
  ReadSize = 1
  SkipLimit = 1
  MaxAttempts = 2
  MaxFaults = 2
  Restartable = TRUE
  Shared = FALSE
  Transactional = FALSE
  None = None
SPECIFICATION Spec
INVARIANTS
  TypeOK
  IInv
  AtLeastOnce
  CountsExact
  CheckpointSound
  StopsPromptly
PROPERTIES
  QuiescentAfterCompletion
  ImplementsContract
\* The execution ends and no attempt is left running: nothing more happens.
CHECK_DEADLOCK FALSE
