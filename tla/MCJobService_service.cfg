CONSTANTS
  Keys <- MCKeys
  Catalogs <- MCCatalogs
  Params <- MCParams
  MaxCalls = 2
  MaxBoots = 2
  MaxFaults = 2
SPECIFICATION FairSpec
INVARIANTS
  OneRunPerIdentity
  AnswersTrue
  RunsOwnCode
  ClientOutlivesWorker
PROPERTIES
  Served
\* The process is off for good, and nothing is asked of the server any more.
CHECK_DEADLOCK FALSE
