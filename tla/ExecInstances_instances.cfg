CONSTANTS
  MaxCalls = 3
  MaxFaults = 2
SPECIFICATION Spec
INVARIANTS
  TypeOK
  Lifetimes
  NothingLeftOpen
  ErrorReported
\* All calls have returned: nothing more happens.
CHECK_DEADLOCK FALSE
