CONSTANTS
  MaxCalls = 2
  MaxFaults = 0
SPECIFICATION Spec
INVARIANTS
  UsableInLoop
\* All calls have returned: nothing more happens.
CHECK_DEADLOCK FALSE
