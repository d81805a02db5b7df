CONSTANTS
  JobInput <- MCJobInput
  Coords <- MCCoords
  Names <- MCNames
  Items = {1, 2}
  MaxCtx = 8
SPECIFICATION Spec
INVARIANTS
  Joined
  Coordinates
  Totals
PROPERTIES
  ImplementsValues
\* No FlowCtx is left to make.
CHECK_DEADLOCK FALSE
