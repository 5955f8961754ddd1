SPECIFICATION Spec
CONSTANTS
  Callers <- PythonReuse
  MaxCalls = 3
  MaxFrame = 4
  MaxPieces = 2
INVARIANTS
  OwnAnswer
CHECK_DEADLOCK FALSE
