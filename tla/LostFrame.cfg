SPECIFICATION Spec
CONSTANTS
  Callers <- RustReuse
  MaxCalls = 4
  MaxFrame = 4
  MaxPieces = 2
PROPERTIES
  CallReturns
CHECK_DEADLOCK FALSE
