SPECIFICATION Spec
CONSTANTS
  Callers <- Careful
  MaxCalls = 4
  MaxFrame = 4
  MaxPieces = 2
INVARIANTS
  NoLeftovers
PROPERTIES
  ImplementsRemoteCall
  CallReturns
CHECK_DEADLOCK FALSE
