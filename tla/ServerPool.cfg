CONSTANTS
  Workers = {w1, w2}
  Clients = {c1, c2}
  None = None
  Kinds = {"read", "write", "reject", "bad_frame", "panic_decode", "panic_read", "panic_write"}
  MaxRequests = 2
  MaxConnects = 1
SPECIFICATION Spec
INVARIANTS
  RealTimeOrder
  NoTornAnswer
  LockHeldByRunning
PROPERTIES
  EveryConnectionServed
  EveryRequestAnswered
CHECK_DEADLOCK FALSE
