CONSTANTS
  Workers = {w1, w2}
  Clients = {c1}
  None = None
  Kinds = {"panic_read"}
  MaxRequests = 2
  MaxConnects = 2
SPECIFICATION Spec
INVARIANT PoolSurvives
CHECK_DEADLOCK FALSE
