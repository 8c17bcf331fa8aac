SPECIFICATION Spec
CONSTANTS
  Requests = {r1}
  Jobs = {j1}
  MaxConns = 1
  MaxWorkers = 1
INVARIANTS
  PoolClosedLast
