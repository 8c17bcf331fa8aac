SPECIFICATION FairSpec
CONSTANTS
  Requests = {r1, r2}
  Jobs = {j1, j2}
  MaxConns = 2
  MaxWorkers = 2
INVARIANTS
  TypeOK
  AcceptedRequestsServed
  OutcomesRecorded
PROPERTIES
  Exits
  RequestsEnd
  JobsSettle
