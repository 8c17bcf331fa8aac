SPECIFICATION FairSpec
CONSTANTS
  Callers = {c1, c2}
  NoCaller = NoCaller
  MaxAttempts = 3
  Failures = {"transient"}
  AuthErrors = {"auth"}
  MaxExpiries = 1
INVARIANTS
  TypeOK
  StopsEarly
  ExpirySurvived
  MutexWaitsEnd
PROPERTIES
  CacheTakesNewest
  CallsProgress
  CallsReturn
  ImplementsRetryDo
