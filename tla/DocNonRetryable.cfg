SPECIFICATION Spec
CONSTANTS
  Callers = {c1}
  NoCaller = NoCaller
  MaxAttempts = 3
  Failures = {"permanent"}
  AuthErrors = {}
  MaxExpiries = 0
INVARIANTS
  NonRetryableReturns
