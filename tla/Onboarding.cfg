SPECIFICATION OnboardingSpec
CONSTANTS
  Orders = {o1}
  MaxSends = 2
  Bodies = {"malformed", "invalid", "valid"}
  MaxCrashes = 1
  NumSteps = 2
  MaxAttempts = 2
INVARIANTS
  TypeOK
  AcceptedAreQueued
  RefusedNotQueued
PROPERTIES
  ImplementsOrderService
