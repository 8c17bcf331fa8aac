SPECIFICATION Spec
CONSTANTS
  NumSteps = 3
  StepWrites = {0}
  Jobs = {j1, j2}
  Workers = {w1, w2}
  NoJob = NoJob
  Outcomes = {"ok", "retryable", "permanent", "panic"}
  MaxAttempts = 3
  MaxFaults = 2
SYMMETRY Symmetry
INVARIANTS
  IInv
  DurableRowComplete
  CompletedJobDurable
  StepsExclusive
  RowWaitsEnd
PROPERTIES
  NoStepAfterDurable
