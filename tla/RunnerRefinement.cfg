SPECIFICATION FairSpec
CONSTANTS
  NumSteps = 2
  StepWrites = {0}
  Jobs = {j1, j2}
  Workers = {w1, w2}
  NoJob = NoJob
  Outcomes = {"ok", "retryable", "panic"}
  MaxAttempts = 2
  MaxFaults = 2
PROPERTIES
  ImplementsAtomicWorkflow
  JobsClose
  WorkflowsFinish
