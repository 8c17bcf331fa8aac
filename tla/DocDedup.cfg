SPECIFICATION HbsSpec
CONSTANTS
  Orders = {o1}
  MaxSends = 2
  Bodies = {"valid"}
  MaxCrashes = 0
  NumSteps = 2
  StepWrites = {0}
  Jobs <- MCJobs
  Workers = {w1}
  NoJob = NoJob
  Outcomes = {"ok"}
  MaxAttempts = 1
  MaxFaults = 0
INVARIANTS
  OneWorkflowPerOrder
