SPECIFICATION Spec
CONSTANTS
  NumSteps = 7
  StepWrites = {}
  Jobs = {j1}
  Workers = {w1, w2}
  NoJob = NoJob
  Outcomes = {"ok"}
  MaxAttempts = 2
  MaxFaults = 1
INVARIANTS
  CountedStepsNotRerun
