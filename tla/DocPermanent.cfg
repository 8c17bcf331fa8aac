SPECIFICATION Spec
CONSTANTS
  NumSteps = 2
  StepWrites = {}
  Jobs = {j1}
  Workers = {w1, w2}
  NoJob = NoJob
  Outcomes = {"ok", "permanent"}
  MaxAttempts = 2
  MaxFaults = 0
PROPERTIES
  PermanentErrorDiscards
