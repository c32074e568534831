SPECIFICATION StopSpec
CONSTANTS
  Workers = {w1}
  NoOwner = NoOwner
  StepCount = 1
  UnsafeSteps = {}
  MaxRetries = 0
  MaxRecoveries = 0
  HasDeadline = TRUE
  MaxGenerations = 1
  MaxRestartFence = 0
PROPERTIES
  TaskReconciled
