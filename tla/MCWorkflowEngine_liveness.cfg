SPECIFICATION SupervisedSpec
CONSTANTS
  Workers = {w1}
  NoOwner = NoOwner
  StepCount = 2
  UnsafeSteps = {2}
  MaxRetries = 1
  MaxRecoveries = 1
  HasDeadline = TRUE
  MaxGenerations = 1
PROPERTIES
  CancelConverges
  TaskSettles
