SPECIFICATION DeadLetterSpec
CONSTANTS
  Workers = {w1}
  NoOwner = NoOwner
  StepCount = 1
  UnsafeSteps = {}
  MaxRetries = 0
  MaxRecoveries = 1
  HasDeadline = TRUE
  MaxGenerations = 2
  MaxRestartFence = 0
PROPERTIES
  OldTreeImmutable
