SPECIFICATION Spec
CONSTANTS
  Workers = {w1, w2}
  NoOwner = NoOwner
  StepCount = 1
  UnsafeSteps = {}
  MaxRetries = 0
  MaxRecoveries = 0
  HasDeadline = FALSE
  MaxGenerations = 2
SYMMETRY WorkerSymmetry
INVARIANTS
  TaskMatchesRoot
  CleanupIsQuiescent
PROPERTIES
  TerminalFrozen
  ImplementsLifecycle
