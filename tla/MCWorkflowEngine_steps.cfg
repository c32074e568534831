SPECIFICATION Spec
CONSTANTS
  Workers = {w1, w2}
  NoOwner = NoOwner
  StepCount = 2
  UnsafeSteps = {2}
  MaxRetries = 1
  MaxRecoveries = 1
  HasDeadline = TRUE
  MaxGenerations = 1
SYMMETRY WorkerSymmetry
INVARIANTS
  TypeOK
  LeaseDiscipline
  FenceOwnership
  PipelineOrder
  EffectOnce
  NotStranded
  NeverStalled
PROPERTIES
  CommitByOwner
  CancelIsFinal
