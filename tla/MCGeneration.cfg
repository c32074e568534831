SPECIFICATION Spec
CONSTANTS
  None = None
  Tasks = {"t1", "t2"}
  Workers = {"w1", "w2"}
  Workloads <- MCWorkloads
  Live = TRUE
  LocalUp = TRUE
  CleanModel = TRUE
  Wired = {"claude", "cursor-agent"}
  ProviderPlan <- MCProviders
  RunningCap <- MCCap
  QueuedCap <- MCCap
  GateMax = 2
  GateLimit <- MCGate
  RouterMax = 1
  RouterLimit <- MCRouter
  MaxAttempts = 2
  MaxRetries = 1
  MaxRecoveries = 1
  MaxMishaps = 1
CHECK_DEADLOCK FALSE
INVARIANTS
  GateBalanced
  PoolCaps
  LaneRespected
  OutcomeCoherent
PROPERTIES
  TasksSettle
