SPECIFICATION Spec
CONSTANTS
  PlanBook <- Plans
  Children = {"c1", "c2"}
  Tasks <- MCTasks
CHECK_DEADLOCK FALSE
INVARIANTS
  PlansNeverStick
  StepOnce
  CleanerFits
  ReviewFirst
  FanInComplete
  NothingStranded
