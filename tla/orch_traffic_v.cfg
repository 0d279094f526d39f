SPECIFICATION OrchestratorSpec
CONSTANTS
  e1 = e1
  Execs <- OneExec
  Primary = "use1"
  Secondary = "use2"
  Inputs <- PrimaryInputs
  MaxAttempts = 0
  Exclusive = TRUE
  Faults = {}
  LookBack = 1
  MaxResets = 0
INVARIANT TrafficFollowsPromotion
CHECK_DEADLOCK FALSE
