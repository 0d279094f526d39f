SPECIFICATION Spec
CONSTANTS
  e1 = e1
  e2 = e2
  Execs <- TwoExecs
  Primary = "use1"
  Secondary = "use2"
  Inputs <- PrimaryInputs
  MaxAttempts = 1
  Exclusive = FALSE
  Faults = {}
INVARIANT OneActive
CHECK_DEADLOCK FALSE
