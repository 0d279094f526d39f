SPECIFICATION OrchestratorSpec
CONSTANTS
  e1 = e1
  Execs <- OneExec
  Primary = "use1"
  Secondary = "use2"
  Inputs <- WatchedOrNot
  MaxAttempts = 0
  Exclusive = TRUE
  Faults = {"drain"}
  LookBack = 1
  MaxResets = 1
INVARIANT OneActive
INVARIANT ResetStopsAll
INVARIANT SecondaryNeedsReset
PROPERTY PrimaryStoreImplements
PROPERTY SecondaryStoreImplements
CHECK_DEADLOCK FALSE
