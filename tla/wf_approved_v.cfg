SPECIFICATION FairSpec
CONSTANTS
  e1 = e1
  e2 = e2
  Execs <- OneExec
  Primary = "use1"
  Secondary = "use2"
  Inputs <- GatedInputs
  MaxAttempts = 1
  Exclusive = TRUE
  Faults = {"writer"}
PROPERTY ApprovedCompletes
CHECK_DEADLOCK FALSE
