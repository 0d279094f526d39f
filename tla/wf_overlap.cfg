SPECIFICATION FairSpec
CONSTANTS
  e1 = e1
  e2 = e2
  Execs <- TwoExecs
  Primary = "use1"
  Secondary = "use2"
  Inputs <- AuroraInputs
  MaxAttempts = 1
  Exclusive = FALSE
  Faults = {"task", "silent", "drain"}
PROPERTY ChangesAreAccountable
PROPERTY Termination
CHECK_DEADLOCK FALSE
