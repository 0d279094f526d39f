SPECIFICATION Spec
CONSTANTS
  e1 = e1
  e2 = e2
  Execs <- TwoExecs
  Primary = "use1"
  Secondary = "use2"
  Inputs <- GatedOrNot
  MaxAttempts = 1
  Exclusive = TRUE
  Faults = {"task", "stop", "writer"}
INVARIANT TypeOK
INVARIANT OneActive
INVARIANT PromotionIsSafe
PROPERTY PrimaryStoreImplements
PROPERTY SecondaryStoreImplements
 
INVARIANT OutcomeIsTold
PROPERTY CompletionIsTruthful
CHECK_DEADLOCK FALSE
