SPECIFICATION Spec
CONSTANTS
  Region = "us-east-1"
  Documents <- Uploads
  InlineDocuments <- Inlines
  Short = 1
  Long = 2
  Targets = 2
  MostUnhealthy = 2
INVARIANT Tier3NeverGates
CHECK_DEADLOCK FALSE
