SPECIFICATION Spec
CONSTANTS
  Region = "us-east-1"
  Documents <- Uploads
  InlineDocuments <- Inlines
  Short = 2
  Long = 3
  Targets = 2
  MostUnhealthy = 2
INVARIANT TypeOK
INVARIANT RedHasCause
INVARIANT OutageIsReported
INVARIANT DarkIsReported
INVARIANT DeclaredIsMonitored
CHECK_DEADLOCK FALSE
