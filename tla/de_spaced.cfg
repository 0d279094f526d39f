SPECIFICATION Spec
CONSTANTS
  s1 = s1
  s2 = s2
  i1 = i1
  i2 = i2
  Signals <- OneSignal
  Invocations <- OneAtATime
  Quorum = 1
  Dwell = 2
  Hysteresis = 2
  AutoFailover = TRUE
  MaxTime = 6
  Faults = {"error", "skip"}
INVARIANT AuthorizationsAreSpaced
PROPERTY TripIsRecorded
CHECK_DEADLOCK FALSE
