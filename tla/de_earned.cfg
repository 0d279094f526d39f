SPECIFICATION Spec
CONSTANTS
  s1 = s1
  s2 = s2
  i1 = i1
  i2 = i2
  Signals <- TwoSignals
  Invocations <- Overlapping
  Quorum = 2
  Dwell = 2
  Hysteresis = 0
  AutoFailover = FALSE
  MaxTime = 3
  Faults = {"error", "skip", "reset"}
SYMMETRY FullSymmetry
INVARIANT TypeOK
INVARIANT AuthorizationIsEarned
INVARIANT OutageIsAuthorized
CHECK_DEADLOCK FALSE
