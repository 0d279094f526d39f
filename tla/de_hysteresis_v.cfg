SPECIFICATION Spec
CONSTANTS
  s1 = s1
  s2 = s2
  i1 = i1
  i2 = i2
  Signals <- TwoSignals
  Invocations <- OneAtATime
  Quorum = 2
  Dwell = 2
  Hysteresis = 3
  AutoFailover = TRUE
  MaxTime = 6
  Faults = {}
SYMMETRY SignalSymmetry
INVARIANT OutageIsAuthorized
CHECK_DEADLOCK FALSE
