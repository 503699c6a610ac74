SPECIFICATION BreakerSpec
CONSTANTS
  c1 = c1
  c2 = c2
  c3 = c3
  Callers = {c1, c2, c3}
  FailureThreshold = 2
  SuccessThreshold = 2
  HalfOpenMaxCalls = 2
  MaxForces = 2
INVARIANTS BreakerTypeOK CountsAreFresh NoLeakedSlot
PROPERTY Recovers
CHECK_DEADLOCK FALSE
