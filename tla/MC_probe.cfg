SPECIFICATION FairSpec
CONSTANTS
  Callers = {g1, g2}
  Guarded = {g1, g2}
  FailureThreshold = 2
  HalfOpenMaxCalls = 1
  MaxConcurrency = 1
  MaxAttempts = 3
CHECK_DEADLOCK FALSE
PROPERTY HalfOpenResolves
