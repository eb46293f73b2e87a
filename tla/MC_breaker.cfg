SPECIFICATION FairSpec
CONSTANTS
  Callers = {g1, c1, c2}
  Guarded = {g1}
  FailureThreshold = 2
  HalfOpenMaxCalls = 2
  MaxConcurrency = 1
  MaxAttempts = 2
INVARIANT TypeOK
INVARIANT CountersFit
INVARIANT SlotsConserved
PROPERTY Moves
PROPERTY OperationsEnd
