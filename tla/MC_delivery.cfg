SPECIFICATION Spec
CHECK_DEADLOCK FALSE
CONSTANTS
  Conns = {1, 2}
  Stale = {2}
  MaxTasks = 1
  MaxPolls = 2
  MaxTrouble = 1
  Jobs = {"first", "second"}
  Sockets = {s1, s2, s3}
  Projects = {"p"}
  ProjectOf <- MCProjectOf
  MaxDepth = 1
  MaxPerKey = 2
  MaxKeys = 1
INVARIANT TypeOK
PROPERTIES PollsEnd LoadingEnds DeadForgotten QueueServed ShutdownEnds AllTold
