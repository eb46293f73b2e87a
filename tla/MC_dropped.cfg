SPECIFICATION Spec
CHECK_DEADLOCK FALSE
CONSTANTS
  Conns = {1}
  Stale = {}
  MaxTasks = 1
  MaxPolls = 2
  MaxTrouble = 0
  Jobs = {"first"}
  Sockets = {s1}
  Projects = {"p"}
  ProjectOf <- MCProjectOf
  MaxDepth = 1
  MaxPerKey = 1
  MaxKeys = 1
PROPERTY FallbackPolls
