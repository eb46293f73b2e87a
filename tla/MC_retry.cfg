SPECIFICATION Spec
CONSTANTS
  DesignTasks = {d1}
  IacTasks = {}
  DocsTasks = {}
  Selects = {}
  Refines = {}
  Options = {0}
  Starts = {"interviewed"}
  MaxReceive = 3
  MaxCrashes = 0
  EditsFirst = FALSE
  Faults = TRUE
  LostReplies = FALSE
  Past = Past
  None = None
CHECK_DEADLOCK FALSE
PROPERTY FailureRecordedOrRetried
