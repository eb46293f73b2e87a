SPECIFICATION Spec
CONSTANTS
  DesignTasks = {}
  IacTasks = {i1, i2, i3}
  DocsTasks = {}
  Selects = {}
  Refines = {}
  Options = {0}
  Starts = {"refined"}
  MaxReceive = 3
  MaxCrashes = 0
  EditsFirst = FALSE
  Faults = FALSE
  LostReplies = FALSE
  Past = Past
  None = None
CHECK_DEADLOCK FALSE
PROPERTY ClaimsAlone
