SPECIFICATION FairSpec
CONSTANTS
  DesignTasks = {d1}
  IacTasks = {i1, i2}
  DocsTasks = {}
  Selects = {s1}
  Refines = {}
  Options = {0}
  Starts = {"refined"}
  MaxReceive = 2
  MaxCrashes = 2
  EditsFirst = TRUE
  Faults = FALSE
  LostReplies = FALSE
  Past = Past
  None = None
CHECK_DEADLOCK FALSE
INVARIANT NoOrphanTask
PROPERTY AcceptedSettles
PROPERTY QueuesDrain
