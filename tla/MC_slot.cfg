SPECIFICATION Spec
CONSTANTS
  DesignTasks = {}
  IacTasks = {}
  DocsTasks = {o1, o2, o3}
  Selects = {}
  Refines = {r1}
  Options = {0}
  Starts = {"interviewed", "refined"}
  MaxReceive = 3
  MaxCrashes = 0
  EditsFirst = FALSE
  Faults = TRUE
  LostReplies = FALSE
  Stage = "docs"
  Past = Past
  None = None
CHECK_DEADLOCK FALSE
INVARIANT TypeOK
INVARIANT SlotInv
INVARIANT SlotNamesOutstanding
INVARIANT StatusBacked
INVARIANT StepHasResult
PROPERTY ImplementsActiveSlot
