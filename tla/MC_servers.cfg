SPECIFICATION Spec
CONSTANTS
  Fields = {budget, notes}
  Blocking = {budget}
  Enums = {budget}
  Details = {notes}
  Prunable = {notes}
  budget = budget
  notes = notes
  Outputs <- MCThorough
  Pruners = {budget}
  MaxClarifications = 2
  MaxReplans = 1
  Servers = {s1, s2}
  Turns = {t1}
  PlanIds = {p1, p2, p3, p4}
  MaxMessages = 4
  Writes = {TRUE}
  Timeouts = FALSE
  Restarts = FALSE
  None = None
  NoField = NoField
  NoPlan = NoPlan
PROPERTY AnswersKept
CHECK_DEADLOCK FALSE
