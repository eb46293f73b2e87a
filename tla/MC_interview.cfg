SPECIFICATION Spec
CONSTANTS
  Fields = {budget, notes}
  Blocking = {budget}
  Enums = {budget}
  Details = {notes}
  Prunable = {notes}
  budget = budget
  notes = notes
  Outputs <- MCOutputs
  Pruners = {budget}
  MaxClarifications = 2
  MaxReplans = 1
  Servers = {s1}
  Turns = {t1, t2}
  PlanIds = {p1, p2, p3, p4}
  MaxMessages = 4
  Writes = {TRUE, FALSE}
  Timeouts = TRUE
  Restarts = TRUE
  None = None
  NoField = NoField
  NoPlan = NoPlan
INVARIANT TypeOK
INVARIANT AnswersFit
INVARIANT Resumable
INVARIANT RequirementsCurrent
PROPERTY AnswersKept
SYMMETRY Symmetry
