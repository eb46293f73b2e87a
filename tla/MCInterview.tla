----------------------------- MODULE MCInterview -----------------------------
(* What the planners may return, in the instances that are checked.         *)
EXTENDS Interview

CONSTANTS budget, notes

Output(ask, ofBudget, ofNotes) ==
  [ask |-> ask, fill |-> [f \in {budget, notes} |-> IF f = budget THEN ofBudget ELSE ofNotes]]

(* Both fields, in either order; one of them, the other filled in, well or  *)
(* not; none; a field that is both asked for and filled in.                 *)
MCOutputs ==
  { Output(<<budget, notes>>, "absent", "absent"),
    Output(<<notes, budget>>, "absent", "absent"),
    Output(<<notes>>, "valid", "absent"),
    Output(<<notes>>, "invalid", "absent"),
    Output(<<budget>>, "absent", "valid"),
    Output(<<budget>>, "valid", "declined"),
    Output(<<>>, "absent", "absent") }

(* Planners that ask for every field and fill in none.                      *)
MCThorough == {o \in MCOutputs : Len(o.ask) = 2}
=============================================================================
