----------------------------- MODULE ActiveSlot -----------------------------
(***************************************************************************)
(* What an active-task slot of a project promises: at most one task holds  *)
(* it, a task holds it at most once, and a task is over, with a terminal   *)
(* status, exactly when it was refused or has given the slot back.         *)
(***************************************************************************)
CONSTANTS Tasks, None

VARIABLES
  holder,  (* the task whose id is in the slot, or None                     *)
  over     (* the tasks that were refused or have released the slot         *)

vars == <<holder, over>>

TypeOK == holder \in Tasks \cup {None} /\ over \subseteq Tasks

Init == holder = None /\ over = {}

Claim(t) ==
  /\ holder = None /\ t \notin over
  /\ holder' = t /\ UNCHANGED over

Refuse(t) ==
  /\ t # holder /\ t \notin over
  /\ over' = over \cup {t} /\ UNCHANGED holder

Release ==
  /\ holder # None
  /\ holder' = None /\ over' = over \cup {holder}

Next == Release \/ \E t \in Tasks : Claim(t) \/ Refuse(t)

Spec == Init /\ [][Next]_vars
=============================================================================
