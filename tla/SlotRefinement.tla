--------------------------- MODULE SlotRefinement ---------------------------
(***************************************************************************)
(* A stage whose tasks are the only ones running (the wizard's intended    *)
(* use: one stage at a time, nobody selecting a design meanwhile, no       *)
(* worker dying): its slot implements ActiveSlot. Store and queue calls    *)
(* may raise at any point, and refinements may be saved.                   *)
(***************************************************************************)
EXTENDS TaskPipeline

CONSTANT Stage

ASSUME Quiet ==
  /\ Stage \in {"design", "docs"}
  /\ \A t \in Tasks : StageOf(t) = Stage
  /\ Selects = {}
  /\ MaxCrashes = 0
  /\ LostReplies = FALSE

Holder == project.slot[Stage]
Over   == {t \in Tasks : task[t].status \in TerminalStatus /\ t # Holder}

Slot == INSTANCE ActiveSlot WITH holder <- Holder, over <- Over

(* The slot of the stage, as submitters and the worker use it, implements   *)
(* ActiveSlot: in particular the pointer is cleared only once its own task  *)
(* is terminal, and no finished task ever holds it again.                   *)
ImplementsActiveSlot == Slot!Spec

-----------------------------------------------------------------------------
(* The inductive invariant.                                                 *)

Holding == {"claimed", "sendfailed", "unsent", "releasing"}

(* Where a request stands: what that says of the slot and of its task.      *)
RequestPlace(t) ==
  /\ api[t].pc \in {"idle", "created", "conflict", "accepted", "refused"} \cup Holding
  /\ At(t, "idle") => task[t].status = "absent"
  /\ api[t].pc \in {"created", "conflict"} => task[t].status = "queued"
  /\ api[t].pc \in {"idle", "created", "conflict"} => Holder # t
  /\ api[t].pc \in Holding => Holder = t
  /\ api[t].pc \in {"unsent", "releasing"} => task[t].status = "failed"

(* A message belongs to the holder, or is one whose task is terminal and    *)
(* whose handler is about to return.                                        *)
MessagePlace(i) ==
  LET t == queue[Stage][i].task IN
  /\ At(t, "accepted")
  /\ \/ Holder = t
     \/ i = 1 /\ Busy(Stage, "ack") /\ task[t].status \in TerminalStatus

(* The worker works on the head of its queue, and its place in the handler  *)
(* tells the status it has written.                                         *)
WorkerPlace ==
  /\ ~Busy(Stage, "idle") =>
       /\ queue[Stage] # <<>>
       /\ worker[Stage].task = queue[Stage][1].task
  /\ worker[Stage].pc \in {"save", "point", "read", "clear"} =>
       task[worker[Stage].task].status = "completed"
  /\ worker[Stage].pc \in {"markread", "markclear"} =>
       task[worker[Stage].task].status = "failed"

(* The queue holds one message of a task.                                   *)
OneMessageEach ==
  \A i, j \in 1 .. Len(queue[Stage]) :
    queue[Stage][i].task = queue[Stage][j].task => i = j

OthersIdle ==
  \A s \in Stages \ {Stage} : queue[s] = <<>> /\ Busy(s, "idle")

(* The slot, the requests, the messages and the worker agree: this is what  *)
(* makes it safe for a handler to clear the slot from an old copy.          *)
SlotInv ==
  /\ TypeOK
  /\ HandlerInv
  /\ \A t \in Tasks : RequestPlace(t)
  /\ \A i \in 1 .. Len(queue[Stage]) : MessagePlace(i)
  /\ OneMessageEach
  /\ WorkerPlace
  /\ OthersIdle
=============================================================================
