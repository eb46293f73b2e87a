---------------------------- MODULE TaskPipeline ----------------------------
(***************************************************************************)
(* The task pipeline of one project: how a generation task of a stage      *)
(* (design, iac, docs) is submitted by the API, claimed on the project     *)
(* item, carried by the stage's SQS FIFO queue, executed by the stage's    *)
(* Lambda worker and recorded in the store.                                *)
(*                                                                         *)
(* One step is one call that another process can observe: a DynamoDB       *)
(* operation, an S3 operation, an SQS operation, the return of an agent.   *)
(* The handlers keep what they read (a Project object, the design JSON) in *)
(* local variables between two such calls; "snap" and "seen" model those   *)
(* copies, because update_project writes every field of the copy back.     *)
(*                                                                         *)
(* Every submission uses a fresh task id, so a request and its task are    *)
(* one element of Tasks.                                                   *)
(***************************************************************************)
EXTENDS Naturals, Sequences, FiniteSets

CONSTANTS
  DesignTasks, IacTasks, DocsTasks,  (* submissions, by stage               *)
  Selects, Refines,                  (* calls of select_design/refine_design *)
  Options,                           (* option indexes a user may select    *)
  Starts,                            (* where the project stands at first   *)
  MaxReceive,                        (* maxReceiveCount of the queues       *)
  MaxCrashes,                        (* bound: worker deaths in a behaviour *)
  EditsFirst,                        (* bound: none before all edits are over *)
  Faults,                            (* may store and queue calls raise?    *)
  LostReplies,                       (* may a raising send have delivered?  *)
  Past,                              (* a task of an earlier day            *)
  None

Stages == {"design", "iac", "docs"}
Tasks  == DesignTasks \cup IacTasks \cup DocsTasks
Edits  == Selects \cup Refines
StageOf(t) ==
  IF t \in DesignTasks THEN "design" ELSE IF t \in IacTasks THEN "iac" ELSE "docs"

ASSUME Disjoint ==
  /\ DesignTasks \cap IacTasks = {}
  /\ DesignTasks \cap DocsTasks = {}
  /\ IacTasks \cap DocsTasks = {}
  /\ Selects \cap Refines = {}
ASSUME Switches ==
  /\ MaxReceive \in Nat \ {0} /\ MaxCrashes \in Nat
  /\ Faults \in BOOLEAN /\ LostReplies \in BOOLEAN /\ EditsFirst \in BOOLEAN
  /\ Starts \subseteq {"interviewed", "refined"}

VARIABLES
  project,  (* the project item: status, approved option, active-task slots *)
  design,   (* design_json: the task that made it, the option it resolves   *)
  object,   (* iac, docs: is the pointer set, whose data is at the S3 key   *)
  task,     (* the task items: status, and whether a result was written     *)
  queue,    (* per stage: the messages of this project's group, in order    *)
  worker,   (* per stage: the one consumer the message group allows         *)
  api,      (* per submission: how far the request has come                 *)
  edit,     (* per select/refine call: how far the request has come         *)
  crashes   (* worker deaths so far                                         *)

vars == <<project, design, object, task, queue, worker, api, edit, crashes>>

ActiveStatus   == {"queued", "processing", "validating"}
TerminalStatus == {"completed", "failed"}

Project ==
  [status   : {"design", "iac", "complete"},
   approved : Options \cup {None},
   slot     : [Stages -> Tasks \cup {None}]]
Design  == [by : Tasks \cup {Past, None}, resolved : Options \cup {None}]
Object  == [ptr : BOOLEAN, by : Tasks \cup {None}]
Task    == [status : {"absent"} \cup ActiveStatus \cup TerminalStatus, result : BOOLEAN]
Message == [task : Tasks, receives : Nat]

ApiPc  == {"idle", "checked", "pointed", "healing", "ready", "created", "conflict",
           "claimed", "sendfailed", "unsent", "releasing", "accepted", "refused"}
WorkPc == {"idle", "start", "load", "validating", "agent", "finish", "save", "point",
           "read", "clear", "marking", "markread", "markclear", "ack"}
EditPc == {"idle", "loaded", "chosen", "done"}

Worker  == [pc : WorkPc, task : Tasks \cup {None}, snap : Project \cup {None}]
Request == [pc : ApiPc, snap : Project \cup {None}]
Edit    == [pc : EditPc, snap : Project \cup {None}, seen : Design \cup {None}]

ASSUME NoneIsNew ==
  /\ None \notin Tasks \cup Options \cup Project \cup Design
  /\ Past \notin Tasks \cup {None}

Cleared(snap, s) == [snap EXCEPT !.slot[s] = None]

-----------------------------------------------------------------------------
(* A project whose interview is complete, or one refined on an earlier day. *)
Fresh ==
  [status |-> "design", approved |-> None, slot |-> [s \in Stages |-> None]]

Init ==
  /\ \E at \in Starts, o \in Options :
       IF at = "interviewed"
       THEN project = Fresh /\ design = [by |-> None, resolved |-> None]
       ELSE /\ project = [Fresh EXCEPT !.status = "iac", !.approved = o]
            /\ design = [by |-> Past, resolved |-> o]
  /\ object = [s \in {"iac", "docs"} |-> [ptr |-> FALSE, by |-> None]]
  /\ task = [t \in Tasks |-> [status |-> "absent", result |-> FALSE]]
  /\ queue = [s \in Stages |-> <<>>]
  /\ worker = [s \in Stages |-> [pc |-> "idle", task |-> None, snap |-> None]]
  /\ api = [t \in Tasks |-> [pc |-> "idle", snap |-> None]]
  /\ edit = [e \in Edits |-> [pc |-> "idle", snap |-> None, seen |-> None]]
  /\ crashes = 0

-----------------------------------------------------------------------------
(* Submission: submit_design_task, submit_iac_task, submit_docs_task.       *)

At(t, pc)   == api[t].pc = pc
Goto(t, pc) == api' = [api EXCEPT ![t] = [pc |-> pc, snap |-> None]]
SetStatus(t, st) == task' = [task EXCEPT ![t].status = st]

(* IaC only: the stored design must carry resolved parameters.              *)
CheckResolved(t) ==
  /\ t \in IacTasks /\ At(t, "idle")
  /\ Goto(t, IF design.resolved # None THEN "checked" ELSE "refused")
  /\ UNCHANGED <<project, design, object, task, queue, worker, edit, crashes>>

(* IaC only: is the slot occupied? The Project object is kept.              *)
ReadPointer(t) ==
  /\ At(t, "checked")
  /\ IF project.slot["iac"] = None
     THEN Goto(t, "ready")
     ELSE api' = [api EXCEPT ![t] = [pc |-> "pointed", snap |-> project]]
  /\ UNCHANGED <<project, design, object, task, queue, worker, edit, crashes>>

(* IaC only: an active task refuses the request, a finished one is stale.   *)
CheckPointed(t) ==
  /\ At(t, "pointed")
  /\ IF task[api[t].snap.slot["iac"]].status \in ActiveStatus
     THEN Goto(t, "refused")
     ELSE api' = [api EXCEPT ![t].pc = "healing"]
  /\ UNCHANGED <<project, design, object, task, queue, worker, edit, crashes>>

(* IaC only: the stale pointer is cleared by writing the whole copy back.   *)
HealPointer(t) ==
  /\ At(t, "healing")
  /\ project' = Cleared(api[t].snap, "iac")
  /\ Goto(t, "ready")
  /\ UNCHANGED <<design, object, task, queue, worker, edit, crashes>>

CreateTask(t) ==
  /\ At(t, IF t \in IacTasks THEN "ready" ELSE "idle")
  /\ SetStatus(t, "queued")
  /\ Goto(t, "created")
  /\ UNCHANGED <<project, design, object, queue, worker, edit, crashes>>

(* Broken variant: the slot is taken without the condition.                 *)
ClaimUnconditionally(t) ==
  /\ At(t, "created")
  /\ project' = [project EXCEPT !.slot[StageOf(t)] = t]
  /\ Goto(t, "claimed")
  /\ UNCHANGED <<design, object, task, queue, worker, edit, crashes>>

(* claim_active_task: a conditional write on the slot.                      *)
ClaimTask(t) ==
  LET s == StageOf(t) IN
  /\ At(t, "created")
  /\ \/ /\ project.slot[s] = None
        /\ project' = [project EXCEPT !.slot[s] = t]
        /\ Goto(t, "claimed")
     \/ /\ project.slot[s] # None
        /\ Goto(t, "conflict")
        /\ UNCHANGED project
  /\ UNCHANGED <<design, object, task, queue, worker, edit, crashes>>

(* Broken variant: the refused request clears the slot it did not get.      *)
RejectAndClear(t) ==
  /\ At(t, "conflict")
  /\ SetStatus(t, "failed")
  /\ project' = Cleared(project, StageOf(t))
  /\ Goto(t, "refused")
  /\ UNCHANGED <<design, object, queue, worker, edit, crashes>>

RejectTask(t) ==
  /\ At(t, "conflict")
  /\ SetStatus(t, "failed")
  /\ Goto(t, "refused")
  /\ UNCHANGED <<project, design, object, queue, worker, edit, crashes>>

Enqueued(t) ==
  [queue EXCEPT ![StageOf(t)] = Append(@, [task |-> t, receives |-> 0])]

SendTask(t) ==
  /\ At(t, "claimed")
  /\ queue' = Enqueued(t)
  /\ Goto(t, "accepted")
  /\ UNCHANGED <<project, design, object, task, worker, edit, crashes>>

(* send_message raises; when the reply is lost the message is in the queue. *)
SendFails(t) ==
  /\ Faults
  /\ At(t, "claimed")
  /\ queue' \in {queue} \cup (IF LostReplies THEN {Enqueued(t)} ELSE {})
  /\ Goto(t, "sendfailed")
  /\ UNCHANGED <<project, design, object, task, worker, edit, crashes>>

(* Broken variant: the slot is released without failing the task first.     *)
ReleaseUnfailed(t) ==
  /\ At(t, "sendfailed")
  /\ Goto(t, "unsent")
  /\ UNCHANGED <<project, design, object, task, queue, worker, edit, crashes>>

FailUnsent(t) ==
  /\ At(t, "sendfailed")
  /\ SetStatus(t, "failed")
  /\ Goto(t, "unsent")
  /\ UNCHANGED <<project, design, object, queue, worker, edit, crashes>>

ReadUnsent(t) ==
  /\ At(t, "unsent")
  /\ api' = [api EXCEPT ![t] = [pc |-> "releasing", snap |-> project]]
  /\ UNCHANGED <<project, design, object, task, queue, worker, edit, crashes>>

ReleaseUnsent(t) ==
  /\ At(t, "releasing")
  /\ project' = Cleared(api[t].snap, StageOf(t))
  /\ Goto(t, "refused")
  /\ UNCHANGED <<design, object, task, queue, worker, edit, crashes>>

(* A store call raises, or the API process dies: nothing is undone.         *)
AbortSubmit(t) ==
  /\ Faults
  /\ api[t].pc \notin {"idle", "accepted", "refused"}
  /\ Goto(t, "refused")
  /\ UNCHANGED <<project, design, object, task, queue, worker, edit, crashes>>

SubmitStep(t) ==
  \/ CheckResolved(t) \/ ReadPointer(t) \/ CheckPointed(t) \/ HealPointer(t)
  \/ CreateTask(t) \/ ClaimTask(t) \/ RejectTask(t) \/ SendTask(t)
  \/ FailUnsent(t) \/ ReadUnsent(t) \/ ReleaseUnsent(t)

-----------------------------------------------------------------------------
(* The stage's worker: the Lambda handler, process_*_task, mark_*_failed.   *)

Busy(s, pc) == worker[s].pc = pc
Move(s, pc) == worker' = [worker EXCEPT ![s].pc = pc]
Free(s)     == worker' = [worker EXCEPT ![s] = [pc |-> "idle", task |-> None, snap |-> None]]

(* SQS delivers the head of the group; later messages of the group wait.    *)
Receive(s) ==
  /\ Busy(s, "idle") /\ queue[s] # <<>>
  /\ Head(queue[s]).receives < MaxReceive
  /\ queue' = [queue EXCEPT ![s][1].receives = @ + 1]
  /\ worker' = [worker EXCEPT ![s] =
                  [pc |-> "start", task |-> Head(queue[s]).task, snap |-> None]]
  /\ UNCHANGED <<project, design, object, task, api, edit, crashes>>

(* Broken variant: one receive too many is waited for.                      *)
DeadLetterLate(s) ==
  /\ Busy(s, "idle") /\ queue[s] # <<>>
  /\ Head(queue[s]).receives > MaxReceive
  /\ queue' = [queue EXCEPT ![s] = Tail(@)]
  /\ UNCHANGED <<project, design, object, task, worker, api, edit, crashes>>

(* A message received MaxReceive times and never deleted goes to the DLQ,   *)
(* which nothing reads.                                                     *)
DeadLetter(s) ==
  /\ Busy(s, "idle") /\ queue[s] # <<>>
  /\ Head(queue[s]).receives >= MaxReceive
  /\ queue' = [queue EXCEPT ![s] = Tail(@)]
  /\ UNCHANGED <<project, design, object, task, worker, api, edit, crashes>>

(* Broken variant: a redelivery finds the task begun and just returns.      *)
SkipBegun(s) ==
  /\ Busy(s, "start")
  /\ IF task[worker[s].task].status = "queued"
     THEN /\ SetStatus(worker[s].task, "processing")
          /\ Move(s, IF s = "design" THEN "agent" ELSE "load")
     ELSE Move(s, "ack") /\ UNCHANGED task
  /\ UNCHANGED <<project, design, object, queue, api, edit, crashes>>

MarkProcessing(s) ==
  /\ Busy(s, "start")
  /\ SetStatus(worker[s].task, "processing")
  /\ Move(s, IF s = "design" THEN "agent" ELSE "load")
  /\ UNCHANGED <<project, design, object, queue, api, edit, crashes>>

(* iac needs the resolved parameters, docs needs a design.                  *)
LoadInputs(s) ==
  /\ Busy(s, "load")
  /\ Move(s, IF s = "iac"
             THEN IF design.resolved # None THEN "validating" ELSE "marking"
             ELSE IF design.by # None THEN "agent" ELSE "marking")
  /\ UNCHANGED <<project, design, object, task, queue, api, edit, crashes>>

MarkValidating(s) ==
  /\ Busy(s, "validating")
  /\ SetStatus(worker[s].task, "validating")
  /\ Move(s, "agent")
  /\ UNCHANGED <<project, design, object, queue, api, edit, crashes>>

(* Broken variant: the step is saved before the task is completed.          *)
SaveFirst(s) ==
  /\ Busy(s, "agent")
  /\ Move(s, "save") \/ Move(s, "marking")
  /\ UNCHANGED <<project, design, object, task, queue, api, edit, crashes>>

(* The agent returns a result or raises.                                    *)
RunAgent(s) ==
  /\ Busy(s, "agent")
  /\ Move(s, "finish") \/ Move(s, "marking")
  /\ UNCHANGED <<project, design, object, task, queue, api, edit, crashes>>

MarkCompleted(s) ==
  /\ Busy(s, "finish")
  /\ task' = [task EXCEPT ![worker[s].task] = [status |-> "completed", result |-> TRUE]]
  /\ Move(s, "save")
  /\ UNCHANGED <<project, design, object, queue, api, edit, crashes>>

(* save_step("design", advance=False): the new JSON has no resolved part.   *)
SaveDesign(s) ==
  /\ s = "design" /\ Busy(s, "save")
  /\ design' = [by |-> worker[s].task, resolved |-> None]
  /\ Move(s, "read")
  /\ UNCHANGED <<project, object, task, queue, api, edit, crashes>>

(* Broken variant: the status advances before the pointer is written.       *)
PutAndAdvance(s) ==
  /\ s # "design" /\ Busy(s, "save")
  /\ object' = [object EXCEPT ![s].by = worker[s].task]
  /\ project' = IF s = "docs" THEN [project EXCEPT !.status = "complete"] ELSE project
  /\ Move(s, "point")
  /\ UNCHANGED <<design, task, queue, api, edit, crashes>>

(* save_step of iac and docs, first half: the object at the step's one key. *)
PutObject(s) ==
  /\ s # "design" /\ Busy(s, "save")
  /\ object' = [object EXCEPT ![s].by = worker[s].task]
  /\ Move(s, "point")
  /\ UNCHANGED <<project, design, task, queue, api, edit, crashes>>

(* Broken variant: the status is set to the step's name.                    *)
PointByName(s) ==
  /\ Busy(s, "point")
  /\ object' = [object EXCEPT ![s].ptr = TRUE]
  /\ project' = IF s = "docs" THEN [project EXCEPT !.status = s] ELSE project
  /\ Move(s, "read")
  /\ UNCHANGED <<design, task, queue, api, edit, crashes>>

(* Second half: the pointer; docs also advances the project to COMPLETE.    *)
PointStep(s) ==
  /\ Busy(s, "point")
  /\ object' = [object EXCEPT ![s].ptr = TRUE]
  /\ project' = IF s = "docs" THEN [project EXCEPT !.status = "complete"] ELSE project
  /\ Move(s, "read")
  /\ UNCHANGED <<design, task, queue, api, edit, crashes>>

(* The pointer update raises: the object is deleted, if the delete works.   *)
PointFails(s) ==
  /\ Faults
  /\ Busy(s, "point")
  /\ \E left \in {object[s].by, None} : object' = [object EXCEPT ![s].by = left]
  /\ Move(s, "marking")
  /\ UNCHANGED <<project, design, task, queue, api, edit, crashes>>

ReadProject(s) ==
  /\ worker[s].pc \in {"read", "markread"}
  /\ worker' = [worker EXCEPT ![s].pc = IF @ = "read" THEN "clear" ELSE "markclear",
                              ![s].snap = project]
  /\ UNCHANGED <<project, design, object, task, queue, api, edit, crashes>>

(* update_project with the stage's slot set to None in the copy.            *)
ClearSlot(s) ==
  /\ worker[s].pc \in {"clear", "markclear"}
  /\ project' = Cleared(worker[s].snap, s)
  /\ worker' = [worker EXCEPT ![s].pc = "ack", ![s].snap = None]
  /\ UNCHANGED <<design, object, task, queue, api, edit, crashes>>

(* The handler returns, and the event source deletes the message.           *)
Ack(s) ==
  /\ Busy(s, "ack")
  /\ queue' = [queue EXCEPT ![s] = Tail(@)]
  /\ Free(s)
  /\ UNCHANGED <<project, design, object, task, api, edit, crashes>>

(* A store call of process_*_task raises: the handler marks the task.       *)
ProcessFails(s) ==
  /\ Faults
  /\ worker[s].pc \in {"start", "load", "validating", "finish", "save", "read", "clear"}
  /\ worker' = [worker EXCEPT ![s].pc = "marking", ![s].snap = None]
  /\ UNCHANGED <<project, design, object, task, queue, api, edit, crashes>>

MarkFailed(s) ==
  /\ Busy(s, "marking")
  /\ SetStatus(worker[s].task, "failed")
  /\ Move(s, "markread")
  /\ UNCHANGED <<project, design, object, queue, api, edit, crashes>>

(* A store call of mark_*_failed raises: it is logged, the handler returns. *)
MarkSwallowed(s) ==
  /\ Faults
  /\ worker[s].pc \in {"marking", "markread", "markclear"}
  /\ worker' = [worker EXCEPT ![s].pc = "ack", ![s].snap = None]
  /\ UNCHANGED <<project, design, object, task, queue, api, edit, crashes>>

(* Broken variant: the message is deleted on receipt, so it does not return. *)
CrashLoses(s) ==
  /\ crashes < MaxCrashes
  /\ ~Busy(s, "idle")
  /\ crashes' = crashes + 1
  /\ queue' = [queue EXCEPT ![s] = Tail(@)]
  /\ Free(s)
  /\ UNCHANGED <<project, design, object, task, api, edit>>

(* The Lambda times out or dies; the message reappears at the head.         *)
Crash(s) ==
  /\ crashes < MaxCrashes
  /\ EditsFirst => \A e \in Edits : edit[e].pc = "done"
  /\ ~Busy(s, "idle")
  /\ crashes' = crashes + 1
  /\ Free(s)
  /\ UNCHANGED <<project, design, object, task, queue, api, edit>>

WorkerStep(s) ==
  \/ Receive(s) \/ DeadLetter(s) \/ MarkProcessing(s) \/ LoadInputs(s)
  \/ MarkValidating(s) \/ RunAgent(s) \/ MarkCompleted(s) \/ SaveDesign(s)
  \/ PutObject(s) \/ PointStep(s) \/ ReadProject(s) \/ ClearSlot(s) \/ Ack(s)
  \/ MarkFailed(s)

-----------------------------------------------------------------------------
(* select_design and refine_design.                                         *)

Editing(e, pc) == edit[e].pc = pc
Done(e) == edit' = [edit EXCEPT ![e] = [pc |-> "done", snap |-> None, seen |-> None]]

(* Both load the design first and fail without one.                         *)
LoadDesign(e) ==
  /\ Editing(e, "idle")
  /\ IF design.by = None
     THEN Done(e)
     ELSE edit' = [edit EXCEPT ![e].pc = "loaded",
                               ![e].seen = IF e \in Refines THEN design ELSE None]
  /\ UNCHANGED <<project, design, object, task, queue, worker, api, crashes>>

(* select reads the project after the refinement agent; refine before it    *)
(* resolves, and fails when nothing is selected.                            *)
LoadProject(e) ==
  /\ Editing(e, "loaded")
  /\ IF e \in Refines /\ project.approved = None
     THEN Done(e)
     ELSE edit' = [edit EXCEPT ![e].pc = "chosen", ![e].snap = project]
  /\ UNCHANGED <<project, design, object, task, queue, worker, api, crashes>>

(* update_project with the user's index in the copy.                        *)
SelectOption(e) ==
  /\ e \in Selects /\ Editing(e, "chosen")
  /\ \E o \in Options : project' = [edit[e].snap EXCEPT !.approved = o]
  /\ Done(e)
  /\ UNCHANGED <<design, object, task, queue, worker, api, crashes>>

(* save_step("design"): the loaded JSON with the resolved parameters added; *)
(* the status advances in the same write.                                   *)
SaveRefined(e) ==
  /\ e \in Refines /\ Editing(e, "chosen")
  /\ design' = [edit[e].seen EXCEPT !.resolved = edit[e].snap.approved]
  /\ project' = [project EXCEPT !.status = "iac"]
  /\ Done(e)
  /\ UNCHANGED <<object, task, queue, worker, api, crashes>>

(* The agent, the resolver or the store raises: an error reply.             *)
AbortEdit(e) ==
  /\ edit[e].pc \in {"loaded", "chosen"}
  /\ Done(e)
  /\ UNCHANGED <<project, design, object, task, queue, worker, api, crashes>>

EditStep(e) ==
  LoadDesign(e) \/ LoadProject(e) \/ SelectOption(e) \/ SaveRefined(e) \/ AbortEdit(e)

-----------------------------------------------------------------------------
Next ==
  \/ \E t \in Tasks : SubmitStep(t) \/ SendFails(t) \/ AbortSubmit(t)
  \/ \E s \in Stages :
       WorkerStep(s) \/ PointFails(s) \/ ProcessFails(s) \/ MarkSwallowed(s) \/ Crash(s)
  \/ \E e \in Edits : EditStep(e)

Spec == Init /\ [][Next]_vars

(* SQS keeps delivering, Lambda keeps running, agents have time limits; a   *)
(* request the API has begun goes on. Faults, deaths and new requests are   *)
(* never forced.                                                            *)
FairSpec ==
  /\ Spec
  /\ \A s \in Stages : WF_vars(WorkerStep(s))
  /\ \A t \in Tasks : WF_vars(~At(t, "idle") /\ SubmitStep(t))

-----------------------------------------------------------------------------
(* Properties.                                                              *)

(* Type invariant: the items of the table, the queues and the copies the    *)
(* handlers hold keep their shape.                                          *)
TypeOK ==
  /\ project \in Project
  /\ design \in Design
  /\ object \in [{"iac", "docs"} -> Object]
  /\ task \in [Tasks -> Task]
  /\ queue \in [Stages -> Seq(Message)]
  /\ worker \in [Stages -> Worker]
  /\ api \in [Tasks -> Request]
  /\ edit \in [Edits -> Edit]
  /\ crashes \in Nat

(* A handler about to use a copy has made it, and a busy worker's message   *)
(* is still in the queue (part of the proof of TypeOK).                     *)
HandlerInv ==
  /\ \A s \in Stages : worker[s].pc # "idle" => queue[s] # <<>>
  /\ \A t \in Tasks :
       api[t].pc \in {"pointed", "healing", "releasing"} => api[t].snap # None
  /\ \A s \in Stages : worker[s].pc \in {"clear", "markclear"} => worker[s].snap # None
  /\ \A e \in Edits : Editing(e, "chosen") => edit[e].snap # None
  /\ \A e \in Refines :
       /\ edit[e].pc \in {"loaded", "chosen"} => edit[e].seen # None
       /\ Editing(e, "chosen") => edit[e].snap.approved # None

(* A task of which a message is still in its stage's queue, delivered or    *)
(* not, and which has not reached a terminal status.                        *)
Queued(t) == \E i \in 1 .. Len(queue[StageOf(t)]) : queue[StageOf(t)][i].task = t
Outstanding(t) == Queued(t) /\ task[t].status \in ActiveStatus

(* An empty slot means that no task of the stage is in flight, and a slot   *)
(* that is taken names the only one: the conditional write of               *)
(* claim_active_task and the clearing of the pointer keep the stage to one  *)
(* task at a time, as long as nobody else writes the project back.          *)
SlotNamesOutstanding ==
  \A t \in Tasks : Outstanding(t) => project.slot[StageOf(t)] = t

(* A task the API accepted is terminal or still has its message: it takes   *)
(* MaxReceive worker deaths to lose one. (submit_*, Ack and redelivery.)    *)
NoOrphanTask ==
  \A t \in Tasks :
    At(t, "accepted") =>
      task[t].status \in TerminalStatus \/ Queued(t) \/ crashes >= MaxReceive

(* What the project's status claims is backed by stored data, although      *)
(* every handler writes its old copy of the status back: COMPLETE only with *)
(* a documentation pointer (what it points to may be gone: PointFails), a   *)
(* selected option or the IaC stage only with a design.                     *)
StatusBacked ==
  /\ project.status = "complete" => object["docs"].ptr
  /\ project.status # "design" \/ project.approved # None => design.by # None

(* The result of a task is on its item before it is stored as a step, and   *)
(* stays there: the design and the objects come from tasks with a result,   *)
(* whatever raised or was delivered again since. (update_task before        *)
(* save_step. It is not said that polling hands the result out: it does so  *)
(* while the task is COMPLETED, and a save that raises is stored as FAILED.) *)
StepHasResult ==
  /\ design.by \in Tasks => task[design.by].result
  /\ \A s \in {"iac", "docs"} : object[s].by \in Tasks => task[object[s].by].result

(* Every accepted task settles in a terminal status for good, in spite of   *)
(* redelivery setting it back to PROCESSING, unless the deaths reached the  *)
(* receive limit.                                                           *)
AcceptedSettles ==
  \A t \in Tasks :
    <>[](At(t, "accepted") =>
           task[t].status \in TerminalStatus \/ crashes >= MaxReceive)

(* No message blocks its group for ever: the receive limit removes what     *)
(* keeps killing the worker, and every queue drains.                        *)
QueuesDrain == <>[](\A s \in Stages : queue[s] = <<>> /\ Busy(s, "idle"))

(* "Re-raise so SQS retries (FAILED status not persisted)": a message is    *)
(* deleted by a returning handler only when its task is terminal.           *)
FailureRecordedOrRetried ==
  [][\A s \in Stages :
       Busy(s, "ack") /\ Len(queue'[s]) < Len(queue[s])
         => task[worker[s].task].status \in TerminalStatus]_vars

(* "No active IaC task already running for this project": when a task takes *)
(* the slot, no other task of the stage is in flight.                       *)
ClaimsAlone ==
  [][\A t, u \in Tasks :
       At(t, "created") /\ ~At(t, "claimed") /\ (At(t, "claimed"))'
         /\ u # t /\ StageOf(u) = StageOf(t)
         => ~Outstanding(u)]_vars
=============================================================================
