------------------------- MODULE TaskPipelineProofs -------------------------
(***************************************************************************)
(* What is proved of TaskPipeline for every set of submissions and edits   *)
(* and every receive limit, with or without faults and deaths: its types,  *)
(* what the project's status and its stored steps claim, and that no       *)
(* accepted task is orphaned.                                              *)
(***************************************************************************)
EXTENDS TaskPipeline, SequenceTheorems, TLAPS

TypeInv == TypeOK /\ HandlerInv

-----------------------------------------------------------------------------
(* What the helpers of the actions change, and what they keep.              *)

(* Copying a project and clearing one slot of the copy yields a project.    *)
LEMMA ClearedIsProject ==
  ASSUME NEW p \in Project, NEW s \in Stages
  PROVE  /\ Cleared(p, s) \in Project
         /\ Cleared(p, s).slot[s] = None
  BY DEF Cleared, Project, Stages

(* None is not a project, nor a design: it is a value, they are records.    *)
LEMMA ProjectIsNotNone == \A p \in Project : p # None
  BY NoneIsNew DEF Project

(* Likewise a stored design is never None.                                  *)
LEMMA DesignIsNotNone == \A d \in Design : d # None
  BY NoneIsNew DEF Design

(* Every task belongs to a stage.                                           *)
LEMMA StageOfTask ==
  ASSUME NEW t \in Tasks
  PROVE  StageOf(t) \in Stages
  BY DEF StageOf, Stages

(* Sending adds the task's message at the end of its stage's queue.         *)
LEMMA EnqueuedFacts ==
  ASSUME queue \in [Stages -> Seq(Message)], NEW t \in Tasks, StageOf(t) \in Stages
  PROVE  /\ Enqueued(t) \in [Stages -> Seq(Message)]
         /\ \A s \in Stages : queue[s] # <<>> => Enqueued(t)[s] # <<>>
<1> DEFINE m == [task |-> t, receives |-> 0]
           q == queue[StageOf(t)]
<1>1. m \in Message /\ q \in Seq(Message)
  BY DEF Message
<1>2. Append(q, m) \in Seq(Message) /\ Append(q, m) # <<>>
  BY <1>1, AppendProperties
<1> QED BY <1>2 DEF Enqueued

(* Goto moves one request and drops its copy.                               *)
LEMMA GotoFacts ==
  ASSUME api \in [Tasks -> Request], NEW t \in Tasks, NEW pc \in ApiPc, Goto(t, pc)
  PROVE  /\ api' \in [Tasks -> Request]
         /\ api'[t].pc = pc
         /\ \A u \in Tasks \ {t} : api'[u] = api[u]
  BY DEF Goto, Request

(* A request that reads the project moves on with a copy of it.             *)
LEMMA CopyFacts ==
  ASSUME api \in [Tasks -> Request], NEW t \in Tasks, NEW pc \in ApiPc, project \in Project,
         api' = [api EXCEPT ![t] = [pc |-> pc, snap |-> project]]
  PROVE  /\ api' \in [Tasks -> Request]
         /\ api'[t].pc = pc /\ api'[t].snap = project
         /\ \A u \in Tasks \ {t} : api'[u] = api[u]
  BY DEF Request

(* SetStatus changes the status of one task.                                *)
LEMMA SetStatusFacts ==
  ASSUME task \in [Tasks -> Task], NEW t \in Tasks \cup {None},
         NEW st \in ActiveStatus \cup TerminalStatus, SetStatus(t, st)
  PROVE  /\ task' \in [Tasks -> Task]
         /\ t \in Tasks => task'[t].status = st /\ task'[t].result = task[t].result
         /\ \A u \in Tasks \ {t} : task'[u] = task[u]
  BY NoneIsNew DEF SetStatus, Task

(* Move changes the place of one worker and keeps its task and copy.        *)
LEMMA MoveFacts ==
  ASSUME worker \in [Stages -> Worker], NEW s \in Stages, NEW pc \in WorkPc, Move(s, pc)
  PROVE  /\ worker' \in [Stages -> Worker]
         /\ worker'[s].pc = pc
         /\ worker'[s].task = worker[s].task /\ worker'[s].snap = worker[s].snap
         /\ \A u \in Stages \ {s} : worker'[u] = worker[u]
  BY DEF Move, Worker

(* Free makes one worker idle.                                              *)
LEMMA FreeFacts ==
  ASSUME worker \in [Stages -> Worker], NEW s \in Stages, Free(s)
  PROVE  /\ worker' \in [Stages -> Worker]
         /\ worker'[s].pc = "idle"
         /\ \A u \in Stages \ {s} : worker'[u] = worker[u]
  BY DEF Free, Worker, WorkPc

(* A step of a worker that sets both its place and its copy.                *)
LEMMA MoveCopyFacts ==
  ASSUME worker \in [Stages -> Worker], NEW s \in Stages, NEW pc \in WorkPc,
         NEW p \in Project \cup {None},
         worker' = [worker EXCEPT ![s].pc = pc, ![s].snap = p]
  PROVE  /\ worker' \in [Stages -> Worker]
         /\ worker'[s].pc = pc /\ worker'[s].snap = p
         /\ worker'[s].task = worker[s].task
         /\ \A u \in Stages \ {s} : worker'[u] = worker[u]
  BY DEF Worker

(* Done ends one edit.                                                      *)
LEMMA DoneFacts ==
  ASSUME edit \in [Edits -> Edit], NEW e \in Edits, Done(e)
  PROVE  /\ edit' \in [Edits -> Edit]
         /\ edit'[e].pc = "done"
         /\ \A f \in Edits \ {e} : edit'[f] = edit[f]
  BY DEF Done, Edit, EditPc

(* The receive count of the head of a queue goes up; nothing else changes.  *)
LEMMA Received ==
  ASSUME NEW q \in Seq(Message), q # <<>>
  PROVE  LET r == [q EXCEPT ![1].receives = @ + 1] IN
         /\ r \in Seq(Message) /\ Len(r) = Len(q)
         /\ \A i \in 1 .. Len(q) :
              /\ r[i].task = q[i].task
              /\ r[i].receives = IF i = 1 THEN q[i].receives + 1 ELSE q[i].receives
<1> DEFINE r == [q EXCEPT ![1].receives = @ + 1]
<1>1. Len(q) \in Nat /\ DOMAIN q = 1 .. Len(q) /\ q \in [1 .. Len(q) -> Message]
  BY LenProperties, ElementOfSeq
<1>2. r \in [1 .. Len(q) -> Message]
  BY <1>1 DEF Message
<1>3. r \in Seq(Message) /\ Len(r) = Len(q)
  BY <1>1, <1>2, SeqDef, LenProperties
<1>4. \A i \in 1 .. Len(q) :
        /\ r[i].task = q[i].task
        /\ r[i].receives = IF i = 1 THEN q[i].receives + 1 ELSE q[i].receives
  BY <1>1 DEF Message
<1> QED BY <1>3, <1>4

-----------------------------------------------------------------------------
(* Every handler keeps the types and has its copy when it writes it back.   *)
LEMMA SubmitKeepsTypes ==
  ASSUME TypeOK, HandlerInv, NEW t \in Tasks,
         SubmitStep(t) \/ SendFails(t) \/ AbortSubmit(t)
  PROVE  TypeOK' /\ HandlerInv'
<1> USE DEF TypeOK, HandlerInv
<1>a. StageOf(t) \in Stages
  BY StageOfTask
<1>b. \A pc \in ApiPc : Goto(t, pc) =>
        /\ api' \in [Tasks -> Request] /\ api'[t].pc = pc
        /\ \A u \in Tasks \ {t} : api'[u] = api[u]
  BY GotoFacts
<1>c. \A st \in ActiveStatus \cup TerminalStatus :
        SetStatus(t, st) => task' \in [Tasks -> Task]
  BY SetStatusFacts
<1>d. Enqueued(t) \in [Stages -> Seq(Message)] /\ \A s \in Stages :
        queue[s] # <<>> => Enqueued(t)[s] # <<>>
  BY <1>a, EnqueuedFacts
<1>1. CASE CheckResolved(t)
  BY <1>1, <1>b DEF CheckResolved, ApiPc, Editing
<1>2. CASE ReadPointer(t)
  <2>1. CASE Goto(t, "ready")
    BY <1>2, <2>1, <1>b DEF ReadPointer, ApiPc, Editing
  <2>2. CASE api' = [api EXCEPT ![t] = [pc |-> "pointed", snap |-> project]]
    <3>1. /\ api' \in [Tasks -> Request] /\ api'[t].snap = project
          /\ \A u \in Tasks \ {t} : api'[u] = api[u]
      BY <2>2, CopyFacts DEF ApiPc
    <3> QED BY <1>2, <3>1, ProjectIsNotNone DEF ReadPointer, Editing
  <2> QED BY <1>2, <2>1, <2>2 DEF ReadPointer
<1>3. CASE CheckPointed(t)
  <2>1. CASE Goto(t, "refused")
    BY <1>3, <2>1, <1>b DEF CheckPointed, ApiPc, Editing
  <2>2. CASE api' = [api EXCEPT ![t].pc = "healing"]
    <3>1. /\ api' \in [Tasks -> Request] /\ api'[t].snap = api[t].snap
          /\ \A u \in Tasks \ {t} : api'[u] = api[u]
      BY <2>2 DEF Request, ApiPc
    <3> QED BY <1>3, <3>1 DEF CheckPointed, Editing, At
  <2> QED BY <1>3, <2>1, <2>2 DEF CheckPointed
<1>4. CASE HealPointer(t)
  <2>1. api[t].snap \in Project
    BY <1>4 DEF HealPointer, At, Request
  <2>2. project' \in Project
    BY <1>4, <2>1, ClearedIsProject DEF HealPointer, Stages
  <2> QED BY <1>4, <2>2, <1>b DEF HealPointer, ApiPc, Editing
<1>5. CASE CreateTask(t)
  BY <1>5, <1>b, <1>c DEF CreateTask, ApiPc, Editing, ActiveStatus
<1>6. CASE ClaimTask(t)
  <2>1. project' \in Project
    <3>1. [project EXCEPT !.slot[StageOf(t)] = t] \in Project
      BY <1>a DEF Project
    <3> QED BY <1>6, <3>1 DEF ClaimTask
  <2> QED BY <1>6, <2>1, <1>b DEF ClaimTask, ApiPc, Editing
<1>7. CASE RejectTask(t)
  BY <1>7, <1>b, <1>c DEF RejectTask, ApiPc, Editing, TerminalStatus
<1>8. CASE SendTask(t)
  BY <1>8, <1>b, <1>d DEF SendTask, ApiPc, Editing
<1>9. CASE SendFails(t)
  BY <1>9, <1>b, <1>d DEF SendFails, ApiPc, Editing
<1>10. CASE FailUnsent(t)
  BY <1>10, <1>b, <1>c DEF FailUnsent, ApiPc, Editing, TerminalStatus
<1>11. CASE ReadUnsent(t)
  <2>1. /\ api' \in [Tasks -> Request] /\ api'[t].snap = project
        /\ \A u \in Tasks \ {t} : api'[u] = api[u]
    BY <1>11, CopyFacts DEF ReadUnsent, ApiPc
  <2> QED BY <1>11, <2>1, ProjectIsNotNone DEF ReadUnsent, Editing
<1>12. CASE ReleaseUnsent(t)
  <2>1. api[t].snap \in Project
    BY <1>12 DEF ReleaseUnsent, At, Request
  <2>2. project' \in Project
    BY <1>12, <2>1, <1>a, ClearedIsProject DEF ReleaseUnsent
  <2> QED BY <1>12, <2>2, <1>b DEF ReleaseUnsent, ApiPc, Editing
<1>13. CASE AbortSubmit(t)
  BY <1>13, <1>b DEF AbortSubmit, ApiPc, Editing
<1> QED BY <1>1, <1>2, <1>3, <1>4, <1>5, <1>6, <1>7, <1>8, <1>9, <1>10, <1>11, <1>12, <1>13 DEF SubmitStep

(* Every step of a worker does, its failures and its death included.       *)
LEMMA WorkerKeepsTypes ==
  ASSUME TypeOK, HandlerInv, NEW s \in Stages,
         WorkerStep(s) \/ PointFails(s) \/ ProcessFails(s) \/ MarkSwallowed(s) \/ Crash(s)
  PROVE  TypeOK' /\ HandlerInv'
<1> USE DEF TypeOK, HandlerInv
<1>a. /\ worker[s].task \in Tasks \cup {None} /\ worker[s].snap \in Project \cup {None}
      /\ queue[s] \in Seq(Message)
  BY DEF Worker
<1>b. \A pc \in WorkPc : Move(s, pc) =>
        /\ worker' \in [Stages -> Worker] /\ worker'[s].pc = pc
        /\ worker'[s].snap = worker[s].snap
        /\ \A u \in Stages \ {s} : worker'[u] = worker[u]
  BY MoveFacts
<1>c. \A st \in ActiveStatus \cup TerminalStatus :
        SetStatus(worker[s].task, st) => task' \in [Tasks -> Task]
  BY <1>a, SetStatusFacts
<1>d. queue[s] # <<>> => Tail(queue[s]) \in Seq(Message) /\ Head(queue[s]).task \in Tasks
  <2> SUFFICES ASSUME queue[s] # <<>>
               PROVE  Tail(queue[s]) \in Seq(Message) /\ Head(queue[s]).task \in Tasks
    OBVIOUS
  <2>1. Head(queue[s]) \in Message /\ Tail(queue[s]) \in Seq(Message)
    BY <1>a, HeadTailProperties
  <2> QED BY <2>1 DEF Message
<1>1. CASE Receive(s)
  <2>1. queue' \in [Stages -> Seq(Message)] /\ queue'[s] # <<>>
    <3>1. LET r == [queue[s] EXCEPT ![1].receives = @ + 1] IN
            r \in Seq(Message) /\ Len(r) = Len(queue[s]) /\ r # <<>>
      BY <1>1, <1>a, Received, EmptySeq, LenProperties DEF Receive
    <3>2. queue' = [queue EXCEPT ![s] = [queue[s] EXCEPT ![1].receives = @ + 1]]
      BY <1>1 DEF Receive
    <3> QED BY <3>1, <3>2
  <2>2. /\ worker' \in [Stages -> Worker] /\ worker'[s].pc = "start"
        /\ \A u \in Stages \ {s} : worker'[u] = worker[u]
    BY <1>1, <1>d DEF Receive, Worker, WorkPc
  <2> QED BY <1>1, <2>1, <2>2 DEF Receive, Editing
<1>2. CASE DeadLetter(s)
  BY <1>2, <1>d DEF DeadLetter, Busy, Editing
<1>3. CASE MarkProcessing(s)
  BY <1>3, <1>b, <1>c DEF MarkProcessing, Busy, WorkPc, ActiveStatus, Editing
<1>4. CASE LoadInputs(s)
  BY <1>4, <1>b DEF LoadInputs, Busy, WorkPc, Editing
<1>5. CASE MarkValidating(s)
  BY <1>5, <1>b, <1>c DEF MarkValidating, Busy, WorkPc, ActiveStatus, Editing
<1>6. CASE RunAgent(s)
  BY <1>6, <1>b DEF RunAgent, Busy, WorkPc, Editing
<1>7. CASE MarkCompleted(s)
  <2>1. task' \in [Tasks -> Task]
    BY <1>7, <1>a DEF MarkCompleted, Busy, Task, TerminalStatus
  <2> QED BY <1>7, <2>1, <1>b DEF MarkCompleted, Busy, WorkPc, Editing
<1>8. CASE SaveDesign(s)
  <2>1. design' \in Design
    BY <1>8, <1>a DEF SaveDesign, Busy, Design
  <2> QED BY <1>8, <2>1, <1>b DEF SaveDesign, Busy, WorkPc, Editing
<1>9. CASE PutObject(s)
  <2>1. object' \in [{"iac", "docs"} -> Object]
    BY <1>9, <1>a DEF PutObject, Busy, Object
  <2> QED BY <1>9, <2>1, <1>b DEF PutObject, Busy, WorkPc, Editing
<1>10. CASE PointStep(s)
  <2>1. object' \in [{"iac", "docs"} -> Object]
    BY <1>10 DEF PointStep, Busy, Object
  <2>2. project' \in Project
    BY <1>10 DEF PointStep, Busy, Project
  <2> QED BY <1>10, <2>1, <2>2, <1>b DEF PointStep, Busy, WorkPc, Editing
<1>11. CASE PointFails(s)
  <2>1. object' \in [{"iac", "docs"} -> Object]
    <3>1. PICK left : /\ left \in {object[s].by, None}
                      /\ object' = [object EXCEPT ![s].by = left]
      BY <1>11 DEF PointFails
    <3>2. CASE s \in {"iac", "docs"}
      BY <3>1, <3>2 DEF Object
    <3>3. CASE s \notin {"iac", "docs"}
      BY <3>1, <3>3
    <3> QED BY <3>2, <3>3
  <2> QED BY <1>11, <2>1, <1>b DEF PointFails, Busy, WorkPc, Editing
<1>12. CASE ReadProject(s)
  <2>1. PICK pc \in {"clear", "markclear"} :
          worker' = [worker EXCEPT ![s].pc = pc, ![s].snap = project]
    BY <1>12 DEF ReadProject
  <2>2. /\ worker' \in [Stages -> Worker] /\ worker'[s].snap = project
        /\ \A u \in Stages \ {s} : worker'[u] = worker[u]
    BY <2>1, MoveCopyFacts DEF WorkPc
  <2> QED BY <1>12, <2>2, ProjectIsNotNone DEF ReadProject, Editing
<1>13. CASE ClearSlot(s)
  <2>1. project' \in Project
    BY <1>13, <1>a, ClearedIsProject DEF ClearSlot
  <2>2. /\ worker' \in [Stages -> Worker] /\ worker'[s].pc = "ack"
        /\ \A u \in Stages \ {s} : worker'[u] = worker[u]
    BY <1>13, MoveCopyFacts DEF ClearSlot, WorkPc
  <2> QED BY <1>13, <2>1, <2>2 DEF ClearSlot, Editing
<1>14. CASE Ack(s)
  <2>1. queue' \in [Stages -> Seq(Message)]
    BY <1>14, <1>d DEF Ack, Busy
  <2> QED BY <1>14, <2>1, FreeFacts DEF Ack, Editing
<1>15. CASE MarkFailed(s)
  BY <1>15, <1>b, <1>c DEF MarkFailed, Busy, WorkPc, TerminalStatus, Editing
<1>16. CASE ProcessFails(s)
  <2>1. /\ worker' \in [Stages -> Worker] /\ worker'[s].pc = "marking"
        /\ \A u \in Stages \ {s} : worker'[u] = worker[u]
    BY <1>16, MoveCopyFacts DEF ProcessFails, WorkPc
  <2> QED BY <1>16, <2>1 DEF ProcessFails, Editing
<1>17. CASE MarkSwallowed(s)
  <2>1. /\ worker' \in [Stages -> Worker] /\ worker'[s].pc = "ack"
        /\ \A u \in Stages \ {s} : worker'[u] = worker[u]
    BY <1>17, MoveCopyFacts DEF MarkSwallowed, WorkPc
  <2> QED BY <1>17, <2>1 DEF MarkSwallowed, Editing
<1>18. CASE Crash(s)
  <2>1. crashes' \in Nat
    BY <1>18 DEF Crash
  <2> QED BY <1>18, <2>1, FreeFacts DEF Crash, Busy, Editing
<1> QED BY <1>1, <1>2, <1>3, <1>4, <1>5, <1>6, <1>7, <1>8, <1>9, <1>10, <1>11, <1>12, <1>13, <1>14, <1>15, <1>16, <1>17, <1>18 DEF WorkerStep

(* A step of one edit keeps the types if it leaves the edit as HandlerInv    *)
(* asks, and writes a project and a design.                                 *)
LEMMA EditTyped ==
  ASSUME TypeOK, HandlerInv, NEW e \in Edits,
         edit' \in [Edits -> Edit], \A f \in Edits \ {e} : edit'[f] = edit[f],
         project' \in Project, design' \in Design,
         UNCHANGED <<object, task, queue, worker, api, crashes>>,
         edit'[e].pc = "chosen" => edit'[e].snap # None,
         e \in Refines /\ edit'[e].pc \in {"loaded", "chosen"} => edit'[e].seen # None,
         e \in Refines /\ edit'[e].pc = "chosen" => edit'[e].snap.approved # None
  PROVE  TypeOK' /\ HandlerInv'
<1>1. TypeOK'
  BY DEF TypeOK
<1>2. \A f \in Edits : Editing(f, "chosen")' => edit'[f].snap # None
  BY DEF HandlerInv, Editing
<1>3. \A f \in Refines :
        /\ edit'[f].pc \in {"loaded", "chosen"} => edit'[f].seen # None
        /\ Editing(f, "chosen")' => edit'[f].snap.approved # None
  <2> SUFFICES ASSUME NEW f \in Refines
               PROVE  /\ edit'[f].pc \in {"loaded", "chosen"} => edit'[f].seen # None
                      /\ edit'[f].pc = "chosen" => edit'[f].snap.approved # None
    BY DEF Editing
  <2>1. CASE f = e
    BY <2>1
  <2>2. CASE f # e
    <3>1. edit'[f] = edit[f]
      BY <2>2 DEF Edits
    <3> QED BY <3>1 DEF HandlerInv, Editing
  <2> QED BY <2>1, <2>2
<1> QED BY <1>1, <1>2, <1>3 DEF HandlerInv

(* So do select_design and refine_design, which write a copy back.          *)
LEMMA EditKeepsTypes ==
  ASSUME TypeOK, HandlerInv, NEW e \in Edits, EditStep(e)
  PROVE  TypeOK' /\ HandlerInv'
<1>a. Done(e) => /\ edit' \in [Edits -> Edit] /\ edit'[e].pc = "done"
                 /\ \A f \in Edits \ {e} : edit'[f] = edit[f]
  BY DoneFacts DEF TypeOK
<1>b. edit \in [Edits -> Edit] /\ project \in Project /\ design \in Design
  BY DEF TypeOK
<1>1. CASE LoadDesign(e)
  <2>1. UNCHANGED <<project, object, design, task, queue, worker, api, crashes>>
    BY <1>1 DEF LoadDesign
  <2>2. CASE Done(e)
    BY <1>a, <1>b, <2>1, <2>2, EditTyped
  <2>3. CASE edit' = [edit EXCEPT ![e].pc = "loaded",
                                  ![e].seen = IF e \in Refines THEN design ELSE None]
    <3>1. /\ edit' \in [Edits -> Edit] /\ edit'[e].pc = "loaded"
          /\ e \in Refines => edit'[e].seen = design
          /\ \A f \in Edits \ {e} : edit'[f] = edit[f]
      BY <1>b, <2>3 DEF Edit, EditPc
    <3> QED BY <1>b, <2>1, <3>1, DesignIsNotNone, EditTyped
  <2> QED BY <1>1, <2>2, <2>3 DEF LoadDesign
<1>2. CASE LoadProject(e)
  <2>1. UNCHANGED <<project, object, design, task, queue, worker, api, crashes>>
    BY <1>2 DEF LoadProject
  <2>2. CASE Done(e)
    BY <1>a, <1>b, <2>1, <2>2, EditTyped
  <2>3. CASE /\ edit' = [edit EXCEPT ![e].pc = "chosen", ![e].snap = project]
             /\ e \in Refines => project.approved # None
    <3>1. /\ edit' \in [Edits -> Edit] /\ edit'[e].pc = "chosen"
          /\ edit'[e].snap = project /\ edit'[e].seen = edit[e].seen
          /\ \A f \in Edits \ {e} : edit'[f] = edit[f]
      BY <1>b, <2>3 DEF Edit, EditPc
    <3>2. e \in Refines => edit[e].seen # None
      BY <1>2 DEF LoadProject, Editing, HandlerInv
    <3> QED BY <1>b, <2>1, <2>3, <3>1, <3>2, ProjectIsNotNone, EditTyped
  <2> QED BY <1>2, <2>2, <2>3 DEF LoadProject
<1>3. CASE SelectOption(e)
  <2>1. edit[e].snap \in Project
    BY <1>3, <1>b DEF SelectOption, Editing, Edit, HandlerInv
  <2>2. project' \in Project
    BY <1>3, <2>1 DEF SelectOption, Project
  <2> QED BY <1>3, <1>a, <1>b, <2>2, EditTyped DEF SelectOption
<1>4. CASE SaveRefined(e)
  <2>1. edit[e].snap \in Project /\ edit[e].seen \in Design
    BY <1>4, <1>b DEF SaveRefined, Editing, Edit, HandlerInv
  <2>2. design' \in Design /\ project' \in Project
    BY <1>4, <1>b, <2>1 DEF SaveRefined, Project, Design
  <2> QED BY <1>4, <1>a, <2>2, EditTyped DEF SaveRefined
<1>5. CASE AbortEdit(e)
  BY <1>5, <1>a, <1>b, EditTyped DEF AbortEdit
<1> QED BY <1>1, <1>2, <1>3, <1>4, <1>5 DEF EditStep

(* The items and the local states begin with their types.                   *)
LEMMA TypeInitially == Init => TypeInv
<1> SUFFICES ASSUME Init PROVE TypeOK /\ HandlerInv
  BY DEF TypeInv
<1>1. project \in Project /\ design \in Design
  <2>1. Fresh \in Project
    BY DEF Fresh, Project
  <2>2. PICK o \in Options :
          \/ project = Fresh /\ design = [by |-> None, resolved |-> None]
          \/ /\ project = [Fresh EXCEPT !.status = "iac", !.approved = o]
             /\ design = [by |-> Past, resolved |-> o]
    BY DEF Init
  <2>3. [Fresh EXCEPT !.status = "iac", !.approved = o] \in Project
    BY <2>1 DEF Project
  <2>4. /\ [by |-> None, resolved |-> None] \in Design
        /\ [by |-> Past, resolved |-> o] \in Design
    BY DEF Design
  <2> QED BY <2>1, <2>2, <2>3, <2>4
<1>2. object \in [{"iac", "docs"} -> Object] /\ task \in [Tasks -> Task]
  BY DEF Init, Object, Task
<1>3. /\ queue \in [Stages -> Seq(Message)] /\ worker \in [Stages -> Worker]
      /\ \A s \in Stages : worker[s].pc = "idle"
  BY DEF Init, Worker, WorkPc
<1>4. api \in [Tasks -> Request] /\ \A t \in Tasks : api[t].pc = "idle"
  BY DEF Init, Request, ApiPc
<1>5. /\ edit \in [Edits -> Edit] /\ \A e \in Edits : edit[e].pc = "idle"
      /\ crashes \in Nat
  BY DEF Init, Edit, EditPc
<1> QED BY <1>1, <1>2, <1>3, <1>4, <1>5 DEF TypeOK, HandlerInv, Editing, Edits

(* Every step keeps the types.                                              *)
LEMMA TypeSteps == TypeInv /\ [Next]_vars => TypeInv'
<1> SUFFICES ASSUME TypeOK, HandlerInv, [Next]_vars
             PROVE  TypeOK' /\ HandlerInv'
  BY DEF TypeInv
<1>1. CASE Next
  BY <1>1, SubmitKeepsTypes, WorkerKeepsTypes, EditKeepsTypes DEF Next
<1>2. CASE UNCHANGED vars
  BY <1>2 DEF vars, TypeOK, HandlerInv, Editing
<1> QED BY <1>1, <1>2

(* The items of the table, the queues and the copies the handlers write     *)
(* back keep their shape in every reachable state.                          *)
THEOREM TypeCorrect == Spec => []TypeOK
<1>1. Spec => []TypeInv
  BY TypeInitially, TypeSteps, PTL DEF Spec
<1> QED BY <1>1, PTL DEF TypeInv

-----------------------------------------------------------------------------
(* What the status and the stored steps claim, with any fault and any       *)
(* number of deaths. Handlers write whole copies of the project back, so    *)
(* the claims must hold of every copy somebody holds. They do because what  *)
(* a copy claims is never undone: a documentation pointer, a design and a   *)
(* result, once written, stay written (Grows).                              *)

(* What a project, or an old copy of it, claims is there now.               *)
Backed(p) ==
  /\ p.status = "complete" => object["docs"].ptr
  /\ p.status # "design" \/ p.approved # None => design.by # None

(* So is what every copy claims that a handler may write back.              *)
CopiesBacked ==
  /\ Backed(project)
  /\ \A t \in Tasks : api[t].snap # None => Backed(api[t].snap)
  /\ \A s \in Stages : worker[s].snap # None => Backed(worker[s].snap)
  /\ \A e \in Edits : edit[e].snap # None => Backed(edit[e].snap)

(* Whoever is past the loading of the design has seen one.                  *)
DesignLoaded ==
  /\ \A e \in Edits : edit[e].pc \in {"loaded", "chosen"} => design.by # None
  /\ \A e \in Edits : edit[e].seen # None => edit[e].seen.by # None
  /\ worker["docs"].pc \in {"validating", "agent", "finish", "save", "point"} => design.by # None

WorkerHasTask == \A s \in Stages : ~Busy(s, "idle") => worker[s].task \in Tasks

(* A step is saved after the result of its task, and every stored or loaded *)
(* step was.                                                                *)
ResultsFirst ==
  /\ \A s \in Stages : worker[s].pc \in {"save", "point"} => task[worker[s].task].result
  /\ StepHasResult
  /\ \A e \in Edits :
       edit[e].seen # None /\ edit[e].seen.by \in Tasks => task[edit[e].seen.by].result

StoreInv == TypeInv /\ WorkerHasTask /\ CopiesBacked /\ DesignLoaded /\ ResultsFirst

(* What a step never undoes.                                                *)
Grows ==
  /\ object["docs"].ptr => object'["docs"].ptr
  /\ design.by # None => design'.by # None
  /\ \A t \in Tasks : task[t].result => task'[t].result

-----------------------------------------------------------------------------
(* Setting a status leaves every result alone.                              *)
LEMMA StatusKeepsResults ==
  ASSUME task \in [Tasks -> Task], NEW t, NEW st, SetStatus(t, st)
  PROVE  \A u \in Tasks : task'[u].result = task[u].result
  BY DEF SetStatus, Task

(* A copy whose slot was cleared claims what the copy claimed.              *)
LEMMA ClearedClaims ==
  ASSUME NEW p \in Project, NEW s
  PROVE  Cleared(p, s).status = p.status /\ Cleared(p, s).approved = p.approved
  BY DEF Cleared, Project

(* A request touches neither design nor objects, keeps every result, and    *)
(* writes back nothing but the project or the copy it holds.                *)
LEMMA SubmitWrites ==
  ASSUME TypeOK, HandlerInv, NEW t \in Tasks,
         SubmitStep(t) \/ SendFails(t) \/ AbortSubmit(t)
  PROVE  /\ UNCHANGED <<design, object, worker, edit>>
         /\ \A u \in Tasks : task'[u].result = task[u].result
         /\ \E p \in {project} \cup ({api[t].snap} \ {None}) :
              project'.status = p.status /\ project'.approved = p.approved
         /\ \A u \in Tasks : api'[u].snap \in {None, api[u].snap, project}
<1> USE DEF TypeOK
<1>1. UNCHANGED <<design, object, worker, edit>>
  BY DEF SubmitStep, CheckResolved, ReadPointer, CheckPointed, HealPointer, CreateTask,
     ClaimTask, RejectTask, SendTask, SendFails, FailUnsent, ReadUnsent, ReleaseUnsent,
     AbortSubmit
<1>2. \A u \in Tasks : task'[u].result = task[u].result
  <2>1. task' = task \/ \E st \in {"queued", "failed"} : SetStatus(t, st)
    BY DEF SubmitStep, CheckResolved, ReadPointer, CheckPointed, HealPointer, CreateTask,
       ClaimTask, RejectTask, SendTask, SendFails, FailUnsent, ReadUnsent, ReleaseUnsent,
       AbortSubmit
  <2> QED BY <2>1, StatusKeepsResults
<1>3. \E p \in {project} \cup ({api[t].snap} \ {None}) :
        project'.status = p.status /\ project'.approved = p.approved
  <2>1. CASE project' = project
    BY <2>1
  <2>2. CASE ClaimTask(t)
    BY <2>2 DEF ClaimTask, Project
  <2>3. CASE HealPointer(t) \/ ReleaseUnsent(t)
    <3>1. api[t].snap # None /\ \E s : project' = Cleared(api[t].snap, s)
      BY <2>3 DEF HealPointer, ReleaseUnsent, At, HandlerInv
    <3>2. api[t].snap \in Project
      BY <3>1 DEF Request
    <3> QED BY <3>1, <3>2, ClearedClaims
  <2> QED BY <2>1, <2>2, <2>3 DEF SubmitStep, CheckResolved, ReadPointer, CheckPointed,
          CreateTask, RejectTask, SendTask, SendFails, FailUnsent, ReadUnsent, AbortSubmit
<1>4. \A u \in Tasks : api'[u].snap \in {None, api[u].snap, project}
  <2>1. \/ \E pc : api' = [api EXCEPT ![t] = [pc |-> pc, snap |-> None]]
        \/ \E pc : api' = [api EXCEPT ![t] = [pc |-> pc, snap |-> project]]
        \/ \E pc : api' = [api EXCEPT ![t].pc = pc]
    BY DEF SubmitStep, CheckResolved, ReadPointer, CheckPointed, HealPointer, CreateTask,
       ClaimTask, RejectTask, SendTask, SendFails, FailUnsent, ReadUnsent, ReleaseUnsent,
       AbortSubmit, Goto
  <2> QED BY <2>1 DEF Request
<1> QED BY <1>1, <1>2, <1>3, <1>4

(* If the store grows and every copy is an old one or the new project, then *)
(* the copies are backed as soon as the new project is.                     *)
LEMMA CopiesStayBacked ==
  ASSUME CopiesBacked, Grows,
         project'.status = "complete" => object'["docs"].ptr,
         project'.status # "design" \/ project'.approved # None => design'.by # None,
         \A t \in Tasks : api'[t].snap \in {None, api[t].snap, project},
         \A s \in Stages : worker'[s].snap \in {None, worker[s].snap, project},
         \A e \in Edits : edit'[e].snap \in {None, edit[e].snap, project}
  PROVE  CopiesBacked'
<1>1. Backed(project)'
  BY DEF Backed
<1>2. \A t \in Tasks : api'[t].snap # None => Backed(api[t].snap)'
  <2> SUFFICES ASSUME NEW t \in Tasks, api'[t].snap # None
               PROVE  Backed(api[t].snap)'
    OBVIOUS
  <2>1. PICK p : api'[t].snap = p /\ Backed(p)
    BY Zenon DEF CopiesBacked
  <2>2. /\ p.status = "complete" => object'["docs"].ptr
        /\ p.status # "design" \/ p.approved # None => design'.by # None
    BY <2>1, Zenon DEF Backed, Grows
  <2> QED BY <2>1, <2>2 DEF Backed
<1>3. \A s \in Stages : worker'[s].snap # None => Backed(worker[s].snap)'
  <2> SUFFICES ASSUME NEW s \in Stages, worker'[s].snap # None
               PROVE  Backed(worker[s].snap)'
    OBVIOUS
  <2>1. PICK p : worker'[s].snap = p /\ Backed(p)
    BY Zenon DEF CopiesBacked
  <2>2. /\ p.status = "complete" => object'["docs"].ptr
        /\ p.status # "design" \/ p.approved # None => design'.by # None
    BY <2>1, Zenon DEF Backed, Grows
  <2> QED BY <2>1, <2>2 DEF Backed
<1>4. \A e \in Edits : edit'[e].snap # None => Backed(edit[e].snap)'
  <2> SUFFICES ASSUME NEW e \in Edits, edit'[e].snap # None
               PROVE  Backed(edit[e].snap)'
    OBVIOUS
  <2>1. PICK p : edit'[e].snap = p /\ Backed(p)
    BY Zenon DEF CopiesBacked
  <2>2. /\ p.status = "complete" => object'["docs"].ptr
        /\ p.status # "design" \/ p.approved # None => design'.by # None
    BY <2>1, Zenon DEF Backed, Grows
  <2> QED BY <2>1, <2>2 DEF Backed
<1> QED BY <1>1, <1>2, <1>3, <1>4 DEF CopiesBacked

(* If results stay and steps stay where they are, so do their results.      *)
LEMMA StepsKeepResults ==
  ASSUME ResultsFirst, Grows, UNCHANGED <<design, object, edit>>
  PROVE  /\ StepHasResult'
         /\ \A e \in Edits :
              edit'[e].seen # None /\ edit'[e].seen.by \in Tasks => task'[edit'[e].seen.by].result
  BY Zenon DEF ResultsFirst, StepHasResult, Grows

(* A request keeps the claims.                                              *)
LEMMA SubmitKeepsStore ==
  ASSUME StoreInv, NEW t \in Tasks, SubmitStep(t) \/ SendFails(t) \/ AbortSubmit(t)
  PROVE  WorkerHasTask' /\ CopiesBacked' /\ DesignLoaded' /\ ResultsFirst'
<1>1. /\ UNCHANGED <<design, object, worker, edit>>
      /\ \A u \in Tasks : task'[u].result = task[u].result
      /\ \A u \in Tasks : api'[u].snap \in {None, api[u].snap, project}
  BY SubmitWrites DEF StoreInv, TypeInv
<1>2. Grows
  BY <1>1, Zenon DEF Grows
<1>3. CopiesBacked'
  <2>1. PICK p \in {project} \cup ({api[t].snap} \ {None}) :
          project'.status = p.status /\ project'.approved = p.approved
    BY SubmitWrites DEF StoreInv, TypeInv
  <2>2. Backed(p)
    BY <2>1 DEF StoreInv, CopiesBacked
  <2>3. /\ p.status = "complete" => object'["docs"].ptr
        /\ p.status # "design" \/ p.approved # None => design'.by # None
    BY <1>2, <2>2, Zenon DEF Backed, Grows
  <2> QED BY <1>1, <1>2, <2>1, <2>3, CopiesStayBacked DEF StoreInv
<1>4. \A s \in Stages : worker'[s].pc \in {"save", "point"} => task'[worker'[s].task].result
  <2> SUFFICES ASSUME NEW s \in Stages, worker[s].pc \in {"save", "point"}
               PROVE  task'[worker[s].task].result
    BY <1>1
  <2>1. worker[s].task \in Tasks /\ task[worker[s].task].result
    BY DEF StoreInv, WorkerHasTask, ResultsFirst, Busy
  <2> QED BY <1>1, <2>1, Zenon
<1>5. ResultsFirst'
  BY <1>1, <1>2, <1>4, StepsKeepResults DEF StoreInv, ResultsFirst
<1>6. WorkerHasTask' /\ DesignLoaded'
  BY <1>1 DEF StoreInv, WorkerHasTask, DesignLoaded, Busy
<1> QED BY <1>3, <1>5, <1>6

-----------------------------------------------------------------------------
(* A step of a worker leaves requests, edits and other workers alone; its   *)
(* own worker has a task while it is busy, and as copy at most the project. *)
LEMMA WorkerMoves ==
  ASSUME TypeOK, HandlerInv, WorkerHasTask, NEW s \in Stages,
         WorkerStep(s) \/ PointFails(s) \/ ProcessFails(s) \/ MarkSwallowed(s) \/ Crash(s)
  PROVE  /\ UNCHANGED <<api, edit>>
         /\ \A u \in Stages \ {s} : worker'[u] = worker[u]
         /\ worker'[s].pc # "idle" => worker'[s].task \in Tasks
         /\ worker'[s].pc \notin {"idle", "start"} => worker'[s].task = worker[s].task
         /\ worker'[s].snap \in {None, worker[s].snap, project}
<1> USE DEF TypeOK
<1>1. UNCHANGED <<api, edit>>
  BY DEF WorkerStep, Receive, DeadLetter, MarkProcessing, LoadInputs, MarkValidating, RunAgent,
     MarkCompleted, SaveDesign, PutObject, PointStep, ReadProject, ClearSlot, Ack, MarkFailed,
     PointFails, ProcessFails, MarkSwallowed, Crash
<1> SUFFICES /\ \A u \in Stages \ {s} : worker'[u] = worker[u]
             /\ worker'[s].pc # "idle" => worker'[s].task \in Tasks
             /\ worker'[s].pc \notin {"idle", "start"} => worker'[s].task = worker[s].task
             /\ worker'[s].snap \in {None, worker[s].snap, project}
  BY <1>1
<1>2. CASE Receive(s)
  <2>1. queue[s] # <<>> /\ queue[s] \in Seq(Message)
    BY <1>2 DEF Receive
  <2>2. Head(queue[s]) \in Message
    BY <2>1, HeadTailProperties
  <2> QED BY <1>2, <2>2 DEF Receive, Message
<1>3. CASE DeadLetter(s)
  BY <1>3 DEF DeadLetter, WorkerHasTask, Busy
<1>4. CASE Ack(s) \/ Crash(s)
  BY <1>4 DEF Ack, Crash, Free
<1>5. CASE ReadProject(s)
  <2>1. \E pc : worker' = [worker EXCEPT ![s].pc = pc, ![s].snap = project]
    BY <1>5 DEF ReadProject
  <2>2. worker[s].task \in Tasks
    BY <1>5 DEF ReadProject, WorkerHasTask, Busy
  <2> QED BY <2>1, <2>2 DEF Worker
<1>6. CASE ClearSlot(s) \/ ProcessFails(s) \/ MarkSwallowed(s)
  <2>1. \E pc : worker' = [worker EXCEPT ![s].pc = pc, ![s].snap = None]
    BY <1>6 DEF ClearSlot, ProcessFails, MarkSwallowed
  <2>2. worker[s].task \in Tasks
    BY <1>6 DEF ClearSlot, ProcessFails, MarkSwallowed, WorkerHasTask, Busy
  <2> QED BY <2>1, <2>2 DEF Worker
<1>7. CASE \/ MarkProcessing(s) \/ LoadInputs(s) \/ MarkValidating(s) \/ RunAgent(s)
          \/ MarkCompleted(s) \/ SaveDesign(s) \/ PutObject(s) \/ PointStep(s)
          \/ PointFails(s) \/ MarkFailed(s)
  <2>1. \E pc : Move(s, pc)
    BY <1>7 DEF MarkProcessing, LoadInputs, MarkValidating, RunAgent, MarkCompleted, SaveDesign,
       PutObject, PointStep, PointFails, MarkFailed
  <2>2. worker[s].task \in Tasks
    BY <1>7 DEF MarkProcessing, LoadInputs, MarkValidating, RunAgent, MarkCompleted, SaveDesign,
       PutObject, PointStep, PointFails, MarkFailed, WorkerHasTask, Busy
  <2> QED BY <2>1, <2>2 DEF Move, Worker
<1> QED BY <1>2, <1>3, <1>4, <1>5, <1>6, <1>7 DEF WorkerStep

(* No step of a worker undoes a pointer, a design or a result.              *)
LEMMA WorkerGrows ==
  ASSUME TypeOK, WorkerHasTask, NEW s \in Stages,
         WorkerStep(s) \/ PointFails(s) \/ ProcessFails(s) \/ MarkSwallowed(s) \/ Crash(s)
  PROVE  Grows
<1> USE DEF TypeOK
<1>1. object["docs"].ptr => object'["docs"].ptr
  <2>1. CASE object' = object
    BY <2>1, Zenon
  <2>2. CASE \E x \in {"iac", "docs"} : \E t : object' = [object EXCEPT ![x].by = t]
    BY <2>2 DEF Object
  <2>3. CASE object' = [object EXCEPT ![s].ptr = TRUE]
    BY <2>3 DEF Object
  <2> QED BY <2>1, <2>2, <2>3 DEF WorkerStep, Receive, DeadLetter, MarkProcessing, LoadInputs,
          MarkValidating, RunAgent, MarkCompleted, SaveDesign, PutObject, PointStep, ReadProject,
          ClearSlot, Ack, MarkFailed, PointFails, ProcessFails, MarkSwallowed, Crash
<1>2. design.by # None => design'.by # None
  <2>1. CASE SaveDesign(s)
    BY <2>1, NoneIsNew DEF SaveDesign, WorkerHasTask, Busy
  <2>2. CASE design' = design
    BY <2>2
  <2> QED BY <2>1, <2>2 DEF WorkerStep, Receive, DeadLetter, MarkProcessing, LoadInputs,
          MarkValidating, RunAgent, MarkCompleted, PutObject, PointStep, ReadProject,
          ClearSlot, Ack, MarkFailed, PointFails, ProcessFails, MarkSwallowed, Crash
<1>3. \A t \in Tasks : task[t].result => task'[t].result
  <2>1. CASE MarkCompleted(s)
    <3> SUFFICES ASSUME NEW t \in Tasks, task[t].result PROVE task'[t].result
      OBVIOUS
    <3>1. CASE t = worker[s].task
      BY <2>1, <3>1 DEF MarkCompleted
    <3>2. CASE t # worker[s].task
      BY <2>1, <3>2 DEF MarkCompleted
    <3> QED BY <3>1, <3>2
  <2>2. CASE task' = task \/ \E st : SetStatus(worker[s].task, st)
    BY <2>2, StatusKeepsResults, Zenon
  <2> QED BY <2>1, <2>2 DEF WorkerStep, Receive, DeadLetter, MarkProcessing, LoadInputs,
          MarkValidating, RunAgent, SaveDesign, PutObject, PointStep, ReadProject,
          ClearSlot, Ack, MarkFailed, PointFails, ProcessFails, MarkSwallowed, Crash
<1> QED BY <1>1, <1>2, <1>3 DEF Grows

(* A worker writes back nothing but the project, the copy it holds, or the  *)
(* project completed together with its documentation pointer.               *)
LEMMA WorkerWrites ==
  ASSUME StoreInv, NEW s \in Stages,
         WorkerStep(s) \/ PointFails(s) \/ ProcessFails(s) \/ MarkSwallowed(s) \/ Crash(s)
  PROVE  /\ project'.status = "complete" => object'["docs"].ptr
         /\ project'.status # "design" \/ project'.approved # None => design'.by # None
<1>0. TypeOK /\ HandlerInv /\ WorkerHasTask /\ Grows
  BY WorkerGrows DEF StoreInv, TypeInv
<1>1. CASE project' = project
  BY <1>0, <1>1, Zenon DEF StoreInv, CopiesBacked, Backed, Grows
<1>2. CASE PointStep(s)
  <2>1. s = "docs" => /\ design.by # None
                      /\ object["docs"] \in Object /\ object \in [{"iac", "docs"} -> Object]
    BY <1>0, <1>2 DEF PointStep, Busy, StoreInv, DesignLoaded, TypeOK
  <2>2. CASE s = "docs"
    <3>1. object'["docs"].ptr = TRUE
      BY <1>2, <2>1, <2>2 DEF PointStep, Object
    <3>2. design'.by # None
      BY <1>2, <2>1, <2>2 DEF PointStep
    <3> QED BY <3>1, <3>2
  <2>3. CASE s # "docs"
    BY <1>1, <1>2, <2>3 DEF PointStep
  <2> QED BY <2>2, <2>3
<1>3. CASE ClearSlot(s)
  <2>1. worker[s].snap # None /\ worker[s].snap \in Project
    BY <1>0, <1>3 DEF ClearSlot, HandlerInv, TypeOK, Worker
  <2>2. /\ project'.status = worker[s].snap.status
        /\ project'.approved = worker[s].snap.approved
    BY <1>3, <2>1, ClearedClaims DEF ClearSlot
  <2>3. Backed(worker[s].snap)
    BY <2>1 DEF StoreInv, CopiesBacked
  <2> QED BY <1>0, <2>2, <2>3, Zenon DEF Backed, Grows
<1> QED BY <1>1, <1>2, <1>3 DEF WorkerStep, Receive, DeadLetter, MarkProcessing, LoadInputs,
        MarkValidating, RunAgent, MarkCompleted, SaveDesign, PutObject, ReadProject, Ack,
        MarkFailed, PointFails, ProcessFails, MarkSwallowed, Crash

(* Where a worker saves a step, its task has the result already.            *)
LEMMA WorkerKeepsResults ==
  ASSUME StoreInv, NEW s \in Stages,
         WorkerStep(s) \/ PointFails(s) \/ ProcessFails(s) \/ MarkSwallowed(s) \/ Crash(s)
  PROVE  ResultsFirst'
<1>a. TypeOK /\ HandlerInv /\ WorkerHasTask /\ Grows
  BY WorkerGrows DEF StoreInv, TypeInv
<1>b. /\ UNCHANGED edit
      /\ \A u \in Stages \ {s} : worker'[u] = worker[u]
      /\ worker'[s].pc # "idle" => worker'[s].task \in Tasks
      /\ worker'[s].pc \notin {"idle", "start"} => worker'[s].task = worker[s].task
  BY <1>a, WorkerMoves
<1>c. worker[s].pc \in {"save", "point"} =>
        worker[s].task \in Tasks /\ task'[worker[s].task].result
  <2> SUFFICES ASSUME worker[s].pc \in {"save", "point"}
               PROVE  worker[s].task \in Tasks /\ task'[worker[s].task].result
    OBVIOUS
  <2>1. worker[s].task \in Tasks /\ task[worker[s].task].result
    BY DEF StoreInv, WorkerHasTask, ResultsFirst, Busy
  <2> QED BY <1>a, <2>1, Zenon DEF Grows
<1>1. \A u \in Stages : worker'[u].pc \in {"save", "point"} => task'[worker'[u].task].result
  <2> SUFFICES ASSUME NEW u \in Stages, worker'[u].pc \in {"save", "point"}
               PROVE  task'[worker'[u].task].result
    OBVIOUS
  <2>1. CASE u # s
    <3>1. worker[u].task \in Tasks /\ task[worker[u].task].result /\ worker'[u] = worker[u]
      BY <1>b, <2>1 DEF StoreInv, WorkerHasTask, ResultsFirst, Busy
    <3> QED BY <1>a, <3>1, Zenon DEF Grows
  <2>2. CASE u = s /\ MarkCompleted(s)
    <3>1. worker[s].task \in Tasks /\ worker'[s].task = worker[s].task
      BY <1>a, <1>b, <2>2 DEF MarkCompleted, WorkerHasTask, Busy
    <3>2. task'[worker[s].task].result = TRUE
      BY <1>a, <2>2, <3>1 DEF MarkCompleted, TypeOK
    <3> QED BY <2>2, <3>1, <3>2
  <2>3. CASE u = s /\ worker[s].pc \in {"save", "point"}
    BY <1>b, <1>c, <2>3
  <2> QED BY <1>a, <2>1, <2>2, <2>3 DEF WorkerStep, Receive, DeadLetter, MarkProcessing,
          LoadInputs, MarkValidating, RunAgent, SaveDesign, PutObject, PointStep, ReadProject,
          ClearSlot, Ack, MarkFailed, PointFails, ProcessFails, MarkSwallowed, Crash, Busy, Move,
          Free, TypeOK, Worker
<1>2. design'.by \in Tasks => task'[design'.by].result
  <2>1. CASE design' = design
    BY <1>a, <2>1, Zenon DEF StoreInv, ResultsFirst, StepHasResult, Grows
  <2>2. CASE SaveDesign(s)
    BY <1>c, <2>2 DEF SaveDesign, Busy
  <2> QED BY <2>1, <2>2 DEF WorkerStep, Receive, DeadLetter, MarkProcessing, LoadInputs,
          MarkValidating, RunAgent, MarkCompleted, PutObject, PointStep, ReadProject,
          ClearSlot, Ack, MarkFailed, PointFails, ProcessFails, MarkSwallowed, Crash
<1>3. \A x \in {"iac", "docs"} : object'[x].by \in Tasks => task'[object'[x].by].result
  <2> SUFFICES ASSUME NEW x \in {"iac", "docs"}, object'[x].by \in Tasks
               PROVE  task'[object'[x].by].result
    OBVIOUS
  <2>1. CASE object'[x].by = object[x].by
    BY <1>a, <2>1, Zenon DEF StoreInv, ResultsFirst, StepHasResult, Grows
  <2>2. CASE PutObject(s) /\ x = s
    <3>1. object'[x].by = worker[s].task /\ worker[s].pc = "save"
      BY <1>a, <2>2 DEF PutObject, Busy, TypeOK, Object
    <3> QED BY <1>c, <3>1
  <2>3. CASE PointFails(s) /\ x = s
    <3>1. object'[x].by \in {object[x].by, None}
      BY <1>a, <2>3 DEF PointFails, TypeOK, Object
    <3> QED BY <2>1, <3>1, NoneIsNew
  <2> QED BY <1>a, <2>1, <2>2, <2>3 DEF WorkerStep, Receive, DeadLetter, MarkProcessing,
          LoadInputs, MarkValidating, RunAgent, MarkCompleted, SaveDesign, PutObject, PointStep,
          ReadProject, ClearSlot, Ack, MarkFailed, PointFails, ProcessFails, MarkSwallowed,
          Crash, TypeOK, Object
<1>4. \A e \in Edits :
        edit'[e].seen # None /\ edit'[e].seen.by \in Tasks => task'[edit'[e].seen.by].result
  BY <1>a, <1>b, Zenon DEF StoreInv, ResultsFirst, Grows
<1> QED BY <1>1, <1>2, <1>3, <1>4 DEF ResultsFirst, StepHasResult

(* A worker keeps the claims.                                               *)
LEMMA WorkerKeepsStore ==
  ASSUME StoreInv, NEW s \in Stages,
         WorkerStep(s) \/ PointFails(s) \/ ProcessFails(s) \/ MarkSwallowed(s) \/ Crash(s)
  PROVE  WorkerHasTask' /\ CopiesBacked' /\ DesignLoaded' /\ ResultsFirst'
<1>1. TypeOK /\ HandlerInv /\ WorkerHasTask /\ Grows
  BY WorkerGrows DEF StoreInv, TypeInv
<1>2. /\ UNCHANGED <<api, edit>>
      /\ \A u \in Stages \ {s} : worker'[u] = worker[u]
      /\ worker'[s].pc # "idle" => worker'[s].task \in Tasks
      /\ worker'[s].snap \in {None, worker[s].snap, project}
  BY <1>1, WorkerMoves
<1>3. WorkerHasTask'
  BY <1>1, <1>2 DEF WorkerHasTask, Busy
<1>4. CopiesBacked'
  BY <1>1, <1>2, WorkerWrites, CopiesStayBacked DEF StoreInv
<1>5. DesignLoaded'
  <2>1. worker'["docs"].pc \in {"validating", "agent", "finish", "save", "point"} =>
          design.by # None
    <3>1. CASE s # "docs"
      BY <1>2, <3>1 DEF StoreInv, DesignLoaded, Stages
    <3>2. CASE s = "docs"
      <4>1. CASE LoadInputs(s)
        BY <1>1, <3>2, <4>1 DEF LoadInputs, Move, TypeOK, Worker
      <4>2. CASE worker' = worker
        BY <3>2, <4>2 DEF StoreInv, DesignLoaded
      <4>3. CASE MarkValidating(s) \/ RunAgent(s) \/ MarkCompleted(s) \/ PutObject(s)
        BY <3>2, <4>3 DEF MarkValidating, RunAgent, MarkCompleted, PutObject, Busy, StoreInv,
           DesignLoaded
      <4> QED BY <1>1, <3>2, <4>1, <4>2, <4>3 DEF WorkerStep, Receive, DeadLetter,
              MarkProcessing, SaveDesign, PointStep, ReadProject, ClearSlot, Ack,
              MarkFailed, PointFails, ProcessFails, MarkSwallowed, Crash, Busy, Move, Free,
              TypeOK, Worker
    <3> QED BY <3>1, <3>2
  <2> QED BY <1>1, <1>2, <2>1, Zenon DEF StoreInv, DesignLoaded, Grows
<1> QED BY <1>3, <1>4, <1>5, WorkerKeepsResults

-----------------------------------------------------------------------------
(* An edit leaves objects, tasks, requests and workers alone. What it keeps *)
(* of the design it kept before, or is the design it has just found there.  *)
LEMMA EditMoves ==
  ASSUME TypeOK, NEW e \in Edits, EditStep(e)
  PROVE  /\ UNCHANGED <<object, task, api, worker>>
         /\ \A f \in Edits \ {e} : edit'[f] = edit[f]
         /\ edit'[e].snap \in {None, edit[e].snap, project}
         /\ \/ edit'[e].seen \in {None, edit[e].seen}
            \/ edit'[e].seen = design /\ design.by # None
         /\ edit'[e].pc \in {"loaded", "chosen"} =>
              edit[e].pc \in {"loaded", "chosen"} \/ design.by # None
<1> USE DEF TypeOK
<1>1. UNCHANGED <<object, task, api, worker>>
  BY DEF EditStep, LoadDesign, LoadProject, SelectOption, SaveRefined, AbortEdit
<1>2. CASE Done(e)
  BY <1>1, <1>2 DEF Done
<1>3. CASE LoadDesign(e) /\ ~Done(e)
  BY <1>1, <1>3 DEF LoadDesign, Edit
<1>4. CASE LoadProject(e) /\ ~Done(e)
  BY <1>1, <1>4 DEF LoadProject, Editing, Edit
<1> QED BY <1>2, <1>3, <1>4 DEF EditStep, SelectOption, SaveRefined, AbortEdit

(* No edit undoes a design: a refinement writes back one that was there.    *)
LEMMA EditGrows ==
  ASSUME StoreInv, NEW e \in Edits, EditStep(e)
  PROVE  /\ Grows
         /\ \/ design' = design
            \/ design'.by = edit[e].seen.by /\ edit[e].seen # None
<1>0. TypeOK /\ HandlerInv /\ UNCHANGED <<object, task, api, worker>>
  BY EditMoves DEF StoreInv, TypeInv
<1>1. CASE SaveRefined(e)
  <2>1. edit[e].seen # None /\ edit[e].seen \in Design /\ edit[e].seen.by # None
    BY <1>0, <1>1 DEF SaveRefined, Editing, HandlerInv, TypeOK, Edit, StoreInv, DesignLoaded
  <2>2. design'.by = edit[e].seen.by
    BY <1>1, <2>1 DEF SaveRefined, Design
  <2> QED BY <1>0, <2>1, <2>2, Zenon DEF Grows
<1>2. CASE design' = design
  BY <1>0, <1>2, Zenon DEF Grows
<1> QED BY <1>1, <1>2 DEF EditStep, LoadDesign, LoadProject, SelectOption, AbortEdit

(* An edit that selects or refines has seen a design.                       *)
LEMMA EditWrites ==
  ASSUME StoreInv, NEW e \in Edits, EditStep(e)
  PROVE  /\ project'.status = "complete" => object'["docs"].ptr
         /\ project'.status # "design" \/ project'.approved # None => design'.by # None
<1>0. /\ TypeOK /\ HandlerInv /\ UNCHANGED <<object, task, api, worker>> /\ Grows
  BY EditMoves, EditGrows DEF StoreInv, TypeInv
<1>1. CASE SelectOption(e)
  <2>1. edit[e].snap # None /\ edit[e].snap \in Project /\ design.by # None
    BY <1>0, <1>1 DEF SelectOption, Editing, HandlerInv, TypeOK, Edit, StoreInv, DesignLoaded
  <2>2. project'.status = edit[e].snap.status /\ design' = design
    BY <1>1, <2>1 DEF SelectOption, Project
  <2>3. Backed(edit[e].snap)
    BY <2>1 DEF StoreInv, CopiesBacked
  <2> QED BY <1>0, <2>1, <2>2, <2>3, Zenon DEF Backed, Grows
<1>2. CASE SaveRefined(e)
  <2>1. design.by # None /\ project'.status = "iac"
    BY <1>0, <1>2 DEF SaveRefined, Editing, StoreInv, DesignLoaded, TypeOK, Project
  <2> QED BY <1>0, <2>1 DEF Grows
<1>3. CASE project' = project
  BY <1>0, <1>3, Zenon DEF StoreInv, CopiesBacked, Backed, Grows
<1> QED BY <1>1, <1>2, <1>3 DEF EditStep, LoadDesign, LoadProject, AbortEdit

(* Selecting and refining keep the claims.                                  *)
LEMMA EditKeepsStore ==
  ASSUME StoreInv, NEW e \in Edits, EditStep(e)
  PROVE  WorkerHasTask' /\ CopiesBacked' /\ DesignLoaded' /\ ResultsFirst'
<1>1. /\ UNCHANGED <<object, task, api, worker>>
      /\ \A f \in Edits \ {e} : edit'[f] = edit[f]
      /\ edit'[e].snap \in {None, edit[e].snap, project}
      /\ \/ edit'[e].seen \in {None, edit[e].seen}
         \/ edit'[e].seen = design /\ design.by # None
      /\ edit'[e].pc \in {"loaded", "chosen"} =>
           edit[e].pc \in {"loaded", "chosen"} \/ design.by # None
  BY EditMoves DEF StoreInv, TypeInv
<1>2. Grows /\ (design' = design \/ (design'.by = edit[e].seen.by /\ edit[e].seen # None))
  BY EditGrows
<1>3. WorkerHasTask'
  BY <1>1 DEF StoreInv, WorkerHasTask, Busy
<1>4. CopiesBacked'
  BY <1>1, <1>2, EditWrites, CopiesStayBacked DEF StoreInv
<1>5. DesignLoaded'
  BY <1>1, <1>2 DEF StoreInv, DesignLoaded, Grows
<1>6. ResultsFirst'
  <2>1. design'.by \in Tasks => task[design'.by].result
    BY <1>2, Zenon DEF StoreInv, ResultsFirst, StepHasResult
  <2>2. \A f \in Edits :
          edit'[f].seen # None /\ edit'[f].seen.by \in Tasks => task[edit'[f].seen.by].result
    <3> SUFFICES ASSUME NEW f \in Edits, edit'[f].seen # None, edit'[f].seen.by \in Tasks
                 PROVE  task[edit'[f].seen.by].result
      OBVIOUS
    <3>1. edit'[f].seen = edit[f].seen \/ edit'[f].seen = design
      BY <1>1
    <3> QED BY <3>1, Zenon DEF StoreInv, ResultsFirst, StepHasResult
  <2> QED BY <1>1, <2>1, <2>2, Zenon DEF StoreInv, ResultsFirst, StepHasResult
<1> QED BY <1>3, <1>4, <1>5, <1>6

-----------------------------------------------------------------------------
(* A project begins without copies, and what it claims is there.            *)
LEMMA StoreInitially == Init => StoreInv
<1> SUFFICES ASSUME Init PROVE StoreInv
  OBVIOUS
<1>1. Backed(project) /\ design.by \notin Tasks
  <2>1. Fresh.status = "design" /\ Fresh.approved = None
    BY DEF Fresh
  <2>2. CASE project = Fresh /\ design = [by |-> None, resolved |-> None]
    BY <2>1, <2>2, NoneIsNew DEF Backed
  <2>3. CASE \E o \in Options : /\ project = [Fresh EXCEPT !.status = "iac", !.approved = o]
                                /\ design = [by |-> Past, resolved |-> o]
    <3>1. project.status = "iac" /\ design.by = Past
      BY <2>3 DEF Fresh
    <3> QED BY <3>1, NoneIsNew DEF Backed
  <2> QED BY <2>2, <2>3 DEF Init
<1>2. /\ \A s \in Stages : worker[s].pc = "idle" /\ worker[s].snap = None
      /\ \A t \in Tasks : api[t].snap = None
      /\ \A e \in Edits : edit[e].pc = "idle" /\ edit[e].snap = None /\ edit[e].seen = None
      /\ \A s \in {"iac", "docs"} : object[s].by = None
  BY DEF Init
<1> QED BY <1>1, <1>2, TypeInitially, NoneIsNew DEF StoreInv, WorkerHasTask, CopiesBacked,
        DesignLoaded, ResultsFirst, StepHasResult, Stages, Busy

(* Every step keeps the claims.                                             *)
LEMMA StoreSteps == StoreInv /\ [Next]_vars => StoreInv'
<1> SUFFICES ASSUME StoreInv, [Next]_vars PROVE StoreInv'
  OBVIOUS
<1>1. TypeInv'
  BY TypeSteps DEF StoreInv
<1>2. CASE Next
  BY <1>1, <1>2, SubmitKeepsStore, WorkerKeepsStore, EditKeepsStore DEF Next, StoreInv
<1>3. CASE UNCHANGED vars
  BY <1>1, <1>3, Zenon DEF vars, StoreInv, WorkerHasTask, CopiesBacked, Backed, DesignLoaded,
     ResultsFirst, StepHasResult, Busy
<1> QED BY <1>2, <1>3

(* COMPLETE only with a documentation pointer, a selected option or the IaC *)
(* stage only with a design, whatever old copies the handlers write back.   *)
THEOREM StatusStaysBacked == Spec => []StatusBacked
<1>1. StoreInv => StatusBacked
  BY Zenon DEF StoreInv, CopiesBacked, Backed, StatusBacked
<1> QED BY <1>1, StoreInitially, StoreSteps, PTL DEF Spec

(* Every stored step comes from a task whose result is on its task item.    *)
THEOREM StepsHaveResults == Spec => []StepHasResult
<1>1. StoreInv => StepHasResult
  BY DEF StoreInv, ResultsFirst
<1> QED BY <1>1, StoreInitially, StoreSteps, PTL DEF Spec

-----------------------------------------------------------------------------
(* Redelivery. As long as a returning handler has recorded what became of   *)
(* the task whose message it deletes, only MaxReceive deaths lose one,      *)
(* whatever else fails (NoneOrphanedIfRecorded). Without faults every       *)
(* handler records it (FailuresRecorded).                                   *)

(* The places of a request whose message may be in the queue: a send that   *)
(* raised may have delivered it.                                            *)
Sent == {"sendfailed", "unsent", "releasing", "accepted", "refused"}

(* Messages are in the queue of their stage, sent by their request; only    *)
(* the head has been received, and each receive that did not end yet, or    *)
(* ended without deleting the message, is the worker's or cost a death.     *)
MessagesInOrder ==
  \A s \in Stages : \A i \in 1 .. Len(queue[s]) :
    /\ StageOf(queue[s][i].task) = s
    /\ api[queue[s][i].task].pc \in Sent
    /\ i > 1 => queue[s][i].receives = 0
    /\ queue[s][i].receives <= crashes + (IF Busy(s, "idle") THEN 0 ELSE 1)

(* A busy worker works on the head of its queue.                            *)
HeadHeld ==
  \A s \in Stages : ~Busy(s, "idle") => worker[s].task = queue[s][1].task

RedeliveryInv == TypeInv /\ MessagesInOrder /\ HeadHeld /\ NoOrphanTask

(* The action of FailureRecordedOrRetried.                                  *)
Recorded ==
  \A s \in Stages :
    Busy(s, "ack") /\ Len(queue'[s]) < Len(queue[s])
      => task[worker[s].task].status \in TerminalStatus

-----------------------------------------------------------------------------
(* Queues are sequences of messages, and a busy worker's is not empty.      *)
LEMMA QueueElements ==
  ASSUME TypeInv, NEW s \in Stages
  PROVE  /\ queue[s] \in Seq(Message) /\ Len(queue[s]) \in Nat
         /\ queue[s] # <<>> => 1 \in 1 .. Len(queue[s])
         /\ ~Busy(s, "idle") => queue[s] # <<>>
         /\ \A i \in 1 .. Len(queue[s]) :
              queue[s][i].task \in Tasks /\ queue[s][i].receives \in Nat
<1>1. queue[s] \in Seq(Message) /\ (~Busy(s, "idle") => queue[s] # <<>>)
  BY DEF TypeInv, TypeOK, HandlerInv, Busy
<1>2. Len(queue[s]) \in Nat /\ (queue[s] # <<>> => Len(queue[s]) \in Nat \ {0})
  BY <1>1, LenProperties, EmptySeq
<1>3. \A i \in 1 .. Len(queue[s]) : queue[s][i] \in Message
  BY <1>1, ElementOfSeq
<1> QED BY <1>1, <1>2, <1>3 DEF Message

(* Sending puts the task's message, never received, behind the others.      *)
LEMMA EnqueuedElements ==
  ASSUME TypeInv, NEW t \in Tasks
  PROVE  LET s == StageOf(t) IN
         /\ Len(Enqueued(t)[s]) = Len(queue[s]) + 1
         /\ \A i \in 1 .. Len(queue[s]) : Enqueued(t)[s][i] = queue[s][i]
         /\ Enqueued(t)[s][Len(queue[s]) + 1] = [task |-> t, receives |-> 0]
         /\ \A u \in Stages \ {s} : Enqueued(t)[u] = queue[u]
<1> DEFINE s == StageOf(t)
           m == [task |-> t, receives |-> 0]
<1>1. s \in Stages /\ m \in Message
  BY StageOfTask DEF Message
<1>2. queue \in [Stages -> Seq(Message)] /\ queue[s] \in Seq(Message)
  BY <1>1 DEF TypeInv, TypeOK
<1>3. /\ Len(Append(queue[s], m)) = Len(queue[s]) + 1
      /\ \A i \in 1 .. Len(queue[s]) : Append(queue[s], m)[i] = queue[s][i]
      /\ Append(queue[s], m)[Len(queue[s]) + 1] = m
  BY <1>1, <1>2, AppendProperties
<1>4. Enqueued(t)[s] = Append(queue[s], m) /\ \A u \in Stages \ {s} : Enqueued(t)[u] = queue[u]
  BY <1>1, <1>2 DEF Enqueued
<1> HIDE DEF s, m
<1>5. /\ Len(Enqueued(t)[s]) = Len(queue[s]) + 1
      /\ \A i \in 1 .. Len(queue[s]) : Enqueued(t)[s][i] = queue[s][i]
      /\ Enqueued(t)[s][Len(queue[s]) + 1] = m
  BY <1>3, <1>4
<1> QED BY <1>4, <1>5 DEF s, m

(* What remains of a queue whose head is removed.                           *)
LEMMA TailElements ==
  ASSUME TypeInv, NEW s \in Stages, queue[s] # <<>>,
         queue' = [queue EXCEPT ![s] = Tail(@)]
  PROVE  /\ Len(queue'[s]) = Len(queue[s]) - 1
         /\ \A i \in 1 .. Len(queue'[s]) : queue'[s][i] = queue[s][i + 1]
         /\ \A u \in Stages \ {s} : queue'[u] = queue[u]
<1>1. queue[s] \in Seq(Message) /\ queue'[s] = Tail(queue[s])
  BY DEF TypeInv, TypeOK
<1>2. /\ Len(Tail(queue[s])) = Len(queue[s]) - 1
      /\ \A i \in 1 .. Len(Tail(queue[s])) : Tail(queue[s])[i] = queue[s][i + 1]
  BY <1>1, HeadTailProperties
<1>3. \A u \in Stages \ {s} : queue'[u] = queue[u]
  BY DEF TypeInv, TypeOK
<1> QED BY <1>1, <1>2, <1>3

-----------------------------------------------------------------------------
(* A request changes its own place and task only, before it is accepted;    *)
(* a message is added when it sends, and what was sent stays sent.          *)
LEMMA SubmitEffects ==
  ASSUME TypeOK, NEW t \in Tasks, SubmitStep(t) \/ SendFails(t) \/ AbortSubmit(t)
  PROVE  /\ UNCHANGED <<worker, crashes>>
         /\ \A u \in Tasks \ {t} : api'[u] = api[u] /\ task'[u] = task[u]
         /\ ~At(t, "accepted")
         /\ api[t].pc \in Sent => api'[t].pc \in Sent
         /\ \/ queue' = queue /\ api'[t].pc # "accepted"
            \/ queue' = Enqueued(t) /\ api'[t].pc \in Sent
         /\ task' = task \/ SetStatus(t, "failed") \/ api[t].pc \notin Sent
<1> USE DEF TypeOK
<1>0. task' = task \/ SetStatus(t, "failed") \/ api[t].pc \notin Sent
  BY DEF SubmitStep, CheckResolved, ReadPointer, CheckPointed, HealPointer, CreateTask,
     ClaimTask, RejectTask, SendTask, SendFails, FailUnsent, ReadUnsent, ReleaseUnsent,
     AbortSubmit, At, Sent
<1>1. UNCHANGED <<worker, crashes>>
  BY DEF SubmitStep, CheckResolved, ReadPointer, CheckPointed, HealPointer, CreateTask,
     ClaimTask, RejectTask, SendTask, SendFails, FailUnsent, ReadUnsent, ReleaseUnsent,
     AbortSubmit
<1>2. \A u \in Tasks \ {t} : task'[u] = task[u]
  BY DEF SubmitStep, CheckResolved, ReadPointer, CheckPointed, HealPointer, CreateTask,
     ClaimTask, RejectTask, SendTask, SendFails, FailUnsent, ReadUnsent, ReleaseUnsent,
     AbortSubmit, SetStatus
<1>3. \A u \in Tasks \ {t} : api'[u] = api[u]
  BY DEF SubmitStep, CheckResolved, ReadPointer, CheckPointed, HealPointer, CreateTask,
     ClaimTask, RejectTask, SendTask, SendFails, FailUnsent, ReadUnsent, ReleaseUnsent,
     AbortSubmit, Goto
<1>4. ~At(t, "accepted")
  BY DEF SubmitStep, CheckResolved, ReadPointer, CheckPointed, HealPointer, CreateTask,
     ClaimTask, RejectTask, SendTask, SendFails, FailUnsent, ReadUnsent, ReleaseUnsent,
     AbortSubmit, At
<1>5. CASE SendTask(t) \/ SendFails(t)
  <2>1. api[t].pc = "claimed" /\ api'[t].pc \in {"accepted", "sendfailed"}
    BY <1>5 DEF SendTask, SendFails, At, Goto
  <2>2. queue' = Enqueued(t) \/ (queue' = queue /\ api'[t].pc # "accepted")
    BY <1>5 DEF SendTask, SendFails, Goto
  <2> QED BY <1>0, <1>1, <1>2, <1>3, <1>4, <2>1, <2>2 DEF Sent
<1>6. CASE FailUnsent(t) \/ ReadUnsent(t) \/ ReleaseUnsent(t) \/ AbortSubmit(t)
  <2>1. queue' = queue /\ api'[t].pc \in {"unsent", "releasing", "refused"}
    BY <1>6 DEF FailUnsent, ReadUnsent, ReleaseUnsent, AbortSubmit, Goto
  <2> QED BY <1>0, <1>1, <1>2, <1>3, <1>4, <2>1 DEF Sent
<1>7. CASE \/ CheckResolved(t) \/ ReadPointer(t) \/ CheckPointed(t) \/ HealPointer(t)
          \/ CreateTask(t) \/ ClaimTask(t) \/ RejectTask(t)
  <2>1. queue' = queue /\ api[t].pc \notin Sent
    BY <1>7 DEF CheckResolved, ReadPointer, CheckPointed, HealPointer, CreateTask, ClaimTask,
       RejectTask, At, Sent
  <2>2. api'[t].pc # "accepted"
    <3>1. \E pc \in ApiPc \ {"accepted"} : \/ Goto(t, pc)
                                           \/ api' = [api EXCEPT ![t] = [pc |-> pc, snap |-> project]]
                                           \/ api' = [api EXCEPT ![t].pc = pc]
      BY <1>7 DEF CheckResolved, ReadPointer, CheckPointed, HealPointer, CreateTask, ClaimTask,
         RejectTask, ApiPc
    <3> QED BY <3>1 DEF Goto, Request
  <2> QED BY <1>0, <1>1, <1>2, <1>3, <1>4, <2>1, <2>2
<1> QED BY <1>5, <1>6, <1>7 DEF SubmitStep

(* A request keeps the messages in order and orphans nothing.               *)
LEMMA SubmitKeepsRedelivery ==
  ASSUME RedeliveryInv, NEW t \in Tasks, SubmitStep(t) \/ SendFails(t) \/ AbortSubmit(t)
  PROVE  MessagesInOrder' /\ HeadHeld' /\ NoOrphanTask'
<1>1. /\ UNCHANGED <<worker, crashes>>
      /\ \A u \in Tasks \ {t} : api'[u] = api[u] /\ task'[u] = task[u]
      /\ ~At(t, "accepted")
      /\ api[t].pc \in Sent => api'[t].pc \in Sent
      /\ \/ queue' = queue /\ api'[t].pc # "accepted"
         \/ queue' = Enqueued(t) /\ api'[t].pc \in Sent
  BY SubmitEffects DEF RedeliveryInv, TypeInv
<1>a. /\ TypeInv /\ StageOf(t) \in Stages
      /\ crashes \in Nat
      /\ \A s \in Stages, i \in Nat : i \in 1 .. Len(queue[s]) => queue[s][i].task \in Tasks
  BY QueueElements, StageOfTask DEF RedeliveryInv, TypeInv, TypeOK
<1>2. CASE queue' = queue /\ api'[t].pc # "accepted"
  <2>1. MessagesInOrder'
    BY <1>1, <1>2, <1>a DEF RedeliveryInv, MessagesInOrder, Busy
  <2>2. HeadHeld'
    BY <1>1, <1>2 DEF RedeliveryInv, HeadHeld, Busy
  <2>3. NoOrphanTask'
    BY <1>1, <1>2 DEF RedeliveryInv, NoOrphanTask, Queued, At
  <2> QED BY <2>1, <2>2, <2>3
<1>3. CASE queue' = Enqueued(t) /\ api'[t].pc \in Sent
  <2> DEFINE o == StageOf(t)
  <2>1. /\ Len(queue[o]) \in Nat
        /\ Len(queue'[o]) = Len(queue[o]) + 1
        /\ \A i \in 1 .. Len(queue[o]) : queue'[o][i] = queue[o][i]
        /\ queue'[o][Len(queue[o]) + 1] = [task |-> t, receives |-> 0]
        /\ \A u \in Stages \ {o} : queue'[u] = queue[u]
    BY <1>3, <1>a, EnqueuedElements, QueueElements
  <2>2. MessagesInOrder'
    <3> SUFFICES ASSUME NEW s \in Stages, NEW i \in 1 .. Len(queue'[s])
                 PROVE  /\ StageOf(queue'[s][i].task) = s
                        /\ api'[queue'[s][i].task].pc \in Sent
                        /\ i > 1 => queue'[s][i].receives = 0
                        /\ queue'[s][i].receives <= crashes + (IF worker[s].pc = "idle" THEN 0 ELSE 1)
      BY <1>1 DEF MessagesInOrder, Busy
    <3>1. CASE i \in 1 .. Len(queue[s]) /\ queue'[s][i] = queue[s][i]
      BY <1>1, <1>a, <3>1 DEF RedeliveryInv, MessagesInOrder, Busy
    <3>2. CASE s = o /\ queue'[s][i] = [task |-> t, receives |-> 0]
      BY <1>3, <1>a, <3>2
    <3> QED BY <2>1, <3>1, <3>2
  <2>3. HeadHeld'
    <3> SUFFICES ASSUME NEW s \in Stages, worker[s].pc # "idle"
                 PROVE  worker[s].task = queue'[s][1].task
      BY <1>1 DEF HeadHeld, Busy
    <3>1. 1 \in 1 .. Len(queue[s]) /\ worker[s].task = queue[s][1].task
      BY <1>a, QueueElements DEF RedeliveryInv, HeadHeld, Busy
    <3> QED BY <2>1, <3>1
  <2>4. NoOrphanTask'
    <3> SUFFICES ASSUME NEW u \in Tasks, api'[u].pc = "accepted"
                 PROVE  \/ task'[u].status \in TerminalStatus \/ crashes >= MaxReceive
                        \/ \E i \in 1 .. Len(queue'[StageOf(u)]) : queue'[StageOf(u)][i].task = u
      BY <1>1 DEF NoOrphanTask, Queued, At
    <3>1. CASE u = t
      BY <2>1, <3>1
    <3>2. CASE u # t
      <4>1. /\ task'[u] = task[u] /\ StageOf(u) \in Stages
            /\ task[u].status \in TerminalStatus \/ Queued(u) \/ crashes >= MaxReceive
        BY <1>1, <3>2, StageOfTask DEF RedeliveryInv, NoOrphanTask, At
      <4>2. Queued(u) => \E i \in 1 .. Len(queue'[StageOf(u)]) : queue'[StageOf(u)][i].task = u
        BY <2>1, <4>1 DEF Queued
      <4> QED BY <4>1, <4>2
    <3> QED BY <3>1, <3>2
  <2> QED BY <2>2, <2>3, <2>4
<1> QED BY <1>1, <1>2, <1>3

-----------------------------------------------------------------------------
(* A step inside the handler touches no task but its own and no message.    *)
Handling(s) ==
  /\ UNCHANGED <<queue, api, crashes>>
  /\ worker[s].pc # "idle" /\ worker'[s].pc # "idle"
  /\ worker'[s].task = worker[s].task
  /\ \A u \in Stages \ {s} : worker'[u] = worker[u]
  /\ \A t \in Tasks \ {worker[s].task} : task'[t] = task[t]

(* Every step of a worker that is not one of SQS or a death is of this kind.*)
LEMMA WorkerEffects ==
  ASSUME TypeOK, NEW s \in Stages,
         WorkerStep(s) \/ PointFails(s) \/ ProcessFails(s) \/ MarkSwallowed(s) \/ Crash(s)
  PROVE  Handling(s) \/ Receive(s) \/ DeadLetter(s) \/ Ack(s) \/ Crash(s)
<1> USE DEF TypeOK
<1>1. CASE MarkProcessing(s) \/ MarkValidating(s) \/ MarkFailed(s)
  <2>1. /\ UNCHANGED <<queue, api, crashes>> /\ worker[s].pc # "idle"
        /\ \E pc : pc # "idle" /\ Move(s, pc)
        /\ \E st : SetStatus(worker[s].task, st)
    BY <1>1 DEF MarkProcessing, MarkValidating, MarkFailed, Busy
  <2> QED BY <2>1 DEF Handling, Move, SetStatus, Worker
<1>2. CASE MarkCompleted(s)
  BY <1>2 DEF MarkCompleted, Busy, Handling, Move, Worker
<1>3. CASE \/ LoadInputs(s) \/ RunAgent(s) \/ SaveDesign(s) \/ PutObject(s) \/ PointStep(s)
          \/ PointFails(s)
  <2>1. /\ UNCHANGED <<queue, api, crashes, task>> /\ worker[s].pc # "idle"
        /\ \E pc : pc # "idle" /\ Move(s, pc)
    BY <1>3 DEF LoadInputs, RunAgent, SaveDesign, PutObject, PointStep, PointFails, Busy
  <2> QED BY <2>1 DEF Handling, Move, Worker
<1>4. CASE ReadProject(s) \/ ClearSlot(s) \/ ProcessFails(s) \/ MarkSwallowed(s)
  <2>1. /\ UNCHANGED <<queue, api, crashes, task>> /\ worker[s].pc # "idle"
        /\ \E pc, p : pc # "idle" /\ worker' = [worker EXCEPT ![s].pc = pc, ![s].snap = p]
    BY <1>4 DEF ReadProject, ClearSlot, ProcessFails, MarkSwallowed
  <2> QED BY <2>1 DEF Handling, Worker
<1> QED BY <1>1, <1>2, <1>3, <1>4 DEF WorkerStep

(* Removing the head keeps the remaining messages in order, if the worker   *)
(* is idle then.                                                            *)
LEMMA RemovalKeepsOrder ==
  ASSUME RedeliveryInv, NEW s \in Stages, queue[s] # <<>>,
         queue' = [queue EXCEPT ![s] = Tail(@)],
         worker'[s].pc = "idle", \A u \in Stages \ {s} : worker'[u] = worker[u],
         UNCHANGED <<api, crashes>>
  PROVE  MessagesInOrder' /\ HeadHeld'
<1>1. /\ Len(queue'[s]) = Len(queue[s]) - 1 /\ Len(queue[s]) \in Nat
      /\ \A i \in 1 .. Len(queue'[s]) : queue'[s][i] = queue[s][i + 1]
      /\ \A u \in Stages \ {s} : queue'[u] = queue[u]
      /\ crashes \in Nat
  BY TailElements, QueueElements DEF RedeliveryInv, TypeInv, TypeOK
<1>2. MessagesInOrder'
  <2> SUFFICES ASSUME NEW u \in Stages, NEW i \in 1 .. Len(queue'[u])
               PROVE  /\ StageOf(queue'[u][i].task) = u
                      /\ api[queue'[u][i].task].pc \in Sent
                      /\ i > 1 => queue'[u][i].receives = 0
                      /\ queue'[u][i].receives <= crashes + (IF worker'[u].pc = "idle" THEN 0 ELSE 1)
    BY DEF MessagesInOrder, Busy
  <2>1. CASE u = s
    <3>1. i + 1 \in 1 .. Len(queue[s]) /\ i + 1 > 1 /\ queue'[s][i] = queue[s][i + 1]
      BY <1>1, <2>1
    <3> QED BY <1>1, <2>1, <3>1 DEF RedeliveryInv, MessagesInOrder
  <2>2. CASE u # s
    BY <1>1, <2>2 DEF RedeliveryInv, MessagesInOrder, Busy
  <2> QED BY <2>1, <2>2
<1>3. HeadHeld'
  BY <1>1 DEF RedeliveryInv, HeadHeld, Busy
<1> QED BY <1>2, <1>3

(* Removing the head orphans at most the task of the head.                  *)
LEMMA RemovalOrphansHead ==
  ASSUME RedeliveryInv, NEW s \in Stages, queue[s] # <<>>,
         queue' = [queue EXCEPT ![s] = Tail(@)], UNCHANGED <<api, task, crashes>>,
         task[queue[s][1].task].status \in TerminalStatus \/ crashes >= MaxReceive
  PROVE  NoOrphanTask'
<1>1. /\ Len(queue'[s]) = Len(queue[s]) - 1 /\ Len(queue[s]) \in Nat
      /\ \A i \in 1 .. Len(queue'[s]) : queue'[s][i] = queue[s][i + 1]
      /\ \A u \in Stages \ {s} : queue'[u] = queue[u]
  BY TailElements, QueueElements DEF RedeliveryInv
<1> SUFFICES ASSUME NEW t \in Tasks, api[t].pc = "accepted"
             PROVE  \/ task[t].status \in TerminalStatus \/ crashes >= MaxReceive
                    \/ \E i \in 1 .. Len(queue'[StageOf(t)]) : queue'[StageOf(t)][i].task = t
  BY DEF NoOrphanTask, Queued, At
<1>2. /\ StageOf(t) \in Stages
      /\ task[t].status \in TerminalStatus \/ crashes >= MaxReceive \/ Queued(t)
  BY StageOfTask DEF RedeliveryInv, NoOrphanTask, At
<1>3. CASE Queued(t)
  <2>1. PICK i \in 1 .. Len(queue[StageOf(t)]) : queue[StageOf(t)][i].task = t
    BY <1>3 DEF Queued
  <2>2. CASE StageOf(t) # s
    BY <1>1, <1>2, <2>1, <2>2
  <2>3. CASE StageOf(t) = s /\ i = 1
    BY <2>1, <2>3
  <2>4. CASE StageOf(t) = s /\ i # 1
    <3> DEFINE j == i - 1
    <3>1. j \in 1 .. Len(queue'[s]) /\ j + 1 = i
      BY <1>1, <2>1, <2>4
    <3> HIDE DEF j
    <3>2. queue'[s][j].task = t
      BY <1>1, <2>1, <2>4, <3>1
    <3> QED BY <2>4, <3>1, <3>2
  <2> QED BY <2>2, <2>3, <2>4
<1> QED BY <1>2, <1>3

(* A worker keeps the messages in order, and orphans nothing as long as it  *)
(* deletes messages of recorded tasks only.                                 *)
LEMMA WorkerKeepsRedelivery ==
  ASSUME RedeliveryInv, Recorded, NEW s \in Stages,
         WorkerStep(s) \/ PointFails(s) \/ ProcessFails(s) \/ MarkSwallowed(s) \/ Crash(s)
  PROVE  MessagesInOrder' /\ HeadHeld' /\ NoOrphanTask'
<1>a. /\ TypeOK /\ TypeInv /\ crashes \in Nat /\ MaxReceive \in Nat
      /\ queue[s] \in Seq(Message) /\ Len(queue[s]) \in Nat
      /\ queue[s] # <<>> => 1 \in 1 .. Len(queue[s])
      /\ worker[s].pc # "idle" => queue[s] # <<>>
      /\ \A i \in 1 .. Len(queue[s]) : queue[s][i].task \in Tasks
      /\ \A i \in 1 .. Len(queue[s]) : queue[s][i].receives \in Nat
  BY QueueElements, Switches DEF RedeliveryInv, TypeInv, TypeOK, Busy
<1>1. CASE Handling(s)
  <2>1. /\ worker[s].task = queue[s][1].task /\ 1 \in 1 .. Len(queue[s])
        /\ StageOf(worker[s].task) = s
    BY <1>1, <1>a DEF Handling, RedeliveryInv, HeadHeld, MessagesInOrder, Busy
  <2>2. MessagesInOrder' /\ HeadHeld'
    BY <1>1 DEF Handling, RedeliveryInv, MessagesInOrder, HeadHeld, Busy
  <2>3. NoOrphanTask'
    <3> SUFFICES ASSUME NEW t \in Tasks, api[t].pc = "accepted"
                 PROVE  task'[t].status \in TerminalStatus \/ Queued(t) \/ crashes >= MaxReceive
      BY <1>1 DEF Handling, NoOrphanTask, Queued, At
    <3>1. CASE t = worker[s].task
      BY <2>1, <3>1 DEF Queued
    <3>2. CASE t # worker[s].task
      BY <1>1, <3>2 DEF Handling, RedeliveryInv, NoOrphanTask, At
    <3> QED BY <3>1, <3>2
  <2> QED BY <2>2, <2>3
<1>2. CASE Receive(s)
  <2>1. /\ Len(queue'[s]) = Len(queue[s])
        /\ \A i \in 1 .. Len(queue[s]) :
             /\ queue'[s][i].task = queue[s][i].task
             /\ queue'[s][i].receives =
                  IF i = 1 THEN queue[s][i].receives + 1 ELSE queue[s][i].receives
        /\ \A u \in Stages \ {s} : queue'[u] = queue[u]
    <3>1. queue' = [queue EXCEPT ![s] = [queue[s] EXCEPT ![1].receives = @ + 1]]
      BY <1>2 DEF Receive
    <3>2. queue[s] # <<>>
      BY <1>2 DEF Receive
    <3> QED BY <3>1, <3>2, <1>a, Received DEF TypeOK
  <2>2. /\ UNCHANGED <<api, task, crashes>> /\ worker[s].pc = "idle"
        /\ worker'[s].pc = "start" /\ worker'[s].task = queue[s][1].task
        /\ \A u \in Stages \ {s} : worker'[u] = worker[u]
        /\ 1 \in 1 .. Len(queue[s])
    BY <1>2, <1>a DEF Receive, Busy, TypeOK
  <2>3. MessagesInOrder'
    <3> SUFFICES ASSUME NEW u \in Stages, NEW i \in 1 .. Len(queue'[u])
                 PROVE  /\ StageOf(queue'[u][i].task) = u
                        /\ api[queue'[u][i].task].pc \in Sent
                        /\ i > 1 => queue'[u][i].receives = 0
                        /\ queue'[u][i].receives <= crashes + (IF worker'[u].pc = "idle" THEN 0 ELSE 1)
      BY <2>2 DEF MessagesInOrder, Busy
    <3>1. CASE u = s
      <4>1. i \in 1 .. Len(queue[s])
        BY <2>1, <3>1
      <4>2. queue[s][i].receives \in Nat /\ crashes \in Nat
        BY <1>a, <4>1
      <4>3. /\ StageOf(queue[s][i].task) = s /\ api[queue[s][i].task].pc \in Sent
            /\ i > 1 => queue[s][i].receives = 0
            /\ queue[s][i].receives <= crashes + 0
        BY <2>2, <4>1 DEF RedeliveryInv, MessagesInOrder, Busy
      <4>4. queue'[s][i].receives <= crashes + 1
        BY <2>1, <4>1, <4>2, <4>3
      <4> QED BY <2>1, <2>2, <3>1, <4>1, <4>3, <4>4
    <3>2. CASE u # s
      BY <2>1, <2>2, <3>2 DEF RedeliveryInv, MessagesInOrder, Busy
    <3> QED BY <3>1, <3>2
  <2>4. HeadHeld'
    BY <2>1, <2>2 DEF RedeliveryInv, HeadHeld, Busy
  <2>5. NoOrphanTask'
    <3>1. \A t \in Tasks : Queued(t) => Queued(t)'
      BY <2>1, StageOfTask DEF Queued
    <3> QED BY <2>2, <3>1 DEF RedeliveryInv, NoOrphanTask, At
  <2> QED BY <2>3, <2>4, <2>5
<1>3. CASE DeadLetter(s)
  <2>1. /\ queue[s] # <<>> /\ Head(queue[s]) = queue[s][1] /\ worker[s].pc = "idle"
        /\ queue' = [queue EXCEPT ![s] = Tail(@)] /\ UNCHANGED <<api, task, worker, crashes>>
        /\ queue[s][1].receives >= MaxReceive
    BY <1>3 DEF DeadLetter, Busy
  <2>2. crashes >= MaxReceive
    BY <1>a, <2>1 DEF RedeliveryInv, MessagesInOrder, Busy
  <2> QED BY <2>1, <2>2, RemovalKeepsOrder, RemovalOrphansHead
<1>4. CASE Ack(s)
  <2>1. /\ queue[s] # <<>> /\ worker[s].pc = "ack" /\ worker[s].task = queue[s][1].task
        /\ queue' = [queue EXCEPT ![s] = Tail(@)] /\ UNCHANGED <<api, task, crashes>>
        /\ worker'[s].pc = "idle" /\ \A u \in Stages \ {s} : worker'[u] = worker[u]
    BY <1>4, <1>a, FreeFacts DEF Ack, Busy, RedeliveryInv, HeadHeld, TypeOK
  <2>2. Len(queue'[s]) < Len(queue[s])
    <3>1. Len(queue'[s]) = Len(queue[s]) - 1
      BY <1>a, <2>1, TailElements
    <3> QED BY <1>a, <3>1
  <2>3. task[queue[s][1].task].status \in TerminalStatus
    BY <2>1, <2>2 DEF Recorded, Busy
  <2> QED BY <2>1, <2>3, RemovalKeepsOrder, RemovalOrphansHead
<1>5. CASE Crash(s)
  <2>1. /\ UNCHANGED <<api, task, queue>> /\ crashes' = crashes + 1 /\ worker[s].pc # "idle"
        /\ worker'[s].pc = "idle" /\ \A u \in Stages \ {s} : worker'[u] = worker[u]
    BY <1>5, <1>a, FreeFacts DEF Crash, Busy, TypeOK
  <2>2. MessagesInOrder'
    <3> SUFFICES ASSUME NEW u \in Stages, NEW i \in 1 .. Len(queue[u])
                 PROVE  queue[u][i].receives <=
                          (crashes + 1) + (IF worker'[u].pc = "idle" THEN 0 ELSE 1)
      BY <2>1 DEF RedeliveryInv, MessagesInOrder, Busy
    <3>1. /\ queue[u][i].receives \in Nat
          /\ queue[u][i].receives <= crashes + (IF worker[u].pc = "idle" THEN 0 ELSE 1)
      BY <1>a, QueueElements DEF RedeliveryInv, MessagesInOrder, Busy
    <3> QED BY <1>a, <2>1, <3>1
  <2>3. HeadHeld'
    BY <2>1 DEF RedeliveryInv, HeadHeld, Busy
  <2>4. NoOrphanTask'
    BY <1>a, <2>1 DEF RedeliveryInv, NoOrphanTask, Queued, At
  <2> QED BY <2>2, <2>3, <2>4
<1> QED BY <1>a, <1>1, <1>2, <1>3, <1>4, <1>5, WorkerEffects

(* Selecting and refining touch neither requests, tasks, queues nor workers.*)
LEMMA EditKeepsRedelivery ==
  ASSUME RedeliveryInv, NEW e \in Edits, EditStep(e)
  PROVE  UNCHANGED <<task, queue, worker, api, crashes>>
  BY DEF EditStep, LoadDesign, LoadProject, SelectOption, SaveRefined, AbortEdit

(* Initially there is no message and no accepted request.                   *)
LEMMA RedeliveryInitially == Init => RedeliveryInv
<1> SUFFICES ASSUME Init PROVE RedeliveryInv
  OBVIOUS
<1>1. /\ \A s \in Stages : queue[s] = <<>> /\ worker[s].pc = "idle"
      /\ \A t \in Tasks : api[t].pc = "idle"
  BY DEF Init
<1>2. \A s \in Stages : \A i \in 1 .. Len(queue[s]) : FALSE
  BY <1>1, EmptySeq
<1> QED BY <1>1, <1>2, TypeInitially DEF RedeliveryInv, MessagesInOrder, HeadHeld, NoOrphanTask,
        At, Busy

(* A step that deletes messages of recorded tasks only keeps the invariant. *)
LEMMA RedeliverySteps == RedeliveryInv /\ [Next]_vars /\ [Recorded]_vars => RedeliveryInv'
<1> SUFFICES ASSUME RedeliveryInv, [Next]_vars, [Recorded]_vars PROVE RedeliveryInv'
  OBVIOUS
<1>1. TypeInv'
  BY TypeSteps DEF RedeliveryInv
<1>2. CASE UNCHANGED vars \/ UNCHANGED <<task, queue, worker, api, crashes>>
  BY <1>1, <1>2 DEF vars, RedeliveryInv, MessagesInOrder, HeadHeld, NoOrphanTask, Queued, At, Busy
<1>3. CASE Next /\ Recorded
  BY <1>1, <1>2, <1>3, SubmitKeepsRedelivery, WorkerKeepsRedelivery, EditKeepsRedelivery
     DEF Next, RedeliveryInv
<1> QED BY <1>2, <1>3

(* "Re-raise so SQS retries (FAILED status not persisted)" is all it takes: *)
(* if a returning handler has always recorded the end of its task, then no  *)
(* accepted task is orphaned by fewer than MaxReceive deaths, whichever     *)
(* calls of the store and the queue raise and whichever replies are lost.   *)
THEOREM NoneOrphanedIfRecorded == Spec /\ FailureRecordedOrRetried => []NoOrphanTask
<1>1. RedeliveryInv => NoOrphanTask
  BY DEF RedeliveryInv
<1>2. FailureRecordedOrRetried <=> [][Recorded]_vars
  BY DEF FailureRecordedOrRetried, Recorded
<1> QED BY <1>1, <1>2, RedeliveryInitially, RedeliverySteps, PTL DEF Spec

-----------------------------------------------------------------------------
(* Behind these places of the handler, the end of its task is recorded.     *)
Settled ==
  \A s \in Stages :
    worker[s].pc \in {"save", "point", "read", "clear", "markread", "markclear", "ack"}
      => task[worker[s].task].status \in TerminalStatus

(* What holds when no call of the store or the queue raises.                *)
CalmInv == RedeliveryInv /\ Settled

(* A busy worker has a task of its own stage whose message was sent.        *)
LEMMA WorkersTask ==
  ASSUME RedeliveryInv, NEW s \in Stages, worker[s].pc # "idle"
  PROVE  /\ worker[s].task \in Tasks /\ StageOf(worker[s].task) = s
         /\ api[worker[s].task].pc \in Sent
<1>1. 1 \in 1 .. Len(queue[s]) /\ queue[s][1].task \in Tasks
  BY QueueElements DEF RedeliveryInv, Busy
<1> QED BY <1>1 DEF RedeliveryInv, HeadHeld, MessagesInOrder, Busy

(* Without faults every worker step keeps Settled.                          *)
LEMMA WorkerKeepsSettled ==
  ASSUME CalmInv, ~Faults, NEW s \in Stages,
         WorkerStep(s) \/ PointFails(s) \/ ProcessFails(s) \/ MarkSwallowed(s) \/ Crash(s)
  PROVE  Settled'
<1>a. /\ TypeOK /\ worker \in [Stages -> Worker] /\ task \in [Tasks -> Task]
      /\ Settled /\ RedeliveryInv
  BY DEF CalmInv, RedeliveryInv, TypeInv, TypeOK
<1> DEFINE Ended(u) == worker'[u].pc \in {"save", "point", "read", "clear", "markread",
                                          "markclear", "ack"}
<1>1. ASSUME NEW u \in Stages \ {s}, Ended(u)
      PROVE  task'[worker'[u].task].status \in TerminalStatus
  <2>1. worker'[u] = worker[u]
    BY <1>a, WorkerEffects, FreeFacts DEF Handling, Receive, DeadLetter, Ack, Crash
  <2>2. worker[u].task \in Tasks /\ StageOf(worker[u].task) = u
    BY <1>a, <1>1, <2>1, WorkersTask
  <2>3. task'[worker[u].task] = task[worker[u].task]
    <3>1. CASE Handling(s)
      BY <1>a, <2>2, <3>1, WorkersTask DEF Handling
    <3>2. CASE task' = task
      BY <3>2
    <3> QED BY <1>a, <3>1, <3>2, WorkerEffects DEF Receive, DeadLetter, Ack, Crash
  <2> QED BY <1>a, <1>1, <2>1, <2>3 DEF Settled
<1>2. ASSUME Ended(s)
      PROVE  task'[worker'[s].task].status \in TerminalStatus
  <2>1. CASE MarkCompleted(s) \/ MarkFailed(s)
    <3>1. worker[s].task \in Tasks /\ worker'[s].task = worker[s].task
      BY <1>a, <2>1, WorkersTask DEF MarkCompleted, MarkFailed, Busy, Move, Worker
    <3>2. task'[worker[s].task].status \in {"completed", "failed"}
      BY <1>a, <2>1, <3>1 DEF MarkCompleted, MarkFailed, SetStatus, Task
    <3> QED BY <3>1, <3>2 DEF TerminalStatus
  <2>2. CASE \/ SaveDesign(s) \/ PutObject(s) \/ PointStep(s)
    <3>1. /\ task' = task /\ worker'[s].task = worker[s].task
          /\ worker[s].pc \in {"save", "point"}
      BY <1>a, <2>2 DEF SaveDesign, PutObject, PointStep, Move, Busy, Worker
    <3> QED BY <1>a, <3>1 DEF Settled
  <2>3. CASE ReadProject(s) \/ ClearSlot(s)
    <3>1. /\ task' = task /\ worker[s].pc \in {"read", "clear", "markread", "markclear"}
          /\ \E pc, p : worker' = [worker EXCEPT ![s].pc = pc, ![s].snap = p]
      BY <2>3 DEF ReadProject, ClearSlot
    <3>2. worker'[s].task = worker[s].task
      BY <1>a, <3>1 DEF Worker
    <3> QED BY <1>a, <3>1, <3>2 DEF Settled
  <2>4. CASE \/ Receive(s) \/ DeadLetter(s) \/ Ack(s) \/ Crash(s) \/ MarkProcessing(s)
             \/ LoadInputs(s) \/ MarkValidating(s) \/ RunAgent(s)
    <3>1. ~Ended(s)
      BY <1>a, <2>4 DEF Receive, DeadLetter, Ack, Crash, MarkProcessing, LoadInputs,
         MarkValidating, RunAgent, Busy, Move, Free, Worker
    <3> QED BY <1>2, <3>1
  <2> QED BY <2>1, <2>2, <2>3, <2>4 DEF WorkerStep, PointFails, ProcessFails, MarkSwallowed
<1> QED BY <1>1, <1>2 DEF Settled

(* A request sets the task of a sent message at most to FAILED.             *)
LEMMA SubmitKeepsSettled ==
  ASSUME CalmInv, NEW t \in Tasks, SubmitStep(t) \/ SendFails(t) \/ AbortSubmit(t)
  PROVE  Settled'
<1>1. /\ UNCHANGED worker /\ \A u \in Tasks \ {t} : task'[u] = task[u]
      /\ task' = task \/ SetStatus(t, "failed") \/ api[t].pc \notin Sent
  BY SubmitEffects DEF CalmInv, RedeliveryInv, TypeInv
<1> SUFFICES ASSUME NEW s \in Stages,
                    worker[s].pc \in {"save", "point", "read", "clear", "markread", "markclear", "ack"}
             PROVE  task'[worker[s].task].status \in TerminalStatus
  BY <1>1 DEF Settled
<1>2. /\ worker[s].task \in Tasks /\ api[worker[s].task].pc \in Sent
      /\ task[worker[s].task].status \in TerminalStatus
  BY WorkersTask DEF CalmInv, Settled
<1>3. SetStatus(t, "failed") => task'[t].status = "failed"
  BY DEF CalmInv, RedeliveryInv, TypeInv, TypeOK, SetStatus, Task
<1> QED BY <1>1, <1>2, <1>3 DEF TerminalStatus

(* Without faults, a handler that returns has recorded the end of its task. *)
LEMMA CalmSteps ==
  ASSUME ~Faults
  PROVE  CalmInv /\ [Next]_vars => CalmInv' /\ [Recorded]_vars
<1> SUFFICES ASSUME CalmInv, [Next]_vars PROVE CalmInv' /\ Recorded
  OBVIOUS
<1>1. Recorded
  BY DEF CalmInv, Settled, Recorded, Busy
<1>2. RedeliveryInv'
  BY <1>1, RedeliverySteps DEF CalmInv
<1>3. CASE UNCHANGED vars \/ UNCHANGED <<task, worker>>
  BY <1>1, <1>2, <1>3 DEF vars, CalmInv, Settled
<1>4. CASE Next
  BY <1>1, <1>2, <1>3, <1>4, SubmitKeepsSettled, WorkerKeepsSettled, EditKeepsRedelivery
     DEF Next, CalmInv
<1> QED BY <1>3, <1>4

(* The same initially.                                                      *)
LEMMA CalmInitially == Init => CalmInv
<1> SUFFICES ASSUME Init PROVE CalmInv
  OBVIOUS
<1>1. \A s \in Stages : worker[s].pc = "idle"
  BY DEF Init
<1> QED BY <1>1, RedeliveryInitially DEF CalmInv, Settled

(* When no call raises, what the comment says holds: a message is deleted   *)
(* by a returning handler only when its task is terminal, however many      *)
(* workers die.                                                             *)
THEOREM FailuresRecorded ==
  ASSUME ~Faults
  PROVE  Spec => FailureRecordedOrRetried
<1>1. CalmInv /\ [Next]_vars => CalmInv' /\ [Recorded]_vars
  BY CalmSteps
<1>2. FailureRecordedOrRetried <=> [][Recorded]_vars
  BY DEF FailureRecordedOrRetried, Recorded
<1> QED BY <1>1, <1>2, CalmInitially, PTL DEF Spec

(* So nothing accepted is orphaned by fewer than MaxReceive deaths.         *)
THEOREM NoneOrphaned ==
  ASSUME ~Faults
  PROVE  Spec => []NoOrphanTask
  BY FailuresRecorded, NoneOrphanedIfRecorded
=============================================================================
