----------------------------- MODULE SlotProofs -----------------------------
(***************************************************************************)
(* The slot of a stage that runs alone: SlotInv is inductive, it implies   *)
(* SlotNamesOutstanding, and under it every step of the pipeline is a step *)
(* of ActiveSlot or leaves the slot alone.                                 *)
(***************************************************************************)
EXTENDS SlotRefinement, TaskPipelineProofs

(* A step of the abstract slot, or none.                                    *)
SlotStep == Slot!Next \/ UNCHANGED <<Holder, Over>>

-----------------------------------------------------------------------------
(* Only tasks of Stage exist, and none of them is of the iac stage.         *)
LEMMA StageFacts ==
  /\ Stage \in Stages
  /\ \A t \in Tasks : StageOf(t) = Stage /\ t \notin IacTasks
  BY Quiet, Disjoint DEF Stages, StageOf

(* The slot of a well-typed project holds a task or None.                   *)
LEMMA HolderType ==
  ASSUME TypeOK
  PROVE  Holder \in Tasks \cup {None} /\ None \notin Tasks
  BY StageFacts, NoneIsNew DEF TypeOK, Project, Holder

(* The queue of the stage is a sequence of messages, each of a task.        *)
LEMMA QueueFacts ==
  ASSUME TypeOK
  PROVE  /\ queue[Stage] \in Seq(Message)
         /\ Len(queue[Stage]) \in Nat
         /\ queue[Stage] # <<>> => 1 \in 1 .. Len(queue[Stage])
         /\ \A i \in 1 .. Len(queue[Stage]) : queue[Stage][i].task \in Tasks
<1>1. queue[Stage] \in Seq(Message)
  BY StageFacts DEF TypeOK
<1>2. Len(queue[Stage]) \in Nat /\ (queue[Stage] # <<>> => Len(queue[Stage]) \in Nat \ {0})
  BY <1>1, LenProperties, EmptySeq
<1>3. \A i \in 1 .. Len(queue[Stage]) : queue[Stage][i] \in Message
  BY <1>1, ElementOfSeq
<1> QED BY <1>1, <1>2, <1>3 DEF Message

(* While the handler runs, its task is the holder, it has the only message  *)
(* of the queue, and the request was accepted.                              *)
LEMMA WorkerHolds ==
  ASSUME SlotInv, worker[Stage].pc \notin {"idle", "ack"}
  PROVE  /\ worker[Stage].task = Holder /\ Holder \in Tasks /\ Holder # None
         /\ At(Holder, "accepted")
         /\ queue[Stage] # <<>>
         /\ \A i \in 1 .. Len(queue[Stage]) : i = 1 /\ queue[Stage][i].task = Holder
<1>1. queue[Stage] # <<>> /\ worker[Stage].task = queue[Stage][1].task
  BY DEF SlotInv, WorkerPlace, Busy
<1>2. /\ 1 \in 1 .. Len(queue[Stage])
      /\ \A i \in 1 .. Len(queue[Stage]) : queue[Stage][i].task \in Tasks
  BY <1>1, QueueFacts DEF SlotInv
<1>3. \A i \in 1 .. Len(queue[Stage]) :
        /\ Holder = queue[Stage][i].task
        /\ At(queue[Stage][i].task, "accepted")
  BY DEF SlotInv, MessagePlace, Busy
<1>4. \A i \in 1 .. Len(queue[Stage]) : i = 1
  BY <1>2, <1>3 DEF SlotInv, OneMessageEach
<1> QED BY <1>1, <1>2, <1>3, <1>4, HolderType DEF SlotInv

(* No worker of another stage can take a step.                              *)
LEMMA OnlyStageWorks ==
  ASSUME SlotInv, NEW s \in Stages,
         WorkerStep(s) \/ PointFails(s) \/ ProcessFails(s) \/ MarkSwallowed(s) \/ Crash(s)
  PROVE  s = Stage
<1> SUFFICES ASSUME s # Stage PROVE FALSE
  OBVIOUS
<1>1. queue[s] = <<>> /\ worker[s].pc = "idle"
  BY DEF SlotInv, OthersIdle, Busy
<1> QED BY <1>1 DEF WorkerStep, Receive, DeadLetter, MarkProcessing, LoadInputs, MarkValidating,
        RunAgent, MarkCompleted, SaveDesign, PutObject, PointStep, ReadProject, ClearSlot, Ack,
        MarkFailed, PointFails, ProcessFails, MarkSwallowed, Crash, Busy

-----------------------------------------------------------------------------
(* A step of a request that leaves the slot, the queue and the workers      *)
(* alone keeps the invariant if the request's new place is right.           *)
LEMMA RequestMoves ==
  ASSUME SlotInv, TypeOK', HandlerInv', NEW t \in Tasks,
         ~At(t, "accepted"), RequestPlace(t)',
         Holder' = Holder, queue' = queue, worker' = worker,
         \A u \in Tasks \ {t} : api'[u] = api[u] /\ task'[u] = task[u]
  PROVE  SlotInv'
<1>1. \A u \in Tasks : RequestPlace(u)'
  BY DEF SlotInv, RequestPlace, At
<1>2. \A i \in 1 .. Len(queue[Stage]) :
        /\ queue[Stage][i].task \in Tasks /\ MessagePlace(i) /\ queue[Stage][i].task # t
  BY QueueFacts DEF SlotInv, MessagePlace
<1>3. \A i \in 1 .. Len(queue'[Stage]) : MessagePlace(i)'
  BY <1>2 DEF MessagePlace, At, Busy
<1>4. WorkerPlace'
  <2>1. worker[Stage].pc \notin {"idle", "ack"} => worker[Stage].task \in Tasks \ {t}
    BY WorkerHolds
  <2> QED BY <2>1 DEF SlotInv, WorkerPlace, Busy
<1>5. OneMessageEach' /\ OthersIdle'
  BY DEF SlotInv, OneMessageEach, OthersIdle, Busy
<1> QED BY <1>1, <1>3, <1>4, <1>5 DEF SlotInv

(* A step inside the handler that leaves the slot, the requests and the     *)
(* queue alone keeps the invariant and the abstract slot, if the status it  *)
(* wrote is the one its new place asks for.                                 *)
LEMMA HandlerMoves ==
  ASSUME SlotInv, TypeOK', HandlerInv',
         worker[Stage].pc \notin {"idle", "ack"}, worker'[Stage].pc # "idle",
         worker'[Stage].task = worker[Stage].task,
         \A u \in Stages \ {Stage} : worker'[u] = worker[u],
         Holder' = Holder, queue' = queue, api' = api,
         \A u \in Tasks \ {worker[Stage].task} : task'[u] = task[u],
         worker'[Stage].pc \in {"save", "point", "read", "clear"} =>
           task'[worker[Stage].task].status = "completed",
         worker'[Stage].pc \in {"markread", "markclear"} =>
           task'[worker[Stage].task].status = "failed"
  PROVE  SlotInv' /\ UNCHANGED <<Holder, Over>>
<1>0. /\ worker[Stage].task = Holder /\ Holder \in Tasks /\ At(Holder, "accepted")
      /\ \A i \in 1 .. Len(queue[Stage]) : i = 1 /\ queue[Stage][i].task = Holder
  BY WorkerHolds
<1>1. \A u \in Tasks : RequestPlace(u)'
  BY <1>0 DEF SlotInv, RequestPlace, At, Holding
<1>2. \A i \in 1 .. Len(queue'[Stage]) : MessagePlace(i)'
  BY <1>0 DEF MessagePlace, At
<1>3. WorkerPlace'
  BY DEF SlotInv, WorkerPlace, Busy
<1>4. OneMessageEach' /\ OthersIdle'
  BY DEF SlotInv, OneMessageEach, OthersIdle, Busy
<1>5. Over' = Over
  BY <1>0 DEF Over
<1> QED BY <1>1, <1>2, <1>3, <1>4, <1>5 DEF SlotInv

-----------------------------------------------------------------------------
(* A request of the stage keeps the invariant; it claims the slot when it   *)
(* is free, is refused when it is not, and gives it back when the message   *)
(* could not be sent.                                                       *)
LEMMA SubmitSteps ==
  ASSUME SlotInv, TypeOK', HandlerInv', NEW t \in Tasks,
         SubmitStep(t) \/ SendFails(t) \/ AbortSubmit(t)
  PROVE  SlotInv' /\ SlotStep
<1>a. /\ StageOf(t) = Stage /\ t \notin IacTasks /\ Stage \in Stages
      /\ Holder \in Tasks \cup {None} /\ None \notin Tasks
  BY StageFacts, HolderType DEF SlotInv
<1>b. /\ project \in Project /\ task \in [Tasks -> Task] /\ api \in [Tasks -> Request]
      /\ queue \in [Stages -> Seq(Message)]
  BY DEF SlotInv, TypeOK
<1>c. RequestPlace(t)
  BY DEF SlotInv
<1>d. \A pc \in ApiPc : Goto(t, pc) =>
        /\ api'[t].pc = pc
        /\ \A u \in Tasks \ {t} : api'[u] = api[u]
  BY <1>b, GotoFacts
<1>e. \A st \in {"queued", "failed"} : SetStatus(t, st) =>
        /\ task'[t].status = st
        /\ \A u \in Tasks \ {t} : task'[u] = task[u]
  BY <1>b, SetStatusFacts DEF ActiveStatus, TerminalStatus
<1>1. CASE CheckResolved(t) \/ ReadPointer(t) \/ CheckPointed(t) \/ HealPointer(t)
  BY <1>1, <1>a, <1>c DEF CheckResolved, ReadPointer, CheckPointed, HealPointer,
     RequestPlace, At, Holding
<1>2. CASE CreateTask(t)
  <2>1. /\ api'[t].pc = "created" /\ task'[t].status = "queued"
        /\ \A u \in Tasks \ {t} : api'[u] = api[u] /\ task'[u] = task[u]
        /\ At(t, "idle") /\ Holder' = Holder /\ queue' = queue /\ worker' = worker
    BY <1>2, <1>a, <1>d, <1>e DEF CreateTask, ApiPc, Holder
  <2>2. RequestPlace(t)'
    BY <2>1, <1>c DEF RequestPlace, At, Holding
  <2>3. SlotInv'
    BY <2>1, <2>2, RequestMoves DEF At
  <2>4. Over' = Over
    BY <2>1, <1>c DEF Over, RequestPlace, TerminalStatus
  <2> QED BY <2>1, <2>3, <2>4 DEF SlotStep
<1>3. CASE ClaimTask(t)
  <2>1. /\ At(t, "created") /\ task[t].status = "queued" /\ Holder # t
        /\ queue' = queue /\ worker' = worker /\ task' = task
    BY <1>3, <1>c DEF ClaimTask, RequestPlace, At
  <2>2. CASE Holder = None /\ project' = [project EXCEPT !.slot[Stage] = t] /\ Goto(t, "claimed")
    <3>1. Holder' = t
      BY <2>2, <1>a, <1>b DEF Holder, Project
    <3>2. api'[t].pc = "claimed" /\ \A u \in Tasks \ {t} : api'[u] = api[u]
      BY <2>2, <1>d DEF ApiPc
    <3>3. \A u \in Tasks : RequestPlace(u)'
      BY <2>1, <2>2, <3>1, <3>2, <1>a DEF SlotInv, RequestPlace, At, Holding
    <3>4. \A i \in 1 .. Len(queue'[Stage]) : MessagePlace(i)'
      <4> SUFFICES ASSUME NEW i \in 1 .. Len(queue[Stage])
                   PROVE  MessagePlace(i)'
        BY <2>1
      <4>1. queue[Stage][i].task \in Tasks /\ MessagePlace(i)
        BY QueueFacts DEF SlotInv
      <4> QED BY <4>1, <2>1, <2>2, <3>2, <1>a DEF MessagePlace, At, Busy
    <3>5. WorkerPlace' /\ OneMessageEach' /\ OthersIdle'
      BY <2>1 DEF SlotInv, WorkerPlace, OneMessageEach, OthersIdle, Busy
    <3>6. t \notin Over /\ Over' = Over
      BY <2>1, <2>2, <3>1, <1>a DEF Over, TerminalStatus
    <3>7. Slot!Claim(t)
      BY <2>2, <3>1, <3>6 DEF Slot!Claim
    <3> QED BY <3>3, <3>4, <3>5, <3>7 DEF SlotInv, SlotStep, Slot!Next
  <2>3. CASE project' = project /\ Goto(t, "conflict")
    <3>1. Holder' = Holder /\ Over' = Over
      BY <2>1, <2>3 DEF Holder, Over
    <3>2. api'[t].pc = "conflict" /\ \A u \in Tasks \ {t} : api'[u] = api[u]
      BY <2>3, <1>d DEF ApiPc
    <3>3. RequestPlace(t)'
      BY <2>1, <3>1, <3>2 DEF RequestPlace, At, Holding
    <3> QED BY <2>1, <3>1, <3>2, <3>3, RequestMoves DEF SlotStep, At
  <2> QED BY <1>3, <1>a, <2>2, <2>3 DEF ClaimTask, Holder
<1>4. CASE RejectTask(t)
  <2>1. /\ api'[t].pc = "refused" /\ task'[t].status = "failed"
        /\ \A u \in Tasks \ {t} : api'[u] = api[u] /\ task'[u] = task[u]
        /\ At(t, "conflict") /\ Holder' = Holder /\ queue' = queue /\ worker' = worker
    BY <1>4, <1>d, <1>e DEF RejectTask, ApiPc, Holder
  <2>2. RequestPlace(t)' /\ Holder # t /\ task[t].status = "queued"
    BY <2>1, <1>c DEF RequestPlace, At, Holding
  <2>3. SlotInv'
    BY <2>1, <2>2, RequestMoves DEF At
  <2>4. t \notin Over /\ Over' = Over \cup {t}
    BY <2>1, <2>2 DEF Over, TerminalStatus
  <2>5. Slot!Refuse(t)
    BY <2>1, <2>2, <2>4 DEF Slot!Refuse
  <2> QED BY <2>3, <2>5 DEF SlotStep, Slot!Next
<1>5. CASE SendTask(t)
  <2>1. /\ api'[t].pc = "accepted" /\ \A u \in Tasks \ {t} : api'[u] = api[u]
        /\ At(t, "claimed") /\ project' = project /\ worker' = worker /\ task' = task
        /\ queue' = Enqueued(t)
    BY <1>5, <1>d DEF SendTask, ApiPc
  <2>2. Holder' = Holder /\ Over' = Over /\ Holder = t
    BY <2>1, <1>c DEF Holder, Over, RequestPlace, At, Holding
  <2> DEFINE q == queue[Stage]
             m == [task |-> t, receives |-> 0]
  <2>3. q \in Seq(Message) /\ m \in Message /\ Len(q) \in Nat
    BY <1>a, QueueFacts DEF Message, SlotInv
  <2>4. /\ queue'[Stage] = Append(q, m)
        /\ \A s \in Stages \ {Stage} : queue'[s] = queue[s]
    BY <2>1, <1>a, <1>b DEF Enqueued
  <2>5. /\ Len(queue'[Stage]) = Len(q) + 1
        /\ \A i \in 1 .. Len(q) : queue'[Stage][i] = q[i]
        /\ queue'[Stage][Len(q) + 1] = m
    BY <2>3, <2>4, AppendProperties
  <2>6. \A i \in 1 .. Len(q) : q[i].task \in Tasks \ {t} /\ MessagePlace(i)
    <3>1. \A i \in 1 .. Len(q) : q[i].task \in Tasks /\ MessagePlace(i)
      BY QueueFacts DEF SlotInv
    <3> QED BY <3>1, <2>1 DEF MessagePlace, At
  <2>7. \A i \in 1 .. Len(queue'[Stage]) : i \in 1 .. Len(q) \/ i = Len(q) + 1
    BY <2>3, <2>5
  <2>8. \A i \in 1 .. Len(queue'[Stage]) : MessagePlace(i)'
    <3> SUFFICES ASSUME NEW i \in 1 .. Len(queue'[Stage]) PROVE MessagePlace(i)'
      OBVIOUS
    <3>1. CASE i = Len(q) + 1
      BY <3>1, <2>1, <2>2, <2>5 DEF MessagePlace, At
    <3>2. CASE i \in 1 .. Len(q)
      BY <3>2, <2>1, <2>2, <2>5, <2>6 DEF MessagePlace, At, Busy
    <3> QED BY <2>7, <3>1, <3>2
  <2>9. OneMessageEach'
    <3> SUFFICES ASSUME NEW i \in 1 .. Len(queue'[Stage]), NEW j \in 1 .. Len(queue'[Stage]),
                        queue'[Stage][i].task = queue'[Stage][j].task
                 PROVE  i = j
      BY DEF OneMessageEach
    <3>1. \A k \in 1 .. Len(q) : queue'[Stage][k].task = q[k].task /\ q[k].task # t
      BY <2>5, <2>6
    <3>2. queue'[Stage][Len(q) + 1].task = t
      BY <2>5
    <3>3. CASE i \in 1 .. Len(q) /\ j \in 1 .. Len(q)
      BY <3>1, <3>3 DEF SlotInv, OneMessageEach
    <3> QED BY <2>7, <3>1, <3>2, <3>3
  <2>10. WorkerPlace'
    <3>1. q # <<>> => 1 \in 1 .. Len(q)
      BY QueueFacts DEF SlotInv
    <3>2. q # <<>> => queue'[Stage][1] = q[1]
      BY <3>1, <2>5
    <3>3. q # <<>> => queue'[Stage] # <<>>
      BY <2>3, <2>4, AppendProperties
    <3> QED BY <3>2, <3>3, <2>1 DEF SlotInv, WorkerPlace, Busy
  <2>11. OthersIdle' /\ \A u \in Tasks : RequestPlace(u)'
    BY <2>1, <2>2, <2>4 DEF SlotInv, OthersIdle, RequestPlace, At, Holding, Busy
  <2> QED BY <2>2, <2>8, <2>9, <2>10, <2>11 DEF SlotInv, SlotStep
<1>6. CASE SendFails(t) \/ ReadUnsent(t) \/ AbortSubmit(t)
  <2>1. /\ ~At(t, "accepted") /\ ~At(t, "idle")
        /\ project' = project /\ queue' = queue /\ worker' = worker /\ task' = task
        /\ \A u \in Tasks \ {t} : api'[u] = api[u]
        /\ \/ api'[t].pc = "refused"
           \/ At(t, "claimed") /\ api'[t].pc = "sendfailed"
           \/ At(t, "unsent") /\ api'[t].pc = "releasing"
    <3>1. CASE SendFails(t)
      BY <3>1, <1>d, Quiet DEF SendFails, ApiPc, At
    <3>2. CASE ReadUnsent(t)
      <4>1. api'[t].pc = "releasing" /\ \A u \in Tasks \ {t} : api'[u] = api[u]
        BY <3>2, <1>b, CopyFacts DEF ReadUnsent, ApiPc
      <4> QED BY <3>2, <4>1 DEF ReadUnsent, At
    <3>3. CASE AbortSubmit(t)
      BY <3>3, <1>d DEF AbortSubmit, ApiPc, At
    <3> QED BY <1>6, <3>1, <3>2, <3>3
  <2>2. Holder' = Holder /\ Over' = Over
    BY <2>1 DEF Holder, Over
  <2>3. RequestPlace(t)'
    BY <2>1, <2>2, <1>c DEF RequestPlace, At, Holding
  <2> QED BY <2>1, <2>2, <2>3, RequestMoves DEF SlotStep
<1>7. CASE FailUnsent(t)
  <2>1. /\ api'[t].pc = "unsent" /\ task'[t].status = "failed"
        /\ \A u \in Tasks \ {t} : api'[u] = api[u] /\ task'[u] = task[u]
        /\ At(t, "sendfailed") /\ Holder' = Holder /\ queue' = queue /\ worker' = worker
    BY <1>7, <1>d, <1>e DEF FailUnsent, ApiPc, Holder
  <2>2. RequestPlace(t)' /\ Holder = t
    BY <2>1, <1>c DEF RequestPlace, At, Holding
  <2>3. SlotInv'
    BY <2>1, <2>2, RequestMoves DEF At
  <2>4. Over' = Over
    BY <2>1, <2>2 DEF Over
  <2> QED BY <2>1, <2>3, <2>4 DEF SlotStep
<1>8. CASE ReleaseUnsent(t)
  <2>1. /\ api'[t].pc = "refused" /\ \A u \in Tasks \ {t} : api'[u] = api[u]
        /\ At(t, "releasing") /\ queue' = queue /\ worker' = worker /\ task' = task
    BY <1>8, <1>d DEF ReleaseUnsent, ApiPc
  <2>2. Holder = t /\ task[t].status = "failed"
    BY <2>1, <1>c DEF RequestPlace, At, Holding
  <2>3. api[t].snap \in Project
    BY <2>1, <1>b DEF SlotInv, HandlerInv, At, Request
  <2>4. Holder' = None
    BY <1>8, <1>a, <2>3, ClearedIsProject DEF ReleaseUnsent, Holder
  <2>5. \A u \in Tasks : RequestPlace(u)'
    BY <2>1, <2>2, <2>4, <1>a DEF SlotInv, RequestPlace, At, Holding
  <2>6. \A i \in 1 .. Len(queue'[Stage]) : MessagePlace(i)'
    <3> SUFFICES ASSUME NEW i \in 1 .. Len(queue[Stage]) PROVE MessagePlace(i)'
      BY <2>1
    <3>1. queue[Stage][i].task \in Tasks /\ MessagePlace(i)
      BY QueueFacts DEF SlotInv
    <3> QED BY <3>1, <2>1, <2>2 DEF MessagePlace, At, Busy
  <2>7. WorkerPlace' /\ OneMessageEach' /\ OthersIdle'
    BY <2>1 DEF SlotInv, WorkerPlace, OneMessageEach, OthersIdle, Busy
  <2>8. Over' = Over \cup {Holder}
    BY <2>1, <2>2, <2>4, <1>a DEF Over, TerminalStatus
  <2>9. Slot!Release
    BY <2>2, <2>4, <2>8, <1>a DEF Slot!Release
  <2> QED BY <2>5, <2>6, <2>7, <2>9 DEF SlotInv, SlotStep, Slot!Next
<1> QED BY <1>1, <1>2, <1>3, <1>4, <1>5, <1>6, <1>7, <1>8 DEF SubmitStep

-----------------------------------------------------------------------------
(* A worker step keeps the invariant; only the clearing of the pointer is   *)
(* seen by the abstract slot, as the release of a terminal task.            *)
LEMMA WorkerSteps ==
  ASSUME SlotInv, TypeOK', HandlerInv', NEW s \in Stages,
         WorkerStep(s) \/ PointFails(s) \/ ProcessFails(s) \/ MarkSwallowed(s) \/ Crash(s)
  PROVE  SlotInv' /\ SlotStep
<1>a. s = Stage
  BY OnlyStageWorks
<1>b. /\ project \in Project /\ task \in [Tasks -> Task] /\ worker \in [Stages -> Worker]
      /\ queue \in [Stages -> Seq(Message)] /\ Stage \in Stages
      /\ Holder \in Tasks \cup {None} /\ None \notin Tasks
  BY StageFacts, HolderType DEF SlotInv, TypeOK
<1>c. worker[Stage].pc \notin {"idle", "ack"} =>
        /\ worker[Stage].task = Holder /\ Holder \in Tasks /\ At(Holder, "accepted")
        /\ \A i \in 1 .. Len(queue[Stage]) : i = 1 /\ queue[Stage][i].task = Holder
  BY WorkerHolds
<1>d. \A pc \in WorkPc : Move(s, pc) =>
        /\ worker'[s].pc = pc /\ worker'[s].task = worker[s].task
        /\ \A u \in Stages \ {s} : worker'[u] = worker[u]
  BY <1>b, MoveFacts
<1>e. \A st \in ActiveStatus \cup TerminalStatus :
        SetStatus(worker[s].task, st) /\ worker[s].task \in Tasks =>
        /\ task'[worker[s].task].status = st
        /\ \A u \in Tasks \ {worker[s].task} : task'[u] = task[u]
  BY <1>b, SetStatusFacts
<1>f. \A pc \in WorkPc, p \in Project \cup {None} :
        worker' = [worker EXCEPT ![s].pc = pc, ![s].snap = p] =>
        /\ worker'[s].pc = pc /\ worker'[s].task = worker[s].task
        /\ \A u \in Stages \ {s} : worker'[u] = worker[u]
  BY <1>b, MoveCopyFacts
<1>g. \A i \in 1 .. Len(queue[Stage]) : queue[Stage][i].task \in Tasks /\ MessagePlace(i)
  BY QueueFacts DEF SlotInv
<1>1. CASE MarkProcessing(s) \/ MarkValidating(s)
  <2>1. /\ worker[s].pc \in {"start", "validating"} /\ worker'[s].pc \in {"agent", "load"}
        /\ worker'[s].task = worker[s].task
        /\ \A u \in Stages \ {s} : worker'[u] = worker[u]
        /\ Holder' = Holder /\ queue' = queue /\ api' = api
        /\ SetStatus(worker[s].task, "processing") \/ SetStatus(worker[s].task, "validating")
    BY <1>1, <1>d DEF MarkProcessing, MarkValidating, WorkPc, Busy, Holder
  <2>2. \A u \in Tasks \ {worker[s].task} : task'[u] = task[u]
    BY <2>1, <1>a, <1>c, <1>e DEF ActiveStatus
  <2> QED BY <2>1, <2>2, <1>a, HandlerMoves DEF SlotStep
<1>2. CASE LoadInputs(s) \/ RunAgent(s)
  <2>1. /\ worker[s].pc \in {"load", "agent"}
        /\ worker'[s].pc \in {"validating", "marking", "agent", "finish"}
        /\ worker'[s].task = worker[s].task
        /\ \A u \in Stages \ {s} : worker'[u] = worker[u]
        /\ Holder' = Holder /\ queue' = queue /\ api' = api /\ task' = task
    BY <1>2, <1>d DEF LoadInputs, RunAgent, WorkPc, Busy, Holder
  <2> QED BY <2>1, <1>a, HandlerMoves DEF SlotStep
<1>3. CASE MarkCompleted(s)
  <2>1. /\ worker[s].pc = "finish" /\ worker'[s].pc = "save"
        /\ worker'[s].task = worker[s].task
        /\ \A u \in Stages \ {s} : worker'[u] = worker[u]
        /\ Holder' = Holder /\ queue' = queue /\ api' = api
    BY <1>3, <1>d DEF MarkCompleted, WorkPc, Busy, Holder
  <2>2. /\ task'[worker[s].task].status = "completed"
        /\ \A u \in Tasks \ {worker[s].task} : task'[u] = task[u]
    BY <1>3, <2>1, <1>a, <1>b, <1>c DEF MarkCompleted
  <2> QED BY <2>1, <2>2, <1>a, HandlerMoves DEF SlotStep
<1>4. CASE SaveDesign(s) \/ PutObject(s) \/ PointStep(s) \/ PointFails(s)
  <2>1. /\ worker[s].pc \in {"save", "point"} /\ worker'[s].pc \in {"read", "point", "marking"}
        /\ worker'[s].task = worker[s].task
        /\ \A u \in Stages \ {s} : worker'[u] = worker[u]
        /\ queue' = queue /\ api' = api /\ task' = task
    BY <1>4, <1>d DEF SaveDesign, PutObject, PointStep, PointFails, WorkPc, Busy
  <2>2. Holder' = Holder
    BY <1>4, <1>b DEF SaveDesign, PutObject, PointStep, PointFails, Holder, Project
  <2>3. task[worker[s].task].status = "completed"
    BY <2>1, <1>a DEF SlotInv, WorkerPlace
  <2> QED BY <2>1, <2>2, <2>3, <1>a, HandlerMoves DEF SlotStep
<1>5. CASE ReadProject(s)
  <2>1. /\ \/ worker[s].pc = "read" /\ worker'[s].pc = "clear"
           \/ worker[s].pc = "markread" /\ worker'[s].pc = "markclear"
        /\ worker'[s].task = worker[s].task
        /\ \A u \in Stages \ {s} : worker'[u] = worker[u]
    <3>1. PICK pc \in {"clear", "markclear"} :
            /\ pc = IF worker[s].pc = "read" THEN "clear" ELSE "markclear"
            /\ worker' = [worker EXCEPT ![s].pc = pc, ![s].snap = project]
      BY <1>5 DEF ReadProject
    <3> QED BY <1>5, <3>1, <1>b, <1>f DEF ReadProject, WorkPc
  <2>2. Holder' = Holder /\ queue' = queue /\ api' = api /\ task' = task
    BY <1>5 DEF ReadProject, Holder
  <2>3. /\ worker[s].pc = "read" => task[worker[s].task].status = "completed"
        /\ worker[s].pc = "markread" => task[worker[s].task].status = "failed"
    BY <1>a DEF SlotInv, WorkerPlace
  <2> QED BY <2>1, <2>2, <2>3, <1>a, HandlerMoves DEF SlotStep
<1>6. CASE ProcessFails(s) \/ MarkSwallowed(s)
  <2>1. /\ worker[s].pc \notin {"idle", "ack"} /\ worker'[s].pc \in {"marking", "ack"}
        /\ worker'[s].task = worker[s].task
        /\ \A u \in Stages \ {s} : worker'[u] = worker[u]
        /\ Holder' = Holder /\ queue' = queue /\ api' = api /\ task' = task
    BY <1>6, <1>f DEF ProcessFails, MarkSwallowed, WorkPc, Holder
  <2> QED BY <2>1, <1>a, HandlerMoves DEF SlotStep
<1>7. CASE MarkFailed(s)
  <2>1. /\ worker[s].pc = "marking" /\ worker'[s].pc = "markread"
        /\ worker'[s].task = worker[s].task
        /\ \A u \in Stages \ {s} : worker'[u] = worker[u]
        /\ Holder' = Holder /\ queue' = queue /\ api' = api
        /\ SetStatus(worker[s].task, "failed")
    BY <1>7, <1>d DEF MarkFailed, WorkPc, Busy, Holder
  <2>2. /\ task'[worker[s].task].status = "failed"
        /\ \A u \in Tasks \ {worker[s].task} : task'[u] = task[u]
    BY <2>1, <1>a, <1>c, <1>e DEF TerminalStatus
  <2> QED BY <2>1, <2>2, <1>a, HandlerMoves DEF SlotStep
<1>8. CASE Receive(s)
  <2>1. /\ worker[s].pc = "idle" /\ queue[s] # <<>>
        /\ worker'[s].pc = "start" /\ worker'[s].task = queue[s][1].task
        /\ \A u \in Stages \ {s} : worker'[u] = worker[u]
        /\ project' = project /\ task' = task /\ api' = api
    BY <1>8, <1>b DEF Receive, Busy
  <2>2. /\ Len(queue'[s]) = Len(queue[s])
        /\ \A i \in 1 .. Len(queue[s]) : queue'[s][i].task = queue[s][i].task
        /\ \A u \in Stages \ {s} : queue'[u] = queue[u]
    <3>1. queue' = [queue EXCEPT ![s] = [queue[s] EXCEPT ![1].receives = @ + 1]]
      BY <1>8 DEF Receive
    <3> QED BY <3>1, <2>1, <1>b, Received
  <2>3. Holder' = Holder /\ Over' = Over
    BY <2>1 DEF Holder, Over
  <2>4. \A i \in 1 .. Len(queue'[Stage]) : MessagePlace(i)'
    <3> SUFFICES ASSUME NEW i \in 1 .. Len(queue[Stage]) PROVE MessagePlace(i)'
      BY <2>2, <1>a
    <3> QED BY <1>a, <1>g, <2>1, <2>2, <2>3 DEF MessagePlace, At, Busy
  <2>5. OneMessageEach'
    BY <1>a, <2>2 DEF SlotInv, OneMessageEach
  <2>6. WorkerPlace'
    <3>1. 1 \in 1 .. Len(queue[Stage]) /\ queue'[Stage] # <<>>
      BY <1>a, <2>1, QueueFacts DEF SlotInv, HandlerInv
    <3> QED BY <3>1, <1>a, <2>1, <2>2 DEF WorkerPlace, Busy
  <2>7. OthersIdle' /\ \A u \in Tasks : RequestPlace(u)'
    BY <1>a, <2>1, <2>2, <2>3 DEF SlotInv, OthersIdle, RequestPlace, At, Holding, Busy
  <2> QED BY <2>3, <2>4, <2>5, <2>6, <2>7 DEF SlotInv, SlotStep
<1>9. CASE DeadLetter(s) \/ Ack(s)
  <2> DEFINE q == queue[Stage]
  <2>1. /\ queue' = [queue EXCEPT ![Stage] = Tail(q)]
        /\ worker'[Stage].pc = "idle"
        /\ \A u \in Stages \ {Stage} : worker'[u] = worker[u]
        /\ project' = project /\ task' = task /\ api' = api /\ q # <<>>
    <3>1. CASE DeadLetter(s)
      BY <3>1, <1>a DEF DeadLetter, Busy
    <3>2. CASE Ack(s)
      BY <3>2, <1>a, <1>b, FreeFacts DEF Ack, Busy, SlotInv, HandlerInv
    <3> QED BY <1>9, <3>1, <3>2
  <2>2. /\ queue'[Stage] = Tail(q) /\ q \in Seq(Message)
        /\ \A u \in Stages \ {Stage} : queue'[u] = queue[u]
    BY <2>1, <1>b
  <2>3. /\ Len(q) \in Nat /\ Len(queue'[Stage]) = Len(q) - 1
        /\ \A i \in 1 .. Len(queue'[Stage]) : queue'[Stage][i] = q[i + 1]
    <3>1. /\ Len(Tail(q)) = Len(q) - 1
          /\ \A i \in 1 .. Len(Tail(q)) : Tail(q)[i] = q[i + 1]
      BY <2>1, <2>2, HeadTailProperties
    <3>2. Len(q) \in Nat
      BY <2>2, LenProperties
    <3> HIDE DEF q
    <3> QED BY <2>2, <3>1, <3>2
  <2>4. \A i \in 1 .. Len(queue'[Stage]) : i + 1 \in 1 .. Len(q) /\ i + 1 # 1
    BY <2>3
  <2>5. Holder' = Holder /\ Over' = Over
    BY <2>1 DEF Holder, Over
  <2>6. \A i \in 1 .. Len(queue'[Stage]) : MessagePlace(i)'
    <3> SUFFICES ASSUME NEW i \in 1 .. Len(queue'[Stage]) PROVE MessagePlace(i)'
      OBVIOUS
    <3>1. MessagePlace(i + 1)
      BY <1>g, <2>4
    <3> QED BY <3>1, <2>1, <2>3, <2>4, <2>5 DEF MessagePlace, At
  <2>7. OneMessageEach'
    <3> SUFFICES ASSUME NEW i \in 1 .. Len(queue'[Stage]), NEW j \in 1 .. Len(queue'[Stage]),
                        queue'[Stage][i].task = queue'[Stage][j].task
                 PROVE  i = j
      BY DEF OneMessageEach
    <3>1. i + 1 \in 1 .. Len(q) /\ j + 1 \in 1 .. Len(q) /\ q[i + 1].task = q[j + 1].task
      BY <2>3, <2>4
    <3>2. i + 1 = j + 1
      BY <3>1 DEF SlotInv, OneMessageEach
    <3> QED BY <3>2, <2>3
  <2>8. WorkerPlace'
    BY <2>1 DEF WorkerPlace, Busy
  <2>9. OthersIdle' /\ \A u \in Tasks : RequestPlace(u)'
    BY <2>1, <2>2, <2>5 DEF SlotInv, OthersIdle, RequestPlace, At, Holding, Busy
  <2> QED BY <2>5, <2>6, <2>7, <2>8, <2>9 DEF SlotInv, SlotStep
<1>10. CASE ClearSlot(s)
  <2>1. /\ worker[s].pc \in {"clear", "markclear"} /\ worker'[s].pc = "ack"
        /\ worker'[s].task = worker[s].task
        /\ \A u \in Stages \ {s} : worker'[u] = worker[u]
        /\ queue' = queue /\ api' = api /\ task' = task
    BY <1>10, <1>f DEF ClearSlot, WorkPc
  <2>2. Holder \in Tasks /\ At(Holder, "accepted") /\ task[Holder].status \in TerminalStatus
    BY <2>1, <1>a, <1>c DEF SlotInv, WorkerPlace, TerminalStatus
  <2>3. worker[s].snap \in Project
    BY <2>1, <1>a, <1>b DEF SlotInv, HandlerInv, Worker
  <2>4. Holder' = None
    BY <1>10, <1>a, <1>b, <2>3, ClearedIsProject DEF ClearSlot, Holder
  <2>5. \A u \in Tasks : RequestPlace(u)'
    BY <2>1, <2>2, <2>4, <1>b DEF SlotInv, RequestPlace, At, Holding
  <2>6. \A i \in 1 .. Len(queue'[Stage]) : MessagePlace(i)'
    BY <2>1, <2>2, <1>a, <1>c DEF MessagePlace, At, Busy
  <2>7. WorkerPlace' /\ OneMessageEach' /\ OthersIdle'
    BY <2>1, <1>a DEF SlotInv, WorkerPlace, OneMessageEach, OthersIdle, Busy
  <2>8. Over' = Over \cup {Holder}
    BY <2>1, <2>2, <2>4, <1>b DEF Over
  <2>9. Slot!Release
    BY <2>2, <2>4, <2>8, <1>b DEF Slot!Release
  <2> QED BY <2>5, <2>6, <2>7, <2>9 DEF SlotInv, SlotStep, Slot!Next
<1>11. CASE Crash(s)
  BY <1>11, Quiet DEF Crash, SlotInv, TypeOK
<1> QED BY <1>1, <1>2, <1>3, <1>4, <1>5, <1>6, <1>7, <1>8, <1>9, <1>10, <1>11 DEF WorkerStep

(* select_design is not called here, and saving a refinement or loading for *)
(* one leaves the slot, the tasks and the queue alone.                      *)
LEMMA EditSteps ==
  ASSUME SlotInv, TypeOK', HandlerInv', NEW e \in Edits, EditStep(e)
  PROVE  SlotInv' /\ SlotStep
<1>1. /\ project' = project \/ project' = [project EXCEPT !.status = "iac"]
      /\ task' = task /\ queue' = queue /\ worker' = worker /\ api' = api
  BY Quiet DEF EditStep, LoadDesign, LoadProject, SelectOption, SaveRefined, AbortEdit
<1>2. Holder' = Holder /\ Over' = Over
  BY <1>1 DEF Holder, Over, SlotInv, TypeOK, Project
<1> QED BY <1>1, <1>2 DEF SlotInv, RequestPlace, MessagePlace, OneMessageEach, WorkerPlace,
        OthersIdle, SlotStep, At, Busy

-----------------------------------------------------------------------------
(* Every step of the pipeline keeps the invariant and is one of the slot.   *)
LEMMA SlotSteps == SlotInv /\ [Next]_vars => SlotInv' /\ SlotStep
<1> SUFFICES ASSUME SlotInv, [Next]_vars PROVE SlotInv' /\ SlotStep
  OBVIOUS
<1>1. TypeOK' /\ HandlerInv'
  BY TypeSteps DEF SlotInv, TypeInv
<1>2. CASE Next
  BY <1>1, <1>2, SubmitSteps, WorkerSteps, EditSteps DEF Next
<1>3. CASE UNCHANGED vars
  BY <1>1, <1>3 DEF vars, SlotInv, RequestPlace, MessagePlace, OneMessageEach, WorkerPlace,
     OthersIdle, SlotStep, Holder, Over, At, Busy
<1> QED BY <1>2, <1>3

(* Initially no request has begun, no message is queued, no worker runs.    *)
LEMMA SlotInitially == Init => SlotInv /\ Slot!Init
<1> SUFFICES ASSUME Init PROVE SlotInv /\ Slot!Init
  OBVIOUS
<1>1. TypeOK /\ HandlerInv
  BY TypeInitially DEF TypeInv
<1>2. Holder = None
  <2>1. PICK o : project = Fresh \/ project = [Fresh EXCEPT !.status = "iac", !.approved = o]
    BY DEF Init
  <2>2. Fresh.slot[Stage] = None
    BY StageFacts DEF Fresh
  <2>3. [Fresh EXCEPT !.status = "iac", !.approved = o].slot = Fresh.slot
    BY DEF Fresh
  <2> QED BY <2>1, <2>2, <2>3 DEF Holder
<1>3. /\ \A t \in Tasks : task[t].status = "absent" /\ api[t].pc = "idle"
      /\ \A s \in Stages : queue[s] = <<>> /\ worker[s].pc = "idle"
  BY DEF Init
<1>4. Over = {}
  BY <1>3 DEF Over, TerminalStatus
<1>5. \A i \in 1 .. Len(queue[Stage]) : FALSE
  BY <1>3, StageFacts, EmptySeq
<1> QED BY <1>1, <1>2, <1>3, <1>4, <1>5, StageFacts, NoneIsNew DEF SlotInv, RequestPlace,
        MessagePlace, OneMessageEach, WorkerPlace, OthersIdle, At, Busy, Holding, Slot!Init

(* The agreement of slot, requests, queue and worker holds throughout.      *)
THEOREM SlotAgrees == Spec => []SlotInv
  BY SlotInitially, SlotSteps, PTL DEF Spec

(* Where slot and messages agree, the slot names whatever is in flight.     *)
LEMMA SlotInvNames == SlotInv => SlotNamesOutstanding
<1> SUFFICES ASSUME SlotInv, NEW t \in Tasks, Outstanding(t)
             PROVE  project.slot[StageOf(t)] = t
  BY DEF SlotNamesOutstanding
<1>1. PICK i \in 1 .. Len(queue[Stage]) : queue[Stage][i].task = t
  BY StageFacts DEF Outstanding, Queued
<1>2. MessagePlace(i)
  BY DEF SlotInv
<1> QED BY <1>1, <1>2, StageFacts DEF MessagePlace, Holder, Outstanding, ActiveStatus,
        TerminalStatus

(* A slot that is free means that no task of the stage is in flight, and a  *)
(* slot that is taken names the only one.                                   *)
THEOREM SlotNames == Spec => []SlotNamesOutstanding
  BY SlotInvNames, SlotAgrees, PTL

(* The stage's slot, as the API and the worker use it, is an active slot.   *)
THEOREM SlotIsActiveSlot == Spec => ImplementsActiveSlot
<1>1. SlotInv /\ [Next]_vars => [Slot!Next]_<<Holder, Over>>
  BY SlotSteps DEF SlotStep
<1>2. [][Slot!Next]_<<Holder, Over>> <=> [][Slot!Next]_Slot!vars
  BY PTL DEF Slot!vars
<1> QED BY <1>1, <1>2, SlotInitially, SlotAgrees, PTL DEF Spec, ImplementsActiveSlot, Slot!Spec

(* A task takes the slot only when no other task of the stage is in flight: *)
(* the abstract slot is claimed from nobody, and a slot that nobody holds   *)
(* means that nothing is outstanding.                                       *)
THEOREM SlotIsClaimedAlone == Spec => ClaimsAlone
<1>1. ASSUME SlotInv, [Next]_vars,
             NEW t \in Tasks, NEW u \in Tasks, At(t, "created"), (At(t, "claimed"))'
      PROVE  ~Outstanding(u)
  <2>1. SlotInv' /\ SlotStep
    BY <1>1, SlotSteps
  <2>2. Holder # t /\ Holder' = t
    BY <1>1, <2>1 DEF SlotInv, RequestPlace, Holding, At
  <2>3. Holder = None
    BY <2>1, <2>2, <1>1, NoneIsNew DEF SlotStep, Slot!Next, Slot!Claim, Slot!Refuse, Slot!Release
  <2>4. SlotNamesOutstanding
    BY <1>1, SlotInvNames
  <2> QED BY <2>3, <2>4, StageFacts, NoneIsNew DEF SlotNamesOutstanding, Holder
<1>2. SlotInv /\ [Next]_vars =>
        [\A t, u \in Tasks :
           At(t, "created") /\ ~At(t, "claimed") /\ (At(t, "claimed"))'
             /\ u # t /\ StageOf(u) = StageOf(t)
             => ~Outstanding(u)]_vars
  BY <1>1
<1> QED BY <1>2, SlotAgrees, PTL DEF Spec, ClaimsAlone
=============================================================================
