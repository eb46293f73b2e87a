----------------------------- MODULE Interview ------------------------------
(***************************************************************************)
(* One project's interview: a browser that sends one message at a time,    *)
(* the servers its requests are routed to, the plan objects in their       *)
(* memory, and the copy of the plan in S3.                                 *)
(*                                                                         *)
(* A turn is a coroutine that hands each model call to a thread and waits  *)
(* for it with a timeout. The thread works on the plan object of the       *)
(* server's cache, and goes on doing so when nobody waits for it any more. *)
(* One step is what runs between two awaits, or one stretch of a thread    *)
(* between its start, its model call and its end.                          *)
(***************************************************************************)
EXTENDS QuestionPlan, TLC

CONSTANTS
  Servers,
  Turns,      (* request slots: a bound on the threads alive at once        *)
  PlanIds,    (* identities of plan objects in memory, one more than are in *)
              (* use at once                                                *)
  MaxMessages, (* bound: messages sent                                      *)
  Writes,     (* outcomes of a save; a failed one is only logged            *)
  Timeouts,   (* requests may be given up while their thread runs on        *)
  Restarts,   (* servers may restart and responses may be lost              *)
  None

ASSUME SlotsFinite ==
  /\ IsFiniteSet(Servers) /\ IsFiniteSet(Turns) /\ IsFiniteSet(PlanIds)
  /\ None \notin Turns /\ None \notin PlanIds /\ None \notin Servers
ASSUME SwitchesBoolean ==
  /\ Writes \subseteq BOOLEAN /\ Writes # {}
  /\ Timeouts \in BOOLEAN /\ Restarts \in BOOLEAN /\ MaxMessages \in Nat

VARIABLES
  heap,         (* the plan objects, NoPlan where an identity is free       *)
  cache,        (* _cache of each server: a plan object or None             *)
  s3,           (* interview_plan.json                                      *)
  turn,         (* the request and the thread of each slot                  *)
  client,       (* what the browser shows and which request it waits for    *)
  sent,         (* messages sent                                            *)
  requirements  (* fields of the requirements step in the project store     *)

session == <<heap, cache, s3, sent, requirements>>
vars == <<heap, cache, s3, turn, client, sent, requirements>>

(* `exact' (history): the saves of the response that the browser shows had  *)
(* succeeded, and no abandoned thread was there to change the plan.         *)
Idle == [pc |-> "idle", server |-> None, plan |-> None, question |-> 0,
         about |-> NoField, exact |-> FALSE, attached |-> FALSE,
         settled |-> FALSE, told |-> {}]

Threads == {"planning", "starting", "asking", "replanning"}
Places == Threads \cup {"idle", "planned", "executed", "deviated", "replying"}

(* The opening message is about no field.                                   *)
NewClient == [waiting |-> None, about |-> NoField, exact |-> FALSE,
              told |-> {}, finished |-> FALSE]

Init ==
  /\ heap = [i \in PlanIds |-> NoPlan]
  /\ cache = [s \in Servers |-> None]
  /\ s3 = NoPlan
  /\ turn = [t \in Turns |-> Idle]
  /\ client = NewClient
  /\ sent = 0
  /\ requirements = {}

(* The objects that a cache or a turn still refers to; the rest is freed.   *)
Referenced(c, tn) == {c[s] : s \in Servers} \cup {tn[t].plan : t \in Turns}
Sweep(h, c, tn) == [i \in PlanIds |-> IF i \in Referenced(c, tn) THEN h[i] ELSE NoPlan]

Fresh == CHOOSE i \in PlanIds : i \notin Referenced(cache, turn)
HasFresh == \E i \in PlanIds : i \notin Referenced(cache, turn)

-----------------------------------------------------------------------------
(* The browser.                                                             *)

(* A request that failed, timed out or lost its response: the message is to *)
(* be sent again, and the question shown stays the same.                    *)
ShowError == [client EXCEPT !.waiting = None]

Fails(t) == IF client.waiting = t THEN ShowError ELSE client

(* A thread whose request is given up.                                      *)
Orphan(r) == [r EXCEPT !.attached = FALSE, !.exact = FALSE, !.about = NoField]

(* plan_cache.get: the plan in memory, or the one loaded from S3, or none.  *)
GetPlan(s, found) ==
  \/ cache[s] # None /\ found = cache[s] /\ UNCHANGED <<heap, cache>>
  \/ /\ cache[s] = None /\ s3 # NoPlan
     /\ HasFresh /\ found = Fresh
     /\ heap' = [heap EXCEPT ![found] = s3]
     /\ cache' = [cache EXCEPT ![s] = found]
  \/ /\ cache[s] = None /\ s3 = NoPlan
     /\ found = None /\ UNCHANGED <<heap, cache>>

(* The browser sends a message about the question it shows; the request     *)
(* reaches server s, which looks the plan up.                               *)
Send(t, s) ==
  /\ client.waiting = None /\ ~client.finished
  /\ turn[t] = Idle
  /\ sent < MaxMessages /\ sent' = sent + 1
  /\ client' = [client EXCEPT !.waiting = t, !.exact = FALSE, !.told = {}]
  /\ \E found \in PlanIds \cup {None} :
       /\ GetPlan(s, found)
       /\ turn' = [turn EXCEPT ![t] =
            [Idle EXCEPT !.pc = IF found = None THEN "planning" ELSE "starting",
                         !.server = s, !.plan = found, !.about = client.about,
                         !.exact = client.exact, !.attached = TRUE]]
  /\ UNCHANGED <<s3, requirements>>

(* The page is opened again: the chat starts over, and aborts the request   *)
(* it was waiting for, which cancels the coroutine at its await. The code   *)
(* between a save and its response has no await.                            *)
Reload ==
  /\ client # NewClient
  /\ \A t \in Turns : client.waiting = t => Timeouts /\ turn[t].pc # "replying"
  /\ client' = NewClient
  /\ turn' = [t \in Turns |->
       IF t # client.waiting THEN turn[t]
       ELSE IF turn[t].pc \in Threads THEN Orphan(turn[t])
       ELSE Idle]
  /\ heap' = Sweep(heap, cache, turn')
  /\ UNCHANGED <<cache, s3, sent, requirements>>

-----------------------------------------------------------------------------
(* Threads.                                                                 *)

(* Broken variant: a thread that nobody waits for has its result used.      *)
EndsAnyway(t, pc, i) ==
  [turn EXCEPT ![t] = [Idle EXCEPT !.pc = pc, !.server = turn[t].server, !.plan = i,
                                   !.attached = turn[t].attached]]

(* A thread ends: its coroutine goes on at pc, unless it has given up.      *)
Ends(t, pc, i) ==
  [turn EXCEPT ![t] =
     IF @.attached THEN [Idle EXCEPT !.pc = pc, !.server = turn[t].server, !.plan = i,
                                     !.attached = TRUE]
     ELSE Idle]

(* generate_plan returns a new plan.                                        *)
PlanGenerated(t) ==
  /\ turn[t].pc = "planning" /\ HasFresh
  /\ \E p \in GeneratedPlans :
       /\ turn' = Ends(t, "planned", Fresh)
       /\ heap' = Sweep([heap EXCEPT ![Fresh] = p], cache, turn')
  /\ UNCHANGED <<cache, s3, client, sent, requirements>>

(* execute_turn reads the current question and calls the model with it, or  *)
(* returns at once when none is left.                                       *)
StartTurn(t) ==
  /\ turn[t].pc = "starting"
  /\ LET q == CurrentQuestion(heap[turn[t].plan])
     IN  turn' = IF q = 0 THEN Ends(t, "executed", turn[t].plan)
                 ELSE [turn EXCEPT ![t].pc = "asking", ![t].question = q]
  /\ heap' = Sweep(heap, cache, turn')
  /\ UNCHANGED <<cache, s3, client, sent, requirements>>

(* The model's reply is recorded in the plan object. A deviation without a  *)
(* reason is not followed up.                                               *)
RecordReply(t) ==
  /\ turn[t].pc = "asking"
  /\ LET i == turn[t].plan
         p == heap[i]
     IN  \E r \in Readings(p, turn[t].question) :
           /\ \/ turn' = Ends(t, "executed", i)
              \/ /\ r.deviates /\ p.replans < MaxReplans
                 /\ turn' = Ends(t, "deviated", i)
           /\ heap' = Sweep([heap EXCEPT ![i] =
                               ExecuteTurn(p, turn[t].question, r)], cache, turn')
  /\ UNCHANGED <<cache, s3, client, sent, requirements>>

(* replan returns: a new plan object from what the old one holds by then,   *)
(* or the old one when the planner gave no structured output.               *)
Replanned(t) ==
  /\ turn[t].pc = "replanning" /\ HasFresh
  /\ LET p == heap[turn[t].plan]
     IN  \/ /\ turn' = Ends(t, "planned", turn[t].plan)
            /\ heap' = Sweep(heap, cache, turn')
         \/ \E o \in Outputs :
              /\ turn' = Ends(t, "planned", Fresh)
              /\ heap' = Sweep([heap EXCEPT ![Fresh] = Replan(p, o)], cache, turn')
  /\ UNCHANGED <<cache, s3, client, sent, requirements>>

(* The model call fails or the circuit breaker rejects it: the thread       *)
(* raises, and the user is told.                                            *)
ModelFails(t) ==
  /\ turn[t].pc \in Threads
  /\ turn' = [turn EXCEPT ![t] = Idle]
  /\ client' = Fails(t)
  /\ heap' = Sweep(heap, cache, turn')
  /\ UNCHANGED <<cache, s3, sent, requirements>>

(* wait_for gives up; the thread goes on.                                   *)
Timeout(t) ==
  /\ Timeouts /\ turn[t].pc \in Threads /\ turn[t].attached
  /\ turn' = [turn EXCEPT ![t] = Orphan(@)]
  /\ client' = Fails(t)
  /\ UNCHANGED session

-----------------------------------------------------------------------------
(* The coroutine, between its awaits.                                       *)

(* A curveball: the planner is told what is known and what is missing, and  *)
(* is bound by neither.                                                     *)
StartReplan(t) ==
  /\ turn[t].pc = "deviated"
  /\ turn' = [turn EXCEPT ![t].pc = "replanning"]
  /\ UNCHANGED <<heap, cache, s3, client, sent, requirements>>

Alone(t) == \A u \in Turns \ {t} : turn[u] = Idle

(* Broken variant: the plan is saved before invalid answers are reverted.   *)
SaveUnreverted(t) ==
  /\ turn[t].pc \in {"planned", "executed"}
  /\ \E ok \in Writes :
       LET i == turn[t].plan
           p == RevertInvalid(heap[i])
       IN  /\ cache' = [cache EXCEPT ![turn[t].server] = i]
           /\ s3' = IF ok THEN heap[i] ELSE s3
           /\ turn' = [turn EXCEPT ![t].pc = "replying", ![t].told = Gathered(p),
                                  ![t].settled = ok /\ Alone(t)]
           /\ heap' = Sweep([heap EXCEPT ![i] = p], cache', turn')
  /\ UNCHANGED <<client, sent, requirements>>

(* Invalid answers are reverted, and the plan is saved in memory and in S3; *)
(* a put that fails is logged and forgotten.                                *)
SavePlan(t) ==
  /\ turn[t].pc \in {"planned", "executed"}
  /\ \E ok \in Writes :
       LET i == turn[t].plan
           p == RevertInvalid(heap[i])
       IN  /\ cache' = [cache EXCEPT ![turn[t].server] = i]
           /\ s3' = IF ok THEN p ELSE s3
           /\ turn' = [turn EXCEPT ![t].pc = "replying", ![t].told = Gathered(p),
                                  ![t].settled = ok /\ Alone(t)]
           /\ heap' = Sweep([heap EXCEPT ![i] = p], cache', turn')
  /\ UNCHANGED <<client, sent, requirements>>

(* Broken variant: requirements that are stored already are left alone.     *)
StoreOnce(gathered) ==
  IF requirements = {} /\ Blocking \subseteq gathered THEN gathered ELSE requirements

StoreRequirements(gathered) ==
  IF Blocking \subseteq gathered THEN gathered ELSE requirements

(* The requirements are stored whenever they are complete, and the response *)
(* tells the browser what was gathered and which question is next. Failing  *)
(* to store them is only logged, and the response may be lost on the way.   *)
Reply(t) ==
  /\ turn[t].pc = "replying"
  /\ \E ok \in Writes :
       /\ requirements' = IF ok THEN StoreRequirements(turn[t].told) ELSE requirements
       /\ \/ client' = [waiting |-> None,
                        about |-> CurrentField(heap[turn[t].plan]),
                        exact |-> turn[t].settled /\ ok,
                        told |-> turn[t].told,
                        finished |-> turn[t].told = Fields]
          \/ Restarts /\ client' = Fails(t)
  /\ turn' = [turn EXCEPT ![t] = Idle]
  /\ heap' = Sweep(heap, cache, turn')
  /\ UNCHANGED <<cache, s3, sent>>

-----------------------------------------------------------------------------
(* The servers.                                                             *)

(* A lookup for another session evicts this one, unused for its time to     *)
(* live: longer than any request waits.                                     *)
Evict(s) ==
  /\ Restarts /\ cache[s] # None
  /\ \A t \in Turns : turn[t].server = s => ~turn[t].attached
  /\ cache' = [cache EXCEPT ![s] = None]
  /\ heap' = Sweep(heap, cache', turn)
  /\ UNCHANGED <<s3, turn, client, sent, requirements>>

Restart(s) ==
  /\ Restarts
  /\ cache' = [cache EXCEPT ![s] = None]
  /\ turn' = [t \in Turns |-> IF turn[t].server = s THEN Idle ELSE turn[t]]
  /\ client' = IF \E t \in Turns : client.waiting = t /\ turn[t].server = s
               THEN ShowError ELSE client
  /\ heap' = Sweep(heap, cache', turn')
  /\ UNCHANGED <<s3, sent, requirements>>

Thread(t) ==
  \/ PlanGenerated(t) \/ StartTurn(t) \/ RecordReply(t)
  \/ Replanned(t) \/ ModelFails(t)
Coroutine(t) == StartReplan(t) \/ SavePlan(t) \/ Reply(t)
Turn(t) == Thread(t) \/ Coroutine(t) \/ Timeout(t)

Next ==
  \/ \E t \in Turns, s \in Servers : Send(t, s)
  \/ Reload
  \/ \E t \in Turns : Turn(t)
  \/ \E s \in Servers : Evict(s) \/ Restart(s)

Spec == Init /\ [][Next]_vars

-----------------------------------------------------------------------------
(* Properties.                                                              *)

TurnStates ==
  [pc : Places, server : Servers \cup {None}, plan : PlanIds \cup {None},
   question : Nat, about : Fields \cup {NoField}, exact : BOOLEAN,
   attached : BOOLEAN, settled : BOOLEAN,
   told : SUBSET Fields]

(* Types of the variables; a request past its lookup has a plan, and only   *)
(* threads outlive their request.                                           *)
TypeOK ==
  /\ \A i \in PlanIds : heap[i] \in Plans \cup {NoPlan}
  /\ \A s \in Servers : cache[s] = None \/ heap[cache[s]] # NoPlan
  /\ s3 \in Plans \cup {NoPlan}
  /\ turn \in [Turns -> TurnStates]
  /\ \A t \in Turns :
       /\ turn[t].pc \notin {"idle", "planning"} => heap[turn[t].plan] # NoPlan
       /\ turn[t].attached <=> client.waiting = t
       /\ turn[t].pc \notin Threads \cup {"idle"} => turn[t].attached
  /\ client.waiting \in Turns \cup {None} /\ client.about \in Fields \cup {NoField}
  /\ requirements \subseteq Fields

(* A message is taken as the answer to the question that the browser showed *)
(* when it was written, through restarts, evictions and losses, unless it   *)
(* repeats a message that failed, opens the chat, or was written while a    *)
(* thread that nobody waits for was still at work, or after a failed save   *)
(* (execute_turn works on plan.current_question(), whatever was asked).     *)
AnswersFit ==
  \A t \in Turns : turn[t].pc = "asking" /\ turn[t].exact =>
    heap[turn[t].plan].entries[turn[t].question].field = turn[t].about

(* The fields that a re-plan is allowed to lose: those its planner fills in *)
(* or asks for once more, and the details that the planner before had       *)
(* filled in (auto_filled is replaced).                                     *)
Reworked(p, q) ==
  {f \in Fields : q.filled[f] # "absent"}
  \cup {f \in Details : p.filled[f] # "absent"}
  \cup {q.entries[i].field : i \in {j \in DOMAIN q.entries : q.entries[j].round = q.replans}}

(* No write of the saved plan loses a field that it had gathered, unless    *)
(* the field is being asked again or a re-plan reworked it: not a revert,   *)
(* not the rest of a re-plan, not a thread that comes late, not a server    *)
(* that lost its memory. (Two re-plans of which the first was not saved are *)
(* not compared.)                                                           *)
AskedAgain(p) == {p.entries[i].field : i \in Pending(p)}
AnswersKept ==
  [][s3 # NoPlan /\ s3'.replans <= s3.replans + 1 =>
       Gathered(s3) \ AskedAgain(s3)
         \subseteq Gathered(s3') \cup
                   IF s3'.replans <= s3.replans THEN {} ELSE Reworked(s3, s3')]_s3

(* What the browser shows is what a server that lost its memory would go on *)
(* with: the fields it was told are gathered are in the saved plan, and the *)
(* question it shows is the one that plan asks, unless the save failed or a *)
(* thread that nobody waits for was at work.                                *)
Resumable ==
  client.exact => /\ s3 # NoPlan
                  /\ client.told \subseteq Gathered(s3)
                  /\ client.about = CurrentField(s3)

(* When the browser is told that the interview is complete, the stored      *)
(* requirements are what it was told, the optional answers given after the  *)
(* blocking ones included, unless storing them failed.                      *)
RequirementsCurrent ==
  client.exact /\ Blocking \subseteq client.told => requirements = client.told

(* The interview never runs out of questions while a field that the         *)
(* requirements cannot do without is not gathered.                          *)
AsksUntilGathered ==
  \A t \in Turns :
    turn[t].pc = "replying" /\ Pending(heap[turn[t].plan]) = {}
      => Blocking \subseteq turn[t].told

(* Threads alike.                                                           *)
Symmetry == Permutations(Turns)
=============================================================================
