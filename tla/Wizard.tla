--------------------------------- MODULE Wizard ---------------------------------
(***************************************************************************)
(* The wizard's page of the watched project: it submits a task, waits for  *)
(* it by polling or over its WebSocket, and may be left at any time.       *)
(*                                                                         *)
(* A behaviour is about one stage, the design or the documentation, and    *)
(* where these differ it does as either of them. (The IaC stage polls in a *)
(* view of its own.) It is about one visit, too: a page that is opened     *)
(* again is a behaviour that begins with the task under way.               *)
(***************************************************************************)
EXTENDS Connections

CONSTANTS
  MaxTasks,       \* a bound: tasks ever submitted
  MaxPolls        \* maxAttempts of usePollTask

ASSUME WizardAssumption == MaxTasks \in Nat /\ MaxPolls \in Nat \ {0}

VARIABLES
  page,           \* "hydrating", "read", "up", "left"
  hydration,      \* the task that the state just read says to wait for, or 0
  loading,
  waiting,        \* designTaskId or docsTaskId, 0 for null
  call,           \* the submission: "none", "sent", "accepted", "refused"
  chains,         \* every chain of poll() calls
  timer,          \* whose timeout timerRef holds, if it has not fired
  conn,           \* wsRef
  connected,      \* wsConnectedRef
  missed          \* what the page waits for was, or may have been, said in vain

pollVars == << chains, timer >>
wsVars == << conn, connected >>
pageVars == << page, hydration, loading, waiting, call, pollVars, wsVars, missed >>

NoConn == 0
Off == [at |-> "off", attempt |-> 0]
(* A chain is started by the answer to the submission, and by the effect    *)
(* that watches the id of the task: as a rule by both.                      *)
Chains == (1 .. MaxTasks) \X {"call", "effect"}
NoChain == << 0, "none" >>

WizardInit ==
  /\ page = "hydrating" /\ hydration = 0 /\ loading = FALSE /\ waiting = 0 /\ call = "none"
  /\ chains = [k \in Chains |-> Off] /\ timer = NoChain
  /\ conn = NoConn /\ connected = FALSE /\ missed = FALSE

-----------------------------------------------------------------------------
(* poll(id), which returns at once while the WebSocket is connected.        *)
Started(t, ways) ==
  IF connected THEN chains
  ELSE [k \in Chains |-> IF k[1] = t /\ k[2] \in ways THEN [Off EXCEPT !.at = "fetch"] ELSE chains[k]]

(* stopPolling knows of one timeout only, and of no call under way.         *)
StopPolling ==
  /\ chains' = IF timer # NoChain /\ chains[timer].at = "timer"
               THEN [chains EXCEPT ![timer] = Off] ELSE chains
  /\ timer' = NoChain

(* The task update for a result or a failure.                               *)
Ended == loading' = FALSE /\ waiting' = 0 /\ missed' = FALSE
Waits == UNCHANGED << loading, waiting, missed >>

-----------------------------------------------------------------------------
(* Opening the page: its state is read, and given to the reducer later. The *)
(* active task counts for nothing when the step has a result already, be it *)
(* an older one, or when the read fails.                                    *)
HydrateRead ==
  /\ page = "hydrating"
  /\ page' = "read" /\ hydration' \in {slot, 0}
  /\ UNCHANGED << loading, waiting, call, pollVars, wsVars, missed, serverVars >>

HydrateDispatch ==
  /\ page = "read"
  /\ page' = "up" /\ hydration' = 0
  /\ IF hydration = 0 THEN UNCHANGED << loading, waiting, chains, missed >>
     ELSE /\ loading' = TRUE /\ waiting' = hydration
          /\ chains' = Started(hydration, {"effect"})
          /\ missed' = (connected /\ hydration \in announced)
  /\ UNCHANGED << call, timer, wsVars, serverVars >>

(* Leaving it, also right after a submission, which the page does by itself:*)
(* the hooks are unmounted. Polling is stopped as far as stopPolling does   *)
(* that, and the socket is closed without its handlers; the ref that says   *)
(* whether it is connected keeps what it said, for the chains that go on.   *)
(* Loading and waiting are nobody's from here on.                           *)
Leave ==
  /\ page # "left"
  /\ page' = "left" /\ hydration' = 0
  /\ loading' = FALSE /\ waiting' = 0 /\ missed' = FALSE
  /\ StopPolling
  /\ conn' = NoConn
  /\ IF conn # NoConn /\ socket[conn] \in {"connecting", "open"} THEN Disconnected(conn)
     ELSE UNCHANGED << socket, inbox, dropped, trouble >>
  /\ UNCHANGED << call, connected, taskVars, announceVars, request, items, lagging >>

-----------------------------------------------------------------------------
(* proceedToDesign, requestRedesign and generateDocs; the last forgets the  *)
(* task that it was waiting for.                                            *)
Submit ==
  /\ page = "up" /\ ~loading /\ call = "none" /\ Len(tasks) < MaxTasks
  /\ loading' = TRUE /\ call' = "sent" /\ missed' = FALSE
  /\ waiting' \in {waiting, 0}
  /\ UNCHANGED << page, hydration, pollVars, wsVars, serverVars >>

(* The API takes a task at a time; it refuses for other reasons as well     *)
(* (TaskPipeline, CircuitBreaker), and the call may fail.                   *)
SubmitServer ==
  /\ call = "sent"
  /\ \/ /\ slot = 0
        /\ tasks' = Append(tasks, Queued) /\ slot' = Len(tasks) + 1
        /\ call' = "accepted"
     \/ call' = "refused" /\ UNCHANGED << tasks, slot >>
  /\ UNCHANGED << page, hydration, loading, waiting, pollVars, wsVars, missed,
                  announceVars, connVars, tableVars, trouble >>

(* The answer. The call polls wherever the page has got to; the effect does *)
(* while the page is there.                                                 *)
SubmitAccepted ==
  /\ call = "accepted"
  /\ call' = "none"
  /\ \/ /\ page = "up" /\ waiting' = Len(tasks)
        /\ chains' = Started(Len(tasks), {"call", "effect"})
        /\ missed' = (connected /\ Len(tasks) \in announced)
     \/ /\ page = "left"
        /\ chains' = Started(Len(tasks), {"call"})
        /\ UNCHANGED << waiting, missed >>
  /\ UNCHANGED << page, hydration, loading, timer, wsVars, serverVars >>

SubmitRefused ==
  /\ call = "refused"
  /\ call' = "none" /\ loading' = FALSE /\ missed' = FALSE
  /\ waiting' \in {waiting, 0}
  /\ UNCHANGED << page, hydration, pollVars, wsVars, serverVars >>

-----------------------------------------------------------------------------
(* The answer to a poll. Completed, failed and an error all end the wait.   *)
PollGot(k) ==
  /\ chains[k].at = "fetch"
  /\ \/ /\ tasks[k[1]] = Queued
        /\ chains' = [chains EXCEPT ![k].at = "timer"] /\ timer' = k
        /\ Waits /\ UNCHANGED trouble
     \/ /\ \/ tasks[k[1]] = Over /\ UNCHANGED trouble
           \/ Trouble
        /\ chains' = [chains EXCEPT ![k] = Off]
        /\ Ended /\ UNCHANGED timer
  /\ UNCHANGED << page, hydration, call, wsVars,
                  taskVars, announceVars, connVars, tableVars >>

(* A mutant: the next poll is given the attempt of the last.                *)
PollAgain(k) ==
  /\ chains[k].at = "timer"
  /\ timer' = IF timer = k THEN NoChain ELSE timer
  /\ chains' = [chains EXCEPT ![k].at = IF connected THEN "off" ELSE "fetch"]
  /\ UNCHANGED << page, hydration, loading, waiting, call, wsVars, missed, serverVars >>

(* A mutant: one poll more than maxAttempts.                                *)
PollTooOften(k) ==
  /\ chains[k].at = "timer"
  /\ timer' = IF timer = k THEN NoChain ELSE timer
  /\ \/ /\ (connected \/ chains[k].attempt >= MaxPolls)
        /\ chains' = [chains EXCEPT ![k] = Off] /\ Ended
     \/ /\ ~connected /\ chains[k].attempt < MaxPolls
        /\ chains' = [chains EXCEPT ![k].at = "fetch", ![k].attempt = @ + 1] /\ Waits
  /\ UNCHANGED << page, hydration, call, wsVars, serverVars >>

(* The timeout: a WebSocket has taken over, or the polls are used up, or    *)
(* there is another.                                                        *)
PollTimer(k) ==
  /\ chains[k].at = "timer"
  /\ timer' = IF timer = k THEN NoChain ELSE timer
  /\ \/ /\ connected
        /\ chains' = [chains EXCEPT ![k] = Off] /\ Waits
     \/ /\ ~connected /\ chains[k].attempt + 1 >= MaxPolls
        /\ chains' = [chains EXCEPT ![k] = Off] /\ Ended
     \/ /\ ~connected /\ chains[k].attempt + 1 < MaxPolls
        /\ chains' = [chains EXCEPT ![k].at = "fetch", ![k].attempt = @ + 1]
        /\ Waits
  /\ UNCHANGED << page, hydration, call, wsVars, serverVars >>

PollWork(k) == PollGot(k) \/ PollTimer(k)

-----------------------------------------------------------------------------
(* connect(), on mount and when the timer of a reconnection is up; the      *)
(* twentieth in a row is the last, which the connections run out before.    *)
OpenSocket ==
  /\ page # "left" /\ conn = NoConn
  /\ \E c \in Conns :
       /\ socket[c] = "new" /\ \A d \in Conns : d < c => socket[d] # "new"
       /\ conn' = c
       /\ socket' = [socket EXCEPT ![c] = "connecting"]
  /\ UNCHANGED << page, hydration, loading, waiting, call, pollVars, connected, missed,
                  taskVars, announceVars, request, inbox, tableVars, trouble >>

(* It is open: the page subscribes, and stops polling from here on.         *)
OnOpen ==
  /\ conn # NoConn /\ ~connected /\ socket[conn] = "open"
  /\ connected' = TRUE
  /\ request' = [request EXCEPT ![conn] = "sent"]
  /\ StopPolling
  /\ missed' = (missed \/ (loading /\ waiting \in announced))
  /\ UNCHANGED << page, hydration, loading, waiting, call, conn,
                  taskVars, announceVars, socket, inbox, tableVars, trouble >>

(* A message is taken for the task the page waits for, whatever its number. *)
(* A design without its result is fetched, in vain when that fails or when  *)
(* the page waits for another; documents without it change nothing.         *)
Fetchable == waiting # 0 /\ tasks[waiting] = Over

OnMessage ==
  /\ conn # NoConn /\ connected /\ inbox[conn] # <<>>
  /\ \/ /\ Head(inbox[conn]) = "over"
        /\ Ended
     \/ /\ Head(inbox[conn]) = "bare"
        /\ \/ Fetchable /\ Ended
           \/ missed' = loading /\ UNCHANGED << loading, waiting >>
  /\ inbox' = [inbox EXCEPT ![conn] = Tail(@)]
  /\ StopPolling
  /\ UNCHANGED << page, hydration, call, wsVars,
                  taskVars, announceVars, socket, request, tableVars, trouble >>

(* onclose: polling is not resumed.                                         *)
OnClose ==
  /\ conn # NoConn /\ socket[conn] = "closed"
  /\ conn' = NoConn /\ connected' = FALSE
  /\ missed' = (missed \/ (connected /\ loading))
  /\ UNCHANGED << page, hydration, loading, waiting, call, pollVars, serverVars >>

-----------------------------------------------------------------------------
(* What the user does, and what the browser does by itself.                 *)
User == Leave \/ Submit
Browser ==
  \/ HydrateRead \/ HydrateDispatch \/ SubmitServer \/ SubmitAccepted \/ SubmitRefused
  \/ OnOpen \/ OnMessage \/ OnClose

WizardTypeOK ==
  /\ page \in {"hydrating", "read", "up", "left"}
  /\ {hydration, waiting} \subseteq 0 .. Len(tasks)
  /\ call \in {"none", "sent", "accepted", "refused"}
  /\ {loading, connected, missed} \subseteq BOOLEAN
  /\ \A k \in Chains :
       /\ chains[k].at \in {"off", "fetch", "timer"}
       /\ chains[k].attempt \in 0 .. MaxPolls - 1
  /\ timer \in Chains \cup {NoChain} /\ conn \in Conns \cup {NoConn}

(* Polling comes to an end, task or no task, also of the chains that go on  *)
(* when the page has been left. (usePollTask's maxAttempts, with two chains *)
(* for a task, stopPolling that knows of one, and attempts counted along    *)
(* each chain.)                                                             *)
PollsEnd == []<>(\A k \in Chains : chains[k].at = "off")

(* A page that shows its spinner stops, provided that tasks settle, and     *)
(* unless it missed the word: said before the index showed its subscription,*)
(* in a post that failed, without the result, or while its socket was lost, *)
(* which nothing replaces by polling. (useWizardState with the bridge: a    *)
(* page that the index shows and that stays connected is told.)             *)
LoadingEnds ==
  ([]<>(\A i \in DOMAIN tasks : tasks[i] # Queued)) => (loading ~> (~loading \/ missed))

(* A page that waits for a task and has lost its WebSocket polls, or has    *)
(* another, or waits no more: "On WS disconnect, polling resumes            *)
(* automatically". (docs/design-agent-design.md:730; onclose of             *)
(* useWebSocket only connects again, and no effect starts a poll.)          *)
FallbackPolls ==
  (page = "up" /\ loading /\ waiting # 0 /\ ~connected)
     ~> (~loading \/ connected \/ \E k \in Chains : chains[k].at # "off")
=============================================================================
