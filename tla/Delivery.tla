-------------------------------- MODULE Delivery --------------------------------
(***************************************************************************)
(* How the word that a task has settled reaches those who wait for it: in  *)
(* the cloud from the table's stream over the bridge to the wizard's page, *)
(* which polls while it has no WebSocket (Wizard, Connections); on a       *)
(* developer's machine from the worker thread over the event loop          *)
(* (LocalWorker). The settings choose between the two.                     *)
(***************************************************************************)
EXTENDS Wizard, LocalWorker

VARIABLE mode     \* "cloud" or "local"

vars == << mode, serverVars, pageVars, localVars >>

Init == mode \in {"cloud", "local"} /\ ServerInit /\ WizardInit /\ LocalInit

-----------------------------------------------------------------------------
(* A page that waits on its WebSocket misses what is announced while the    *)
(* index does not show its subscription, or in a post to it that fails. It  *)
(* is not for the bridge to say: a subscriber that the index shows is told. *)
Misses ==
  /\ loading /\ connected
  /\ \/ announced' # announced /\ conn \notin Subscribers
     \/ trouble' # trouble /\ conn \in bridge.left /\ conn \notin bridge'.left

OfServer(step) ==
  /\ mode = "cloud" /\ step
  /\ missed' = (missed \/ Misses)
  /\ UNCHANGED << page, hydration, loading, waiting, call, pollVars, wsVars, mode, localVars >>

OfPage(step) == mode = "cloud" /\ step /\ UNCHANGED << mode, localVars >>

OfLocal(step) == mode = "local" /\ step /\ UNCHANGED << mode, serverVars, pageVars >>

BridgeWork ==
  \/ BridgeReceive \/ BridgeLookUp \/ BridgeRaises \/ BridgeNext
  \/ \E c \in Conns : BridgePost(c)

ConnWork(c) ==
  Connect(c) \/ Disconnect(c) \/ Subscribe(c) \/ CatchUp(c) \/ HeartbeatPost(c)

CloudNext ==
  \/ OfServer(Settle) \/ OfServer(Release)
  \/ \E c \in Conns : OfServer(ConnWork(c)) \/ OfServer(Close(c))
  \/ OfServer(BridgeWork)
  \/ OfPage(User) \/ OfPage(Browser) \/ OfPage(OpenSocket)
  \/ \E k \in Chains : OfPage(PollWork(k))

Next == CloudNext \/ OfLocal(LocalNext)

(* The browser with its reconnections, the Lambdas that were called, the    *)
(* index, the pipe, the schedule of the heartbeat, the worker thread and    *)
(* the event loop go on. Users need not do anything, tasks need not settle, *)
(* and a connection may be refused.                                         *)
Fairness ==
  /\ WF_vars(OfPage(Browser)) /\ WF_vars(OfPage(OpenSocket))
  /\ \A k \in Chains : WF_vars(OfPage(PollWork(k)))
  /\ WF_vars(OfServer(Release))
  /\ \A c \in Conns : WF_vars(OfServer(ConnWork(c)))
  /\ WF_vars(OfServer(BridgeWork))
  /\ WF_vars(OfLocal(WorkerWork))
  /\ WF_vars(OfLocal(PutSentinel)) /\ WF_vars(OfLocal(Joined \/ JoinTimesOut))
  /\ \A j \in Jobs : WF_vars(OfLocal(CastBegins(j))) /\ WF_vars(OfLocal(CastSend(j)))

Spec == Init /\ [][Next]_vars /\ Fairness

(* Every part of the state has its type; a chain's attempts stay below the  *)
(* limit, and the local queue and subscriptions within theirs.              *)
TypeOK == ServerTypeOK /\ WizardTypeOK /\ LocalTypeOK

(* Nothing is kept of a connection that has closed, unless its subscription *)
(* was stored, or shown, after those who delete its items had looked for    *)
(* them. (ws_disconnect, the clean-up of the bridge and of the heartbeat    *)
(* against ws_subscribe, when calls of the first two are lost.)             *)
DeadForgotten ==
  []<>(mode = "cloud" =>
         \A c \in Conns : socket[c] = "closed" => request[c] = "late" \/ \A i \in items : i[1] # c)
=============================================================================
