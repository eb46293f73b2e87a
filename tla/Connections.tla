------------------------------ MODULE Connections ------------------------------
(***************************************************************************)
(* The deployed notification service: the Lambdas behind the WebSocket API,*)
(* the items they keep of each connection, the pipe from the table's stream*)
(* with its bridge, and the heartbeat that removes what is stale.          *)
(*                                                                         *)
(* One project of one tenant is watched. Its tasks are known by their      *)
(* number and their status; how they settle is TaskPipeline's subject.     *)
(***************************************************************************)
EXTENDS Naturals, Sequences, FiniteSets

CONSTANTS
  Conns,          \* the connections ever opened, in the order of their numbers
  Stale,          \* those of them whose page is gone and whose $disconnect was lost
  MaxTrouble      \* a bound: failed calls, lost callbacks

ASSUME ConnectionsAssumption == Stale \subseteq Conns /\ MaxTrouble \in Nat

VARIABLES
  tasks,          \* the status of each task, in the order they were created
  slot,           \* the project's active task, 0 for None
  stream,         \* changes to a terminal status that the pipe has not read
  announced,      \* tasks whose subscribers have been looked up
  socket,         \* of a connection: "new", "connecting", "open", "closed"
  request,        \* its subscription: "none", "sent", "handled", "late"
  inbox,          \* messages posted to it that the page has not handled
  items,          \* what the table holds: <<connection, sort key>>
  lagging,        \* connections whose subscription queries need not show yet
  dropped,        \* connections whose $disconnect is still to run
  bridge,         \* the invocation of the bridge
  trouble

taskVars == << tasks, slot >>
announceVars == << stream, announced, bridge >>
connVars == << socket, request, inbox >>
tableVars == << items, lagging, dropped >>
serverVars == << taskVars, announceVars, connVars, tableVars, trouble >>

Queued == "queued"
Over == "over"
NoBatch == [batch |-> <<>>, at |-> 1, looked |-> FALSE, result |-> FALSE, left |-> {}]

Trouble == trouble < MaxTrouble /\ trouble' = trouble + 1

(* A task may be under way, and other pages have left their items behind.   *)
ServerInit ==
  /\ tasks \in {<<>>, << Queued >>} /\ slot = Len(tasks)
  /\ stream = <<>> /\ announced = {} /\ bridge = NoBatch
  /\ socket = [c \in Conns |-> IF c \in Stale THEN "closed" ELSE "new"]
  /\ request = [c \in Conns |-> IF c \in Stale THEN "handled" ELSE "none"]
  /\ inbox = [c \in Conns |-> <<>>]
  /\ items = Stale \X {"CONNECTION", "SUB"} /\ lagging = {} /\ dropped = {} /\ trouble = 0

-----------------------------------------------------------------------------
(* A worker settles the task as completed or failed, which is what the      *)
(* stream shows; then it clears the slot.                                   *)
Settle ==
  /\ slot # 0 /\ tasks[slot] = Queued
  /\ tasks' = [tasks EXCEPT ![slot] = Over]
  /\ stream' = Append(stream, slot)
  /\ UNCHANGED << slot, announced, bridge, connVars, tableVars, trouble >>

Release ==
  /\ slot # 0 /\ tasks[slot] = Over
  /\ slot' = 0
  /\ UNCHANGED << tasks, announceVars, connVars, tableVars, trouble >>

-----------------------------------------------------------------------------
(* $connect, behind the authorizer: without its item there is no connection.*)
Connect(c) ==
  /\ socket[c] = "connecting"
  /\ \/ /\ socket' = [socket EXCEPT ![c] = "open"]
        /\ items' = items \cup {<< c, "CONNECTION" >>}
        /\ UNCHANGED trouble
     \/ /\ Trouble
        /\ socket' = [socket EXCEPT ![c] = "closed"]
        /\ UNCHANGED items
  /\ UNCHANGED << taskVars, announceVars, request, inbox, lagging, dropped >>

(* The network, the gateway or the client closes it; $disconnect is called, *)
(* as a rule.                                                               *)
Disconnected(c) ==
  /\ socket' = [socket EXCEPT ![c] = "closed"]
  /\ inbox' = [inbox EXCEPT ![c] = <<>>]
  /\ \/ dropped' = dropped \cup {c} /\ UNCHANGED trouble
     \/ Trouble /\ UNCHANGED dropped

Close(c) ==
  /\ socket[c] = "open"
  /\ Disconnected(c)
  /\ UNCHANGED << taskVars, announceVars, request, items, lagging >>

(* A mutant: only the connection's own item goes.                           *)
ForgetConnection(c) ==
  \/ items' = items \ {<< c, "CONNECTION" >>} /\ UNCHANGED << request, trouble >>
  \/ Trouble /\ UNCHANGED << items, request >>

(* The query for the items of c and the batch that deletes them, the same   *)
(* in the three that clean up: one step, for what is stored in between is   *)
(* kept as if it came after. The query is not a consistent read: it may not *)
(* show a new subscription, which is late then. When a call raises, that is *)
(* logged and all.                                                          *)
Forget(c) ==
  \/ items' = {i \in items : i[1] # c} /\ UNCHANGED << request, trouble >>
  \/ /\ c \in lagging /\ << c, "SUB" >> \in items
     /\ items' = items \ {<< c, "CONNECTION" >>}
     /\ request' = [request EXCEPT ![c] = "late"]
     /\ UNCHANGED trouble
  \/ Trouble /\ UNCHANGED << items, request >>

Disconnect(c) ==
  /\ c \in dropped
  /\ dropped' = dropped \ {c}
  /\ Forget(c)
  /\ UNCHANGED << taskVars, announceVars, socket, inbox, lagging >>

(* The subscribe route reads the connection's item, for its tenant; that it *)
(* is gone stops nothing. It is late when those who delete have been here.  *)
Subscribe(c) ==
  /\ request[c] = "sent"
  /\ \/ /\ items' = items \cup {<< c, "SUB" >>} /\ lagging' = lagging \cup {c}
        /\ request' = [request EXCEPT ![c] = IF << c, "CONNECTION" >> \in items THEN "handled" ELSE "late"]
        /\ UNCHANGED trouble
     \/ Trouble /\ request' = [request EXCEPT ![c] = "handled"] /\ UNCHANGED << items, lagging >>
  /\ UNCHANGED << taskVars, announceVars, socket, inbox, dropped >>

(* Queries show the subscription from now on: the index that the bridge     *)
(* reads is eventually consistent. (That a deleted one may be shown a while *)
(* longer has no effect: there is nobody to post to, and nothing to delete.)*)
CatchUp(c) ==
  /\ c \in lagging
  /\ lagging' = lagging \ {c}
  /\ UNCHANGED << taskVars, announceVars, connVars, items, dropped, trouble >>

-----------------------------------------------------------------------------
(* The pipe gives the bridge a batch of changes and waits for its answer.   *)
BridgeReceive ==
  /\ bridge = NoBatch /\ stream # <<>>
  /\ bridge' = [NoBatch EXCEPT !.batch = stream]
  /\ stream' = <<>>
  /\ UNCHANGED << taskVars, announced, connVars, tableVars, trouble >>

(* What the query of the index shows: the subscribers of the project, but   *)
(* for those that it lags behind.                                           *)
Subscribers == {c \in Conns \ lagging : << c, "SUB" >> \in items}
Current == bridge.batch[bridge.at]

(* The result of a completed task, which may be missing from the message    *)
(* when it cannot be read, or not yet, and those whom the message is for.   *)
LookUp(found) ==
  /\ bridge # NoBatch /\ ~bridge.looked
  /\ \/ bridge' = [bridge EXCEPT !.looked = TRUE, !.result = TRUE, !.left = found]
        /\ UNCHANGED trouble
     \/ Trouble
        /\ bridge' = [bridge EXCEPT !.looked = TRUE, !.result = FALSE, !.left = found]
  /\ announced' = announced \cup {Current}
  /\ UNCHANGED << taskVars, stream, connVars, tableVars >>

(* A mutant: of the query's answer only one item is taken.                  *)
LookUpOne == LookUp({c \in Subscribers : \A d \in Subscribers : d <= c})

BridgeLookUp == LookUp(Subscribers)

(* The query for the subscribers raises: the pipe halves the batch and      *)
(* gives it again from its first change on. (It gives up after three        *)
(* retries; MaxTrouble stays below that.)                                   *)
BridgeRaises ==
  LET half == (Len(bridge.batch) + 1) \div 2
  IN /\ bridge # NoBatch /\ ~bridge.looked
     /\ Trouble
     /\ bridge' = [NoBatch EXCEPT !.batch = SubSeq(bridge.batch, 1, half)]
     /\ stream' = SubSeq(bridge.batch, half + 1, Len(bridge.batch)) \o stream
     /\ UNCHANGED << taskVars, announced, connVars, tableVars >>

(* What the page makes of the message: it is the end of the task, or a bare *)
(* "completed" whose result the page has still to get.                      *)
Message == IF bridge.result THEN "over" ELSE "bare"
Deliver(c) == inbox' = [inbox EXCEPT ![c] = Append(@, Message)]
Posted(c) == bridge' = [bridge EXCEPT !.left = @ \ {c}]

(* A mutant: a connection that is gone ends the round.                      *)
PostUntilGone(c) ==
  /\ c \in bridge.left
  /\ \/ socket[c] = "open" /\ Posted(c) /\ Deliver(c) /\ UNCHANGED << request, items, trouble >>
     \/ socket[c] = "closed" /\ bridge' = [bridge EXCEPT !.left = {}] /\ Forget(c) /\ UNCHANGED inbox
     \/ Trouble /\ Posted(c) /\ UNCHANGED << request, inbox, items >>
  /\ UNCHANGED << taskVars, stream, announced, socket, lagging, dropped >>

(* One post: it arrives, or the connection is gone and its items go too, or *)
(* it fails.                                                                *)
BridgePost(c) ==
  /\ c \in bridge.left
  /\ \/ socket[c] = "open" /\ Posted(c) /\ Deliver(c) /\ UNCHANGED << request, items, trouble >>
     \/ socket[c] = "closed" /\ Posted(c) /\ Forget(c) /\ UNCHANGED inbox
     \/ Trouble /\ Posted(c) /\ UNCHANGED << request, inbox, items >>
  /\ UNCHANGED << taskVars, stream, announced, socket, lagging, dropped >>

BridgeNext ==
  /\ bridge.looked /\ bridge.left = {}
  /\ bridge' = IF bridge.at = Len(bridge.batch) THEN NoBatch
               ELSE [NoBatch EXCEPT !.batch = bridge.batch, !.at = bridge.at + 1]
  /\ UNCHANGED << taskVars, stream, announced, connVars, tableVars, trouble >>

-----------------------------------------------------------------------------
(* The scheduled heartbeat pings every connection that has its item: those  *)
(* that are gone lose their items, to the others nothing happens.           *)
HeartbeatPost(c) ==
  /\ << c, "CONNECTION" >> \in items /\ socket[c] = "closed"
  /\ Forget(c)
  /\ UNCHANGED << taskVars, announceVars, socket, inbox, lagging, dropped >>

-----------------------------------------------------------------------------
ServerTypeOK ==
  /\ slot \in 0 .. Len(tasks)
  /\ \A i \in DOMAIN tasks : tasks[i] \in {Queued, Over}
  /\ announced \subseteq DOMAIN tasks
  /\ \A c \in Conns : /\ socket[c] \in {"new", "connecting", "open", "closed"}
                      /\ request[c] \in {"none", "sent", "handled", "late"}
  /\ items \subseteq Conns \X {"CONNECTION", "SUB"}
  /\ lagging \cup dropped \cup bridge.left \subseteq Conns
  /\ trouble \in 0 .. MaxTrouble
=============================================================================
