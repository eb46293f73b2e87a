------------------------------ MODULE LocalWorker ------------------------------
(***************************************************************************)
(* The server of a developer's machine: the worker thread with its bounded *)
(* in-memory queue, the socket manager that tells subscribers of settled   *)
(* tasks on the event loop, and the shutdown of both.                      *)
(*                                                                         *)
(* A job is a task whose record and slot its handler has written already   *)
(* (TaskPipeline). The queue is not persisted.                             *)
(***************************************************************************)
EXTENDS Naturals, Sequences, FiniteSets

CONSTANTS
  Jobs, Sockets, Projects,
  ProjectOf,      \* the project of each job
  MaxDepth,       \* _MAX_QUEUE_DEPTH
  MaxPerKey,      \* _MAX_SUBSCRIPTIONS_PER_KEY
  MaxKeys         \* _MAX_KEYS_PER_WS

VARIABLES
  job,            \* "none", "offered", "queued", "working", "settled", "rejected"
  queue,          \* _queue
  thread,         \* of the worker: "waiting", "working", "stopped"
  server,         \* "up", "stopping", "joining", "exited", "abandoned"
  gone,           \* sockets whose client has gone
  subscribed,     \* _subscriptions and _ws_keys: <<socket, project>>
  casts,          \* the broadcasts scheduled and under way
  told            \* the last message that arrived: <<job, socket>>

workVars == << job, queue, thread >>
socketVars == << gone, subscribed, casts, told >>
localVars == << workVars, server, socketVars >>

Sentinel == "sentinel"

ASSUME LocalAssumption ==
  /\ MaxDepth \in Nat \ {0} /\ MaxPerKey \in Nat /\ MaxKeys \in Nat
  /\ IsFiniteSet(Sockets) /\ IsFiniteSet(Projects)
  /\ ProjectOf \in [Jobs -> Projects]
  /\ Sentinel \notin Jobs

Running == server \in {"up", "stopping", "joining"}
NoCast == [at |-> "none", left |-> {}]

LocalInit ==
  /\ job = [j \in Jobs |-> "none"] /\ queue = <<>> /\ thread = "waiting" /\ server = "up"
  /\ gone = {} /\ subscribed = {} /\ told = <<>>
  /\ casts = [j \in Jobs |-> NoCast]

-----------------------------------------------------------------------------
(* enqueue waits for room, for five seconds.                                *)
Offer(j) ==
  /\ server = "up" /\ job[j] = "none"
  /\ job' = [job EXCEPT ![j] = "offered"]
  /\ UNCHANGED << queue, thread, server, socketVars >>

Enqueue(j) ==
  /\ job[j] = "offered" /\ Len(queue) < MaxDepth
  /\ job' = [job EXCEPT ![j] = "queued"] /\ queue' = Append(queue, j)
  /\ UNCHANGED << thread, server, socketVars >>

Full(j) ==
  /\ job[j] = "offered" /\ Len(queue) = MaxDepth
  /\ job' = [job EXCEPT ![j] = "rejected"]
  /\ UNCHANGED << queue, thread, server, socketVars >>

-----------------------------------------------------------------------------
(* The worker's loop.                                                       *)
Take ==
  /\ Running /\ thread = "waiting" /\ queue # <<>>
  /\ queue' = Tail(queue)
  /\ IF Head(queue) = Sentinel THEN thread' = "stopped" /\ UNCHANGED job
     ELSE thread' = "working" /\ job' = [job EXCEPT ![Head(queue)] = "working"]
  /\ UNCHANGED << server, socketVars >>

(* A mutant: the thread ends with the task that raises.                     *)
FinishOrDie(j) ==
  /\ Running /\ job[j] = "working"
  /\ job' = [job EXCEPT ![j] = "settled"]
  /\ thread' \in {"waiting", "stopped"}
  /\ casts' \in {[casts EXCEPT ![j].at = "scheduled"], casts}
  /\ UNCHANGED << queue, server, gone, subscribed, told >>

(* A mutant: the thread also looks at the event that shutdown sets.         *)
FinishUnlessStopping(j) ==
  /\ Running /\ job[j] = "working"
  /\ job' = [job EXCEPT ![j] = "settled"]
  /\ thread' = IF server = "up" THEN "waiting" ELSE "stopped"
  /\ casts' \in {[casts EXCEPT ![j].at = "scheduled"], casts}
  /\ UNCHANGED << queue, server, gone, subscribed, told >>

(* Processed, or marked as failed when that raises; either way the event    *)
(* loop is asked to tell the subscribers, unless storing the failure raises *)
(* as well, which is swallowed.                                             *)
Finish(j) ==
  /\ Running /\ job[j] = "working"
  /\ job' = [job EXCEPT ![j] = "settled"]
  /\ thread' = "waiting"
  /\ casts' \in {[casts EXCEPT ![j].at = "scheduled"], casts}
  /\ UNCHANGED << queue, server, gone, subscribed, told >>

WorkerWork == Take \/ \E j \in Jobs : Finish(j)

-----------------------------------------------------------------------------
(* The shutdown, when the requests have been answered: the sentinel needs   *)
(* room in the queue and gets no timeout, the thread is given 30 seconds.   *)
(* Until then the event loop stands still.                                  *)
Stop ==
  /\ server = "up" /\ \A j \in Jobs : job[j] # "offered"
  /\ server' = IF thread = "stopped" THEN "exited" ELSE "stopping"
  /\ UNCHANGED << workVars, socketVars >>

PutSentinel ==
  /\ server = "stopping" /\ Len(queue) < MaxDepth
  /\ queue' = Append(queue, Sentinel) /\ server' = "joining"
  /\ UNCHANGED << job, thread, socketVars >>

Joined ==
  /\ server = "joining" /\ thread = "stopped"
  /\ server' = "exited"
  /\ UNCHANGED << workVars, socketVars >>

JoinTimesOut ==
  /\ server = "joining" /\ thread # "stopped"
  /\ server' = "abandoned"
  /\ UNCHANGED << workVars, socketVars >>

-----------------------------------------------------------------------------
(* subscribe, with its two limits: beyond them it does nothing.             *)
SubscribeLocal(s, p) ==
  /\ server = "up" /\ s \notin gone /\ << s, p >> \notin subscribed
  /\ Cardinality({x \in Sockets : << x, p >> \in subscribed}) < MaxPerKey
  /\ Cardinality({q \in Projects : << s, q >> \in subscribed}) < MaxKeys
  /\ subscribed' = subscribed \cup {<< s, p >>}
  /\ UNCHANGED << workVars, server, gone, casts, told >>

Without(s) == {x \in subscribed : x[1] # s}

(* A subscriber goes; the endpoint hears of it, or a broadcast does first.    *)
Gone(s) ==
  /\ server = "up" /\ s \notin gone /\ Without(s) # subscribed
  /\ gone' = gone \cup {s}
  /\ UNCHANGED << workVars, server, subscribed, casts, told >>

Unsubscribe(s) ==
  /\ server = "up" /\ s \in gone /\ Without(s) # subscribed
  /\ subscribed' = Without(s)
  /\ UNCHANGED << workVars, server, gone, casts, told >>

(* _broadcast takes the sockets as they are when it begins, and yields with *)
(* every message it sends.                                                  *)
CastBegins(j) ==
  /\ server = "up" /\ casts[j].at = "scheduled"
  /\ casts' = [casts EXCEPT ![j] =
       [at |-> "sending", left |-> {s \in Sockets : << s, ProjectOf[j] >> \in subscribed}]]
  /\ UNCHANGED << workVars, server, gone, subscribed, told >>

(* A mutant: the socket that fails ends the broadcast.                      *)
CastUntilFailure(j) ==
  /\ server = "up"
  /\ \E s \in casts[j].left :
       IF s \in gone
       THEN subscribed' = Without(s) /\ casts' = [casts EXCEPT ![j].left = {}] /\ UNCHANGED told
       ELSE told' = << j, s >> /\ casts' = [casts EXCEPT ![j].left = @ \ {s}]
            /\ UNCHANGED subscribed
  /\ UNCHANGED << workVars, server, gone >>

CastSend(j) ==
  /\ server = "up"
  /\ \E s \in casts[j].left :
       /\ casts' = [casts EXCEPT ![j].left = @ \ {s}]
       /\ \/ s \in gone /\ subscribed' = Without(s) /\ UNCHANGED told
          \/ s \notin gone /\ told' = << j, s >> /\ UNCHANGED subscribed
  /\ UNCHANGED << workVars, server, gone >>

-----------------------------------------------------------------------------
LocalNext ==
  \/ \E j \in Jobs : Offer(j) \/ Enqueue(j) \/ Full(j) \/ CastBegins(j) \/ CastSend(j)
  \/ WorkerWork
  \/ Stop \/ PutSentinel \/ Joined \/ JoinTimesOut
  \/ \E s \in Sockets : Gone(s) \/ Unsubscribe(s) \/ \E p \in Projects : SubscribeLocal(s, p)

LocalTypeOK ==
  /\ \A j \in Jobs : job[j] \in {"none", "offered", "queued", "working", "settled", "rejected"}
  /\ Len(queue) <= MaxDepth
  /\ thread \in {"waiting", "working", "stopped"}
  /\ server \in {"up", "stopping", "joining", "exited", "abandoned"}
  /\ \A p \in Projects : Cardinality({s \in Sockets : << s, p >> \in subscribed}) <= MaxPerKey
  /\ \A s \in Sockets : Cardinality({p \in Projects : << s, p >> \in subscribed}) <= MaxKeys
  /\ told \in (Jobs \X Sockets) \cup {<<>>}

(* What was taken into the queue is processed, a shutdown in between or     *)
(* not, unless the server gives up on its thread. (The sentinel is behind   *)
(* every task in the queue, and no task that raises ends the loop.)         *)
QueueServed == []<>(server = "abandoned" \/ \A j \in Jobs : job[j] # "queued")

(* A shutdown ends, also one that has to wait for room for its sentinel.    *)
(* (shutdown against _worker_loop on a full queue.)                         *)
ShutdownEnds == server = "stopping" ~> server \in {"exited", "abandoned"}

(* A step that takes a socket off a broadcast's list tells it, or leaves it *)
(* unsubscribed. (_broadcast, with every other handler in between.)         *)
TellsOrDrops ==
  \A j \in Jobs : \A s \in casts[j].left \ casts'[j].left :
    told' = << j, s >> \/ << s, ProjectOf[j] >> \notin subscribed'

(* Whoever a broadcast has found is told, unless it is unsubscribed or the  *)
(* server stops: the failure of one send is not the others' loss, and       *)
(* sockets come and go in between. (_broadcast.)                            *)
AllTold ==
  /\ [][TellsOrDrops]_localVars
  /\ []<>(server # "up" \/ \A j \in Jobs : casts[j].left = {})
=============================================================================
