----------------------------- MODULE DeliveryProofs -----------------------------
(***************************************************************************)
(* Types of the deployed service and of the page, for any number of        *)
(* connections, tasks, polls and faults; and of the local worker, for any  *)
(* number of tasks, sockets and projects, the limits of its state, the     *)
(* order of its queue, and what a broadcast owes to those it has found.    *)
(* The two modes share no state: a step of one leaves the other unchanged. *)
(***************************************************************************)
EXTENDS Delivery, FiniteSetTheorems, SequenceTheorems, TLAPS

Entries == Jobs \cup {Sentinel}

QueueTypes ==
  /\ job \in [Jobs -> {"none", "offered", "queued", "working", "settled", "rejected"}]
  /\ queue \in Seq(Entries)
  /\ Len(queue) <= MaxDepth
  /\ thread \in {"waiting", "working", "stopped"}
  /\ server \in {"up", "stopping", "joining", "exited", "abandoned"}

SocketTypes ==
  /\ gone \subseteq Sockets
  /\ subscribed \subseteq Sockets \X Projects
  /\ casts \in [Jobs -> [at : {"none", "scheduled", "sending"}, left : SUBSET Sockets]]
  /\ told \in (Jobs \X Sockets) \cup {<<>>}

(* The subscribers of a project, and the projects of a socket.              *)
Of(p) == {s \in Sockets : << s, p >> \in subscribed}
By(s) == {p \in Projects : << s, p >> \in subscribed}

Limits ==
  /\ \A p \in Projects : Cardinality(Of(p)) <= MaxPerKey
  /\ \A s \in Sockets : Cardinality(By(s)) <= MaxKeys

(* The sentinel comes last, after all that was accepted: nothing is offered *)
(* from the shutdown on, and the thread stops at the end of its queue.      *)
QueueOrder ==
  /\ \A i \in 1 .. Len(queue) :
       queue[i] = Sentinel => i = Len(queue) /\ server \notin {"up", "stopping"}
  /\ thread = "stopped" => queue = <<>> /\ server \notin {"up", "stopping"}
  /\ \A j \in Jobs : job[j] = "queued" => \E i \in 1 .. Len(queue) : queue[i] = j
  /\ server # "up" => \A j \in Jobs : job[j] # "offered"

(* The tasks in the queue are queued, and there once.                       *)
QueuedOnce ==
  /\ \A i \in 1 .. Len(queue) : queue[i] \in Jobs => job[queue[i]] = "queued"
  /\ \A i, k \in 1 .. Len(queue) : queue[i] = queue[k] => i = k

(* A settled task has its one broadcast, and only while that is being sent  *)
(* is anybody left.                                                         *)
CastsPlaced ==
  \A j \in Jobs : /\ casts[j].at # "sending" => casts[j].left = {}
                  /\ job[j] # "settled" => casts[j].at = "none"

LocalInv == QueueTypes /\ QueueOrder /\ QueuedOnce /\ SocketTypes /\ Limits /\ CastsPlaced

(* A thread that stopped has left no task of the queue behind. (_worker_loop*)
(* and shutdown: the safe half of QueueServed.)                             *)
StoppedServed == thread = "stopped" => \A j \in Jobs : job[j] # "queued"

-----------------------------------------------------------------------------
(* What the two ends of the queue do to it.                                 *)
LEMMA QueueAppend ==
  ASSUME QueueTypes, NEW e \in Entries, Len(queue) < MaxDepth
  PROVE  /\ Append(queue, e) \in Seq(Entries)
         /\ Len(Append(queue, e)) = Len(queue) + 1
         /\ Len(Append(queue, e)) <= MaxDepth
         /\ \A i \in 1 .. Len(queue) : Append(queue, e)[i] = queue[i]
         /\ Append(queue, e)[Len(queue) + 1] = e
BY LocalAssumption DEF QueueTypes

LEMMA QueueTail ==
  ASSUME QueueTypes, queue # <<>>
  PROVE  /\ Tail(queue) \in Seq(Entries)
         /\ Len(queue) \in Nat \ {0}
         /\ Len(Tail(queue)) = Len(queue) - 1
         /\ Len(Tail(queue)) <= MaxDepth
         /\ \A i \in 1 .. Len(queue) - 1 : Tail(queue)[i] = queue[i + 1]
         /\ Head(queue) = queue[1]
         /\ Head(queue) \in Entries
BY LocalAssumption DEF QueueTypes

-----------------------------------------------------------------------------
(* The worker, its queue and the shutdown.                                  *)
LEMMA QueueStep ==
  ASSUME LocalInv, LocalNext \/ UNCHANGED localVars
  PROVE  QueueTypes' /\ QueueOrder'
<1> USE DEF LocalInv
<1>1. ASSUME NEW j \in Jobs, Offer(j) PROVE QueueTypes' /\ QueueOrder'
  BY <1>1 DEF Offer, QueueTypes, QueueOrder, socketVars
<1>2. ASSUME NEW j \in Jobs, Enqueue(j) PROVE QueueTypes' /\ QueueOrder'
  <2>1. server = "up" /\ j \in Entries
    BY <1>2 DEF Enqueue, QueueOrder, Entries
  <2>2. QueueTypes'
    BY <1>2, <2>1, QueueAppend DEF Enqueue, QueueTypes
  <2>3. QueueOrder'
    <3>a. /\ Len(queue) \in Nat /\ queue' = Append(queue, j)
          /\ Len(queue') = Len(queue) + 1
          /\ \A i \in 1 .. Len(queue) : queue'[i] = queue[i]
          /\ queue'[Len(queue) + 1] = j
      BY <1>2, <2>1, QueueAppend DEF Enqueue, QueueTypes
    <3>1. \A i \in 1 .. Len(queue') : queue'[i] # Sentinel
      <4> SUFFICES ASSUME NEW i \in 1 .. Len(queue') PROVE queue'[i] # Sentinel
        OBVIOUS
      <4>1. CASE i = Len(queue) + 1
        BY <4>1, <3>a, LocalAssumption
      <4>2. CASE i \in 1 .. Len(queue)
        BY <4>2, <3>a, <2>1 DEF QueueOrder
      <4> QED BY <4>1, <4>2, <3>a
    <3>2. \A k \in Jobs : job'[k] = "queued" => \E i \in 1 .. Len(queue') : queue'[i] = k
      <4> SUFFICES ASSUME NEW k \in Jobs, job'[k] = "queued"
                   PROVE  \E i \in 1 .. Len(queue') : queue'[i] = k
        OBVIOUS
      <4>1. CASE k = j
        BY <4>1, <3>a
      <4>2. CASE k # j
        <5>1. job[k] = "queued"
          BY <4>2, <1>2 DEF Enqueue, QueueTypes
        <5>2. PICK i \in 1 .. Len(queue) : queue[i] = k
          BY <5>1 DEF QueueOrder
        <5> QED BY <5>2, <3>a
      <4> QED BY <4>1, <4>2
    <3>3. thread' # "stopped" /\ server' = "up"
      BY <1>2, <2>1 DEF Enqueue, QueueOrder
    <3> QED BY <3>1, <3>2, <3>3 DEF QueueOrder
  <2> QED BY <2>2, <2>3
<1>3. ASSUME NEW j \in Jobs, Full(j) PROVE QueueTypes' /\ QueueOrder'
  BY <1>3 DEF Full, QueueTypes, QueueOrder, socketVars
<1>4. ASSUME Take PROVE QueueTypes' /\ QueueOrder'
  <2>a. /\ Len(queue) \in Nat \ {0} /\ queue' = Tail(queue)
        /\ Len(queue') = Len(queue) - 1
        /\ \A i \in 1 .. Len(queue) - 1 : queue'[i] = queue[i + 1]
        /\ Head(queue) = queue[1] /\ Head(queue) \in Entries
    BY <1>4, QueueTail DEF Take
  <2>b. server' = server
    BY <1>4 DEF Take
  <2>c. \A i \in 1 .. Len(queue') : queue'[i] = Sentinel =>
          i = Len(queue') /\ server' \notin {"up", "stopping"}
    <3> SUFFICES ASSUME NEW i \in 1 .. Len(queue'), queue'[i] = Sentinel
                 PROVE  i = Len(queue') /\ server' \notin {"up", "stopping"}
      OBVIOUS
    <3>1. i + 1 \in 1 .. Len(queue) /\ queue[i + 1] = Sentinel
      BY <2>a
    <3>2. i + 1 = Len(queue) /\ server \notin {"up", "stopping"}
      BY <3>1 DEF QueueOrder
    <3> QED BY <3>2, <2>a, <2>b
  <2>1. CASE Head(queue) = Sentinel
    <3>0. 1 \in 1 .. Len(queue) /\ queue[1] = Sentinel
      BY <2>1, <2>a
    <3>1. Len(queue) = 1 /\ server \notin {"up", "stopping"}
      BY <3>0 DEF QueueOrder
    <3>2. queue' = <<>> /\ queue' \in Seq(Entries)
      BY <3>1, <2>a, <1>4, QueueTail, EmptySeq DEF Take
    <3>3. thread' = "stopped" /\ job' = job
      BY <2>1, <1>4 DEF Take
    <3>4. \A j \in Jobs : job[j] # "queued"
      BY <3>1, <2>1, <2>a, LocalAssumption DEF QueueOrder
    <3>5. QueueTypes'
      BY <3>2, <3>3, <2>b, <2>a, <3>1, LocalAssumption DEF QueueTypes
    <3> QED BY <2>c, <3>1, <3>2, <3>3, <3>4, <3>5, <2>b DEF QueueOrder
  <2>2. CASE Head(queue) # Sentinel
    <3>1. Head(queue) \in Jobs /\ thread' = "working"
          /\ job' = [job EXCEPT ![Head(queue)] = "working"]
      BY <2>2, <2>a, <1>4 DEF Take, Entries
    <3>2. QueueTypes'
      BY <3>1, <2>b, <2>a, <1>4, QueueTail DEF QueueTypes, Take
    <3>3. \A j \in Jobs : job'[j] = "queued" => \E i \in 1 .. Len(queue') : queue'[i] = j
      <4> SUFFICES ASSUME NEW j \in Jobs, job'[j] = "queued"
                   PROVE  \E i \in 1 .. Len(queue') : queue'[i] = j
        OBVIOUS
      <4>1. j # Head(queue) /\ job[j] = "queued"
        BY <3>1 DEF QueueTypes
      <4>2. PICK i \in 1 .. Len(queue) : queue[i] = j
        BY <4>1 DEF QueueOrder
      <4>3. i # 1 /\ i - 1 \in 1 .. Len(queue') /\ queue'[i - 1] = j
        BY <4>1, <4>2, <2>a
      <4> QED BY <4>3
    <3>4. server' # "up" => \A j \in Jobs : job'[j] # "offered"
      BY <3>1, <2>b DEF QueueOrder, QueueTypes
    <3> QED BY <2>c, <3>1, <3>2, <3>3, <3>4 DEF QueueOrder
  <2> QED BY <2>1, <2>2
<1>5. ASSUME NEW j \in Jobs, Finish(j) PROVE QueueTypes' /\ QueueOrder'
  BY <1>5 DEF Finish, QueueTypes, QueueOrder
<1>6. ASSUME Stop PROVE QueueTypes' /\ QueueOrder'
  BY <1>6 DEF Stop, QueueTypes, QueueOrder, workVars
<1>7. ASSUME PutSentinel PROVE QueueTypes' /\ QueueOrder'
  <2>a. /\ Len(queue) \in Nat /\ queue' = Append(queue, Sentinel) /\ Sentinel \in Entries
        /\ Len(queue) < MaxDepth /\ server = "stopping" /\ server' = "joining"
        /\ job' = job /\ thread' = thread
    BY <1>7 DEF PutSentinel, QueueTypes, Entries
  <2>b. /\ queue' \in Seq(Entries) /\ Len(queue') = Len(queue) + 1 /\ Len(queue') <= MaxDepth
        /\ \A i \in 1 .. Len(queue) : queue'[i] = queue[i]
    BY <2>a, QueueAppend
  <2>1. QueueTypes'
    BY <2>a, <2>b DEF QueueTypes
  <2>2. \A i \in 1 .. Len(queue') : queue'[i] = Sentinel => i = Len(queue')
    <3> SUFFICES ASSUME NEW i \in 1 .. Len(queue'), queue'[i] = Sentinel, i # Len(queue')
                 PROVE  FALSE
      OBVIOUS
    <3>1. i \in 1 .. Len(queue) /\ queue[i] = Sentinel
      BY <2>a, <2>b
    <3> QED BY <3>1, <2>a DEF QueueOrder
  <2>3. \A j \in Jobs : job'[j] = "queued" => \E i \in 1 .. Len(queue') : queue'[i] = j
    <3> SUFFICES ASSUME NEW j \in Jobs, job[j] = "queued"
                 PROVE  \E i \in 1 .. Len(queue') : queue'[i] = j
      BY <2>a
    <3>1. PICK i \in 1 .. Len(queue) : queue[i] = j
      BY DEF QueueOrder
    <3> QED BY <3>1, <2>a, <2>b
  <2>4. thread' # "stopped" /\ \A j \in Jobs : job'[j] # "offered"
    BY <2>a DEF QueueOrder
  <2> QED BY <2>1, <2>2, <2>3, <2>4, <2>a DEF QueueOrder
<1>8. ASSUME Joined \/ JoinTimesOut PROVE QueueTypes' /\ QueueOrder'
  BY <1>8 DEF Joined, JoinTimesOut, QueueTypes, QueueOrder, workVars
<1>9. ASSUME UNCHANGED << workVars, server >> PROVE QueueTypes' /\ QueueOrder'
  BY <1>9 DEF QueueTypes, QueueOrder, workVars
<1>10. ASSUME NEW j \in Jobs, CastBegins(j) \/ CastSend(j) PROVE UNCHANGED << workVars, server >>
  BY <1>10 DEF CastBegins, CastSend
<1>11. ASSUME NEW s \in Sockets,
              Gone(s) \/ Unsubscribe(s) \/ \E p \in Projects : SubscribeLocal(s, p)
       PROVE  UNCHANGED << workVars, server >>
  BY <1>11 DEF Gone, Unsubscribe, SubscribeLocal
<1>12. ASSUME UNCHANGED localVars PROVE UNCHANGED << workVars, server >>
  BY <1>12 DEF localVars
<1> QED
  BY <1>1, <1>2, <1>3, <1>4, <1>5, <1>6, <1>7, <1>8, <1>9, <1>10, <1>11, <1>12
  DEF LocalNext, WorkerWork

LEMMA QueuedOnceStep ==
  ASSUME LocalInv, LocalNext \/ UNCHANGED localVars
  PROVE  QueuedOnce'
<1> USE DEF LocalInv
<1>0. Sentinel \notin Jobs
  BY LocalAssumption
<1>1. ASSUME NEW j \in Jobs, Offer(j) \/ Full(j) \/ Finish(j) PROVE QueuedOnce'
  <2>1. queue' = queue /\ job[j] # "queued"
    BY <1>1 DEF Offer, Full, Finish
  <2>2. \A k \in Jobs : job[k] = "queued" => job'[k] = "queued"
    BY <1>1, <2>1 DEF Offer, Full, Finish, QueueTypes
  <2> QED BY <2>1, <2>2 DEF QueuedOnce
<1>2. ASSUME NEW j \in Jobs, Enqueue(j) PROVE QueuedOnce'
  <2>1. /\ j \in Entries /\ job[j] = "offered" /\ Len(queue) < MaxDepth
        /\ queue' = Append(queue, j) /\ job' = [job EXCEPT ![j] = "queued"]
    BY <1>2 DEF Enqueue, Entries
  <2>2. /\ Len(queue) \in Nat /\ Len(queue') = Len(queue) + 1
        /\ \A i \in 1 .. Len(queue) : queue'[i] = queue[i]
        /\ queue'[Len(queue) + 1] = j
    BY <2>1, QueueAppend DEF QueueTypes
  <2>3. \A i \in 1 .. Len(queue) : queue[i] # j
    BY <2>1 DEF QueuedOnce
  <2>4. ASSUME NEW i \in 1 .. Len(queue'), queue'[i] \in Jobs PROVE job'[queue'[i]] = "queued"
    <3>1. CASE i = Len(queue) + 1
      BY <3>1, <2>1, <2>2 DEF QueueTypes
    <3>2. CASE i \in 1 .. Len(queue)
      BY <3>2, <2>1, <2>2, <2>3, <2>4 DEF QueueTypes, QueuedOnce
    <3> QED BY <3>1, <3>2, <2>2
  <2>5. ASSUME NEW i \in 1 .. Len(queue'), NEW k \in 1 .. Len(queue'), queue'[i] = queue'[k]
        PROVE  i = k
    <3>1. CASE i \in 1 .. Len(queue) /\ k \in 1 .. Len(queue)
      BY <3>1, <2>2, <2>5 DEF QueuedOnce
    <3>2. CASE ~(i \in 1 .. Len(queue) /\ k \in 1 .. Len(queue))
      BY <3>2, <2>2, <2>3, <2>5
    <3> QED BY <3>1, <3>2
  <2> QED BY <2>4, <2>5 DEF QueuedOnce
<1>3. ASSUME Take PROVE QueuedOnce'
  <2>1. /\ Len(queue) \in Nat \ {0} /\ queue' = Tail(queue)
        /\ Len(queue') = Len(queue) - 1
        /\ \A i \in 1 .. Len(queue) - 1 : queue'[i] = queue[i + 1]
        /\ Head(queue) = queue[1]
    BY <1>3, QueueTail DEF Take
  <2>2. ASSUME NEW i \in 1 .. Len(queue'), queue'[i] \in Jobs PROVE job'[queue'[i]] = "queued"
    <3>1. i + 1 \in 1 .. Len(queue) /\ queue'[i] = queue[i + 1]
      BY <2>1
    <3>2. queue[i + 1] # queue[1]
      BY <3>1, <2>1 DEF QueuedOnce
    <3>3. job[queue'[i]] = "queued"
      BY <3>1, <2>2 DEF QueuedOnce
    <3> QED BY <1>3, <2>1, <2>2, <3>1, <3>2, <3>3 DEF Take, QueueTypes
  <2>3. ASSUME NEW i \in 1 .. Len(queue'), NEW k \in 1 .. Len(queue'), queue'[i] = queue'[k]
        PROVE  i = k
    <3>1. /\ i + 1 \in 1 .. Len(queue) /\ queue'[i] = queue[i + 1]
          /\ k + 1 \in 1 .. Len(queue) /\ queue'[k] = queue[k + 1]
      BY <2>1
    <3>2. i + 1 = k + 1
      BY <3>1, <2>3 DEF QueuedOnce
    <3> QED BY <3>2
  <2> QED BY <2>2, <2>3 DEF QueuedOnce
<1>4. ASSUME PutSentinel PROVE QueuedOnce'
  <2>1. /\ queue' = Append(queue, Sentinel) /\ Sentinel \in Entries
        /\ Len(queue) < MaxDepth /\ server = "stopping" /\ job' = job
    BY <1>4 DEF PutSentinel, Entries
  <2>2. /\ Len(queue) \in Nat /\ Len(queue') = Len(queue) + 1
        /\ \A i \in 1 .. Len(queue) : queue'[i] = queue[i]
        /\ queue'[Len(queue) + 1] = Sentinel
    BY <2>1, QueueAppend DEF QueueTypes
  <2>3. \A i \in 1 .. Len(queue) : queue[i] # Sentinel
    BY <2>1 DEF QueueOrder
  <2>4. ASSUME NEW i \in 1 .. Len(queue'), queue'[i] \in Jobs PROVE job'[queue'[i]] = "queued"
    <3>1. i \in 1 .. Len(queue)
      BY <1>0, <2>2, <2>4
    <3> QED BY <3>1, <2>1, <2>2, <2>4 DEF QueuedOnce
  <2>5. ASSUME NEW i \in 1 .. Len(queue'), NEW k \in 1 .. Len(queue'), queue'[i] = queue'[k]
        PROVE  i = k
    <3>1. CASE i \in 1 .. Len(queue) /\ k \in 1 .. Len(queue)
      BY <3>1, <2>2, <2>5 DEF QueuedOnce
    <3>2. CASE ~(i \in 1 .. Len(queue) /\ k \in 1 .. Len(queue))
      BY <3>2, <2>2, <2>3, <2>5
    <3> QED BY <3>1, <3>2
  <2> QED BY <2>4, <2>5 DEF QueuedOnce
<1>5. ASSUME UNCHANGED workVars PROVE QueuedOnce'
  BY <1>5 DEF workVars, QueuedOnce
<1>6. ASSUME Stop \/ Joined \/ JoinTimesOut PROVE UNCHANGED workVars
  BY <1>6 DEF Stop, Joined, JoinTimesOut
<1>7. ASSUME NEW j \in Jobs, CastBegins(j) \/ CastSend(j) PROVE UNCHANGED workVars
  BY <1>7 DEF CastBegins, CastSend
<1>8. ASSUME NEW s \in Sockets,
             Gone(s) \/ Unsubscribe(s) \/ \E p \in Projects : SubscribeLocal(s, p)
      PROVE  UNCHANGED workVars
  BY <1>8 DEF Gone, Unsubscribe, SubscribeLocal
<1>9. ASSUME UNCHANGED localVars PROVE UNCHANGED workVars
  BY <1>9 DEF localVars
<1> QED
  BY <1>1, <1>2, <1>3, <1>4, <1>5, <1>6, <1>7, <1>8, <1>9 DEF LocalNext, WorkerWork

-----------------------------------------------------------------------------
(* The limits survive a subscription, and whatever removes subscriptions.   *)
LEMMA FewerKeepLimits ==
  ASSUME Limits, subscribed' \subseteq subscribed
  PROVE  Limits'
<1>1. ASSUME NEW p \in Projects PROVE Cardinality(Of(p)') <= MaxPerKey
  <2>1. IsFiniteSet(Of(p)) /\ Of(p)' \subseteq Of(p)
    BY LocalAssumption, FS_Subset DEF Of
  <2>2. /\ Cardinality(Of(p)') <= Cardinality(Of(p)) /\ Cardinality(Of(p)') \in Nat
        /\ Cardinality(Of(p)) \in Nat
    BY <2>1, FS_Subset, FS_CardinalityType
  <2> QED BY <2>2, LocalAssumption DEF Limits
<1>2. ASSUME NEW s \in Sockets PROVE Cardinality(By(s)') <= MaxKeys
  <2>1. IsFiniteSet(By(s)) /\ By(s)' \subseteq By(s)
    BY LocalAssumption, FS_Subset DEF By
  <2>2. /\ Cardinality(By(s)') <= Cardinality(By(s)) /\ Cardinality(By(s)') \in Nat
        /\ Cardinality(By(s)) \in Nat
    BY <2>1, FS_Subset, FS_CardinalityType
  <2> QED BY <2>2, LocalAssumption DEF Limits
<1> QED BY <1>1, <1>2 DEF Limits

LEMMA SubscribeKeepsLimits ==
  ASSUME Limits, NEW s \in Sockets, NEW p \in Projects, SubscribeLocal(s, p)
  PROVE  Limits'
<1>a. /\ subscribed' = subscribed \cup {<< s, p >>}
      /\ Cardinality(Of(p)) < MaxPerKey /\ Cardinality(By(s)) < MaxKeys
  BY DEF SubscribeLocal, Of, By
<1>1. ASSUME NEW q \in Projects PROVE Cardinality(Of(q)') <= MaxPerKey
  <2>1. IsFiniteSet(Of(q)) /\ Cardinality(Of(q)) \in Nat
    BY LocalAssumption, FS_Subset, FS_CardinalityType DEF Of
  <2>2. Of(q)' = IF q = p THEN Of(q) \cup {s} ELSE Of(q)
    BY <1>a DEF Of
  <2>3. Cardinality(Of(q) \cup {s}) <= Cardinality(Of(q)) + 1
        /\ Cardinality(Of(q) \cup {s}) \in Nat
    BY <2>1, FS_AddElement
  <2> QED BY <1>a, <2>1, <2>2, <2>3, LocalAssumption DEF Limits
<1>2. ASSUME NEW t \in Sockets PROVE Cardinality(By(t)') <= MaxKeys
  <2>1. IsFiniteSet(By(t)) /\ Cardinality(By(t)) \in Nat
    BY LocalAssumption, FS_Subset, FS_CardinalityType DEF By
  <2>2. By(t)' = IF t = s THEN By(t) \cup {p} ELSE By(t)
    BY <1>a DEF By
  <2>3. Cardinality(By(t) \cup {p}) <= Cardinality(By(t)) + 1
        /\ Cardinality(By(t) \cup {p}) \in Nat
    BY <2>1, FS_AddElement
  <2> QED BY <1>a, <2>1, <2>2, <2>3, LocalAssumption DEF Limits
<1> QED BY <1>1, <1>2 DEF Limits

(* The sockets, and what a step owes to those a broadcast has found.        *)
LEMMA SocketStep ==
  ASSUME LocalInv, LocalNext \/ UNCHANGED localVars
  PROVE  SocketTypes' /\ Limits' /\ CastsPlaced' /\ TellsOrDrops
<1> DEFINE Good == SocketTypes' /\ Limits' /\ CastsPlaced' /\ TellsOrDrops
<1> USE DEF LocalInv
<1>1. ASSUME NEW j \in Jobs, Offer(j) \/ Enqueue(j) \/ Full(j) PROVE Good
  <2>1. UNCHANGED socketVars /\ job[j] # "settled"
        /\ \A k \in Jobs : job'[k] # "settled" => job[k] # "settled"
    BY <1>1 DEF Offer, Enqueue, Full, QueueTypes
  <2>2. Limits'
    BY <2>1, FewerKeepLimits DEF socketVars
  <2> QED BY <2>1, <2>2 DEF socketVars, SocketTypes, CastsPlaced, TellsOrDrops
<1>2. ASSUME Take PROVE Good
  <2>1. UNCHANGED socketVars
    BY <1>2 DEF Take
  <2>2. \A k \in Jobs : job'[k] # "settled" => job[k] # "settled"
    <3>1. CASE Head(queue) = Sentinel
      BY <3>1, <1>2 DEF Take
    <3>2. CASE Head(queue) # Sentinel
      <4>1. /\ 1 \in 1 .. Len(queue) /\ queue[1] = Head(queue) /\ Head(queue) \in Jobs
            /\ job' = [job EXCEPT ![Head(queue)] = "working"]
        BY <3>2, <1>2, QueueTail DEF Take, Entries
      <4>2. job[Head(queue)] = "queued"
        BY <4>1 DEF QueuedOnce
      <4> QED BY <4>1, <4>2 DEF QueueTypes
    <3> QED BY <3>1, <3>2
  <2>3. Limits'
    BY <2>1, FewerKeepLimits DEF socketVars
  <2> QED BY <2>1, <2>2, <2>3 DEF socketVars, SocketTypes, CastsPlaced, TellsOrDrops
<1>3. ASSUME NEW j \in Jobs, Finish(j) PROVE Good
  <2>0. /\ UNCHANGED << gone, subscribed, told >>
        /\ casts' \in {[casts EXCEPT ![j].at = "scheduled"], casts}
        /\ job[j] = "working" /\ job' = [job EXCEPT ![j] = "settled"]
    BY <1>3 DEF Finish
  <2>1. Limits'
    BY <2>0, FewerKeepLimits
  <2>2. SocketTypes' /\ TellsOrDrops
    BY <2>0 DEF SocketTypes, TellsOrDrops
  <2>3. casts[j].left = {}
    BY <2>0 DEF CastsPlaced
  <2>4. CastsPlaced'
    BY <2>0, <2>3 DEF SocketTypes, CastsPlaced, QueueTypes
  <2> QED BY <2>1, <2>2, <2>4
<1>4. ASSUME UNCHANGED << socketVars, job >> PROVE Good
  <2>1. Limits'
    BY <1>4, FewerKeepLimits DEF socketVars
  <2> QED BY <1>4, <2>1 DEF socketVars, SocketTypes, CastsPlaced, TellsOrDrops
<1>5. ASSUME Stop \/ PutSentinel \/ Joined \/ JoinTimesOut \/ UNCHANGED localVars
      PROVE  UNCHANGED << socketVars, job >>
  BY <1>5 DEF Stop, PutSentinel, Joined, JoinTimesOut, workVars, localVars
<1>6. ASSUME NEW j \in Jobs, CastBegins(j) PROVE Good
  <2>1. /\ UNCHANGED << job, gone, subscribed, told >>
        /\ casts[j].at = "scheduled"
        /\ casts' = [casts EXCEPT ![j] =
              [at |-> "sending", left |-> {s \in Sockets : << s, ProjectOf[j] >> \in subscribed}]]
    BY <1>6 DEF CastBegins, workVars
  <2>2. Limits'
    BY <2>1, FewerKeepLimits
  <2>3. casts[j].left = {} /\ job[j] = "settled"
    BY <2>1 DEF CastsPlaced
  <2>4. SocketTypes'
    BY <2>1 DEF SocketTypes
  <2>5. CastsPlaced' /\ TellsOrDrops
    BY <2>1, <2>3 DEF SocketTypes, CastsPlaced, TellsOrDrops
  <2> QED BY <2>2, <2>4, <2>5
<1>7. ASSUME NEW j \in Jobs, CastSend(j) PROVE Good
  <2>1. PICK s \in casts[j].left :
          /\ casts' = [casts EXCEPT ![j].left = @ \ {s}]
          /\ \/ s \in gone /\ subscribed' = Without(s) /\ UNCHANGED told
             \/ s \notin gone /\ told' = << j, s >> /\ UNCHANGED subscribed
    BY <1>7 DEF CastSend
  <2>2. UNCHANGED << job, gone >> /\ s \in Sockets
    BY <1>7, <2>1 DEF CastSend, workVars, SocketTypes
  <2>3. subscribed' \subseteq subscribed
    BY <2>1 DEF Without
  <2>4. Limits'
    BY <2>3, FewerKeepLimits
  <2>5. SocketTypes'
    BY <2>1, <2>2, <2>3 DEF SocketTypes
  <2>6. CastsPlaced'
    BY <2>1, <2>2 DEF SocketTypes, CastsPlaced
  <2>7. told' = << j, s >> \/ << s, ProjectOf[j] >> \notin subscribed'
    BY <2>1 DEF Without
  <2>8. TellsOrDrops
    BY <2>1, <2>7 DEF TellsOrDrops, SocketTypes
  <2> QED BY <2>4, <2>5, <2>6, <2>8
<1>8. ASSUME NEW s \in Sockets, NEW p \in Projects, SubscribeLocal(s, p) PROVE Good
  <2>1. UNCHANGED << job, gone, casts, told >> /\ subscribed' = subscribed \cup {<< s, p >>}
    BY <1>8 DEF SubscribeLocal, workVars
  <2>2. Limits'
    BY <1>8, SubscribeKeepsLimits
  <2> QED BY <2>1, <2>2 DEF SocketTypes, CastsPlaced, TellsOrDrops
<1>9. ASSUME NEW s \in Sockets, Gone(s) \/ Unsubscribe(s) PROVE Good
  <2>1. /\ UNCHANGED << job, casts, told >>
        /\ subscribed' \subseteq subscribed /\ gone' \subseteq Sockets
    BY <1>9 DEF Gone, Unsubscribe, Without, workVars, SocketTypes
  <2>2. Limits'
    BY <2>1, FewerKeepLimits
  <2> QED BY <2>1, <2>2 DEF SocketTypes, CastsPlaced, TellsOrDrops
<1> QED
  BY <1>1, <1>2, <1>3, <1>4, <1>5, <1>6, <1>7, <1>8, <1>9 DEF LocalNext, WorkerWork

-----------------------------------------------------------------------------
(* The deployed service leaves the local one alone.                         *)
LEMMA LocalSteps ==
  ASSUME [Next]_vars
  PROVE  LocalNext \/ UNCHANGED localVars
BY DEF Next, CloudNext, OfServer, OfPage, OfLocal, vars

LEMMA LocalStarts ==
  ASSUME Init
  PROVE  LocalInv
<1>1. LocalInit
  BY DEF Init
<1>2. QueueTypes /\ QueueOrder /\ QueuedOnce
  BY <1>1, LocalAssumption DEF LocalInit, QueueTypes, QueueOrder, QueuedOnce
<1>3. SocketTypes /\ CastsPlaced
  BY <1>1 DEF LocalInit, SocketTypes, CastsPlaced, NoCast
<1>4. Limits
  <2>1. \A p \in Projects : Of(p) = {}
    BY <1>1 DEF LocalInit, Of
  <2>2. \A s \in Sockets : By(s) = {}
    BY <1>1 DEF LocalInit, By
  <2> QED BY <2>1, <2>2, FS_EmptySet, LocalAssumption DEF Limits
<1> QED BY <1>2, <1>3, <1>4 DEF LocalInv

LEMMA LocalInvariant == Spec => []LocalInv
<1>1. ASSUME LocalInv, [Next]_vars PROVE LocalInv'
  BY <1>1, LocalSteps, QueueStep, QueuedOnceStep, SocketStep DEF LocalInv
<1> QED BY LocalStarts, <1>1, PTL DEF Spec

-----------------------------------------------------------------------------
(* The local queue and its subscriptions stay within their limits, and      *)
(* every field keeps its type. (local_worker.py, ws_manager.py.)            *)
THEOREM LocalTypeCorrect == Spec => []LocalTypeOK
<1>1. ASSUME LocalInv PROVE LocalTypeOK
  BY <1>1 DEF LocalInv, QueueTypes, SocketTypes, Limits, Of, By, LocalTypeOK
<1> QED BY LocalInvariant, <1>1, PTL

(* When the worker thread has stopped, every task that was accepted into    *)
(* the queue has been taken from it. (enqueue, _worker_loop, shutdown.)     *)
THEOREM NothingLeftBehind == Spec => []StoppedServed
<1>1. ASSUME LocalInv PROVE StoppedServed
  BY <1>1, EmptySeq DEF LocalInv, QueueOrder, StoppedServed
<1> QED BY LocalInvariant, <1>1, PTL

(* The half of AllTold that a step can break: whoever is taken off the list *)
(* of a broadcast is told or is unsubscribed. (_broadcast.)                 *)
THEOREM CastsTell == Spec => [][TellsOrDrops]_localVars
<1>1. ASSUME LocalInv, [Next]_vars PROVE [TellsOrDrops]_localVars
  BY <1>1, LocalSteps, SocketStep
<1> QED BY LocalInvariant, <1>1, PTL DEF Spec

-----------------------------------------------------------------------------
(* The deployed service.                                                    *)
Numbers == 1 .. Len(tasks)

TaskTypes == tasks \in Seq({Queued, Over}) /\ slot \in 0 .. Len(tasks)

(* A batch is given to the bridge with at least one change, and the bridge  *)
(* is at one of them.                                                       *)
AnnounceTypes ==
  /\ stream \in Seq(Numbers) /\ announced \subseteq Numbers
  /\ bridge \in [batch : Seq(Numbers), at : Nat \ {0}, looked : BOOLEAN, result : BOOLEAN,
                 left : SUBSET Conns]
  /\ bridge # NoBatch => bridge.at \in 1 .. Len(bridge.batch)

ConnTypes ==
  /\ socket \in [Conns -> {"new", "connecting", "open", "closed"}]
  /\ request \in [Conns -> {"none", "sent", "handled", "late"}]
  /\ inbox \in [Conns -> Seq({"over", "bare"})]

TableTypes ==
  /\ items \subseteq Conns \X {"CONNECTION", "SUB"}
  /\ lagging \subseteq Conns /\ dropped \subseteq Conns /\ trouble \in 0 .. MaxTrouble

ServerTypes == TaskTypes /\ AnnounceTypes /\ ConnTypes /\ TableTypes

PageFlags == loading \in BOOLEAN /\ connected \in BOOLEAN /\ missed \in BOOLEAN

Attempts == [Chains -> [at : {"off", "fetch", "timer"}, attempt : 0 .. MaxPolls - 1]]

PagePlaces ==
  /\ page \in {"hydrating", "read", "up", "left"}
  /\ hydration \in 0 .. Len(tasks) /\ waiting \in 0 .. Len(tasks)
  /\ call \in {"none", "sent", "accepted", "refused"}
  /\ chains \in Attempts
  /\ timer \in Chains \cup {NoChain} /\ conn \in Conns \cup {NoConn}

PageTypes == PageFlags /\ PagePlaces

LEMMA TroubleCounted ==
  ASSUME TableTypes, Trouble \/ UNCHANGED trouble
  PROVE  trouble' \in 0 .. MaxTrouble
BY ConnectionsAssumption DEF TableTypes, Trouble

LEMMA SameTasks ==
  ASSUME TaskTypes, UNCHANGED taskVars
  PROVE  TaskTypes' /\ Numbers' = Numbers
BY DEF TaskTypes, Numbers, taskVars

LEMMA SameAnnouncements ==
  ASSUME AnnounceTypes, Numbers' = Numbers, UNCHANGED announceVars
  PROVE  AnnounceTypes'
BY DEF AnnounceTypes, announceVars

(* The connection Lambdas and the gateway touch connections and items only. *)
LEMMA ConnStep ==
  ASSUME ConnTypes, TableTypes, NEW c \in Conns, ConnWork(c) \/ Close(c)
  PROVE  ConnTypes' /\ TableTypes' /\ UNCHANGED << taskVars, announceVars >>
<1>1. CASE Connect(c)
  <2>1. /\ socket' \in {[socket EXCEPT ![c] = "open"], [socket EXCEPT ![c] = "closed"]}
        /\ items' \in {items, items \cup {<< c, "CONNECTION" >>}}
        /\ UNCHANGED << taskVars, announceVars, request, inbox, lagging, dropped >>
        /\ (Trouble \/ UNCHANGED trouble)
    BY <1>1 DEF Connect
  <2>2. ConnTypes'
    BY <2>1 DEF ConnTypes
  <2>3. items' \subseteq Conns \X {"CONNECTION", "SUB"}
    BY <2>1 DEF TableTypes
  <2> QED BY <2>1, <2>2, <2>3, TroubleCounted DEF TableTypes
<1>f. ASSUME Forget(c), UNCHANGED << taskVars, announceVars, socket, inbox, lagging >>,
             dropped' \in {dropped, dropped \ {c}}
      PROVE  ConnTypes' /\ TableTypes' /\ UNCHANGED << taskVars, announceVars >>
  <2>1. items' \subseteq items /\ (Trouble \/ UNCHANGED trouble)
    BY <1>f DEF Forget
  <2>2. ConnTypes'
    BY <1>f DEF Forget, ConnTypes
  <2> QED BY <1>f, <2>1, <2>2, TroubleCounted DEF TableTypes
<1>2. CASE Disconnect(c)
  BY <1>2, <1>f DEF Disconnect
<1>3. CASE Subscribe(c)
  <2>1. ConnTypes'
    BY <1>3 DEF Subscribe, ConnTypes
  <2> QED BY <1>3, <2>1, TroubleCounted DEF Subscribe, TableTypes
<1>4. CASE HeartbeatPost(c)
  BY <1>4, <1>f DEF HeartbeatPost
<1>6. CASE CatchUp(c)
  BY <1>6 DEF CatchUp, ConnTypes, TableTypes, connVars
<1>5. CASE Close(c)
  <2>1. ConnTypes'
    BY <1>5 DEF Close, Disconnected, ConnTypes
  <2> QED BY <1>5, <2>1, TroubleCounted DEF Close, Disconnected, TableTypes
<1> QED BY <1>1, <1>2, <1>3, <1>4, <1>5, <1>6 DEF ConnWork

(* The pipe and its bridge: the place in the batch stays in the batch.      *)
LEMMA BridgeStep ==
  ASSUME ServerTypes, BridgeWork
  PROVE  AnnounceTypes' /\ ConnTypes' /\ TableTypes' /\ UNCHANGED taskVars
<1> USE DEF ServerTypes
<1>a. Numbers' = Numbers /\ UNCHANGED taskVars
  BY Zenon DEF BridgeWork, BridgeReceive, BridgeLookUp, LookUp, BridgeRaises, BridgePost, BridgeNext,
               taskVars, Numbers
<1>1. CASE BridgeReceive
  <2>1. /\ bridge' = [batch |-> stream, at |-> 1, looked |-> FALSE, result |-> FALSE, left |-> {}]
        /\ stream' = <<>> /\ UNCHANGED << announced, connVars, tableVars, trouble >>
        /\ stream # <<>>
    BY <1>1 DEF BridgeReceive, NoBatch
  <2>2. Len(stream) \in Nat \ {0}
    BY <2>1, EmptySeq DEF AnnounceTypes
  <2>3. 1 \in 1 .. Len(bridge'.batch)
    BY <2>1, <2>2
  <2> QED BY <1>a, <2>1, <2>3, EmptySeq DEF AnnounceTypes, ConnTypes, TableTypes, connVars, tableVars
<1>2. CASE BridgeLookUp
  <2>1. /\ \E r \in BOOLEAN :
             bridge' = [bridge EXCEPT !.looked = TRUE, !.result = r, !.left = Subscribers]
        /\ announced' = announced \cup {Current} /\ bridge # NoBatch
        /\ UNCHANGED << stream, connVars, tableVars >> /\ (Trouble \/ UNCHANGED trouble)
    BY <1>2 DEF BridgeLookUp, LookUp
  <2>2. bridge.at \in 1 .. Len(bridge.batch) /\ bridge.batch \in Seq(Numbers)
    BY <2>1 DEF AnnounceTypes
  <2>3. Current \in Numbers
    BY <2>2, ElementOfSeq DEF Current
  <2>4. Subscribers \subseteq Conns
    BY DEF Subscribers
  <2>5. AnnounceTypes'
    BY <1>a, <2>1, <2>2, <2>3, <2>4 DEF AnnounceTypes
  <2> QED BY <2>1, <2>5, <1>a, TroubleCounted DEF ConnTypes, TableTypes, connVars, tableVars
<1>3. CASE BridgeRaises
  <2> DEFINE half == (Len(bridge.batch) + 1) \div 2
  <2>1. /\ bridge # NoBatch /\ Trouble /\ UNCHANGED << announced, connVars, tableVars >>
        /\ bridge' = [batch |-> SubSeq(bridge.batch, 1, half), at |-> 1, looked |-> FALSE,
                      result |-> FALSE, left |-> {}]
        /\ stream' = SubSeq(bridge.batch, half + 1, Len(bridge.batch)) \o stream
    BY <1>3 DEF BridgeRaises, NoBatch
  <2>2. bridge.at \in 1 .. Len(bridge.batch) /\ bridge.batch \in Seq(Numbers)
    BY <2>1 DEF AnnounceTypes
  <2>3. half \in 1 .. Len(bridge.batch)
    <3>1. Len(bridge.batch) \in Nat \ {0}
      BY <2>2
    <3>2. \A n \in Nat \ {0} : (n + 1) \div 2 \in 1 .. n
      OBVIOUS
    <3> QED BY <3>1, <3>2
  <2> HIDE DEF half
  <2>4. /\ SubSeq(bridge.batch, 1, half) \in Seq(Numbers)
        /\ Len(SubSeq(bridge.batch, 1, half)) = half
    BY <2>2, <2>3, SubSeqProperties
  <2>5. SubSeq(bridge.batch, half + 1, Len(bridge.batch)) \in Seq(Numbers)
    BY <2>2, <2>3, SubSeqProperties
  <2>6. stream' \in Seq(Numbers)
    BY <2>1, <2>5, ConcatProperties DEF AnnounceTypes
  <2>7. 1 \in 1 .. Len(bridge'.batch)
    BY <2>1, <2>3, <2>4
  <2>8. AnnounceTypes'
    BY <1>a, <2>1, <2>4, <2>6, <2>7 DEF AnnounceTypes
  <2> QED BY <2>1, <2>8, <1>a, TroubleCounted DEF ConnTypes, TableTypes, connVars, tableVars
<1>4. ASSUME NEW c \in Conns, BridgePost(c)
      PROVE  AnnounceTypes' /\ ConnTypes' /\ TableTypes'
  <2>1. /\ bridge' = [bridge EXCEPT !.left = @ \ {c}] /\ bridge # NoBatch
        /\ UNCHANGED << stream, announced, socket, lagging, dropped >>
        /\ request' \in {request, [request EXCEPT ![c] = "late"]}
        /\ items' \subseteq items /\ (Trouble \/ UNCHANGED trouble)
    BY <1>4 DEF BridgePost, Posted, Forget, NoBatch
  <2>2. AnnounceTypes'
    BY <1>a, <2>1 DEF AnnounceTypes
  <2>3. inbox' = inbox \/ \E m \in {"over", "bare"} : inbox' = [inbox EXCEPT ![c] = Append(@, m)]
    BY <1>4 DEF BridgePost, Deliver, Message
  <2>4. inbox' \in [Conns -> Seq({"over", "bare"})]
    <3>1. inbox \in [Conns -> Seq({"over", "bare"})]
      BY DEF ConnTypes
    <3>2. ASSUME NEW m \in {"over", "bare"}, inbox' = [inbox EXCEPT ![c] = Append(@, m)]
          PROVE  inbox' \in [Conns -> Seq({"over", "bare"})]
      <4>1. inbox[c] \in Seq({"over", "bare"})
        BY <3>1
      <4>2. Append(inbox[c], m) \in Seq({"over", "bare"})
        BY <4>1
      <4> QED BY <3>1, <3>2, <4>2
    <3> QED BY <2>3, <3>1, <3>2
  <2> QED BY <2>1, <2>2, <2>4, TroubleCounted DEF ConnTypes, TableTypes
<1>5. CASE BridgeNext
  <2>1. /\ bridge.looked /\ UNCHANGED << stream, announced, connVars, tableVars, trouble >>
        /\ bridge' = IF bridge.at = Len(bridge.batch) THEN NoBatch
                     ELSE [NoBatch EXCEPT !.batch = bridge.batch, !.at = bridge.at + 1]
    BY <1>5 DEF BridgeNext
  <2>2. bridge # NoBatch
    BY <2>1 DEF NoBatch
  <2>3. bridge.at \in 1 .. Len(bridge.batch) /\ bridge.batch \in Seq(Numbers)
    BY <2>2 DEF AnnounceTypes
  <2>4. AnnounceTypes'
    <3>1. CASE bridge.at = Len(bridge.batch)
      BY <3>1, <1>a, <2>1, EmptySeq DEF AnnounceTypes, NoBatch
    <3>2. CASE bridge.at # Len(bridge.batch)
      <4>1. bridge.at + 1 \in 1 .. Len(bridge.batch) /\ bridge.at + 1 \in Nat \ {0}
        BY <3>2, <2>3
      <4>2. bridge' = [batch |-> bridge.batch, at |-> bridge.at + 1, looked |-> FALSE,
                       result |-> FALSE, left |-> {}]
        BY <3>2, <2>1 DEF NoBatch
      <4> QED BY <4>1, <4>2, <1>a, <2>1, <2>3 DEF AnnounceTypes
    <3> QED BY <3>1, <3>2
  <2> QED BY <1>a, <2>1, <2>4 DEF ConnTypes, TableTypes, connVars, tableVars
<1> QED BY <1>a, <1>1, <1>2, <1>3, <1>4, <1>5 DEF BridgeWork

LEMMA ServerStep ==
  ASSUME ServerTypes,
         \/ Settle \/ Release \/ BridgeWork
         \/ \E c \in Conns : ConnWork(c) \/ Close(c)
  PROVE  ServerTypes' /\ Len(tasks') = Len(tasks)
<1> USE DEF ServerTypes
<1>1. CASE Settle
  <2>1. /\ tasks' = [tasks EXCEPT ![slot] = Over] /\ slot # 0
        /\ stream' = Append(stream, slot)
        /\ UNCHANGED << slot, announced, bridge, connVars, tableVars, trouble >>
    BY <1>1 DEF Settle
  <2>2. slot \in 1 .. Len(tasks)
    BY <2>1 DEF TaskTypes
  <2>3. tasks' \in Seq({Queued, Over}) /\ Len(tasks') = Len(tasks)
    BY <2>1, <2>2, ExceptSeq DEF TaskTypes
  <2>4. stream' \in Seq(Numbers) /\ Numbers' = Numbers
    BY <2>1, <2>2, <2>3 DEF AnnounceTypes, Numbers
  <2>5. TaskTypes' /\ AnnounceTypes'
    BY <2>1, <2>3, <2>4 DEF TaskTypes, AnnounceTypes
  <2> QED BY <2>1, <2>3, <2>5 DEF ConnTypes, TableTypes, connVars, tableVars
<1>2. CASE Release
  <2>1. /\ tasks' = tasks /\ slot' = 0 /\ Numbers' = Numbers
        /\ UNCHANGED << announceVars, connVars, tableVars, trouble >>
    BY <1>2 DEF Release, Numbers
  <2>2. TaskTypes'
    BY <2>1 DEF TaskTypes
  <2> QED BY <2>1, <2>2, SameAnnouncements DEF ConnTypes, TableTypes, connVars, tableVars
<1>3. CASE BridgeWork
  BY <1>3, BridgeStep, SameTasks DEF taskVars
<1>4. ASSUME NEW c \in Conns, ConnWork(c) \/ Close(c)
      PROVE  ServerTypes' /\ Len(tasks') = Len(tasks)
  BY <1>4, ConnStep, SameTasks, SameAnnouncements DEF taskVars
<1> QED BY <1>1, <1>2, <1>3, <1>4

-----------------------------------------------------------------------------
(* The page.                                                                *)

(* A chain that starts is at its first attempt; one that stops is off.      *)
LEMMA OffIsChain ==
  Off \in [at : {"off", "fetch", "timer"}, attempt : 0 .. MaxPolls - 1]
BY WizardAssumption DEF Off

LEMMA ChainsStart ==
  ASSUME chains \in Attempts, NEW t, NEW ways
  PROVE  Started(t, ways) \in Attempts
<1>1. [Off EXCEPT !.at = "fetch"] \in [at : {"off", "fetch", "timer"}, attempt : 0 .. MaxPolls - 1]
  BY OffIsChain DEF Off
<1> QED BY <1>1 DEF Started, Attempts

LEMMA ChainStops ==
  ASSUME chains \in Attempts, NEW k
  PROVE  [chains EXCEPT ![k] = Off] \in Attempts
BY OffIsChain DEF Attempts

LEMMA ChainsStop ==
  ASSUME chains \in Attempts, StopPolling
  PROVE  chains' \in Attempts /\ timer' = NoChain
BY ChainStops DEF StopPolling

(* A wait that ends, or goes on.                                            *)
LEMMA WaitEnds ==
  ASSUME PageTypes, Ended \/ Waits, UNCHANGED connected, Len(tasks') = Len(tasks), Len(tasks) \in Nat
  PROVE  PageFlags' /\ waiting' \in 0 .. Len(tasks')
<1>1. PageFlags'
  BY Zenon DEF Ended, Waits, PageTypes, PageFlags
<1>2. waiting' \in {waiting, 0}
  BY DEF Ended, Waits
<1>3. waiting \in 0 .. Len(tasks)
  BY DEF PageTypes, PagePlaces
<1> QED BY <1>1, <1>2, <1>3

(* Steps of the page that leave the server as it is.                        *)
LEMMA PageAlone ==
  ASSUME ServerTypes, PageTypes,
         \/ HydrateRead \/ HydrateDispatch \/ Submit \/ SubmitAccepted \/ SubmitRefused \/ OnClose
         \/ \E k \in Chains : PollTimer(k)
  PROVE  PageTypes' /\ UNCHANGED serverVars
<1> USE DEF PageTypes
<1>a. Len(tasks) \in Nat
  BY DEF ServerTypes, TaskTypes
<1>1. CASE HydrateRead
  <2>1. PageFlags'
    BY <1>1, Zenon DEF HydrateRead, PageFlags, wsVars
  <2>2. UNCHANGED serverVars /\ Len(tasks') = Len(tasks)
    BY <1>1 DEF HydrateRead, serverVars, taskVars
  <2>3. PagePlaces'
    BY <1>1, <1>a, <2>2 DEF HydrateRead, ServerTypes, TaskTypes, PagePlaces, pollVars, wsVars
  <2> QED BY <2>1, <2>2, <2>3
<1>2. CASE HydrateDispatch
  <2>1. PageFlags'
    BY <1>2, Zenon DEF HydrateDispatch, PageFlags, wsVars
  <2>2. UNCHANGED serverVars /\ Len(tasks') = Len(tasks)
    BY <1>2 DEF HydrateDispatch, serverVars, taskVars
  <2>3. chains' \in {chains, Started(hydration, {"effect"})} /\ waiting' \in {waiting, hydration}
        /\ page' = "up" /\ hydration' = 0 /\ UNCHANGED << call, timer, conn >>
    BY <1>2 DEF HydrateDispatch, wsVars
  <2>4. chains' \in Attempts
    BY <2>3, ChainsStart DEF PagePlaces
  <2>5. PagePlaces'
    BY <1>a, <2>2, <2>3, <2>4 DEF PagePlaces
  <2> QED BY <2>1, <2>2, <2>5
<1>3. CASE Submit
  <2>1. PageFlags'
    BY <1>3, Zenon DEF Submit, PageFlags, wsVars
  <2>2. UNCHANGED serverVars /\ Len(tasks') = Len(tasks)
    BY <1>3 DEF Submit, serverVars, taskVars
  <2>3. PagePlaces'
    BY <1>3, <1>a, <2>2 DEF Submit, PagePlaces, pollVars, wsVars
  <2> QED BY <2>1, <2>2, <2>3
<1>4. CASE SubmitAccepted
  <2>1. PageFlags'
    BY <1>4, Zenon DEF SubmitAccepted, PageFlags, wsVars
  <2>2. UNCHANGED serverVars /\ Len(tasks') = Len(tasks)
    BY <1>4 DEF SubmitAccepted, serverVars, taskVars
  <2>3. /\ \E ways \in {{"call", "effect"}, {"call"}} : chains' = Started(Len(tasks), ways)
        /\ waiting' \in {Len(tasks), waiting}
        /\ call' = "none" /\ UNCHANGED << page, hydration, timer, conn >>
    BY <1>4 DEF SubmitAccepted, wsVars
  <2>4. chains' \in Attempts
    BY <2>3, ChainsStart DEF PagePlaces
  <2>5. PagePlaces'
    BY <1>a, <2>2, <2>3, <2>4 DEF PagePlaces
  <2> QED BY <2>1, <2>2, <2>5
<1>5. CASE SubmitRefused
  <2>1. PageFlags'
    BY <1>5, Zenon DEF SubmitRefused, PageFlags, wsVars
  <2>2. UNCHANGED serverVars /\ Len(tasks') = Len(tasks)
    BY <1>5 DEF SubmitRefused, serverVars, taskVars
  <2>3. PagePlaces'
    BY <1>5, <1>a, <2>2 DEF SubmitRefused, PagePlaces, pollVars, wsVars
  <2> QED BY <2>1, <2>2, <2>3
<1>6. CASE OnClose
  <2>1. PageFlags'
    BY <1>6, Zenon DEF OnClose, PageFlags
  <2>2. UNCHANGED serverVars /\ Len(tasks') = Len(tasks)
    BY <1>6 DEF OnClose, serverVars, taskVars
  <2>3. PagePlaces'
    BY <1>6, <1>a, <2>2 DEF OnClose, PagePlaces, pollVars
  <2> QED BY <2>1, <2>2, <2>3
<1>7. ASSUME NEW k \in Chains, PollTimer(k) PROVE PageTypes' /\ UNCHANGED serverVars
  <2>1. chains[k].attempt \in 0 .. MaxPolls - 1
    BY <1>7 DEF PagePlaces, Attempts
  <2>2. chains' \in Attempts
    <3>1. CASE chains' = [chains EXCEPT ![k] = Off]
      BY <3>1, ChainStops DEF PagePlaces
    <3>2. CASE chains[k].attempt + 1 < MaxPolls
               /\ chains' = [chains EXCEPT ![k].at = "fetch", ![k].attempt = @ + 1]
      <4>1. chains[k].attempt + 1 \in 0 .. MaxPolls - 1
        BY <3>2, <2>1, WizardAssumption
      <4> QED BY <3>2, <4>1 DEF PagePlaces, Attempts
    <3> QED BY <1>7, <3>1, <3>2 DEF PollTimer
  <2>3. (Ended \/ Waits) /\ timer' \in {timer, NoChain}
        /\ UNCHANGED << page, hydration, call, conn, connected, serverVars >>
    BY <1>7 DEF PollTimer, wsVars
  <2>4. Len(tasks') = Len(tasks)
    BY <2>3 DEF serverVars, taskVars
  <2>5. PageFlags' /\ waiting' \in 0 .. Len(tasks')
    BY <1>a, <2>3, <2>4, WaitEnds
  <2>6. PagePlaces'
    BY <2>2, <2>3, <2>4, <2>5 DEF PagePlaces
  <2> QED BY <2>3, <2>5, <2>6
<1> QED BY <1>1, <1>2, <1>3, <1>4, <1>5, <1>6, <1>7

(* Steps of the page that touch the server.                                 *)
LEMMA LeaveStep ==
  ASSUME ServerTypes, PageTypes, Leave
  PROVE  ServerTypes' /\ PageTypes'
<1>1. PageFlags'
  BY Zenon DEF Leave, PageTypes, PageFlags
<1>2. UNCHANGED << taskVars, announceVars >> /\ Len(tasks') = Len(tasks) /\ Len(tasks) \in Nat
  BY DEF Leave, ServerTypes, TaskTypes, taskVars
<1>3. chains' \in Attempts /\ timer' = NoChain
  BY ChainsStop DEF Leave, PageTypes, PagePlaces
<1>4. /\ page' = "left" /\ hydration' = 0 /\ waiting' = 0
      /\ conn' = NoConn /\ UNCHANGED call
  BY DEF Leave
<1>5. PagePlaces'
  BY <1>2, <1>3, <1>4 DEF PageTypes, PagePlaces
<1>6. ConnTypes' /\ TableTypes'
  <2>1. UNCHANGED << request, items, lagging >>
    BY DEF Leave
  <2>2. CASE conn # NoConn /\ Disconnected(conn)
    <3>1. conn \in Conns
      BY <2>2 DEF PageTypes, PagePlaces
    <3>2. ConnTypes'
      BY <2>1, <2>2, <3>1 DEF Disconnected, ServerTypes, ConnTypes
    <3> QED BY <2>1, <2>2, <3>1, <3>2, TroubleCounted DEF Disconnected, ServerTypes, TableTypes
  <2>3. CASE UNCHANGED << socket, inbox, dropped, trouble >>
    BY <2>1, <2>3 DEF ServerTypes, ConnTypes, TableTypes
  <2> QED BY <2>2, <2>3 DEF Leave
<1> QED BY <1>1, <1>2, <1>5, <1>6, SameTasks, SameAnnouncements DEF ServerTypes, PageTypes

(* A task more: what was a task is one still.                               *)
LEMMA SubmitStep ==
  ASSUME ServerTypes, PageTypes, SubmitServer
  PROVE  ServerTypes' /\ PageTypes'
<1>1. PageFlags'
  BY Zenon DEF SubmitServer, PageTypes, PageFlags, wsVars
<1>2. Len(tasks) \in Nat /\ UNCHANGED << announceVars, connVars, tableVars, trouble >>
  BY DEF SubmitServer, ServerTypes, TaskTypes
<1>3. TaskTypes' /\ Len(tasks') \in Nat /\ Len(tasks) <= Len(tasks')
  <2>1. CASE tasks' = Append(tasks, Queued) /\ slot' = Len(tasks) + 1
    <3>1. tasks' \in Seq({Queued, Over}) /\ Len(tasks') = Len(tasks) + 1
      BY <2>1 DEF ServerTypes, TaskTypes
    <3> QED BY <1>2, <2>1, <3>1 DEF TaskTypes
  <2>2. CASE UNCHANGED << tasks, slot >>
    BY <1>2, <2>2 DEF ServerTypes, TaskTypes
  <2> QED BY <2>1, <2>2 DEF SubmitServer
<1>4. Numbers \subseteq Numbers'
  BY <1>2, <1>3 DEF Numbers
<1>5. AnnounceTypes'
  <2>1. Seq(Numbers) \subseteq Seq(Numbers')
    BY <1>4, SeqMonotonic
  <2>2. UNCHANGED << stream, announced, bridge >>
    BY <1>2 DEF announceVars
  <2> QED BY <1>4, <2>1, <2>2 DEF ServerTypes, AnnounceTypes
<1>6. ConnTypes' /\ TableTypes'
  BY <1>2 DEF ServerTypes, ConnTypes, TableTypes, connVars, tableVars
<1>7. PagePlaces'
  <2>1. call' \in {"none", "sent", "accepted", "refused"}
        /\ UNCHANGED << page, hydration, waiting, chains, timer, conn >>
    BY DEF SubmitServer, PageTypes, PagePlaces, pollVars, wsVars
  <2> QED BY <1>2, <1>3, <2>1 DEF PageTypes, PagePlaces
<1> QED BY <1>1, <1>3, <1>5, <1>6, <1>7 DEF ServerTypes, PageTypes

LEMMA PollGotStep ==
  ASSUME ServerTypes, PageTypes, NEW k \in Chains, PollGot(k)
  PROVE  ServerTypes' /\ PageTypes'
<1>1. /\ UNCHANGED << taskVars, announceVars, connVars, tableVars >> /\ (Trouble \/ UNCHANGED trouble)
      /\ (Ended \/ Waits) /\ timer' \in {timer, k}
      /\ UNCHANGED << page, hydration, call, conn, connected >>
      /\ chains' \in {[chains EXCEPT ![k].at = "timer"], [chains EXCEPT ![k] = Off]}
  BY DEF PollGot, wsVars
<1>2. Len(tasks') = Len(tasks) /\ Len(tasks) \in Nat
  BY <1>1 DEF ServerTypes, TaskTypes, taskVars
<1>3. ServerTypes'
  BY <1>1, SameTasks, SameAnnouncements, TroubleCounted
  DEF ServerTypes, ConnTypes, TableTypes, connVars, tableVars
<1>4. chains' \in Attempts
  <2>1. chains \in Attempts
    BY DEF PageTypes, PagePlaces
  <2>2. [chains EXCEPT ![k].at = "timer"] \in Attempts
    BY <2>1 DEF Attempts
  <2> QED BY <1>1, <2>1, <2>2, ChainStops
<1>5. PageFlags' /\ waiting' \in 0 .. Len(tasks')
  BY <1>1, <1>2, WaitEnds
<1>6. PagePlaces'
  BY <1>1, <1>2, <1>4, <1>5 DEF PageTypes, PagePlaces
<1> QED BY <1>3, <1>5, <1>6 DEF PageTypes

LEMMA OpenSocketStep ==
  ASSUME ServerTypes, PageTypes, OpenSocket
  PROVE  ServerTypes' /\ PageTypes'
<1>1. PICK c \in Conns : conn' = c /\ socket' = [socket EXCEPT ![c] = "connecting"]
  BY DEF OpenSocket
<1>2. /\ UNCHANGED << taskVars, announceVars, request, inbox, tableVars, trouble >>
      /\ UNCHANGED << page, hydration, waiting, call, chains, timer >>
  BY DEF OpenSocket, pollVars
<1>3. PageFlags'
  BY Zenon DEF OpenSocket, PageTypes, PageFlags
<1>4. ServerTypes'
  <2>1. ConnTypes'
    BY <1>1, <1>2 DEF ServerTypes, ConnTypes
  <2> QED BY <1>2, <2>1, SameTasks, SameAnnouncements DEF ServerTypes, TableTypes, tableVars
<1>5. PagePlaces'
  BY <1>1, <1>2 DEF PageTypes, PagePlaces, taskVars
<1> QED BY <1>3, <1>4, <1>5 DEF PageTypes

LEMMA OnOpenStep ==
  ASSUME ServerTypes, PageTypes, OnOpen
  PROVE  ServerTypes' /\ PageTypes'
<1>1. /\ UNCHANGED << taskVars, announceVars, socket, inbox, tableVars, trouble >>
      /\ UNCHANGED << page, hydration, waiting, call, conn >>
      /\ request' = [request EXCEPT ![conn] = "sent"] /\ StopPolling
  BY DEF OnOpen
<1>2. PageFlags'
  BY Zenon DEF OnOpen, PageTypes, PageFlags
<1>3. ServerTypes'
  <2>1. ConnTypes'
    BY <1>1 DEF ServerTypes, ConnTypes
  <2> QED BY <1>1, <2>1, SameTasks, SameAnnouncements DEF ServerTypes, TableTypes, tableVars
<1>4. PagePlaces'
  <2>1. chains' \in Attempts /\ timer' = NoChain
    BY <1>1, ChainsStop DEF PageTypes, PagePlaces
  <2> QED BY <1>1, <2>1 DEF PageTypes, PagePlaces, taskVars
<1> QED BY <1>2, <1>3, <1>4 DEF PageTypes

LEMMA OnMessageStep ==
  ASSUME ServerTypes, PageTypes, OnMessage
  PROVE  ServerTypes' /\ PageTypes'
<1>1. /\ UNCHANGED << taskVars, announceVars, socket, request, tableVars, trouble >>
      /\ UNCHANGED << page, hydration, call, conn, connected >>
      /\ inbox' = [inbox EXCEPT ![conn] = Tail(@)] /\ inbox[conn] # <<>> /\ StopPolling
  BY DEF OnMessage, wsVars
<1>2. Len(tasks') = Len(tasks) /\ Len(tasks) \in Nat
  BY <1>1 DEF ServerTypes, TaskTypes, taskVars
<1>3. ServerTypes'
  <2>1. inbox' \in [Conns -> Seq({"over", "bare"})]
    <3>1. CASE conn \in Conns
      <4>1. Tail(inbox[conn]) \in Seq({"over", "bare"})
        BY <1>1, <3>1, HeadTailProperties DEF ServerTypes, ConnTypes
      <4> QED BY <1>1, <3>1, <4>1 DEF ServerTypes, ConnTypes
    <3>2. CASE conn \notin Conns
      BY <1>1, <3>2 DEF ServerTypes, ConnTypes
    <3> QED BY <3>1, <3>2
  <2>2. ConnTypes'
    BY <1>1, <2>1 DEF ServerTypes, ConnTypes
  <2> QED BY <1>1, <2>2, SameTasks, SameAnnouncements DEF ServerTypes, TableTypes, tableVars
<1>4. PageFlags'
  BY Zenon DEF OnMessage, Ended, PageTypes, PageFlags, wsVars
<1>5. waiting' \in {waiting, 0}
  BY DEF OnMessage, Ended
<1>6. PagePlaces'
  <2>1. chains' \in Attempts /\ timer' = NoChain
    BY <1>1, ChainsStop DEF PageTypes, PagePlaces
  <2> QED BY <1>1, <1>2, <1>5, <2>1 DEF PageTypes, PagePlaces
<1> QED BY <1>3, <1>4, <1>6 DEF PageTypes

-----------------------------------------------------------------------------
(* The two together.                                                        *)
CloudInv == ServerTypes /\ PageTypes

LEMMA PageStep ==
  ASSUME CloudInv, User \/ Browser \/ OpenSocket \/ \E k \in Chains : PollWork(k)
  PROVE  CloudInv'
<1> USE DEF CloudInv
<1>1. CASE \/ HydrateRead \/ HydrateDispatch \/ Submit \/ SubmitAccepted \/ SubmitRefused \/ OnClose
           \/ \E k \in Chains : PollTimer(k)
  <2>1. PageTypes' /\ UNCHANGED serverVars
    BY <1>1, PageAlone
  <2>2. UNCHANGED << taskVars, announceVars, connVars, tableVars, trouble >>
    BY <2>1 DEF serverVars
  <2>3. ConnTypes' /\ TableTypes'
    BY <2>2 DEF ServerTypes, ConnTypes, TableTypes, connVars, tableVars
  <2> QED BY <2>1, <2>2, <2>3, SameTasks, SameAnnouncements DEF ServerTypes
<1>2. CASE Leave \/ SubmitServer \/ OpenSocket \/ OnOpen \/ OnMessage \/ \E k \in Chains : PollGot(k)
  BY <1>2, LeaveStep, SubmitStep, OpenSocketStep, OnOpenStep, OnMessageStep, PollGotStep
<1> QED BY <1>1, <1>2 DEF User, Browser, PollWork

(* A step of the server leaves the page alone but for what it misses.       *)
LEMMA OfServerStep ==
  ASSUME CloudInv, NEW ACTION step,
         step => ServerTypes' /\ Len(tasks') = Len(tasks),
         OfServer(step)
  PROVE  CloudInv'
<1>1. ServerTypes' /\ Len(tasks') = Len(tasks) /\ Len(tasks) \in Nat
  BY DEF OfServer, CloudInv, ServerTypes, TaskTypes
<1>2. UNCHANGED << page, hydration, loading, waiting, call, chains, timer, conn, connected >>
  BY DEF OfServer, pollVars, wsVars
<1>3. PageFlags'
  BY Zenon DEF OfServer, CloudInv, PageTypes, PageFlags, wsVars, Misses
<1>4. PagePlaces'
  BY <1>1, <1>2 DEF CloudInv, PageTypes, PagePlaces
<1> QED BY <1>1, <1>3, <1>4 DEF CloudInv, PageTypes

LEMMA CloudStep ==
  ASSUME CloudInv, [Next]_vars
  PROVE  CloudInv'
<1>1. CASE CloudNext
  <2>1. CASE \/ OfServer(Settle) \/ OfServer(Release) \/ OfServer(BridgeWork)
             \/ \E c \in Conns : OfServer(ConnWork(c)) \/ OfServer(Close(c))
    <3>1. ASSUME NEW c \in Conns
          PROVE  Settle \/ Release \/ BridgeWork \/ ConnWork(c) \/ Close(c) =>
                   ServerTypes' /\ Len(tasks') = Len(tasks)
      BY <3>1, ServerStep DEF CloudInv
    <3>2. Settle \/ Release \/ BridgeWork => ServerTypes' /\ Len(tasks') = Len(tasks)
      BY ServerStep DEF CloudInv
    <3>3. CASE OfServer(Settle)
      BY <3>2, <3>3, OfServerStep
    <3>4. CASE OfServer(Release)
      BY <3>2, <3>4, OfServerStep
    <3>5. CASE OfServer(BridgeWork)
      BY <3>2, <3>5, OfServerStep
    <3>6. ASSUME NEW c \in Conns, OfServer(ConnWork(c)) PROVE CloudInv'
      BY <3>1, <3>6, OfServerStep
    <3>7. ASSUME NEW c \in Conns, OfServer(Close(c)) PROVE CloudInv'
      BY <3>1, <3>7, OfServerStep
    <3> QED BY <2>1, <3>3, <3>4, <3>5, <3>6, <3>7
  <2>2. CASE OfPage(User) \/ OfPage(Browser) \/ OfPage(OpenSocket) \/ \E k \in Chains : OfPage(PollWork(k))
    BY <2>2, PageStep DEF OfPage
  <2> QED BY <1>1, <2>1, <2>2 DEF CloudNext
<1>2. CASE OfLocal(LocalNext) \/ UNCHANGED vars
  <2>1. UNCHANGED << taskVars, announceVars, connVars, tableVars, trouble, pageVars >>
    BY <1>2 DEF OfLocal, vars, serverVars
  <2>2. ServerTypes'
    BY <2>1, SameTasks, SameAnnouncements
    DEF CloudInv, ServerTypes, ConnTypes, TableTypes, connVars, tableVars
  <2>3. PageFlags'
    BY <2>1, Zenon DEF CloudInv, PageTypes, PageFlags, pageVars, wsVars
  <2>4. PagePlaces'
    BY <2>1 DEF CloudInv, PageTypes, PagePlaces, pageVars, pollVars, wsVars, taskVars
  <2> QED BY <2>2, <2>3, <2>4 DEF CloudInv, PageTypes
<1> QED BY <1>1, <1>2 DEF Next

LEMMA CloudStarts ==
  ASSUME Init
  PROVE  CloudInv
<1>1. ServerInit /\ WizardInit
  BY DEF Init
<1>2. TaskTypes /\ AnnounceTypes
  <2>1. tasks \in {<<>>, << Queued >>}
    BY <1>1 DEF ServerInit
  <2>2. tasks \in Seq({Queued, Over}) /\ Len(tasks) \in Nat
    <3>1. CASE tasks = <<>>
      BY <3>1, EmptySeq
    <3>2. CASE tasks = << Queued >>
      BY <3>2
    <3> QED BY <2>1, <3>1, <3>2
  <2>3. TaskTypes
    BY <1>1, <2>2 DEF ServerInit, TaskTypes
  <2>4. <<>> \in Seq(Numbers)
    BY EmptySeq
  <2>5. NoBatch \in [batch : Seq(Numbers), at : Nat \ {0}, looked : BOOLEAN, result : BOOLEAN,
                     left : SUBSET Conns]
    BY <2>4 DEF NoBatch
  <2>6. AnnounceTypes
    BY <1>1, <2>4, <2>5 DEF ServerInit, AnnounceTypes
  <2> QED BY <2>3, <2>6
<1>3. ConnTypes
  BY <1>1 DEF ServerInit, ConnTypes
<1>4. TableTypes
  BY <1>1, ConnectionsAssumption DEF ServerInit, TableTypes
<1>5. PageFlags
  BY <1>1, Zenon DEF WizardInit, PageFlags
<1>6. PagePlaces
  BY <1>1, <1>2, OffIsChain DEF WizardInit, PagePlaces, Attempts, TaskTypes
<1> QED BY <1>2, <1>3, <1>4, <1>5, <1>6 DEF CloudInv, ServerTypes, PageTypes

(* Of the deployed service, too, every field keeps its type: no chain polls *)
(* more often than its attempts allow, the page waits for tasks that were   *)
(* submitted, and the bridge's place stays within the batch that it was     *)
(* given. (usePollTask, useWizardState, ws_notification_bridge.)            *)
THEOREM DeliveryTypeCorrect == Spec => []TypeOK
<1>1. ASSUME CloudInv PROVE ServerTypeOK
  <2>1. DOMAIN tasks = Numbers
    BY <1>1 DEF CloudInv, ServerTypes, TaskTypes, Numbers
  <2>2. \A i \in DOMAIN tasks : tasks[i] \in {Queued, Over}
    BY <1>1, <2>1, ElementOfSeq DEF CloudInv, ServerTypes, TaskTypes, Numbers
  <2>3. bridge.left \subseteq Conns
    BY <1>1 DEF CloudInv, ServerTypes, AnnounceTypes
  <2> QED BY <1>1, <2>1, <2>2, <2>3
          DEF CloudInv, ServerTypes, TaskTypes, AnnounceTypes, ConnTypes, TableTypes, ServerTypeOK
<1>2. ASSUME CloudInv PROVE WizardTypeOK
  <2>1. {loading, connected, missed} \subseteq BOOLEAN
    BY <1>2, Zenon DEF CloudInv, PageTypes, PageFlags
  <2> QED BY <1>2, <2>1 DEF CloudInv, PageTypes, PagePlaces, Attempts, WizardTypeOK
<1>3. Spec => []CloudInv
  BY CloudStarts, CloudStep, PTL DEF Spec
<1> QED BY LocalTypeCorrect, <1>1, <1>2, <1>3, PTL DEF TypeOK
=============================================================================
