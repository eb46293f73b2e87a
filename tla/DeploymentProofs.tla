--------------------------- MODULE DeploymentProofs ---------------------------
(***************************************************************************)
(* What holds of a deployment for any projects, plans, snippets and limits:*)
(* the documentation's announcements and its diagram flag, the layer plan  *)
(* cache, the design step, the addresses that the resolver gives.          *)
(***************************************************************************)
EXTENDS Deployment, RecursionTheorems

-----------------------------------------------------------------------------
(* The documentation. A thread of the task is one that makes a section; its *)
(* record is followed from the start to the announcement.                   *)

ThreadRecords ==
  [at : {"off", "generate", "validate", "fix", "returned", "raised"},
   section : Sections \cup {"none"}, empty : BOOLEAN, code : Nat, good : BOOLEAN,
   attempt : 0 .. MaxDiagramAttempts, verdict : BOOLEAN, lost : BOOLEAN]

OverAt == {"returned", "raised"}

(* What a thread knows of its section: attempts are left while it is at     *)
(* work, and only a text that was made can have been found valid.           *)
ThreadSound(t) ==
  /\ t.at \in {"generate", "validate", "fix"} => t.attempt < MaxDiagramAttempts
  /\ t.at \in {"validate", "fix"} => t.code > 0
  /\ t.verdict = TRUE => t.at = "returned" /\ t.code > 0

DocsTypes ==
  /\ docsTask \in {"idle", "running", "ended"}
  /\ threads = [t \in Threads |-> threads[t]]
  /\ \A s \in Sections : threads[s] \in ThreadRecords
  /\ announced \in Seq(Sections \X [version : Nat, failed : BOOLEAN])
  /\ wrong \in 0 .. MaxWrong

AnnouncedOnce ==
  \A i, j \in DOMAIN announced : announced[i][1] = announced[j][1] => i = j

AnnouncedWhenOver ==
  \A i \in DOMAIN announced :
    LET t == threads[announced[i][1]]
    IN  t.at \in OverAt /\ announced[i][2] = Content(t)

OverOnlyAnnounced ==
  \A s \in Sections :
    threads[s].at \in OverAt /\ threads[s].lost = FALSE
      => \E i \in DOMAIN announced : announced[i][1] = s

DocsInv ==
  /\ DocsTypes
  /\ \A s \in Sections : ThreadSound(threads[s])
  /\ \A s \in Sections :
       IF docsTask = "idle" THEN threads[s].at = "off"
       ELSE threads[s].at # "off" /\ threads[s].section = s
  /\ AnnouncedOnce /\ AnnouncedWhenOver /\ OverOnlyAnnounced

(* The two ways a thread moves: on to its next call, or over.               *)
GoesOn(t) ==
  \E next \in ThreadRecords :
    /\ Continue(t, next)
    /\ next.at \in {"validate", "fix"} /\ next.section = threads[t].section
    /\ ThreadSound(next)

ComesToEnd(t) ==
  \E last \in ThreadRecords, lost \in BOOLEAN :
    /\ Over(t, last, lost)
    /\ last.at \in OverAt /\ last.section = threads[t].section
    /\ ThreadSound(last)

ThreadMoves(t) ==
  /\ threads[t].at \notin OverAt
  /\ GoesOn(t) \/ ComesToEnd(t)
  /\ wrong' \in 0 .. MaxWrong
  /\ UNCHANGED << docsTask, docs >>

LEMMA WrongBounded ==
  ASSUME DocsTypes, NEW n \in Nat, Wrong(n)
  PROVE  wrong' \in 0 .. MaxWrong
  BY MaxWrongAssumption DEF DocsTypes, Wrong

LEMMA EndIsSound ==
  ASSUME DocsTypes, NEW t \in Sections, NEW last \in ThreadRecords, NEW n \in {0, 1},
         threads[t].at \notin OverAt, UNCHANGED << docsTask, docs >>,
         last.at \in OverAt, last.section = threads[t].section, ThreadSound(last),
         Ends(t, last, n)
  PROVE  ThreadMoves(t)
<1>1. PICK lost \in BOOLEAN : /\ Wrong(n + IF lost THEN 1 ELSE 0)
                             /\ Over(t, last, lost)
  BY DEF Ends
<1>2. wrong' \in 0 .. MaxWrong
  <2>1. (n + IF lost THEN 1 ELSE 0) \in Nat
    OBVIOUS
  <2> QED
    BY <1>1, <2>1, WrongBounded
<1> QED
  BY <1>1, <1>2, Zenon DEF ThreadMoves, ComesToEnd

LEMMA ThreadsMove ==
  ASSUME DocsInv, docsTask # "idle", NEW t \in Sections, ThreadStep(t)
  PROVE  ThreadMoves(t)
<1> DEFINE r == threads[t]
<1>1. r \in ThreadRecords /\ ThreadSound(r) /\ DocsTypes
  BY DEF DocsInv, DocsTypes
<1>2. CASE GenerateDiagram(t) /\ r.empty
  <2> DEFINE last == [r EXCEPT !.at = "returned"]
  <2>1. last \in ThreadRecords /\ last.at \in OverAt /\ last.section = r.section /\ ThreadSound(last)
    BY <1>1, <1>2, MaxDiagramAssumption DEF GenerateDiagram, At, ThreadRecords, ThreadSound, OverAt
  <2>2. Ends(t, last, 0) /\ r.at \notin OverAt /\ UNCHANGED << docsTask, docs >>
    BY <1>2 DEF GenerateDiagram, At, OverAt
  <2> QED
    BY <1>1, <2>1, <2>2, EndIsSound
<1>3. CASE GenerateDiagram(t) /\ ~r.empty
  <2>1. PICK good \in BOOLEAN :
          Continue(t, [r EXCEPT !.at = "validate", !.code = 1, !.good = good])
    BY <1>3 DEF GenerateDiagram
  <2> DEFINE next == [r EXCEPT !.at = "validate", !.code = 1, !.good = good]
  <2>5. next \in ThreadRecords
    BY <1>1 DEF ThreadRecords
  <2>6. /\ next.at = "validate" /\ next.section = r.section /\ next.code = 1
        /\ next.verdict = r.verdict /\ next.attempt = r.attempt
    BY <1>1 DEF ThreadRecords
  <2>2. /\ next.at \in {"validate", "fix"} /\ next.section = r.section /\ ThreadSound(next)
    <3>1. r.at = "generate" /\ r.attempt < MaxDiagramAttempts
      BY <1>1, <1>3 DEF GenerateDiagram, At, ThreadSound
    <3>2. r.verdict # TRUE
      <4> HIDE DEF r
      <4> QED
        BY <1>1, <3>1 DEF ThreadSound
    <3> HIDE DEF next, r
    <3>3. next.verdict # TRUE
      BY <2>6, <3>2, Zenon
    <3>4. next.at = "validate" /\ next.section = r.section
          /\ next.attempt < MaxDiagramAttempts /\ next.code > 0
      BY <2>6, <3>1
    <3> QED
      BY <3>3, <3>4, Zenon DEF ThreadSound
  <2>3. r.at \notin OverAt /\ UNCHANGED << docsTask, docs, wrong >>
    BY <1>3 DEF GenerateDiagram, At, OverAt
  <2>4. wrong' \in 0 .. MaxWrong
    BY <1>1, <2>3 DEF DocsTypes
  <2> QED
    BY <2>1, <2>2, <2>3, <2>4, <2>5, Zenon DEF ThreadMoves, GoesOn
<1>4. CASE ValidateDiagram(t)
  <2>1. PICK valid \in BOOLEAN :
          LET cost == IF valid = r.good THEN 0 ELSE 1
              next == [r EXCEPT !.attempt = @ + 1, !.verdict = valid]
          IN  IF valid \/ next.attempt = MaxDiagramAttempts
              THEN Ends(t, [next EXCEPT !.at = "returned"], cost)
              ELSE Wrong(cost) /\ Continue(t, [next EXCEPT !.at = "fix"])
    BY <1>4 DEF ValidateDiagram
  <2> DEFINE cost == IF valid = r.good THEN 0 ELSE 1
             next == [r EXCEPT !.attempt = @ + 1, !.verdict = valid]
             last == [next EXCEPT !.at = "returned"]
             more == [next EXCEPT !.at = "fix"]
  <2>2. r.at = "validate" /\ r.at \notin OverAt /\ UNCHANGED << docsTask, docs >>
    BY <1>4 DEF ValidateDiagram, At, OverAt
  <2>7. r.code > 0 /\ r.attempt + 1 \in 0 .. MaxDiagramAttempts
    BY <1>1, <2>2, MaxDiagramAssumption DEF ThreadRecords, ThreadSound
  <2>8. next \in ThreadRecords
    BY <1>1, <2>7 DEF ThreadRecords
  <2>9. /\ next.at = r.at /\ next.section = r.section /\ next.code = r.code
        /\ next.verdict = valid /\ next.attempt = r.attempt + 1
    BY <1>1 DEF ThreadRecords
  <2>3. /\ last \in ThreadRecords /\ last.at \in OverAt
        /\ last.section = r.section /\ ThreadSound(last)
    <3> HIDE DEF next
    <3>1. /\ last \in ThreadRecords /\ last.at = "returned"
          /\ last.section = next.section /\ last.code = next.code
      BY <2>8 DEF ThreadRecords
    <3> QED
      BY <2>7, <2>9, <3>1 DEF ThreadSound, OverAt
  <2>4. cost \in {0, 1} /\ cost \in Nat
    OBVIOUS
  <2>5. CASE valid \/ next.attempt = MaxDiagramAttempts
    <3>1. Ends(t, last, cost)
      BY <2>1, <2>5, Zenon
    <3> QED
      BY <1>1, <2>2, <2>3, <2>4, <3>1, EndIsSound
  <2>6. CASE ~valid /\ next.attempt # MaxDiagramAttempts
    <3>1. Wrong(cost) /\ Continue(t, more)
      BY <2>1, <2>6, Zenon
    <3>2. /\ more \in ThreadRecords /\ more.at \in {"validate", "fix"}
          /\ more.section = r.section /\ ThreadSound(more)
      <4>1. next.attempt # MaxDiagramAttempts /\ valid = FALSE
        BY <2>6
      <4> HIDE DEF next
      <4>2. /\ more \in ThreadRecords /\ more.at = "fix" /\ more.section = next.section
            /\ more.code = next.code /\ more.attempt = next.attempt
            /\ more.verdict = next.verdict
        BY <2>8 DEF ThreadRecords
      <4>3. more.verdict # TRUE
        BY <2>9, <4>1, <4>2, Zenon
      <4> QED
        BY <2>7, <2>9, <4>1, <4>2, <4>3, MaxDiagramAssumption DEF ThreadSound
    <3>3. wrong' \in 0 .. MaxWrong
      BY <1>1, <2>4, <3>1, WrongBounded
    <3> QED
      BY <2>2, <3>1, <3>2, <3>3, Zenon DEF ThreadMoves, GoesOn
  <2> QED
    BY <2>5, <2>6
<1>5. CASE FixDiagram(t)
  <2>1. PICK good \in BOOLEAN :
          Continue(t, [r EXCEPT !.at = "validate", !.code = @ + 1, !.good = good,
                                !.verdict = FALSE])
    BY <1>5 DEF FixDiagram
  <2> DEFINE next == [r EXCEPT !.at = "validate", !.code = @ + 1, !.good = good, !.verdict = FALSE]
  <2>7. r.code \in Nat /\ r.code + 1 \in Nat
    BY <1>1 DEF ThreadRecords
  <2>5. next \in ThreadRecords
    BY <1>1, <2>7 DEF ThreadRecords
  <2>6. /\ next.at = "validate" /\ next.section = r.section /\ next.code = r.code + 1
        /\ next.verdict = FALSE /\ next.attempt = r.attempt /\ r.code \in Nat
    BY <1>1 DEF ThreadRecords
  <2>2. /\ next.at \in {"validate", "fix"} /\ next.section = r.section /\ ThreadSound(next)
    <3> HIDE DEF next
    <3> QED
      BY <1>1, <1>5, <2>6 DEF FixDiagram, At, ThreadSound
  <2>3. r.at \notin OverAt /\ UNCHANGED << docsTask, docs, wrong >>
    BY <1>5 DEF FixDiagram, At, OverAt
  <2>4. wrong' \in 0 .. MaxWrong
    BY <1>1, <2>3 DEF DocsTypes
  <2> QED
    BY <2>1, <2>2, <2>3, <2>4, <2>5, Zenon DEF ThreadMoves, GoesOn
<1>6. CASE GenerateUserGuide(t)
  <2> DEFINE last == [r EXCEPT !.at = "returned", !.code = 1]
  <2>1. last \in ThreadRecords /\ last.at \in OverAt /\ last.section = r.section /\ ThreadSound(last)
    BY <1>1, <1>6, MaxDiagramAssumption DEF GenerateUserGuide, At, ThreadRecords, ThreadSound, OverAt
  <2>2. Ends(t, last, 0) /\ r.at \notin OverAt /\ UNCHANGED << docsTask, docs >>
    BY <1>6 DEF GenerateUserGuide, At, OverAt
  <2> QED
    BY <1>1, <2>1, <2>2, EndIsSound
<1>7. CASE ThreadRaises(t)
  <2> DEFINE last == [r EXCEPT !.at = "raised", !.verdict = FALSE]
  <2>1. last \in ThreadRecords /\ last.at \in OverAt /\ last.section = r.section /\ ThreadSound(last)
    BY <1>1, <1>7, MaxDiagramAssumption DEF ThreadRaises, ThreadRecords, ThreadSound, OverAt
  <2>2. Ends(t, last, 1) /\ r.at \notin OverAt /\ UNCHANGED << docsTask, docs >>
    BY <1>7 DEF ThreadRaises, OverAt
  <2> QED
    BY <1>1, <2>1, <2>2, EndIsSound
<1> QED
  BY <1>2, <1>3, <1>4, <1>5, <1>6, <1>7 DEF ThreadStep

LEMMA GoingOnKeepsDocs ==
  ASSUME DocsInv, docsTask # "idle", NEW t \in Sections, ThreadMoves(t), GoesOn(t)
  PROVE  DocsInv'
<1>1. PICK next \in ThreadRecords :
        /\ threads' = [threads EXCEPT ![t] = next] /\ announced' = announced
        /\ next.at \in {"validate", "fix"} /\ next.section = threads[t].section
        /\ ThreadSound(next)
  BY DEF GoesOn, Continue
<1>2. /\ threads' = [u \in Threads |-> threads'[u]] /\ threads'[t] = next
      /\ \A s \in Sections \ {t} : threads'[s] = threads[s]
  BY <1>1 DEF DocsInv, DocsTypes, Threads
<1>3. DocsTypes'
  BY <1>1, <1>2 DEF DocsInv, DocsTypes, ThreadMoves
<1>4. \A s \in Sections : ThreadSound(threads'[s])
  BY <1>1, <1>2 DEF DocsInv
<1>5. \A s \in Sections : threads'[s].at # "off" /\ threads'[s].section = s
  BY <1>1, <1>2 DEF DocsInv
<1>6. AnnouncedOnce' /\ AnnouncedWhenOver' /\ OverOnlyAnnounced'
  <2>1. \A i \in DOMAIN announced : announced[i][1] \in Sections /\ announced[i][1] # t
    BY DEF DocsInv, DocsTypes, AnnouncedWhenOver, ThreadMoves
  <2>2. next.at \notin OverAt
    BY <1>1 DEF OverAt
  <2> QED
    BY <1>1, <1>2, <2>1, <2>2 DEF DocsInv, AnnouncedOnce, AnnouncedWhenOver, OverOnlyAnnounced
<1> QED
  BY <1>3, <1>4, <1>5, <1>6 DEF DocsInv, ThreadMoves

LEMMA EndingKeepsDocs ==
  ASSUME DocsInv, docsTask # "idle", NEW t \in Sections, ThreadMoves(t), ComesToEnd(t)
  PROVE  DocsInv'
<1>1. PICK last \in ThreadRecords, lost \in BOOLEAN :
        /\ Over(t, last, lost)
        /\ last.at \in OverAt /\ last.section = threads[t].section
        /\ ThreadSound(last)
  BY DEF ComesToEnd
<1> DEFINE now == [last EXCEPT !.lost = lost]
<1>2. /\ now \in ThreadRecords /\ now.at \in OverAt /\ now.section = t
      /\ Content(now) = Content(last) /\ now.lost = lost /\ ThreadSound(now)
      /\ Content(now) \in [version : Nat, failed : BOOLEAN]
  <2>1. /\ now \in ThreadRecords /\ now.at = last.at /\ now.section = last.section
        /\ now.code = last.code /\ now.verdict = last.verdict /\ now.lost = lost
        /\ last.code \in Nat
    BY DEF ThreadRecords
  <2> HIDE DEF now
  <2>2. Content(now) = Content(last) /\ Content(now) \in [version : Nat, failed : BOOLEAN]
    BY <2>1 DEF Content, Text, ErrorText
  <2>3. ThreadSound(now)
    <3>1. now.verdict = TRUE => last.verdict = TRUE
      BY <2>1, Zenon
    <3> QED
      BY <1>1, <2>1, <3>1, Zenon DEF ThreadSound, OverAt
  <2> QED
    BY <1>1, <2>1, <2>2, <2>3 DEF DocsInv
<1>3. /\ threads' = [threads EXCEPT ![t] = now]
      /\ announced' = IF lost = FALSE THEN Append(announced, << t, Content(now) >>) ELSE announced
  BY <1>1, <1>2 DEF Over, DocsInv
<1> HIDE DEF now
<1>4. /\ threads' = [u \in Threads |-> threads'[u]] /\ threads'[t] = now
      /\ \A s \in Sections \ {t} : threads'[s] = threads[s]
  BY <1>3 DEF DocsInv, DocsTypes, Threads
<1>5. announced \in Seq(Sections \X [version : Nat, failed : BOOLEAN])
  BY DEF DocsInv, DocsTypes
<1>6. \A i \in DOMAIN announced : announced[i][1] \in Sections /\ announced[i][1] # t
  <2>1. threads[t].at \notin OverAt
    BY DEF ThreadMoves
  <2> QED
    BY <1>5, <2>1 DEF DocsInv, AnnouncedWhenOver
<1>7. DocsTypes'
  <2>1. announced' \in Seq(Sections \X [version : Nat, failed : BOOLEAN])
    BY <1>2, <1>3, <1>5
  <2> QED
    BY <1>2, <1>3, <1>4, <2>1 DEF DocsInv, DocsTypes, ThreadMoves
<1>8. \A s \in Sections : ThreadSound(threads'[s])
  BY <1>2, <1>4 DEF DocsInv
<1>9. \A s \in Sections : threads'[s].at # "off" /\ threads'[s].section = s
  BY <1>2, <1>4 DEF DocsInv, OverAt
<1>10. AnnouncedOnce' /\ AnnouncedWhenOver' /\ OverOnlyAnnounced'
  <2>1. CASE lost = TRUE
    <3>1. announced' = announced
      BY <1>3, <2>1
    <3>2. AnnouncedOnce'
      BY <3>1 DEF DocsInv, AnnouncedOnce
    <3>3. AnnouncedWhenOver'
      BY <1>4, <1>6, <3>1 DEF DocsInv, AnnouncedWhenOver
    <3>4. OverOnlyAnnounced'
      BY <1>2, <1>4, <2>1, <3>1 DEF DocsInv, OverOnlyAnnounced
    <3> QED
      BY <3>2, <3>3, <3>4
  <2>2. CASE lost = FALSE
    <3> DEFINE n == Len(announced) + 1
    <3>1. /\ DOMAIN announced' = 1 .. n /\ DOMAIN announced = 1 .. n - 1 /\ n \in Nat \ {0}
          /\ announced'[n] = << t, Content(now) >>
          /\ \A i \in 1 .. n - 1 : announced'[i] = announced[i]
      BY <1>2, <1>3, <1>5, <2>2
    <3> HIDE DEF n
    <3>2. AnnouncedOnce'
      BY <1>6, <3>1 DEF DocsInv, AnnouncedOnce
    <3>3. AnnouncedWhenOver'
      BY <1>2, <1>4, <1>6, <3>1 DEF DocsInv, AnnouncedWhenOver
    <3>4. OverOnlyAnnounced'
      <4> SUFFICES ASSUME NEW s \in Sections, threads'[s].at \in OverAt, threads'[s].lost = FALSE
                   PROVE  \E i \in 1 .. n : announced'[i][1] = s
        BY <3>1 DEF OverOnlyAnnounced
      <4>1. CASE s = t
        BY <3>1, <4>1
      <4>2. CASE s # t
        <5>1. \E i \in DOMAIN announced : announced[i][1] = s
          BY <1>4, <4>2 DEF DocsInv, OverOnlyAnnounced
        <5> QED
          BY <3>1, <5>1
      <4> QED
        BY <4>1, <4>2
    <3> QED
      BY <3>2, <3>3, <3>4
  <2> QED
    BY <2>1, <2>2
<1> QED
  BY <1>7, <1>8, <1>9, <1>10 DEF DocsInv, ThreadMoves

(* What requests do, and the end of the task, leave the task's threads and  *)
(* their announcements alone.                                               *)
LEMMA OthersKeepDocs ==
  ASSUME DocsInv, announced' = announced, wrong' \in 0 .. MaxWrong,
         threads' = [t \in Threads |-> threads'[t]],
         \A s \in Sections : threads'[s] = threads[s],
         docsTask' = docsTask \/ (docsTask = "running" /\ docsTask' = "ended")
  PROVE  DocsInv'
<1>1. DocsTypes'
  BY DEF DocsInv, DocsTypes
<1>2. \A i \in DOMAIN announced : announced[i][1] \in Sections
  BY DEF DocsInv, DocsTypes
<1>3. AnnouncedOnce' /\ AnnouncedWhenOver' /\ OverOnlyAnnounced'
  BY <1>2 DEF DocsInv, AnnouncedOnce, AnnouncedWhenOver, OverOnlyAnnounced
<1> QED
  BY <1>1, <1>3 DEF DocsInv

LEMMA StartKeepsDocs ==
  ASSUME DocsInv, NEW empty \in BOOLEAN, StartDocs(empty)
  PROVE  DocsInv'
<1> DEFINE r(s) == Thread(s, empty)
<1>1. \A s \in Sections : /\ r(s) \in ThreadRecords /\ r(s).at = "generate" /\ r(s).section = s
                          /\ r(s).attempt = 0 /\ r(s).verdict = FALSE
  <2> SUFFICES ASSUME NEW s \in Sections
               PROVE  /\ r(s) \in ThreadRecords /\ r(s).at = "generate" /\ r(s).section = s
                      /\ r(s).attempt = 0 /\ r(s).verdict = FALSE
    OBVIOUS
  <2>1. Off \in ThreadRecords /\ Off.attempt = 0 /\ Off.verdict = FALSE
    BY MaxDiagramAssumption DEF Off, ThreadRecords
  <2>2. r(s) = [Off EXCEPT !.at = "generate", !.section = s, !.empty = empty]
    BY DEF Thread
  <2> HIDE DEF r, Off
  <2> QED
    BY <2>1, <2>2 DEF ThreadRecords
<1>2. /\ threads' = [t \in Threads |-> threads'[t]]
      /\ \A s \in Sections : threads'[s] = r(s)
      /\ announced' = <<>> /\ docsTask' = "running" /\ wrong' = wrong
  BY DEF StartDocs, Threads
<1> HIDE DEF r
<1>3. DocsTypes'
  BY <1>1, <1>2 DEF DocsInv, DocsTypes
<1>4. \A s \in Sections : ThreadSound(threads'[s])
  BY <1>1, <1>2, MaxDiagramAssumption DEF ThreadSound
<1>5. AnnouncedOnce' /\ AnnouncedWhenOver' /\ OverOnlyAnnounced'
  BY <1>1, <1>2 DEF AnnouncedOnce, AnnouncedWhenOver, OverOnlyAnnounced, OverAt
<1> QED
  BY <1>1, <1>2, <1>3, <1>4, <1>5 DEF DocsInv

LEMMA RequestsKeepDocs ==
  ASSUME DocsInv, NEW r \in Requests,
         RequestWork(r) \/ ThreadStep(r) \/ \E s \in Sections, e \in BOOLEAN : Regenerate(r, s, e)
  PROVE  DocsInv'
<1>1. r \notin Sections /\ r \in Threads
  BY RequestsAssumption DEF Threads
<1>2. announced' = announced /\ wrong' \in 0 .. MaxWrong /\ docsTask' = docsTask
  <2>1. wrong \in 0 .. MaxWrong /\ DocsTypes
    BY DEF DocsInv, DocsTypes
  <2>2. ASSUME NEW last, NEW n \in {0, 1}, Ends(r, last, n)
        PROVE  announced' = announced /\ wrong' \in 0 .. MaxWrong
    BY <1>1, <2>1, <2>2, WrongBounded DEF Ends, Over
  <2>3. CASE RequestWork(r) \/ \E s \in Sections, e \in BOOLEAN : Regenerate(r, s, e)
    BY <2>1, <2>3 DEF RequestWork, LoadDocs, SaveDocs, Regenerate
  <2>4. CASE GenerateDiagram(r)
    BY <2>1, <2>2, <2>4 DEF GenerateDiagram, Continue
  <2>5. CASE ValidateDiagram(r)
    <3>1. PICK valid \in BOOLEAN :
            LET cost == IF valid = threads[r].good THEN 0 ELSE 1
                next == [threads[r] EXCEPT !.attempt = @ + 1, !.verdict = valid]
            IN  IF valid \/ next.attempt = MaxDiagramAttempts
                THEN Ends(r, [next EXCEPT !.at = "returned"], cost)
                ELSE Wrong(cost) /\ Continue(r, [next EXCEPT !.at = "fix"])
      BY <2>5 DEF ValidateDiagram
    <3> DEFINE cost == IF valid = threads[r].good THEN 0 ELSE 1
               next == [threads[r] EXCEPT !.attempt = @ + 1, !.verdict = valid]
               last == [next EXCEPT !.at = "returned"]
    <3>2. cost \in {0, 1} /\ cost \in Nat
      OBVIOUS
    <3>3. Ends(r, last, cost) \/ (Wrong(cost) /\ announced' = announced)
      BY <3>1, Zenon DEF Continue
    <3> HIDE DEF cost, last
    <3> QED
      BY <2>1, <2>2, <2>5, <3>2, <3>3, WrongBounded DEF ValidateDiagram
  <2>6. CASE FixDiagram(r)
    BY <2>1, <2>6 DEF FixDiagram, Continue
  <2>7. CASE GenerateUserGuide(r) \/ ThreadRaises(r)
    BY <2>2, <2>7 DEF GenerateUserGuide, ThreadRaises
  <2> QED
    BY <2>3, <2>4, <2>5, <2>6, <2>7 DEF ThreadStep
<1>3. \E x : threads' = [threads EXCEPT ![r] = x]
  BY DEF RequestWork, LoadDocs, SaveDocs, Regenerate, ThreadStep, GenerateDiagram,
         ValidateDiagram, FixDiagram, GenerateUserGuide, ThreadRaises, Ends, Over, Continue
<1>4. /\ threads' = [t \in Threads |-> threads'[t]]
      /\ \A s \in Sections : threads'[s] = threads[s]
  <2>1. threads = [t \in Threads |-> threads[t]]
    BY DEF DocsInv, DocsTypes
  <2> QED
    BY <1>1, <1>3, <2>1 DEF Threads
<1> QED
  BY <1>2, <1>4, OthersKeepDocs

LEMMA DocsSteps ==
  ASSUME DocsInv, [Next]_vars
  PROVE  DocsInv'
<1>1. CASE UNCHANGED docsVars
  BY <1>1, OthersKeepDocs DEF docsVars, DocsInv, DocsTypes
<1>2. ASSUME StartDocumentation
      PROVE  DocsInv'
  BY <1>2, StartKeepsDocs DEF StartDocumentation
<1>3. ASSUME RegenerateSection
      PROVE  DocsInv'
  BY <1>3, RequestsKeepDocs DEF RegenerateSection
<1>4. ASSUME FinishDocs
      PROVE  DocsInv'
  BY <1>4, OthersKeepDocs DEF FinishDocs, DocsInv, DocsTypes
<1>5. ASSUME NEW t \in Threads, ThreadStep(t)
      PROVE  DocsInv'
  <2>1. CASE t \in Requests
    BY <1>5, <2>1, RequestsKeepDocs
  <2>2. CASE t \in Sections /\ docsTask # "idle"
    BY <1>5, <2>2, ThreadsMove, GoingOnKeepsDocs, EndingKeepsDocs DEF ThreadMoves
  <2>3. CASE t \in Sections /\ docsTask = "idle"
    <3>1. threads[t].at = "off"
      BY <2>3 DEF DocsInv
    <3> QED
      BY <1>5, <3>1 DEF ThreadStep, GenerateDiagram, ValidateDiagram, FixDiagram,
                        GenerateUserGuide, ThreadRaises, At
  <2> QED
    BY <2>1, <2>2, <2>3 DEF Threads
<1>6. ASSUME DocumentStep
      PROVE  DocsInv'
  BY <1>4, <1>5, <1>6, RequestsKeepDocs DEF DocumentStep, DocsWork
<1>7. CASE \/ \E p \in Projects : OpenProject(p)
           \/ Redesign \/ SelectDesign \/ LoadForRefine \/ SaveRefined
           \/ StartIac \/ GenerateStep \/ FinishIac
  BY <1>1, <1>7 DEF OpenProject, Redesign, SelectDesign, LoadForRefine, SaveRefined, StartIac,
                    GenerateStep, FinishIac, docsVars
<1>8. CASE UNCHANGED vars
  BY <1>1, <1>8 DEF vars
<1> QED
  BY <1>2, <1>3, <1>6, <1>7, <1>8 DEF Next

LEMMA DocsAlways == Spec => []DocsInv
<1>1. Init => DocsInv
  <2> SUFFICES ASSUME Init PROVE DocsInv
    OBVIOUS
  <2>1. Off \in ThreadRecords /\ Off.at = "off" /\ ThreadSound(Off)
    BY MaxDiagramAssumption DEF Off, ThreadRecords, ThreadSound
  <2>2. /\ threads = [t \in Threads |-> Off] /\ announced = <<>>
        /\ docsTask = "idle" /\ wrong = 0
    BY DEF Init, DocsInit
  <2>3. \A s \in Sections : threads[s] = Off
    BY <2>2 DEF Threads
  <2> HIDE DEF Off
  <2>4. DocsTypes
    BY <2>1, <2>2, <2>3, MaxWrongAssumption DEF DocsTypes
  <2> QED
    BY <2>1, <2>2, <2>3, <2>4 DEF DocsInv, AnnouncedOnce, AnnouncedWhenOver, OverOnlyAnnounced, OverAt
<1> QED
  BY <1>1, DocsSteps, PTL DEF Spec

(* What the end of the task shows of its invariant.                         *)
LEMMA DocsEndings ==
  ASSUME DocsInv, [Next]_vars, docsTask' = "ended", docsTask = "running"
  PROVE  /\ \A s \in Sections : threads[s].at \in OverAt /\ docs'[s] = Content(threads[s])
         /\ docs'.passed = threads["architecture_diagram"].verdict
<1>1. FinishDocs
  <2>1. docsTask' # docsTask
    OBVIOUS
  <2>2. ASSUME NEW t \in Threads, ThreadStep(t)
        PROVE  FALSE
    BY <2>1, <2>2 DEF ThreadStep, GenerateDiagram, ValidateDiagram, FixDiagram,
                      GenerateUserGuide, ThreadRaises
  <2>3. ASSUME NEW r \in Requests, RequestWork(r)
        PROVE  FALSE
    BY <2>1, <2>3 DEF RequestWork, LoadDocs, SaveDocs
  <2>4. ~StartDocumentation /\ ~RegenerateSection
    BY <2>1 DEF StartDocumentation, StartDocs, RegenerateSection, Regenerate
  <2>5. ~UNCHANGED docsVars /\ ~UNCHANGED vars
    BY <2>1 DEF docsVars, vars
  <2> QED
    BY <2>2, <2>3, <2>4, <2>5
       DEF Next, DocumentStep, DocsWork, OpenProject, Redesign, SelectDesign, LoadForRefine,
           SaveRefined, StartIac, GenerateStep, FinishIac
<1> QED
  BY <1>1 DEF FinishDocs, Result, OverAt, Sections

(* When the docs task ends, each of the two sections was announced with the *)
(* text that is stored, once and no other, except an announcement that      *)
(* failed; whichever thread finished first and whatever either raised.      *)
THEOREM SectionsAlwaysAnnounced == Spec => SectionsAnnounced
<1>1. ASSUME DocsInv, [Next]_vars, docsTask' = "ended", docsTask = "running"
      PROVE  /\ \A s \in Sections : \A i, j \in Announced(s) : i = j
             /\ \A s \in Sections : \A i \in Announced(s) : announced[i][2] = docs'[s]
             /\ \A s \in Sections : threads[s].lost \/ Announced(s) # {}
  <2>1. \A s \in Sections : threads[s].at \in OverAt /\ docs'[s] = Content(threads[s])
    BY <1>1, DocsEndings
  <2>2. \A s \in Sections : \A i, j \in Announced(s) : i = j
    BY <1>1 DEF DocsInv, AnnouncedOnce, Announced
  <2>3. \A s \in Sections : \A i \in Announced(s) : announced[i][2] = docs'[s]
    BY <1>1, <2>1 DEF DocsInv, AnnouncedWhenOver, Announced
  <2>4. \A s \in Sections : threads[s].lost = TRUE \/ Announced(s) # {}
    <3>1. \A s \in Sections : threads[s].lost \in BOOLEAN
      BY <1>1 DEF DocsInv, DocsTypes, ThreadRecords
    <3> QED
      BY <1>1, <2>1, <3>1 DEF DocsInv, OverOnlyAnnounced, Announced
  <2>5. \A s \in Sections : threads[s].lost \/ Announced(s) # {}
    BY <2>4, Zenon
  <2> QED
    BY <2>2, <2>3, <2>5
<1>2. DocsInv /\ [Next]_vars =>
        [docsTask' = "ended" /\ docsTask = "running" =>
           /\ \A s \in Sections : \A i, j \in Announced(s) : i = j
           /\ \A s \in Sections : \A i \in Announced(s) : announced[i][2] = docs'[s]
           /\ \A s \in Sections : threads[s].lost \/ Announced(s) # {}]_docsVars
  BY <1>1
<1> QED
  BY <1>2, DocsAlways, PTL DEF Spec, SectionsAnnounced

(* A diagram is stored as validated only if the validator passed that very  *)
(* text; the text of a failure or an empty one is never said to have passed.*)
THEOREM DiagramFlagHonest == Spec => DiagramFlag
<1>1. ASSUME DocsInv, [Next]_vars, docsTask' = "ended", docsTask = "running", docs'.passed
      PROVE  /\ threads["architecture_diagram"].verdict
             /\ docs'.architecture_diagram = Text(threads["architecture_diagram"].code)
             /\ docs'.architecture_diagram.version > 0
  <2> DEFINE t == threads["architecture_diagram"]
  <2>1. t.verdict
    BY <1>1, DocsEndings, Zenon
  <2>2. /\ docs'["architecture_diagram"] = Content(t)
        /\ t.verdict \in BOOLEAN /\ ThreadSound(t)
    BY <1>1, DocsEndings DEF Sections, DocsInv, DocsTypes, ThreadRecords
  <2>3. t.verdict = TRUE
    BY <2>1, <2>2
  <2>4. t.at = "returned" /\ t.code > 0
    BY <2>2, <2>3 DEF ThreadSound
  <2> QED
    BY <2>1, <2>2, <2>4 DEF Content, Text
<1>2. DocsInv /\ [Next]_vars =>
        [docsTask' = "ended" /\ docsTask = "running" /\ docs'.passed =>
           /\ threads["architecture_diagram"].verdict
           /\ docs'.architecture_diagram = Text(threads["architecture_diagram"].code)
           /\ docs'.architecture_diagram.version > 0]_docsVars
  BY <1>1, Zenon
<1> QED
  BY <1>2, DocsAlways, PTL DEF Spec, DiagramFlag

-----------------------------------------------------------------------------
(* The layer plan cache.                                                    *)

CacheEntries(K) == [key : K, plan : GeneratedPlans, fresh : BOOLEAN]

(* CacheSound of any sequence of entries.                                   *)
Ordered(c) ==
  \A i, j \in DOMAIN c :
    i < j => c[i].key # c[j].key /\ (c[i].fresh = TRUE => c[j].fresh = TRUE)

CacheInv ==
  /\ \E K : cache \in Seq(CacheEntries(K))
  /\ Len(cache) <= MaxCache
  /\ Ordered(cache)

LEMMA RemoveAtProperties ==
  ASSUME NEW S, NEW s \in Seq(S), NEW k \in 1 .. Len(s)
  PROVE  /\ RemoveAt(s, k) \in Seq(S)
         /\ Len(RemoveAt(s, k)) = Len(s) - 1
         /\ \A i \in 1 .. Len(s) - 1 : RemoveAt(s, k)[i] = IF i < k THEN s[i] ELSE s[i + 1]
<1> DEFINE n == Len(s)
           a == SubSeq(s, 1, k - 1)
           b == SubSeq(s, k + 1, n)
<1>1. n \in Nat /\ k \in 1 .. n /\ \A i \in 1 .. n : s[i] \in S
  BY LenProperties
<1> HIDE DEF n
<1>2. /\ a \in Seq(S) /\ Len(a) = k - 1
      /\ \A i \in 1 .. k - 1 : a[i] = s[i]
  <2>1. \A i \in 1 .. k - 1 : s[i] \in S
    BY <1>1
  <2>2. /\ SubSeq(s, 1, k - 1) \in Seq(S)
        /\ Len(SubSeq(s, 1, k - 1)) = IF 1 <= k - 1 THEN k - 1 - 1 + 1 ELSE 0
        /\ \A i \in 1 .. k - 1 - 1 + 1 : SubSeq(s, 1, k - 1)[i] = s[1 + i - 1]
    BY <1>1, <2>1, SubSeqProperties
  <2> QED
    BY <1>1, <2>2
<1>3. /\ b \in Seq(S) /\ Len(b) = n - k
      /\ \A i \in 1 .. n - k : b[i] = s[k + i]
  <2>1. \A i \in k + 1 .. n : s[i] \in S
    BY <1>1
  <2>2. /\ SubSeq(s, k + 1, n) \in Seq(S)
        /\ Len(SubSeq(s, k + 1, n)) = IF k + 1 <= n THEN n - (k + 1) + 1 ELSE 0
        /\ \A i \in 1 .. n - (k + 1) + 1 : SubSeq(s, k + 1, n)[i] = s[k + 1 + i - 1]
    BY <1>1, <2>1, SubSeqProperties
  <2> QED
    BY <1>1, <2>2
<1> HIDE DEF a, b
<1>4. /\ a \o b \in Seq(S) /\ Len(a \o b) = n - 1
      /\ \A i \in 1 .. n - 1 : (a \o b)[i] = IF i < k THEN s[i] ELSE s[i + 1]
  <2>1. /\ a \o b \in Seq(S) /\ Len(a \o b) = Len(a) + Len(b)
        /\ \A i \in 1 .. Len(a) + Len(b) :
             (a \o b)[i] = IF i <= Len(a) THEN a[i] ELSE b[i - Len(a)]
    BY <1>2, <1>3, ConcatProperties
  <2>2. Len(a) = k - 1 /\ Len(b) = n - k /\ Len(a) + Len(b) = n - 1
    BY <1>1, <1>2, <1>3
  <2>3. ASSUME NEW i \in 1 .. n - 1, i < k
        PROVE  (a \o b)[i] = s[i]
    <3>1. i \in 1 .. k - 1 /\ i <= k - 1
      BY <1>1, <2>3
    <3> QED
      BY <1>2, <2>1, <2>2, <3>1
  <2>4. ASSUME NEW i \in 1 .. n - 1, ~(i < k)
        PROVE  (a \o b)[i] = s[i + 1]
    <3>1. i - (k - 1) \in 1 .. n - k /\ ~(i <= k - 1) /\ k + (i - (k - 1)) = i + 1
      BY <1>1, <2>4
    <3>2. (a \o b)[i] = b[i - (k - 1)]
      BY <2>1, <2>2, <3>1
    <3> QED
      BY <1>3, <3>1, <3>2
  <2> QED
    BY <2>1, <2>2, <2>3, <2>4
<1>5. RemoveAt(s, k) = a \o b
  BY DEF RemoveAt, a, b, n
<1> QED
  BY <1>4, <1>5 DEF n

LEMMA ReplacedProperties ==
  ASSUME NEW S, NEW s \in Seq(S), NEW k \in 1 .. Len(s), NEW e \in S,
         NEW t, t = [s EXCEPT ![k] = e]
  PROVE  /\ t \in Seq(S) /\ Len(t) = Len(s)
         /\ \A j \in 1 .. Len(s) : t[j] = IF j = k THEN e ELSE s[j]
  BY ExceptSeq

LEMMA PutKeepsCache ==
  ASSUME NEW K, NEW c \in Seq(CacheEntries(K)), Len(c) <= MaxCache, Ordered(c),
         NEW key \in K, NEW p \in GeneratedPlans
  PROVE  /\ CachePut(c, key, p) \in Seq(CacheEntries(K))
         /\ Len(CachePut(c, key, p)) <= MaxCache
         /\ Ordered(CachePut(c, key, p))
<1> DEFINE E == CacheEntries(K)
           room == IF Len(c) >= MaxCache THEN Tail(c) ELSE c
           rest == Without(room, key)
           new == [key |-> key, plan |-> p, fresh |-> TRUE]
<1>1. new \in E /\ new.key = key /\ new.fresh = TRUE
  BY DEF CacheEntries
<1>2. Len(c) \in Nat /\ DOMAIN c = 1 .. Len(c) /\ MaxCache \in Nat \ {0}
  BY LenProperties, MaxCacheAssumption
<1>3. room \in Seq(E) /\ Len(room) < MaxCache /\ Ordered(room)
  <2>1. CASE Len(c) >= MaxCache
    <3>1. c # <<>>
      BY <1>2, <2>1, EmptySeq
    <3>2. /\ Tail(c) \in Seq(E) /\ Len(Tail(c)) = Len(c) - 1
          /\ \A i \in 1 .. Len(Tail(c)) : Tail(c)[i] = c[i + 1]
      BY <3>1, HeadTailProperties
    <3>3. DOMAIN Tail(c) = 1 .. Len(c) - 1
      BY <3>2, LenProperties
    <3>4. Ordered(Tail(c))
      BY <1>2, <3>2, <3>3 DEF Ordered
    <3> QED
      BY <1>2, <2>1, <3>2, <3>4
  <2>2. CASE Len(c) < MaxCache
    BY <1>2, <2>2
  <2> QED
    BY <1>2, <2>1, <2>2
<1> HIDE DEF room, E
<1>4. /\ rest \in Seq(E) /\ Len(rest) < MaxCache /\ Ordered(rest)
      /\ \A i \in DOMAIN rest : rest[i].key # key
  <2>1. Len(room) \in Nat /\ DOMAIN room = 1 .. Len(room)
    BY <1>3, LenProperties
  <2>2. CASE Entries(room, key) = {}
    BY <1>3, <2>2 DEF Without, Entries
  <2>3. CASE Entries(room, key) # {}
    <3> DEFINE k == CHOOSE i \in Entries(room, key) : TRUE
    <3>1. k \in 1 .. Len(room) /\ room[k].key = key /\ rest = RemoveAt(room, k)
      BY <2>1, <2>3 DEF Without, Entries
    <3> HIDE DEF k, rest
    <3>2. /\ rest \in Seq(E) /\ Len(rest) = Len(room) - 1
          /\ \A i \in 1 .. Len(room) - 1 : rest[i] = IF i < k THEN room[i] ELSE room[i + 1]
      BY <1>3, <3>1, RemoveAtProperties
    <3>3. DOMAIN rest = 1 .. Len(room) - 1
      BY <3>2, LenProperties
    <3>4. \A i \in DOMAIN rest : rest[i].key # key
      <4>1. \A i \in 1 .. Len(room) : i # k => room[i].key # room[k].key
        BY <1>3, <2>1, <3>1 DEF Ordered
      <4> QED
        BY <2>1, <3>1, <3>2, <3>3, <4>1
    <3>5. Ordered(rest)
      <4> SUFFICES ASSUME NEW i \in DOMAIN rest, NEW j \in DOMAIN rest, i < j
                   PROVE  /\ rest[i].key # rest[j].key
                          /\ rest[i].fresh = TRUE => rest[j].fresh = TRUE
        BY Zenon DEF Ordered
      <4>1. PICK x \in DOMAIN room, y \in DOMAIN room :
              x < y /\ rest[i] = room[x] /\ rest[j] = room[y]
        <5> DEFINE x == IF i < k THEN i ELSE i + 1
                   y == IF j < k THEN j ELSE j + 1
        <5>1. x \in DOMAIN room /\ y \in DOMAIN room /\ x < y
          BY <2>1, <3>1, <3>3
        <5>2. rest[i] = room[x] /\ rest[j] = room[y]
          BY <3>2, <3>3
        <5> HIDE DEF x, y
        <5> QED
          BY <5>1, <5>2
      <4>2. room[x].key # room[y].key /\ (room[x].fresh = TRUE => room[y].fresh = TRUE)
        BY <1>3, <4>1 DEF Ordered
      <4> QED
        BY <4>1, <4>2
    <3> QED
      BY <1>2, <1>3, <2>1, <3>2, <3>4, <3>5
  <2> QED
    BY <2>2, <2>3
<1> HIDE DEF rest, new
<1>5. /\ Append(rest, new) \in Seq(E) /\ Len(Append(rest, new)) = Len(rest) + 1
      /\ \A i \in 1 .. Len(rest) : Append(rest, new)[i] = rest[i]
      /\ Append(rest, new)[Len(rest) + 1] = new
      /\ DOMAIN Append(rest, new) = 1 .. Len(rest) + 1
      /\ Len(rest) \in Nat /\ DOMAIN rest = 1 .. Len(rest)
  BY <1>1, <1>4, AppendProperties, LenProperties
<1>6. Ordered(Append(rest, new))
  BY <1>1, <1>4, <1>5 DEF Ordered
<1>7. CachePut(c, key, p) = Append(rest, new)
  BY DEF CachePut, rest, new, room
<1> QED
  BY <1>2, <1>4, <1>5, <1>6, <1>7 DEF E

LEMMA CacheMoves ==
  ASSUME [Next]_vars
  PROVE  cache' = cache \/ GenerateLayerPlan \/ ExpirePlan
<1>1. CASE GenerateStep
  BY <1>1 DEF GenerateStep, GenWork, ChoosePath, Refused, ParameterizeTemplate, ComposeSnippets,
       UsePredefinedPlan, UseCachedPlan, GenerationFails, GenerateGroup, FixSpecs, Merge, Validate,
       Revalidate, FixLayers, FixTemplateYaml, FixRaises, CheckFix
<1>2. CASE \/ \E p \in Projects : OpenProject(p)
           \/ Redesign \/ SelectDesign \/ LoadForRefine \/ SaveRefined
           \/ StartIac \/ FinishIac
           \/ StartDocumentation \/ RegenerateSection \/ DocumentStep
  BY <1>2 DEF OpenProject, Redesign, SelectDesign, LoadForRefine, SaveRefined, StartIac, GenBegin,
       FinishIac, GenEnd, StartDocumentation, RegenerateSection, DocumentStep, genVars
<1>3. CASE UNCHANGED vars
  BY <1>3 DEF vars, genVars
<1> QED
  BY <1>1, <1>2, <1>3 DEF Next

LEMMA CacheSteps ==
  ASSUME CacheInv, [Next]_vars
  PROVE  CacheInv'
<1>1. PICK K : cache \in Seq(CacheEntries(K))
  BY DEF CacheInv
<1>2. CASE cache' = cache
  BY <1>2 DEF CacheInv, Ordered
<1>3. CASE GenerateLayerPlan
  <2>1. PICK p \in GeneratedPlans : cache' = CachePut(cache, CacheKey, p)
    BY <1>3 DEF GenerateLayerPlan
  <2> DEFINE L == K \cup {CacheKey}
  <2>2. cache \in Seq(CacheEntries(L))
    <3>1. CacheEntries(K) \subseteq CacheEntries(L)
      BY DEF CacheEntries
    <3> QED
      BY <1>1, <3>1, SeqMonotonic
  <2>3. CacheKey \in L
    OBVIOUS
  <2>4. Len(cache) <= MaxCache /\ Ordered(cache)
    BY DEF CacheInv
  <2> HIDE DEF L
  <2>5. /\ CachePut(cache, CacheKey, p) \in Seq(CacheEntries(L))
        /\ Len(CachePut(cache, CacheKey, p)) <= MaxCache
        /\ Ordered(CachePut(cache, CacheKey, p))
    BY <2>2, <2>3, <2>4, PutKeepsCache
  <2>6. cache' \in Seq(CacheEntries(L)) /\ Len(cache') <= MaxCache /\ Ordered(cache')
    BY <2>1, <2>5
  <2> QED
    BY <2>6 DEF CacheInv, Ordered
<1>4. CASE ExpirePlan
  <2>1. PICK i \in DOMAIN cache :
          /\ \A j \in 1 .. i - 1 : ~cache[j].fresh
          /\ cache' = [cache EXCEPT ![i].fresh = FALSE]
    BY <1>4 DEF ExpirePlan
  <2>2. Len(cache) \in Nat /\ DOMAIN cache = 1 .. Len(cache)
    BY <1>1, LenProperties
  <2> DEFINE e == [cache[i] EXCEPT !.fresh = FALSE]
  <2>3. /\ \A j \in 1 .. Len(cache) : cache[j] \in CacheEntries(K)
        /\ e \in CacheEntries(K) /\ e.key = cache[i].key /\ e.fresh = FALSE
    <3>1. \A j \in 1 .. Len(cache) : cache[j] \in CacheEntries(K)
      BY <1>1, ElementOfSeq
    <3>2. cache[i] \in CacheEntries(K)
      BY <2>1, <2>2, <3>1
    <3> QED
      BY <3>1, <3>2 DEF CacheEntries
  <2>4. cache' = [cache EXCEPT ![i] = e]
    BY <2>1
  <2>5. \A j \in 1 .. i - 1 : cache[j].fresh = FALSE
    <3>1. \A j \in 1 .. Len(cache) : cache[j].fresh \in BOOLEAN
      BY <2>3 DEF CacheEntries
    <3>2. \A j \in 1 .. i - 1 : j \in 1 .. Len(cache)
      BY <2>1, <2>2
    <3> QED
      BY <2>1, <3>1, <3>2, Zenon
  <2> HIDE DEF e
  <2>6. /\ cache' \in Seq(CacheEntries(K)) /\ Len(cache') = Len(cache)
        /\ \A j \in 1 .. Len(cache) : cache'[j] = IF j = i THEN e ELSE cache[j]
    <3>1. i \in 1 .. Len(cache) /\ e \in CacheEntries(K)
      BY <2>1, <2>2, <2>3
    <3> HIDE DEF CacheEntries
    <3> QED
      BY <1>1, <2>4, <3>1, ReplacedProperties
  <2>7. DOMAIN cache' = 1 .. Len(cache)
    BY <2>6, LenProperties
  <2>8. Ordered(cache)' 
    <3> SUFFICES ASSUME NEW x \in 1 .. Len(cache), NEW y \in 1 .. Len(cache), x < y
                 PROVE  /\ cache'[x].key # cache'[y].key
                        /\ cache'[x].fresh = TRUE => cache'[y].fresh = TRUE
      BY <2>7, Zenon DEF Ordered
    <3>1. cache[x].key # cache[y].key /\ (cache[x].fresh = TRUE => cache[y].fresh = TRUE)
      BY <2>2 DEF CacheInv, Ordered
    <3>2. cache'[x].key = cache[x].key /\ cache'[y].key = cache[y].key
      BY <2>3, <2>6
    <3>3. CASE y = i
      BY <2>2, <2>3, <2>5, <2>6, <3>1, <3>2, <3>3
    <3>4. CASE y # i
      BY <2>3, <2>6, <3>1, <3>2, <3>4
    <3> QED
      BY <3>3, <3>4
  <2> QED
    BY <2>6, <2>8 DEF CacheInv
<1> QED
  BY <1>2, <1>3, <1>4, CacheMoves

LEMMA CacheAlways == Spec => []CacheInv
<1>1. Init => CacheInv
  <2> SUFFICES ASSUME Init PROVE CacheInv
    OBVIOUS
  <2>1. cache = <<>>
    BY DEF Init, GenInit
  <2> QED
    BY <2>1, MaxCacheAssumption, EmptySeq DEF CacheInv, Ordered
<1> QED
  BY <1>1, CacheSteps, PTL DEF Spec

(* However many tenants and patterns there are, the cache stays within its  *)
(* limit and has one entry of a key, and the oldest entry is the first.     *)
THEOREM CacheAlwaysSound == Spec => []CacheSound
<1>2. CacheInv => CacheSound
  <2> SUFFICES ASSUME CacheInv, NEW i \in DOMAIN cache, NEW j \in DOMAIN cache, i < j
               PROVE  cache[i].key # cache[j].key /\ (cache[i].fresh => cache[j].fresh)
    BY Zenon DEF CacheInv, CacheSound
  <2>1. cache[i].key # cache[j].key /\ (cache[i].fresh = TRUE => cache[j].fresh = TRUE)
    BY DEF CacheInv, Ordered
  <2>2. cache[i].fresh \in BOOLEAN
    <3>1. PICK K : cache \in Seq(CacheEntries(K))
      BY DEF CacheInv
    <3>2. cache[i] \in CacheEntries(K)
      BY <3>1, ElementOfSeq, LenProperties
    <3> QED
      BY <3>2 DEF CacheEntries
  <2> QED
    BY <2>1, <2>2, Zenon
<1> QED
  BY <1>2, CacheAlways, PTL

-----------------------------------------------------------------------------
(* The design step.                                                         *)

(* Files that generate_iac can be given: some of a project's, at the places *)
(* they have there.                                                         *)
UsableFiles(files) ==
  /\ DOMAIN files \subseteq Nat
  /\ \A i \in DOMAIN files : files[i].template \in AnyTemplate

(* A step d of the project: its recommendation is one of those there are,   *)
(* and what was resolved is one of its options.                             *)
StepSound(d) ==
  /\ d.made \in DOMAIN project.designs
  /\ d.resolved # NotResolved =>
       /\ UsableFiles(d.resolved.files)
       /\ \E i \in DOMAIN project.designs[d.made] :
            d.resolved.name = project.designs[d.made][i].name

DesignInv ==
  /\ project \in Projects \cup {NoProject}
  /\ project = NoProject =>
       design.resolved = NotResolved /\ approved = 0 /\ refining = NotRefining
  /\ project \in Projects =>
       /\ StepSound(design)
       /\ refining # NotRefining =>
            StepSound(refining) /\ approved # 0 /\ approved \in DOMAIN project.designs[refining.made]
       /\ approved # 0 => \E m \in 1 .. design.made : approved \in DOMAIN project.designs[m]
  /\ phase \in {"choose", "parameterize"} => UsableFiles(job.files)

LEMMA Designs ==
  ASSUME NEW p \in Projects
  PROVE  /\ Len(p.designs) \in Nat \ {0} /\ DOMAIN p.designs = 1 .. Len(p.designs)
         /\ \A m \in DOMAIN p.designs :
              \A i \in DOMAIN p.designs[m] : i # 0 /\ p.designs[m][i].files \in FileList
<1>1. /\ p.designs \in Seq(Seq(Options(p))) /\ p.designs # <<>>
      /\ \A o \in Options(p) : o.files \in FileList
  BY DesignsAssumption
<1>2. Len(p.designs) \in Nat \ {0} /\ DOMAIN p.designs = 1 .. Len(p.designs)
  BY <1>1, LenProperties, EmptySeq
<1>3. ASSUME NEW m \in DOMAIN p.designs, NEW i \in DOMAIN p.designs[m]
      PROVE  p.designs[m][i] \in Options(p) /\ i # 0
  <2>1. p.designs[m] \in Seq(Options(p))
    BY <1>1, <1>2, ElementOfSeq
  <2> QED
    BY <2>1, ElementOfSeq, LenProperties
<1> QED
  BY <1>1, <1>2, <1>3

LEMMA SomeFilesUsable ==
  ASSUME NEW files \in FileList, NEW gone
  PROVE  UsableFiles(Restrict(files, DOMAIN files \ gone))
<1> DEFINE F == [named : BOOLEAN, main : BOOLEAN, readable : BOOLEAN, template : AnyTemplate,
                 parameters : SUBSET STRING]
<1>1. files \in Seq(F)
  BY DEF FileList
<1>2. \A i \in DOMAIN files : i \in Nat /\ files[i].template \in AnyTemplate
  <2>1. \A i \in DOMAIN files : files[i] \in F /\ i \in 1 .. Len(files) /\ Len(files) \in Nat
    <3> HIDE DEF F
    <3> QED
      BY <1>1, ElementOfSeq, LenProperties
  <2>2. \A f \in F : f.template \in AnyTemplate
    OBVIOUS
  <2> HIDE DEF F
  <2> QED
    BY <2>1, <2>2
<1> QED
  BY <1>2 DEF UsableFiles, Restrict

LEMMA ResolveKeeps ==
  ASSUME NEW selected, NEW files, NEW bits
  PROVE  /\ Resolve(selected, files, bits).files = files
         /\ Resolve(selected, files, bits).name = selected.name
BY Zenon DEF Resolve

(* What is not about the design leaves it alone, and goes on with the files *)
(* that the task was begun with.                                            *)
LEMMA DesignMoves ==
  ASSUME [Next]_vars
  PROVE  \/ \E p \in Projects : OpenProject(p)
         \/ Redesign \/ SelectDesign \/ LoadForRefine \/ SaveRefined \/ StartIac
         \/ /\ UNCHANGED designVars
            /\ phase' \in {"choose", "parameterize"} =>
                 phase \in {"choose", "parameterize"} /\ job' = job
<1>1. CASE GenerateStep
  <2>1. UNCHANGED designVars
    BY <1>1 DEF GenerateStep
  <2>2. phase' \in {"choose", "parameterize"} =>
          phase \in {"choose", "parameterize"} /\ job' = job
    BY <1>1 DEF GenerateStep, GenWork, ExpirePlan, ChoosePath, Refused, ParameterizeTemplate,
         ComposeSnippets, UsePredefinedPlan, UseCachedPlan, GenerateLayerPlan, GenerationFails,
         GenerateGroup, FixSpecs, Merge, Validate, Revalidate, FixLayers, FixTemplateYaml,
         FixRaises, CheckFix, EndTask, EnterLoop, StartLayers, taskVars
  <2> QED
    BY <2>1, <2>2
<1>2. CASE FinishIac \/ StartDocumentation \/ RegenerateSection \/ DocumentStep
  BY <1>2 DEF FinishIac, GenEnd, StartDocumentation, RegenerateSection, DocumentStep, genVars,
              designVars
<1>3. CASE UNCHANGED vars
  BY <1>3 DEF vars, genVars
<1> QED
  BY <1>1, <1>2, <1>3 DEF Next

LEMMA DesignSteps ==
  ASSUME DesignInv, [Next]_vars
  PROVE  DesignInv'
<1> USE DEF NotResolved, Recommended
<1>1. ASSUME NEW p \in Projects, OpenProject(p)
      PROVE  DesignInv'
  <2>1. /\ project' = p /\ design' = [made |-> 1, resolved |-> NotResolved] /\ approved' = 0
        /\ refining' = refining /\ refining = NotRefining /\ phase' = "idle"
    BY <1>1 DEF OpenProject, BetweenTasks, genVars
  <2>2. 1 \in DOMAIN p.designs
    BY Designs
  <2> QED
    BY <2>1, <2>2, NoProjectAssumption DEF DesignInv, StepSound
<1>2. ASSUME Redesign
      PROVE  DesignInv'
  <2>1. /\ project' = project /\ project \in Projects
        /\ design' = [made |-> design.made + 1, resolved |-> NotResolved]
        /\ approved' = approved /\ refining' = refining /\ phase' = "idle"
        /\ design.made < Len(project.designs)
    BY <1>2 DEF Redesign, BetweenTasks, genVars, DesignInv
  <2>2. /\ design.made \in DOMAIN project.designs
        /\ design.made + 1 \in DOMAIN project.designs
        /\ 1 .. design.made \subseteq 1 .. design.made + 1
    BY <2>1, Designs DEF DesignInv, StepSound
  <2> QED
    BY <2>1, <2>2, NoProjectAssumption DEF DesignInv, StepSound
<1>3. ASSUME SelectDesign
      PROVE  DesignInv'
  <2>1. PICK m \in 1 .. design.made : approved' \in DOMAIN project.designs[m]
    BY <1>3 DEF SelectDesign
  <2>2. /\ project # NoProject /\ approved = 0
        /\ UNCHANGED << project, design, refining, phase, job >>
    BY <1>3 DEF SelectDesign, genVars, taskVars
  <2> QED
    BY <2>1, <2>2 DEF DesignInv, StepSound
<1>4. ASSUME LoadForRefine
      PROVE  DesignInv'
  <2> DEFINE selected == project.designs[design.made][approved]
  <2>1. PICK gone \in SUBSET DOMAIN selected.files :
          refining' = [made |-> design.made,
                       resolved |-> Resolve(selected, Restrict(selected.files, DOMAIN selected.files \ gone),
                                            project.bits)]
    BY <1>4 DEF LoadForRefine
  <2>2. /\ project \in Projects /\ approved \in DOMAIN project.designs[design.made]
        /\ design.made \in DOMAIN project.designs /\ approved # 0
        /\ UNCHANGED << project, design, approved, phase, job >>
    BY <1>4, Designs DEF LoadForRefine, DesignInv, StepSound, taskVars
  <2> DEFINE files == Restrict(selected.files, DOMAIN selected.files \ gone)
  <2>3. selected.files \in FileList
    BY <2>2, Designs
  <2>4. UsableFiles(files)
    BY <2>3, SomeFilesUsable
  <2>5. /\ refining'.made = design.made
        /\ refining'.resolved.files = files
        /\ refining'.resolved.name = selected.name
    <3>1. refining' = [made |-> design.made, resolved |-> Resolve(selected, files, project.bits)]
      BY <2>1
    <3> HIDE DEF files, selected
    <3> QED
      BY <3>1, ResolveKeeps
  <2> HIDE DEF files
  <2>6. StepSound(refining)'
    BY <2>2, <2>4, <2>5 DEF StepSound, UsableFiles
  <2> QED
    BY <2>2, <2>5, <2>6, NoProjectAssumption DEF DesignInv, StepSound, UsableFiles
<1>5. ASSUME SaveRefined
      PROVE  DesignInv'
  <2>1. /\ refining # NotRefining /\ design' = refining /\ refining' = NotRefining
        /\ UNCHANGED << project, approved, phase, job >>
    BY <1>5 DEF SaveRefined, genVars
  <2>2. /\ project \in Projects /\ StepSound(refining) 
        /\ approved \in DOMAIN project.designs[refining.made]
    BY <2>1 DEF DesignInv
  <2>3. refining.made \in 1 .. refining.made
    BY <2>2, Designs DEF StepSound
  <2> QED
    BY <2>1, <2>2, <2>3, NoProjectAssumption DEF DesignInv, StepSound, UsableFiles
<1>6. ASSUME StartIac
      PROVE  DesignInv'
  <2>1. /\ design.resolved # NotResolved /\ UNCHANGED designVars
        /\ job'.files = design.resolved.files
    BY <1>6 DEF StartIac, GenBegin
  <2> QED
    BY <2>1 DEF DesignInv, StepSound, UsableFiles, designVars
<1>7. ASSUME UNCHANGED designVars,
             phase' \in {"choose", "parameterize"} =>
               phase \in {"choose", "parameterize"} /\ job' = job
      PROVE  DesignInv'
  BY <1>7 DEF DesignInv, StepSound, UsableFiles, designVars
<1> QED
  BY <1>1, <1>2, <1>3, <1>4, <1>5, <1>6, <1>7, DesignMoves

LEMMA DesignAlways == Spec => []DesignInv
<1>1. Init => DesignInv
  BY NoProjectAssumption DEF Init, GenInit, DesignInv, Recommended
<1> QED
  BY <1>1, DesignSteps, PTL DEF Spec

(* Whatever is designed anew, selected or generated between the load and    *)
(* the save of the one refine_design under way, the resolved parameters     *)
(* stored next to a recommendation bear the name of one of its options.     *)
THEOREM ResolvedAlwaysWithItsDesign == Spec => []ResolvedWithItsDesign
<1>1. DesignInv => ResolvedWithItsDesign
  BY DEF DesignInv, StepSound, ResolvedWithItsDesign
<1> QED
  BY <1>1, DesignAlways, PTL

-----------------------------------------------------------------------------
(* The addresses.                                                           *)

LEMMA PowersAreNumbers ==
  ASSUME NEW bits \in Nat, NEW m \in 0 .. bits
  PROVE  TwoTo(bits)[m] \in Nat
<1> DEFINE power == TwoTo(bits)
           step == [x \in (1 .. bits) \X Nat |-> 2 * x[2]]
<1>1. PICK f \in [0 .. bits -> Nat] : CountedFrom(f, bits, 1, step)
  <2>1. step \in [(1 .. bits) \X Nat -> Nat] /\ 1 \in Nat
    OBVIOUS
  <2> HIDE DEF step
  <2> QED
    BY <2>1, CountedRecursion
<1>2. ASSUME NEW k \in 0 .. bits
      PROVE  f[k] = IF k = 0 THEN 1 ELSE 2 * f[k - 1]
  <2>1. CASE k = 0
    BY <1>1, <2>1 DEF CountedFrom
  <2>2. CASE k # 0
    <3>1. k \in 1 .. bits /\ k - 1 \in 0 .. bits
      BY <2>2
    <3>2. << k, f[k - 1] >> \in (1 .. bits) \X Nat /\ f[k] = step[<< k, f[k - 1] >>]
      BY <1>1, <2>2, <3>1 DEF CountedFrom
    <3> QED
      BY <2>2, <3>2
  <2> QED
    BY <2>1, <2>2
<1>3. f = [k \in 0 .. bits |-> IF k = 0 THEN 1 ELSE 2 * f[k - 1]]
  BY <1>2
<1>4. power = [k \in 0 .. bits |-> IF k = 0 THEN 1 ELSE 2 * power[k - 1]]
  BY <1>3 DEF TwoTo
<1> HIDE DEF power
<1>5. power[0] \in Nat
  BY <1>4
<1>6. ASSUME NEW k \in 1 .. m, power[k - 1] \in Nat
      PROVE  power[k] \in Nat
  <2>1. k \in 0 .. bits /\ k # 0
    OBVIOUS
  <2>2. power[k] = 2 * power[k - 1]
    BY <1>4, <2>1
  <2> QED
    BY <1>6, <2>2
<1>7. power[m] \in Nat
  <2>1. m \in Nat
    OBVIOUS
  <2> QED
    BY <1>5, <1>6, <2>1, CountedInduction
<1> QED
  BY <1>7 DEF power

(* The parts of a block have one size, and follow each other.               *)
LEMMA SubnetsFollow ==
  ASSUME NEW vpc, NEW bits \in Nat, EnoughBits(vpc, bits) # {}
  PROVE  \E size \in Nat : \A r, z :
           /\ Subnet(vpc, bits, r, z).size = size
           /\ Subnet(vpc, bits, r, z).first = size * ((r - 1) * vpc.azs + z - 1)
<1> DEFINE T == EnoughBits(vpc, bits)
           size == TwoTo(bits)[bits - Min(T)]
<1>1. T \in SUBSET Nat /\ T \subseteq 0 .. bits
  BY DEF EnoughBits
<1>2. Min(T) \in T
  <2> HIDE DEF T
  <2> QED
    BY <1>1, LeastChosen DEF Min, T
<1>3. bits - Min(T) \in 0 .. bits
  BY <1>1, <1>2
<1>4. size \in Nat
  BY <1>3, PowersAreNumbers
<1>5. \A r, z : /\ Subnet(vpc, bits, r, z).size = size
                /\ Subnet(vpc, bits, r, z).first = size * ((r - 1) * vpc.azs + z - 1)
  BY DEF Subnet
<1> QED
  BY <1>4, <1>5

LEMMA PartsApart ==
  ASSUME NEW size \in Nat, NEW i \in Nat, NEW j \in Nat, i < j
  PROVE  size * i + size <= size * j
OBVIOUS

(* What is known of a VPC that was split.                                   *)
IsSplit(vpc, bits) ==
  /\ bits \in Nat /\ EnoughBits(vpc, bits) # {}
  /\ vpc.azs \in 1 .. 2 /\ IsSequence(vpc.subnets)

LEMMA SubnetsApart ==
  ASSUME NEW vpc, NEW bits, IsSplit(vpc, bits)
  PROVE  /\ \A s \in ComputeSubnets(vpc, bits) : s.first \in Nat /\ s.size \in Nat
         /\ \A s, t \in ComputeSubnets(vpc, bits) : s # t => Apart(s, t)
<1>1. PICK size \in Nat : \A r, z :
           /\ Subnet(vpc, bits, r, z).size = size
           /\ Subnet(vpc, bits, r, z).first = size * ((r - 1) * vpc.azs + z - 1)
  BY SubnetsFollow DEF IsSplit
<1> DEFINE place(r, z) == (r - 1) * vpc.azs + z - 1
<1>2. \A r \in DOMAIN vpc.subnets : r \in Nat /\ r >= 1
  BY LenProperties DEF IsSplit, IsSequence
<1>3. vpc.azs = 1 \/ vpc.azs = 2
  BY DEF IsSplit
<1>4. \A r \in DOMAIN vpc.subnets, z \in 1 .. vpc.azs : place(r, z) \in Nat
  BY <1>2, <1>3
<1>5. ASSUME NEW r \in DOMAIN vpc.subnets, NEW z \in 1 .. vpc.azs,
             NEW q \in DOMAIN vpc.subnets, NEW y \in 1 .. vpc.azs, r # q \/ z # y
      PROVE  place(r, z) # place(q, y)
  <2>1. /\ r \in Nat /\ q \in Nat
    BY <1>2
  <2>2. CASE vpc.azs = 1
    <3>1. z = 1 /\ y = 1 /\ place(r, z) = r - 1 /\ place(q, y) = q - 1
      BY <2>1, <2>2
    <3> HIDE DEF place
    <3> QED
      BY <1>5, <2>1, <3>1
  <2>3. CASE vpc.azs = 2
    <3>1. /\ z \in {1, 2} /\ y \in {1, 2}
          /\ place(r, z) = (r - 1) * 2 + z - 1 /\ place(q, y) = (q - 1) * 2 + y - 1
      BY <2>3
    <3> HIDE DEF place
    <3> QED
      BY <1>5, <2>1, <3>1
  <2> QED
    BY <1>3, <2>2, <2>3
<1>6. \A n \in Nat : size * n \in Nat
  OBVIOUS
<1>7. ASSUME NEW s \in ComputeSubnets(vpc, bits)
      PROVE  s.first \in Nat /\ s.size \in Nat
  <2>1. PICK r \in DOMAIN vpc.subnets, z \in 1 .. vpc.azs : s = Subnet(vpc, bits, r, z)
    BY DEF ComputeSubnets
  <2>2. s.size = size /\ s.first = size * place(r, z)
    BY <1>1, <2>1
  <2> HIDE DEF place
  <2> QED
    BY <1>4, <1>6, <2>2
<1>8. ASSUME NEW s \in ComputeSubnets(vpc, bits), NEW t \in ComputeSubnets(vpc, bits), s # t
      PROVE  Apart(s, t)
  <2>1. PICK r \in DOMAIN vpc.subnets, z \in 1 .. vpc.azs : s = Subnet(vpc, bits, r, z)
    BY DEF ComputeSubnets
  <2>2. PICK q \in DOMAIN vpc.subnets, y \in 1 .. vpc.azs : t = Subnet(vpc, bits, q, y)
    BY DEF ComputeSubnets
  <2>3. /\ s.size = size /\ s.first = size * place(r, z)
        /\ t.size = size /\ t.first = size * place(q, y)
    BY <1>1, <2>1, <2>2
  <2>4. place(r, z) # place(q, y)
    BY <1>5, <1>8, <2>1, <2>2
  <2>5. place(r, z) \in Nat /\ place(q, y) \in Nat
    BY <1>4
  <2> HIDE DEF place
  <2>6. place(r, z) < place(q, y) \/ place(q, y) < place(r, z)
    BY <2>4, <2>5
  <2> QED
    BY <2>3, <2>5, <2>6, PartsApart DEF Apart
<1> QED
  BY <1>7, <1>8

(* What DesignOption's validators leave to rely on.                         *)
LEMMA Blueprints ==
  ASSUME NEW o, IsDesignOption(o)
  PROVE  /\ Len(o.vpcs) \in Nat /\ DOMAIN o.vpcs = 1 .. Len(o.vpcs)
         /\ Len(o.appliances) \in Nat /\ DOMAIN o.appliances = 1 .. Len(o.appliances)
         /\ \A v \in DOMAIN o.vpcs :
              /\ o.vpcs[v].azs \in 1 .. 2 /\ IsSequence(o.vpcs[v].subnets)
              /\ Len(o.vpcs[v].subnets) \in Nat
              /\ DOMAIN o.vpcs[v].subnets = 1 .. Len(o.vpcs[v].subnets)
<1>1. /\ IsSequence(o.vpcs) /\ IsSequence(o.appliances)
      /\ \A v \in DOMAIN o.vpcs : o.vpcs[v].azs \in 1 .. 2 /\ IsSequence(o.vpcs[v].subnets)
  BY DEF IsDesignOption
<1>2. \A s : IsSequence(s) => Len(s) \in Nat /\ DOMAIN s = 1 .. Len(s)
  BY LenProperties DEF IsSequence
<1> QED
  BY <1>1, <1>2

(* Appliances of one VPC role have different indices.                       *)
LEMMA IndicesDiffer ==
  ASSUME NEW o, NEW k \in Nat
  PROVE  /\ Placed(o, k).index \in Nat
         /\ \A j \in 1 .. k - 1 : o.appliances[j].vpc = o.appliances[k].vpc =>
              Placed(o, j).index # Placed(o, k).index
<1> DEFINE Before(n) == {j \in 1 .. n - 1 : o.appliances[j].vpc = o.appliances[n].vpc}
<1>1. \A n : Placed(o, n).index = Cardinality(Before(n))
  BY DEF Placed
<1>2. IsFiniteSet(Before(k)) /\ Cardinality(Before(k)) \in Nat
  <2>1. IsFiniteSet(1 .. k - 1)
    BY FS_Interval
  <2> QED
    BY <2>1, FS_Subset, FS_CardinalityType
<1>3. ASSUME NEW j \in 1 .. k - 1, o.appliances[j].vpc = o.appliances[k].vpc
      PROVE  Cardinality(Before(j)) # Cardinality(Before(k))
  <2>1. Before(j) \subseteq Before(k) /\ j \in Before(k) /\ j \notin Before(j)
    BY <1>3
  <2> HIDE DEF Before
  <2> QED
    BY <1>2, <2>1, FS_Subset
<1> HIDE DEF Before
<1> QED
  BY <1>1, <1>2, <1>3

LEMMA GreatestChosen ==
  ASSUME NEW N \in Nat, NEW T \in SUBSET (1 .. N), T # {}
  PROVE  Max(T) \in T
BY GreatestNumber DEF Max

(* A port is given a subnet of the VPC that it is found in.                 *)
LEMMA PortPlaced ==
  ASSUME NEW o, IsDesignOption(o), NEW bits \in Nat, ~ResolveRaises(o, bits),
         NEW k \in DOMAIN o.appliances, NEW p \in DOMAIN o.appliances[k].ports
  PROVE  LET v == Max(PortVpcs(o, k, p))
         IN  /\ v \in DOMAIN o.vpcs /\ o.vpcs[v].role = o.appliances[k].vpc
             /\ PortSubnet(o, bits, k, p) \in ComputeSubnets(o.vpcs[v], bits)
             /\ Offset(Placed(o, k).index) < PortSubnet(o, bits, k, p).size
<1> DEFINE a == Placed(o, k)
           V == PortVpcs(o, k, p)
           v == Max(V)
           first == Min(WithRole(o, a.vpc))
           vpc == o.vpcs[v]
           R == {r \in DOMAIN vpc.subnets : vpc.subnets[r] = a.ports[p]}
<1>1. /\ a.vpc = o.appliances[k].vpc /\ a.ports = o.appliances[k].ports
      /\ a.az = (a.index % o.vpcs[first].azs) + 1
  BY DEF Placed
<1>2. /\ WithRole(o, a.vpc) # {} /\ V # {}
      /\ ~(Offset(a.index) >= PortSubnet(o, bits, k, p).size)
  BY <1>1 DEF ResolveRaises
<1>3. V \subseteq DOMAIN o.vpcs /\ WithRole(o, a.vpc) \subseteq DOMAIN o.vpcs
  BY DEF PortVpcs, Having, WithRole
<1>4. v \in V
  <2> HIDE DEF V
  <2> QED
    BY <1>2, <1>3, Blueprints, GreatestChosen
<1>5. /\ v \in DOMAIN o.vpcs /\ vpc.role = a.vpc
      /\ a.ports[p] \in ToSet(vpc.subnets) /\ a.az <= vpc.azs
  BY <1>4 DEF PortVpcs, Having, WithRole
<1>6. first \in DOMAIN o.vpcs
  <2>1. WithRole(o, a.vpc) \in SUBSET Nat
    BY <1>3, Blueprints
  <2> QED
    BY <1>2, <1>3, <2>1, LeastChosen DEF Min
<1>7. a.index \in Nat
  BY Blueprints, IndicesDiffer
<1>8. a.az \in 1 .. vpc.azs
  <2>1. o.vpcs[first].azs \in 1 .. 2 /\ vpc.azs \in 1 .. 2
    BY <1>5, <1>6, Blueprints
  <2> HIDE DEF first, a, vpc
  <2> QED
    BY <1>1, <1>5, <1>7, <2>1
<1>9. Max(R) \in DOMAIN vpc.subnets
  <2>1. R # {}
    BY <1>5 DEF ToSet
  <2>2. Len(vpc.subnets) \in Nat /\ R \in SUBSET (1 .. Len(vpc.subnets))
    BY <1>5, Blueprints
  <2>3. Max(R) \in R
    <3> HIDE DEF R
    <3> QED
      BY <2>1, <2>2, GreatestChosen
  <2> QED
    BY <2>3
<1>10. PortSubnet(o, bits, k, p) = Subnet(vpc, bits, Max(R), a.az)
  BY DEF PortSubnet
<1>11. PortSubnet(o, bits, k, p) \in ComputeSubnets(vpc, bits)
  <2> HIDE DEF vpc, R, a
  <2> QED
    BY <1>8, <1>9, <1>10 DEF ComputeSubnets
<1>12. Offset(a.index) < PortSubnet(o, bits, k, p).size
  <2>1. vpc.azs \in 1 .. 2 /\ IsSplit(vpc, bits)
    BY <1>5, Blueprints DEF IsSplit, ResolveRaises
  <2>2. PortSubnet(o, bits, k, p).size \in Nat
    BY <1>11, <2>1, SubnetsApart
  <2> HIDE DEF a
  <2> QED
    BY <1>2, <1>7, <2>2 DEF Offset
<1> QED
  BY <1>1, <1>5, <1>11, <1>12

LEMMA ResolvedDistinct ==
  ASSUME NEW o, IsDesignOption(o), NEW bits \in Nat, ~ResolveRaises(o, bits), NEW files
  PROVE  Distinct(Resolve(o, files, bits))
<1> DEFINE resolved == Resolve(o, files, bits)
           A == DOMAIN o.appliances
<1>1. /\ resolved.subnets = [v \in DOMAIN o.vpcs |-> ComputeSubnets(o.vpcs[v], bits)]
      /\ resolved.interfaces =
           UNION {{Interface(o, bits, k, p) : p \in DOMAIN o.appliances[k].ports} : k \in A}
  BY Zenon DEF Resolve
<1> HIDE DEF resolved
<1>2. \A v \in DOMAIN o.vpcs : IsSplit(o.vpcs[v], bits)
  BY Blueprints DEF IsSplit, ResolveRaises
<1>3. ASSUME NEW v \in DOMAIN resolved.subnets, NEW s \in resolved.subnets[v],
             NEW t \in resolved.subnets[v], s # t
      PROVE  Apart(s, t)
  BY <1>1, <1>2, <1>3, SubnetsApart
(* What is known of an interface.                                           *)
<1> DEFINE Sound(i) ==
             /\ i.appliance \in A /\ i.vpc \in DOMAIN o.vpcs
             /\ o.vpcs[i.vpc].role = o.appliances[i.appliance].vpc
             /\ i.subnet \in ComputeSubnets(o.vpcs[i.vpc], bits)
             /\ i.subnet.first \in Nat /\ i.subnet.size \in Nat
             /\ 10 + Placed(o, i.appliance).index < i.subnet.size
             /\ i.address = i.subnet.first + 10 + Placed(o, i.appliance).index
<1>4. \A k \in A : k \in Nat /\ k >= 1 /\ Placed(o, k).index \in Nat
  BY Blueprints, IndicesDiffer
<1>5. ASSUME NEW i \in resolved.interfaces
      PROVE  Sound(i)
  <2>1. PICK k \in A : i \in {Interface(o, bits, k, p) : p \in DOMAIN o.appliances[k].ports}
    BY <1>1
  <2>2. PICK p \in DOMAIN o.appliances[k].ports : i = Interface(o, bits, k, p)
    BY <2>1
  <2>3. /\ i.appliance = k /\ i.vpc = Max(PortVpcs(o, k, p))
        /\ i.subnet = PortSubnet(o, bits, k, p)
        /\ i.address = i.subnet.first + Offset(Placed(o, k).index)
    BY <2>2 DEF Interface
  <2>4. /\ i.vpc \in DOMAIN o.vpcs /\ o.vpcs[i.vpc].role = o.appliances[k].vpc
        /\ i.subnet \in ComputeSubnets(o.vpcs[i.vpc], bits)
        /\ Offset(Placed(o, k).index) < i.subnet.size
    BY <2>3, PortPlaced
  <2>5. i.subnet.first \in Nat /\ i.subnet.size \in Nat
    BY <1>2, <2>4, SubnetsApart
  <2>6. Placed(o, k).index \in Nat
    BY <1>4
  <2> QED
    BY <2>3, <2>4, <2>5, <2>6 DEF Offset
<1>6. ASSUME NEW i \in resolved.interfaces
      PROVE  i.address >= i.subnet.first /\ i.address < i.subnet.first + i.subnet.size
  <2>1. Sound(i) /\ Placed(o, i.appliance).index \in Nat
    BY <1>4, <1>5
  <2> QED
    BY <2>1
<1>7. ASSUME NEW i \in resolved.interfaces, NEW j \in resolved.interfaces,
             i.vpc = j.vpc, i.appliance # j.appliance
      PROVE  i.address # j.address
  <2>1. Sound(i) /\ Sound(j)
    BY <1>5
  <2> DEFINE m == Placed(o, i.appliance).index
             n == Placed(o, j.appliance).index
  <2>2. m \in Nat /\ n \in Nat
    BY <1>4, <2>1
  <2>3. m # n
    <3>1. /\ i.appliance \in Nat /\ j.appliance \in Nat
          /\ i.appliance >= 1 /\ j.appliance >= 1
          /\ o.appliances[i.appliance].vpc = o.appliances[j.appliance].vpc
      BY <1>4, <1>7, <2>1
    <3>2. i.appliance \in 1 .. j.appliance - 1 \/ j.appliance \in 1 .. i.appliance - 1
      BY <1>7, <3>1
    <3> QED
      BY <3>1, <3>2, IndicesDiffer
  <2>4. CASE i.subnet = j.subnet
    <3> HIDE DEF m, n
    <3> QED
      BY <2>1, <2>2, <2>3, <2>4 DEF m, n
  <2>5. CASE i.subnet # j.subnet
    <3>1. Apart(i.subnet, j.subnet)
      BY <1>2, <1>7, <2>1, <2>5, SubnetsApart
    <3> QED
      BY <2>1, <2>2, <3>1 DEF Apart
  <2> QED
    BY <2>4, <2>5
<1>8. Distinct(resolved)
  BY <1>3, <1>6, <1>7 DEF Distinct
<1> QED
  BY <1>8 DEF resolved

(* What refine_design is about to store is as sound as what is stored.      *)
AddressInv ==
  /\ design.resolved # NotResolved => Distinct(design.resolved)
  /\ refining # NotRefining /\ refining.resolved # NotResolved => Distinct(refining.resolved)

LEMMA AddressSteps ==
  ASSUME DesignInv, AddressInv, [Next]_vars
  PROVE  AddressInv'
<1>1. CASE LoadForRefine
  <2> DEFINE o == project.designs[design.made][approved]
  <2>1. /\ project \in Projects /\ design.made \in DOMAIN project.designs
        /\ approved \in DOMAIN project.designs[design.made]
        /\ ~ResolveRaises(o, project.bits) /\ design' = design
    BY <1>1 DEF LoadForRefine, DesignInv, StepSound
  <2>2. PICK files : refining' = [made |-> design.made, resolved |-> Resolve(o, files, project.bits)]
    BY <1>1 DEF LoadForRefine
  <2>3. IsDesignOption(o) /\ project.bits \in Nat
    <3>1. /\ project.designs \in Seq(Seq(Options(project))) /\ project.bits \in Nat
          /\ \A q \in Options(project) : IsDesignOption(q)
      BY <2>1, DesignsAssumption
    <3>2. project.designs[design.made] \in Seq(Options(project))
      BY <2>1, <3>1, ElementOfSeq, LenProperties
    <3>3. o \in Options(project)
      BY <2>1, <3>2, ElementOfSeq, LenProperties
    <3> QED
      BY <3>1, <3>3
  <2>4. Distinct(Resolve(o, files, project.bits))
    BY <2>1, <2>3, ResolvedDistinct
  <2>5. refining'.resolved = Resolve(o, files, project.bits)
    BY <2>2
  <2> HIDE DEF o
  <2> QED
    BY <2>1, <2>4, <2>5, Zenon DEF AddressInv
<1>2. CASE SaveRefined
  BY <1>2 DEF SaveRefined, AddressInv
<1>3. CASE Redesign \/ \E p \in Projects : OpenProject(p)
  BY <1>3 DEF Redesign, OpenProject, AddressInv, Recommended
<1>4. CASE SelectDesign \/ StartIac \/ UNCHANGED designVars
  BY <1>4 DEF SelectDesign, StartIac, designVars, AddressInv
<1> QED
  BY <1>1, <1>2, <1>3, <1>4, DesignMoves

(* For any topology that DesignOption accepts and any block, the resolver   *)
(* raises or gives each appliance addresses of its own, within subnets that *)
(* do not overlap.                                                          *)
THEOREM AddressesAlwaysDistinct == Spec => []AddressesDistinct
<1>1. Init => AddressInv
  BY DEF Init, AddressInv, Recommended
<1>2. AddressInv => AddressesDistinct
  BY DEF AddressInv, AddressesDistinct
<1> QED
  BY <1>1, <1>2, DesignAlways, AddressSteps, PTL DEF Spec

=============================================================================
