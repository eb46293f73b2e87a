---------------------------- MODULE Documentation ----------------------------
(***************************************************************************)
(* The two sections of the documentation, each made by a thread of its own *)
(* for a docs task or, one at a time, for a request to regenerate it; the  *)
(* diagram is validated and fixed. A thread announces its section itself.  *)
(*                                                                         *)
(* A text is known by the version that its thread gave it and by whether   *)
(* it stands for a failure; version 0 is the empty text. A diagram is good *)
(* when mermaid can parse it. Verdicts may be wrong: the validator passes  *)
(* everything when it is not installed and nothing when it times out.      *)
(***************************************************************************)
EXTENDS Naturals, Sequences

CONSTANTS
  Requests,            \* requests to regenerate a section, each on a server of its own
  MaxDiagramAttempts,  \* settings.docs_diagram_max_fix_attempts
  MaxWrong             \* a bound: wrong verdicts, failures and lost announcements

ASSUME MaxDiagramAssumption == MaxDiagramAttempts \in Nat \ {0}
ASSUME MaxWrongAssumption == MaxWrong \in Nat

VARIABLES
  docsTask,    \* "idle", "running", "ended"
  threads,     \* what makes each section, by its name or its request
  announced,   \* what on_section_complete was called with, in order
  docs,        \* the docs step of the project
  wrong        \* how many of MaxWrong have happened

docsVars == << docsTask, threads, announced, docs, wrong >>

Sections == {"architecture_diagram", "user_guide"}
Threads == Sections \cup Requests
ASSUME RequestsAssumption == Requests \cap Sections = {}

Text(v) == [version |-> v, failed |-> FALSE]
ErrorText == [version |-> 0, failed |-> TRUE]
NoDocs == [architecture_diagram |-> Text(0), user_guide |-> Text(0), passed |-> FALSE]

Off == [at |-> "off", section |-> "none", empty |-> FALSE, code |-> 0, good |-> FALSE,
        attempt |-> 0, verdict |-> FALSE, lost |-> FALSE]
Thread(section, empty) == [Off EXCEPT !.at = "generate", !.section = section, !.empty = empty]

Wrong(n) == /\ wrong + n <= MaxWrong
            /\ wrong' = wrong + n

(* What the section is once its thread is over.                             *)
Content(t) == IF t.at = "raised" THEN ErrorText ELSE Text(t.code)

DocsInit ==
  /\ docsTask = "idle" /\ threads = [t \in Threads |-> Off]
  /\ announced = <<>> /\ docs = NoDocs /\ wrong = 0

-----------------------------------------------------------------------------
(* A mutant: a thread that raised announces nothing.                        *)
OverInSilence(t, last, lost) ==
  /\ threads' = [threads EXCEPT ![t] = [last EXCEPT !.lost = lost]]
  /\ announced' = IF t \in Sections /\ ~lost /\ last.at = "returned"
                  THEN Append(announced, << last.section, Content(last) >>) ELSE announced

(* A thread over: those of the task announce what they made, or the text    *)
(* that stands for their failure. The announcement may fail unnoticed.      *)
Over(t, last, lost) ==
  /\ threads' = [threads EXCEPT ![t] = [last EXCEPT !.lost = lost]]
  /\ announced' = IF t \in Sections /\ ~lost
                  THEN Append(announced, << last.section, Content(last) >>) ELSE announced

Continue(t, next) ==
  /\ threads' = [threads EXCEPT ![t] = next]
  /\ UNCHANGED announced

Ends(t, last, n) ==
  \E lost \in BOOLEAN : /\ Wrong(n + IF lost THEN 1 ELSE 0)
                        /\ lost => t \in Sections
                        /\ Over(t, last, lost)

At(t, step, section) == threads[t].at = step /\ threads[t].section = section

(* A mutant: without a template there is nothing wrong with the diagram.    *)
PassEmptyDiagram(t) ==
  /\ At(t, "generate", "architecture_diagram")
  /\ IF threads[t].empty
     THEN Ends(t, [threads[t] EXCEPT !.at = "returned", !.verdict = TRUE], 0)
     ELSE \E good \in BOOLEAN :
            /\ Continue(t, [threads[t] EXCEPT !.at = "validate", !.code = 1, !.good = good])
            /\ UNCHANGED wrong
  /\ UNCHANGED << docsTask, docs >>

(* Without a template there is no diagram, and none is asked for.           *)
GenerateDiagram(t) ==
  /\ At(t, "generate", "architecture_diagram")
  /\ IF threads[t].empty
     THEN Ends(t, [threads[t] EXCEPT !.at = "returned"], 0)
     ELSE \E good \in BOOLEAN :
            /\ Continue(t, [threads[t] EXCEPT !.at = "validate", !.code = 1, !.good = good])
            /\ UNCHANGED wrong
  /\ UNCHANGED << docsTask, docs >>

(* One attempt: returned when valid, fixed while attempts are left, and     *)
(* otherwise returned as it is.                                             *)
ValidateDiagram(t) ==
  /\ At(t, "validate", "architecture_diagram")
  /\ \E valid \in BOOLEAN :
       LET cost == IF valid = threads[t].good THEN 0 ELSE 1
           next == [threads[t] EXCEPT !.attempt = @ + 1, !.verdict = valid]
       IN  IF valid \/ next.attempt = MaxDiagramAttempts
           THEN Ends(t, [next EXCEPT !.at = "returned"], cost)
           ELSE Wrong(cost) /\ Continue(t, [next EXCEPT !.at = "fix"])
  /\ UNCHANGED << docsTask, docs >>

FixDiagram(t) ==
  /\ At(t, "fix", "architecture_diagram")
  /\ \E good \in BOOLEAN :
       Continue(t, [threads[t] EXCEPT !.at = "validate", !.code = @ + 1, !.good = good,
                                      !.verdict = FALSE])
  /\ UNCHANGED << docsTask, docs, wrong >>

GenerateUserGuide(t) ==
  /\ At(t, "generate", "user_guide")
  /\ Ends(t, [threads[t] EXCEPT !.at = "returned", !.code = 1], 0)
  /\ UNCHANGED << docsTask, docs >>

(* A model call of the thread fails for good.                               *)
ThreadRaises(t) ==
  /\ threads[t].at \in {"generate", "fix"}
  /\ threads[t].section = "user_guide" \/ ~threads[t].empty
  /\ Ends(t, [threads[t] EXCEPT !.at = "raised", !.verdict = FALSE], 1)
  /\ UNCHANGED << docsTask, docs >>

-----------------------------------------------------------------------------
(* generate_documentation: both threads, whatever happens to the other. An  *)
(* open breaker refuses the task before this.                               *)
StartDocs(empty) ==
  /\ docsTask = "idle"
  /\ docsTask' = "running"
  /\ threads' = [t \in Threads |-> IF t \in Sections THEN Thread(t, empty) ELSE threads[t]]
  /\ announced' = <<>>
  /\ UNCHANGED << docs, wrong >>

(* The output is stored over whatever the step held.                        *)
Result ==
  [architecture_diagram |-> Content(threads["architecture_diagram"]),
   user_guide |-> Content(threads["user_guide"]),
   passed |-> threads["architecture_diagram"].verdict]

(* A mutant: an exception of one thread keeps the other's result out.       *)
FinishWhenBothReturned ==
  /\ docsTask = "running"
  /\ \A t \in Sections : threads[t].at = "returned"
  /\ docs' = Result
  /\ docsTask' = "ended"
  /\ UNCHANGED << threads, announced, wrong >>

FinishDocs ==
  /\ docsTask = "running"
  /\ \A t \in Sections : threads[t].at \in {"returned", "raised"}
  /\ docs' = Result
  /\ docsTask' = "ended"
  /\ UNCHANGED << threads, announced, wrong >>

-----------------------------------------------------------------------------
(* The endpoint that regenerates one section.                               *)
Regenerate(r, section, empty) ==
  /\ threads[r].at = "off"
  /\ threads' = [threads EXCEPT ![r] = Thread(section, empty)]
  /\ UNCHANGED << docsTask, announced, docs, wrong >>

(* It answers 500 when its thread raised; else it loads the step, then      *)
(* saves it with its section replaced. Another server may come in between.  *)
LoadDocs(r) ==
  /\ threads[r].at = "returned"
  /\ threads' = [threads EXCEPT ![r] = [at |-> "loaded", section |-> @.section,
                                        content |-> Content(@), read |-> docs]]
  /\ UNCHANGED << docsTask, announced, docs, wrong >>

SaveDocs(r) ==
  /\ threads[r].at = "loaded"
  /\ docs' = [threads[r].read EXCEPT ![threads[r].section] = threads[r].content]
  /\ threads' = [threads EXCEPT ![r] = [at |-> "saved"]]
  /\ UNCHANGED << docsTask, announced, wrong >>

ThreadStep(t) ==
  \/ GenerateDiagram(t) \/ ValidateDiagram(t) \/ FixDiagram(t)
  \/ GenerateUserGuide(t) \/ ThreadRaises(t)

DocsWork == FinishDocs \/ \E t \in Threads : ThreadStep(t)
RequestWork(r) == LoadDocs(r) \/ SaveDocs(r)

-----------------------------------------------------------------------------
DocsTypeOK ==
  /\ docsTask \in {"idle", "running", "ended"}
  /\ \A t \in Sections : threads[t].attempt \in 0 .. MaxDiagramAttempts
  /\ Len(announced) <= 2
  /\ wrong \in 0 .. MaxWrong

(* When the task ends, every section it stored was announced, with the text *)
(* that is stored, once and no other; only an announcement that failed is   *)
(* missing. (The wrappers of generate_documentation against its unpacking   *)
(* of the results.)                                                         *)
Announced(s) == {i \in DOMAIN announced : announced[i][1] = s}
SectionsAnnounced ==
  [][docsTask' = "ended" /\ docsTask = "running" =>
       /\ \A s \in Sections : \A i, j \in Announced(s) : i = j
       /\ \A s \in Sections : \A i \in Announced(s) : announced[i][2] = docs'[s]
       /\ \A s \in Sections : threads[s].lost \/ Announced(s) # {}]_docsVars

(* A diagram that a task reports as validated is the one that the validator *)
(* passed, and no text of a failure or empty text. (The loop of             *)
(* _generate_and_validate_diagram, returned attempt by attempt.)            *)
DiagramFlag ==
  [][docsTask' = "ended" /\ docsTask = "running" /\ docs'.passed =>
       /\ threads["architecture_diagram"].verdict
       /\ docs'.architecture_diagram = Text(threads["architecture_diagram"].code)
       /\ docs'.architecture_diagram.version > 0]_docsVars

(* The task ends: attempts are bounded, and a thread that raises does not   *)
(* keep the other's result from being stored.                               *)
DocsEnd == (docsTask = "running") ~> (docsTask = "ended")
=============================================================================
