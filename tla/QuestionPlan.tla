---------------------------- MODULE QuestionPlan ----------------------------
(***************************************************************************)
(* The interview's plan as a value, and what one turn does to it: the      *)
(* questions in order, what is known of each field, and the three ways a   *)
(* plan changes (the executor records a reply, invalid answers are         *)
(* reverted, the planner starts over after a curveball).                   *)
(*                                                                         *)
(* An answer is abstracted to its class: a value that fits the catalog, a  *)
(* value that is none of the catalog's options, or no value at all.        *)
(***************************************************************************)
EXTENDS Naturals, Sequences, FiniteSets, FiniteSetsExt

CONSTANTS
  Fields,      (* the requirement fields                                    *)
  Blocking,    (* those the requirements cannot do without                  *)
  Enums,       (* those the catalog restricts to a list of options          *)
  Details,     (* the details of a use case, fields with a dotted path      *)
  Prunable,    (* those whose question the planner makes moot once a field  *)
  Pruners,     (* of Pruners has a value                                    *)
  MaxClarifications, (* _MAX_CLARIFICATION_ATTEMPTS                         *)
  MaxReplans,  (* bound: curveballs in one session                          *)
  Outputs,     (* what the planner may return: the fields it asks for, in   *)
               (* order, and what it fills in, whatever is known already    *)
  NoField, NoPlan

ASSUME FieldsKnown ==
  /\ IsFiniteSet(Fields) /\ NoField \notin Fields
  /\ Blocking \subseteq Fields /\ Enums \subseteq Fields
  /\ Prunable \subseteq Fields /\ Pruners \subseteq Fields
  /\ Details \subseteq Fields /\ Details \cap Enums = {}
ASSUME BoundsNatural == MaxClarifications \in Nat \ {0} /\ MaxReplans \in Nat

Values == {"valid", "invalid", "declined"}
Statuses == {"pending", "answered", "skipped"}

Known == [Fields -> Values \cup {"absent"}]

ASSUME OutputsKnown ==
  /\ Outputs \subseteq [ask : Seq(Fields), fill : Known]
  /\ \A o \in Outputs : \A f \in Fields : o.fill[f] = "invalid" => f \in Enums

(* A planned question; one that the fallback plan made is not guided: it    *)
(* offers no options and has no skip conditions. `round' (history): the     *)
(* re-plan that posed it, 0 for the first plan.                             *)
Question == [field : Fields, status : Statuses, value : Values \cup {"none"},
             guided : BOOLEAN, attempts : 0 .. MaxClarifications,
             round : 0 .. MaxReplans]

(* populated_fields, by field: what was answered, and what a planner filled *)
(* in for a field that is no detail (its word on a detail goes to a key     *)
(* that nobody reads). auto_filled: the word of the last planner.           *)
Plans == [entries : Seq(Question), populated : Known, filled : Known,
          replans : 0 .. MaxReplans]

ASSUME NoPlanIsNone == NoPlan \notin Plans

Pose(f, guided, round) ==
  [field |-> f, status |-> "pending", value |-> "none", guided |-> guided,
   attempts |-> 0, round |-> round]

Pending(p) == {i \in DOMAIN p.entries : p.entries[i].status = "pending"}

(* The index of the first question of a set of indices, 0 when it is empty. *)
First(I) == IF I = {} THEN 0 ELSE CHOOSE i \in I : \A j \in I : i <= j

CurrentQuestion(p) == First(Pending(p))
CurrentField(p) ==
  IF Pending(p) = {} THEN NoField ELSE p.entries[CurrentQuestion(p)].field

AnswersTo(e, f) == {i \in DOMAIN e : e[i].field = f /\ e[i].status = "answered"}
LastAnswer(e, f) == IF AnswersTo(e, f) = {} THEN "absent" ELSE e[Max(AnswersTo(e, f))].value

(* What _plan_to_progress reports of a field: a detail is what the planner  *)
(* filled in, or else the last answer given to it.                          *)
Reported(p, f) ==
  CASE f \notin Details -> p.populated[f]
    [] f \in Details /\ p.filled[f] # "absent" -> p.filled[f]
    [] f \in Details /\ p.filled[f] = "absent" -> LastAnswer(p.entries, f)

Gathered(p) == {f \in Fields : Reported(p, f) = "valid"}

-----------------------------------------------------------------------------
(* Mutations.                                                               *)

MarkAnswered(p, f, v) ==
  LET i == First({j \in Pending(p) : p.entries[j].field = f})
  IN  IF i = 0 THEN p
      ELSE [p EXCEPT !.entries[i].status = "answered",
                     !.entries[i].value = v,
                     !.populated[f] = v]

HasValue(p, f) == p.populated[f] \in {"valid", "invalid"}

EvaluateSkipConditions(p) ==
  LET moot(e) == /\ e.status = "pending" /\ e.guided /\ e.field \in Prunable
                 /\ \E f \in Pruners : HasValue(p, f)
  IN  [p EXCEPT !.entries = [i \in DOMAIN p.entries |->
         IF moot(p.entries[i]) THEN [p.entries[i] EXCEPT !.status = "skipped"]
                               ELSE p.entries[i]]]

(* revert_answer, for one field: its first answered question is open again. *)
RevertAnswer(p, f) ==
  LET i == First(AnswersTo(p.entries, f))
  IN  IF i = 0 THEN p
      ELSE [p EXCEPT !.entries[i].status = "pending",
                     !.entries[i].value = "none",
                     !.populated[f] = "absent"]

(* _plan_to_progress: every restricted field that holds an invalid value is *)
(* reverted.                                                                *)
RevertInvalid(p) ==
  FoldSet(LAMBDA f, q : RevertAnswer(q, f), p,
          {f \in Enums : p.populated[f] = "invalid"})

-----------------------------------------------------------------------------
(* The executor.                                                            *)

HasOptions(e) == e.guided /\ e.field \in Enums

(* What the model and the validation after it make of a reply to question   *)
(* i: an invalid value never passes for a clear answer where the question   *)
(* has options.                                                             *)
Readings(p, i) ==
  {r \in [clear : BOOLEAN, value : Values, deviates : BOOLEAN] :
     r.value = "invalid" =>
       /\ p.entries[i].field \in Enums
       /\ r.clear => ~HasOptions(p.entries[i])}

Clarify(p, i) ==
  [p EXCEPT !.entries[i].attempts =
     IF @ < MaxClarifications THEN @ + 1 ELSE @]

Advance(p, i, v) ==
  EvaluateSkipConditions(MarkAnswered(p, p.entries[i].field, v))

(* execute_turn, from the reply r of the model to question i.               *)
ExecuteTurn(p, i, r) ==
  LET asked == Clarify(p, i)
  IN  CASE r.deviates ->
             IF r.clear /\ r.value # "declined" THEN Advance(p, i, r.value) ELSE p
        [] ~r.deviates /\ r.clear -> Advance(p, i, r.value)
        [] OTHER ->
             IF /\ asked.entries[i].attempts = MaxClarifications
                /\ ~HasOptions(p.entries[i]) /\ r.value # "declined"
             THEN Advance(asked, i, r.value)
             ELSE asked

-----------------------------------------------------------------------------
(* The planner.                                                             *)

(* _enrich_plan, for the plan of a round.                                   *)
Enrich(o, known, round) ==
  [entries |-> [i \in DOMAIN o.ask |-> Pose(o.ask[i], TRUE, round)],
   populated |-> [f \in Fields |-> IF f \in Details \/ o.fill[f] = "absent"
                                  THEN known[f] ELSE o.fill[f]],
   filled |-> o.fill,
   replans |-> round]

Nothing == [f \in Fields |-> "absent"]

(* _fallback_plan: every field is asked, in whatever order the schema has.  *)
Orders == {s \in [1 .. Cardinality(Fields) -> Fields] :
             \A i, j \in DOMAIN s : i # j => s[i] # s[j]}
FallbackPlan(s) ==
  [entries |-> [i \in DOMAIN s |-> Pose(s[i], FALSE, 0)],
   populated |-> Nothing, filled |-> Nothing, replans |-> 0]

(* generate_plan, from the planner's answer or the fallback.                *)
GeneratedPlans ==
  {EvaluateSkipConditions(Enrich(o, Nothing, 0)) : o \in Outputs}
  \cup {FallbackPlan(s) : s \in Orders}

(* Broken variant: what was known before the curveball is forgotten.        *)
ReplanFromScratch(p, o) ==
  EvaluateSkipConditions(Enrich(o, Nothing, p.replans + 1))

(* The answered questions among the first n.                                *)
Answered(entries) ==
  LET kept[n \in 0 .. Len(entries)] ==
        IF n = 0 THEN <<>>
        ELSE IF entries[n].status = "answered" THEN Append(kept[n - 1], entries[n])
        ELSE kept[n - 1]
  IN  kept

(* replan: the answered questions, then those of the planner; what it fills *)
(* in replaces what was filled in, and what is known, answers included.     *)
Replan(p, o) ==
  LET fresh == Enrich(o, p.populated, p.replans + 1)
  IN  EvaluateSkipConditions([fresh EXCEPT !.entries = Answered(p.entries)[Len(p.entries)] \o @])
=============================================================================
