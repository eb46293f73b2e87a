--------------------------- MODULE InterviewProofs ---------------------------
(***************************************************************************)
(* What is proved of the interview: its types, for any number of servers,  *)
(* fields, messages and abandoned threads; that what the browser shows is  *)
(* what can be resumed; and, on one server, that answers go to the         *)
(* question they were given for, and that nothing but a question asked     *)
(* again and the planner of a re-plan takes a field from the saved plan.   *)
(***************************************************************************)
EXTENDS Interview, RecursionTheorems

(* The fields answered for good: they hold a value and are not asked again. *)
Firm(p) == Gathered(p) \ AskedAgain(p)

(* What is known of a field, and its questions, stay as they are.           *)
Undisturbed(p, q, f) ==
  /\ q.populated[f] = p.populated[f]
  /\ \A i \in DOMAIN p.entries :
       p.entries[i].field = f => /\ q.entries[i].status = p.entries[i].status
                                 /\ q.entries[i].value = p.entries[i].value

(* What a plan object becomes while a thread or a coroutine works on it.    *)
Alike(p, q) ==
  /\ q \in Plans /\ DOMAIN q.entries = DOMAIN p.entries
  /\ q.replans = p.replans /\ q.filled = p.filled
  /\ \A i \in DOMAIN p.entries : /\ q.entries[i].field = p.entries[i].field
                                 /\ q.entries[i].round = p.entries[i].round
Follows(p, q) ==
  /\ Alike(p, q)
  /\ \A f \in Firm(p) : Undisturbed(p, q, f)
  /\ Firm(p) \subseteq Firm(q)

-----------------------------------------------------------------------------
(* The operations on a plan.                                                *)

LEMMA PlanFields ==
  ASSUME NEW p \in Plans
  PROVE  /\ p = [entries |-> p.entries, populated |-> p.populated, filled |-> p.filled,
                 replans |-> p.replans]
         /\ p.entries \in Seq(Question) /\ Len(p.entries) \in Nat
         /\ DOMAIN p.entries = 1 .. Len(p.entries)
         /\ \A i \in DOMAIN p.entries : p.entries[i] \in Question
         /\ p.populated \in Known /\ p.filled \in Known /\ p.replans \in 0 .. MaxReplans
<1>1. /\ p = [entries |-> p.entries, populated |-> p.populated, filled |-> p.filled,
              replans |-> p.replans]
      /\ p.entries \in Seq(Question)
      /\ p.populated \in Known /\ p.filled \in Known /\ p.replans \in 0 .. MaxReplans
  BY DEF Plans
<1> QED
  BY <1>1, LenProperties, ElementOfSeq

LEMMA FirstFacts ==
  ASSUME NEW n \in Nat, NEW I \in SUBSET (1 .. n)
  PROVE  IF I = {} THEN First(I) = 0 ELSE First(I) \in I /\ First(I) # 0
<1>1. CASE I # {}
  <2>1. I \in SUBSET Nat /\ 0 \notin I
    OBVIOUS
  <2>2. (CHOOSE i \in I : \A j \in I : i <= j) \in I
    BY <1>1, <2>1, LeastChosen
  <2>3. First(I) \in I
    BY <1>1, <2>2 DEF First
  <2> QED
    BY <1>1, <2>1, <2>3
<1> QED
  BY <1>1 DEF First

(* Questions changed one by one are questions.                              *)
LEMMA QuestionsChanged ==
  ASSUME NEW p \in Plans, NEW e, e = [i \in DOMAIN p.entries |-> e[i]],
         \A i \in DOMAIN p.entries : e[i] \in Question
  PROVE  e \in Seq(Question) /\ DOMAIN e = DOMAIN p.entries
<1>1. Len(p.entries) \in Nat /\ DOMAIN p.entries = 1 .. Len(p.entries)
  BY PlanFields
<1>2. e \in [1 .. Len(p.entries) -> Question]
  BY <1>1
<1> QED
  BY <1>1, <1>2 DEF Seq

LEMMA LastChosen ==
  ASSUME NEW n \in Nat, NEW I \in SUBSET (1 .. n), I # {}
  PROVE  Max(I) \in I /\ \A i \in I : Max(I) >= i
BY GreatestNumber DEF Max

LEMMA LastIs ==
  ASSUME NEW n \in Nat, NEW I \in SUBSET (1 .. n), NEW m \in I, \A i \in I : m >= i
  PROVE  Max(I) = m
<1> DEFINE l == Max(I)
<1>1. l \in I /\ l >= m /\ m >= l
  BY LastChosen
<1> HIDE DEF l
<1>2. l \in Nat /\ m \in Nat
  BY <1>1
<1> QED
  BY <1>1, <1>2 DEF l

LEMMA FirmQuestions ==
  ASSUME NEW p, NEW f \in Firm(p), NEW i \in DOMAIN p.entries, p.entries[i].field = f
  PROVE  p.entries[i].status # "pending"
BY DEF Firm, AskedAgain, Pending

(* Fields that are left as they are stay answered for good.                 *)
LEMMA StaysFirm ==
  ASSUME NEW p \in Plans, NEW q, Alike(p, q), NEW f \in Firm(p), Undisturbed(p, q, f)
  PROVE  f \in Firm(q)
<1>1. /\ q.populated[f] = p.populated[f] /\ q.filled = p.filled
      /\ DOMAIN q.entries = DOMAIN p.entries
      /\ \A i \in DOMAIN p.entries :
           /\ q.entries[i].field = p.entries[i].field
           /\ p.entries[i].field = f => /\ q.entries[i].status = p.entries[i].status
                                       /\ q.entries[i].value = p.entries[i].value
  BY DEF Alike, Undisturbed
<1>2. Len(p.entries) \in Nat /\ DOMAIN p.entries = 1 .. Len(p.entries)
  BY PlanFields
<1>3. AnswersTo(q.entries, f) = AnswersTo(p.entries, f)
  BY <1>1 DEF AnswersTo
<1>4. LastAnswer(q.entries, f) = LastAnswer(p.entries, f)
  <2> DEFINE I == AnswersTo(p.entries, f)
  <2>1. CASE I = {}
    BY <1>3, <2>1 DEF LastAnswer
  <2>2. CASE I # {}
    <3>1. I \in SUBSET (1 .. Len(p.entries))
      BY <1>2 DEF AnswersTo
    <3>2. Max(I) \in I
      <4> HIDE DEF I
      <4> QED
        BY <1>2, <2>2, <3>1, LastChosen
    <3>3. Max(I) \in DOMAIN p.entries /\ p.entries[Max(I)].field = f
      BY <3>2 DEF AnswersTo
    <3>4. q.entries[Max(I)].value = p.entries[Max(I)].value
      <4> HIDE DEF I
      <4> QED
        BY <1>1, <3>3
    <3> QED
      BY <1>3, <2>2, <3>4 DEF LastAnswer
  <2> QED
    BY <2>1, <2>2
<1>5. f \in Fields /\ Reported(p, f) = "valid" /\ f \notin AskedAgain(p)
  BY DEF Firm, Gathered
<1>6. Reported(q, f) = Reported(p, f)
  BY <1>1, <1>4, Zenon DEF Reported
<1>7. f \in Gathered(q)
  BY <1>5, <1>6 DEF Gathered
<1>8. f \notin AskedAgain(q)
  BY <1>1, <1>5 DEF AskedAgain, Pending
<1> QED
  BY <1>7, <1>8 DEF Firm

LEMMA Changed ==
  ASSUME NEW p \in Plans, NEW q, Alike(p, q), \A f \in Firm(p) : Undisturbed(p, q, f)
  PROVE  Follows(p, q)
<1>1. Firm(p) \subseteq Firm(q)
  BY StaysFirm
<1> QED
  BY <1>1 DEF Follows

LEMMA FollowsItself ==
  ASSUME NEW p \in Plans
  PROVE  Follows(p, p)
  BY DEF Follows, Alike, Undisturbed

LEMMA FollowsOn ==
  ASSUME NEW p, NEW q, NEW r, Follows(p, q), Follows(q, r)
  PROVE  Follows(p, r)
<1>1. Alike(p, r) /\ Firm(p) \subseteq Firm(r)
  BY DEF Follows, Alike
<1>2. ASSUME NEW f \in Firm(p)
      PROVE  Undisturbed(p, r, f)
  <2>1. Undisturbed(p, q, f) /\ Undisturbed(q, r, f)
    BY DEF Follows
  <2>2. /\ DOMAIN q.entries = DOMAIN p.entries
        /\ \A i \in DOMAIN p.entries : q.entries[i].field = p.entries[i].field
    BY DEF Follows, Alike
  <2> QED
    BY <2>1, <2>2 DEF Undisturbed
<1> QED
  BY <1>1, <1>2 DEF Follows

LEMMA SkipFollows ==
  ASSUME NEW p \in Plans
  PROVE  Follows(p, EvaluateSkipConditions(p))
<1> DEFINE q == EvaluateSkipConditions(p)
<1>1. \A i \in DOMAIN p.entries : p.entries[i] \in Question
  BY PlanFields
<1>2. /\ q.entries = [i \in DOMAIN p.entries |-> q.entries[i]]
      /\ q.populated = p.populated /\ q.filled = p.filled /\ q.replans = p.replans
      /\ \A i \in DOMAIN p.entries :
           \/ q.entries[i] = p.entries[i]
           \/ /\ q.entries[i] = [p.entries[i] EXCEPT !.status = "skipped"]
              /\ p.entries[i].status = "pending"
  BY DEF EvaluateSkipConditions, Plans
<1>3. q.entries \in Seq(Question) => q \in Plans
  BY DEF EvaluateSkipConditions, Plans
<1> HIDE DEF q
<1>4. \A i \in DOMAIN p.entries :
        /\ q.entries[i] \in Question
        /\ q.entries[i].field = p.entries[i].field /\ q.entries[i].round = p.entries[i].round
        /\ q.entries[i] = p.entries[i] \/ p.entries[i].status = "pending"
  <2> SUFFICES ASSUME NEW i \in DOMAIN p.entries
               PROVE  /\ q.entries[i] \in Question
                      /\ q.entries[i].field = p.entries[i].field
                      /\ q.entries[i].round = p.entries[i].round
                      /\ q.entries[i] = p.entries[i] \/ p.entries[i].status = "pending"
    OBVIOUS
  <2> DEFINE e == p.entries[i]
             d == q.entries[i]
  <2>1. e \in Question /\ (d = e \/ (d = [e EXCEPT !.status = "skipped"] /\ e.status = "pending"))
    BY <1>1, <1>2
  <2> HIDE DEF d, e
  <2>2. /\ d \in Question /\ d.field = e.field /\ d.round = e.round
        /\ d = e \/ e.status = "pending"
    BY <2>1 DEF Question, Statuses
  <2> QED
    BY <2>2 DEF d, e
<1>5. q \in Plans /\ DOMAIN q.entries = DOMAIN p.entries
  BY <1>2, <1>3, <1>4, QuestionsChanged
<1>6. Alike(p, q)
  BY <1>2, <1>4, <1>5 DEF Alike
<1>7. ASSUME NEW f \in Firm(p)
      PROVE  Undisturbed(p, q, f)
  <2>1. \A i \in DOMAIN p.entries : p.entries[i].field = f => q.entries[i] = p.entries[i]
    BY <1>4, FirmQuestions
  <2> QED
    BY <1>2, <2>1 DEF Undisturbed
<1>8. Follows(p, q)
  BY <1>6, <1>7, Changed
<1> QED
  BY <1>8 DEF q

LEMMA MarkFollows ==
  ASSUME NEW p \in Plans, NEW f \in Fields, NEW v \in Values
  PROVE  Follows(p, MarkAnswered(p, f, v))
<1> DEFINE I == {j \in Pending(p) : p.entries[j].field = f}
           i == First(I)
           q == [p EXCEPT !.entries[i].status = "answered",
                          !.entries[i].value = v, !.populated[f] = v]
<1>1. /\ p.entries \in Seq(Question)
      /\ Len(p.entries) \in Nat /\ DOMAIN p.entries = 1 .. Len(p.entries)
      /\ p.populated \in Known /\ \A j \in DOMAIN p.entries : p.entries[j] \in Question
  BY PlanFields
<1>2. I \in SUBSET (1 .. Len(p.entries))
  BY <1>1 DEF Pending
<1>3. IF I = {} THEN i = 0 ELSE i \in I /\ i # 0
  <2> HIDE DEF I
  <2> QED
    BY <1>1, <1>2, FirstFacts
<1>4. MarkAnswered(p, f, v) = IF i = 0 THEN p ELSE q
  BY DEF MarkAnswered
<1> HIDE DEF i
<1>5. ASSUME i # 0
      PROVE  Follows(p, q)
  <2> DEFINE x == [p.entries[i] EXCEPT !.status = "answered", !.value = v]
  <2>1. i \in DOMAIN p.entries /\ p.entries[i].status = "pending" /\ p.entries[i].field = f
    BY <1>2, <1>3, <1>5 DEF Pending
  <2>2. x \in Question /\ x.field = f /\ x.round = p.entries[i].round
    BY <1>1, <2>1 DEF Question, Statuses
  <2>3. /\ q.entries = [p.entries EXCEPT ![i] = x]
        /\ q.populated = [p.populated EXCEPT ![f] = v]
        /\ q.filled = p.filled /\ q.replans = p.replans
    BY DEF Plans
  <2>4. q.entries \in Seq(Question) /\ q.populated \in Known => q \in Plans
    BY DEF Plans
  <2> HIDE DEF q, x
  <2>5. q.entries \in Seq(Question)
    BY <1>1, <2>1, <2>2, <2>3, ExceptSeq
  <2>6. q.populated \in Known /\ \A g \in Fields \ {f} : q.populated[g] = p.populated[g]
    BY <1>1, <2>3 DEF Known
  <2>7. /\ DOMAIN q.entries = DOMAIN p.entries
        /\ \A j \in DOMAIN p.entries : q.entries[j] = IF j = i THEN x ELSE p.entries[j]
    BY <2>1, <2>3
  <2>8. Alike(p, q)
    BY <2>1, <2>2, <2>3, <2>4, <2>5, <2>6, <2>7 DEF Alike
  <2>9. ASSUME NEW g \in Firm(p)
        PROVE  Undisturbed(p, q, g)
    <3>1. g # f /\ g \in Fields
      BY <2>1, FirmQuestions DEF Firm, Gathered
    <3> QED
      BY <2>1, <2>6, <2>7, <3>1 DEF Undisturbed
  <2> QED
    BY <2>8, <2>9, Changed
<1> QED
  BY <1>4, <1>5, FollowsItself

LEMMA ClarifyFollows ==
  ASSUME NEW p \in Plans, NEW i \in DOMAIN p.entries
  PROVE  Follows(p, Clarify(p, i))
<1> DEFINE q == Clarify(p, i)
           n == p.entries[i].attempts
           m == IF n < MaxClarifications THEN n + 1 ELSE n
           x == [p.entries[i] EXCEPT !.attempts = m]
<1>1. /\ p.entries \in Seq(Question) /\ DOMAIN p.entries = 1 .. Len(p.entries)
      /\ p.entries[i] \in Question
  BY PlanFields
<1>2. m \in 0 .. MaxClarifications
  BY <1>1, BoundsNatural DEF Question
<1>3. /\ q.entries = [p.entries EXCEPT ![i] = x] /\ q.populated = p.populated
      /\ q.filled = p.filled /\ q.replans = p.replans
  BY DEF Clarify, Plans
<1>4. q.entries \in Seq(Question) => q \in Plans
  BY DEF Clarify, Plans
<1> HIDE DEF q, m
<1>5. /\ x \in Question /\ x.status = p.entries[i].status /\ x.value = p.entries[i].value
      /\ x.field = p.entries[i].field /\ x.round = p.entries[i].round
  BY <1>1, <1>2 DEF Question
<1> HIDE DEF x
<1>6. q.entries \in Seq(Question)
  BY <1>1, <1>3, <1>5, ExceptSeq
<1>7. /\ DOMAIN q.entries = DOMAIN p.entries
      /\ \A j \in DOMAIN p.entries : q.entries[j] = IF j = i THEN x ELSE p.entries[j]
  BY <1>3
<1>8. Alike(p, q)
  BY <1>3, <1>4, <1>5, <1>6, <1>7 DEF Alike
<1>9. \A f \in Firm(p) : Undisturbed(p, q, f)
  BY <1>3, <1>5, <1>7 DEF Undisturbed
<1>10. Follows(p, q)
  BY <1>8, <1>9, Changed
<1> QED
  BY <1>10 DEF q

LEMMA AdvanceFollows ==
  ASSUME NEW p \in Plans, NEW i \in DOMAIN p.entries, NEW v \in Values
  PROVE  Follows(p, Advance(p, i, v))
<1> DEFINE q == MarkAnswered(p, p.entries[i].field, v)
<1>1. p.entries[i].field \in Fields
  BY PlanFields DEF Question
<1>2. Follows(p, q) /\ q \in Plans
  BY <1>1, MarkFollows DEF Follows, Alike
<1> HIDE DEF q
<1>3. Follows(p, EvaluateSkipConditions(q))
  BY <1>2, SkipFollows, FollowsOn
<1> QED
  BY <1>3 DEF Advance, q

LEMMA TurnFollows ==
  ASSUME NEW p \in Plans, NEW i \in DOMAIN p.entries, NEW r \in Readings(p, i)
  PROVE  Follows(p, ExecuteTurn(p, i, r))
<1> DEFINE asked == Clarify(p, i)
<1>1. r.value \in Values
  BY DEF Readings
<1>2. Follows(p, asked) /\ asked \in Plans /\ i \in DOMAIN asked.entries
  BY ClarifyFollows DEF Follows, Alike
<1> HIDE DEF asked
<1>3. Follows(p, Advance(asked, i, r.value))
  BY <1>1, <1>2, AdvanceFollows, FollowsOn
<1>4. Follows(p, Advance(p, i, r.value))
  BY <1>1, AdvanceFollows
<1>5. ExecuteTurn(p, i, r) \in {p, asked, Advance(p, i, r.value), Advance(asked, i, r.value)}
  <2>1. CASE r.deviates
    BY <2>1 DEF ExecuteTurn, asked
  <2>2. CASE ~r.deviates /\ r.clear
    BY <2>2 DEF ExecuteTurn, asked
  <2>3. CASE ~r.deviates /\ ~r.clear
    BY <2>3 DEF ExecuteTurn, asked
  <2> QED
    BY <2>1, <2>2, <2>3
<1> QED
  BY <1>2, <1>3, <1>4, <1>5, FollowsItself

LEMMA RevertFollows ==
  ASSUME NEW o \in Plans, NEW p, Follows(o, p), NEW f \in Fields, f \notin Firm(o)
  PROVE  Follows(o, RevertAnswer(p, f))
<1> DEFINE I == AnswersTo(p.entries, f)
           i == First(I)
           q == [p EXCEPT !.entries[i].status = "pending",
                          !.entries[i].value = "none", !.populated[f] = "absent"]
<1>0. p \in Plans /\ Alike(o, p) /\ \A g \in Firm(o) : Undisturbed(o, p, g)
  BY DEF Follows, Alike
<1>1. /\ p.entries \in Seq(Question)
      /\ Len(p.entries) \in Nat /\ DOMAIN p.entries = 1 .. Len(p.entries)
      /\ p.populated \in Known /\ \A j \in DOMAIN p.entries : p.entries[j] \in Question
  BY <1>0, PlanFields
<1>2. I \in SUBSET (1 .. Len(p.entries))
  BY <1>1 DEF AnswersTo
<1>3. IF I = {} THEN i = 0 ELSE i \in I /\ i # 0
  <2> HIDE DEF I
  <2> QED
    BY <1>1, <1>2, FirstFacts
<1>4. RevertAnswer(p, f) = IF i = 0 THEN p ELSE q
  BY DEF RevertAnswer
<1> HIDE DEF i
<1>5. ASSUME i # 0
      PROVE  Follows(o, q)
  <2> DEFINE x == [p.entries[i] EXCEPT !.status = "pending", !.value = "none"]
  <2>1. i \in DOMAIN p.entries /\ p.entries[i].field = f
    BY <1>3, <1>5 DEF AnswersTo
  <2>2. x \in Question /\ x.field = f /\ x.round = p.entries[i].round
    BY <1>1, <2>1 DEF Question, Statuses
  <2>3. /\ q.entries = [p.entries EXCEPT ![i] = x]
        /\ q.populated = [p.populated EXCEPT ![f] = "absent"]
        /\ q.filled = p.filled /\ q.replans = p.replans
    BY <1>0 DEF Plans
  <2>4. q.entries \in Seq(Question) /\ q.populated \in Known => q \in Plans
    BY <1>0 DEF Plans
  <2> HIDE DEF q, x
  <2>5. q.entries \in Seq(Question)
    BY <1>1, <2>1, <2>2, <2>3, ExceptSeq
  <2>6. q.populated \in Known /\ \A g \in Fields \ {f} : q.populated[g] = p.populated[g]
    BY <1>1, <2>3 DEF Known
  <2>7. /\ DOMAIN q.entries = DOMAIN p.entries
        /\ \A j \in DOMAIN p.entries : q.entries[j] = IF j = i THEN x ELSE p.entries[j]
    BY <2>1, <2>3
  <2>8. Alike(p, q)
    BY <2>1, <2>2, <2>3, <2>4, <2>5, <2>6, <2>7 DEF Alike
  <2>9. Alike(o, q)
    BY <1>0, <2>8 DEF Alike
  <2>10. ASSUME NEW g \in Firm(o)
         PROVE  Undisturbed(o, q, g)
    <3>1. g # f /\ g \in Fields /\ Undisturbed(o, p, g)
      BY <1>0 DEF Firm, Gathered
    <3>2. \A j \in DOMAIN o.entries : o.entries[j].field = g => q.entries[j] = p.entries[j]
      BY <1>0, <2>1, <2>7, <3>1 DEF Alike
    <3> QED
      BY <2>6, <3>1, <3>2 DEF Undisturbed
  <2> QED
    BY <2>9, <2>10, Changed
<1> QED
  BY <1>4, <1>5

(* _plan_to_progress goes over the invalid fields one by one: the fold is a *)
(* function on the sets of those done so far.                               *)
Invalid(p) == {f \in Enums : p.populated[f] = "invalid"}

Chosen(s) == CHOOSE f \in s : TRUE

Reverted(p) ==
  CHOOSE iter : iter = [s \in SUBSET Invalid(p) |->
                          IF s = {} THEN p
                          ELSE RevertAnswer(iter[s \ {Chosen(s)}], Chosen(s))]

LEMMA RevertedInTurn ==
  ASSUME NEW p
  PROVE  RevertInvalid(p) = Reverted(p)[Invalid(p)]
  BY DEF RevertInvalid, FoldSet, MapThenFoldSet, Reverted, Invalid, Chosen

LEMMA RevertInvalidFollows ==
  ASSUME NEW p \in Plans
  PROVE  Follows(p, RevertInvalid(p))
<1> DEFINE F == Invalid(p)
           S == SUBSET F
           N == Cardinality(F)
           V == {q \in Plans : Follows(p, q)}
           rank == [s \in S |-> Cardinality(s)]
           Base == {{}}
           base == [s \in Base |-> p]
           next == [s \in S \ Base |-> s \ {Chosen(s)}]
           step == [x \in (S \ Base) \X V |-> RevertAnswer(x[2], Chosen(x[1]))]
           Body(g, s) == IF s = {} THEN p ELSE RevertAnswer(g[s \ {Chosen(s)}], Chosen(s))
<1>1. /\ F \subseteq Fields /\ IsFiniteSet(F) /\ N \in Nat
      /\ \A f \in F : p.populated[f] = "invalid"
  <2>1. F \subseteq Fields /\ \A f \in F : p.populated[f] = "invalid"
    BY FieldsKnown DEF Invalid
  <2>2. IsFiniteSet(F)
    BY <2>1, FieldsKnown, FS_Subset
  <2> QED
    BY <2>1, <2>2, FS_CardinalityType
<1>2. \A s \in S \ Base : Chosen(s) \in s /\ Chosen(s) \in Fields
  BY <1>1 DEF Chosen
<1>3. \A s \in S : IsFiniteSet(s) /\ Cardinality(s) \in 0 .. N
  <2> SUFFICES ASSUME NEW s \in S PROVE IsFiniteSet(s) /\ Cardinality(s) \in 0 .. N
    OBVIOUS
  <2>1. IsFiniteSet(s) /\ Cardinality(s) <= N
    BY <1>1, FS_Subset
  <2> QED
    BY <1>1, <2>1, FS_CardinalityType
<1>4. p \in V
  BY FollowsItself
<1>5. ASSUME NEW s \in S \ Base, NEW q \in V
      PROVE  RevertAnswer(q, Chosen(s)) \in V
  <2>1. PICK f \in Fields : f = Chosen(s) /\ f \in F
    BY <1>1, <1>2
  <2>2. Follows(p, q) /\ f \notin Firm(p)
    <3>1. p.populated[f] = "invalid" /\ f \notin Details
      BY <1>1, <2>1, FieldsKnown DEF Invalid
    <3>2. Reported(p, f) # "valid"
      BY <3>1 DEF Reported
    <3> QED
      BY <3>2 DEF Firm, Gathered
  <2>3. Follows(p, RevertAnswer(q, f))
    BY <2>2, RevertFollows
  <2>4. RevertAnswer(q, f) \in V
    BY <2>3 DEF Follows, Alike
  <2> QED
    BY <2>1, <2>4
<1>6. rank \in [S -> 0 .. N] /\ base \in [Base -> V] /\ next \in [S \ Base -> S]
  BY <1>1, <1>3, <1>4
<1>7. step \in [(S \ Base) \X V -> V]
  <2> HIDE DEF S, V
  <2> QED
    BY <1>5
<1>8. ASSUME NEW s \in S \ Base
      PROVE  rank[next[s]] < rank[s]
  <2>1. s \ {Chosen(s)} \in S /\ s \ {Chosen(s)} \subseteq s /\ s \ {Chosen(s)} # s
    BY <1>2
  <2>2. Cardinality(s \ {Chosen(s)}) < Cardinality(s)
    <3>1. /\ Cardinality(s \ {Chosen(s)}) <= Cardinality(s)
          /\ Cardinality(s \ {Chosen(s)}) # Cardinality(s)
      BY <1>3, <2>1, FS_Subset
    <3> QED
      BY <1>3, <2>1, <3>1
  <2> QED
    BY <2>1, <2>2
<1> HIDE DEF S, V, Base, base, next, step, rank, N, F
<1>9. PICK g \in [S -> V] :
        g = [s \in S |-> IF s \in Base THEN base[s] ELSE step[<< s, g[next[s]] >>]]
  <2>1. Recursion(S, V, N, rank, Base, base, next, step)
    <3>1. Base \in SUBSET S
      BY DEF Base, S
    <3> QED
      BY <1>1, <1>6, <1>7, <1>8, <3>1 DEF Recursion
  <2> QED
    BY <2>1, RecursionExists
<1>10. \A s \in S : g[s] = Body(g, s)
  <2> SUFFICES ASSUME NEW s \in S PROVE g[s] = Body(g, s)
    OBVIOUS
  <2>1. CASE s = {}
    BY <1>9, <2>1 DEF Base, base
  <2>2. CASE s # {}
    <3>1. s \in S \ Base
      BY <2>2 DEF Base
    <3>2. g[s] = step[<< s, g[next[s]] >>]
      BY <1>9, <3>1
    <3>3. next[s] = s \ {Chosen(s)} /\ next[s] \in S
      BY <1>6, <3>1 DEF next
    <3>4. << s, g[next[s]] >> \in (S \ Base) \X V
      BY <1>9, <3>1, <3>3
    <3> QED
      BY <2>2, <3>2, <3>3, <3>4 DEF step
  <2> QED
    BY <2>1, <2>2
<1>11. g = [s \in S |-> Body(g, s)]
  BY <1>9, <1>10
<1>12. Reverted(p) = [s \in S |-> Body(Reverted(p), s)]
  BY <1>11 DEF Reverted, S, F
<1> DEFINE r == Reverted(p)
           P == {s \in S : r[s] \in V}
<1> HIDE DEF r
<1>13. ASSUME NEW s \in S, \A t \in S : rank[t] < rank[s] => t \in P
       PROVE  s \in P
  <2>1. r[s] = Body(r, s)
    BY <1>12 DEF r
  <2>2. CASE s = {}
    BY <1>4, <2>1, <2>2
  <2>3. CASE s # {}
    <3>1. s \in S \ Base
      BY <2>3 DEF Base
    <3>2. next[s] = s \ {Chosen(s)} /\ next[s] \in S
      BY <1>6, <3>1 DEF next
    <3>3. r[s \ {Chosen(s)}] \in V
      BY <1>8, <1>13, <3>1, <3>2
    <3> QED
      BY <1>5, <2>1, <2>3, <3>1, <3>3
  <2> QED
    BY <2>2, <2>3
<1>14. S \subseteq P
  <2>1. rank \in [S -> Nat]
    BY <1>1, <1>6
  <2> HIDE DEF P
  <2> QED
    BY <1>13, <2>1, RankInduction
<1>15. r[F] \in V
  BY <1>14 DEF S
<1> QED
  BY <1>15, RevertedInTurn DEF r, V, F

-----------------------------------------------------------------------------
(* The planner.                                                             *)

LEMMA Posed ==
  ASSUME NEW n \in Nat, NEW s \in [1 .. n -> Fields], NEW guided \in BOOLEAN,
         NEW round \in 0 .. MaxReplans, NEW e, e = [i \in 1 .. n |-> e[i]],
         \A i \in 1 .. n : e[i] = Pose(s[i], guided, round)
  PROVE  /\ e \in Seq(Question) /\ Len(e) = n /\ DOMAIN e = 1 .. n
         /\ \A i \in 1 .. n : e[i].field = s[i] /\ e[i].status = "pending" /\ e[i].round = round
<1>1. \A f \in Fields : Pose(f, guided, round) \in Question
  BY BoundsNatural DEF Pose, Question, Statuses
<1>2. e \in [1 .. n -> Question]
  BY <1>1
<1>3. e \in Seq(Question) /\ Len(e) = n
  BY <1>2 DEF Seq
<1> QED
  BY <1>2, <1>3 DEF Pose

LEMMA SeqMonotone ==
  ASSUME NEW S, NEW T, S \subseteq T
  PROVE  Seq(S) \subseteq Seq(T)
  BY DEF Seq

LEMMA OutputFields ==
  ASSUME NEW o \in Outputs
  PROVE  /\ o.ask \in Seq(Fields) /\ Len(o.ask) \in Nat
         /\ o.ask \in [1 .. Len(o.ask) -> Fields] /\ o.fill \in Known
<1>1. o.ask \in Seq(Fields) /\ o.fill \in Known
  BY OutputsKnown
<1>2. Len(o.ask) \in Nat /\ o.ask \in [1 .. Len(o.ask) -> Fields]
  <2> HIDE DEF Known
  <2> QED
    BY <1>1, LenProperties
<1> QED
  BY <1>1, <1>2

LEMMA EnrichFacts ==
  ASSUME NEW o \in Outputs, NEW known \in Known, NEW round \in 0 .. MaxReplans
  PROVE  LET q == Enrich(o, known, round)
         IN  /\ q \in Plans /\ q.filled = o.fill /\ q.replans = round
             /\ \A f \in Fields : q.populated[f] = IF f \in Details \/ o.fill[f] = "absent"
                                                  THEN known[f] ELSE o.fill[f]
             /\ \A i \in DOMAIN q.entries :
                  q.entries[i].status = "pending" /\ q.entries[i].round = round
<1> DEFINE q == Enrich(o, known, round)
           e == [i \in DOMAIN o.ask |-> Pose(o.ask[i], TRUE, round)]
           P == [f \in Fields |-> IF f \in Details \/ o.fill[f] = "absent" THEN known[f] ELSE o.fill[f]]
           n == Len(o.ask)
<1>1. n \in Nat /\ o.ask \in [1 .. n -> Fields] /\ o.fill \in Known
  BY OutputFields
<1>2. /\ e \in Seq(Question) /\ DOMAIN e = 1 .. n
      /\ \A i \in 1 .. n : e[i].status = "pending" /\ e[i].round = round
  <2> DEFINE guided == TRUE
  <2> HIDE DEF n
  <2>1. /\ e = [i \in 1 .. n |-> e[i]] /\ guided \in BOOLEAN
        /\ \A i \in 1 .. n : e[i] = Pose(o.ask[i], guided, round)
    BY <1>1
  <2> HIDE DEF e, guided
  <2> QED
    BY <1>1, <2>1, Posed
<1>3. P \in Known
  BY <1>1 DEF Known
<1>4. q.entries = e /\ q.populated = P /\ q.filled = o.fill /\ q.replans = round
  BY DEF Enrich
<1>5. e \in Seq(Question) /\ P \in Known => q \in Plans
  BY <1>1 DEF Enrich, Plans
<1>6. \A f \in Fields : P[f] = IF f \in Details \/ o.fill[f] = "absent" THEN known[f] ELSE o.fill[f]
  OBVIOUS
<1> HIDE DEF q, e, P
<1> QED
  BY <1>2, <1>3, <1>4, <1>5, <1>6 DEF q

LEMMA GeneratedArePlans ==
  ASSUME NEW p \in GeneratedPlans
  PROVE  p \in Plans
<1>1. Nothing \in Known
  BY DEF Nothing, Known, Values
<1>2. 0 \in 0 .. MaxReplans
  BY BoundsNatural
<1>3. ASSUME NEW o \in Outputs
      PROVE  EvaluateSkipConditions(Enrich(o, Nothing, 0)) \in Plans
  <2>1. Enrich(o, Nothing, 0) \in Plans
    BY <1>1, <1>2, EnrichFacts
  <2> QED
    BY <2>1, SkipFollows DEF Follows, Alike
<1>4. ASSUME NEW s \in Orders
      PROVE  FallbackPlan(s) \in Plans
  <2> DEFINE e == [i \in DOMAIN s |-> Pose(s[i], FALSE, 0)]
             guided == FALSE
  <2>1. s \in [1 .. Cardinality(Fields) -> Fields] /\ Cardinality(Fields) \in Nat
    BY FieldsKnown, FS_CardinalityType DEF Orders
  <2>2. /\ e = [i \in 1 .. Cardinality(Fields) |-> e[i]] /\ guided \in BOOLEAN
        /\ \A i \in 1 .. Cardinality(Fields) : e[i] = Pose(s[i], guided, 0)
    BY <2>1
  <2>3. e \in Seq(Question)
    <3> HIDE DEF e, guided
    <3> QED
      BY <1>2, <2>1, <2>2, Posed
  <2> QED
    BY <1>1, <1>2, <2>3 DEF FallbackPlan, Plans
<1> QED
  BY <1>3, <1>4 DEF GeneratedPlans

(* The last answer among the first n questions.                             *)
AnswersUpTo(e, f, n) == {i \in AnswersTo(e, f) : i <= n}
LastUpTo(e, f, n) ==
  IF AnswersUpTo(e, f, n) = {} THEN "absent" ELSE e[Max(AnswersUpTo(e, f, n))].value

LEMMA OneMoreAnswer ==
  ASSUME NEW s \in Seq(Question), NEW x \in Question, x.status = "answered", NEW f
  PROVE  LastAnswer(Append(s, x), f) = IF x.field = f THEN x.value ELSE LastAnswer(s, f)
<1> DEFINE a == Append(s, x)
           n == Len(s)
<1>1. /\ n \in Nat /\ DOMAIN s = 1 .. n /\ DOMAIN a = 1 .. (n + 1)
      /\ a[n + 1] = x /\ \A i \in 1 .. n : a[i] = s[i]
  <2> HIDE DEF n
  <2>1. n \in Nat /\ DOMAIN s = 1 .. n
    BY LenProperties DEF n
  <2>2. a \in Seq(Question) /\ Len(a) = n + 1 /\ a[n + 1] = x /\ \A i \in 1 .. n : a[i] = s[i]
    BY AppendProperties DEF n
  <2> HIDE DEF a
  <2>3. DOMAIN a = 1 .. Len(a)
    BY <2>2, LenProperties
  <2> QED
    BY <2>1, <2>2, <2>3
<1> HIDE DEF a, n
<1>2. CASE x.field = f
  <2>1. /\ n + 1 \in AnswersTo(a, f) /\ AnswersTo(a, f) \in SUBSET (1 .. (n + 1))
        /\ n + 1 \in Nat /\ \A i \in AnswersTo(a, f) : n + 1 >= i
    BY <1>1, <1>2 DEF AnswersTo
  <2>2. Max(AnswersTo(a, f)) = n + 1
    BY <1>1, <2>1, LastIs
  <2> QED
    BY <1>1, <1>2, <2>1, <2>2 DEF LastAnswer, a
<1>3. CASE x.field # f
  <2>1. AnswersTo(a, f) = AnswersTo(s, f) /\ AnswersTo(s, f) \in SUBSET (1 .. n)
    BY <1>1, <1>3 DEF AnswersTo
  <2>2. CASE AnswersTo(s, f) = {}
    BY <1>3, <2>1, <2>2 DEF LastAnswer, a
  <2>3. CASE AnswersTo(s, f) # {}
    <3>1. Max(AnswersTo(s, f)) \in 1 .. n
      BY <1>1, <2>1, <2>3, LastChosen
    <3>2. a[Max(AnswersTo(s, f))] = s[Max(AnswersTo(s, f))]
      BY <1>1, <3>1
    <3> QED
      BY <1>3, <2>1, <2>3, <3>2 DEF LastAnswer, a
  <2> QED
    BY <2>2, <2>3
<1> QED
  BY <1>2, <1>3

LEMMA OneMoreQuestion ==
  ASSUME NEW e \in Seq(Question), NEW f, NEW n \in 1 .. Len(e)
  PROVE  LastUpTo(e, f, n) = IF e[n].status = "answered" /\ e[n].field = f
                             THEN e[n].value ELSE LastUpTo(e, f, n - 1)
<1>1. Len(e) \in Nat /\ DOMAIN e = 1 .. Len(e)
  BY LenProperties
<1>2. n \in Nat /\ AnswersUpTo(e, f, n) \in SUBSET (1 .. n)
  BY <1>1 DEF AnswersUpTo, AnswersTo
<1>3. CASE e[n].status = "answered" /\ e[n].field = f
  <2>1. n \in AnswersUpTo(e, f, n) /\ \A i \in AnswersUpTo(e, f, n) : n >= i
    BY <1>1, <1>2, <1>3 DEF AnswersUpTo, AnswersTo
  <2>2. Max(AnswersUpTo(e, f, n)) = n
    BY <1>2, <2>1, LastIs
  <2> QED
    BY <1>3, <2>1, <2>2 DEF LastUpTo
<1>4. CASE ~(e[n].status = "answered" /\ e[n].field = f)
  <2>1. AnswersUpTo(e, f, n) = AnswersUpTo(e, f, n - 1)
    BY <1>1, <1>4 DEF AnswersUpTo, AnswersTo
  <2> QED
    BY <1>4, <2>1 DEF LastUpTo
<1> QED
  BY <1>3, <1>4

LEMMA AnsweredQuestions ==
  ASSUME NEW entries \in Seq(Question)
  PROVE  /\ Answered(entries)[Len(entries)] \in Seq({q \in Question : q.status = "answered"})
         /\ \A f \in Fields : LastAnswer(Answered(entries)[Len(entries)], f) = LastAnswer(entries, f)
<1> DEFINE N == Len(entries)
           A == {q \in Question : q.status = "answered"}
           V == Seq(A)
           none == << >>
           Body(h, n) == IF n = 0 THEN <<>>
                         ELSE IF entries[n].status = "answered" THEN Append(h[n - 1], entries[n])
                         ELSE h[n - 1]
           step == [x \in (1 .. N) \X V |-> IF entries[x[1]].status = "answered"
                                            THEN Append(x[2], entries[x[1]]) ELSE x[2]]
<1>1. N \in Nat /\ \A n \in 1 .. N : entries[n] \in Question
  BY LenProperties, ElementOfSeq
<1>2. none \in V
  OBVIOUS
<1>3. ASSUME NEW n \in 1 .. N, NEW v \in V, entries[n].status = "answered"
      PROVE  Append(v, entries[n]) \in V
  <2>1. entries[n] \in A
    BY <1>1, <1>3
  <2> HIDE DEF A
  <2> QED
    BY <2>1, AppendProperties
<1>4. step \in [(1 .. N) \X V -> V]
  <2> HIDE DEF V
  <2> QED
    BY <1>3
<1>5. PICK g \in [0 .. N -> V] : CountedFrom(g, N, none, step)
  <2> HIDE DEF N, V, step, none
  <2> QED
    BY <1>1, <1>2, <1>4, CountedRecursion
<1>6. ASSUME NEW n \in 0 .. N
      PROVE  g[n] = Body(g, n)
  <2>1. CASE n = 0
    BY <1>5, <2>1 DEF CountedFrom
  <2>2. CASE n # 0
    <3>1. n \in 1 .. N /\ n - 1 \in 0 .. N
      BY <1>1, <2>2
    <3>2. << n, g[n - 1] >> \in (1 .. N) \X V /\ g[n] = step[<< n, g[n - 1] >>]
      BY <1>5, <2>2, <3>1 DEF CountedFrom
    <3> HIDE DEF V, N
    <3> QED
      BY <2>2, <3>2
  <2> QED
    BY <2>1, <2>2
<1>7. g = [n \in 0 .. N |-> Body(g, n)]
  <2> HIDE DEF Body, V, N
  <2> QED
    BY <1>6
<1> DEFINE kept == Answered(entries)
<1>8. kept = [n \in 0 .. N |-> Body(kept, n)]
  <2> HIDE DEF V
  <2> QED
    BY <1>7 DEF Answered
<1> HIDE DEF kept
<1> DEFINE P == {n \in Nat : n <= N =>
                   kept[n] \in V /\ \A f \in Fields : LastAnswer(kept[n], f) = LastUpTo(entries, f, n)}
<1>9. 0 \in P
  <2>1. 0 \in 0 .. N
    BY <1>1
  <2>2. kept[0] = <<>>
    BY <1>8, <2>1
  <2>3. \A f \in Fields : AnswersTo(<<>>, f) = {} /\ AnswersUpTo(entries, f, 0) = {}
    BY <1>1 DEF AnswersTo, AnswersUpTo
  <2>4. \A f \in Fields : LastAnswer(<<>>, f) = LastUpTo(entries, f, 0)
    BY <2>3 DEF LastAnswer, LastUpTo
  <2> HIDE DEF V, N
  <2> QED
    BY <1>2, <2>2, <2>4
<1>10. ASSUME NEW m \in Nat, m \in P
       PROVE  m + 1 \in P
  <2> SUFFICES ASSUME m + 1 <= N
               PROVE  /\ kept[m + 1] \in V
                      /\ \A f \in Fields : LastAnswer(kept[m + 1], f) = LastUpTo(entries, f, m + 1)
    BY DEF P
  <2> DEFINE n == m + 1
  <2>1. n \in 1 .. N /\ n \in 0 .. N /\ n # 0 /\ n - 1 = m
    BY <1>1
  <2>2. /\ kept[m] \in V
        /\ \A f \in Fields : LastAnswer(kept[m], f) = LastUpTo(entries, f, m)
    BY <1>1, <1>10
  <2>3. kept[n] = IF entries[n].status = "answered" THEN Append(kept[m], entries[n]) ELSE kept[m]
    <3>1. kept[n] = Body(kept, n)
      <4> HIDE DEF Body, N, n
      <4> QED
        BY <1>8, <2>1
    <3> HIDE DEF n
    <3> QED
      BY <2>1, <3>1
  <2> HIDE DEF n, N
  <2>4. entries[n] \in Question
    BY <1>1, <2>1
  <2>5. kept[n] \in V
    <3> HIDE DEF V
    <3> QED
      BY <1>3, <2>1, <2>2, <2>3
  <2>6. ASSUME NEW f \in Fields
        PROVE  LastAnswer(kept[n], f) = LastUpTo(entries, f, n)
    <3>1. LastUpTo(entries, f, n) = IF entries[n].status = "answered" /\ entries[n].field = f
                                    THEN entries[n].value ELSE LastUpTo(entries, f, m)
      BY <2>1, OneMoreQuestion DEF N
    <3>2. kept[m] \in Seq(Question)
      <4>1. V \subseteq Seq(Question)
        BY SeqMonotone
      <4> QED
        BY <2>2, <4>1
    <3>3. entries[n].status = "answered" =>
            LastAnswer(kept[n], f) = IF entries[n].field = f THEN entries[n].value
                                     ELSE LastAnswer(kept[m], f)
      BY <2>3, <2>4, <3>2, OneMoreAnswer
    <3> HIDE DEF V
    <3> QED
      BY <2>2, <2>3, <3>1, <3>3
  <2> QED
    BY <2>5, <2>6 DEF n
<1>11. /\ kept[N] \in V
       /\ \A f \in Fields : LastAnswer(kept[N], f) = LastUpTo(entries, f, N)
  <2> HIDE DEF P
  <2>1. N \in P
    BY <1>1, <1>9, <1>10, NumberInduction
  <2> HIDE DEF V, N
  <2> QED
    BY <1>1, <2>1 DEF P
<1>12. \A f \in Fields : LastUpTo(entries, f, N) = LastAnswer(entries, f)
  <2>1. DOMAIN entries = 1 .. N
    BY LenProperties
  <2>2. \A f \in Fields : AnswersUpTo(entries, f, N) = AnswersTo(entries, f)
    BY <1>1, <2>1 DEF AnswersUpTo, AnswersTo
  <2> QED
    BY <2>2 DEF LastUpTo, LastAnswer
<1> QED
  BY <1>11, <1>12 DEF kept

LEMMA ReplanKeeps ==
  ASSUME NEW p \in Plans, p.replans < MaxReplans, NEW o \in Outputs
  PROVE  LET q == Replan(p, o)
         IN  /\ q \in Plans /\ q.replans = p.replans + 1
             /\ Firm(p) \ Reworked(p, q) \subseteq Firm(q)
<1> DEFINE round == p.replans + 1
           A == Answered(p.entries)[Len(p.entries)]
           fresh == Enrich(o, p.populated, round)
           E == fresh.entries
           q == [fresh EXCEPT !.entries = A \o @]
           r == Replan(p, o)
<1>1. /\ p.entries \in Seq(Question) /\ p.populated \in Known /\ p.replans \in Nat
      /\ round \in 0 .. MaxReplans
  BY PlanFields, BoundsNatural
<1>2. /\ fresh \in Plans /\ fresh.filled = o.fill /\ fresh.replans = round
      /\ \A f \in Fields : fresh.populated[f] = IF f \in Details \/ o.fill[f] = "absent"
                                                 THEN p.populated[f] ELSE o.fill[f]
      /\ \A i \in DOMAIN E : E[i].status = "pending" /\ E[i].round = round
  <2> HIDE DEF round
  <2> QED
    BY <1>1, EnrichFacts
<1>3. /\ A \in Seq({x \in Question : x.status = "answered"})
      /\ \A f \in Fields : LastAnswer(A, f) = LastAnswer(p.entries, f)
  BY <1>1, AnsweredQuestions
<1> HIDE DEF A, fresh, round
<1>4. A \in Seq(Question) /\ \A i \in DOMAIN A : A[i].status = "answered"
  <2> DEFINE S == {x \in Question : x.status = "answered"}
  <2>1. A \in Seq(S) /\ Seq(S) \subseteq Seq(Question) /\ \A x \in S : x.status = "answered"
    BY <1>3, SeqMonotone
  <2> HIDE DEF S
  <2>2. \A i \in DOMAIN A : A[i] \in S
    BY <2>1, LenProperties, ElementOfSeq
  <2> QED
    BY <2>1, <2>2
<1>5. /\ E \in Seq(Question) /\ Len(A) \in Nat /\ Len(E) \in Nat
      /\ DOMAIN A = 1 .. Len(A) /\ DOMAIN E = 1 .. Len(E)
  BY <1>2, <1>4, PlanFields, LenProperties
<1>6. /\ A \o E \in Seq(Question) /\ DOMAIN (A \o E) = 1 .. (Len(A) + Len(E))
      /\ \A i \in 1 .. (Len(A) + Len(E)) :
           (A \o E)[i] = IF i <= Len(A) THEN A[i] ELSE E[i - Len(A)]
  <2> HIDE DEF E
  <2>1. /\ A \o E \in Seq(Question) /\ Len(A \o E) = Len(A) + Len(E)
        /\ \A i \in 1 .. (Len(A) + Len(E)) :
             (A \o E)[i] = IF i <= Len(A) THEN A[i] ELSE E[i - Len(A)]
    BY <1>4, <1>5, ConcatProperties
  <2> DEFINE s == A \o E
  <2> HIDE DEF s
  <2>2. s \in Seq(Question) => DOMAIN s = 1 .. Len(s)
    BY LenProperties
  <2> QED
    BY <2>1, <2>2 DEF s
<1>7. /\ q.entries = A \o E /\ q.populated = fresh.populated /\ q.filled = o.fill
      /\ q.replans = round /\ q \in Plans
  <2>1. /\ q.entries = A \o E /\ q.populated = fresh.populated
        /\ q.filled = fresh.filled /\ q.replans = fresh.replans
    BY <1>2 DEF Plans
  <2>2. A \o E \in Seq(Question) => q \in Plans
    BY <1>2 DEF Plans
  <2> QED
    BY <1>2, <1>6, <2>1, <2>2
<1> HIDE DEF q, E
<1>8. \A f : AnswersTo(q.entries, f) = AnswersTo(A, f)
  <2> SUFFICES ASSUME NEW f PROVE AnswersTo(q.entries, f) = AnswersTo(A, f)
    OBVIOUS
  <2>1. \A i \in DOMAIN (A \o E) :
          \/ i \in DOMAIN A /\ (A \o E)[i] = A[i]
          \/ i \notin DOMAIN A /\ (A \o E)[i].status = "pending"
    BY <1>2, <1>5, <1>6
  <2>2. DOMAIN A \subseteq DOMAIN (A \o E)
    BY <1>5, <1>6
  <2> DEFINE s == A \o E
  <2> HIDE DEF s
  <2>3. AnswersTo(s, f) = AnswersTo(A, f)
    BY <2>1, <2>2 DEF AnswersTo, s
  <2> QED
    BY <1>7, <2>3 DEF s
<1>9. \A f \in Fields : LastAnswer(q.entries, f) = LastAnswer(p.entries, f)
  <2> SUFFICES ASSUME NEW f \in Fields
               PROVE  LastAnswer(q.entries, f) = LastAnswer(A, f)
    BY <1>3
  <2>1. CASE AnswersTo(A, f) = {}
    BY <1>8, <2>1 DEF LastAnswer
  <2>2. CASE AnswersTo(A, f) # {}
    <3>1. AnswersTo(A, f) \in SUBSET (1 .. Len(A))
      BY <1>5 DEF AnswersTo
    <3>2. Max(AnswersTo(A, f)) \in 1 .. Len(A)
      BY <1>5, <2>2, <3>1, LastChosen
    <3>3. q.entries[Max(AnswersTo(A, f))] = A[Max(AnswersTo(A, f))]
      BY <1>5, <1>6, <1>7, <3>2
    <3> QED
      BY <1>8, <2>2, <3>3 DEF LastAnswer
  <2> QED
    BY <2>1, <2>2
<1>10. r = EvaluateSkipConditions(q)
  BY DEF Replan, q, A, fresh, round, E
<1> HIDE DEF r
<1>11. Follows(q, r) /\ Alike(q, r)
  BY <1>7, <1>10, SkipFollows DEF Follows
<1>12. r \in Plans /\ r.replans = round
  BY <1>7, <1>11 DEF Alike
<1>13. ASSUME NEW f \in Firm(p) \ Reworked(p, r)
       PROVE  f \in Firm(q)
  <2>1. f \in Fields /\ Reported(p, f) = "valid" /\ f \notin AskedAgain(p)
    BY DEF Firm, Gathered
  <2>2. /\ o.fill[f] = "absent" /\ ~(f \in Details /\ p.filled[f] # "absent")
        /\ \A i \in DOMAIN q.entries : q.entries[i].round = q.replans => q.entries[i].field # f
    <3>1. /\ r.filled[f] = "absent" /\ ~(f \in Details /\ p.filled[f] # "absent")
          /\ \A i \in DOMAIN r.entries : r.entries[i].round = r.replans => r.entries[i].field # f
      BY <2>1 DEF Reworked
    <3> QED
      BY <1>7, <1>11, <3>1 DEF Alike
  <2>3. Reported(q, f) = "valid"
    <3>1. CASE f \in Details
      <4>1. p.filled[f] = "absent" /\ Reported(p, f) = LastAnswer(p.entries, f)
        BY <2>2, <3>1 DEF Reported
      <4>2. Reported(q, f) = LastAnswer(q.entries, f)
        BY <1>7, <2>2, <3>1 DEF Reported
      <4> QED
        BY <1>9, <2>1, <4>1, <4>2
    <3>2. CASE f \notin Details
      <4>1. Reported(p, f) = p.populated[f] /\ Reported(q, f) = q.populated[f]
        BY <3>2 DEF Reported
      <4> QED
        BY <1>2, <1>7, <2>1, <2>2, <3>2, <4>1
    <3> QED
      BY <3>1, <3>2
  <2>4. f \notin AskedAgain(q)
    <3> SUFFICES ASSUME NEW i \in DOMAIN q.entries, q.entries[i].field = f,
                        q.entries[i].status = "pending"
                 PROVE  FALSE
      BY DEF AskedAgain, Pending
    <3>1. CASE i <= Len(A)
      <4>1. i \in DOMAIN A /\ q.entries[i] = A[i]
        BY <1>5, <1>6, <1>7, <3>1
      <4> QED
        BY <1>4, <4>1
    <3>2. CASE ~(i <= Len(A))
      <4>1. i - Len(A) \in DOMAIN E /\ q.entries[i] = E[i - Len(A)]
        BY <1>5, <1>6, <1>7, <3>2
      <4>2. q.entries[i].round = q.replans
        BY <1>2, <1>7, <4>1
      <4> QED
        BY <2>2, <4>2
    <3> QED
      BY <3>1, <3>2
  <2> QED
    BY <2>1, <2>3, <2>4 DEF Firm, Gathered
<1>14. Firm(p) \ Reworked(p, r) \subseteq Firm(r)
  BY <1>11, <1>13 DEF Follows
<1> QED
  BY <1>12, <1>14 DEF r, round

-----------------------------------------------------------------------------
(* The inductive invariants.                                                *)

(* A turn t with record r, over the plan objects h, when the browser waits  *)
(* for request w: a request past its lookup has a plan, and only threads    *)
(* outlive their request.                                                   *)
Sound(r, h, w, t) ==
  /\ r \in TurnStates
  /\ r.attached = TRUE <=> w = t
  /\ r.pc = "idle" => r = Idle
  /\ r.pc # "idle" => r.server \in Servers
  /\ r.pc \notin Threads \cup {"idle"} => r.attached = TRUE
  /\ r.pc \notin {"idle", "planning"} => r.plan \in PlanIds /\ h[r.plan] \in Plans
  /\ r.pc = "asking" => r.question \in DOMAIN h[r.plan].entries
  /\ r.pc \in {"deviated", "replanning"} => h[r.plan].replans < MaxReplans

ClientStates ==
  [waiting : Turns \cup {None}, about : Fields \cup {NoField}, exact : BOOLEAN,
   told : SUBSET Fields, finished : BOOLEAN]

Typed ==
  /\ heap \in [PlanIds -> Plans \cup {NoPlan}]
  /\ cache \in [Servers -> PlanIds \cup {None}]
  /\ \A s \in Servers : cache[s] # None => heap[cache[s]] \in Plans
  /\ s3 \in Plans \cup {NoPlan}
  /\ client \in ClientStates
  /\ turn \in [Turns -> TurnStates]
  /\ \A t \in Turns : Sound(turn[t], heap, client.waiting, t)
  /\ requirements \in SUBSET Fields

(* A reply that is settled tells what is saved, and what is shown exactly   *)
(* is what was saved; nothing else is at work meanwhile.                    *)
Settled ==
  \A t \in Turns : turn[t].pc = "replying" /\ turn[t].settled = TRUE =>
    /\ s3 = heap[turn[t].plan] /\ turn[t].told = Gathered(s3)
    /\ \A u \in Turns \ {t} : turn[u] = Idle

Shown ==
  client.exact = TRUE =>
    /\ client.waiting = None /\ \A t \in Turns : turn[t] = Idle
    /\ s3 \in Plans /\ client.told = Gathered(s3) /\ client.about = CurrentField(s3)
    /\ Blocking \subseteq client.told => requirements = client.told

OneServer == \A s, u \in Servers : s = u

(* On one server, the plan in memory is then the saved one.                 *)
Cached ==
  /\ client.exact = TRUE =>
       \A s \in Servers : cache[s] # None => heap[cache[s]] = s3
  /\ \A t \in Turns : turn[t].pc = "replying" /\ turn[t].settled = TRUE =>
       \A s \in Servers : cache[s] \in {None, turn[t].plan}

(* A message about the question shown finds it, alone with its plan.        *)
Fitting ==
  \A t \in Turns : turn[t].exact = TRUE =>
    /\ turn[t].attached = TRUE /\ \A u \in Turns \ {t} : turn[u] = Idle
    /\ turn[t].pc = "starting" => CurrentField(heap[turn[t].plan]) = turn[t].about
    /\ turn[t].pc = "asking" =>
         heap[turn[t].plan].entries[turn[t].question].field = turn[t].about

(* A plan in memory has kept what a saved one had for good: all of it until *)
(* a re-plan, and what the re-plan did not rework after one.                *)
Keeps(p, q) ==
  /\ p.replans <= q.replans
  /\ q.replans = p.replans => q.filled = p.filled /\ Firm(p) \subseteq Firm(q)
  /\ q.replans = p.replans + 1 => Firm(p) \ Reworked(p, q) \subseteq Firm(q)

(* What is saved for good is in memory, and in what a turn will save.       *)
SavedIn(p, q) == p # NoPlan => Keeps(p, q)

Holds(r, h, p) ==
  r.attached = TRUE =>
    /\ r.pc = "planning" => p = NoPlan
    /\ r.pc \notin {"idle", "planning"} => SavedIn(p, h[r.plan])

Held ==
  /\ \A s \in Servers : cache[s] # None => SavedIn(s3, heap[cache[s]])
  /\ \A t \in Turns : Holds(turn[t], heap, s3)

-----------------------------------------------------------------------------
(* Plan objects, over one step.                                             *)

(* The objects of I go on as they were, or as what became of them.          *)
Onward(h, h2, I) ==
  /\ h2 \in [PlanIds -> Plans \cup {NoPlan}]
  /\ \A i \in I \cap PlanIds : h[i] \in Plans => Follows(h[i], h2[i])

LEMMA InUse ==
  ASSUME NEW c, NEW tn
  PROVE  /\ \A s \in Servers : c[s] \in Referenced(c, tn)
         /\ \A t \in Turns : tn[t].plan \in Referenced(c, tn)
  BY DEF Referenced

LEMMA Swept ==
  ASSUME NEW h, NEW h1, NEW I, Onward(h, h1, I), NEW c, NEW tn
  PROVE  /\ Onward(h, Sweep(h1, c, tn), I \cap Referenced(c, tn))
         /\ \A i \in Referenced(c, tn) \cap PlanIds : Sweep(h1, c, tn)[i] = h1[i]
<1> DEFINE R == Referenced(c, tn)
<1> HIDE DEF R
<1>1. Sweep(h1, c, tn) = [i \in PlanIds |-> IF i \in R THEN h1[i] ELSE NoPlan]
  BY DEF Sweep, R
<1>2. /\ h1 \in [PlanIds -> Plans \cup {NoPlan}]
      /\ \A i \in I \cap PlanIds : h[i] \in Plans => Follows(h[i], h1[i])
  BY DEF Onward
<1>3. \A i \in R \cap PlanIds : Sweep(h1, c, tn)[i] = h1[i]
  BY <1>1
<1>4. Sweep(h1, c, tn) \in [PlanIds -> Plans \cup {NoPlan}]
  BY <1>1, <1>2
<1>5. Onward(h, Sweep(h1, c, tn), I \cap R)
  BY <1>2, <1>3, <1>4 DEF Onward
<1> QED
  BY <1>3, <1>5 DEF R

LEMMA OnwardAlike ==
  ASSUME NEW h \in [PlanIds -> Plans \cup {NoPlan}], NEW I
  PROVE  Onward(h, h, I)
  BY FollowsItself DEF Onward

LEMMA OnwardAt ==
  ASSUME NEW h \in [PlanIds -> Plans \cup {NoPlan}], NEW I, NEW i \in PlanIds,
         NEW q \in Plans, i \in I => Follows(h[i], q)
  PROVE  Onward(h, [h EXCEPT ![i] = q], I)
<1>1. [h EXCEPT ![i] = q] \in [PlanIds -> Plans \cup {NoPlan}]
  OBVIOUS
<1>2. \A j \in PlanIds : [h EXCEPT ![i] = q][j] = IF j = i THEN q ELSE h[j]
  OBVIOUS
<1> QED
  BY <1>1, <1>2, FollowsItself DEF Onward

LEMMA FreshIsFree ==
  ASSUME HasFresh
  PROVE  Fresh \in PlanIds /\ Fresh \notin Referenced(cache, turn)
  BY DEF HasFresh, Fresh

LEMMA Conversions ==
  ASSUME NEW b \in BOOLEAN
  PROVE  b <=> b = TRUE
  BY Zenon

(* A thread whose coroutine goes on.                                        *)
Went(pc, s, i) == [Idle EXCEPT !.pc = pc, !.server = s, !.plan = i, !.attached = TRUE]

LEMMA WentFields ==
  ASSUME NEW pc, NEW s, NEW i, NEW r, r = Went(pc, s, i)
  PROVE  r.pc = pc /\ r.server = s /\ r.plan = i
  BY DEF Went, Idle

LEMMA WentFlags ==
  ASSUME NEW pc, NEW s, NEW i, NEW r, r = Went(pc, s, i)
  PROVE  r.attached = TRUE /\ r.exact = FALSE /\ r.settled = FALSE
  BY DEF Went, Idle

LEMMA EndsFacts ==
  ASSUME Typed, NEW t \in Turns, NEW pc, NEW i
  PROVE  Ends(t, pc, i) =
           [turn EXCEPT ![t] = IF turn[t].attached = TRUE THEN Went(pc, turn[t].server, i) ELSE Idle]
<1>1. turn \in [Turns -> TurnStates] /\ turn[t].attached \in BOOLEAN
  BY DEF Typed, TurnStates
<1>2. CASE turn[t].attached = TRUE
  <2>1. turn[t].attached
    BY <1>2, Zenon
  <2> QED
    BY <1>2, <2>1 DEF Ends, Went
<1>3. CASE turn[t].attached # TRUE
  <2>1. ~turn[t].attached
    BY <1>1, <1>3, Zenon
  <2> QED
    BY <1>3, <2>1 DEF Ends, Went
<1> QED
  BY <1>2, <1>3

LEMMA OtherSound ==
  ASSUME NEW u \in Turns,
         NEW r, NEW h, NEW h2, NEW w, NEW w2, Sound(r, h, w, u), w2 = u <=> w = u,
         r.pc \notin {"idle", "planning"} => Follows(h[r.plan], h2[r.plan])
  PROVE  Sound(r, h2, w2, u)
<1>1. r.pc \notin {"idle", "planning"} =>
        /\ h2[r.plan] \in Plans /\ h2[r.plan].replans = h[r.plan].replans
        /\ DOMAIN h2[r.plan].entries = DOMAIN h[r.plan].entries
  BY DEF Follows, Alike
<1> QED
  BY <1>1 DEF Sound, Threads

LEMMA IdleSound ==
  ASSUME NEW t \in Turns, NEW h, NEW w, w # t
  PROVE  Sound(Idle, h, w, t)
  BY DEF Sound, Idle, TurnStates, Places, Threads

LEMMA OrphanSound ==
  ASSUME NEW t \in Turns, NEW h, NEW w, NEW w2, NEW r, Sound(r, h, w, t), w2 # t,
         r.pc \in Threads
  PROVE  Sound(Orphan(r), h, w2, t)
  BY DEF Sound, Orphan, TurnStates, Places, Threads

LEMMA WentSound ==
  ASSUME NEW t \in Turns, NEW h, NEW pc \in {"planned", "executed", "deviated"},
         NEW s \in Servers, NEW i \in PlanIds, h[i] \in Plans,
         pc = "deviated" => h[i].replans < MaxReplans
  PROVE  Sound(Went(pc, s, i), h, t, t)
  BY DEF Sound, Went, Idle, TurnStates, Places, Threads

-----------------------------------------------------------------------------
(* The types.                                                               *)

Kept(c, tn, c2, tn2) == Referenced(c, tn) \cap Referenced(c2, tn2)

(* A step that leaves the turns alone or makes sound ones of them.          *)
LEMMA StepTyped ==
  ASSUME Typed, turn' = [u \in Turns |-> turn'[u]],
         Onward(heap, heap', Kept(cache, turn, cache', turn')),
         \A u \in Turns :
           \/ turn'[u] = turn[u] /\ (client'.waiting = u <=> client.waiting = u)
           \/ Sound(turn'[u], heap', client'.waiting, u),
         client' \in ClientStates, cache' \in [Servers -> PlanIds \cup {None}],
         \A s \in Servers : cache'[s] \in {None, cache[s]} \/ heap'[cache'[s]] \in Plans,
         s3' \in Plans \cup {NoPlan}, requirements' \in SUBSET Fields
  PROVE  Typed'
<1>1. /\ turn \in [Turns -> TurnStates]
      /\ \A u \in Turns : Sound(turn[u], heap, client.waiting, u)
      /\ cache \in [Servers -> PlanIds \cup {None}]
      /\ \A s \in Servers : cache[s] # None => heap[cache[s]] \in Plans
  BY DEF Typed
<1>3. ASSUME NEW i \in PlanIds, i \in Referenced(cache, turn), i \in Referenced(cache', turn'),
             heap[i] \in Plans
      PROVE  Follows(heap[i], heap'[i])
  BY <1>3 DEF Onward, Kept
<1>4. ASSUME NEW u \in Turns
      PROVE  Sound(turn'[u], heap', client'.waiting, u)
  <2>1. CASE Sound(turn'[u], heap', client'.waiting, u)
    BY <2>1
  <2>2. CASE turn'[u] = turn[u] /\ (client'.waiting = u <=> client.waiting = u)
    <3>1. turn'[u] = turn[u] /\ Sound(turn[u], heap, client.waiting, u)
      BY <1>1, <2>2
    <3>2. turn[u].plan \in Referenced(cache, turn) /\ turn[u].plan \in Referenced(cache', turn')
      BY <3>1, InUse
    <3>3. turn[u].pc \notin {"idle", "planning"} => Follows(heap[turn[u].plan], heap'[turn[u].plan])
      BY <1>3, <3>1, <3>2 DEF Sound
    <3>4. Sound(turn[u], heap', client'.waiting, u)
      BY <2>2, <3>1, <3>3, OtherSound
    <3> QED
      BY <3>1, <3>4
  <2> QED
    BY <2>1, <2>2
<1>5. turn' \in [Turns -> TurnStates]
  BY <1>4 DEF Sound
<1>6. ASSUME NEW s \in Servers, cache'[s] # None
      PROVE  heap'[cache'[s]] \in Plans
  <2>1. CASE cache'[s] = cache[s]
    <3>1. cache[s] \in PlanIds /\ heap[cache[s]] \in Plans
      BY <1>1, <1>6, <2>1
    <3>2. cache[s] \in Referenced(cache, turn) /\ cache'[s] \in Referenced(cache', turn')
      BY InUse
    <3>3. Follows(heap[cache[s]], heap'[cache[s]])
      BY <1>3, <2>1, <3>1, <3>2
    <3> QED
      BY <2>1, <3>3 DEF Follows, Alike
  <2> QED
    BY <1>6, <2>1
<1>7. heap' \in [PlanIds -> Plans \cup {NoPlan}]
  BY DEF Onward
<1> QED
  BY <1>4, <1>5, <1>6, <1>7 DEF Typed

LEMMA TurnTyped ==
  ASSUME Typed, NEW t \in Turns, NEW r, turn' = [turn EXCEPT ![t] = r],
         Onward(heap, heap', Kept(cache, turn, cache', turn')),
         Sound(r, heap', client'.waiting, t),
         client' \in {client, Fails(t)}, cache' = cache, s3' \in Plans \cup {NoPlan},
         requirements' \in SUBSET Fields
  PROVE  Typed'
<1>1. turn \in [Turns -> TurnStates] /\ client \in ClientStates
      /\ cache \in [Servers -> PlanIds \cup {None}]
  BY DEF Typed
<1>2. Fails(t) \in ClientStates /\ \A u \in Turns : u # t => (Fails(t).waiting = u <=> client.waiting = u)
  BY <1>1, SlotsFinite DEF ClientStates, Fails, ShowError
<1>3. /\ client' \in ClientStates
      /\ \A u \in Turns : u # t => (client'.waiting = u <=> client.waiting = u)
  BY <1>1, <1>2
<1>4. turn' = [u \in Turns |-> turn'[u]] /\ \A u \in Turns : turn'[u] = IF u = t THEN r ELSE turn[u]
  BY <1>1
<1> QED
  BY <1>1, <1>3, <1>4, StepTyped

(* A turn in progress.                                                      *)
LEMMA InProgress ==
  ASSUME Typed, NEW t \in Turns, turn[t].pc # "idle"
  PROVE  /\ turn[t].server \in Servers
         /\ turn[t].pc # "planning" => turn[t].plan \in PlanIds /\ heap[turn[t].plan] \in Plans
         /\ turn[t].plan \in Referenced(cache, turn)
         /\ turn[t].attached \in BOOLEAN /\ (turn[t].attached = TRUE <=> client.waiting = t)
         /\ turn[t].pc \notin Threads => turn[t].attached = TRUE
<1>1. Sound(turn[t], heap, client.waiting, t)
  BY DEF Typed
<1> QED
  BY <1>1, InUse DEF Sound, TurnStates

(* The heap after a step that swept it.                                     *)
LEMMA SweptHeap ==
  ASSUME NEW h1, Onward(heap, h1, Referenced(cache, turn)), heap' = Sweep(h1, cache', turn')
  PROVE  /\ Onward(heap, heap', Kept(cache, turn, cache', turn'))
         /\ \A i \in Referenced(cache', turn') \cap PlanIds : heap'[i] = h1[i]
<1> DEFINE I == Referenced(cache, turn)
           C == cache'
           T == turn'
<1>0. Onward(heap, h1, I)
  BY DEF I
<1> HIDE DEF I, C, T
<1>1. Onward(heap, Sweep(h1, C, T), I \cap Referenced(C, T))
  BY <1>0, Swept
<1>2. \A i \in Referenced(C, T) \cap PlanIds : Sweep(h1, C, T)[i] = h1[i]
  BY DEF Sweep
<1> QED
  BY <1>1, <1>2 DEF I, C, T, Kept

LEMMA SameHeap ==
  ASSUME Typed, heap' = heap
  PROVE  Onward(heap, heap', Kept(cache, turn, cache', turn'))
  BY OnwardAlike DEF Typed

LEMMA SendTyped ==
  ASSUME Typed, NEW t \in Turns, NEW s \in Servers, Send(t, s)
  PROVE  Typed' /\ Onward(heap, heap', Kept(cache, turn, cache', turn'))
<1>1. PICK found \in PlanIds \cup {None} :
        /\ GetPlan(s, found)
        /\ turn' = [turn EXCEPT ![t] =
             [Idle EXCEPT !.pc = IF found = None THEN "planning" ELSE "starting",
                          !.server = s, !.plan = found, !.about = client.about,
                          !.exact = client.exact, !.attached = TRUE]]
  BY DEF Send
<1>2. /\ client.waiting = None /\ client' = [client EXCEPT !.waiting = t, !.exact = FALSE, !.told = {}]
      /\ UNCHANGED <<s3, requirements>>
  BY DEF Send
<1>3. /\ heap \in [PlanIds -> Plans \cup {NoPlan}] /\ cache \in [Servers -> PlanIds \cup {None}]
      /\ cache[s] # None => heap[cache[s]] \in Plans
      /\ s3 \in Plans \cup {NoPlan} /\ client \in ClientStates
      /\ turn \in [Turns -> TurnStates] /\ requirements \in SUBSET Fields
  BY DEF Typed
<1> DEFINE r == [Idle EXCEPT !.pc = IF found = None THEN "planning" ELSE "starting",
                             !.server = s, !.plan = found, !.about = client.about,
                             !.exact = client.exact, !.attached = TRUE]
<1>4. /\ Onward(heap, heap', Referenced(cache, turn))
      /\ cache' \in [Servers -> PlanIds \cup {None}]
      /\ \A u \in Servers : cache'[u] \in {None, cache[u]} \/ heap'[cache'[u]] \in Plans
      /\ found # None => found \in PlanIds /\ heap'[found] \in Plans
  <2>1. CASE heap' = heap /\ cache' = cache /\ (found # None => found = cache[s])
    BY <1>3, <2>1, OnwardAlike
  <2>2. CASE /\ s3 # NoPlan /\ HasFresh /\ found = Fresh
             /\ heap' = [heap EXCEPT ![found] = s3]
             /\ cache' = [cache EXCEPT ![s] = found]
    <3>1. found \in PlanIds /\ found \notin Referenced(cache, turn) /\ s3 \in Plans
      BY <1>3, <2>2, FreshIsFree
    <3>2. Onward(heap, heap', Referenced(cache, turn))
      BY <1>3, <2>2, <3>1, OnwardAt
    <3> QED
      BY <1>3, <2>2, <3>1, <3>2
  <2> QED
    BY <1>1, <2>1, <2>2 DEF GetPlan
<1>5. Onward(heap, heap', Kept(cache, turn, cache', turn'))
  BY <1>4 DEF Onward, Kept
<1>6. Sound(r, heap', t, t)
  BY <1>3, <1>4 DEF Sound, Idle, TurnStates, ClientStates, Places, Threads
<1>7. client' \in ClientStates /\ client'.waiting = t
  BY <1>2, <1>3 DEF ClientStates
<1>8. \A u \in Turns : u # t => client'.waiting # u /\ client.waiting # u
  BY <1>2, <1>7, SlotsFinite
<1> HIDE DEF r
<1>9. turn' = [u \in Turns |-> turn'[u]] /\ \A u \in Turns : turn'[u] = IF u = t THEN r ELSE turn[u]
  BY <1>1, <1>3 DEF r
<1>10. Typed'
  BY <1>2, <1>3, <1>4, <1>5, <1>6, <1>7, <1>8, <1>9, StepTyped
<1> QED
  BY <1>5, <1>10

(* The turn that ends as a thread, with its request or without.             *)
LEMMA EndsTyped ==
  ASSUME Typed, NEW t \in Turns, turn[t].pc # "idle",
         NEW pc \in {"planned", "executed", "deviated"}, NEW k \in PlanIds,
         turn' = Ends(t, pc, k), NEW h1, Onward(heap, h1, Referenced(cache, turn)),
         heap' = Sweep(h1, cache, turn'), h1[k] \in Plans,
         pc = "deviated" => h1[k].replans < MaxReplans,
         UNCHANGED <<cache, s3, client, requirements>>
  PROVE  Typed' /\ Onward(heap, heap', Kept(cache, turn, cache', turn'))
<1> DEFINE r == IF turn[t].attached = TRUE THEN Went(pc, turn[t].server, k) ELSE Idle
<1>1. turn' = [turn EXCEPT ![t] = r] /\ turn'[t] = r
  <2>1. turn' = [turn EXCEPT ![t] = r]
    BY EndsFacts
  <2>2. turn \in [Turns -> TurnStates]
    BY DEF Typed
  <2> HIDE DEF r
  <2> QED
    BY <2>1, <2>2
<1>2. /\ Onward(heap, heap', Kept(cache, turn, cache', turn'))
      /\ \A j \in Referenced(cache', turn') \cap PlanIds : heap'[j] = h1[j]
  BY SweptHeap
<1>3. Sound(r, heap', client'.waiting, t)
  <2>1. CASE turn[t].attached = TRUE
    <3>1. client.waiting = t /\ turn[t].server \in Servers
      BY <2>1, InProgress
    <3>2. turn'[t].plan = k
      <4>1. turn'[t] = Went(pc, turn[t].server, k)
        BY <1>1, <2>1
      <4> QED
        BY <4>1, WentFields
    <3>3. k \in Referenced(cache', turn')
      BY <3>2, InUse
    <3>4. heap'[k] = h1[k]
      BY <1>2, <3>3
    <3> QED
      BY <2>1, <3>1, <3>4, WentSound
  <2>2. CASE turn[t].attached # TRUE
    <3>1. client'.waiting # t
      BY <2>2, InProgress
    <3> QED
      BY <2>2, <3>1, IdleSound
  <2> QED
    BY <2>1, <2>2
<1>4. s3' \in Plans \cup {NoPlan} /\ requirements' \in SUBSET Fields
  BY DEF Typed
<1> HIDE DEF r
<1>5. Typed'
  BY <1>1, <1>2, <1>3, <1>4, TurnTyped
<1> QED
  BY <1>2, <1>5

LEMMA PlanGeneratedTyped ==
  ASSUME Typed, NEW t \in Turns, PlanGenerated(t)
  PROVE  Typed' /\ Onward(heap, heap', Kept(cache, turn, cache', turn'))
<1>1. PICK p \in GeneratedPlans :
        /\ turn' = Ends(t, "planned", Fresh)
        /\ heap' = Sweep([heap EXCEPT ![Fresh] = p], cache, turn')
  BY DEF PlanGenerated
<1>2. turn[t].pc = "planning" /\ HasFresh /\ UNCHANGED <<cache, s3, client, requirements>>
  BY DEF PlanGenerated
<1>3. Fresh \in PlanIds /\ Fresh \notin Referenced(cache, turn) /\ p \in Plans
  BY <1>2, FreshIsFree, GeneratedArePlans
<1>4. heap \in [PlanIds -> Plans \cup {NoPlan}]
  BY DEF Typed
<1>5. Onward(heap, [heap EXCEPT ![Fresh] = p], Referenced(cache, turn))
  BY <1>3, <1>4, OnwardAt
<1>6. [heap EXCEPT ![Fresh] = p][Fresh] \in Plans
  BY <1>3, <1>4
<1> QED
  BY <1>1, <1>2, <1>3, <1>5, <1>6, EndsTyped

LEMMA CurrentQuestionFacts ==
  ASSUME NEW p \in Plans, CurrentQuestion(p) # 0
  PROVE  CurrentQuestion(p) \in Pending(p) /\ CurrentQuestion(p) \in DOMAIN p.entries
<1>1. Len(p.entries) \in Nat /\ DOMAIN p.entries = 1 .. Len(p.entries)
  BY PlanFields
<1>2. Pending(p) \in SUBSET (1 .. Len(p.entries))
  BY <1>1 DEF Pending
<1>3. IF Pending(p) = {} THEN First(Pending(p)) = 0
      ELSE First(Pending(p)) \in Pending(p) /\ First(Pending(p)) # 0
  BY <1>1, <1>2, FirstFacts
<1> QED
  BY <1>1, <1>2, <1>3 DEF CurrentQuestion

LEMMA CurrentFieldKnown ==
  ASSUME NEW p \in Plans
  PROVE  CurrentField(p) \in Fields \cup {NoField}
<1>1. CASE Pending(p) # {}
  <2>1. Len(p.entries) \in Nat /\ DOMAIN p.entries = 1 .. Len(p.entries)
    BY PlanFields
  <2>2. First(Pending(p)) \in Pending(p)
    <3>1. Pending(p) \in SUBSET (1 .. Len(p.entries))
      BY <2>1 DEF Pending
    <3> QED
      BY <1>1, <2>1, <3>1, FirstFacts
  <2>3. p.entries[First(Pending(p))] \in Question
    BY <2>2, PlanFields DEF Pending
  <2> QED
    BY <1>1, <2>3 DEF CurrentField, CurrentQuestion, Question
<1> QED
  BY <1>1 DEF CurrentField

LEMMA StartTurnTyped ==
  ASSUME Typed, NEW t \in Turns, StartTurn(t)
  PROVE  Typed' /\ Onward(heap, heap', Kept(cache, turn, cache', turn'))
<1> DEFINE q == CurrentQuestion(heap[turn[t].plan])
           r == [turn[t] EXCEPT !.pc = "asking", !.question = q]
<1>1. /\ turn[t].pc = "starting" /\ heap' = Sweep(heap, cache, turn')
      /\ turn' = IF q = 0 THEN Ends(t, "executed", turn[t].plan)
                 ELSE [turn EXCEPT ![t].pc = "asking", ![t].question = q]
      /\ UNCHANGED <<cache, s3, client, requirements>>
  BY DEF StartTurn
<1>2. turn[t].plan \in PlanIds /\ heap[turn[t].plan] \in Plans
  BY <1>1, InProgress
<1>3. Onward(heap, heap, Referenced(cache, turn))
  BY OnwardAlike DEF Typed
<1>4. CASE q = 0
  <2>1. turn' = Ends(t, "executed", turn[t].plan) /\ turn[t].pc # "idle"
    BY <1>1, <1>4
  <2> HIDE DEF q
  <2> QED
    BY <1>1, <1>2, <1>3, <2>1, EndsTyped
<1>5. CASE q # 0
  <2>1. turn \in [Turns -> TurnStates] /\ Sound(turn[t], heap, client.waiting, t)
    BY DEF Typed
  <2>2. q \in DOMAIN heap[turn[t].plan].entries /\ q \in Nat
    <3>1. q \in DOMAIN heap[turn[t].plan].entries
      BY <1>2, <1>5, CurrentQuestionFacts
    <3> QED
      BY <1>2, <3>1, PlanFields
  <2>3. turn' = [turn EXCEPT ![t] = r] /\ r.plan = turn[t].plan
    BY <1>1, <1>5, <2>1 DEF TurnStates
  <2>4. turn'[t].plan = turn[t].plan
    BY <2>1, <2>3
  <2>5. /\ Onward(heap, heap', Kept(cache, turn, cache', turn'))
        /\ \A j \in Referenced(cache', turn') \cap PlanIds : heap'[j] = heap[j]
    BY <1>1, <1>3, SweptHeap
  <2>6. heap'[turn[t].plan] = heap[turn[t].plan]
    BY <1>2, <2>4, <2>5, InUse
  <2> HIDE DEF q
  <2>7. Sound(r, heap', client'.waiting, t)
    BY <1>1, <2>1, <2>2, <2>6 DEF Sound, TurnStates, Places, Threads
  <2> HIDE DEF r
  <2>8. s3' \in Plans \cup {NoPlan} /\ requirements' \in SUBSET Fields
    BY <1>1 DEF Typed
  <2> QED
    BY <1>1, <2>3, <2>5, <2>7, <2>8, TurnTyped
<1> QED
  BY <1>4, <1>5

LEMMA RecordReplyTyped ==
  ASSUME Typed, NEW t \in Turns, RecordReply(t)
  PROVE  Typed' /\ Onward(heap, heap', Kept(cache, turn, cache', turn'))
<1> DEFINE i == turn[t].plan
           p == heap[i]
<1>1. PICK r \in Readings(p, turn[t].question) :
        /\ \/ turn' = Ends(t, "executed", i)
           \/ /\ r.deviates /\ p.replans < MaxReplans
              /\ turn' = Ends(t, "deviated", i)
        /\ heap' = Sweep([heap EXCEPT ![i] = ExecuteTurn(p, turn[t].question, r)], cache, turn')
  BY DEF RecordReply
<1>2. turn[t].pc = "asking" /\ UNCHANGED <<cache, s3, client, requirements>>
  BY DEF RecordReply
<1>3. heap \in [PlanIds -> Plans \cup {NoPlan}] /\ Sound(turn[t], heap, client.waiting, t)
  BY DEF Typed
<1>4. i \in PlanIds /\ p \in Plans /\ turn[t].question \in DOMAIN p.entries
  BY <1>2, <1>3 DEF Sound
<1> DEFINE q == ExecuteTurn(p, turn[t].question, r)
           h1 == [heap EXCEPT ![i] = q]
<1>5. Follows(p, q)
  <2> HIDE DEF p
  <2> QED
    BY <1>4, TurnFollows
<1> HIDE DEF q
<1>6. q \in Plans /\ q.replans = p.replans
  BY <1>5 DEF Follows, Alike
<1>7. Onward(heap, h1, Referenced(cache, turn))
  BY <1>3, <1>4, <1>5, <1>6, OnwardAt
<1>8. h1[i] = q
  BY <1>3, <1>4
<1>9. PICK pc \in {"executed", "deviated"} :
        turn' = Ends(t, pc, i) /\ (pc = "deviated" => p.replans < MaxReplans)
  BY <1>1
<1>10. heap' = Sweep(h1, cache, turn') /\ turn[t].pc # "idle"
  BY <1>1, <1>2 DEF q
<1> HIDE DEF h1, p, i
<1> QED
  BY <1>2, <1>4, <1>6, <1>7, <1>8, <1>9, <1>10, EndsTyped

LEMMA ReplannedTyped ==
  ASSUME Typed, NEW t \in Turns, Replanned(t)
  PROVE  Typed' /\ Onward(heap, heap', Kept(cache, turn, cache', turn'))
<1> DEFINE i == turn[t].plan
           p == heap[i]
<1>1. turn[t].pc = "replanning" /\ HasFresh /\ UNCHANGED <<cache, s3, client, requirements>>
  BY DEF Replanned
<1>2. heap \in [PlanIds -> Plans \cup {NoPlan}] /\ Sound(turn[t], heap, client.waiting, t)
  BY DEF Typed
<1>3. /\ i \in PlanIds /\ p \in Plans /\ p.replans < MaxReplans
      /\ turn[t].pc # "idle"
  BY <1>1, <1>2 DEF Sound, TurnStates
<1>4. CASE turn' = Ends(t, "planned", i) /\ heap' = Sweep(heap, cache, turn')
  <2>1. Onward(heap, heap, Referenced(cache, turn))
    BY <1>2, OnwardAlike
  <2> HIDE DEF i
  <2> QED
    BY <1>1, <1>3, <1>4, <2>1, EndsTyped
<1>5. CASE \E o \in Outputs :
             /\ turn' = Ends(t, "planned", Fresh)
             /\ heap' = Sweep([heap EXCEPT ![Fresh] = Replan(p, o)], cache, turn')
  <2>1. PICK o \in Outputs :
          /\ turn' = Ends(t, "planned", Fresh)
          /\ heap' = Sweep([heap EXCEPT ![Fresh] = Replan(p, o)], cache, turn')
    BY <1>5
  <2>2. Fresh \in PlanIds /\ Fresh \notin Referenced(cache, turn)
    BY <1>1, FreshIsFree
  <2>3. Replan(p, o) \in Plans
    <3> HIDE DEF p
    <3> QED
      BY <1>3, ReplanKeeps
  <2>4. Onward(heap, [heap EXCEPT ![Fresh] = Replan(p, o)], Referenced(cache, turn))
    BY <1>2, <2>2, <2>3, OnwardAt
  <2>5. [heap EXCEPT ![Fresh] = Replan(p, o)][Fresh] \in Plans
    BY <1>2, <2>2, <2>3
  <2> QED
    BY <1>1, <1>3, <2>1, <2>2, <2>4, <2>5, EndsTyped
<1> QED
  BY <1>4, <1>5 DEF Replanned

LEMMA ModelFailsTyped ==
  ASSUME Typed, NEW t \in Turns, ModelFails(t)
  PROVE  Typed' /\ Onward(heap, heap', Kept(cache, turn, cache', turn'))
<1>1. /\ turn' = [turn EXCEPT ![t] = Idle] /\ client' = Fails(t)
      /\ heap' = Sweep(heap, cache, turn') /\ UNCHANGED <<cache, s3, requirements>>
  BY DEF ModelFails
<1>2. Onward(heap, heap, Referenced(cache, turn)) /\ client \in ClientStates
  BY OnwardAlike DEF Typed
<1>3. Onward(heap, heap', Kept(cache, turn, cache', turn'))
  BY <1>1, <1>2, SweptHeap
<1>4. client'.waiting # t
  BY <1>1, <1>2, SlotsFinite DEF Fails, ShowError, ClientStates
<1>5. Sound(Idle, heap', client'.waiting, t)
  BY <1>4, IdleSound
<1>6. s3' \in Plans \cup {NoPlan} /\ requirements' \in SUBSET Fields
  BY <1>1 DEF Typed
<1>7. Typed'
  BY <1>1, <1>3, <1>5, <1>6, TurnTyped
<1> QED
  BY <1>3, <1>7

LEMMA TimeoutTyped ==
  ASSUME Typed, NEW t \in Turns, Timeout(t)
  PROVE  Typed' /\ Onward(heap, heap', Kept(cache, turn, cache', turn'))
<1>1. /\ turn' = [turn EXCEPT ![t] = Orphan(@)] /\ client' = Fails(t)
      /\ turn[t].pc \in Threads /\ UNCHANGED <<heap, cache, s3, requirements>>
  BY DEF Timeout, session
<1>2. /\ client \in ClientStates /\ turn \in [Turns -> TurnStates]
      /\ Sound(turn[t], heap, client.waiting, t)
  BY DEF Typed
<1>3. Onward(heap, heap', Kept(cache, turn, cache', turn'))
  BY <1>1, SameHeap
<1>4. client'.waiting # t
  BY <1>1, <1>2, SlotsFinite DEF Fails, ShowError, ClientStates
<1>5. Sound(Orphan(turn[t]), heap', client'.waiting, t)
  BY <1>1, <1>2, <1>4, OrphanSound
<1>6. turn' = [turn EXCEPT ![t] = Orphan(turn[t])]
  BY <1>1, <1>2
<1>7. s3' \in Plans \cup {NoPlan} /\ requirements' \in SUBSET Fields
  BY <1>1 DEF Typed
<1>8. Typed'
  BY <1>1, <1>3, <1>5, <1>6, <1>7, TurnTyped
<1> QED
  BY <1>3, <1>8

LEMMA StartReplanTyped ==
  ASSUME Typed, NEW t \in Turns, StartReplan(t)
  PROVE  Typed' /\ Onward(heap, heap', Kept(cache, turn, cache', turn'))
<1> DEFINE r == [turn[t] EXCEPT !.pc = "replanning"]
<1>1. /\ turn[t].pc = "deviated"
      /\ turn' = [turn EXCEPT ![t].pc = "replanning"]
      /\ UNCHANGED <<heap, cache, s3, client, requirements>>
  BY DEF StartReplan
<1>2. turn \in [Turns -> TurnStates] /\ Sound(turn[t], heap, client.waiting, t)
  BY DEF Typed
<1>3. Onward(heap, heap', Kept(cache, turn, cache', turn'))
  BY <1>1, SameHeap
<1>4. turn' = [turn EXCEPT ![t] = r]
  BY <1>1, <1>2 DEF TurnStates
<1>6. Sound(r, heap', client'.waiting, t)
  BY <1>1, <1>2 DEF Sound, TurnStates, Places, Threads
<1>7. s3' \in Plans \cup {NoPlan} /\ requirements' \in SUBSET Fields
  BY <1>1 DEF Typed
<1> HIDE DEF r
<1>8. Typed'
  BY <1>1, <1>3, <1>4, <1>6, <1>7, TurnTyped
<1> QED
  BY <1>3, <1>8

(* What a save writes, in memory and, unless it fails, in S3.               *)
LEMMA SavePlanFacts ==
  ASSUME Typed, NEW t \in Turns, SavePlan(t)
  PROVE  \E p \in Plans :
           /\ Follows(heap[turn[t].plan], p)
           /\ turn[t].plan \in PlanIds /\ heap'[turn[t].plan] = p
           /\ cache' = [cache EXCEPT ![turn[t].server] = turn[t].plan]
           /\ turn'[t].pc = "replying" /\ turn'[t].plan = turn[t].plan
           /\ turn'[t].told = Gathered(p) /\ turn'[t].exact = turn[t].exact
           /\ turn'[t].attached = turn[t].attached /\ turn[t].attached = TRUE
           /\ turn[t].server \in Servers
           /\ turn' = [turn EXCEPT ![t] = turn'[t]]
           /\ Sound(turn'[t], heap', client.waiting, t)
           /\ Onward(heap, heap', Kept(cache, turn, cache', turn'))
           /\ \/ s3' = s3 /\ turn'[t].settled = FALSE
              \/ s3' = p /\ (turn'[t].settled = TRUE => Alone(t))
<1> DEFINE i == turn[t].plan
           p == RevertInvalid(heap[i])
<1>1. PICK ok \in Writes :
        /\ cache' = [cache EXCEPT ![turn[t].server] = i]
        /\ s3' = IF ok THEN p ELSE s3
        /\ turn' = [turn EXCEPT ![t].pc = "replying", ![t].told = Gathered(p),
                                ![t].settled = ok /\ Alone(t)]
        /\ heap' = Sweep([heap EXCEPT ![i] = p], cache', turn')
  BY DEF SavePlan
<1>2. turn[t].pc \in {"planned", "executed"}
  BY DEF SavePlan
<1>3. /\ heap \in [PlanIds -> Plans \cup {NoPlan}] /\ turn \in [Turns -> TurnStates]
      /\ Sound(turn[t], heap, client.waiting, t)
  BY DEF Typed
<1>4. /\ i \in PlanIds /\ heap[i] \in Plans /\ turn[t].attached = TRUE
      /\ turn[t].server \in Servers
  BY <1>2, <1>3 DEF Sound, Threads
<1>5. Follows(heap[i], p)
  <2> HIDE DEF i
  <2> QED
    BY <1>4, RevertInvalidFollows
<1> HIDE DEF p
<1>6. p \in Plans
  BY <1>5 DEF Follows, Alike
<1> DEFINE b == ok /\ Alone(t)
           r == [turn[t] EXCEPT !.pc = "replying", !.told = Gathered(p), !.settled = b]
<1>7. b \in BOOLEAN
  OBVIOUS
<1>8. \/ s3' = s3 /\ b = FALSE
      \/ s3' = p /\ (b = TRUE => Alone(t))
  <2>1. CASE ok
    <3>1. s3' = p
      BY <1>1, <2>1 DEF p
    <3>2. b = TRUE => Alone(t)
      BY Zenon
    <3> QED
      BY <3>1, <3>2
  <2>2. CASE ~ok
    <3>1. s3' = s3
      BY <1>1, <2>2
    <3>2. b = FALSE
      BY <2>2
    <3> QED
      BY <3>1, <3>2
  <2> QED
    BY <2>1, <2>2
<1>9. turn' = [turn EXCEPT ![t].pc = "replying", ![t].told = Gathered(p), ![t].settled = b]
  BY <1>1 DEF p
<1> HIDE DEF b
<1>10. turn' = [turn EXCEPT ![t] = r]
  BY <1>3, <1>9 DEF TurnStates
<1>11. turn'[t] = r
  BY <1>3, <1>10
<1>12. /\ r.pc = "replying" /\ r.plan = i /\ r.told = Gathered(p) /\ r.settled = b
       /\ r.exact = turn[t].exact /\ r.attached = turn[t].attached
  BY <1>3 DEF TurnStates
<1>13. Onward(heap, [heap EXCEPT ![i] = p], Referenced(cache, turn)) /\ [heap EXCEPT ![i] = p][i] = p
  BY <1>3, <1>4, <1>5, <1>6, OnwardAt
<1> DEFINE h1 == [heap EXCEPT ![i] = p]
<1>14. heap' = Sweep(h1, cache', turn')
  BY <1>1 DEF p
<1> HIDE DEF h1
<1>15. /\ Onward(heap, heap', Kept(cache, turn, cache', turn'))
       /\ \A j \in Referenced(cache', turn') \cap PlanIds : heap'[j] = h1[j]
  BY <1>13, <1>14, SweptHeap DEF h1
<1>16. heap'[i] = p
  BY <1>4, <1>11, <1>12, <1>13, <1>15, InUse DEF h1
<1>17. Sound(r, heap', client.waiting, t)
  <2>1. Gathered(p) \in SUBSET Fields
    BY DEF Gathered
  <2> QED
    BY <1>2, <1>3, <1>6, <1>7, <1>16, <2>1 DEF Sound, TurnStates, Places, Threads
<1> HIDE DEF r
<1> QED
  BY <1>1, <1>4, <1>5, <1>6, <1>8, <1>10, <1>11, <1>12, <1>15, <1>16, <1>17

LEMMA SavePlanTyped ==
  ASSUME Typed, NEW t \in Turns, SavePlan(t)
  PROVE  Typed' /\ Onward(heap, heap', Kept(cache, turn, cache', turn'))
<1>1. PICK p \in Plans :
        /\ turn[t].plan \in PlanIds /\ heap'[turn[t].plan] = p
        /\ cache' = [cache EXCEPT ![turn[t].server] = turn[t].plan]
        /\ turn[t].server \in Servers
        /\ turn' = [turn EXCEPT ![t] = turn'[t]]
        /\ Sound(turn'[t], heap', client.waiting, t)
        /\ Onward(heap, heap', Kept(cache, turn, cache', turn'))
        /\ s3' \in {s3, p}
  BY SavePlanFacts
<1>2. /\ turn \in [Turns -> TurnStates] /\ cache \in [Servers -> PlanIds \cup {None}]
      /\ client \in ClientStates /\ s3 \in Plans \cup {NoPlan} /\ requirements \in SUBSET Fields
  BY DEF Typed
<1>3. UNCHANGED <<client, requirements>>
  BY DEF SavePlan
<1>4. /\ cache' \in [Servers -> PlanIds \cup {None}]
      /\ \A s \in Servers : cache'[s] \in {None, cache[s]} \/ heap'[cache'[s]] \in Plans
  BY <1>1, <1>2
<1>5. turn' = [u \in Turns |-> turn'[u]] /\ \A u \in Turns : u # t => turn'[u] = turn[u]
  BY <1>1, <1>2
<1>6. Typed'
  BY <1>1, <1>2, <1>3, <1>4, <1>5, StepTyped
<1> QED
  BY <1>1, <1>6

LEMMA ReplyTyped ==
  ASSUME Typed, NEW t \in Turns, Reply(t)
  PROVE  Typed' /\ Onward(heap, heap', Kept(cache, turn, cache', turn'))
<1>1. PICK ok \in Writes :
        /\ requirements' = IF ok THEN StoreRequirements(turn[t].told) ELSE requirements
        /\ \/ client' = [waiting |-> None, about |-> CurrentField(heap[turn[t].plan]),
                         exact |-> turn[t].settled /\ ok, told |-> turn[t].told,
                         finished |-> turn[t].told = Fields]
           \/ Restarts /\ client' = Fails(t)
  BY DEF Reply
<1>2. /\ turn[t].pc = "replying" /\ turn' = [turn EXCEPT ![t] = Idle]
      /\ heap' = Sweep(heap, cache, turn') /\ UNCHANGED <<cache, s3>>
  BY DEF Reply
<1>3. /\ client \in ClientStates /\ turn \in [Turns -> TurnStates]
      /\ cache \in [Servers -> PlanIds \cup {None}]
      /\ s3 \in Plans \cup {NoPlan} /\ requirements \in SUBSET Fields
      /\ Sound(turn[t], heap, client.waiting, t)
  BY DEF Typed
<1>4. /\ turn[t].told \in SUBSET Fields /\ client.waiting = t /\ heap[turn[t].plan] \in Plans
  BY <1>2, <1>3 DEF Sound, TurnStates, Threads
<1>5. client' \in ClientStates /\ client'.waiting = None
  <2>1. CASE client' = Fails(t)
    BY <1>3, <1>4, <2>1 DEF Fails, ShowError, ClientStates
  <2>2. CASE client' = [waiting |-> None, about |-> CurrentField(heap[turn[t].plan]),
                        exact |-> turn[t].settled /\ ok, told |-> turn[t].told,
                        finished |-> turn[t].told = Fields]
    <3>1. CurrentField(heap[turn[t].plan]) \in Fields \cup {NoField}
      BY <1>4, CurrentFieldKnown
    <3>2. (turn[t].settled /\ ok) \in BOOLEAN /\ (turn[t].told = Fields) \in BOOLEAN
      OBVIOUS
    <3> DEFINE b == turn[t].settled /\ ok
               c == turn[t].told = Fields
    <3>3. client' = [waiting |-> None, about |-> CurrentField(heap[turn[t].plan]),
                     exact |-> b, told |-> turn[t].told, finished |-> c]
      BY <2>2
    <3> HIDE DEF b, c
    <3> QED
      BY <1>4, <3>1, <3>2, <3>3 DEF ClientStates, b, c
  <2> QED
    BY <1>1, <2>1, <2>2
<1>6. Onward(heap, heap', Kept(cache, turn, cache', turn'))
  <2>1. Onward(heap, heap, Referenced(cache, turn))
    BY OnwardAlike DEF Typed
  <2> QED
    BY <1>2, <2>1, SweptHeap
<1>7. Sound(Idle, heap', client'.waiting, t)
  BY <1>5, IdleSound, SlotsFinite
<1>8. \A u \in Turns : u # t => client'.waiting # u /\ client.waiting # u
  BY <1>4, <1>5, SlotsFinite
<1>9. requirements' \in SUBSET Fields
  BY <1>1, <1>3, <1>4 DEF StoreRequirements
<1>10. turn' = [u \in Turns |-> turn'[u]] /\ \A u \in Turns : turn'[u] = IF u = t THEN Idle ELSE turn[u]
  BY <1>2, <1>3
<1>11. Typed'
  BY <1>2, <1>3, <1>5, <1>6, <1>7, <1>8, <1>9, <1>10, StepTyped
<1> QED
  BY <1>6, <1>11

LEMMA ReloadTyped ==
  ASSUME Typed, Reload
  PROVE  Typed' /\ Onward(heap, heap', Kept(cache, turn, cache', turn'))
<1>1. /\ client' = NewClient /\ heap' = Sweep(heap, cache, turn')
      /\ turn' = [t \in Turns |->
           IF t # client.waiting THEN turn[t]
           ELSE IF turn[t].pc \in Threads THEN Orphan(turn[t])
           ELSE Idle]
      /\ UNCHANGED <<cache, s3, requirements>>
  BY DEF Reload
<1>2. /\ client \in ClientStates /\ turn \in [Turns -> TurnStates]
      /\ cache \in [Servers -> PlanIds \cup {None}]
      /\ s3 \in Plans \cup {NoPlan} /\ requirements \in SUBSET Fields
      /\ \A t \in Turns : Sound(turn[t], heap, client.waiting, t)
  BY DEF Typed
<1>3. /\ Onward(heap, heap', Kept(cache, turn, cache', turn'))
      /\ \A i \in Referenced(cache', turn') \cap PlanIds : heap'[i] = heap[i]
  <2>1. Onward(heap, heap, Referenced(cache, turn))
    BY OnwardAlike DEF Typed
  <2> QED
    BY <1>1, <2>1, SweptHeap
<1>4. client' \in ClientStates /\ client'.waiting = None
  BY <1>1 DEF NewClient, ClientStates
<1>5. ASSUME NEW t \in Turns
      PROVE  \/ turn'[t] = turn[t] /\ (client'.waiting = t <=> client.waiting = t)
             \/ Sound(turn'[t], heap', client'.waiting, t)
  <2>0. client'.waiting # t
    BY <1>4, SlotsFinite
  <2>1. CASE t # client.waiting
    <3>1. turn'[t] = turn[t]
      BY <1>1, <2>1
    <3> QED
      BY <2>0, <2>1, <3>1
  <2>2. CASE t = client.waiting /\ turn[t].pc \in Threads
    <3>1. turn'[t] = Orphan(turn[t])
      BY <1>1, <2>2
    <3>2. Sound(Orphan(turn[t]), heap, client'.waiting, t)
      BY <1>2, <2>0, <2>2, OrphanSound
    <3>3. Orphan(turn[t]).plan = turn[t].plan /\ Orphan(turn[t]).pc = turn[t].pc
      BY <1>2 DEF Orphan, TurnStates
    <3>4. turn[t].pc \notin {"idle", "planning"} => Follows(heap[turn[t].plan], heap'[turn[t].plan])
      <4> SUFFICES ASSUME turn[t].pc \notin {"idle", "planning"}
                   PROVE  Follows(heap[turn[t].plan], heap'[turn[t].plan])
        OBVIOUS
      <4>1. turn[t].plan \in PlanIds /\ heap[turn[t].plan] \in Plans
        BY <1>2 DEF Sound
      <4>2. turn[t].plan \in Referenced(cache', turn')
        BY <3>1, <3>3, InUse
      <4> QED
        BY <1>3, <4>1, <4>2, FollowsItself
    <3>5. Sound(Orphan(turn[t]), heap', client'.waiting, t)
      <4> DEFINE r == Orphan(turn[t])
      <4>1. r.pc \notin {"idle", "planning"} => Follows(heap[r.plan], heap'[r.plan])
        BY <3>3, <3>4
      <4>2. Sound(r, heap, client'.waiting, t)
        BY <3>2
      <4> HIDE DEF r
      <4>3. Sound(r, heap', client'.waiting, t)
        BY <4>1, <4>2, OtherSound
      <4> QED
        BY <4>3 DEF r
    <3> QED
      BY <3>1, <3>5
  <2>3. CASE t = client.waiting /\ turn[t].pc \notin Threads
    <3>1. turn'[t] = Idle
      BY <1>1, <2>3
    <3> QED
      BY <2>0, <3>1, IdleSound
  <2> QED
    BY <2>1, <2>2, <2>3
<1>6. turn' = [t \in Turns |-> turn'[t]]
  BY <1>1
<1>7. Typed'
  BY <1>1, <1>2, <1>3, <1>4, <1>5, <1>6, StepTyped
<1> QED
  BY <1>3, <1>7

LEMMA EvictTyped ==
  ASSUME Typed, NEW s \in Servers, Evict(s)
  PROVE  Typed' /\ Onward(heap, heap', Kept(cache, turn, cache', turn'))
<1>1. /\ cache' = [cache EXCEPT ![s] = None] /\ heap' = Sweep(heap, cache', turn)
      /\ UNCHANGED <<s3, turn, client, requirements>>
  BY DEF Evict
<1>2. /\ client \in ClientStates /\ turn \in [Turns -> TurnStates]
      /\ cache \in [Servers -> PlanIds \cup {None}]
      /\ s3 \in Plans \cup {NoPlan} /\ requirements \in SUBSET Fields
  BY DEF Typed
<1>3. Onward(heap, heap', Kept(cache, turn, cache', turn'))
  <2>1. Onward(heap, heap, Referenced(cache, turn))
    BY OnwardAlike DEF Typed
  <2>2. heap' = Sweep(heap, cache', turn')
    BY <1>1
  <2> QED
    BY <2>1, <2>2, SweptHeap
<1>4. /\ cache' \in [Servers -> PlanIds \cup {None}]
      /\ \A u \in Servers : cache'[u] \in {None, cache[u]}
  BY <1>1, <1>2
<1>5. turn' = [t \in Turns |-> turn'[t]]
  BY <1>1, <1>2
<1>6. Typed'
  BY <1>1, <1>2, <1>3, <1>4, <1>5, StepTyped
<1> QED
  BY <1>3, <1>6

LEMMA RestartTyped ==
  ASSUME Typed, NEW s \in Servers, Restart(s)
  PROVE  Typed' /\ Onward(heap, heap', Kept(cache, turn, cache', turn'))
<1>1. /\ cache' = [cache EXCEPT ![s] = None] /\ heap' = Sweep(heap, cache', turn')
      /\ turn' = [t \in Turns |-> IF turn[t].server = s THEN Idle ELSE turn[t]]
      /\ client' = IF \E t \in Turns : client.waiting = t /\ turn[t].server = s
                   THEN ShowError ELSE client
      /\ UNCHANGED <<s3, requirements>>
  BY DEF Restart
<1>2. /\ client \in ClientStates /\ turn \in [Turns -> TurnStates]
      /\ cache \in [Servers -> PlanIds \cup {None}]
      /\ s3 \in Plans \cup {NoPlan} /\ requirements \in SUBSET Fields
      /\ \A t \in Turns : Sound(turn[t], heap, client.waiting, t)
  BY DEF Typed
<1>3. Onward(heap, heap', Kept(cache, turn, cache', turn'))
  <2>1. Onward(heap, heap, Referenced(cache, turn))
    BY OnwardAlike DEF Typed
  <2> QED
    BY <1>1, <2>1, SweptHeap
<1>4. /\ cache' \in [Servers -> PlanIds \cup {None}]
      /\ \A u \in Servers : cache'[u] \in {None, cache[u]}
  BY <1>1, <1>2
<1>5. turn' = [t \in Turns |-> turn'[t]]
  BY <1>1
<1>6. /\ client' \in ClientStates
      /\ client'.waiting = IF \E t \in Turns : client.waiting = t /\ turn[t].server = s
                           THEN None ELSE client.waiting
  BY <1>1, <1>2 DEF ShowError, ClientStates
<1>7. ASSUME NEW t \in Turns
      PROVE  \/ turn'[t] = turn[t] /\ (client'.waiting = t <=> client.waiting = t)
             \/ Sound(turn'[t], heap', client'.waiting, t)
  <2>1. CASE turn[t].server = s
    <3>1. turn'[t] = Idle
      BY <1>1, <2>1
    <3>2. client'.waiting # t
      BY <1>6, <2>1, SlotsFinite
    <3> QED
      BY <3>1, <3>2, IdleSound
  <2>2. CASE turn[t].server # s
    <3>1. turn'[t] = turn[t]
      BY <1>1, <2>2
    <3>2. client'.waiting = t <=> client.waiting = t
      BY <1>6, <2>2, SlotsFinite
    <3> QED
      BY <3>1, <3>2
  <2> QED
    BY <2>1, <2>2
<1>8. Typed'
  BY <1>1, <1>2, <1>3, <1>4, <1>5, <1>6, <1>7, StepTyped
<1> QED
  BY <1>3, <1>8

LEMMA TypedFirst ==
  ASSUME Init
  PROVE  Typed
<1>1. \A t \in Turns : Sound(Idle, heap, None, t)
  BY IdleSound, SlotsFinite
<1>2. Idle \in TurnStates
  BY DEF Idle, TurnStates, Places, Threads
<1> QED
  BY <1>1, <1>2 DEF Init, Typed, NewClient, ClientStates

LEMMA TypedNext ==
  ASSUME Typed, Next
  PROVE  Typed' /\ Onward(heap, heap', Kept(cache, turn, cache', turn'))
<1>1. ASSUME NEW t \in Turns, Turn(t)
      PROVE  Typed' /\ Onward(heap, heap', Kept(cache, turn, cache', turn'))
  <2>1. CASE PlanGenerated(t)
    BY <2>1, PlanGeneratedTyped
  <2>2. CASE StartTurn(t)
    BY <2>2, StartTurnTyped
  <2>3. CASE RecordReply(t)
    BY <2>3, RecordReplyTyped
  <2>4. CASE Replanned(t)
    BY <2>4, ReplannedTyped
  <2>5. CASE ModelFails(t)
    BY <2>5, ModelFailsTyped
  <2>6. CASE Timeout(t)
    BY <2>6, TimeoutTyped
  <2>7. CASE StartReplan(t)
    BY <2>7, StartReplanTyped
  <2>8. CASE SavePlan(t)
    BY <2>8, SavePlanTyped
  <2>9. CASE Reply(t)
    BY <2>9, ReplyTyped
  <2> QED
    BY <1>1, <2>1, <2>2, <2>3, <2>4, <2>5, <2>6, <2>7, <2>8, <2>9 DEF Turn, Thread, Coroutine
<1>2. ASSUME NEW s \in Servers, Evict(s) \/ Restart(s)
      PROVE  Typed' /\ Onward(heap, heap', Kept(cache, turn, cache', turn'))
  BY <1>2, EvictTyped, RestartTyped
<1> QED
  BY <1>1, <1>2, SendTyped, ReloadTyped DEF Next

LEMMA TypedStep ==
  ASSUME Typed, [Next]_vars
  PROVE  Typed' /\ Onward(heap, heap', Kept(cache, turn, cache', turn'))
<1>1. CASE Next
  BY <1>1, TypedNext
<1>2. CASE UNCHANGED vars
  BY <1>2, SameHeap DEF vars, Typed
<1> QED
  BY <1>1, <1>2

LEMMA AlwaysTyped == Spec => []Typed
BY TypedFirst, TypedStep, PTL DEF Spec

(* Every state has its types, for any number of servers, fields, messages   *)
(* and threads that nobody waits for any more: a request past its lookup    *)
(* has a plan in memory, and only threads outlive their request.            *)
THEOREM TypeCorrect == Spec => []TypeOK
<1>1. ASSUME Typed
      PROVE  TypeOK
  <2>1. \A t \in Turns : Sound(turn[t], heap, client.waiting, t)
    BY <1>1 DEF Typed
  <2>2. \A t \in Turns :
          /\ turn[t].pc \notin {"idle", "planning"} => heap[turn[t].plan] # NoPlan
          /\ turn[t].pc \notin Threads \cup {"idle"} => turn[t].attached = TRUE
    BY <2>1, NoPlanIsNone DEF Sound
  <2>3. ASSUME NEW t \in Turns
        PROVE  (turn[t].attached <=> client.waiting = t) /\ (turn[t].attached <=> turn[t].attached = TRUE)
    <3>1. turn[t].attached \in BOOLEAN /\ (turn[t].attached = TRUE <=> client.waiting = t)
      BY <2>1 DEF Sound, TurnStates
    <3>2. turn[t].attached <=> turn[t].attached = TRUE
      BY <3>1, Conversions
    <3> QED
      BY <3>1, <3>2, Zenon
  <2>4. \A t \in Turns :
          /\ turn[t].attached <=> client.waiting = t
          /\ turn[t].pc \notin Threads \cup {"idle"} => turn[t].attached
    BY <2>2, <2>3, Zenon
  <2>5. /\ \A i \in PlanIds : heap[i] \in Plans \cup {NoPlan}
        /\ \A s \in Servers : cache[s] = None \/ heap[cache[s]] # NoPlan
        /\ s3 \in Plans \cup {NoPlan} /\ turn \in [Turns -> TurnStates]
        /\ client.waiting \in Turns \cup {None} /\ client.about \in Fields \cup {NoField}
        /\ requirements \subseteq Fields
    BY <1>1, NoPlanIsNone DEF Typed, ClientStates
  <2> QED
    BY <2>2, <2>4, <2>5, Zenon DEF TypeOK
<1> QED
  BY <1>1, AlwaysTyped, PTL

-----------------------------------------------------------------------------
(* What is shown and what is saved.                                         *)

(* What every step of a turn leaves alone.                                  *)
LEMMA EndsShape ==
  ASSUME Typed, NEW t \in Turns, NEW pc, NEW i, pc # "replying", turn' = Ends(t, pc, i)
  PROVE  /\ turn' = [turn EXCEPT ![t] = turn'[t]]
         /\ turn'[t].pc # "replying" /\ turn'[t].exact = FALSE
<1> DEFINE r == IF turn[t].attached = TRUE THEN Went(pc, turn[t].server, i) ELSE Idle
<1>1. turn' = [turn EXCEPT ![t] = r]
  BY EndsFacts
<1>2. turn \in [Turns -> TurnStates]
  BY DEF Typed
<1>3. r.pc # "replying" /\ r.exact = FALSE
  <2>1. CASE turn[t].attached = TRUE
    <3>1. r = Went(pc, turn[t].server, i)
      BY <2>1
    <3> HIDE DEF r
    <3>2. r.pc = pc
      BY <3>1, WentFields
    <3>3. r.exact = FALSE
      BY <3>1, WentFlags
    <3> QED
      BY <2>1, <3>2, <3>3
  <2>2. CASE turn[t].attached # TRUE
    BY <2>2 DEF Idle
  <2> QED
    BY <2>1, <2>2
<1> HIDE DEF r
<1>4. turn'[t] = r
  BY <1>1, <1>2
<1> QED
  BY <1>1, <1>3, <1>4

LEMMA FailsShows ==
  ASSUME Typed, NEW t, client' = Fails(t)
  PROVE  client'.exact = client.exact
  BY DEF Typed, ClientStates, Fails, ShowError

LEMMA TurnShape ==
  ASSUME Typed, NEW t \in Turns, Turn(t)
  PROVE  /\ turn[t].pc # "idle" /\ turn' = [turn EXCEPT ![t] = turn'[t]]
         /\ turn[t].pc = "replying" => Reply(t)
         /\ turn'[t].pc = "replying" => SavePlan(t)
         /\ s3' = s3 \/ SavePlan(t)
         /\ client'.exact = client.exact \/ Reply(t)
<1>0. turn \in [Turns -> TurnStates]
  BY DEF Typed
<1>1. CASE PlanGenerated(t)
  <2>1. turn[t].pc = "planning" /\ s3' = s3 /\ client' = client /\ turn' = Ends(t, "planned", Fresh)
    BY <1>1 DEF PlanGenerated
  <2> QED
    BY <2>1, EndsShape
<1>2. CASE StartTurn(t)
  <2> DEFINE q == CurrentQuestion(heap[turn[t].plan])
  <2>1. /\ turn[t].pc = "starting" /\ s3' = s3 /\ client' = client
        /\ turn' = IF q = 0 THEN Ends(t, "executed", turn[t].plan)
                   ELSE [turn EXCEPT ![t].pc = "asking", ![t].question = q]
    BY <1>2 DEF StartTurn
  <2>2. CASE q = 0
    <3>1. turn' = Ends(t, "executed", turn[t].plan)
      BY <2>1, <2>2
    <3> HIDE DEF q
    <3>2. turn' = [turn EXCEPT ![t] = turn'[t]] /\ turn'[t].pc # "replying"
      BY <3>1, EndsShape
    <3> QED
      BY <2>1, <3>2
  <2>3. CASE q # 0
    <3> HIDE DEF q
    <3>1. turn' = [turn EXCEPT ![t].pc = "asking", ![t].question = q]
      BY <2>1, <2>3
    <3>2. turn' = [turn EXCEPT ![t] = turn'[t]] /\ turn'[t].pc = "asking"
      BY <1>0, <3>1 DEF TurnStates
    <3> QED
      BY <2>1, <3>2
  <2> QED
    BY <2>2, <2>3
<1>3. CASE RecordReply(t)
  <2>1. /\ turn[t].pc = "asking" /\ s3' = s3 /\ client' = client
        /\ \/ turn' = Ends(t, "executed", turn[t].plan)
           \/ turn' = Ends(t, "deviated", turn[t].plan)
    BY <1>3 DEF RecordReply
  <2>2. PICK pc \in {"executed", "deviated"} : turn' = Ends(t, pc, turn[t].plan)
    BY <2>1
  <2>3. turn' = [turn EXCEPT ![t] = turn'[t]] /\ turn'[t].pc # "replying"
    BY <2>2, EndsShape
  <2> QED
    BY <2>1, <2>3
<1>4. CASE Replanned(t)
  <2>1. /\ turn[t].pc = "replanning" /\ s3' = s3 /\ client' = client
        /\ \/ turn' = Ends(t, "planned", turn[t].plan)
           \/ turn' = Ends(t, "planned", Fresh)
    BY <1>4 DEF Replanned
  <2>2. PICK i : turn' = Ends(t, "planned", i)
    BY <2>1
  <2>3. turn' = [turn EXCEPT ![t] = turn'[t]] /\ turn'[t].pc # "replying"
    BY <2>2, EndsShape
  <2> QED
    BY <2>1, <2>3
<1>5. CASE ModelFails(t)
  <2>1. /\ turn[t].pc \in Threads /\ s3' = s3 /\ client' = Fails(t)
        /\ turn' = [turn EXCEPT ![t] = Idle]
    BY <1>5 DEF ModelFails
  <2>2. turn' = [turn EXCEPT ![t] = turn'[t]] /\ turn'[t].pc = "idle"
    BY <1>0, <2>1 DEF Idle
  <2> QED
    BY <2>1, <2>2, FailsShows DEF Threads
<1>6. CASE Timeout(t)
  <2>1. /\ turn[t].pc \in Threads /\ s3' = s3 /\ client' = Fails(t)
        /\ turn' = [turn EXCEPT ![t] = Orphan(@)]
    BY <1>6 DEF Timeout, session
  <2>2. turn' = [turn EXCEPT ![t] = turn'[t]] /\ turn'[t].pc = turn[t].pc
    BY <1>0, <2>1 DEF Orphan, TurnStates
  <2> QED
    BY <2>1, <2>2, FailsShows DEF Threads
<1>7. CASE StartReplan(t)
  <2>1. /\ turn[t].pc = "deviated" /\ s3' = s3 /\ client' = client
        /\ turn' = [turn EXCEPT ![t].pc = "replanning"]
    BY <1>7 DEF StartReplan
  <2>2. turn' = [turn EXCEPT ![t] = turn'[t]] /\ turn'[t].pc = "replanning"
    BY <1>0, <2>1 DEF TurnStates
  <2> QED
    BY <2>1, <2>2
<1>8. CASE SavePlan(t)
  <2>1. turn' = [turn EXCEPT ![t] = turn'[t]]
    BY <1>8, SavePlanFacts
  <2>2. turn[t].pc \in {"planned", "executed"} /\ client' = client
    BY <1>8 DEF SavePlan
  <2> QED
    BY <1>8, <2>1, <2>2
<1>9. CASE Reply(t)
  <2>1. turn[t].pc = "replying" /\ s3' = s3 /\ turn' = [turn EXCEPT ![t] = Idle]
    BY <1>9 DEF Reply
  <2>2. turn' = [turn EXCEPT ![t] = turn'[t]] /\ turn'[t].pc = "idle"
    BY <1>0, <2>1 DEF Idle
  <2> QED
    BY <1>9, <2>1, <2>2
<1> QED
  BY <1>1, <1>2, <1>3, <1>4, <1>5, <1>6, <1>7, <1>8, <1>9 DEF Turn, Thread, Coroutine

(* Evictions and restarts forget plans and turns, nothing else.             *)
LEMMA ServerShape ==
  ASSUME Typed, NEW s \in Servers, Evict(s) \/ Restart(s)
  PROVE  /\ s3' = s3 /\ requirements' = requirements
         /\ cache' = [cache EXCEPT ![s] = None]
         /\ client' \in {client, ShowError}
         /\ client.waiting = None => client' = client
         /\ turn' = [t \in Turns |-> turn'[t]] /\ \A t \in Turns : turn'[t] \in {Idle, turn[t]}
         /\ \A i \in Referenced(cache', turn') \cap PlanIds : heap'[i] = heap[i]
<1>1. /\ turn \in [Turns -> TurnStates] /\ Onward(heap, heap, Referenced(cache, turn))
  BY OnwardAlike DEF Typed
<1>2. CASE Evict(s)
  <2>1. /\ cache' = [cache EXCEPT ![s] = None] /\ heap' = Sweep(heap, cache', turn')
        /\ UNCHANGED <<s3, turn, client, requirements>>
    BY <1>2 DEF Evict
  <2>2. \A i \in Referenced(cache', turn') \cap PlanIds : heap'[i] = heap[i]
    BY <1>1, <2>1, SweptHeap
  <2> QED
    BY <1>1, <2>1, <2>2
<1>3. CASE Restart(s)
  <2>1. /\ cache' = [cache EXCEPT ![s] = None] /\ heap' = Sweep(heap, cache', turn')
        /\ turn' = [t \in Turns |-> IF turn[t].server = s THEN Idle ELSE turn[t]]
        /\ client' = IF \E t \in Turns : client.waiting = t /\ turn[t].server = s
                     THEN ShowError ELSE client
        /\ UNCHANGED <<s3, requirements>>
    BY <1>3 DEF Restart
  <2>2. \A i \in Referenced(cache', turn') \cap PlanIds : heap'[i] = heap[i]
    BY <1>1, <2>1, SweptHeap
  <2>3. client.waiting = None => client' = client
    BY <2>1, SlotsFinite
  <2>4. turn' = [t \in Turns |-> turn'[t]] /\ \A t \in Turns : turn'[t] \in {Idle, turn[t]}
    BY <2>1
  <2> QED
    BY <2>1, <2>2, <2>3, <2>4
<1> QED
  BY <1>2, <1>3

LEMMA SendShape ==
  ASSUME Typed, NEW t \in Turns, NEW s \in Servers, Send(t, s)
  PROVE  /\ client.waiting = None /\ client'.exact = FALSE /\ s3' = s3
         /\ turn' = [turn EXCEPT ![t] = turn'[t]]
         /\ turn'[t].pc \in {"planning", "starting"}
<1>1. PICK found \in PlanIds \cup {None} :
        turn' = [turn EXCEPT ![t] =
             [Idle EXCEPT !.pc = IF found = None THEN "planning" ELSE "starting",
                          !.server = s, !.plan = found, !.about = client.about,
                          !.exact = client.exact, !.attached = TRUE]]
  BY DEF Send
<1>2. /\ client.waiting = None /\ s3' = s3
      /\ client' = [client EXCEPT !.waiting = t, !.exact = FALSE, !.told = {}]
  BY DEF Send
<1>3. turn \in [Turns -> TurnStates] /\ client \in ClientStates
  BY DEF Typed
<1>4. client'.exact = FALSE
  BY <1>2, <1>3 DEF ClientStates
<1>5. turn' = [turn EXCEPT ![t] = turn'[t]] /\ turn'[t].pc \in {"planning", "starting"}
  BY <1>1, <1>3 DEF Idle
<1> QED
  BY <1>2, <1>4, <1>5

LEMMA ReloadShape ==
  ASSUME Typed, Reload
  PROVE  /\ client'.exact = FALSE /\ client'.waiting = None /\ s3' = s3 /\ cache' = cache
         /\ turn' = [t \in Turns |-> turn'[t]]
         /\ \A t \in Turns :
              \/ t # client.waiting /\ turn'[t] = turn[t]
              \/ turn'[t] = Idle
              \/ turn'[t] = Orphan(turn[t]) /\ turn[t].pc \in Threads
         /\ \A t \in Turns : turn'[t].pc # "replying"
         /\ \A i \in Referenced(cache', turn') \cap PlanIds : heap'[i] = heap[i]
<1>1. /\ client' = NewClient /\ heap' = Sweep(heap, cache', turn') /\ UNCHANGED <<cache, s3>>
      /\ turn' = [t \in Turns |->
           IF t # client.waiting THEN turn[t]
           ELSE IF turn[t].pc \in Threads THEN Orphan(turn[t])
           ELSE Idle]
  BY DEF Reload
<1>2. /\ turn \in [Turns -> TurnStates] /\ Onward(heap, heap, Referenced(cache, turn))
      /\ \A t \in Turns : Sound(turn[t], heap, client.waiting, t)
  BY OnwardAlike DEF Typed
<1>3. \A i \in Referenced(cache', turn') \cap PlanIds : heap'[i] = heap[i]
  BY <1>1, <1>2, SweptHeap
<1>4. \A t \in Turns :
        \/ t # client.waiting /\ turn'[t] = turn[t]
        \/ turn'[t] = Idle
        \/ turn'[t] = Orphan(turn[t]) /\ turn[t].pc \in Threads
  BY <1>1
<1>5. ASSUME NEW t \in Turns
      PROVE  turn'[t].pc # "replying"
  <2>1. CASE t # client.waiting /\ turn'[t] = turn[t]
    BY <1>2, <2>1 DEF Sound, Threads
  <2>2. CASE turn'[t] = Idle
    BY <2>2 DEF Idle
  <2>3. CASE turn'[t] = Orphan(turn[t]) /\ turn[t].pc \in Threads
    BY <1>2, <2>3 DEF Orphan, TurnStates, Threads
  <2> QED
    BY <1>4, <2>1, <2>2, <2>3
<1>6. client'.exact = FALSE /\ client'.waiting = None /\ turn' = [t \in Turns |-> turn'[t]]
  BY <1>1 DEF NewClient
<1> QED
  BY <1>1, <1>3, <1>4, <1>5, <1>6

(* The browser waits for one turn at most, and only threads go on without.  *)
LEMMA OneWaitedFor ==
  ASSUME Typed, NEW t \in Turns, turn[t].pc = "replying"
  PROVE  /\ client.waiting = t
         /\ \A u \in Turns \ {t} : turn[u].pc \in Threads \cup {"idle"} /\ turn[u].attached = FALSE
<1>1. \A u \in Turns : Sound(turn[u], heap, client.waiting, u)
  BY DEF Typed
<1>2. client.waiting = t
  BY <1>1 DEF Sound, Threads
<1>3. ASSUME NEW u \in Turns \ {t}
      PROVE  turn[u].pc \in Threads \cup {"idle"} /\ turn[u].attached = FALSE
  <2>1. turn[u].attached # TRUE /\ turn[u].attached \in BOOLEAN
    BY <1>1, <1>2 DEF Sound, TurnStates
  <2> QED
    BY <1>1, <2>1 DEF Sound
<1> QED
  BY <1>2, <1>3

(* A settled reply was settled by its save, and nothing touched it since.   *)
LEMMA SettledFrom ==
  ASSUME Typed, Settled, Next, NEW t \in Turns,
         turn'[t].pc = "replying", turn'[t].settled = TRUE, ~SavePlan(t)
  PROVE  \E s \in Servers : (Evict(s) \/ Restart(s)) /\ turn'[t] = turn[t]
<1>0. turn \in [Turns -> TurnStates] /\ Sound(turn[t], heap, client.waiting, t)
  BY DEF Typed
<1>1. ASSUME NEW u \in Turns, Turn(u)
      PROVE  FALSE
  <2>1. /\ turn[u].pc # "idle" /\ turn' = [turn EXCEPT ![u] = turn'[u]]
        /\ turn'[u].pc = "replying" => SavePlan(u)
    BY <1>1, TurnShape
  <2>2. CASE u = t
    BY <2>1, <2>2
  <2>3. CASE u # t
    <3>1. turn'[t] = turn[t]
      BY <1>0, <2>1, <2>3
    <3>2. turn[u] = Idle
      BY <2>3, <3>1 DEF Settled
    <3> QED
      BY <2>1, <3>2 DEF Idle
  <2> QED
    BY <2>2, <2>3
<1>2. ASSUME NEW u \in Turns, NEW s \in Servers, Send(u, s)
      PROVE  FALSE
  <2>1. /\ client.waiting = None /\ turn' = [turn EXCEPT ![u] = turn'[u]]
        /\ turn'[u].pc # "replying"
    BY <1>2, SendShape
  <2>2. turn'[t] = turn[t]
    BY <1>0, <2>1
  <2>3. client.waiting = t
    BY <2>2, OneWaitedFor
  <2> QED
    BY <2>1, <2>3, SlotsFinite
<1>3. ~Reload
  BY ReloadShape
<1>4. PICK s \in Servers : Evict(s) \/ Restart(s)
  BY <1>1, <1>2, <1>3 DEF Next
<1>5. turn'[t] \in {Idle, turn[t]}
  BY <1>4, ServerShape
<1> QED
  BY <1>4, <1>5 DEF Idle

LEMMA SettledStep ==
  ASSUME Typed, Settled, Next, NEW t \in Turns,
         turn'[t].pc = "replying", turn'[t].settled = TRUE
  PROVE  /\ s3' = heap'[turn'[t].plan] /\ turn'[t].told = Gathered(s3')
         /\ \A u \in Turns \ {t} : turn'[u] = Idle
<1>0. turn \in [Turns -> TurnStates] /\ Sound(turn[t], heap, client.waiting, t)
  BY DEF Typed
<1>1. CASE SavePlan(t)
  <2>1. PICK p \in Plans :
          /\ heap'[turn[t].plan] = p /\ turn'[t].plan = turn[t].plan
          /\ turn'[t].told = Gathered(p)
          /\ turn' = [turn EXCEPT ![t] = turn'[t]]
          /\ \/ s3' = s3 /\ turn'[t].settled = FALSE
             \/ s3' = p /\ (turn'[t].settled = TRUE => Alone(t))
    BY <1>1, SavePlanFacts
  <2>2. s3' = p /\ Alone(t)
    BY <2>1
  <2> QED
    BY <1>0, <2>1, <2>2 DEF Alone
<1>2. CASE ~SavePlan(t)
  <2>1. PICK s \in Servers : (Evict(s) \/ Restart(s)) /\ turn'[t] = turn[t]
    BY <1>2, SettledFrom
  <2>2. /\ s3' = s3 /\ \A u \in Turns : turn'[u] \in {Idle, turn[u]}
        /\ \A i \in Referenced(cache', turn') \cap PlanIds : heap'[i] = heap[i]
    BY <2>1, ServerShape
  <2>3. turn[t].plan \in PlanIds
    BY <1>0, <2>1 DEF Sound
  <2>4. heap'[turn'[t].plan] = heap[turn[t].plan]
    BY <2>1, <2>2, <2>3, InUse
  <2> QED
    BY <2>1, <2>2, <2>4 DEF Settled
<1> QED
  BY <1>1, <1>2

(* A reply that arrives shows what was saved.                               *)
LEMMA ReplyShows ==
  ASSUME Typed, Settled, NEW t \in Turns, Reply(t), client'.exact = TRUE, client.exact # TRUE
  PROVE  /\ client'.waiting = None /\ \A u \in Turns : turn'[u] = Idle
         /\ s3' = s3 /\ s3 \in Plans /\ turn[t].settled = TRUE
         /\ client'.told = Gathered(s3) /\ client'.about = CurrentField(s3)
         /\ requirements' = StoreRequirements(client'.told)
<1>1. PICK ok \in Writes :
        /\ requirements' = IF ok THEN StoreRequirements(turn[t].told) ELSE requirements
        /\ \/ client' = [waiting |-> None, about |-> CurrentField(heap[turn[t].plan]),
                         exact |-> turn[t].settled /\ ok, told |-> turn[t].told,
                         finished |-> turn[t].told = Fields]
           \/ Restarts /\ client' = Fails(t)
  BY DEF Reply
<1>2. turn[t].pc = "replying" /\ turn' = [turn EXCEPT ![t] = Idle] /\ s3' = s3
  BY DEF Reply
<1>3. turn \in [Turns -> TurnStates] /\ Sound(turn[t], heap, client.waiting, t) /\ ok \in BOOLEAN
  BY SwitchesBoolean DEF Typed
<1>4. client' # Fails(t)
  BY FailsShows
<1>5. client' = [waiting |-> None, about |-> CurrentField(heap[turn[t].plan]),
                 exact |-> turn[t].settled /\ ok, told |-> turn[t].told,
                 finished |-> turn[t].told = Fields]
  BY <1>1, <1>4
<1>6. (turn[t].settled /\ ok) = TRUE
  BY <1>5
<1>7. turn[t].settled = TRUE /\ ok
  BY <1>3, <1>6, Zenon DEF Sound, TurnStates
<1>8. /\ s3 = heap[turn[t].plan] /\ turn[t].told = Gathered(s3)
      /\ \A u \in Turns \ {t} : turn[u] = Idle
  BY <1>2, <1>7 DEF Settled
<1>9. s3 \in Plans
  BY <1>2, <1>3, <1>8 DEF Sound
<1>10. \A u \in Turns : turn'[u] = Idle
  BY <1>2, <1>3, <1>8
<1>11. client'.waiting = None /\ client'.about = CurrentField(s3) /\ client'.told = Gathered(s3)
  BY <1>5, <1>8
<1>12. requirements' = StoreRequirements(client'.told)
  BY <1>1, <1>7, <1>8, <1>11
<1> QED
  BY <1>2, <1>7, <1>8, <1>9, <1>10, <1>11, <1>12

(* What is shown exactly is new, or nothing is at work.                     *)
LEMMA ShownFrom ==
  ASSUME Typed, Settled, Shown, Next, client'.exact = TRUE
  PROVE  \/ client.exact # TRUE /\ \E t \in Turns : Reply(t)
         \/ client.exact = TRUE /\ \E s \in Servers : Evict(s) \/ Restart(s)
<1>1. ASSUME NEW t \in Turns, Turn(t)
      PROVE  client.exact # TRUE /\ Reply(t)
  <2>1. turn[t].pc # "idle" /\ (client'.exact = client.exact \/ Reply(t))
    BY <1>1, TurnShape
  <2>2. ASSUME client.exact = TRUE
        PROVE  FALSE
    <3>1. turn[t] = Idle
      BY <2>2 DEF Shown
    <3> QED
      BY <2>1, <3>1 DEF Idle
  <2> QED
    BY <2>1, <2>2
<1>2. ASSUME NEW t \in Turns, NEW s \in Servers, Send(t, s)
      PROVE  FALSE
  BY <1>2, SendShape
<1>3. ~Reload
  BY ReloadShape
<1>4. ASSUME NEW s \in Servers, Evict(s) \/ Restart(s)
      PROVE  client.exact = TRUE
  <2>1. client' \in {client, ShowError}
    BY <1>4, ServerShape
  <2> QED
    BY <2>1 DEF ShowError, Typed, ClientStates
<1> QED
  BY <1>1, <1>2, <1>3, <1>4 DEF Next

LEMMA ShownStep ==
  ASSUME Typed, Settled, Shown, Next
  PROVE  Shown'
<1> SUFFICES ASSUME client'.exact = TRUE
             PROVE  /\ client'.waiting = None /\ \A t \in Turns : turn'[t] = Idle
                    /\ s3' \in Plans /\ client'.told = Gathered(s3')
                    /\ client'.about = CurrentField(s3')
                    /\ Blocking \subseteq client'.told => requirements' = client'.told
  BY DEF Shown
<1>1. CASE client.exact # TRUE /\ \E t \in Turns : Reply(t)
  <2>1. /\ client'.waiting = None /\ \A u \in Turns : turn'[u] = Idle
        /\ s3' = s3 /\ s3 \in Plans
        /\ client'.told = Gathered(s3) /\ client'.about = CurrentField(s3)
        /\ requirements' = StoreRequirements(client'.told)
    BY <1>1, ReplyShows
  <2> QED
    BY <2>1 DEF StoreRequirements
<1>2. CASE client.exact = TRUE /\ \E s \in Servers : Evict(s) \/ Restart(s)
  <2>1. /\ s3' = s3 /\ requirements' = requirements
        /\ client.waiting = None => client' = client
        /\ \A t \in Turns : turn'[t] \in {Idle, turn[t]}
    BY <1>2, ServerShape
  <2>2. client.waiting = None
    BY <1>2 DEF Shown
  <2> QED
    BY <1>2, <2>1, <2>2 DEF Shown
<1> QED
  BY <1>1, <1>2, ShownFrom

LEMMA ShownAlways == Spec => [](Typed /\ Settled /\ Shown)
<1>1. Init => Settled /\ Shown
  BY DEF Init, Settled, Shown, NewClient, Idle
<1>2. Typed /\ Settled /\ Shown /\ [Next]_vars => Settled' /\ Shown'
  <2> SUFFICES ASSUME Typed, Settled, Shown, [Next]_vars
               PROVE  Settled' /\ Shown'
    OBVIOUS
  <2>1. CASE Next
    <3>1. Settled'
      BY <2>1, SettledStep DEF Settled
    <3> QED
      BY <2>1, <3>1, ShownStep
  <2>2. CASE UNCHANGED vars
    BY <2>2 DEF vars, Settled, Shown
  <2> QED
    BY <2>1, <2>2
<1> QED
  BY <1>1, <1>2, AlwaysTyped, PTL DEF Spec

(* What the browser shows is what a server that lost its memory would go on *)
(* with, through any restarts, evictions and lost responses, on any number  *)
(* of servers.                                                              *)
THEOREM AlwaysResumable == Spec => []Resumable
<1>1. ASSUME Typed, Shown
      PROVE  Resumable
  <2>1. client.exact \in BOOLEAN
    BY <1>1 DEF Typed, ClientStates
  <2>2. client.exact = TRUE =>
          s3 # NoPlan /\ client.told \subseteq Gathered(s3) /\ client.about = CurrentField(s3)
    BY <1>1, NoPlanIsNone DEF Shown
  <2>3. client.exact => client.exact = TRUE
    BY <2>1, Zenon
  <2> QED
    BY <2>2, <2>3, Zenon DEF Resumable
<1> QED
  BY <1>1, ShownAlways, PTL

(* When the browser is told that the interview is complete, the stored      *)
(* requirements are what it was told, however many turns were given up.     *)
THEOREM RequirementsAlwaysCurrent == Spec => []RequirementsCurrent
<1>1. ASSUME Typed, Shown
      PROVE  RequirementsCurrent
  <2>1. client.exact \in BOOLEAN
    BY <1>1 DEF Typed, ClientStates
  <2>2. client.exact = TRUE => (Blocking \subseteq client.told => requirements = client.told)
    BY <1>1 DEF Shown
  <2>3. client.exact => client.exact = TRUE
    BY <2>1, Zenon
  <2> QED
    BY <2>2, <2>3, Zenon DEF RequirementsCurrent
<1> QED
  BY <1>1, ShownAlways, PTL

-----------------------------------------------------------------------------
(* On one server, answers go to the question they were given for.           *)

LEMMA CachedStep ==
  ASSUME OneServer, Typed, Settled, Shown, Cached, Next
  PROVE  Cached'
<1>0. cache \in [Servers -> PlanIds \cup {None}] /\ turn \in [Turns -> TurnStates]
  BY DEF Typed
<1>1. ASSUME client'.exact = TRUE, NEW s \in Servers, cache'[s] # None
      PROVE  heap'[cache'[s]] = s3'
  <2>1. cache'[s] \in Referenced(cache', turn')
    BY InUse
  <2>2. CASE client.exact # TRUE /\ \E t \in Turns : Reply(t)
    <3>1. PICK t \in Turns : Reply(t)
      BY <2>2
    <3>2. turn[t].settled = TRUE /\ s3' = s3
      BY <1>1, <2>2, <3>1, ReplyShows
    <3>3. turn[t].pc = "replying" /\ cache' = cache /\ heap' = Sweep(heap, cache', turn')
      BY <3>1 DEF Reply
    <3>4. cache'[s] = turn[t].plan /\ s3 = heap[turn[t].plan]
      BY <1>1, <3>2, <3>3 DEF Cached, Settled
    <3>5. Onward(heap, heap, Referenced(cache, turn))
      BY OnwardAlike DEF Typed
    <3>6. \A i \in Referenced(cache', turn') \cap PlanIds : heap'[i] = heap[i]
      BY <3>3, <3>5, SweptHeap
    <3>7. cache'[s] \in PlanIds
      BY <1>0, <1>1, <3>3
    <3> QED
      BY <2>1, <3>2, <3>4, <3>6, <3>7
  <2>3. CASE client.exact = TRUE /\ \E u \in Servers : Evict(u) \/ Restart(u)
    <3>1. PICK u \in Servers : Evict(u) \/ Restart(u)
      BY <2>3
    <3>2. /\ s3' = s3 /\ cache' = [cache EXCEPT ![u] = None]
          /\ \A i \in Referenced(cache', turn') \cap PlanIds : heap'[i] = heap[i]
      BY <3>1, ServerShape
    <3>3. cache'[s] = cache[s] /\ cache'[s] \in PlanIds
      BY <1>0, <1>1, <3>2
    <3> QED
      BY <1>1, <2>1, <2>3, <3>2, <3>3 DEF Cached
  <2> QED
    BY <1>1, <2>2, <2>3, ShownFrom
<1>2. ASSUME NEW t \in Turns, turn'[t].pc = "replying", turn'[t].settled = TRUE,
             NEW s \in Servers
      PROVE  cache'[s] \in {None, turn'[t].plan}
  <2>1. CASE SavePlan(t)
    <3>1. /\ cache' = [cache EXCEPT ![turn[t].server] = turn[t].plan]
          /\ turn'[t].plan = turn[t].plan /\ turn[t].server \in Servers
      BY <2>1, SavePlanFacts
    <3>2. s = turn[t].server
      BY <3>1 DEF OneServer
    <3> QED
      BY <1>0, <3>1, <3>2
  <2>2. CASE ~SavePlan(t)
    <3>1. PICK u \in Servers : (Evict(u) \/ Restart(u)) /\ turn'[t] = turn[t]
      BY <1>2, <2>2, SettledFrom
    <3>2. cache' = [cache EXCEPT ![u] = None]
      BY <3>1, ServerShape
    <3>3. cache[s] \in {None, turn[t].plan}
      BY <1>2, <3>1 DEF Cached
    <3> QED
      BY <1>0, <3>1, <3>2, <3>3
  <2> QED
    BY <2>1, <2>2
<1> QED
  BY <1>1, <1>2 DEF Cached

(* A turn that carries on exactly.                                          *)
LEMMA ExactTurn ==
  ASSUME Typed, NEW t \in Turns, Turn(t), turn'[t].exact = TRUE
  PROVE  /\ turn[t].exact = TRUE /\ turn'[t].attached = turn[t].attached
         /\ \/ turn'[t].pc \in {"replanning", "replying"}
            \/ /\ turn[t].pc = "starting" /\ turn'[t].pc = "asking"
               /\ turn'[t].plan = turn[t].plan /\ turn'[t].about = turn[t].about
               /\ turn'[t].question = CurrentQuestion(heap[turn[t].plan])
               /\ turn'[t].question # 0
               /\ turn[t].plan \in PlanIds /\ heap[turn[t].plan] \in Plans
               /\ heap'[turn[t].plan] = heap[turn[t].plan]
<1>0. turn \in [Turns -> TurnStates]
  BY DEF Typed
<1>1. ASSUME NEW pc \in {"planned", "executed", "deviated"}, NEW i, turn' = Ends(t, pc, i)
      PROVE  FALSE
  BY <1>1, EndsShape
<1>2. CASE PlanGenerated(t) \/ RecordReply(t) \/ Replanned(t)
  <2>1. \E pc \in {"planned", "executed", "deviated"}, i \in {turn[t].plan, Fresh} :
          turn' = Ends(t, pc, i)
    BY <1>2 DEF PlanGenerated, RecordReply, Replanned
  <2> QED
    BY <1>1, <2>1
<1>3. CASE ModelFails(t) \/ Reply(t)
  <2>1. turn' = [turn EXCEPT ![t] = Idle]
    BY <1>3 DEF ModelFails, Reply
  <2> QED
    BY <1>0, <2>1 DEF Idle
<1>4. CASE Timeout(t)
  <2>1. turn' = [turn EXCEPT ![t] = Orphan(@)]
    BY <1>4 DEF Timeout
  <2> QED
    BY <1>0, <2>1 DEF Orphan, TurnStates
<1>5. CASE StartReplan(t)
  <2>1. turn' = [turn EXCEPT ![t].pc = "replanning"]
    BY <1>5 DEF StartReplan
  <2> QED
    BY <1>0, <2>1 DEF TurnStates
<1>6. CASE SavePlan(t)
  <2>1. /\ turn'[t].exact = turn[t].exact /\ turn'[t].attached = turn[t].attached
        /\ turn'[t].pc = "replying"
    BY <1>6, SavePlanFacts
  <2> QED
    BY <2>1
<1>7. CASE StartTurn(t)
  <2> DEFINE q == CurrentQuestion(heap[turn[t].plan])
  <2>1. /\ turn[t].pc = "starting" /\ heap' = Sweep(heap, cache', turn')
        /\ turn' = IF q = 0 THEN Ends(t, "executed", turn[t].plan)
                   ELSE [turn EXCEPT ![t].pc = "asking", ![t].question = q]
    BY <1>7 DEF StartTurn
  <2> HIDE DEF q
  <2>2. q # 0
    BY <1>1, <2>1
  <2>3. turn' = [turn EXCEPT ![t].pc = "asking", ![t].question = q]
    BY <2>1, <2>2
  <2>4. /\ turn'[t].pc = "asking" /\ turn'[t].question = q
        /\ turn'[t].plan = turn[t].plan /\ turn'[t].about = turn[t].about
    BY <1>0, <2>3 DEF TurnStates
  <2>5. turn'[t].exact = turn[t].exact /\ turn'[t].attached = turn[t].attached
    BY <1>0, <2>3 DEF TurnStates
  <2>6. turn[t].plan \in PlanIds /\ heap[turn[t].plan] \in Plans
    BY <2>1, InProgress
  <2>7. heap'[turn[t].plan] = heap[turn[t].plan]
    <3>1. Onward(heap, heap, Referenced(cache, turn))
      BY OnwardAlike DEF Typed
    <3>2. \A i \in Referenced(cache', turn') \cap PlanIds : heap'[i] = heap[i]
      BY <2>1, <3>1, SweptHeap
    <3>3. turn'[t].plan \in Referenced(cache', turn')
      BY InUse
    <3> QED
      BY <2>4, <2>6, <3>2, <3>3
  <2> QED
    BY <2>1, <2>2, <2>4, <2>5, <2>6, <2>7 DEF q
<1> QED
  BY <1>2, <1>3, <1>4, <1>5, <1>6, <1>7 DEF Turn, Thread, Coroutine

(* What a message finds.                                                    *)
LEMMA SendFinds ==
  ASSUME Typed, NEW t \in Turns, NEW s \in Servers, Send(t, s)
  PROVE  /\ turn'[t].attached = TRUE /\ turn'[t].exact = client.exact
         /\ turn'[t].about = client.about
         /\ \/ turn'[t].pc = "planning" /\ s3 = NoPlan
            \/ /\ turn'[t].pc = "starting" /\ turn'[t].plan \in PlanIds
               /\ \/ /\ cache[s] # None /\ turn'[t].plan = cache[s]
                     /\ heap' = heap /\ cache' = cache
                  \/ /\ heap'[turn'[t].plan] = s3
                     /\ cache' = [cache EXCEPT ![s] = turn'[t].plan]
<1>1. PICK found \in PlanIds \cup {None} :
        /\ GetPlan(s, found)
        /\ turn' = [turn EXCEPT ![t] =
             [Idle EXCEPT !.pc = IF found = None THEN "planning" ELSE "starting",
                          !.server = s, !.plan = found, !.about = client.about,
                          !.exact = client.exact, !.attached = TRUE]]
  BY DEF Send
<1>2. /\ heap \in [PlanIds -> Plans \cup {NoPlan}] /\ cache \in [Servers -> PlanIds \cup {None}]
      /\ turn \in [Turns -> TurnStates]
  BY DEF Typed
<1>3. turn'[t] = [Idle EXCEPT !.pc = IF found = None THEN "planning" ELSE "starting",
                              !.server = s, !.plan = found, !.about = client.about,
                              !.exact = client.exact, !.attached = TRUE]
  BY <1>1, <1>2
<1>4. /\ turn'[t].plan = found /\ turn'[t].about = client.about
      /\ turn'[t].pc = IF found = None THEN "planning" ELSE "starting"
  BY <1>3 DEF Idle
<1>5. turn'[t].attached = TRUE /\ turn'[t].exact = client.exact
  BY <1>3 DEF Idle
<1>6. \/ found = None /\ s3 = NoPlan
      \/ /\ found # None
         /\ \/ cache[s] # None /\ found = cache[s] /\ heap' = heap /\ cache' = cache
            \/ heap'[found] = s3 /\ cache' = [cache EXCEPT ![s] = found]
  <2>1. CASE cache[s] # None /\ found = cache[s] /\ UNCHANGED <<heap, cache>>
    BY <2>1
  <2>2. CASE /\ HasFresh /\ found = Fresh
             /\ heap' = [heap EXCEPT ![found] = s3]
             /\ cache' = [cache EXCEPT ![s] = found]
    BY <1>2, <2>2, FreshIsFree, SlotsFinite
  <2>3. CASE s3 = NoPlan /\ found = None
    BY <2>3
  <2> QED
    BY <1>1, <2>1, <2>2, <2>3 DEF GetPlan
<1> QED
  BY <1>1, <1>4, <1>5, <1>6

LEMMA FittingStep ==
  ASSUME Typed, Settled, Shown, Cached, Fitting, Next, NEW t \in Turns, turn'[t].exact = TRUE
  PROVE  /\ turn'[t].attached = TRUE /\ \A u \in Turns \ {t} : turn'[u] = Idle
         /\ turn'[t].pc = "starting" => CurrentField(heap'[turn'[t].plan]) = turn'[t].about
         /\ turn'[t].pc = "asking" =>
              heap'[turn'[t].plan].entries[turn'[t].question].field = turn'[t].about
<1>0. turn \in [Turns -> TurnStates] /\ \A u \in Turns : Sound(turn[u], heap, client.waiting, u)
  BY DEF Typed
<1>1. CASE Turn(t)
  <2>1. /\ turn[t].exact = TRUE /\ turn'[t].attached = turn[t].attached
        /\ \/ turn'[t].pc \in {"replanning", "replying"}
           \/ /\ turn[t].pc = "starting" /\ turn'[t].pc = "asking"
              /\ turn'[t].plan = turn[t].plan /\ turn'[t].about = turn[t].about
              /\ turn'[t].question = CurrentQuestion(heap[turn[t].plan])
              /\ turn'[t].question # 0
              /\ turn[t].plan \in PlanIds /\ heap[turn[t].plan] \in Plans
              /\ heap'[turn[t].plan] = heap[turn[t].plan]
    BY <1>1, ExactTurn
  <2>2. turn' = [turn EXCEPT ![t] = turn'[t]]
    BY <1>1, TurnShape
  <2>3. turn[t].attached = TRUE /\ \A u \in Turns \ {t} : turn[u] = Idle
    BY <2>1 DEF Fitting
  <2>4. \A u \in Turns \ {t} : turn'[u] = Idle
    BY <1>0, <2>2, <2>3
  <2>5. CASE turn'[t].pc \in {"replanning", "replying"}
    BY <2>1, <2>3, <2>4, <2>5
  <2>6. CASE turn'[t].pc = "asking"
    <3> DEFINE p == heap[turn[t].plan]
               q == turn'[t].question
    <3>1. /\ p \in Plans /\ q = CurrentQuestion(p) /\ q # 0
          /\ turn'[t].about = turn[t].about /\ heap'[turn'[t].plan] = p
      BY <2>1, <2>6
    <3>2. CurrentField(p) = turn[t].about
      BY <2>1, <2>6 DEF Fitting
    <3> HIDE DEF p, q
    <3>3. p.entries[q].field = CurrentField(p)
      BY <3>1, CurrentQuestionFacts DEF CurrentField
    <3> QED
      BY <2>1, <2>3, <2>4, <2>6, <3>1, <3>2, <3>3 DEF q
  <2> QED
    BY <2>1, <2>5, <2>6
<1>2. ASSUME NEW u \in Turns \ {t}, Turn(u)
      PROVE  FALSE
  <2>1. turn[u].pc # "idle" /\ turn' = [turn EXCEPT ![u] = turn'[u]]
    BY <1>2, TurnShape
  <2>2. turn'[t] = turn[t]
    BY <1>0, <2>1
  <2>3. turn[u] = Idle
    BY <2>2 DEF Fitting
  <2> QED
    BY <2>1, <2>3 DEF Idle
<1>3. ASSUME NEW s \in Servers, Send(t, s)
      PROVE  /\ turn'[t].attached = TRUE /\ \A u \in Turns \ {t} : turn'[u] = Idle
             /\ turn'[t].pc = "starting" => CurrentField(heap'[turn'[t].plan]) = turn'[t].about
             /\ turn'[t].pc # "asking"
  <2>1. /\ turn'[t].attached = TRUE /\ turn'[t].exact = client.exact
        /\ turn'[t].about = client.about
        /\ \/ turn'[t].pc = "planning" /\ s3 = NoPlan
           \/ /\ turn'[t].pc = "starting" /\ turn'[t].plan \in PlanIds
              /\ \/ /\ cache[s] # None /\ turn'[t].plan = cache[s]
                    /\ heap' = heap /\ cache' = cache
                 \/ /\ heap'[turn'[t].plan] = s3
                    /\ cache' = [cache EXCEPT ![s] = turn'[t].plan]
    BY <1>3, SendFinds
  <2>2. turn' = [turn EXCEPT ![t] = turn'[t]]
    BY <1>3, SendShape
  <2>3. client.exact = TRUE
    BY <2>1
  <2>4. client.about = CurrentField(s3) /\ \A u \in Turns : turn[u] = Idle
    BY <2>3 DEF Shown
  <2>5. turn'[t].pc = "starting" => heap'[turn'[t].plan] = s3
    BY <2>1, <2>3 DEF Cached
  <2>6. \A u \in Turns \ {t} : turn'[u] = Idle
    BY <1>0, <2>2, <2>4
  <2> QED
    BY <2>1, <2>4, <2>5, <2>6
<1>4. ASSUME NEW u \in Turns \ {t}, NEW s \in Servers, Send(u, s)
      PROVE  FALSE
  <2>1. client.waiting = None /\ turn' = [turn EXCEPT ![u] = turn'[u]]
    BY <1>4, SendShape
  <2>2. turn'[t] = turn[t]
    BY <1>0, <2>1
  <2>3. turn[t].attached = TRUE
    BY <2>2 DEF Fitting
  <2> QED
    BY <1>0, <2>1, <2>3, SlotsFinite DEF Sound
<1>5. ASSUME Reload
      PROVE  FALSE
  <2>1. \/ t # client.waiting /\ turn'[t] = turn[t]
        \/ turn'[t] = Idle
        \/ turn'[t] = Orphan(turn[t]) /\ turn[t].pc \in Threads
    BY <1>5, ReloadShape
  <2>2. t # client.waiting /\ turn'[t] = turn[t]
    <3>1. Idle.exact = FALSE
      BY DEF Idle
    <3>2. Orphan(turn[t]).exact = FALSE
      BY <1>0 DEF Orphan, TurnStates
    <3> QED
      BY <2>1, <3>1, <3>2
  <2>3. turn[t].attached = TRUE
    BY <2>2 DEF Fitting
  <2> QED
    BY <1>0, <2>2, <2>3 DEF Sound
<1>6. ASSUME NEW s \in Servers, Evict(s) \/ Restart(s)
      PROVE  /\ turn'[t].attached = TRUE /\ \A u \in Turns \ {t} : turn'[u] = Idle
             /\ turn'[t].pc = "starting" => CurrentField(heap'[turn'[t].plan]) = turn'[t].about
             /\ turn'[t].pc = "asking" =>
                  heap'[turn'[t].plan].entries[turn'[t].question].field = turn'[t].about
  <2>1. /\ \A u \in Turns : turn'[u] \in {Idle, turn[u]}
        /\ \A i \in Referenced(cache', turn') \cap PlanIds : heap'[i] = heap[i]
    BY <1>6, ServerShape
  <2>2. turn'[t] = turn[t]
    BY <2>1 DEF Idle
  <2>3. turn[t].pc \in {"starting", "asking"} => turn[t].plan \in PlanIds
    BY <1>0 DEF Sound
  <2>4. turn[t].pc \in {"starting", "asking"} => heap'[turn[t].plan] = heap[turn[t].plan]
    BY <2>1, <2>2, <2>3, InUse
  <2>5. /\ turn[t].attached = TRUE /\ \A u \in Turns \ {t} : turn[u] = Idle
        /\ turn[t].pc = "starting" => CurrentField(heap[turn[t].plan]) = turn[t].about
        /\ turn[t].pc = "asking" =>
             heap[turn[t].plan].entries[turn[t].question].field = turn[t].about
    BY <2>2 DEF Fitting
  <2> QED
    BY <2>1, <2>2, <2>4, <2>5
<1> QED
  BY <1>1, <1>2, <1>3, <1>4, <1>5, <1>6 DEF Next

(* On one server, a message is taken as the answer to the question that the *)
(* browser showed when it was written, through restarts, evictions and      *)
(* losses, whatever threads were given up before.                           *)
THEOREM AnswersAlwaysFit ==
  ASSUME OneServer
  PROVE  Spec => []AnswersFit
<1> DEFINE Inv == Cached /\ Fitting
<1>1. Init => Inv
  BY DEF Init, Cached, Fitting, NewClient, Idle
<1>2. Typed /\ Settled /\ Shown /\ Inv /\ [Next]_vars => Inv'
  <2> SUFFICES ASSUME Typed, Settled, Shown, Cached, Fitting, [Next]_vars
               PROVE  Cached' /\ Fitting'
    OBVIOUS
  <2>1. CASE Next
    <3>1. Cached'
      BY <2>1, CachedStep
    <3>2. Fitting'
      BY <2>1, FittingStep DEF Fitting
    <3> QED
      BY <3>1, <3>2
  <2>2. CASE UNCHANGED vars
    BY <2>2 DEF vars, Cached, Fitting
  <2> QED
    BY <2>1, <2>2
<1>3. Typed /\ Inv => AnswersFit
  <2> SUFFICES ASSUME Typed, Fitting, NEW t \in Turns, turn[t].pc = "asking" /\ turn[t].exact
               PROVE  heap[turn[t].plan].entries[turn[t].question].field = turn[t].about
    BY DEF AnswersFit
  <2>1. turn[t].exact \in BOOLEAN
    BY DEF Typed, TurnStates
  <2>2. turn[t].exact = TRUE
    BY <2>1, Zenon
  <2> QED
    BY <2>2 DEF Fitting
<1> QED
  BY <1>1, <1>2, <1>3, ShownAlways, PTL DEF Spec

-----------------------------------------------------------------------------
(* On one server, answers are never lost from the saved plan.               *)

LEMMA SavedInFollows ==
  ASSUME NEW p, NEW q, NEW r, SavedIn(p, q), Follows(q, r)
  PROVE  SavedIn(p, r)
<1>1. /\ r.replans = q.replans /\ r.filled = q.filled /\ Firm(q) \subseteq Firm(r)
      /\ DOMAIN r.entries = DOMAIN q.entries
      /\ \A i \in DOMAIN q.entries : /\ r.entries[i].field = q.entries[i].field
                                     /\ r.entries[i].round = q.entries[i].round
  BY DEF Follows, Alike
<1>2. Reworked(p, r) = Reworked(p, q)
  BY <1>1 DEF Reworked
<1> QED
  BY <1>1, <1>2 DEF SavedIn, Keeps

LEMMA SavedInItself ==
  ASSUME NEW p \in Plans \cup {NoPlan}
  PROVE  SavedIn(p, p)
<1>1. p \in Plans => p.replans \in Nat
  BY PlanFields
<1> QED
  BY <1>1 DEF SavedIn, Keeps

LEMMA SavedInReplan ==
  ASSUME NEW p \in Plans \cup {NoPlan}, NEW q \in Plans, SavedIn(p, q),
         q.replans < MaxReplans, NEW o \in Outputs
  PROVE  SavedIn(p, Replan(q, o))
<1> DEFINE r == Replan(q, o)
<1>1. /\ r.replans = q.replans + 1 /\ Firm(q) \ Reworked(q, r) \subseteq Firm(r)
  BY ReplanKeeps
<1> HIDE DEF r
<1>2. CASE p \in Plans /\ p # NoPlan
  <2>1. Keeps(p, q) /\ p.replans \in Nat /\ q.replans \in Nat
    BY <1>2, PlanFields DEF SavedIn
  <2>2. ASSUME q.replans = p.replans
        PROVE  Firm(p) \ Reworked(p, r) \subseteq Firm(r)
    <3>1. q.filled = p.filled /\ Firm(p) \subseteq Firm(q)
      BY <2>1, <2>2 DEF Keeps
    <3>2. Reworked(p, r) = Reworked(q, r)
      BY <3>1 DEF Reworked
    <3> QED
      BY <1>1, <3>1, <3>2
  <2>3. p.replans <= r.replans /\ r.replans # p.replans
    BY <1>1, <2>1 DEF Keeps
  <2>4. r.replans = p.replans + 1 => q.replans = p.replans
    BY <1>1, <2>1
  <2>5. Keeps(p, r)
    BY <2>2, <2>3, <2>4 DEF Keeps
  <2> QED
    BY <2>5 DEF SavedIn, r
<1>3. CASE p = NoPlan
  BY <1>3 DEF SavedIn
<1> QED
  BY <1>2, <1>3

(* A turn that stays as it is holds what it held, as its plan goes on.      *)
LEMMA StillHolds ==
  ASSUME Typed, Held, Onward(heap, heap', Kept(cache, turn, cache', turn')),
         NEW t \in Turns, turn'[t] = turn[t], s3' = s3
  PROVE  Holds(turn'[t], heap', s3')
<1>1. Sound(turn[t], heap, client.waiting, t) /\ Holds(turn[t], heap, s3)
  BY DEF Typed, Held
<1>2. turn[t].plan \in Kept(cache, turn, cache', turn')
  BY InUse DEF Kept
<1>3. turn[t].pc \notin {"idle", "planning"} => Follows(heap[turn[t].plan], heap'[turn[t].plan])
  BY <1>1, <1>2 DEF Onward, Sound
<1>4. turn[t].attached = TRUE /\ turn[t].pc \notin {"idle", "planning"} =>
        SavedIn(s3, heap'[turn[t].plan])
  BY <1>1, <1>3, SavedInFollows DEF Holds
<1> QED
  BY <1>1, <1>4 DEF Holds

(* The same for a cached plan.                                              *)
LEMMA StillCached ==
  ASSUME Typed, Held, Onward(heap, heap', Kept(cache, turn, cache', turn')),
         NEW s \in Servers, cache'[s] = cache[s], cache[s] # None, s3' = s3
  PROVE  SavedIn(s3', heap'[cache'[s]])
<1>1. cache[s] \in PlanIds /\ heap[cache[s]] \in Plans /\ SavedIn(s3, heap[cache[s]])
  BY DEF Typed, Held
<1>2. cache[s] \in Kept(cache, turn, cache', turn')
  BY InUse DEF Kept
<1>3. Follows(heap[cache[s]], heap'[cache[s]])
  BY <1>1, <1>2 DEF Onward
<1> QED
  BY <1>1, <1>3, SavedInFollows

LEMMA NothingHeld ==
  ASSUME NEW r, NEW h, NEW p, r.attached # TRUE
  PROVE  Holds(r, h, p)
  BY DEF Holds

(* Where the coroutine of a thread goes on, if it does.                     *)
LEMMA EndsWhere ==
  ASSUME Typed, NEW t \in Turns, NEW pc, NEW i, turn' = Ends(t, pc, i)
  PROVE  \/ turn'[t] = Idle
         \/ turn[t].attached = TRUE /\ turn'[t].pc = pc /\ turn'[t].plan = i
<1>1. turn' = [turn EXCEPT ![t] = IF turn[t].attached = TRUE
                                  THEN Went(pc, turn[t].server, i) ELSE Idle]
  BY EndsFacts
<1>2. turn \in [Turns -> TurnStates]
  BY DEF Typed
<1>3. CASE turn[t].attached = TRUE
  <2>1. turn'[t] = Went(pc, turn[t].server, i)
    BY <1>1, <1>2, <1>3
  <2>2. turn'[t].pc = pc /\ turn'[t].plan = i
    BY <2>1, WentFields
  <2> QED
    BY <1>3, <2>2
<1>4. CASE turn[t].attached # TRUE
  BY <1>1, <1>2, <1>4
<1> QED
  BY <1>3, <1>4

(* A thread that goes on with its own plan, or one that followed it.        *)
LEMMA EndsHolds ==
  ASSUME Typed, Held, Onward(heap, heap', Kept(cache, turn, cache', turn')),
         NEW t \in Turns, turn[t].pc \notin {"idle", "planning"},
         NEW pc \in {"planned", "executed", "deviated"}, turn' = Ends(t, pc, turn[t].plan), s3' = s3
  PROVE  Holds(turn'[t], heap', s3')
<1>1. \/ turn'[t] = Idle
      \/ turn[t].attached = TRUE /\ turn'[t].pc = pc /\ turn'[t].plan = turn[t].plan
  <2> DEFINE i == turn[t].plan
  <2>1. turn' = Ends(t, pc, i)
    OBVIOUS
  <2> HIDE DEF i
  <2>2. turn'[t] = Idle \/ (turn[t].attached = TRUE /\ turn'[t].pc = pc /\ turn'[t].plan = i)
    BY <2>1, EndsWhere
  <2> QED
    BY <2>2 DEF i
<1>2. CASE turn'[t] = Idle
  BY <1>2, NothingHeld DEF Idle
<1>3. CASE turn[t].attached = TRUE /\ turn'[t].pc = pc /\ turn'[t].plan = turn[t].plan
  <2>1. Sound(turn[t], heap, client.waiting, t) /\ Holds(turn[t], heap, s3)
    BY DEF Typed, Held
  <2>2. turn[t].plan \in Kept(cache, turn, cache', turn')
    BY <1>3, InUse DEF Kept
  <2>3. Follows(heap[turn[t].plan], heap'[turn[t].plan])
    BY <2>1, <2>2 DEF Onward, Sound
  <2>4. SavedIn(s3, heap'[turn[t].plan])
    BY <1>3, <2>1, <2>3, SavedInFollows DEF Holds
  <2> QED
    BY <1>3, <2>4 DEF Holds
<1> QED
  BY <1>1, <1>2, <1>3

(* A thread that goes on with a new plan.                                   *)
LEMMA FreshHolds ==
  ASSUME Typed, NEW t \in Turns, HasFresh, NEW p \in Plans,
         \/ turn'[t] = Idle
         \/ turn[t].attached = TRUE /\ turn'[t].pc = "planned" /\ turn'[t].plan = Fresh,
         turn[t].attached = TRUE => SavedIn(s3, p),
         heap' = Sweep([heap EXCEPT ![Fresh] = p], cache', turn'), s3' = s3
  PROVE  Holds(turn'[t], heap', s3')
<1> DEFINE i == Fresh
           h1 == [heap EXCEPT ![i] = p]
<1>1. i \in PlanIds /\ i \notin Referenced(cache, turn)
  BY FreshIsFree
<1>2. heap' = Sweep(h1, cache', turn')
  OBVIOUS
<1>3. turn'[t] = Idle \/ (turn[t].attached = TRUE /\ turn'[t].pc = "planned" /\ turn'[t].plan = i)
  OBVIOUS
<1> HIDE DEF i
<1>4. CASE turn'[t] = Idle
  BY <1>4, NothingHeld DEF Idle
<1>5. CASE turn[t].attached = TRUE /\ turn'[t].pc = "planned" /\ turn'[t].plan = i
  <2>1. heap \in [PlanIds -> Plans \cup {NoPlan}]
    BY DEF Typed
  <2>2. Onward(heap, h1, Referenced(cache, turn)) /\ h1[i] = p
    BY <1>1, <2>1, OnwardAt
  <2> HIDE DEF h1
  <2>3. \A j \in Referenced(cache', turn') \cap PlanIds : heap'[j] = h1[j]
    BY <1>2, <2>2, SweptHeap
  <2>4. heap'[i] = p
    BY <1>1, <1>5, <2>2, <2>3, InUse
  <2> QED
    BY <1>5, <2>4 DEF Holds
<1> QED
  BY <1>3, <1>4, <1>5

LEMMA EndsFresh ==
  ASSUME Typed, NEW t \in Turns, turn' = Ends(t, "planned", Fresh)
  PROVE  \/ turn'[t] = Idle
         \/ turn[t].attached = TRUE /\ turn'[t].pc = "planned" /\ turn'[t].plan = Fresh
<1>1. PICK i : i = Fresh /\ turn' = Ends(t, "planned", i)
  OBVIOUS
<1>2. turn'[t] = Idle \/ (turn[t].attached = TRUE /\ turn'[t].pc = "planned" /\ turn'[t].plan = i)
  BY <1>1, EndsWhere
<1> QED
  BY <1>1, <1>2

(* The step of a turn, for itself.                                          *)
LEMMA TurnHolds ==
  ASSUME Typed, Held, Onward(heap, heap', Kept(cache, turn, cache', turn')),
         NEW t \in Turns, Turn(t)
  PROVE  Holds(turn'[t], heap', s3')
<1>0. /\ turn \in [Turns -> TurnStates] /\ Sound(turn[t], heap, client.waiting, t)
      /\ Holds(turn[t], heap, s3)
  BY DEF Typed, Held
<1>1. CASE PlanGenerated(t)
  <2>1. PICK p \in GeneratedPlans :
          /\ turn' = Ends(t, "planned", Fresh)
          /\ heap' = Sweep([heap EXCEPT ![Fresh] = p], cache, turn')
    BY <1>1 DEF PlanGenerated
  <2>2. turn[t].pc = "planning" /\ HasFresh /\ cache' = cache /\ s3' = s3 /\ p \in Plans
    BY <1>1, GeneratedArePlans DEF PlanGenerated
  <2>3. \/ turn'[t] = Idle
        \/ turn[t].attached = TRUE /\ turn'[t].pc = "planned" /\ turn'[t].plan = Fresh
    BY <2>1, EndsFresh
  <2>4. turn[t].attached = TRUE => SavedIn(s3, p)
    BY <1>0, <2>2 DEF Holds, SavedIn
  <2> QED
    BY <2>1, <2>2, <2>3, <2>4, FreshHolds
<1>2. CASE StartTurn(t)
  <2> DEFINE q == CurrentQuestion(heap[turn[t].plan])
  <2>1. /\ turn[t].pc = "starting" /\ s3' = s3
        /\ turn' = IF q = 0 THEN Ends(t, "executed", turn[t].plan)
                   ELSE [turn EXCEPT ![t].pc = "asking", ![t].question = q]
    BY <1>2 DEF StartTurn
  <2>2. CASE q = 0
    <3>1. turn' = Ends(t, "executed", turn[t].plan)
      BY <2>1, <2>2
    <3> QED
      BY <2>1, <3>1, EndsHolds
  <2>3. CASE q # 0
    <3> HIDE DEF q
    <3>1. turn' = [turn EXCEPT ![t].pc = "asking", ![t].question = q]
      BY <2>1, <2>3
    <3>2. /\ turn'[t].pc = "asking" /\ turn'[t].plan = turn[t].plan
          /\ turn'[t].attached = turn[t].attached
      BY <1>0, <3>1 DEF TurnStates
    <3>3. turn[t].plan \in Kept(cache, turn, cache', turn')
      BY <3>2, InUse DEF Kept
    <3>4. Follows(heap[turn[t].plan], heap'[turn[t].plan])
      BY <1>0, <2>1, <3>3 DEF Onward, Sound
    <3>5. turn[t].attached = TRUE => SavedIn(s3, heap'[turn[t].plan])
      BY <1>0, <2>1, <3>4, SavedInFollows DEF Holds
    <3> QED
      BY <2>1, <3>2, <3>5 DEF Holds
  <2> QED
    BY <2>2, <2>3
<1>3. CASE RecordReply(t)
  <2>1. /\ turn[t].pc = "asking" /\ s3' = s3
        /\ \/ turn' = Ends(t, "executed", turn[t].plan)
           \/ turn' = Ends(t, "deviated", turn[t].plan)
    BY <1>3 DEF RecordReply
  <2> QED
    BY <2>1, EndsHolds
<1>4. CASE Replanned(t)
  <2>1. turn[t].pc = "replanning" /\ HasFresh /\ cache' = cache /\ s3' = s3
    BY <1>4 DEF Replanned
  <2>2. CASE turn' = Ends(t, "planned", turn[t].plan)
    BY <2>1, <2>2, EndsHolds
  <2>3. CASE \E o \in Outputs :
               /\ turn' = Ends(t, "planned", Fresh)
               /\ heap' = Sweep([heap EXCEPT ![Fresh] = Replan(heap[turn[t].plan], o)], cache, turn')
    <3> DEFINE q == heap[turn[t].plan]
    <3>1. PICK o \in Outputs :
            /\ turn' = Ends(t, "planned", Fresh)
            /\ heap' = Sweep([heap EXCEPT ![Fresh] = Replan(q, o)], cache, turn')
      BY <2>3
    <3>2. q \in Plans /\ q.replans < MaxReplans
      BY <1>0, <2>1 DEF Sound, TurnStates
    <3>3. turn[t].attached = TRUE => SavedIn(s3, q)
      BY <1>0, <2>1 DEF Holds
    <3> HIDE DEF q
    <3>4. Replan(q, o) \in Plans
      BY <3>2, ReplanKeeps
    <3>5. turn[t].attached = TRUE => SavedIn(s3, Replan(q, o))
      <4>1. s3 \in Plans \cup {NoPlan}
        BY DEF Typed
      <4> QED
        BY <3>2, <3>3, <4>1, SavedInReplan
    <3>6. \/ turn'[t] = Idle
          \/ turn[t].attached = TRUE /\ turn'[t].pc = "planned" /\ turn'[t].plan = Fresh
      BY <3>1, EndsFresh
    <3> QED
      BY <2>1, <3>1, <3>4, <3>5, <3>6, FreshHolds
  <2> QED
    BY <1>4, <2>2, <2>3 DEF Replanned
<1>5. CASE ModelFails(t) \/ Reply(t)
  <2>1. turn' = [turn EXCEPT ![t] = Idle]
    BY <1>5 DEF ModelFails, Reply
  <2>2. turn'[t].attached # TRUE
    BY <1>0, <2>1 DEF Idle
  <2> QED
    BY <2>2, NothingHeld
<1>6. CASE Timeout(t)
  <2>1. turn' = [turn EXCEPT ![t] = Orphan(@)]
    BY <1>6 DEF Timeout
  <2>2. turn'[t].attached # TRUE
    BY <1>0, <2>1 DEF Orphan, TurnStates
  <2> QED
    BY <2>2, NothingHeld
<1>7. CASE StartReplan(t)
  <2> DEFINE q == heap[turn[t].plan]
  <2>1. /\ turn[t].pc = "deviated" /\ UNCHANGED <<heap, s3>>
        /\ turn' = [turn EXCEPT ![t].pc = "replanning"]
    BY <1>7 DEF StartReplan
  <2>2. turn[t].attached = TRUE => SavedIn(s3, q)
    BY <1>0, <2>1 DEF Holds
  <2>4. /\ turn'[t].pc = "replanning" /\ turn'[t].plan = turn[t].plan
        /\ turn'[t].attached = turn[t].attached
    <3> HIDE DEF q
    <3> QED
      BY <1>0, <2>1 DEF TurnStates
  <2>5. heap'[turn'[t].plan] = q
    BY <2>1, <2>4
  <2> HIDE DEF q
  <2> QED
    BY <2>1, <2>2, <2>4, <2>5 DEF Holds
<1>8. CASE SavePlan(t)
  <2>1. PICK p \in Plans :
          /\ Follows(heap[turn[t].plan], p) /\ heap'[turn[t].plan] = p
          /\ turn'[t].pc = "replying" /\ turn'[t].plan = turn[t].plan
          /\ turn[t].attached = TRUE /\ s3' \in {s3, p}
    BY <1>8, SavePlanFacts
  <2>2. turn[t].pc \in {"planned", "executed"}
    BY <1>8 DEF SavePlan
  <2>3. SavedIn(s3, p)
    BY <1>0, <2>1, <2>2, SavedInFollows DEF Holds
  <2>4. SavedIn(s3', p)
    BY <2>1, <2>3, SavedInItself
  <2> QED
    BY <2>1, <2>4 DEF Holds
<1> QED
  BY <1>1, <1>2, <1>3, <1>4, <1>5, <1>6, <1>7, <1>8 DEF Turn, Thread, Coroutine

LEMMA TurnCache ==
  ASSUME NEW t \in Turns, Turn(t)
  PROVE  cache' = cache \/ SavePlan(t)
  BY DEF Turn, Thread, Coroutine, PlanGenerated, StartTurn, RecordReply, Replanned,
         ModelFails, StartReplan, Reply, Timeout, session

(* The step of a turn, for the caches and the other turns: whoever saves is *)
(* the one that the browser waits for, so nobody else holds anything.       *)
LEMMA TurnHeld ==
  ASSUME OneServer, Typed, Held, Onward(heap, heap', Kept(cache, turn, cache', turn')),
         NEW t \in Turns, Turn(t)
  PROVE  Held'
<1>0. /\ turn \in [Turns -> TurnStates] /\ cache \in [Servers -> PlanIds \cup {None}]
      /\ \A u \in Turns : Sound(turn[u], heap, client.waiting, u)
  BY DEF Typed
<1>1. /\ turn' = [turn EXCEPT ![t] = turn'[t]]
      /\ s3' = s3 \/ SavePlan(t)
  BY TurnShape
<1>2. Holds(turn'[t], heap', s3')
  BY TurnHolds
<1>3. ASSUME SavePlan(t)
      PROVE  /\ cache' = [cache EXCEPT ![turn[t].server] = turn[t].plan]
             /\ turn[t].server \in Servers /\ turn'[t].plan = turn[t].plan
             /\ turn[t].attached = TRUE /\ SavedIn(s3', heap'[turn[t].plan])
  <2>1. /\ cache' = [cache EXCEPT ![turn[t].server] = turn[t].plan]
        /\ turn[t].server \in Servers /\ turn'[t].plan = turn[t].plan
        /\ turn'[t].pc = "replying"
        /\ turn[t].attached = TRUE /\ turn'[t].attached = turn[t].attached
    BY <1>3, SavePlanFacts
  <2> QED
    BY <1>2, <2>1 DEF Holds
<1>4. ASSUME NEW u \in Turns
      PROVE  Holds(turn'[u], heap', s3')
  <2>1. CASE u = t
    BY <1>2, <2>1
  <2>2. CASE u # t
    <3>1. turn'[u] = turn[u]
      BY <1>0, <1>1, <2>2
    <3>2. CASE s3' = s3
      BY <3>1, <3>2, StillHolds
    <3>3. CASE SavePlan(t)
      <4>1. client.waiting = t
        BY <1>0, <1>3, <3>3 DEF Sound
      <4>2. turn'[u].attached # TRUE
        BY <1>0, <2>2, <3>1, <4>1 DEF Sound
      <4> QED
        BY <4>2, NothingHeld
    <3> QED
      BY <1>1, <3>2, <3>3
  <2> QED
    BY <2>1, <2>2
<1>5. ASSUME NEW s \in Servers, cache'[s] # None
      PROVE  SavedIn(s3', heap'[cache'[s]])
  <2>1. CASE SavePlan(t)
    <3>1. s = turn[t].server
      BY <1>3, <2>1 DEF OneServer
    <3>2. cache'[s] = turn[t].plan
      BY <1>0, <1>3, <2>1, <3>1
    <3> QED
      BY <1>3, <2>1, <3>2
  <2>2. CASE cache' = cache /\ s3' = s3
    <3>1. cache'[s] = cache[s] /\ cache[s] # None /\ s3' = s3
      BY <1>5, <2>2
    <3> QED
      BY <3>1, StillCached
  <2> QED
    BY <1>1, <2>1, <2>2, TurnCache
<1> QED
  BY <1>4, <1>5 DEF Held

LEMMA SendCaches ==
  ASSUME NEW t \in Turns, NEW s \in Servers, Send(t, s), turn'[t].pc = "planning",
         turn \in [Turns -> TurnStates]
  PROVE  cache' = cache
<1>1. PICK found \in PlanIds \cup {None} :
        /\ GetPlan(s, found)
        /\ turn' = [turn EXCEPT ![t] =
             [Idle EXCEPT !.pc = IF found = None THEN "planning" ELSE "starting",
                          !.server = s, !.plan = found, !.about = client.about,
                          !.exact = client.exact, !.attached = TRUE]]
  BY DEF Send
<1>2. turn'[t].pc = IF found = None THEN "planning" ELSE "starting"
  BY <1>1 DEF Idle
<1>3. found = None
  BY <1>2
<1> QED
  BY <1>1, <1>3, FreshIsFree, SlotsFinite DEF GetPlan

(* A message finds the plan in memory, or the saved one.                    *)
LEMMA SendHeld ==
  ASSUME Typed, Held, Onward(heap, heap', Kept(cache, turn, cache', turn')),
         NEW t \in Turns, NEW s \in Servers, Send(t, s)
  PROVE  Held'
<1>0. /\ turn \in [Turns -> TurnStates] /\ cache \in [Servers -> PlanIds \cup {None}]
      /\ s3 \in Plans \cup {NoPlan}
  BY DEF Typed
<1>1. s3' = s3 /\ turn' = [turn EXCEPT ![t] = turn'[t]]
  BY SendShape
<1>2. \/ turn'[t].pc = "planning" /\ s3 = NoPlan
      \/ /\ turn'[t].pc = "starting" /\ turn'[t].plan \in PlanIds
         /\ \/ /\ cache[s] # None /\ turn'[t].plan = cache[s]
               /\ heap' = heap /\ cache' = cache
            \/ /\ heap'[turn'[t].plan] = s3
               /\ cache' = [cache EXCEPT ![s] = turn'[t].plan]
  BY SendFinds
<1>3. turn'[t].pc = "planning" => s3 = NoPlan
  BY <1>2
<1>4. turn'[t].pc = "planning" \/ turn'[t].pc = "starting"
  BY <1>2
<1>5. turn'[t].pc = "starting" => SavedIn(s3, heap'[turn'[t].plan])
  BY <1>0, <1>2, SavedInItself DEF Held
<1>6. Holds(turn'[t], heap', s3')
  BY <1>1, <1>3, <1>4, <1>5 DEF Holds
<1>7. ASSUME NEW u \in Turns \ {t}
      PROVE  Holds(turn'[u], heap', s3')
  <2>1. turn'[u] = turn[u]
    BY <1>0, <1>1
  <2> QED
    BY <1>1, <2>1, StillHolds
<1>8. ASSUME NEW u \in Servers, cache'[u] # None
      PROVE  SavedIn(s3', heap'[cache'[u]])
  <2>1. CASE cache'[u] = cache[u]
    BY <1>1, <1>8, <2>1, StillCached
  <2>2. CASE cache'[u] # cache[u]
    <3>1. u = s /\ cache'[s] = turn'[t].plan /\ heap'[turn'[t].plan] = s3
      BY <1>0, <1>2, <2>2, SendCaches
    <3> QED
      BY <1>0, <1>1, <3>1, SavedInItself
  <2> QED
    BY <2>1, <2>2
<1> QED
  BY <1>6, <1>7, <1>8 DEF Held

(* What is given up holds nothing, and the rest goes on.                    *)
LEMMA ReloadHeld ==
  ASSUME Typed, Held, Onward(heap, heap', Kept(cache, turn, cache', turn')), Reload
  PROVE  Held'
<1>0. turn \in [Turns -> TurnStates]
  BY DEF Typed
<1>1. /\ s3' = s3 /\ cache' = cache
      /\ \A t \in Turns :
           \/ t # client.waiting /\ turn'[t] = turn[t]
           \/ turn'[t] = Idle
           \/ turn'[t] = Orphan(turn[t]) /\ turn[t].pc \in Threads
  BY ReloadShape
<1>2. ASSUME NEW t \in Turns
      PROVE  Holds(turn'[t], heap', s3')
  <2>1. CASE turn'[t] = turn[t]
    BY <1>1, <2>1, StillHolds
  <2>2. CASE turn'[t] = Idle
    BY <2>2, NothingHeld DEF Idle
  <2>3. CASE turn'[t] = Orphan(turn[t])
    <3>1. turn'[t].attached # TRUE
      BY <1>0, <2>3 DEF Orphan, TurnStates
    <3> QED
      BY <3>1, NothingHeld
  <2> QED
    BY <1>1, <2>1, <2>2, <2>3
<1>3. ASSUME NEW s \in Servers, cache'[s] # None
      PROVE  SavedIn(s3', heap'[cache'[s]])
  <2>1. cache'[s] = cache[s] /\ cache[s] # None
    BY <1>1, <1>3
  <2> QED
    BY <1>1, <2>1, StillCached
<1> QED
  BY <1>2, <1>3 DEF Held

LEMMA ServerHeld ==
  ASSUME Typed, Held, Onward(heap, heap', Kept(cache, turn, cache', turn')),
         NEW s \in Servers, Evict(s) \/ Restart(s)
  PROVE  Held'
<1>0. cache \in [Servers -> PlanIds \cup {None}]
  BY DEF Typed
<1>1. /\ s3' = s3 /\ cache' = [cache EXCEPT ![s] = None]
      /\ \A t \in Turns : turn'[t] \in {Idle, turn[t]}
  BY ServerShape
<1>2. ASSUME NEW t \in Turns
      PROVE  Holds(turn'[t], heap', s3')
  <2>1. CASE turn'[t] = turn[t]
    BY <1>1, <2>1, StillHolds
  <2>2. CASE turn'[t] = Idle
    BY <2>2, NothingHeld DEF Idle
  <2> QED
    BY <1>1, <2>1, <2>2
<1>3. ASSUME NEW u \in Servers, cache'[u] # None
      PROVE  SavedIn(s3', heap'[cache'[u]])
  <2>1. cache'[u] = cache[u] /\ cache[u] # None
    BY <1>0, <1>1, <1>3
  <2> QED
    BY <1>1, <2>1, StillCached
<1> QED
  BY <1>2, <1>3 DEF Held

LEMMA HeldStep ==
  ASSUME OneServer, Typed, Held, [Next]_vars
  PROVE  Held'
<1>1. Onward(heap, heap', Kept(cache, turn, cache', turn'))
  BY TypedStep
<1>2. CASE Next
  BY <1>1, <1>2, TurnHeld, SendHeld, ReloadHeld, ServerHeld DEF Next
<1>3. CASE UNCHANGED vars
  BY <1>3 DEF vars, Held
<1> QED
  BY <1>2, <1>3

(* What is written over the saved plan has all that it had for good.        *)
LEMMA KeptStep ==
  ASSUME Typed, Held, [Next]_vars, s3' # s3, s3 # NoPlan, s3'.replans <= s3.replans + 1
  PROVE  Gathered(s3) \ AskedAgain(s3)
           \subseteq Gathered(s3') \cup
                     IF s3'.replans <= s3.replans THEN {} ELSE Reworked(s3, s3')
<1>1. PICK t \in Turns : SavePlan(t)
  <2>1. Next
    BY DEF vars
  <2>2. ASSUME NEW t \in Turns, Turn(t)
        PROVE  SavePlan(t)
    BY <2>2, TurnShape
  <2>3. ASSUME NEW s \in Servers, Evict(s) \/ Restart(s)
        PROVE  FALSE
    BY <2>3, ServerShape
  <2>4. ASSUME NEW t \in Turns, NEW s \in Servers, Send(t, s)
        PROVE  FALSE
    BY <2>4, SendShape
  <2>5. ASSUME Reload
        PROVE  FALSE
    BY <2>5, ReloadShape
  <2> QED
    BY <2>1, <2>2, <2>3, <2>4, <2>5 DEF Next
<1>2. PICK p \in Plans :
        /\ Follows(heap[turn[t].plan], p) /\ turn[t].attached = TRUE /\ s3' \in {s3, p}
  BY <1>1, SavePlanFacts
<1>3. turn[t].pc \in {"planned", "executed"} /\ Holds(turn[t], heap, s3)
  BY <1>1 DEF SavePlan, Held
<1>4. SavedIn(s3, p)
  BY <1>2, <1>3, SavedInFollows DEF Holds
<1>5. Keeps(s3, s3')
  BY <1>2, <1>4 DEF SavedIn
<1>6. s3.replans \in Nat /\ s3'.replans \in Nat
  BY <1>2, PlanFields DEF Typed
<1>7. CASE s3'.replans <= s3.replans
  <2>1. s3'.replans = s3.replans
    BY <1>5, <1>6, <1>7 DEF Keeps
  <2> QED
    BY <1>5, <1>7, <2>1 DEF Keeps, Firm
<1>8. CASE ~(s3'.replans <= s3.replans)
  <2>1. s3'.replans = s3.replans + 1
    BY <1>5, <1>6, <1>8 DEF Keeps
  <2> QED
    BY <1>5, <1>8, <2>1 DEF Keeps, Firm
<1> QED
  BY <1>7, <1>8

(* On one server, no write of the saved plan loses a field that it had      *)
(* gathered, unless the field is being asked again or the planner of a      *)
(* re-plan reworked it (it is bound by no rule: what it fills in overwrites *)
(* answers): not a revert of invalid answers, not a field that a re-plan    *)
(* leaves out, not a thread that comes late, not a server that lost its     *)
(* memory. Two saved plans with more than one re-plan between them are not  *)
(* compared.                                                                *)
THEOREM AnswersAlwaysKept ==
  ASSUME OneServer
  PROVE  Spec => AnswersKept
<1>1. Init => Held
  BY DEF Init, Held, Holds, Idle
<1>2. Typed /\ Held /\ [Next]_vars => Held'
  BY HeldStep
<1>3. Typed /\ Held /\ [Next]_vars =>
        [s3 # NoPlan /\ s3'.replans <= s3.replans + 1 =>
           Gathered(s3) \ AskedAgain(s3)
             \subseteq Gathered(s3') \cup
                       IF s3'.replans <= s3.replans THEN {} ELSE Reworked(s3, s3')]_s3
  BY KeptStep
<1> QED
  BY <1>1, <1>2, <1>3, AlwaysTyped, PTL DEF Spec, AnswersKept
=============================================================================
