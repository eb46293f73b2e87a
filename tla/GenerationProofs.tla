--------------------------- MODULE GenerationProofs ---------------------------
(***************************************************************************)
(* What is proved of the generation: the order in which layers are made    *)
(* and the wiring of their imports, what a round of fixes mends, which     *)
(* template the loop that validates and fixes returns, and that the        *)
(* predefined plans merge. The types of the whole deployment come here     *)
(* too, since they need all of it.                                         *)
(***************************************************************************)
EXTENDS DeploymentProofs

-----------------------------------------------------------------------------
(* The groups of layers.                                                    *)

(* The recursion of GroupsAfter ends, since every call has taken a layer    *)
(* more, and so the function is what its definition says.                   *)
LEMMA GroupsEquation ==
  ASSUME NEW plan0, NEW N \in Nat, DOMAIN plan0 = 1 .. N
  PROVE  /\ GroupsAfter(plan0) \in [SUBSET DOMAIN plan0 -> Seq(SUBSET DOMAIN plan0)]
         /\ \A taken \in SUBSET DOMAIN plan0 :
              GroupsAfter(plan0)[taken] =
                IF taken = DOMAIN plan0 THEN <<>>
                ELSE IF Ready(plan0, taken) = {} THEN << DOMAIN plan0 \ taken >>
                ELSE << Ready(plan0, taken) >> \o GroupsAfter(plan0)[taken \cup Ready(plan0, taken)]
<1> DEFINE D == DOMAIN plan0
           S == SUBSET D
           V == Seq(S)
           R(taken) == Ready(plan0, taken)
           Base == {taken \in S : taken = D \/ R(taken) = {}}
           base == [taken \in Base |-> IF taken = D THEN <<>> ELSE << D \ taken >>]
           next == [taken \in S \ Base |-> taken \cup R(taken)]
           step == [x \in (S \ Base) \X V |-> << R(x[1]) >> \o x[2]]
           rank == [taken \in S |-> Cardinality(D \ taken)]
           Body(f, taken) == IF taken = D THEN <<>>
                             ELSE IF R(taken) = {} THEN << D \ taken >>
                             ELSE << R(taken) >> \o f[taken \cup R(taken)]
<1>1. IsFiniteSet(D) /\ Cardinality(D) = N
  <2>1. IsFiniteSet(1 .. N) /\ Cardinality(1 .. N) = N
    BY FS_Interval
  <2> QED
    BY <2>1
<1>2. \A taken \in S : R(taken) \in S /\ R(taken) \cap taken = {}
  BY DEF Ready
<1>3. rank \in [S -> 0 .. N]
  <2>1. ASSUME NEW taken \in S
        PROVE  Cardinality(D \ taken) \in 0 .. N
    <3>1. /\ IsFiniteSet(D \ taken) /\ Cardinality(D \ taken) <= Cardinality(D)
      BY <1>1, FS_Subset
    <3> QED
      BY <1>1, <3>1, FS_CardinalityType
  <2> QED
    BY <2>1
<1>4. base \in [Base -> V]
  <2>1. ASSUME NEW taken \in S
        PROVE  << D \ taken >> \in V /\ << >> \in V
    OBVIOUS
  <2> QED
    BY <2>1
<1>5. next \in [S \ Base -> S]
  BY <1>2
<1>6. step \in [(S \ Base) \X V -> V]
  <2>1. ASSUME NEW taken \in S, NEW v \in V
        PROVE  << R(taken) >> \o v \in V
    <3>1. << R(taken) >> \in V
      BY <1>2
    <3> HIDE DEF S, R
    <3> QED
      BY <3>1, ConcatProperties
  <2> QED
    BY <2>1
<1>7. ASSUME NEW taken \in S \ Base
      PROVE  rank[next[taken]] < rank[taken]
  <2>1. /\ D \ next[taken] \subseteq D \ taken /\ D \ next[taken] # D \ taken
        /\ next[taken] \in S
    BY <1>2
  <2>2. IsFiniteSet(D \ taken) /\ IsFiniteSet(D \ next[taken])
    BY <1>1, FS_Subset
  <2>3. Cardinality(D \ next[taken]) < Cardinality(D \ taken)
    <3>1. /\ Cardinality(D \ next[taken]) <= Cardinality(D \ taken)
          /\ Cardinality(D \ next[taken]) # Cardinality(D \ taken)
      BY <2>1, <2>2, FS_Subset
    <3> QED
      BY <2>2, <3>1, FS_CardinalityType
  <2> QED
    BY <2>1, <2>3
<1> HIDE DEF base, next, step, rank, Base
<1>8. PICK f \in [S -> V] :
        f = [s \in S |-> IF s \in Base THEN base[s] ELSE step[<< s, f[next[s]] >>]]
  <2>1. Base \in SUBSET S
    BY DEF Base
  <2>2. \A s \in S \ Base : rank[next[s]] < rank[s]
    BY <1>7
  <2>3. Recursion(S, V, N, rank, Base, base, next, step)
    BY <1>3, <1>4, <1>5, <1>6, <2>1, <2>2 DEF Recursion
  <2> HIDE DEF S, V
  <2> QED
    BY <2>3, RecursionExists
<1>9. \A taken \in S : f[taken] = Body(f, taken)
  <2> SUFFICES ASSUME NEW taken \in S PROVE f[taken] = Body(f, taken)
    OBVIOUS
  <2>1. CASE taken \in Base
    <3>1. f[taken] = base[taken]
      BY <1>8, <2>1
    <3> QED
      BY <2>1, <3>1 DEF base, Base
  <2>2. CASE taken \notin Base
    <3>1. f[taken] = step[<< taken, f[next[taken]] >>]
      BY <1>8, <2>2
    <3>2. next[taken] = taken \cup R(taken) /\ next[taken] \in S
      BY <1>5, <2>2 DEF next
    <3>3. << taken, f[next[taken]] >> \in (S \ Base) \X V
      BY <1>8, <2>2, <3>2
    <3>4. f[taken] = << R(taken) >> \o f[taken \cup R(taken)]
      BY <3>1, <3>2, <3>3 DEF step
    <3> QED
      BY <2>2, <3>4 DEF Base
  <2> QED
    BY <2>1, <2>2
<1>10. f = [taken \in S |-> Body(f, taken)]
  BY <1>8, <1>9
<1>11. GroupsAfter(plan0) = [taken \in S |-> Body(GroupsAfter(plan0), taken)]
  <2> HIDE DEF S, V
  <2> QED
    BY <1>10 DEF GroupsAfter, S
<1> DEFINE g == GroupsAfter(plan0)
           P == {taken \in S : g[taken] = f[taken]}
<1>12. S \subseteq P
  <2>1. ASSUME NEW taken \in S,
               \A t \in S : rank[t] < rank[taken] => t \in P
        PROVE  taken \in P
    <3>1. g[taken] = Body(g, taken)
      BY <1>11
    <3>2. CASE taken \in Base
      BY <1>9, <3>1, <3>2 DEF Base
    <3>3. CASE taken \notin Base
      <4>1. taken \cup R(taken) \in P
        <5>1. next[taken] = taken \cup R(taken) /\ next[taken] \in S
          BY <1>5, <3>3 DEF next
        <5>2. rank[next[taken]] < rank[taken]
          BY <1>7, <3>3
        <5> QED
          BY <2>1, <5>1, <5>2
      <4>2. g[taken \cup R(taken)] = f[taken \cup R(taken)]
        BY <4>1
      <4> HIDE DEF g, R
      <4> QED
        BY <1>9, <3>1, <4>2
    <3> QED
      BY <3>2, <3>3
  <2>2. rank \in [S -> Nat]
    BY <1>3
  <2>3. \A taken \in S : (\A t \in S : rank[t] < rank[taken] => t \in P) => taken \in P
    BY <2>1
  <2> HIDE DEF S, P
  <2> QED
    BY <2>2, <2>3, RankInduction, Zenon
<1>13. g \in [S -> V] /\ \A taken \in S : g[taken] = Body(g, taken)
  <2>1. \A taken \in S : g[taken] \in V
    BY <1>12
  <2>2. g = [taken \in S |-> g[taken]]
    BY <1>11
  <2> HIDE DEF g, V, S
  <2>3. g \in [S -> V]
    BY <2>1, <2>2
  <2> QED
    BY <1>11, <2>3 DEF g
<1> QED
  BY <1>13

-----------------------------------------------------------------------------
(* The layers of a task.                                                    *)

(* The drafts d of a plan p are those of the layers of these names.         *)
Drafted(p, d, names) ==
  /\ DOMAIN d = names
  /\ \A n \in names : \E slip \in Slips : d[n] = Draft(GetLayer(p, n), slip)

(* Between two groups: the layers taken are those of the groups before, and *)
(* the groups from here on are those that the recursion gives after them.   *)
Between(p, d, g, taken) ==
  LET groups == ParallelizableGroups(p)
      next == GroupsAfter(p)[taken]
  IN  /\ taken # DOMAIN p
      /\ g \in Nat \ {0}
      /\ taken = UNION {groups[k] : k \in 1 .. g - 1}
      /\ Drafted(p, d, Names(p, taken))
      /\ Len(groups) = g - 1 + Len(next)
      /\ \A k \in 1 .. Len(next) : groups[g - 1 + k] = next[k]

LayersInv ==
  /\ phase \in {"idle", "choose", "parameterize", "compose", "plan", "ended"} =>
       plan = NoPlan /\ drafts = NoDrafts /\ group = 1
  /\ phase \in {"layers", "specs", "merge"} => IsLayerPlan(plan)
  /\ phase = "layers" => \E taken \in SUBSET DOMAIN plan : Between(plan, drafts, group, taken)
  /\ phase \in {"specs", "merge"} => Drafted(plan, drafts, Names(plan, DOMAIN plan))
  /\ phase \in {"validate", "fix", "check", "revalidate"} =>
       \/ plan = NoPlan /\ drafts = NoDrafts
       \/ IsLayerPlan(plan) /\ Drafted(plan, drafts, Names(plan, DOMAIN plan))

(* What is a sequence is one of its own members.                            *)
LEMMA OwnMembers ==
  ASSUME NEW S, NEW s \in Seq(S)
  PROVE  s \in Seq(ToSet(s))
<1>1. Len(s) \in Nat /\ DOMAIN s = 1 .. Len(s)
  BY LenProperties
<1>2. s \in [1 .. Len(s) -> S]
  BY <1>1, SeqDef
<1>3. s \in [1 .. Len(s) -> ToSet(s)]
  BY <1>1, <1>2 DEF ToSet
<1> QED
  BY <1>1, <1>3, SeqDef

IsList(s) == \E T : s \in Seq(T)

LEMMA ImportsListed ==
  ASSUME NEW source, NEW names, IsList(names)
  PROVE  IsList(Imports(source, names))
<1> PICK S : names \in Seq(S)
  BY DEF IsList
<1> DEFINE I(n) == [name |-> n, source |-> source, parameter |-> n]
           T == {I(names[i]) : i \in 1 .. Len(names)}
<1>1. Len(names) \in Nat /\ DOMAIN names = 1 .. Len(names)
  BY LenProperties
<1>2. Imports(source, names) \in [1 .. Len(names) -> T]
  BY <1>1 DEF Imports
<1> HIDE DEF T
<1> QED
  BY <1>1, <1>2, SeqDef DEF IsList

LEMMA Joined ==
  ASSUME NEW s, NEW t, IsList(s), IsList(t)
  PROVE  IsList(s \o t)
<1>1. PICK S, T : s \in Seq(S) /\ t \in Seq(T)
  BY DEF IsList
<1>2. s \in Seq(S \cup T) /\ t \in Seq(S \cup T)
  BY <1>1, SeqMonotonic
<1> QED
  BY <1>2, ConcatProperties DEF IsList

LEMMA Tuples ==
  ASSUME NEW a, NEW b, NEW c, NEW d, NEW e
  PROVE  /\ IsList(<<>>) /\ IsList(<< a >>) /\ IsList(<< a, b >>) /\ IsList(<< a, b, c >>)
         /\ IsList(<< a, b, c, d >>) /\ IsList(<< a, b, c, d, e >>)
<1> DEFINE T == {a, b, c, d, e}
<1>1. /\ <<>> \in Seq(T) /\ << a >> \in Seq(T) /\ << a, b >> \in Seq(T) /\ << a, b, c >> \in Seq(T)
      /\ << a, b, c, d >> \in Seq(T) /\ << a, b, c, d, e >> \in Seq(T)
  OBVIOUS
<1> QED
  BY <1>1 DEF IsList

Listed(layer) == IsList(layer.imports) /\ IsList(layer.exports)

LEMMA LayerListed ==
  ASSUME NEW n, NEW imports, NEW exports, IsList(imports), IsList(exports)
  PROVE  Listed(Layer(n, imports, exports))
BY DEF Listed, Layer

LEMMA PlanListed ==
  ASSUME NEW S, NEW p \in Seq(S), p # <<>>, \A layer \in S : Listed(layer)
  PROVE  IsLayerPlan(p)
<1>1. p \in Seq(ToSet(p))
  BY OwnMembers
<1>2. \A layer \in ToSet(p) : layer \in S
  BY LenProperties, ElementOfSeq DEF ToSet
<1> QED
  BY <1>1, <1>2, OwnMembers DEF IsLayerPlan, Listed, IsList

LEMMA PlansOfLayers ==
  ASSUME NEW a, NEW b, NEW c, NEW d, NEW e,
         Listed(a), Listed(b), Listed(c)
  PROVE  /\ IsLayerPlan(<< a, b, c >>)
         /\ Listed(d) => IsLayerPlan(<< a, b, c, d >>)
         /\ Listed(d) /\ Listed(e) => IsLayerPlan(<< a, b, c, d, e >>)
<1> DEFINE three == << a, b, c >>
           four == << a, b, c, d >>
           five == << a, b, c, d, e >>
           S == {a, b, c}
           T == {a, b, c, d, e}
<1>1. three \in Seq(S) /\ three # <<>>
  OBVIOUS
<1>2. four \in Seq(S \cup {d}) /\ four # <<>>
  OBVIOUS
<1>3. five \in Seq(T) /\ five # <<>>
  OBVIOUS
<1>4. /\ \A layer \in S : Listed(layer)
      /\ Listed(d) => \A layer \in S \cup {d} : Listed(layer)
      /\ Listed(d) /\ Listed(e) => \A layer \in T : Listed(layer)
  OBVIOUS
<1> HIDE DEF three, four, five, S, T
<1>5. /\ IsLayerPlan(three)
      /\ Listed(d) => IsLayerPlan(four)
      /\ Listed(d) /\ Listed(e) => IsLayerPlan(five)
  BY <1>1, <1>2, <1>3, <1>4, PlanListed
<1> QED
  BY <1>5 DEF three, four, five

LEMMA PredefinedListed ==
  /\ IsLayerPlan(SingleInstancePlan) /\ IsLayerPlan(AutoScalingFleetPlan)
  /\ IsLayerPlan(BatchProcessingPlan) /\ IsLayerPlan(DistributedTrainingPlan)
<1>1. IsList(FoundationExports) /\ IsList(SecurityExports)
  BY Tuples DEF FoundationExports, SecurityExports
<1>2. IsList(FoundationExportsDualAz)
  BY <1>1, Tuples, Joined DEF FoundationExportsDualAz
<1>3. IsLayerPlan(SingleInstancePlan)
  BY <1>1, Tuples, Joined, ImportsListed, LayerListed, PlansOfLayers DEF SingleInstancePlan
<1>4. IsLayerPlan(AutoScalingFleetPlan)
  BY <1>1, <1>2, Tuples, Joined, ImportsListed, LayerListed, PlansOfLayers DEF AutoScalingFleetPlan
<1>5. IsLayerPlan(BatchProcessingPlan)
  BY <1>1, Tuples, Joined, ImportsListed, LayerListed, PlansOfLayers DEF BatchProcessingPlan
<1>6. IsLayerPlan(DistributedTrainingPlan)
  BY <1>1, Tuples, Joined, ImportsListed, LayerListed, PlansOfLayers DEF DistributedTrainingPlan
<1> QED
  BY <1>3, <1>4, <1>5, <1>6

(* The plan that a pattern is given is one of the four.                     *)
LEMMA ChosenPredefined ==
  ASSUME NEW pattern, IsPredefined(pattern)
  PROVE  GetPredefinedPlan(pattern) \in
           {SingleInstancePlan, AutoScalingFleetPlan, BatchProcessingPlan, DistributedTrainingPlan}
<1>1. DOMAIN PredefinedPatterns = 1 .. 16
  BY DEF PredefinedPatterns
<1>2. Candidates(pattern) \subseteq DOMAIN PredefinedPatterns
  BY DEF Candidates
<1>3. Candidates(pattern) \in SUBSET Nat /\ Candidates(pattern) # {}
  BY <1>1, <1>2 DEF IsPredefined
<1>4. PICK i \in Candidates(pattern) : GetPredefinedPlan(pattern) = PredefinedPatterns[i][2]
  <2>1. (CHOOSE i \in Candidates(pattern) : \A j \in Candidates(pattern) : i <= j) \in Candidates(pattern)
    BY <1>3, LeastChosen
  <2> QED
    BY <2>1 DEF GetPredefinedPlan
<1>5. \A k \in 1 .. 16 : PredefinedPatterns[k][2] \in
        {SingleInstancePlan, AutoScalingFleetPlan, BatchProcessingPlan, DistributedTrainingPlan}
  BY DEF PredefinedPatterns
<1> QED
  BY <1>1, <1>2, <1>4, <1>5

LEMMA PlanFacts ==
  ASSUME NEW p, IsLayerPlan(p)
  PROVE  /\ Len(p) \in Nat \ {0} /\ DOMAIN p = 1 .. Len(p)
         /\ \A i \in DOMAIN p : p[i] \in ToSet(p)
<1>1. p \in Seq(ToSet(p)) /\ p # <<>>
  BY DEF IsLayerPlan
<1> QED
  BY <1>1, LenProperties, EmptySeq, ElementOfSeq

LEMMA NothingTaken ==
  ASSUME NEW p, IsLayerPlan(p)
  PROVE  Between(p, NoDrafts, 1, {})
<1>1. Len(p) \in Nat \ {0} /\ DOMAIN p = 1 .. Len(p)
  BY PlanFacts
<1> DEFINE groups == ParallelizableGroups(p)
<1>2. groups \in Seq(SUBSET DOMAIN p)
  BY <1>1, GroupsEquation DEF ParallelizableGroups
<1>3. Len(groups) \in Nat
  BY <1>2, LenProperties
<1>4. groups = GroupsAfter(p)[{}]
  BY DEF ParallelizableGroups
<1>5. Drafted(p, NoDrafts, Names(p, {}))
  BY DEF Drafted, NoDrafts, Names
<1> HIDE DEF groups
<1>6. {} = UNION {groups[k] : k \in 1 .. 1 - 1}
  OBVIOUS
<1>7. Len(groups) = 1 - 1 + Len(groups) /\ \A k \in 1 .. Len(groups) : groups[1 - 1 + k] = groups[k]
  BY <1>3
<1>8. {} # DOMAIN p /\ 1 \in Nat \ {0}
  BY <1>1
<1> QED
  BY <1>4, <1>5, <1>6, <1>7, <1>8 DEF Between, groups

(* One group on: what the next group is, and that the layers left after it  *)
(* are those of the groups after it.                                        *)
GroupOn(p, g, taken) ==
  LET groups == ParallelizableGroups(p)
      more == taken \cup groups[g]
      next == GroupsAfter(p)[more]
  IN  /\ groups[g] \subseteq DOMAIN p
      /\ groups[g] = IF Ready(p, taken) = {} THEN DOMAIN p \ taken ELSE Ready(p, taken)
      /\ more = UNION {groups[k] : k \in 1 .. g}
      /\ ~(g < Len(groups)) => more = DOMAIN p
      /\ g < Len(groups) =>
           /\ more # DOMAIN p
           /\ Len(groups) = g + Len(next)
           /\ \A k \in 1 .. Len(next) : groups[g + k] = next[k]

LEMMA GroupTaken ==
  ASSUME NEW p, IsLayerPlan(p), NEW d, NEW g, NEW taken \in SUBSET DOMAIN p,
         Between(p, d, g, taken)
  PROVE  GroupOn(p, g, taken)
<1> DEFINE groups == ParallelizableGroups(p)
           D == DOMAIN p
           A == GroupsAfter(p)
           R == Ready(p, taken)
           V == Seq(SUBSET D)
           more == taken \cup groups[g]
<1>1. Len(p) \in Nat \ {0} /\ D = 1 .. Len(p)
  BY PlanFacts
<1>2. /\ A \in [SUBSET D -> V]
      /\ \A t \in SUBSET D : A[t] = IF t = D THEN <<>>
                                    ELSE IF Ready(p, t) = {} THEN << D \ t >>
                                    ELSE << Ready(p, t) >> \o A[t \cup Ready(p, t)]
  BY <1>1, GroupsEquation
<1>3. /\ taken # D /\ g \in Nat \ {0}
      /\ taken = UNION {groups[k] : k \in 1 .. g - 1}
      /\ Len(groups) = g - 1 + Len(A[taken])
      /\ \A k \in 1 .. Len(A[taken]) : groups[g - 1 + k] = A[taken][k]
  BY DEF Between
<1>4. R \in SUBSET D
  BY DEF Ready
<1> HIDE DEF groups, A, R, V, D
<1>5. A[taken] = IF R = {} THEN << D \ taken >> ELSE << R >> \o A[taken \cup R]
  <2>1. taken \in SUBSET D
    BY DEF D
  <2> QED
    BY <1>2, <1>3, <2>1 DEF R
<1>6. \A t \in SUBSET D : A[t] \in V /\ Len(A[t]) \in Nat
  BY <1>2, LenProperties DEF V
<1>7. more = UNION {groups[k] : k \in 1 .. g}
  <2>1. 1 .. g = (1 .. g - 1) \cup {g}
    BY <1>3
  <2> QED
    BY <1>3, <2>1
<1>8. CASE R = {}
  <2>1. A[taken] = << D \ taken >> /\ Len(A[taken]) = 1 /\ A[taken][1] = D \ taken
    BY <1>5, <1>8
  <2>2. 1 \in 1 .. Len(A[taken]) /\ g - 1 + 1 = g
    BY <1>3, <2>1
  <2>3. groups[g] = D \ taken /\ Len(groups) = g
    BY <1>3, <2>1, <2>2
  <2>4. ~(g < Len(groups))
    <3>1. g \in Nat
      BY <1>3
    <3>2. ~(g < g)
      BY <3>1
    <3> QED
      BY <2>3, <3>2
  <2>5. more = D
    <3>1. taken \subseteq D
      BY DEF D
    <3> QED
      BY <2>3, <3>1
  <2> QED
    BY <1>7, <1>8, <2>3, <2>4, <2>5 DEF GroupOn, groups, D, R
<1>9. CASE R # {}
  <2> DEFINE B == A[taken \cup R]
  <2>1. << R >> \in V /\ Len(<< R >>) = 1 /\ << R >>[1] = R
    BY <1>4 DEF V
  <2>2. taken \cup R \in SUBSET D /\ B \in V /\ Len(B) \in Nat
    BY <1>4, <1>6 DEF D
  <2> HIDE DEF B
  <2>3. /\ Len(A[taken]) = 1 + Len(B)
        /\ \A k \in 1 .. 1 + Len(B) : A[taken][k] = IF k <= 1 THEN R ELSE B[k - 1]
    <3>1. A[taken] = << R >> \o B
      BY <1>5, <1>9 DEF B
    <3>2. /\ Len(<< R >> \o B) = Len(<< R >>) + Len(B)
          /\ \A k \in 1 .. Len(<< R >>) + Len(B) :
               (<< R >> \o B)[k] = IF k <= Len(<< R >>) THEN << R >>[k] ELSE B[k - Len(<< R >>)]
      BY <2>1, <2>2, ConcatProperties DEF V
    <3>3. \A k \in 1 .. 1 + Len(B) : k <= 1 => k = 1
      BY <2>2
    <3> QED
      BY <2>1, <3>1, <3>2, <3>3
  <2>4. groups[g] = R
    <3>1. 1 \in 1 .. 1 + Len(B) /\ g - 1 + 1 = g /\ 1 <= 1
      BY <1>3, <2>2
    <3>2. A[taken][1] = R
      BY <2>3, <3>1
    <3>3. groups[g - 1 + 1] = A[taken][1]
      BY <1>3, <2>3, <3>1
    <3> QED
      BY <3>1, <3>2, <3>3
  <2>5. Len(groups) = g + Len(B) /\ \A k \in 1 .. Len(B) : groups[g + k] = B[k]
    <3>1. Len(groups) = g + Len(B)
      BY <1>3, <2>2, <2>3
    <3>2. ASSUME NEW k \in 1 .. Len(B)
          PROVE  groups[g + k] = B[k]
      <4>1. /\ k + 1 \in 1 .. 1 + Len(B) /\ g - 1 + (k + 1) = g + k
            /\ ~(k + 1 <= 1) /\ (k + 1) - 1 = k
        BY <1>3, <2>2
      <4>2. groups[g - 1 + (k + 1)] = A[taken][k + 1] /\ A[taken][k + 1] = B[(k + 1) - 1]
        BY <1>3, <2>3, <4>1
      <4> QED
        BY <4>1, <4>2
    <3> QED
      BY <3>1, <3>2
  <2>6. Len(B) = 0 <=> taken \cup R = D
    <3>1. CASE taken \cup R = D
      <4>1. B = <<>>
        BY <1>2, <2>2, <3>1 DEF B
      <4> QED
        BY <3>1, <4>1, EmptySeq
    <3>2. CASE taken \cup R # D
      <4> DEFINE t == taken \cup R
                 Q == Ready(p, t)
      <4>1. B = IF Q = {} THEN << D \ t >> ELSE << Q >> \o A[t \cup Q]
        BY <1>2, <2>2, <3>2 DEF B
      <4>2. CASE Q = {}
        <5>1. B = << D \ t >>
          BY <4>1, <4>2
        <5>2. Len(<< D \ t >>) = 1
          OBVIOUS
        <5> QED
          BY <3>2, <5>1, <5>2
      <4>3. CASE Q # {}
        <5>1. Q \in SUBSET D /\ t \cup Q \in SUBSET D
          BY <2>2 DEF Ready, D
        <5>2. << Q >> \in V /\ Len(<< Q >>) = 1
          BY <5>1 DEF V
        <5>3. A[t \cup Q] \in V /\ Len(A[t \cup Q]) \in Nat
          BY <1>6, <5>1
        <5> HIDE DEF Q, t
        <5>4. Len(<< Q >> \o A[t \cup Q]) = Len(<< Q >>) + Len(A[t \cup Q])
          BY <5>2, <5>3, ConcatProperties DEF V
        <5>5. Len(B) # 0
          BY <4>1, <4>3, <5>2, <5>3, <5>4
        <5> QED
          BY <3>2, <5>5
      <4> QED
        BY <4>2, <4>3
    <3> QED
      BY <3>1, <3>2
  <2>7. B = GroupsAfter(p)[taken \cup groups[g]]
    BY <2>4 DEF B, A
  <2>8. /\ ~(g < Len(groups)) => more = D
        /\ g < Len(groups) => more # D
    BY <1>3, <2>2, <2>4, <2>5, <2>6
  <2> QED
    BY <1>4, <1>7, <1>9, <2>4, <2>5, <2>7, <2>8 DEF GroupOn, groups, D, R
<1> QED
  BY <1>8, <1>9

(* What Redrafts gives, of any plan and drafts.                             *)
RedraftsOf(p, d, names, n) ==
  {[l \in DOMAIN d \cup names |->
      IF l \in DOMAIN f THEN Draft(GetLayer(p, l), f[l])
      ELSE IF l \in names THEN Draft(GetLayer(p, l), "none") ELSE d[l]] :
     f \in UNION {[S -> Slips \ {"none"}] : S \in kSubset(n, names)}}

LEMMA Redrafted ==
  ASSUME NEW p, NEW d, NEW names, NEW more, NEW n, Drafted(p, d, names),
         NEW new \in RedraftsOf(p, d, more, n)
  PROVE  Drafted(p, new, names \cup more)
<1> DEFINE F == UNION {[S -> Slips \ {"none"}] : S \in kSubset(n, more)}
<1>1. PICK f \in F : new = [l \in DOMAIN d \cup more |->
                              IF l \in DOMAIN f THEN Draft(GetLayer(p, l), f[l])
                              ELSE IF l \in more THEN Draft(GetLayer(p, l), "none") ELSE d[l]]
  BY DEF RedraftsOf
<1>2. PICK S : f \in [S -> Slips \ {"none"}]
  OBVIOUS
<1>3. \A l \in DOMAIN f : f[l] \in Slips
  BY <1>2
<1>4. DOMAIN d = names /\ \A l \in names : \E slip \in Slips : d[l] = Draft(GetLayer(p, l), slip)
  BY DEF Drafted
<1>5. "none" \in Slips
  BY DEF Slips
<1>6. DOMAIN new = names \cup more
  BY <1>1, <1>4
<1>7. \A l \in names \cup more : \E slip \in Slips : new[l] = Draft(GetLayer(p, l), slip)
  BY <1>1, <1>3, <1>4, <1>5
<1> QED
  BY <1>6, <1>7 DEF Drafted

(* Errors are mapped to layers that have a draft.                           *)
LEMMA ErrorsOfLayers ==
  ASSUME NEW p, NEW d
  PROVE  LayersInError(MergeLayers(p, d)) \subseteq DOMAIN d
<1> DEFINE merged == MergeLayers(p, d)
<1>1. DOMAIN merged.layers = DOMAIN d
  BY DEF MergeLayers
<1> HIDE DEF merged
<1>2. Owners(merged) \subseteq DOMAIN merged.layers
  BY DEF Owners, Flaws, Unplaced
<1>3. LayersInError(merged) \subseteq DOMAIN d
  BY <1>1, <1>2 DEF LayersInError
<1> QED
  BY <1>3 DEF merged

LEMMA LayersMoves ==
  ASSUME [Next]_vars
  PROVE  \/ phase' = "ended" /\ plan' = NoPlan /\ drafts' = NoDrafts /\ group' = 1
         \/ UNCHANGED << phase, layerVars >>
         \/ /\ UNCHANGED layerVars
            /\ phase \in {"idle", "choose", "ended"}
            /\ phase' \in {"idle", "choose", "parameterize", "compose", "plan"}
         \/ /\ UNCHANGED layerVars
            /\ phase \in {"parameterize", "compose", "validate", "check"}
            /\ phase' \in {"validate", "fix", "revalidate"}
         \/ /\ UNCHANGED layerVars
            /\ phase = "merge" /\ phase' = "validate" /\ MergedTemplates(drafts) # {}
         \/ UNCHANGED layerVars /\ phase = "fix" /\ phase' = "check" /\ plan = NoPlan
         \/ UsePredefinedPlan \/ UseCachedPlan \/ GenerateLayerPlan
         \/ GenerateGroup \/ FixSpecs \/ FixLayers
<1>1. CASE GenerateStep
  <2>1. CASE ChoosePath \/ Refused \/ GenerationFails \/ ExpirePlan
    BY <2>1 DEF ChoosePath, Refused, GenerationFails, ExpirePlan, EndTask, ResolvePath
  <2>2. CASE ParameterizeTemplate
    BY <2>2 DEF ParameterizeTemplate, EndTask, EnterLoop
  <2>3. CASE ComposeSnippets
    BY <2>3 DEF ComposeSnippets, EndTask, EnterLoop
  <2>4. CASE Merge
    BY <2>4 DEF Merge, EndTask, EnterLoop
  <2>5. CASE Validate
    BY <2>5 DEF Validate, EndTask
  <2>6. CASE Revalidate \/ FixTemplateYaml \/ FixRaises \/ CheckFix
    BY <2>6 DEF Revalidate, FixTemplateYaml, FixRaises, CheckFix, EndTask
  <2> QED
    BY <1>1, <2>1, <2>2, <2>3, <2>4, <2>5, <2>6 DEF GenerateStep, GenWork
<1>2. CASE StartIac \/ FinishIac
  BY <1>2 DEF StartIac, FinishIac, GenBegin, GenEnd, BetweenTasks
<1>3. CASE \/ \E p \in Projects : OpenProject(p)
           \/ Redesign \/ SelectDesign \/ LoadForRefine \/ SaveRefined
           \/ StartDocumentation \/ RegenerateSection \/ DocumentStep
  BY <1>3 DEF OpenProject, Redesign, SelectDesign, LoadForRefine, SaveRefined,
       StartDocumentation, RegenerateSection, DocumentStep, genVars, layerVars
<1>4. CASE UNCHANGED vars
  BY <1>4 DEF vars, genVars, layerVars
<1> QED
  BY <1>1, <1>2, <1>3, <1>4 DEF Next

LEMMA LayersStart ==
  ASSUME LayersInv, phase = "plan", NEW p, IsLayerPlan(p), StartLayers(p)
  PROVE  LayersInv'
<1>1. /\ plan' = p /\ phase' = "layers" /\ drafts' = NoDrafts /\ group' = 1
  BY DEF StartLayers, LayersInv
<1>2. Between(p, NoDrafts, 1, {}) /\ {} \in SUBSET DOMAIN p
  BY NothingTaken
<1> QED
  BY <1>1, <1>2 DEF LayersInv

LEMMA LayersGroup ==
  ASSUME LayersInv, GenerateGroup
  PROVE  LayersInv'
<1>1. /\ phase = "layers" /\ plan' = plan /\ group' = group + 1
      /\ phase' = IF group < Len(Groups) THEN "layers" ELSE "specs"
  BY DEF GenerateGroup
<1>2. PICK n \in 0 .. MaxMishaps : drafts' \in RedraftsOf(plan, drafts, Names(plan, Groups[group]), n)
  BY DEF GenerateGroup, Redrafts, RedraftsOf
<1>3. IsLayerPlan(plan)
  BY <1>1 DEF LayersInv
<1>4. PICK taken \in SUBSET DOMAIN plan : Between(plan, drafts, group, taken)
  BY <1>1 DEF LayersInv
<1> DEFINE groups == ParallelizableGroups(plan)
           more == taken \cup groups[group]
           next == GroupsAfter(plan)[more]
<1>5. /\ groups[group] \subseteq DOMAIN plan
      /\ more = UNION {groups[k] : k \in 1 .. group}
      /\ ~(group < Len(groups)) => more = DOMAIN plan
      /\ group < Len(groups) =>
           /\ more # DOMAIN plan
           /\ Len(groups) = group + Len(next)
           /\ \A k \in 1 .. Len(next) : groups[group + k] = next[k]
  <2>1. GroupOn(plan, group, taken)
    BY <1>3, <1>4, GroupTaken
  <2> QED
    BY <2>1 DEF GroupOn
<1>6. group \in Nat \ {0} /\ Drafted(plan, drafts, Names(plan, taken))
  BY <1>4 DEF Between
<1>7. more \in SUBSET DOMAIN plan
  BY <1>5
<1>8. Drafted(plan, drafts', Names(plan, more))
  <2>1. Drafted(plan, drafts', Names(plan, taken) \cup Names(plan, groups[group]))
    BY <1>2, <1>6, Redrafted DEF Groups
  <2>2. Names(plan, taken) \cup Names(plan, groups[group]) = Names(plan, more)
    BY DEF Names
  <2> QED
    BY <2>1, <2>2
<1> HIDE DEF more
<1>9. CASE group < Len(groups)
  <2>1. phase' = "layers"
    BY <1>1, <1>9 DEF Groups
  <2> DEFINE g == group + 1
  <2>2. g - 1 = group /\ g \in Nat \ {0}
    BY <1>6
  <2> HIDE DEF g, groups, next
  <2>3. Between(plan, drafts', g, more)
    <3>1. /\ more # DOMAIN plan
          /\ more = UNION {groups[k] : k \in 1 .. g - 1}
          /\ Len(groups) = g - 1 + Len(next)
          /\ \A k \in 1 .. Len(next) : groups[g - 1 + k] = next[k]
      BY <1>5, <1>9, <2>2
    <3> QED
      BY <1>8, <2>2, <3>1 DEF Between, groups, next
  <2> QED
    BY <1>1, <1>3, <1>7, <2>1, <2>3 DEF LayersInv, g
<1>10. CASE ~(group < Len(groups))
  <2>1. phase' = "specs" /\ more = DOMAIN plan
    BY <1>1, <1>5, <1>10 DEF Groups
  <2> QED
    BY <1>1, <1>3, <1>8, <2>1 DEF LayersInv
<1> QED
  BY <1>9, <1>10

(* A fix redrafts layers that have a draft.                                 *)
LEMMA LayersFixed ==
  ASSUME LayersInv, CacheInv, FixSpecs \/ FixLayers
  PROVE  LayersInv'
<1> DEFINE all == Names(plan, DOMAIN plan)
<1>1. CASE FixSpecs
  <2>1. phase = "specs" /\ phase' = "merge" /\ plan' = plan
    BY <1>1 DEF FixSpecs
  <2> DEFINE faulty == {l \in DOMAIN drafts : Dangling(drafts[l]) # {}}
  <2>2. PICK n : drafts' \in RedraftsOf(plan, drafts, faulty, n)
    BY <1>1 DEF FixSpecs, Redrafts, RedraftsOf
  <2>3. IsLayerPlan(plan) /\ Drafted(plan, drafts, all)
    BY <2>1 DEF LayersInv
  <2>4. all \cup faulty = all
    BY <2>3 DEF Drafted
  <2> HIDE DEF faulty, all
  <2>5. Drafted(plan, drafts', all \cup faulty)
    BY <2>2, <2>3, Redrafted
  <2> QED
    BY <2>1, <2>3, <2>4, <2>5 DEF LayersInv, all
<1>2. CASE FixLayers
  <2>1. phase = "fix" /\ plan # NoPlan
    BY <1>2 DEF FixLayers
  <2> DEFINE faulty == LayersInError(MergeLayers(plan, drafts))
  <2>2. CASE phase' = "ended" /\ plan' = NoPlan /\ drafts' = NoDrafts /\ group' = 1
    BY <2>2 DEF LayersInv
  <2>3. CASE /\ phase' = "check" /\ plan' = plan
             /\ \E n : drafts' \in RedraftsOf(plan, drafts, faulty, n)
    <3>1. PICK n : drafts' \in RedraftsOf(plan, drafts, faulty, n)
      BY <2>3
    <3>2. IsLayerPlan(plan) /\ Drafted(plan, drafts, all)
      BY <2>1 DEF LayersInv
    <3>3. all \cup faulty = all
      BY <3>2, ErrorsOfLayers DEF Drafted
    <3> HIDE DEF faulty, all
    <3>4. Drafted(plan, drafts', all \cup faulty)
      BY <3>1, <3>2, Redrafted
    <3> QED
      BY <2>3, <3>2, <3>3, <3>4 DEF LayersInv, all
  <2> QED
    BY <1>2, <2>2, <2>3 DEF FixLayers, EndTask, Redrafts, RedraftsOf
<1> QED
  BY <1>1, <1>2

LEMMA LayersSteps ==
  ASSUME LayersInv, CacheInv, [Next]_vars
  PROVE  LayersInv'
<1>1. CASE phase' = "ended" /\ plan' = NoPlan /\ drafts' = NoDrafts /\ group' = 1
  BY <1>1 DEF LayersInv
<1>2. CASE UNCHANGED << phase, layerVars >>
  BY <1>2 DEF LayersInv, layerVars
<1>3. CASE /\ UNCHANGED layerVars
           /\ phase \in {"idle", "choose", "ended"}
           /\ phase' \in {"idle", "choose", "parameterize", "compose", "plan"}
  BY <1>3 DEF LayersInv, layerVars
<1>4. CASE /\ UNCHANGED layerVars
           /\ \/ phase \in {"parameterize", "compose", "validate", "check"}
              \/ phase = "merge"
           /\ phase' \in {"validate", "fix", "revalidate"}
  BY <1>4 DEF LayersInv, layerVars
<1>5. CASE UNCHANGED layerVars /\ phase = "fix" /\ phase' = "check"
  BY <1>5 DEF LayersInv, layerVars
<1>6. CASE UsePredefinedPlan
  <2>1. IsLayerPlan(GetPredefinedPlan(job.pattern))
    BY <1>6, ChosenPredefined, PredefinedListed DEF UsePredefinedPlan
  <2> QED
    BY <1>6, <2>1, LayersStart DEF UsePredefinedPlan
<1>7. CASE UseCachedPlan
  <2>1. PICK i \in DOMAIN cache : StartLayers(cache[i].plan)
    BY <1>7 DEF UseCachedPlan, Entries
  <2>2. PICK K : cache \in Seq(CacheEntries(K))
    BY DEF CacheInv
  <2>3. cache[i] \in CacheEntries(K)
    BY <2>1, <2>2, ElementOfSeq, LenProperties
  <2>4. IsLayerPlan(cache[i].plan)
    BY <2>3, PlansAssumption DEF CacheEntries
  <2> QED
    BY <1>7, <2>1, <2>4, LayersStart DEF UseCachedPlan
<1>8. CASE GenerateLayerPlan
  BY <1>8, PlansAssumption, LayersStart DEF GenerateLayerPlan
<1>9. CASE GenerateGroup
  BY <1>9, LayersGroup
<1>10. CASE FixSpecs \/ FixLayers
  BY <1>10, LayersFixed
<1> QED
  BY <1>1, <1>2, <1>3, <1>4, <1>5, <1>6, <1>7, <1>8, <1>9, <1>10, LayersMoves

LEMMA LayersAlways == Spec => [](CacheInv /\ LayersInv)
<1>1. Init => LayersInv
  BY DEF Init, GenInit, LayersInv
<1> QED
  BY <1>1, CacheAlways, CacheSteps, LayersSteps, PTL DEF Spec

(* However a plan's layers depend on each other, by cycles and by sources   *)
(* that are no layers too: a group is generated when all that it imports    *)
(* from has been, or when no layer left is in that case, and the spec check *)
(* and the merge find a draft of every layer.                               *)
THEOREM LayersInOrder == Spec => []LayerOrder
<1>1. LayersInv => LayerOrder
  <2> SUFFICES ASSUME LayersInv PROVE LayerOrder
    OBVIOUS
  <2>1. ASSUME phase = "layers"
        PROVE  LET done == DOMAIN drafts
                   left == DOMAIN plan \ UNION {Groups[k] : k \in 1 .. group - 1}
               IN  \/ \A i \in Groups[group] : Sources(plan[i]) \subseteq done
                   \/ /\ \A i \in left : ~(Sources(plan[i]) \subseteq done)
                      /\ Groups[group] = left
    <3>1. PICK taken \in SUBSET DOMAIN plan : Between(plan, drafts, group, taken)
      BY <2>1 DEF LayersInv
    <3>2. IsLayerPlan(plan)
      BY <2>1 DEF LayersInv
    <3>3. Groups[group] = IF Ready(plan, taken) = {} THEN DOMAIN plan \ taken ELSE Ready(plan, taken)
      <4>1. GroupOn(plan, group, taken)
        BY <3>1, <3>2, GroupTaken
      <4> QED
        BY <4>1 DEF GroupOn, Groups
    <3>4. /\ DOMAIN drafts = Names(plan, taken)
          /\ taken = UNION {Groups[k] : k \in 1 .. group - 1}
      BY <3>1 DEF Between, Drafted, Groups
    <3> QED
      BY <3>3, <3>4 DEF Ready
  <2>2. phase \in {"specs", "merge"} => DOMAIN drafts = Names(plan, DOMAIN plan)
    BY DEF LayersInv, Drafted
  <2> QED
    BY <2>1, <2>2 DEF LayerOrder
<1> QED
  BY <1>1, LayersAlways, PTL

-----------------------------------------------------------------------------
(* The loop that validates and fixes.                                       *)

(* What is counted as errors: places, each of a layer or resource.          *)
LEMMA FinitePlaces ==
  ASSUME NEW S, IsFiniteSet(S), NEW f, f = [x \in S |-> f[x]], \A x \in S : IsFiniteSet(f[x])
  PROVE  Cardinality(UNION {{x} \X f[x] : x \in S}) \in Nat
<1> DEFINE g == [x \in S |-> {x} \X f[x]]
<1>1. \A x \in S : IsFiniteSet(g[x])
  BY FS_Singleton, FS_Product
<1>2. g = [x \in S |-> g[x]]
  OBVIOUS
<1>3. UNION {{x} \X f[x] : x \in S} = UNION {g[x] : x \in S}
  OBVIOUS
<1> HIDE DEF g
<1>4. IsFiniteSet(UNION {g[x] : x \in S})
  BY <1>1, <1>2, FiniteUnion
<1> QED
  BY <1>3, <1>4, FS_CardinalityType

(* The errors of a template composed from some of the snippets.             *)
LEMMA ComposedCounted ==
  ASSUME NEW p \in AssemblyPlans, NEW I \in SUBSET DOMAIN Snippets
  PROVE  ExecuteAssemblyPlan(p, Restrict(Snippets, I)).lint \in Nat
<1> DEFINE s == Restrict(Snippets, I)
           defined == [i \in I |-> DOMAIN s[i].resources]
           X == UNION {defined[i] : i \in I}
           renamed == [id \in X |-> Renamed(p, id)]
           ids == {renamed[id] : id \in X}
           r == Merged(p, s)
           wires == AppliedWires(p, s)
           sources(n) == {Renamed(p, w.source) : w \in {w \in wires : Renamed(p, w.target) = n}}
           known == DOMAIN r \cup UNION {s[i].parameters : i \in DOMAIN s}
           missing == [n \in ids |-> (r[n] \cup sources(n)) \ known]
<1>1. Len(Snippets) \in Nat /\ DOMAIN Snippets = 1 .. Len(Snippets)
  BY SnippetsAssumption, LenProperties
<1>2. IsFiniteSet(I)
  <2>1. IsFiniteSet(1 .. Len(Snippets))
    BY <1>1, FS_Interval
  <2>2. I \in SUBSET (1 .. Len(Snippets))
    BY <1>1
  <2> QED
    BY <2>1, <2>2, FS_Subset
<1>3. DOMAIN s = I /\ \A i \in I : s[i] \in ToSet(Snippets)
  BY DEF Restrict, ToSet
<1>4. /\ \A i \in I : IsFiniteSet(DOMAIN s[i].resources)
      /\ \A i \in I : \A id \in DOMAIN s[i].resources : IsFiniteSet(s[i].resources[id])
  BY <1>3, SnippetsAssumption
<1>5. IsFiniteSet(X)
  <2>1. defined = [i \in I |-> defined[i]] /\ \A i \in I : IsFiniteSet(defined[i])
    BY <1>4
  <2> HIDE DEF defined
  <2> QED
    BY <1>2, <2>1, FiniteUnion
<1>6. IsFiniteSet(ids)
  <2>1. renamed = [id \in X |-> renamed[id]]
    OBVIOUS
  <2> HIDE DEF renamed, X
  <2> QED
    BY <1>5, <2>1, FiniteValues
<1>7. ids = {Renamed(p, id) : id \in UNION {DOMAIN s[i].resources : i \in DOMAIN s}}
  <2>1. X = UNION {DOMAIN s[i].resources : i \in DOMAIN s}
    BY <1>3
  <2>2. ids = {Renamed(p, id) : id \in X}
    OBVIOUS
  <2> QED
    BY <2>1, <2>2
<1> HIDE DEF s, ids
<1>8. /\ DOMAIN r = ids
      /\ \A n \in ids : LET t == s[Max(Giving(p, s, n))]
                       IN  r[n] = t.resources[CHOOSE id \in DOMAIN t.resources : Renamed(p, id) = n]
  BY <1>7 DEF Merged, Giver, OldId
<1>9. ASSUME NEW n \in ids
      PROVE  IsFiniteSet(r[n])
  <2> DEFINE m == Max(Giving(p, s, n))
  <2>1. Giving(p, s, n) \in SUBSET (1 .. Len(Snippets))
    BY <1>1, <1>3 DEF Giving
  <2>2. Giving(p, s, n) # {}
    BY <1>7 DEF Giving
  <2>3. m \in Giving(p, s, n)
    BY <1>1, <2>1, <2>2, GreatestChosen
  <2> HIDE DEF m
  <2>4. m \in I /\ \E id \in DOMAIN s[m].resources : Renamed(p, id) = n
    BY <1>3, <2>3 DEF Giving
  <2>5. (CHOOSE id \in DOMAIN s[m].resources : Renamed(p, id) = n) \in DOMAIN s[m].resources
    BY <2>4
  <2>6. r[n] = s[m].resources[CHOOSE id \in DOMAIN s[m].resources : Renamed(p, id) = n]
    BY <1>8 DEF m
  <2> QED
    BY <1>4, <2>4, <2>5, <2>6
<1>10. ASSUME NEW n \in ids
       PROVE  IsFiniteSet(sources(n))
  <2> DEFINE W == {w \in wires : Renamed(p, w.target) = n}
             source == [w \in W |-> Renamed(p, w.source)]
  <2>1. W \in SUBSET p.wiring
    BY DEF AppliedWires, FoundWires
  <2>2. IsFiniteSet(W)
    BY <2>1, AssembliesAssumption, FS_Subset
  <2>3. source = [w \in W |-> source[w]] /\ sources(n) = {source[w] : w \in W}
    OBVIOUS
  <2> HIDE DEF W, source
  <2> QED
    BY <2>2, <2>3, FiniteValues
<1>11. \A n \in ids : IsFiniteSet(missing[n])
  <2> SUFFICES ASSUME NEW n \in ids PROVE IsFiniteSet(missing[n])
    OBVIOUS
  <2>1. IsFiniteSet(r[n] \cup sources(n))
    BY <1>9, <1>10, FS_Union
  <2>2. missing[n] \in SUBSET (r[n] \cup sources(n))
    OBVIOUS
  <2> HIDE DEF missing, sources, r
  <2> QED
    BY <2>1, <2>2, FS_Subset
<1>12. ExecuteAssemblyPlan(p, s).lint = Cardinality(UNION {{n} \X missing[n] : n \in ids})
  <2>1. UNION {{n} \X missing[n] : n \in ids}
          = UNION {{n} \X ((r[n] \cup sources(n)) \ known) : n \in DOMAIN r}
    BY <1>8
  <2> QED
    BY <2>1 DEF ExecuteAssemblyPlan, Template
<1>13. missing = [n \in ids |-> missing[n]]
  OBVIOUS
<1> HIDE DEF missing
<1>14. Cardinality(UNION {{n} \X missing[n] : n \in ids}) \in Nat
  BY <1>6, <1>11, <1>13, FinitePlaces
<1> QED
  BY <1>12, <1>14 DEF s

LEMMA LayerFound ==
  ASSUME NEW p, IsLayerPlan(p), NEW n \in Names(p, DOMAIN p)
  PROVE  GetLayer(p, n) \in ToSet(p)
<1>1. Len(p) \in Nat \ {0} /\ DOMAIN p = 1 .. Len(p) /\ \A i \in DOMAIN p : p[i] \in ToSet(p)
  BY PlanFacts
<1> DEFINE T == Named(p, n)
<1>2. T \in SUBSET Nat /\ T # {} /\ T \subseteq DOMAIN p
  BY <1>1 DEF Named, Names
<1> HIDE DEF T
<1>3. (CHOOSE i \in T : \A j \in T : i <= j) \in T
  BY <1>2, LeastChosen
<1> QED
  BY <1>1, <1>2, <1>3 DEF GetLayer, T

LEMMA DraftFacts ==
  ASSUME NEW layer, layer.imports \in Seq(ToSet(layer.imports)), NEW slip \in Slips, NEW p,
         NEW d, d = Draft(layer, slip)
  PROVE  LET w == Wire(p, layer, d)
         IN  w.lint \in Nat /\ IsFiniteSet(DOMAIN w.refs)
<1> DEFINE I == DOMAIN layer.imports
           f == [i \in I |-> layer.imports[i].parameter]
<1>1. Len(layer.imports) \in Nat /\ I = 1 .. Len(layer.imports)
  BY LenProperties
<1>2. IsFiniteSet(I)
  BY <1>1, FS_Interval
<1>3. f = [i \in I |-> f[i]] /\ ImportParameters(layer) = {f[i] : i \in I}
  BY DEF ImportParameters
<1> HIDE DEF I, f
<1>4. IsFiniteSet(ImportParameters(layer))
  BY <1>2, <1>3, FiniteValues
<1>5. /\ d.lint \in Nat /\ DOMAIN d.refs = ImportParameters(layer)
      /\ d = [resources |-> d.resources, parameters |-> d.parameters, refs |-> d.refs,
              lint |-> d.lint, stray |-> d.stray]
  BY DEF Draft
<1>6. Wire(p, layer, d).lint = d.lint /\ DOMAIN Wire(p, layer, d).refs = DOMAIN d.refs
  BY <1>5 DEF Wire
<1> QED
  BY <1>4, <1>5, <1>6

LEMMA NamesFinite ==
  ASSUME NEW p, IsLayerPlan(p)
  PROVE  IsFiniteSet(Names(p, DOMAIN p))
<1> DEFINE f == [i \in DOMAIN p |-> p[i].name]
           names == Names(p, DOMAIN p)
<1>1. IsFiniteSet(DOMAIN p)
  BY PlanFacts, FS_Interval
<1>2. f = [i \in DOMAIN p |-> f[i]] /\ names = {f[i] : i \in DOMAIN p}
  BY DEF Names
<1> HIDE DEF f, names
<1>3. IsFiniteSet(names)
  BY <1>1, <1>2, FiniteValues
<1> QED
  BY <1>3 DEF names

(* The errors of a template merged from drafts of all its layers.           *)
LEMMA MergedCounted ==
  ASSUME NEW p, IsLayerPlan(p), NEW d, Drafted(p, d, Names(p, DOMAIN p))
  PROVE  LintErrors(MergeLayers(p, d)) \in Nat
<1> DEFINE names == Names(p, DOMAIN p)
           m == MergeLayers(p, d)
           lint == [n \in names |-> 1 .. m.layers[n].lint]
           known == m.resources \cup m.parameters
           loose == [n \in names |->
                       {q \in DOMAIN m.layers[n].refs : m.layers[n].refs[q].to \notin known}]
<1>1. IsFiniteSet(names)
  BY NamesFinite
<1>2. DOMAIN m.layers = names
  BY DEF MergeLayers, Drafted
<1>3. ASSUME NEW n \in names
      PROVE  m.layers[n].lint \in Nat /\ IsFiniteSet(DOMAIN m.layers[n].refs)
  <2> DEFINE layer == GetLayer(p, n)
  <2>1. layer.imports \in Seq(ToSet(layer.imports))
    BY LayerFound DEF IsLayerPlan
  <2>2. PICK slip \in Slips : d[n] = Draft(layer, slip)
    BY DEF Drafted
  <2>3. m.layers[n] = Wire(p, layer, d[n])
    BY DEF MergeLayers, Drafted
  <2> HIDE DEF layer, m
  <2> QED
    BY <2>1, <2>2, <2>3, DraftFacts
<1>4. Cardinality(Flaws(m)) \in Nat
  <2>1. /\ lint = [n \in names |-> lint[n]]
        /\ \A n \in names : IsFiniteSet(lint[n])
    BY <1>3, FS_Interval
  <2>2. Flaws(m) = UNION {{n} \X lint[n] : n \in names}
    BY <1>2 DEF Flaws
  <2> HIDE DEF names, lint, m
  <2> QED
    BY <1>1, <2>1, <2>2, FinitePlaces
<1>5. Cardinality(Unplaced(m)) \in Nat
  <2>1. \A n \in names : IsFiniteSet(loose[n])
    <3> SUFFICES ASSUME NEW n \in names PROVE IsFiniteSet(loose[n])
      OBVIOUS
    <3>1. loose[n] \in SUBSET DOMAIN m.layers[n].refs
      OBVIOUS
    <3> HIDE DEF loose, m, names
    <3> QED
      BY <1>3, <3>1, FS_Subset
  <2>2. loose = [n \in names |-> loose[n]]
    OBVIOUS
  <2>3. Unplaced(m) = UNION {{n} \X loose[n] : n \in names}
    BY <1>2 DEF Unplaced
  <2> HIDE DEF names, loose, m
  <2> QED
    BY <1>1, <2>1, <2>2, <2>3, FinitePlaces
<1>6. Cardinality(Strays(m)) \in Nat
  <2>1. Strays(m) \in SUBSET names
    BY <1>2 DEF Strays
  <2> HIDE DEF names, m
  <2>2. IsFiniteSet(Strays(m))
    BY <1>1, <2>1, FS_Subset
  <2> QED
    BY <2>2, FS_CardinalityType
<1> HIDE DEF m
<1>7. LintErrors(m) \in Nat
  BY <1>4, <1>5, <1>6 DEF LintErrors
<1> QED
  BY <1>7 DEF m

(* The best version and its count are those of a report, and no report has  *)
(* a smaller count.                                                         *)
Tracked ==
  /\ bestCount \in Nat
  /\ << best.version, bestCount >> \in reported
  /\ \A l \in reported : bestCount <= l[2]

Looping == {"validate", "fix", "check", "revalidate"}

LoopInv ==
  /\ output.status \in {"none", "raised", "no files", "files"}
  /\ \A l \in reported : l[2] \in Nat
  /\ phase = "parameterize" => TemplateFiles(job.files) # {}
  /\ phase \notin Looping \cup {"ended"} => reported = {} /\ output = NoOutput
  /\ phase \notin Looping => bestCount = Infinity /\ attempt = 0
  /\ phase \in Looping => output = NoOutput /\ template.lint \in Nat /\ best.lint \in Nat
  /\ phase = "check" => fixed.lint \in Nat
  /\ phase = "validate" => Tracked \/ (bestCount = Infinity /\ reported = {})
  /\ phase \in {"fix", "check", "revalidate"} => Tracked
  /\ phase \in {"fix", "check"} =>
       report.passed = FALSE /\ report.blocking \in Nat /\ bestCount <= report.blocking
  /\ phase \in {"validate", "fix", "check"} => attempt \in 0 .. MaxFixAttempts - 1
  /\ phase = "revalidate" => attempt = MaxFixAttempts
  /\ BestKept

(* A report of one run of the pipeline.                                     *)
LEMMA PipelineCounts ==
  ASSUME NEW t, t.lint \in Nat, NEW answering
  PROVE  LET r == RunValidationPipeline(t, answering)
         IN  r.blocking \in Nat /\ r.passed \in BOOLEAN /\ (r.passed = TRUE <=> r.blocking = 0)
BY DEF RunValidationPipeline, ValidateStructural, ValidateLint

LEMMA ReportCounts ==
  ASSUME NEW t, t.lint \in Nat, NEW r \in Reports(t)
  PROVE  r.blocking \in Nat /\ r.passed \in BOOLEAN /\ (r.passed = TRUE <=> r.blocking = 0)
BY PipelineCounts DEF Reports

(* The first file with a template's name has a template.                    *)
LEMMA ParameterizedCounted ==
  ASSUME NEW files, UsableFiles(files), TemplateFiles(files) # {}
  PROVE  Parameterize(files).lint \in Nat
<1> DEFINE T == TemplateFiles(files)
<1>1. T \in SUBSET Nat /\ T \subseteq DOMAIN files
  BY DEF TemplateFiles, UsableFiles
<1> HIDE DEF T
<1>2. (CHOOSE i \in T : \A j \in T : i <= j) \in T
  BY <1>1, LeastChosen DEF T
<1>3. Min(T) \in T
  BY <1>2 DEF Min
<1>4. files[Min(T)].template \in AnyTemplate
  BY <1>1, <1>3 DEF UsableFiles
<1> QED
  BY <1>4 DEF Parameterize, AnyTemplate, T

LEMMA MergedTemplatesCounted ==
  ASSUME IsLayerPlan(plan), NEW d, Drafted(plan, d, Names(plan, DOMAIN plan)),
         NEW t \in MergedTemplates(d)
  PROVE  t.lint \in Nat
<1>1. t = Template(FALSE, LintErrors(MergeLayers(plan, d)))
  BY DEF MergedTemplates
<1>2. LintErrors(MergeLayers(plan, d)) \in Nat
  BY MergedCounted
<1> QED
  BY <1>1, <1>2 DEF Template

LoopEntered ==
  /\ phase \in {"parameterize", "compose", "merge"}
  /\ \E t : t.lint \in Nat /\ EnterLoop(t) /\ UNCHANGED output

LoopFixed ==
  /\ phase = "fix" /\ phase' = "check" /\ fixed'.lint \in Nat
  /\ UNCHANGED << output, template, best, bestCount, attempt, report, reported >>

LEMMA LoopEntries ==
  ASSUME DesignInv, LayersInv, LoopInv
  PROVE  /\ ParameterizeTemplate => LoopEntered \/ (EndTask(Raised) /\ UNCHANGED reported)
         /\ ComposeSnippets => LoopEntered \/ (EndTask(Raised) /\ UNCHANGED reported)
         /\ Merge => LoopEntered \/ (EndTask(NoFiles) /\ UNCHANGED reported)
<1>1. ASSUME ParameterizeTemplate
      PROVE  LoopEntered \/ (EndTask(Raised) /\ UNCHANGED reported)
  <2>1. phase = "parameterize"
    BY <1>1 DEF ParameterizeTemplate
  <2>2. Parameterize(job.files).lint \in Nat
    BY <2>1, ParameterizedCounted DEF DesignInv, LoopInv
  <2> QED
    BY <1>1, <2>2 DEF ParameterizeTemplate, LoopEntered, taskVars
<1>2. ASSUME ComposeSnippets
      PROVE  LoopEntered \/ (EndTask(Raised) /\ UNCHANGED reported)
  <2>1. \/ EndTask(Raised) /\ UNCHANGED reported
        \/ \E gone \in SUBSET DOMAIN Snippets, p \in AssemblyPlans :
             /\ EnterLoop(ExecuteAssemblyPlan(p, Restrict(Snippets, DOMAIN Snippets \ gone)))
             /\ UNCHANGED output
    BY <1>2 DEF ComposeSnippets, taskVars
  <2>2. phase = "compose"
    BY <1>2 DEF ComposeSnippets
  <2>3. \A gone \in SUBSET DOMAIN Snippets, p \in AssemblyPlans :
          ExecuteAssemblyPlan(p, Restrict(Snippets, DOMAIN Snippets \ gone)).lint \in Nat
    <3> SUFFICES ASSUME NEW gone \in SUBSET DOMAIN Snippets, NEW p \in AssemblyPlans
                 PROVE  ExecuteAssemblyPlan(p, Restrict(Snippets, DOMAIN Snippets \ gone)).lint \in Nat
      OBVIOUS
    <3>1. DOMAIN Snippets \ gone \in SUBSET DOMAIN Snippets
      OBVIOUS
    <3> QED
      BY <3>1, ComposedCounted
  <2> QED
    BY <2>1, <2>2, <2>3 DEF LoopEntered
<1>3. ASSUME Merge
      PROVE  LoopEntered \/ (EndTask(NoFiles) /\ UNCHANGED reported)
  <2>1. phase = "merge"
    BY <1>3 DEF Merge
  <2>2. IsLayerPlan(plan) /\ Drafted(plan, drafts, Names(plan, DOMAIN plan))
    BY <2>1 DEF LayersInv
  <2>3. \A t \in MergedTemplates(drafts) : t.lint \in Nat
    BY <2>2, MergedTemplatesCounted
  <2> QED
    BY <1>3, <2>3 DEF Merge, LoopEntered, taskVars
<1> QED
  BY <1>1, <1>2, <1>3

LEMMA LoopFixes ==
  ASSUME LayersInv, LoopInv
  PROVE  /\ FixLayers => LoopFixed \/ (EndTask(Raised) /\ UNCHANGED reported)
         /\ FixTemplateYaml => LoopFixed
<1>1. ASSUME FixLayers
      PROVE  LoopFixed \/ (EndTask(Raised) /\ UNCHANGED reported)
  <2> DEFINE all == Names(plan, DOMAIN plan)
             faulty == LayersInError(MergeLayers(plan, drafts))
  <2>1. phase = "fix" /\ IsLayerPlan(plan) /\ Drafted(plan, drafts, all)
    BY <1>1 DEF FixLayers, LayersInv
  <2>2. CASE EndTask(Raised) /\ UNCHANGED reported
    BY <2>2
  <2>3. CASE \E n \in 0 .. MaxMishaps : \E new \in RedraftsOf(plan, drafts, faulty, n) :
             \E t \in MergedTemplates(new) :
               /\ NextVersion(t) /\ phase' = "check"
               /\ UNCHANGED << output, template, best, bestCount, attempt, report, reported >>
    <3>1. PICK n \in 0 .. MaxMishaps : \E new \in RedraftsOf(plan, drafts, faulty, n) :
               \E t \in MergedTemplates(new) : NextVersion(t)
      BY <2>3
    <3>2. PICK new \in RedraftsOf(plan, drafts, faulty, n) :
               \E t \in MergedTemplates(new) : NextVersion(t)
      BY <3>1
    <3> PICK t \in MergedTemplates(new) : NextVersion(t)
      BY <3>2
    <3>3. all \cup faulty = all
      BY <2>1, ErrorsOfLayers DEF Drafted
    <3> HIDE DEF faulty, all
    <3>4. Drafted(plan, new, all)
      BY <2>1, <3>3, Redrafted
    <3>5. t.lint \in Nat
      BY <2>1, <3>4, MergedTemplatesCounted DEF all
    <3>6. fixed'.lint \in Nat
      BY <3>5 DEF NextVersion, Versioned
    <3> QED
      BY <2>1, <2>3, <3>6 DEF LoopFixed
  <2> QED
    BY <1>1, <2>2, <2>3 DEF FixLayers, Redrafts, RedraftsOf, taskVars
<1>2. ASSUME FixTemplateYaml
      PROVE  LoopFixed
  <2>1. phase = "fix" /\ template.lint \in Nat
    BY <1>2 DEF FixTemplateYaml, LoopInv, Looping
  <2>2. fixed'.lint \in Nat
    BY <1>2, <2>1 DEF FixTemplateYaml, NextVersion, Versioned, Template
  <2> QED
    BY <1>2, <2>1, <2>2 DEF FixTemplateYaml, LoopFixed, taskVars
<1> QED
  BY <1>1, <1>2

LEMMA LoopMoves ==
  ASSUME DesignInv, LayersInv, LoopInv, [Next]_vars
  PROVE  \/ UNCHANGED << phase, job, output, loopVars >>
         \/ /\ UNCHANGED << output, loopVars >>
            /\ phase \notin Looping \cup {"ended"} /\ phase' \notin Looping \cup {"ended"}
            /\ phase' = "parameterize" => TemplateFiles(job'.files) # {}
         \/ EndTask(Raised) /\ UNCHANGED reported
         \/ EndTask(NoFiles) /\ UNCHANGED reported
         \/ GenEnd
         \/ LoopEntered \/ LoopFixed
         \/ Validate \/ Revalidate \/ CheckFix
<1>1. CASE GenerateStep
  <2>1. CASE ChoosePath
    BY <2>1 DEF ChoosePath, ResolvePath, Looping, taskVars
  <2>2. CASE Refused \/ GenerationFails \/ FixRaises
    BY <2>2 DEF Refused, GenerationFails, FixRaises
  <2>3. CASE ParameterizeTemplate \/ ComposeSnippets \/ Merge
    BY <2>3, LoopEntries
  <2>4. CASE UsePredefinedPlan \/ UseCachedPlan \/ GenerateLayerPlan
    BY <2>4 DEF UsePredefinedPlan, UseCachedPlan, GenerateLayerPlan, StartLayers, Looping, taskVars
  <2>5. CASE GenerateGroup
    BY <2>5 DEF GenerateGroup, Looping, taskVars
  <2>6. CASE FixSpecs
    BY <2>6 DEF FixSpecs, Looping, taskVars
  <2>7. CASE FixLayers \/ FixTemplateYaml
    BY <2>7, LoopFixes
  <2>8. CASE ExpirePlan
    BY <2>8 DEF ExpirePlan, taskVars
  <2> QED
    BY <1>1, <2>1, <2>2, <2>3, <2>4, <2>5, <2>6, <2>7, <2>8 DEF GenerateStep, GenWork
<1>2. CASE StartIac
  BY <1>2 DEF StartIac, GenBegin, Looping
<1>3. CASE FinishIac
  BY <1>3 DEF FinishIac
<1>4. CASE \/ \E p \in Projects : OpenProject(p)
           \/ Redesign \/ SelectDesign \/ LoadForRefine \/ SaveRefined
           \/ StartDocumentation \/ RegenerateSection \/ DocumentStep
  BY <1>4 DEF OpenProject, Redesign, SelectDesign, LoadForRefine, SaveRefined,
       StartDocumentation, RegenerateSection, DocumentStep, genVars, loopVars, taskVars
<1>5. CASE UNCHANGED vars
  BY <1>5 DEF vars, genVars, loopVars
<1> QED
  BY <1>1, <1>2, <1>3, <1>4, <1>5 DEF Next

(* The best version after one more report, and its count.                   *)
LEMMA BestAfterReport ==
  ASSUME LoopInv, NEW t, NEW r, r.blocking \in Nat, KeepBest(t, r),
         reported' = reported \cup {<< t.version, r.blocking >>},
         Tracked \/ (bestCount = Infinity /\ reported = {})
  PROVE  Tracked' /\ bestCount' <= r.blocking /\ best' \in {t, best}
<1>1. \A l \in reported : l[2] \in Nat
  BY DEF LoopInv
<1>2. CASE bestCount = Infinity /\ reported = {}
  <2>1. best' = t /\ bestCount' = r.blocking
    BY <1>2 DEF KeepBest, Fewer
  <2>2. reported' = {<< t.version, r.blocking >>}
    BY <1>2
  <2> QED
    BY <2>1, <2>2 DEF Tracked
<1>3. CASE Tracked /\ Fewer(r.blocking, bestCount)
  <2>1. best' = t /\ bestCount' = r.blocking
    BY <1>3 DEF KeepBest
  <2>2. r.blocking < bestCount /\ bestCount \in Nat
    BY <1>3 DEF Fewer, Infinity, Tracked
  <2>3. \A l \in reported : bestCount <= l[2]
    BY <1>3 DEF Tracked
  <2>4. \A l \in reported' : r.blocking <= l[2]
    BY <1>1, <2>2, <2>3
  <2> QED
    BY <2>1, <2>4 DEF Tracked
<1>4. CASE Tracked /\ ~Fewer(r.blocking, bestCount)
  <2>1. best' = best /\ bestCount' = bestCount
    BY <1>4 DEF KeepBest
  <2>2. bestCount <= r.blocking /\ bestCount \in Nat
    BY <1>4 DEF Fewer, Infinity, Tracked
  <2> QED
    BY <1>4, <2>1, <2>2 DEF Tracked
<1> QED
  BY <1>2, <1>3, <1>4

(* A task that ends with the report r of the template t.                    *)
LEMMA ReturnedBest ==
  ASSUME LoopInv, NEW t, NEW r, EndTask(Returned(t, r)),
         \A l \in reported' : l[2] \in Nat,
         \E k \in reported' : k[1] = t.version /\ \A l \in reported' : k[2] <= l[2],
         r.passed = TRUE => << t.version, 0 >> \in reported'
  PROVE  LoopInv'
<1>1. /\ phase' = "ended" /\ output' = Returned(t, r)
      /\ bestCount' = Infinity /\ attempt' = 0
  BY DEF EndTask
<1>2. output'.status = "files" /\ output'.template = t /\ output'.report = r
  BY <1>1 DEF Returned
<1>3. BestKept'
  BY <1>2 DEF BestKept
<1> QED
  BY <1>1, <1>2, <1>3 DEF LoopInv, Looping

LEMMA LoopValidates ==
  ASSUME LoopInv, Validate
  PROVE  LoopInv'
<1>1. PICK r \in Reports(template) :
        /\ Validated(template, r)
        /\ IF r.passed \/ (Exhausted(r) /\ ~WorseThanBest(r))
           THEN EndTask(Returned(template, r))
           ELSE /\ KeepBest(template, r)
                /\ report' = r
                /\ Counted
                /\ phase' = IF Exhausted(r) THEN "revalidate" ELSE "fix"
                /\ UNCHANGED << job, output, template, fixed >>
  BY DEF Validate, taskVars
<1>2. /\ phase = "validate" /\ template.lint \in Nat /\ best.lint \in Nat /\ output = NoOutput
      /\ Tracked \/ (bestCount = Infinity /\ reported = {})
      /\ attempt \in 0 .. MaxFixAttempts - 1
      /\ \A l \in reported : l[2] \in Nat
  BY DEF Validate, LoopInv, Looping
<1>3. r.blocking \in Nat /\ r.passed \in BOOLEAN /\ (r.passed = TRUE <=> r.blocking = 0)
  BY <1>2, ReportCounts
<1>4. reported' = reported \cup {<< template.version, r.blocking >>}
  BY <1>1 DEF Validated
<1>5. \A l \in reported' : l[2] \in Nat
  BY <1>2, <1>3, <1>4
<1>6. CASE r.passed \/ (Exhausted(r) /\ ~WorseThanBest(r))
  <2>1. r.passed = TRUE \/ ~WorseThanBest(r)
    BY <1>3, <1>6, Zenon
  <2>2. \A l \in reported : r.blocking <= l[2]
    <3>1. CASE r.passed = TRUE
      BY <1>2, <1>3, <3>1
    <3>2. CASE reported = {}
      BY <3>2
    <3>3. CASE ~WorseThanBest(r) /\ Tracked
      BY <1>2, <1>3, <3>3 DEF WorseThanBest, Tracked, Infinity
    <3> QED
      BY <1>2, <2>1, <3>1, <3>2, <3>3
  <2>3. \E k \in reported' : k[1] = template.version /\ \A l \in reported' : k[2] <= l[2]
    <3> DEFINE k == << template.version, r.blocking >>
    <3>1. k \in reported' /\ k[1] = template.version /\ k[2] = r.blocking
      BY <1>4
    <3>2. \A l \in reported' : r.blocking <= l[2]
      BY <1>3, <1>4, <2>2
    <3> HIDE DEF k
    <3> QED
      BY <3>1, <3>2
  <2>4. r.passed = TRUE => << template.version, 0 >> \in reported'
    BY <1>3, <1>4
  <2> QED
    BY <1>1, <1>5, <1>6, <2>3, <2>4, ReturnedBest
<1>7. CASE ~(r.passed \/ (Exhausted(r) /\ ~WorseThanBest(r)))
  <2>1. /\ KeepBest(template, r) /\ report' = r /\ attempt' = attempt + 1
        /\ phase' = IF Exhausted(r) THEN "revalidate" ELSE "fix"
        /\ UNCHANGED << job, output, template, fixed >>
    BY <1>1, <1>7 DEF Counted
  <2>2. r.passed = FALSE
    BY <1>3, <1>7, Zenon
  <2>3. Tracked' /\ bestCount' <= r.blocking /\ best' \in {template, best}
    BY <1>2, <1>3, <1>4, <2>1, BestAfterReport
  <2>4. best'.lint \in Nat
    BY <1>2, <2>3
  <2>5. /\ phase' = "revalidate" => attempt' = MaxFixAttempts
        /\ phase' = "fix" => attempt' \in 0 .. MaxFixAttempts - 1
    <3>1. Exhausted(r) <=> attempt + 1 = MaxFixAttempts
      BY <2>2 DEF Exhausted
    <3> QED
      BY <1>2, <2>1, <3>1, MaxFixAssumption
  <2>6. phase' \in {"fix", "revalidate"}
    BY <2>1
  <2>7. BestKept' /\ output'.status = "none"
    BY <1>2, <2>1 DEF BestKept, NoOutput
  <2> QED
    BY <1>2, <1>3, <1>5, <2>1, <2>2, <2>3, <2>4, <2>5, <2>6, <2>7 DEF LoopInv, Looping
<1> QED
  BY <1>6, <1>7

LEMMA LoopRevalidates ==
  ASSUME LoopInv, Revalidate
  PROVE  LoopInv'
<1>1. PICK r \in Reports(best) : Validated(best, r) /\ EndTask(Returned(best, r))
  BY DEF Revalidate
<1>2. /\ best.lint \in Nat /\ Tracked /\ \A l \in reported : l[2] \in Nat
  BY DEF Revalidate, LoopInv, Looping
<1>3. r.blocking \in Nat /\ r.passed \in BOOLEAN /\ (r.passed = TRUE <=> r.blocking = 0)
  BY <1>2, ReportCounts
<1>4. reported' = reported \cup {<< best.version, r.blocking >>}
  BY <1>1 DEF Validated
<1>5. \A l \in reported' : l[2] \in Nat
  BY <1>2, <1>3, <1>4
<1>6. \E k \in reported' : k[1] = best.version /\ \A l \in reported' : k[2] <= l[2]
  <2>1. CASE r.blocking <= bestCount
    <3> DEFINE k == << best.version, r.blocking >>
    <3>1. k \in reported' /\ k[1] = best.version /\ k[2] = r.blocking
      BY <1>4
    <3>2. \A l \in reported' : r.blocking <= l[2]
      BY <1>2, <1>3, <1>4, <2>1 DEF Tracked
    <3> HIDE DEF k
    <3> QED
      BY <3>1, <3>2
  <2>2. CASE ~(r.blocking <= bestCount)
    <3>1. \A l \in reported' : bestCount <= l[2]
      BY <1>2, <1>3, <1>4, <2>2 DEF Tracked
    <3>2. << best.version, bestCount >> \in reported'
      BY <1>2, <1>4 DEF Tracked
    <3> QED
      BY <3>1, <3>2
  <2> QED
    BY <2>1, <2>2
<1>7. r.passed = TRUE => << best.version, 0 >> \in reported'
  BY <1>3, <1>4
<1> QED
  BY <1>1, <1>5, <1>6, <1>7, ReturnedBest

LEMMA LoopChecks ==
  ASSUME LoopInv, CheckFix
  PROVE  LoopInv'
<1>1. PICK r \in Reports(fixed) :
        /\ Validated(fixed, r)
        /\ IF r.blocking > report.blocking
           THEN EndTask(Returned(best, report))
           ELSE /\ template' = fixed
                /\ KeepBest(fixed, r)
                /\ phase' = "validate"
                /\ UNCHANGED << output, attempt >>
  BY DEF CheckFix, taskVars
<1>2. /\ fixed.lint \in Nat /\ template.lint \in Nat /\ best.lint \in Nat /\ output = NoOutput
      /\ Tracked /\ report.passed = FALSE /\ report.blocking \in Nat /\ bestCount <= report.blocking
      /\ attempt \in 0 .. MaxFixAttempts - 1
      /\ \A l \in reported : l[2] \in Nat
  BY DEF CheckFix, LoopInv, Looping
<1>3. r.blocking \in Nat
  BY <1>2, ReportCounts
<1>4. reported' = reported \cup {<< fixed.version, r.blocking >>}
  BY <1>1 DEF Validated
<1>5. \A l \in reported' : l[2] \in Nat
  BY <1>2, <1>3, <1>4
<1>6. CASE r.blocking > report.blocking
  <2>1. \A l \in reported' : bestCount <= l[2]
    <3>1. bestCount \in Nat /\ \A l \in reported : bestCount <= l[2]
      BY <1>2 DEF Tracked
    <3>2. bestCount <= r.blocking
      BY <1>2, <1>3, <1>6, <3>1
    <3> QED
      BY <1>4, <3>1, <3>2
  <2>2. << best.version, bestCount >> \in reported'
    BY <1>2, <1>4 DEF Tracked
  <2>3. \E k \in reported' : k[1] = best.version /\ \A l \in reported' : k[2] <= l[2]
    BY <2>1, <2>2
  <2> QED
    BY <1>1, <1>2, <1>5, <1>6, <2>3, ReturnedBest
<1>7. CASE ~(r.blocking > report.blocking)
  <2>1. /\ template' = fixed /\ KeepBest(fixed, r) /\ phase' = "validate"
        /\ UNCHANGED << output, attempt >>
    BY <1>1, <1>7
  <2>2. Tracked' /\ best' \in {fixed, best}
    BY <1>2, <1>3, <1>4, <2>1, BestAfterReport
  <2>3. best'.lint \in Nat /\ template'.lint \in Nat
    BY <1>2, <2>1, <2>2
  <2>4. BestKept' /\ output'.status = "none"
    BY <1>2, <2>1 DEF BestKept, NoOutput
  <2> QED
    BY <1>2, <1>5, <2>1, <2>2, <2>3, <2>4 DEF LoopInv, Looping
<1> QED
  BY <1>6, <1>7

LEMMA LoopSteps ==
  ASSUME DesignInv, LayersInv, LoopInv, [Next]_vars
  PROVE  LoopInv'
<1>1. CASE UNCHANGED << phase, job, output, loopVars >>
  BY <1>1 DEF LoopInv, Looping, Tracked, BestKept, loopVars
<1>2. CASE /\ UNCHANGED << output, loopVars >>
           /\ phase \notin Looping \cup {"ended"} /\ phase' \notin Looping \cup {"ended"}
           /\ phase' = "parameterize" => TemplateFiles(job'.files) # {}
  BY <1>2 DEF LoopInv, Looping, BestKept, loopVars
<1>3. ASSUME NEW out \in {Raised, NoFiles}, EndTask(out), UNCHANGED reported
      PROVE  LoopInv'
  <2>1. /\ phase' = "ended" /\ output' = out /\ bestCount' = Infinity /\ attempt' = 0
        /\ reported' = reported
    BY <1>3 DEF EndTask
  <2>2. out.status \in {"raised", "no files"}
    BY DEF Raised, NoFiles, NoOutput
  <2> QED
    BY <2>1, <2>2 DEF LoopInv, Looping, BestKept
<1>4. CASE GenEnd
  BY <1>4 DEF GenEnd, LoopInv, Looping, BestKept, NoOutput
<1>5. CASE LoopEntered
  <2>1. PICK t : t.lint \in Nat /\ EnterLoop(t) /\ UNCHANGED output
    BY <1>5 DEF LoopEntered
  <2>2. /\ phase \in {"parameterize", "compose", "merge"}
        /\ output = NoOutput /\ reported = {} /\ attempt = 0
    BY <1>5 DEF LoopEntered, LoopInv, Looping
  <2>3. /\ phase' = "validate" /\ output' = NoOutput /\ reported' = {} /\ attempt' = 0
        /\ bestCount' = Infinity /\ template'.lint \in Nat /\ best'.lint \in Nat
    BY <2>1, <2>2 DEF EnterLoop, Versioned
  <2>4. attempt' \in 0 .. MaxFixAttempts - 1
    BY <2>3, MaxFixAssumption
  <2> QED
    BY <2>3, <2>4 DEF LoopInv, Looping, BestKept, NoOutput
<1>6. CASE LoopFixed
  BY <1>6 DEF LoopFixed, LoopInv, Looping, Tracked, BestKept
<1> QED
  BY <1>1, <1>2, <1>3, <1>4, <1>5, <1>6, LoopValidates, LoopRevalidates, LoopChecks, LoopMoves

LEMMA LoopAlways == Spec => [](DesignInv /\ LayersInv /\ LoopInv)
<1>1. Init => LoopInv
  BY DEF Init, GenInit, LoopInv, Looping, BestKept, NoOutput
<1> QED
  BY <1>1, DesignAlways, DesignSteps, LayersAlways, LayersSteps, LoopSteps, PTL DEF Spec

(* Whatever the validators miss and the fixes break: the template that is   *)
(* returned has, in a report on it, no more blocking errors than any report *)
(* of the task had, and is said to have passed only when a report on it had *)
(* none.                                                                    *)
THEOREM BestAlwaysKept == Spec => []BestKept
<1>1. LoopInv => BestKept
  BY DEF LoopInv
<1> QED
  BY <1>1, LoopAlways, PTL

-----------------------------------------------------------------------------
(* The types.                                                               *)

Phases == {"idle", "choose", "parameterize", "compose", "plan", "layers", "specs", "merge",
           "validate", "fix", "check", "revalidate", "ended"}

BoundsInv ==
  /\ phase \in Phases
  /\ mishaps \in 0 .. MaxMishaps
  /\ tasks \in 0 .. MaxTasks
  /\ iac \in {"none", "files", "no files"}

Spent == \E n \in Nat : mishaps + n <= MaxMishaps /\ mishaps' = mishaps + n

(* How many snippets or files may be gone, and how many layers time out.    *)
LEMMA GoneCounted ==
  /\ \A gone \in SUBSET DOMAIN Snippets : Cardinality(gone) \in Nat
  /\ \A answering \in SUBSET BlockingLayers : Cardinality(BlockingLayers \ answering) \in Nat
  /\ \A files \in FileList : \A gone \in SUBSET DOMAIN files : Cardinality(gone) \in Nat
<1>1. ASSUME NEW S, NEW s \in Seq(S), NEW gone \in SUBSET DOMAIN s
      PROVE  Cardinality(gone) \in Nat
  <2>1. Len(s) \in Nat /\ DOMAIN s = 1 .. Len(s)
    BY LenProperties
  <2>2. IsFiniteSet(DOMAIN s)
    BY <2>1, FS_Interval
  <2> QED
    BY <2>2, FS_Subset, FS_CardinalityType
<1>2. ASSUME NEW answering \in SUBSET BlockingLayers
      PROVE  Cardinality(BlockingLayers \ answering) \in Nat
  <2>1. IsFiniteSet(BlockingLayers)
    <3>1. IsFiniteSet({"structural"}) /\ IsFiniteSet({"cfn-lint"})
      BY FS_Singleton
    <3>2. BlockingLayers = {"structural"} \cup {"cfn-lint"}
      BY DEF BlockingLayers
    <3> QED
      BY <3>1, <3>2, FS_Union
  <2>2. BlockingLayers \ answering \in SUBSET BlockingLayers
    OBVIOUS
  <2> QED
    BY <2>1, <2>2, FS_Subset, FS_CardinalityType
<1> QED
  BY <1>1, <1>2, SnippetsAssumption DEF FileList

LEMMA MishapMoves ==
  ASSUME DesignInv, [Next]_vars
  PROVE  UNCHANGED mishaps \/ Spent
<1>1. CASE GenerateStep
  <2>1. CASE ChoosePath \/ Refused \/ GenerationFails \/ FixRaises
    BY <2>1 DEF ChoosePath, Refused, GenerationFails, FixRaises, Mishap, Spent
  <2>2. CASE ComposeSnippets
    BY <2>2, GoneCounted DEF ComposeSnippets, Mishap, Spent
  <2>3. CASE GenerateGroup \/ FixSpecs \/ FixLayers
    <3>1. \E n \in 0 .. MaxMishaps : mishaps + n <= MaxMishaps /\ mishaps' = mishaps + n
      BY <2>3 DEF GenerateGroup, FixSpecs, FixLayers, Mishap
    <3>2. 0 .. MaxMishaps \subseteq Nat
      OBVIOUS
    <3> QED
      BY <3>1, <3>2 DEF Spent
  <2>4. CASE Validate \/ Revalidate \/ CheckFix
    <3>1. \E answering \in SUBSET BlockingLayers :
            LET n == Cardinality(BlockingLayers \ answering)
            IN  mishaps + n <= MaxMishaps /\ mishaps' = mishaps + n
      BY <2>4 DEF Validate, Revalidate, CheckFix, Validated, Mishap
    <3> QED
      BY <3>1, GoneCounted DEF Spent
  <2>5. CASE FixTemplateYaml
    <3>1. \E n \in 0 .. 2 : mishaps + n <= MaxMishaps /\ mishaps' = mishaps + n
      BY <2>5 DEF FixTemplateYaml, Mishap
    <3> QED
      BY <3>1 DEF Spent
  <2>6. CASE \/ ParameterizeTemplate \/ UsePredefinedPlan \/ UseCachedPlan \/ GenerateLayerPlan
             \/ Merge \/ ExpirePlan
    BY <2>6 DEF ParameterizeTemplate, UsePredefinedPlan, UseCachedPlan, GenerateLayerPlan, Merge,
                ExpirePlan
  <2> QED
    BY <1>1, <2>1, <2>2, <2>3, <2>4, <2>5, <2>6 DEF GenerateStep, GenWork
<1>2. CASE LoadForRefine
  <2> DEFINE selected == project.designs[design.made][approved]
  <2>1. PICK gone \in SUBSET DOMAIN selected.files : Mishap(Cardinality(gone))
    BY <1>2 DEF LoadForRefine
  <2>2. /\ project \in Projects /\ design.made \in DOMAIN project.designs
        /\ approved \in DOMAIN project.designs[design.made]
    BY <1>2 DEF LoadForRefine, DesignInv, StepSound
  <2>3. selected.files \in FileList
    BY <2>2, Designs
  <2> HIDE DEF selected
  <2>4. Cardinality(gone) \in Nat
    BY <2>3, GoneCounted
  <2> QED
    BY <2>1, <2>4 DEF Mishap, Spent
<1>3. CASE \/ \E p \in Projects : OpenProject(p)
           \/ Redesign \/ SelectDesign \/ SaveRefined \/ StartIac \/ FinishIac
           \/ StartDocumentation \/ RegenerateSection \/ DocumentStep
  BY <1>3 DEF OpenProject, Redesign, SelectDesign, SaveRefined, StartIac, GenBegin, FinishIac,
       GenEnd, StartDocumentation, RegenerateSection, DocumentStep, genVars
<1>4. CASE UNCHANGED vars
  BY <1>4 DEF vars, genVars
<1> QED
  BY <1>1, <1>2, <1>3, <1>4 DEF Next

LEMMA Within ==
  ASSUME NEW M \in Nat, NEW a \in 0 .. M
  PROVE  /\ \A n \in Nat : a + n <= M => a + n \in 0 .. M
         /\ a < M => a + 1 \in 0 .. M
OBVIOUS

(* The phase, the iac step and the tasks begun.                             *)
LEMMA StageSteps ==
  ASSUME BoundsInv, LoopInv, LayersInv, [Next]_vars
  PROVE  /\ phase' \in Phases
         /\ tasks' \in 0 .. MaxTasks
         /\ iac' \in {"none", "files", "no files"}
<1> USE DEF BoundsInv
<1>1. phase' \in Phases
  <2>1. CASE UsePredefinedPlan \/ UseCachedPlan \/ GenerateLayerPlan
    BY <2>1 DEF UsePredefinedPlan, UseCachedPlan, GenerateLayerPlan, StartLayers, Phases
  <2>2. CASE GenerateGroup \/ FixSpecs \/ FixLayers
    BY <2>2 DEF GenerateGroup, FixSpecs, FixLayers, EndTask, Phases
  <2> QED
    BY <2>1, <2>2, LayersMoves DEF Phases
<1>2. tasks' \in 0 .. MaxTasks /\ iac' \in {"none", "files", "no files"}
  <2>1. CASE StartIac
    <3>1. tasks < MaxTasks /\ tasks' = tasks + 1 /\ iac' = iac
      BY <2>1 DEF StartIac, BetweenTasks
    <3>2. tasks \in 0 .. MaxTasks
      OBVIOUS
    <3>3. tasks' \in 0 .. MaxTasks
      <4>1. MaxTasks \in Nat
        BY MaxTasksAssumption
      <4> QED
        BY <3>1, <3>2, <4>1, Within
    <3> QED
      BY <3>1, <3>3
  <2>2. CASE FinishIac
    BY <2>2 DEF FinishIac, LoopInv
  <2>3. CASE \/ GenerateStep \/ \E p \in Projects : OpenProject(p)
             \/ Redesign \/ SelectDesign \/ LoadForRefine \/ SaveRefined
             \/ StartDocumentation \/ RegenerateSection \/ DocumentStep
    BY <2>3 DEF GenerateStep, OpenProject, Redesign, SelectDesign, LoadForRefine, SaveRefined,
         StartDocumentation, RegenerateSection, DocumentStep
  <2>4. CASE UNCHANGED vars
    BY <2>4 DEF vars
  <2> QED
    BY <2>1, <2>2, <2>3, <2>4 DEF Next
<1> QED
  BY <1>1, <1>2

LEMMA BoundsSteps ==
  ASSUME BoundsInv, DesignInv, LoopInv, LayersInv, [Next]_vars
  PROVE  BoundsInv'
<1>1. mishaps' \in 0 .. MaxMishaps
  <2>1. mishaps \in 0 .. MaxMishaps /\ MaxMishaps \in Nat
    BY MaxMishapsAssumption DEF BoundsInv
  <2>2. CASE UNCHANGED mishaps
    BY <2>2 DEF BoundsInv
  <2>3. CASE Spent
    <3>1. PICK n \in Nat : mishaps + n <= MaxMishaps /\ mishaps' = mishaps + n
      BY <2>3 DEF Spent
    <3> QED
      BY <2>1, <3>1, Within
  <2> QED
    BY <2>2, <2>3, MishapMoves
<1> QED
  BY <1>1, StageSteps DEF BoundsInv

(* A section is announced once, and there are two.                          *)
LEMMA TwoAnnouncements ==
  ASSUME DocsInv
  PROVE  Len(announced) <= 2
<1>1. /\ Len(announced) \in Nat /\ DOMAIN announced = 1 .. Len(announced)
      /\ \A i \in 1 .. Len(announced) : announced[i][1] \in Sections
  BY LenProperties DEF DocsInv, DocsTypes
<1>2. ASSUME Len(announced) > 2
      PROVE  FALSE
  <2>1. 1 \in DOMAIN announced /\ 2 \in DOMAIN announced /\ 3 \in DOMAIN announced
    BY <1>1, <1>2
  <2>2. /\ announced[1][1] # announced[2][1] /\ announced[1][1] # announced[3][1]
        /\ announced[2][1] # announced[3][1]
    BY <2>1 DEF DocsInv, AnnouncedOnce
  <2> QED
    BY <1>1, <2>1, <2>2 DEF Sections
<1> QED
  BY <1>1, <1>2

LEMMA BoundsAlways == Spec => []BoundsInv
<1>1. Init => BoundsInv
  BY MaxMishapsAssumption, MaxTasksAssumption DEF Init, GenInit, BoundsInv, Phases
<1> QED
  BY <1>1, BoundsSteps, LoopAlways, PTL DEF Spec

(* The types, with every limit of the program and of the model: attempts,   *)
(* the diagram's attempts, announcements, the drafts of a plan's layers.    *)
THEOREM TypeCorrect == Spec => []TypeOK
<1>1. ASSUME BoundsInv, DesignInv, LoopInv, LayersInv
      PROVE  GenTypeOK
  <2>1. bestCount \in Nat \cup {Infinity} /\ attempt \in 0 .. MaxFixAttempts
    <3>1. CASE phase \in Looping
      <4>1. Tracked \/ bestCount = Infinity
        BY <1>1, <3>1 DEF LoopInv, Looping
      <4>2. attempt \in 0 .. MaxFixAttempts - 1 \/ attempt = MaxFixAttempts
        BY <1>1, <3>1 DEF LoopInv, Looping
      <4>3. attempt \in 0 .. MaxFixAttempts
        BY <4>2, MaxFixAssumption
      <4> QED
        BY <4>1, <4>3 DEF Tracked
    <3>2. CASE phase \notin Looping
      <4>1. bestCount = Infinity /\ attempt = 0
        BY <1>1, <3>2 DEF LoopInv
      <4> QED
        BY <4>1, MaxFixAssumption
    <3> QED
      BY <3>1, <3>2
  <2>2. DOMAIN drafts \subseteq Names(plan, DOMAIN plan)
    <3>1. \A taken \in SUBSET DOMAIN plan : Names(plan, taken) \subseteq Names(plan, DOMAIN plan)
      BY DEF Names
    <3>2. DOMAIN NoDrafts = {}
      BY DEF NoDrafts
    <3>3. phase = "layers" => \E taken \in SUBSET DOMAIN plan : DOMAIN drafts = Names(plan, taken)
      BY <1>1 DEF LayersInv, Between, Drafted
    <3>4. phase # "layers" => drafts = NoDrafts \/ DOMAIN drafts = Names(plan, DOMAIN plan)
      BY <1>1 DEF LayersInv, BoundsInv, Phases, Drafted
    <3> QED
      BY <3>1, <3>2, <3>3, <3>4
  <2> QED
    BY <1>1, <2>1, <2>2 DEF GenTypeOK, BoundsInv, Phases, LoopInv
<1>2. ASSUME DocsInv
      PROVE  DocsTypeOK
  BY <1>2, TwoAnnouncements DEF DocsInv, DocsTypes, DocsTypeOK, ThreadRecords
<1>3. BoundsInv /\ DesignInv /\ LoopInv /\ LayersInv /\ DocsInv => TypeOK
  BY <1>1, <1>2 DEF TypeOK, DesignInv, StepSound, BoundsInv
<1> QED
  BY <1>3, BoundsAlways, LoopAlways, DocsAlways, PTL

-----------------------------------------------------------------------------
(* The merge.                                                               *)

(* References are replaced import after import.                             *)
LEMMA ImportsReplace ==
  ASSUME NEW p, NEW layer, Len(layer.imports) \in Nat, NEW ref
  PROVE  LET after == AfterImports(p, layer, ref)
         IN  /\ after[0] = ref
             /\ \A k \in 1 .. Len(layer.imports) :
                  after[k] = ReplaceRef(after[k - 1], layer.imports[k].parameter,
                                        ResolveImport(p, layer.imports[k]))
<1> DEFINE n == Len(layer.imports)
           S == 0 .. n
           R(k) == ResolveImport(p, layer.imports[k])
           V == {ref} \cup {R(k) : k \in 1 .. n}
           Base == {0}
           base == [k \in Base |-> ref]
           next == [k \in S \ Base |-> k - 1]
           step == [x \in (S \ Base) \X V |-> ReplaceRef(x[2], layer.imports[x[1]].parameter, R(x[1]))]
           rank == [k \in S |-> k]
           Body(f, k) == IF k = 0 THEN ref
                         ELSE ReplaceRef(f[k - 1], layer.imports[k].parameter, R(k))
<1>1. S \ Base = 1 .. n /\ n \in Nat /\ Base \in SUBSET S
  OBVIOUS
<1>2. rank \in [S -> 0 .. n] /\ base \in [Base -> V] /\ next \in [S \ Base -> S]
  BY <1>1
<1>3. step \in [(S \ Base) \X V -> V]
  <2>1. \A k \in S \ Base, v \in V : ReplaceRef(v, layer.imports[k].parameter, R(k)) \in V
    BY <1>1 DEF ReplaceRef
  <2> QED
    BY <2>1
<1>4. \A k \in S \ Base : rank[next[k]] < rank[k]
  BY <1>1
<1> HIDE DEF n, S, V, Base, base, next, step, rank
<1>5. PICK f \in [S -> V] :
        f = [k \in S |-> IF k \in Base THEN base[k] ELSE step[<< k, f[next[k]] >>]]
  <2>1. Recursion(S, V, n, rank, Base, base, next, step)
    BY <1>1, <1>2, <1>3, <1>4 DEF Recursion
  <2> QED
    BY <2>1, RecursionExists
<1>6. \A k \in S : f[k] = Body(f, k)
  <2> SUFFICES ASSUME NEW k \in S PROVE f[k] = Body(f, k)
    OBVIOUS
  <2>1. CASE k = 0
    BY <1>5, <2>1 DEF Base, base
  <2>2. CASE k # 0
    <3>1. k \in S \ Base
      BY <2>2 DEF Base
    <3>2. f[k] = step[<< k, f[next[k]] >>]
      BY <1>5, <3>1
    <3>3. next[k] = k - 1 /\ next[k] \in S
      BY <1>2, <3>1 DEF next
    <3>4. << k, f[k - 1] >> \in (S \ Base) \X V
      BY <1>5, <3>1, <3>3
    <3> QED
      BY <2>2, <3>2, <3>3, <3>4 DEF step
  <2> QED
    BY <2>1, <2>2
<1>7. f = [k \in S |-> Body(f, k)]
  BY <1>5, <1>6
<1>8. AfterImports(p, layer, ref) = [k \in S |-> Body(AfterImports(p, layer, ref), k)]
  BY <1>7 DEF AfterImports, S, n
<1> DEFINE after == AfterImports(p, layer, ref)
<1> HIDE DEF after
<1>9. \A k \in S : after[k] = Body(after, k)
  BY <1>8 DEF after
<1>10. 0 \in S /\ \A k \in 1 .. n : k \in S /\ k # 0
  BY <1>1 DEF S
<1> QED
  BY <1>9, <1>10 DEF after, n

(* When no two imports of a layer meet, each is replaced once.              *)
LEMMA ImportReplacedOnce ==
  ASSUME NEW p, NEW layer, Len(layer.imports) \in Nat, NEW j \in 1 .. Len(layer.imports),
         \A a, b \in 1 .. Len(layer.imports) :
           a < b => layer.imports[b].parameter \notin
                      {layer.imports[a].parameter, ResolveImport(p, layer.imports[a]).to}
  PROVE  AfterImports(p, layer, Ref(layer.imports[j].parameter))[Len(layer.imports)]
           = ResolveImport(p, layer.imports[j])
<1> DEFINE n == Len(layer.imports)
           I(k) == layer.imports[k].parameter
           R(k) == ResolveImport(p, layer.imports[k])
           after == AfterImports(p, layer, Ref(I(j)))
           P == {k \in Nat : k <= n => after[k] = IF k < j THEN Ref(I(j)) ELSE R(j)}
<1>1. /\ after[0] = Ref(I(j))
      /\ \A k \in 1 .. n : after[k] = ReplaceRef(after[k - 1], I(k), R(k))
  BY ImportsReplace
<1>2. \A a, b : a # b => Ref(a) # Ref(b)
  <2>1. \A a : Ref(a).to = a
    BY DEF Ref
  <2> QED
    BY <2>1
<1>3. \A r, a : r.to # a => r # Ref(a)
  BY DEF Ref
<1>4. /\ \A k \in 1 .. n : k < j => I(k) # I(j)
      /\ \A k \in 1 .. n : j < k => R(j).to # I(k)
  OBVIOUS
<1>5. n \in Nat /\ j \in 1 .. n
  OBVIOUS
<1> HIDE DEF n, I, R, after
<1>6. 0 \in P
  BY <1>1, <1>5
<1>7. ASSUME NEW k \in Nat, k \in P
      PROVE  k + 1 \in P
  <2> SUFFICES ASSUME k + 1 <= n
               PROVE  after[k + 1] = IF k + 1 < j THEN Ref(I(j)) ELSE R(j)
    OBVIOUS
  <2>1. k + 1 \in 1 .. n /\ (k + 1) - 1 = k /\ k <= n
    BY <1>5
  <2>2. after[k + 1] = ReplaceRef(after[k], I(k + 1), R(k + 1))
    BY <1>1, <2>1
  <2>3. after[k] = IF k < j THEN Ref(I(j)) ELSE R(j)
    BY <1>7, <2>1
  <2>4. CASE k + 1 < j
    <3>1. k < j /\ I(k + 1) # I(j)
      BY <1>4, <1>5, <2>1, <2>4
    <3>2. Ref(I(j)) # Ref(I(k + 1))
      BY <1>2, <3>1
    <3> QED
      BY <2>2, <2>3, <2>4, <3>1, <3>2 DEF ReplaceRef
  <2>5. CASE k + 1 = j
    <3>1. k < j /\ ~(k + 1 < j)
      BY <1>5, <2>5
    <3> QED
      BY <2>2, <2>3, <2>5, <3>1 DEF ReplaceRef
  <2>6. CASE k + 1 > j
    <3>1. ~(k < j) /\ ~(k + 1 < j) /\ R(j).to # I(k + 1)
      BY <1>4, <1>5, <2>1, <2>6
    <3>2. R(j) # Ref(I(k + 1))
      BY <1>3, <3>1
    <3> QED
      BY <2>2, <2>3, <3>1, <3>2 DEF ReplaceRef
  <2> QED
    BY <1>5, <2>4, <2>5, <2>6
<1>8. n \in P
  <2> HIDE DEF P
  <2> QED
    BY <1>5, <1>6, <1>7, NumberInduction
<1>9. after[n] = R(j)
  BY <1>5, <1>8
<1> QED
  BY <1>9 DEF after, n, R, I

LEMMA SubStays ==
  ASSUME NEW p, NEW layer, Len(layer.imports) \in Nat, NEW id
  PROVE  AfterImports(p, layer, Sub(id))[Len(layer.imports)] = Sub(id)
<1> DEFINE n == Len(layer.imports)
           after == AfterImports(p, layer, Sub(id))
           P == {k \in Nat : k <= n => after[k] = Sub(id)}
<1>1. /\ after[0] = Sub(id)
      /\ \A k \in 1 .. n : after[k] = ReplaceRef(after[k - 1], layer.imports[k].parameter,
                                                 ResolveImport(p, layer.imports[k]))
  BY ImportsReplace
<1>2. \A a : Sub(id) # Ref(a)
  <2>1. Sub(id).form = "sub" /\ \A a : Ref(a).form = "ref"
    BY DEF Sub, Ref
  <2> QED
    BY <2>1
<1>3. n \in Nat
  OBVIOUS
<1> HIDE DEF n, after
<1>4. 0 \in P
  BY <1>1
<1>5. ASSUME NEW k \in Nat, k \in P
      PROVE  k + 1 \in P
  <2> SUFFICES ASSUME k + 1 <= n
               PROVE  after[k + 1] = Sub(id)
    OBVIOUS
  <2>1. k + 1 \in 1 .. n /\ (k + 1) - 1 = k /\ k <= n
    BY <1>3
  <2> QED
    BY <1>1, <1>2, <1>5, <2>1 DEF ReplaceRef
<1>6. n \in P
  <2> HIDE DEF P
  <2> QED
    BY <1>3, <1>4, <1>5, NumberInduction
<1> QED
  BY <1>3, <1>6 DEF after, n

(* A merge that does not raise: names are the layers' own, and every import *)
(* has an export.                                                           *)
LEMMA MergeableFacts ==
  ASSUME NEW p, IsLayerPlan(p), NEW d, Drafted(p, d, Names(p, DOMAIN p)), ~MergeRaises(p, d)
  PROVE  \A i \in DOMAIN p :
           /\ GetLayer(p, p[i].name) = p[i]
           /\ \A j \in DOMAIN p[i].imports : ExportsOf(p, p[i].imports[j]) # {}
<1>1. Len(p) \in Nat \ {0} /\ DOMAIN p = 1 .. Len(p)
  BY PlanFacts
<1>2. Unresolved(p) = {} /\ Duplicates(p, d) = {}
  BY DEF MergeRaises
<1>3. ASSUME NEW i \in DOMAIN p, NEW j \in DOMAIN p, i < j, p[i].name = p[j].name
      PROVE  FALSE
  <2> DEFINE n == p[i].name
             id == GetLayer(p, n).name
  <2>1. n \in DOMAIN d /\ n \in Names(p, DOMAIN p)
    BY DEF Drafted, Names
  <2>2. PICK slip \in Slips : d[n] = Draft(GetLayer(p, n), slip)
    BY <2>1 DEF Drafted
  <2>3. id \in d[n].resources
    BY <2>2 DEF Draft
  <2>4. id \in UNION {d[m].resources : m \in DOMAIN d}
    BY <2>1, <2>3
  <2>5. id \in Duplicates(p, d)
    BY <1>3, <2>3, <2>4 DEF Duplicates
  <2> QED
    BY <1>2, <2>5
<1>4. \A i, j \in DOMAIN p : p[i].name = p[j].name => i = j
  <2> SUFFICES ASSUME NEW i \in DOMAIN p, NEW j \in DOMAIN p, p[i].name = p[j].name
               PROVE  i = j
    OBVIOUS
  <2>1. i < j \/ j < i \/ i = j
    BY <1>1
  <2> QED
    BY <1>3, <2>1
<1> SUFFICES ASSUME NEW i \in DOMAIN p
             PROVE  /\ GetLayer(p, p[i].name) = p[i]
                    /\ \A j \in DOMAIN p[i].imports : ExportsOf(p, p[i].imports[j]) # {}
  OBVIOUS
<1>5. GetLayer(p, p[i].name) = p[i]
  <2> DEFINE T == Named(p, p[i].name)
  <2>1. T = {i}
    BY <1>4 DEF Named
  <2>2. (CHOOSE a \in T : \A b \in T : a <= b) = i
    <3>1. i <= i
      BY <1>1
    <3> HIDE DEF T
    <3> QED
      BY <2>1, <3>1
  <2> QED
    BY <2>2 DEF GetLayer
<1>6. ASSUME NEW j \in DOMAIN p[i].imports
      PROVE  ExportsOf(p, p[i].imports[j]) # {}
  <2>1. p[i].imports[j] \in ToSet(p[i].imports)
    BY DEF ToSet
  <2>2. p[i].imports[j] \in UNION {ToSet(p[k].imports) : k \in DOMAIN p}
    BY <2>1
  <2> QED
    BY <1>2, <2>2 DEF Unresolved
<1> QED
  BY <1>5, <1>6

(* What an import is replaced with is what its export stands for.           *)
LEMMA ResolvedToExport ==
  ASSUME NEW p, IsLayerPlan(p), NEW imp, ExportsOf(p, imp) # {}
  PROVE  \E e \in ToSet(GetLayer(p, imp.source).exports) :
           LET place == ResolveImport(p, imp)
           IN  /\ e.name = imp.name /\ e.resource = place.to /\ e.attribute = place.attribute
               /\ (place.form = "ref") <=> (e.attribute = NoAttribute)
<1> DEFINE layer == GetLayer(p, imp.source)
           T == ExportsOf(p, imp)
           k == CHOOSE i \in T : \A j \in T : i <= j
           e == layer.exports[k]
<1>1. Len(p) \in Nat \ {0} /\ DOMAIN p = 1 .. Len(p)
  BY PlanFacts
<1>2. HasLayer(p, imp.source) /\ T = {i \in DOMAIN layer.exports : layer.exports[i].name = imp.name}
  BY DEF ExportsOf
<1>3. layer \in ToSet(p)
  <2>1. imp.source \in Names(p, DOMAIN p)
    BY <1>2 DEF HasLayer, Named, Names
  <2> QED
    BY <2>1, LayerFound
<1>4. layer.exports \in Seq(ToSet(layer.exports))
  BY <1>3 DEF IsLayerPlan
<1>5. DOMAIN layer.exports \in SUBSET Nat
  BY <1>4, LenProperties
<1>6. k \in T
  <2>1. T \in SUBSET Nat /\ T # {}
    BY <1>2, <1>5
  <2> HIDE DEF T
  <2> QED
    BY <2>1, LeastChosen
<1>7. e \in ToSet(layer.exports) /\ e.name = imp.name
  BY <1>2, <1>6 DEF ToSet
<1>8. ResolveImport(p, imp) = IF e.attribute = NoAttribute THEN Ref(e.resource)
                              ELSE GetAtt(e.resource, e.attribute)
  BY DEF ResolveImport
<1> HIDE DEF e
<1>9. LET place == ResolveImport(p, imp)
      IN  /\ e.resource = place.to /\ e.attribute = place.attribute
          /\ (place.form = "ref") <=> (e.attribute = NoAttribute)
  BY <1>8 DEF Ref, GetAtt
<1> QED
  BY <1>7, <1>9

(* The template that the loop works on was merged.                          *)
WiredInv == phase \in {"validate", "check"} /\ plan # NoPlan => ~MergeRaises(plan, drafts)

LEMMA WiredSteps ==
  ASSUME LayersInv, WiredInv, [Next]_vars
  PROVE  WiredInv'
<1>1. CASE \/ phase' = "ended" /\ plan' = NoPlan /\ drafts' = NoDrafts /\ group' = 1
           \/ UNCHANGED << phase, layerVars >>
           \/ /\ UNCHANGED layerVars
              /\ phase \in {"idle", "choose", "ended"}
              /\ phase' \in {"idle", "choose", "parameterize", "compose", "plan"}
  BY <1>1 DEF WiredInv, layerVars
<1>2. CASE /\ UNCHANGED layerVars
           /\ phase \in {"parameterize", "compose", "validate", "check"}
           /\ phase' \in {"validate", "fix", "revalidate"}
  BY <1>2 DEF WiredInv, LayersInv, layerVars
<1>3. CASE /\ UNCHANGED layerVars
           /\ phase = "merge" /\ phase' = "validate" /\ MergedTemplates(drafts) # {}
  BY <1>3 DEF WiredInv, MergedTemplates, layerVars
<1>4. CASE UNCHANGED layerVars /\ phase = "fix" /\ phase' = "check" /\ plan = NoPlan
  BY <1>4 DEF WiredInv, layerVars
<1>5. CASE UsePredefinedPlan \/ UseCachedPlan \/ GenerateLayerPlan
  BY <1>5 DEF UsePredefinedPlan, UseCachedPlan, GenerateLayerPlan, StartLayers, WiredInv
<1>6. CASE GenerateGroup \/ FixSpecs
  BY <1>6 DEF GenerateGroup, FixSpecs, WiredInv
<1>7. CASE FixLayers
  <2>1. \/ phase' = "ended"
        \/ plan' = plan /\ MergedTemplates(drafts') # {}
    BY <1>7 DEF FixLayers, EndTask
  <2> QED
    BY <2>1 DEF WiredInv, MergedTemplates
<1> QED
  BY <1>1, <1>2, <1>3, <1>4, <1>5, <1>6, <1>7, LayersMoves

(* A layer in which no two imports meet, once merged: a place written for   *)
(* an import stands for its export, or was written ${Parameter}.            *)
LEMMA PlaceWired ==
  ASSUME NEW p, IsLayerPlan(p), Unambiguous(p),
         NEW d, Drafted(p, d, Names(p, DOMAIN p)), ~MergeRaises(p, d),
         NEW i \in DOMAIN p, NEW j \in DOMAIN p[i].imports
  PROVE  LET place == MergeLayers(p, d).layers[p[i].name].refs[p[i].imports[j].parameter]
         IN  place.form = "sub" \/ place = ResolveImport(p, p[i].imports[j])
<1> DEFINE layer == p[i]
           n == layer.name
           a == layer.imports[j].parameter
           wired(ref) == AfterImports(p, layer, ref)[Len(layer.imports)]
<1>1. n \in Names(p, DOMAIN p) /\ n \in DOMAIN d
  BY DEF Names, Drafted
<1>2. GetLayer(p, n) = layer
  BY MergeableFacts
<1>3. PICK slip \in Slips : d[n] = Draft(layer, slip)
  BY <1>1, <1>2 DEF Drafted
<1>4. a \in ImportParameters(layer)
  BY DEF ImportParameters
<1>5. layer \in ToSet(p)
  BY PlanFacts
<1>6. Len(layer.imports) \in Nat /\ DOMAIN layer.imports = 1 .. Len(layer.imports)
  BY <1>5, LenProperties DEF IsLayerPlan
<1>7. /\ DOMAIN d[n].refs = ImportParameters(layer)
      /\ d[n].refs[a] = IF slip = "sub" THEN Sub(a) ELSE Ref(a)
  BY <1>3, <1>4 DEF Draft
<1>8. MergeLayers(p, d).layers[n] = Wire(p, layer, d[n])
  BY <1>1, <1>2 DEF MergeLayers
<1>9. d[n] = [resources |-> d[n].resources, parameters |-> d[n].parameters, refs |-> d[n].refs,
              lint |-> d[n].lint, stray |-> d[n].stray]
  BY <1>3 DEF Draft
<1>10. Wire(p, layer, d[n]).refs[a] = wired(d[n].refs[a])
  BY <1>4, <1>7, <1>9 DEF Wire
<1>11. \A x, y \in 1 .. Len(layer.imports) :
         x < y => layer.imports[y].parameter \notin
                    {layer.imports[x].parameter, ResolveImport(p, layer.imports[x]).to}
  BY <1>6 DEF Unambiguous
<1>12. wired(Sub(a)) = Sub(a)
  BY <1>6, SubStays
<1>13. wired(Ref(a)) = ResolveImport(p, layer.imports[j])
  <2>1. j \in 1 .. Len(layer.imports)
    BY <1>6
  <2> HIDE DEF layer
  <2> QED
    BY <1>6, <1>11, <2>1, ImportReplacedOnce
<1> QED
  BY <1>7, <1>8, <1>10, <1>12, <1>13 DEF Sub

(* Whatever plan the model answers, if no two imports of a layer meet, the  *)
(* merged template gives at every place written {"ref": parameter} what the *)
(* layer imported from exports under that name, in the form it needs.       *)
THEOREM ImportsAlwaysWired == Spec => []ImportsWired
<1>1. Init => WiredInv
  BY DEF Init, GenInit, WiredInv
<1>2. LayersInv /\ WiredInv => ImportsWired
  <2> DEFINE Right(merged, i, j) ==
               LET imp == plan[i].imports[j]
                   place == merged.layers[plan[i].name].refs[imp.parameter]
                   exports == GetLayer(plan, imp.source).exports
               IN  place.form = "sub" \/
                     \E e \in ToSet(exports) : /\ e.name = imp.name
                                               /\ e.resource = place.to
                                               /\ e.attribute = place.attribute
                                               /\ (place.form = "ref") <=> (e.attribute = NoAttribute)
  <2> SUFFICES ASSUME LayersInv, WiredInv, phase \in {"validate", "check"}, plan # NoPlan,
                      Unambiguous(plan), NEW i \in DOMAIN plan, NEW j \in DOMAIN plan[i].imports
               PROVE  Right(MergeLayers(plan, drafts), i, j)
    <3>1. (\A i \in DOMAIN plan : \A j \in DOMAIN plan[i].imports : Right(MergeLayers(plan, drafts), i, j))
            => \A merged \in {MergeLayers(plan, drafts)}, i \in DOMAIN plan :
               \A j \in DOMAIN plan[i].imports : Right(merged, i, j)
      <4> HIDE DEF Right
      <4> QED
        OBVIOUS
    <3> QED
      BY <3>1 DEF ImportsWired
  <2>1. /\ IsLayerPlan(plan) /\ Drafted(plan, drafts, Names(plan, DOMAIN plan))
        /\ ~MergeRaises(plan, drafts)
    BY DEF LayersInv, WiredInv
  <2>2. ExportsOf(plan, plan[i].imports[j]) # {}
    BY <2>1, MergeableFacts
  <2>3. \E e \in ToSet(GetLayer(plan, plan[i].imports[j].source).exports) :
           LET place == ResolveImport(plan, plan[i].imports[j])
           IN  /\ e.name = plan[i].imports[j].name
               /\ e.resource = place.to /\ e.attribute = place.attribute
               /\ (place.form = "ref") <=> (e.attribute = NoAttribute)
    BY <2>1, <2>2, ResolvedToExport
  <2>4. LET place == MergeLayers(plan, drafts).layers[plan[i].name].refs[plan[i].imports[j].parameter]
        IN  place.form = "sub" \/ place = ResolveImport(plan, plan[i].imports[j])
    BY <2>1, PlaceWired
  <2> QED
    BY <2>3, <2>4
<1> QED
  BY <1>1, <1>2, LayersAlways, WiredSteps, PTL DEF Spec

-----------------------------------------------------------------------------
(* The fixes.                                                               *)

(* Whatever the imports of a layer are, a place written {"ref": parameter}  *)
(* ends as what one of them is replaced with.                               *)
LEMMA ReplacedByExport ==
  ASSUME NEW p, NEW layer, Len(layer.imports) \in Nat, NEW j \in 1 .. Len(layer.imports)
  PROVE  \E m \in 1 .. Len(layer.imports) :
           AfterImports(p, layer, Ref(layer.imports[j].parameter))[Len(layer.imports)]
             = ResolveImport(p, layer.imports[m])
<1> DEFINE n == Len(layer.imports)
           I(k) == layer.imports[k].parameter
           R(k) == ResolveImport(p, layer.imports[k])
           after == AfterImports(p, layer, Ref(I(j)))
           P == {k \in Nat : k <= n => \/ k < j /\ after[k] = Ref(I(j))
                                      \/ \E m \in 1 .. n : after[k] = R(m)}
<1>1. /\ after[0] = Ref(I(j))
      /\ \A k \in 1 .. n : after[k] = ReplaceRef(after[k - 1], I(k), R(k))
  BY ImportsReplace
<1>2. n \in Nat /\ j \in 1 .. n
  OBVIOUS
<1> HIDE DEF n, I, R, after
<1>3. 0 \in P
  BY <1>1, <1>2
<1>4. ASSUME NEW k \in Nat, k \in P
      PROVE  k + 1 \in P
  <2> SUFFICES ASSUME k + 1 <= n
               PROVE  \/ k + 1 < j /\ after[k + 1] = Ref(I(j))
                      \/ \E m \in 1 .. n : after[k + 1] = R(m)
    OBVIOUS
  <2>1. k + 1 \in 1 .. n /\ (k + 1) - 1 = k /\ k <= n
    BY <1>2
  <2>2. after[k + 1] = ReplaceRef(after[k], I(k + 1), R(k + 1))
    BY <1>1, <2>1
  <2>3. CASE \E m \in 1 .. n : after[k] = R(m)
    BY <2>1, <2>2, <2>3 DEF ReplaceRef
  <2>4. CASE k < j /\ after[k] = Ref(I(j))
    <3>1. CASE k + 1 = j
      BY <2>1, <2>2, <2>4, <3>1 DEF ReplaceRef
    <3>2. CASE k + 1 < j
      BY <2>1, <2>2, <2>4, <3>2 DEF ReplaceRef
    <3> QED
      BY <1>2, <2>4, <3>1, <3>2
  <2> QED
    BY <1>4, <2>1, <2>3, <2>4
<1>5. n \in P
  <2> HIDE DEF P
  <2> QED
    BY <1>2, <1>3, <1>4, NumberInduction
<1>6. \E m \in 1 .. n : after[n] = R(m)
  BY <1>2, <1>5
<1> QED
  BY <1>6 DEF after, n, R, I

(* What the merge keeps of a draft.                                         *)
LEMMA WiredFacts ==
  ASSUME NEW p, NEW layer, NEW slip \in Slips
  PROVE  LET d == Draft(layer, slip)
             w == Wire(p, layer, d)
         IN  /\ w.lint = d.lint /\ w.lint \in Nat /\ w.stray = d.stray
             /\ slip = "none" => w.lint = 0 /\ w.stray = 0
             /\ DOMAIN w.refs = ImportParameters(layer)
             /\ \A a \in ImportParameters(layer) :
                  w.refs[a] = AfterImports(p, layer, IF slip = "sub" THEN Sub(a) ELSE Ref(a))
                                [Len(layer.imports)]
<1> DEFINE d == Draft(layer, slip)
           w == Wire(p, layer, d)
<1>1. /\ d.lint \in Nat /\ DOMAIN d.refs = ImportParameters(layer)
      /\ slip = "none" => d.lint = 0 /\ d.stray = 0
      /\ \A a \in ImportParameters(layer) : d.refs[a] = IF slip = "sub" THEN Sub(a) ELSE Ref(a)
      /\ d = [resources |-> d.resources, parameters |-> d.parameters, refs |-> d.refs,
              lint |-> d.lint, stray |-> d.stray]
  BY DEF Draft
<1> HIDE DEF d
<1>2. /\ w.lint = d.lint /\ w.stray = d.stray /\ DOMAIN w.refs = DOMAIN d.refs
      /\ \A a \in DOMAIN d.refs : w.refs[a] = AfterImports(p, layer, d.refs[a])[Len(layer.imports)]
  BY <1>1 DEF Wire
<1> HIDE DEF w
<1>3. /\ w.lint = d.lint /\ w.lint \in Nat /\ w.stray = d.stray
      /\ slip = "none" => w.lint = 0 /\ w.stray = 0
      /\ DOMAIN w.refs = ImportParameters(layer)
      /\ \A a \in ImportParameters(layer) :
           w.refs[a] = AfterImports(p, layer, IF slip = "sub" THEN Sub(a) ELSE Ref(a))
                         [Len(layer.imports)]
  BY <1>1, <1>2
<1> QED
  BY <1>3 DEF d, w

(* A layer whose draft has no slip: no place of it stands for anything but  *)
(* an export.                                                               *)
LEMMA FixedLayer ==
  ASSUME NEW p, IsLayerPlan(p), Unresolved(p) = {}, NEW n \in Names(p, DOMAIN p),
         NEW a \in ImportParameters(GetLayer(p, n))
  PROVE  LET layer == GetLayer(p, n)
         IN  \E i \in DOMAIN p :
               Wire(p, layer, Draft(layer, "none")).refs[a].to \in Exported(p[i])
<1> DEFINE layer == GetLayer(p, n)
           last(ref) == AfterImports(p, layer, ref)[Len(layer.imports)]
<1>1. layer \in ToSet(p)
  BY LayerFound
<1>2. Len(layer.imports) \in Nat /\ DOMAIN layer.imports = 1 .. Len(layer.imports)
  BY <1>1, LenProperties DEF IsLayerPlan
<1>3. PICK j \in 1 .. Len(layer.imports) : layer.imports[j].parameter = a
  BY <1>2 DEF ImportParameters
<1>4. PICK m \in 1 .. Len(layer.imports) : last(Ref(a)) = ResolveImport(p, layer.imports[m])
  <2> HIDE DEF layer
  <2> QED
    BY <1>2, <1>3, ReplacedByExport
<1> DEFINE imp == layer.imports[m]
<1>5. ExportsOf(p, imp) # {}
  <2>1. PICK i \in DOMAIN p : p[i] = layer
    BY <1>1 DEF ToSet
  <2>2. imp \in ToSet(p[i].imports)
    BY <1>2, <2>1 DEF ToSet
  <2>3. imp \in UNION {ToSet(p[k].imports) : k \in DOMAIN p}
    BY <2>2
  <2> QED
    BY <2>3 DEF Unresolved
<1>6. PICK e \in ToSet(GetLayer(p, imp.source).exports) : e.resource = ResolveImport(p, imp).to
  BY <1>5, ResolvedToExport
<1>7. PICK i \in DOMAIN p : GetLayer(p, imp.source) = p[i]
  <2>1. imp.source \in Names(p, DOMAIN p)
    BY <1>5 DEF ExportsOf, HasLayer, Named, Names
  <2> QED
    BY <2>1, LayerFound DEF ToSet
<1>8. e.resource \in Exported(p[i])
  BY <1>6, <1>7 DEF Exported, ToSet
<1>9. "none" \in Slips
  BY DEF Slips
<1>10. Wire(p, layer, Draft(layer, "none")).refs[a] = last(Ref(a))
  BY <1>9, WiredFacts
<1> QED
  BY <1>4, <1>6, <1>8, <1>10

(* One round without a slip, layer by layer.                                *)
LEMMA RoundMends ==
  ASSUME NEW p, IsLayerPlan(p), Unresolved(p) = {}, NEW d, Drafted(p, d, Names(p, DOMAIN p)),
         NEW new \in RedraftsOf(p, d, LayersInError(MergeLayers(p, d)), 0)
  PROVE  Mended(p, MergeLayers(p, d), MergeLayers(p, new))
<1> DEFINE names == Names(p, DOMAIN p)
           found == MergeLayers(p, d)
           now == MergeLayers(p, new)
           faulty == LayersInError(found)
           Right(l) == Draft(GetLayer(p, l), "none")
<1>1. DOMAIN d = names /\ faulty \subseteq names
  BY ErrorsOfLayers DEF Drafted
<1>2. kSubset(0, faulty) = {{}}
  <2>1. IsFiniteSet(names)
    BY NamesFinite
  <2> HIDE DEF names, faulty
  <2>2. \A s \in SUBSET faulty : IsFiniteSet(s)
    BY <1>1, <2>1, FS_Subset
  <2>3. \A s \in SUBSET faulty : Cardinality(s) = 0 <=> s = {}
    BY <2>2, FS_EmptySet
  <2> QED
    BY <2>3 DEF kSubset
<1>3. new = [l \in names |-> IF l \in faulty THEN Right(l) ELSE d[l]]
  <2>1. PICK f \in UNION {[S -> Slips \ {"none"}] : S \in kSubset(0, faulty)} :
          new = [l \in DOMAIN d \cup faulty |->
                   IF l \in DOMAIN f THEN Draft(GetLayer(p, l), f[l])
                   ELSE IF l \in faulty THEN Right(l) ELSE d[l]]
    BY DEF RedraftsOf
  <2> HIDE DEF faulty, names, Right
  <2>2. DOMAIN f = {}
    BY <1>2, <2>1
  <2>3. DOMAIN d \cup faulty = names
    BY <1>1
  <2> QED
    BY <1>1, <2>1, <2>2, <2>3
<1>4. /\ found.layers = [l \in names |-> Wire(p, GetLayer(p, l), d[l])]
      /\ now.layers = [l \in names |-> Wire(p, GetLayer(p, l), new[l])]
  BY <1>1, <1>3 DEF MergeLayers
<1> HIDE DEF found, now
<1>5. \A l \in faulty : now.layers[l] = Wire(p, GetLayer(p, l), Right(l))
  BY <1>1, <1>3, <1>4
<1>6. \A l \in names \ faulty : now.layers[l] = found.layers[l]
  BY <1>1, <1>3, <1>4
<1> HIDE DEF Right
<1>7. ASSUME NEW l \in names
      PROVE  now.layers[l].lint = 0 /\ now.layers[l].stray # 1
  <2>1. CASE l \in faulty
    <3>1. "none" \in Slips
      BY DEF Slips
    <3> QED
      BY <1>5, <2>1, <3>1, WiredFacts DEF Right
  <2>2. CASE l \notin faulty
    <3>1. Strays(found) = {} /\ l \notin Owners(found)
      BY <1>4, <2>2 DEF LayersInError
    <3>2. found.layers[l].stray # 1
      BY <1>4, <3>1 DEF Strays
    <3>3. found.layers[l].lint \in Nat
      <4>1. PICK slip \in Slips : d[l] = Draft(GetLayer(p, l), slip)
        BY DEF Drafted
      <4> QED
        BY <1>4, <4>1, WiredFacts
    <3>4. ~(1 \in 1 .. found.layers[l].lint)
      <4>1. SUFFICES ASSUME 1 \in 1 .. found.layers[l].lint PROVE FALSE
        OBVIOUS
      <4>2. << l, 1 >> \in Flaws(found)
        BY <1>4, <4>1 DEF Flaws
      <4> QED
        BY <3>1, <4>2 DEF Owners
    <3> QED
      BY <1>6, <2>2, <3>2, <3>3, <3>4
  <2> QED
    BY <2>1, <2>2
<1>8. Flaws(now) = {} /\ Strays(now) = {}
  BY <1>4, <1>7 DEF Flaws, Strays
<1>9. ASSUME NEW e \in Unplaced(found)
      PROVE  \E i \in DOMAIN p : now.layers[e[1]].refs[e[2]].to \in Exported(p[i])
  <2>1. PICK l \in names : e \in {l} \X DOMAIN found.layers[l].refs
    BY <1>4 DEF Unplaced
  <2>2. e[1] = l /\ e[2] \in DOMAIN found.layers[l].refs
    BY <2>1
  <2>3. l \in faulty
    BY <1>4, <2>2 DEF LayersInError, Owners
  <2>4. e[2] \in ImportParameters(GetLayer(p, l))
    <3>1. PICK slip \in Slips : d[l] = Draft(GetLayer(p, l), slip)
      BY DEF Drafted
    <3> QED
      BY <1>4, <2>2, <3>1, WiredFacts
  <2> QED
    BY <1>5, <2>2, <2>3, <2>4, FixedLayer DEF Right
<1>10. Mended(p, found, now)
  BY <1>8, <1>9 DEF Mended
<1> QED
  BY <1>10 DEF found, now

(* Every error of a merged template is shown to a layer that can mend it:   *)
(* after a round of fixes without a mistake, whatever the plan and the      *)
(* drafts were, none of the errors found is left but a place for a resource *)
(* that a layer was to export and never made.                               *)
THEOREM FixesAlwaysReach == Spec => FixesReachTheirLayer
<1>1. ASSUME LayersInv, BoundsInv, [Next]_vars,
             phase = "fix", phase' = "check", plan # NoPlan, mishaps' = mishaps
      PROVE  Mended(plan, MergeLayers(plan, drafts), MergeLayers(plan, drafts'))
  <2>1. FixLayers
    <3>1. ~(UsePredefinedPlan \/ UseCachedPlan \/ GenerateLayerPlan \/ GenerateGroup \/ FixSpecs)
      BY <1>1 DEF UsePredefinedPlan, UseCachedPlan, GenerateLayerPlan, GenerateGroup, FixSpecs
    <3> QED
      BY <1>1, <3>1, LayersMoves
  <2>2. PICK n \in 0 .. MaxMishaps :
          /\ Mishap(n)
          /\ drafts' \in RedraftsOf(plan, drafts, LayersInError(MergeLayers(plan, drafts)), n)
          /\ MergedTemplates(drafts') # {}
    BY <1>1, <2>1 DEF FixLayers, EndTask, Redrafts, RedraftsOf
  <2>3. n = 0
    <3>1. n \in 0 .. MaxMishaps /\ mishaps' = mishaps + n
      BY <2>2 DEF Mishap
    <3>2. mishaps \in 0 .. MaxMishaps /\ mishaps' = mishaps /\ MaxMishaps \in Nat
      BY <1>1, MaxMishapsAssumption DEF BoundsInv
    <3> QED
      BY <3>1, <3>2
  <2>4. Unresolved(plan) = {}
    BY <2>2 DEF MergedTemplates, MergeRaises
  <2>5. IsLayerPlan(plan) /\ Drafted(plan, drafts, Names(plan, DOMAIN plan))
    BY <1>1 DEF LayersInv
  <2> QED
    BY <2>2, <2>3, <2>4, <2>5, RoundMends
<1>2. LayersInv /\ BoundsInv /\ [Next]_vars =>
        [(phase = "fix" /\ phase' = "check" /\ plan # NoPlan /\ mishaps' = mishaps)
           => Mended(plan, MergeLayers(plan, drafts), MergeLayers(plan, drafts'))]_genVars
  BY <1>1
<1> QED
  BY <1>2, LayersAlways, BoundsAlways, PTL DEF Spec, FixesReachTheirLayer

-----------------------------------------------------------------------------
(* The predefined plans: contracts that the merge can keep.                 *)

(* A layer that may stand behind those of S: another name, other ids, and   *)
(* every import has its export there.                                       *)
Follows(layer, S) ==
  /\ \A k \in S : k.name # layer.name /\ Exported(k) \cap Exported(layer) = {}
  /\ \A imp \in ToSet(layer.imports) :
       \E k \in S : k.name = imp.source /\ \E e \in ToSet(k.exports) : e.name = imp.name

(* In a contract every layer follows those before it.                       *)
Contract(p) ==
  IsLayerPlan(p) /\ \A i \in DOMAIN p : Follows(p[i], {p[k] : k \in 1 .. i - 1})

(* What its layers are to each other, whichever comes first.                *)
LEMMA ContractNames ==
  ASSUME NEW p, Contract(p)
  PROVE  /\ \A i, j \in DOMAIN p :
              i # j => p[i].name # p[j].name /\ Exported(p[i]) \cap Exported(p[j]) = {}
         /\ \A i \in DOMAIN p : Sources(p[i]) \subseteq Names(p, 1 .. i - 1)
<1>1. Len(p) \in Nat \ {0} /\ DOMAIN p = 1 .. Len(p)
  BY PlanFacts DEF Contract
<1>2. ASSUME NEW i \in DOMAIN p, NEW j \in DOMAIN p, i < j
      PROVE  p[i].name # p[j].name /\ Exported(p[i]) \cap Exported(p[j]) = {}
  <2>1. i \in 1 .. j - 1
    BY <1>1, <1>2
  <2> QED
    BY <2>1 DEF Contract, Follows
<1>3. ASSUME NEW i \in DOMAIN p, NEW n \in Sources(p[i])
      PROVE  n \in Names(p, 1 .. i - 1)
  <2>1. PICK imp \in ToSet(p[i].imports) : imp.source = n
    BY DEF Sources, ToSet
  <2> QED
    BY <2>1 DEF Contract, Follows, Names
<1>4. \A i, j \in DOMAIN p : i # j => i < j \/ j < i
  BY <1>1
<1> QED
  BY <1>2, <1>3, <1>4

(* No two layers of a group depend on each other, or on themselves.         *)
LEMMA GroupsIndependent ==
  ASSUME NEW p, Contract(p)
  PROVE  \A g \in DOMAIN ParallelizableGroups(p) : \A i, j \in ParallelizableGroups(p)[g] :
           p[i].name \notin Sources(p[j])
<1> DEFINE D == DOMAIN p
           after(taken) == GroupsAfter(p)[taken]
           Free(I) == \A i, j \in I : p[i].name \notin Sources(p[j])
           P == {taken \in SUBSET D : \A k \in 1 .. Len(after(taken)) : Free(after(taken)[k])}
           rank == [taken \in SUBSET D |-> Cardinality(D \ taken)]
<1>1. Len(p) \in Nat \ {0} /\ D = 1 .. Len(p)
  BY PlanFacts DEF Contract
<1>2. IsFiniteSet(D)
  BY <1>1, FS_Interval
<1>3. /\ GroupsAfter(p) \in [SUBSET D -> Seq(SUBSET D)]
      /\ \A taken \in SUBSET D :
           after(taken) = IF taken = D THEN <<>>
                          ELSE IF Ready(p, taken) = {} THEN << D \ taken >>
                          ELSE << Ready(p, taken) >> \o after(taken \cup Ready(p, taken))
  BY <1>1, GroupsEquation
<1>4. /\ \A i, j \in D : p[i].name = p[j].name => i = j
      /\ \A i \in D : Sources(p[i]) \subseteq Names(p, 1 .. i - 1)
  BY ContractNames
<1>5. ASSUME NEW taken \in SUBSET D, taken # D
      PROVE  Ready(p, taken) # {}
  <2>1. D \ taken \in SUBSET Nat /\ D \ taken # {}
    BY <1>1, <1>5
  <2>2. PICK i \in D \ taken : \A j \in D \ taken : i <= j
    BY <2>1, LeastNumber
  <2>3. 1 .. i - 1 \subseteq taken
    BY <1>1, <2>2
  <2>4. Sources(p[i]) \subseteq Names(p, taken)
    BY <1>4, <2>3 DEF Names
  <2> QED
    BY <2>2, <2>4 DEF Ready
<1>6. ASSUME NEW taken \in SUBSET D
      PROVE  Free(Ready(p, taken)) /\ Ready(p, taken) \subseteq D /\ Ready(p, taken) \cap taken = {}
  <2>1. ASSUME NEW i \in Ready(p, taken), NEW j \in Ready(p, taken), p[i].name \in Sources(p[j])
        PROVE  FALSE
    <3>1. p[i].name \in Names(p, taken) /\ i \in D \ taken
      BY <2>1 DEF Ready
    <3>2. PICK k \in taken : p[k].name = p[i].name
      BY <3>1 DEF Names
    <3> QED
      BY <1>4, <3>1, <3>2
  <2> QED
    BY <2>1 DEF Ready
<1> HIDE DEF Free
<1>7. rank \in [SUBSET D -> Nat]
  <2>1. \A taken \in SUBSET D : Cardinality(D \ taken) \in Nat
    BY <1>2, FS_Subset, FS_CardinalityType
  <2> QED
    BY <2>1
<1>8. ASSUME NEW taken \in SUBSET D, \A t \in SUBSET D : rank[t] < rank[taken] => t \in P
      PROVE  taken \in P
  <2> DEFINE more == taken \cup Ready(p, taken)
  <2>1. CASE taken = D
    <3>1. after(taken) = <<>> /\ Len(<<>>) = 0
      BY <1>3, <2>1
    <3>2. 1 .. Len(after(taken)) = {}
      BY <3>1
    <3> QED
      BY <3>2
  <2>2. CASE taken # D
    <3>1. more \in SUBSET D /\ D \ more \subseteq D \ taken /\ D \ more # D \ taken
      BY <1>5, <1>6, <2>2
    <3>2. rank[more] < rank[taken]
      <4>1. /\ IsFiniteSet(D \ taken) /\ IsFiniteSet(D \ more)
            /\ Cardinality(D \ more) <= Cardinality(D \ taken)
            /\ Cardinality(D \ more) # Cardinality(D \ taken)
        BY <1>2, <3>1, FS_Subset
      <4>2. Cardinality(D \ more) < Cardinality(D \ taken)
        BY <4>1, FS_CardinalityType
      <4> QED
        BY <3>1, <4>2
    <3>3. more \in P
      BY <1>8, <3>1, <3>2
    <3>4. after(taken) = << Ready(p, taken) >> \o after(more)
      BY <1>3, <1>5, <2>2
    <3>5. << Ready(p, taken) >> \in Seq(SUBSET D) /\ after(more) \in Seq(SUBSET D)
      BY <1>3, <1>6, <3>1
    <3>6. \A k \in 1 .. Len(after(taken)) : Free(after(taken)[k])
      <4> DEFINE one == << Ready(p, taken) >>
                 rest == after(more)
      <4>1. Len(one) = 1 /\ one[1] = Ready(p, taken)
        OBVIOUS
      <4>2. \A k \in 1 .. Len(rest) : Free(rest[k])
        BY <3>3
      <4>3. Len(rest) \in Nat
        BY <3>5, LenProperties
      <4> HIDE DEF one, rest
      <4>4. /\ Len(one \o rest) = 1 + Len(rest)
            /\ \A k \in 1 .. 1 + Len(rest) : (one \o rest)[k] = IF k <= 1 THEN one[k] ELSE rest[k - 1]
        BY <3>5, <4>1, ConcatProperties DEF one, rest
      <4>5. ASSUME NEW k \in 1 .. 1 + Len(rest)
            PROVE  Free((one \o rest)[k])
        <5>1. CASE k = 1
          BY <1>6, <4>1, <4>4, <5>1
        <5>2. CASE k # 1
          <6>1. k - 1 \in 1 .. Len(rest) /\ ~(k <= 1)
            BY <4>3, <5>2
          <6> QED
            BY <4>2, <4>4, <6>1
        <5> QED
          BY <5>1, <5>2
      <4> QED
        BY <3>4, <4>4, <4>5 DEF one, rest
    <3> QED
      BY <3>6
  <2> QED
    BY <2>1, <2>2
<1>9. {} \in P
  <2> HIDE DEF P, rank
  <2>1. SUBSET D \subseteq P
    BY <1>7, <1>8, RankInduction
  <2> QED
    BY <2>1
<1>10. DOMAIN after({}) = 1 .. Len(after({}))
  BY <1>3, LenProperties
<1> QED
  BY <1>9, <1>10 DEF Free, ParallelizableGroups

(* Layers that follow each other, three to five of them, form a contract.   *)
LEMMA Contracts ==
  ASSUME NEW a, NEW b, NEW c, NEW d, NEW e,
         Listed(a), Listed(b), Listed(c), Follows(a, {}), Follows(b, {a}), Follows(c, {a, b})
  PROVE  /\ Contract(<< a, b, c >>)
         /\ Listed(d) /\ Follows(d, {a, b, c}) => Contract(<< a, b, c, d >>)
         /\ Listed(d) /\ Follows(d, {a, b, c}) /\ Listed(e) /\ Follows(e, {a, b, c, d})
              => Contract(<< a, b, c, d, e >>)
<1> DEFINE Before(p, i) == {p[k] : k \in 1 .. i - 1}
<1>1. ASSUME NEW p, p[1] = a, p[2] = b, p[3] = c
      PROVE  /\ Before(p, 1) = {} /\ Before(p, 2) = {a} /\ Before(p, 3) = {a, b}
             /\ Before(p, 4) = {a, b, c} /\ (p[4] = d => Before(p, 5) = {a, b, c, d})
  <2>1. 1 .. 0 = {} /\ 1 .. 1 = {1} /\ 1 .. 2 = {1, 2} /\ 1 .. 3 = {1, 2, 3} /\ 1 .. 4 = {1, 2, 3, 4}
    OBVIOUS
  <2>2. 1 - 1 = 0 /\ 2 - 1 = 1 /\ 3 - 1 = 2 /\ 4 - 1 = 3 /\ 5 - 1 = 4
    OBVIOUS
  <2> QED
    BY <1>1, <2>1, <2>2
<1> DEFINE three == << a, b, c >>
           four == << a, b, c, d >>
           five == << a, b, c, d, e >>
<1>2. /\ three[1] = a /\ three[2] = b /\ three[3] = c /\ DOMAIN three = {1, 2, 3}
      /\ four[1] = a /\ four[2] = b /\ four[3] = c /\ four[4] = d /\ DOMAIN four = {1, 2, 3, 4}
      /\ five[1] = a /\ five[2] = b /\ five[3] = c /\ five[4] = d /\ five[5] = e
      /\ DOMAIN five = {1, 2, 3, 4, 5}
  OBVIOUS
<1>3. /\ IsLayerPlan(three) /\ (Listed(d) => IsLayerPlan(four))
      /\ (Listed(d) /\ Listed(e) => IsLayerPlan(five))
  BY PlansOfLayers
<1> HIDE DEF three, four, five, Before
<1>4. \A i \in DOMAIN three : Follows(three[i], Before(three, i))
  BY <1>1, <1>2
<1>5. ASSUME Follows(d, {a, b, c})
      PROVE  \A i \in DOMAIN four : Follows(four[i], Before(four, i))
  BY <1>1, <1>2, <1>5
<1>6. ASSUME Follows(d, {a, b, c}), Follows(e, {a, b, c, d})
      PROVE  \A i \in DOMAIN five : Follows(five[i], Before(five, i))
  BY <1>1, <1>2, <1>6
<1> QED
  BY <1>3, <1>4, <1>5, <1>6 DEF Contract, Before, three, four, five

(* What others see of a layer: the exports it wants and of which layers,    *)
(* the names of those it gives, the ids of the resources that give them.    *)
Wants(imports) == {<< imp.source, imp.name >> : imp \in ToSet(imports)}
Gives(exports) == {e.name : e \in ToSet(exports)}
Ids(exports) == {e.resource : e \in ToSet(exports)}

LEMMA FollowsBySight ==
  ASSUME NEW layer, NEW S,
         \A k \in S : k.name # layer.name /\ Ids(k.exports) \cap Ids(layer.exports) = {},
         \A w \in Wants(layer.imports) : \E k \in S : k.name = w[1] /\ w[2] \in Gives(k.exports)
  PROVE  Follows(layer, S)
<1>1. \A k : Exported(k) = Ids(k.exports)
  BY DEF Exported, Ids, ToSet
<1>2. ASSUME NEW imp \in ToSet(layer.imports)
      PROVE  \E k \in S : k.name = imp.source /\ \E e \in ToSet(k.exports) : e.name = imp.name
  <2> DEFINE w == << imp.source, imp.name >>
  <2>1. w \in Wants(layer.imports) /\ w[1] = imp.source /\ w[2] = imp.name
    BY DEF Wants
  <2>2. PICK k \in S : k.name = imp.source /\ imp.name \in Gives(k.exports)
    BY <2>1
  <2> QED
    BY <2>2 DEF Gives
<1> QED
  BY <1>1, <1>2 DEF Follows

(* The members of short lists, and of lists joined.                         *)
LEMMA Members ==
  /\ ToSet(<<>>) = {}
  /\ \A a : ToSet(<< a >>) = {a}
  /\ \A a, b : ToSet(<< a, b >>) = {a, b}
  /\ \A a, b, c : ToSet(<< a, b, c >>) = {a, b, c}
  /\ \A a, b, c, d : ToSet(<< a, b, c, d >>) = {a, b, c, d}
  /\ \A a, b, c, d, e : ToSet(<< a, b, c, d, e >>) = {a, b, c, d, e}
BY DEF ToSet

LEMMA JoinedMembers ==
  ASSUME NEW s, NEW t, IsList(s), IsList(t)
  PROVE  ToSet(s \o t) = ToSet(s) \cup ToSet(t)
<1>1. PICK S, T : s \in Seq(S) /\ t \in Seq(T)
  BY DEF IsList
<1>2. s \in Seq(S \cup T) /\ t \in Seq(S \cup T)
  BY <1>1, SeqMonotonic
<1> DEFINE u == s \o t
<1>3. /\ Len(u) = Len(s) + Len(t) /\ DOMAIN u = 1 .. Len(u)
      /\ Len(s) \in Nat /\ DOMAIN s = 1 .. Len(s) /\ Len(t) \in Nat /\ DOMAIN t = 1 .. Len(t)
      /\ \A i \in 1 .. Len(s) + Len(t) : u[i] = IF i <= Len(s) THEN s[i] ELSE t[i - Len(s)]
  BY <1>2, ConcatProperties, LenProperties
<1> HIDE DEF u
<1>4. \A i \in DOMAIN s : i \in DOMAIN u /\ u[i] = s[i]
  BY <1>3
<1>5. \A i \in DOMAIN t : Len(s) + i \in DOMAIN u /\ u[Len(s) + i] = t[i]
  BY <1>3
<1>6. \A i \in DOMAIN u : (i \in DOMAIN s /\ u[i] = s[i]) \/ (i - Len(s) \in DOMAIN t /\ u[i] = t[i - Len(s)])
  BY <1>3
<1> QED
  BY <1>4, <1>5, <1>6 DEF ToSet, u

(* What a list of imports from one layer wants.                             *)
LEMMA Wanted ==
  ASSUME NEW source, NEW names
  PROVE  Wants(Imports(source, names)) = {<< source, n >> : n \in ToSet(names)}
<1>1. /\ DOMAIN Imports(source, names) = DOMAIN names
      /\ \A i \in DOMAIN names :
           Imports(source, names)[i].source = source /\ Imports(source, names)[i].name = names[i]
  BY DEF Imports
<1> QED
  BY <1>1 DEF ToSet, Wants

LEMMA JoinedSight ==
  ASSUME NEW s, NEW t, IsList(s), IsList(t)
  PROVE  /\ Wants(s \o t) = Wants(s) \cup Wants(t)
         /\ Gives(s \o t) = Gives(s) \cup Gives(t)
         /\ Ids(s \o t) = Ids(s) \cup Ids(t)
<1>1. ToSet(s \o t) = ToSet(s) \cup ToSet(t)
  BY JoinedMembers
<1> QED
  BY <1>1 DEF Wants, Gives, Ids

LEMMA NothingWanted == Wants(<<>>) = {} /\ Gives(<<>>) = {} /\ Ids(<<>>) = {}
BY Members DEF Wants, Gives, Ids

LEMMA ExportFields ==
  /\ \A n, id : ByRef(n, id).name = n /\ ByRef(n, id).resource = id
  /\ \A n, id, a : ByAtt(n, id, a).name = n /\ ByAtt(n, id, a).resource = id
BY DEF ByRef, ByAtt

(* A list of exports and what it gives, a list of imports and what it       *)
(* wants, a layer and both.                                                 *)
Offering(exports, gives, ids) == IsList(exports) /\ Gives(exports) = gives /\ Ids(exports) = ids
Wanting(imports, wants) == IsList(imports) /\ Wants(imports) = wants
Seen(layer, n, wants, gives, ids) ==
  Wanting(layer.imports, wants) /\ Offering(layer.exports, gives, ids) /\ layer.name = n

LEMMA Lists ==
  /\ IsList(<<>>) /\ (\A a : IsList(<< a >>)) /\ (\A a, b : IsList(<< a, b >>))
  /\ (\A a, b, c : IsList(<< a, b, c >>)) /\ (\A a, b, c, d : IsList(<< a, b, c, d >>))
  /\ \A a, b, c, d, e : IsList(<< a, b, c, d, e >>)
BY Tuples

LEMMA ExportsSight ==
  /\ Gives(<<>>) = {} /\ Ids(<<>>) = {}
  /\ \A a : Gives(<< a >>) = {a.name} /\ Ids(<< a >>) = {a.resource}
  /\ \A a, b : Gives(<< a, b >>) = {a.name, b.name} /\ Ids(<< a, b >>) = {a.resource, b.resource}
  /\ \A a, b, c : /\ Gives(<< a, b, c >>) = {a.name, b.name, c.name}
                  /\ Ids(<< a, b, c >>) = {a.resource, b.resource, c.resource}
  /\ \A a, b, c, d : /\ Gives(<< a, b, c, d >>) = {a.name, b.name, c.name, d.name}
                     /\ Ids(<< a, b, c, d >>) = {a.resource, b.resource, c.resource, d.resource}
<1>1. /\ Gives(<<>>) = {} /\ Ids(<<>>) = {}
      /\ \A a : Gives(<< a >>) = {a.name} /\ Ids(<< a >>) = {a.resource}
  BY Members DEF Gives, Ids
<1>2. \A a, b : Gives(<< a, b >>) = {a.name, b.name} /\ Ids(<< a, b >>) = {a.resource, b.resource}
  BY Members DEF Gives, Ids
<1>3. \A a, b, c : /\ Gives(<< a, b, c >>) = {a.name, b.name, c.name}
                  /\ Ids(<< a, b, c >>) = {a.resource, b.resource, c.resource}
  BY Members DEF Gives, Ids
<1>4. \A a, b, c, d : /\ Gives(<< a, b, c, d >>) = {a.name, b.name, c.name, d.name}
                     /\ Ids(<< a, b, c, d >>) = {a.resource, b.resource, c.resource, d.resource}
  BY Members DEF Gives, Ids
<1> QED
  BY <1>1, <1>2, <1>3, <1>4

LEMMA ExportsSeen ==
  /\ Offering(<<>>, {}, {})
  /\ \A a : Offering(<< a >>, {a.name}, {a.resource})
  /\ \A a, b : Offering(<< a, b >>, {a.name, b.name}, {a.resource, b.resource})
  /\ \A a, b, c : Offering(<< a, b, c >>, {a.name, b.name, c.name},
                                      {a.resource, b.resource, c.resource})
  /\ \A a, b, c, d : Offering(<< a, b, c, d >>, {a.name, b.name, c.name, d.name},
                                            {a.resource, b.resource, c.resource, d.resource})
BY ExportsSight, Lists DEF Offering

LEMMA ImportsSeen ==
  /\ Wanting(<<>>, {})
  /\ \A s, a : Wanting(Imports(s, << a >>), {<< s, a >>})
  /\ \A s, a, b : Wanting(Imports(s, << a, b >>), {<< s, a >>, << s, b >>})
  /\ \A s, a, b, c : Wanting(Imports(s, << a, b, c >>), {<< s, a >>, << s, b >>, << s, c >>})
  /\ \A s, a, b, c, d, e :
       Wanting(Imports(s, << a, b, c, d, e >>),
               {<< s, a >>, << s, b >>, << s, c >>, << s, d >>, << s, e >>})
<1>1. ASSUME NEW s, NEW names, NEW T, IsList(names), ToSet(names) = T
      PROVE  Wanting(Imports(s, names), {<< s, n >> : n \in T})
  BY <1>1, Wanted, ImportsListed DEF Wanting
<1>2. Wanting(<<>>, {})
  BY Members, Lists DEF Wanting, Wants
<1>3. \A s, a : Wanting(Imports(s, << a >>), {<< s, a >>})
  <2> SUFFICES ASSUME NEW s, NEW a PROVE Wanting(Imports(s, << a >>), {<< s, a >>})
    OBVIOUS
  <2>1. Wanting(Imports(s, << a >>), {<< s, n >> : n \in {a}})
    BY <1>1, Members, Lists
  <2>2. {<< s, n >> : n \in {a}} = {<< s, a >>}
    OBVIOUS
  <2> QED BY <2>1, <2>2
<1>4. \A s, a, b : Wanting(Imports(s, << a, b >>), {<< s, a >>, << s, b >>})
  <2> SUFFICES ASSUME NEW s, NEW a, NEW b
               PROVE  Wanting(Imports(s, << a, b >>), {<< s, a >>, << s, b >>})
    OBVIOUS
  <2>1. Wanting(Imports(s, << a, b >>), {<< s, n >> : n \in {a, b}})
    BY <1>1, Members, Lists
  <2>2. {<< s, n >> : n \in {a, b}} = {<< s, a >>, << s, b >>}
    OBVIOUS
  <2> QED BY <2>1, <2>2
<1>5. \A s, a, b, c : Wanting(Imports(s, << a, b, c >>), {<< s, a >>, << s, b >>, << s, c >>})
  <2> SUFFICES ASSUME NEW s, NEW a, NEW b, NEW c
               PROVE  Wanting(Imports(s, << a, b, c >>), {<< s, a >>, << s, b >>, << s, c >>})
    OBVIOUS
  <2>1. Wanting(Imports(s, << a, b, c >>), {<< s, n >> : n \in {a, b, c}})
    BY <1>1, Members, Lists
  <2>2. {<< s, n >> : n \in {a, b, c}} = {<< s, a >>, << s, b >>, << s, c >>}
    OBVIOUS
  <2> QED BY <2>1, <2>2
<1>6. \A s, a, b, c, d, e :
        Wanting(Imports(s, << a, b, c, d, e >>),
                {<< s, a >>, << s, b >>, << s, c >>, << s, d >>, << s, e >>})
  <2> SUFFICES ASSUME NEW s, NEW a, NEW b, NEW c, NEW d, NEW e
               PROVE  Wanting(Imports(s, << a, b, c, d, e >>),
                              {<< s, a >>, << s, b >>, << s, c >>, << s, d >>, << s, e >>})
    OBVIOUS
  <2>1. Wanting(Imports(s, << a, b, c, d, e >>), {<< s, n >> : n \in {a, b, c, d, e}})
    BY <1>1, Members, Lists
  <2>2. {<< s, n >> : n \in {a, b, c, d, e}}
          = {<< s, a >>, << s, b >>, << s, c >>, << s, d >>, << s, e >>}
    OBVIOUS
  <2> QED BY <2>1, <2>2
<1> QED
  BY <1>2, <1>3, <1>4, <1>5, <1>6

LEMMA JoinedSeen ==
  /\ \A s, t, g, h, i, j : Offering(s, g, i) /\ Offering(t, h, j)
                              => Offering(s \o t, g \cup h, i \cup j)
  /\ \A s, t, v, w : Wanting(s, v) /\ Wanting(t, w) => Wanting(s \o t, v \cup w)
BY JoinedSight, Joined DEF Offering, Wanting

LEMMA LayerSeen ==
  ASSUME NEW n, NEW imports, NEW exports, NEW wants, NEW gives, NEW ids,
         Wanting(imports, wants), Offering(exports, gives, ids)
  PROVE  Seen(Layer(n, imports, exports), n, wants, gives, ids)
BY DEF Layer, Seen

LEMMA FoundationSeen ==
  LET gives == {"VpcId", "PublicSubnet1Id", "PrivateSubnet1Id", "InternetGatewayId"}
      ids == {"MainVPC", "PublicSubnet1", "PrivateSubnet1", "InternetGateway"}
  IN  /\ Offering(FoundationExports, gives, ids)
      /\ Offering(FoundationExportsDualAz, gives \cup {"PublicSubnet2Id", "PrivateSubnet2Id"},
                                          ids \cup {"PublicSubnet2", "PrivateSubnet2"})
      /\ Offering(SecurityExports, {"InferenceSecurityGroupId", "ManagementSecurityGroupId"},
                                  {"InferenceSecurityGroup", "ManagementSecurityGroup"})
<1>1. Offering(FoundationExports, {"VpcId", "PublicSubnet1Id", "PrivateSubnet1Id", "InternetGatewayId"},
             {"MainVPC", "PublicSubnet1", "PrivateSubnet1", "InternetGateway"})
  BY ExportsSeen, ExportFields DEF FoundationExports
<1>2. Offering(SecurityExports, {"InferenceSecurityGroupId", "ManagementSecurityGroupId"},
             {"InferenceSecurityGroup", "ManagementSecurityGroup"})
  BY ExportsSeen, ExportFields DEF SecurityExports
<1>3. Offering(<< ByRef("PublicSubnet2Id", "PublicSubnet2"), ByRef("PrivateSubnet2Id", "PrivateSubnet2") >>,
             {"PublicSubnet2Id", "PrivateSubnet2Id"}, {"PublicSubnet2", "PrivateSubnet2"})
  BY ExportsSeen, ExportFields
<1> QED
  BY <1>1, <1>2, <1>3, JoinedSeen DEF FoundationExportsDualAz

LEMMA SeenFacts ==
  ASSUME NEW layer, NEW n, NEW wants, NEW gives, NEW ids, Seen(layer, n, wants, gives, ids)
  PROVE  /\ Listed(layer) /\ layer.name = n
         /\ Wants(layer.imports) = wants /\ Gives(layer.exports) = gives /\ Ids(layer.exports) = ids
         /\ wants = {} => Follows(layer, {})
<1>1. /\ Listed(layer) /\ layer.name = n
      /\ Wants(layer.imports) = wants /\ Gives(layer.exports) = gives /\ Ids(layer.exports) = ids
  BY DEF Seen, Wanting, Offering, Listed
<1> QED
  BY <1>1, FollowsBySight

(* Each of the four predefined plans is a contract.                         *)
LEMMA SingleContract == Contract(SingleInstancePlan)
<1> DEFINE f == Layer("foundation", <<>>, FoundationExports)
           s == Layer("security", Imports("foundation", <<"VpcId">>),
                  SecurityExports \o << ByAtt("InstanceProfileArn", "InferenceInstanceProfile", "Arn") >>)
           c == Layer("compute",
                  Imports("foundation", <<"VpcId", "PublicSubnet1Id", "PrivateSubnet1Id">>) \o
                  Imports("security", <<"InferenceSecurityGroupId", "InstanceProfileArn">>),
                  << ByRef("InstanceId", "InferenceInstance"), ByAtt("ALBDnsName", "InferenceALB", "DNSName") >>)
<1>1. SingleInstancePlan = << f, s, c >>
  BY DEF SingleInstancePlan
<1>2. Seen(f, "foundation", {},
           {"VpcId", "PublicSubnet1Id", "PrivateSubnet1Id", "InternetGatewayId"},
           {"MainVPC", "PublicSubnet1", "PrivateSubnet1", "InternetGateway"})
  BY FoundationSeen, ImportsSeen, LayerSeen
<1>3. Seen(s, "security", {<<"foundation", "VpcId">>},
           {"InferenceSecurityGroupId", "ManagementSecurityGroupId"} \cup {"InstanceProfileArn"},
           {"InferenceSecurityGroup", "ManagementSecurityGroup"} \cup {"InferenceInstanceProfile"})
  <2>1. Offering(<< ByAtt("InstanceProfileArn", "InferenceInstanceProfile", "Arn") >>,
                 {"InstanceProfileArn"}, {"InferenceInstanceProfile"})
    BY ExportsSeen, ExportFields
  <2> QED
    BY <2>1, FoundationSeen, ImportsSeen, JoinedSeen, LayerSeen
<1>4. Seen(c, "compute",
           {<<"foundation", "VpcId">>, <<"foundation", "PublicSubnet1Id">>,
            <<"foundation", "PrivateSubnet1Id">>} \cup
           {<<"security", "InferenceSecurityGroupId">>, <<"security", "InstanceProfileArn">>},
           {"InstanceId", "ALBDnsName"}, {"InferenceInstance", "InferenceALB"})
  <2>1. Offering(<< ByRef("InstanceId", "InferenceInstance"), ByAtt("ALBDnsName", "InferenceALB", "DNSName") >>,
                 {"InstanceId", "ALBDnsName"}, {"InferenceInstance", "InferenceALB"})
    BY ExportsSeen, ExportFields
  <2> QED
    BY <2>1, ImportsSeen, JoinedSeen, LayerSeen
<1> HIDE DEF f, s, c
<1>5. Follows(f, {})
  BY <1>2, SeenFacts
<1>6. Follows(s, {f})
  BY <1>2, <1>3, SeenFacts, FollowsBySight
<1>7. Follows(c, {f, s})
  BY <1>2, <1>3, <1>4, SeenFacts, FollowsBySight
<1> QED
  BY <1>1, <1>2, <1>3, <1>4, <1>5, <1>6, <1>7, SeenFacts, Contracts

LEMMA AutoScalingContract == Contract(AutoScalingFleetPlan)
<1> DEFINE f == Layer("foundation", <<>>, FoundationExportsDualAz)
           s == Layer("security", Imports("foundation", <<"VpcId">>), SecurityExports \o <<
                  ByAtt("ALBSecurityGroupId", "ALBSecurityGroup", "GroupId"),
                  ByAtt("InstanceProfileArn", "InferenceInstanceProfile", "Arn") >>)
           c == Layer("compute", Imports("foundation", <<"VpcId", "PublicSubnet1Id", "PublicSubnet2Id",
                  "PrivateSubnet1Id", "PrivateSubnet2Id">>) \o Imports("security",
                  <<"ALBSecurityGroupId", "InferenceSecurityGroupId", "InstanceProfileArn">>),
                  << ByAtt("ALBDnsName", "InferenceALB", "DNSName"), ByRef("ASGName",
                  "InferenceASG") >>)
           x == Layer("scaling", Imports("compute", <<"ASGName">>), <<>>)
<1>1. AutoScalingFleetPlan = << f, s, c, x >>
  BY DEF AutoScalingFleetPlan
<1>2. Seen(f, "foundation", {}, {"VpcId", "PublicSubnet1Id", "PrivateSubnet1Id",
           "InternetGatewayId"} \cup {"PublicSubnet2Id", "PrivateSubnet2Id"}, {"MainVPC",
           "PublicSubnet1", "PrivateSubnet1", "InternetGateway"} \cup {"PublicSubnet2",
           "PrivateSubnet2"})
  BY FoundationSeen, ExportsSeen, ImportsSeen, JoinedSeen, LayerSeen
<1>3. Seen(s, "security", {<<"foundation", "VpcId">>}, {"InferenceSecurityGroupId",
           "ManagementSecurityGroupId"} \cup {"ALBSecurityGroupId", "InstanceProfileArn"},
           {"InferenceSecurityGroup", "ManagementSecurityGroup"} \cup {"ALBSecurityGroup",
           "InferenceInstanceProfile"})
  <2>1. Offering(<< ByAtt("ALBSecurityGroupId", "ALBSecurityGroup", "GroupId"),
                 ByAtt("InstanceProfileArn", "InferenceInstanceProfile", "Arn") >>,
                 {"ALBSecurityGroupId", "InstanceProfileArn"}, {"ALBSecurityGroup",
                 "InferenceInstanceProfile"})
    BY ExportsSeen, ExportFields
  <2> QED
    BY <2>1, FoundationSeen, ImportsSeen, JoinedSeen, LayerSeen
<1>4. Seen(c, "compute", {<<"foundation", "VpcId">>, <<"foundation", "PublicSubnet1Id">>,
           <<"foundation", "PublicSubnet2Id">>, <<"foundation", "PrivateSubnet1Id">>,
           <<"foundation", "PrivateSubnet2Id">>} \cup {<<"security", "ALBSecurityGroupId">>,
           <<"security", "InferenceSecurityGroupId">>, <<"security", "InstanceProfileArn">>},
           {"ALBDnsName", "ASGName"}, {"InferenceALB", "InferenceASG"})
  <2>1. Offering(<< ByAtt("ALBDnsName", "InferenceALB", "DNSName"), ByRef("ASGName", "InferenceASG") >>,
                 {"ALBDnsName", "ASGName"}, {"InferenceALB", "InferenceASG"})
    BY ExportsSeen, ExportFields
  <2> QED
    BY <2>1, FoundationSeen, ImportsSeen, JoinedSeen, LayerSeen
<1>5. Seen(x, "scaling", {<<"compute", "ASGName">>}, {}, {})
  BY FoundationSeen, ExportsSeen, ImportsSeen, JoinedSeen, LayerSeen
<1> HIDE DEF f, s, c, x
<1>6. Follows(f, {})
  BY <1>2, SeenFacts
<1>7. Follows(s, {f})
  BY <1>2, <1>3, SeenFacts, FollowsBySight
<1>8. Follows(c, {f, s})
  BY <1>2, <1>3, <1>4, SeenFacts, FollowsBySight
<1>9. Follows(x, {f, s, c})
  BY <1>2, <1>3, <1>4, <1>5, SeenFacts, FollowsBySight
<1> QED
  BY <1>1, <1>2, <1>3, <1>4, <1>5, <1>6, <1>7, <1>8, <1>9, SeenFacts, Contracts

LEMMA BatchContract == Contract(BatchProcessingPlan)
<1> DEFINE f == Layer("foundation", <<>>, FoundationExports \o << ByRef("S3VpcEndpointId", "S3VpcEndpoint")
                  >>)
           s == Layer("security", Imports("foundation", <<"VpcId">>), << ByAtt("BatchInstanceProfileArn",
                  "BatchInstanceProfile", "Arn"), ByAtt("StepFunctionsRoleArn",
                  "StepFunctionsRole", "Arn"), ByAtt("BatchSecurityGroupId",
                  "BatchSecurityGroup", "GroupId") >>)
           c == Layer("compute", Imports("foundation", <<"PrivateSubnet1Id">>) \o Imports("security",
                  <<"BatchSecurityGroupId", "BatchInstanceProfileArn">>), <<
                  ByRef("InputBucketName", "InputBucket"), ByRef("OutputBucketName",
                  "OutputBucket"), ByRef("JobTableName", "JobTable"), ByRef("LaunchTemplateId",
                  "BatchLaunchTemplate") >>)
           x == Layer("orchestration", Imports("security", <<"StepFunctionsRoleArn">>) \o
                  Imports("compute", <<"LaunchTemplateId", "JobTableName">>), <<
                  ByAtt("StateMachineArn", "BatchStateMachine", "Arn"), ByRef("JobQueueUrl",
                  "JobQueue") >>)
<1>1. BatchProcessingPlan = << f, s, c, x >>
  BY DEF BatchProcessingPlan
<1>2. Seen(f, "foundation", {}, {"VpcId", "PublicSubnet1Id", "PrivateSubnet1Id",
           "InternetGatewayId"} \cup {"S3VpcEndpointId"}, {"MainVPC", "PublicSubnet1",
           "PrivateSubnet1", "InternetGateway"} \cup {"S3VpcEndpoint"})
  <2>1. Offering(<< ByRef("S3VpcEndpointId", "S3VpcEndpoint") >>, {"S3VpcEndpointId"},
                 {"S3VpcEndpoint"})
    BY ExportsSeen, ExportFields
  <2> QED
    BY <2>1, FoundationSeen, ImportsSeen, JoinedSeen, LayerSeen
<1>3. Seen(s, "security", {<<"foundation", "VpcId">>}, {"BatchInstanceProfileArn",
           "StepFunctionsRoleArn", "BatchSecurityGroupId"}, {"BatchInstanceProfile",
           "StepFunctionsRole", "BatchSecurityGroup"})
  <2>1. Offering(<< ByAtt("BatchInstanceProfileArn", "BatchInstanceProfile", "Arn"),
                 ByAtt("StepFunctionsRoleArn", "StepFunctionsRole", "Arn"),
                 ByAtt("BatchSecurityGroupId", "BatchSecurityGroup", "GroupId") >>,
                 {"BatchInstanceProfileArn", "StepFunctionsRoleArn", "BatchSecurityGroupId"},
                 {"BatchInstanceProfile", "StepFunctionsRole", "BatchSecurityGroup"})
    BY ExportsSeen, ExportFields
  <2> QED
    BY <2>1, FoundationSeen, ImportsSeen, JoinedSeen, LayerSeen
<1>4. Seen(c, "compute", {<<"foundation", "PrivateSubnet1Id">>} \cup {<<"security",
           "BatchSecurityGroupId">>, <<"security", "BatchInstanceProfileArn">>},
           {"InputBucketName", "OutputBucketName", "JobTableName", "LaunchTemplateId"},
           {"InputBucket", "OutputBucket", "JobTable", "BatchLaunchTemplate"})
  <2>1. Offering(<< ByRef("InputBucketName", "InputBucket"), ByRef("OutputBucketName", "OutputBucket"),
                 ByRef("JobTableName", "JobTable"), ByRef("LaunchTemplateId",
                 "BatchLaunchTemplate") >>, {"InputBucketName", "OutputBucketName",
                 "JobTableName", "LaunchTemplateId"}, {"InputBucket", "OutputBucket",
                 "JobTable", "BatchLaunchTemplate"})
    BY ExportsSeen, ExportFields
  <2> QED
    BY <2>1, FoundationSeen, ImportsSeen, JoinedSeen, LayerSeen
<1>5. Seen(x, "orchestration", {<<"security", "StepFunctionsRoleArn">>} \cup {<<"compute",
           "LaunchTemplateId">>, <<"compute", "JobTableName">>}, {"StateMachineArn",
           "JobQueueUrl"}, {"BatchStateMachine", "JobQueue"})
  <2>1. Offering(<< ByAtt("StateMachineArn", "BatchStateMachine", "Arn"), ByRef("JobQueueUrl",
                 "JobQueue") >>, {"StateMachineArn", "JobQueueUrl"}, {"BatchStateMachine",
                 "JobQueue"})
    BY ExportsSeen, ExportFields
  <2> QED
    BY <2>1, FoundationSeen, ImportsSeen, JoinedSeen, LayerSeen
<1> HIDE DEF f, s, c, x
<1>6. Follows(f, {})
  BY <1>2, SeenFacts
<1>7. Follows(s, {f})
  BY <1>2, <1>3, SeenFacts, FollowsBySight
<1>8. Follows(c, {f, s})
  BY <1>2, <1>3, <1>4, SeenFacts, FollowsBySight
<1>9. Follows(x, {f, s, c})
  BY <1>2, <1>3, <1>4, <1>5, SeenFacts, FollowsBySight
<1> QED
  BY <1>1, <1>2, <1>3, <1>4, <1>5, <1>6, <1>7, <1>8, <1>9, SeenFacts, Contracts

LEMMA TrainingContract == Contract(DistributedTrainingPlan)
<1> DEFINE f == Layer("foundation", <<>>, FoundationExports \o << ByRef("TrainingSubnetId",
                  "TrainingSubnet") >>)
           s == Layer("security", Imports("foundation", <<"VpcId">>), << ByAtt("ClusterSecurityGroupId",
                  "ClusterSecurityGroup", "GroupId"), ByAtt("TrainingInstanceProfileArn",
                  "TrainingInstanceProfile", "Arn") >>)
           c == Layer("compute", Imports("foundation", <<"TrainingSubnetId">>) \o Imports("security",
                  <<"ClusterSecurityGroupId", "TrainingInstanceProfileArn">>), <<
                  ByRef("PlacementGroupName", "TrainingPlacementGroup"), ByRef("ASGName",
                  "TrainingASG") >>)
           t == Layer("storage", Imports("foundation", <<"TrainingSubnetId">>) \o Imports("security",
                  <<"ClusterSecurityGroupId">>), << ByRef("FileSystemId", "TrainingFileSystem"),
                  ByAtt("FileSystemDnsName", "TrainingFileSystem", "DNSName"),
                  ByRef("CheckpointBucketName", "CheckpointBucket") >>)
           x == Layer("networking", Imports("compute", <<"ASGName">>) \o Imports("storage",
                  <<"FileSystemId">>), <<>>)
<1>1. DistributedTrainingPlan = << f, s, c, t, x >>
  BY DEF DistributedTrainingPlan
<1>2. Seen(f, "foundation", {}, {"VpcId", "PublicSubnet1Id", "PrivateSubnet1Id",
           "InternetGatewayId"} \cup {"TrainingSubnetId"}, {"MainVPC", "PublicSubnet1",
           "PrivateSubnet1", "InternetGateway"} \cup {"TrainingSubnet"})
  <2>1. Offering(<< ByRef("TrainingSubnetId", "TrainingSubnet") >>, {"TrainingSubnetId"},
                 {"TrainingSubnet"})
    BY ExportsSeen, ExportFields
  <2> QED
    BY <2>1, FoundationSeen, ImportsSeen, JoinedSeen, LayerSeen
<1>3. Seen(s, "security", {<<"foundation", "VpcId">>}, {"ClusterSecurityGroupId",
           "TrainingInstanceProfileArn"}, {"ClusterSecurityGroup", "TrainingInstanceProfile"})
  <2>1. Offering(<< ByAtt("ClusterSecurityGroupId", "ClusterSecurityGroup", "GroupId"),
                 ByAtt("TrainingInstanceProfileArn", "TrainingInstanceProfile", "Arn") >>,
                 {"ClusterSecurityGroupId", "TrainingInstanceProfileArn"},
                 {"ClusterSecurityGroup", "TrainingInstanceProfile"})
    BY ExportsSeen, ExportFields
  <2> QED
    BY <2>1, FoundationSeen, ImportsSeen, JoinedSeen, LayerSeen
<1>4. Seen(c, "compute", {<<"foundation", "TrainingSubnetId">>} \cup {<<"security",
           "ClusterSecurityGroupId">>, <<"security", "TrainingInstanceProfileArn">>},
           {"PlacementGroupName", "ASGName"}, {"TrainingPlacementGroup", "TrainingASG"})
  <2>1. Offering(<< ByRef("PlacementGroupName", "TrainingPlacementGroup"), ByRef("ASGName",
                 "TrainingASG") >>, {"PlacementGroupName", "ASGName"},
                 {"TrainingPlacementGroup", "TrainingASG"})
    BY ExportsSeen, ExportFields
  <2> QED
    BY <2>1, FoundationSeen, ImportsSeen, JoinedSeen, LayerSeen
<1>5. Seen(t, "storage", {<<"foundation", "TrainingSubnetId">>} \cup {<<"security",
           "ClusterSecurityGroupId">>}, {"FileSystemId", "FileSystemDnsName",
           "CheckpointBucketName"}, {"TrainingFileSystem", "TrainingFileSystem",
           "CheckpointBucket"})
  <2>1. Offering(<< ByRef("FileSystemId", "TrainingFileSystem"), ByAtt("FileSystemDnsName",
                 "TrainingFileSystem", "DNSName"), ByRef("CheckpointBucketName",
                 "CheckpointBucket") >>, {"FileSystemId", "FileSystemDnsName",
                 "CheckpointBucketName"}, {"TrainingFileSystem", "TrainingFileSystem",
                 "CheckpointBucket"})
    BY ExportsSeen, ExportFields
  <2> QED
    BY <2>1, FoundationSeen, ImportsSeen, JoinedSeen, LayerSeen
<1>6. Seen(x, "networking", {<<"compute", "ASGName">>} \cup {<<"storage", "FileSystemId">>}, {},
           {})
  BY FoundationSeen, ExportsSeen, ImportsSeen, JoinedSeen, LayerSeen
<1> HIDE DEF f, s, c, t, x
<1>7. Follows(f, {})
  BY <1>2, SeenFacts
<1>8. Follows(s, {f})
  BY <1>2, <1>3, SeenFacts, FollowsBySight
<1>9. Follows(c, {f, s})
  BY <1>2, <1>3, <1>4, SeenFacts, FollowsBySight
<1>10. Follows(t, {f, s, c})
  BY <1>2, <1>3, <1>4, <1>5, SeenFacts, FollowsBySight
<1>11. Follows(x, {f, s, c, t})
  BY <1>2, <1>3, <1>4, <1>5, <1>6, SeenFacts, FollowsBySight
<1> QED
  BY <1>1, <1>2, <1>3, <1>4, <1>5, <1>6, <1>7, <1>8, <1>9, <1>10, <1>11, SeenFacts, Contracts

(* In a contract the merge finds every export and meets no id twice.        *)
LEMMA ContractMerges ==
  ASSUME NEW p, Contract(p)
  PROVE  /\ Unresolved(p) = {}
         /\ \A i, j \in DOMAIN p : i # j => Exported(p[i]) \cap Exported(p[j]) = {}
         /\ \A g \in DOMAIN ParallelizableGroups(p) : \A i, j \in ParallelizableGroups(p)[g] :
              p[i].name \notin Sources(p[j])
<1>1. Len(p) \in Nat \ {0} /\ DOMAIN p = 1 .. Len(p)
  BY PlanFacts DEF Contract
<1>2. ASSUME NEW i \in DOMAIN p, NEW imp \in ToSet(p[i].imports)
      PROVE  ExportsOf(p, imp) # {}
  <2>1. PICK k \in 1 .. i - 1 : p[k].name = imp.source /\ \E e \in ToSet(p[k].exports) : e.name = imp.name
    BY DEF Contract, Follows
  <2>2. k \in DOMAIN p
    BY <1>1
  <2>3. Named(p, imp.source) = {k}
    BY <2>1, <2>2, ContractNames DEF Named
  <2>4. HasLayer(p, imp.source) /\ GetLayer(p, imp.source) = p[k]
    <3>1. (CHOOSE n \in {k} : \A j \in {k} : n <= j) = k
      BY <1>1
    <3> QED
      BY <2>3, <3>1 DEF HasLayer, GetLayer
  <2>5. \E x \in DOMAIN p[k].exports : p[k].exports[x].name = imp.name
    BY <2>1 DEF ToSet
  <2> QED
    BY <2>4, <2>5 DEF ExportsOf
<1> QED
  BY <1>2, ContractNames, GroupsIndependent DEF Unresolved

LEMMA PredefinedContracts ==
  ASSUME NEW pattern, IsPredefined(pattern)
  PROVE  Contract(GetPredefinedPlan(pattern))
BY ChosenPredefined, SingleContract, AutoScalingContract, BatchContract, TrainingContract

(* A predefined plan stays the plan of its task while layers are drafted.   *)
PredefinedInv == phase = "layers" /\ IsPredefined(job.pattern) => Contract(plan)

(* The task at hand stays the same while its layers are drafted.            *)
LEMMA JobKept ==
  ASSUME [Next]_vars, phase = "layers", phase' = "layers"
  PROVE  job' = job
<1>1. CASE GenerateStep
  <2>1. CASE GenerateGroup
    BY <2>1 DEF GenerateGroup, taskVars
  <2>2. ~(ChoosePath \/ Refused \/ ParameterizeTemplate \/ ComposeSnippets \/ UsePredefinedPlan
          \/ UseCachedPlan \/ GenerateLayerPlan \/ FixSpecs \/ Merge \/ ExpirePlan)
    BY DEF ChoosePath, Refused, ParameterizeTemplate, ComposeSnippets, UsePredefinedPlan,
         UseCachedPlan, GenerateLayerPlan, FixSpecs, Merge, ExpirePlan
  <2>3. ~(Validate \/ Revalidate \/ FixLayers \/ FixTemplateYaml \/ FixRaises \/ CheckFix)
    BY DEF Validate, Revalidate, FixLayers, FixTemplateYaml, FixRaises, CheckFix
  <2>4. ~GenerationFails
    BY DEF GenerationFails, EndTask
  <2> QED
    BY <1>1, <2>1, <2>2, <2>3, <2>4 DEF GenerateStep, GenWork
<1>2. ~(StartIac \/ FinishIac)
  BY DEF StartIac, FinishIac, GenBegin, GenEnd, BetweenTasks
<1>3. CASE \/ \E p \in Projects : OpenProject(p)
           \/ Redesign \/ SelectDesign \/ LoadForRefine \/ SaveRefined
           \/ StartDocumentation \/ RegenerateSection \/ DocumentStep
  <2>1. CASE \E p \in Projects : OpenProject(p)
    BY <2>1 DEF OpenProject, genVars
  <2>2. CASE Redesign \/ SelectDesign \/ SaveRefined
    BY <2>2 DEF Redesign, SelectDesign, SaveRefined, genVars
  <2>3. CASE LoadForRefine
    BY <2>3 DEF LoadForRefine, taskVars
  <2>4. CASE StartDocumentation \/ RegenerateSection \/ DocumentStep
    BY <2>4 DEF StartDocumentation, RegenerateSection, DocumentStep, genVars
  <2> QED
    BY <1>3, <2>1, <2>2, <2>3, <2>4
<1>4. CASE UNCHANGED vars
  BY <1>4 DEF vars, genVars
<1> QED
  BY <1>1, <1>2, <1>3, <1>4 DEF Next

LEMMA PredefinedSteps ==
  ASSUME PredefinedInv, [Next]_vars
  PROVE  PredefinedInv'
<1> SUFFICES ASSUME phase' = "layers", IsPredefined(job'.pattern)
             PROVE  Contract(plan')
  BY DEF PredefinedInv
<1>1. CASE UsePredefinedPlan
  BY <1>1, PredefinedContracts DEF UsePredefinedPlan, StartLayers, taskVars
<1>2. ~(UseCachedPlan \/ GenerateLayerPlan)
  BY DEF UseCachedPlan, GenerateLayerPlan, StartLayers, taskVars
<1>3. CASE phase = "layers" /\ plan' = plan
  BY <1>3, JobKept DEF PredefinedInv
<1>4. GenerateGroup => phase = "layers" /\ plan' = plan
  BY DEF GenerateGroup
<1>5. ~FixSpecs /\ ~FixLayers
  BY DEF FixSpecs, FixLayers, EndTask
<1> QED
  BY <1>1, <1>2, <1>3, <1>4, <1>5, LayersMoves DEF layerVars

(* Whatever pattern a project has: if it has a predefined plan, the merge   *)
(* of its layers finds every export that a layer imports, meets no exported *)
(* resource twice, and no layer depends on one generated beside it.         *)
THEOREM PredefinedAlwaysMerge == Spec => []PredefinedPlansMerge
<1>1. Init => PredefinedInv
  BY DEF Init, GenInit, PredefinedInv
<1>2. PredefinedInv => PredefinedPlansMerge
  BY ContractMerges DEF PredefinedInv, PredefinedPlansMerge, Groups
<1> QED
  BY <1>1, <1>2, PredefinedSteps, PTL DEF Spec
=============================================================================
