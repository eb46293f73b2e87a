------------------------- MODULE RecursionTheorems -------------------------
(***************************************************************************)
(* Induction and recursion, without a predicate or an operator as          *)
(* parameter: a property is the set of what has it, a recursive definition *)
(* is known by its base values, its step and a rank that falls with every  *)
(* call. The proofs about recursive functions and folds rest on these.     *)
(***************************************************************************)
EXTENDS Integers, FiniteSetTheorems, SequenceTheorems, WellFoundedInduction, TLAPS

(* Every set of natural numbers with a member has a least one: the sets     *)
(* 0 .. n are finite, and on finite sets inclusion is well founded.         *)
LEMMA LeastNumber ==
  ASSUME NEW T \in SUBSET Nat, T # {}
  PROVE  \E n \in T : \A m \in T : n <= m
<1> DEFINE Below == {0 .. n : n \in T}
<1>1. Below \subseteq FiniteSubsetsOf(Nat) /\ Below # {}
  <2>1. ASSUME NEW n \in T
        PROVE  0 .. n \in FiniteSubsetsOf(Nat)
    <3>1. IsFiniteSet(0 .. n)
      BY FS_Interval
    <3>2. 0 .. n \subseteq Nat
      OBVIOUS
    <3> QED
      BY <3>1, <3>2 DEF FiniteSubsetsOf
  <2> QED
    BY <2>1
<1>2. PICK x \in Below : \A y \in Below : << y, x >> \notin StrictSubsetOrdering(Nat)
  <2> HIDE DEF Below
  <2> QED
    BY <1>1, FS_StrictSubsetOrderingWellFounded, WFMin, Zenon
<1>3. PICK n \in T : x = 0 .. n
  BY <1>2
<1>4. ASSUME NEW m \in T, m < n
      PROVE  FALSE
  <2>1. /\ 0 .. m \in SUBSET Nat /\ 0 .. n \in SUBSET Nat
        /\ 0 .. m \subseteq 0 .. n /\ n \in 0 .. n /\ n \notin 0 .. m
    BY <1>4
  <2>2. << 0 .. m, 0 .. n >> \in StrictSubsetOrdering(Nat)
    BY <2>1 DEF StrictSubsetOrdering
  <2> QED
    BY <1>2, <1>3, <2>2
<1> QED
  BY <1>4

(* A property that passes from everything of a lower rank to a member holds *)
(* of all.                                                                  *)
LEMMA RankInduction ==
  ASSUME NEW S, NEW rank \in [S -> Nat], NEW P,
         \A s \in S : (\A t \in S : rank[t] < rank[s] => t \in P) => s \in P
  PROVE  S \subseteq P
<1> SUFFICES ASSUME NEW a \in S, a \notin P PROVE FALSE
  OBVIOUS
<1> DEFINE T == {rank[s] : s \in S \ P}
<1>1. T \in SUBSET Nat /\ T # {}
  OBVIOUS
<1>2. PICK n \in T : \A m \in T : n <= m
  <2> HIDE DEF T
  <2> QED
    BY <1>1, LeastNumber
<1>3. PICK s \in S \ P : rank[s] = n
  BY <1>2
<1>4. ASSUME NEW t \in S, rank[t] < rank[s]
      PROVE  t \in P
  <2>1. CASE t \notin P
    <3>1. rank[t] \in T /\ rank[t] \in Nat /\ n \in Nat
      BY <2>1, <1>2
    <3>2. n <= rank[t]
      BY <1>2, <3>1
    <3> HIDE DEF T
    <3> QED
      BY <1>3, <1>4, <3>1, <3>2
  <2> QED
    BY <2>1
<1> QED
  BY <1>3, <1>4

LEMMA NumberInduction ==
  ASSUME NEW P, 0 \in P, \A n \in Nat : n \in P => n + 1 \in P
  PROVE  Nat \subseteq P
<1> DEFINE rank == [n \in Nat |-> n]
<1>1. ASSUME NEW s \in Nat, \A t \in Nat : rank[t] < rank[s] => t \in P
      PROVE  s \in P
  <2>1. CASE s = 0
    BY <2>1
  <2>2. CASE s # 0
    <3>1. s - 1 \in Nat /\ s - 1 < s /\ (s - 1) + 1 = s
      BY <2>2
    <3> QED
      BY <1>1, <3>1
  <2> QED
    BY <2>1, <2>2
<1> HIDE DEF rank
<1>2. rank \in [Nat -> Nat]
  BY DEF rank
<1> QED
  BY <1>1, <1>2, RankInduction

(* A function from S to V that calls itself at most once, at a lower rank.  *)
Recursion(S, V, N, rank, Base, base, next, step) ==
  /\ N \in Nat /\ rank \in [S -> 0 .. N]
  /\ Base \in SUBSET S /\ base \in [Base -> V]
  /\ next \in [S \ Base -> S] /\ step \in [(S \ Base) \X V -> V]
  /\ \A s \in S \ Base : rank[next[s]] < rank[s]

(* There is such a function.                                                *)
LEMMA RecursionExists ==
  ASSUME NEW S, NEW V, NEW N, NEW rank, NEW Base, NEW base, NEW next, NEW step,
         Recursion(S, V, N, rank, Base, base, next, step)
  PROVE  \E f \in [S -> V] :
           f = [s \in S |-> IF s \in Base THEN base[s] ELSE step[<< s, f[next[s]] >>]]
<1>0. /\ N \in Nat /\ rank \in [S -> 0 .. N]
      /\ Base \in SUBSET S /\ base \in [Base -> V]
      /\ next \in [S \ Base -> S] /\ step \in [(S \ Base) \X V -> V]
      /\ \A s \in S \ Base : rank[next[s]] < rank[s]
  BY DEF Recursion
<1> DEFINE Low(n) == {s \in S : rank[s] < n}
           Body(f, s) == IF s \in Base THEN base[s] ELSE step[<< s, f[next[s]] >>]
           Fits(f, n) == f \in [Low(n) -> V] /\ \A s \in Low(n) : f[s] = Body(f, s)
           P == {n \in Nat : \E f \in [Low(n) -> V] : Fits(f, n)}
<1>1. 0 \in P
  <2>1. Low(0) = {}
    BY <1>0
  <2>2. [s \in {} |-> s] \in [Low(0) -> V]
    BY <2>1
  <2> QED
    BY <2>1, <2>2
<1>2. ASSUME NEW n \in Nat, n \in P
      PROVE  n + 1 \in P
  <2>1. PICK f \in [Low(n) -> V] : Fits(f, n)
    BY <1>2
  <2> DEFINE g == [s \in Low(n + 1) |-> Body(f, s)]
  <2>2. \A s \in Low(n + 1) \ Base : next[s] \in Low(n)
    BY <1>0
  <2>3. \A s \in Low(n + 1) : Body(f, s) \in V
    BY <1>0, <2>2
  <2>4. g \in [Low(n + 1) -> V]
    BY <2>3
  <2>5. \A s \in Low(n) : s \in Low(n + 1) /\ g[s] = f[s]
    BY <1>0, <2>1
  <2>6. \A s \in Low(n + 1) : g[s] = Body(g, s)
    BY <2>2, <2>5
  <2> HIDE DEF g, Low, Body
  <2>7. Fits(g, n + 1)
    BY <2>4, <2>6
  <2> HIDE DEF Fits
  <2>8. \E h \in [Low(n + 1) -> V] : Fits(h, n + 1)
    BY <2>4, <2>7
  <2> QED
    BY <2>8
<1>3. N + 1 \in P
  <2> HIDE DEF P
  <2> QED
    BY <1>0, <1>1, <1>2, NumberInduction
<1>4. Low(N + 1) = S
  BY <1>0
<1>5. PICK f \in [S -> V] : \A s \in S : f[s] = Body(f, s)
  BY <1>3, <1>4
<1>6. f = [s \in S |-> Body(f, s)]
  BY <1>5
<1> QED
  BY <1>6

LEMMA LeastChosen ==
  ASSUME NEW T \in SUBSET Nat, T # {}
  PROVE  LET n == CHOOSE n \in T : \A m \in T : n <= m
         IN  n \in T /\ \A m \in T : n <= m
BY LeastNumber

LEMMA GreatestNumber ==
  ASSUME NEW N \in Nat, NEW T \in SUBSET (1 .. N), T # {}
  PROVE  \E n \in T : \A m \in T : n >= m
<1> DEFINE U == {N - k : k \in T}
<1>1. U \in SUBSET Nat /\ U # {}
  <2>1. \A k \in T : N - k \in Nat
    OBVIOUS
  <2> QED
    BY <2>1
<1>2. PICK n \in U : \A m \in U : n <= m
  <2> HIDE DEF U
  <2> QED
    BY <1>1, LeastNumber
<1>3. PICK x \in T : n = N - x
  BY <1>2
<1>4. \A y \in T : x >= y
  <2> SUFFICES ASSUME NEW y \in T PROVE x >= y
    OBVIOUS
  <2>1. n <= N - y
    BY <1>2
  <2> QED
    BY <1>3, <2>1
<1> QED
  BY <1>4

(* A function on 0 .. N that is computed from the value before.             *)
CountedFrom(f, N, first, step) ==
  \A n \in 0 .. N : f[n] = IF n = 0 THEN first ELSE step[<< n, f[n - 1] >>]

LEMMA CountedRecursion ==
  ASSUME NEW N \in Nat, NEW V, NEW first \in V, NEW step \in [(1 .. N) \X V -> V]
  PROVE  \E f \in [0 .. N -> V] : CountedFrom(f, N, first, step)
<1> DEFINE S == 0 .. N
           rank == [n \in S |-> n]
           base == [n \in {0} |-> first]
           next == [n \in S \ {0} |-> n - 1]
<1>1. S \ {0} = 1 .. N
  OBVIOUS
<1>2. Recursion(S, V, N, rank, {0}, base, next, step)
  BY <1>1 DEF Recursion
<1>3. PICK f \in [S -> V] :
        f = [s \in S |-> IF s \in {0} THEN base[s] ELSE step[<< s, f[next[s]] >>]]
  <2> HIDE DEF S, rank, base, next
  <2> QED
    BY <1>2, RecursionExists
<1>4. ASSUME NEW n \in S
      PROVE  f[n] = IF n = 0 THEN first ELSE step[<< n, f[n - 1] >>]
  BY <1>3
<1> QED
  BY <1>4 DEF CountedFrom

(* Along such a function a property is kept.                                *)
LEMMA CountedInduction ==
  ASSUME NEW N \in Nat, NEW V, NEW f, f[0] \in V, \A n \in 1 .. N : f[n - 1] \in V => f[n] \in V
  PROVE  f[N] \in V
<1> DEFINE P == {n \in Nat : n <= N => f[n] \in V}
<1>1. 0 \in P
  OBVIOUS
<1>2. ASSUME NEW n \in Nat, n \in P
      PROVE  n + 1 \in P
  <2>1. CASE n + 1 <= N
    <3>1. n + 1 \in 1 .. N /\ (n + 1) - 1 = n /\ f[n] \in V
      BY <1>2, <2>1
    <3> QED
      BY <3>1
  <2>2. CASE ~(n + 1 <= N)
    BY <2>2
  <2> QED
    BY <2>1, <2>2
<1> HIDE DEF P
<1>3. N \in P
  BY <1>1, <1>2, NumberInduction
<1> QED
  BY <1>3 DEF P

-----------------------------------------------------------------------------
(* Finite sets.                                                             *)

LEMMA FiniteValues ==
  ASSUME NEW S, IsFiniteSet(S), NEW f, f = [x \in S |-> f[x]]
  PROVE  IsFiniteSet({f[x] : x \in S})
<1> DEFINE T == {f[x] : x \in S}
<1>1. f \in Surjection(S, T)
  BY DEF Surjection
<1> HIDE DEF T
<1>2. IsFiniteSet(T)
  BY <1>1, FS_Surjection
<1> QED
  BY <1>2 DEF T

LEMMA FiniteUnion ==
  ASSUME NEW S, IsFiniteSet(S), NEW f, f = [x \in S |-> f[x]], \A x \in S : IsFiniteSet(f[x])
  PROVE  IsFiniteSet(UNION {f[x] : x \in S})
<1> DEFINE T == {f[x] : x \in S}
<1>1. IsFiniteSet(T)
  BY FiniteValues
<1>2. \A t \in T : IsFiniteSet(t)
  OBVIOUS
<1> HIDE DEF T
<1>3. IsFiniteSet(UNION T)
  BY <1>1, <1>2, FS_UNION
<1> QED
  BY <1>3 DEF T
=============================================================================
