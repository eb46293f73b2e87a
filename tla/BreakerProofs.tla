--------------------------- MODULE BreakerProofs ---------------------------
(***************************************************************************)
(* The circuit breaker for any number of threads and any limits: types,    *)
(* counters that fit the state, conserved slots, and legal moves.          *)
(***************************************************************************)
EXTENDS CircuitBreaker, FiniteSetTheorems, TLAPS

(* The inductive invariant. The number of free slots is bounded because the *)
(* slots are conserved, so the two are proved together.                     *)
BreakerInv == TypeOK /\ CountersFit /\ SlotsConserved

(* What the type invariant says apart from the range of free.               *)
Fields ==
  /\ state \in {"closed", "open", "half_open"}
  /\ failures \in 0 .. FailureThreshold
  /\ probes \in 0 .. HalfOpenMaxCalls
  /\ elapsed \in BOOLEAN

-----------------------------------------------------------------------------
(* Each critical section of the lock keeps the fields and their agreement.  *)
LEMMA BreakerSections ==
  ASSUME Fields, CountersFit,
         PreCheck \/ RecordSuccess \/ RecordFailure \/ UNCHANGED breaker
  PROVE  Fields' /\ CountersFit'
<1>a. /\ state \in {"closed", "open", "half_open"}
      /\ failures \in 0 .. FailureThreshold /\ probes \in 0 .. HalfOpenMaxCalls
      /\ FailureThreshold \in Nat \ {0} /\ HalfOpenMaxCalls \in Nat \ {0}
  BY LimitsPositive DEF Fields
<1>b. elapsed' \in BOOLEAN
  BY Zenon DEF Fields, PreCheck, RecordSuccess, RecordFailure, breaker
<1>c. /\ state = "closed" => probes = 0 /\ failures < FailureThreshold
      /\ state = "open" => probes = 0 /\ failures = FailureThreshold
      /\ state = "half_open" => probes > 0 /\ failures = FailureThreshold
  BY <1>a DEF CountersFit
<1> DEFINE Fits == /\ state' \in {"closed", "open", "half_open"}
                   /\ failures' \in 0 .. FailureThreshold
                   /\ probes' \in 0 .. HalfOpenMaxCalls
                   /\ CountersFit'
<1>1. ASSUME PreCheck PROVE Fits
  <2>1. CASE state = "open"
    BY <1>1, <2>1, <1>a, <1>c DEF PreCheck, Rejects, EffectiveState, CountersFit
  <2>2. CASE state = "half_open"
    BY <1>1, <2>2, <1>a, <1>c DEF PreCheck, Rejects, EffectiveState, CountersFit
  <2>3. CASE state = "closed"
    BY <1>1, <2>3, <1>a, <1>c DEF PreCheck, Rejects, EffectiveState, CountersFit
  <2> QED BY <1>a, <2>1, <2>2, <2>3
<1>2. ASSUME RecordSuccess PROVE Fits
  BY <1>2, <1>a, <1>c DEF RecordSuccess, breaker, CountersFit
<1>3. ASSUME RecordFailure PROVE Fits
  <2>1. CASE state = "closed"
    <3>1. failures' = failures + 1 /\ probes' = 0
      BY <1>3, <2>1, <1>c DEF RecordFailure
    <3>2. IF failures' >= FailureThreshold THEN state' = "open" ELSE state' = "closed"
      BY <1>3, <2>1 DEF RecordFailure
    <3> QED BY <2>1, <3>1, <3>2, <1>a, <1>c DEF CountersFit
  <2>2. CASE state # "closed"
    <3>1. state' = "open" /\ probes' = 0 /\ failures' = failures
      BY <1>3, <2>2, <1>a, <1>c DEF RecordFailure
    <3> QED BY <2>2, <3>1, <1>a, <1>c DEF CountersFit
  <2> QED BY <2>1, <2>2
<1>4. ASSUME UNCHANGED breaker PROVE Fits
  BY <1>4, <1>a DEF breaker, CountersFit
<1> QED BY <1>b, <1>1, <1>2, <1>3, <1>4 DEF Fields

(* The callers that hold a slot are finitely many.                          *)
LEMMA HoldersFinite ==
  IsFiniteSet(Holders) /\ Cardinality(Holders) \in Nat
<1>1. Holders \subseteq Callers
  BY DEF Holders
<1> QED BY <1>1, CallersFinite, FS_Subset, FS_CardinalityType

(* A caller that enters the holders takes one slot.                         *)
LEMMA SlotTaken ==
  ASSUME TypeOK, SlotsConserved, NEW c \in Callers, c \notin Holders, free > 0,
         free' = free - 1, Holders' = Holders \cup {c}
  PROVE  free' \in 0 .. MaxConcurrency /\ SlotsConserved'
<1>1. Cardinality(Holders') = Cardinality(Holders) + 1
  BY HoldersFinite, FS_AddElement
<1> QED BY <1>1, HoldersFinite, LimitsPositive DEF SlotsConserved, TypeOK

(* A caller that leaves the holders gives one slot back, and there is room. *)
LEMMA SlotGivenBack ==
  ASSUME TypeOK, SlotsConserved, NEW c \in Callers, c \in Holders,
         free' = free + 1, Holders' = Holders \ {c}
  PROVE  free' \in 0 .. MaxConcurrency /\ SlotsConserved'
<1>1. Cardinality(Holders') = Cardinality(Holders) - 1
  BY HoldersFinite, FS_RemoveElement
<1>2. Cardinality(Holders) > 0
  BY HoldersFinite, FS_EmptySet
<1> QED BY <1>1, <1>2, HoldersFinite, LimitsPositive DEF SlotsConserved, TypeOK

(* A caller that stays inside or outside the holders changes no slot.       *)
LEMMA SlotsKept ==
  ASSUME TypeOK, SlotsConserved, free' = free, Holders' = Holders
  PROVE  free' \in 0 .. MaxConcurrency /\ SlotsConserved'
  BY DEF SlotsConserved, TypeOK

(* Every step keeps the invariant.                                          *)
LEMMA BreakerSteps == BreakerInv /\ [Next]_vars => BreakerInv'
<1> SUFFICES ASSUME TypeOK, CountersFit, SlotsConserved, [Next]_vars
             PROVE  TypeOK' /\ CountersFit' /\ SlotsConserved'
  BY DEF BreakerInv
<1>a. Fields /\ pc \in [Callers -> Places] /\ attempts \in [Callers -> 0 .. MaxAttempts - 1]
  BY DEF TypeOK, Fields
<1>1. CASE Elapse
  <2>1. Holders' = Holders
    BY <1>1 DEF Elapse, Holders
  <2> QED BY <1>1, <2>1, SlotsKept DEF Elapse, TypeOK, CountersFit
<1>2. CASE UNCHANGED vars
  <2>1. Holders' = Holders
    BY <1>2 DEF vars, Holders
  <2> QED BY <1>2, <2>1, SlotsKept DEF vars, TypeOK, CountersFit
<1>3. ASSUME NEW c \in Callers, Start(c) \/ Step(c)
      PROVE  TypeOK' /\ CountersFit' /\ SlotsConserved'
  <2> USE <1>a
  <2>1. PreCheck \/ RecordSuccess \/ RecordFailure \/ UNCHANGED breaker
    BY <1>3 DEF Start, Step, CheckFirst, BeginCall, LeaveUncalled, Call, Acquire, TimeOut,
       Succeed, Fail, Release
  <2>2. Fields' /\ CountersFit'
    BY <2>1, BreakerSections
  <2>3. \A place \in Places : Goto(c, place) =>
          /\ pc' \in [Callers -> Places] /\ pc'[c] = place
          /\ \A d \in Callers \ {c} : pc'[d] = pc[d]
    BY DEF Goto
  <2>4. Retry(c) => /\ attempts' \in [Callers -> 0 .. MaxAttempts - 1]
                    /\ Goto(c, "ready") \/ Goto(c, "idle")
    BY LimitsPositive DEF Retry
  <2>5. [attempts EXCEPT ![c] = 0] \in [Callers -> 0 .. MaxAttempts - 1]
    BY LimitsPositive
  <2>6. CASE Acquire(c)
    <3>1. pc' \in [Callers -> Places] /\ attempts' \in [Callers -> 0 .. MaxAttempts - 1]
      BY <2>6, <2>3 DEF Acquire, Places
    <3>2. c \notin Holders /\ Holders' = Holders \cup {c} /\ free > 0 /\ free' = free - 1
      BY <2>6, <2>3 DEF Acquire, Places, Holders
    <3> QED BY <3>1, <3>2, <2>2, SlotTaken DEF TypeOK, Fields
  <2>7. CASE Release(c)
    <3>1. Goto(c, "ready") \/ Goto(c, "idle")
      BY <2>7, <2>4 DEF Release
    <3>2. pc' \in [Callers -> Places] /\ attempts' \in [Callers -> 0 .. MaxAttempts - 1]
      BY <2>7, <3>1, <2>3, <2>4, <2>5 DEF Release, Places
    <3>3. c \in Holders /\ Holders' = Holders \ {c} /\ free' = free + 1
      BY <2>7, <3>1, <2>3 DEF Release, Places, Holders
    <3> QED BY <3>2, <3>3, <2>2, SlotGivenBack DEF TypeOK, Fields
  <2>8. CASE Succeed(c) \/ Fail(c)
    <3>1. /\ c \in Holders /\ free' = free /\ attempts' = attempts
          /\ Goto(c, "succeeded") \/ Goto(c, "failed") \/ Goto(c, "raised")
      BY <2>8 DEF Succeed, Fail, Holders
    <3>2. pc' \in [Callers -> Places] /\ Holders' = Holders
      BY <3>1, <2>3 DEF Places, Holders
    <3> QED BY <3>1, <3>2, <2>2, SlotsKept DEF TypeOK, Fields
  <2>9. CASE CheckFirst(c) \/ BeginCall(c) \/ LeaveUncalled(c) \/ Call(c) \/ TimeOut(c)
    <3>1. /\ pc[c] \in {"idle", "ready", "waiting"} /\ free' = free
          /\ Goto(c, "idle") \/ Goto(c, "ready") \/ Goto(c, "waiting")
      BY <2>9, <2>4 DEF CheckFirst, BeginCall, LeaveUncalled, Call, TimeOut
    <3>2. pc' \in [Callers -> Places] /\ Holders' = Holders
      BY <3>1, <2>3 DEF Places, Holders
    <3>3. attempts' \in [Callers -> 0 .. MaxAttempts - 1]
      BY <2>9, <2>4, <2>5 DEF CheckFirst, BeginCall, LeaveUncalled, Call, TimeOut
    <3> QED BY <3>1, <3>2, <3>3, <2>2, SlotsKept DEF TypeOK, Fields
  <2> QED BY <1>3, <2>6, <2>7, <2>8, <2>9 DEF Start, Step
<1> QED BY <1>1, <1>2, <1>3 DEF Next

(* The invariant holds of a new breaker that no thread has used.            *)
LEMMA BreakerInitially == Init => BreakerInv
<1> SUFFICES ASSUME Init PROVE BreakerInv
  OBVIOUS
<1>1. TypeOK /\ CountersFit
  <2>1. 0 \in 0 .. MaxAttempts - 1 /\ 0 \in 0 .. FailureThreshold /\ 0 \in 0 .. HalfOpenMaxCalls
    BY LimitsPositive
  <2>2. MaxConcurrency \in 0 .. MaxConcurrency /\ FailureThreshold # 0
    BY LimitsPositive
  <2>3. pc \in [Callers -> Places] /\ attempts \in [Callers -> 0 .. MaxAttempts - 1]
    BY <2>1 DEF Init, Places
  <2>4. /\ elapsed \in BOOLEAN /\ state = "closed" /\ failures = 0 /\ probes = 0
        /\ free = MaxConcurrency
    BY DEF Init
  <2> QED BY <2>1, <2>2, <2>3, <2>4 DEF TypeOK, CountersFit
<1>2. Holders = {}
  BY DEF Init, Holders
<1>3. SlotsConserved
  BY <1>2, FS_EmptySet, LimitsPositive DEF Init, SlotsConserved
<1> QED BY <1>1, <1>3 DEF BreakerInv

(* Hence the invariant holds in every reachable state.                      *)
LEMMA BreakerAlways == Spec => []BreakerInv
  BY BreakerInitially, BreakerSteps, PTL DEF Spec

(* The breaker's fields and the callers' places keep their types; the       *)
(* number of free slots never leaves its range.                             *)
THEOREM BreakerTypeCorrect == Spec => []TypeOK
  BY BreakerAlways, PTL DEF BreakerInv

(* Late results never leave a counter that does not fit the state.          *)
THEOREM CountersAlwaysFit == Spec => []CountersFit
  BY BreakerAlways, PTL DEF BreakerInv

(* Every way out of call() gives back the slot it took, and only that one.  *)
THEOREM SlotsAlwaysConserved == Spec => []SlotsConserved
  BY BreakerAlways, PTL DEF BreakerInv

(* The circuit moves only along the documented edges, each for its reason.  *)
THEOREM MovesAlongEdges == Spec => Moves
<1> DEFINE ended(place) == \E c \in Callers : pc[c] = "running" /\ pc'[c] = place
           Edge == \/ state = "closed" /\ state' = "open" /\ (ended("failed") \/ ended("raised"))
                   \/ state = "open" /\ state' = "half_open" /\ elapsed
                   \/ state = "half_open" /\ state' = "closed" /\ ended("succeeded")
                   \/ state = "half_open" /\ state' = "open" /\ (ended("failed") \/ ended("raised"))
<1>1. ASSUME BreakerInv, [Next]_vars PROVE [state' # state => Edge]_vars
  <2> SUFFICES ASSUME Next, state' # state PROVE Edge
    BY <1>1 DEF vars
  <2>a. pc \in [Callers -> Places] /\ state \in {"closed", "open", "half_open"}
    BY <1>1 DEF BreakerInv, TypeOK
  <2>1. PICK c \in Callers : Start(c) \/ Step(c)
    BY DEF Next, Elapse
  <2>2. CASE Succeed(c)
    <3>1. ended("succeeded")
      BY <2>2, <2>a DEF Succeed, Goto
    <3>2. state = "half_open" /\ state' = "closed"
      BY <2>2 DEF Succeed, RecordSuccess, breaker
    <3> QED BY <3>1, <3>2
  <2>3. CASE Fail(c)
    <3>1. ended("failed") \/ ended("raised")
      BY <2>3, <2>a DEF Fail, Goto
    <3>2. state \in {"closed", "half_open"} /\ state' = "open"
      BY <2>3 DEF Fail, RecordFailure
    <3> QED BY <3>1, <3>2
  <2>4. CASE PreCheck
    BY <2>4 DEF PreCheck, EffectiveState
  <2> QED BY <2>1, <2>2, <2>3, <2>4 DEF Start, Step, CheckFirst, BeginCall, LeaveUncalled, Call,
          Acquire, TimeOut, Release, breaker
<1> QED BY <1>1, BreakerAlways, PTL DEF Spec, Moves
=============================================================================
