--------------------------- MODULE CircuitBreaker ---------------------------
(***************************************************************************)
(* The process-wide circuit breaker and concurrency limiter in front of    *)
(* Bedrock, and the threads that use it: agents wrap call() in a retry     *)
(* decorator, and some of them check the circuit once more before they     *)
(* begin.                                                                  *)
(*                                                                         *)
(* One step is one critical section of the breaker's lock, one semaphore   *)
(* operation, or the end of a model call. The clock is abstracted to "has  *)
(* the recovery timeout elapsed since the last failure".                   *)
(***************************************************************************)
EXTENDS Naturals, FiniteSets

CONSTANTS
  Callers,           (* threads, each doing one agent call after another    *)
  Guarded,           (* those that run pre_check before they begin          *)
  FailureThreshold,  (* failure_threshold                                   *)
  HalfOpenMaxCalls,  (* half_open_max_calls                                 *)
  MaxConcurrency,    (* bedrock_max_concurrency                             *)
  MaxAttempts        (* stop_after_attempt of bedrock_retry                 *)

ASSUME CallersFinite == IsFiniteSet(Callers) /\ Guarded \subseteq Callers
ASSUME LimitsPositive ==
  /\ FailureThreshold \in Nat \ {0} /\ HalfOpenMaxCalls \in Nat \ {0}
  /\ MaxConcurrency \in Nat \ {0} /\ MaxAttempts \in Nat \ {0}

VARIABLES
  state,     (* _state                                                      *)
  failures,  (* _failure_count                                              *)
  probes,    (* _half_open_calls                                            *)
  elapsed,   (* recovery_timeout has passed since _last_failure_time        *)
  free,      (* value of the semaphore                                      *)
  pc,        (* where each caller is                                        *)
  attempts   (* attempts the retry decorator of each caller has made        *)

breaker == <<state, failures, probes, elapsed>>
vars == <<state, failures, probes, elapsed, free, pc, attempts>>

Places == {"idle", "ready", "waiting", "running", "succeeded", "failed", "raised"}
Holders == {c \in Callers : pc[c] \in {"running", "succeeded", "failed", "raised"}}

Init ==
  /\ state = "closed" /\ failures = 0 /\ probes = 0 /\ elapsed = FALSE
  /\ free = MaxConcurrency
  /\ pc = [c \in Callers |-> "idle"]
  /\ attempts = [c \in Callers |-> 0]

-----------------------------------------------------------------------------
(* The breaker.                                                             *)

EffectiveState == IF state = "open" /\ elapsed THEN "half_open" ELSE state

(* pre_check raises CircuitOpenError.                                       *)
Rejects ==
  \/ EffectiveState = "open"
  \/ EffectiveState = "half_open" /\ probes >= HalfOpenMaxCalls

(* pre_check returns; in HALF_OPEN it uses up one of the test calls.        *)
PreCheck ==
  /\ ~Rejects
  /\ state' = EffectiveState
  /\ probes' = CASE state = "open"      -> 1
                 [] state = "half_open" -> probes + 1
                 [] OTHER               -> probes
  /\ UNCHANGED <<failures, elapsed>>

(* Broken variant: any success closes the circuit.                          *)
CloseOnAnySuccess ==
  /\ state' = "closed" /\ failures' = 0 /\ probes' = 0
  /\ UNCHANGED elapsed

RecordSuccess ==
  \/ /\ state = "half_open"
     /\ state' = "closed" /\ failures' = 0 /\ probes' = 0
     /\ UNCHANGED elapsed
  \/ /\ state = "closed"
     /\ failures' = 0
     /\ UNCHANGED <<state, probes, elapsed>>
  \/ /\ state = "open"
     /\ UNCHANGED breaker

(* Broken variant: the test calls used are not forgotten on reopening.      *)
ReopenKeepingProbes ==
  \/ /\ state = "half_open"
     /\ state' = "open" /\ elapsed' = FALSE
     /\ UNCHANGED <<failures, probes>>
  \/ /\ state = "closed"
     /\ failures' = failures + 1
     /\ IF failures' >= FailureThreshold
        THEN state' = "open" /\ elapsed' = FALSE
        ELSE UNCHANGED <<state, elapsed>>
     /\ UNCHANGED probes
  \/ /\ state = "open"
     /\ elapsed' = FALSE
     /\ UNCHANGED <<state, failures, probes>>

(* Broken variant: late failures are counted while the circuit is open.     *)
CountLateFailures ==
  /\ failures' = failures + 1
  /\ IF failures' >= FailureThreshold
     THEN state' = "open" /\ elapsed' = FALSE /\ probes' = 0
     ELSE UNCHANGED <<state, probes, elapsed>>

RecordFailure ==
  \/ /\ state = "half_open"
     /\ state' = "open" /\ probes' = 0 /\ elapsed' = FALSE
     /\ UNCHANGED failures
  \/ /\ state = "closed"
     /\ failures' = failures + 1
     /\ IF failures' >= FailureThreshold
        THEN state' = "open" /\ elapsed' = FALSE
        ELSE UNCHANGED <<state, elapsed>>
     /\ UNCHANGED probes
  \/ /\ state = "open"
     /\ elapsed' = FALSE
     /\ UNCHANGED <<state, failures, probes>>

(* The recovery timeout passes.                                             *)
Elapse ==
  /\ state = "open" /\ ~elapsed
  /\ elapsed' = TRUE
  /\ UNCHANGED <<state, failures, probes, free, pc, attempts>>

-----------------------------------------------------------------------------
(* The callers.                                                             *)

Goto(c, place) == pc' = [pc EXCEPT ![c] = place]

(* design_agent, generate_iac, execute_turn, ...: the check before the      *)
(* agent is built. A rejection changes nothing.                             *)
CheckFirst(c) ==
  /\ c \in Guarded /\ pc[c] = "idle"
  /\ PreCheck
  /\ Goto(c, "ready")
  /\ UNCHANGED <<free, attempts>>

(* No model call was needed after all (PARAMETERIZE, no question left).     *)
LeaveUncalled(c) ==
  /\ c \in Guarded /\ pc[c] = "ready" /\ attempts[c] = 0
  /\ Goto(c, "idle")
  /\ UNCHANGED <<breaker, free, attempts>>

(* The other agents, and the later calls of a pipeline, go straight to call. *)
BeginCall(c) ==
  /\ c \notin Guarded /\ pc[c] = "idle"
  /\ Goto(c, "ready")
  /\ UNCHANGED <<breaker, free, attempts>>

(* call: its own pre_check; CircuitOpenError is not retried.                *)
Call(c) ==
  /\ pc[c] = "ready"
  /\ \/ /\ PreCheck
        /\ Goto(c, "waiting")
        /\ UNCHANGED attempts
     \/ /\ Rejects
        /\ Goto(c, "idle")
        /\ attempts' = [attempts EXCEPT ![c] = 0]
        /\ UNCHANGED breaker
  /\ UNCHANGED free

Acquire(c) ==
  /\ pc[c] = "waiting" /\ free > 0
  /\ free' = free - 1
  /\ Goto(c, "running")
  /\ UNCHANGED <<breaker, attempts>>

(* The retry decorator: another attempt, or the exception propagates.       *)
Retry(c) ==
  LET more == attempts[c] + 1 < MaxAttempts IN
  /\ Goto(c, IF more THEN "ready" ELSE "idle")
  /\ attempts' = [attempts EXCEPT ![c] = IF more THEN @ + 1 ELSE 0]

(* Broken variant: the slot is released although it was never obtained.     *)
TimeOutReleasing(c) ==
  /\ pc[c] = "waiting" /\ free = 0
  /\ Retry(c)
  /\ free' = free + 1
  /\ UNCHANGED breaker

(* No slot within 120 s: TimeoutError, which is retried. Nothing is         *)
(* recorded, so a test call of HALF_OPEN stays used.                        *)
TimeOut(c) ==
  /\ pc[c] = "waiting" /\ free = 0
  /\ Retry(c)
  /\ UNCHANGED <<breaker, free>>

Succeed(c) ==
  /\ pc[c] = "running"
  /\ RecordSuccess
  /\ Goto(c, "succeeded")
  /\ UNCHANGED <<free, attempts>>

(* A transient error ("failed") is retried, another one ("raised") is not.  *)
Fail(c) ==
  /\ pc[c] = "running"
  /\ RecordFailure
  /\ \E place \in {"failed", "raised"} : Goto(c, place)
  /\ UNCHANGED <<free, attempts>>

(* Broken variant: every error is retried, without counting the attempts.   *)
ReleaseAndRetry(c) ==
  /\ pc[c] \in {"succeeded", "failed", "raised"}
  /\ free' = free + 1
  /\ Goto(c, IF pc[c] = "succeeded" THEN "idle" ELSE "ready")
  /\ UNCHANGED <<breaker, attempts>>

(* The finally clause of call; then the decorator decides.                  *)
Release(c) ==
  /\ pc[c] \in {"succeeded", "failed", "raised"}
  /\ free' = free + 1
  /\ IF pc[c] = "failed"
     THEN Retry(c)
     ELSE Goto(c, "idle") /\ attempts' = [attempts EXCEPT ![c] = 0]
  /\ UNCHANGED breaker

Start(c) == CheckFirst(c) \/ BeginCall(c)
Step(c) ==
  LeaveUncalled(c) \/ Call(c) \/ Acquire(c) \/ TimeOut(c) \/ Succeed(c) \/ Fail(c) \/ Release(c)

Next == Elapse \/ \E c \in Callers : Start(c) \/ Step(c)

Spec == Init /\ [][Next]_vars

(* Time passes, threads run, model calls end (they have read timeouts), and *)
(* users keep asking.                                                       *)
FairSpec ==
  /\ Spec
  /\ WF_vars(Elapse)
  /\ \A c \in Callers : WF_vars(Step(c)) /\ WF_vars(Start(c))

-----------------------------------------------------------------------------
(* Properties.                                                              *)

(* Type invariant: the breaker's fields and the callers' places.            *)
TypeOK ==
  /\ state \in {"closed", "open", "half_open"}
  /\ failures \in 0 .. FailureThreshold
  /\ probes \in 0 .. HalfOpenMaxCalls
  /\ elapsed \in BOOLEAN
  /\ free \in 0 .. MaxConcurrency
  /\ pc \in [Callers -> Places]
  /\ attempts \in [Callers -> 0 .. MaxAttempts - 1]

(* The counters fit the state, whatever results arrive late from calls      *)
(* admitted in an earlier state: no test call is counted outside HALF_OPEN  *)
(* (a count left over would reject every test call of the next recovery),   *)
(* and the failure count is at the threshold exactly when the circuit is    *)
(* not closed.                                                              *)
CountersFit ==
  /\ probes > 0 <=> state = "half_open"
  /\ failures = FailureThreshold <=> state # "closed"

(* Slots are neither lost nor made: what is not free is held by a call that *)
(* has not left the finally clause, on every way out of call().             *)
SlotsConserved == free + Cardinality(Holders) = MaxConcurrency

(* The circuit moves only CLOSED -> OPEN on a failure, OPEN -> HALF_OPEN    *)
(* after the timeout, HALF_OPEN -> CLOSED on a success and -> OPEN on a     *)
(* failure; a late success never closes an open circuit.                    *)
Moves ==
  [][LET ended(place) == \E c \in Callers : pc[c] = "running" /\ pc'[c] = place IN
     state' # state =>
       \/ state = "closed" /\ state' = "open" /\ (ended("failed") \/ ended("raised"))
       \/ state = "open" /\ state' = "half_open" /\ elapsed
       \/ state = "half_open" /\ state' = "closed" /\ ended("succeeded")
       \/ state = "half_open" /\ state' = "open" /\ (ended("failed") \/ ended("raised"))]_vars

(* Every operation ends: rejected, answered, or out of attempts; neither    *)
(* the semaphore nor the retry decorator keeps a thread for ever.           *)
OperationsEnd == \A c \in Callers : pc[c] # "idle" ~> pc[c] = "idle"

(* "HALF_OPEN ... a limited number of test calls are allowed through.       *)
(* Success resets to CLOSED; failure returns to OPEN": the circuit does not *)
(* stay HALF_OPEN.                                                          *)
HalfOpenResolves == state = "half_open" ~> state # "half_open"
=============================================================================
