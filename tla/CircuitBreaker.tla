--------------------------- MODULE CircuitBreaker ---------------------------
(***************************************************************************)
(* The circuit breaker of mcp_monitor/production/circuit_breaker.py.       *)
(*                                                                         *)
(* Threads call `call` concurrently.  Each access to the fields _state,    *)
(* _failure_count and _last_failure_time happens under the breaker's lock, *)
(* so one locked block is one action; the protected function itself runs   *)
(* WITHOUT the lock, so any number of other steps may fall between the     *)
(* admission of a call and the recording of its result.                    *)
(*                                                                         *)
(* Time: the code only ever asks whether `time.monotonic() -               *)
(* _last_failure_time` has reached recovery_timeout, so the model keeps    *)
(* that difference, saturated at RecoveryTimeout.                          *)
(***************************************************************************)
EXTENDS Naturals

CONSTANTS
  Threads,           \* callers of the breaker
  FailureThreshold,  \* failure_threshold
  RecoveryTimeout,   \* recovery_timeout, in ticks
  MaxFailures        \* bound on _failure_count (unbounded in the code)

ASSUME BreakerAssumption ==
  /\ FailureThreshold \in Nat \ {0}
  /\ RecoveryTimeout \in Nat
  /\ MaxFailures \in Nat

CLOSED == "closed"
OPEN == "open"
HALF_OPEN == "half_open"
CircuitState == {CLOSED, OPEN, HALF_OPEN}

VARIABLES
  state,         \* _state
  failureCount,  \* _failure_count
  elapsed,       \* monotonic() - _last_failure_time, saturated
  pc,            \* where each caller is in call()
  fallback,      \* whether the caller's current call passed a fallback
  fresh          \* history: calls admitted since the circuit last opened

vars == <<state, failureCount, elapsed, pc, fallback, fresh>>

TypeOK ==
  /\ state \in CircuitState
  /\ failureCount \in 0..MaxFailures
  /\ elapsed \in 0..RecoveryTimeout
  /\ pc \in [Threads -> {"idle", "running", "failed"}]
  /\ fallback \in [Threads -> BOOLEAN]
  /\ fresh \in SUBSET Threads

Init ==
  /\ state = CLOSED
  /\ failureCount = 0
  /\ elapsed = RecoveryTimeout
  /\ pc = [t \in Threads |-> "idle"]
  /\ fallback = [t \in Threads |-> FALSE]
  /\ fresh = {}

-----------------------------------------------------------------------------
(* The value of the `state` property: reading it is what moves an open     *)
(* circuit whose timeout has passed to half-open.                          *)
CurrentState ==
  IF state = OPEN /\ elapsed >= RecoveryTimeout THEN HALF_OPEN ELSE state

(* Somebody reads the property outside call() (the /v1/metrics handler).   *)
ReadState ==
  /\ state' = CurrentState
  /\ UNCHANGED <<failureCount, elapsed, pc, fallback, fresh>>

(* Mutant: the open circuit is not looked at.                              *)
Admit_IgnoresOpen(t) ==
  /\ pc[t] = "idle"
  /\ state' = CurrentState
  /\ \E f \in BOOLEAN : fallback' = [fallback EXCEPT ![t] = f]
  /\ pc' = [pc EXCEPT ![t] = "running"]
  /\ fresh' = fresh \union {t}
  /\ UNCHANGED <<failureCount, elapsed>>

(* call() up to the decision: an open circuit answers at once, with the    *)
(* fallback or with CircuitOpenError; otherwise the function starts.       *)
Admit(t) ==
  /\ pc[t] = "idle"
  /\ state' = CurrentState
  /\ CurrentState # OPEN
  /\ \E f \in BOOLEAN : fallback' = [fallback EXCEPT ![t] = f]
  /\ pc' = [pc EXCEPT ![t] = "running"]
  /\ fresh' = fresh \union {t}
  /\ UNCHANGED <<failureCount, elapsed>>

(* An open circuit answers at once and no field changes.                   *)
Reject(t) ==
  /\ pc[t] = "idle"
  /\ CurrentState = OPEN
  /\ UNCHANGED vars

(* The part of a call's end that is not the breaker's fields.              *)
Return(t) ==
  /\ pc[t] = "running"
  /\ pc' = [pc EXCEPT ![t] = "idle"]
  /\ fresh' = fresh \ {t}
  /\ UNCHANGED <<elapsed, fallback>>

(* Mutants: the count survives a success; a probe does not close.          *)
OnSuccess_KeepsCount(t) ==
  Return(t) /\ state' = CLOSED /\ UNCHANGED failureCount
OnSuccess_StaysHalfOpen(t) ==
  Return(t) /\ failureCount' = 0 /\ UNCHANGED state

(* The function returned: _on_success.                                     *)
OnSuccess(t) ==
  /\ Return(t)
  /\ failureCount' = 0
  /\ state' = CLOSED

(* Mutant: the circuit opens at the threshold only, not above it.          *)
Trips_OnlyAtThreshold(count) == count = FailureThreshold

Trips(count) == count >= FailureThreshold

(* The function raised: _on_failure.  A caller without a fallback gets the *)
(* exception; one with a fallback goes on to read the state again.         *)
OnFailure(t) ==
  /\ pc[t] = "running"
  /\ failureCount < MaxFailures
  /\ failureCount' = failureCount + 1
  /\ elapsed' = 0
  /\ state' = IF Trips(failureCount') THEN OPEN ELSE state
  /\ fresh' = IF Trips(failureCount') THEN {} ELSE fresh \ {t}
  /\ pc' = [pc EXCEPT ![t] = IF fallback[t] THEN "failed" ELSE "idle"]
  /\ UNCHANGED fallback

(* `if fallback is not None and self.state == OPEN`: the second read of    *)
(* the state, which may itself move the circuit to half-open; either way   *)
(* the call is over.                                                       *)
FallbackCheck(t) ==
  /\ pc[t] = "failed"
  /\ state' = CurrentState
  /\ pc' = [pc EXCEPT ![t] = "idle"]
  /\ UNCHANGED <<failureCount, elapsed, fallback, fresh>>

(* The operator's reset().                                                 *)
Reset ==
  /\ state' = CLOSED
  /\ failureCount' = 0
  /\ elapsed' = RecoveryTimeout
  /\ UNCHANGED <<pc, fallback, fresh>>

Tick ==
  /\ elapsed < RecoveryTimeout
  /\ elapsed' = elapsed + 1
  /\ UNCHANGED <<state, failureCount, pc, fallback, fresh>>

Next ==
  \/ ReadState
  \/ Reset
  \/ Tick
  \/ \E t \in Threads :
       \/ Admit(t)
       \/ Reject(t)
       \/ OnSuccess(t)
       \/ OnFailure(t)
       \/ FallbackCheck(t)

Spec == Init /\ [][Next]_vars

(* Time passes, callers keep calling, and a function that was started      *)
(* ends.  Whether it succeeds or fails is not assumed.                     *)
Fairness ==
  /\ WF_vars(Tick)
  /\ \A t \in Threads :
       /\ WF_vars(Admit(t))
       /\ WF_vars(OnSuccess(t) \/ OnFailure(t))
       /\ WF_vars(FallbackCheck(t))

FairSpec == Spec /\ Fairness

-----------------------------------------------------------------------------
(* The state and the failure counter never drift apart: the circuit is     *)
(* closed exactly while fewer than failure_threshold consecutive failures  *)
(* have been recorded, whatever the order in which concurrent calls end.   *)
(* _on_failure only ever raises the state and _on_success / reset lower    *)
(* both; the state property alone moves one without the other.             *)
StateMatchesCount == (state = CLOSED) <=> (failureCount < FailureThreshold)

(* While the circuit is open no call admitted since it opened is running:  *)
(* new work reaches the protected layer only through the half-open state.  *)
OpenBlocksNewCalls == state = OPEN => fresh = {}

(* A failure recorded while the circuit is half-open reopens it at once,   *)
(* however many probes are running: the count is not restarted by the      *)
(* transition to half-open.                                                *)
ProbeFailureReopens ==
  [][state = HALF_OPEN /\ failureCount' > failureCount => state' = OPEN]_vars

(* Once the protected function stops failing the circuit closes and stays  *)
(* closed.                                                                 *)
SelfHeals ==
  <>[][\A t \in Threads : ~OnFailure(t)]_vars => <>[](state = CLOSED)

=============================================================================
