------------------------ MODULE CircuitBreakerProofs ------------------------
(***************************************************************************)
(* The circuit breaker's safety, proved for any set of callers, any        *)
(* threshold and any timeout.  The three invariants are inductive only     *)
(* together: a late failure of a call admitted before the circuit opened   *)
(* keeps `fresh` empty only because the count already says "open".         *)
(***************************************************************************)
EXTENDS CircuitBreaker, TLAPS

IInv == TypeOK /\ StateMatchesCount /\ OpenBlocksNewCalls

LEMMA BreakerInit == Init => IInv
BY BreakerAssumption
   DEF Init, IInv, TypeOK, StateMatchesCount, OpenBlocksNewCalls,
       CircuitState, CLOSED, OPEN, HALF_OPEN

LEMMA BreakerStep == IInv /\ [Next]_vars => IInv'
<1> SUFFICES ASSUME IInv, [Next]_vars
             PROVE  IInv'
  OBVIOUS
<1> USE BreakerAssumption
    DEF IInv, TypeOK, StateMatchesCount, OpenBlocksNewCalls, CircuitState,
        CLOSED, OPEN, HALF_OPEN, CurrentState
<1>1. CASE ReadState
  BY <1>1 DEF ReadState
<1>2. CASE Reset
  BY <1>2 DEF Reset
<1>3. CASE Tick
  BY <1>3 DEF Tick
<1>4. ASSUME NEW t \in Threads, Admit(t)
      PROVE  IInv'
  BY <1>4 DEF Admit
<1>5. ASSUME NEW t \in Threads, Reject(t)
      PROVE  IInv'
  BY <1>5 DEF Reject, vars
<1>6. ASSUME NEW t \in Threads, OnSuccess(t)
      PROVE  IInv'
  BY <1>6 DEF OnSuccess, Return
<1>7. ASSUME NEW t \in Threads, OnFailure(t)
      PROVE  IInv'
  BY <1>7 DEF OnFailure, Trips
<1>8. ASSUME NEW t \in Threads, FallbackCheck(t)
      PROVE  IInv'
  BY <1>8 DEF FallbackCheck
<1>9. CASE UNCHANGED vars
  BY <1>9 DEF vars
<1> QED
  BY <1>1, <1>2, <1>3, <1>4, <1>5, <1>6, <1>7, <1>8, <1>9 DEF Next

LEMMA BreakerInvariant == Spec => []IInv
BY BreakerInit, BreakerStep, PTL DEF Spec

(* Every reachable state of the breaker is well typed.                     *)
THEOREM BreakerTypeCorrect == Spec => []TypeOK
<1>1. IInv => TypeOK
  BY DEF IInv
<1> QED
  BY <1>1, BreakerInvariant, PTL

(* The state and the failure counter agree whatever the interleaving of    *)
(* concurrent calls.                                                       *)
THEOREM BreakerStateMatchesCount == Spec => []StateMatchesCount
<1>1. IInv => StateMatchesCount
  BY DEF IInv
<1> QED
  BY <1>1, BreakerInvariant, PTL

(* While the circuit is open nothing admitted since it opened is running.  *)
THEOREM BreakerOpenBlocks == Spec => []OpenBlocksNewCalls
<1>1. IInv => OpenBlocksNewCalls
  BY DEF IInv
<1> QED
  BY <1>1, BreakerInvariant, PTL

(* One failure in the half-open state reopens the circuit: in that state   *)
(* the count is already at the threshold.                                  *)
THEOREM BreakerProbeFailureReopens == Spec => ProbeFailureReopens
<1>1. ASSUME IInv, [Next]_vars
      PROVE  [state = HALF_OPEN /\ failureCount' > failureCount
                => state' = OPEN]_vars
  <2> SUFFICES ASSUME state = HALF_OPEN, failureCount' > failureCount
               PROVE  state' = OPEN
    OBVIOUS
  <2>1. failureCount \in Nat /\ failureCount >= FailureThreshold
    BY <1>1, BreakerAssumption
       DEF IInv, TypeOK, StateMatchesCount, HALF_OPEN, CLOSED
  <2>2. PICK t \in Threads : OnFailure(t)
    BY <1>1, <2>1, BreakerAssumption
       DEF Next, ReadState, Reset, Tick, Admit, Reject, OnSuccess, Return,
           FallbackCheck, vars
  <2> QED
    BY <2>1, <2>2, BreakerAssumption DEF OnFailure, Trips
<1> QED
  BY <1>1, BreakerInvariant, PTL DEF Spec, ProbeFailureReopens
=============================================================================
