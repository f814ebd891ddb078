-------------------------- MODULE MCCircuitBreaker --------------------------
(* The breaker with three callers; the thresholds are small so that        *)
(* opening, probing, late results and re-opening all occur.                *)
EXTENDS CircuitBreaker

CONSTANTS t1, t2, t3
ThreeThreads == {t1, t2, t3}
=============================================================================
