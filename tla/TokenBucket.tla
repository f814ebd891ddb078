---------------------------- MODULE TokenBucket -----------------------------
(* The token bucket of production/rate_limiter.py, which limits the gateway   *)
(* and the stdio proxy. Every method runs under the bucket's lock, so it is   *)
(* one step. Tokens are counted in sixtieths, of which a second brings        *)
(* tokens_per_minute, and time in seconds of the monotonic clock.             *)
EXTENDS Integers, Sequences

CONSTANTS
    Burst,              \* burst_size
    TokensPerMinute,    \* tokens_per_minute
    MaxClock,           \* bound: the clock
    MaxAdmitted         \* bound: admissions between two resets

Token == 60

VARIABLES
    clock,      \* time.monotonic
    tokens,     \* _tokens, in sixtieths
    lastRefill, \* _last_refill
    admitted    \* when allow() returned True, since the last reset()

vars == <<clock, tokens, lastRefill, admitted>>

\* Mutant: the bucket has no brim.
Overfull == tokens + (clock - lastRefill) * TokensPerMinute

\* _refill()
Refilled ==
    LET full == tokens + (clock - lastRefill) * TokensPerMinute
    IN IF full < Burst * Token THEN full ELSE Burst * Token

\* Mutant: a refused call does not settle what was refilled.
AllowOnly ==
    /\ Len(admitted) < MaxAdmitted
    /\ lastRefill' = clock
    /\ \/ /\ Refilled >= Token
          /\ tokens' = Refilled - Token
          /\ admitted' = Append(admitted, clock)
       \/ /\ Refilled < Token
          /\ UNCHANGED <<tokens, admitted>>
    /\ UNCHANGED clock

\* allow() refills also when it refuses.
Allow ==
    /\ Len(admitted) < MaxAdmitted
    /\ lastRefill' = clock
    /\ \/ /\ Refilled >= Token
          /\ tokens' = Refilled - Token
          /\ admitted' = Append(admitted, clock)
       \/ /\ Refilled < Token
          /\ tokens' = Refilled
          /\ UNCHANGED admitted
    /\ UNCHANGED clock

RemainingTokens ==
    /\ tokens' = Refilled
    /\ lastRefill' = clock
    /\ UNCHANGED <<clock, admitted>>

Reset ==
    /\ tokens' = Burst * Token
    /\ lastRefill' = clock
    /\ admitted' = <<>>
    /\ UNCHANGED clock

Second ==
    /\ clock < MaxClock
    /\ clock' = clock + 1
    /\ UNCHANGED <<tokens, lastRefill, admitted>>

Init ==
    /\ clock = 0
    /\ tokens = Burst * Token
    /\ lastRefill = 0
    /\ admitted = <<>>

Next == Allow \/ RemainingTokens \/ Reset \/ Second

Spec == Init /\ [][Next]_vars

-----------------------------------------------------------------------------
(* Correctness.                                                               *)

\* Between any two admissions since the last reset, and however the calls were
\* spread, no more calls were admitted than the burst and what those seconds
\* refilled.
BurstHolds ==
    \A i, j \in 1..Len(admitted) :
       i <= j => (j - i + 1) * Token <= Burst * Token + (admitted[j] - admitted[i]) * TokensPerMinute

\* The bucket refuses a call only when admitting it would break that bound:
\* refilling at odd times, or while refusing, never loses part of a token.
RefusesOnlyAtTheBound ==
    Refilled < Token =>
       \/ Burst = 0
       \/ \E i \in 1..Len(admitted) :
             (Len(admitted) - i + 2) * Token > Burst * Token + (clock - admitted[i]) * TokensPerMinute
=============================================================================
