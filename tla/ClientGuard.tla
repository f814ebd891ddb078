------------------------------ MODULE ClientGuard ----------------------------
(* The client of the gateway (client.py): guard() scans a call and runs the     *)
(* function only if the verdict allows it. The gateway decides on its own; its  *)
(* answer may be an error of its own, unreadable, or lost on the way.           *)
EXTENDS Naturals

CONSTANTS
    Callers         \* calls of guarded functions, made concurrently

VARIABLES
    failClosed,     \* fail_closed
    judged,         \* per call: what the gateway decided, "none" before
    answer,         \* per call: what reached the client, "none" before
    outcome         \* per call: "waiting", "ran", "blocked" or "raised"

vars == <<failClosed, judged, answer, outcome>>

\* External: the gateway decides, and sometimes fails. A call it refuses to
\* serve (authentication, size, rate) is a denial too.
Judge(c) ==
    /\ judged[c] = "none"
    /\ \E v \in {"allow", "deny", "refuse", "fail"} : judged' = [judged EXCEPT ![c] = v]
    /\ UNCHANGED <<failClosed, answer, outcome>>

\* What arrives: the verdict as a JSON object, a 4xx, a 5xx, a body that is no
\* object, nothing (connection, timeout), or a response cut short, for which the
\* library raises an exception that scan() does not catch.
Arrive(c) ==
    /\ answer[c] = "none"
    /\ \E a \in {"verdict", "4xx", "5xx", "garbled", "nothing", "cut"} :
          /\ a \in {"verdict", "garbled", "cut"} => judged[c] \in {"allow", "deny"}
          /\ a = "4xx" => judged[c] = "refuse"
          /\ a = "5xx" => judged[c] = "fail"
          /\ answer' = [answer EXCEPT ![c] = a]
    /\ UNCHANGED <<failClosed, judged, outcome>>

\* Mutant: a refusal is a failure of the gateway like any other.
AllowedIfOpen(c) == IF answer[c] = "verdict" THEN judged[c] = "allow" ELSE ~failClosed

\* Mutant: an answer that cannot be read allows the call.
AllowedUnlessDenied(c) ==
    answer[c] = "garbled" \/ (IF answer[c] = "verdict" THEN judged[c] = "allow" ELSE
                                 answer[c] # "4xx" /\ ~failClosed)

\* The verdict scan() returns; a verdict without "allowed" is a denial.
Allowed(c) ==
    CASE answer[c] = "verdict" -> judged[c] = "allow"
      [] answer[c] = "4xx" -> FALSE
      [] answer[c] \in {"5xx", "garbled", "nothing"} -> ~failClosed

\* wrapper(): the function runs, ToolBlocked is raised, or what scan() raised.
Run(c) ==
    /\ outcome[c] = "waiting"
    /\ answer[c] # "none"
    /\ outcome' = [outcome EXCEPT ![c] =
                      IF answer[c] = "cut" THEN "raised"
                      ELSE IF Allowed(c) THEN "ran" ELSE "blocked"]
    /\ UNCHANGED <<failClosed, judged, answer>>

Init ==
    /\ failClosed \in BOOLEAN
    /\ judged = [c \in Callers |-> "none"]
    /\ answer = [c \in Callers |-> "none"]
    /\ outcome = [c \in Callers |-> "waiting"]

Next == \E c \in Callers : Judge(c) \/ Arrive(c) \/ Run(c)

Spec == Init /\ [][Next]_vars

-----------------------------------------------------------------------------
(* Correctness.                                                                 *)

\* With fail_closed, the default, a function runs only after the gateway has
\* allowed this very call, whatever happens to the answer.
RunsOnlyWhenAllowed ==
    \A c \in Callers : failClosed /\ outcome[c] = "ran" => judged[c] = "allow"

\* Without it, what the gateway refused with a 4xx still does not run, and a
\* denied call runs only if the denial did not reach the client.
FailOpenCoversOnlySilence ==
    \A c \in Callers :
       outcome[c] = "ran" /\ judged[c] # "allow" =>
          /\ answer[c] \in {"5xx", "garbled", "nothing"}
          /\ answer[c] = "5xx" => judged[c] = "fail"
=============================================================================
