---------------------------- MODULE CallSequences ----------------------------
(* The cross-tool engine of advanced/correlation.py: one bounded window of      *)
(* calls for all sessions, and four rules, each a sequence of tool patterns     *)
(* and perhaps a condition on the calls that were matched. Every recorded call  *)
(* evaluates every rule over the calls of the rule's time window.               *)
(*                                                                              *)
(* One unit of time is a minute: every window of the code is a multiple.        *)
EXTENDS Integers, Sequences, FiniteSets

CONSTANTS
    Tools,          \* tools: the words their name contains
    Servers,        \* server_id; "" is none
    Data,           \* values long enough to be recognised
    WindowSize,     \* window_size
    MaxCalls,       \* bound: calls recorded
    MaxMinutes      \* bound: the clock

VARIABLES
    minute,     \* time.time
    window,     \* _window
    recorded,   \* bound: how many calls were recorded
    alerts      \* the rules the last record_call() alerted for

vars == <<minute, window, recorded, alerts>>

-----------------------------------------------------------------------------
(* The rules.                                                                   *)

Reads == {"read", "get", "fetch", "query", "secret", "key", "token"}
Sends == {"send", "email", "post", "upload", "webhook"}
Credentials == {"secret", "credential", "key", "token", "password"}
Recon == {"list", "scan", "discover", "enumerate"}
Privileged == {"delete", "modify", "admin", "execute", "shell"}

Rule(first, second, minutes) == [first |-> first, second |-> second, minutes |-> minutes]

\* A pattern is the set of words a name must contain one of; {} is ".*".
Rules == [
    read_then_exfil |-> Rule(Reads, Sends, 2),
    credential_harvest |-> Rule(Credentials, Credentials, 1),
    recon_then_exploit |-> Rule(Recon, Privileged, 3),
    shadow_pivot |-> Rule({}, {}, 1)]

Matches(call, pattern) == pattern = {} \/ call.tool \cap pattern # {}

\* _data_read_then_exfil() over the two matched calls: it compares the
\* arguments of a sending call with as many of the outputs as there are calls
\* before it, counted among the calls that have an output.
DataFlows(calls) ==
    \E i, k \in 1..Len(calls) :
        /\ calls[i].tool \cap {"send", "email", "post", "upload"} # {}
        /\ calls[k].output # {}
        /\ Cardinality({j \in 1..k : calls[j].output # {}}) < i
        /\ calls[k].output \subseteq calls[i].arguments

\* Mutant: the condition is not asked.
NoCondition(name, calls) == TRUE

Condition(name, calls) ==
    CASE name = "read_then_exfil" -> DataFlows(calls)
      [] name = "shadow_pivot" -> /\ calls[1].server # calls[2].server
                                  /\ calls[2].server # ""
      [] OTHER -> TRUE

\* Mutant: the calls of the whole window count.
AnyAge(name, calls) == 1..Len(calls)

\* Each rule looks at the calls of its own time window: here, their positions.
Recent(name, calls) ==
    {i \in 1..Len(calls) : minute - calls[i].at <= Rules[name].minutes}

Least(positions) == CHOOSE i \in positions : \A j \in positions : i <= j

\* _match_sequence(): the first call of the first pattern, then the first call
\* after it of the second.
MatchSequence(rule, calls, positions) ==
    LET first == {i \in positions : Matches(calls[i], rule.first)}
        second == {j \in positions : Matches(calls[j], rule.second) /\ \E i \in first : i < j}
    IN IF second = {} THEN <<>> ELSE <<calls[Least(first)], calls[Least(second)]>>

Alerts(calls) ==
    {name \in DOMAIN Rules :
        LET matched == MatchSequence(Rules[name], calls, Recent(name, calls))
        IN matched # <<>> /\ Condition(name, matched)}

-----------------------------------------------------------------------------
RecordCall ==
    /\ recorded < MaxCalls
    /\ recorded' = recorded + 1
    /\ \E tool \in Tools, server \in Servers, sent \in SUBSET Data, got \in SUBSET Data :
          LET call == [tool |-> tool, server |-> server, arguments |-> sent,
                       output |-> got, at |-> minute]
              calls == IF Len(window) = WindowSize THEN Append(Tail(window), call)
                       ELSE Append(window, call)
          IN /\ Cardinality(got) <= 1
             /\ window' = calls
             /\ alerts' = Alerts(calls)
    /\ UNCHANGED minute

ClearWindow ==
    /\ window' = <<>>
    /\ UNCHANGED <<minute, recorded, alerts>>

PassMinute ==
    /\ minute < MaxMinutes
    /\ minute' = minute + 1
    /\ UNCHANGED <<window, recorded, alerts>>

Init == minute = 0 /\ window = <<>> /\ recorded = 0 /\ alerts = {}

Next == RecordCall \/ ClearWindow \/ PassMinute

Spec == Init /\ [][Next]_vars

-----------------------------------------------------------------------------
(* Correctness.                                                                 *)

Pairs(name) ==
    {pair \in (1..Len(window)) \X (1..Len(window)) :
        /\ pair[1] < pair[2]
        /\ Matches(window[pair[1]], Rules[name].first)
        /\ Matches(window[pair[2]], Rules[name].second)
        /\ minute - window[pair[1]].at <= Rules[name].minutes}

\* The rules without a condition alert exactly when two calls of the window, in
\* order and neither older than the rule's time, are of the two patterns: here
\* a stale first call does not mask a later pair. After the call is recorded.
PairsAreFound ==
    [][recorded' # recorded =>
          \A name \in {"credential_harvest", "recon_then_exploit"} :
             name \in alerts' <=> Pairs(name)' # {}]_vars

\* read_then_exfil alerts only if what a call returned is in the arguments of a
\* sending call of the window: of a later one, or, since the outputs are counted
\* and not the calls, of the very same one.
ExfilCarriesData ==
    [][recorded' # recorded /\ "read_then_exfil" \in alerts' =>
          \E i, j \in 1..Len(window') :
             /\ i <= j
             /\ window'[i].output # {}
             /\ window'[i].output \subseteq window'[j].arguments
             /\ window'[j].tool \cap Sends # {}]_vars

\* shadow_pivot sees only the two oldest calls of the last minute: it alerts
\* for them as long as they are that, and for no later change of server.
PivotIsOfTheOldestTwo ==
    [][recorded' # recorded =>
          LET last == {i \in 1..Len(window') : minute - window'[i].at <= 1}
              from == CHOOSE i \in last : \A j \in last : i <= j
          IN "shadow_pivot" \in alerts' <=>
                /\ Cardinality(last) >= 2
                /\ window'[from].server # window'[from + 1].server
                /\ window'[from + 1].server # ""]_vars
=============================================================================
