-------------------------- MODULE EventCorrelation --------------------------
(* The correlation engine of the SIEM layer (siem/correlation.py): one window *)
(* of events per session, the six built-in rules, each a sequence of stages   *)
(* an event may be in, and the evaluation that follows every ingested event.  *)
(* The labelled sequences of siem/lifecycle.py are replayed against it.       *)
(*                                                                            *)
(* One unit of time is a minute: every window of the code is a multiple.      *)
EXTENDS Integers, Sequences

CONSTANTS
    Sessions,       \* session keys
    Events,         \* the events offered, besides those of the labelled data
    Window,         \* window_seconds of the engine
    MaxPerSession,  \* max_events_per_session
    MaxIngested,    \* bound: events ingested
    MaxMinutes      \* bound: the clock

VARIABLES
    minute,     \* time.time
    sessions,   \* _sessions: the window of each key, <<>> where it has no entry
    history,    \* _global_events
    expired,    \* per session: when its window was last cut
    matches,    \* the rules the last ingest() returned
    replayed,   \* the labelled sequence being replayed, or "none"
    fired       \* the rules that fired while it was replayed

vars == <<minute, sessions, history, expired, matches, replayed, fired>>

-----------------------------------------------------------------------------
(* The stages. An event holds the indicator words of its tool name and of     *)
(* its findings, its layer, the enforcement action and whether its risk is    *)
(* 60 or more.                                                                *)

Mentions(event, words) == (event.tool \cup event.findings) \cap words # {}
Found(event, words) == event.findings \cap words # {}

IsReconEvent(event) == Mentions(event, {"tools/list", "list_tools", "discover", "enumerate"})

IsSensitiveAccess(event) ==
    Mentions(event, {"read_file", "get_secret", "database", "credentials", "pii",
                     "sensitive", "password", "token", "key"})

IsExfilAttempt(event) ==
    \/ event.layer = "network_egress"
    \/ Found(event, {"exfiltration", "hidden_recipient"})
    \/ event.action \in {"block", "deny"} /\ Found(event, {"bcc", "external", "raw_ip", "oversized"})

IsInjectionAttempt(event) == Found(event, {"prompt_injection"}) \/ event.layer = "prompt_injection"

IsPrivilegeEscalation(event) ==
    \/ event.layer = "process_spawn"
    \/ Found(event, {"subprocess", "os.system", "cmd.exe", "bash", "shell"})

IsServerTrustViolation(event) ==
    event.layer = "server_trust" \/ Found(event, {"unregistered", "shadow_server"})

\* Mutant: a block counts whatever its risk.
IsAnyBlock(event) == event.action \in {"block", "deny"}

IsRepeatedBlock(event) == event.action \in {"block", "deny"} /\ event.high

Stage(event) ==
    [recon |-> IsReconEvent(event), sensitive |-> IsSensitiveAccess(event),
     exfil |-> IsExfilAttempt(event), injection |-> IsInjectionAttempt(event),
     escalation |-> IsPrivilegeEscalation(event), trust |-> IsServerTrustViolation(event),
     probing |-> IsRepeatedBlock(event)]

Rule(stages, window) == [stages |-> stages, window |-> window]

\* In each of them min_events is the number of stages.
Rules == [
    COR001 |-> Rule(<<"recon", "sensitive", "exfil">>, 5),
    COR002 |-> Rule(<<"injection", "escalation">>, 2),
    COR003 |-> Rule(<<"trust", "exfil">>, 3),
    COR004 |-> Rule(<<"probing", "probing", "probing">>, 1),
    COR005 |-> Rule(<<"injection", "exfil">>, 3),
    COR006 |-> Rule(<<"sensitive", "trust">>, 2)]

RuleIds == DOMAIN Rules

Is(event, stage) == Stage(event)[stage]

\* The positions CorrelationRule.evaluate() collects: each stage takes the
\* first event after the one before it.
Collected(rule, window) ==
    LET take(found, i) ==
            IF Len(found) < Len(rule.stages) /\ Is(window[i], rule.stages[Len(found) + 1])
            THEN Append(found, i) ELSE found
        after[i \in 0..Len(window)] == IF i = 0 THEN <<>> ELSE take(after[i - 1], i)
    IN after[Len(window)]

\* Mutant: the end of the window is no longer inside it.
FiresInside(rule, window) ==
    LET found == Collected(rule, window)
    IN /\ Len(found) = Len(rule.stages)
       /\ window[found[Len(found)]].at - window[found[1]].at < rule.window

Fires(rule, window) ==
    LET found == Collected(rule, window)
    IN /\ Len(window) >= Len(rule.stages)
       /\ Len(found) = Len(rule.stages)
       /\ window[found[Len(found)]].at - window[found[1]].at <= rule.window

-----------------------------------------------------------------------------
(* The engine.                                                                *)

\* The harness of lifecycle.py leaves the cap at its default, out of reach.
Cap == IF replayed = "none" THEN MaxPerSession ELSE 1000

Capped(window) == SubSeq(window, Len(window) - Cap + 1, Len(window))

\* The events of a window that are younger than the engine's.
Young(window) ==
    LET keep(events, i) ==
            IF window[i].at > minute - Window THEN Append(events, window[i]) ELSE events
        among[i \in 0..Len(window)] == IF i = 0 THEN <<>> ELSE keep(among[i - 1], i)
    IN among[Len(window)]

\* Mutant: a full window refuses the newest events.
ExpireNewest(window) ==
    LET young == Young(window)
    IN IF Len(young) > Cap THEN SubSeq(young, 1, Cap) ELSE young

\* _expire_old_events(): a window that has become empty loses its entry.
Expire(window) ==
    LET young == Young(window)
    IN IF Len(young) > Cap THEN Capped(young) ELSE young

\* Mutant: a match is reported by the event that completes it, and not again.
EvaluateNewest(window) ==
    {id \in RuleIds : /\ Fires(Rules[id], window)
                      /\ Collected(Rules[id], window)[Len(Rules[id].stages)] = Len(window)}

\* _evaluate_session()
Evaluate(window) == {id \in RuleIds : Fires(Rules[id], window)}

Stamped(event) ==
    [tool |-> event.tool, layer |-> event.layer, action |-> event.action,
     high |-> event.high, findings |-> event.findings, at |-> minute]

\* ingest(): the window is cut and evaluated after the event has joined it.
Ingest(key, event) ==
    LET window == Expire(Append(sessions[key], Stamped(event)))
    IN /\ Len(history) < MaxIngested
       /\ sessions' = [sessions EXCEPT ![key] = window]
       /\ history' = Append(history, [key |-> key, event |-> Stamped(event)])
       /\ expired' = [expired EXCEPT ![key] = minute]
       /\ matches' = Evaluate(window)
       /\ fired' = fired \cup Evaluate(window)
       /\ UNCHANGED <<minute, replayed>>

\* evaluate_all() cuts every window.
EvaluateAll ==
    /\ replayed = "none"
    /\ history # <<>>
    /\ sessions' = [key \in Sessions |-> Expire(sessions[key])]
    /\ expired' = [key \in Sessions |-> minute]
    /\ UNCHANGED <<minute, history, matches, replayed, fired>>

PassMinute ==
    /\ minute < MaxMinutes
    /\ replayed = "none"
    /\ minute' = minute + 1
    /\ UNCHANGED <<sessions, history, expired, matches, replayed, fired>>

-----------------------------------------------------------------------------
(* The labelled sequences of lifecycle.py: some ten seconds each, which is    *)
(* one minute here. _mk_event() blocks with a risk of 50 unless told not to.  *)

Made(tool, layer, action, high, findings) ==
    [tool |-> tool, layer |-> layer, action |-> action, high |-> high, findings |-> findings]

Labelled == [
    mal_cor001 |-> <<Made({"tools/list"}, "", "allow", FALSE, {"discover"}),
                     Made({"read_file"}, "", "block", FALSE, {"sensitive"}),
                     Made({}, "network_egress", "block", FALSE, {"exfiltration", "hidden_recipient"})>>,
    mal_cor002 |-> <<Made({}, "", "block", FALSE, {"prompt_injection"}),
                     Made({}, "process_spawn", "block", FALSE, {"subprocess"})>>,
    mal_cor003 |-> <<Made({}, "server_trust", "block", FALSE, {"unregistered", "shadow_server"}),
                     Made({}, "network_egress", "block", FALSE, {"exfiltration"})>>,
    mal_cor004 |-> <<Made({}, "", "block", TRUE, {}), Made({}, "", "deny", TRUE, {}),
                     Made({}, "", "block", TRUE, {})>>,
    mal_cor005 |-> <<Made({}, "", "block", FALSE, {"prompt_injection"}),
                     Made({}, "network_egress", "block", FALSE, {"exfiltration"})>>,
    mal_cor006 |-> <<Made({"get_secret"}, "", "block", FALSE, {"credentials"}),
                     Made({}, "server_trust", "block", FALSE, {"unregistered"})>>,
    ben_normal_1 |-> <<Made({}, "", "allow", FALSE, {}), Made({}, "", "allow", FALSE, {})>>,
    ben_single_block |-> <<Made({}, "", "block", FALSE, {})>>,
    ben_low_risk_blocks |-> <<Made({}, "", "block", FALSE, {}), Made({}, "", "block", FALSE, {}),
                              Made({}, "", "block", FALSE, {})>>]

Expected == [
    mal_cor001 |-> {"COR001"}, mal_cor002 |-> {"COR002"}, mal_cor003 |-> {"COR003"},
    mal_cor004 |-> {"COR004"}, mal_cor005 |-> {"COR005"}, mal_cor006 |-> {"COR006"},
    ben_normal_1 |-> {}, ben_single_block |-> {}, ben_low_risk_blocks |-> {}]

\* run_precision_recall() gives each sequence an engine of its own.
StartReplay ==
    /\ history = <<>>
    /\ replayed = "none"
    /\ minute = 0
    /\ \E label \in DOMAIN Labelled : replayed' = label
    /\ UNCHANGED <<minute, sessions, history, expired, matches, fired>>

Replay ==
    /\ replayed # "none"
    /\ Len(history) < Len(Labelled[replayed])
    /\ \E key \in Sessions :
          /\ \A other \in Sessions \ {key} : sessions[other] = <<>>
          /\ Ingest(key, Labelled[replayed][Len(history) + 1])

Observe ==
    /\ replayed = "none"
    /\ \E key \in Sessions, event \in Events : Ingest(key, event)

Init ==
    /\ minute = 0
    /\ sessions = [key \in Sessions |-> <<>>]
    /\ history = <<>>
    /\ expired = [key \in Sessions |-> 0]
    /\ matches = {}
    /\ replayed = "none"
    /\ fired = {}

Next == Observe \/ EvaluateAll \/ PassMinute \/ StartReplay \/ Replay

Spec == Init /\ [][Next]_vars

-----------------------------------------------------------------------------
(* Correctness.                                                               *)

Chains(rule, window) ==
    {chain \in [1..Len(rule.stages) -> 1..Len(window)] :
        /\ \A k \in 1..Len(rule.stages) : Is(window[chain[k]], rule.stages[k])
        /\ \A k \in 2..Len(rule.stages) : chain[k - 1] < chain[k]}

\* A rule fires exactly when its stages occur in order within its window,
\* counted from the first event of the session that is in its first stage
\* (evaluate() never starts from a later one).
FiresOnFirstChain ==
    \A key \in Sessions, id \in RuleIds :
        LET window == sessions[key]
            rule == Rules[id]
        IN Fires(rule, window) <=>
              \E chain \in Chains(rule, window) :
                 /\ \A i \in 1..(chain[1] - 1) : ~Is(window[i], rule.stages[1])
                 /\ window[chain[Len(rule.stages)]].at - window[chain[1]].at <= rule.window

\* The events of a session that were younger than the engine's window when the
\* session's was last cut, by their place in the history.
Due(key) ==
    {i \in DOMAIN history : history[i].key = key /\ history[i].event.at > expired[key] - Window}

\* The window of a session is the latest of its own events that were younger
\* than the engine's window when it was last cut, in their order and as many as
\* the cap allows: cutting it again and again, and by two callers, loses nothing
\* else.
WindowIsLatestEvents ==
    \A key \in Sessions :
        LET window == sessions[key]
        IN /\ Len(window) <= Cap
           /\ \E place \in [1..Len(window) -> Due(key)] :
                 /\ \A i \in 1..Len(window) : history[place[i]].event = window[i]
                 /\ \A i \in 2..Len(window) : place[i - 1] < place[i]
                 /\ \A due \in Due(key) : \/ \E i \in 1..Len(window) : place[i] = due
                                          \/ Len(window) = Cap /\ due < place[1]

\* What ingest() returns is not only what the new event completed: a match is
\* returned again for every event of the session until the event it starts
\* from has left the window.
MatchesAreRepeated ==
    [][\A key \in Sessions, id \in RuleIds :
          LET gone == Len(sessions[key]) + 1 - Len(sessions'[key])
          IN (/\ history' # history
              /\ history'[Len(history')].key = key
              /\ Fires(Rules[id], sessions[key])
              /\ Collected(Rules[id], sessions[key])[1] > gone)
             => id \in matches']_vars

\* The labelled data of lifecycle.py: each sequence fires the rules it is
\* labelled with, and no other.
LabelsHold ==
    replayed # "none" /\ Len(history) = Len(Labelled[replayed]) => fired = Expected[replayed]
=============================================================================
