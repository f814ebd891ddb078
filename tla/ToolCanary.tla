------------------------------ MODULE ToolCanary -----------------------------
(* The canary probes of advanced/canary.py: known inputs with what their        *)
(* answers must be, the history of the answers, and the health of a tool that   *)
(* is derived from it. Nothing stops two probes from having the same id:        *)
(* _find_probe() takes the first, the baseline hash is the last one set, and    *)
(* the history is shared.                                                       *)
EXTENDS Integers, Sequences, FiniteSets, SequencesExt

CONSTANTS
    Probes,     \* the probes that may be registered: [id, tool, expected,
                \* needs, forbids]; expected is {} or the set of one output
    Outputs,    \* outputs: the fields each one has
    MaxProbes,  \* bound: probes registered
    MaxAnswers  \* bound: answers evaluated

VARIABLES
    probes,     \* _probes, in the order they are searched
    baselines,  \* _baselines: per probe id, {} or the set of one output
    history,    \* _history: per probe id, the statuses, in order
    last        \* the last result: the probe id, the output and the status

vars == <<probes, baselines, history, last>>

Ids == {p.id : p \in Probes}
Tools == {p.tool : p \in Probes}
NoResult == [id |-> "none", output |-> {}, status |-> "none"]

Registered(id) == \E i \in 1..Len(probes) : probes[i].id = id

\* _probes groups the probes by tool, in the order the tools first came.
FirstOfTool(tool) == CHOOSE i \in 1..Len(probes) :
    probes[i].tool = tool /\ \A j \in 1..(i - 1) : probes[j].tool # tool

\* _find_probe()
Index(id) == CHOOSE i \in 1..Len(probes) :
    /\ probes[i].id = id
    /\ \A j \in 1..Len(probes) :
          probes[j].id = id =>
             \/ FirstOfTool(probes[i].tool) < FirstOfTool(probes[j].tool)
             \/ probes[i].tool = probes[j].tool /\ i <= j

\* Mutant: a baseline that was set stays.
BaselineOnce(p) ==
    IF p.expected = {} \/ baselines[p.id] # {} THEN baselines
    ELSE [baselines EXCEPT ![p.id] = p.expected]

NewBaseline(p) ==
    IF p.expected = {} THEN baselines ELSE [baselines EXCEPT ![p.id] = p.expected]

RegisterProbe(p) ==
    /\ Len(probes) < MaxProbes
    /\ probes' = Append(probes, p)
    /\ baselines' = NewBaseline(p)
    /\ UNCHANGED <<history, last>>

\* Mutant: approving a change clears the history of the probe.
UpdateAndForget(id, output) ==
    /\ baselines' = [baselines EXCEPT ![id] = {output}]
    /\ probes' = IF Registered(id) THEN [probes EXCEPT ![Index(id)].expected = {output}] ELSE probes
    /\ history' = [history EXCEPT ![id] = <<>>]
    /\ UNCHANGED last

UpdateBaseline(id, output) ==
    /\ baselines' = [baselines EXCEPT ![id] = {output}]
    /\ probes' = IF Registered(id) THEN [probes EXCEPT ![Index(id)].expected = {output}] ELSE probes
    /\ UNCHANGED <<history, last>>

\* The size limit and the validator of a probe add violations as a missing
\* field does.
Status(p, output) ==
    LET mismatch == p.expected # {} /\ baselines[p.id] # {output}
        missing == ~(p.needs \subseteq output)
        forbidden == p.forbids \cap output # {}
    IN IF forbidden THEN "fail"
       ELSE IF mismatch THEN "drift"
       ELSE IF missing THEN "fail" ELSE "pass"

EvaluateResponse(id, output) ==
    /\ FoldFunction(LAMBDA h, n : Len(h) + n, 0, history) < MaxAnswers
    /\ IF Registered(id)
       THEN LET status == Status(probes[Index(id)], output)
            IN /\ last' = [id |-> id, output |-> output, status |-> status]
               /\ history' = [history EXCEPT ![id] = Append(@, status)]
       ELSE /\ last' = [id |-> id, output |-> output, status |-> "error"]
            /\ UNCHANGED history
    /\ UNCHANGED <<probes, baselines>>

Init ==
    /\ probes = <<>>
    /\ baselines = [id \in Ids |-> {}]
    /\ history = [id \in Ids |-> <<>>]
    /\ last = NoResult

Next ==
    \/ \E p \in Probes : RegisterProbe(p)
    \/ \E id \in Ids, output \in Outputs : UpdateBaseline(id, output) \/ EvaluateResponse(id, output)

Spec == Init /\ [][Next]_vars

-----------------------------------------------------------------------------
(* get_tool_health()                                                            *)

Statuses(tool) ==
    UNION {Range(history[probes[i].id]) : i \in {j \in 1..Len(probes) : probes[j].tool = tool}}

Compromised(tool) == "fail" \in Statuses(tool)

\* Correctness.

Unique == \A i, j \in 1..Len(probes) : probes[i].id = probes[j].id => i = j

\* Where probe ids are unique, an answer passes only if it is the output that
\* was registered or approved last, if the probe has one, with every field it
\* needs and none it forbids.
PassIsAsApproved ==
    [][\A id \in Ids, output \in Outputs :
          (/\ Unique
           /\ last' # last
           /\ last' = [id |-> id, output |-> output, status |-> "pass"])
          => LET p == probes[Index(id)]
             IN /\ p.expected # {} => p.expected = {output}
                /\ p.needs \subseteq output
                /\ p.forbids \cap output = {}]_vars

\* A tool that was found compromised stays so: no later answer, and no approved
\* change of the expected output, makes it healthy again.
CompromisedIsSticky ==
    [][\A tool \in Tools : Compromised(tool) => Compromised(tool)']_vars
=============================================================================
