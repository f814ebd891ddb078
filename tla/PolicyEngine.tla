----------------------------- MODULE PolicyEngine ----------------------------
(* The policy decision point: the Python rules of policy/policy_engine.py, and  *)
(* the Rego policies under policy/rego that are kept in parity with them. A     *)
(* tool call names a tool and a server and may carry a destination, given       *)
(* explicitly or in one of four arguments. A caller passes it as a dict, which  *)
(* is checked, or as a PolicyInput made by itself, which is not.                *)
EXTENDS Naturals, FiniteSets

CONSTANTS
    Tools, Servers,     \* names; "" is the empty one
    Destinations,       \* destinations: [host, internal]; host "" parses to none,
                        \* and reading the destination "invalid" raises
    DangerousTools,     \* dangerous_tools
    AllowedServers,     \* allowed_servers
    AllowedHosts        \* allowed_egress_hosts

None == [host |-> "none", internal |-> FALSE]
ArgumentNames == {"url", "host", "endpoint", "target"}
Forms == {"dict", "mistyped", "input"}  \* a dict, one with a field of the wrong type,
                                        \* a PolicyInput
Calls == [form : Forms, tool : Tools, server : Servers, explicit : Destinations \cup {None},
          arguments : [ArgumentNames -> Destinations \cup {None}]]

VARIABLES
    call,       \* the call decided last
    decision    \* the reason code of its decision, or "raised" for none at all

vars == <<call, decision>>

-----------------------------------------------------------------------------
(* The Python rules.                                                            *)

\* from_tool_call(), which is not asked about a PolicyInput.
Malformed(c) == \/ c.form = "mistyped"
                \/ c.form = "dict" /\ (c.tool = "" \/ c.server = "")

\* _extract_destination(): the explicit one, or that of the first argument the
\* code asks for which has one.
Destination(c) ==
    IF c.explicit # None THEN c.explicit
    ELSE IF c.arguments.url # None THEN c.arguments.url
    ELSE IF c.arguments.host # None THEN c.arguments.host
    ELSE IF c.arguments.endpoint # None THEN c.arguments.endpoint
    ELSE c.arguments.target

\* Mutant: any address that is not internal may be reached.
EgressInternalOnly(c) ==
    IF Destination(c) = None THEN "none"
    ELSE IF Destination(c).host = "invalid" THEN "raised"
    ELSE IF Destination(c).host = "" THEN "DENY_EGRESS_MALFORMED"
    ELSE IF Destination(c).internal /\ Destination(c).host \notin AllowedHosts
         THEN "DENY_EGRESS_NOT_ALLOWED" ELSE "none"

\* _evaluate_egress(): "none" where there is nothing to deny. An internal
\* address is refused like any other that is not on the list. A URL that
\* urlparse() does not take, or an explicit destination that is no string,
\* raises out of evaluate().
EvaluateEgress(c) ==
    IF Destination(c) = None THEN "none"
    ELSE IF Destination(c).host = "invalid" THEN "raised"
    ELSE IF Destination(c).host = "" THEN "DENY_EGRESS_MALFORMED"
    ELSE IF Destination(c).host \notin AllowedHosts THEN "DENY_EGRESS_NOT_ALLOWED" ELSE "none"

\* evaluate()
Decide(c) ==
    IF Malformed(c) THEN "DENY_MALFORMED_INPUT"
    ELSE IF c.tool \in DangerousTools THEN "DENY_DANGEROUS_TOOL"
    ELSE IF c.server \notin AllowedServers THEN "DENY_SERVER_NOT_ALLOWED"
    ELSE IF EvaluateEgress(c) # "none" THEN EvaluateEgress(c) ELSE "ALLOWED"

-----------------------------------------------------------------------------
(* The Rego policies. Their caller passes a parsed host, or none.               *)

EgressHost(c) == IF Destination(c).host \in {"", "invalid", "none"} THEN {} ELSE {Destination(c).host}

AllowEgress(c) == EgressHost(c) \subseteq AllowedHosts

AuthzReasons(c) ==
    {r \in {"DENY_DANGEROUS_TOOL", "DENY_SERVER_NOT_ALLOWED"} :
        \/ r = "DENY_DANGEROUS_TOOL" /\ c.tool \in DangerousTools
        \/ r = "DENY_SERVER_NOT_ALLOWED" /\ c.server \notin AllowedServers}

AllowTool(c) == AuthzReasons(c) = {}

EgressReasons(c) == IF AllowEgress(c) THEN {} ELSE {"DENY_EGRESS_NOT_ALLOWED"}

-----------------------------------------------------------------------------
Init ==
    /\ call = [form |-> "dict", tool |-> "", server |-> "", explicit |-> None,
               arguments |-> [a \in ArgumentNames |-> None]]
    /\ decision = "none"

\* evaluate() keeps nothing from one call to the next: one is decided.
Evaluate ==
    /\ decision = "none"
    /\ \E c \in Calls : call' = c /\ decision' = Decide(c)

Next == Evaluate

Spec == Init /\ [][Next]_vars

\* Correctness.

\* The Python rules allow a call exactly when both Rego policies do and, where
\* these are not asked, it is well formed and its destination parses. evaluate()
\* raises only for a destination that cannot be read, after the checks of the tool
\* and the server have passed: what these deny is denied whatever the destination.
\* The reason given for a denial is among the reasons of the Rego policies.
ParityWithRego ==
    decision # "none" =>
       /\ decision = "ALLOWED" <=> /\ AllowTool(call) /\ AllowEgress(call) /\ ~Malformed(call)
                                   /\ Destination(call).host \notin {"", "invalid"}
       /\ decision = "raised" <=> /\ AllowTool(call) /\ ~Malformed(call)
                                  /\ Destination(call).host = "invalid"
       /\ decision \in {"ALLOWED", "raised", "DENY_MALFORMED_INPUT", "DENY_EGRESS_MALFORMED"}
                       \cup AuthzReasons(call) \cup EgressReasons(call)
=============================================================================
