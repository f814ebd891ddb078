---------------------------- MODULE JsonRpcMessages --------------------------
(* The JSON-RPC adapter of protocol/jsonrpc.py: the nesting of a message is     *)
(* measured with a stack of its own, then the message, or each member of a      *)
(* batch, is read for the tool calls to inspect. The nesting and the members    *)
(* of a message are chosen apart: only the first is measured, and only the      *)
(* second is parsed.                                                            *)
EXTENDS Naturals, Sequences, FiniteSets, SequencesExt

CONSTANTS
    MaxContainers,  \* bound: containers (objects and arrays) of a message
    MaxDepth,       \* max_depth
    MaxMembers,     \* bound: members of a batch
    Members         \* the kinds of members tried

VARIABLES
    parent,     \* per container of the message: the one it is in; 1 is the message
    members,    \* the members of a batch, or the one message
    batch,      \* is it a batch?
    stack,      \* the work stack of _check_depth: container and depth
    visited,    \* the containers taken off the stack, in order
    phase,      \* "idle", "measuring", "measured" or "done"
    read,       \* how many members were read
    code,       \* the error code of the message, "" for none
    returned    \* what parse_message() returns: the places of the members to inspect

vars == <<parent, members, batch, stack, visited, phase, read, code, returned>>

-----------------------------------------------------------------------------
(* A message of at most max_message_bytes that is valid JSON.                   *)
Receive ==
    /\ phase = "idle"
    /\ \E n \in 1..MaxContainers :
          parent' \in {f \in [1..n -> 0..n] : \A i \in 1..n : f[i] < i /\ (i > 1 => f[i] > 0)}
    /\ batch' \in BOOLEAN
    /\ members' \in IF batch' THEN BoundedSeq(Members, MaxMembers) ELSE [{1} -> Members]
    /\ stack' = << [node |-> 1, depth |-> 1] >>
    /\ phase' = "measuring"
    /\ UNCHANGED <<visited, read, code, returned>>

-----------------------------------------------------------------------------
(* _check_depth()                                                               *)

Children(c) == {d \in DOMAIN parent : parent[d] = c}

\* Mutant: the limit itself is too deep.
AtLimit(depth) == depth >= MaxDepth

TooDeep(depth) == depth > MaxDepth

\* Mutant: only the first container of each one is looked at.
PushFirst(rest, c, depth) ==
    IF Children(c) = {} THEN rest
    ELSE Append(rest, [node |-> CHOOSE d \in Children(c) : TRUE, depth |-> depth + 1])

\* The containers in a container go on the stack, one level deeper.
Push(rest, c, depth) ==
    rest \o [i \in 1..Cardinality(Children(c)) |->
                [node |-> SetToSeq(Children(c))[i], depth |-> depth + 1]]

Measure ==
    /\ phase = "measuring"
    /\ stack # <<>>
    /\ visited' = Append(visited, Last(stack).node)
    /\ IF TooDeep(Last(stack).depth)
       THEN phase' = "done" /\ code' = "-32600" /\ stack' = Front(stack)
       ELSE /\ stack' = Push(Front(stack), Last(stack).node, Last(stack).depth)
            /\ UNCHANGED <<phase, code>>
    /\ UNCHANGED <<parent, members, batch, read, returned>>

Measured ==
    /\ phase = "measuring"
    /\ stack = <<>>
    /\ phase' = "measured"
    /\ UNCHANGED <<parent, members, batch, stack, visited, read, code, returned>>

-----------------------------------------------------------------------------
(* _parse_single() of a member: an error code, "skip" where it returns None,    *)
(* or "call" where it returns something to inspect.                             *)

Single(m) ==
    CASE m \in {"wrong_version", "no_method"} -> "-32600"
      [] m \in {"response", "other_method"} -> "skip"   \* a result or an error; ping
      [] m \in {"bad_params", "bad_name", "bad_arguments"} -> "-32602"
      [] m \in {"tools_list", "tools_call"} -> "call"

\* A message that is neither an array nor an object, and an empty batch.
NoMessage == members = <<>> \/ (~batch /\ members[1] = "no_object")

ParseNothing ==
    /\ phase = "measured"
    /\ NoMessage
    /\ phase' = "done"
    /\ code' = "-32600"
    /\ UNCHANGED <<parent, members, batch, stack, visited, read, returned>>

\* Mutant: a member that is no object ends the loop.
LeftOfObjects == read < Len(members) /\ (read = 0 \/ members[read] # "no_object")

Left == read < Len(members)

\* What a member comes to. Members of a batch that are no objects are passed
\* over, as are those with nothing to inspect.
Outcome(m) == IF m = "no_object" THEN "skip" ELSE Single(m)

\* parse_message() after the depth check, a member at a time. The first error
\* ends it.
ParseMember ==
    /\ phase = "measured"
    /\ ~NoMessage
    /\ Left
    /\ read' = read + 1
    /\ LET outcome == Outcome(members[read + 1])
       IN \/ /\ outcome = "skip"
             /\ UNCHANGED <<phase, code, returned>>
          \/ /\ outcome = "call"
             /\ returned' = Append(returned, read + 1)
             /\ UNCHANGED <<phase, code>>
          \/ /\ outcome \in {"-32600", "-32602"}
             /\ code' = outcome
             /\ phase' = "done"
             /\ UNCHANGED returned
    /\ UNCHANGED <<parent, members, batch, stack, visited>>

Return ==
    /\ phase = "measured"
    /\ ~NoMessage
    /\ ~Left
    /\ phase' = "done"
    /\ UNCHANGED <<parent, members, batch, stack, visited, read, code, returned>>

Init ==
    /\ parent = <<0>> /\ members = <<>> /\ batch = FALSE
    /\ stack = <<>> /\ visited = <<>>
    /\ phase = "idle" /\ read = 0 /\ code = "" /\ returned = <<>>

Next == Receive \/ Measure \/ Measured \/ ParseNothing \/ ParseMember \/ Return

Spec == Init /\ [][Next]_vars

-----------------------------------------------------------------------------
(* Correctness.                                                                 *)

\* The depth of a container: how many containers it is in, itself included.
Depth(c) == LET d[i \in DOMAIN parent] == IF i = 1 THEN 1 ELSE d[parent[i]] + 1 IN d[c]

Malformed == {"wrong_version", "no_method", "bad_params", "bad_name", "bad_arguments"}
WellFormed ==
    /\ members # <<>>
    /\ ToSet(members) \cap Malformed = {}
    /\ batch \/ members[1] # "no_object"

\* The walk with a stack agrees with the recursive definition of depth: no
\* message with a container deeper than max_depth is accepted, and a well-formed
\* message is refused for nothing else.
DepthIsExact ==
    phase = "done" =>
       /\ code = "" => \A c \in DOMAIN parent : Depth(c) <= MaxDepth
       /\ WellFormed /\ (\A c \in DOMAIN parent : Depth(c) <= MaxDepth) => code = ""

\* The walk ends: each container goes on the stack once, and what is on the
\* stack is outside what was already visited.
EachContainerOnce ==
    LET nodes == [i \in DOMAIN stack |-> stack[i].node]
    IN /\ IsInjective(visited \o nodes)
       /\ phase = "measured" => Len(visited) = Len(parent)

\* A batch is accepted or refused as a whole: when parse_message() returns,
\* every tool call of the message is among what it returns, once and in order,
\* and no member of the message is malformed.
NoCallIsLost ==
    phase = "done" /\ code = "" =>
       /\ {i \in DOMAIN members : members[i] = "tools_call"} \subseteq ToSet(returned)
       /\ \A i, j \in DOMAIN returned : i < j => returned[i] < returned[j]
       /\ ToSet(members) \cap Malformed = {}
=============================================================================
