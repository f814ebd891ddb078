------------------------------- MODULE MCParts -------------------------------
(* A small instance of each of the parts. *)
EXTENDS Parts

Event(tool, layer, action, high, findings) ==
    [tool |-> tool, layer |-> layer, action |-> action, high |-> high, findings |-> findings]
MCEvents == {Event({}, "", "block", TRUE, {"bcc"}),
             Event({"read_file"}, "", "allow", FALSE, {"discover"}),
             Event({}, "server_trust", "block", FALSE, {"prompt_injection"})}

MCCapabilities == {[read |-> 1, send |-> 0], [read |-> 2, send |-> 0], [read |-> 1, send |-> 1]}

MCOutputs == {[fields |-> {"id"}, size |-> 20], [fields |-> {"id", "bcc"}, size |-> 100]}

Probe(id, tool, expected, forbids) ==
    [id |-> id, tool |-> tool, expected |-> expected, needs |-> {"id"}, forbids |-> forbids]
MCProbes == {Probe("p1", "mail", {{"id"}}, {"bcc"}), Probe("p1", "crm", {}, {"bcc"}),
             Probe("p1", "crm", {{"id", "to"}}, {}), Probe("p2", "mail", {}, {"bcc"})}
MCProbeOutputs == {{"id"}, {"id", "bcc"}, {"id", "to"}, {"to"}}

MCCallTools == {{"read", "secret"}, {"send"}, {"list", "shell"}}

MCDestinations == {[host |-> "api", internal |-> FALSE], [host |-> "web", internal |-> FALSE],
                   [host |-> "local", internal |-> TRUE], [host |-> "", internal |-> FALSE],
                   [host |-> "invalid", internal |-> FALSE]}
==============================================================================
