-------------------------- MODULE MCTenPointDefense --------------------------
(* A small instance of the ten-point defense for TLC. *)
EXTENDS TenPointDefense

MCDomainOf(a) == "corp.com"

Base == [server |-> "s1", shape |-> "map", to |-> {}, emails |-> {}, tokens |-> {}, threat |-> FALSE]
MCCall == {[Base EXCEPT !.to = {"ann"}, !.emails = {"ann"}],
           [Base EXCEPT !.to = {"ann"}, !.emails = {"ann", "bob"}, !.threat = TRUE],
           [Base EXCEPT !.tokens = {"key"}],
           [Base EXCEPT !.shape = "text"]}
MCPayload == {{"ann"}, {"ann", "bob"}}
MCConnection == {[addr |-> "h1", port |-> 25, local |-> FALSE]}
=============================================================================
