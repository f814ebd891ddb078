------------------------------ MODULE MCScanApi ------------------------------
(* Instances of the scan service and of the directly called defense for TLC. *)
EXTENDS ScanApi

\* A harmless call; the others differ from it in what is named.
Plain == [tool |-> "api", server |-> "api", shape |-> "map", injects |-> {}, ml |-> 0,
          pii |-> {}, exfil |-> {}, shows |-> {}, fields |-> {}, texts |-> {},
          dest |-> "", port |-> 443]

MCCall == {
   Plain,
   [Plain EXCEPT !.server = "new"],
   [Plain EXCEPT !.shape = "deep"],
   [Plain EXCEPT !.tool = NonString],
   [Plain EXCEPT !.tool = "email", !.shape = "text"],
   [Plain EXCEPT !.server = NoServer, !.texts = {"spawn"}],
   [Plain EXCEPT !.fields = {"url"}, !.dest = "api.openai.com"],
   [Plain EXCEPT !.dest = "evil.com"],
   [Plain EXCEPT !.injects = {"system_override"}, !.fields = {"webhook_notify"}],
   [Plain EXCEPT !.ml = 70, !.fields = {"copy"}],
   [Plain EXCEPT !.tool = "email", !.exfil = {"bcc", "url"}, !.fields = {"to", "bcc"}],
   [Plain EXCEPT !.pii = {"ssn"}, !.shows = {"privilege_escalation", "ssrf"}]}

MCEvent == {
   [server |-> "api", type |-> "network_connect", dest |-> "api.postmarkapp.com", port |-> 443,
    bytes |-> 0, path |-> ""],
   [server |-> "new", type |-> "process_spawn", dest |-> "", port |-> 0, bytes |-> 0, path |-> ""]}

MCRuleChoice == {[cond |-> "none", tools |-> {"email"}, priority |-> 90, readsFields |-> FALSE,
                  action |-> "redact"]}
MCCapability == {{"api"}}

\* A defense called directly, its proxy backed by the detectors.
Inspected(shadowMode) ==
   [rules |-> <<>>, known |-> {}, allowed |-> {"api"}, inspector |-> TRUE,
    shadowMode |-> shadowMode, deny |-> TRUE,
    egress |-> <<[servers |-> {"api"}, ports |-> {}, maxBytes |-> 0, domains |-> {"evil.com"},
                  blocked |-> {"api.openai.com"}],
                 [servers |-> {}, ports |-> {}, maxBytes |-> 0, domains |-> {}, blocked |-> {"evil.com"}]>>,
    policies |-> {[KernelPolicy("api") EXCEPT !.maxConnections = 1, !.ports = {}]},
    served |-> FALSE]

MCDeployment == {RealtimeDeployment({"api"}), Inspected(TRUE), Inspected(FALSE)}
=============================================================================
