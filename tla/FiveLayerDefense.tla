--------------------------- MODULE FiveLayerDefense ---------------------------
(****************************************************************************)
(* The five layers a tool call passes: server registry, inline proxy (rules  *)
(* first, then the detectors of an optional inspector), process-spawn check, *)
(* semantic analyzer and network egress policy; and the kernel monitor,      *)
(* which judges system-call events rather than calls.  Each layer keeps its  *)
(* own log; a call that makes a layer raise leaves the logs of the layers    *)
(* before it as they are and gets no verdict.                                *)
(****************************************************************************)
EXTENDS Detectors, Sequences, SequencesExt

CONSTANTS Call,          \* the tool calls submitted
          Event,         \* the system-call events reported
          RuleChoice,    \* the proxy rules an operator may add while running
          Capability,    \* the capability sets servers register with
          Deployment,    \* the ways the layers are put together
          BlockAt, QuarantineAt,   \* the proxy's two thresholds
          Sensitivity,   \* percent of confidence a semantic finding needs
          RateWindow,    \* ticks for which a connection counts
          MaxOps, MaxNow           \* bounds of the model

\* Detectors score what they find in finite sets, and percents are percents.
ASSUME CallAssumption ==
   \A c \in Call : /\ IsFiniteSet(c.injects) /\ IsFiniteSet(c.pii) /\ IsFiniteSet(c.exfil)
                  /\ c.ml \in 0..100

\* The threshold of the quarantine, 30 by default, is at most what the least
\* finding that makes the monitor block scores.
ASSUME ThresholdAssumption == BlockAt \in Nat /\ QuarantineAt \in 0..45

ASSUME WindowAssumption == RateWindow \in Nat

RuleAction == {"allow", "block", "quarantine", "redact"}

ASSUME RuleAssumption ==
   \A r \in RuleChoice : r.priority \in Int /\ r.action \in RuleAction

\* A defense is put together with rules that add_rule has sorted.
ASSUME DeploymentAssumption ==
   \A d \in Deployment :
      /\ d.egress \in Seq(Range(d.egress))
      /\ d.rules \in Seq(Range(d.rules))
      /\ \A i \in DOMAIN d.rules : d.rules[i].priority \in Int /\ d.rules[i].action \in RuleAction
      /\ \A i, j \in DOMAIN d.rules : i < j => d.rules[i].priority >= d.rules[j].priority

VARIABLES deployment,  \* rules, known servers, egress rules, inspector, shadow mode
          known,       \* FiveLayerDefense.known_servers
          rules,       \* InlineProxyGateway._rules, highest priority first
          detectors,   \* the state of the inspector's shadow-server detector
          decisions,   \* InlineProxyGateway._decisions
          tally,       \* its blocked and allowed counters
          quarantined, \* InlineProxyGateway._quarantined
          egressLog,   \* NetworkEgressPolicy._decisions
          verdicts,    \* FiveLayerDefense._verdicts
          raised,      \* calls that got no verdict, by where they raised
          kernel,      \* events, alerts and recent connections, by server
          now
fiveVars == <<deployment, known, rules, detectors, decisions, tally, quarantined,
              egressLog, verdicts, raised, kernel, now>>
proxyVars == <<decisions, tally, quarantined, detectors>>

\* The entries of a sequence at some of its positions, in their order.
At(s, positions) ==
   LET place(i) == Cardinality({j \in positions : j <= i})
   IN [n \in 1..Cardinality(positions) |-> s[CHOOSE i \in positions : place(i) = n]]

\* The number of entries of a log that pass a test.
Count(log, Test(_)) == Cardinality({i \in DOMAIN log : Test(log[i])})

----------------------------------------------------------------------------
(* Layer 2: the inline proxy. *)

\* Mutant: the newest of several rules of one priority comes first.
Insert_Newest(rs, r) ==
   At(rs, {i \in DOMAIN rs : rs[i].priority > r.priority}) \o <<r>>
      \o At(rs, {i \in DOMAIN rs : rs[i].priority <= r.priority})

\* A stable sort by falling priority after an append.
Insert(rs, r) ==
   At(rs, {i \in DOMAIN rs : rs[i].priority >= r.priority}) \o <<r>>
      \o At(rs, {i \in DOMAIN rs : rs[i].priority < r.priority})

AnyTool == {}    \* the pattern ".*"

MatchesTool(r, c) == r.tools = AnyTool \/ c.tool \in r.tools

\* Mutant: the rogue-server rule asks the live registry.
Holds_Live(r, c) ==
   CASE r.cond = "none"  -> TRUE
     [] r.cond = "rogue" -> c.server # NoServer /\ c.server \notin known
     [] OTHER            -> r.cond \in c.shows

Holds(r, c) ==
   CASE r.cond = "none"  -> TRUE
     [] r.cond = "rogue" -> c.server # NoServer /\ c.server \notin deployment.known
     [] OTHER            -> r.cond \in c.shows

\* A condition that reads a field of the arguments raises when they are not a
\* dict, unless their texts alone already made it true; one that collects their
\* texts raises when they are nested too deep; and redacting takes a dict.
FieldsOnly == {"ssrf", "env_harvest", "pii_query", "supply_chain", "dns_tunneling"}

CollectsTexts(r) == r.cond \notin FieldsOnly \union {"none", "rogue"}

RuleRaises(r, c) ==
   \/ c.tool = NonString
   \/ /\ MatchesTool(r, c)
      /\ \/ c.shape = "text" /\ r.readsFields /\ ~Holds(r, c)
         \/ c.shape = "text" /\ r.action = "redact" /\ Holds(r, c)
         \/ c.shape = "deep" /\ CollectsTexts(r)

Stops(r, c) == RuleRaises(r, c) \/ (MatchesTool(r, c) /\ Holds(r, c))
FirstStop(c) == {i \in DOMAIN rules : Stops(rules[i], c)
                                      /\ \A j \in 1..(i - 1) : ~Stops(rules[j], c)}

ActionFor(risk) ==
   IF risk >= BlockAt THEN "block"
   ELSE IF risk >= QuarantineAt THEN "quarantine" ELSE "allow"

ProxyRaises(c) == \E i \in FirstStop(c) : RuleRaises(rules[i], c)

Inspects(c) == FirstStop(c) = {} /\ deployment.inspector

Report(ml, c) == InspectCall(detectors, ml, c, deployment.shadowMode)

Decision(ml, c) ==
   IF FirstStop(c) # {}
   THEN [call |-> c, action |-> rules[CHOOSE i \in FirstStop(c) : TRUE].action, risk |-> 0,
         by |-> "rule", report |-> <<>>]
   ELSE IF Inspects(c)
   THEN [call |-> c, action |-> ActionFor(Report(ml, c).risk), risk |-> Report(ml, c).risk,
         by |-> "inspector", report |-> Report(ml, c)]
   ELSE [call |-> c, action |-> ActionFor(0), risk |-> 0, by |-> "default", report |-> <<>>]

\* Mutant: a quarantined call leaves no decision.
Record_QuarantineOnly(d) ==
   /\ decisions' = IF d.action = "quarantine" THEN decisions ELSE Append(decisions, d)
   /\ tally' = IF d.action \in DOMAIN tally THEN [tally EXCEPT ![d.action] = @ + 1] ELSE tally
   /\ quarantined' = IF d.action = "quarantine" THEN Append(quarantined, d.call)
                     ELSE quarantined

Record(d) ==
   /\ decisions' = Append(decisions, d)
   /\ tally' = IF d.action \in DOMAIN tally THEN [tally EXCEPT ![d.action] = @ + 1] ELSE tally
   /\ quarantined' = IF d.action = "quarantine" THEN Append(quarantined, d.call)
                     ELSE quarantined

MLChoices(c) == IF Inspects(c) THEN MLOutcome(detectors.ml, c) ELSE {detectors.ml}

\* The proxy's whole handling of a call: decide, count, and let the inspector
\* count the call and load its classifier.
Intercept(c, ml) ==
   /\ detectors' = IF Inspects(c) THEN [CountCall(detectors, c) EXCEPT !.ml = ml] ELSE detectors
   /\ Record(Decision(ml, c))

----------------------------------------------------------------------------
(* Layer 4: what the semantic analyzer finds, as confidence and severity. *)

FieldSeverity ==
   [extra_recipients |-> 90, additional_destinations |-> 85, mirror_addresses |-> 90,
    webhook_notify |-> 60, callback_url |-> 50, notification_endpoint |-> 55, audit_copy |-> 70]

\* A key is compared as a substring both ways, so a short key finds a long field.
FieldOf(key) == CASE key = "url" -> {"callback_url"}
                  [] key = "copy" -> {"audit_copy"}
                  [] OTHER -> {key} \intersect DOMAIN FieldSeverity

Synonyms == {"bcc", "forward_to", "auto_forward", "mirror_to", "redirect_to"}
EmailField == {"to", "subject", "body", "from", "message"}
SecondRecipient == {"copy", "audit_copy", "extra_recipients", "mirror_addresses", "forward_to",
                    "auto_forward", "mirror_to", "redirect_to"}

Finding(confidence, severity) == [confidence |-> confidence, severity |-> severity]

SemanticFindings(c) ==
   {f \in
      {Finding(95, 95) : k \in c.fields \intersect Synonyms}
      \union {Finding(80, 80) : t \in c.texts \intersect {"exfil_intent"}}
      \union {Finding(75, FieldSeverity[k]) : k \in UNION {FieldOf(key) : key \in c.fields}}
      \union {Finding(90, 90) : t \in c.texts \intersect {"encoded_email"}}
      \union {Finding(85, 85) : k \in IF c.fields \intersect EmailField = {} THEN {}
                                      ELSE c.fields \intersect SecondRecipient} :
      f.confidence >= Sensitivity}

SemanticRisk(c) == Max({0} \union {f.severity : f \in SemanticFindings(c)})

\* Mutant: one threshold too high.
Dangerous_High(c) == \E f \in SemanticFindings(c) : f.severity > 95

Dangerous(c) == \E f \in SemanticFindings(c) : f.severity >= 70

----------------------------------------------------------------------------
(* Layer 5: the first rule for the server that blocks or allows decides. *)

\* Mutant: the block list is not consulted.
EgressBlocks_SizeOnly(r, dest, bytes) == r.maxBytes > 0 /\ bytes > r.maxBytes

EgressBlocks(r, dest, bytes) ==
   dest \in r.blocked \/ (r.maxBytes > 0 /\ bytes > r.maxBytes)

EgressAllows(r, dest, port) ==
   /\ dest \in r.domains \/ r.domains = {}
   /\ port \in r.ports \/ r.ports = {}

EgressDecides(r, server, dest, port) ==
   /\ server \in r.servers \/ r.servers = {}
   /\ EgressBlocks(r, dest, 0) \/ EgressAllows(r, dest, port)

EgressAllowed(c) ==
   LET rs == deployment.egress
       deciding == {i \in DOMAIN rs : EgressDecides(rs[i], c.server, c.dest, c.port)}
   IN IF deciding = {} THEN ~deployment.deny
      ELSE ~EgressBlocks(rs[Min(deciding)], c.dest, 0)

HasDest(c) == c.dest # ""

----------------------------------------------------------------------------
(* evaluate_call, one action for each way it can end. *)

LayersInit ==
   /\ deployment \in Deployment
   /\ known = deployment.known
   /\ rules = deployment.rules
   /\ detectors = Shadow0(deployment.allowed)
   /\ decisions = <<>>
   /\ tally = [block |-> 0, allow |-> 0]
   /\ quarantined = <<>>
   /\ egressLog = <<>>
   /\ verdicts = <<>>
   /\ raised = [proxy |-> 0, later |-> 0]
   /\ kernel = [events |-> <<>>, alerts |-> <<>>,
                connections |-> [s \in {p.server : p \in deployment.policies} |-> <<>>]]
   /\ now = 0

Verdict(c, layer, risk) ==
   verdicts' = Append(verdicts,
      [call |-> c, allowed |-> layer = 0, layer |-> layer, risk |-> risk])

KnownServer(c) == known = {} \/ c.server = NoServer \/ c.server \in known

\* The layer after the proxy that stops the call, 0 when none does.  The
\* arguments are those the caller sent, redacted or not.
StoppingLayer(c) ==
   IF "spawn" \in c.texts THEN 3
   ELSE IF Dangerous(c) THEN 4
   ELSE IF HasDest(c) /\ ~EgressAllowed(c) THEN 5 ELSE 0

LayerRisk(c, layer) ==
   CASE layer = 3 -> 85
     [] layer = 5 -> Max({SemanticRisk(c), 90})
     [] OTHER     -> SemanticRisk(c)

\* The analyzer collects the texts; the last layer reads fields.
LaterRaises(c) ==
   \/ c.shape = "deep" /\ StoppingLayer(c) # 3
   \/ c.shape = "text" /\ StoppingLayer(c) \notin {3, 4}

LaterLayers(c, risk) ==
   IF LaterRaises(c)
   THEN raised' = [raised EXCEPT !.later = @ + 1] /\ UNCHANGED <<verdicts, egressLog>>
   ELSE /\ Verdict(c, StoppingLayer(c), Max({risk, LayerRisk(c, StoppingLayer(c))}))
        /\ egressLog' = IF HasDest(c) /\ StoppingLayer(c) \in {0, 5}
                        THEN Append(egressLog, [call |-> c, allowed |-> EgressAllowed(c)])
                        ELSE egressLog
        /\ UNCHANGED raised

StopUnknownServer(c) ==
   /\ ~KnownServer(c)
   /\ Verdict(c, 1, 95)
   /\ UNCHANGED <<decisions, tally, quarantined, detectors, egressLog, raised>>

RaiseInProxy(c) ==
   /\ KnownServer(c)
   /\ ProxyRaises(c)
   /\ raised' = [raised EXCEPT !.proxy = @ + 1]
   /\ UNCHANGED <<decisions, tally, quarantined, detectors, egressLog, verdicts>>

StopInProxy(c) ==
   /\ KnownServer(c)
   /\ ~ProxyRaises(c)
   /\ \E ml \in MLChoices(c) :
        /\ Intercept(c, ml)
        /\ Decision(ml, c).action \notin {"allow", "redact"}
        /\ Verdict(c, 2, Decision(ml, c).risk)
   /\ UNCHANGED <<egressLog, raised>>

PassProxy(c) ==
   /\ KnownServer(c)
   /\ ~ProxyRaises(c)
   /\ \E ml \in MLChoices(c) :
        /\ Intercept(c, ml)
        /\ Decision(ml, c).action \in {"allow", "redact"}
        /\ LaterLayers(c, Decision(ml, c).risk)

\* Calls, outputs, events and rules so far, which MaxOps bounds.
Used == Len(verdicts) + raised.proxy + raised.later + Len(kernel.events)
        + Count(decisions, LAMBDA d : d.by = "output")
        + Len(rules) - Len(deployment.rules)

EvaluateCall(c) ==
   /\ Used < MaxOps
   /\ \/ StopUnknownServer(c)
      \/ RaiseInProxy(c)
      \/ StopInProxy(c)
      \/ PassProxy(c)
   /\ UNCHANGED <<deployment, known, rules, now>>

----------------------------------------------------------------------------
(* The other operations of the layers. *)

\* A tool's output goes through the proxy's thresholds only.
InterceptOutput(c) ==
   /\ Used < MaxOps
   /\ LET report == InspectOutput(c, deployment.shadowMode)
          risk == IF deployment.inspector THEN report.risk ELSE 0
      IN Record([call |-> c, action |-> ActionFor(risk), risk |-> risk, by |-> "output",
                 report |-> IF deployment.inspector THEN report ELSE <<>>])
   /\ UNCHANGED <<deployment, known, rules, detectors, egressLog, verdicts, raised, kernel, now>>

AddRule(r) ==
   /\ Used < MaxOps
   /\ rules' = Insert(rules, r)
   /\ UNCHANGED <<deployment, known, decisions, tally, quarantined, detectors, egressLog,
                  verdicts, raised, kernel, now>>

ReleaseQuarantined(i) ==
   /\ quarantined' = RemoveAt(quarantined, i)
   /\ UNCHANGED <<deployment, known, rules, detectors, decisions, tally, egressLog, verdicts,
                  raised, kernel, now>>

RegisterServer(s) ==
   /\ known' = known \union {s}
   /\ UNCHANGED <<deployment, rules, proxyVars, egressLog, verdicts, raised, kernel, now>>

RegisterCapabilities(s, caps) ==
   /\ deployment.inspector
   /\ detectors' = Register(detectors, s, caps)
   /\ UNCHANGED <<deployment, known, rules, decisions, tally, quarantined, egressLog, verdicts,
                  raised, kernel, now>>

----------------------------------------------------------------------------
(* Layer 3's monitor of system-call events. *)

PolicyOf(s) == {p \in deployment.policies : p.server = s}

MailPort == {25, 465, 587, 2525}

NetworkAlerts(e, p) ==
   IF e.dest \in p.blocked THEN {"blocked_destination"}
   ELSE When(p.destinations # {} /\ e.dest \notin p.destinations, "unknown_destination")
        \union When(p.ports # {} /\ e.port \notin p.ports, "unauthorized_port")
        \union When(e.port \in MailPort /\ e.port \notin p.ports, "hidden_smtp")

Alerts(e, p, connections) ==
   CASE e.type = "network_connect" ->
          NetworkAlerts(e, p)
          \union When(Len(connections) > p.maxConnections, "rate_limit_exceeded")
     [] e.type = "dns_resolve" ->
          When(~p.dns, "unauthorized_dns") \union When(e.dest \in p.blocked, "blocked_dns")
     [] e.type = "file_open" ->
          When(p.paths # {} /\ e.path \notin p.paths, "unauthorized_file_access")
     [] e.type = "process_spawn" -> When(~p.spawn, "unauthorized_subprocess")
     [] e.type = "socket_send" ->
          When(e.bytes > 10240 /\ e.dest \notin p.destinations, "large_send_unknown_dest")
     [] OTHER -> {}

\* Mutant: a connection at the edge of the window is dropped.
Recent_Short(times) == At(times, {i \in DOMAIN times : now - times[i] < RateWindow})

Recent(times) == At(times, {i \in DOMAIN times : now - times[i] <= RateWindow})

EventAlerts(e, connections) ==
   IF PolicyOf(e.server) = {} THEN {"no_policy"}
   ELSE UNION {Alerts(e, p, connections) : p \in PolicyOf(e.server)}

\* A connection is remembered before the recent ones are counted.
Connections(e) ==
   IF e.type = "network_connect" /\ PolicyOf(e.server) # {}
   THEN Recent(Append(kernel.connections[e.server], now)) ELSE <<>>

ProcessEvent(e) ==
   kernel' = [kernel EXCEPT
      !.events = Append(@, [event |-> e, at |-> now]),
      !.alerts = Append(@, [server |-> e.server, types |-> EventAlerts(e, Connections(e))]),
      !.connections = [s \in DOMAIN @ |->
          IF s = e.server /\ e.type = "network_connect" THEN Connections(e) ELSE @[s]]]

EvaluateKernelEvent(e) ==
   /\ Used < MaxOps
   /\ ProcessEvent(e)
   /\ UNCHANGED <<deployment, known, rules, proxyVars, egressLog, verdicts, raised, now>>

Tick ==
   /\ now < MaxNow
   /\ now' = now + 1
   /\ UNCHANGED <<deployment, known, rules, proxyVars, egressLog, verdicts, raised, kernel>>

----------------------------------------------------------------------------
(* The statistics the layers report. *)

EgressStats == [total |-> Len(egressLog), denied |-> Count(egressLog, LAMBDA d : ~d.allowed)]

ProxyStats == [blocked |-> tally["block"], allowed |-> tally["allow"],
               quarantined |-> Len(quarantined)]

LayerStats ==
   [total |-> Len(verdicts), allowed |-> Count(verdicts, LAMBDA v : v.allowed),
    blocks |-> [l \in 1..5 |-> Count(verdicts, LAMBDA v : v.layer = l)]]

----------------------------------------------------------------------------
(* Properties. *)

\* The state has its shape (the attributes of InlineProxyGateway,
\* NetworkEgressPolicy, KernelMonitor and FiveLayerDefense).
LayersTypeOK ==
   /\ \A i \in DOMAIN decisions :
        decisions[i].call \in Call /\ decisions[i].action \in RuleAction
   /\ tally \in [{"block", "allow"} -> Nat]
   /\ detectors.ml \in {"unloaded", "ready", "off"}
   /\ \A i \in DOMAIN verdicts : verdicts[i].layer \in 0..5 /\ verdicts[i].risk \in 0..100
   /\ \A i \in DOMAIN quarantined : quarantined[i] \in Call
   /\ Len(kernel.alerts) = Len(kernel.events)

\* The logs the layers keep apart tell one story: the proxy decided on exactly
\* the calls the registry let through and it did not raise on, and the egress
\* policy on those of them that named a destination and got that far
\* (evaluate_call records a verdict only at its end).
LogsAgree ==
   /\ Count(decisions, LAMBDA d : d.by # "output")
        = raised.later + LayerStats.total - LayerStats.blocks[1]
   /\ Count(decisions, LAMBDA d : d.by # "output" /\ d.action \in {"block", "quarantine"})
        = LayerStats.blocks[2]
   /\ EgressStats.total = Count(verdicts, LAMBDA v : v.layer \in {0, 5} /\ HasDest(v.call))
   /\ EgressStats.denied = LayerStats.blocks[5]
   /\ Len(decisions) = ProxyStats.blocked + ProxyStats.allowed
                       + Count(decisions, LAMBDA d : d.action \in {"quarantine", "redact"})

\* A call that was let through is never shown as critical: what the proxy lets
\* pass and what the semantic analyzer does not stop stay below 80
\* (total_risk in evaluate_call, _severity_from_risk).
AllowedIsNeverCritical ==
   \A i \in DOMAIN verdicts : verdicts[i].allowed => verdicts[i].risk < 80

\* What the monitor would block with all its detectors working, the proxy does
\* not let pass, although it looks at the score alone: every finding that makes
\* inspect_call block scores at least the quarantine threshold.
ProxyFollowsMonitor ==
   \A i \in DOMAIN decisions :
      /\ decisions[i].by = "inspector"
      /\ decisions[i].report.failed = {}
      /\ ~decisions[i].report.allowed
      => decisions[i].action # "allow"

\* In enforcement mode a call on which a detector failed is blocked ("In
\* enforcement mode: INDETERMINATE => BLOCK").
IndeterminateIsBlocked ==
   \A i \in DOMAIN decisions :
      /\ decisions[i].by = "inspector"
      /\ decisions[i].report.failed # {}
      /\ ~deployment.shadowMode
      => decisions[i].action # "allow"

\* The rate alert is raised exactly when more connections than the policy
\* permits were reported in the window that ends with the event (the pruned
\* list of _connection_counts loses nothing that still counts).
RateAlertIsExact ==
   \A i \in DOMAIN kernel.events :
      LET e == kernel.events[i]
          near == {j \in 1..i : /\ kernel.events[j].event.server = e.event.server
                                /\ kernel.events[j].event.type = "network_connect"
                                /\ e.at - kernel.events[j].at <= RateWindow}
      IN "rate_limit_exceeded" \in kernel.alerts[i].types
            <=> /\ e.event.type = "network_connect"
                /\ \E p \in PolicyOf(e.event.server) : Cardinality(near) > p.maxConnections

\* A destination is reached only because a rule of the calling server lists it
\* and no earlier rule of that server blocks it (evaluate's first-match loop
\* under default deny).
EgressNeedsRule ==
   \A i \in DOMAIN egressLog : egressLog[i].allowed /\ deployment.deny =>
      LET c == egressLog[i].call
          rs == deployment.egress
          Mine(r) == c.server \in r.servers \/ r.servers = {}
      IN \E k \in DOMAIN rs : /\ Mine(rs[k]) /\ EgressAllows(rs[k], c.dest, c.port)
                              /\ \A j \in 1..k : Mine(rs[j]) => c.dest \notin rs[j].blocked

\* Rules stay ordered by priority and a rule added later never overtakes one
\* of the same priority (add_rule's stable sort).
RulesKeepTheirOrder ==
   [][\E m \in DOMAIN rules' :
         /\ RemoveAt(rules', m) = rules
         /\ \A k \in DOMAIN rules' : k < m => rules'[k].priority >= rules'[m].priority
         /\ \A k \in DOMAIN rules' : k > m => rules'[k].priority < rules'[m].priority]_rules

\* Traffic never earns trust: the trust of a server rises only when it is
\* registered with its capabilities (score_server_trust, register_server).
TrafficEarnsNoTrust ==
   [][\A s \in DOMAIN detectors.calls :
        Trust(detectors', s) > Trust(detectors, s)
        => Registered(detectors', s) /\ detectors'.calls[s] = 0]_detectors
=============================================================================
