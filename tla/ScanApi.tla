------------------------------- MODULE ScanApi -------------------------------
(****************************************************************************)
(* The scan service of the realtime server: the defense it builds at import, *)
(* with its rules, and POST /api/scan, which admits a caller by key and by a *)
(* sliding window per peer, has the five layers judge the call, and records  *)
(* the verdict in the statistics that the dashboards show.                   *)
(****************************************************************************)
EXTENDS FiveLayerDefense

CONSTANTS Peer,         \* transport peers that hold the key
          RateLimit,    \* requests a peer may make in RateWindow
          EpsWindow,    \* ticks an event counts for the event rate
          RecentCap     \* verdicts kept for the dashboards

VARIABLES windows,  \* _realtime_rate_windows
          admitted, \* ghost: the times at which a peer's requests were let in
          stats,    \* the stats dictionary, with recent_threats and _event_window
          attack,   \* the attack the simulator executes, with its result so far
          results   \* AttackSimulator._results
scanVars == <<windows, admitted, stats, attack, results>>
apiVars == <<fiveVars, scanVars>>

----------------------------------------------------------------------------
(* _build_defense: the proxy rules, by name of their condition. *)

Rule(cond, tools, priority, readsFields) ==
   [cond |-> cond, tools |-> tools, priority |-> priority, readsFields |-> readsFields,
    action |-> "block"]

Ssrf                 == Rule("ssrf", AnyTool, 90, TRUE)
PathTraversal        == Rule("path_traversal", AnyTool, 88, FALSE)
CommandInjection     == Rule("command_injection", AnyTool, 89, FALSE)
CredentialExfil      == Rule("credential_exfil", {"email", "webhook", "http", "api"}, 92, FALSE)
Deserialization      == Rule("deserialization", AnyTool, 87, TRUE)
EnvCredentialHarvest == Rule("env_harvest", {"shell", "exec", "system", "cmd"}, 91, TRUE)
LargePayload         == Rule("large_payload", {"webhook", "http", "api"}, 70, FALSE)
PromptInjection      == Rule("prompt_injection", AnyTool, 93, FALSE)
RogueServer          == Rule("rogue", AnyTool, 95, FALSE)
AttackerDomain       == Rule("attacker_domain", {"email", "smtp", "sendgrid", "postmark"}, 85, FALSE)
PiiQuery             == Rule("pii_query", {"db", "database", "sql"}, 80, TRUE)
PrivilegeEscalation  == Rule("privilege_escalation", AnyTool, 94, TRUE)
SupplyChain          == Rule("supply_chain", {"pip", "npm", "yarn", "package"}, 82, TRUE)
DnsTunneling         == Rule("dns_tunneling", {"dns", "resolve"}, 78, TRUE)

RealtimeRules ==
   FoldLeft(Insert, <<>>, <<Ssrf, PathTraversal, CommandInjection, CredentialExfil,
      Deserialization, EnvCredentialHarvest, LargePayload, PromptInjection, RogueServer,
      AttackerDomain, PiiQuery, PrivilegeEscalation, SupplyChain, DnsTunneling>>)

KernelPolicy(server) ==
   [server |-> server, destinations |-> {"api.postmarkapp.com", "smtp.postmarkapp.com"},
    ports |-> {443, 80}, paths |-> {}, blocked |-> {}, maxConnections |-> 100,
    spawn |-> FALSE, dns |-> TRUE]

DefaultServers ==
   [servers |-> {}, ports |-> {443, 80}, maxBytes |-> 50000,
    domains |-> {"api.postmarkapp.com", "smtp.postmarkapp.com", "api.sendgrid.com",
                 "api.openai.com"},
    blocked |-> {"giftshop.club", "evil.com", "attacker-domain.tk", "169.254.169.254"}]

RealtimeDeployment(servers) ==
   [rules |-> RealtimeRules, known |-> servers, allowed |-> {}, inspector |-> FALSE,
    shadowMode |-> FALSE, deny |-> TRUE, egress |-> <<DefaultServers>>,
    policies |-> {KernelPolicy(s) : s \in servers}, served |-> TRUE]

\* The rules that a served defense has before its rogue-server rule block, and
\* an operator adds none that lets calls pass before it.
ASSUME RogueServerAssumption ==
   /\ \A d \in Deployment : d.served =>
        \E m \in DOMAIN d.rules : /\ d.rules[m] = RogueServer
                                 /\ \A j \in 1..m : d.rules[j].action = "block"
   /\ \A r \in RuleChoice : r.action \in {"allow", "redact"} => r.priority < RogueServer.priority

ASSUME ServiceAssumption == RateLimit \in Nat /\ RecentCap \in Nat

----------------------------------------------------------------------------
(* The service. *)

Severity(risk) == IF risk >= 80 THEN "CRITICAL" ELSE IF risk >= 50 THEN "HIGH"
                  ELSE IF risk >= 25 THEN "MEDIUM" ELSE "LOW"

NoStats ==
   [total |-> 0, blocked |-> 0, allowed |-> 0, byLayer |-> [l \in 1..5 |-> 0],
    bySeverity |-> [s \in {"CRITICAL", "HIGH", "MEDIUM", "LOW"} |-> 0],
    recent |-> <<>>, window |-> <<>>]

\* _event_window, without the times that no longer count for the event rate.
StillCounted(times) == At(times, {i \in DOMAIN times : now - times[i] <= EpsWindow})

\* Mutant: the newest verdict goes to the end of the recent list.
RecordEvent_Last(v) ==
   stats' = [stats EXCEPT !.total = @ + 1,
      !.blocked = IF v.allowed THEN @ ELSE @ + 1,
      !.allowed = IF v.allowed THEN @ + 1 ELSE @,
      !.byLayer = [l \in DOMAIN @ |-> IF l = v.layer THEN @[l] + 1 ELSE @[l]],
      !.bySeverity[Severity(v.risk)] = @ + 1,
      !.recent = SubSeq(Append(@, v), 1, Min({RecentCap, Len(@) + 1}))]

RecordEvent(v) ==
   stats' = [stats EXCEPT
      !.total = @ + 1,
      !.blocked = IF v.allowed THEN @ ELSE @ + 1,
      !.allowed = IF v.allowed THEN @ + 1 ELSE @,
      !.byLayer = [l \in DOMAIN @ |-> IF l = v.layer THEN @[l] + 1 ELSE @[l]],
      !.bySeverity[Severity(v.risk)] = @ + 1,
      !.window = StillCounted(Append(@, now)),
      !.recent = SubSeq(<<v>> \o @, 1, Min({RecentCap, Len(@) + 1}))]

\* Mutant: the window is one tick short.
Live_Short(p) == At(windows[p], {i \in DOMAIN windows[p] : windows[p][i] > now - RateWindow + 1})

Live(p) == At(windows[p], {i \in DOMAIN windows[p] : windows[p][i] > now - RateWindow})

\* _consume_realtime_rate: a refused request is not remembered.
Admit(p) ==
   /\ Len(Live(p)) < RateLimit
   /\ windows' = [windows EXCEPT ![p] = Append(Live(p), now)]
   /\ admitted' = [admitted EXCEPT ![p] = Append(@, now)]

Refuse(p) ==
   /\ deployment.served
   /\ Len(Live(p)) >= RateLimit
   /\ windows' = [windows EXCEPT ![p] = Live(p)]
   /\ UNCHANGED <<fiveVars, admitted, stats, attack, results>>

Scan(p, c) ==
   /\ deployment.served
   /\ Admit(p)
   /\ EvaluateCall(c)
   /\ IF verdicts' = verdicts THEN UNCHANGED stats ELSE RecordEvent(Last(verdicts'))
   /\ UNCHANGED <<kernel, attack, results>>

\* The terminal dashboard's red-team simulator: an attack is a call, system-call
\* events, or a call and then events; an alert makes it blocked, by layer 3 when
\* its call was not stopped.  Nothing is recorded of an attack that raises.
NoAttack == [running |-> FALSE, called |-> FALSE, server |-> "unknown",
             blocked |-> FALSE, layer |-> 0]

Outcome == [called |-> attack.called, blocked |-> attack.blocked, layer |-> attack.layer]

Attributed(e) == [e EXCEPT !.server = attack.server]

AttackCall(c) ==
   /\ ~deployment.served
   /\ ~attack.running
   /\ EvaluateCall(c)
   /\ attack' = IF verdicts' = verdicts THEN attack
                ELSE [running |-> TRUE, called |-> TRUE,
                      server |-> IF c.server = NoServer THEN "unknown" ELSE c.server,
                      blocked |-> ~Last(verdicts').allowed, layer |-> Last(verdicts').layer]
   /\ UNCHANGED <<kernel, windows, admitted, stats, results>>

\* Mutant: an alert overrides the layer that stopped the call.
AttackEvent_AlertWins(e) ==
   /\ ~deployment.served
   /\ EvaluateKernelEvent(Attributed(e))
   /\ LET alerted == Last(kernel'.alerts).types # {}
      IN attack' = [running |-> TRUE, called |-> attack.called, server |-> attack.server,
                    blocked |-> attack.blocked \/ alerted,
                    layer |-> IF alerted THEN 3 ELSE attack.layer]
   /\ UNCHANGED <<windows, admitted, stats, results>>

\* An event of the attack; one without a call begins with its first event.
AttackEvent(e) ==
   /\ ~deployment.served
   /\ EvaluateKernelEvent(Attributed(e))
   /\ LET alerted == Last(kernel'.alerts).types # {}
      IN attack' = [running |-> TRUE, called |-> attack.called, server |-> attack.server,
                    blocked |-> attack.blocked \/ alerted,
                    layer |-> IF attack.layer = 0 /\ alerted THEN 3 ELSE attack.layer]
   /\ UNCHANGED <<windows, admitted, stats, results>>

EndAttack ==
   /\ attack.running
   /\ results' = Append(results, Outcome)
   /\ attack' = NoAttack
   /\ UNCHANGED <<fiveVars, windows, admitted, stats>>

SimulationReport ==
   [total |-> Len(results), blocked |-> Count(results, LAMBDA r : r.blocked),
    byLayer |-> [l \in 1..5 |-> Count(results, LAMBDA r : r.layer = l)]]

Reconfigure ==
   \/ \E r \in RuleChoice : AddRule(r)
   \/ \E i \in DOMAIN quarantined : ReleaseQuarantined(i)
   \/ \E s \in {c.server : c \in Call} \ {NoServer} :
        RegisterServer(s) \/ \E caps \in Capability : RegisterCapabilities(s, caps)

Observe ==
   \/ \E e \in Event : EvaluateKernelEvent(e)
   \/ \E c \in Call : ~deployment.served /\ InterceptOutput(c)

\* What else happens to a defense; one that is called directly has one caller,
\* who does nothing else during an attack.
Operate ==
   /\ \/ ~attack.running /\ (Reconfigure \/ Observe)
      \/ Tick
   /\ UNCHANGED scanVars

ScanInit ==
   /\ LayersInit
   /\ windows = [p \in Peer |-> <<>>]
   /\ admitted = [p \in Peer |-> <<>>]
   /\ stats = NoStats
   /\ attack = NoAttack
   /\ results = <<>>

ScanNext ==
   \/ \E p \in Peer : Refuse(p) \/ \E c \in Call : Scan(p, c)
   \/ \E c \in Call : AttackCall(c)
   \/ \E e \in Event : AttackEvent(e)
   \/ EndAttack
   \/ Operate

ScanSpec == ScanInit /\ [][ScanNext]_apiVars

----------------------------------------------------------------------------
(* Properties. *)

\* The statistics are those of the verdicts given, whatever scans failed in
\* between: the dashboards' totals add up and the recent list is the newest
\* verdicts, newest first (_record_event).
StatsFollowVerdicts ==
   deployment.served =>
      /\ stats.total = Len(verdicts)
      /\ stats.total = stats.allowed + stats.blocked
      /\ stats.blocked = stats.byLayer[1] + stats.byLayer[2] + stats.byLayer[3]
                         + stats.byLayer[4] + stats.byLayer[5]
      /\ \A s \in DOMAIN stats.bySeverity :
           stats.bySeverity[s] = Count(verdicts, LAMBDA v : Severity(v.risk) = s)
      /\ stats.recent = SubSeq(Reverse(verdicts), 1, Min({RecentCap, Len(verdicts)}))

\* No peer gets more than the limit in any window, wherever the window starts
\* (_consume_realtime_rate prunes and counts a sliding list).
RateHolds ==
   \A p \in Peer, t \in 0..now :
      Count(admitted[p], LAMBDA a : a >= t /\ a < t + RateWindow) <= RateLimit

\* A server registered after the defense was built passes layer 1 but not the
\* proxy: its rogue-server rule remembers the servers known at the start
\* (register_server, and the closure _is_rogue_server).
LateServersStayRogue ==
   deployment.served =>
      \A i \in DOMAIN verdicts :
         verdicts[i].call.server \notin deployment.known \union {NoServer}
         => verdicts[i].layer \in {1, 2}

\* Between two attacks the simulator's report and the defense's statistics count
\* the same calls.  They differ only in the attacks that made no call and have no
\* verdict, and in those an alert of the kernel monitor blocked: they are layer
\* 3's in the report and nobody's in the statistics (_execute_attack,
\* _build_report, get_layer_stats).
ReportFollowsDefense ==
   ~deployment.served /\ ~attack.running =>
      LET silent == Count(results, LAMBDA r : ~r.called)
          report == SimulationReport
      IN /\ report.total = LayerStats.total + silent
         /\ \A l \in {1, 2, 4, 5} : report.byLayer[l] = LayerStats.blocks[l]
         /\ report.total - report.blocked
              = LayerStats.allowed + silent - (report.byLayer[3] - LayerStats.blocks[3])

\* What is recorded in different places about the same calls agrees: the
\* layers' logs, the statistics, the dashboards' totals, the simulator's report.
RecordsAgree == LayersTypeOK /\ LogsAgree /\ StatsFollowVerdicts /\ ReportFollowsDefense

\* Decisions of different layers fit together: the proxy's thresholds with the
\* monitor's rule and the analyzer's severities, the egress policy's rules with
\* one another, the registry with the proxy's rogue-server rule.
DecisionsFit ==
   AllowedIsNeverCritical /\ ProxyFollowsMonitor /\ EgressNeedsRule /\ LateServersStayRogue

\* The two sliding windows, of the kernel's connections and of the peers'
\* requests, forget nothing that still counts and keep nothing that does not.
RatesAreExact == RateAlertIsExact /\ RateHolds

\* What is configured outlives traffic: the rules keep their order, and no call
\* changes the trust that registration gave but downwards.
ConfigurationIsKept == RulesKeepTheirOrder /\ TrafficEarnsNoTrust
=============================================================================
