# TLA+ models of the MCP agent security gateway

This directory holds TLA+ specifications of the stateful parts of
`src/src/mcp_monitor/`, TLC configurations that check them on small instances,
and TLAPS proofs of the properties that matter most for every value of the
constants.  Everything is translated from the Python source; where a doc string
or a document promises something the code does not do, section 6 says so, and
two such cases have runs of their own (`PROJECT.json`, "findings").

Contents

1. Inventory: the parts of the system
2. The modules and how they correspond to the code
3. The runs: what each shows, bounds
4. Fairness
5. What is proved
6. Findings, and divergences that have no run
7. What is only model-checked, what is not modelled
8. Plan

To run one: `tlc -config X.cfg M`; to check a proof module: `tlapm M.tla`.

---

## 1. Inventory

The program sits between an MCP client and the tools it calls.  It has three
front ends: an inline **stdio proxy**, an **HTTP gateway**, and a **realtime
server** with a dashboard.  Behind them are detectors that judge a call, logs
that record the verdict, and channels that ship the record elsewhere.

| Component | State it keeps | Operations | Talks to |
|---|---|---|---|
| Circuit breaker (`production/circuit_breaker.py`) | `_state`, `_failure_count`, `_last_failure_time`, under a lock | `call`, `state`, `reset`, `_on_success`, `_on_failure` | wraps the gateway's inspection functions |
| Write-ahead log (`audit/wal.py`) | a JSON-lines file; `_entries_written`, `_committed_count` in memory only | `write`, `checkpoint`, `recover`, `truncate`, constructor | written by the gateway before anything else |
| Audit log (`audit/log.py`) | a JSON-lines file, the list of entries, each with the hash of the one before | `append`, `_persist`, `_load`, `verify_chain` | written by `monitor.py` |
| Stdio proxy (`proxy/stdio_proxy.py`) | counters, token bucket, child process with three pipes | `run`, `handle_message`, `_inspect`, `send`, `receive`, `stop` | client on stdin/stdout, the server it launched |
| HTTP gateway (`production/server.py`, `shutdown.py`, `monitor.py`) | connection tasks, active requests, shutdown flag, metrics | one handler per route, start, signals, shutdown | breaker, WAL, audit log, bucket, telemetry, SIEM, alerts |
| Identity telemetry delivery (`production/identity_shipper.py`, `identity_transport.py`, the queue writer in `server.py`) | queue file, cursor file | append, `deliver_available`, `run_forever`, `_write_cursor`, `post_envelope` | a collector outside the repository |
| Realtime server (`server/realtime.py`) and simulator (`redteam/simulator.py`) | list of WebSocket connections, recent events, statistics, rate windows | WebSocket handler, `broadcast`, `api_scan`, the demo agent; attacks and a report | five-layer defense, dashboards |
| Token bucket (`production/rate_limiter.py`) | tokens, time of last refill | `allow`, `_refill`, `reset` | proxy, gateway |
| Metrics, alerting, tracing, configuration (`production/`) | counters and buckets; last alert time per key; finished spans; environment | observe and expose; `check_and_alert`; spans; parse and validate | gateway |
| Detector ensemble (`monitor.py`, `detectors/`) | none (registered servers in `shadow_server.py`) | `inspect_call`, `inspect_output` | audit log |
| Five-layer defense (`layers/`) | rules, quarantine, per-layer counters, egress allow list | `evaluate_call`, `intercept`, `process_event`, `evaluate` | realtime server, workload |
| Ten-point defense (`defense10/`) | sliding windows, intents, remembered calls | `inspect_call`, `inspect_egress`, `scan_network`, … | stand-alone |
| SIEM shipping (`siem/shipper.py`) | buffer, counters, rotating file | `ship`, `flush`, `_ship_batch` | files, Elasticsearch |
| SIEM correlation (`siem/correlation.py`) | recent events, alerts | `ingest`, `evaluate`, expiry | the gateway's events |
| Advanced detectors (`advanced/`) | baselines, manifests, call windows | record, verify, evaluate | stand-alone |
| Policy engine (`policy/`) | none | `evaluate` | a copy of its rules in Rego |
| JSON-RPC adapter (`protocol/jsonrpc.py`), client (`client.py`), Rust and C++ kernels | none | parse; `scan`, `guard`; `inspect_message` | proxy; gateway |
| Telemetry events, classifier, corpora, attack simulation, dashboards | none that a decision depends on | pure functions, training, rendering | |

### What is hard, and what makes each part correct

*Circuit breaker.*  The protected function runs outside the lock, so results
arrive in any order and after the circuit has changed.  The state and the
count must agree whatever that order; an open circuit admits nothing; a failed
probe reopens it; it is not open for ever.

*The two logs.*  An append can stop in the middle, and what it left becomes the
beginning of the next line.  The audit log adds the entry to memory before it
writes it.  The WAL's position is a count kept apart from the file.  What was
acknowledged must not be lost, order and chain must hold, and the counters may
drift from the file only within bounds.

*Stdio proxy.*  A line may be a batch that is refused at its last member, a
one-way message, or rubbish; the server answers when it likes, says things
nobody asked for, and exits.  Only inspected calls are forwarded, every line
gets the replies it is owed and no more, nobody waits for ever.

*HTTP gateway.*  The process can be killed between the WAL, the audit log and
the answer, and each write can fail; signals and cancellations come between
requests.  Nobody is given a verdict that the logs do not hold; the count of
active requests, on which draining relies, is exact; every request ends.

*Identity telemetry.*  Two processes share a file; the POST can be lost,
refused, answered too late or arrive after the shipper gave up; either process
can be killed anywhere.  The collector must hold the records in order, without
a gap, each once, and the cursor must follow.

*Realtime feed.*  A broadcast walks over a list by index while handlers change
it during each await.  No event is pushed twice, skips are bounded, snapshot and
stream fit together, a broadcast ends, a scan is answered.

*Detectors and layers.*  Each detector may raise, a later layer may overrule an
earlier one, and each layer keeps its own log.  What the layers record must
agree whatever raised; a decision must survive the score it is reduced to;
rules, windows and trust must behave over sequences of calls and registrations.

*Ten-point defense.*  What a call named is remembered until its outbound request
is seen, expired by age and evicted for room; refused sends count; refused
recipients are learned.  What is forgotten must authorize nothing.

*SIEM shipping and correlation.*  A batch may be written in part, applied
without an answer, rotated away; a window of events is expired, capped and
searched greedily.  Events must be accounted for, matches must be those of a
reference definition.

*Small parts.*  The token bucket (parts of tokens over many calls), alerting (a
clock read outside the lock), manifests, canaries and drift (baselines that are
shared, replaced, approved), call sequences (one window for all sessions), the
policy engine (two copies of the same rules), the client (an answer that is
lost), the JSON-RPC adapter (a stack of its own).

The hazards are listed one by one, each with its line and its properties, in
`PROJECT.json`.

---

## 2. The modules

```
   LogFile ──────────┬── AuditLog ────────┐
   (append-only      └── WriteAheadLog ───┤
    JSON-lines file)     CircuitBreaker ──┴── GatewayServer (INSTANCEs of the three)
   InOrderDelivery <== refined by == IdentityDelivery
   StdioProxy            RealtimeFeed            TenPointDefense
   Detectors ── FiveLayerDefense ── ScanApi      (each EXTENDS the one before)
   EventCorrelation  LogShipping  TokenBucket  Alerting  ToolManifests  ToolDrift
   ToolCanary  CallSequences  PolicyEngine  ClientGuard  JsonRpcMessages
                         └── Parts (INSTANCEs of these eleven)
   *Proofs               theorems about AuditLog, WriteAheadLog, CircuitBreaker,
                         GatewayServer (which uses the three before), StdioProxy,
                         IdentityDelivery, RealtimeFeed and ScanApi with the
                         layers under it (ServiceProofs), TenPointDefense, Parts
   MC*                   model values and small sets for TLC
```

**`CircuitBreaker`** — `circuit_breaker.py`.  One locked block is one action:
`Admit`/`Reject` are `call` up to the decision, `OnSuccess` and `OnFailure` the
two locked updates, `FallbackCheck` the second read of `state` in `call` after
a failure, `ReadState` a read from outside, `Reset` the operator's.
`CurrentState` is the property `state`: reading it is what turns an open
circuit into a half-open one.  `elapsed` is `monotonic() - _last_failure_time`,
saturated at the timeout, because the code asks nothing else of it.  `fresh` is
history.

**`LogFile`** — the file both logs append to.  `lines` are the
newline-terminated lines, `tail` what follows the last newline; an interrupted
append (`WritePart`) leaves nothing, a part, all but the newline, or all.  A
line put together from two appends is `Garbled`: `json.loads` fails on it.

**`AuditLog`** — `audit/log.py`.  `BeginAppend` is `append` up to and including
the change of memory, `PersistOk`/`PersistFails` the write; `Load`/`LoadFails`
the constructor reading the file back.  A hash stands for the entry whose
contents it covers.

**`WriteAheadLog`** — `audit/wal.py`.  `Start` counts the lines of the file
without parsing them; `BeginWrite`, `WriteOk`, `WriteFails` are `write`;
`Checkpoint`, `Truncate` as named; `Recovered` is what `recover()` returns.
Both counters live in memory, as in the code.

**`StdioProxy`** — `stdio_proxy.py`.  `handle_message` is a loop over the
members of a line with one exit per outcome: `RejectMalformed`, `SkipMember`,
`PassMember`, `RateLimited`, `Denied`, `Forward`, `Receive`, with the two ways
the server's end makes it raise (`SendFails`, `ReceiveFails`).  `Refill` is the
bucket.  The server's actions (`ServerReads`, …) are external.

**`GatewayServer`** — `server.py` and `shutdown.py` composed with INSTANCEs of
the three modules above, so that each of its steps is a step of theirs.
Between reading a request and sending its answer the code has no `await`, so
one connection at a time is `Inside`; the steps inside are separate because a
kill or an I/O error can come between them.  What the environment configures is
chosen at each start: `shadowMode`, in which `_handle_inspect_call` overwrites
every answer it is given, the fallback's too (`Overridden`), and `keyless`, no
API key and no `allow_anonymous`, in which protected routes answer 503
(`NoKeys`).  `OtherRoute` are the routes without a key.  `Signal` is
`_initiate_shutdown` called on the loop; `Cancelled` the cancellation of the
serving task, the only way to `execute_shutdown`; `Down` the end of the
process, `Start`/`StartFails` the next one.

**`InOrderDelivery`** — the abstract promise: records are published to a queue
and its leading, undamaged records are delivered in order, each once.

**`IdentityDelivery`** — the two processes and the collector.  Writer:
`BeginAppend`, `FinishAppend`, `AbandonAppend`.  Shipper: `Wake` (the cursor is
loaded), `Post`, `ReadNothing`, `Acknowledged`, `DeliveryFails`, `SaveCursor`,
`SaveCursorFails`, `Crash`, `Restart`.  Collector and network: `Receive`,
`LateArrival`.  The refinement mapping is `published <- lines`,
`delivered <- stored`.

**`RealtimeFeed`** — the WebSocket part of `realtime.py`.  A task runs alone up
to its next `await`: `Connect`/`Accepted` are the two sides of the handshake,
`BeginScan` and `Resume` go from one send to the next, `Finish` removes the
connections found dead; `list.remove` raises on one that has left meanwhile.
The specification is `FeedSpec`, of `FeedInit` and `FeedNext`: its names are
other than those of `IdentityDelivery` and `ScanApi` so that `ServiceProofs` can
extend all three.

**`Detectors`** — `monitor.py` and `detectors/`.  `Report` is one inspection: the
four detectors in their order, each of which may raise (a classifier that is not
there, a call without a map of arguments, arguments nested too deep for the
detectors that walk through them recursively), their findings, the risk score and
the decision.  Which patterns a text matches is part of the call; counts,
severities, scores and thresholds are the code's.  The shadow-server detector's
registrations and call counts are state.

**`FiveLayerDefense`** — `layers/`.  `EvaluateCall` is `evaluate_call` through
registry, proxy, spawn check, semantic analyzer and egress policy; `Intercept`
with its ordered rules, `Record` and the quarantine are `proxy.py`;
`EvaluateKernelEvent` is `process_event` with the pruned connection counts.  A
call that makes a layer raise leaves the logs of the layers before it as they
are (`raised`) and has no verdict.

**`ScanApi`** — the rest of `realtime.py` and `redteam/simulator.py`.
`RealtimeDeployment` is the defense as the module builds it at import: its
rules, known servers and egress rules.  `Scan`/`Refuse` are `POST /api/scan`
with key, sliding window per peer and `_record_event`.  A defense that is called
directly, with the detectors behind the proxy, is the simulator's: an attack is
`AttackCall`, unless it has no tool call, then `AttackEvent` for each of its
kernel events, then `EndAttack`, which files its result.  `Reconfigure` and
`Observe` are the calls others make, between attacks.

**`TenPointDefense`** — `defense10/`.  `InspectCall`, `InspectEgress`,
`ScanNetwork`, `ConfigureServer`, `Approve` and `Mint` as named; `Malformed` is a call
whose arguments are no map.  `KeptIntents` is `_evict_stale`: half of the
entries when there are too many, then the expired ones, before the new entry is
added.  A call's id is its number.

**`EventCorrelation`** — `siem/correlation.py`.  `Observe` is `ingest` with
expiry, cap and evaluation, `EvaluateAll` as named; the six built-in rules.
`StartReplay`/`Replay` feed the labelled sequences of `siem/lifecycle.py` to a
fresh engine.

**`LogShipping`** — `siem/shipper.py`.  `Ship` and `FlushNow` over the three
backends; `FileBatch` writes any part of a batch and rotates by second,
`ElasticBatch` retries requests that may have been applied.

**`TokenBucket`** — `production/rate_limiter.py`, in sixtieths of a token and
whole seconds.

**`Alerting`** — `production/alerting.py`.  `ReadClock` and `Compare` are the two
halves of `check_and_alert`, outside and inside the lock; `SendWebhook` is the
thread.

**`ToolManifests`, `ToolDrift`, `ToolCanary`, `CallSequences`** — `advanced/`.
Manifests are objects that the registry shares with its caller (`Edit`); a
drift baseline is a window of samples with the fields ever seen; canary probes,
baselines and history are three tables with the same keys; the call window is
one for all sessions.

**`PolicyEngine`** — `policy/policy_engine.py` (`Evaluate`) next to the Rego
policies (`AllowTool`, `AllowEgress`), a decision per call.  A call is a dict,
which `from_tool_call` checks, or a `PolicyInput`, which nothing checks; reading
the destination "invalid" raises.

**`ClientGuard`** — `client.py`.  `Judge` is the gateway's decision, `Arrive` what
becomes of its answer, `Run` what the guard then does.

**`JsonRpcMessages`** — `protocol/jsonrpc.py`.  `Measure` is one turn of the loop
in `_check_depth` over a tree of containers, `ParseMember` one turn of the loop in
`_parse_batch`; what is returned are the places of the members to inspect.

Operators that carry the comment "Mutant" are mutated forms of the operator
after them.  No specification uses them: they record which bug of the code each
part of each property would notice ("mutants" in `PROJECT.json`).

---

## 3. The runs

| Run | States | Shows |
|---|---|---|
| `breaker` | 4 030 | Three callers, threshold 2, timeout 2: state and count agree (`StateMatchesCount`), `OpenBlocksNewCalls`, `ProbeFailureReopens`, and under fairness `SelfHeals`. |
| `delivery` | 5 453 | Four records: the pipeline implements `InOrderDelivery!Spec`, liveness included (`DeliversInOrder`); the cursor is at most one record behind the collector, never goes back, and catches up. |
| `wal` | 4 458 | Four entries with failed writes, crashes, checkpoints, truncations: `recover()` misses no acknowledged entry (`RecoverKeepsAcked`), keeps the order, and returns a committed entry only where a failed write shifted the position (`RecoverIsExact`). |
| `audit` | 6 288 | Four entries with failed writes and crashes: no returned entry is lost, memory and file agree, the chain breaks only at an entry chained to one whose `append` raised. |
| `proxy` | 23 878 | Two client lines out of thirteen kinds, two tokens, two unsolicited lines: `OnlyCleanLinesAreForwarded`, `LinesAreAccounted` (replies and counters), `RepliesMatchLines`, and under fairness `EveryLineIsHandled`. |
| `gateway` | 127 765 | Two requests through logs, breaker, signals, kills and restarts, with and without shadow mode and API keys: `VerdictsAreRecorded`, `RequestsAreCounted` (active requests, errors, order of the two logs), `EveryRequestEnds`. |
| `feed` | 248 752 | Two dashboards, a limit of one, a scan and the demo agent, three events: `StreamIsExact`, `SkipsAreBounded`, `BroadcastEnds`. |
| `scan` | 596 284 | The realtime deployment and two others (enforcement and shadow mode), which the simulator attacks, over twelve kinds of calls: `RecordsAgree`, `DecisionsFit`, `RatesAreExact`, `ConfigurationIsKept`. |
| `tenpoint` | 1 616 161 | Five operations over two addresses and a registry of one entry: `RegistryHolds`, `CallsAreHeld`. |
| `parts` | 820 705 | The eleven parts that share no state, one property for each; a behaviour runs one of them, so the state spaces add up instead of multiplying. |
| `gateway_signal`, `scan_fail_closed` | | Violations; see section 6. |

A property that joins several (`RecordsAgree == LayersTypeOK /\ LogsAgree /\ ...`)
is defined at the end of its module, or of `Parts`, from parts that are each
stated and explained where they stand; every part has a mutant of its own.

**Why the bounds are enough.**
*Breaker*: three callers allow a late result, a running probe and a new caller
at once; with threshold 2 a single failure does not open the circuit, with four
failures it can open, be probed and reopen.
*Delivery*: with four records one can be torn while another is stored, a third
is on its way and a fourth is being written; there is one shipper and it sends
one record at a time, so more records add no new overlap.  The number of
crashes, retries and late arrivals is not bounded.
*Logs*: with four entries a failed one, one merged with its remains, and an
intact one before and behind them fit in a file; crashes and restarts are not
bounded.
*Proxy*: the second line is where a mistake made with the first one shows (an
answer left in a pipe, a counter, a missing token); a batch of two differs from
one of three in nothing, since the loop looks at one member at a time.
*Gateway*: the request path is exclusive, so two requests are enough for every
order of one request's steps with the other's arrival, refusal and answer; a
threshold of 1 makes the second meet an open and a half-open circuit.
*Feed*: the list shifts under a broadcast when one of two connections leaves;
two broadcasts at once are enough for both to find the same one dead.
*Scan*: the calls differ in each thing a layer looks at; two operations let a
registration, a rule or a release come between two calls, and a window with a
limit of one is filled, left and refilled within time 3; an attack has a call, an
event, a call and an event, or two events, of which the first raises no alert.
*Ten-point*: a registry of one entry overflows with the second call and evicts
with the third; five operations are enough to configure, call, expire and see an
outbound request of a forgotten call.
*Parts*: correlation, 4 events of two sessions in a window of 3 minutes and 3
events, where expiry and cap both happen, and every labelled sequence in full;
shipping, a buffer and an interval of 2, files of one batch, 4 events in 3
seconds, so that two rotations fall into one second and a retry repeats a batch;
bucket, burst 2 and 25 tokens a minute over 6 seconds, where a token takes 2.4
seconds and its parts must add up; alerting, two callers and two kinds of
findings; manifests, two objects with two edits; drift, windows of 5 samples and
7 records (the code looks at sizes from the fifth on); canary, two probes with
one id or two, and two answers; sequences, a window of 3 calls; policy, every
combination of empty, allowed and other names and of destinations that are
allowed, internal, other, empty or unreadable, as a dict or a ready-made input;
client, two
callers; messages, every tree of up to 5 containers against a depth of 3, and
every batch of up to two members.

The runs `proxy`, `feed`, `scan`, `tenpoint`, `parts` and `scan_fail_closed` do
not check for deadlock: the proxy stops at the end of its input, and the others
have nothing left to do when events, operations or time are used up.  Everywhere
else deadlock is checked, and there is none.

---

## 4. Fairness

*Breaker*: time passes; callers keep calling; a function that was started ends.
Nothing is assumed about how it ends.
*Delivery*: the service manager restarts the shipper and its loop goes on.
Strong fairness of `Wake`, `Post`, `Acknowledged`, `SaveCursor` and of a
`Receive` that is accepted says: a delivery that is tried for ever succeeds some
time.  The code retries without end and a POST has a timeout, so each attempt
really ends; that the collector is not down for ever is an assumption about it.
*Proxy*: one task, blocked only in `receive()`; a server that runs reads its
input and answers.  `receive()` has no timeout, so without the last assumption
`EveryLineIsHandled` is false, in the model as in the code.
*Gateway*: weak fairness of the request path (it does not wait for anything),
strong fairness of `Send` (the event loop gets to every ready task, and the
client reads or goes), and an exiting process ends.  Signals, kills, restarts
and I/O errors are never assumed.
*Feed*: a send returns, because a client that does not read is dropped by the
server's ping timeout, and the loop resumes each ready task.  New
connections are not limited by fairness but there are finitely many viewers.
The two logs, the scan service, the ten-point defense and the parts have no
liveness properties and no fairness: they do something only when they are
called, and each call ends by itself.

---

## 5. What is proved

The assumptions are named and stand in the module that declares the constants;
TLC evaluates them in the runs. `BreakerAssumption`, `DeliveryAssumption`,
`AuditAssumption`, `AuditEntryAssumption`, `WalAssumption`, `ProxyAssumption`,
`TenPointAssumption`, `GatewayAssumption`, `GatewayEntryAssumption`,
`FeedAssumption` and the ten of `Parts` say that thresholds, ages, limits and
bounds are natural numbers (a failure threshold, a registry size, a cap, a
buffer, a drift window, a window of calls, and the window and cap of the correlation
engine are not zero), that the markers
`Garbled`, `NoTail`, `Malformed`, `Note`, `Refusal`, `NoManifest` are no entries, lines or manifests,
that an address is no domain, and of which sets calls, lines, probes and
members of messages are made. The gateway's says also that its connections are finitely many. The
feed's: finitely many connections, a demo agent that is no scanner, and a limit
and a bound on events that are natural numbers. The layers' and the service's
(`CallAssumption`, `ThresholdAssumption`, `WindowAssumption`, `RuleAssumption`,
`DeploymentAssumption`, `RogueServerAssumption`, `ServiceAssumption`): what a call
shows is finite and the classifier's value a percentage; windows, limits and the
blocking threshold are natural numbers, and the quarantine's is at most 45, the
score of the least finding that makes the monitor block (its default is 30);
priorities are integers and actions one of the four, as in `ProxyRule`; a
deployment's rules stand in the order that `add_rule` gives them; the deployment
that the service builds has the rule against rogue servers with none but blocking
rules before it, and rules added later that let a call pass are less urgent than
it. The last one is about who configures the service: with a rule that
allows everything at the highest priority, `LateServersStayRogue` is false.
Nothing else is assumed.

* **`CircuitBreakerProofs`** (any set of callers, any threshold and timeout).
  `StateMatchesCount` and `OpenBlocksNewCalls` are inductive only together with
  the types: that a late failure leaves `fresh` empty follows from the count
  being at the threshold already.  `BreakerProbeFailureReopens` is the action
  property, from the same invariant.

* **`ServiceProofs`, the telemetry** (any number of records).  The invariant adds
  `QueueInv` (no envelope is on two lines), `ShipperInv` (while the shipper
  works its offset is the cursor; an accepted record is the collector's last)
  and `LateInv` (a request still on its way carries a line at or before the
  cursor's) to `LogInv` (the collector holds a prefix, the cursor is at most
  one behind).  Without `LateInv` a late arrival could be stored out of order,
  without `QueueInv` stored again.  `DeliveryRefinement` shows that each step
  is a step of `InOrderDelivery` or changes neither queue nor collector:
  `Spec => Abstract!Safety`.

* **`ServiceProofs`, the live feed** (any set of dashboards, scanning tasks,
  limit and number of events).  What a broadcast meets depends on the list, on
  who is up and on what was pushed, so `Fits` says it of one broadcast with
  these as parameters: who is ahead of it does not have its event, and the
  positions it is past hold served connections but for as many as have left the
  list (`next <= removals + |Served| + 1`).  The second part is what makes
  `SkipsAreBounded` inductive: that the skipped are few says nothing of the next
  removal, that the served are many does.  `ListInv` (who has not joined has
  been pushed nothing) and distinct events of distinct tasks make `NoEventTwice`
  inductive, `StreamInv` is completeness by positions.  A send and the end of a
  loop are proved once, of the tasks with the broadcast among them (`Walking`),
  for a broadcast that resumes and for one that begins.  What removing
  connections does to the list is one lemma, `WithoutIs`: what stays keeps its
  order and moves to the left, over `Ranks`, a fact about counting positions.
  `FeedStreamIsExact` and `FeedSkipsAreBounded` follow.

* **`ServiceProofs`, the scan service with its layers** (any calls, peers, rules,
  deployments, thresholds, windows and number of operations; the recent list has
  any length).  The four properties of the run `scan`, in the order in which the
  proofs rest on one another.
  *Windows* (`ScanRatesAreExact`).  A window is pruned when it is read, so it is
  less than the history; `RateInv` says that for every start `c` that a later
  reader can still ask for, the times since `c` are as many in the window as in
  the history.  That is kept by pruning (`LiveIs`), by an entry more
  (`OneTimeMore`) and by time passing, since what may be asked for only gets
  younger; the current limit is then the limit on any window, wherever it starts
  (`RateBound`).
  *Decisions* (`ScanDecisionsFit`).  `RulesInv`: the rules are sorted, and in a
  served deployment the rogue-server rule has no rule that lets pass before it.
  `Insert` keeps both (`InsertIs`, `InsertedFalling`, `InsertedRogue`).  With it,
  each entry of the three logs is one that its layer's report justifies
  (`FitInv`): what the sum of the detectors' scores is compared with becomes a
  statement about which of them found something.
  *Configuration* (`ScanConfigurationIsKept`), an action property: an inserted rule
  stands at one place, the others keep theirs (`InsertIs` once more), and
  `ShadowInv` bounds what a call can do to the trust of its server.
  *Records* (`ScanRecordsAgree`).  The property compares logs through filters and
  counts.  Every filter is turned into the set of the positions it keeps, and a
  log that has grown by one entry changes each of these sets by at most its last
  position (`OneMore`, `CountsGrow`); so each count grows by 0 or 1, and an action
  is a vector of such steps (`RecordCounts`, `VerdictCounts`, `EgressCounts`).
  `LogsInv` relates the logs of the proxy, the defense and the egress policy, with
  the calls that raised in between; `StatsInv` the dashboards' totals and recent
  list with the verdicts (the list is the newest of them, `NewestMarks`);
  `ReportInv` the simulator's report with them, where an attack that the kernel
  alone alerted on is blocked in the one and its call allowed in the other, and an
  attack without a call (`silent`) is in the one and not in the other; it is about
  the results filed and the attack that runs, so it holds in the middle of an
  attack too, where the property does not; `HeldInv` the
  quarantine.  At the end the sets are turned back into the counts the property
  speaks of (`LogsMean`, `StatsMean`, `ReportMeans`).

* **`AuditLogProofs`** (any number of entries, failures and crashes).  `LinkInv`
  says that the entry being appended is linked to the last entry of the file
  unless it is linked to one whose `append` raised; with it, `FileInv` and
  `MemoryInv` are inductive.  `AuditVerifies` adds: where no write fails in a
  process that lives on (`~DiskFaults`), an unmodified log always verifies, even
  after crashes in the middle of an append.  `AuditMemoryMatchesFile` needs two
  facts more: a new entry is younger than any there is (`YoungestInv`), and the
  entry being appended is the only one that memory may have and the file not
  (`SameInv`).  What an append does to the file is one lemma, `FileWritten`: a
  file that can be read afterwards could be read before, and has grown by
  nothing or by exactly that entry.

* **`WriteAheadLogProofs`** (any number of entries, failures and crashes).
  `CountInv`: as long as the file can be read it holds at least as many lines as
  were counted; so the slice `recover()` takes cannot begin too late.
  `AckedInv`: each acknowledged entry lies behind the committed position.
  `OrderInv`: the lines are in the order of the writes, each once.
  `WalRecoversExactly` counts: of the committed entries `recover()` returns at
  most as many as there are lines nobody counted (`PassedInv`), because a slice
  has no more different elements than positions (`SliceBound`) and an entry being
  written was never committed (`FreshInv`).

* **`GatewayServerProofs`** (any number of connections, every fault and kill).
  It uses the proofs of the two logs and the breaker as they are: a step of the
  server is a step of each part or leaves it alone (`WalProjection`,
  `AuditProjection`, `BreakerProjection`), so their invariants hold inside the
  server (`PartsInv`).  The end of the process is a crash for the logs and resets
  the breaker.  `Moves` then names the six ways in which a connection can move,
  so that the invariants of the server need not look at its 27 actions:
  `StageInv` (one connection inside the path, nobody answered before leaving
  it), `HeldInv` (what each stage has already written), `OrderInv` (the
  connection inside has the newest entry of the WAL), `ActiveInv`, `ErrorInv`.
  `GatewayRecordsVerdicts` follows because the only answers that are a verdict or
  allow a call without shadow mode's mark are given by the step that writes the
  audit entry, the fallback's by steps behind the WAL entry, and no step
  takes an entry out of a readable log (`WalGrows`, `AuditGrows`).  `TypeOK` and
  the counts of `RequestsAreCounted` follow with the cardinality of finite sets.
  `GatewayUsesItsLogs` is a refinement: `Spec => Wal!Spec /\ Audit!Spec`;
  `GatewayLogsKeepPromises` draws from it what was proved of the logs alone.

* **`StdioProxyProofs`** (lines of any kind and length, any server).
  `OnlyCleanLinesAreForwarded` is inductive with `LineInv` (the first `checked`
  members of the current line are clean) and `ReadInv` (the lines read before
  do not change).  For `LinesAreAccounted`, `CountInv` says that a line is counted
  under one heading when it leaves "checking", and `RepliesInv` that the lines
  settled so far have the replies they are owed.  For `RepliesMatchLines`,
  `PairInv`: a request is in the pipe to the server, pending, or answered, never
  in two of these places (`QueueInv`), and the server owes as many answers as it
  has written notes, and one more while the proxy waits (`BacklogInv`).

* **`TenPointDefenseProofs`** (any calls, addresses, ages, sizes, limits).
  `Faithful`: a remembered intent is the one of the call it is filed under, so
  forgetting intents only ever takes authority away.  For the size: an overfull
  registry loses at least its oldest entry (`OldestIsThere`, `KeptHasRoom`), so
  there is room for the one that is added after the check.  For
  `TenPointCallsAreHeld`: what was let through in the window that ends now is
  among the attempts still remembered (`SendInv`), and any other window was
  within the limit when it ended; `HeldStep` is the action property.  That an
  address is known for a reason (`KnownForAReason`) is inductive as it stands:
  `granted` remembers what operators approved, `pending` what was held.

* **`PartsProofs`** (every constant of each part), the eleven parts.
  `PartsGuard`: `GuardInv` ties every answer to the decision it came from.
  `PartsShipping`: the events are numbered, and the batches before the buffer are
  the events before it (`NextEvents`), so the counters say what the files hold
  (`StatsInv`, `StoredInv`).  What one batch does to a file is one lemma
  (`WriteAppends`): it keeps the lines, adds its events in order and may complete
  a half line.  `TornInv` counts the half line at the end of the file, if there is
  one, together with the events that already share a line: without it the bound
  by `torn` is not inductive.  A rotation moves lines and loses none that
  `replaced` does not name (`RotateMovesLines`).
  `PartsBucket`: the bound on any interval between two admissions needs
  `CreditInv` (the calls admitted since the i-th and the tokens left are together
  no more than the burst and what was refilled since), and that a refusal was
  due needs `ExactInv`: unless the bucket is full, some admission turns that
  bound into an equality.  `PartsAlerting`: the table holds the time of the latest alert
  (`LastIsLatest`).  `PartsManifests` holds of every state, reachable or
  not; `PartsPolicy` of every call (`DecisionsAgree`).  `PartsDrift`: the samples are the tail of what was
  recorded (`WindowIsTail`) while the known fields are those of all of it.
  `PartsCanary`: probes, baselines and history agree (`BaselinesAgree`).
  `PartsSequences`: the window is in the order of its times (`Ordered`), so the
  calls recent enough for a rule are the window's end (`RecentIsTheEnd`), and a
  rule's match is the earliest first call with the earliest second one after it
  (`MatchIs`), there if there is any pair at all.
  `PartsMessages`: nothing is visited or on the stack twice because a container
  is reached only from its parent (`Walk`), and nothing is forgotten because a
  visited container's children are visited or waiting (`Closed`); with an empty
  stack the first container that was missed would have a parent that was not
  (`AllSeen`).  That the recursive definition of depth has a value is proved from
  the least container at which it would have none (`DepthExists`).
  `PartsCorrelation`: every event of a window has a place in the history, in
  order, and every recent event of the session has a place in the window unless
  the cap took it (`WindowsInv`); what a cut leaves is the end of the window
  (`ExpireIs`), and cutting it later, or twice, is cutting it once (`CutAgain`).
  `evaluate` collects, for each stage, the first event after the one before
  (`Greedy`); a window has a chain from its first event of the first stage
  exactly when that search gets to the last stage, and then no chain ends earlier
  (`FiresThenChain`, `ChainThenFires`).  Hence a rule goes on firing while the
  event it starts from is in the window (`ShiftedFires`).  `ReplayInv`: a labelled
  sequence is the window in full, and each of its events is in one stage at most
  (`EventsAreTagged`), which decides the rules it fires (`FiresAsLabelled`,
  `LabelFires`).  The loops of the engine are recursive functions over positions;
  that they have values is proved from the least position at which one would have
  none (`LoopExists`).

Each invariant has an initial lemma, a step lemma with one step per action, and
a temporal theorem that combines them.

---

## 6. Findings, and divergences that have no run

Two have a run that ends in a counterexample.

* `gateway_signal` — after SIGTERM nothing ends `serve_forever`: the server
  answers 503 for ever, does not flush the WAL and does not exit
  (shutdown.py:3-4).
* `scan_fail_closed` — the inline proxy looks at the risk score of the
  monitor's report alone (layers/proxy.py:75-88); a call on which a detector
  raised is INDETERMINATE, "=> BLOCK" in enforcement mode (monitor.py:55), but
  passes the proxy when the other detectors found little.

Four more are stated as definitions that no run checks; each of them, made an
INVARIANT of its module's run, ends in a counterexample.

* `UnmodifiedLogVerifies` (AuditLog) — `append` (audit/log.py:117) adds an entry
  to memory before it is written.  After one failed write, the next entry is
  chained to an entry the file lacks, and after a restart `verify_chain()`
  reports a break in a log nobody modified (log.py:4-6).
* `EntriesSurviveCrashes` (WriteAheadLog) — a crash in the middle of the append
  leaves half a line; `recover()` then raises and returns none of the complete
  entries before it (wal.py:3: "Ensures that audit entries survive process
  crashes").
* `RepliesAreReal` (StdioProxy) — a notification of the server is returned as the
  answer to a request, and every later answer is one behind
  (stdio_proxy.py:376-377).
* `ScansAreAnswered` (RealtimeFeed) — `broadcast()` raises ValueError when a
  connection it found dead has left the list meanwhile: the scan's verdict is
  lost, or the demo agent ends (realtime.py:656, 989).

Divergences seen while modelling, which the models contain where they model the
part, and which no run singles out:

* A late success closes an open circuit without a probe
  (circuit_breaker.py:110; lines 3-4 describe open, then half-open, then closed).
* One damaged telemetry record blocks all complete ones behind it
  (identity_shipper.py:88; lines 3-4).  `CursorCatchesUp` therefore speaks only
  of records that no damaged line precedes.
* A crash in the middle of an audit append stops every later start of the
  gateway (audit/log.py:174 reached from server.py:65), until the file is
  repaired: `LoadFails`, `StartFails`.
* The committed position is not persisted, so after a restart `recover()`
  returns committed entries too (wal.py:27 and wal.py:95).  `CheckpointHolds`
  speaks of one process.
* A request with a wrong key is counted as two errors (server.py:438 and
  319-320), and so is every protected request where no key is configured
  (server.py:435): `OnlyAuthorizeCountsTwice`.
* In shadow mode a call whose inspection failed, or that met an open circuit, is
  let through although the fallback is fail-closed (server.py:594-608), and no
  audit entry tells of it: `VerdictsAreRecorded` asks only that the answer is
  marked and the request in the WAL.  An inspection that raises without opening
  the circuit answers 500 in shadow mode too.
* Of the simulator's catalog two attacks have no tool call (payloads.py:279-312),
  so its total is above that of `get_layer_stats()`: `ReportFollowsDefense`.
* Arguments nested deeper than Python's recursion limit make three of the four
  detectors raise, and the semantic analyzer, which nothing catches; a matching
  REDACT rule raises on arguments that are no map (proxy.py:180).
* Overlapping handshakes exceed the connection limit (realtime.py:943); a
  connection closed for a message that is too large stays on the list
  (realtime.py:961-963); a broadcast skips a connection when one before it
  leaves (realtime.py:993 says every dashboard gets it): `SkipsAreBounded`.
* A correlation rule's search is anchored at the first event that fits its first
  stage, so an early one masks a later chain within the window, where
  correlation.py:56-63 asks only for events in order within it
  (`FiresOnFirstChain`); `ingest` returns a match again with every later event
  (`MatchesAreRepeated`); the list of all events is never shortened.
* The ten-point defense trims its verdicts only in `_allow`, not in `_block`
  (orchestrator10.py:64 speaks of preventing growth): `OnlyBlocksOverflow`.  Its
  registry holds one entry above its size, and remembers the intents of calls it
  then blocks.  A sandbox whose start failed or timed out reports
  `isolated=True`.
* The file shipper's torn lines join with the next batch, and a second rotation
  within a second replaces the file of the first (shipper.py:139).
* A server registered after start-up passes layer 1 and is then stopped by the
  proxy, whose rogue-server rule remembers the servers of the start
  (`LateServersStayRogue`).
* Manifests are compared without their version, although "Version rollback/jump"
  is listed (manifest.py:88), and repeated capabilities are not seen.
* `PolicyEngine.evaluate` "never raises on bad input" (policy_engine.py:140-142),
  but raises on an explicit destination that is no string and on a URL that
  `urlparse` does not take, such as one with an unclosed bracket
  (policy_engine.py:241).  A ready-made `PolicyInput` is not checked for missing
  names (policy_engine.py:171-173).  Rego lets empty names and unparsed
  destinations pass.  `ParityWithRego` names the cases in which the two may
  differ, and when nothing is decided.
* `read_then_exfil` may compare a sending call with its own output, and
  `shadow_pivot` sees only the two oldest calls of its minute
  (`PivotIsOfTheOldestTwo`).
* The duration histogram adds an observation to every bucket at or above it
  (metrics.py:92; 84-87 say only the first), and the exposition adds the buckets
  up again.
* In the simulated attacks and the life-cycle report: HTTP errors count as
  "allow", `correlation_rule` is never checked, and `techniques_not_covered` is
  always empty.

---

## 7. Limits

**Only model-checked.**  All liveness properties (`SelfHeals`, `DeliversInOrder`
as far as it is liveness, `CursorCatchesUp`, `EveryLineIsHandled`,
`EveryRequestEnds`, `BroadcastEnds`): fairness and ENABLED are out of the
prover's reach.  Every other invariant and action property of the runs
that are to pass is a theorem.

**Abstracted.**  Contents of messages, detector verdicts (they allow, block or
fail), hashes (identities), wall-clock time (ticks), byte offsets (lines).
Texts (the set of patterns they match), the classifier (a percentage),
host names (lower case), and the times of events (those of their arrival).  The
nesting of a JSON-RPC message and its members are chosen apart.  Egress rules
and kernel policies are fixed before traffic starts.  A crash loses what was
not yet given to the operating system; a power loss that
undoes completed appends is not modelled.  Modification of the log files by
others is not modelled: the properties are about an unmodified log.

The token bucket counts in exact fractions; the rounding of the code's floats is
not modelled.

**Not modelled.**  In the modelled components: `inspect_output` of the gateway (the same path through a
second breaker), emission to SIEM and alerting on the request path, the one-off
smoke batch of `identity_transport.py`, the sandbox and the mitmproxy add-on of
`defense10/`, rules added to a running correlation engine, `invariants.py`.
Whole components: see the list in `PROJECT.json`, each with its reason.

---

## 8. Plan

What is left, in the order of its weight for the system.

1. **Gateway, second part**: outputs through the second breaker, SIEM emission
   and alerts on the request path (`INSTANCE`s of `LogShipping` and `Alerting`),
   and the token bucket in place of the abstract tokens of `StdioProxy`.
2. **A power loss in the telemetry queue** (identity_shipper.py:72): completed
   appends undone under a cursor that is not, as a fault that can be switched on.
3. **Composition of ensemble and proxy**: `Detectors!Report` in place of the
   verdict in `StdioProxy`.
4. **Metrics** (metrics.py 81-143) and **invariants.py** (144-294), as further
   parts.

Every safety property of the passing runs is a theorem; the modules above would
bring their own.
