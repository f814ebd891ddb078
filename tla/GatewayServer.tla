---------------------------- MODULE GatewayServer ----------------------------
(***************************************************************************)
(* The HTTP gateway of mcp_monitor/production/server.py, put together from *)
(* its write-ahead log, its audit log and the circuit breaker around the   *)
(* inspection of tool calls.                                               *)
(*                                                                         *)
(* One asyncio task per connection, one request per connection.  A task is *)
(* suspended only while it reads the request and while it sends the        *)
(* response: everything in between runs without an await, so at most one   *)
(* connection is `inside` the request path.  That path still takes several *)
(* steps here, because the process can be killed between any two of them   *)
(* and each of its file operations can fail.                               *)
(*                                                                         *)
(* Abstracted: the HTTP framing checks before the body is complete, the    *)
(* token bucket (a request is limited or not), what the detectors look at  *)
(* (they allow, block, or raise), tracing, alerts and SIEM events.         *)
(***************************************************************************)
EXTENDS Naturals, FiniteSets, SequencesExt

CONSTANTS
  Conns,             \* connections, each with one request
  FailureThreshold, RecoveryTimeout,
  DiskFaults, Garbled, NoTail

VARIABLES
  walLines, walTail, walWritten, walCommittedCount, walPc, walLast,
  walAcked, walCommitted,
  auditLines, auditTail, auditEntries, auditPc, auditCount, auditReturned,
  auditRaised,
  circuit, failureCount, elapsed, callPc, fallback, fresh,
  server,        \* the process: "down", "serving" or "exiting"
  shuttingDown,  \* _shutdown_event
  shadowMode,    \* config.shadow_mode, read from the environment at a start
  keyless,       \* no api_keys, and allow_anonymous is off: likewise
  conn,          \* where each connection's task is
  response,      \* what its client is or will be answered
  walOf,         \* history: the WAL entry of the connection's request
  auditOf,       \* history: the audit entry of its inspection
  active,        \* _active_requests of GracefulShutdown and the gauge
  errorTotal     \* _error_total

Entries == Cardinality(Conns)

ASSUME GatewayAssumption ==
  /\ IsFiniteSet(Conns)
  /\ FailureThreshold \in Nat \ {0}
  /\ RecoveryTimeout \in Nat
  /\ DiskFaults \in BOOLEAN
  /\ Garbled # NoTail
  /\ {Garbled, NoTail} \cap (1..Entries) = {}

Wal == INSTANCE WriteAheadLog WITH MaxEntries <- Entries,
  lines <- walLines, tail <- walTail, entriesWritten <- walWritten,
  committedCount <- walCommittedCount, pc <- walPc, last <- walLast,
  acked <- walAcked, committed <- walCommitted

Audit == INSTANCE AuditLog WITH MaxEntries <- Entries,
  lines <- auditLines, tail <- auditTail, entries <- auditEntries,
  pc <- auditPc, count <- auditCount, returned <- auditReturned,
  raised <- auditRaised

ASSUME GatewayEntryAssumption == {Garbled, NoTail} \cap Audit!Entry = {}

Loop == "event loop"   \* the only caller of the breaker

Breaker == INSTANCE CircuitBreaker WITH Threads <- {Loop},
  MaxFailures <- Entries, state <- circuit, pc <- callPc

walVars == <<walLines, walTail, walWritten, walCommittedCount, walPc, walLast,
             walAcked, walCommitted>>
auditVars == <<auditLines, auditTail, auditEntries, auditPc, auditCount,
               auditReturned, auditRaised>>
breakerVars == <<circuit, failureCount, elapsed, callPc, fallback, fresh>>
serverVars == <<server, shuttingDown, shadowMode, keyless>>
connVars == <<conn, response, walOf, auditOf>>
counters == <<active, errorTotal>>
vars == <<walVars, auditVars, breakerVars, serverVars, connVars, counters>>

(* Where a task is.  "routed" .. "failed" are inside the request path.     *)
Inside == {"routed", "logging", "logged", "detecting", "auditing", "failed"}
Stage == Inside \union {"reading", "sending", "closed"}

(* Who made the answer: the monitor, the breaker's fallback, _authorize or *)
(* the rest of the server.  `shadow` is the answer's "shadow_mode" mark.   *)
Answer == [status : {200, 400, 401, 404, 429, 500, 503}, allowed : BOOLEAN,
           shadow : BOOLEAN, by : {"monitor", "fallback", "authorize", "server"}]
Made(by, status, ok) == [status |-> status, allowed |-> ok, shadow |-> FALSE, by |-> by]
NoAnswer == Made("server", 0, FALSE)
Plain(status) == Made("server", status, FALSE)
Denied(status) == Made("authorize", status, FALSE)
Verdict(ok) == Made("monitor", 200, ok)
FailClosed == Made("fallback", 200, FALSE)

(* _handle_inspect_call lets everything through in shadow mode, the        *)
(* verdict of the monitor and the answer of the fallback alike, and marks  *)
(* the answer.                                                             *)
Overridden(answer) ==
  IF shadowMode THEN [answer EXCEPT !.allowed = TRUE, !.shadow = TRUE] ELSE answer

TypeOK ==
  /\ Wal!TypeOK /\ Audit!TypeOK /\ Breaker!TypeOK
  /\ server \in {"down", "serving", "exiting"}
  /\ shuttingDown \in BOOLEAN /\ shadowMode \in BOOLEAN /\ keyless \in BOOLEAN
  /\ conn \in [Conns -> Stage]
  /\ response \in [Conns -> Answer \union {NoAnswer}]
  /\ walOf \in [Conns -> 0..Entries]
  /\ auditOf \in [Conns -> 0..Entries]
  /\ active \in 0..1
  /\ errorTotal \in 0..(2 * Entries)

(* The process starts: both logs are opened, the rest is memory.           *)
Init ==
  /\ Wal!Init /\ Audit!Init /\ Breaker!Init
  /\ server = "down"
  /\ shuttingDown = FALSE /\ shadowMode = FALSE /\ keyless = FALSE
  /\ conn = [c \in Conns |-> "reading"]
  /\ response = [c \in Conns |-> NoAnswer]
  /\ walOf = [c \in Conns |-> 0]
  /\ auditOf = [c \in Conns |-> 0]
  /\ active = 0
  /\ errorTotal = 0

-----------------------------------------------------------------------------
LoopIsFree == \A c \in Conns : conn[c] \notin Inside

Go(c, stage) == conn' = [conn EXCEPT ![c] = stage]

IsError(answer) == answer.status >= 400

(* An answer given without entering the request path.                      *)
Refuse(c, answer) ==
  /\ Go(c, "sending")
  /\ response' = [response EXCEPT ![c] = answer]
  /\ UNCHANGED <<walVars, auditVars, breakerVars, serverVars, walOf, auditOf, active>>

(* Mutants: the active request is given back only after a success; an      *)
(* exception is counted where it is caught and again for its status.       *)
Finish_CountsTwice(c, answer) ==
  /\ Go(c, "sending")
  /\ response' = [response EXCEPT ![c] = answer]
  /\ active' = active - 1
  /\ errorTotal' = errorTotal + IF answer.status >= 500 THEN 2 ELSE IF IsError(answer) THEN 1 ELSE 0
Finish_Leaks(c, answer) ==
  /\ Go(c, "sending")
  /\ response' = [response EXCEPT ![c] = answer]
  /\ active' = IF IsError(answer) THEN active ELSE active - 1
  /\ errorTotal' = errorTotal + IF IsError(answer) THEN 1 ELSE 0

(* _route returned or raised: the `finally` block and the error count.     *)
Finish(c, answer) ==
  /\ Go(c, "sending")
  /\ response' = [response EXCEPT ![c] = answer]
  /\ active' = active - 1
  /\ errorTotal' = errorTotal + IF IsError(answer) THEN 1 ELSE 0

(* Mutant: the request path awaits something and other tasks run meanwhile. *)
Ready_PathAwaits(c) == server = "serving" /\ conn[c] = "reading"

(* The request is complete and the loop runs its task.                     *)
Ready(c) == server = "serving" /\ LoopIsFree /\ conn[c] = "reading"

(* One of the framing checks refuses the request before it is complete     *)
(* (400 stands for its 405, 413, 414, 431 and 505 too); no counter moves.  *)
BadFraming(c) ==
  /\ Ready(c)
  /\ Refuse(c, Plain(400))
  /\ UNCHANGED errorTotal

(* A read times out or the client goes away: nothing is answered.          *)
ClientLeaves(c) ==
  /\ Ready(c)
  /\ Go(c, "closed")
  /\ UNCHANGED <<walVars, auditVars, breakerVars, serverVars, response,
                 walOf, auditOf, counters>>

RefuseShutdown(c) ==
  /\ Ready(c)
  /\ shuttingDown
  /\ Refuse(c, Plain(503))
  /\ UNCHANGED errorTotal

(* _rate_limiter.allow() says no.                                          *)
RefuseRate(c) ==
  /\ Ready(c)
  /\ ~shuttingDown
  /\ Refuse(c, Plain(429))
  /\ errorTotal' = errorTotal + 1

(* request_started, inc_active, inc_request; _route for an inspect_call    *)
(* whose key matches (or needs none: allow_anonymous).                     *)
Admit(c) ==
  /\ Ready(c)
  /\ ~shuttingDown /\ ~keyless
  /\ Go(c, "routed")
  /\ active' = active + 1
  /\ UNCHANGED <<walVars, auditVars, breakerVars, serverVars, response,
                 walOf, auditOf, errorTotal>>

(* The same with a key that does not match: _authorize counts the error    *)
(* and so does the caller, because the status is 401.                      *)
Unauthorized(c) ==
  /\ Ready(c)
  /\ ~shuttingDown /\ ~keyless
  /\ Refuse(c, Denied(401))
  /\ errorTotal' = errorTotal + 2

(* No key is configured, the default: whoever calls is refused, and the    *)
(* error is counted at both places again.                                  *)
NoKeys(c) ==
  /\ Ready(c)
  /\ ~shuttingDown /\ keyless
  /\ Refuse(c, Denied(503))
  /\ errorTotal' = errorTotal + 2

(* The routes without a key: health, readiness (503 when a directory is    *)
(* not writable) and 404 for any other path.                               *)
OtherRoute(c) ==
  /\ Ready(c)
  /\ ~shuttingDown
  /\ \E status \in {200, 404, 503} :
       /\ Refuse(c, Plain(status))
       /\ errorTotal' = errorTotal + IF IsError(Plain(status)) THEN 1 ELSE 0

(* GET /v1/metrics, which reads the state of the breaker.                  *)
Metrics(c) ==
  /\ Ready(c)
  /\ ~shuttingDown /\ ~keyless
  /\ Breaker!ReadState
  /\ Go(c, "sending")
  /\ response' = [response EXCEPT ![c] = Plain(200)]
  /\ UNCHANGED <<walVars, auditVars, serverVars, walOf, auditOf, counters>>

-----------------------------------------------------------------------------
(* The request path of POST /v1/inspect_call.                              *)

(* _record_wal_event, before anything looks at the request.                *)
BeginWal(c) ==
  /\ conn[c] = "routed"
  /\ Wal!BeginWrite
  /\ walOf' = [walOf EXCEPT ![c] = walLast']
  /\ Go(c, "logging")
  /\ UNCHANGED <<auditVars, breakerVars, serverVars, response, auditOf, counters>>

WalOk(c) ==
  /\ conn[c] = "logging"
  /\ Wal!WriteOk
  /\ Go(c, "logged")
  /\ UNCHANGED <<auditVars, breakerVars, serverVars, response, walOf, auditOf, counters>>

(* The write raises and _handle_connection answers 500.                    *)
WalFails(c) ==
  /\ conn[c] = "logging"
  /\ Wal!WriteFails
  /\ Finish(c, Plain(500))
  /\ UNCHANGED <<auditVars, breakerVars, serverVars, walOf, auditOf>>

(* The body is not JSON.                                                   *)
BadJson(c) ==
  /\ conn[c] = "logged"
  /\ Finish(c, Plain(400))
  /\ UNCHANGED <<walVars, auditVars, breakerVars, serverVars, walOf, auditOf>>

(* The breaker is open: the fallback answers.                              *)
CircuitOpen(c) ==
  /\ conn[c] = "logged"
  /\ Breaker!Reject(Loop)
  /\ Finish(c, Overridden(FailClosed))
  /\ UNCHANGED <<walVars, auditVars, serverVars, walOf, auditOf>>

CircuitAdmits(c) ==
  /\ conn[c] = "logged"
  /\ Breaker!Admit(Loop)
  /\ fallback'[Loop]
  /\ Go(c, "detecting")
  /\ UNCHANGED <<walVars, auditVars, serverVars, response, walOf, auditOf, counters>>

(* inspect_call raises before it reaches the audit log.                    *)
InspectRaises(c) ==
  /\ conn[c] = "detecting"
  /\ Breaker!OnFailure(Loop)
  /\ Go(c, "failed")
  /\ UNCHANGED <<walVars, auditVars, serverVars, response, walOf, auditOf, counters>>

BeginAudit(c) ==
  /\ conn[c] = "detecting"
  /\ Audit!BeginAppend
  /\ auditOf' = [auditOf EXCEPT ![c] = auditCount']
  /\ Go(c, "auditing")
  /\ UNCHANGED <<walVars, breakerVars, serverVars, response, walOf, counters>>

(* The audit entry is written and the monitor's verdict returned.          *)
Inspected(c) ==
  /\ conn[c] = "auditing"
  /\ Audit!PersistOk
  /\ Breaker!OnSuccess(Loop)
  /\ \E ok \in BOOLEAN : Finish(c, Overridden(Verdict(ok)))
  /\ UNCHANGED <<walVars, serverVars, walOf, auditOf>>

(* The audit entry cannot be written: for the breaker, a failed call.      *)
AuditFails(c) ==
  /\ conn[c] = "auditing"
  /\ Audit!PersistFails
  /\ Breaker!OnFailure(Loop)
  /\ Go(c, "failed")
  /\ UNCHANGED <<walVars, serverVars, response, walOf, auditOf, counters>>

(* Mutants: the fallback lets the call through; the exception is dropped   *)
(* when there is no fallback to take.                                      *)
AfterFailure_NotRaised(c) ==
  /\ conn[c] = "failed"
  /\ Breaker!FallbackCheck(Loop)
  /\ circuit' = Breaker!OPEN
  /\ Finish(c, Overridden(FailClosed))
  /\ UNCHANGED <<walVars, auditVars, serverVars, walOf, auditOf>>
AfterFailure_FailOpen(c) ==
  /\ conn[c] = "failed"
  /\ Breaker!FallbackCheck(Loop)
  /\ Finish(c, IF circuit' = Breaker!OPEN
               THEN Overridden([FailClosed EXCEPT !.allowed = TRUE]) ELSE Plain(500))
  /\ UNCHANGED <<walVars, auditVars, serverVars, walOf, auditOf>>

(* The breaker has recorded the failure: the fallback's answer if that     *)
(* opened it, otherwise the exception, which becomes a 500 that shadow     *)
(* mode does not reach.                                                    *)
AfterFailure(c) ==
  /\ conn[c] = "failed"
  /\ Breaker!FallbackCheck(Loop)
  /\ Finish(c, IF circuit' = Breaker!OPEN THEN Overridden(FailClosed) ELSE Plain(500))
  /\ UNCHANGED <<walVars, auditVars, serverVars, walOf, auditOf>>

(* The response is written, or the client has gone; the socket is closed.  *)
Send(c) ==
  /\ server = "serving"
  /\ LoopIsFree
  /\ conn[c] = "sending"
  /\ Go(c, "closed")
  /\ UNCHANGED <<walVars, auditVars, breakerVars, serverVars, response,
                 walOf, auditOf, counters>>

-----------------------------------------------------------------------------
(* The life of the process.                                                *)

(* __init__ reads the environment and opens both logs, start() begins to   *)
(* serve.                                                                  *)
Start ==
  /\ server = "down"
  /\ Wal!Start
  /\ Audit!Load
  /\ server' = "serving"
  /\ shadowMode' \in BOOLEAN /\ keyless' \in BOOLEAN
  /\ UNCHANGED <<breakerVars, shuttingDown, connVars, counters>>

StartFails ==
  /\ server = "down"
  /\ Audit!LoadFails
  /\ UNCHANGED vars

(* SIGTERM or SIGINT: register_signals_async has _initiate_shutdown called *)
(* on the loop, and all it does is set the flag.                           *)
Signal ==
  /\ server = "serving"
  /\ LoopIsFree
  /\ shuttingDown' = TRUE
  /\ UNCHANGED <<walVars, auditVars, breakerVars, server, shadowMode, keyless,
                 connVars, counters>>

(* The task that serves is cancelled (a KeyboardInterrupt where signal     *)
(* handlers cannot be installed, or the code that embeds the server):      *)
(* execute_shutdown finds no active request and checkpoints the WAL.       *)
Cancelled ==
  /\ server = "serving"
  /\ LoopIsFree
  /\ shuttingDown' = TRUE
  /\ active = 0
  /\ Wal!Checkpoint
  /\ server' = "exiting"
  /\ UNCHANGED <<auditVars, breakerVars, shadowMode, keyless, connVars, counters>>

(* The process ends, killed or not.  What was in memory is gone; a request *)
(* that was not complete may be made again after the next start.           *)
Down ==
  /\ server # "down"
  /\ server' = "down"
  /\ shuttingDown' = FALSE /\ shadowMode' = FALSE /\ keyless' = FALSE
  /\ Wal!Crash
  /\ Audit!Crash
  /\ circuit' = Breaker!CLOSED
  /\ failureCount' = 0
  /\ elapsed' = RecoveryTimeout
  /\ callPc' = [callPc EXCEPT ![Loop] = "idle"]
  /\ fresh' = {}
  /\ UNCHANGED fallback
  /\ conn' = [c \in Conns |-> IF conn[c] = "reading" THEN "reading" ELSE "closed"]
  /\ active' = 0
  /\ errorTotal' = 0
  /\ UNCHANGED <<response, walOf, auditOf>>

Tick ==
  /\ server = "serving"
  /\ Breaker!Tick
  /\ UNCHANGED <<walVars, auditVars, serverVars, connVars, counters>>

(* A request's next step inside the request path.                          *)
Handle(c) ==
  \/ BeginWal(c) \/ WalOk(c) \/ WalFails(c)
  \/ BadJson(c) \/ CircuitOpen(c) \/ CircuitAdmits(c)
  \/ InspectRaises(c) \/ BeginAudit(c)
  \/ Inspected(c) \/ AuditFails(c) \/ AfterFailure(c)

Arrive(c) ==
  \/ BadFraming(c) \/ ClientLeaves(c)
  \/ RefuseShutdown(c) \/ RefuseRate(c) \/ Unauthorized(c) \/ NoKeys(c)
  \/ Admit(c) \/ Metrics(c) \/ OtherRoute(c)

Next ==
  \/ Start \/ StartFails \/ Signal \/ Cancelled \/ Down \/ Tick
  \/ \E c \in Conns : Arrive(c) \/ Handle(c) \/ Send(c)

Spec == Init /\ [][Next]_vars

(* The loop runs the task it is in, sends what is ready (drain() is not    *)
(* blocked for ever: the client reads or goes), and a process that is      *)
(* exiting ends.                                                           *)
Fairness ==
  /\ WF_vars(server = "exiting" /\ Down)
  /\ \A c \in Conns : WF_vars(Handle(c)) /\ SF_vars(Send(c))

FairSpec == Spec /\ Fairness

-----------------------------------------------------------------------------
(* The two logs hold the request, as far as they can be read at all.       *)
InWal(c) == Wal!Readable => walOf[c] \in ToSet(Wal!Contents)
InAudit(c) == Audit!Readable => auditOf[c] \in Audit!Hashes(Audit!Contents)

(* server.py:452, "Persist protected request metadata to WAL before        *)
(* processing", and what the audit log is for: nobody is answered by       *)
(* _handle_inspect_call, the fallback included, unless the request is in   *)
(* the WAL, and nobody is told a verdict of the monitor, or that a call is *)
(* allowed, unless its inspection is in the audit log too, whatever failed *)
(* and whenever the process died.  Shadow mode alone lets a call through   *)
(* that no audit entry tells of: the fallback's, and that answer is marked.*)
VerdictsAreRecorded ==
  \A c \in Conns :
    /\ response[c].by \in {"monitor", "fallback"} => InWal(c)
    /\ response[c].by = "monitor" \/ (response[c].allowed /\ ~response[c].shadow)
         => InWal(c) /\ InAudit(c)

(* The two logs tell the same story: inspections are audited in the order  *)
(* in which their requests entered the WAL.                                *)
AuditFollowsWal ==
  \A c, d \in Conns :
    auditOf[c] # 0 /\ auditOf[c] < auditOf[d] => walOf[c] < walOf[d]

(* The number of active requests, on which draining relies, is exact: no   *)
(* error path forgets to give a request back.                              *)
ActiveIsExact == active = Cardinality({c \in Conns : conn[c] \in Inside})

(* A request that entered the path is answered and its connection closed,  *)
(* whatever fails on the way, or the process ends.                         *)
EveryRequestEnds ==
  \A c \in Conns : conn[c] \in Inside ~> conn[c] = "closed"

(* mcp_error_total never runs ahead of the errors: _handle_connection adds *)
(* one for an exception and one for an error status, never both for one    *)
(* request.  Only a request refused by _authorize is counted twice, there  *)
(* and by the caller, with a wrong key (401) and without any key to match  *)
(* (503) alike; a readiness check or a shutdown that answers 503 is not.   *)
OnlyAuthorizeCountsTwice ==
  errorTotal <= Cardinality({c \in Conns : IsError(response[c])})
                  + Cardinality({c \in Conns : response[c].by = "authorize"})

(* shutdown.py:3-4: "Registers SIGTERM/SIGINT handlers to drain in-flight  *)
(* requests, flush the WAL, and exit cleanly."  The handler only sets the  *)
(* flag; nothing ends serve_forever.                                       *)
SignalStopsTheServer == shuttingDown ~> server = "down"

(* What the server keeps about its requests is exact across failures,      *)
(* kills and restarts: the count of those it is handling, on which         *)
(* draining relies, the counts of requests and errors, and the order of    *)
(* its two logs (handle_connection, _handle_inspect).                      *)
RequestsAreCounted ==
  TypeOK /\ ActiveIsExact /\ OnlyAuthorizeCountsTwice /\ AuditFollowsWal
=============================================================================
