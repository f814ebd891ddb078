----------------------------- MODULE RealtimeFeed -----------------------------
(***************************************************************************)
(* The live feed of mcp_monitor/server/realtime.py: dashboards connected   *)
(* over WebSockets, and the tasks that scan tool calls and push each       *)
(* verdict to every dashboard.                                             *)
(*                                                                         *)
(* All of it runs on one event loop, so a task runs alone up to its next   *)
(* `await`: the handshake and each send.  A broadcast walks over the list  *)
(* of connections BY INDEX while, during its awaits, handlers add to that  *)
(* list and remove from it.  A send to a connection that is gone raises,   *)
(* or, when only the client knows, may be swallowed.                       *)
(*                                                                         *)
(* Events are numbered in the order in which they are recorded.  What the  *)
(* five layers say of a call is not needed here.                           *)
(***************************************************************************)
EXTENDS Naturals, FiniteSets, SequencesExt

CONSTANTS
  Viewers,         \* WebSocket connections, each made once
  Scanners,        \* clients of POST /api/scan, one call at a time each
  Agent,           \* the demo workload
  MaxConnections,  \* _REALTIME_MAX_WS_CONNECTIONS
  MaxEvents        \* bound: calls scanned

ASSUME FeedAssumption ==
  /\ IsFiniteSet(Viewers)
  /\ Agent \notin Scanners
  /\ MaxConnections \in Nat \ {0}
  /\ MaxEvents \in Nat

VARIABLES
  active,     \* manager.active
  handler,    \* websocket_endpoint of each connection
  up,         \* neither side has closed the connection
  snapshot,   \* history: the events its first message covers
  pushed,     \* history: the events pushed to it
  events,     \* total_events
  task,       \* the scanning tasks and where their broadcasts are
  shrunk,     \* history: a connection has been taken off the list
  unanswered  \* history: the events whose task ended in an exception

connVars == <<handler, up, snapshot>>
feedVars == <<active, connVars, pushed, events, task, shrunk, unanswered>>

Tasks == Scanners \union {Agent}
FeedEvent == 1..MaxEvents

(* A broadcast: the index it will look at next, the connections it found   *)
(* dead and, as history, how many left the list since it began.            *)
Broadcast(pcs) ==
  [pc : pcs, event : 0..MaxEvents, next : Nat, dead : Seq(Viewers), removals : Nat]

FeedTypeOK ==
  /\ active \in Seq(Viewers) /\ IsInjective(active)
  /\ handler \in [Viewers -> {"new", "accepting", "open", "ended"}]
  /\ up \in [Viewers -> BOOLEAN]
  /\ snapshot \in [Viewers -> 0..MaxEvents]
  /\ pushed \in [Viewers -> Seq(FeedEvent)]
  /\ events \in 0..MaxEvents
  /\ \A t \in Scanners : task[t] \in Broadcast({"idle", "sending"})
  /\ task[Agent] \in Broadcast({"idle", "sending", "stopped"})
  /\ shrunk \in BOOLEAN
  /\ unanswered \in SUBSET FeedEvent

Idle == [pc |-> "idle", event |-> 0, next |-> 1, dead |-> <<>>, removals |-> 0]

FeedInit ==
  /\ active = <<>>
  /\ handler = [v \in Viewers |-> "new"]
  /\ up = [v \in Viewers |-> TRUE]
  /\ snapshot = [v \in Viewers |-> 0]
  /\ pushed = [v \in Viewers |-> <<>>]
  /\ events = 0
  /\ task = [t \in Tasks |-> Idle]
  /\ shrunk = FALSE
  /\ unanswered = {}

-----------------------------------------------------------------------------
(* The connections.                                                        *)

(* The key does not match, or the list is full: closed before accept().    *)
RefuseViewer(v) ==
  /\ handler[v] = "new"
  /\ handler' = [handler EXCEPT ![v] = "ended"]
  /\ up' = [up EXCEPT ![v] = FALSE]
  /\ UNCHANGED <<active, snapshot, pushed, events, task, shrunk, unanswered>>

(* The limit is looked at before the handshake, the list grows after it.   *)
Connect(v) ==
  /\ handler[v] = "new"
  /\ Len(active) < MaxConnections
  /\ handler' = [handler EXCEPT ![v] = "accepting"]
  /\ UNCHANGED <<active, up, snapshot, pushed, events, task, shrunk, unanswered>>

(* Mutants: the list grows at its front; the first message was put         *)
(* together before the handshake.                                          *)
Accepted_AtFront(v) ==
  /\ handler[v] = "accepting"
  /\ handler' = [handler EXCEPT ![v] = "open"]
  /\ active' = <<v>> \o active
  /\ snapshot' = [snapshot EXCEPT ![v] = events]
  /\ UNCHANGED <<up, pushed, events, task, shrunk, unanswered>>
Accepted_EarlySnapshot(v) ==
  /\ handler[v] = "accepting"
  /\ handler' = [handler EXCEPT ![v] = "open"]
  /\ active' = Append(active, v)
  /\ \E n \in 0..events : snapshot' = [snapshot EXCEPT ![v] = n]
  /\ UNCHANGED <<up, pushed, events, task, shrunk, unanswered>>

(* accept() returns: the connection joins the list and its first message,  *)
(* a snapshot of everything recorded so far, is put together in one go.    *)
Accepted(v) ==
  /\ handler[v] = "accepting"
  /\ handler' = [handler EXCEPT ![v] = "open"]
  /\ active' = Append(active, v)
  /\ snapshot' = [snapshot EXCEPT ![v] = events]
  /\ UNCHANGED <<up, pushed, events, task, shrunk, unanswered>>

(* accept() raises outside the handler's try block.                        *)
AcceptRaises(v) ==
  /\ handler[v] = "accepting"
  /\ ~up[v]
  /\ handler' = [handler EXCEPT ![v] = "ended"]
  /\ UNCHANGED <<active, up, snapshot, pushed, events, task, shrunk, unanswered>>

ClientLeaves(v) ==
  /\ handler[v] \in {"accepting", "open"}
  /\ up[v]
  /\ up' = [up EXCEPT ![v] = FALSE]
  /\ UNCHANGED <<active, handler, snapshot, pushed, events, task, shrunk, unanswered>>

(* A message of more than 64 bytes: the handler closes the connection and  *)
(* returns, and the connection stays on the list.                          *)
TooLarge(v) ==
  /\ handler[v] = "open"
  /\ up[v]
  /\ handler' = [handler EXCEPT ![v] = "ended"]
  /\ up' = [up EXCEPT ![v] = FALSE]
  /\ UNCHANGED <<active, snapshot, pushed, events, task, shrunk, unanswered>>

(* The list without the connections in `gone`, in the order it had.        *)
Without(gone) ==
  LET left == {i \in DOMAIN active : active[i] \notin gone}
      place(i) == Cardinality({j \in left : j <= i})
  IN [n \in 1..Cardinality(left) |-> active[CHOOSE i \in left : place(i) = n]]

TakeOff(gone) ==
  /\ active' = Without(gone)
  /\ shrunk' = (shrunk \/ gone # {})

(* What the running broadcasts then look like, as history.                 *)
Shifted(tasks, n) ==
  [t \in Tasks |-> IF tasks[t].pc = "sending"
                   THEN [tasks[t] EXCEPT !.removals = @ + n]
                   ELSE tasks[t]]

(* Receiving or sending fails in the handler: manager.disconnect.          *)
Disconnected(v) ==
  /\ handler[v] = "open"
  /\ ~up[v]
  /\ handler' = [handler EXCEPT ![v] = "ended"]
  /\ TakeOff({v} \cap ToSet(active))
  /\ task' = Shifted(task, Cardinality({v} \cap ToSet(active)))
  /\ UNCHANGED <<up, snapshot, pushed, events, unanswered>>

-----------------------------------------------------------------------------
(* The broadcasts.  b is the broadcast of task t as it stands.             *)

(* Mutants: the first dead connection ends the loop; a failed send is      *)
(* tried again.                                                            *)
Send_StopsAtDead(t, b) ==
  LET v == active[b.next]
      on == [b EXCEPT !.next = @ + 1]
  IN
  /\ \/ /\ up[v]
        /\ pushed' = [pushed EXCEPT ![v] = Append(@, b.event)]
        /\ task' = [task EXCEPT ![t] = on]
     \/ /\ ~up[v]
        /\ task' = [task EXCEPT ![t] = [b EXCEPT !.next = Len(active) + 1,
                                                 !.dead = Append(@, v)]]
        /\ UNCHANGED pushed
  /\ UNCHANGED <<active, connVars, shrunk, unanswered>>
Send_Retries(t, b) ==
  LET v == active[b.next] IN
  /\ \/ /\ up[v]
        /\ pushed' = [pushed EXCEPT ![v] = Append(@, b.event)]
        /\ task' = [task EXCEPT ![t] = [b EXCEPT !.next = @ + 1]]
     \/ /\ ~up[v]
        /\ task' = [task EXCEPT ![t] = b]
        /\ UNCHANGED pushed
  /\ UNCHANGED <<active, connVars, shrunk, unanswered>>

(* One send: it arrives, it raises, or nobody notices that it did not      *)
(* arrive (never on a connection this side has closed).                    *)
Send(t, b) ==
  LET v == active[b.next]
      on == [b EXCEPT !.next = @ + 1]
  IN
  /\ \/ /\ up[v]
        /\ pushed' = [pushed EXCEPT ![v] = Append(@, b.event)]
        /\ task' = [task EXCEPT ![t] = on]
     \/ /\ ~up[v]
        /\ task' = [task EXCEPT ![t] = [on EXCEPT !.dead = Append(@, v)]]
        /\ UNCHANGED pushed
     \/ /\ ~up[v] /\ handler[v] # "ended"
        /\ task' = [task EXCEPT ![t] = on]
        /\ UNCHANGED pushed
  /\ UNCHANGED <<active, connVars, shrunk, unanswered>>

(* list.remove raises at the first dead connection that has left the list  *)
(* meanwhile: those before it are removed, the others stay.                *)
StillListed(b) == ToSet(b.dead) \subseteq ToSet(active)
Removed(b) ==
  {b.dead[i] : i \in {j \in DOMAIN b.dead : \A k \in 1..j : b.dead[k] \in ToSet(active)}}

(* The loop is over: the dead connections are taken off the list and the   *)
(* verdict is returned, or ValueError ends the task: a scan is answered    *)
(* with an error, the workload agent does not come back.                   *)
Finish(t, b) ==
  /\ TakeOff(Removed(b))
  /\ task' = Shifted(
       [task EXCEPT ![t] = IF StillListed(b) \/ t # Agent THEN Idle
                           ELSE [Idle EXCEPT !.pc = "stopped"]],
       Cardinality(Removed(b)))
  /\ unanswered' = IF StillListed(b) THEN unanswered ELSE unanswered \union {b.event}
  /\ UNCHANGED <<connVars, pushed>>

(* broadcast() from one await to the next.                                 *)
Advance(t, b) == IF b.next <= Len(active) THEN Send(t, b) ELSE Finish(t, b)

(* A call is scanned and recorded, and its broadcast begins.               *)
BeginScan(t) ==
  /\ task[t].pc = "idle"
  /\ events < MaxEvents
  /\ events' = events + 1
  /\ Advance(t, [Idle EXCEPT !.pc = "sending", !.event = events + 1])

(* The loop gets back to a broadcast whose send has returned.              *)
Resume(t) ==
  /\ task[t].pc = "sending"
  /\ Advance(t, task[t])
  /\ UNCHANGED events

FeedNext ==
  \/ \E v \in Viewers :
       \/ RefuseViewer(v) \/ Connect(v) \/ Accepted(v) \/ AcceptRaises(v)
       \/ ClientLeaves(v) \/ TooLarge(v) \/ Disconnected(v)
  \/ \E t \in Tasks : BeginScan(t) \/ Resume(t)

FeedSpec == FeedInit /\ [][FeedNext]_feedVars

(* A send does not block for ever (a client that does not read is dropped  *)
(* by the server's ping timeout), and the loop gets to every ready task.   *)
FeedFairSpec == FeedSpec /\ \A t \in Tasks : WF_feedVars(Resume(t))

-----------------------------------------------------------------------------
Listed(v) == v \in ToSet(active)
IndexOf(v) == CHOOSE i \in DOMAIN active : active[i] = v

(* No dashboard is pushed the same event twice, although the list changes  *)
(* under the broadcast: it only grows at its end and shrinks to the left.  *)
NoEventTwice == \A v \in Viewers : IsInjective(pushed[v])

(* The connections a broadcast has gone past without pushing its event to  *)
(* them or finding them dead.                                              *)
Skipped(b) ==
  {v \in ToSet(active) :
     up[v] /\ IndexOf(v) < b.next /\ b.event \notin ToSet(pushed[v])}

(* Iterating over the live list can skip connections, but never more than  *)
(* have left the list meanwhile.                                           *)
SkipsAreBounded ==
  \A t \in Tasks :
    task[t].pc = "sending" => Cardinality(Skipped(task[t])) <= task[t].removals

Underway(n, v) ==
  \E t \in Tasks : task[t].pc = "sending" /\ task[t].event = n /\ IndexOf(v) >= task[t].next

(* Snapshot and stream fit together: as long as no connection has left,    *)
(* every recorded event is in a dashboard's snapshot, has been pushed to   *)
(* it, or is on its way.                                                   *)
StreamIsComplete ==
  ~shrunk =>
    \A v \in Viewers : Listed(v) /\ up[v] =>
      \A n \in 1..events :
        n <= snapshot[v] \/ n \in ToSet(pushed[v]) \/ Underway(n, v)

(* A broadcast comes to an end although connections join while it runs.    *)
BroadcastEnds == \A t \in Tasks : task[t].pc = "sending" ~> task[t].pc # "sending"

(* realtime.py:989: "Scan a real tool call through the 5-layer defense,    *)
(* stream it live, return verdict."  When a connection that broadcast()    *)
(* found dead is taken off the list by its handler, or by another          *)
(* broadcast, during a later await, the verdict is not returned.           *)
ScansAreAnswered == unanswered = {}

(* A dashboard's snapshot and stream are the events since the start, none  *)
(* of them twice, as far as no connection has left (websocket_endpoint,    *)
(* broadcast).                                                             *)
StreamIsExact == FeedTypeOK /\ NoEventTwice /\ StreamIsComplete
=============================================================================
