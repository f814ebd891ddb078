---------------------------- MODULE MCStdioProxy ----------------------------
(* The client lines that differ for the proxy: every verdict, batches that *)
(* fail at their first or last member, one-way lines, malformed lines.     *)
EXTENDS StdioProxy

CONSTANTS MalformedLine

Call(v) == [method |-> "tools/call", id |-> TRUE, verdict |-> v]
CallNotification(v) == [method |-> "tools/call", id |-> FALSE, verdict |-> v]
Request == [method |-> "other", id |-> TRUE, verdict |-> "allow"]
Notification == [method |-> "other", id |-> FALSE, verdict |-> "allow"]
ClientResponse == [method |-> "none", id |-> TRUE, verdict |-> "allow"]

AllLines ==
  { MalformedLine, <<>>,
    <<Call("allow")>>, <<Call("block")>>, <<Call("indeterminate")>>,
    <<CallNotification("allow")>>, <<CallNotification("block")>>,
    <<Notification>>, <<ClientResponse>>,
    <<Call("allow"), Call("block")>>,
    <<Request, CallNotification("indeterminate")>>,
    <<CallNotification("allow"), Call("allow")>>,
    <<Notification, Request>> }

(* Enough to tell the answers of different requests apart.                 *)
FewLines ==
  { <<Call("allow")>>, <<Call("block")>>, <<ClientResponse>>,
    <<CallNotification("allow"), Request>> }
=============================================================================
