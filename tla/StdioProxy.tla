------------------------------ MODULE StdioProxy ------------------------------
(***************************************************************************)
(* The inline stdio proxy of mcp_monitor/proxy/stdio_proxy.py between an   *)
(* MCP client and the downstream MCP server it launched.                   *)
(*                                                                         *)
(* The proxy handles one client line at a time: it parses it, takes a      *)
(* rate-limit token for each tools/call member and inspects the member,    *)
(* refuses the whole line at the first member that fails, or forwards the  *)
(* line as it is and, when it holds a request, waits for ONE line of the   *)
(* server's output, which it returns as the answer.  The server is outside *)
(* the repository: it answers the requests it has read in any order, may   *)
(* write notifications or requests of its own at any time, and may exit.   *)
(*                                                                         *)
(* A line is Malformed (it does not parse, or repeats a key) or the        *)
(* sequence of its members; a member's `verdict` is what _inspect says of  *)
(* it.  A line is identified by its number in the client's output.         *)
(***************************************************************************)
EXTENDS Naturals, FiniteSets, SequencesExt

CONSTANTS
  Lines,      \* what a client line may be
  Malformed,  \* a line that is not accepted as JSON
  MaxLines,   \* bound: lines the client writes
  Burst,      \* capacity of the rate limiter's bucket
  MaxNotes,   \* bound: lines the server writes that answer no request
  Note,       \* such a line
  Refusal     \* an error response the proxy makes itself

Member == [method : {"tools/call", "other", "none"}, id : BOOLEAN,
           verdict : {"allow", "block", "indeterminate"}]

ASSUME ProxyAssumption ==
  /\ Lines \subseteq Seq(Member) \union {Malformed}
  /\ Malformed \notin Seq(Member)
  /\ MaxLines \in Nat /\ Burst \in Nat /\ MaxNotes \in Nat
  /\ Note \notin Nat /\ Refusal \notin Nat /\ Note # Refusal

VARIABLES
  read,        \* history: the client lines taken from stdin
  pc,          \* "reading", "checking", "receiving" or "stopped"
  checked,     \* members of the current line that passed
  tokens,      \* whole tokens in the bucket
  stats,       \* _stats
  forwarded,   \* history: the lines sent to the server
  replies,     \* written to stdout: which line it replies to, and with what
  serverUp,    \* the server process runs
  toServer,    \* lines in the pipe to the server's stdin
  pending,     \* requests the server has read and not answered
  fromServer,  \* lines in the pipe from the server's stdout
  notes        \* history: Note lines written so far

clientVars == <<read, replies>>
serverVars == <<serverUp, toServer, pending, fromServer, notes>>
vars == <<clientVars, pc, checked, tokens, stats, forwarded, serverVars>>

LineNumber == 1..MaxLines
Output == LineNumber \union {Note}
StatName == {"allowed", "blocked", "passthrough", "rate_limited"}

TypeOK ==
  /\ read \in Seq(Lines) /\ Len(read) <= MaxLines
  /\ pc \in {"reading", "checking", "receiving", "stopped"}
  /\ checked \in Nat
  /\ tokens \in 0..Burst
  /\ stats \in [StatName -> 0..MaxLines]
  /\ forwarded \in Seq(LineNumber)
  /\ replies \in Seq([to : LineNumber, with : Output \union {Refusal}])
  /\ serverUp \in BOOLEAN
  /\ toServer \in Seq(LineNumber)
  /\ pending \in SUBSET LineNumber
  /\ fromServer \in Seq(Output)
  /\ notes \in 0..MaxNotes

Init ==
  /\ read = <<>>
  /\ pc = "reading"
  /\ checked = 0
  /\ tokens = Burst
  /\ stats = [s \in StatName |-> 0]
  /\ forwarded = <<>>
  /\ replies = <<>>
  /\ serverUp = TRUE
  /\ toServer = <<>>
  /\ pending = {}
  /\ fromServer = <<>>
  /\ notes = 0

-----------------------------------------------------------------------------
Current == Len(read)
CurrentLine == read[Current]
NextMember == CurrentLine[checked + 1]

(* Parsed, and neither empty nor holding anything but objects.             *)
WellFormed(line) == line # Malformed /\ line # <<>>

IsToolCall(m) == m.method = "tools/call"
HasToolCall(line) == \E i \in DOMAIN line : IsToolCall(line[i])

(* Mutant: a client response (an id without a method) counts as a request. *)
HasRequest_AnyId(line) == \E i \in DOMAIN line : line[i].id

(* The line gets an answer from a server that keeps to JSON-RPC: some      *)
(* member has an id and a method.                                          *)
HasRequest(line) == \E i \in DOMAIN line : line[i].id /\ line[i].method # "none"

Count(s) == stats' = [stats EXCEPT ![s] = @ + 1]

Reply(with) == replies' = Append(replies, [to |-> Current, with |-> with])

(* run(): the next non-empty line of stdin.                                *)
ReadLine ==
  /\ pc = "reading"
  /\ Len(read) < MaxLines
  /\ \E l \in Lines : read' = Append(read, l)
  /\ pc' = "checking"
  /\ checked' = 0
  /\ UNCHANGED <<tokens, stats, forwarded, replies, serverVars>>

(* The first two returns of handle_message: one error without an id.       *)
RejectMalformed ==
  /\ pc = "checking"
  /\ ~WellFormed(CurrentLine)
  /\ Count("blocked")
  /\ Reply(Refusal)
  /\ pc' = "reading"
  /\ UNCHANGED <<read, checked, tokens, forwarded, serverVars>>

Checking ==
  /\ pc = "checking"
  /\ WellFormed(CurrentLine)
  /\ checked < Len(CurrentLine)

(* A member that is not a tools/call is not inspected.                     *)
SkipMember ==
  /\ Checking
  /\ ~IsToolCall(NextMember)
  /\ checked' = checked + 1
  /\ UNCHANGED <<clientVars, pc, tokens, stats, forwarded, serverVars>>

(* Mutant: a detector failure lets the call through.                       *)
PassMember_FailOpen ==
  /\ Checking
  /\ IsToolCall(NextMember)
  /\ tokens > 0
  /\ NextMember.verdict # "block"
  /\ tokens' = tokens - 1
  /\ checked' = checked + 1
  /\ UNCHANGED <<clientVars, pc, stats, forwarded, serverVars>>

(* The limiter allows the call and _inspect says ALLOW.                    *)
PassMember ==
  /\ Checking
  /\ IsToolCall(NextMember)
  /\ tokens > 0
  /\ NextMember.verdict = "allow"
  /\ tokens' = tokens - 1
  /\ checked' = checked + 1
  /\ UNCHANGED <<clientVars, pc, stats, forwarded, serverVars>>

(* Mutant: only the member that failed is answered.                        *)
Refuse_OnlyTheCall ==
  /\ IF NextMember.id THEN Reply(Refusal) ELSE UNCHANGED replies
  /\ pc' = "reading"
  /\ UNCHANGED <<read, checked, forwarded, serverVars>>

(* A denial ends the line: an error for each member with an id, in one     *)
(* reply, or no reply when there is none.                                  *)
Refuse ==
  /\ IF \E i \in DOMAIN CurrentLine : CurrentLine[i].id
     THEN Reply(Refusal)
     ELSE UNCHANGED replies
  /\ pc' = "reading"
  /\ UNCHANGED <<read, checked, forwarded, serverVars>>

RateLimited ==
  /\ Checking
  /\ IsToolCall(NextMember)
  /\ tokens = 0
  /\ Count("rate_limited")
  /\ Refuse
  /\ UNCHANGED tokens

(* BLOCK, or INDETERMINATE: the detector failed, and the proxy fails       *)
(* closed.                                                                 *)
Denied ==
  /\ Checking
  /\ IsToolCall(NextMember)
  /\ tokens > 0
  /\ NextMember.verdict # "allow"
  /\ tokens' = tokens - 1
  /\ Count("blocked")
  /\ Refuse

AllChecked ==
  /\ pc = "checking"
  /\ WellFormed(CurrentLine)
  /\ checked = Len(CurrentLine)

(* Mutants: one-way lines are not counted; a batch is not waited for.      *)
Forward_CountsRequestsOnly ==
  /\ AllChecked
  /\ forwarded' = Append(forwarded, Current)
  /\ toServer' = IF serverUp THEN Append(toServer, Current) ELSE toServer
  /\ IF HasRequest(CurrentLine)
     THEN Count(IF HasToolCall(CurrentLine) THEN "allowed" ELSE "passthrough")
     ELSE UNCHANGED stats
  /\ pc' = IF HasRequest(CurrentLine) THEN "receiving" ELSE "reading"
  /\ UNCHANGED <<clientVars, checked, tokens, serverUp, pending, fromServer, notes>>
Forward_DoesNotAwaitBatch ==
  /\ AllChecked
  /\ forwarded' = Append(forwarded, Current)
  /\ toServer' = IF serverUp THEN Append(toServer, Current) ELSE toServer
  /\ Count(IF HasToolCall(CurrentLine) THEN "allowed" ELSE "passthrough")
  /\ pc' = IF HasRequest(CurrentLine) /\ Len(CurrentLine) = 1
           THEN "receiving" ELSE "reading"
  /\ UNCHANGED <<clientVars, checked, tokens, serverUp, pending, fromServer, notes>>

(* _transport.send and what follows it.  A line written to a server that   *)
(* has just exited is lost in the pipe.                                    *)
Forward ==
  /\ AllChecked
  /\ forwarded' = Append(forwarded, Current)
  /\ toServer' = IF serverUp THEN Append(toServer, Current) ELSE toServer
  /\ Count(IF HasToolCall(CurrentLine) THEN "allowed" ELSE "passthrough")
  /\ pc' = IF HasRequest(CurrentLine) THEN "receiving" ELSE "reading"
  /\ UNCHANGED <<clientVars, checked, tokens, serverUp, pending, fromServer, notes>>

(* send() raises; run() stops the proxy.                                   *)
SendFails ==
  /\ AllChecked
  /\ ~serverUp
  /\ pc' = "stopped"
  /\ UNCHANGED <<clientVars, checked, tokens, stats, forwarded, serverVars>>

(* Mutant: the buffer is thrown away with the line that was returned.      *)
Receive_DropsBuffer ==
  /\ pc = "receiving"
  /\ fromServer # <<>>
  /\ Reply(Head(fromServer))
  /\ fromServer' = <<>>
  /\ pc' = "reading"
  /\ UNCHANGED <<read, checked, tokens, stats, forwarded,
                 serverUp, toServer, pending, notes>>

(* receive() returns the next line of the server's output, whatever it is. *)
Receive ==
  /\ pc = "receiving"
  /\ fromServer # <<>>
  /\ Reply(Head(fromServer))
  /\ fromServer' = Tail(fromServer)
  /\ pc' = "reading"
  /\ UNCHANGED <<read, checked, tokens, stats, forwarded,
                 serverUp, toServer, pending, notes>>

(* "Downstream server closed stdout": the exception ends run().            *)
ReceiveFails ==
  /\ pc = "receiving"
  /\ ~serverUp
  /\ fromServer = <<>>
  /\ pc' = "stopped"
  /\ UNCHANGED <<clientVars, checked, tokens, stats, forwarded, serverVars>>

(* End of stdin: run() stops the proxy and with it the server.             *)
EndOfInput ==
  /\ pc = "reading"
  /\ pc' = "stopped"
  /\ UNCHANGED <<clientVars, checked, tokens, stats, forwarded, serverVars>>

(* Enough time passes for one more token (RateLimiter._refill).            *)
Refill ==
  /\ pc # "stopped"
  /\ tokens < Burst
  /\ tokens' = tokens + 1
  /\ UNCHANGED <<clientVars, pc, checked, stats, forwarded, serverVars>>

-----------------------------------------------------------------------------
(* The downstream server (external).                                       *)
proxyVars == <<clientVars, pc, checked, tokens, stats, forwarded>>

Answerable(line) == \E i \in DOMAIN line : line[i].id /\ line[i].method # "none"

ServerReads ==
  /\ serverUp /\ pc # "stopped"
  /\ toServer # <<>>
  /\ toServer' = Tail(toServer)
  /\ pending' = IF Answerable(read[Head(toServer)])
                THEN pending \union {Head(toServer)}
                ELSE pending
  /\ UNCHANGED <<proxyVars, serverUp, fromServer, notes>>

ServerAnswers(n) ==
  /\ serverUp /\ pc # "stopped"
  /\ n \in pending
  /\ pending' = pending \ {n}
  /\ fromServer' = Append(fromServer, n)
  /\ UNCHANGED <<proxyVars, serverUp, toServer, notes>>

ServerNotifies ==
  /\ serverUp /\ pc # "stopped"
  /\ notes < MaxNotes
  /\ notes' = notes + 1
  /\ fromServer' = Append(fromServer, Note)
  /\ UNCHANGED <<proxyVars, serverUp, toServer, pending>>

ServerExits ==
  /\ serverUp /\ pc # "stopped"
  /\ serverUp' = FALSE
  /\ toServer' = <<>>
  /\ pending' = {}
  /\ UNCHANGED <<proxyVars, fromServer, notes>>

Next ==
  \/ ReadLine \/ RejectMalformed
  \/ SkipMember \/ PassMember \/ RateLimited \/ Denied
  \/ Forward \/ SendFails
  \/ Receive \/ ReceiveFails
  \/ EndOfInput \/ Refill
  \/ ServerReads \/ (\E n \in LineNumber : ServerAnswers(n))
  \/ ServerNotifies \/ ServerExits

Spec == Init /\ [][Next]_vars

(* The proxy is one task that is never blocked but in receive(), and the   *)
(* server, while it runs, reads its input and answers what it has read.    *)
Fairness ==
  /\ WF_vars(RejectMalformed \/ SkipMember \/ PassMember \/ RateLimited \/ Denied)
  /\ WF_vars(Forward \/ SendFails)
  /\ WF_vars(Receive \/ ReceiveFails)
  /\ WF_vars(ServerReads)
  /\ \A n \in LineNumber : WF_vars(ServerAnswers(n))

FairSpec == Spec /\ Fairness

-----------------------------------------------------------------------------
(* A line reaches the server only if every tools/call in it was inspected  *)
(* and allowed: a batch is forwarded whole or not at all, and neither a    *)
(* failed detector nor a member late in the batch slips through.           *)
OnlyCleanLinesAreForwarded ==
  \A n \in ToSet(forwarded) :
    /\ WellFormed(read[n])
    /\ \A i \in DOMAIN read[n] :
         IsToolCall(read[n][i]) => read[n][i].verdict = "allow"

(* The client line is owed a reply: a refused line that is malformed or    *)
(* has any id, a forwarded line with a request.                            *)
NeedsReply(n) ==
  IF n \in ToSet(forwarded)
  THEN HasRequest(read[n])
  ELSE WellFormed(read[n]) => \E i \in DOMAIN read[n] : read[n][i].id

(* Each line gets the replies it is owed, in the order of the lines and    *)
(* never two: a line refused halfway through a batch is answered although  *)
(* some of its members were fine, and a one-way line is not answered.      *)
OneReplyPerLine ==
  pc = "reading" =>
    /\ \A i, j \in DOMAIN replies : i < j => replies[i].to < replies[j].to
    /\ {replies[i].to : i \in DOMAIN replies} = {n \in 1..Len(read) : NeedsReply(n)}

(* The counters account for every line exactly once and agree with what    *)
(* was forwarded.                                                          *)
StatsAccountForLines ==
  pc = "reading" =>
    /\ stats["allowed"] + stats["passthrough"] = Len(forwarded)
    /\ Len(forwarded) + stats["blocked"] + stats["rate_limited"] = Len(read)

(* The requests the server has been sent and has not answered.             *)
Unanswered == pending \union {n \in ToSet(toServer) : Answerable(read[n])}

(* Between two client lines, the answers the client has not been given are *)
(* exactly as many as the unsolicited lines the server has written: each   *)
(* one puts the proxy one answer behind, for good, and nothing else does.  *)
BacklogIsUnsolicitedOutput ==
  serverUp /\ pc = "reading" =>
    notes = Len(fromServer) + Cardinality(Unanswered)

(* The client never waits for ever: each line it writes is dealt with, or  *)
(* the proxy stops because the server is gone.                             *)
EveryLineIsHandled ==
  pc \in {"checking", "receiving"} ~> pc \in {"reading", "stopped"}

(* stdio_proxy.py:376: handle_message returns "Either an error (if         *)
(* blocked) or the real server response."  True of a server that writes    *)
(* nothing but answers; with one notification in between, every later      *)
(* request is given an answer that is not its own.                         *)
RepliesAreReal ==
  \A i \in DOMAIN replies : replies[i].with \in {Refusal, replies[i].to}

(* Until the server writes a line of its own, every reply is an error of   *)
(* the proxy or the answer to the line it replies to: no order of batches, *)
(* one-way lines, refusals and slow answers makes the proxy pair an answer *)
(* with the wrong request.                                                 *)
AnswersMatchRequests == notes = 0 => RepliesAreReal

(* Every line read is accounted for: in the replies the client gets and in *)
(* the counters (handle_message).                                          *)
LinesAreAccounted == TypeOK /\ OneReplyPerLine /\ StatsAccountForLines

(* Replies and requests stay paired, up to the lines the server writes of  *)
(* its own (send, then receive, with one pipe for both).                   *)
RepliesMatchLines == AnswersMatchRequests /\ BacklogIsUnsolicitedOutput
=============================================================================
