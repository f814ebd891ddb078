--------------------------- MODULE StdioProxyProofs ---------------------------
(***************************************************************************)
(* Proofs about the stdio proxy, for client lines of any kind and length,  *)
(* any bucket and any number of lines from the server.                     *)
(*                                                                         *)
(* That only clean lines are forwarded is inductive with what the loop of  *)
(* handle_message has established of the current line: its first `checked` *)
(* members are clean, and `checked` never runs past the line (LineInv).    *)
(* The lines read before do not change (ReadInv), so that a line that was  *)
(* clean when it was forwarded stays so.                                   *)
(*                                                                         *)
(* What the client sees rests on three more parts: each line is counted    *)
(* under one heading when it leaves "checking" (CountInv); the lines       *)
(* settled so far have exactly the replies they are owed, in order         *)
(* (RepliesInv); and a request is in one place at a time - in the pipe to  *)
(* the server, pending, or answered - so that the server owes the notes it *)
(* has written and, while the proxy waits, one line more (PairInv).        *)
(***************************************************************************)
EXTENDS StdioProxy, SequenceTheorems, FiniteSetTheorems, TLAPS

Clean(m) == IsToolCall(m) => m.verdict = "allow"

CleanLine(line) ==
  /\ WellFormed(line)
  /\ \A i \in DOMAIN line : Clean(line[i])

ReadInv ==
  /\ read \in Seq(Lines)
  /\ forwarded \in Seq(1..Len(read))
  /\ pc \in {"checking", "receiving"} => read # <<>>

LineInv ==
  /\ checked \in Nat
  /\ pc = "checking" /\ WellFormed(CurrentLine) =>
       /\ checked <= Len(CurrentLine)
       /\ \A i \in 1..checked : Clean(CurrentLine[i])

ForwardedInv == \A k \in DOMAIN forwarded : CleanLine(read[forwarded[k]])

IInv == ReadInv /\ LineInv /\ ForwardedInv

(* A line that is accepted as JSON is a sequence of members.               *)
LEMMA LineType ==
  ASSUME NEW line \in Lines, WellFormed(line)
  PROVE  line \in Seq(Member)
  BY ProxyAssumption DEF WellFormed

LEMMA CleanInit == Init => IInv
  BY DEF Init, IInv, ReadInv, LineInv, ForwardedInv

(* Reading a line leaves the lines read before as they are.                *)
LEMMA ReadLineStep ==
  ASSUME IInv, ReadLine
  PROVE  IInv'
<1>1. PICK l \in Lines : read' = Append(read, l)
  BY DEF ReadLine
<1>2. /\ read \in Seq(Lines) /\ Len(read) \in Nat
      /\ forwarded \in Seq(1..Len(read))
  BY DEF IInv, ReadInv
<1>3. /\ read' \in Seq(Lines) /\ Len(read') = Len(read) + 1 /\ read' # <<>>
      /\ \A i \in 1..Len(read) : read'[i] = read[i]
  BY <1>1, <1>2
<1>4. ReadInv'
  <2>1. \A k \in 1..Len(forwarded) : forwarded[k] \in 1..Len(read')
    BY <1>2, <1>3
  <2>2. forwarded \in Seq(1..Len(read'))
    BY <1>2, <2>1, SeqDef
  <2> QED
    BY <1>3, <2>2 DEF ReadInv, ReadLine
<1>5. LineInv'
  <2>1. checked' = 0
    BY DEF ReadLine
  <2>2. WellFormed(CurrentLine') => 0 <= Len(CurrentLine')
    <3>1. CurrentLine' \in Lines
      BY <1>2, <1>3 DEF CurrentLine, Current
    <3> QED
      BY <3>1, LineType
  <2> QED
    BY <2>1, <2>2 DEF LineInv, WellFormed
<1>6. ForwardedInv'
  BY <1>2, <1>3 DEF IInv, ForwardedInv, ReadLine
<1> QED
  BY <1>4, <1>5, <1>6 DEF IInv

(* A member that passes is no tool call, or was allowed.                   *)
LEMMA PassStep ==
  ASSUME IInv, SkipMember \/ PassMember
  PROVE  IInv'
<1>1. /\ Checking /\ Clean(NextMember) /\ checked' = checked + 1
      /\ UNCHANGED <<read, forwarded, pc>>
  BY DEF SkipMember, PassMember, Clean, clientVars
<1>2. CurrentLine' = CurrentLine
  BY <1>1 DEF CurrentLine, Current
<1>3. CurrentLine \in Seq(Member)
  BY <1>1, LineType DEF IInv, ReadInv, Checking, CurrentLine, Current
<1>4. LineInv'
  BY <1>1, <1>2, <1>3 DEF IInv, LineInv, Checking, NextMember, WellFormed
<1>5. ReadInv' /\ ForwardedInv'
  BY <1>1 DEF IInv, ReadInv, ForwardedInv
<1> QED
  BY <1>4, <1>5 DEF IInv

(* A line is forwarded when each of its members has passed.                *)
LEMMA ForwardStep ==
  ASSUME IInv, Forward
  PROVE  IInv'
<1>1. /\ AllChecked /\ forwarded' = Append(forwarded, Len(read))
      /\ read' = read /\ checked' = checked /\ pc' \in {"reading", "receiving"}
  BY DEF Forward, Current, clientVars
<1>2. /\ read \in Seq(Lines) /\ read # <<>> /\ Len(read) \in 1..Len(read)
      /\ forwarded \in Seq(1..Len(read))
  BY <1>1 DEF IInv, ReadInv, AllChecked
<1>3. CurrentLine \in Seq(Member)
  BY <1>1, <1>2, LineType DEF AllChecked, CurrentLine, Current
<1>4. CleanLine(read[Len(read)])
  BY <1>1, <1>3 DEF IInv, LineInv, AllChecked, CleanLine, CurrentLine, Current
<1>5. /\ forwarded' \in Seq(1..Len(read))
      /\ \A k \in DOMAIN forwarded' :
           forwarded'[k] = Len(read) \/ (k \in DOMAIN forwarded /\ forwarded'[k] = forwarded[k])
  BY <1>1, <1>2
<1>6. ReadInv'
  BY <1>1, <1>2, <1>5 DEF ReadInv
<1>7. LineInv'
  BY <1>1 DEF IInv, LineInv
<1>8. ForwardedInv'
  BY <1>1, <1>4, <1>5 DEF IInv, ForwardedInv
<1> QED
  BY <1>6, <1>7, <1>8 DEF IInv

LEMMA CleanStep == IInv /\ [Next]_vars => IInv'
<1> SUFFICES ASSUME IInv, [Next]_vars
             PROVE  IInv'
  OBVIOUS
<1>1. CASE ReadLine
  BY <1>1, ReadLineStep
<1>2. CASE SkipMember \/ PassMember
  BY <1>2, PassStep
<1>3. CASE Forward
  BY <1>3, ForwardStep
<1>4. ASSUME UNCHANGED <<read, checked, forwarded>>, pc' \in {pc, "reading", "stopped"}
      PROVE  IInv'
  BY <1>4 DEF IInv, ReadInv, LineInv, ForwardedInv, CurrentLine, Current
<1>5. CASE RejectMalformed \/ RateLimited \/ Denied \/ SendFails \/ Receive \/ ReceiveFails
           \/ EndOfInput
  <2>1. UNCHANGED <<read, checked, forwarded>> /\ pc' \in {pc, "reading", "stopped"}
    BY <1>5 DEF RejectMalformed, RateLimited, Denied, Refuse, SendFails, Receive, ReceiveFails,
                EndOfInput, clientVars
  <2> QED
    BY <2>1, <1>4
<1>6. CASE Refill \/ ServerReads \/ (\E n \in LineNumber : ServerAnswers(n))
           \/ ServerNotifies \/ ServerExits \/ UNCHANGED vars
  <2>1. UNCHANGED <<read, checked, forwarded, pc>>
    BY <1>6 DEF Refill, ServerReads, ServerAnswers, ServerNotifies, ServerExits, proxyVars,
                clientVars, vars
  <2> QED
    BY <2>1, <1>4
<1> QED
  BY <1>1, <1>2, <1>3, <1>5, <1>6 DEF Next

(* Whatever the lines, the rate limit and the server's output, a line      *)
(* reaches the server only if it is well formed and each tools/call in it  *)
(* was inspected and allowed (handle_message).                             *)
THEOREM ProxyForwardsCleanLines == Spec => []OnlyCleanLinesAreForwarded
<1>1. IInv => OnlyCleanLinesAreForwarded
  BY DEF IInv, ForwardedInv, OnlyCleanLinesAreForwarded, CleanLine, Clean, ToSet
<1> QED
  BY <1>1, CleanInit, CleanStep, PTL DEF Spec

-----------------------------------------------------------------------------
(* Types and counters.  The counters stay within the number of lines       *)
(* because each line is counted once: when it is refused, or forwarded.    *)

Counted == Len(forwarded) + stats["blocked"] + stats["rate_limited"]

CountInv ==
  /\ stats["allowed"] + stats["passthrough"] = Len(forwarded)
  /\ pc \in {"reading", "receiving"} => Counted = Len(read)
  /\ pc = "checking" => Counted + 1 = Len(read)
  /\ pc = "stopped" => Counted <= Len(read)

TypeInv == TypeOK /\ CountInv /\ IInv

(* A counter that is raised while a line is checked stays within bounds.   *)
LEMMA CountOne ==
  ASSUME TypeInv, pc = "checking", NEW s \in StatName, Count(s)
  PROVE  /\ stats' \in [StatName -> 0..MaxLines]
         /\ stats'[s] = stats[s] + 1
         /\ \A t \in StatName : t # s => stats'[t] = stats[t]
<1>1. /\ stats \in [StatName -> 0..MaxLines] /\ Len(forwarded) \in Nat
      /\ Len(read) \in Nat /\ Len(read) <= MaxLines
  BY DEF TypeInv, TypeOK
<1>2. stats' = [stats EXCEPT ![s] = stats[s] + 1]
  BY DEF Count
<1>3. /\ stats["allowed"] \in Nat /\ stats["passthrough"] \in Nat
      /\ stats["blocked"] \in Nat /\ stats["rate_limited"] \in Nat
  BY <1>1 DEF StatName
<1>4. /\ stats["allowed"] + stats["passthrough"] = Len(forwarded)
      /\ Len(forwarded) + stats["blocked"] + stats["rate_limited"] + 1 = Len(read)
  BY DEF TypeInv, CountInv, Counted
<1>5. stats[s] + 1 \in 0..MaxLines
  <2>1. MaxLines \in Nat
    BY ProxyAssumption
  <2> DEFINE a == stats["allowed"]
             p == stats["passthrough"]
             b == stats["blocked"]
             l == stats["rate_limited"]
             f == Len(forwarded)
             n == Len(read)
             x == stats[s]
  <2>2. x = a \/ x = p \/ x = b \/ x = l
    BY DEF StatName
  <2>3. /\ a \in Nat /\ p \in Nat /\ b \in Nat /\ l \in Nat /\ f \in Nat /\ n \in Nat
        /\ a + p = f /\ f + b + l + 1 = n /\ n <= MaxLines
    BY <1>1, <1>3, <1>4
  <2> HIDE DEF a, p, b, l, f, n, x
  <2>4. x + 1 \in 0..MaxLines
    BY <2>1, <2>2, <2>3
  <2> QED
    BY <2>4 DEF x
<1> QED
  BY <1>1, <1>2, <1>5

LEMMA ReplyType ==
  ASSUME TypeInv, read # <<>>, NEW with \in Output \union {Refusal}, Reply(with)
  PROVE  replies' \in Seq([to : LineNumber, with : Output \union {Refusal}])
<1>1. Current \in LineNumber
  BY ProxyAssumption, EmptySeq DEF TypeInv, TypeOK, Current, LineNumber
<1>2. [to |-> Current, with |-> with] \in [to : LineNumber, with : Output \union {Refusal}]
  BY <1>1
<1> QED
  BY <1>2 DEF TypeInv, TypeOK, Reply

LEMMA RefuseType ==
  ASSUME TypeInv, pc = "checking", Refuse
  PROVE  /\ replies' \in Seq([to : LineNumber, with : Output \union {Refusal}])
         /\ pc' = "reading" /\ UNCHANGED <<read, checked, forwarded, serverVars>>
<1>1. read # <<>>
  BY DEF TypeInv, IInv, ReadInv
<1>2. UNCHANGED replies \/ Reply(Refusal)
  BY DEF Refuse
<1> QED
  BY <1>1, <1>2, ReplyType DEF Refuse, TypeInv, TypeOK

LEMMA TypeStep ==
  ASSUME TypeInv, [Next]_vars
  PROVE  TypeOK' /\ CountInv'
<1> USE DEF clientVars, serverVars
<1>0. /\ Len(read) \in Nat /\ Len(forwarded) \in Nat /\ MaxLines \in Nat /\ Burst \in Nat
      /\ MaxNotes \in Nat /\ checked \in Nat /\ tokens \in 0..Burst
      /\ stats \in [StatName -> 0..MaxLines]
      /\ stats["allowed"] \in Nat /\ stats["passthrough"] \in Nat
      /\ stats["blocked"] \in Nat /\ stats["rate_limited"] \in Nat
  BY ProxyAssumption DEF TypeInv, TypeOK, StatName
<1>1. CASE ReadLine
  <2>1. PICK l \in Lines : read' = Append(read, l)
    BY <1>1 DEF ReadLine
  <2>2. read' \in Seq(Lines) /\ Len(read') = Len(read) + 1 /\ Len(read') <= MaxLines
    BY <1>0, <1>1, <2>1 DEF ReadLine, TypeInv, TypeOK
  <2>3. TypeOK'
    BY <1>1, <2>2 DEF ReadLine, TypeInv, TypeOK
  <2>4. Counted' = Len(read)
    BY <1>1 DEF ReadLine, TypeInv, CountInv, Counted
  <2>5. CountInv'
    BY <1>0, <1>1, <2>2, <2>4 DEF ReadLine, TypeInv, CountInv
  <2> QED
    BY <2>3, <2>5
<1>2. CASE RejectMalformed \/ RateLimited \/ Denied
  <2>1. pc = "checking" /\ read # <<>>
    BY <1>2 DEF RejectMalformed, RateLimited, Denied, Checking, TypeInv, IInv, ReadInv
  <2>2. /\ replies' \in Seq([to : LineNumber, with : Output \union {Refusal}])
        /\ pc' = "reading" /\ UNCHANGED <<read, checked, forwarded, serverVars>>
    BY <1>2, <2>1, RefuseType, ReplyType DEF RejectMalformed, RateLimited, Denied
  <2>3. PICK s \in {"blocked", "rate_limited"} : Count(s)
    BY <1>2 DEF RejectMalformed, RateLimited, Denied
  <2>4. s \in StatName
    BY DEF StatName
  <2>5. /\ stats' \in [StatName -> 0..MaxLines]
        /\ stats'[s] = stats[s] + 1
        /\ \A t \in StatName : t # s => stats'[t] = stats[t]
    BY <2>1, <2>3, <2>4, CountOne
  <2>6. tokens' \in 0..Burst
    BY <1>0, <1>2 DEF RejectMalformed, RateLimited, Denied
  <2>7. TypeOK'
    BY <2>2, <2>5, <2>6 DEF TypeInv, TypeOK
  <2>8. stats'["allowed"] = stats["allowed"] /\ stats'["passthrough"] = stats["passthrough"]
    BY <2>5 DEF StatName
  <2>9. stats'["blocked"] + stats'["rate_limited"] = stats["blocked"] + stats["rate_limited"] + 1
    <3>1. CASE s = "blocked"
      BY <1>0, <2>5, <3>1 DEF StatName
    <3>2. CASE s = "rate_limited"
      BY <1>0, <2>5, <3>2 DEF StatName
    <3> QED
      BY <3>1, <3>2
  <2>10. stats'["blocked"] \in Nat /\ stats'["rate_limited"] \in Nat
    BY <2>5 DEF StatName
  <2>11. CountInv'
    <3>1. Counted + 1 = Len(read) /\ stats["allowed"] + stats["passthrough"] = Len(forwarded)
      BY <2>1 DEF TypeInv, CountInv
    <3>2. Counted' = Counted + 1
      <4> DEFINE f == Len(forwarded)
                 b == stats["blocked"]
                 l == stats["rate_limited"]
                 newB == stats'["blocked"]
                 newL == stats'["rate_limited"]
      <4>1. /\ f \in Nat /\ b \in Nat /\ l \in Nat /\ newB \in Nat /\ newL \in Nat
            /\ newB + newL = b + l + 1
        BY <1>0, <2>9, <2>10
      <4>2. Counted' = f + newB + newL /\ Counted = f + b + l
        BY <2>2 DEF Counted
      <4> HIDE DEF f, b, l, newB, newL
      <4> QED
        BY <4>1, <4>2
    <3> QED
      BY <2>2, <2>8, <3>1, <3>2 DEF CountInv
  <2> QED
    BY <2>7, <2>11
<1>3. CASE SkipMember \/ PassMember
  <2>1. tokens' \in 0..Burst /\ checked' \in Nat
    BY <1>0, <1>3 DEF SkipMember, PassMember
  <2>2. UNCHANGED <<clientVars, pc, stats, forwarded, serverVars>>
    BY <1>3 DEF SkipMember, PassMember
  <2> QED
    BY <2>1, <2>2 DEF TypeInv, TypeOK, CountInv, Counted
<1>4. CASE Forward
  <2>1. pc = "checking" /\ read # <<>> /\ Len(read) \in LineNumber
    BY <1>0, <1>4, EmptySeq DEF Forward, AllChecked, TypeInv, TypeOK, IInv, ReadInv, LineNumber
  <2>2. PICK s \in {"allowed", "passthrough"} : Count(s)
    BY <1>4 DEF Forward
  <2>3. s \in StatName
    BY DEF StatName
  <2>4. /\ stats' \in [StatName -> 0..MaxLines]
        /\ stats'[s] = stats[s] + 1
        /\ \A t \in StatName : t # s => stats'[t] = stats[t]
    BY <2>1, <2>2, <2>3, CountOne
  <2>5. /\ forwarded' = Append(forwarded, Len(read))
        /\ toServer' = toServer \/ toServer' = Append(toServer, Len(read))
        /\ pc' \in {"reading", "receiving"}
        /\ UNCHANGED <<clientVars, checked, tokens, serverUp, pending, fromServer, notes>>
    BY <1>4 DEF Forward, Current
  <2>6. /\ forwarded' \in Seq(LineNumber) /\ Len(forwarded') = Len(forwarded) + 1
        /\ toServer' \in Seq(LineNumber)
    <3>1. forwarded \in Seq(LineNumber) /\ toServer \in Seq(LineNumber)
      BY DEF TypeInv, TypeOK
    <3>2. \A s1 \in Seq(LineNumber) : /\ Append(s1, Len(read)) \in Seq(LineNumber)
                                      /\ Len(Append(s1, Len(read))) = Len(s1) + 1
      BY <2>1
    <3> QED
      BY <2>5, <3>1, <3>2
  <2>7. TypeOK'
    BY <2>4, <2>5, <2>6 DEF TypeInv, TypeOK
  <2>8. stats'["blocked"] = stats["blocked"] /\ stats'["rate_limited"] = stats["rate_limited"]
    BY <2>4 DEF StatName
  <2>9. stats'["allowed"] + stats'["passthrough"] = stats["allowed"] + stats["passthrough"] + 1
    <3>1. CASE s = "allowed"
      BY <1>0, <2>4, <3>1 DEF StatName
    <3>2. CASE s = "passthrough"
      BY <1>0, <2>4, <3>2 DEF StatName
    <3> QED
      BY <3>1, <3>2
  <2>10. stats'["allowed"] \in Nat /\ stats'["passthrough"] \in Nat
    BY <2>4 DEF StatName
  <2>11. CountInv'
    <3>1. Counted + 1 = Len(read) /\ stats["allowed"] + stats["passthrough"] = Len(forwarded)
      BY <2>1 DEF TypeInv, CountInv
    <3>2. Counted' = Counted + 1
      BY <1>0, <2>6, <2>8 DEF Counted
    <3> QED
      BY <2>5, <2>6, <2>9, <3>1, <3>2 DEF CountInv
  <2> QED
    BY <2>7, <2>11
<1>5. CASE Receive
  <2>1. /\ fromServer \in Seq(Output) /\ fromServer # <<>> /\ pc = "receiving" /\ read # <<>>
    BY <1>5 DEF Receive, TypeInv, TypeOK, IInv, ReadInv
  <2>2. Head(fromServer) \in Output /\ fromServer' \in Seq(Output)
    BY <1>5, <2>1 DEF Receive
  <2>3. replies' \in Seq([to : LineNumber, with : Output \union {Refusal}])
    BY <1>5, <2>1, <2>2, ReplyType DEF Receive
  <2> QED
    BY <1>5, <2>1, <2>2, <2>3 DEF Receive, TypeInv, TypeOK, CountInv, Counted
<1>6. CASE SendFails \/ ReceiveFails \/ EndOfInput
  <2>1. /\ pc' = "stopped" /\ pc # "stopped"
        /\ UNCHANGED <<clientVars, checked, tokens, stats, forwarded, serverVars>>
    BY <1>6 DEF SendFails, ReceiveFails, EndOfInput, AllChecked
  <2>2. TypeOK'
    BY <2>1 DEF TypeInv, TypeOK
  <2>3. Counted <= Len(read) /\ Counted' = Counted /\ Len(read') = Len(read)
    BY <1>0, <2>1 DEF TypeInv, TypeOK, CountInv, Counted
  <2> QED
    BY <2>1, <2>2, <2>3 DEF TypeInv, CountInv
<1>7. CASE Refill
  BY <1>0, <1>7 DEF Refill, TypeInv, TypeOK, CountInv, Counted
<1>8. CASE ServerReads
  <2>1. toServer \in Seq(LineNumber) /\ toServer # <<>>
    BY <1>8 DEF ServerReads, TypeInv, TypeOK
  <2>2. Head(toServer) \in LineNumber /\ toServer' \in Seq(LineNumber)
    BY <1>8, <2>1 DEF ServerReads
  <2>3. pending' \in SUBSET LineNumber
    BY <1>8, <2>2 DEF ServerReads, TypeInv, TypeOK
  <2> QED
    BY <1>8, <2>2, <2>3 DEF ServerReads, TypeInv, TypeOK, CountInv, Counted, proxyVars
<1>9. ASSUME NEW n \in LineNumber, ServerAnswers(n)
      PROVE  TypeOK' /\ CountInv'
  <2>1. fromServer' \in Seq(Output) /\ pending' \in SUBSET LineNumber
    BY <1>9 DEF ServerAnswers, TypeInv, TypeOK, Output
  <2> QED
    BY <1>9, <2>1 DEF ServerAnswers, TypeInv, TypeOK, CountInv, Counted, proxyVars
<1>10. CASE ServerNotifies
  <2>1. fromServer' \in Seq(Output) /\ notes' \in 0..MaxNotes
    BY <1>0, <1>10 DEF ServerNotifies, TypeInv, TypeOK, Output
  <2> QED
    BY <1>10, <2>1 DEF ServerNotifies, TypeInv, TypeOK, CountInv, Counted, proxyVars
<1>11. CASE ServerExits
  <2>1. toServer' \in Seq(LineNumber) /\ pending' \in SUBSET LineNumber
    BY <1>11 DEF ServerExits
  <2> QED
    BY <1>11, <2>1 DEF ServerExits, TypeInv, TypeOK, CountInv, Counted, proxyVars
<1>12. CASE UNCHANGED vars
  BY <1>12 DEF vars, TypeInv, TypeOK, CountInv, Counted
<1> QED
  BY <1>1, <1>2, <1>3, <1>4, <1>5, <1>6, <1>7, <1>8, <1>9, <1>10, <1>11, <1>12 DEF Next

-----------------------------------------------------------------------------
(* Replies.  The lines settled so far have the replies they are owed; the  *)
(* line at hand has none yet.                                              *)

Settled == IF pc = "reading" THEN Len(read) ELSE Len(read) - 1

Replied == {replies[i].to : i \in DOMAIN replies}

InOrder == \A i, j \in DOMAIN replies : i < j => replies[i].to < replies[j].to

RepliesInv ==
  /\ InOrder
  /\ pc # "stopped" => Replied = {n \in 1..Settled : NeedsReply(n)}
  /\ pc = "checking" => Len(read) \notin ToSet(forwarded)
  /\ pc = "receiving" => Len(read) \in ToSet(forwarded) /\ HasRequest(CurrentLine)

ReplyRecord == [to : LineNumber, with : Output \union {Refusal}]

(* What a line is owed depends on the line and on whether it went on.      *)
LEMMA OwedAsBefore ==
  ASSUME NEW n, read'[n] = read[n], n \in ToSet(forwarded)' <=> n \in ToSet(forwarded)
  PROVE  NeedsReply(n)' <=> NeedsReply(n)
  BY DEF NeedsReply, HasRequest, WellFormed

LEMMA ReplyAppended ==
  ASSUME TypeInv, NEW with \in Output \union {Refusal}, Reply(with), read # <<>>,
         InOrder, \A n \in Replied : n < Len(read)
  PROVE  Replied' = Replied \union {Len(read)} /\ InOrder'
<1> DEFINE m == Len(replies)
           r == [to |-> Len(read), with |-> with]
<1>1. Len(read) \in LineNumber /\ Len(read) \in Nat
  BY ProxyAssumption, EmptySeq DEF TypeInv, TypeOK, LineNumber
<1>2. r \in ReplyRecord /\ r.to = Len(read)
  BY <1>1 DEF ReplyRecord
<1>3. replies \in Seq(ReplyRecord) /\ replies' = Append(replies, r)
  BY DEF TypeInv, TypeOK, ReplyRecord, Reply, Current
<1> HIDE DEF r
<1>4. /\ m \in Nat /\ DOMAIN replies = 1..m /\ DOMAIN replies' = 1..(m + 1)
      /\ \A i \in 1..m : replies'[i] = replies[i]
      /\ replies'[m + 1] = r
  BY <1>2, <1>3
<1> HIDE DEF m
<1>5. 1..(m + 1) = 1..m \union {m + 1}
  BY <1>4
<1>6. Replied' = Replied \union {Len(read)}
  BY <1>2, <1>4, <1>5 DEF Replied
<1>7. InOrder'
  <2> SUFFICES ASSUME NEW i \in 1..(m + 1), NEW j \in 1..(m + 1), i < j
               PROVE  replies'[i].to < replies'[j].to
    BY <1>4 DEF InOrder
  <2>1. i \in 1..m
    BY <1>4
  <2>2. CASE j = m + 1
    BY <1>2, <1>4, <2>1, <2>2 DEF Replied
  <2>3. CASE j # m + 1
    BY <1>4, <1>5, <2>1, <2>3 DEF InOrder
  <2> QED
    BY <2>2, <2>3
<1> QED
  BY <1>6, <1>7

(* The line at hand is settled: with a reply if it is owed one.            *)
LEMMA SettleStep ==
  ASSUME TypeInv, RepliesInv, pc \in {"checking", "receiving"}, pc' = "reading", read' = read,
         \A n \in 1..(Len(read) - 1) : NeedsReply(n)' <=> NeedsReply(n),
         \/ NeedsReply(Len(read))' /\ \E with \in Output \union {Refusal} : Reply(with)
         \/ ~NeedsReply(Len(read))' /\ UNCHANGED replies
  PROVE  RepliesInv'
<1>1. read # <<>> /\ Len(read) \in Nat \ {0}
  BY EmptySeq DEF TypeInv, TypeOK, IInv, ReadInv
<1>2. Replied = {n \in 1..(Len(read) - 1) : NeedsReply(n)}
  BY DEF RepliesInv, Settled
<1>3. \A n \in Replied : n < Len(read)
  BY <1>1, <1>2
<1>4. 1..Len(read) = 1..(Len(read) - 1) \union {Len(read)}
  BY <1>1
<1>5. InOrder' /\ Replied' = {n \in 1..Len(read) : NeedsReply(n)'}
  <2>1. CASE NeedsReply(Len(read))' /\ \E with \in Output \union {Refusal} : Reply(with)
    <3>1. Replied' = Replied \union {Len(read)} /\ InOrder'
      BY <1>1, <1>3, <2>1, ReplyAppended DEF RepliesInv
    <3> QED
      BY <1>2, <1>4, <2>1, <3>1
  <2>2. CASE ~NeedsReply(Len(read))' /\ UNCHANGED replies
    <3>1. Replied' = Replied /\ InOrder'
      BY <2>2 DEF RepliesInv, InOrder, Replied
    <3> QED
      BY <1>2, <1>4, <2>2, <3>1
  <2> QED
    BY <2>1, <2>2
<1> QED
  BY <1>5 DEF RepliesInv, Settled

(* Nothing that replies are about changes.                                 *)
LEMMA RepliesStill ==
  ASSUME RepliesInv, UNCHANGED <<read, replies, forwarded>>, pc' \in {pc, "stopped"}
  PROVE  RepliesInv'
<1>1. \A n : NeedsReply(n)' <=> NeedsReply(n)
  BY OwedAsBefore DEF ToSet
<1>2. InOrder' /\ Replied' = Replied
  BY DEF RepliesInv, InOrder, Replied
<1>3. CASE pc' = "stopped"
  BY <1>2, <1>3 DEF RepliesInv
<1>4. CASE pc' = pc
  BY <1>1, <1>2, <1>4 DEF RepliesInv, Settled, ToSet, HasRequest, CurrentLine, Current
<1> QED
  BY <1>3, <1>4

LEMMA RepliesStep ==
  ASSUME TypeInv, RepliesInv, [Next]_vars
  PROVE  RepliesInv'
<1> USE DEF clientVars, serverVars
<1>1. CASE ReadLine
  <2>1. PICK l \in Lines : read' = Append(read, l)
    BY <1>1 DEF ReadLine
  <2>2. /\ read \in Seq(Lines) /\ Len(read) \in Nat /\ Len(read') = Len(read) + 1
        /\ \A n \in 1..Len(read) : read'[n] = read[n]
    BY <2>1 DEF TypeInv, TypeOK
  <2>3. pc = "reading" /\ pc' = "checking" /\ UNCHANGED <<replies, forwarded>>
    BY <1>1 DEF ReadLine
  <2>4. \A n \in 1..Len(read) : NeedsReply(n)' <=> NeedsReply(n)
    BY <2>2, <2>3, OwedAsBefore DEF ToSet
  <2>5. Settled = Len(read) /\ Settled' = Len(read)
    BY <2>2, <2>3 DEF Settled
  <2>6. InOrder' /\ Replied' = Replied
    BY <2>3 DEF RepliesInv, InOrder, Replied
  <2>7. Replied' = {n \in 1..Settled' : NeedsReply(n)'}
    BY <2>3, <2>4, <2>5, <2>6 DEF RepliesInv
  <2>8. Len(read') \notin ToSet(forwarded)'
    <3>1. \A k \in DOMAIN forwarded : forwarded[k] \in 1..Len(read)
      BY DEF TypeInv, IInv, ReadInv
    <3> QED
      BY <2>2, <2>3, <3>1 DEF ToSet
  <2> QED
    BY <2>3, <2>6, <2>7, <2>8 DEF RepliesInv
<1>2. CASE RejectMalformed \/ RateLimited \/ Denied
  <2>1. pc = "checking" /\ pc' = "reading" /\ UNCHANGED <<read, forwarded>>
    BY <1>2 DEF RejectMalformed, RateLimited, Denied, Checking, Refuse
  <2>2. \A n : NeedsReply(n)' <=> NeedsReply(n)
    BY <2>1, OwedAsBefore DEF ToSet
  <2>3. NeedsReply(Len(read)) <=>
           (WellFormed(CurrentLine) => \E i \in DOMAIN CurrentLine : CurrentLine[i].id)
    BY <2>1 DEF RepliesInv, NeedsReply, CurrentLine, Current
  <2>4. \/ NeedsReply(Len(read)) /\ Reply(Refusal)
        \/ ~NeedsReply(Len(read)) /\ UNCHANGED replies
    BY <1>2, <2>3 DEF RejectMalformed, RateLimited, Denied, Checking, Refuse
  <2> QED
    BY <2>1, <2>2, <2>4, SettleStep
<1>3. CASE Forward
  <2>1. /\ pc = "checking" /\ read' = read /\ UNCHANGED replies
        /\ forwarded' = Append(forwarded, Len(read))
        /\ pc' = IF HasRequest(CurrentLine) THEN "receiving" ELSE "reading"
    BY <1>3 DEF Forward, AllChecked, Current
  <2>2. forwarded \in Seq(LineNumber) /\ Len(read) \in LineNumber /\ Len(read) \in Nat
    <3>1. read # <<>> /\ read \in Seq(Lines) /\ Len(read) <= MaxLines
      BY <2>1 DEF TypeInv, TypeOK, IInv, ReadInv
    <3> QED
      BY <3>1, ProxyAssumption, EmptySeq DEF TypeInv, TypeOK, LineNumber
  <2>3. ToSet(forwarded)' = ToSet(forwarded) \union {Len(read)}
    <3> DEFINE m == Len(forwarded)
    <3>1. /\ m \in Nat /\ DOMAIN forwarded = 1..m /\ DOMAIN forwarded' = 1..(m + 1)
          /\ \A i \in 1..m : forwarded'[i] = forwarded[i]
          /\ forwarded'[m + 1] = Len(read)
      BY <2>1, <2>2
    <3> HIDE DEF m
    <3>2. 1..(m + 1) = 1..m \union {m + 1}
      BY <3>1
    <3> QED
      BY <3>1, <3>2 DEF ToSet
  <2>4. \A n \in 1..(Len(read) - 1) : NeedsReply(n)' <=> NeedsReply(n)
    <3> SUFFICES ASSUME NEW n \in 1..(Len(read) - 1)
                 PROVE  NeedsReply(n)' <=> NeedsReply(n)
      OBVIOUS
    <3>1. n # Len(read)
      BY <2>2
    <3> QED
      BY <2>1, <2>3, <3>1, OwedAsBefore
  <2>5. CASE ~HasRequest(CurrentLine)
    <3>1. ~NeedsReply(Len(read))'
      BY <2>1, <2>3, <2>5 DEF NeedsReply, HasRequest, CurrentLine, Current
    <3> QED
      BY <2>1, <2>4, <2>5, <3>1, SettleStep
  <2>6. CASE HasRequest(CurrentLine)
    <3>1. pc' = "receiving" /\ Settled' = Len(read) - 1 /\ Settled = Len(read) - 1
      BY <2>1, <2>6 DEF Settled
    <3>2. InOrder' /\ Replied' = Replied
      BY <2>1 DEF RepliesInv, InOrder, Replied
    <3>3. Replied' = {n \in 1..Settled' : NeedsReply(n)'}
      BY <2>1, <2>4, <3>1, <3>2 DEF RepliesInv
    <3>4. Len(read') \in ToSet(forwarded)' /\ HasRequest(CurrentLine)'
      BY <2>1, <2>3, <2>6 DEF HasRequest, CurrentLine, Current
    <3> QED
      BY <3>1, <3>2, <3>3, <3>4 DEF RepliesInv
  <2> QED
    BY <2>5, <2>6
<1>4. CASE Receive
  <2>1. pc = "receiving" /\ pc' = "reading" /\ UNCHANGED <<read, forwarded>>
    BY <1>4 DEF Receive
  <2>2. \A n : NeedsReply(n)' <=> NeedsReply(n)
    BY <2>1, OwedAsBefore DEF ToSet
  <2>3. NeedsReply(Len(read))
    BY <2>1 DEF RepliesInv, NeedsReply, CurrentLine, Current
  <2>4. Reply(Head(fromServer)) /\ Head(fromServer) \in Output
    BY <1>4 DEF Receive, TypeInv, TypeOK
  <2> QED
    BY <2>1, <2>2, <2>3, <2>4, SettleStep
<1>5. CASE SkipMember \/ PassMember \/ SendFails \/ ReceiveFails \/ EndOfInput \/ Refill
           \/ ServerReads \/ (\E n \in LineNumber : ServerAnswers(n)) \/ ServerNotifies
           \/ ServerExits \/ UNCHANGED vars
  <2>1. UNCHANGED <<read, replies, forwarded>> /\ pc' \in {pc, "stopped"}
    BY <1>5 DEF SkipMember, PassMember, SendFails, ReceiveFails, EndOfInput, Refill, ServerReads,
                ServerAnswers, ServerNotifies, ServerExits, proxyVars, vars
  <2> QED
    BY <2>1, RepliesStill
<1> QED
  BY <1>1, <1>2, <1>3, <1>4, <1>5 DEF Next

-----------------------------------------------------------------------------
(* Answers.  A request is in one place at a time: in the pipe to the       *)
(* server, pending, or answered.  What is owed is the notes the server has *)
(* written and, while the proxy waits, one more; as long as it has written *)
(* none, that one is the answer to the line at hand.                       *)

QueueInv ==
  /\ pending \subseteq 1..Len(read) /\ ToSet(toServer) \subseteq 1..Len(read)
  /\ ~serverUp => toServer = <<>> /\ pending = {}
  /\ \A i, j \in DOMAIN toServer : toServer[i] = toServer[j] => i = j
  /\ pending \intersect ToSet(toServer) = {}
  /\ pc = "checking" => Len(read) \notin pending \union ToSet(toServer)

Backlog == Len(fromServer) + Cardinality(Unanswered)

Awaited == IF pc = "receiving" THEN 1 ELSE 0

BacklogInv ==
  pc # "stopped" => /\ Backlog <= notes + Awaited
                    /\ serverUp => Backlog = notes + Awaited

OwnInv ==
  /\ notes = 0 /\ pc # "stopped" =>
       /\ \A n \in Unanswered : n = Len(read)
       /\ \A k \in DOMAIN fromServer : fromServer[k] = Len(read)
  /\ AnswersMatchRequests

PairInv == QueueInv /\ BacklogInv /\ OwnInv

LEMMA UnansweredFinite ==
  ASSUME TypeInv, QueueInv
  PROVE  /\ Unanswered \subseteq 1..Len(read) /\ IsFiniteSet(Unanswered)
         /\ Cardinality(Unanswered) \in Nat /\ Len(fromServer) \in Nat /\ notes \in Nat
<1>1. Unanswered \subseteq 1..Len(read)
  BY DEF QueueInv, Unanswered
<1>2. Len(read) \in Nat /\ Len(fromServer) \in Nat /\ notes \in Nat
  BY ProxyAssumption DEF TypeInv, TypeOK
<1>3. IsFiniteSet(1..Len(read))
  BY <1>2, FS_Interval
<1> QED
  BY <1>1, <1>2, <1>3, FS_Subset, FS_CardinalityType

(* The server owes nothing between two lines, unless it has written notes. *)
LEMMA NothingOwed ==
  ASSUME TypeInv, QueueInv, BacklogInv, notes = 0, pc \in {"reading", "checking"}
  PROVE  Unanswered = {} /\ fromServer = <<>>
<1>1. /\ IsFiniteSet(Unanswered) /\ Cardinality(Unanswered) \in Nat /\ Len(fromServer) \in Nat
  BY UnansweredFinite
<1>2. Len(fromServer) + Cardinality(Unanswered) <= 0
  BY DEF BacklogInv, Backlog, Awaited
<1>3. Len(fromServer) = 0 /\ Cardinality(Unanswered) = 0
  BY <1>1, <1>2
<1> QED
  BY <1>1, <1>3, FS_EmptySet, EmptySeq DEF TypeInv, TypeOK

(* Nothing that the pairing is about changes.                              *)
LEMMA PairStill ==
  ASSUME TypeInv, PairInv, read' = read, serverVars' = serverVars,
         \/ pc' = pc \/ pc' = "stopped"
         \/ pc = "checking" /\ pc' = "reading",
         replies' = replies \/ Reply(Refusal)
  PROVE  PairInv'
<1> USE DEF serverVars
<1>1. Unanswered' = Unanswered
  BY DEF Unanswered, Answerable, ToSet
<1>2. QueueInv'
  BY DEF PairInv, QueueInv, ToSet
<1>3. BacklogInv'
  BY <1>1 DEF PairInv, BacklogInv, Backlog, Awaited
<1>4. AnswersMatchRequests'
  <2>1. CASE replies' = replies
    BY <2>1 DEF PairInv, OwnInv, AnswersMatchRequests, RepliesAreReal
  <2>2. CASE Reply(Refusal)
    <3>1. replies' = Append(replies, [to |-> Current, with |-> Refusal])
      BY <2>2 DEF Reply
    <3>2. \A i \in DOMAIN replies' : \/ i \in DOMAIN replies /\ replies'[i] = replies[i]
                                     \/ replies'[i].with = Refusal
      BY <3>1 DEF TypeInv, TypeOK
    <3> QED
      BY <3>2 DEF PairInv, OwnInv, AnswersMatchRequests, RepliesAreReal
  <2> QED
    BY <2>1, <2>2
<1>5. OwnInv'
  BY <1>1, <1>4 DEF PairInv, OwnInv
<1> QED
  BY <1>2, <1>3, <1>5 DEF PairInv

LEMMA PairReadLine ==
  ASSUME TypeInv, PairInv, ReadLine
  PROVE  PairInv'
<1>1. PICK l \in Lines : read' = Append(read, l)
  BY DEF ReadLine
<1>2. /\ Len(read) \in Nat /\ Len(read') = Len(read) + 1
      /\ \A n \in 1..Len(read) : read'[n] = read[n]
  BY <1>1 DEF TypeInv, TypeOK
<1>3. pc = "reading" /\ pc' = "checking" /\ UNCHANGED <<replies, serverVars>>
  BY DEF ReadLine
<1> USE DEF serverVars
<1>4. QueueInv'
  BY <1>2, <1>3 DEF PairInv, QueueInv, ToSet
<1>5. Unanswered' = Unanswered
  <2>1. pending' = pending /\ ToSet(toServer)' = ToSet(toServer)
    BY <1>3 DEF ToSet
  <2>2. \A n \in ToSet(toServer) : read'[n] = read[n]
    BY <1>2 DEF PairInv, QueueInv
  <2>3. \A n \in ToSet(toServer) : Answerable(read'[n]) = Answerable(read[n])
    BY <2>2 DEF Answerable
  <2> QED
    BY <2>1, <2>3 DEF Unanswered
<1>6. BacklogInv'
  BY <1>3, <1>5 DEF PairInv, BacklogInv, Backlog, Awaited
<1>7. OwnInv'
  <2>1. AnswersMatchRequests'
    BY <1>3 DEF PairInv, OwnInv, AnswersMatchRequests, RepliesAreReal
  <2>2. notes' = 0 => Unanswered' = {} /\ fromServer' = <<>>
    BY <1>3, <1>5, NothingOwed DEF PairInv
  <2> QED
    BY <2>1, <2>2 DEF OwnInv
<1> QED
  BY <1>4, <1>6, <1>7 DEF PairInv

LEMMA PairForward ==
  ASSUME TypeInv, PairInv, Forward
  PROVE  PairInv'
<1> DEFINE n == Len(read)
<1>1. /\ pc = "checking" /\ UNCHANGED <<read, replies, serverUp, pending, fromServer, notes>>
      /\ toServer' = IF serverUp THEN Append(toServer, n) ELSE toServer
      /\ pc' = IF HasRequest(CurrentLine) THEN "receiving" ELSE "reading"
  BY DEF Forward, AllChecked, Current, clientVars
<1>2. toServer \in Seq(LineNumber) /\ n \in LineNumber /\ n \in Nat /\ n \in 1..n
  <2>1. read # <<>> /\ read \in Seq(Lines) /\ Len(read) <= MaxLines
    BY <1>1 DEF TypeInv, TypeOK, IInv, ReadInv
  <2> QED
    BY <2>1, ProxyAssumption, EmptySeq DEF TypeInv, TypeOK, LineNumber
<1>3. HasRequest(CurrentLine) <=> Answerable(read[n])
  BY DEF HasRequest, Answerable, CurrentLine, Current
<1>4. n \notin pending \union ToSet(toServer) /\ n \notin Unanswered
  BY <1>1 DEF PairInv, QueueInv, Unanswered
<1>5. serverUp => /\ ToSet(toServer)' = ToSet(toServer) \union {n}
                  /\ \A i, j \in DOMAIN toServer' : toServer'[i] = toServer'[j] => i = j
  <2> SUFFICES ASSUME serverUp
               PROVE  /\ ToSet(toServer)' = ToSet(toServer) \union {n}
                      /\ \A i, j \in DOMAIN toServer' : toServer'[i] = toServer'[j] => i = j
    OBVIOUS
  <2> DEFINE m == Len(toServer)
  <2>1. /\ m \in Nat /\ DOMAIN toServer = 1..m /\ DOMAIN toServer' = 1..(m + 1)
        /\ \A i \in 1..m : toServer'[i] = toServer[i]
        /\ toServer'[m + 1] = n
    BY <1>1, <1>2
  <2>2. \A i, j \in 1..m : toServer[i] = toServer[j] => i = j
    BY <2>1 DEF PairInv, QueueInv
  <2>3. \A i \in 1..m : toServer[i] # n
    BY <1>4, <2>1 DEF ToSet
  <2> HIDE DEF m, n
  <2>4. 1..(m + 1) = 1..m \union {m + 1}
    BY <2>1
  <2>5. ToSet(toServer)' = ToSet(toServer) \union {n}
    BY <2>1, <2>4 DEF ToSet
  <2>6. \A i, j \in DOMAIN toServer' : toServer'[i] = toServer'[j] => i = j
    BY <2>1, <2>2, <2>3, <2>4
  <2> QED
    BY <2>5, <2>6
<1>6. QueueInv'
  BY <1>1, <1>2, <1>4, <1>5 DEF PairInv, QueueInv, ToSet
<1>7. Unanswered' = IF serverUp /\ Answerable(read[n]) THEN Unanswered \union {n} ELSE Unanswered
  <2>1. CASE serverUp
    BY <1>1, <1>5, <2>1 DEF Unanswered, Answerable
  <2>2. CASE ~serverUp
    BY <1>1, <2>2 DEF Unanswered, Answerable, ToSet
  <2> QED
    BY <2>1, <2>2
<1>8. /\ IsFiniteSet(Unanswered) /\ Cardinality(Unanswered) \in Nat /\ Len(fromServer) \in Nat
      /\ notes \in Nat
  BY UnansweredFinite DEF PairInv
<1>9. Cardinality(Unanswered \union {n}) = Cardinality(Unanswered) + 1
  BY <1>4, <1>8, FS_AddElement
<1>10. BacklogInv'
  <2>1. /\ Len(fromServer) + Cardinality(Unanswered) <= notes
        /\ serverUp => Len(fromServer) + Cardinality(Unanswered) = notes
    BY <1>1, <1>8 DEF PairInv, BacklogInv, Backlog, Awaited
  <2>2. CASE Answerable(read[n])
    <3>1. Awaited' = 1
      BY <1>1, <1>3, <2>2 DEF Awaited
    <3>2. CASE serverUp
      <4>1. Backlog' = Len(fromServer) + (Cardinality(Unanswered) + 1)
        BY <1>1, <1>7, <1>9, <2>2, <3>2 DEF Backlog
      <4> QED
        BY <1>1, <1>8, <2>1, <3>1, <3>2, <4>1 DEF BacklogInv
    <3>3. CASE ~serverUp
      <4>1. Backlog' = Len(fromServer) + Cardinality(Unanswered)
        BY <1>1, <1>7, <3>3 DEF Backlog
      <4> QED
        BY <1>1, <1>8, <2>1, <3>1, <3>3, <4>1 DEF BacklogInv
    <3> QED
      BY <3>2, <3>3
  <2>3. CASE ~Answerable(read[n])
    <3>1. Awaited' = 0
      BY <1>1, <1>3, <2>3 DEF Awaited
    <3>2. Backlog' = Len(fromServer) + Cardinality(Unanswered)
      BY <1>1, <1>7, <2>3 DEF Backlog
    <3> QED
      BY <1>1, <1>8, <2>1, <3>1, <3>2 DEF BacklogInv
  <2> QED
    BY <2>2, <2>3
<1>11. OwnInv'
  <2>1. AnswersMatchRequests'
    BY <1>1 DEF PairInv, OwnInv, AnswersMatchRequests, RepliesAreReal
  <2>2. notes' = 0 => Unanswered = {} /\ fromServer' = <<>>
    BY <1>1, NothingOwed DEF PairInv
  <2>3. notes' = 0 => \A k \in Unanswered' : k = n
    BY <1>7, <2>2
  <2> QED
    BY <1>1, <2>1, <2>2, <2>3 DEF OwnInv
<1> QED
  BY <1>6, <1>10, <1>11 DEF PairInv

LEMMA PairReceive ==
  ASSUME TypeInv, PairInv, Receive
  PROVE  PairInv'
<1>1. /\ pc = "receiving" /\ pc' = "reading" /\ fromServer # <<>>
      /\ fromServer' = Tail(fromServer) /\ Reply(Head(fromServer))
      /\ UNCHANGED <<read, serverUp, toServer, pending, notes>>
  BY DEF Receive
<1>2. fromServer \in Seq(Output) /\ replies \in Seq(ReplyRecord)
  BY DEF TypeInv, TypeOK, ReplyRecord
<1>3. /\ Len(fromServer) \in Nat /\ Len(fromServer') = Len(fromServer) - 1
      /\ \A k \in DOMAIN fromServer' : k + 1 \in DOMAIN fromServer /\ fromServer'[k] = fromServer[k + 1]
      /\ 1 \in DOMAIN fromServer /\ Head(fromServer) = fromServer[1]
  BY <1>1, <1>2
<1>4. QueueInv'
  BY <1>1 DEF PairInv, QueueInv, ToSet
<1>5. Unanswered' = Unanswered
  BY <1>1 DEF Unanswered, Answerable, ToSet
<1>6. Cardinality(Unanswered) \in Nat /\ notes \in Nat
  BY UnansweredFinite DEF PairInv
<1>7. BacklogInv'
  <2>1. /\ Len(fromServer) + Cardinality(Unanswered) <= notes + 1
        /\ serverUp => Len(fromServer) + Cardinality(Unanswered) = notes + 1
    BY <1>1 DEF PairInv, BacklogInv, Backlog, Awaited
  <2>2. Awaited' = 0 /\ Backlog' = Len(fromServer) - 1 + Cardinality(Unanswered)
    BY <1>1, <1>3, <1>5 DEF Awaited, Backlog
  <2> QED
    BY <1>1, <1>3, <1>6, <2>1, <2>2 DEF BacklogInv
<1>8. OwnInv'
  <2>1. CASE notes # 0
    BY <1>1, <2>1 DEF OwnInv, AnswersMatchRequests
  <2>2. CASE notes = 0
    <3>1. /\ \A n \in Unanswered' : n = Len(read)
          /\ \A k \in DOMAIN fromServer' : fromServer'[k] = Len(read)
          /\ Head(fromServer) = Len(read)
      BY <1>1, <1>3, <1>5, <2>2 DEF PairInv, OwnInv
    <3>2. replies' = Append(replies, [to |-> Len(read), with |-> Len(read)])
      BY <1>1, <3>1 DEF Reply, Current
    <3>3. \A i \in DOMAIN replies' : \/ i \in DOMAIN replies /\ replies'[i] = replies[i]
                                     \/ replies'[i].with = replies'[i].to
      BY <1>2, <3>2
    <3>4. AnswersMatchRequests'
      BY <1>1, <2>2, <3>3 DEF PairInv, OwnInv, AnswersMatchRequests, RepliesAreReal
    <3> QED
      BY <1>1, <3>1, <3>4 DEF OwnInv
  <2> QED
    BY <2>1, <2>2
<1> QED
  BY <1>4, <1>7, <1>8 DEF PairInv

(* The server takes a line from its input.                                 *)
LEMMA PairServerReads ==
  ASSUME TypeInv, PairInv, ServerReads
  PROVE  PairInv'
<1> DEFINE h == Head(toServer)
           m == Len(toServer)
<1>1. /\ UNCHANGED <<read, replies, pc, serverUp, fromServer, notes>> /\ serverUp
      /\ toServer # <<>> /\ toServer' = Tail(toServer)
      /\ pending' = IF Answerable(read[h]) THEN pending \union {h} ELSE pending
  BY DEF ServerReads, proxyVars, clientVars
<1>2. toServer \in Seq(LineNumber)
  BY DEF TypeInv, TypeOK
<1>3. /\ m \in Nat \ {0} /\ DOMAIN toServer = 1..m /\ DOMAIN toServer' = 1..(m - 1)
      /\ h = toServer[1]
      /\ \A k \in 1..(m - 1) : toServer'[k] = toServer[k + 1]
  BY <1>1, <1>2
<1>4. \A i, j \in 1..m : toServer[i] = toServer[j] => i = j
  BY <1>3 DEF PairInv, QueueInv
<1>5. /\ pending \intersect ToSet(toServer) = {}
      /\ pending \subseteq 1..Len(read) /\ ToSet(toServer) \subseteq 1..Len(read)
      /\ pc = "checking" => Len(read) \notin pending \union ToSet(toServer)
  BY DEF PairInv, QueueInv
<1> HIDE DEF h, m
<1>6. /\ h \in ToSet(toServer) /\ h \notin ToSet(toServer)'
      /\ ToSet(toServer) = ToSet(toServer)' \union {h}
  <2>1. 1 \in 1..m /\ \A k \in 1..(m - 1) : k + 1 \in 1..m /\ k + 1 # 1
    BY <1>3
  <2>2. \A k \in 1..m : k = 1 \/ (k - 1 \in 1..(m - 1) /\ (k - 1) + 1 = k)
    BY <1>3
  <2>3. h \in ToSet(toServer)
    BY <1>3, <2>1 DEF ToSet
  <2>4. \A k \in 1..(m - 1) : toServer'[k] # h /\ toServer'[k] \in ToSet(toServer)
    BY <1>3, <1>4, <2>1 DEF ToSet
  <2>5. \A k \in 1..m : toServer[k] = h \/ \E l \in 1..(m - 1) : toServer[k] = toServer'[l]
    BY <1>3, <2>2
  <2>6. ToSet(toServer)' = {toServer'[k] : k \in 1..(m - 1)}
        /\ ToSet(toServer) = {toServer[k] : k \in 1..m}
    BY <1>3 DEF ToSet
  <2> QED
    BY <2>3, <2>4, <2>5, <2>6
<1>7. \A i, j \in DOMAIN toServer' : toServer'[i] = toServer'[j] => i = j
  <2> SUFFICES ASSUME NEW i \in 1..(m - 1), NEW j \in 1..(m - 1), toServer'[i] = toServer'[j]
               PROVE  i = j
    BY <1>3
  <2>1. i + 1 \in 1..m /\ j + 1 \in 1..m /\ toServer[i + 1] = toServer[j + 1]
    BY <1>3
  <2>2. i + 1 = j + 1
    BY <1>4, <2>1
  <2> QED
    BY <1>3, <2>2
<1>8. QueueInv'
  BY <1>1, <1>5, <1>6, <1>7 DEF QueueInv
<1>9. Unanswered' = Unanswered
  BY <1>1, <1>6 DEF Unanswered, Answerable
<1>10. BacklogInv'
  BY <1>1, <1>9 DEF PairInv, BacklogInv, Backlog, Awaited
<1>11. OwnInv'
  BY <1>1, <1>9 DEF PairInv, OwnInv, AnswersMatchRequests, RepliesAreReal
<1> QED
  BY <1>8, <1>10, <1>11 DEF PairInv

(* The server answers one of the requests it has read.                     *)
LEMMA PairServerAnswers ==
  ASSUME TypeInv, PairInv, NEW n \in LineNumber, ServerAnswers(n)
  PROVE  PairInv'
<1>1. /\ UNCHANGED <<read, replies, pc, serverUp, toServer, notes>> /\ serverUp /\ pc # "stopped"
      /\ n \in pending /\ pending' = pending \ {n} /\ fromServer' = Append(fromServer, n)
  BY DEF ServerAnswers, proxyVars, clientVars
<1>2. fromServer \in Seq(Output) /\ n \in Output
  BY DEF TypeInv, TypeOK, Output
<1>3. /\ Len(fromServer') = Len(fromServer) + 1
      /\ \A k \in DOMAIN fromServer' : \/ k \in DOMAIN fromServer /\ fromServer'[k] = fromServer[k]
                                       \/ fromServer'[k] = n
  BY <1>1, <1>2
<1>4. QueueInv'
  BY <1>1 DEF PairInv, QueueInv, ToSet
<1>5. n \in Unanswered /\ Unanswered' = Unanswered \ {n}
  <2>1. ToSet(toServer)' = ToSet(toServer) /\ n \notin ToSet(toServer)
    BY <1>1 DEF PairInv, QueueInv, ToSet
  <2> QED
    BY <1>1, <2>1 DEF Unanswered, Answerable
<1>6. /\ IsFiniteSet(Unanswered) /\ Cardinality(Unanswered) \in Nat /\ Len(fromServer) \in Nat
      /\ notes \in Nat
  BY UnansweredFinite DEF PairInv
<1>7. Cardinality(Unanswered') = Cardinality(Unanswered) - 1
  BY <1>5, <1>6, FS_RemoveElement
<1>8. Backlog' = Backlog
  BY <1>3, <1>6, <1>7 DEF Backlog
<1>9. BacklogInv'
  BY <1>1, <1>8 DEF PairInv, BacklogInv, Awaited
<1>10. OwnInv'
  <2>1. CASE notes # 0
    BY <1>1, <2>1 DEF OwnInv, AnswersMatchRequests
  <2>2. CASE notes = 0
    <3>1. n = Len(read)
      BY <1>1, <1>5, <2>2 DEF PairInv, OwnInv
    <3>2. /\ \A k \in Unanswered' : k = Len(read)
          /\ \A k \in DOMAIN fromServer' : fromServer'[k] = Len(read)
      BY <1>1, <1>3, <1>5, <2>2, <3>1 DEF PairInv, OwnInv
    <3>3. AnswersMatchRequests'
      BY <1>1 DEF PairInv, OwnInv, AnswersMatchRequests, RepliesAreReal
    <3> QED
      BY <1>1, <3>2, <3>3 DEF OwnInv
  <2> QED
    BY <2>1, <2>2
<1> QED
  BY <1>4, <1>9, <1>10 DEF PairInv

(* The server writes a line of its own: the proxy is one answer behind.    *)
LEMMA PairServerNotifies ==
  ASSUME TypeInv, PairInv, ServerNotifies
  PROVE  PairInv'
<1>1. /\ UNCHANGED <<read, replies, pc, serverUp, toServer, pending>> /\ serverUp /\ pc # "stopped"
      /\ notes' = notes + 1 /\ fromServer' = Append(fromServer, Note)
  BY DEF ServerNotifies, proxyVars, clientVars
<1>2. Len(fromServer') = Len(fromServer) + 1
  BY <1>1 DEF TypeInv, TypeOK
<1>3. QueueInv'
  BY <1>1 DEF PairInv, QueueInv, ToSet
<1>4. Unanswered' = Unanswered
  BY <1>1 DEF Unanswered, Answerable, ToSet
<1>5. Cardinality(Unanswered) \in Nat /\ Len(fromServer) \in Nat /\ notes \in Nat
  BY UnansweredFinite DEF PairInv
<1>6. Backlog' = Backlog + 1
  BY <1>2, <1>4, <1>5 DEF Backlog
<1>7. BacklogInv'
  <2>1. Backlog = notes + Awaited
    BY <1>1 DEF PairInv, BacklogInv
  <2>2. Awaited' = Awaited /\ Awaited \in Nat
    BY <1>1 DEF Awaited
  <2>3. Backlog' = notes' + Awaited'
    BY <1>1, <1>5, <1>6, <2>1, <2>2
  <2>4. Backlog' \in Nat /\ notes' + Awaited' \in Nat
    BY <1>1, <1>5, <2>2, <2>3
  <2> QED
    BY <2>3, <2>4 DEF BacklogInv
<1>8. notes' # 0
  BY <1>1, <1>5
<1>9. OwnInv'
  BY <1>8 DEF OwnInv, AnswersMatchRequests
<1> QED
  BY <1>3, <1>7, <1>9 DEF PairInv

(* The server exits: what it had not answered is lost.                     *)
LEMMA PairServerExits ==
  ASSUME TypeInv, PairInv, ServerExits
  PROVE  PairInv'
<1>1. /\ UNCHANGED <<read, replies, pc, fromServer, notes>> /\ pc # "stopped"
      /\ serverUp' = FALSE /\ toServer' = <<>> /\ pending' = {}
  BY DEF ServerExits, proxyVars, clientVars
<1>2. ToSet(toServer)' = {} /\ DOMAIN toServer' = {}
  BY <1>1 DEF ToSet
<1>3. QueueInv'
  BY <1>1, <1>2 DEF QueueInv
<1>4. Unanswered' = {}
  BY <1>1, <1>2 DEF Unanswered
<1>5. Cardinality(Unanswered) \in Nat /\ Len(fromServer) \in Nat /\ notes \in Nat
  BY UnansweredFinite DEF PairInv
<1>6. Backlog' = Len(fromServer)
  <2>1. Cardinality(Unanswered') = 0
    BY <1>4, FS_EmptySet
  <2> QED
    BY <1>1, <1>5, <2>1 DEF Backlog
<1>7. BacklogInv'
  <2>1. Len(fromServer) + Cardinality(Unanswered) <= notes + Awaited
    BY <1>1 DEF PairInv, BacklogInv, Backlog
  <2>2. Awaited' = Awaited /\ Awaited \in Nat
    BY <1>1 DEF Awaited
  <2>3. Len(fromServer) <= notes + Awaited
    BY <1>5, <2>1, <2>2
  <2> QED
    BY <1>1, <1>6, <2>2, <2>3 DEF BacklogInv
<1>8. OwnInv'
  BY <1>1, <1>4 DEF PairInv, OwnInv, AnswersMatchRequests, RepliesAreReal
<1> QED
  BY <1>3, <1>7, <1>8 DEF PairInv

LEMMA PairStep ==
  ASSUME TypeInv, PairInv, [Next]_vars
  PROVE  PairInv'
<1>1. CASE RejectMalformed \/ RateLimited \/ Denied
  <2>1. /\ pc = "checking" /\ pc' = "reading" /\ read' = read /\ serverVars' = serverVars
        /\ replies' = replies \/ Reply(Refusal)
    BY <1>1 DEF RejectMalformed, RateLimited, Denied, Checking, Refuse
  <2> QED
    BY <2>1, PairStill
<1>2. CASE SkipMember \/ PassMember \/ SendFails \/ ReceiveFails \/ EndOfInput \/ Refill
           \/ UNCHANGED vars
  <2>1. /\ read' = read /\ replies' = replies /\ serverVars' = serverVars
        /\ pc' = pc \/ pc' = "stopped"
    BY <1>2 DEF SkipMember, PassMember, SendFails, ReceiveFails, EndOfInput, Refill, clientVars, vars
  <2> QED
    BY <2>1, PairStill
<1> QED
  BY <1>1, <1>2, PairReadLine, PairForward, PairReceive, PairServerReads, PairServerAnswers,
     PairServerNotifies, PairServerExits DEF Next

-----------------------------------------------------------------------------
ProxyInv == TypeInv /\ RepliesInv /\ PairInv

LEMMA ProxyInit == Init => ProxyInv
<1> SUFFICES ASSUME Init
             PROVE  ProxyInv
  OBVIOUS
<1>1. TypeOK
  BY ProxyAssumption DEF Init, TypeOK, StatName
<1>2. CountInv
  BY DEF Init, CountInv, Counted, StatName
<1>3. RepliesInv
  BY DEF Init, RepliesInv, InOrder, Replied, Settled
<1>4. QueueInv /\ Unanswered = {}
  BY DEF Init, QueueInv, ToSet, Unanswered
<1>5. BacklogInv
  BY <1>4, FS_EmptySet DEF Init, BacklogInv, Backlog, Awaited
<1>6. OwnInv
  BY <1>4 DEF Init, OwnInv, AnswersMatchRequests, RepliesAreReal
<1> QED
  BY <1>1, <1>2, <1>3, <1>4, <1>5, <1>6, CleanInit DEF ProxyInv, TypeInv, PairInv

LEMMA ProxyStep == ProxyInv /\ [Next]_vars => ProxyInv'
  BY TypeStep, CleanStep, RepliesStep, PairStep DEF ProxyInv, TypeInv

(* Every line the client writes is refused once or forwarded once, gets    *)
(* the one reply it is owed and none other, in order, and is counted under *)
(* one heading (run, handle_message, _stats).                              *)
THEOREM ProxyAccountsForLines == Spec => []LinesAreAccounted
<1>1. ProxyInv => LinesAreAccounted
  BY DEF ProxyInv, TypeInv, RepliesInv, InOrder, Replied, Settled, CountInv, Counted,
         LinesAreAccounted, OneReplyPerLine, StatsAccountForLines
<1> QED
  BY <1>1, ProxyInit, ProxyStep, PTL DEF Spec

(* While the server writes nothing but answers, each reply is the answer   *)
(* to its own line; and the proxy is behind by exactly the lines the       *)
(* server has written of its own (send, then receive).                     *)
THEOREM ProxyPairsReplies == Spec => []RepliesMatchLines
<1>1. ProxyInv => RepliesMatchLines
  <2> SUFFICES ASSUME ProxyInv
               PROVE  RepliesMatchLines
    OBVIOUS
  <2>1. notes \in Nat
    BY UnansweredFinite DEF ProxyInv, PairInv
  <2>2. BacklogIsUnsolicitedOutput
    BY <2>1 DEF ProxyInv, PairInv, BacklogInv, Backlog, Awaited, BacklogIsUnsolicitedOutput
  <2> QED
    BY <2>2 DEF ProxyInv, PairInv, OwnInv, RepliesMatchLines
<1> QED
  BY <1>1, ProxyInit, ProxyStep, PTL DEF Spec
==============================================================================
