------------------------- MODULE GatewayServerProofs -------------------------
(***************************************************************************)
(* The gateway's properties, for every number of connections, with every   *)
(* fault and kill the model has.                                           *)
(*                                                                         *)
(* The write-ahead log, the audit log and the breaker bring the invariants *)
(* proved of them by themselves (PartsInv): a step of the server is a step *)
(* of each of them or leaves it alone, but for the end of the process,     *)
(* which resets the breaker.  On top of those:                             *)
(*   StageInv   one connection at most is inside the request path, and     *)
(*              nobody is answered before leaving it                       *)
(*   HeldInv    what each stage of the path has already written            *)
(*   OrderInv   the connection inside has the newest entry of the WAL      *)
(*   ActiveInv  active counts that connection                              *)
(*   ErrorInv   errors counted never exceed errors answered                *)
(* Moves names the six ways in which a connection can move; the lemmas     *)
(* about single invariants go through those and not through Next.          *)
(***************************************************************************)
EXTENDS GatewayServer, FiniteSetTheorems, SequenceTheorems, TLAPS

WalP == INSTANCE WriteAheadLogProofs WITH MaxEntries <- Entries,
  lines <- walLines, tail <- walTail, entriesWritten <- walWritten,
  committedCount <- walCommittedCount, pc <- walPc, last <- walLast,
  acked <- walAcked, committed <- walCommitted

AuditP == INSTANCE AuditLogProofs WITH MaxEntries <- Entries,
  lines <- auditLines, tail <- auditTail, entries <- auditEntries,
  pc <- auditPc, count <- auditCount, returned <- auditReturned,
  raised <- auditRaised

BreakerP == INSTANCE CircuitBreakerProofs WITH Threads <- {Loop},
  MaxFailures <- Entries, state <- circuit, pc <- callPc

LEMMA EntriesType == Entries \in Nat
BY GatewayAssumption, FS_CardinalityType DEF Entries

LEMMA WalAssumptions == WalP!WalAssumption
BY EntriesType, GatewayAssumption DEF WalP!WalAssumption

LEMMA AuditAssumptions == AuditP!AuditAssumption /\ AuditP!AuditEntryAssumption
BY EntriesType, GatewayAssumption, GatewayEntryAssumption
   DEF AuditP!AuditAssumption, AuditP!AuditEntryAssumption, AuditP!Entry, Audit!Entry

LEMMA BreakerAssumptions == BreakerP!BreakerAssumption
BY EntriesType, GatewayAssumption DEF BreakerP!BreakerAssumption

-----------------------------------------------------------------------------
(* What a step of the server is for its parts.                             *)

LEMMA WalActions ==
  /\ WalP!Init <=> Wal!Init
  /\ WalP!Start <=> Wal!Start
  /\ WalP!BeginWrite <=> Wal!BeginWrite
  /\ WalP!WriteOk <=> Wal!WriteOk
  /\ WalP!WriteFails <=> Wal!WriteFails
  /\ WalP!Checkpoint <=> Wal!Checkpoint
  /\ WalP!Crash <=> Wal!Crash
BY DEF WalP!Init, Wal!Init, WalP!Start, Wal!Start, WalP!BeginWrite, Wal!BeginWrite,
   WalP!WriteOk, Wal!WriteOk, WalP!WriteFails, Wal!WriteFails,
   WalP!Checkpoint, Wal!Checkpoint, WalP!Crash, Wal!Crash,
   WalP!Contents, Wal!Contents, WalP!file, Wal!file, WalP!WriteLine, Wal!WriteLine,
   WalP!WritePart, Wal!WritePart, WalP!Merged, Wal!Merged

LEMMA AuditActions ==
  /\ AuditP!Init <=> Audit!Init
  /\ AuditP!Load <=> Audit!Load
  /\ AuditP!BeginAppend <=> Audit!BeginAppend
  /\ AuditP!PersistOk <=> Audit!PersistOk
  /\ AuditP!PersistFails <=> Audit!PersistFails
  /\ AuditP!Crash <=> Audit!Crash
BY DEF AuditP!Init, Audit!Init, AuditP!Load, Audit!Load, AuditP!BeginAppend, Audit!BeginAppend,
   AuditP!PersistOk, Audit!PersistOk, AuditP!PersistFails, Audit!PersistFails,
   AuditP!Crash, Audit!Crash, AuditP!Readable, Audit!Readable, AuditP!LastHash, Audit!LastHash,
   AuditP!Contents, Audit!Contents, AuditP!file, Audit!file, AuditP!WriteLine, Audit!WriteLine,
   AuditP!WritePart, Audit!WritePart, AuditP!Merged, Audit!Merged,
   AuditP!ToSet, Audit!ToSet, AuditP!Last, Audit!Last

LEMMA BreakerActions ==
  /\ BreakerP!Init <=> Breaker!Init
  /\ BreakerP!ReadState <=> Breaker!ReadState
  /\ BreakerP!Tick <=> Breaker!Tick
  /\ BreakerP!Admit(Loop) <=> Breaker!Admit(Loop)
  /\ BreakerP!Reject(Loop) <=> Breaker!Reject(Loop)
  /\ BreakerP!OnSuccess(Loop) <=> Breaker!OnSuccess(Loop)
  /\ BreakerP!OnFailure(Loop) <=> Breaker!OnFailure(Loop)
  /\ BreakerP!FallbackCheck(Loop) <=> Breaker!FallbackCheck(Loop)
BY DEF BreakerP!Init, Breaker!Init, BreakerP!ReadState, Breaker!ReadState,
   BreakerP!Tick, Breaker!Tick, BreakerP!Admit, Breaker!Admit, BreakerP!Reject, Breaker!Reject,
   BreakerP!OnSuccess, Breaker!OnSuccess, BreakerP!OnFailure, Breaker!OnFailure,
   BreakerP!FallbackCheck, Breaker!FallbackCheck, BreakerP!CurrentState, Breaker!CurrentState,
   BreakerP!Return, Breaker!Return, BreakerP!Trips, Breaker!Trips,
   BreakerP!OPEN, Breaker!OPEN, BreakerP!HALF_OPEN, Breaker!HALF_OPEN,
   BreakerP!CLOSED, Breaker!CLOSED, BreakerP!vars, Breaker!vars

LEMMA WalStepOf ==
  [Next]_vars =>
        \/ Wal!Start \/ Wal!BeginWrite \/ Wal!WriteOk \/ Wal!WriteFails \/ Wal!Checkpoint
        \/ Wal!Crash \/ UNCHANGED walVars
BY DEF Next, Start, StartFails, Signal, Cancelled, Down, Tick, Arrive, Handle,
    BadFraming, ClientLeaves, RefuseShutdown, RefuseRate, Unauthorized, NoKeys,
    Admit, Metrics, OtherRoute,
    BeginWal, WalOk, WalFails, BadJson, CircuitOpen, CircuitAdmits, InspectRaises, BeginAudit,
    Inspected, AuditFails, AfterFailure, Send, Refuse, vars

LEMMA WalProjection == [Next]_vars => [WalP!Next]_(WalP!vars)
BY WalStepOf, WalActions DEF WalP!Next, WalP!vars, WalP!file, walVars

LEMMA AuditStepOf ==
  [Next]_vars =>
        \/ Audit!Load \/ Audit!BeginAppend \/ Audit!PersistOk \/ Audit!PersistFails
        \/ Audit!Crash \/ UNCHANGED auditVars
BY DEF Next, Start, StartFails, Signal, Cancelled, Down, Tick, Arrive, Handle,
    BadFraming, ClientLeaves, RefuseShutdown, RefuseRate, Unauthorized, NoKeys,
    Admit, Metrics, OtherRoute,
    BeginWal, WalOk, WalFails, BadJson, CircuitOpen, CircuitAdmits, InspectRaises, BeginAudit,
    Inspected, AuditFails, AfterFailure, Send, Refuse, vars

LEMMA AuditProjection == [Next]_vars => [AuditP!Next]_(AuditP!vars)
BY AuditStepOf, AuditActions DEF AuditP!Next, AuditP!vars, AuditP!file, auditVars

LEMMA BreakerStepOf ==
  [Next]_vars =>
        \/ Breaker!ReadState \/ Breaker!Tick \/ Breaker!Admit(Loop) \/ Breaker!Reject(Loop)
        \/ Breaker!OnSuccess(Loop) \/ Breaker!OnFailure(Loop) \/ Breaker!FallbackCheck(Loop)
        \/ Down \/ UNCHANGED breakerVars
BY DEF Next, Start, StartFails, Signal, Cancelled, Tick, Arrive, Handle,
    BadFraming, ClientLeaves, RefuseShutdown, RefuseRate, Unauthorized, NoKeys,
    Admit, Metrics, OtherRoute,
    BeginWal, WalOk, WalFails, BadJson, CircuitOpen, CircuitAdmits, InspectRaises, BeginAudit,
    Inspected, AuditFails, AfterFailure, Send, Refuse, vars

LEMMA BreakerProjection == [Next]_vars => [BreakerP!Next]_(BreakerP!vars) \/ Down
BY BreakerStepOf, BreakerActions DEF BreakerP!Next, BreakerP!vars, breakerVars

-----------------------------------------------------------------------------
(* The parts keep their own invariants in the server.                      *)

PartsInv == WalP!IInv /\ AuditP!IInv /\ BreakerP!IInv

LEMMA PartsInit == Init => PartsInv
<1>1. Init => WalP!Init /\ AuditP!Init /\ BreakerP!Init
  BY WalActions, AuditActions, BreakerActions DEF Init
<1>2. WalP!Init => WalP!IInv
  BY WalP!WalInit, WalAssumptions
<1>3. AuditP!Init => AuditP!IInv
  BY AuditP!AuditInit, AuditAssumptions
<1>4. BreakerP!Init => BreakerP!IInv
  BY BreakerP!BreakerInit, BreakerAssumptions
<1>5. QED BY <1>1, <1>2, <1>3, <1>4 DEF PartsInv

LEMMA PartsStep ==
  ASSUME PartsInv, [Next]_vars
  PROVE  PartsInv'
<1>1. WalP!IInv'
  BY WalProjection, WalP!WalStep, WalAssumptions DEF PartsInv
<1>2. AuditP!IInv'
  BY AuditProjection, AuditP!AuditStep, AuditAssumptions DEF PartsInv
<1>3. BreakerP!IInv'
  <2>1. CASE [BreakerP!Next]_(BreakerP!vars)
    BY <2>1, BreakerP!BreakerStep, BreakerAssumptions DEF PartsInv
  <2>2. CASE Down
    <3>1. /\ circuit' = BreakerP!CLOSED /\ failureCount' = 0 /\ elapsed' = RecoveryTimeout
          /\ callPc' = [callPc EXCEPT ![Loop] = "idle"]
          /\ fresh' = {} /\ fallback' = fallback
      BY <2>2 DEF Down, Breaker!CLOSED, BreakerP!CLOSED
    <3>2. QED
      BY <3>1, EntriesType, GatewayAssumption
      DEF PartsInv, BreakerP!IInv, BreakerP!TypeOK, BreakerP!CircuitState, BreakerP!CLOSED, BreakerP!OPEN,
          BreakerP!HALF_OPEN, BreakerP!StateMatchesCount, BreakerP!OpenBlocksNewCalls
  <2>3. QED BY <2>1, <2>2, BreakerProjection
<1>4. QED BY <1>1, <1>2, <1>3 DEF PartsInv

LEMMA SameFiles ==
  /\ Wal!Contents = WalP!Contents /\ Wal!Contents' = WalP!Contents'
  /\ Audit!Contents = AuditP!Contents /\ Audit!Contents' = AuditP!Contents'
  /\ (Wal!Readable <=> WalP!Readable) /\ (Wal!Readable' <=> WalP!Readable')
  /\ (Audit!Readable <=> AuditP!Readable) /\ (Audit!Readable' <=> AuditP!Readable')
  /\ \A x : WalP!WriteLine(x) <=> Wal!WriteLine(x)
  /\ \A x : WalP!WritePart(x) <=> Wal!WritePart(x)
  /\ \A x : AuditP!WriteLine(x) <=> Audit!WriteLine(x)
  /\ \A x : AuditP!WritePart(x) <=> Audit!WritePart(x)
BY DEF Wal!Contents, WalP!Contents, Wal!Readable, WalP!Readable, Wal!ToSet, WalP!ToSet,
   Audit!Contents, AuditP!Contents, Audit!Readable, AuditP!Readable, Audit!ToSet, AuditP!ToSet,
   WalP!file, Wal!file, WalP!WriteLine, Wal!WriteLine, WalP!WritePart, Wal!WritePart,
   WalP!Merged, Wal!Merged, AuditP!file, Audit!file, AuditP!WriteLine, Audit!WriteLine,
   AuditP!WritePart, Audit!WritePart, AuditP!Merged, Audit!Merged

LEMMA SameTypes ==
  /\ Wal!TypeOK <=> WalP!TypeOK
  /\ Audit!TypeOK <=> AuditP!TypeOK
  /\ Breaker!TypeOK <=> BreakerP!TypeOK
BY DEF Wal!TypeOK, WalP!TypeOK, Wal!Entry, WalP!Entry, Audit!TypeOK, AuditP!TypeOK,
   Audit!Entry, AuditP!Entry, Breaker!TypeOK, BreakerP!TypeOK,
   Breaker!CircuitState, BreakerP!CircuitState, Breaker!OPEN, BreakerP!OPEN,
   Breaker!CLOSED, BreakerP!CLOSED, Breaker!HALF_OPEN, BreakerP!HALF_OPEN

(* The WAL only grows while the server runs, which never truncates it, and *)
(* a write that returns is at its end.                                     *)
LEMMA WalGrows ==
  ASSUME PartsInv, [Next]_vars, Wal!Readable'
  PROVE  /\ Wal!Readable
         /\ ToSet(Wal!Contents) \subseteq ToSet(Wal!Contents')
         /\ Wal!WriteOk => walLast \in ToSet(Wal!Contents')
<1>1. WalP!TypeOK /\ (walPc = "writing" => walLast \in WalP!Entry)
  BY DEF PartsInv, WalP!IInv, WalP!WritingInv
<1>2. Wal!Contents \in Seq(WalP!Entry \union {Garbled})
  BY <1>1, WalP!FileContents, WalAssumptions, SameFiles
<1>3. ASSUME walPc = "writing", Wal!WriteLine(walLast) \/ Wal!WritePart(walLast)
      PROVE  /\ Wal!Readable
             /\ ToSet(Wal!Contents) \subseteq ToSet(Wal!Contents')
             /\ Wal!WriteLine(walLast) => walLast \in ToSet(Wal!Contents')
  <2>1. /\ Wal!Readable
        /\ Wal!Contents' = Wal!Contents \/ Wal!Contents' = Append(Wal!Contents, walLast)
        /\ Wal!WriteLine(walLast) => Wal!Contents' = Append(Wal!Contents, walLast)
    BY <1>1, <1>3, WalP!FileWritten, WalAssumptions, SameFiles
  <2>2. ToSet(Append(Wal!Contents, walLast)) = ToSet(Wal!Contents) \union {walLast}
    BY <1>2 DEF ToSet
  <2>3. QED BY <2>1, <2>2
<1>4. Wal!WriteOk => walLast \in ToSet(Wal!Contents')
  BY <1>3 DEF Wal!WriteOk
<1>5. CASE UNCHANGED <<walLines, walTail>>
  <2>1. Wal!Contents' = Wal!Contents /\ Wal!Readable
    BY <1>5 DEF Wal!Contents, Wal!Readable
  <2>2. QED BY <1>4, <2>1
<1>6. CASE walPc = "writing" /\ (Wal!WriteLine(walLast) \/ Wal!WritePart(walLast))
  BY <1>3, <1>4, <1>6
<1>7. QED
  BY <1>5, <1>6, WalStepOf
  DEF Wal!Start, Wal!BeginWrite, Wal!WriteOk, Wal!WriteFails, Wal!Checkpoint, Wal!Crash,
      Wal!file, walVars

(* So does the audit log.                                                  *)
LEMMA AuditGrows ==
  ASSUME PartsInv, [Next]_vars, Audit!Readable'
  PROVE  /\ Audit!Readable
         /\ Audit!Hashes(Audit!Contents) \subseteq Audit!Hashes(Audit!Contents')
         /\ Audit!PersistOk => Last(auditEntries).hash \in Audit!Hashes(Audit!Contents')
<1> DEFINE e == Last(auditEntries)
<1>1. AuditP!TypeOK /\ (auditPc = "persisting" => e \in AuditP!Entry)
  <2>1. AuditP!TypeOK /\ AuditP!MemoryInv
    BY DEF PartsInv, AuditP!IInv
  <2>2. ASSUME auditPc = "persisting"
        PROVE  e \in AuditP!Entry
    BY <2>1, <2>2, AuditP!Pending, AuditAssumptions DEF AuditP!Last, Last
  <2>3. QED BY <2>1, <2>2
<1>2. Audit!Contents \in Seq(AuditP!Entry \union {Garbled})
  BY <1>1, AuditP!FileContents, AuditAssumptions, SameFiles
<1>3. ASSUME auditPc = "persisting", Audit!WriteLine(e) \/ Audit!WritePart(e)
      PROVE  /\ Audit!Readable
             /\ Audit!Hashes(Audit!Contents) \subseteq Audit!Hashes(Audit!Contents')
             /\ Audit!WriteLine(e) => e.hash \in Audit!Hashes(Audit!Contents')
  <2> HIDE DEF e
  <2>1. /\ Audit!Readable
        /\ Audit!Contents' = Audit!Contents \/ Audit!Contents' = Append(Audit!Contents, e)
        /\ Audit!WriteLine(e) => Audit!Contents' = Append(Audit!Contents, e)
    BY <1>1, <1>3, AuditP!FileWritten, AuditAssumptions, SameFiles
  <2>2. /\ Audit!Hashes(Audit!Contents) \subseteq Audit!Hashes(Append(Audit!Contents, e))
        /\ e.hash \in Audit!Hashes(Append(Audit!Contents, e))
    <3> DEFINE log == Audit!Contents
               new == Append(log, e)
    <3>1. /\ Len(log) \in Nat /\ DOMAIN log = 1..Len(log) /\ DOMAIN new = 1..(Len(log) + 1)
          /\ \A i \in DOMAIN log : new[i] = log[i]
          /\ new[Len(log) + 1] = e
      BY <1>2
    <3> HIDE DEF log, new
    <3>2. Audit!Hashes(log) \subseteq Audit!Hashes(new) /\ e.hash \in Audit!Hashes(new)
      BY <3>1 DEF Audit!Hashes
    <3>3. QED BY <3>2 DEF log, new
  <2>3. QED BY <2>1, <2>2
<1>4. Audit!PersistOk => e.hash \in Audit!Hashes(Audit!Contents')
  BY <1>3 DEF Audit!PersistOk, Audit!Last, Last
<1>5. CASE UNCHANGED <<auditLines, auditTail>>
  <2>1. Audit!Contents' = Audit!Contents /\ Audit!Readable
    BY <1>5 DEF Audit!Contents, Audit!Readable
  <2>2. QED BY <1>4, <2>1
<1>6. CASE auditPc = "persisting" /\ (Audit!WriteLine(e) \/ Audit!WritePart(e))
  BY <1>3, <1>4, <1>6
<1>7. QED
  BY <1>5, <1>6, AuditStepOf
  DEF Audit!Load, Audit!BeginAppend, Audit!PersistOk, Audit!PersistFails, Audit!Crash,
      Audit!file, auditVars, Audit!Last, Last

-----------------------------------------------------------------------------
(* The connections: at most one is inside the request path, and nobody has *)
(* an answer before leaving it.                                            *)

StageInv ==
  /\ conn \in [Conns -> Stage]
  /\ response \in [Conns -> Answer \union {NoAnswer}]
  /\ \A c, d \in Conns : conn[c] \in Inside /\ conn[d] \in Inside => c = d
  /\ \A c \in Conns : conn[c] \notin {"sending", "closed"} => response[c] = NoAnswer

(* The ways in which a connection can move.                                *)
Weight(answer) ==
  (IF IsError(answer) THEN 1 ELSE 0) + (IF answer.by = "authorize" THEN 1 ELSE 0)

Turned(c) ==
  /\ Ready(c) /\ Go(c, "sending")
  /\ UNCHANGED <<walOf, auditOf, active>>
  /\ \E answer \in Answer :
       /\ answer.by \notin {"monitor", "fallback"} /\ answer.allowed = FALSE
       /\ response' = [response EXCEPT ![c] = answer]
       /\ errorTotal' \in errorTotal..(errorTotal + Weight(answer))

Left(c) ==
  /\ LoopIsFree /\ conn[c] \in {"reading", "sending"} /\ Go(c, "closed")
  /\ UNCHANGED <<response, walOf, auditOf, active, errorTotal>>

Went(c) ==
  /\ \/ BeginWal(c) \/ WalOk(c) \/ CircuitAdmits(c) \/ InspectRaises(c)
     \/ BeginAudit(c) \/ AuditFails(c)
  /\ conn[c] \in Inside
  /\ \E stage \in Inside \ {"routed"} : Go(c, stage)
  /\ UNCHANGED <<response, active, errorTotal>>

Finished(c) ==
  /\ conn[c] \in Inside
  /\ \E answer \in Answer :
       /\ Finish(c, answer)
       /\ answer.by = "monitor" \/ (answer.allowed /\ ~answer.shadow) => Inspected(c)
       /\ answer.by = "fallback" => conn[c] \in {"logged", "failed"}
  /\ UNCHANGED <<walOf, auditOf>>

Given(answer) ==
  /\ answer \in Answer
  /\ answer.by \notin {"monitor", "fallback"} /\ answer.allowed = FALSE

LEMMA Statuses ==
  /\ \A status \in {200, 400, 404, 429, 500, 503} :
       /\ Given(Plain(status))
       /\ IsError(Plain(status)) <=> status # 200
       /\ Weight(Plain(status)) = IF status = 200 THEN 0 ELSE 1
  /\ \A status \in {401, 503} : Given(Denied(status)) /\ Weight(Denied(status)) = 2
BY DEF Given, Plain, Denied, Made, Answer, Weight, IsError

LEMMA Overrides ==
  /\ \A ok \in BOOLEAN :
       Overridden(Verdict(ok)) \in Answer /\ Overridden(Verdict(ok)).by = "monitor"
  /\ LET answer == Overridden(FailClosed)
     IN  answer \in Answer /\ answer.by = "fallback" /\ (answer.allowed => answer.shadow)
<1> DEFINE let(by) == [status |-> 200, allowed |-> TRUE, shadow |-> TRUE, by |-> by]
<1>1. \A by, ok : \/ Overridden(Made(by, 200, ok)) = Made(by, 200, ok)
                 \/ Overridden(Made(by, 200, ok)) = let(by)
  BY DEF Overridden, Made
<1>2. ASSUME NEW ok \in BOOLEAN
      PROVE  Overridden(Verdict(ok)) \in Answer /\ Overridden(Verdict(ok)).by = "monitor"
  <2>1. /\ Verdict(ok) \in Answer /\ Verdict(ok).by = "monitor"
        /\ let("monitor") \in Answer /\ let("monitor").by = "monitor"
    BY DEF Verdict, Made, Answer
  <2>2. Overridden(Verdict(ok)) = Verdict(ok) \/ Overridden(Verdict(ok)) = let("monitor")
    BY <1>1 DEF Verdict
  <2> HIDE DEF let
  <2>3. QED BY <2>1, <2>2
<1>3. /\ Overridden(FailClosed) \in Answer /\ Overridden(FailClosed).by = "fallback"
      /\ Overridden(FailClosed).allowed => Overridden(FailClosed).shadow
  <2>1. /\ FailClosed \in Answer /\ FailClosed.by = "fallback" /\ FailClosed.allowed = FALSE
        /\ let("fallback") \in Answer /\ let("fallback").by = "fallback"
        /\ let("fallback").shadow = TRUE
    BY DEF FailClosed, Made, Answer
  <2>2. Overridden(FailClosed) = FailClosed \/ Overridden(FailClosed) = let("fallback")
    BY <1>1 DEF FailClosed
  <2> HIDE DEF let
  <2>3. QED BY <2>1, <2>2
<1>4. QED BY <1>2, <1>3

LEMMA ArriveMoves ==
  ASSUME errorTotal \in Nat, NEW c \in Conns, Arrive(c)
  PROVE  Turned(c) \/ Left(c) \/ Admit(c)
<1>1. ASSUME NEW answer, Given(answer), Ready(c), Go(c, "sending"),
             UNCHANGED <<walOf, auditOf, active>>,
             response' = [response EXCEPT ![c] = answer],
             errorTotal' \in errorTotal..(errorTotal + Weight(answer))
      PROVE  Turned(c)
  BY <1>1 DEF Turned, Given
<1>2. CASE BadFraming(c)
  <2>1. Given(Plain(400)) /\ Weight(Plain(400)) = 1
    BY Statuses
  <2>2. errorTotal' \in errorTotal..(errorTotal + Weight(Plain(400)))
    BY <1>2, <2>1 DEF BadFraming
  <2>3. Refuse(c, Plain(400)) /\ Ready(c)
    BY <1>2 DEF BadFraming
  <2>4. QED BY <1>1, <2>1, <2>2, <2>3 DEF Refuse
<1>3. CASE ClientLeaves(c)
  BY <1>3 DEF ClientLeaves, Left, Ready, counters
<1>4. CASE RefuseShutdown(c)
  <2>1. Given(Plain(503)) /\ Weight(Plain(503)) = 1
    BY Statuses
  <2>2. errorTotal' \in errorTotal..(errorTotal + Weight(Plain(503)))
    BY <1>4, <2>1 DEF RefuseShutdown
  <2>3. Refuse(c, Plain(503)) /\ Ready(c)
    BY <1>4 DEF RefuseShutdown
  <2>4. QED BY <1>1, <2>1, <2>2, <2>3 DEF Refuse
<1>5. CASE RefuseRate(c)
  <2>1. Given(Plain(429)) /\ Weight(Plain(429)) = 1
    BY Statuses
  <2>2. errorTotal' \in errorTotal..(errorTotal + Weight(Plain(429)))
    BY <1>5, <2>1 DEF RefuseRate
  <2>3. Refuse(c, Plain(429)) /\ Ready(c)
    BY <1>5 DEF RefuseRate
  <2>4. QED BY <1>1, <2>1, <2>2, <2>3 DEF Refuse
<1>6. CASE Unauthorized(c)
  <2>1. Given(Denied(401)) /\ Weight(Denied(401)) = 2
    BY Statuses
  <2>2. errorTotal' \in errorTotal..(errorTotal + Weight(Denied(401)))
    BY <1>6, <2>1 DEF Unauthorized
  <2>3. Refuse(c, Denied(401)) /\ Ready(c)
    BY <1>6 DEF Unauthorized
  <2>4. QED BY <1>1, <2>1, <2>2, <2>3 DEF Refuse
<1>7. CASE NoKeys(c)
  <2>1. Given(Denied(503)) /\ Weight(Denied(503)) = 2
    BY Statuses
  <2>2. errorTotal' \in errorTotal..(errorTotal + Weight(Denied(503)))
    BY <1>7, <2>1 DEF NoKeys
  <2>3. Refuse(c, Denied(503)) /\ Ready(c)
    BY <1>7 DEF NoKeys
  <2>4. QED BY <1>1, <2>1, <2>2, <2>3 DEF Refuse
<1>8. CASE Metrics(c)
  <2>1. Given(Plain(200)) /\ Weight(Plain(200)) = 0
    BY Statuses
  <2>2. errorTotal' \in errorTotal..(errorTotal + Weight(Plain(200)))
    BY <1>8, <2>1 DEF Metrics, counters
  <2>3. QED BY <1>1, <1>8, <2>1, <2>2 DEF Metrics, counters
<1>9. CASE OtherRoute(c)
  <2>1. PICK status \in {200, 404, 503} :
          /\ Refuse(c, Plain(status))
          /\ errorTotal' = errorTotal + IF IsError(Plain(status)) THEN 1 ELSE 0
    BY <1>9 DEF OtherRoute
  <2>2. /\ Given(Plain(status))
        /\ Weight(Plain(status)) = IF IsError(Plain(status)) THEN 1 ELSE 0
    BY Statuses
  <2>3. errorTotal' \in errorTotal..(errorTotal + Weight(Plain(status)))
    BY <2>1, <2>2
  <2>4. QED BY <1>1, <1>9, <2>1, <2>2, <2>3 DEF OtherRoute, Refuse
<1>10. QED
  BY <1>2, <1>3, <1>4, <1>5, <1>6, <1>7, <1>8, <1>9 DEF Arrive

LEMMA HandleMoves ==
  ASSUME NEW c \in Conns, Handle(c)
  PROVE  Went(c) \/ Finished(c)
<1>1. CASE BeginWal(c)
  BY <1>1 DEF BeginWal, Went, Inside, counters
<1>2. CASE WalOk(c)
  BY <1>2 DEF WalOk, Went, Inside, counters
<1>3. CASE WalFails(c)
  <2>1. Given(Plain(500))
    BY Statuses
  <2>2. QED BY <1>3, <2>1 DEF WalFails, Finished, Given, Inside
<1>4. CASE BadJson(c)
  <2>1. Given(Plain(400))
    BY Statuses
  <2>2. QED BY <1>4, <2>1 DEF BadJson, Finished, Given, Inside
<1>5. CASE CircuitOpen(c)
  BY <1>5, Overrides DEF CircuitOpen, Finished, Inside
<1>6. CASE CircuitAdmits(c)
  BY <1>6 DEF CircuitAdmits, Went, Inside, counters
<1>7. CASE InspectRaises(c)
  BY <1>7 DEF InspectRaises, Went, Inside, counters
<1>8. CASE BeginAudit(c)
  BY <1>8 DEF BeginAudit, Went, Inside, counters
<1>9. CASE Inspected(c)
  <2>1. PICK ok \in BOOLEAN : Finish(c, Overridden(Verdict(ok)))
    BY <1>9 DEF Inspected
  <2>2. QED BY <1>9, <2>1, Overrides DEF Inspected, Finished, Inside
<1>10. CASE AuditFails(c)
  BY <1>10 DEF AuditFails, Went, Inside, counters
<1>11. CASE AfterFailure(c)
  <2>1. CASE Finish(c, Overridden(FailClosed))
    BY <1>11, <2>1, Overrides DEF AfterFailure, Finished, Inside
  <2>2. CASE Finish(c, Plain(500))
    <3>1. Given(Plain(500))
      BY Statuses
    <3>2. QED BY <1>11, <2>2, <3>1 DEF AfterFailure, Finished, Given, Inside
  <2>3. QED BY <1>11, <2>1, <2>2 DEF AfterFailure
<1>12. QED
  BY <1>1, <1>2, <1>3, <1>4, <1>5, <1>6, <1>7, <1>8, <1>9, <1>10, <1>11 DEF Handle

Quiet == Start \/ StartFails \/ Signal \/ Cancelled \/ Tick \/ UNCHANGED vars

LEMMA Moves ==
  ASSUME errorTotal \in Nat, [Next]_vars
  PROVE  \/ Down
         \/ \E c \in Conns : Turned(c) \/ Left(c) \/ Admit(c) \/ Went(c) \/ Finished(c)
         \/ /\ Quiet /\ conn' = conn /\ response' = response
            /\ walOf' = walOf /\ auditOf' = auditOf
            /\ active' = active /\ errorTotal' = errorTotal
<1>1. ASSUME NEW c \in Conns, Send(c)
      PROVE  Left(c)
  BY <1>1 DEF Send, Left, counters
<1>2. CASE Quiet
  BY <1>2 DEF Quiet, Start, StartFails, Signal, Cancelled, Tick, vars, connVars, counters
<1>3. QED
  BY <1>1, <1>2, ArriveMoves, HandleMoves DEF Next, Quiet

LEMMA StageStep ==
  ASSUME StageInv, errorTotal \in Nat, [Next]_vars
  PROVE  StageInv'
<1>1. CASE conn' = conn /\ response' = response
  BY <1>1 DEF StageInv
<1>2. CASE Down
  BY <1>2 DEF Down, StageInv, Inside, Stage
<1>3. ASSUME NEW c \in Conns, Turned(c)
      PROVE  StageInv'
  <2>1. PICK answer \in Answer : response' = [response EXCEPT ![c] = answer]
    BY <1>3 DEF Turned
  <2>2. conn' = [conn EXCEPT ![c] = "sending"]
    BY <1>3 DEF Turned, Go
  <2>3. QED
    BY <2>1, <2>2 DEF StageInv, Inside, Stage
<1>4. ASSUME NEW c \in Conns, Left(c)
      PROVE  StageInv'
  BY <1>4 DEF Left, Go, StageInv, Inside, Stage
<1>5. ASSUME NEW c \in Conns, Admit(c)
      PROVE  StageInv'
  BY <1>5 DEF Admit, Ready, LoopIsFree, Go, StageInv, Inside, Stage
<1>6. ASSUME NEW c \in Conns, Went(c)
      PROVE  StageInv'
  BY <1>6 DEF Went, Go, StageInv, Inside, Stage
<1>7. ASSUME NEW c \in Conns, Finished(c)
      PROVE  StageInv'
  BY <1>7 DEF Finished, Finish, Go, StageInv, Inside, Stage
<1>8. QED
  BY <1>1, <1>2, <1>3, <1>4, <1>5, <1>6, <1>7, Moves

-----------------------------------------------------------------------------
(* What is recorded stays so; whoever is inside has in the logs what the   *)
(* stage it has reached says.                                              *)

HeldInv ==
  \A c \in Conns :
    /\ conn[c] = "logging" => walPc = "writing" /\ walLast = walOf[c]
    /\ conn[c] \in {"logged", "detecting", "auditing", "failed"} => InWal(c)
    /\ conn[c] = "auditing" =>
         auditPc = "persisting" /\ Last(auditEntries).hash = auditOf[c]

RecordInv ==
  /\ PartsInv /\ StageInv /\ errorTotal \in Nat
  /\ walOf \in [Conns -> Nat] /\ auditOf \in [Conns -> Nat]
  /\ HeldInv /\ VerdictsAreRecorded

LEMMA StaysRecorded ==
  ASSUME PartsInv, [Next]_vars, NEW c \in Conns
  PROVE  /\ InWal(c) /\ walOf'[c] = walOf[c] => InWal(c)'
         /\ InAudit(c) /\ auditOf'[c] = auditOf[c] => InAudit(c)'
BY WalGrows, AuditGrows DEF InWal, InAudit

(* Whose entries change, and when.                                         *)
LEMMA EntriesChange ==
  ASSUME RecordInv, [Next]_vars, NEW c \in Conns
  PROVE  /\ walOf'[c] = walOf[c] \/ BeginWal(c)
         /\ auditOf'[c] = auditOf[c] \/ BeginAudit(c)
<1>1. walOf \in [Conns -> Nat] /\ auditOf \in [Conns -> Nat] /\ errorTotal \in Nat
  BY DEF RecordInv
<1>2. CASE Down
  BY <1>2 DEF Down
<1>3. ASSUME NEW d \in Conns, Went(d)
      PROVE  /\ walOf'[c] = walOf[c] \/ BeginWal(c)
             /\ auditOf'[c] = auditOf[c] \/ BeginAudit(c)
  BY <1>1, <1>3
  DEF Went, BeginWal, WalOk, CircuitAdmits, InspectRaises, BeginAudit, AuditFails
<1>4. ASSUME NEW d \in Conns, Turned(d) \/ Left(d) \/ Admit(d) \/ Finished(d)
      PROVE  walOf' = walOf /\ auditOf' = auditOf
  BY <1>4 DEF Turned, Left, Admit, Finished
<1>5. QED
  BY <1>1, <1>2, <1>3, <1>4, Moves

(* What an answer of _handle_inspect_call needs to be in the logs.         *)
Backed(c, answer) ==
  /\ answer.by \in {"monitor", "fallback"} => InWal(c)
  /\ answer.by = "monitor" \/ (answer.allowed /\ ~answer.shadow) => InWal(c) /\ InAudit(c)

(* A verdict is given by the step that has just written the audit entry,   *)
(* the fallback's answer by one that has written nothing.                  *)
LEMMA AnswerRecorded ==
  ASSUME RecordInv, [Next]_vars, NEW c \in Conns, response'[c] # response[c]
  PROVE  Backed(c, response[c])'
<1>1. response \in [Conns -> Answer \union {NoAnswer}] /\ errorTotal \in Nat /\ PartsInv
  BY DEF RecordInv, StageInv
<1>2. ASSUME Inspected(c)
      PROVE  InWal(c)' /\ InAudit(c)'
  <2>1. /\ conn[c] = "auditing" /\ Audit!PersistOk
        /\ walOf' = walOf /\ auditOf' = auditOf
    BY <1>2 DEF Inspected
  <2>2. InWal(c)'
    BY <1>1, <2>1, StaysRecorded DEF RecordInv, HeldInv
  <2>3. Last(auditEntries).hash = auditOf'[c]
    BY <2>1 DEF RecordInv, HeldInv
  <2>4. QED BY <1>1, <2>1, <2>2, <2>3, AuditGrows DEF InAudit
<1>3. ASSUME NEW d \in Conns, Turned(d)
      PROVE  Backed(c, response[c])'
  <2>1. PICK answer \in Answer :
          /\ answer.by \notin {"monitor", "fallback"} /\ answer.allowed = FALSE
          /\ response' = [response EXCEPT ![d] = answer]
    BY <1>3 DEF Turned
  <2>2. response'[c] = answer
    BY <1>1, <2>1
  <2>3. QED BY <2>1, <2>2 DEF Backed
<1>4. ASSUME NEW d \in Conns, Finished(d)
      PROVE  Backed(c, response[c])'
  <2>1. PICK answer \in Answer :
          /\ response' = [response EXCEPT ![d] = answer]
          /\ answer.by = "monitor" \/ (answer.allowed /\ ~answer.shadow) => Inspected(d)
          /\ answer.by = "fallback" => conn[d] \in {"logged", "failed"}
    BY <1>4 DEF Finished, Finish
  <2>2. d = c /\ response'[c] = answer
    BY <1>1, <2>1
  <2>3. answer.by = "fallback" => InWal(c)'
    <3>1. HAVE answer.by = "fallback"
    <3>2. conn[c] \in {"logged", "failed"} /\ walOf' = walOf
      BY <1>4, <2>1, <2>2, <3>1 DEF Finished
    <3>3. InWal(c)
      BY <3>2 DEF RecordInv, HeldInv
    <3>4. QED BY <1>1, <3>2, <3>3, StaysRecorded
  <2>4. QED BY <1>2, <2>1, <2>2, <2>3 DEF Backed
<1>5. ASSUME Down \/ \E d \in Conns : Left(d) \/ Admit(d) \/ Went(d)
      PROVE  response' = response
  BY <1>5 DEF Down, Left, Admit, Went
<1>6. QED BY <1>1, <1>3, <1>4, <1>5, Moves

LEMMA VerdictsStep ==
  ASSUME RecordInv, [Next]_vars
  PROVE  VerdictsAreRecorded'
<1> SUFFICES ASSUME NEW c \in Conns
             PROVE  Backed(c, response[c])'
  BY DEF VerdictsAreRecorded, Backed
<1>1. CASE response'[c] = response[c] /\ conn[c] \in {"sending", "closed"}
  <2>1. PartsInv /\ Backed(c, response[c])
    BY <1>1 DEF RecordInv, VerdictsAreRecorded, Backed
  <2>2. walOf'[c] = walOf[c] /\ auditOf'[c] = auditOf[c]
    BY <1>1, EntriesChange DEF BeginWal, BeginAudit
  <2>3. QED BY <1>1, <2>1, <2>2, StaysRecorded DEF Backed
<1>2. CASE response'[c] = response[c] /\ conn[c] \notin {"sending", "closed"}
  <2>1. response'[c] = NoAnswer
    BY <1>2 DEF RecordInv, StageInv
  <2>2. QED BY <2>1 DEF Backed, NoAnswer, Made
<1>3. QED BY <1>1, <1>2, AnswerRecorded

LEMMA HeldStep ==
  ASSUME RecordInv, [Next]_vars
  PROVE  HeldInv'
<1> SUFFICES ASSUME NEW c \in Conns
             PROVE  /\ conn'[c] = "logging" => walPc' = "writing" /\ walLast' = walOf'[c]
                    /\ conn'[c] \in {"logged", "detecting", "auditing", "failed"} => InWal(c)'
                    /\ conn'[c] = "auditing" =>
                         auditPc' = "persisting" /\ Last(auditEntries').hash = auditOf'[c]
  BY DEF HeldInv
<1> USE DEF RecordInv
<1>1. /\ conn \in [Conns -> Stage] /\ PartsInv /\ errorTotal \in Nat
      /\ \A d \in Conns : conn[c] \in Inside /\ conn[d] \in Inside => c = d
  BY DEF StageInv
<1>2. /\ conn[c] = "logging" => walPc = "writing" /\ walLast = walOf[c]
      /\ conn[c] \in {"logged", "detecting", "auditing", "failed"} => InWal(c)
      /\ conn[c] = "auditing" =>
           auditPc = "persisting" /\ Last(auditEntries).hash = auditOf[c]
  BY DEF HeldInv
<1>3. CASE conn'[c] \notin Inside
  BY <1>3 DEF Inside
<1>4. CASE Down
  BY <1>1, <1>4 DEF Down, Inside
<1>5. ASSUME NEW d \in Conns, Turned(d) \/ Left(d) \/ Admit(d), conn'[c] \in Inside
      PROVE  conn'[c] = "routed"
  BY <1>1, <1>5 DEF Turned, Left, Admit, Ready, LoopIsFree, Go, Inside
<1>6. ASSUME NEW d \in Conns, Finished(d)
      PROVE  conn'[c] \notin Inside
  BY <1>1, <1>6 DEF Finished, Finish, Go, Inside
<1>7. ASSUME NEW d \in Conns, Went(d), conn'[c] \in Inside
      PROVE  d = c
  BY <1>1, <1>7 DEF Went, Go
<1>8. CASE BeginWal(c)
  BY <1>1, <1>8 DEF BeginWal, Go, Wal!BeginWrite
<1>9. CASE WalOk(c)
  <2>1. /\ conn[c] = "logging" /\ conn'[c] = "logged" /\ Wal!WriteOk /\ walOf' = walOf
    BY <1>1, <1>9 DEF WalOk, Go
  <2>2. InWal(c)'
    BY <1>1, <1>2, <2>1, WalGrows DEF InWal
  <2>3. QED BY <2>1, <2>2
<1>10. CASE CircuitAdmits(c)
  <2>1. conn[c] = "logged" /\ conn'[c] = "detecting" /\ walOf' = walOf
    BY <1>1, <1>10 DEF CircuitAdmits, Go
  <2>2. QED BY <1>1, <1>2, <2>1, StaysRecorded
<1>11. CASE InspectRaises(c) \/ AuditFails(c)
  <2>1. conn[c] \in {"detecting", "auditing"} /\ conn'[c] = "failed" /\ walOf' = walOf
    BY <1>1, <1>11 DEF InspectRaises, AuditFails, Go
  <2>2. QED BY <1>1, <1>2, <2>1, StaysRecorded
<1>12. CASE BeginAudit(c)
  <2>1. /\ conn[c] = "detecting" /\ conn'[c] = "auditing" /\ walOf' = walOf
        /\ auditOf'[c] = auditCount' /\ auditPc' = "persisting"
        /\ auditEntries' = Append(auditEntries, [hash |-> auditCount', prev |-> Audit!LastHash])
    BY <1>1, <1>12 DEF BeginAudit, Go, Audit!BeginAppend
  <2>2. Last(auditEntries').hash = auditOf'[c]
    <3>1. auditEntries \in Seq(AuditP!Entry)
      BY DEF PartsInv, AuditP!IInv, AuditP!TypeOK
    <3>2. QED BY <2>1, <3>1 DEF Last
  <2>3. QED BY <1>1, <1>2, <2>1, <2>2, StaysRecorded
<1>13. CASE /\ Quiet /\ conn[c] \in Inside
            /\ conn' = conn /\ walOf' = walOf /\ auditOf' = auditOf
  <2>1. CASE Start
    <3>1. walPc = "down" /\ auditPc = "down"
      BY <2>1 DEF Start, Wal!Start, Audit!Load
    <3>2. conn'[c] \notin {"logging", "auditing"}
      BY <1>2, <1>13, <3>1
    <3>3. QED BY <1>1, <1>2, <1>13, <3>2, StaysRecorded
  <2>2. CASE Signal \/ Cancelled
    BY <1>13, <2>2 DEF Signal, Cancelled, LoopIsFree
  <2>3. CASE UNCHANGED <<walPc, walLast, auditPc, auditEntries>>
    BY <1>1, <1>2, <1>13, <2>3, StaysRecorded
  <2>4. StartFails \/ Tick \/ UNCHANGED vars => UNCHANGED <<walPc, walLast, auditPc, auditEntries>>
    BY DEF StartFails, Tick, vars, walVars, auditVars
  <2>5. QED BY <1>13, <2>1, <2>2, <2>3, <2>4 DEF Quiet
<1>14. QED
  BY <1>3, <1>4, <1>5, <1>6, <1>7, <1>8, <1>9, <1>10, <1>11, <1>12, <1>13, Moves DEF Went

-----------------------------------------------------------------------------
(* The order of the entries, and the counters.                             *)

Unaudited == {"reading", "routed", "logging", "logged", "detecting"}

OrderInv ==
  \A c \in Conns :
    /\ walOf[c] <= walLast /\ auditOf[c] <= auditCount
    /\ conn[c] \in Unaudited => auditOf[c] = 0
    /\ conn[c] \in Inside \ {"routed"} =>
         walOf[c] = walLast /\ \A d \in Conns \ {c} : walOf[d] < walLast

LEMMA LogCounts ==
  ASSUME PartsInv
  PROVE  walLast \in 0..Entries /\ auditCount \in 0..Entries
BY DEF PartsInv, WalP!IInv, WalP!TypeOK, AuditP!IInv, AuditP!TypeOK

LEMMA CountsChange ==
  ASSUME [Next]_vars
  PROVE  /\ walLast' = walLast \/ \E c \in Conns : BeginWal(c)
         /\ auditCount' = auditCount \/ \E c \in Conns : BeginAudit(c)
<1>1. walLast' = walLast \/ \E c \in Conns : BeginWal(c)
  BY DEF Next, Start, StartFails, Signal, Cancelled, Down, Tick, Arrive, Handle,
    BadFraming, ClientLeaves, RefuseShutdown, RefuseRate, Unauthorized, NoKeys,
    Admit, Metrics, OtherRoute,
    WalOk, WalFails, BadJson, CircuitOpen, CircuitAdmits, InspectRaises, BeginAudit,
    Inspected, AuditFails, AfterFailure, Send, Refuse, vars, walVars,
    Wal!Start, Wal!WriteOk, Wal!WriteFails, Wal!Checkpoint, Wal!Crash
<1>2. auditCount' = auditCount \/ \E c \in Conns : BeginAudit(c)
  BY DEF Next, Start, StartFails, Signal, Cancelled, Down, Tick, Arrive, Handle,
    BadFraming, ClientLeaves, RefuseShutdown, RefuseRate, Unauthorized, NoKeys,
    Admit, Metrics, OtherRoute,
    BeginWal, WalOk, WalFails, BadJson, CircuitOpen, CircuitAdmits, InspectRaises,
    Inspected, AuditFails, AfterFailure, Send, Refuse, vars, auditVars,
    Audit!Load, Audit!PersistOk, Audit!PersistFails, Audit!Crash
<1>3. QED BY <1>1, <1>2

LEMMA EntryTypes ==
  ASSUME RecordInv, [Next]_vars
  PROVE  walOf' \in [Conns -> Nat] /\ auditOf' \in [Conns -> Nat]
<1>1. /\ walOf \in [Conns -> Nat] /\ auditOf \in [Conns -> Nat]
      /\ walLast \in Nat /\ auditCount \in Nat /\ errorTotal \in Nat
  BY LogCounts, EntriesType DEF RecordInv
<1>2. ASSUME NEW c \in Conns, Went(c)
      PROVE  walOf' \in [Conns -> Nat] /\ auditOf' \in [Conns -> Nat]
  <2>1. CASE BeginWal(c)
    <3>1. walOf' = [walOf EXCEPT ![c] = walLast + 1] /\ auditOf' = auditOf
      BY <2>1 DEF BeginWal, Wal!BeginWrite
    <3>2. QED BY <1>1, <3>1
  <2>2. CASE BeginAudit(c)
    <3>1. auditOf' = [auditOf EXCEPT ![c] = auditCount + 1] /\ walOf' = walOf
      BY <2>2 DEF BeginAudit, Audit!BeginAppend
    <3>2. QED BY <1>1, <3>1
  <2>3. CASE WalOk(c) \/ CircuitAdmits(c) \/ InspectRaises(c) \/ AuditFails(c)
    BY <1>1, <2>3 DEF WalOk, CircuitAdmits, InspectRaises, AuditFails
  <2>4. QED BY <1>2, <2>1, <2>2, <2>3 DEF Went
<1>3. ASSUME NEW c \in Conns, Turned(c) \/ Left(c) \/ Admit(c) \/ Finished(c)
      PROVE  walOf' = walOf /\ auditOf' = auditOf
  BY <1>3 DEF Turned, Left, Admit, Finished
<1>4. CASE Down
  BY <1>1, <1>4 DEF Down
<1>5. QED
  BY <1>1, <1>2, <1>3, <1>4, Moves

(* Nobody goes back in the request path, except out of it.                 *)
LEMMA StagesAdvance ==
  ASSUME RecordInv, [Next]_vars, NEW c \in Conns
  PROVE  /\ conn'[c] \in Unaudited => conn[c] \in Unaudited
         /\ conn'[c] \in Inside \ {"routed"} => conn[c] \in Inside \ {"routed"} \/ BeginWal(c)
<1>1. conn \in [Conns -> Stage] /\ errorTotal \in Nat
  BY DEF RecordInv, StageInv
<1>2. CASE conn' = conn
  BY <1>2
<1>3. CASE Down
  BY <1>3 DEF Down, Unaudited, Inside
<1>4. ASSUME NEW d \in Conns, Turned(d) \/ Left(d) \/ Admit(d) \/ Finished(d)
      PROVE  /\ conn'[c] \in Unaudited => conn[c] \in Unaudited
             /\ conn'[c] \in Inside \ {"routed"} => conn[c] \in Inside \ {"routed"}
  BY <1>1, <1>4 DEF Turned, Left, Admit, Finished, Finish, Ready, Go, Unaudited, Inside
<1>5. ASSUME NEW d \in Conns, Went(d)
      PROVE  /\ conn'[c] \in Unaudited => conn[c] \in Unaudited
             /\ conn'[c] \in Inside \ {"routed"} => conn[c] \in Inside \ {"routed"} \/ BeginWal(c)
  BY <1>1, <1>5 DEF Went, BeginWal, WalOk, CircuitAdmits, InspectRaises, BeginAudit, AuditFails,
                    Go, Unaudited, Inside
<1>6. QED
  BY <1>1, <1>2, <1>3, <1>4, <1>5, Moves

LEMMA OrderStep ==
  ASSUME RecordInv, OrderInv, AuditFollowsWal, [Next]_vars
  PROVE  OrderInv' /\ AuditFollowsWal'
<1>1. /\ walOf \in [Conns -> Nat] /\ auditOf \in [Conns -> Nat]
      /\ walLast \in Nat /\ auditCount \in Nat
      /\ walOf' \in [Conns -> Nat] /\ auditOf' \in [Conns -> Nat]
      /\ conn \in [Conns -> Stage]
      /\ \A c, d \in Conns : conn[c] \in Inside /\ conn[d] \in Inside => c = d
  BY LogCounts, EntriesType, EntryTypes DEF RecordInv, StageInv
<1>2. ASSUME NEW c \in Conns, BeginWal(c)
      PROVE  OrderInv' /\ AuditFollowsWal'
  <2>1. /\ conn[c] = "routed" /\ walLast' = walLast + 1
        /\ walOf' = [walOf EXCEPT ![c] = walLast + 1]
        /\ auditOf' = auditOf /\ auditCount' = auditCount
    BY <1>2 DEF BeginWal, Wal!BeginWrite, auditVars
  <2>2. auditOf[c] = 0
    BY <2>1 DEF OrderInv, Unaudited
  <2>3. \A d \in Conns \ {c} : conn'[d] = conn[d] /\ conn[d] \notin Inside
    BY <1>1, <1>2, <2>1 DEF BeginWal, Go, Inside
  <2>4. conn'[c] = "logging"
    BY <1>1, <1>2 DEF BeginWal, Go
  <2>5. OrderInv'
    BY <1>1, <2>1, <2>2, <2>3, <2>4 DEF OrderInv, Inside, Unaudited
  <2>6. AuditFollowsWal'
    BY <1>1, <2>1, <2>2 DEF AuditFollowsWal
  <2>7. QED BY <2>5, <2>6
<1>3. ASSUME NEW c \in Conns, BeginAudit(c)
      PROVE  OrderInv' /\ AuditFollowsWal'
  <2>1. /\ conn[c] = "detecting" /\ auditCount' = auditCount + 1
        /\ auditOf' = [auditOf EXCEPT ![c] = auditCount + 1]
        /\ walOf' = walOf /\ walLast' = walLast
        /\ conn' = [conn EXCEPT ![c] = "auditing"]
    BY <1>3 DEF BeginAudit, Audit!BeginAppend, walVars, Go
  <2>2. walOf[c] = walLast /\ \A d \in Conns \ {c} : walOf[d] < walLast
    BY <2>1 DEF OrderInv, Inside
  <2>3. OrderInv'
    BY <1>1, <2>1, <2>2 DEF OrderInv, Inside, Unaudited
  <2>4. AuditFollowsWal'
    BY <1>1, <2>1, <2>2 DEF AuditFollowsWal, OrderInv
  <2>5. QED BY <2>3, <2>4
<1>4. ASSUME \A c \in Conns : ~BeginWal(c) /\ ~BeginAudit(c)
      PROVE  OrderInv' /\ AuditFollowsWal'
  <2>1. walOf' = walOf /\ auditOf' = auditOf /\ walLast' = walLast /\ auditCount' = auditCount
    BY <1>1, <1>4, EntriesChange, CountsChange
  <2>2. AuditFollowsWal'
    BY <2>1 DEF AuditFollowsWal
  <2>3. OrderInv'
    BY <1>4, <2>1, StagesAdvance DEF OrderInv
  <2>4. QED BY <2>2, <2>3
<1>5. QED BY <1>2, <1>3, <1>4

-----------------------------------------------------------------------------
ActiveInv ==
  /\ active \in {0, 1}
  /\ active = 1 <=> \E c \in Conns : conn[c] \in Inside

LEMMA ActiveStep ==
  ASSUME RecordInv, ActiveInv, [Next]_vars
  PROVE  ActiveInv'
<1>1. /\ conn \in [Conns -> Stage] /\ errorTotal \in Nat
      /\ \A c, d \in Conns : conn[c] \in Inside /\ conn[d] \in Inside => c = d
  BY DEF RecordInv, StageInv
<1>2. CASE conn' = conn /\ active' = active
  BY <1>2 DEF ActiveInv
<1>3. CASE Down
  BY <1>3 DEF Down, ActiveInv, Inside
<1>4. ASSUME NEW c \in Conns, Turned(c) \/ Left(c)
      PROVE  ActiveInv'
  BY <1>1, <1>4 DEF Turned, Left, Ready, LoopIsFree, Go, ActiveInv, Inside
<1>5. ASSUME NEW c \in Conns, Admit(c)
      PROVE  ActiveInv'
  BY <1>1, <1>5 DEF Admit, Ready, LoopIsFree, Go, ActiveInv, Inside
<1>6. ASSUME NEW c \in Conns, Went(c)
      PROVE  ActiveInv'
  <2>1. conn[c] \in Inside /\ conn'[c] \in Inside /\ active' = active
    BY <1>1, <1>6 DEF Went, Go
  <2>2. QED BY <2>1 DEF ActiveInv
<1>7. ASSUME NEW c \in Conns, Finished(c)
      PROVE  ActiveInv'
  BY <1>1, <1>7 DEF Finished, Finish, Go, ActiveInv, Inside
<1>8. QED
  BY <1>1, <1>2, <1>3, <1>4, <1>5, <1>6, <1>7, Moves

LEMMA ActiveCount ==
  ASSUME StageInv, ActiveInv
  PROVE  ActiveIsExact
<1> DEFINE S == {c \in Conns : conn[c] \in Inside}
<1>1. CASE \E c \in Conns : conn[c] \in Inside
  <2>1. PICK c \in Conns : conn[c] \in Inside
    BY <1>1
  <2>2. S = {c}
    BY <2>1 DEF StageInv
  <2>3. Cardinality(S) = 1
    BY <2>2, FS_Singleton
  <2>4. QED BY <1>1, <2>3 DEF ActiveInv, ActiveIsExact
<1>2. CASE ~ \E c \in Conns : conn[c] \in Inside
  <2>1. S = {}
    BY <1>2
  <2>2. Cardinality(S) = 0
    BY <2>1, FS_EmptySet
  <2>3. QED BY <1>2, <2>2 DEF ActiveInv, ActiveIsExact
<1>3. QED BY <1>1, <1>2

-----------------------------------------------------------------------------
(* The errors counted and the answers given.                               *)

Errors == {c \in Conns : IsError(response[c])}
Refused == {c \in Conns : response[c].by = "authorize"}

LEMMA AnswerSets ==
  /\ IsFiniteSet(Errors) /\ Cardinality(Errors) \in 0..Entries
  /\ IsFiniteSet(Refused) /\ Cardinality(Refused) \in 0..Entries
<1>1. Errors \subseteq Conns /\ Refused \subseteq Conns /\ IsFiniteSet(Conns)
  BY GatewayAssumption DEF Errors, Refused
<1>2. /\ IsFiniteSet(Errors) /\ Cardinality(Errors) <= Entries
      /\ IsFiniteSet(Refused) /\ Cardinality(Refused) <= Entries
  BY <1>1, FS_Subset DEF Entries
<1>3. QED
  BY <1>2, EntriesType, FS_CardinalityType

(* A first answer adds its weight to the two sets.                         *)
LEMMA AnswerCounts ==
  ASSUME StageInv, NEW c \in Conns, conn[c] \notin {"sending", "closed"},
         NEW answer \in Answer, response' = [response EXCEPT ![c] = answer]
  PROVE  Cardinality(Errors') + Cardinality(Refused')
           = Cardinality(Errors) + Cardinality(Refused) + Weight(answer)
<1>1. /\ response'[c] = answer /\ \A d \in Conns \ {c} : response'[d] = response[d]
      /\ response[c].status = 0 /\ response[c].by = "server"
  BY DEF StageInv, NoAnswer, Made
<1>2. c \notin Errors /\ c \notin Refused
  BY <1>1 DEF Errors, Refused, IsError
<1>3. Errors' = IF IsError(answer) THEN Errors \union {c} ELSE Errors
  BY <1>1, <1>2 DEF Errors, IsError
<1>4. Refused' = IF answer.by = "authorize" THEN Refused \union {c} ELSE Refused
  BY <1>1, <1>2 DEF Refused
<1>5. /\ Cardinality(Errors \union {c}) = Cardinality(Errors) + 1
      /\ Cardinality(Refused \union {c}) = Cardinality(Refused) + 1
  BY <1>2, AnswerSets, FS_AddElement
<1>6. Cardinality(Errors) \in Nat /\ Cardinality(Refused) \in Nat
  BY AnswerSets
<1>7. Cardinality(Errors') = Cardinality(Errors) + IF IsError(answer) THEN 1 ELSE 0
  BY <1>3, <1>5, <1>6
<1>8. Cardinality(Refused') = Cardinality(Refused) + IF answer.by = "authorize" THEN 1 ELSE 0
  BY <1>4, <1>5, <1>6
<1>9. QED
  BY <1>6, <1>7, <1>8 DEF Weight

ErrorInv == errorTotal \in Nat /\ OnlyAuthorizeCountsTwice

LEMMA ErrorStep ==
  ASSUME StageInv, ErrorInv, [Next]_vars
  PROVE  ErrorInv'
<1> DEFINE total == Cardinality(Errors) + Cardinality(Refused)
<1>1. errorTotal \in Nat /\ errorTotal <= total
  BY DEF ErrorInv, OnlyAuthorizeCountsTwice, Errors, Refused
<1>2. total \in Nat /\ total' \in Nat
  <2>1. Cardinality(Errors) \in Nat /\ Cardinality(Refused) \in Nat
    BY AnswerSets
  <2>2. Cardinality(Errors') \in Nat /\ Cardinality(Refused') \in Nat
    <3>1. Errors' \subseteq Conns /\ Refused' \subseteq Conns
      BY DEF Errors, Refused
    <3>2. QED BY <3>1, GatewayAssumption, FS_Subset, FS_CardinalityType
  <2>3. QED BY <2>1, <2>2
<1>3. SUFFICES errorTotal' \in Nat /\ errorTotal' <= total'
  BY DEF ErrorInv, OnlyAuthorizeCountsTwice, Errors, Refused
<1>4. ASSUME NEW c \in Conns, conn[c] \notin {"sending", "closed"},
             NEW answer \in Answer, response' = [response EXCEPT ![c] = answer],
             errorTotal' \in errorTotal..(errorTotal + Weight(answer))
      PROVE  errorTotal' \in Nat /\ errorTotal' <= total'
  <2>1. total' = total + Weight(answer)
    BY <1>4, AnswerCounts
  <2>2. Weight(answer) \in Nat
    BY DEF Weight
  <2> HIDE DEF total
  <2>3. QED BY <1>1, <1>2, <1>4, <2>1, <2>2
<1>5. ASSUME NEW c \in Conns, Turned(c)
      PROVE  errorTotal' \in Nat /\ errorTotal' <= total'
  <2>1. PICK answer \in Answer :
          /\ response' = [response EXCEPT ![c] = answer]
          /\ errorTotal' \in errorTotal..(errorTotal + Weight(answer))
    BY <1>5 DEF Turned
  <2>2. conn[c] \notin {"sending", "closed"}
    BY <1>5 DEF Turned, Ready
  <2>3. QED BY <1>4, <2>1, <2>2
<1>6. ASSUME NEW c \in Conns, Finished(c)
      PROVE  errorTotal' \in Nat /\ errorTotal' <= total'
  <2>1. PICK answer \in Answer : Finish(c, answer)
    BY <1>6 DEF Finished
  <2>2. response' = [response EXCEPT ![c] = answer]
    BY <2>1 DEF Finish
  <2>3. errorTotal' \in errorTotal..(errorTotal + Weight(answer))
    BY <1>1, <2>1 DEF Finish, Weight
  <2>4. conn[c] \notin {"sending", "closed"}
    BY <1>6 DEF Finished, Inside
  <2>5. QED BY <1>4, <2>2, <2>3, <2>4
<1>7. ASSUME response' = response
      PROVE  total' = total
  BY <1>7 DEF Errors, Refused
<1>8. ASSUME response' = response, errorTotal' \in {0, errorTotal}
      PROVE  errorTotal' \in Nat /\ errorTotal' <= total'
  <2>1. total' = total
    BY <1>7, <1>8
  <2> HIDE DEF total
  <2>2. QED BY <1>1, <1>2, <1>8, <2>1
<1>9. CASE Down
  BY <1>8, <1>9 DEF Down
<1>10. ASSUME NEW c \in Conns, Left(c) \/ Admit(c) \/ Went(c)
       PROVE  errorTotal' \in Nat /\ errorTotal' <= total'
  BY <1>8, <1>10 DEF Left, Admit, Went
<1>11. QED
  BY <1>1, <1>5, <1>6, <1>8, <1>9, <1>10, Moves

-----------------------------------------------------------------------------
ServerInv ==
  /\ server \in {"down", "serving", "exiting"}
  /\ shuttingDown \in BOOLEAN /\ shadowMode \in BOOLEAN /\ keyless \in BOOLEAN

LEMMA ServerStep ==
  ASSUME ServerInv, [Next]_vars
  PROVE  ServerInv'
<1>1. CASE Start \/ StartFails \/ Signal \/ Cancelled \/ Down \/ Tick \/ UNCHANGED vars
  BY <1>1 DEF Start, StartFails, Signal, Cancelled, Down, Tick, vars, serverVars, ServerInv
<1>2. ASSUME NEW c \in Conns, Arrive(c) \/ Handle(c) \/ Send(c)
      PROVE  UNCHANGED serverVars
  BY <1>2 DEF Arrive, BadFraming, ClientLeaves, RefuseShutdown, RefuseRate, Unauthorized, NoKeys,
    Admit, Metrics, OtherRoute, Refuse, Handle, BeginWal, WalOk, WalFails, BadJson, CircuitOpen, CircuitAdmits,
    InspectRaises, BeginAudit, Inspected, AuditFails, AfterFailure, Send
<1>3. QED
  BY <1>1, <1>2 DEF Next, serverVars, ServerInv

(* What the server's three properties rest on, all of it inductive.        *)
GatewayInv ==
  /\ RecordInv /\ VerdictsAreRecorded
  /\ OrderInv /\ AuditFollowsWal
  /\ ActiveInv /\ ErrorInv /\ ServerInv

LEMMA GatewayInit == Init => GatewayInv
<1> SUFFICES ASSUME Init
             PROVE  GatewayInv
  OBVIOUS
<1>1. PartsInv
  BY PartsInit
<1>2. /\ conn = [c \in Conns |-> "reading"] /\ response = [c \in Conns |-> NoAnswer]
      /\ walOf = [c \in Conns |-> 0] /\ auditOf = [c \in Conns |-> 0]
      /\ active = 0 /\ errorTotal = 0 /\ server = "down"
      /\ shuttingDown = FALSE /\ shadowMode = FALSE /\ keyless = FALSE
  BY DEF Init
<1>3. StageInv /\ VerdictsAreRecorded
  BY <1>2 DEF StageInv, Stage, Inside, NoAnswer, Made, VerdictsAreRecorded
<1>4. RecordInv
  BY <1>1, <1>2, <1>3 DEF RecordInv, HeldInv
<1>5. OrderInv /\ AuditFollowsWal
  BY <1>1, <1>2, LogCounts DEF OrderInv, Inside, AuditFollowsWal
<1>6. ActiveInv /\ ServerInv
  <2>1. \A c \in Conns : conn[c] \notin Inside
    BY <1>2 DEF Inside
  <2>2. ActiveInv
    BY <1>2, <2>1 DEF ActiveInv
  <2>3. QED BY <1>2, <2>2 DEF ServerInv
<1>7. ErrorInv
  <2>1. /\ IsFiniteSet(Errors) /\ Cardinality(Errors) \in 0..Entries
        /\ IsFiniteSet(Refused) /\ Cardinality(Refused) \in 0..Entries
    BY AnswerSets
  <2>2. Cardinality(Errors) >= 0 /\ Cardinality(Refused) >= 0
    BY <2>1, EntriesType
  <2>3. QED BY <1>2, <2>1, <2>2, EntriesType
            DEF ErrorInv, OnlyAuthorizeCountsTwice, Errors, Refused
<1>8. QED BY <1>3, <1>4, <1>5, <1>6, <1>7 DEF GatewayInv

LEMMA RecordStep ==
  ASSUME RecordInv, ErrorInv, [Next]_vars
  PROVE  RecordInv'
<1>1. PartsInv /\ StageInv /\ errorTotal \in Nat
  BY DEF RecordInv
<1>2. PartsInv' /\ StageInv' /\ ErrorInv'
  BY <1>1, PartsStep, StageStep, ErrorStep
<1>3. HeldInv' /\ VerdictsAreRecorded'
  BY HeldStep, VerdictsStep
<1>4. QED BY <1>2, <1>3, EntryTypes DEF RecordInv, ErrorInv

LEMMA GatewayStep == GatewayInv /\ [Next]_vars => GatewayInv'
<1> SUFFICES ASSUME GatewayInv, [Next]_vars
             PROVE  GatewayInv'
  OBVIOUS
<1>1. /\ RecordInv /\ OrderInv /\ AuditFollowsWal /\ ActiveInv /\ ErrorInv /\ ServerInv
      /\ StageInv
  BY DEF GatewayInv, RecordInv
<1>2. RecordInv'
  BY <1>1, RecordStep
<1>3. OrderInv' /\ AuditFollowsWal'
  BY <1>1, OrderStep
<1>4. ActiveInv' /\ ErrorInv' /\ ServerInv'
  BY <1>1, ActiveStep, ErrorStep, ServerStep
<1>5. QED BY <1>2, <1>3, <1>4 DEF GatewayInv, RecordInv

LEMMA GatewayTypes == GatewayInv => TypeOK
<1> SUFFICES ASSUME GatewayInv
             PROVE  TypeOK
  OBVIOUS
<1>1. PartsInv /\ StageInv /\ ErrorInv /\ ActiveInv /\ ServerInv
  BY DEF GatewayInv, RecordInv
<1>2. Wal!TypeOK /\ Audit!TypeOK /\ Breaker!TypeOK
  BY <1>1, SameTypes DEF PartsInv, WalP!IInv, AuditP!IInv, BreakerP!IInv
<1>3. walOf \in [Conns -> 0..Entries] /\ auditOf \in [Conns -> 0..Entries]
  <2>1. /\ walOf \in [Conns -> Nat] /\ auditOf \in [Conns -> Nat]
        /\ \A c \in Conns : walOf[c] <= walLast /\ auditOf[c] <= auditCount
    BY DEF GatewayInv, RecordInv, OrderInv
  <2>2. \A c \in Conns : walOf[c] \in 0..Entries /\ auditOf[c] \in 0..Entries
    BY <1>1, <2>1, LogCounts, EntriesType
  <2>3. QED BY <2>1, <2>2
<1>4. errorTotal \in 0..(2 * Entries)
  BY <1>1, AnswerSets, EntriesType
  DEF ErrorInv, OnlyAuthorizeCountsTwice, Errors, Refused
<1>5. QED BY <1>1, <1>2, <1>3, <1>4 DEF TypeOK, StageInv, ActiveInv, ServerInv

-----------------------------------------------------------------------------
(* handle_connection and shutdown.py only ever drive the two logs through  *)
(* the operations of wal.py and audit_log.py, in an order those allow, so  *)
(* whatever is proved of a log by itself holds of it inside the gateway.   *)
THEOREM GatewayUsesItsLogs == Spec => Wal!Spec /\ Audit!Spec
<1>1. Init => Wal!Init /\ Audit!Init
  BY DEF Init
<1>2. [Next]_vars => [Wal!Next]_(Wal!vars) /\ [Audit!Next]_(Audit!vars)
  <2>1. [Next]_vars => [Wal!Next]_(Wal!vars)
    BY WalStepOf DEF Wal!Next, Wal!vars, Wal!file, walVars
  <2>2. [Next]_vars => [Audit!Next]_(Audit!vars)
    BY AuditStepOf DEF Audit!Next, Audit!vars, Audit!file, auditVars
  <2>3. QED BY <2>1, <2>2
<1>3. QED BY <1>1, <1>2, PTL DEF Spec, Wal!Spec, Audit!Spec

(* For instance: recovery returns the acknowledged requests the checkpoint *)
(* passed over and no others, and no returned audit entry is ever lost.    *)
THEOREM GatewayLogsKeepPromises ==
  Spec => [](WalP!RecoverIsExact /\ AuditP!NothingReturnedIsLost)
<1>1. Init => WalP!Init /\ AuditP!Init
  BY WalActions, AuditActions DEF Init
<1>2. Spec => WalP!Spec /\ AuditP!Spec
  BY <1>1, WalProjection, AuditProjection, PTL DEF Spec, WalP!Spec, AuditP!Spec
<1>3. WalP!Spec => []WalP!RecoverIsExact
  BY WalP!WalRecoversExactly, WalAssumptions
<1>4. AuditP!Spec => []AuditP!NothingReturnedIsLost
  BY AuditP!AuditKeepsReturned, AuditAssumptions
<1>5. QED BY <1>2, <1>3, <1>4, PTL

LEMMA GatewayInvariant == Spec => []GatewayInv
BY GatewayInit, GatewayStep, PTL DEF Spec

(* Nobody is answered by _handle_inspect_call, the breaker's fallback      *)
(* included, unless the request is in the write-ahead log, and nobody is   *)
(* told a verdict of the monitor, nor in enforcement mode that a call is   *)
(* allowed, unless its inspection is in the audit log as well:             *)
(* _record_wal_event returns before inspect_call runs, the audit entry is  *)
(* written before the verdict is returned, and what the fallback or an     *)
(* error path answers is a refusal unless shadow mode marks it.            *)
THEOREM GatewayRecordsVerdicts == Spec => []VerdictsAreRecorded
<1>1. GatewayInv => VerdictsAreRecorded
  BY DEF GatewayInv
<1>2. QED BY <1>1, GatewayInvariant, PTL

(* The gateway's variables keep their types, the number of active requests *)
(* that draining relies on is exact, only a request _authorize refuses     *)
(* (401, or 503 without a key) is counted as two errors, and inspections   *)
(* are audited in the order of the write-ahead log, through every failed   *)
(* write, kill and restart.                                                *)
THEOREM GatewayCountsRequests == Spec => []RequestsAreCounted
<1>1. GatewayInv => RequestsAreCounted
  <2> SUFFICES ASSUME GatewayInv
               PROVE  RequestsAreCounted
    OBVIOUS
  <2>1. ActiveIsExact
    BY ActiveCount DEF GatewayInv, RecordInv
  <2>2. TypeOK
    BY GatewayTypes
  <2>3. QED BY <2>1, <2>2 DEF RequestsAreCounted, GatewayInv, ErrorInv
<1>2. QED BY <1>1, GatewayInvariant, PTL
=============================================================================
