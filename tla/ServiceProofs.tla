--------------------------- MODULE ServiceProofs ----------------------------
(***************************************************************************)
(* What the services around the defense deliver and record: the records of *)
(* the identity telemetry, for any number of them; the events of the live  *)
(* feed, for any dashboards, tasks and number of events; the decisions,    *)
(* logs and statistics of the scan service, for any calls and rules.       *)
(*                                                                         *)
(* The telemetry.  The collector's log can only grow by the record just    *)
(* behind the cursor.  A request carries the line at the shipper's offset, *)
(* which is the cursor, and a request that arrives late carries a line at  *)
(* or before it (LateInv).  A line before the cursor is already stored,    *)
(* and since no envelope is on two lines (QueueInv) the collector drops    *)
(* the second copy.  The cursor moves only after the collector has the     *)
(* record (ShipperInv), so it never passes the log.                        *)
(*                                                                         *)
(* The feed.  The list of connections grows at its end and shrinks to the  *)
(* left, so the connections that a broadcast still has ahead were ahead    *)
(* when it began and do not have its event; those it is past were served,  *)
(* but for at most as many as have left meanwhile (Fits).  A connection    *)
(* that joins is ahead of every broadcast, and its snapshot covers what    *)
(* was recorded before (StreamInv).                                        *)
(*                                                                         *)
(* The scan service.  A window that is pruned as it is read counts what the*)
(* whole history would count (RateInv).  The rules are sorted by priority, *)
(* and in a served deployment the rule for rogue servers comes before any  *)
(* that lets a call pass (RulesInv); so each decision is one the report of *)
(* the detectors justifies (FitInv), and a server known only from its calls*)
(* stays a shadow server (ShadowInv).  What a call adds to one log it adds *)
(* to the others (RecordsInv): each count is the size of a set of positions*)
(* of a log, and a log that grows by an entry changes such a set by at most*)
(* its last position.                                                      *)
(***************************************************************************)
EXTENDS IdentityDelivery, RealtimeFeed, ScanApi, FiniteSetTheorems, SequenceTheorems,
        WellFoundedInduction, TLAPS

-----------------------------------------------------------------------------
(* The identity telemetry.                                                 *)

(* No envelope is on two lines, and the next one is on none.               *)
QueueInv ==
  /\ writing => tail # NoTail
  /\ tail \in Envelopes => tail < nextEnv
  /\ \A i \in 1..Len(lines) :
       lines[i] \in Envelopes => lines[i] < nextEnv /\ lines[i] # tail
  /\ \A i, j \in 1..Len(lines) :
       lines[i] \in Envelopes /\ lines[i] = lines[j] => i = j

LogInv ==
  /\ Len(stored) <= Len(lines)
  /\ \A i \in 1..Len(stored) : stored[i] = lines[i]
  /\ cursor <= Len(stored)
  /\ Len(stored) <= cursor + 1

ShipperInv ==
  /\ pc \in {"reading", "waiting", "acked"} => offset = cursor
  /\ attempt # "none" => pc = "waiting"
  /\ pc = "waiting" => offset < Len(lines) /\ lines[offset + 1] \in Envelopes
  /\ attempt = "accepted" \/ pc = "acked" => Len(stored) = offset + 1

LateInv ==
  \A e \in late : \E i \in 1..Len(lines) : i <= cursor + 1 /\ lines[i] = e

IInv == TypeOK /\ QueueInv /\ LogInv /\ ShipperInv /\ LateInv

LEMMA EnvelopesAreNumbers ==
  Envelopes \subseteq Nat /\ Garbled \notin Envelopes /\ NoTail \notin Line
BY DeliveryAssumption DEF Envelopes, Line

LEMMA DeliveryInit == Init => IInv
<1> SUFFICES ASSUME Init
             PROVE  IInv
  OBVIOUS
<1>1. TypeOK
  <2>1. lines \in Seq(Line) /\ stored \in Seq(Envelopes)
    BY DEF Init
  <2>2. nextEnv \in 1..(MaxRecords + 1)
    BY DeliveryAssumption DEF Init
  <2> QED
    BY <2>1, <2>2 DEF Init, TypeOK
<1>2. QueueInv /\ LogInv /\ ShipperInv /\ LateInv
  BY EnvelopesAreNumbers
     DEF Init, QueueInv, LogInv, ShipperInv, LateInv, Line
<1> QED
  BY <1>1, <1>2 DEF IInv

(* What the collector does with a copy of a line that is not beyond the    *)
(* one behind the cursor: drop it, or append exactly that one.             *)
LEMMA KeepExtendsLog ==
  ASSUME TypeOK, QueueInv, LogInv,
         NEW i \in 1..Len(lines), i <= cursor + 1, lines[i] \in Envelopes,
         Keep(lines[i]), UNCHANGED <<lines, cursor>>
  PROVE  /\ stored' \in Seq(Envelopes)
         /\ LogInv'
         /\ i = cursor + 1 => Len(stored') = cursor + 1
         /\ stored' \in {stored, Append(stored, lines[Len(stored) + 1])}
<1> USE DEF TypeOK, LogInv
<1>1. CASE lines[i] \in ToSet(stored)
  <2>1. stored' = stored
    BY <1>1 DEF Keep
  <2>2. PICK j \in 1..Len(stored) : stored[j] = lines[i]
    BY <1>1 DEF ToSet
  <2>3. j = i
    BY <2>2 DEF QueueInv
  <2> QED
    BY <2>1, <2>3
<1>2. CASE lines[i] \notin ToSet(stored)
  <2>1. stored' = Append(stored, lines[i])
    BY <1>2 DEF Keep
  <2>2. i > Len(stored)
    <3>1. DOMAIN stored = 1..Len(stored) /\ Len(stored) \in Nat
      OBVIOUS
    <3>2. \A j \in 1..Len(stored) : stored[j] \in ToSet(stored)
      BY <3>1, Zenon DEF ToSet
    <3>3. \A j \in 1..Len(stored) : stored[j] = lines[j]
      BY Zenon
    <3>4. i \notin 1..Len(stored)
      BY <1>2, <3>2, <3>3, Zenon
    <3> QED
      BY <3>1, <3>4
  <2>3. i = Len(stored) + 1 /\ i = cursor + 1
    BY <2>2
  <2> QED
    BY <2>1, <2>3
<1> QED
  BY <1>1, <1>2

(* The gateway's steps only add to the queue.                              *)
LEMMA GatewayStep ==
  ASSUME IInv, BeginAppend \/ FinishAppend \/ AbandonAppend
  PROVE  IInv'
<1> USE EnvelopesAreNumbers, DeliveryAssumption DEF queueVars, shipperVars
<1>1. CASE BeginAppend
  <2>1. TypeOK'
    BY <1>1 DEF IInv, TypeOK, BeginAppend, Envelopes, Line
  <2>2. /\ nextEnv \in Nat /\ nextEnv' = nextEnv + 1 /\ lines' = lines
        /\ writing' = TRUE /\ tail' \in {nextEnv, Garbled}
    BY <1>1 DEF IInv, TypeOK, BeginAppend
  <2>3. \A i \in 1..Len(lines) : lines[i] \in Envelopes =>
          /\ lines[i] \in Nat /\ lines[i] < nextEnv
          /\ lines[i] # Garbled
    BY DEF IInv, QueueInv
  <2>4. QueueInv'
    BY <2>2, <2>3 DEF IInv, QueueInv, Line
  <2>5. LogInv' /\ ShipperInv' /\ LateInv'
    BY <1>1 DEF IInv, BeginAppend, LogInv, ShipperInv, LateInv
  <2> QED
    BY <2>1, <2>4, <2>5 DEF IInv
<1>2. CASE FinishAppend
  <2> DEFINE n == Len(lines)
  <2>1. /\ tail \in Line /\ lines' \in Seq(Line) /\ Len(lines') = n + 1
        /\ lines'[n + 1] = tail
        /\ \A i \in 1..n : lines'[i] = lines[i]
    BY <1>2 DEF IInv, TypeOK, QueueInv, FinishAppend, Line
  <2>2. TypeOK'
    BY <1>2, <2>1 DEF IInv, TypeOK, FinishAppend
  <2>3. QueueInv'
    BY <1>2, <2>1 DEF IInv, TypeOK, QueueInv, FinishAppend, Line
  <2>4. LogInv' /\ ShipperInv' /\ LateInv'
    BY <1>2, <2>1
       DEF IInv, TypeOK, FinishAppend, LogInv, ShipperInv, LateInv
  <2> QED
    BY <2>2, <2>3, <2>4 DEF IInv
<1>3. CASE AbandonAppend
  <2>1. TypeOK' /\ QueueInv'
    BY <1>3 DEF IInv, TypeOK, QueueInv, AbandonAppend, Line
  <2>2. LogInv' /\ ShipperInv' /\ LateInv'
    BY <1>3 DEF IInv, AbandonAppend, LogInv, ShipperInv, LateInv
  <2> QED
    BY <2>1, <2>2 DEF IInv
<1> QED
  BY <1>1, <1>2, <1>3

(* LateInv survives when the cursor stays or moves on by one and the only  *)
(* request that is newly abandoned is the one at the cursor.               *)
LEMMA LateStays ==
  ASSUME TypeOK, LateInv, lines' = lines, cursor' \in {cursor, cursor + 1},
         \/ late' \subseteq late
         \/ /\ late' = late \union {lines[cursor + 1]}
            /\ cursor < Len(lines)
  PROVE  LateInv'
<1>1. cursor \in Nat /\ Len(lines) \in Nat
  BY DEF TypeOK
<1>2. \A i \in 1..Len(lines) : i <= cursor + 1 => i <= cursor' + 1
  <2>1. CASE cursor' = cursor
    BY <2>1
  <2>2. CASE cursor' = cursor + 1
    BY <1>1, <2>2
  <2> QED
    BY <2>1, <2>2
<1>3. cursor < Len(lines) => cursor + 1 \in 1..Len(lines)
  BY <1>1
<1>4. cursor + 1 <= cursor + 1
  BY <1>1
<1> QED
  BY <1>2, <1>3, <1>4, Zenon DEF LateInv

(* The shipper's own steps leave queue and log alone; the cursor only      *)
(* moves from pc = "acked", where the log already has the record.          *)
LEMMA ShipperStep ==
  ASSUME IInv,
         \/ Wake \/ Post \/ ReadNothing \/ Acknowledged \/ DeliveryFails
         \/ SaveCursor \/ SaveCursorFails \/ Crash \/ Restart
  PROVE  IInv'
<1> USE EnvelopesAreNumbers DEF queueVars, IInv
<1>1. UNCHANGED <<lines, tail, writing, nextEnv, stored>>
  BY DEF Wake, Post, ReadNothing, Acknowledged, DeliveryFails,
         SaveCursor, SaveCursorFails, Crash, Restart
<1>2. QueueInv'
  BY <1>1 DEF QueueInv
<1>3. CASE Wake
  <2>1. TypeOK' /\ ShipperInv'
    BY <1>1, <1>3 DEF TypeOK, ShipperInv, Wake
  <2>2. LogInv' /\ LateInv'
    BY <1>1, <1>3 DEF LogInv, LateInv, Wake
  <2> QED
    BY <1>2, <2>1, <2>2
<1>4. CASE Post
  <2>1. lines[offset + 1] \in Envelopes
    BY <1>4 DEF TypeOK, Line, Post
  <2>2. TypeOK' /\ ShipperInv'
    BY <1>1, <1>4, <2>1 DEF TypeOK, ShipperInv, Post
  <2>3. LogInv' /\ LateInv'
    BY <1>1, <1>4 DEF LogInv, LateInv, Post
  <2> QED
    BY <1>2, <2>2, <2>3
<1>5. CASE ReadNothing \/ Acknowledged \/ Restart
  <2>1. TypeOK' /\ ShipperInv'
    BY <1>1, <1>5 DEF TypeOK, ShipperInv, ReadNothing, Acknowledged, Restart
  <2>2. LogInv' /\ LateInv'
    BY <1>1, <1>5 DEF LogInv, LateInv, ReadNothing, Acknowledged, Restart
  <2> QED
    BY <1>2, <2>1, <2>2
<1>6. CASE DeliveryFails
  <2>1. TypeOK' /\ LogInv' /\ ShipperInv'
    BY <1>1, <1>6 DEF TypeOK, LogInv, ShipperInv, DeliveryFails, Abandon
  <2>2. LateInv'
    BY <1>1, <1>6, <2>1, LateStays
       DEF TypeOK, ShipperInv, DeliveryFails, Abandon
  <2> QED
    BY <1>2, <2>1, <2>2
<1>7. CASE SaveCursor \/ SaveCursorFails
  <2>1. /\ cursor' \in {cursor, cursor + 1} /\ Len(stored) = cursor + 1
        /\ late' = late /\ attempt' = attempt
    BY <1>7 DEF SaveCursor, SaveCursorFails, ShipperInv
  <2>2. TypeOK'
    BY <1>1, <1>7, <2>1 DEF TypeOK, SaveCursor, SaveCursorFails
  <2>3. LogInv'
    BY <1>1, <2>1 DEF TypeOK, LogInv
  <2>4. ShipperInv'
    BY <1>1, <1>7, <2>1 DEF TypeOK, ShipperInv, SaveCursor, SaveCursorFails
  <2>5. LateInv'
    BY <1>1, <2>1, LateStays DEF TypeOK
  <2> QED
    BY <1>2, <2>2, <2>3, <2>4, <2>5
<1>8. CASE Crash
  <2>1. \/ cursor' = cursor
        \/ cursor' = cursor + 1 /\ pc = "acked" /\ Len(stored) = cursor + 1
    BY <1>8 DEF Crash, ShipperInv
  <2>2. \/ late' = late
        \/ /\ late' = late \union {lines[cursor + 1]}
           /\ cursor < Len(lines) /\ lines[cursor + 1] \in Envelopes
    BY <1>8 DEF Crash, Abandon, ShipperInv
  <2>3. TypeOK'
    <3>1. late' \in SUBSET Envelopes
      BY <2>2 DEF TypeOK
    <3>2. cursor' \in Nat
      BY <2>1 DEF TypeOK
    <3> QED
      BY <1>1, <1>8, <3>1, <3>2 DEF TypeOK, Crash, Abandon
  <2>4. LogInv' /\ ShipperInv'
    BY <1>1, <1>8, <2>1 DEF TypeOK, LogInv, ShipperInv, Crash, Abandon
  <2>5. LateInv'
    BY <1>1, <2>1, <2>2, LateStays DEF TypeOK
  <2> QED
    BY <1>2, <2>3, <2>4, <2>5
<1> QED
  BY <1>3, <1>4, <1>5, <1>6, <1>7, <1>8

(* What the collector does is covered by KeepExtendsLog.                   *)
LEMMA CollectorStep ==
  ASSUME IInv, Receive \/ \E e \in Envelopes : LateArrival(e)
  PROVE  /\ IInv'
         /\ stored' \in {stored, Append(stored, lines[Len(stored) + 1])}
<1> USE EnvelopesAreNumbers DEF queueVars, shipperVars
<1>1. /\ UNCHANGED <<lines, tail, writing, nextEnv, pc, offset, cursor>>
      /\ late' \in SUBSET late
  BY DEF Receive, LateArrival
<1>2. QueueInv' /\ LateInv'
  BY <1>1 DEF IInv, QueueInv, LateInv
<1>3. CASE Receive
  <2>1. /\ offset = cursor /\ offset + 1 \in 1..Len(lines)
        /\ lines[offset + 1] \in Envelopes
        /\ pc = "waiting" /\ attempt = "sent"
    BY <1>3 DEF IInv, TypeOK, ShipperInv, Receive
  <2>2. CASE Keep(lines[offset + 1])
    <3>1. /\ stored' \in Seq(Envelopes) /\ LogInv'
          /\ Len(stored') = cursor + 1
          /\ stored' \in {stored, Append(stored, lines[Len(stored) + 1])}
      BY <1>1, <2>1, <2>2, KeepExtendsLog DEF IInv, TypeOK
    <3> QED
      BY <1>1, <1>2, <1>3, <2>1, <3>1
         DEF IInv, TypeOK, ShipperInv, Receive
  <2>3. CASE UNCHANGED stored /\ attempt' = "refused"
    BY <1>1, <1>2, <1>3, <2>1, <2>3
       DEF IInv, TypeOK, LogInv, ShipperInv, Receive
  <2> QED
    BY <1>3, <2>2, <2>3 DEF Receive
<1>4. ASSUME NEW e \in Envelopes, LateArrival(e)
      PROVE  /\ IInv'
             /\ stored' \in {stored, Append(stored, lines[Len(stored) + 1])}
  <2>1. PICK i \in 1..Len(lines) : i <= cursor + 1 /\ lines[i] = e
    BY <1>4 DEF IInv, LateInv, LateArrival
  <2>2. CASE Keep(e)
    <3>1. /\ stored' \in Seq(Envelopes) /\ LogInv'
          /\ stored' \in {stored, Append(stored, lines[Len(stored) + 1])}
      BY <1>1, <2>1, <2>2, KeepExtendsLog DEF IInv
    <3>2. Len(stored') \in {Len(stored), Len(stored) + 1}
      BY <3>1 DEF IInv, TypeOK, LogInv
    <3>3. ShipperInv'
      BY <1>1, <1>4, <3>1, <3>2
         DEF IInv, TypeOK, LogInv, ShipperInv, LateArrival
    <3> QED
      BY <1>1, <1>2, <1>4, <3>1, <3>3 DEF IInv, TypeOK, LateArrival
  <2>3. CASE UNCHANGED stored
    BY <1>1, <1>2, <1>4, <2>3
       DEF IInv, TypeOK, LogInv, ShipperInv, LateArrival
  <2> QED
    BY <1>4, <2>2, <2>3 DEF LateArrival
<1> QED
  BY <1>3, <1>4

LEMMA DeliveryStep == IInv /\ [Next]_vars => IInv'
<1> SUFFICES ASSUME IInv, [Next]_vars
             PROVE  IInv'
  OBVIOUS
<1>1. CASE UNCHANGED vars
  BY <1>1 DEF vars, queueVars, shipperVars, IInv, TypeOK, QueueInv, LogInv,
              ShipperInv, LateInv
<1> QED
  BY <1>1, GatewayStep, ShipperStep, CollectorStep DEF Next

LEMMA DeliveryInvariant == Spec => []IInv
BY DeliveryInit, DeliveryStep, PTL DEF Spec

(* Every reachable state of the delivery pipeline is well typed: the       *)
(* collector never gets a line that is not an envelope.                    *)
THEOREM DeliveryTypeCorrect == Spec => []TypeOK
<1>1. IInv => TypeOK
  BY DEF IInv
<1> QED
  BY <1>1, DeliveryInvariant, PTL

(* The collector's log is a prefix of the queue file, for any number of    *)
(* records, crashes, retries and late requests.                            *)
THEOREM DeliveryStoredInOrder == Spec => []StoredInOrder
<1>1. IInv => StoredInOrder
  <2> SUFFICES ASSUME IInv
               PROVE  StoredInOrder
    OBVIOUS
  <2> DEFINE n == Len(stored)
             s == SubSeq(stored, 1, n)
             t == SubSeq(lines, 1, n)
  <2>1. n \in Nat /\ n <= Len(lines)
    BY DEF IInv, TypeOK, LogInv
  <2>2. /\ s \in Seq(Line) /\ Len(s) = n
        /\ \A i \in 1..n : s[i] = stored[i]
    BY <2>1, SubSeqProperties DEF IInv, TypeOK, Line
  <2>3. /\ t \in Seq(Line) /\ Len(t) = n
        /\ \A i \in 1..n : t[i] = lines[i]
    BY <2>1, SubSeqProperties DEF IInv, TypeOK
  <2>4. s = t
    BY <2>1, <2>2, <2>3, SeqEqual DEF IInv, LogInv
  <2> QED
    BY <2>1, <2>4 DEF StoredInOrder, IsPrefix
<1> QED
  BY <1>1, DeliveryInvariant, PTL

(* The durable cursor is never ahead of the collector and at most one      *)
(* record behind.                                                          *)
THEOREM DeliveryCursor == Spec => []CursorBehindByAtMostOne
<1>1. IInv => CursorBehindByAtMostOne
  BY DEF IInv, LogInv, CursorBehindByAtMostOne
<1> QED
  BY <1>1, DeliveryInvariant, PTL

(* The durable cursor never goes back.                                     *)
THEOREM DeliveryCursorMonotone == Spec => CursorNeverGoesBack
<1>1. IInv /\ [Next]_vars => [cursor' >= cursor]_vars
  <2> SUFFICES ASSUME IInv, [Next]_vars
               PROVE  cursor' >= cursor
    BY DEF vars, shipperVars
  <2>1. cursor \in Nat /\ (pc = "acked" => offset = cursor)
    BY DEF IInv, TypeOK, ShipperInv
  <2> QED
    BY <2>1
       DEF Next, vars, shipperVars, BeginAppend, FinishAppend, AbandonAppend,
           Wake, Post, ReadNothing, Acknowledged, DeliveryFails, SaveCursor,
           SaveCursorFails, Crash, Restart, Receive, LateArrival
<1> QED
  BY <1>1, DeliveryInvariant, PTL DEF Spec, CursorNeverGoesBack

(* The pipeline implements in-order delivery (the safety part of           *)
(* InOrderDelivery): finishing an append publishes a record, the           *)
(* collector's first copy of a record delivers it, all else stutters.      *)
THEOREM DeliveryRefinement == Spec => Abstract!Safety
<1>1. Init => Abstract!Init
  BY DEF Init, Abstract!Init
<1>2. ASSUME IInv, [Next]_vars
      PROVE  [Abstract!Next]_<<lines, stored>>
  <2>1. CASE FinishAppend
    <3>1. tail \in Line /\ stored' = stored /\ lines' = Append(lines, tail)
      BY <1>2, <2>1 DEF IInv, TypeOK, QueueInv, FinishAppend, Line
    <3> QED
      BY <3>1 DEF Abstract!Next, Abstract!Publish, Line
  <2>2. CASE Receive \/ \E e \in Envelopes : LateArrival(e)
    <3>1. lines' = lines
      BY <2>2 DEF Receive, LateArrival, queueVars
    <3>2. CASE stored' = stored
      BY <3>1, <3>2
    <3>3. CASE stored' # stored
      <4> DEFINE r == lines[Len(stored) + 1]
      <4>1. stored' = Append(stored, r)
        BY <1>2, <2>2, <3>3, CollectorStep
      <4>2. IInv'
        BY <1>2, <2>2, CollectorStep
      <4>3. Len(stored') = Len(stored) + 1 /\ stored'[Len(stored) + 1] = r
        BY <1>2, <4>1, AppendProperties DEF IInv, TypeOK
      <4>4. Len(stored) < Len(lines) /\ r \in Envelopes
        BY <1>2, <3>1, <4>2, <4>3 DEF IInv, TypeOK, LogInv
      <4> QED
        BY <3>1, <4>1, <4>4, EnvelopesAreNumbers
           DEF Abstract!Next, Abstract!Deliver
    <3> QED
      BY <3>2, <3>3
  <2>3. CASE \/ BeginAppend \/ AbandonAppend \/ Wake \/ Post \/ ReadNothing
             \/ Acknowledged \/ DeliveryFails \/ SaveCursor
             \/ SaveCursorFails \/ Crash \/ Restart \/ UNCHANGED vars
    BY <2>3
       DEF vars, queueVars, shipperVars, BeginAppend, AbandonAppend, Wake,
           Post, ReadNothing, Acknowledged, DeliveryFails, SaveCursor,
           SaveCursorFails, Crash, Restart
  <2> QED
    BY <1>2, <2>1, <2>2, <2>3 DEF Next
<1> QED
  BY <1>1, <1>2, DeliveryInvariant, PTL DEF Spec, Abstract!Safety

-----------------------------------------------------------------------------
(* The live feed.                                                          *)

(* A number of positions, counted from the left, is their rank; a position *)
(* is never smaller than its rank.                                         *)
LEMMA Ranks ==
  ASSUME NEW len \in Nat, NEW left \in SUBSET (1..len)
  PROVE  LET n == Cardinality(left)
             place(i) == Cardinality({j \in left : j <= i})
         IN /\ n \in Nat
            /\ \A i \in left : place(i) \in 1..n /\ place(i) <= i
            /\ \A i, j \in left : i < j => place(i) < place(j)
            /\ \A k \in 1..n : \E i \in left : place(i) = k
            /\ left = 1..len => \A i \in left : place(i) = i
<1> DEFINE n == Cardinality(left)
           upTo(i) == {j \in left : j <= i}
           place(i) == Cardinality(upTo(i))
<1>0. \A i \in left : i \in 1..len /\ i \in Nat
  OBVIOUS
<1>1. IsFiniteSet(1..len) /\ IsFiniteSet(left) /\ n \in Nat
  <2>1. IsFiniteSet(1..len)
    BY FS_Interval
  <2>2. IsFiniteSet(left)
    BY <2>1, FS_Subset
  <2> QED
    BY <2>1, <2>2, FS_CardinalityType
<1>2. \A i \in left : /\ IsFiniteSet(upTo(i)) /\ place(i) \in Nat /\ place(i) <= n
                      /\ upTo(i) \subseteq left
  BY <1>1, FS_Subset, FS_CardinalityType
<1>3. \A i \in 1..len : /\ IsFiniteSet(1..i) /\ Cardinality(1..i) = i
  BY FS_Interval
<1>4. ASSUME NEW i \in left
      PROVE  place(i) \in 1..n /\ place(i) <= i
  <2>1. i \in 1..len /\ i \in Nat
    BY <1>0
  <2>2. upTo(i) \subseteq 1..i /\ i \in upTo(i)
    <3>1. \A k \in upTo(i) : k \in 1..len /\ k <= i
      BY <1>0
    <3>2. \A k \in upTo(i) : k \in 1..i
      BY <2>1, <3>1
    <3>3. \A k \in left : k <= i => k \in upTo(i)
      OBVIOUS
    <3>4. i \in upTo(i)
      BY <2>1, <3>3
    <3> QED
      BY <3>2, <3>4
  <2> HIDE DEF upTo
  <2>3. place(i) <= i
    BY <1>3, <2>1, <2>2, FS_Subset
  <2>4. place(i) # 0
    BY <1>2, <2>2, FS_EmptySet
  <2>5. place(i) \in Nat /\ place(i) <= n
    BY <1>2
  <2> HIDE DEF n, place
  <2> QED
    BY <1>1, <2>3, <2>4, <2>5
<1>5. ASSUME NEW i \in left, NEW j \in left, i < j
      PROVE  place(i) < place(j)
  <2>1. j \notin upTo(i) /\ upTo(i) \cup {j} \subseteq upTo(j)
    <3>1. i \in Nat /\ j \in Nat /\ i < j
      BY <1>0, <1>5
    <3>2. \A k \in upTo(i) : k \in Nat /\ k \in left /\ k <= i
      BY <1>0
    <3>3. \A k \in upTo(i) \cup {j} : k \in left /\ k <= j
      BY <3>1, <3>2
    <3>4. \A k \in left : k <= j => k \in upTo(j)
      OBVIOUS
    <3>5. \A k \in upTo(i) \cup {j} : k \in upTo(j)
      BY <3>3, <3>4
    <3>6. j \notin upTo(i)
      BY <3>1, <3>2
    <3> QED
      BY <3>5, <3>6
  <2> HIDE DEF upTo
  <2>2. /\ IsFiniteSet(upTo(i) \cup {j})
        /\ Cardinality(upTo(i) \cup {j}) = place(i) + 1
    BY <1>2, <2>1, FS_AddElement
  <2>3. Cardinality(upTo(i) \cup {j}) <= place(j)
    BY <1>2, <2>1, FS_Subset
  <2> QED
    BY <1>2, <2>2, <2>3
<1> HIDE DEF n, place
<1>6. ASSUME NEW k \in 1..n
      PROVE  \E i \in left : place(i) = k
  <2> DEFINE rank == [i \in left |-> place(i)]
  <2>1. rank \in Injection(left, 1..n)
    <3>1. rank \in [left -> 1..n]
      BY <1>4
    <3>2. \A i, j \in left : rank[i] = rank[j] => i = j
      <4> SUFFICES ASSUME NEW i \in left, NEW j \in left, place(i) = place(j)
                   PROVE  i = j
        OBVIOUS
      <4>1. place(i) \in Nat /\ i \in Nat /\ j \in Nat
        BY <1>0, <1>4
      <4>2. ~(i < j) /\ ~(j < i)
        BY <1>5, <4>1
      <4> QED
        BY <4>1, <4>2
    <3> QED
      BY <3>1, <3>2 DEF Injection, IsInjective
  <2>2. IsFiniteSet(1..n) /\ Cardinality(1..n) = n
    BY <1>1, FS_Interval
  <2>3. rank \in Surjection(left, 1..n)
    <3> HIDE DEF rank
    <3> QED
      BY <2>1, <2>2, FS_Injection DEF n
  <2> QED
    BY <2>3 DEF Surjection
<1>7. left = 1..len => \A i \in left : place(i) = i
  <2> SUFFICES ASSUME left = 1..len, NEW i \in left
               PROVE  place(i) = i
    OBVIOUS
  <2>1. upTo(i) = 1..i
    OBVIOUS
  <2> QED
    BY <1>3, <2>1 DEF place
<1> QED
  BY <1>1, <1>4, <1>5, <1>6, <1>7 DEF n, place

(* Without(gone) is the list with some of its positions left out: what     *)
(* stays moves to the left and keeps its order.                            *)
LEMMA WithoutIs ==
  ASSUME active \in Seq(Viewers), NEW gone
  PROVE  \E from :
           LET w == Without(gone)
           IN /\ w \in Seq(Viewers)
              /\ \A k \in 1..Len(w) : /\ from[k] \in 1..Len(active) /\ k <= from[k]
                                      /\ w[k] = active[from[k]] /\ w[k] \notin gone
              /\ \A k, l \in 1..Len(w) : from[k] = from[l] => k = l
              /\ \A i \in 1..Len(active) :
                    active[i] \notin gone => \E k \in 1..Len(w) : from[k] = i
              /\ (\A i \in 1..Len(active) : active[i] \notin gone) => w = active
<1> DEFINE left == {i \in DOMAIN active : active[i] \notin gone}
           n == Cardinality(left)
           place(i) == Cardinality({j \in left : j <= i})
           from == [k \in 1..n |-> CHOOSE i \in left : place(i) = k]
           w == Without(gone)
<1>1. Len(active) \in Nat /\ left \subseteq 1..Len(active) /\ DOMAIN active = 1..Len(active)
  OBVIOUS
<1>2. /\ n \in Nat
      /\ \A i \in left : place(i) \in 1..n /\ place(i) <= i
      /\ \A i, j \in left : i < j => place(i) < place(j)
      /\ \A k \in 1..n : \E i \in left : place(i) = k
      /\ left = 1..Len(active) => \A i \in left : place(i) = i
  <2> HIDE DEF left
  <2> QED
    BY <1>1, Ranks
<1>3. w = [k \in 1..n |-> active[from[k]]]
  <2>3. w = [k \in 1..n |-> active[CHOOSE i \in left : place(i) = k]]
    BY Zenon DEF Without, Cardinality, Cardinality
  <2>4. \A k \in 1..n : from[k] = CHOOSE i \in left : place(i) = k
    OBVIOUS
  <2>5. w = [k \in 1..n |-> active[from[k]]]
    BY Zenon, <2>3, <2>4
  <2> QED
    BY <2>5
<1>4. \A k \in 1..n : from[k] \in left /\ place(from[k]) = k
  <2> HIDE DEF left, place
  <2> QED
    BY <1>2
<1> HIDE DEF n, place, from, w
<1>0. \A i, j \in left : place(i) = place(j) => i = j
  <2> HIDE DEF left
  <2> SUFFICES ASSUME NEW i \in left, NEW j \in left, place(i) = place(j)
               PROVE  i = j
    OBVIOUS
  <2>0. i \in 1..Len(active) /\ j \in 1..Len(active) /\ Len(active) \in Nat
    BY <1>1
  <2>1. place(i) \in Nat /\ i \in Nat /\ j \in Nat
    BY <1>2, <2>0
  <2>2. ~(i < j) /\ ~(j < i)
    BY <1>2, <2>1
  <2> QED
    BY <2>1, <2>2
<1>5. /\ Len(w) = n /\ w \in Seq(Viewers)
      /\ \A k \in 1..n : w[k] = active[from[k]]
  <2>1. \A k \in 1..n : active[from[k]] \in Viewers
    BY <1>1, <1>4
  <2>2. w \in [1..n -> Viewers]
    BY <1>3, <2>1
  <2> QED
    BY <1>2, <1>3, <2>2
<1>6. \A k \in 1..n : k <= from[k]
  BY <1>2, <1>4
<1>7. \A k, l \in 1..n : from[k] = from[l] => k = l
  BY <1>4
<1>8. \A i \in 1..Len(active) : active[i] \notin gone => \E k \in 1..n : from[k] = i
  <2> SUFFICES ASSUME NEW i \in 1..Len(active), active[i] \notin gone
               PROVE  \E k \in 1..n : from[k] = i
    OBVIOUS
  <2>1. i \in left /\ place(i) \in 1..n
    BY <1>1, <1>2
  <2>2. from[place(i)] \in left /\ place(from[place(i)]) = place(i)
    BY <1>4, <2>1
  <2>3. from[place(i)] = i
    BY <1>0, <2>1, <2>2
  <2> QED
    BY <2>1, <2>3
<1>9. (\A i \in 1..Len(active) : active[i] \notin gone) => w = active
  <2> SUFFICES ASSUME \A i \in 1..Len(active) : active[i] \notin gone
               PROVE  w = active
    OBVIOUS
  <2>1. left = 1..Len(active)
    BY <1>1
  <2>2. \A i \in left : place(i) = i
    BY <1>2, <2>1
  <2>3. n = Len(active)
    <3>1. \A k \in Nat : Cardinality(1..k) = k
      BY FS_Interval
    <3> QED
      BY <1>1, <2>1, <3>1 DEF n
  <2>4. \A k \in 1..n : from[k] = k
    BY <1>4, <2>2
  <2>5. w = [k \in 1..n |-> active[k]]
    <3> HIDE DEF left
    <3> QED
      BY <1>3, <2>4
  <2>6. active = [k \in 1..Len(active) |-> active[k]]
    OBVIOUS
  <2> QED
    BY <2>3, <2>5, <2>6
<1>10. \A k \in 1..n : from[k] \in 1..Len(active) /\ active[from[k]] \notin gone
  BY <1>1, <1>4
<1> HIDE DEF left
<1>11. /\ \A k \in 1..Len(w) : /\ from[k] \in 1..Len(active) /\ k <= from[k]
                               /\ w[k] = active[from[k]] /\ w[k] \notin gone
       /\ \A k, l \in 1..Len(w) : from[k] = from[l] => k = l
       /\ \A i \in 1..Len(active) :
             active[i] \notin gone => \E k \in 1..Len(w) : from[k] = i
  BY <1>5, <1>6, <1>7, <1>8, <1>10
<1> QED
  BY <1>5, <1>9, <1>11 DEF w

-----------------------------------------------------------------------------
(* The invariant.  Everything a broadcast does depends on the list, on who *)
(* is up and on what was pushed, so these are parameters of its parts.     *)

Has(got, v, e) == \E i \in 1..Len(got[v]) : got[v][i] = e

(* The connections that a broadcast is past and that are up to date or     *)
(* gone: all it is past but the skipped ones.                              *)
Served(b, list, on, got) ==
  {v \in Viewers : \E i \in 1..Len(list) :
                      i < b.next /\ list[i] = v /\ (~on[v] \/ Has(got, v, b.event))}

(* Who is still ahead does not have the event; who is behind was served,   *)
(* but for as many as have left the list.                                  *)
Fits(b, n, list, on, got) ==
  /\ b \in Broadcast({"sending"})
  /\ b.event \in 1..n /\ b.next >= 1
  /\ \A i \in 1..Len(list) : i >= b.next => ~Has(got, list[i], b.event)
  /\ b.next <= b.removals + Cardinality(Served(b, list, on, got)) + 1

TasksInv(tasks, n, list, on, got) ==
  /\ tasks \in [Tasks -> Broadcast({"idle", "sending", "stopped"})]
  /\ \A t \in Tasks : tasks[t].pc = "stopped" => t = Agent
  /\ \A t \in Tasks : tasks[t].pc = "sending" => Fits(tasks[t], n, list, on, got)
  /\ \A t, u \in Tasks :
        tasks[t].pc = "sending" /\ tasks[u].pc = "sending" /\ t # u
           => tasks[t].event # tasks[u].event

StreamInv(tasks, n, list, on, got, first) ==
  \A i \in 1..Len(list) : on[list[i]] =>
     \A e \in 1..n :
        \/ e <= first[list[i]] \/ Has(got, list[i], e)
        \/ \E t \in Tasks :
              tasks[t].pc = "sending" /\ tasks[t].event = e /\ i >= tasks[t].next

FeedType ==
  /\ active \in Seq(Viewers)
  /\ \A i, j \in 1..Len(active) : active[i] = active[j] => i = j
  /\ handler \in [Viewers -> {"new", "accepting", "open", "ended"}]
  /\ up \in [Viewers -> BOOLEAN]
  /\ snapshot \in [Viewers -> 0..MaxEvents]
  /\ pushed \in [Viewers -> Seq(FeedEvent)]
  /\ events \in 0..MaxEvents
  /\ shrunk \in BOOLEAN /\ unanswered \in SUBSET FeedEvent

(* Who is not yet on the list has been pushed nothing.                     *)
ListInv ==
  \A v \in Viewers : handler[v] \in {"new", "accepting"} =>
     pushed[v] = <<>> /\ \A i \in 1..Len(active) : active[i] # v

OnceInv ==
  \A v \in Viewers : \A i \in 1..Len(pushed[v]) :
     /\ pushed[v][i] <= events
     /\ \A j \in 1..Len(pushed[v]) : pushed[v][i] = pushed[v][j] => i = j

FeedInv ==
  /\ FeedType /\ ListInv /\ OnceInv
  /\ TasksInv(task, events, active, up, pushed)
  /\ ~shrunk => StreamInv(task, events, active, up, pushed, snapshot)

-----------------------------------------------------------------------------
LEMMA ServedFinite ==
  ASSUME IsFiniteSet(Viewers), NEW b, NEW list, NEW on, NEW got
  PROVE  /\ IsFiniteSet(Served(b, list, on, got))
         /\ Cardinality(Served(b, list, on, got)) \in Nat
<1>1. Served(b, list, on, got) \subseteq Viewers
  BY DEF Served
<1> QED
  BY <1>1, FS_Subset, FS_CardinalityType

LEMMA BroadcastFields ==
  ASSUME NEW pcs, NEW b \in Broadcast(pcs)
  PROVE  /\ b.pc \in pcs /\ b.event \in 0..MaxEvents /\ b.next \in Nat
         /\ b.dead \in Seq(Viewers) /\ b.removals \in Nat
         /\ b = [pc |-> b.pc, event |-> b.event, next |-> b.next, dead |-> b.dead,
                 removals |-> b.removals]
BY DEF Broadcast

(* Nothing that happens to the connections while the list stays or grows   *)
(* at its end concerns a broadcast.                                        *)
LEMMA FitsStays ==
  ASSUME IsFiniteSet(Viewers), NEW b, NEW n \in Nat, NEW list \in Seq(Viewers), NEW on, NEW got,
         Fits(b, n, list, on, got),
         NEW m \in Nat, n <= m, NEW longer \in Seq(Viewers), NEW still, NEW then,
         \A i \in 1..Len(list) : i \in 1..Len(longer) /\ longer[i] = list[i],
         \A i \in 1..Len(longer) : i \in 1..Len(list) \/ ~Has(then, longer[i], b.event),
         \A v \in Viewers : still[v] => on[v],
         \A v \in Viewers : Has(then, v, b.event) <=> Has(got, v, b.event)
  PROVE  Fits(b, m, longer, still, then)
<1>1. Served(b, list, on, got) \subseteq Served(b, longer, still, then)
  BY DEF Served
<1>2. Cardinality(Served(b, list, on, got)) <= Cardinality(Served(b, longer, still, then))
  BY <1>1, ServedFinite, FS_Subset
<1>3. /\ Cardinality(Served(b, list, on, got)) \in Nat
      /\ Cardinality(Served(b, longer, still, then)) \in Nat
  BY ServedFinite
<1>4. /\ b \in Broadcast({"sending"}) /\ b.event \in 1..n /\ b.next >= 1
      /\ b.next <= b.removals + Cardinality(Served(b, list, on, got)) + 1
      /\ b.next \in Nat /\ b.removals \in Nat
  BY BroadcastFields DEF Fits
<1>5. \A i \in 1..Len(longer) : i >= b.next => ~Has(then, longer[i], b.event)
  <2> TAKE i \in 1..Len(longer)
  <2>1. CASE i \in 1..Len(list)
    <3>1. longer[i] = list[i] /\ list[i] \in Viewers
      BY <2>1
    <3>2. i >= b.next => ~Has(got, list[i], b.event)
      BY <2>1 DEF Fits
    <3> QED
      BY <3>1, <3>2
  <2> QED
    BY <2>1
<1>6. b.event \in 1..m
  BY <1>4
<1>7. b.next <= b.removals + Cardinality(Served(b, longer, still, then)) + 1
  BY <1>2, <1>3, <1>4
<1> QED
  BY <1>4, <1>5, <1>6, <1>7 DEF Fits

(* A broadcast moves on past a connection that it has served.              *)
LEMMA FitsOnward ==
  ASSUME IsFiniteSet(Viewers), NEW b, NEW n \in Nat, NEW list \in Seq(Viewers), NEW on, NEW got,
         Fits(b, n, list, on, got),
         \A i, j \in 1..Len(list) : list[i] = list[j] => i = j,
         b.next <= Len(list),
         NEW c \in Broadcast({"sending"}), c.event = b.event, c.removals = b.removals,
         c.next = b.next + 1,
         NEW then, \A v \in Viewers : Has(got, v, b.event) => Has(then, v, b.event),
         \A v \in Viewers : v # list[b.next] /\ Has(then, v, b.event) => Has(got, v, b.event),
         ~on[list[b.next]] \/ Has(then, list[b.next], b.event)
  PROVE  Fits(c, n, list, on, then)
<1> DEFINE old == Served(b, list, on, got)
           new == Served(c, list, on, then)
           v == list[b.next]
<1>1. /\ b.next \in Nat /\ b.next >= 1 /\ b.removals \in Nat /\ b.event \in 1..n
      /\ b.next <= b.removals + Cardinality(old) + 1
      /\ b.next \in 1..Len(list) /\ v \in Viewers
  BY BroadcastFields DEF Fits
<1>2. v \notin old
  BY <1>1 DEF Served
<1>3. v \in new
  BY <1>1 DEF Served
<1>4. old \subseteq new
  <2> SUFFICES ASSUME NEW u \in old
               PROVE  u \in new
    OBVIOUS
  <2>1. PICK i \in 1..Len(list) : i < b.next /\ list[i] = u /\ (~on[u] \/ Has(got, u, b.event))
    BY DEF Served
  <2>2. u \in Viewers /\ i < c.next
    BY <1>1, <2>1
  <2> QED
    BY <2>1, <2>2 DEF Served
<1> HIDE DEF old, new, v
<1>5. Cardinality(old) + 1 <= Cardinality(new)
  <2>1. /\ IsFiniteSet(old) /\ IsFiniteSet(new)
        /\ Cardinality(old) \in Nat /\ Cardinality(new) \in Nat
    BY ServedFinite DEF old, new
  <2>2. old \cup {v} \subseteq new
    BY <1>3, <1>4
  <2>3. Cardinality(old \cup {v}) = Cardinality(old) + 1
    BY <1>2, <2>1, FS_AddElement
  <2>4. Cardinality(old \cup {v}) <= Cardinality(new)
    BY <2>1, <2>2, FS_Subset
  <2> QED
    BY <2>3, <2>4
<1>6. Cardinality(old) \in Nat /\ Cardinality(new) \in Nat
  BY ServedFinite DEF old, new
<1>7. c.next <= c.removals + Cardinality(new) + 1
  BY <1>1, <1>5, <1>6
<1>8. \A i \in 1..Len(list) : i >= c.next => ~Has(then, list[i], c.event)
  <2> SUFFICES ASSUME NEW i \in 1..Len(list), i >= c.next
               PROVE  ~Has(then, list[i], b.event)
    OBVIOUS
  <2>1. i >= b.next /\ i # b.next
    BY <1>1
  <2>2. list[i] # v /\ list[i] \in Viewers
    BY <1>1, <2>1 DEF v
  <2>3. ~Has(got, list[i], b.event)
    BY <2>1 DEF Fits
  <2> QED
    BY <2>2, <2>3 DEF v
<1> QED
  BY <1>1, <1>7, <1>8 DEF Fits, new

(* Who leaves the list costs a broadcast at most as many as have left.     *)
LEMMA FitsShortened ==
  ASSUME IsFiniteSet(Viewers), active \in Seq(Viewers),
         NEW b, NEW n \in Nat, NEW on, NEW got, Fits(b, n, active, on, got),
         NEW gone, IsFiniteSet(gone),
         NEW c \in Broadcast({"sending"}), c.event = b.event, c.next = b.next,
         c.removals = b.removals + Cardinality(gone)
  PROVE  Fits(c, n, Without(gone), on, got)
<1> DEFINE w == Without(gone)
           old == Served(b, active, on, got)
           new == Served(c, w, on, got)
<1>1. PICK from :
        /\ w \in Seq(Viewers)
        /\ \A k \in 1..Len(w) : /\ from[k] \in 1..Len(active) /\ k <= from[k]
                                /\ w[k] = active[from[k]] /\ w[k] \notin gone
        /\ \A i \in 1..Len(active) : active[i] \notin gone => \E k \in 1..Len(w) : from[k] = i
  BY WithoutIs
<1> HIDE DEF w
<1>2. /\ b.next \in Nat /\ b.next >= 1 /\ b.removals \in Nat /\ b.event \in 1..n
      /\ b.next <= b.removals + Cardinality(old) + 1
  BY BroadcastFields DEF Fits
<1>3. old \subseteq new \cup gone
  <2> SUFFICES ASSUME NEW u \in old, u \notin gone
               PROVE  u \in new
    OBVIOUS
  <2>1. PICK i \in 1..Len(active) :
          i < b.next /\ active[i] = u /\ (~on[u] \/ Has(got, u, b.event))
    BY DEF Served
  <2>2. PICK k \in 1..Len(w) : from[k] = i
    BY <1>1, <2>1
  <2>3. w[k] = u /\ k < c.next /\ u \in Viewers
    BY <1>1, <1>2, <2>1, <2>2
  <2> QED
    BY <2>1, <2>3 DEF Served
<1> HIDE DEF old, new
<1>4. /\ IsFiniteSet(old) /\ IsFiniteSet(new) /\ Cardinality(old) \in Nat
      /\ Cardinality(new) \in Nat /\ Cardinality(gone) \in Nat
  BY ServedFinite, FS_CardinalityType DEF old, new
<1>5. Cardinality(old) <= Cardinality(new) + Cardinality(gone)
  <2>1. /\ IsFiniteSet(new \cup gone) /\ Cardinality(new \cup gone) \in Nat
        /\ Cardinality(new \cup gone) <= Cardinality(new) + Cardinality(gone)
    <3>1. /\ IsFiniteSet(new \cup gone) /\ IsFiniteSet(new \cap gone)
          /\ Cardinality(new \cup gone)
               = Cardinality(new) + Cardinality(gone) - Cardinality(new \cap gone)
      BY <1>4, FS_Union, FS_Intersection
    <3>2. Cardinality(new \cup gone) \in Nat /\ Cardinality(new \cap gone) \in Nat
      BY <3>1, FS_CardinalityType
    <3> QED
      BY <1>4, <3>1, <3>2
  <2>2. Cardinality(old) <= Cardinality(new \cup gone)
    BY <1>3, <2>1, FS_Subset
  <2> QED
    BY <1>4, <2>1, <2>2
<1>6. c.next <= c.removals + Cardinality(new) + 1
  BY <1>2, <1>4, <1>5
<1>7. \A k \in 1..Len(w) : k >= c.next => ~Has(got, w[k], c.event)
  <2> SUFFICES ASSUME NEW k \in 1..Len(w), k >= c.next
               PROVE  ~Has(got, w[k], b.event)
    OBVIOUS
  <2>1. from[k] \in 1..Len(active) /\ from[k] >= b.next /\ w[k] = active[from[k]]
    BY <1>1, <1>2
  <2> QED
    BY <2>1 DEF Fits
<1> QED
  BY <1>2, <1>6, <1>7 DEF Fits, w, new

-----------------------------------------------------------------------------
(* The steps.                                                              *)

LEMMA FeedEvents ==
  ASSUME FeedInv
  PROVE  /\ events \in Nat /\ IsFiniteSet(Viewers) /\ pushed \in [Viewers -> Seq(FeedEvent)]
BY FeedAssumption DEF FeedInv, FeedType

(* What is done to a connection that neither joins nor leaves the list.    *)
LEMMA QuietStep ==
  ASSUME FeedInv,
         UNCHANGED <<active, snapshot, pushed, events, task, shrunk, unanswered>>,
         handler' \in [Viewers -> {"new", "accepting", "open", "ended"}],
         up' \in [Viewers -> BOOLEAN],
         \A v \in Viewers : up'[v] => up[v],
         \A v \in Viewers : handler'[v] \in {"new", "accepting"}
                               => handler[v] \in {"new", "accepting"}
  PROVE  FeedInv'
<1>1. FeedType' /\ ListInv' /\ OnceInv'
  BY DEF FeedInv, FeedType, ListInv, OnceInv
<1>2. events \in Nat /\ IsFiniteSet(Viewers) /\ active \in Seq(Viewers)
  BY FeedEvents DEF FeedInv, FeedType
<1>3. TasksInv(task, events, active, up', pushed)
  <2>1. ASSUME NEW t \in Tasks, task[t].pc = "sending"
        PROVE  Fits(task[t], events, active, up', pushed)
    <3>1. Fits(task[t], events, active, up, pushed)
      BY <2>1 DEF FeedInv, TasksInv
    <3>2. PICK b : b = task[t]
      OBVIOUS
    <3>3. Fits(b, events, active, up', pushed)
      BY <1>2, <3>1, <3>2, FitsStays
    <3> QED
      BY <3>2, <3>3
  <2> QED
    BY <2>1 DEF FeedInv, TasksInv
<1>4. ~shrunk => StreamInv(task, events, active, up', pushed, snapshot)
  <2>1. \A i \in 1..Len(active) : up'[active[i]] => up[active[i]]
    BY <1>2
  <2> QED
    BY <2>1 DEF FeedInv, StreamInv
<1>5. /\ active' = active /\ pushed' = pushed /\ events' = events /\ task' = task
      /\ shrunk' = shrunk /\ snapshot' = snapshot
  OBVIOUS
<1> QED
  BY <1>1, <1>3, <1>4, <1>5 DEF FeedInv

LEMMA AcceptedStep ==
  ASSUME FeedInv, NEW v \in Viewers, Accepted(v)
  PROVE  FeedInv'
<1> DEFINE list == Append(active, v)
<1>1. /\ handler[v] = "accepting" /\ handler' = [handler EXCEPT ![v] = "open"]
      /\ active' = list /\ snapshot' = [snapshot EXCEPT ![v] = events]
      /\ UNCHANGED <<up, pushed, events, task, shrunk, unanswered>>
  BY DEF Accepted
<1>2. /\ events \in Nat /\ IsFiniteSet(Viewers) /\ active \in Seq(Viewers)
      /\ Len(active) \in Nat /\ events \in 0..MaxEvents
      /\ snapshot \in [Viewers -> 0..MaxEvents]
      /\ handler \in [Viewers -> {"new", "accepting", "open", "ended"}]
  BY FeedEvents DEF FeedInv, FeedType
<1>3. pushed[v] = <<>> /\ \A i \in 1..Len(active) : active[i] # v
  BY <1>1 DEF FeedInv, ListInv
<1>4. /\ list \in Seq(Viewers) /\ Len(list) = Len(active) + 1 /\ list[Len(active) + 1] = v
      /\ \A i \in 1..Len(active) : i \in 1..Len(list) /\ list[i] = active[i]
      /\ \A i \in 1..Len(list) : i \in 1..Len(active) \/ i = Len(active) + 1
  BY <1>2
<1> HIDE DEF list
<1>5. FeedType'
  <2>1. \A i, j \in 1..Len(list) : list[i] = list[j] => i = j
    BY <1>3, <1>4 DEF FeedInv, FeedType
  <2>2. snapshot' \in [Viewers -> 0..MaxEvents]
    BY <1>1, <1>2
  <2>3. handler' \in [Viewers -> {"new", "accepting", "open", "ended"}]
    BY <1>1, <1>2
  <2> QED
    BY <1>1, <1>4, <2>1, <2>2, <2>3 DEF FeedInv, FeedType
<1>6. ListInv'
  <2> SUFFICES ASSUME NEW u \in Viewers, handler'[u] \in {"new", "accepting"}
               PROVE  pushed[u] = <<>> /\ \A i \in 1..Len(list) : list[i] # u
    BY <1>1 DEF ListInv
  <2>1. u # v /\ handler[u] \in {"new", "accepting"}
    BY <1>1, <1>2
  <2>2. pushed[u] = <<>> /\ \A i \in 1..Len(active) : active[i] # u
    BY <2>1 DEF FeedInv, ListInv
  <2> QED
    BY <1>4, <2>1, <2>2
<1>7. OnceInv'
  BY <1>1 DEF FeedInv, OnceInv
<1>8. \A e : ~Has(pushed, v, e)
  BY <1>3 DEF Has
<1>9. TasksInv(task, events, list, up, pushed)
  <2>1. ASSUME NEW t \in Tasks, task[t].pc = "sending"
        PROVE  Fits(task[t], events, list, up, pushed)
    <3>1. Fits(task[t], events, active, up, pushed)
      BY <2>1 DEF FeedInv, TasksInv
    <3>2. PICK b : b = task[t]
      OBVIOUS
    <3>3. \A i \in 1..Len(list) : i \in 1..Len(active) \/ ~Has(pushed, list[i], b.event)
      <4> TAKE i \in 1..Len(list)
      <4>1. CASE i \in 1..Len(active)
        BY <4>1
      <4>2. CASE i = Len(active) + 1
        <5>1. list[i] = v
          BY <1>4, <4>2
        <5> QED
          BY <1>8, <5>1
      <4> QED
        BY <1>4, <4>1, <4>2
    <3>4. Fits(b, events, active, up, pushed)
      BY <3>1, <3>2
    <3>5. \A i \in 1..Len(active) : i \in 1..Len(list) /\ list[i] = active[i]
      BY <1>4
    <3>6. events \in Nat /\ events <= events /\ list \in Seq(Viewers)
      BY <1>2, <1>4
    <3>7. Fits(b, events, list, up, pushed)
      BY <1>2, <3>3, <3>4, <3>5, <3>6, FitsStays
    <3> QED
      BY <3>2, <3>7
  <2> QED
    BY <2>1 DEF FeedInv, TasksInv
<1>10. ~shrunk => StreamInv(task, events, list, up, pushed, snapshot')
  <2> SUFFICES ASSUME ~shrunk, NEW i \in 1..Len(list), up[list[i]], NEW e \in 1..events
               PROVE  \/ e <= snapshot'[list[i]] \/ Has(pushed, list[i], e)
                      \/ \E t \in Tasks :
                            task[t].pc = "sending" /\ task[t].event = e /\ i >= task[t].next
    BY DEF StreamInv
  <2>1. CASE i = Len(active) + 1
    <3>1. snapshot'[list[i]] = events
      BY <1>1, <1>2, <1>4, <2>1
    <3> QED
      BY <1>2, <3>1
  <2>2. CASE i \in 1..Len(active)
    <3>1. list[i] = active[i] /\ active[i] \in Viewers /\ active[i] # v
      BY <1>2, <1>3, <1>4, <2>2
    <3>2. snapshot'[list[i]] = snapshot[active[i]]
      BY <1>1, <1>2, <3>1
    <3> QED
      BY <2>2, <3>1, <3>2 DEF FeedInv, StreamInv
  <2> QED
    BY <1>4, <2>1, <2>2
<1> QED
  BY <1>1, <1>5, <1>6, <1>7, <1>9, <1>10 DEF FeedInv

(* Connections leave the list, and the running broadcasts take note.       *)
LEMMA ShortenedStep ==
  ASSUME FeedType, NEW n \in Nat, NEW tasks,
         TasksInv(tasks, n, active, up, pushed),
         ~shrunk => StreamInv(tasks, n, active, up, pushed, snapshot),
         NEW gone, IsFiniteSet(gone), TakeOff(gone),
         task' = Shifted(tasks, Cardinality(gone))
  PROVE  /\ active' \in Seq(Viewers) /\ shrunk' \in BOOLEAN
         /\ \A i, j \in 1..Len(active') : active'[i] = active'[j] => i = j
         /\ \A i \in 1..Len(active') : \E j \in 1..Len(active) : active'[i] = active[j]
         /\ TasksInv(task', n, active', up, pushed)
         /\ ~shrunk' => StreamInv(task', n, active', up, pushed, snapshot)
<1> DEFINE w == Without(gone)
<1>1. active' = w /\ shrunk' = (shrunk \/ gone # {})
  BY DEF TakeOff
<1>2. /\ active \in Seq(Viewers) /\ IsFiniteSet(Viewers)
      /\ \A i, j \in 1..Len(active) : active[i] = active[j] => i = j
  BY FeedAssumption DEF FeedType
<1>3. PICK from :
        /\ w \in Seq(Viewers)
        /\ \A k \in 1..Len(w) : from[k] \in 1..Len(active) /\ w[k] = active[from[k]]
        /\ \A k, l \in 1..Len(w) : from[k] = from[l] => k = l
        /\ (\A i \in 1..Len(active) : active[i] \notin gone) => w = active
  BY <1>2, WithoutIs
<1>4. /\ \A i, j \in 1..Len(w) : w[i] = w[j] => i = j
      /\ \A i \in 1..Len(w) : \E j \in 1..Len(active) : w[i] = active[j]
  <2> HIDE DEF w
  <2> QED
    <3>1. ASSUME NEW i \in 1..Len(w), NEW j \in 1..Len(w), w[i] = w[j]
          PROVE  i = j
      <4>1. /\ from[i] \in 1..Len(active) /\ from[j] \in 1..Len(active)
            /\ active[from[i]] = active[from[j]]
        BY <1>3, <3>1
      <4>2. from[i] = from[j]
        BY <1>2, <4>1
      <4> QED
        BY <1>3, <4>2
    <3>2. \A i \in 1..Len(w) : \E j \in 1..Len(active) : w[i] = active[j]
      BY <1>3
    <3> QED
      BY <3>1, <3>2
<1>5. Cardinality(gone) \in Nat
  BY FS_CardinalityType
<1>6. /\ task' = [t \in Tasks |-> IF tasks[t].pc = "sending"
                                       THEN [tasks[t] EXCEPT !.removals = @ + Cardinality(gone)]
                                       ELSE tasks[t]]
  BY <1>5 DEF Shifted
<1>7. ASSUME NEW t \in Tasks
      PROVE  /\ task'[t].pc = tasks[t].pc /\ task'[t].event = tasks[t].event
             /\ task'[t].next = tasks[t].next
             /\ tasks[t].pc = "sending"
                  => /\ task'[t] \in Broadcast({"sending"})
                     /\ task'[t].removals = tasks[t].removals + Cardinality(gone)
             /\ tasks[t].pc # "sending" => task'[t] = tasks[t]
  <2>1. tasks[t] \in Broadcast({"idle", "sending", "stopped"})
    BY DEF TasksInv
  <2>2. task'[t] = IF tasks[t].pc = "sending"
                   THEN [tasks[t] EXCEPT !.removals = @ + Cardinality(gone)]
                   ELSE tasks[t]
    BY <1>6
  <2>3. CASE tasks[t].pc # "sending"
    BY <2>2, <2>3
  <2>4. CASE tasks[t].pc = "sending"
    <3>1. PICK b, m : b = tasks[t] /\ m = b.removals + Cardinality(gone)
      OBVIOUS
    <3>2. /\ b = [pc |-> "sending", event |-> b.event, next |-> b.next, dead |-> b.dead,
                  removals |-> b.removals]
          /\ b.event \in 0..MaxEvents /\ b.next \in Nat /\ b.dead \in Seq(Viewers)
          /\ m \in Nat
      BY <1>5, <2>1, <2>4, <3>1, BroadcastFields
    <3>3. task'[t] = [pc |-> "sending", event |-> b.event, next |-> b.next, dead |-> b.dead,
                      removals |-> m]
      <4>1. task'[t] = [b EXCEPT !.removals = m]
        BY <2>2, <2>4, <3>1
      <4> QED
        BY <3>2, <4>1
    <3>4. task'[t] \in Broadcast({"sending"})
      BY <3>2, <3>3 DEF Broadcast
    <3> QED
      BY <2>4, <3>1, <3>3, <3>4
  <2> QED
    BY <2>3, <2>4
<1> HIDE DEF w
<1>8. TasksInv(task', n, w, up, pushed)
  <2>1. ASSUME NEW t \in Tasks, task'[t].pc = "sending"
        PROVE  Fits(task'[t], n, w, up, pushed)
    <3>1. tasks[t].pc = "sending" /\ Fits(tasks[t], n, active, up, pushed)
      BY <1>7, <2>1 DEF TasksInv
    <3>2. PICK b, c : b = tasks[t] /\ c = task'[t]
      OBVIOUS
    <3>3. /\ c \in Broadcast({"sending"}) /\ c.event = b.event /\ c.next = b.next
          /\ c.removals = b.removals + Cardinality(gone)
      BY <1>7, <3>1, <3>2
    <3>4. Fits(c, n, Without(gone), up, pushed)
      BY <1>2, <3>1, <3>2, <3>3, FitsShortened
    <3> QED
      BY <3>2, <3>4 DEF w
  <2>2. \A t \in Tasks : task'[t] \in Broadcast({"idle", "sending", "stopped"})
    BY <1>7 DEF TasksInv, Broadcast
  <2>3. task' \in [Tasks -> Broadcast({"idle", "sending", "stopped"})]
    BY <1>6, <2>2
  <2> QED
    BY <1>7, <2>1, <2>3 DEF TasksInv
<1>9. ~shrunk' => StreamInv(task', n, w, up, pushed, snapshot)
  <2> SUFFICES ASSUME ~shrunk'
               PROVE  StreamInv(task', n, w, up, pushed, snapshot)
    OBVIOUS
  <2>1. ~shrunk /\ gone = {}
    BY <1>1 DEF FeedType
  <2>2. w = active
    BY <1>3, <2>1
  <2>3. StreamInv(tasks, n, active, up, pushed, snapshot)
    BY <2>1
  <2> QED
    BY <1>7, <2>2, <2>3 DEF StreamInv
<1> QED
  BY <1>1, <1>3, <1>4, <1>8, <1>9 DEF FeedType

LEMMA DisconnectedStep ==
  ASSUME FeedInv, NEW v \in Viewers, Disconnected(v)
  PROVE  FeedInv'
<1>1. PICK gone : gone = {v} \cap ToSet(active)
  OBVIOUS
<1>2. /\ handler' = [handler EXCEPT ![v] = "ended"]
      /\ TakeOff(gone) /\ task' = Shifted(task, Cardinality(gone))
      /\ UNCHANGED <<up, snapshot, pushed, events, unanswered>>
  BY <1>1 DEF Disconnected
<1>3. IsFiniteSet(gone)
  BY <1>1, FS_Singleton, FS_Subset
<1>4. PICK n, tasks : n = events /\ tasks = task
  OBVIOUS
<1>5. n \in Nat /\ TasksInv(tasks, n, active, up, pushed)
      /\ (~shrunk => StreamInv(tasks, n, active, up, pushed, snapshot)) /\ FeedType
  BY <1>4, FeedEvents DEF FeedInv
<1>6. /\ active' \in Seq(Viewers) /\ shrunk' \in BOOLEAN
      /\ \A i, j \in 1..Len(active') : active'[i] = active'[j] => i = j
      /\ \A i \in 1..Len(active') : \E j \in 1..Len(active) : active'[i] = active[j]
      /\ TasksInv(task', n, active', up, pushed)
      /\ ~shrunk' => StreamInv(task', n, active', up, pushed, snapshot)
  BY <1>2, <1>3, <1>4, <1>5, ShortenedStep
<1>7. handler' \in [Viewers -> {"new", "accepting", "open", "ended"}]
  BY <1>2, <1>5 DEF FeedType
<1>8. FeedType'
  BY <1>2, <1>5, <1>6, <1>7 DEF FeedType
<1>9. ListInv'
  <2> SUFFICES ASSUME NEW u \in Viewers, handler'[u] \in {"new", "accepting"}
               PROVE  pushed[u] = <<>> /\ \A i \in 1..Len(active') : active'[i] # u
    BY <1>2 DEF ListInv
  <2>1. handler[u] \in {"new", "accepting"}
    BY <1>2, <1>5 DEF FeedType
  <2>2. pushed[u] = <<>> /\ \A i \in 1..Len(active) : active[i] # u
    BY <2>1 DEF FeedInv, ListInv
  <2> QED
    BY <1>6, <2>2
<1>10. OnceInv'
  BY <1>2 DEF FeedInv, OnceInv
<1> QED
  BY <1>2, <1>4, <1>6, <1>8, <1>9, <1>10 DEF FeedInv

-----------------------------------------------------------------------------
(* A broadcast at one of its steps.  `walk` are the tasks with the         *)
(* broadcast b of t among them, n the events recorded by then: task and    *)
(* events when it resumes, one more of each when it begins.                *)
Walking(t, b, walk, n) ==
  /\ FeedType /\ ListInv /\ OnceInv
  /\ n \in 0..MaxEvents /\ events <= n
  /\ walk = [task EXCEPT ![t] = b] /\ DOMAIN task = Tasks
  /\ walk[t] = b /\ b.pc = "sending"
  /\ TasksInv(walk, n, active, up, pushed)
  /\ ~shrunk => StreamInv(walk, n, active, up, pushed, snapshot)

LEMMA SendStep ==
  ASSUME NEW t \in Tasks, NEW b, NEW walk, NEW n,
         Walking(t, b, walk, n), b.next <= Len(active), Send(t, b), events' = n
  PROVE  FeedInv'
<1> DEFINE v == active[b.next]
           All == Broadcast({"idle", "sending", "stopped"})
<1>1. /\ active \in Seq(Viewers) /\ IsFiniteSet(Viewers) /\ up \in [Viewers -> BOOLEAN]
      /\ \A i, j \in 1..Len(active) : active[i] = active[j] => i = j
      /\ pushed \in [Viewers -> Seq(FeedEvent)]
      /\ handler \in [Viewers -> {"new", "accepting", "open", "ended"}]
  BY FeedAssumption DEF Walking, FeedType
<1>2. n \in Nat /\ n <= MaxEvents /\ events \in Nat /\ MaxEvents \in Nat /\ events <= n
  BY FeedAssumption DEF Walking, FeedType
<1>3. Fits(b, n, active, up, pushed)
  BY DEF Walking, TasksInv
<1>4. /\ b \in Broadcast({"sending"}) /\ b.event \in 1..n /\ b.next \in Nat
      /\ b.next \in 1..Len(active) /\ v \in Viewers /\ b.dead \in Seq(Viewers)
      /\ b.removals \in Nat /\ b.event \in FeedEvent
      /\ ~Has(pushed, v, b.event)
  <2>1. /\ b \in Broadcast({"sending"}) /\ b.event \in 1..n /\ b.next >= 1
        /\ \A i \in 1..Len(active) : i >= b.next => ~Has(pushed, active[i], b.event)
    BY <1>3 DEF Fits
  <2>2. b.next \in Nat /\ b.dead \in Seq(Viewers) /\ b.removals \in Nat
    BY <2>1, BroadcastFields
  <2>3. b.next \in 1..Len(active)
    BY <1>1, <2>1, <2>2
  <2>4. v \in Viewers /\ b.event \in FeedEvent
    BY <1>1, <1>2, <2>1, <2>3 DEF FeedEvent
  <2> QED
    BY <2>1, <2>2, <2>3, <2>4
<1>5. UNCHANGED <<active, handler, up, snapshot, shrunk, unanswered>>
  BY DEF Send, connVars
<1>6. PICK c :
        /\ task' = [task EXCEPT ![t] = c]
        /\ c \in Broadcast({"sending"}) /\ c.event = b.event
        /\ c.removals = b.removals /\ c.next = b.next + 1
        /\ \/ up[v] /\ pushed' = [pushed EXCEPT ![v] = Append(@, b.event)]
           \/ ~up[v] /\ pushed' = pushed
  <2> DEFINE on == [b EXCEPT !.next = @ + 1]
             dead == [on EXCEPT !.dead = Append(@, v)]
  <2>1. /\ on \in Broadcast({"sending"}) /\ on.event = b.event
        /\ on.removals = b.removals /\ on.next = b.next + 1
    BY <1>4 DEF Broadcast
  <2>2. /\ dead \in Broadcast({"sending"}) /\ dead.event = b.event
        /\ dead.removals = b.removals /\ dead.next = b.next + 1
    <3> DEFINE longer == Append(b.dead, v)
    <3>1. longer \in Seq(Viewers)
      BY <1>4, AppendProperties
    <3>2. dead = [pc |-> "sending", event |-> b.event, next |-> b.next + 1, dead |-> longer,
                  removals |-> b.removals]
      <4>1. on = [pc |-> "sending", event |-> b.event, next |-> b.next + 1, dead |-> b.dead,
                  removals |-> b.removals]
        BY <1>4 DEF Broadcast
      <4>2. dead = [on EXCEPT !.dead = Append(on.dead, v)]
        BY Zenon
      <4> HIDE DEF on, dead
      <4> QED
        BY <4>1, <4>2
    <3> HIDE DEF dead, longer
    <3>3. "sending" \in {"sending"} /\ b.next + 1 \in Nat /\ b.event \in 0..MaxEvents
      BY <1>4, BroadcastFields
    <3> QED
      BY <1>4, <3>1, <3>2, <3>3 DEF Broadcast
  <2>3. \/ up[v] /\ pushed' = [pushed EXCEPT ![v] = Append(@, b.event)]
                 /\ task' = [task EXCEPT ![t] = on]
        \/ ~up[v] /\ pushed' = pushed /\ task' = [task EXCEPT ![t] = dead]
        \/ ~up[v] /\ pushed' = pushed /\ task' = [task EXCEPT ![t] = on]
    BY DEF Send
  <2> HIDE DEF on, dead, v
  <2> QED
    BY <2>1, <2>2, <2>3
<1> HIDE DEF v
<1>7. /\ pushed' \in [Viewers -> Seq(FeedEvent)]
      /\ \A u \in Viewers : u # v => pushed'[u] = pushed[u]
      /\ \/ ~up[v] /\ pushed'[v] = pushed[v]
         \/ /\ up[v] /\ Len(pushed'[v]) = Len(pushed[v]) + 1
            /\ pushed'[v][Len(pushed[v]) + 1] = b.event
            /\ \A i \in 1..Len(pushed[v]) : pushed'[v][i] = pushed[v][i]
  <2>0. pushed[v] \in Seq(FeedEvent) /\ v \in Viewers /\ b.event \in FeedEvent
    BY <1>1, <1>4
  <2> DEFINE longer == Append(pushed[v], b.event)
  <2>1. /\ longer \in Seq(FeedEvent) /\ Len(longer) = Len(pushed[v]) + 1
        /\ longer[Len(pushed[v]) + 1] = b.event
        /\ \A i \in 1..Len(pushed[v]) : longer[i] = pushed[v][i]
    BY <2>0, AppendProperties
  <2>2. CASE up[v] /\ pushed' = [pushed EXCEPT ![v] = longer]
    <3> HIDE DEF longer
    <3>1. pushed'[v] = longer /\ \A u \in Viewers : u # v => pushed'[u] = pushed[u]
      BY <1>1, <2>0, <2>2
    <3>2. pushed' \in [Viewers -> Seq(FeedEvent)]
      BY <1>1, <2>0, <2>1, <2>2
    <3> QED
      BY <2>1, <2>2, <3>1, <3>2
  <2>3. CASE ~up[v] /\ pushed' = pushed
    BY <1>1, <2>3
  <2> QED
    BY <1>6, <2>2, <2>3
<1>8. /\ \A u \in Viewers : pushed[u] \in Seq(FeedEvent) /\ Len(pushed[u]) \in Nat
      /\ \A u \in Viewers : Len(pushed'[u]) \in Nat
  BY <1>1, <1>7
<1>9. /\ \A u \in Viewers : \A e : Has(pushed, u, e) => Has(pushed', u, e)
      /\ \A u \in Viewers : \A e :
            Has(pushed', u, e) => Has(pushed, u, e) \/ (u = v /\ e = b.event)
      /\ ~up[v] \/ Has(pushed', v, b.event)
  <2>1. ASSUME NEW u \in Viewers, NEW e, Has(pushed, u, e)
        PROVE  Has(pushed', u, e)
    <3>1. PICK i \in 1..Len(pushed[u]) : pushed[u][i] = e
      BY <2>1 DEF Has
    <3>2. i \in 1..Len(pushed'[u]) /\ pushed'[u][i] = e
      BY <1>7, <1>8, <3>1
    <3> QED
      BY <3>2 DEF Has
  <2>2. ASSUME NEW u \in Viewers, NEW e, Has(pushed', u, e), ~(u = v /\ e = b.event)
        PROVE  Has(pushed, u, e)
    <3>1. PICK i \in 1..Len(pushed'[u]) : pushed'[u][i] = e
      BY <2>2 DEF Has
    <3>2. i \in 1..Len(pushed[u]) /\ pushed[u][i] = e
      BY <1>7, <1>8, <2>2, <3>1
    <3> QED
      BY <3>2 DEF Has
  <2>3. ASSUME up[v]
        PROVE  Has(pushed', v, b.event)
    <3>1. Len(pushed[v]) + 1 \in 1..Len(pushed'[v])
      BY <1>4, <1>7, <1>8, <2>3
    <3> QED
      BY <1>7, <2>3, <3>1 DEF Has
  <2> QED
    BY <2>1, <2>2, <2>3
<1>10. FeedType'
  <2>1. n \in 0..MaxEvents
    BY DEF Walking
  <2> QED
    BY <1>5, <1>7, <2>1 DEF Walking, FeedType
<1>11. ListInv'
  <2> SUFFICES ASSUME NEW u \in Viewers, handler[u] \in {"new", "accepting"}
               PROVE  pushed'[u] = <<>> /\ \A i \in 1..Len(active) : active[i] # u
    BY <1>5 DEF ListInv
  <2>1. pushed[u] = <<>> /\ \A i \in 1..Len(active) : active[i] # u
    BY DEF Walking, ListInv
  <2>2. u # v
    BY <1>4, <2>1 DEF v
  <2> QED
    BY <1>7, <2>1, <2>2
<1>12. OnceInv'
  <2> SUFFICES ASSUME NEW u \in Viewers, NEW i \in 1..Len(pushed'[u])
               PROVE  /\ pushed'[u][i] <= n
                      /\ \A j \in 1..Len(pushed'[u]) : pushed'[u][i] = pushed'[u][j] => i = j
    BY DEF OnceInv
  <2>1. \A k \in 1..Len(pushed[u]) :
          /\ pushed[u][k] <= events /\ pushed[u][k] \in Nat
          /\ \A j \in 1..Len(pushed[u]) : pushed[u][k] = pushed[u][j] => k = j
    BY <1>2, <1>8 DEF Walking, OnceInv, FeedEvent
  <2>2. CASE pushed'[u] = pushed[u]
    BY <1>2, <2>1, <2>2
  <2>3. CASE pushed'[u] # pushed[u]
    <3>1. /\ u = v /\ Len(pushed'[u]) = Len(pushed[u]) + 1
          /\ pushed'[u][Len(pushed[u]) + 1] = b.event
          /\ \A k \in 1..Len(pushed[u]) : pushed'[u][k] = pushed[u][k]
      BY <1>7, <2>3
    <3>2. \A k \in 1..Len(pushed[u]) : pushed[u][k] # b.event
      BY <1>4, <3>1 DEF Has
    <3>3. Len(pushed[u]) \in Nat /\ b.event <= n /\ b.event \in Nat
      BY <1>4, <1>8
    <3>4. \A k \in 1..Len(pushed'[u]) : k \in 1..Len(pushed[u]) \/ k = Len(pushed[u]) + 1
      BY <3>1, <3>3
    <3>5. pushed'[u][i] <= n
      <4>1. CASE i \in 1..Len(pushed[u])
        <5>1. pushed'[u][i] = pushed[u][i] /\ pushed[u][i] <= events /\ pushed[u][i] \in Nat
          BY <2>1, <3>1, <4>1
        <5> QED
          BY <1>2, <5>1
      <4>2. CASE i = Len(pushed[u]) + 1
        BY <3>1, <3>3, <4>2
      <4> QED
        BY <3>4, <4>1, <4>2
    <3>6. ASSUME NEW j \in 1..Len(pushed'[u]), pushed'[u][i] = pushed'[u][j]
          PROVE  i = j
      <4>1. i \in 1..Len(pushed[u]) \/ i = Len(pushed[u]) + 1
        BY <3>4
      <4>2. j \in 1..Len(pushed[u]) \/ j = Len(pushed[u]) + 1
        BY <3>4
      <4> QED
        BY <2>1, <3>1, <3>2, <3>6, <4>1, <4>2
    <3> QED
      BY <3>5, <3>6
  <2> QED
    BY <2>2, <2>3
<1>13. /\ \A u \in Tasks : u # t => task'[u] = walk[u]
       /\ task'[t] = c /\ walk[t] = b /\ DOMAIN task' = Tasks
       /\ task' = [u \in Tasks |-> task'[u]]
  BY <1>6 DEF Walking
<1>14. TasksInv(task', n, active, up, pushed')
  <2>1. Fits(c, n, active, up, pushed')
    <3>1. \A u \in Viewers : Has(pushed, u, b.event) => Has(pushed', u, b.event)
      BY <1>9
    <3>2. \A u \in Viewers : u # active[b.next] /\ Has(pushed', u, b.event)
                                => Has(pushed, u, b.event)
      BY <1>9 DEF v
    <3>3. ~up[active[b.next]] \/ Has(pushed', active[b.next], b.event)
      BY <1>9 DEF v
    <3>4. b.next <= Len(active)
      OBVIOUS
    <3> QED
      BY <1>1, <1>2, <1>3, <1>6, <3>1, <3>2, <3>3, <3>4, FitsOnward
  <2>2. ASSUME NEW u \in Tasks, u # t, walk[u].pc = "sending"
        PROVE  Fits(walk[u], n, active, up, pushed')
    <3>1. PICK d : d = walk[u]
      OBVIOUS
    <3>2. Fits(d, n, active, up, pushed) /\ d.event # b.event
      BY <1>13, <2>2, <3>1 DEF Walking, TasksInv
    <3>3. \A x \in Viewers : Has(pushed', x, d.event) <=> Has(pushed, x, d.event)
      BY <1>9, <3>2
    <3>4. Fits(d, n, active, up, pushed')
      BY <1>1, <1>2, <3>2, <3>3, FitsStays
    <3> QED
      BY <3>1, <3>4
  <2>3. TasksInv(walk, n, active, up, pushed)
    BY DEF Walking
  <2>4. c \in All /\ c.pc = "sending" /\ b.pc = "sending"
    BY <1>4, <1>6 DEF Broadcast
  <2>5. \A u \in Tasks : task'[u] \in All
    BY <1>13, <2>3, <2>4 DEF TasksInv
  <2>6. task' \in [Tasks -> All]
    <3> HIDE DEF All
    <3> QED
      BY <1>13, <2>5
  <2>7. \A u \in Tasks : task'[u].pc = walk[u].pc /\ task'[u].event = walk[u].event
    BY <1>6, <1>13, <2>4
  <2>8. \A u \in Tasks : task'[u].pc = "stopped" => u = Agent
    BY <2>3, <2>7 DEF TasksInv
  <2>9. \A u \in Tasks : task'[u].pc = "sending" => Fits(task'[u], n, active, up, pushed')
    BY <1>13, <2>1, <2>2
  <2>10. \A u, x \in Tasks :
           task'[u].pc = "sending" /\ task'[x].pc = "sending" /\ u # x
              => task'[u].event # task'[x].event
    BY <2>3, <2>7 DEF TasksInv
  <2> QED
    BY <2>6, <2>8, <2>9, <2>10 DEF TasksInv
<1>15. ~shrunk => StreamInv(task', n, active, up, pushed', snapshot)
  <2> SUFFICES ASSUME ~shrunk, NEW i \in 1..Len(active), up[active[i]], NEW e \in 1..n
               PROVE  \/ e <= snapshot[active[i]] \/ Has(pushed', active[i], e)
                      \/ \E u \in Tasks :
                            task'[u].pc = "sending" /\ task'[u].event = e /\ i >= task'[u].next
    BY DEF StreamInv
  <2>1. active[i] \in Viewers
    BY <1>1
  <2>2. \/ e <= snapshot[active[i]] \/ Has(pushed, active[i], e)
        \/ \E u \in Tasks :
              walk[u].pc = "sending" /\ walk[u].event = e /\ i >= walk[u].next
    BY DEF Walking, StreamInv
  <2>3. CASE e <= snapshot[active[i]] \/ Has(pushed, active[i], e)
    BY <1>9, <2>1, <2>3
  <2>4. ASSUME NEW u \in Tasks,
               walk[u].pc = "sending" /\ walk[u].event = e /\ i >= walk[u].next
        PROVE  \/ Has(pushed', active[i], e)
               \/ \E x \in Tasks :
                     task'[x].pc = "sending" /\ task'[x].event = e /\ i >= task'[x].next
    <3>1. CASE u # t
      BY <1>13, <2>4, <3>1
    <3>2. CASE u = t /\ i = b.next
      BY <1>9, <1>13, <2>4, <3>2 DEF v
    <3>3. CASE u = t /\ i # b.next
      <4>1. c.pc = "sending" /\ c.event = e
        BY <1>6, <1>13, <2>4, <3>3 DEF Broadcast
      <4>2. i >= c.next
        BY <1>4, <1>6, <1>13, <2>4, <3>3
      <4> QED
        BY <1>13, <4>1, <4>2
    <3> QED
      BY <3>1, <3>2, <3>3
  <2> QED
    BY <2>2, <2>3, <2>4
<1> QED
  BY <1>5, <1>10, <1>11, <1>12, <1>14, <1>15 DEF FeedInv

LEMMA FinishStep ==
  ASSUME NEW t \in Tasks, NEW b, NEW walk, NEW n,
         Walking(t, b, walk, n), ~(b.next <= Len(active)), Finish(t, b), events' = n
  PROVE  FeedInv'
<1> DEFINE All == Broadcast({"idle", "sending", "stopped"})
<1>1. PICK r, gone, tasks :
        /\ r = IF StillListed(b) \/ t # Agent THEN Idle
               ELSE [Idle EXCEPT !.pc = "stopped"]
        /\ gone = Removed(b) /\ tasks = [task EXCEPT ![t] = r]
  OBVIOUS
<1>2. /\ TakeOff(gone) /\ task' = Shifted(tasks, Cardinality(gone))
      /\ UNCHANGED <<handler, up, snapshot, pushed>>
      /\ unanswered' = IF StillListed(b) THEN unanswered ELSE unanswered \union {b.event}
  BY <1>1 DEF Finish, connVars
<1>3. /\ active \in Seq(Viewers) /\ IsFiniteSet(Viewers) /\ Len(active) \in Nat
      /\ n \in Nat /\ n <= MaxEvents /\ events \in Nat /\ MaxEvents \in Nat /\ events <= n
  BY FeedAssumption DEF Walking, FeedType
<1>4. /\ b \in Broadcast({"sending"}) /\ b.event \in 1..n /\ b.next \in Nat
      /\ b.dead \in Seq(Viewers) /\ b.event \in FeedEvent
  <2>1. Fits(b, n, active, up, pushed)
    BY DEF Walking, TasksInv
  <2>2. b \in Broadcast({"sending"}) /\ b.event \in 1..n
    BY <2>1 DEF Fits
  <2> QED
    BY <1>3, <2>2, BroadcastFields DEF FeedEvent
<1>5. IsFiniteSet(gone)
  <2>1. \A i \in DOMAIN b.dead : b.dead[i] \in Viewers
    BY <1>4
  <2>2. gone \subseteq Viewers
    BY <1>1, <2>1 DEF Removed
  <2> QED
    BY <1>3, <2>2, FS_Subset
<1>6. r \in All /\ r.pc # "sending" /\ (r.pc = "stopped" => t = Agent)
  <2>1. <<>> \in Seq(Viewers)
    OBVIOUS
  <2>2. /\ Idle \in All /\ Idle.pc = "idle"
        /\ [Idle EXCEPT !.pc = "stopped"] \in All
        /\ [Idle EXCEPT !.pc = "stopped"].pc = "stopped"
    <3>1. /\ Idle = [pc |-> "idle", event |-> 0, next |-> 1, dead |-> <<>>, removals |-> 0]
          /\ [Idle EXCEPT !.pc = "stopped"]
               = [pc |-> "stopped", event |-> 0, next |-> 1, dead |-> <<>>, removals |-> 0]
      BY DEF Idle
    <3>2. \A p \in {"idle", "stopped"} :
            [pc |-> p, event |-> 0, next |-> 1, dead |-> <<>>, removals |-> 0] \in All
      BY <1>3, <2>1 DEF Broadcast
    <3> HIDE DEF All
    <3> QED
      BY <3>1, <3>2
  <2> HIDE DEF All
  <2> QED
    BY <1>1, <2>2
<1>7. /\ \A u \in Tasks : u # t => tasks[u] = walk[u]
      /\ tasks[t] = r /\ walk[t] = b /\ DOMAIN tasks = Tasks
      /\ tasks = [u \in Tasks |-> tasks[u]]
  BY <1>1 DEF Walking
<1>8. TasksInv(tasks, n, active, up, pushed)
  <2>1. TasksInv(walk, n, active, up, pushed)
    BY DEF Walking
  <2>2. \A u \in Tasks : tasks[u] \in All
    BY <1>6, <1>7, <2>1 DEF TasksInv
  <2>3. tasks \in [Tasks -> All]
    <3> HIDE DEF All
    <3> QED
      BY <1>7, <2>2
  <2>4. \A u \in Tasks : tasks[u].pc = "sending" => u # t
    BY <1>6, <1>7
  <2>5. \A u \in Tasks : tasks[u].pc = "stopped" => u = Agent
    BY <1>6, <1>7, <2>1 DEF TasksInv
  <2>6. \A u \in Tasks : tasks[u].pc = "sending" => Fits(tasks[u], n, active, up, pushed)
    BY <1>7, <2>1, <2>4 DEF TasksInv
  <2>7. \A u, x \in Tasks :
          tasks[u].pc = "sending" /\ tasks[x].pc = "sending" /\ u # x
             => tasks[u].event # tasks[x].event
    BY <1>7, <2>1, <2>4 DEF TasksInv
  <2> QED
    BY <2>3, <2>5, <2>6, <2>7 DEF TasksInv
<1>9. ~shrunk => StreamInv(tasks, n, active, up, pushed, snapshot)
  <2> SUFFICES ASSUME ~shrunk, NEW i \in 1..Len(active), up[active[i]], NEW e \in 1..n
               PROVE  \/ e <= snapshot[active[i]] \/ Has(pushed, active[i], e)
                      \/ \E u \in Tasks :
                            tasks[u].pc = "sending" /\ tasks[u].event = e /\ i >= tasks[u].next
    BY DEF StreamInv
  <2>1. \/ e <= snapshot[active[i]] \/ Has(pushed, active[i], e)
        \/ \E u \in Tasks :
              walk[u].pc = "sending" /\ walk[u].event = e /\ i >= walk[u].next
    BY DEF Walking, StreamInv
  <2>2. ~(i >= b.next)
    BY <1>3, <1>4
  <2> QED
    BY <1>7, <2>1, <2>2
<1>10. FeedType
  BY DEF Walking
<1>11. /\ active' \in Seq(Viewers) /\ shrunk' \in BOOLEAN
       /\ \A i, j \in 1..Len(active') : active'[i] = active'[j] => i = j
       /\ \A i \in 1..Len(active') : \E j \in 1..Len(active) : active'[i] = active[j]
       /\ TasksInv(task', n, active', up, pushed)
       /\ ~shrunk' => StreamInv(task', n, active', up, pushed, snapshot)
  BY <1>2, <1>3, <1>5, <1>8, <1>9, <1>10, ShortenedStep
<1>12. FeedType'
  <2>1. unanswered' \in SUBSET FeedEvent
    BY <1>2, <1>4, <1>10 DEF FeedType
  <2>2. n \in 0..MaxEvents
    BY DEF Walking
  <2> QED
    BY <1>2, <1>10, <1>11, <2>1, <2>2 DEF FeedType
<1>13. ListInv'
  <2> SUFFICES ASSUME NEW u \in Viewers, handler[u] \in {"new", "accepting"}
               PROVE  pushed[u] = <<>> /\ \A i \in 1..Len(active') : active'[i] # u
    BY <1>2 DEF ListInv
  <2>1. pushed[u] = <<>> /\ \A i \in 1..Len(active) : active[i] # u
    BY DEF Walking, ListInv
  <2> QED
    BY <1>11, <2>1
<1>14. OnceInv'
  <2> SUFFICES ASSUME NEW u \in Viewers, NEW i \in 1..Len(pushed[u])
               PROVE  /\ pushed[u][i] <= n
                      /\ \A j \in 1..Len(pushed[u]) : pushed[u][i] = pushed[u][j] => i = j
    BY <1>2 DEF OnceInv
  <2>1. /\ pushed[u][i] <= events
        /\ \A j \in 1..Len(pushed[u]) : pushed[u][i] = pushed[u][j] => i = j
    BY DEF Walking, OnceInv
  <2>2. pushed[u][i] \in Nat
    <3>1. pushed[u] \in Seq(FeedEvent)
      BY <1>10 DEF FeedType
    <3>2. pushed[u][i] \in FeedEvent
      BY <3>1
    <3> QED
      BY <1>3, <3>2 DEF FeedEvent
  <2> QED
    BY <1>3, <2>1, <2>2
<1> QED
  BY <1>2, <1>11, <1>12, <1>13, <1>14 DEF FeedInv

LEMMA AdvanceStep ==
  ASSUME NEW t \in Tasks, NEW b, NEW walk, NEW n,
         Walking(t, b, walk, n), Advance(t, b), events' = n
  PROVE  FeedInv'
<1>1. CASE b.next <= Len(active)
  BY <1>1, SendStep DEF Advance
<1>2. CASE ~(b.next <= Len(active))
  BY <1>2, FinishStep DEF Advance
<1> QED
  BY <1>1, <1>2

LEMMA ResumeStep ==
  ASSUME FeedInv, NEW t \in Tasks, Resume(t)
  PROVE  FeedInv'
<1>1. PICK b, walk, n : b = task[t] /\ walk = task /\ n = events
  OBVIOUS
<1>2. b.pc = "sending" /\ Advance(t, b) /\ events' = n
  BY <1>1 DEF Resume
<1>3. DOMAIN task = Tasks /\ walk = [task EXCEPT ![t] = b]
  BY <1>1 DEF FeedInv, TasksInv
<1>4. events \in 0..MaxEvents /\ events <= n
  BY <1>1, FeedAssumption DEF FeedInv, FeedType
<1>5. Walking(t, b, walk, n)
  BY <1>1, <1>2, <1>3, <1>4 DEF Walking, FeedInv
<1> QED
  BY <1>2, <1>5, AdvanceStep

(* A broadcast that begins: nobody has its event yet.                      *)
LEMMA ScanStep ==
  ASSUME FeedInv, NEW t \in Tasks, BeginScan(t)
  PROVE  FeedInv'
<1> DEFINE All == Broadcast({"idle", "sending", "stopped"})
<1>1. PICK n, b, walk :
        /\ n = events + 1 /\ b = [Idle EXCEPT !.pc = "sending", !.event = events + 1]
        /\ walk = [task EXCEPT ![t] = b]
  OBVIOUS
<1>2. task[t].pc = "idle" /\ events < MaxEvents /\ events' = n /\ Advance(t, b)
  BY <1>1 DEF BeginScan
<1>3. /\ events \in Nat /\ n \in Nat /\ events <= n /\ n \in 0..MaxEvents /\ events # n
      /\ IsFiniteSet(Viewers) /\ active \in Seq(Viewers) /\ MaxEvents \in Nat
      /\ pushed \in [Viewers -> Seq(FeedEvent)]
  <2>1. events \in Nat /\ MaxEvents \in Nat
    BY FeedAssumption, FeedEvents
  <2> QED
    BY <1>1, <1>2, <2>1, FeedEvents DEF FeedInv, FeedType
<1>4. /\ b \in Broadcast({"sending"}) /\ b \in All
      /\ b.pc = "sending" /\ b.event = n /\ b.next = 1 /\ b.removals = 0
  <2>1. <<>> \in Seq(Viewers)
    OBVIOUS
  <2>2. b = [pc |-> "sending", event |-> n, next |-> 1, dead |-> <<>>, removals |-> 0]
    BY <1>1 DEF Idle
  <2> QED
    BY <1>3, <2>1, <2>2 DEF Broadcast
<1>5. /\ DOMAIN task = Tasks /\ walk[t] = b /\ DOMAIN walk = Tasks
      /\ walk = [u \in Tasks |-> walk[u]]
      /\ \A u \in Tasks : u # t => walk[u] = task[u]
  BY <1>1 DEF FeedInv, TasksInv
<1>6. \A v \in Viewers : ~Has(pushed, v, n)
  <2> SUFFICES ASSUME NEW v \in Viewers, NEW i \in 1..Len(pushed[v])
               PROVE  pushed[v][i] # n
    BY DEF Has
  <2>1. pushed[v][i] <= events /\ pushed[v][i] \in Nat
    BY <1>3 DEF FeedInv, OnceInv, FeedEvent
  <2> QED
    BY <1>1, <1>3, <2>1
<1>7. Fits(b, n, active, up, pushed)
  <2>1. \A i \in 1..Len(active) : ~Has(pushed, active[i], b.event)
    BY <1>3, <1>4, <1>6
  <2>2. b.event \in 1..n
    BY <1>1, <1>3, <1>4
  <2>3. b.next <= b.removals + Cardinality(Served(b, active, up, pushed)) + 1
    BY <1>3, <1>4, ServedFinite
  <2> QED
    BY <1>4, <2>1, <2>2, <2>3 DEF Fits
<1>8. ASSUME NEW u \in Tasks, u # t, walk[u].pc = "sending"
      PROVE  Fits(walk[u], n, active, up, pushed) /\ walk[u].event # n
  <2>1. PICK d, m : d = walk[u] /\ m = events
    OBVIOUS
  <2>2. Fits(d, m, active, up, pushed)
    BY <1>5, <1>8, <2>1 DEF FeedInv, TasksInv
  <2>3. Fits(d, n, active, up, pushed)
    BY <1>3, <2>1, <2>2, FitsStays
  <2>4. d.event # n
    BY <1>1, <1>3, <2>1, <2>2 DEF Fits
  <2> QED
    BY <2>1, <2>3, <2>4
<1>9. TasksInv(walk, n, active, up, pushed)
  <2>1. TasksInv(task, events, active, up, pushed)
    BY DEF FeedInv
  <2>2. \A u \in Tasks : walk[u] \in All
    BY <1>4, <1>5, <2>1 DEF TasksInv
  <2>3. walk \in [Tasks -> All]
    <3> HIDE DEF All
    <3> QED
      BY <1>5, <2>2
  <2>4. \A u \in Tasks : walk[u].pc = "stopped" => u = Agent
    BY <1>4, <1>5, <2>1 DEF TasksInv
  <2>5. \A u \in Tasks : walk[u].pc = "sending" => Fits(walk[u], n, active, up, pushed)
    BY <1>5, <1>7, <1>8
  <2>6. \A u, x \in Tasks :
          walk[u].pc = "sending" /\ walk[x].pc = "sending" /\ u # x
             => walk[u].event # walk[x].event
    BY <1>4, <1>5, <1>8, <2>1 DEF TasksInv
  <2> QED
    BY <2>3, <2>4, <2>5, <2>6 DEF TasksInv
<1>10. ~shrunk => StreamInv(walk, n, active, up, pushed, snapshot)
  <2> SUFFICES ASSUME ~shrunk, NEW i \in 1..Len(active), up[active[i]], NEW e \in 1..n
               PROVE  \/ e <= snapshot[active[i]] \/ Has(pushed, active[i], e)
                      \/ \E u \in Tasks :
                            walk[u].pc = "sending" /\ walk[u].event = e /\ i >= walk[u].next
    BY DEF StreamInv
  <2>1. CASE e = n
    BY <1>4, <1>5, <2>1
  <2>2. CASE e # n
    <3>1. e \in 1..events
      BY <1>1, <1>3, <2>2
    <3>2. \/ e <= snapshot[active[i]] \/ Has(pushed, active[i], e)
          \/ \E u \in Tasks :
                task[u].pc = "sending" /\ task[u].event = e /\ i >= task[u].next
      BY <3>1 DEF FeedInv, StreamInv
    <3> QED
      BY <1>2, <1>5, <3>2
  <2> QED
    BY <2>1, <2>2
<1>11. Walking(t, b, walk, n)
  BY <1>1, <1>3, <1>4, <1>5, <1>9, <1>10 DEF Walking, FeedInv
<1> QED
  BY <1>2, <1>11, AdvanceStep

LEMMA FeedStarts ==
  ASSUME FeedInit
  PROVE  FeedInv
<1> DEFINE All == Broadcast({"idle", "sending", "stopped"})
<1>1. IsFiniteSet(Viewers) /\ MaxEvents \in Nat /\ 0 \in 0..MaxEvents
  BY FeedAssumption
<1>2. /\ active = <<>> /\ active \in Seq(Viewers) /\ Len(active) = 0 /\ events = 0
      /\ pushed = [v \in Viewers |-> <<>>] /\ shrunk = FALSE
      /\ task = [t \in Tasks |-> Idle]
  BY DEF FeedInit
<1>3. /\ pushed \in [Viewers -> Seq(FeedEvent)]
      /\ \A v \in Viewers : pushed[v] = <<>> /\ Len(pushed[v]) = 0
  BY <1>2
<1>4. /\ handler \in [Viewers -> {"new", "accepting", "open", "ended"}]
      /\ up \in [Viewers -> BOOLEAN] /\ snapshot \in [Viewers -> 0..MaxEvents]
      /\ unanswered = {}
  BY <1>1 DEF FeedInit
<1>5. FeedType
  <2>1. \A i, j \in 1..Len(active) : active[i] = active[j] => i = j
    BY <1>2
  <2>2. events \in 0..MaxEvents /\ shrunk \in BOOLEAN /\ unanswered \in SUBSET FeedEvent
    BY <1>1, <1>2, <1>4
  <2> QED
    BY <1>2, <1>3, <1>4, <2>1, <2>2 DEF FeedType
<1>6. ListInv /\ OnceInv
  BY <1>2, <1>3 DEF ListInv, OnceInv
<1>7. Idle \in All /\ Idle.pc = "idle"
  <2>1. Idle = [pc |-> "idle", event |-> 0, next |-> 1, dead |-> <<>>, removals |-> 0]
    BY DEF Idle
  <2>2. <<>> \in Seq(Viewers)
    OBVIOUS
  <2> QED
    BY <1>1, <2>1, <2>2 DEF Broadcast
<1>8. TasksInv(task, events, active, up, pushed)
  <2>1. task \in [Tasks -> All]
    <3> HIDE DEF All
    <3> QED
      BY <1>2, <1>7
  <2>2. \A t \in Tasks : task[t].pc = "idle"
    BY <1>2, <1>7
  <2> QED
    BY <2>1, <2>2 DEF TasksInv
<1>9. StreamInv(task, events, active, up, pushed, snapshot)
  BY <1>2 DEF StreamInv
<1> QED
  BY <1>5, <1>6, <1>8, <1>9 DEF FeedInv

(* One case for each disjunct of the feed's next-state relation.           *)
LEMMA FeedStep ==
  ASSUME FeedInv, [FeedNext]_feedVars
  PROVE  FeedInv'
<1>0. /\ handler \in [Viewers -> {"new", "accepting", "open", "ended"}]
      /\ up \in [Viewers -> BOOLEAN]
  BY DEF FeedInv, FeedType
<1>1. ASSUME NEW v \in Viewers,
             RefuseViewer(v) \/ Connect(v) \/ AcceptRaises(v)
               \/ ClientLeaves(v) \/ TooLarge(v)
      PROVE  FeedInv'
  <2>1. UNCHANGED <<active, snapshot, pushed, events, task, shrunk, unanswered>>
    BY <1>1 DEF RefuseViewer, Connect, AcceptRaises, ClientLeaves, TooLarge
  <2>2. /\ \/ up' = up
           \/ up' = [up EXCEPT ![v] = FALSE]
        /\ \/ handler' = handler
           \/ handler' = [handler EXCEPT ![v] = "ended"]
           \/ handler[v] = "new" /\ handler' = [handler EXCEPT ![v] = "accepting"]
    BY <1>1 DEF RefuseViewer, Connect, AcceptRaises, ClientLeaves, TooLarge
  <2>3. up' \in [Viewers -> BOOLEAN] /\ \A u \in Viewers : up'[u] => up[u]
    BY <1>0, <2>2
  <2>4. /\ handler' \in [Viewers -> {"new", "accepting", "open", "ended"}]
        /\ \A u \in Viewers : handler'[u] \in {"new", "accepting"}
                                 => handler[u] \in {"new", "accepting"}
    BY <1>0, <2>2
  <2> QED
    BY <2>1, <2>3, <2>4, QuietStep
<1>2. ASSUME NEW v \in Viewers, Accepted(v)
      PROVE  FeedInv'
  BY <1>2, AcceptedStep
<1>3. ASSUME NEW v \in Viewers, Disconnected(v)
      PROVE  FeedInv'
  BY <1>3, DisconnectedStep
<1>4. ASSUME NEW t \in Tasks, BeginScan(t)
      PROVE  FeedInv'
  BY <1>4, ScanStep
<1>5. ASSUME NEW t \in Tasks, Resume(t)
      PROVE  FeedInv'
  BY <1>5, ResumeStep
<1>6. CASE UNCHANGED feedVars
  <2>1. /\ UNCHANGED <<active, snapshot, pushed, events, task, shrunk, unanswered>>
        /\ UNCHANGED <<handler, up>>
    BY <1>6 DEF feedVars, connVars
  <2> QED
    BY <1>0, <2>1, QuietStep
<1> QED
  BY <1>1, <1>2, <1>3, <1>4, <1>5, <1>6 DEF FeedNext

-----------------------------------------------------------------------------
(* What the invariant says to a dashboard.                                 *)

LEMMA FeedListed ==
  ASSUME FeedInv
  PROVE  /\ \A v : v \in ToSet(active) <=> \E i \in 1..Len(active) : active[i] = v
         /\ \A i \in 1..Len(active) : IndexOf(active[i]) = i
         /\ \A v \in Viewers : \A e : e \in ToSet(pushed[v]) <=> Has(pushed, v, e)
<1>1. /\ active \in Seq(Viewers) /\ DOMAIN active = 1..Len(active)
      /\ \A i, j \in 1..Len(active) : active[i] = active[j] => i = j
      /\ \A v \in Viewers : DOMAIN pushed[v] = 1..Len(pushed[v])
  BY DEF FeedInv, FeedType
<1>2. \A v : v \in ToSet(active) <=> \E i \in 1..Len(active) : active[i] = v
  BY <1>1 DEF ToSet
<1>3. ASSUME NEW i \in 1..Len(active)
      PROVE  IndexOf(active[i]) = i
  BY <1>1 DEF IndexOf
<1>4. \A v \in Viewers : \A e : e \in ToSet(pushed[v]) <=> Has(pushed, v, e)
  BY <1>1 DEF ToSet, Has
<1> QED
  BY <1>2, <1>3, <1>4

LEMMA FeedExact ==
  ASSUME FeedInv
  PROVE  StreamIsExact
<1>1. /\ FeedType /\ OnceInv /\ TasksInv(task, events, active, up, pushed)
      /\ DOMAIN active = 1..Len(active)
      /\ \A v \in Viewers : DOMAIN pushed[v] = 1..Len(pushed[v])
  BY DEF FeedInv, FeedType
<1>2. FeedTypeOK
  <2>1. IsInjective(active)
    BY <1>1 DEF FeedType, IsInjective
  <2>2. \A t \in Tasks :
          /\ task[t] \in Broadcast({"idle", "sending", "stopped"})
          /\ task[t].pc = "stopped" => t = Agent
    BY <1>1 DEF TasksInv
  <2>3. \A t \in Scanners : task[t] \in Broadcast({"idle", "sending"})
    <3> SUFFICES ASSUME NEW t \in Scanners
                 PROVE  task[t] \in Broadcast({"idle", "sending"})
      OBVIOUS
    <3>1. t \in Tasks /\ t # Agent
      BY FeedAssumption DEF Tasks
    <3> QED
      BY <2>2, <3>1 DEF Broadcast
  <2>4. task[Agent] \in Broadcast({"idle", "sending", "stopped"})
    BY <2>2 DEF Tasks
  <2> QED
    BY <1>1, <2>1, <2>3, <2>4 DEF FeedType, FeedTypeOK
<1>3. NoEventTwice
  BY <1>1 DEF OnceInv, NoEventTwice, IsInjective
<1>4. StreamIsComplete
  <2> SUFFICES ASSUME ~shrunk, NEW v \in Viewers, v \in ToSet(active), up[v],
                      NEW n \in 1..events
               PROVE  \/ n <= snapshot[v] \/ n \in ToSet(pushed[v])
                      \/ Underway(n, v)
    BY DEF StreamIsComplete, Listed
  <2>1. PICK i \in 1..Len(active) : active[i] = v
    BY FeedListed
  <2>2. IndexOf(v) = i
    BY <2>1, FeedListed
  <2>3. \/ n <= snapshot[v] \/ Has(pushed, v, n)
        \/ \E t \in Tasks :
              task[t].pc = "sending" /\ task[t].event = n /\ i >= task[t].next
    BY <2>1 DEF FeedInv, StreamInv
  <2>4. Has(pushed, v, n) => n \in ToSet(pushed[v])
    BY FeedListed
  <2> QED
    BY <2>2, <2>3, <2>4 DEF Underway
<1> QED
  BY <1>2, <1>3, <1>4 DEF StreamIsExact

(* Every position a broadcast has gone past holds a served connection or a *)
(* skipped one, and there are no more of both than positions.              *)
LEMMA FeedSkips ==
  ASSUME FeedInv
  PROVE  SkipsAreBounded
<1> SUFFICES ASSUME NEW t \in Tasks, task[t].pc = "sending"
             PROVE  Cardinality(Skipped(task[t])) <= task[t].removals
  BY DEF SkipsAreBounded
<1>1. PICK b, skipped, served :
        /\ b = task[t] /\ skipped = Skipped(b) /\ served = Served(b, active, up, pushed)
  OBVIOUS
<1>2. /\ b.next \in Nat /\ b.next >= 1 /\ b.removals \in Nat
      /\ b.next <= b.removals + Cardinality(served) + 1
  <2>1. Fits(b, events, active, up, pushed)
    BY <1>1 DEF FeedInv, TasksInv
  <2> QED
    BY <1>1, <2>1, BroadcastFields DEF Fits
<1>3. /\ active \in Seq(Viewers) /\ IsFiniteSet(Viewers)
      /\ \A i, j \in 1..Len(active) : active[i] = active[j] => i = j
  BY FeedAssumption DEF FeedInv, FeedType
<1>4. \A v \in skipped :
        /\ v \in Viewers /\ up[v] /\ ~Has(pushed, v, b.event)
        /\ \E i \in 1..Len(active) : i < b.next /\ active[i] = v
  <2> SUFFICES ASSUME NEW v \in skipped
               PROVE  /\ v \in Viewers /\ up[v] /\ ~Has(pushed, v, b.event)
                      /\ \E i \in 1..Len(active) : i < b.next /\ active[i] = v
    OBVIOUS
  <2>1. /\ v \in ToSet(active) /\ up[v] /\ IndexOf(v) < b.next
        /\ b.event \notin ToSet(pushed[v])
    BY <1>1 DEF Skipped
  <2>2. PICK i \in 1..Len(active) : active[i] = v
    BY <2>1, FeedListed
  <2>3. IndexOf(v) = i /\ v \in Viewers
    BY <1>3, <2>2, FeedListed
  <2> QED
    BY <2>1, <2>2, <2>3, FeedListed
<1>5. \A v \in served :
        /\ v \in Viewers /\ (~up[v] \/ Has(pushed, v, b.event))
        /\ \E i \in 1..Len(active) : i < b.next /\ active[i] = v
  BY <1>1 DEF Served
<1> DEFINE both == skipped \cup served
           at == [v \in both |-> CHOOSE i \in 1..Len(active) : i < b.next /\ active[i] = v]
<1>6. at \in Injection(both, 1..(b.next - 1))
  <2>1. \A v \in both : at[v] \in 1..Len(active) /\ at[v] < b.next /\ active[at[v]] = v
    BY <1>4, <1>5
  <2> HIDE DEF at, both
  <2>2. \A v \in both : at[v] \in 1..(b.next - 1)
    BY <1>2, <2>1
  <2>3. at = [v \in both |-> at[v]]
    BY DEF at
  <2>4. at \in [both -> 1..(b.next - 1)]
    BY <2>2, <2>3
  <2>5. \A u, v \in both : at[u] = at[v] => u = v
    BY <2>1
  <2> QED
    BY <2>4, <2>5 DEF Injection, IsInjective
<1>7. /\ IsFiniteSet(1..(b.next - 1)) /\ Cardinality(1..(b.next - 1)) = b.next - 1
  <2>1. \A k \in Nat : IsFiniteSet(1..k) /\ Cardinality(1..k) = k
    BY FS_Interval
  <2>2. b.next - 1 \in Nat
    BY <1>2
  <2> QED
    BY Zenon, <2>1, <2>2
<1>8. IsFiniteSet(both) /\ Cardinality(both) <= b.next - 1
  <2> HIDE DEF at, both
  <2> QED
    BY <1>6, <1>7, FS_Injection
<1>9. /\ IsFiniteSet(skipped) /\ IsFiniteSet(served) /\ skipped \cap served = {}
      /\ Cardinality(skipped) \in Nat /\ Cardinality(served) \in Nat
  <2>1. skipped \subseteq both /\ served \subseteq both /\ skipped \cap served = {}
    BY <1>4, <1>5
  <2> HIDE DEF both
  <2> QED
    BY <1>8, <2>1, FS_Subset, FS_CardinalityType
<1>10. Cardinality(both) = Cardinality(skipped) + Cardinality(served)
  <2>1. Cardinality(skipped \cap served) = 0
    BY <1>9, FS_EmptySet
  <2>2. Cardinality(skipped \cup served)
          = Cardinality(skipped) + Cardinality(served) - Cardinality(skipped \cap served)
    BY Zenon, <1>9, FS_Union
  <2> QED
    BY <1>9, <2>1, <2>2
<1> HIDE DEF both
<1>11. Cardinality(skipped) <= b.removals
  BY <1>2, <1>8, <1>9, <1>10
<1> QED
  BY <1>1, <1>11

(* A dashboard never gets an event twice, and as long as no connection has *)
(* left, every recorded event is in its snapshot, in its stream, or on its *)
(* way (broadcast, websocket_endpoint).                                    *)
THEOREM FeedStreamIsExact == FeedSpec => []StreamIsExact
<1>1. FeedInit => FeedInv
  BY FeedStarts
<1>2. FeedInv /\ [FeedNext]_feedVars => FeedInv'
  BY FeedStep
<1>3. FeedInv => StreamIsExact
  BY FeedExact
<1> QED
  BY <1>1, <1>2, <1>3, PTL DEF FeedSpec

(* However the list changes under a broadcast, it goes past no more        *)
(* connections without a send than have left since it began (broadcast,    *)
(* disconnect).                                                            *)
THEOREM FeedSkipsAreBounded == FeedSpec => []SkipsAreBounded
<1>1. FeedInit => FeedInv
  BY FeedStarts
<1>2. FeedInv /\ [FeedNext]_feedVars => FeedInv'
  BY FeedStep
<1>3. FeedInv => SkipsAreBounded
  BY FeedSkips
<1> QED
  BY <1>1, <1>2, <1>3, PTL DEF FeedSpec

-----------------------------------------------------------------------------
(* Sequences and numbers. *)

\* Where the entry at position i comes when only some positions are kept.
Place(positions, i) == Cardinality({j \in positions : j <= i})

\* The entries at some positions: each of them once, and in their order.
LEMMA AtIs ==
  ASSUME NEW S, NEW s \in Seq(S), NEW positions \in SUBSET (1..Len(s))
  PROVE  /\ At(s, positions) \in Seq(S)
         /\ Len(At(s, positions)) = Cardinality(positions) /\ Cardinality(positions) \in Nat
         /\ \A i \in positions : /\ Place(positions, i) \in 1..Cardinality(positions)
                                 /\ At(s, positions)[Place(positions, i)] = s[i]
         /\ \A i, j \in positions : i < j => Place(positions, i) < Place(positions, j)
         /\ \A k \in 1..Cardinality(positions) :
              \E i \in positions : Place(positions, i) = k /\ At(s, positions)[k] = s[i]
<1> DEFINE n == Cardinality(positions)
           place(i) == Cardinality({j \in positions : j <= i})
           from == [k \in 1..n |-> CHOOSE i \in positions : place(i) = k]
           a == At(s, positions)
<1>1. Len(s) \in Nat /\ DOMAIN s = 1..Len(s) /\ \A i \in positions : s[i] \in S
  OBVIOUS
<1>2. /\ n \in Nat
      /\ \A i \in positions : place(i) \in 1..n
      /\ \A i, j \in positions : i < j => place(i) < place(j)
      /\ \A k \in 1..n : \E i \in positions : place(i) = k
  BY <1>1, Ranks
<1>3. a = [k \in 1..n |-> s[from[k]]]
  <2>1. a = [k \in 1..n |-> s[CHOOSE i \in positions : place(i) = k]]
    BY Zenon DEF At
  <2>2. \A k \in 1..n : from[k] = CHOOSE i \in positions : place(i) = k
    OBVIOUS
  <2> QED
    BY Zenon, <2>1, <2>2
<1>4. \A k \in 1..n : from[k] \in positions /\ place(from[k]) = k
  <2> HIDE DEF place
  <2> QED
    BY <1>2
<1> HIDE DEF n, place, from, a
<1>5. \A i, j \in positions : place(i) = place(j) => i = j
  <2> SUFFICES ASSUME NEW i \in positions, NEW j \in positions, place(i) = place(j)
               PROVE  i = j
    OBVIOUS
  <2>1. place(i) \in Nat /\ i \in Nat /\ j \in Nat
    BY <1>1, <1>2
  <2>2. ~(i < j) /\ ~(j < i)
    BY <1>2, <2>1
  <2> QED
    BY <2>1, <2>2
<1>6. /\ Len(a) = n /\ a \in Seq(S)
      /\ \A k \in 1..n : a[k] = s[from[k]]
  <2>1. \A k \in 1..n : s[from[k]] \in S
    BY <1>1, <1>4
  <2>2. a \in [1..n -> S]
    BY <1>3, <2>1
  <2> QED
    BY <1>2, <1>3, <2>2
<1>7. ASSUME NEW i \in positions
      PROVE  a[place(i)] = s[i]
  <2>1. place(i) \in 1..n /\ from[place(i)] \in positions /\ place(from[place(i)]) = place(i)
    BY <1>2, <1>4
  <2>2. from[place(i)] = i
    BY <1>5, <2>1
  <2> QED
    BY <1>6, <2>1, <2>2
<1>8. \A k \in 1..n : \E i \in positions : place(i) = k /\ a[k] = s[i]
  BY <1>4, <1>6
<1> QED
  BY <1>2, <1>6, <1>7, <1>8 DEF n, place, a, Place

HowMany(s, positions, T) == Cardinality({i \in positions : s[i] \in T})

\* Entries of any kind are as many among the chosen ones as at the positions.
LEMMA AtCounts ==
  ASSUME NEW S, NEW s \in Seq(S), NEW positions \in SUBSET (1..Len(s)), NEW T
  PROVE  HowMany(At(s, positions), DOMAIN At(s, positions), T) = HowMany(s, positions, T)
<1> DEFINE place(i) == Place(positions, i)
           a == At(s, positions)
           there == {i \in positions : s[i] \in T}
           here == {k \in DOMAIN a : a[k] \in T}
           map == [i \in there |-> place(i)]
<1>1. /\ a \in Seq(S)
      /\ \A i \in positions : place(i) \in 1..Len(a) /\ a[place(i)] = s[i]
      /\ \A i, j \in positions : i < j => place(i) < place(j)
      /\ \A k \in 1..Len(a) : \E i \in positions : place(i) = k /\ a[k] = s[i]
  BY AtIs
<1> HIDE DEF place, a
<1>2. Len(s) \in Nat /\ Len(a) \in Nat /\ DOMAIN a = 1..Len(a)
  BY <1>1
<1>3. \A i, j \in positions : place(i) = place(j) => i = j
  <2> SUFFICES ASSUME NEW i \in positions, NEW j \in positions, place(i) = place(j)
               PROVE  i = j
    OBVIOUS
  <2>1. place(i) \in Nat /\ i \in Nat /\ j \in Nat
    BY <1>1, <1>2
  <2>2. ~(i < j) /\ ~(j < i)
    BY <1>1, <2>1
  <2> QED
    BY <2>1, <2>2
<1>4. map \in [there -> here]
  BY <1>1, <1>2
<1>5. \A i, j \in there : map[i] = map[j] => i = j
  BY <1>3
<1>6. \A k \in here : \E i \in there : map[i] = k
  BY <1>1, <1>2
<1>7. map \in Bijection(there, here)
  <2> HIDE DEF there, here, map
  <2> QED
    BY <1>4, <1>5, <1>6 DEF Bijection, Injection, IsInjective, Surjection
<1>8. IsFiniteSet(there)
  <2>1. IsFiniteSet(1..Len(s))
    BY <1>2, FS_Interval
  <2> QED
    BY <2>1, FS_Subset
<1>9. Cardinality(here) = Cardinality(there)
  <2> HIDE DEF there, here, map
  <2> QED
    BY <1>7, <1>8, FS_Bijection DEF ExistsBijection
<1> QED
  BY <1>9 DEF a, HowMany

\* A set of positions gains at most the new one.
LEMMA OneEntryMore ==
  ASSUME NEW n \in Nat, NEW old \in SUBSET (1..n), NEW new,
         \A i : i \in new <=> i \in old \/ (i = n + 1 /\ n + 1 \in new)
  PROVE  /\ IsFiniteSet(old) /\ Cardinality(old) \in Nat
         /\ Cardinality(new) = IF n + 1 \in new THEN Cardinality(old) + 1 ELSE Cardinality(old)
<1>1. IsFiniteSet(old) /\ Cardinality(old) \in Nat
  <2>1. IsFiniteSet(1..n)
    BY FS_Interval
  <2> QED
    BY <2>1, FS_Subset, FS_CardinalityType
<1>2. CASE n + 1 \in new
  <2>1. new = old \union {n + 1} /\ n + 1 \notin old
    BY <1>2
  <2> QED
    BY <1>1, <1>2, <2>1, FS_AddElement
<1>3. CASE n + 1 \notin new
  <2>1. new = old
    BY <1>3
  <2> QED
    BY <1>1, <1>3, <2>1
<1> QED
  BY <1>1, <1>2, <1>3

\* A bounded set of naturals has a largest member, and one without a bound a
\* smallest.
LEMMA MaxIs ==
  ASSUME NEW k \in Nat, NEW S \in SUBSET (0..k), S # {}
  PROVE  Max(S) \in S /\ \A x \in S : x <= Max(S)
<1>1. PICK d \in {k - x : x \in S} :
        \A e \in {k - x : x \in S} : ~(<<e, d>> \in OpToRel(<, Nat))
  <2>1. \A x \in S : k - x \in Nat
    OBVIOUS
  <2>2. PICK x \in S : TRUE
    OBVIOUS
  <2>3. {k - y : y \in S} \in SUBSET Nat /\ k - x \in {k - y : y \in S}
    BY <2>1
  <2> QED
    BY <2>3, WFMin, NatLessThanWellFounded
<1>2. PICK m \in S : d = k - m
  BY <1>1
<1>3. ASSUME NEW x \in S
      PROVE  x <= m
  <2>1. k - x \in Nat /\ d \in Nat
    BY <1>2
  <2>2. ~(k - x < d)
    BY <1>1, <2>1 DEF OpToRel
  <2> QED
    BY <1>2, <2>1, <2>2
<1>4. \A y \in S : m >= y
  BY <1>2, <1>3
<1>5. Max(S) \in S /\ \A y \in S : Max(S) >= y
  BY <1>4 DEF Max
<1> QED
  BY <1>5

LEMMA MinIs ==
  ASSUME NEW S \in SUBSET Nat, S # {}
  PROVE  Min(S) \in S /\ \A x \in S : Min(S) <= x
<1>1. PICK m \in S : \A x \in S : ~(<<x, m>> \in OpToRel(<, Nat))
  BY WFMin, NatLessThanWellFounded
<1>2. ASSUME NEW x \in S
      PROVE  m <= x
  <2>1. ~(x < m)
    BY <1>1 DEF OpToRel
  <2> QED
    BY <2>1
<1> QED
  BY <1>2 DEF Min

LEMMA OfTwo ==
  ASSUME NEW a \in Int, NEW b \in Int
  PROVE  /\ Max({a, b}) = IF a >= b THEN a ELSE b
         /\ Min({a, b}) = IF a <= b THEN a ELSE b
<1>1. \E x \in {a, b} : \A y \in {a, b} : x >= y
  OBVIOUS
<1>2. \E x \in {a, b} : \A y \in {a, b} : x <= y
  OBVIOUS
<1>3. Max({a, b}) \in {a, b} /\ \A y \in {a, b} : Max({a, b}) >= y
  BY <1>1 DEF Max
<1>4. Min({a, b}) \in {a, b} /\ \A y \in {a, b} : Min({a, b}) <= y
  BY <1>2 DEF Min
<1> QED
  BY <1>3, <1>4

-----------------------------------------------------------------------------
(* The two sliding windows.  A window is right when, from its start on, it *)
(* counts as many entries as the log of all that ever happened.            *)

Since(times, c) == {i \in DOMAIN times : times[i] >= c}

\* Pruning what is older than a time leaves what is not.
LEMMA Pruned ==
  ASSUME NEW times \in Seq(Nat), NEW cut \in Int, NEW c \in Int, c >= cut
  PROVE  LET kept == At(times, Since(times, cut))
         IN /\ kept \in Seq(Nat)
            /\ Len(kept) = Cardinality(Since(times, cut))
            /\ Cardinality(Since(kept, c)) = Cardinality(Since(times, c))
<1> DEFINE positions == Since(times, cut)
           kept == At(times, positions)
           T == {x \in Nat : x >= c}
<1>1. positions \in SUBSET (1..Len(times)) /\ DOMAIN times = 1..Len(times)
  BY DEF Since
<1>2. kept \in Seq(Nat) /\ Len(kept) = Cardinality(positions)
  <2> HIDE DEF positions
  <2> QED
    BY <1>1, AtIs
<1>3. HowMany(kept, DOMAIN kept, T) = HowMany(times, positions, T)
  <2> HIDE DEF positions, T
  <2> QED
    BY <1>1, AtCounts
<1>4. {i \in positions : times[i] \in T} = Since(times, c)
  BY DEF Since
<1>5. {k \in DOMAIN kept : kept[k] \in T} = Since(kept, c)
  <2> HIDE DEF kept
  <2>1. \A k \in DOMAIN kept : kept[k] \in Nat
    BY <1>2
  <2> QED
    BY <2>1 DEF Since
<1> QED
  BY <1>2, <1>3, <1>4, <1>5 DEF HowMany

LEMMA OneTimeMore ==
  ASSUME NEW times \in Seq(Nat), NEW t \in Nat, NEW c \in Int
  PROVE  /\ Cardinality(Since(times, c)) \in Nat
         /\ Cardinality(Since(Append(times, t), c))
              = Cardinality(Since(times, c)) + (IF t >= c THEN 1 ELSE 0)
<1> DEFINE n == Len(times)
           longer == Append(times, t)
<1>1. n \in Nat /\ DOMAIN times = 1..n /\ DOMAIN longer = 1..(n + 1)
      /\ longer[n + 1] = t /\ \A i \in 1..n : longer[i] = times[i] /\ times[i] \in Nat
  OBVIOUS
<1> HIDE DEF n, longer
<1>2. Since(times, c) \in SUBSET (1..n)
  BY <1>1 DEF Since
<1>3. \A i : i \in Since(longer, c) <=> i \in Since(times, c) \/ (i = n + 1 /\ n + 1 \in Since(longer, c))
  BY <1>1 DEF Since
<1>4. n + 1 \in Since(longer, c) <=> t >= c
  BY <1>1 DEF Since
<1>5. /\ Cardinality(Since(times, c)) \in Nat
      /\ Cardinality(Since(longer, c)) = IF n + 1 \in Since(longer, c)
           THEN Cardinality(Since(times, c)) + 1 ELSE Cardinality(Since(times, c))
  BY <1>1, <1>2, <1>3, OneEntryMore
<1> QED
  BY <1>4, <1>5 DEF longer

\* The servers that an attack's events are attributed to.
Attacker == {"unknown"} \union {c.server : c \in Call}

Reports == Event \union {[e EXCEPT !.server = s] : e \in Event, s \in Attacker}

\* The connections to a server since some time.
Connects(log, s, c) ==
  {j \in DOMAIN log : /\ log[j].event.server = s
                      /\ log[j].event.type = "network_connect"
                      /\ log[j].at >= c}

AlertName ==
  {"blocked_destination", "unknown_destination", "unauthorized_port", "hidden_smtp",
   "rate_limit_exceeded", "unauthorized_dns", "blocked_dns", "unauthorized_file_access",
   "unauthorized_subprocess", "large_send_unknown_dest", "no_policy"}

KernelTypes ==
  /\ now \in Nat
  /\ deployment \in Deployment
  /\ kernel \in [events : Seq([event : Reports, at : Nat]),
                 alerts : Seq([server : {e.server : e \in Reports}, types : SUBSET AlertName]),
                 connections : [{p.server : p \in deployment.policies} -> Seq(Nat)]]
  /\ Len(kernel.alerts) = Len(kernel.events)

ConnectionsCount ==
  \A s \in DOMAIN kernel.connections, c \in Int : c >= now - RateWindow =>
     Cardinality(Since(kernel.connections[s], c)) = Cardinality(Connects(kernel.events, s, c))

RequestsCount ==
  /\ windows \in [Peer -> Seq(Nat)]
  /\ admitted \in [Peer -> Seq(Nat)]
  /\ \A p \in Peer : \A i \in DOMAIN admitted[p] : admitted[p][i] <= now
  /\ \A p \in Peer, c \in Int : c > now - RateWindow =>
        Cardinality(Since(windows[p], c)) = Cardinality(Since(admitted[p], c))

\* The bound holds of the windows to come, too.
InAnyWindow(times, t) == {i \in DOMAIN times : times[i] >= t /\ times[i] < t + RateWindow}

RateBound ==
  \A p \in Peer, t \in Nat : Cardinality(InAnyWindow(admitted[p], t)) <= RateLimit

RateInv ==
  /\ attack.server \in Attacker
  /\ KernelTypes /\ ConnectionsCount /\ RateAlertIsExact /\ RequestsCount /\ RateBound

-----------------------------------------------------------------------------
(* The kernel monitor's window. *)

LEMMA ProcessedFields ==
  ASSUME KernelTypes, NEW e \in Reports, ProcessEvent(e)
  PROVE  /\ kernel'.events = Append(kernel.events, [event |-> e, at |-> now])
         /\ kernel'.alerts = Append(kernel.alerts,
                [server |-> e.server, types |-> EventAlerts(e, Connections(e))])
         /\ kernel'.connections = [s \in DOMAIN kernel.connections |->
                IF s = e.server /\ e.type = "network_connect" THEN Connections(e)
                ELSE kernel.connections[s]]
BY DEF ProcessEvent, KernelTypes

LEMMA ProcessedRecord ==
  ASSUME KernelTypes, NEW e \in Reports, ProcessEvent(e)
  PROVE  kernel' = [events |-> kernel'.events, alerts |-> kernel'.alerts,
                    connections |-> kernel'.connections]
BY DEF ProcessEvent, KernelTypes

LEMMA AlertNames ==
  ASSUME NEW e, NEW times
  PROVE  EventAlerts(e, times) \in SUBSET AlertName
<1>1. ASSUME NEW p, NEW a \in NetworkAlerts(e, p)
      PROVE  a \in AlertName
  BY <1>1 DEF NetworkAlerts, When, AlertName
<1>2. ASSUME NEW p, NEW a \in Alerts(e, p, times)
      PROVE  a \in AlertName
  <2>1. a \in NetworkAlerts(e, p) \/ a \in AlertName
    BY <1>2 DEF Alerts, When, AlertName
  <2> QED
    BY <1>1, <2>1
<1>3. ASSUME NEW a \in EventAlerts(e, times)
      PROVE  a \in AlertName
  <2>1. CASE PolicyOf(e.server) = {}
    BY <1>3, <2>1 DEF EventAlerts, AlertName
  <2>2. CASE PolicyOf(e.server) # {}
    <3>1. PICK p \in PolicyOf(e.server) : a \in Alerts(e, p, times)
      BY <1>3, <2>2 DEF EventAlerts
    <3> QED
      BY <1>2, <3>1
  <2> QED
    BY <2>1, <2>2
<1> QED
  BY <1>3

LEMMA RateAlertMeans ==
  ASSUME NEW e, NEW times
  PROVE  "rate_limit_exceeded" \in EventAlerts(e, times)
           <=> /\ e.type = "network_connect"
               /\ \E p \in PolicyOf(e.server) : Len(times) > p.maxConnections
<1>1. \A p : "rate_limit_exceeded" \notin NetworkAlerts(e, p)
  BY DEF NetworkAlerts, When
<1>2. \A p : "rate_limit_exceeded" \in Alerts(e, p, times)
               <=> e.type = "network_connect" /\ Len(times) > p.maxConnections
  BY <1>1 DEF Alerts, When
<1>3. CASE PolicyOf(e.server) = {}
  BY <1>3 DEF EventAlerts
<1>4. CASE PolicyOf(e.server) # {}
  BY <1>2, <1>4 DEF EventAlerts
<1> QED
  BY <1>3, <1>4

\* A reported connection is one more in the log and in its server's window.
LEMMA ConnectionWindow ==
  ASSUME KernelTypes, NEW s \in DOMAIN kernel.connections,
         NEW c \in Int, c >= now - RateWindow
  PROVE  LET times == Recent(Append(kernel.connections[s], now))
         IN /\ times \in Seq(Nat)
            /\ Cardinality(Since(kernel.connections[s], c)) \in Nat
            /\ Cardinality(Since(times, c))
                 = Cardinality(Since(kernel.connections[s], c)) + (IF now >= c THEN 1 ELSE 0)
            /\ Len(times) = Cardinality(Since(times, now - RateWindow))
<1> DEFINE old == kernel.connections[s]
           longer == Append(old, now)
           cut == now - RateWindow
           times == Recent(longer)
<1>1. now \in Nat /\ RateWindow \in Nat /\ cut \in Int /\ old \in Seq(Nat) /\ longer \in Seq(Nat)
  BY WindowAssumption DEF KernelTypes
<1>2. times = At(longer, Since(longer, cut))
  <2>1. \A i \in DOMAIN longer : longer[i] \in Nat
    BY <1>1
  <2>2. {i \in DOMAIN longer : now - longer[i] <= RateWindow} = Since(longer, cut)
    <3> HIDE DEF longer
    <3> QED
      BY <1>1, <2>1 DEF Since
  <2> QED
    BY <2>2 DEF Recent
<1> HIDE DEF longer, cut, times, old
<1>3. /\ times \in Seq(Nat) /\ Len(times) = Cardinality(Since(longer, cut))
      /\ Cardinality(Since(times, c)) = Cardinality(Since(longer, c))
  BY <1>1, <1>2, Pruned DEF cut
<1>4. Cardinality(Since(times, cut)) = Cardinality(Since(longer, cut))
  BY <1>1, <1>2, Pruned
<1>5. /\ Cardinality(Since(old, c)) \in Nat
      /\ Cardinality(Since(longer, c)) = Cardinality(Since(old, c)) + (IF now >= c THEN 1 ELSE 0)
  BY <1>1, OneTimeMore DEF longer
<1> QED
  BY <1>3, <1>4, <1>5 DEF cut, times, longer, old

LEMMA OneConnectMore ==
  ASSUME KernelTypes, NEW e \in Reports, NEW s, NEW c \in Int,
         NEW log, log = Append(kernel.events, [event |-> e, at |-> now])
  PROVE  /\ Cardinality(Connects(kernel.events, s, c)) \in Nat
         /\ Cardinality(Connects(log, s, c))
              = IF e.server = s /\ e.type = "network_connect" /\ now >= c
                THEN Cardinality(Connects(kernel.events, s, c)) + 1
                ELSE Cardinality(Connects(kernel.events, s, c))
<1> DEFINE n == Len(kernel.events)
           old == Connects(kernel.events, s, c)
           new == Connects(log, s, c)
<1>0. now \in Nat /\ kernel.events \in Seq([event : Reports, at : Nat])
  BY DEF KernelTypes
<1>1. /\ n \in Nat /\ DOMAIN kernel.events = 1..n /\ DOMAIN log = 1..(n + 1)
      /\ log[n + 1] = [event |-> e, at |-> now]
      /\ \A i \in 1..n : log[i] = kernel.events[i]
  BY <1>0
<1> HIDE DEF n
<1>2. old \in SUBSET (1..n)
  BY <1>1 DEF Connects
<1>3. \A i : i \in new <=> i \in old \/ (i = n + 1 /\ n + 1 \in new)
  BY <1>1 DEF Connects
<1>4. n + 1 \in new <=> e.server = s /\ e.type = "network_connect" /\ now >= c
  BY <1>1 DEF Connects
<1> HIDE DEF old, new
<1>5. /\ Cardinality(old) \in Nat
      /\ Cardinality(new) = IF n + 1 \in new THEN Cardinality(old) + 1 ELSE Cardinality(old)
  BY <1>1, <1>2, <1>3, OneEntryMore
<1> QED
  BY <1>4, <1>5 DEF old, new

\* What the rate alert of the i-th event is judged by.
Near(log, i) ==
  {j \in 1..i : /\ log[j].event.server = log[i].event.server
                /\ log[j].event.type = "network_connect"
                /\ log[i].at - log[j].at <= RateWindow}

AlertFits(policies, log, alerts, i) ==
  "rate_limit_exceeded" \in alerts[i].types
    <=> /\ log[i].event.type = "network_connect"
        /\ \E p \in policies : /\ p.server = log[i].event.server
                             /\ Cardinality(Near(log, i)) > p.maxConnections

LEMMA AlertsFit ==
  RateAlertIsExact <=> \A i \in DOMAIN kernel.events :
                          AlertFits(deployment.policies, kernel.events, kernel.alerts, i)
BY DEF RateAlertIsExact, AlertFits, Near, PolicyOf

LEMMA ProcessedTypes ==
  ASSUME KernelTypes, NEW e \in Reports, ProcessEvent(e), UNCHANGED <<deployment, now>>
  PROVE  KernelTypes'
<1> DEFINE EventRec == [event : Reports, at : Nat]
           AlertRec == [server : {x.server : x \in Reports}, types : SUBSET AlertName]
           Servers == {p.server : p \in deployment.policies}
<1>1. /\ kernel.events \in Seq(EventRec) /\ kernel.alerts \in Seq(AlertRec)
      /\ kernel.connections \in [Servers -> Seq(Nat)]
      /\ Len(kernel.alerts) = Len(kernel.events) /\ now \in Nat /\ deployment \in Deployment
  BY DEF KernelTypes
<1>2. [event |-> e, at |-> now] \in EventRec
  BY <1>1
<1>3. [server |-> e.server, types |-> EventAlerts(e, Connections(e))] \in AlertRec
  BY AlertNames
<1>4. e.type = "network_connect" /\ e.server \in Servers => Connections(e) \in Seq(Nat)
  <2> SUFFICES ASSUME e.type = "network_connect", e.server \in Servers
               PROVE  Connections(e) \in Seq(Nat)
    OBVIOUS
  <2>1. PolicyOf(e.server) # {} /\ e.server \in DOMAIN kernel.connections
    BY <1>1 DEF PolicyOf
  <2>2. Connections(e) = Recent(Append(kernel.connections[e.server], now))
    BY <2>1 DEF Connections
  <2>3. now - RateWindow \in Int
    BY <1>1, WindowAssumption
  <2> QED
    BY <2>1, <2>2, <2>3, ConnectionWindow
<1>5. kernel'.events = Append(kernel.events, [event |-> e, at |-> now])
  BY ProcessedFields
<1>6. kernel'.alerts = Append(kernel.alerts,
        [server |-> e.server, types |-> EventAlerts(e, Connections(e))])
  BY ProcessedFields
<1>7. kernel'.connections = [x \in DOMAIN kernel.connections |->
        IF x = e.server /\ e.type = "network_connect" THEN Connections(e)
        ELSE kernel.connections[x]]
  BY ProcessedFields, Zenon
<1>8. kernel'.events \in Seq(EventRec) /\ Len(kernel'.events) = Len(kernel.events) + 1
  BY <1>1, <1>2, <1>5
<1>9. kernel'.alerts \in Seq(AlertRec) /\ Len(kernel'.alerts) = Len(kernel.alerts) + 1
  <2> HIDE DEF AlertRec
  <2> QED
    BY <1>1, <1>3, <1>6
<1>10. kernel'.connections \in [Servers -> Seq(Nat)]
  BY <1>1, <1>4, <1>7
<1>11. kernel' \in [events : Seq(EventRec), alerts : Seq(AlertRec), connections : [Servers -> Seq(Nat)]]
  <2> HIDE DEF EventRec, AlertRec, Servers
  <2> QED
    BY <1>8, <1>9, <1>10, ProcessedRecord
<1> QED
  BY <1>1, <1>8, <1>9, <1>11 DEF KernelTypes

LEMMA ProcessedCounts ==
  ASSUME KernelTypes, ConnectionsCount, NEW e \in Reports, ProcessEvent(e),
         UNCHANGED <<deployment, now>>
  PROVE  ConnectionsCount'
<1> SUFFICES ASSUME NEW s \in DOMAIN kernel'.connections, NEW c \in Int, c >= now - RateWindow
             PROVE  Cardinality(Since(kernel'.connections[s], c))
                      = Cardinality(Connects(kernel'.events, s, c))
  BY DEF ConnectionsCount
<1>0. kernel'.events = Append(kernel.events, [event |-> e, at |-> now])
  BY ProcessedFields
<1>1. s \in DOMAIN kernel.connections
  BY ProcessedFields
<1>2. Cardinality(Since(kernel.connections[s], c)) = Cardinality(Connects(kernel.events, s, c))
  BY <1>1 DEF ConnectionsCount
<1>3. /\ Cardinality(Connects(kernel.events, s, c)) \in Nat
      /\ Cardinality(Connects(kernel'.events, s, c))
           = IF e.server = s /\ e.type = "network_connect" /\ now >= c
             THEN Cardinality(Connects(kernel.events, s, c)) + 1
             ELSE Cardinality(Connects(kernel.events, s, c))
  BY <1>0, OneConnectMore
<1>4. CASE e.server = s /\ e.type = "network_connect"
  <2>1. PolicyOf(e.server) # {}
    BY <1>1, <1>4 DEF KernelTypes, PolicyOf
  <2>2. kernel'.connections[s] = Recent(Append(kernel.connections[s], now))
    BY <1>1, <1>4, <2>1, ProcessedFields DEF Connections
  <2>3. Cardinality(Since(kernel'.connections[s], c))
          = Cardinality(Since(kernel.connections[s], c)) + (IF now >= c THEN 1 ELSE 0)
    BY <1>1, <2>2, ConnectionWindow
  <2> QED
    BY <1>2, <1>3, <1>4, <2>3
<1>5. CASE ~(e.server = s /\ e.type = "network_connect")
  <2>1. kernel'.connections[s] = kernel.connections[s]
    BY <1>1, <1>5, ProcessedFields
  <2> QED
    BY <1>2, <1>3, <1>5, <2>1
<1> QED
  BY <1>4, <1>5

LEMMA ProcessedAlerts ==
  ASSUME KernelTypes, ConnectionsCount, RateAlertIsExact, NEW e \in Reports, ProcessEvent(e),
         UNCHANGED <<deployment, now>>
  PROVE  RateAlertIsExact'
<1> DEFINE n == Len(kernel.events)
           log == kernel'.events
           alerts == kernel'.alerts
           cut == now - RateWindow
<1>a. kernel'.events = Append(kernel.events, [event |-> e, at |-> now])
  BY ProcessedFields
<1>b. kernel'.alerts = Append(kernel.alerts,
        [server |-> e.server, types |-> EventAlerts(e, Connections(e))])
  BY ProcessedFields
<1>1. /\ n \in Nat /\ DOMAIN kernel.events = 1..n /\ DOMAIN kernel.alerts = 1..n
      /\ now \in Nat /\ RateWindow \in Nat /\ cut \in Int
  BY WindowAssumption DEF KernelTypes
<1>2. /\ DOMAIN log = 1..(n + 1)
      /\ log[n + 1] = [event |-> e, at |-> now]
      /\ \A i \in 1..n : log[i] = kernel.events[i]
      /\ \A i \in 1..(n + 1) : log[i].at \in Nat
  <2> DEFINE EventRec == [event : Reports, at : Nat]
  <2>1. kernel.events \in Seq(EventRec) /\ [event |-> e, at |-> now] \in EventRec
    BY DEF KernelTypes
  <2>2. log \in Seq(EventRec) /\ Len(log) = n + 1
    BY <1>a, <2>1
  <2>3. log[n + 1] = [event |-> e, at |-> now] /\ \A i \in 1..n : log[i] = kernel.events[i]
    BY <1>1, <1>a, <2>1
  <2> HIDE DEF log, n
  <2>4. DOMAIN log = 1..(n + 1)
    BY <2>2
  <2>5. \A i \in 1..(n + 1) : log[i] \in EventRec
    <3> HIDE DEF EventRec
    <3> QED
      BY <2>2, <2>4
  <2> QED
    BY <2>3, <2>4, <2>5
<1>3. /\ alerts[n + 1].types = EventAlerts(e, Connections(e))
      /\ \A i \in 1..n : alerts[i] = kernel.alerts[i]
  <2>1. /\ kernel.alerts \in Seq([server : {x.server : x \in Reports}, types : SUBSET AlertName])
        /\ Len(kernel.alerts) = n
    BY DEF KernelTypes, n
  <2> DEFINE alert == [server |-> e.server, types |-> EventAlerts(e, Connections(e))]
  <2>2. alerts = Append(kernel.alerts, alert) /\ alert.types = EventAlerts(e, Connections(e))
    BY <1>b
  <2> HIDE DEF alert, alerts, n
  <2>3. alerts[n + 1] = alert /\ \A i \in 1..n : alerts[i] = kernel.alerts[i]
    BY <1>1, <2>1, <2>2
  <2> QED
    BY <2>2, <2>3
<1> HIDE DEF n, log, alerts
<1>4. ASSUME NEW i \in 1..n
      PROVE  AlertFits(deployment.policies, log, alerts, i)
  <2>1. AlertFits(deployment.policies, kernel.events, kernel.alerts, i)
    BY <1>1, AlertsFit
  <2>2. Near(log, i) = Near(kernel.events, i)
    <3>1. \A j \in 1..i : j \in 1..n /\ log[j] = kernel.events[j]
      BY <1>1, <1>2
    <3>2. log[i] = kernel.events[i]
      BY <1>2
    <3> QED
      BY <3>1, <3>2 DEF Near
  <2>3. log[i] = kernel.events[i] /\ alerts[i] = kernel.alerts[i]
    BY <1>2, <1>3
  <2> QED
    BY <2>1, <2>2, <2>3 DEF AlertFits
<1>5. AlertFits(deployment.policies, log, alerts, n + 1)
  <2>1. "rate_limit_exceeded" \in alerts[n + 1].types
          <=> /\ e.type = "network_connect"
              /\ \E p \in PolicyOf(e.server) : Len(Connections(e)) > p.maxConnections
    BY <1>3, RateAlertMeans
  <2>2. Near(log, n + 1) = Connects(log, e.server, cut)
    BY <1>1, <1>2 DEF Near, Connects
  <2>3. ASSUME e.type = "network_connect", PolicyOf(e.server) # {}
        PROVE  Len(Connections(e)) = Cardinality(Near(log, n + 1))
    <3>1. e.server \in DOMAIN kernel.connections
      BY <2>3 DEF KernelTypes, PolicyOf
    <3>2. Connections(e) = Recent(Append(kernel.connections[e.server], now))
      BY <2>3 DEF Connections
    <3>3. Len(Connections(e)) = Cardinality(Since(Connections(e), cut))
      BY <1>1, <3>1, <3>2, ConnectionWindow
    <3>4. Connections(e) = kernel'.connections[e.server]
      BY <2>3, <3>1, ProcessedFields
    <3>5. Cardinality(Since(kernel'.connections[e.server], cut))
            = Cardinality(Connects(log, e.server, cut))
      <4>1. ConnectionsCount'
        BY ProcessedCounts
      <4>2. e.server \in DOMAIN kernel'.connections
        BY <3>1, ProcessedFields, Zenon
      <4>3. cut >= now' - RateWindow
        BY <1>1
      <4> QED
        BY <1>1, <4>1, <4>2, <4>3 DEF ConnectionsCount, log
    <3> QED
      BY <2>2, <3>3, <3>4, <3>5
  <2>4. log[n + 1].event = e
    BY <1>2
  <2> HIDE DEF cut
  <2> QED
    BY <2>1, <2>3, <2>4 DEF AlertFits, PolicyOf
<1>6. \A i \in DOMAIN log : AlertFits(deployment.policies, log, alerts, i)
  <2>1. \A i \in DOMAIN log : i \in 1..n \/ i = n + 1
    BY <1>1, <1>2
  <2> QED
    BY <1>4, <1>5, <2>1
<1>7. RateAlertIsExact' <=> \A i \in DOMAIN kernel'.events :
          AlertFits(deployment'.policies, kernel'.events, kernel'.alerts, i)
  BY DEF RateAlertIsExact, AlertFits, Near, PolicyOf
<1> QED
  BY <1>6, <1>7 DEF log, alerts

-----------------------------------------------------------------------------
(* The peers' windows. *)

\* What the prune leaves of a peer's window, counted.
LEMMA LiveIs ==
  ASSUME RequestsCount, now \in Nat, NEW p \in Peer
  PROVE  /\ Live(p) \in Seq(Nat)
         /\ Len(Live(p)) = Cardinality(Since(admitted[p], now - RateWindow + 1))
         /\ \A c \in Int : c > now - RateWindow =>
              Cardinality(Since(Live(p), c)) = Cardinality(Since(admitted[p], c))
<1> DEFINE cut == now - RateWindow + 1
           times == windows[p]
<1>1. RateWindow \in Nat /\ cut \in Int /\ times \in Seq(Nat)
  BY WindowAssumption DEF RequestsCount
<1>2. Live(p) = At(times, Since(times, cut))
  <2>1. \A i \in DOMAIN times : times[i] \in Nat
    BY <1>1
  <2>2. {i \in DOMAIN times : times[i] > now - RateWindow} = Since(times, cut)
    <3> HIDE DEF times
    <3> QED
      BY <1>1, <2>1 DEF Since
  <2> QED
    BY <2>2 DEF Live
<1> HIDE DEF times
<1>3. Live(p) \in Seq(Nat) /\ Len(Live(p)) = Cardinality(Since(times, cut))
  BY <1>1, <1>2, Pruned
<1>4. Cardinality(Since(times, cut)) = Cardinality(Since(admitted[p], cut))
  BY <1>1 DEF RequestsCount, times
<1>5. ASSUME NEW c \in Int, c > now - RateWindow
      PROVE  Cardinality(Since(Live(p), c)) = Cardinality(Since(admitted[p], c))
  <2>1. c >= cut
    BY <1>1, <1>5
  <2>2. Cardinality(Since(Live(p), c)) = Cardinality(Since(times, c))
    BY <1>1, <1>2, <2>1, Pruned
  <2>3. Cardinality(Since(times, c)) = Cardinality(Since(admitted[p], c))
    BY <1>5 DEF RequestsCount, times
  <2> QED
    BY <2>2, <2>3
<1> QED
  BY <1>3, <1>4, <1>5

LEMMA RefusedWindow ==
  ASSUME RequestsCount, RateBound, now \in Nat, NEW p \in Peer,
         windows' = [windows EXCEPT ![p] = Live(p)], UNCHANGED <<admitted, now>>
  PROVE  RequestsCount' /\ RateBound'
<1>1. windows \in [Peer -> Seq(Nat)] /\ windows' \in [Peer -> Seq(Nat)]
  BY LiveIs DEF RequestsCount
<1>2. ASSUME NEW q \in Peer, NEW c \in Int, c > now - RateWindow
      PROVE  Cardinality(Since(windows'[q], c)) = Cardinality(Since(admitted[q], c))
  <2>1. CASE q = p
    BY <1>1, <1>2, <2>1, LiveIs
  <2>2. CASE q # p
    BY <1>1, <1>2, <2>2 DEF RequestsCount
  <2> QED
    BY <2>1, <2>2
<1>3. RequestsCount'
  BY <1>1, <1>2 DEF RequestsCount
<1> QED
  BY <1>3 DEF RateBound, InAnyWindow

LEMMA AdmittedCounts ==
  ASSUME RequestsCount, now \in Nat, NEW p \in Peer, Admit(p), now' = now
  PROVE  RequestsCount'
<1>1. /\ windows \in [Peer -> Seq(Nat)] /\ admitted \in [Peer -> Seq(Nat)]
      /\ windows' = [windows EXCEPT ![p] = Append(Live(p), now)]
      /\ admitted' = [admitted EXCEPT ![p] = Append(admitted[p], now)]
  BY DEF RequestsCount, Admit
<1>2. Live(p) \in Seq(Nat) /\ admitted[p] \in Seq(Nat)
  BY <1>1, LiveIs
<1>3. windows' \in [Peer -> Seq(Nat)] /\ admitted' \in [Peer -> Seq(Nat)]
  BY <1>1, <1>2
<1>4. ASSUME NEW q \in Peer, NEW i \in DOMAIN admitted'[q]
      PROVE  admitted'[q][i] <= now
  <2>1. CASE q = p
    <3>1. admitted'[q] = Append(admitted[p], now)
      BY <1>1, <2>1
    <3>2. \A j \in DOMAIN admitted[p] : admitted[p][j] <= now
      BY DEF RequestsCount
    <3>3. i \in 1..(Len(admitted[p]) + 1)
      BY <1>2, <1>4, <3>1
    <3>4. CASE i = Len(admitted[p]) + 1
      <4>1. Append(admitted[p], now)[i] = now
        BY <1>2, <3>4
      <4> QED
        BY <1>1, <1>2, <3>1, <4>1
    <3>5. CASE i \in 1..Len(admitted[p])
      <4>1. Append(admitted[p], now)[i] = admitted[p][i] /\ i \in DOMAIN admitted[p]
        BY <1>2, <3>5
      <4> QED
        BY <3>1, <3>2, <4>1
    <3> QED
      BY <1>2, <3>3, <3>4, <3>5
  <2>2. CASE q # p
    BY <1>1, <1>4, <2>2 DEF RequestsCount
  <2> QED
    BY <2>1, <2>2
<1>5. ASSUME NEW q \in Peer, NEW c \in Int, c > now - RateWindow
      PROVE  Cardinality(Since(windows'[q], c)) = Cardinality(Since(admitted'[q], c))
  <2>1. CASE q = p
    <3>1. windows'[q] = Append(Live(p), now) /\ admitted'[q] = Append(admitted[p], now)
      BY <1>1, <2>1
    <3>2. Cardinality(Since(Live(p), c)) = Cardinality(Since(admitted[p], c))
      BY <1>5, LiveIs
    <3>4. /\ Cardinality(Since(Append(Live(p), now), c))
               = Cardinality(Since(Live(p), c)) + (IF now >= c THEN 1 ELSE 0)
          /\ Cardinality(Since(Append(admitted[p], now), c))
               = Cardinality(Since(admitted[p], c)) + (IF now >= c THEN 1 ELSE 0)
      BY <1>2, OneTimeMore
    <3> QED
      BY <3>1, <3>2, <3>4
  <2>2. CASE q # p
    BY <1>1, <1>5, <2>2 DEF RequestsCount
  <2> QED
    BY <2>1, <2>2
<1> QED
  BY <1>3, <1>4, <1>5 DEF RequestsCount

\* A request let in now can only be one too many for a window that holds now,
\* and everything in such a window is still in the pruned list.
LEMMA AdmittedBound ==
  ASSUME RequestsCount, RateBound, now \in Nat, NEW p \in Peer, Admit(p), now' = now
  PROVE  RateBound'
<1>1. /\ admitted \in [Peer -> Seq(Nat)] /\ Len(Live(p)) < RateLimit
      /\ admitted' = [admitted EXCEPT ![p] = Append(admitted[p], now)]
  BY DEF RequestsCount, Admit
<1>2. RateWindow \in Nat /\ RateLimit \in Nat
  BY WindowAssumption, ServiceAssumption
<1>3. ASSUME NEW q \in Peer, NEW t \in Nat
      PROVE  Cardinality(InAnyWindow(admitted'[q], t)) <= RateLimit
  <2>1. CASE q # p
    BY <1>1, <1>3, <2>1 DEF RateBound
  <2>2. CASE q = p
    <3> DEFINE times == admitted[p]
               n == Len(times)
               longer == Append(times, now)
               old == InAnyWindow(times, t)
               new == InAnyWindow(longer, t)
               cut == now - RateWindow + 1
    <3>1. admitted'[q] = longer
      BY <1>1, <2>2
    <3>2. times \in Seq(Nat) /\ n \in Nat /\ Cardinality(old) <= RateLimit
      BY <1>1 DEF RateBound
    <3>3. /\ DOMAIN times = 1..n /\ DOMAIN longer = 1..(n + 1) /\ longer[n + 1] = now
          /\ \A i \in 1..n : longer[i] = times[i] /\ times[i] \in Nat
      BY <3>2
    <3> HIDE DEF longer, n, times
    <3>4. old \in SUBSET (1..n)
      BY <3>3 DEF InAnyWindow
    <3>5. \A i : i \in new <=> i \in old \/ (i = n + 1 /\ n + 1 \in new)
      BY <3>2, <3>3 DEF InAnyWindow
    <3>6. n + 1 \in new => t <= now /\ now < t + RateWindow
      BY <3>2, <3>3 DEF InAnyWindow
    <3> HIDE DEF old, new
    <3>7. /\ IsFiniteSet(old) /\ Cardinality(old) \in Nat
          /\ Cardinality(new) = IF n + 1 \in new THEN Cardinality(old) + 1 ELSE Cardinality(old)
      BY <3>2, <3>4, <3>5, OneEntryMore
    <3>8. ASSUME n + 1 \in new
          PROVE  Cardinality(old) < RateLimit
      <4>1. t >= cut /\ cut \in Int
        BY <1>2, <1>3, <3>6, <3>8
      <4>2. old \in SUBSET Since(times, cut)
        BY <1>2, <3>3, <4>1 DEF old, InAnyWindow, Since
      <4>3. Since(times, cut) \in SUBSET (1..n)
        BY <3>3 DEF Since
      <4>4. IsFiniteSet(1..n)
        BY <3>2, FS_Interval
      <4>5. IsFiniteSet(Since(times, cut)) /\ Cardinality(Since(times, cut)) \in Nat
        BY <4>3, <4>4, FS_Subset, FS_CardinalityType
      <4>6. Cardinality(old) <= Cardinality(Since(times, cut))
        BY <4>2, <4>5, FS_Subset
      <4>7. Len(Live(p)) = Cardinality(Since(times, cut))
        BY LiveIs DEF times
      <4> HIDE DEF cut
      <4> QED
        BY <1>1, <1>2, <3>7, <4>5, <4>6, <4>7
    <3> QED
      BY <1>2, <3>1, <3>2, <3>7, <3>8 DEF new
  <2> QED
    BY <2>1, <2>2
<1> QED
  BY <1>3 DEF RateBound

-----------------------------------------------------------------------------
(* What a step of the service does to the windows. *)

KernelMoves ==
  \/ UNCHANGED <<kernel, now>>
  \/ now' = now /\ \E e \in Event : ProcessEvent(e) \/ ProcessEvent(Attributed(e))
  \/ UNCHANGED kernel /\ now' = now + 1

RequestsMove ==
  \/ UNCHANGED <<windows, admitted>>
  \/ now' = now /\ \E p \in Peer : Admit(p)
  \/ /\ UNCHANGED <<admitted, now>>
     /\ \E p \in Peer : windows' = [windows EXCEPT ![p] = Live(p)]

LEMMA CallKeeps ==
  ASSUME NEW c, EvaluateCall(c)
  PROVE  UNCHANGED <<deployment, known, rules, now>>
BY DEF EvaluateCall

LEMMA OperatedMoves ==
  ASSUME Operate
  PROVE  KernelMoves /\ RequestsMove /\ UNCHANGED deployment
<1>1. UNCHANGED <<windows, admitted>>
  BY DEF Operate, scanVars
<1>2. CASE Reconfigure
  BY <1>1, <1>2
  DEF Reconfigure, AddRule, ReleaseQuarantined, RegisterServer, RegisterCapabilities, KernelMoves,
      RequestsMove
<1>3. CASE \E e \in Event : EvaluateKernelEvent(e)
  BY <1>1, <1>3 DEF EvaluateKernelEvent, KernelMoves, RequestsMove
<1>4. CASE \E c \in Call : ~deployment.served /\ InterceptOutput(c)
  BY <1>1, <1>4 DEF InterceptOutput, KernelMoves, RequestsMove
<1>5. CASE Tick
  BY <1>1, <1>5 DEF Tick, KernelMoves, RequestsMove
<1> QED
  BY <1>2, <1>3, <1>4, <1>5 DEF Operate, Observe

LEMMA StepMoves ==
  ASSUME [ScanNext]_apiVars
  PROVE  KernelMoves /\ RequestsMove /\ UNCHANGED deployment
<1>1. CASE UNCHANGED apiVars
  BY <1>1 DEF apiVars, fiveVars, scanVars, KernelMoves, RequestsMove
<1>2. CASE \E p \in Peer : Refuse(p)
  BY <1>2 DEF Refuse, fiveVars, KernelMoves, RequestsMove
<1>3. ASSUME NEW p \in Peer, NEW c \in Call, Scan(p, c)
      PROVE  KernelMoves /\ RequestsMove /\ UNCHANGED deployment
  BY <1>3, CallKeeps DEF Scan, KernelMoves, RequestsMove
<1>4. ASSUME NEW c \in Call, AttackCall(c)
      PROVE  KernelMoves /\ RequestsMove /\ UNCHANGED deployment
  BY <1>4, CallKeeps DEF AttackCall, KernelMoves, RequestsMove
<1>5. ASSUME NEW e \in Event, AttackEvent(e)
      PROVE  KernelMoves /\ RequestsMove /\ UNCHANGED deployment
  BY <1>5 DEF AttackEvent, EvaluateKernelEvent, KernelMoves, RequestsMove
<1>6. CASE EndAttack
  BY <1>6 DEF EndAttack, fiveVars, KernelMoves, RequestsMove
<1>7. CASE Operate
  BY <1>7, OperatedMoves
<1> QED
  BY <1>1, <1>2, <1>3, <1>4, <1>5, <1>6, <1>7 DEF ScanNext

LEMMA AttackerStep ==
  ASSUME attack.server \in Attacker, [ScanNext]_apiVars
  PROVE  attack'.server \in Attacker
<1>1. UNCHANGED attack => attack'.server \in Attacker
  OBVIOUS
<1>2. CASE UNCHANGED apiVars
  BY <1>1, <1>2 DEF apiVars, scanVars
<1>3. CASE \E p \in Peer : Refuse(p) \/ \E c \in Call : Scan(p, c)
  BY <1>1, <1>3 DEF Refuse, Scan
<1>4. ASSUME NEW c \in Call, AttackCall(c)
      PROVE  attack'.server \in Attacker
  <2>1. \/ UNCHANGED attack
        \/ attack'.server = IF c.server = NoServer THEN "unknown" ELSE c.server
    BY <1>4 DEF AttackCall
  <2> QED
    BY <1>1, <2>1 DEF Attacker
<1>5. ASSUME NEW e \in Event, AttackEvent(e)
      PROVE  attack'.server \in Attacker
  BY <1>5 DEF AttackEvent
<1>6. CASE EndAttack
  BY <1>6 DEF EndAttack, NoAttack, Attacker
<1>7. CASE Operate
  BY <1>1, <1>7 DEF Operate, scanVars
<1> QED
  BY <1>2, <1>3, <1>4, <1>5, <1>6, <1>7 DEF ScanNext

LEMMA LaterCut ==
  ASSUME NEW a \in Nat, NEW b \in Nat, b >= a, NEW r \in Nat, NEW c \in Int
  PROVE  (c >= b - r => c >= a - r) /\ (c > b - r => c > a - r)
OBVIOUS

LEMMA RateStep ==
  ASSUME RateInv, [ScanNext]_apiVars
  PROVE  RateInv'
<1>1. KernelTypes /\ ConnectionsCount /\ RateAlertIsExact /\ RequestsCount /\ RateBound
  BY DEF RateInv
<1>2. KernelMoves /\ RequestsMove /\ UNCHANGED deployment /\ now \in Nat
  BY <1>1, StepMoves DEF KernelTypes
<1>3. now' \in {now, now + 1}
  BY <1>2 DEF KernelMoves
<1>0. now \in Nat /\ now' \in Nat /\ now' >= now /\ RateWindow \in Nat
  <2>1. now \in Nat
    BY <1>2
  <2> QED
    BY <2>1, <1>3, WindowAssumption
<1>4. KernelTypes' /\ ConnectionsCount' /\ RateAlertIsExact'
  <2>1. CASE UNCHANGED kernel
    <3>1. KernelTypes'
      BY <1>1, <1>2, <1>3, <2>1 DEF KernelTypes
    <3>2. ConnectionsCount'
      <4> SUFFICES ASSUME NEW s \in DOMAIN kernel.connections, NEW c \in Int, c >= now' - RateWindow
                   PROVE  Cardinality(Since(kernel.connections[s], c))
                            = Cardinality(Connects(kernel.events, s, c))
        BY <2>1 DEF ConnectionsCount
      <4>1. c >= now - RateWindow
        BY <1>0, LaterCut
      <4> QED
        BY <1>1, <4>1 DEF ConnectionsCount
    <3>3. RateAlertIsExact'
      BY <1>1, <1>2, <2>1 DEF RateAlertIsExact, PolicyOf
    <3> QED
      BY <3>1, <3>2, <3>3
  <2>2. CASE now' = now /\ \E e \in Event : ProcessEvent(e) \/ ProcessEvent(Attributed(e))
    <3>1. PICK e \in Reports : ProcessEvent(e)
      BY <2>2 DEF RateInv, Reports, Attributed
    <3> QED
      BY <1>1, <1>2, <2>2, <3>1, ProcessedTypes, ProcessedCounts, ProcessedAlerts
  <2> QED
    BY <1>2, <2>1, <2>2 DEF KernelMoves
<1>5. RequestsCount' /\ RateBound'
  <2>1. CASE UNCHANGED <<windows, admitted>>
    <3>1. \A p \in Peer : \A i \in DOMAIN admitted[p] : admitted[p][i] <= now'
      <4> SUFFICES ASSUME NEW p \in Peer, NEW i \in DOMAIN admitted[p]
                   PROVE  admitted[p][i] <= now'
        OBVIOUS
      <4>1. admitted[p] \in Seq(Nat) /\ admitted[p][i] <= now
        BY <1>1 DEF RequestsCount
      <4>2. admitted[p][i] \in Nat
        BY <4>1
      <4> QED
        BY <1>2, <1>3, <4>1, <4>2
    <3>2. \A c \in Int : c > now' - RateWindow => c > now - RateWindow
      BY <1>0, LaterCut
    <3>3. RequestsCount'
      BY <1>1, <2>1, <3>1, <3>2 DEF RequestsCount
    <3> QED
      BY <1>1, <2>1, <3>3 DEF RateBound
  <2>2. CASE now' = now /\ \E p \in Peer : Admit(p)
    BY <1>1, <1>2, <2>2, AdmittedCounts, AdmittedBound
  <2>3. CASE /\ UNCHANGED <<admitted, now>>
             /\ \E p \in Peer : windows' = [windows EXCEPT ![p] = Live(p)]
    BY <1>1, <1>2, <2>3, RefusedWindow
  <2> QED
    BY <1>2, <2>1, <2>2, <2>3 DEF RequestsMove
<1>6. attack'.server \in Attacker
  BY AttackerStep DEF RateInv
<1> QED
  BY <1>4, <1>5, <1>6 DEF RateInv

LEMMA RateStarts == ScanInit => RateInv
<1> SUFFICES ASSUME ScanInit
             PROVE  RateInv
  OBVIOUS
<1>1. /\ deployment \in Deployment /\ now = 0
      /\ kernel = [events |-> <<>>, alerts |-> <<>>,
                   connections |-> [s \in {p.server : p \in deployment.policies} |-> <<>>]]
      /\ windows = [p \in Peer |-> <<>>] /\ admitted = [p \in Peer |-> <<>>]
  BY DEF ScanInit, LayersInit
<1>2. KernelTypes
  BY <1>1 DEF KernelTypes
<1>3. \A c : Since(<<>>, c) = {}
  BY DEF Since
<1>4. \A s, c : Connects(<<>>, s, c) = {}
  BY DEF Connects
<1>5. ConnectionsCount
  BY <1>1, <1>3, <1>4 DEF ConnectionsCount
<1>6. RateAlertIsExact
  BY <1>1 DEF RateAlertIsExact
<1>7. RequestsCount
  BY <1>1 DEF RequestsCount
<1>8. RateBound
  <2>1. \A p \in Peer, t \in Nat : InAnyWindow(admitted[p], t) = {}
    BY <1>1 DEF InAnyWindow
  <2>2. Cardinality({}) = 0 /\ RateLimit \in Nat
    BY FS_EmptySet, ServiceAssumption
  <2> QED
    BY <2>1, <2>2 DEF RateBound
<1>9. attack.server \in Attacker
  BY DEF ScanInit, NoAttack, Attacker
<1> QED
  BY <1>2, <1>5, <1>6, <1>7, <1>8, <1>9 DEF RateInv

\* The windows of the kernel monitor and of the peers are exact, for any peers,
\* calls, events and policies, any window and any limit: the rate alert is
\* raised for exactly the connections the policy does not permit
\* (process_event), and no peer gets more than the limit in any window,
\* wherever it starts (_consume_realtime_rate).
THEOREM ScanRatesAreExact == ScanSpec => []RatesAreExact
<1>1. RateInv => RatesAreExact
  <2> SUFFICES ASSUME RateInv
               PROVE  RatesAreExact
    OBVIOUS
  <2>1. RateBound /\ now \in Nat /\ RateAlertIsExact
    BY DEF RateInv, KernelTypes
  <2>2. \A p \in Peer, t \in 0..now :
           {i \in DOMAIN admitted[p] : admitted[p][i] >= t /\ admitted[p][i] < t + RateWindow}
             = InAnyWindow(admitted[p], t)
    BY DEF InAnyWindow
  <2>3. RateHolds
    <3> SUFFICES ASSUME NEW p \in Peer, NEW t \in 0..now
                 PROVE  Cardinality({i \in DOMAIN admitted[p] :
                           admitted[p][i] >= t /\ admitted[p][i] < t + RateWindow}) <= RateLimit
      BY DEF RateHolds, Count
    <3>1. t \in Nat
      BY <2>1
    <3> QED
      BY <2>1, <2>2, <3>1 DEF RateBound
  <2> QED
    BY <2>1, <2>3 DEF RatesAreExact
<1> QED
  BY <1>1, RateStarts, RateStep, PTL DEF ScanSpec

-----------------------------------------------------------------------------
(* Logs. *)

LogOf(s) == \E S : s \in Seq(S)

LEMMA LongerLog ==
  ASSUME NEW s, LogOf(s), NEW x, NEW t, t = Append(s, x)
  PROVE  /\ LogOf(t)
         /\ Len(s) \in Nat /\ Len(t) = Len(s) + 1
         /\ DOMAIN s = 1..Len(s) /\ DOMAIN t = 1..(Len(s) + 1)
         /\ t[Len(s) + 1] = x
         /\ \A i \in 1..Len(s) : t[i] = s[i]
<1>1. PICK S : s \in Seq(S)
  BY DEF LogOf
<1>2. s \in Seq(S \union {x}) /\ x \in S \union {x}
  <2>1. s \in [1..Len(s) -> S] /\ Len(s) \in Nat
    BY <1>1
  <2>2. s \in [1..Len(s) -> S \union {x}]
    BY <2>1
  <2> QED
    BY <2>1, <2>2
<1> DEFINE W == S \union {x}
<1> HIDE DEF W
<1>3. s \in Seq(W) /\ x \in W
  BY <1>2 DEF W
<1>4. t \in Seq(W)
  BY <1>3
<1>5. /\ Len(s) \in Nat /\ Len(t) = Len(s) + 1
      /\ DOMAIN s = 1..Len(s) /\ DOMAIN t = 1..(Len(s) + 1)
      /\ t[Len(s) + 1] = x
      /\ \A i \in 1..Len(s) : t[i] = s[i]
  BY <1>3
<1> QED
  BY <1>4, <1>5 DEF LogOf

LEMMA EmptyLog == LogOf(<<>>)
BY EmptySeq DEF LogOf

LEMMA Capped ==
  ASSUME NEW a \in Nat
  PROVE  /\ Min({a, 100}) \in 0..100 /\ (a >= 45 => Min({a, 100}) >= 45)
         /\ Min({a, 80}) \in 0..80 /\ (a >= 45 => Min({a, 80}) >= 45)
<1>1. a \in Int /\ 100 \in Int /\ 80 \in Int
  OBVIOUS
<1>2. /\ Min({a, 100}) = IF a <= 100 THEN a ELSE 100
      /\ Min({a, 80}) = IF a <= 80 THEN a ELSE 80
  BY <1>1, OfTwo, Zenon
<1> QED
  BY <1>2

-----------------------------------------------------------------------------
(* What the detectors, the analyzer and the egress policy decide. *)

\* Whatever the monitor blocks with all its detectors working scores at least
\* what one injection pattern scores.
LEMMA InspectIs ==
  ASSUME NEW c \in Call, NEW sh, NEW ml, NEW shadowMode
  PROVE  LET r == InspectCall(sh, ml, c, shadowMode)
         IN /\ r.risk \in 0..100
            /\ r.failed = {} /\ ~r.allowed => r.risk >= 45
<1> DEFINE failed == Fails(sh, c)
           all    == Score(sh, ml, c)
           score  == [d \in Detector \ failed |-> all[d]]
           worst  == Max({0} \union Range(score))
           risk   == Min({worst, 100})
           threat == \/ "prompt_injection" \notin failed /\ Injected(ml, c)
                     \/ risk >= 50
                     \/ ("shadow_server" \notin failed /\ IsShadow(sh, c))
           r == InspectCall(sh, ml, c, shadowMode)
<1>1. r = [failed |-> failed, findings |-> {d \in DOMAIN score : score[d] > 0}, risk |-> risk,
           allowed |-> IF failed # {} THEN shadowMode ELSE ~threat]
  BY DEF InspectCall
<1>2. /\ Cardinality(c.injects) \in Nat /\ Cardinality(c.pii) \in Nat
      /\ Cardinality(ExfilReasons(c)) \in Nat /\ c.ml \in 0..100
      /\ c.injects # {} => Cardinality(c.injects) >= 1
  <2>1. /\ IsFiniteSet(c.injects) /\ IsFiniteSet(c.pii) /\ IsFiniteSet(c.exfil)
        /\ c.ml \in 0..100
    BY CallAssumption
  <2>2. IsFiniteSet(ExfilReasons(c))
    BY <2>1, FS_Subset DEF ExfilReasons
  <2>3. /\ Cardinality(c.injects) \in Nat /\ Cardinality(c.pii) \in Nat
        /\ Cardinality(ExfilReasons(c)) \in Nat
    BY <2>1, <2>2, FS_CardinalityType
  <2>4. c.injects # {} => Cardinality(c.injects) # 0
    BY <2>1, FS_EmptySet
  <2> QED
    BY <2>1, <2>3, <2>4
<1>3. /\ InjectionRisk(ml, c) \in 0..100
      /\ Injected(ml, c) => InjectionRisk(ml, c) >= 45
  <2>1. CASE c.injects # {}
    <3>1. InjectionRisk(ml, c) = Min({30 + 15 * Cardinality(c.injects), 100})
      BY <2>1 DEF InjectionRisk
    <3>2. 30 + 15 * Cardinality(c.injects) \in Nat /\ 30 + 15 * Cardinality(c.injects) >= 45
      BY <1>2, <2>1
    <3> DEFINE a == 30 + 15 * Cardinality(c.injects)
    <3> HIDE DEF a
    <3>3. Min({a, 100}) \in 0..100 /\ Min({a, 100}) >= 45
      BY <3>2, Capped DEF a
    <3> QED
      BY <3>1, <3>3 DEF a
  <2>2. CASE c.injects = {} /\ MLThreat(ml, c)
    <3>1. InjectionRisk(ml, c) = Min({(c.ml * 80) \div 100, 80})
      BY <2>2 DEF InjectionRisk
    <3>2. (c.ml * 80) \div 100 \in Nat /\ (c.ml * 80) \div 100 >= 45
      BY <1>2, <2>2 DEF MLThreat, MLThreshold
    <3> DEFINE a == (c.ml * 80) \div 100
    <3> HIDE DEF a
    <3>3. Min({a, 80}) \in 0..80 /\ Min({a, 80}) >= 45
      BY <3>2, Capped DEF a
    <3> QED
      BY <3>1, <3>3 DEF a
  <2>3. CASE c.injects = {} /\ ~MLThreat(ml, c)
    BY <2>3 DEF InjectionRisk, Injected
  <2> QED
    BY <2>1, <2>2, <2>3
<1>4. /\ DOMAIN all = Detector
      /\ all["prompt_injection"] = InjectionRisk(ml, c)
      /\ all["pii"] \in Nat
      /\ all["shadow_server"] = IF IsShadow(sh, c) THEN 80 ELSE 0
      /\ all["exfiltration"] \in Nat
  BY <1>2 DEF Score, Detector
<1> DEFINE bound == 180 + all["pii"] + all["exfiltration"]
<1>5. \A d \in Detector : all[d] \in 0..bound
  <2> HIDE DEF all
  <2> QED
    BY <1>3, <1>4 DEF Detector
<1>6. bound \in Nat /\ {0} \union Range(score) \in SUBSET (0..bound)
  <2> HIDE DEF all
  <2>1. bound \in Nat
    BY <1>4
  <2>2. Range(score) \in SUBSET (0..bound)
    <3> HIDE DEF bound
    <3> QED
      BY <1>5 DEF Range
  <2> QED
    BY <2>1, <2>2
<1> HIDE DEF bound
<1>7. worst \in {0} \union Range(score) /\ \A x \in {0} \union Range(score) : x <= worst
  <2> HIDE DEF score, all
  <2> QED
    BY <1>6, MaxIs
<1>8. worst \in Nat
  <2> HIDE DEF score, all, worst
  <2> QED
    BY <1>6, <1>7
<1>9. /\ risk \in 0..100
      /\ worst >= 45 => risk >= 45
  <2> HIDE DEF worst, all, score
  <2> QED
    BY <1>8, Capped
<1>10. ASSUME failed = {}, threat, ~(risk >= 50)
       PROVE  worst >= 45
  <2>1. \A d \in Detector : all[d] \in Range(score)
    <3> HIDE DEF all, worst, risk, threat
    <3> QED
      BY <1>10 DEF Range
  <2>2. all["prompt_injection"] <= worst /\ all["shadow_server"] <= worst
    <3> HIDE DEF all, score, worst
    <3> QED
      BY <1>7, <2>1 DEF Detector
  <2> HIDE DEF all, score, worst, risk, failed
  <2> QED
    BY <1>3, <1>4, <1>8, <1>10, <2>2
<1> HIDE DEF all, score, worst, risk, failed, threat, r
<1>11. r.failed = {} /\ ~r.allowed => r.risk >= 45
  <2> SUFFICES ASSUME r.failed = {}, ~r.allowed
               PROVE  risk >= 45
    BY <1>1
  <2>1. failed = {} /\ threat
    BY <1>1
  <2> QED
    BY <1>9, <1>10, <2>1
<1>12. r.risk \in 0..100
  BY <1>1, <1>9
<1> QED
  BY <1>11, <1>12 DEF r

LEMMA OutputRisk ==
  ASSUME NEW c \in Call, NEW shadowMode
  PROVE  InspectOutput(c, shadowMode).risk \in 0..100
<1> DEFINE failed == Fails(Shadow0({}), c) \intersect {"exfiltration", "pii"}
           exfil  == IF "exfiltration" \in failed \/ ExfilReasons(c) = {} THEN 0
                     ELSE 70 + 5 * Cardinality(ExfilReasons(c))
           pii    == IF "pii" \in failed \/ c.pii = {} THEN 0 ELSE 50 + 10 * Cardinality(c.pii)
<1>1. InspectOutput(c, shadowMode).risk = Min({Max({exfil, pii}), 100})
  BY DEF InspectOutput
<1>2. Cardinality(c.pii) \in Nat /\ Cardinality(ExfilReasons(c)) \in Nat
  <2>1. IsFiniteSet(c.pii) /\ IsFiniteSet(c.exfil)
    BY CallAssumption
  <2>2. IsFiniteSet(ExfilReasons(c))
    BY <2>1, FS_Subset DEF ExfilReasons
  <2> QED
    BY <2>1, <2>2, FS_CardinalityType
<1>3. exfil \in Nat /\ pii \in Nat
  <2> HIDE DEF failed
  <2> QED
    BY <1>2
<1> HIDE DEF exfil, pii
<1>4. Max({exfil, pii}) \in Nat
  BY <1>3, OfTwo
<1> QED
  BY <1>1, <1>4, Capped

\* A call the analyzer does not stop has no finding of 70 or more.
LEMMA SemanticIs ==
  ASSUME NEW c
  PROVE  /\ SemanticRisk(c) \in 0..95
         /\ ~Dangerous(c) => SemanticRisk(c) < 70
<1> DEFINE found == {f.severity : f \in SemanticFindings(c)}
           S == {0} \union found
<1>1. \A k \in DOMAIN FieldSeverity : FieldSeverity[k] \in 0..95
  BY DEF FieldSeverity
<1>2. \A key : FieldOf(key) \subseteq DOMAIN FieldSeverity
  BY DEF FieldOf, FieldSeverity
<1>3. ASSUME NEW f \in SemanticFindings(c)
      PROVE  f.severity \in 0..95
  <2>1. \/ f \in {Finding(95, 95) : k \in c.fields \intersect Synonyms}
        \/ f \in {Finding(80, 80) : t \in c.texts \intersect {"exfil_intent"}}
        \/ f \in {Finding(75, FieldSeverity[k]) : k \in UNION {FieldOf(key) : key \in c.fields}}
        \/ f \in {Finding(90, 90) : t \in c.texts \intersect {"encoded_email"}}
        \/ f \in {Finding(85, 85) : k \in IF c.fields \intersect EmailField = {} THEN {}
                                          ELSE c.fields \intersect SecondRecipient}
    BY Zenon, <1>3 DEF SemanticFindings
  <2>2. CASE f \in {Finding(75, FieldSeverity[k]) : k \in UNION {FieldOf(key) : key \in c.fields}}
    <3>1. PICK k \in UNION {FieldOf(key) : key \in c.fields} : f = Finding(75, FieldSeverity[k])
      BY <2>2
    <3>2. k \in DOMAIN FieldSeverity
      BY <1>2, <3>1
    <3> QED
      BY <1>1, <3>1, <3>2 DEF Finding
  <2>3. \A x \in {95, 80, 90, 85} : \A y : Finding(y, x).severity \in 0..95
    BY DEF Finding
  <2> QED
    BY <2>1, <2>2, <2>3
<1>4. S \in SUBSET (0..95) /\ S # {}
  BY <1>3
<1>5. Max(S) \in S /\ \A x \in S : x <= Max(S)
  <2> HIDE DEF S
  <2> QED
    BY <1>4, MaxIs
<1>6. SemanticRisk(c) = Max(S)
  BY DEF SemanticRisk
<1>7. SemanticRisk(c) \in S
  BY <1>5, <1>6
<1>8. ASSUME ~Dangerous(c)
      PROVE  \A x \in S : x < 70
  BY <1>3, <1>8 DEF Dangerous
<1> HIDE DEF S
<1> QED
  BY <1>4, <1>7, <1>8

LEMMA EgressIs ==
  ASSUME deployment \in Deployment, NEW c, deployment.deny, EgressAllowed(c)
  PROVE  \E k \in DOMAIN deployment.egress :
            /\ \/ c.server \in deployment.egress[k].servers
               \/ deployment.egress[k].servers = {}
            /\ EgressAllows(deployment.egress[k], c.dest, c.port)
            /\ \A j \in 1..k :
                 \/ c.server \in deployment.egress[j].servers
                 \/ deployment.egress[j].servers = {}
                 => c.dest \notin deployment.egress[j].blocked
<1> DEFINE rs == deployment.egress
           deciding == {i \in DOMAIN rs : EgressDecides(rs[i], c.server, c.dest, c.port)}
           k == Min(deciding)
<1>1. DOMAIN rs = 1..Len(rs) /\ Len(rs) \in Nat
  <2>1. rs \in Seq(Range(rs))
    BY DeploymentAssumption
  <2> QED
    BY <2>1
<1>2. deciding # {} /\ ~EgressBlocks(rs[k], c.dest, 0)
  BY DEF EgressAllowed
<1>3. deciding \in SUBSET Nat
  BY <1>1
<1>4. k \in deciding /\ \A i \in deciding : k <= i
  <2> HIDE DEF deciding
  <2> QED
    BY <1>2, <1>3, MinIs
<1> HIDE DEF k
<1>5. /\ k \in DOMAIN rs
      /\ c.server \in rs[k].servers \/ rs[k].servers = {}
      /\ EgressAllows(rs[k], c.dest, c.port)
  BY <1>2, <1>4 DEF EgressDecides
<1>6. ASSUME NEW j \in 1..k, c.server \in rs[j].servers \/ rs[j].servers = {}
      PROVE  c.dest \notin rs[j].blocked
  <2>1. j \in DOMAIN rs
    BY <1>1, <1>5
  <2>2. CASE j = k
    BY <1>2, <2>2 DEF EgressBlocks
  <2>3. CASE j # k
    <3>1. j \notin deciding
      BY <1>1, <1>4, <1>5, <2>3
    <3> QED
      BY <1>6, <2>1, <3>1 DEF EgressDecides, EgressBlocks
  <2> QED
    BY <2>2, <2>3
<1> QED
  BY <1>5, <1>6

-----------------------------------------------------------------------------
(* The rules. *)

LEMMA AtRange ==
  ASSUME NEW S, NEW s \in Seq(S), NEW k \in 0..Len(s)
  PROVE  /\ At(s, 1..k) \in Seq(S) /\ Len(At(s, 1..k)) = k
         /\ \A i \in 1..k : At(s, 1..k)[i] = s[i]
         /\ At(s, (k + 1)..Len(s)) \in Seq(S) /\ Len(At(s, (k + 1)..Len(s))) = Len(s) - k
         /\ \A i \in 1..(Len(s) - k) : At(s, (k + 1)..Len(s))[i] = s[k + i]
<1> DEFINE n == Len(s)
           low == 1..k
           high == (k + 1)..n
<1>1. n \in Nat /\ k \in Nat /\ k <= n
  OBVIOUS
<1> HIDE DEF n
<1>2. low \in SUBSET (1..n) /\ high \in SUBSET (1..n)
  BY <1>1
<1>3. /\ Cardinality(low) = k /\ Cardinality(high) = n - k
      /\ \A i \in low : Cardinality(1..i) = i
      /\ \A i \in high : Cardinality((k + 1)..i) = i - k
  <2>1. \A i \in Nat : Cardinality(1..i) = i
    BY FS_Interval
  <2>2. ASSUME NEW i \in Nat, i >= k
        PROVE  Cardinality((k + 1)..i) = i - k
    <3>1. k + 1 \in Int /\ i \in Int
      BY <1>1
    <3>2. Cardinality((k + 1)..i) = IF k + 1 > i THEN 0 ELSE i - (k + 1) + 1
      BY <3>1, FS_Interval, Zenon
    <3> QED
      BY <1>1, <2>2, <3>2
  <2>3. \A i \in low \union high : i \in Nat
    BY <1>1
  <2> QED
    BY <1>1, <2>1, <2>2, <2>3
<1>4. \A i \in low : Place(low, i) = i
  <2> SUFFICES ASSUME NEW i \in low
               PROVE  Place(low, i) = i
    OBVIOUS
  <2>1. {j \in low : j <= i} = 1..i
    BY <1>1
  <2> QED
    BY <1>3, <2>1 DEF Place
<1>5. \A i \in high : Place(high, i) = i - k
  <2> SUFFICES ASSUME NEW i \in high
               PROVE  Place(high, i) = i - k
    OBVIOUS
  <2>1. {j \in high : j <= i} = (k + 1)..i
    BY <1>1
  <2> QED
    BY <1>3, <2>1 DEF Place
<1>6. /\ At(s, low) \in Seq(S) /\ Len(At(s, low)) = k
      /\ \A i \in low : At(s, low)[Place(low, i)] = s[i]
  <2> HIDE DEF low
  <2> QED
    BY <1>2, <1>3, AtIs DEF n
<1>7. /\ At(s, high) \in Seq(S) /\ Len(At(s, high)) = n - k
      /\ \A i \in high : At(s, high)[Place(high, i)] = s[i]
  <2> HIDE DEF high
  <2> QED
    BY <1>2, <1>3, AtIs DEF n
<1>8. \A i \in 1..(n - k) : At(s, high)[i] = s[k + i]
  <2> SUFFICES ASSUME NEW i \in 1..(n - k)
               PROVE  At(s, high)[i] = s[k + i]
    OBVIOUS
  <2>1. k + i \in high /\ (k + i) - k = i
    BY <1>1
  <2>2. At(s, high)[Place(high, k + i)] = s[k + i] /\ Place(high, k + i) = i
    BY <1>5, <1>7, <2>1
  <2> QED
    BY <2>2
<1>9. \A i \in 1..k : At(s, low)[i] = s[i]
  BY <1>4, <1>6
<1> QED
  BY <1>6, <1>7, <1>8, <1>9 DEF n

LEMMA Joined ==
  ASSUME NEW S, NEW a \in Seq(S), NEW b \in Seq(S)
  PROVE  /\ a \o b \in Seq(S) /\ Len(a \o b) = Len(a) + Len(b)
         /\ \A i \in 1..Len(a) : (a \o b)[i] = a[i]
         /\ \A i \in 1..Len(b) : (a \o b)[Len(a) + i] = b[i]
<1>1. Len(a) \in Nat /\ Len(b) \in Nat
  OBVIOUS
<1>2. /\ a \o b \in Seq(S) /\ Len(a \o b) = Len(a) + Len(b)
      /\ \A i \in 1..(Len(a) + Len(b)) :
           (a \o b)[i] = IF i <= Len(a) THEN a[i] ELSE b[i - Len(a)]
  BY ConcatProperties
<1>3. ASSUME NEW i \in 1..Len(a)
      PROVE  (a \o b)[i] = a[i]
  BY <1>1, <1>2
<1>4. ASSUME NEW i \in 1..Len(b)
      PROVE  (a \o b)[Len(a) + i] = b[i]
  <2> DEFINE k == Len(a) + i
  <2>1. k \in 1..(Len(a) + Len(b)) /\ ~(k <= Len(a)) /\ k - Len(a) = i
    BY <1>1
  <2> HIDE DEF k
  <2>2. (a \o b)[k] = b[k - Len(a)]
    BY <1>2, <2>1
  <2> QED
    BY <2>1, <2>2 DEF k
<1> QED
  BY <1>2, <1>3, <1>4

\* The same, with the two lengths named.
LEMMA JoinedOf ==
  ASSUME NEW S, NEW a \in Seq(S), NEW b \in Seq(S), NEW k, NEW m
  PROVE  Len(a) = k /\ Len(b) = m
         => /\ a \o b \in Seq(S) /\ Len(a \o b) = k + m
            /\ \A i \in 1..k : (a \o b)[i] = a[i]
            /\ \A i \in 1..m : (a \o b)[k + i] = b[i]
<1>1. /\ a \o b \in Seq(S) /\ Len(a \o b) = Len(a) + Len(b)
      /\ \A i \in 1..Len(a) : (a \o b)[i] = a[i]
      /\ \A i \in 1..Len(b) : (a \o b)[Len(a) + i] = b[i]
  BY Joined
<1> DEFINE c == a \o b
<1> HIDE DEF c
<1>2. /\ c \in Seq(S) /\ Len(c) = Len(a) + Len(b)
      /\ \A i \in 1..Len(a) : c[i] = a[i]
      /\ \A i \in 1..Len(b) : c[Len(a) + i] = b[i]
  BY <1>1, Zenon DEF c
<1> HAVE Len(a) = k /\ Len(b) = m
<1>3. /\ c \in Seq(S) /\ Len(c) = k + m
      /\ \A i \in 1..k : c[i] = a[i]
      /\ \A i \in 1..m : c[k + i] = b[i]
  BY <1>2
<1> QED
  BY <1>3, Zenon DEF c

\* A sequence with one element more.
LEMMA JoinedOne ==
  ASSUME NEW S, NEW a \in Seq(S), NEW x \in S, NEW k, Len(a) = k
  PROVE  /\ a \o <<x>> \in Seq(S) /\ Len(a \o <<x>>) = k + 1
         /\ \A i \in 1..k : (a \o <<x>>)[i] = a[i]
         /\ (a \o <<x>>)[k + 1] = x
<1>1. a \o <<x>> = Append(a, x)
  BY AppendIsConcat
<1> DEFINE c == Append(a, x)
<1>2. /\ c \in Seq(S) /\ Len(c) = k + 1
      /\ \A i \in 1..k : c[i] = a[i]
      /\ c[k + 1] = x
  OBVIOUS
<1> HIDE DEF c
<1> QED
  BY <1>1, <1>2 DEF c

RuleSet == RuleChoice \union UNION {Range(d.rules) : d \in Deployment}

LEMMA RuleSetIs ==
  \A r \in RuleSet : r.priority \in Int /\ r.action \in RuleAction
<1> SUFFICES ASSUME NEW r \in RuleSet
             PROVE  r.priority \in Int /\ r.action \in RuleAction
  OBVIOUS
<1>1. CASE r \in RuleChoice
  BY <1>1, RuleAssumption
<1>2. CASE r \notin RuleChoice
  <2>1. PICK d \in Deployment : r \in Range(d.rules)
    BY <1>2 DEF RuleSet
  <2>2. PICK i \in DOMAIN d.rules : r = d.rules[i]
    BY <2>1 DEF Range
  <2> QED
    BY <2>1, <2>2, DeploymentAssumption
<1> QED
  BY <1>1, <1>2

Falling(rs) == \A i, j \in 1..Len(rs) : i < j => rs[i].priority >= rs[j].priority

\* The rule goes behind the last one that is as urgent, and nothing else moves.
LEMMA InsertIs ==
  ASSUME NEW rs \in Seq(RuleSet), Falling(rs), NEW r \in RuleSet
  PROVE  \E k \in 0..Len(rs) :
           /\ Insert(rs, r) \in Seq(RuleSet) /\ Len(Insert(rs, r)) = Len(rs) + 1
           /\ \A i \in 1..k : Insert(rs, r)[i] = rs[i] /\ rs[i].priority >= r.priority
           /\ Insert(rs, r)[k + 1] = r
           /\ \A i \in (k + 1)..Len(rs) : Insert(rs, r)[i + 1] = rs[i] /\ rs[i].priority < r.priority
<1> DEFINE n == Len(rs)
           upper == {i \in DOMAIN rs : rs[i].priority >= r.priority}
           lower == {i \in DOMAIN rs : rs[i].priority < r.priority}
<1>1. n \in Nat /\ DOMAIN rs = 1..n /\ r.priority \in Int
      /\ \A i \in 1..n : rs[i].priority \in Int
  <2>1. n \in Nat /\ DOMAIN rs = 1..n /\ \A i \in 1..n : rs[i] \in RuleSet
    OBVIOUS
  <2> QED
    BY <2>1, RuleSetIs
<1> HIDE DEF n
<1>2. \E k \in 0..n : upper = 1..k
  <2>1. CASE upper = {}
    <3>1. upper = 1..0 /\ 0 \in 0..n
      BY <1>1, <2>1
    <3> QED
      BY <3>1
  <2>2. CASE upper # {}
    <3> DEFINE k == Max(upper)
    <3>1. upper \in SUBSET (0..n)
      BY <1>1
    <3>2. k \in upper /\ \A i \in upper : i <= k
      <4> HIDE DEF upper
      <4> QED
        BY <1>1, <2>2, <3>1, MaxIs
    <3> HIDE DEF k
    <3>3. k \in 1..n /\ rs[k].priority >= r.priority
      BY <1>1, <3>2
    <3>4. ASSUME NEW i \in 1..k
          PROVE  i \in upper
      <4>1. i \in 1..n
        BY <1>1, <3>3
      <4>2. rs[i].priority >= rs[k].priority
        <5>1. CASE i = k
          BY <1>1, <3>3, <5>1
        <5>2. CASE i < k
          BY <3>3, <4>1, <5>2 DEF Falling, n
        <5> QED
          BY <3>3, <5>1, <5>2
      <4> QED
        BY <1>1, <3>3, <4>1, <4>2
    <3>5. upper = 1..k
      BY <1>1, <3>1, <3>2, <3>3, <3>4
    <3> QED
      BY <3>3, <3>5
  <2> QED
    BY <2>1, <2>2
<1>3. PICK k \in 0..n : upper = 1..k
  BY <1>2
<1>4. lower = (k + 1)..n
  <2>1. \A i \in 1..n : i \in lower <=> i \notin upper
    BY <1>1
  <2>2. lower \subseteq 1..n
    BY <1>1
  <2> HIDE DEF upper, lower
  <2>3. \A i : i \in lower <=> i \in 1..n /\ i \notin 1..k
    BY <1>3, <2>1, <2>2
  <2>4. \A i : i \in 1..n /\ i \notin 1..k <=> i \in (k + 1)..n
    BY <1>1
  <2> QED
    BY <2>3, <2>4
<1>5. Insert(rs, r) = At(rs, 1..k) \o <<r>> \o At(rs, (k + 1)..n)
  BY <1>3, <1>4 DEF Insert
<1> DEFINE a == At(rs, 1..k)
           b == At(rs, (k + 1)..n)
<1>6. /\ a \in Seq(RuleSet) /\ Len(a) = k
      /\ \A i \in 1..k : a[i] = rs[i]
      /\ b \in Seq(RuleSet) /\ Len(b) = n - k
      /\ \A i \in 1..(n - k) : b[i] = rs[k + i]
  BY AtRange DEF n
<1>7. /\ \A i \in 1..k : rs[i].priority >= r.priority
      /\ \A i \in (k + 1)..n : rs[i].priority < r.priority
  BY <1>3, <1>4
<1> HIDE DEF a, b, upper, lower
<1> DEFINE v == a \o <<r>>
           w == a \o <<r>> \o b
<1>13. /\ v \in Seq(RuleSet) /\ Len(v) = k + 1
       /\ \A i \in 1..k : v[i] = rs[i]
       /\ v[k + 1] = r
  <2>1. a \in Seq(RuleSet) /\ Len(a) = k
    BY <1>6
  <2>2. /\ a \o <<r>> \in Seq(RuleSet) /\ Len(a \o <<r>>) = k + 1
        /\ \A i \in 1..k : (a \o <<r>>)[i] = a[i]
        /\ (a \o <<r>>)[k + 1] = r
    BY <2>1, JoinedOne
  <2>3. \A i \in 1..k : (a \o <<r>>)[i] = rs[i]
    BY <1>6, <2>2
  <2> QED
    BY <2>2, <2>3
<1>14. w = v \o b
  OBVIOUS
<1> HIDE DEF v, w
<1>15. /\ w \in Seq(RuleSet) /\ Len(w) = (k + 1) + (n - k)
       /\ \A i \in 1..(k + 1) : w[i] = v[i]
       /\ \A i \in 1..(n - k) : w[(k + 1) + i] = b[i]
  <2>1. v \in Seq(RuleSet) /\ b \in Seq(RuleSet) /\ Len(v) = k + 1 /\ Len(b) = n - k
    BY <1>6, <1>13
  <2> HIDE DEF v
  <2>2. /\ v \o b \in Seq(RuleSet) /\ Len(v \o b) = (k + 1) + (n - k)
        /\ \A i \in 1..(k + 1) : (v \o b)[i] = v[i]
        /\ \A i \in 1..(n - k) : (v \o b)[(k + 1) + i] = b[i]
    <3> DEFINE m == k + 1
               p == n - k
    <3>1. v \in Seq(RuleSet) /\ b \in Seq(RuleSet) /\ Len(v) = m /\ Len(b) = p
      BY <2>1
    <3> HIDE DEF m, p
    <3>2. /\ v \o b \in Seq(RuleSet) /\ Len(v \o b) = m + p
          /\ \A i \in 1..m : (v \o b)[i] = v[i]
          /\ \A i \in 1..p : (v \o b)[m + i] = b[i]
      BY <3>1, JoinedOf
    <3> QED
      BY <3>2 DEF m, p
  <2> QED
    BY <1>14, <2>2
<1>8. w \in Seq(RuleSet) /\ Len(w) = n + 1
  BY <1>1, <1>15
<1>9. \A i \in 1..k : w[i] = rs[i]
  <2> SUFFICES ASSUME NEW i \in 1..k
               PROVE  w[i] = rs[i]
    OBVIOUS
  <2>1. i \in 1..(k + 1)
    BY <1>1
  <2> QED
    BY <1>13, <1>15, <2>1
<1>10. w[k + 1] = r
  <2>1. k + 1 \in 1..(k + 1)
    BY <1>1
  <2> QED
    BY <1>13, <1>15, <2>1
<1>11. ASSUME NEW i \in (k + 1)..n
       PROVE  w[i + 1] = rs[i]
  <2>1. i - k \in 1..(n - k) /\ i + 1 = (k + 1) + (i - k) /\ k + (i - k) = i
    BY <1>1
  <2>2. w[(k + 1) + (i - k)] = b[i - k]
    BY <1>15, <2>1
  <2>3. b[i - k] = rs[k + (i - k)]
    BY <1>6, <2>1
  <2> QED
    BY <2>1, <2>2, <2>3
<1>12. Insert(rs, r) = w
  BY <1>5 DEF a, b, v, w
<1> HIDE DEF w
<1> QED
  BY <1>7, <1>8, <1>9, <1>10, <1>11, <1>12 DEF n

LEMMA InsertedFalling ==
  ASSUME NEW rs \in Seq(RuleSet), Falling(rs), NEW r \in RuleSet
  PROVE  Falling(Insert(rs, r))
<1> DEFINE n == Len(rs)
           w == Insert(rs, r)
<1>1. PICK k \in 0..n :
           /\ w \in Seq(RuleSet) /\ Len(w) = n + 1
           /\ \A i \in 1..k : w[i] = rs[i] /\ rs[i].priority >= r.priority
           /\ w[k + 1] = r
           /\ \A i \in (k + 1)..n : w[i + 1] = rs[i] /\ rs[i].priority < r.priority
  BY InsertIs
<1>2. n \in Nat /\ k \in 0..n /\ r.priority \in Int /\ \A i \in 1..n : rs[i].priority \in Int
  <2>1. n \in Nat /\ \A i \in 1..n : rs[i] \in RuleSet
    OBVIOUS
  <2> QED
    BY <2>1, RuleSetIs
<1>3. \A i, j \in 1..n : i < j => rs[i].priority >= rs[j].priority
  BY DEF Falling
<1> HIDE DEF n, w
<1>4. ASSUME NEW i \in (k + 2)..(n + 1)
      PROVE  w[i] = rs[i - 1] /\ rs[i - 1].priority < r.priority /\ i - 1 \in 1..n
  <2>1. i - 1 \in (k + 1)..n /\ (i - 1) + 1 = i /\ i - 1 \in 1..n
    BY <1>2
  <2> QED
    BY <1>1, <2>1
<1>5. ASSUME NEW i \in 1..(n + 1), NEW j \in 1..(n + 1), i < j
      PROVE  w[i].priority >= w[j].priority
  <2>1. \/ i \in 1..k \/ i = k + 1 \/ i \in (k + 2)..(n + 1)
    BY <1>2
  <2>2. \/ j \in 1..k \/ j = k + 1 \/ j \in (k + 2)..(n + 1)
    BY <1>2
  <2>3. CASE j \in 1..k
    <3>1. i \in 1..k /\ i \in 1..n /\ j \in 1..n
      BY <1>2, <1>5, <2>3
    <3> QED
      BY <1>1, <1>3, <1>5, <2>3, <3>1
  <2>4. CASE j = k + 1
    <3>1. i \in 1..k
      BY <1>2, <1>5, <2>4
    <3> QED
      BY <1>1, <2>4, <3>1
  <2>5. CASE j \in (k + 2)..(n + 1)
    <3>1. w[j] = rs[j - 1] /\ rs[j - 1].priority < r.priority /\ j - 1 \in 1..n
      BY <1>4, <2>5
    <3>2. CASE i \in 1..k
      <4>1. w[i] = rs[i] /\ rs[i].priority >= r.priority
        BY <1>1, <3>2
      <4>2. i \in 1..n
        BY <1>2, <3>2
      <4> QED
        BY <1>2, <3>1, <4>1, <4>2
    <3>3. CASE i = k + 1
      BY <1>1, <1>2, <3>1, <3>3
    <3>4. CASE i \in (k + 2)..(n + 1)
      <4>1. w[i] = rs[i - 1] /\ i - 1 \in 1..n /\ i - 1 < j - 1
        BY <1>4, <1>5, <3>4
      <4> QED
        BY <1>3, <3>1, <4>1
    <3> QED
      BY <2>1, <3>2, <3>3, <3>4
  <2> QED
    BY <2>2, <2>3, <2>4, <2>5
<1> QED
  BY <1>1, <1>5 DEF Falling, w

\* The rules of a served defense up to the rogue-server rule let nothing pass.
Rogue(rs) ==
  \E m \in 1..Len(rs) : /\ rs[m].cond = "rogue" /\ rs[m].tools = AnyTool
                        /\ rs[m].priority = RogueServer.priority
                        /\ \A j \in 1..m : rs[j].action \notin {"allow", "redact"}

RulesInv ==
  /\ deployment \in Deployment
  /\ rules \in Seq(RuleSet) /\ Falling(rules)
  /\ deployment.served => Rogue(rules)

LEMMA InsertedRogue ==
  ASSUME NEW rs \in Seq(RuleSet), Falling(rs), NEW r \in RuleChoice, Rogue(rs)
  PROVE  Rogue(Insert(rs, r))
<1> DEFINE n == Len(rs)
           w == Insert(rs, r)
<1>0. r \in RuleSet
  BY DEF RuleSet
<1>1. PICK k \in 0..n :
           /\ w \in Seq(RuleSet) /\ Len(w) = n + 1
           /\ \A i \in 1..k : w[i] = rs[i] /\ rs[i].priority >= r.priority
           /\ w[k + 1] = r
           /\ \A i \in (k + 1)..n : w[i + 1] = rs[i] /\ rs[i].priority < r.priority
  BY <1>0, InsertIs
<1>2. PICK m \in 1..n : /\ rs[m].cond = "rogue" /\ rs[m].tools = AnyTool
                        /\ rs[m].priority = RogueServer.priority
                        /\ \A j \in 1..m : rs[j].action \notin {"allow", "redact"}
  BY DEF Rogue
<1>3. /\ n \in Nat /\ k \in 0..n /\ m \in 1..n /\ r.priority \in Int
      /\ r.action \in {"allow", "redact"} => r.priority < RogueServer.priority
  BY RuleAssumption, RogueServerAssumption
<1>4. \A i \in 1..n : rs[i].priority \in Int
  <2>1. \A i \in 1..n : rs[i] \in RuleSet
    OBVIOUS
  <2> QED
    BY <2>1, RuleSetIs
<1> HIDE DEF n, w
<1>5. CASE m <= k
  <2>1. m \in 1..(n + 1) /\ m \in 1..k
    BY <1>3, <1>5
  <2>2. \A j \in 1..m : j \in 1..k
    BY <1>3, <1>5
  <2> QED
    BY <1>1, <1>2, <2>1, <2>2 DEF Rogue, w
<1>6. CASE m > k
  <2>1. m \in (k + 1)..n /\ m + 1 \in 1..(n + 1)
    BY <1>3, <1>6
  <2>2. w[m + 1] = rs[m] /\ rs[m].priority < r.priority
    BY <1>1, <2>1
  <2>3. r.action \notin {"allow", "redact"}
    BY <1>2, <1>3, <1>4, <2>2
  <2>4. ASSUME NEW j \in 1..(m + 1)
        PROVE  w[j].action \notin {"allow", "redact"}
    <3>1. CASE j \in 1..k
      <4>1. j \in 1..m
        BY <1>3, <1>6, <3>1
      <4> QED
        BY <1>1, <1>2, <3>1, <4>1
    <3>2. CASE j = k + 1
      BY <1>1, <2>3, <3>2
    <3>3. CASE j > k + 1
      <4>1. j - 1 \in (k + 1)..n /\ (j - 1) + 1 = j /\ j - 1 \in 1..m
        BY <1>3, <2>1, <3>3
      <4>2. w[j] = rs[j - 1]
        BY <1>1, <4>1
      <4> QED
        BY <1>2, <4>1, <4>2
    <3> QED
      BY <1>3, <3>1, <3>2, <3>3
  <2> QED
    BY <1>1, <1>2, <2>1, <2>2, <2>4 DEF Rogue, w
<1> QED
  BY <1>3, <1>5, <1>6

LEMMA RulesStart ==
  ASSUME deployment \in Deployment, rules = deployment.rules
  PROVE  RulesInv
<1>1. /\ rules \in Seq(Range(rules))
      /\ \A i, j \in DOMAIN rules : i < j => rules[i].priority >= rules[j].priority
  BY DeploymentAssumption
<1>2. Range(rules) \in SUBSET RuleSet
  BY DEF RuleSet
<1>3. rules \in Seq(RuleSet)
  <2> DEFINE R == Range(rules)
  <2>0. rules \in Seq(R) /\ R \in SUBSET RuleSet
    BY <1>1, <1>2
  <2> HIDE DEF R
  <2>1. rules \in [1..Len(rules) -> R] /\ Len(rules) \in Nat
    BY <2>0
  <2>2. rules \in [1..Len(rules) -> RuleSet]
    BY <2>0, <2>1
  <2> QED
    BY <2>1, <2>2
<1>4. DOMAIN rules = 1..Len(rules)
  BY <1>3
<1>5. Falling(rules)
  BY <1>1, <1>4 DEF Falling
<1>6. ASSUME deployment.served
      PROVE  Rogue(rules)
  <2>1. PICK m \in DOMAIN rules : rules[m] = RogueServer /\ \A j \in 1..m : rules[j].action = "block"
    BY <1>6, RogueServerAssumption
  <2>2. RogueServer.cond = "rogue" /\ RogueServer.tools = AnyTool
    BY DEF RogueServer, Rule
  <2> QED
    BY <1>4, <2>1, <2>2 DEF Rogue
<1> QED
  BY <1>3, <1>5, <1>6 DEF RulesInv

LEMMA RulesStep ==
  ASSUME RulesInv, UNCHANGED deployment, UNCHANGED rules \/ \E r \in RuleChoice : rules' = Insert(rules, r)
  PROVE  RulesInv'
<1>1. CASE UNCHANGED rules
  BY <1>1 DEF RulesInv
<1>2. ASSUME NEW r \in RuleChoice, rules' = Insert(rules, r)
      PROVE  RulesInv'
  <2>1. rules \in Seq(RuleSet) /\ Falling(rules) /\ r \in RuleSet
    BY DEF RulesInv, RuleSet
  <2>2. Insert(rules, r) \in Seq(RuleSet)
    BY <2>1, InsertIs
  <2>3. Falling(Insert(rules, r))
    BY <2>1, InsertedFalling
  <2>4. deployment.served => Rogue(Insert(rules, r))
    BY <2>1, InsertedRogue DEF RulesInv
  <2> QED
    BY <1>2, <2>2, <2>3, <2>4 DEF RulesInv
<1> QED
  BY <1>1, <1>2

-----------------------------------------------------------------------------
(* How a call ends. *)

Passing == {"allow", "redact"}

Late(c) == c.server \notin deployment.known \union {NoServer}

\* What is known of a decision of the proxy on a call.
Decides(d, c) ==
  /\ d.call = c /\ d.action \in RuleAction /\ d.by # "output" /\ d.risk \in 0..100
  /\ d.action \in Passing => d.risk < 80
  /\ d.by = "inspector" /\ d.report.failed = {} /\ ~d.report.allowed => d.action # "allow"
  /\ deployment.served /\ Late(c) => d.action \notin Passing

LEMMA ActionIs ==
  ASSUME NEW risk \in 0..100
  PROVE  /\ ActionFor(risk) \in RuleAction \ {"redact"}
         /\ risk >= 45 => ActionFor(risk) # "allow"
         /\ ActionFor(risk) = "allow" => risk < 80
<1>1. BlockAt \in Nat /\ QuarantineAt \in 0..45
  BY ThresholdAssumption
<1> QED
  BY <1>1 DEF ActionFor, RuleAction

\* A call of a server that was registered late stops at a rule that blocks.
LEMMA RogueStops ==
  ASSUME RulesInv, NEW c, deployment.served, Late(c)
  PROVE  /\ FirstStop(c) # {}
         /\ \A i \in FirstStop(c) : rules[i].action \notin Passing
<1> DEFINE n == Len(rules)
           stops == {i \in 1..n : Stops(rules[i], c)}
<1>1. n \in Nat /\ DOMAIN rules = 1..n /\ Rogue(rules)
  BY DEF RulesInv
<1>2. PICK m \in 1..n : /\ rules[m].cond = "rogue" /\ rules[m].tools = AnyTool
                        /\ \A j \in 1..m : rules[j].action \notin Passing
  BY <1>1 DEF Rogue, Passing
<1>3. Stops(rules[m], c)
  BY <1>2 DEF Stops, MatchesTool, Holds, Late
<1> HIDE DEF n
<1>4. stops \in SUBSET Nat /\ m \in stops
  BY <1>1, <1>2, <1>3
<1>5. Min(stops) \in stops /\ \A i \in stops : Min(stops) <= i
  <2> HIDE DEF stops
  <2> QED
    BY <1>4, MinIs
<1>6. Min(stops) \in FirstStop(c)
  <2> DEFINE k == Min(stops)
  <2> HIDE DEF k
  <2>1. k \in 1..n /\ Stops(rules[k], c) /\ \A i \in stops : k <= i
    BY <1>5 DEF k
  <2>2. ASSUME NEW j \in 1..(k - 1)
        PROVE  ~Stops(rules[j], c)
    <3>1. j \in 1..n /\ ~(k <= j)
      BY <1>1, <2>1
    <3> QED
      BY <2>1, <3>1
  <2>3. k \in FirstStop(c)
    BY <1>1, <2>1, <2>2 DEF FirstStop
  <2> QED
    BY <2>3 DEF k
<1>7. ASSUME NEW i \in FirstStop(c)
      PROVE  rules[i].action \notin Passing
  <2>1. i \in 1..n /\ \A j \in 1..(i - 1) : ~Stops(rules[j], c)
    BY <1>1, <1>7 DEF FirstStop
  <2>2. i <= m
    BY <1>1, <1>2, <1>3, <2>1
  <2> QED
    BY <1>1, <1>2, <2>1, <2>2
<1> QED
  BY <1>6, <1>7

LEMMA DecisionIs ==
  ASSUME RulesInv, NEW c \in Call, NEW ml
  PROVE  Decides(Decision(ml, c), c)
<1> DEFINE d == Decision(ml, c)
<1>1. CASE FirstStop(c) # {}
  <2> DEFINE i == CHOOSE j \in FirstStop(c) : TRUE
  <2>1. i \in FirstStop(c)
    BY <1>1
  <2>2. d = [call |-> c, action |-> rules[i].action, risk |-> 0, by |-> "rule", report |-> <<>>]
    BY <1>1 DEF Decision
  <2> HIDE DEF i, d
  <2>3. rules \in Seq(RuleSet) /\ i \in DOMAIN rules
    BY <2>1 DEF RulesInv, FirstStop
  <2>4. rules[i] \in RuleSet
    BY <2>3
  <2>5. rules[i].action \in RuleAction
    BY <2>4, RuleSetIs
  <2>6. deployment.served /\ Late(c) => rules[i].action \notin Passing
    BY <2>1, RogueStops
  <2> QED
    BY <2>2, <2>5, <2>6 DEF Decides, d
<1>2. CASE FirstStop(c) = {} /\ Inspects(c)
  <2> DEFINE r == Report(ml, c)
  <2>1. d = [call |-> c, action |-> ActionFor(r.risk), risk |-> r.risk,
             by |-> "inspector", report |-> r]
    BY <1>2 DEF Decision
  <2>2. r.risk \in 0..100 /\ (r.failed = {} /\ ~r.allowed => r.risk >= 45)
    BY InspectIs DEF Report
  <2> HIDE DEF r, d
  <2>3. /\ ActionFor(r.risk) \in RuleAction \ {"redact"}
        /\ r.risk >= 45 => ActionFor(r.risk) # "allow"
        /\ ActionFor(r.risk) = "allow" => r.risk < 80
    BY <2>2, ActionIs
  <2>4. ~(deployment.served /\ Late(c))
    BY <1>2, RogueStops
  <2> QED
    BY <2>1, <2>2, <2>3, <2>4 DEF Decides, d, Passing
<1>3. CASE FirstStop(c) = {} /\ ~Inspects(c)
  <2>1. d = [call |-> c, action |-> ActionFor(0), risk |-> 0, by |-> "default", report |-> <<>>]
    BY <1>3 DEF Decision
  <2>2. ActionFor(0) \in RuleAction
    BY ActionIs
  <2>3. ~(deployment.served /\ Late(c))
    BY <1>3, RogueStops
  <2> HIDE DEF d
  <2> QED
    BY <2>1, <2>2, <2>3 DEF Decides, d
<1> QED
  BY <1>1, <1>2, <1>3

\* The verdict of the layers behind the proxy.
LEMMA LayersIs ==
  ASSUME NEW c, NEW risk \in 0..100, risk < 80
  PROVE  /\ StoppingLayer(c) \in {0, 3, 4, 5}
         /\ Max({risk, LayerRisk(c, StoppingLayer(c))}) \in 0..100
         /\ StoppingLayer(c) = 0 => Max({risk, LayerRisk(c, StoppingLayer(c))}) < 80
         /\ HasDest(c) /\ StoppingLayer(c) \in {0, 5} => EgressAllowed(c) = (StoppingLayer(c) = 0)
         /\ StoppingLayer(c) = 5 => HasDest(c)
<1> DEFINE l == StoppingLayer(c)
           s == SemanticRisk(c)
<1>1. s \in 0..95 /\ (~Dangerous(c) => s < 70)
  BY SemanticIs
<1>2. l \in {0, 3, 4, 5} /\ (l = 0 => ~Dangerous(c)) /\ (l = 5 => HasDest(c))
  BY DEF StoppingLayer
<1>3. HasDest(c) /\ l \in {0, 5} => EgressAllowed(c) = (l = 0)
  <2>1. EgressAllowed(c) \in BOOLEAN
    BY DEF EgressAllowed
  <2> QED
    BY <2>1 DEF StoppingLayer
<1> HIDE DEF l, s
<1>4. LayerRisk(c, l) \in 0..100 /\ (l = 0 => LayerRisk(c, l) < 70)
  <2>1. CASE l = 3
    BY <2>1 DEF LayerRisk
  <2>2. CASE l = 5
    <3>1. LayerRisk(c, l) = Max({s, 90})
      BY <2>2 DEF LayerRisk, s
    <3>2. s \in Int /\ 90 \in Int
      BY <1>1
    <3>3. Max({s, 90}) = IF s >= 90 THEN s ELSE 90
      BY <3>2, OfTwo, Zenon
    <3> QED
      BY <1>1, <2>2, <3>1, <3>3
  <2>3. CASE l \in {0, 4}
    <3>1. LayerRisk(c, l) = s
      BY <2>3 DEF LayerRisk, s
    <3> QED
      BY <1>1, <1>2, <2>3, <3>1
  <2> QED
    BY <1>2, <2>1, <2>2, <2>3
<1> DEFINE k == LayerRisk(c, l)
<1> HIDE DEF k
<1>5. k \in 0..100 /\ (l = 0 => k < 70)
  BY <1>4 DEF k
<1>6. risk \in Int /\ k \in Int
  BY <1>5
<1>7. Max({risk, k}) = IF risk >= k THEN risk ELSE k
  BY <1>6, OfTwo, Zenon
<1>8. Max({risk, k}) \in 0..100 /\ (l = 0 => Max({risk, k}) < 80)
  BY <1>5, <1>7
<1> QED
  BY <1>2, <1>3, <1>8 DEF l, k

\* What a call leaves behind, by the way it ends: stopped by the registry, an
\* error in the proxy, stopped by the proxy, an error of the egress policy, and
\* a verdict of a later layer.
NoVerdict(layer) ==
  /\ raised' = [raised EXCEPT ![layer] = @ + 1]
  /\ UNCHANGED <<verdicts, egressLog>>

LaterVerdict(c, l, risk) ==
  /\ l = 0 => risk < 80
  /\ l = 5 => HasDest(c)
  /\ l = 0 /\ HasDest(c) => EgressAllowed(c)
  /\ Verdict(c, l, risk)
  /\ egressLog' = IF HasDest(c) /\ l \in {0, 5}
                  THEN Append(egressLog, [call |-> c, allowed |-> l = 0]) ELSE egressLog
  /\ UNCHANGED raised

Decided(c, d) ==
  /\ Decides(d, c) /\ Record(d)
  /\ \/ d.action \notin Passing /\ Verdict(c, 2, d.risk) /\ UNCHANGED <<egressLog, raised>>
     \/ d.action \in Passing /\ NoVerdict("later")
     \/ d.action \in Passing /\ \E l \in {0, 3, 4, 5}, risk \in 0..100 : LaterVerdict(c, l, risk)

Undecided(c) ==
  /\ UNCHANGED <<decisions, tally, quarantined>>
  /\ \/ Verdict(c, 1, 95) /\ UNCHANGED <<egressLog, raised>>
     \/ NoVerdict("proxy")

LEMMA CallEnds ==
  ASSUME RulesInv, NEW c \in Call, EvaluateCall(c)
  PROVE  Undecided(c) \/ \E d : Decided(c, d)
<1>1. CASE StopUnknownServer(c)
  BY <1>1 DEF StopUnknownServer, Undecided
<1>2. CASE RaiseInProxy(c)
  BY <1>2 DEF RaiseInProxy, Undecided, NoVerdict
<1>3. CASE StopInProxy(c)
  <2>1. PICK ml \in MLChoices(c) :
             /\ Intercept(c, ml)
             /\ Decision(ml, c).action \notin Passing
             /\ Verdict(c, 2, Decision(ml, c).risk)
    BY <1>3 DEF StopInProxy, Passing
  <2>2. Record(Decision(ml, c)) /\ UNCHANGED <<egressLog, raised>>
    BY <1>3, <2>1 DEF StopInProxy, Intercept
  <2>3. Decided(c, Decision(ml, c))
    BY <2>1, <2>2, DecisionIs DEF Decided
  <2> QED
    BY <2>3
<1>4. CASE PassProxy(c)
  <2>1. PICK ml \in MLChoices(c) :
             /\ Intercept(c, ml)
             /\ Decision(ml, c).action \in Passing
             /\ LaterLayers(c, Decision(ml, c).risk)
    BY <1>4 DEF PassProxy, Passing
  <2> DEFINE d == Decision(ml, c)
             l == StoppingLayer(c)
             risk == Max({d.risk, LayerRisk(c, l)})
  <2>2. Decides(d, c) /\ Record(d) /\ d.action \in Passing /\ LaterLayers(c, d.risk)
    BY <2>1, DecisionIs DEF Intercept
  <2> HIDE DEF d
  <2>3. d.risk \in 0..100 /\ d.risk < 80
    BY <2>2 DEF Decides
  <2>4. /\ l \in {0, 3, 4, 5} /\ risk \in 0..100 /\ (l = 0 => risk < 80) /\ (l = 5 => HasDest(c))
        /\ HasDest(c) /\ l \in {0, 5} => EgressAllowed(c) = (l = 0)
    BY <2>3, LayersIs
  <2>5. CASE LaterRaises(c)
    BY <2>2, <2>5 DEF LaterLayers, Decided, NoVerdict
  <2>6. CASE ~LaterRaises(c)
    <3>1. /\ Verdict(c, l, risk) /\ UNCHANGED raised
          /\ egressLog' = IF HasDest(c) /\ l \in {0, 5}
                          THEN Append(egressLog, [call |-> c, allowed |-> EgressAllowed(c)])
                          ELSE egressLog
      BY <2>2, <2>6 DEF LaterLayers
    <3> HIDE DEF l, risk
    <3>2. LaterVerdict(c, l, risk)
      BY <2>4, <3>1 DEF LaterVerdict
    <3> QED
      BY <2>2, <2>4, <3>2 DEF Decided
  <2> QED
    BY <2>5, <2>6
<1> QED
  BY <1>1, <1>2, <1>3, <1>4 DEF EvaluateCall

-----------------------------------------------------------------------------
(* The steps, by what they decide. *)

RulesMove == UNCHANGED rules \/ \E r \in RuleChoice : rules' = Insert(rules, r)

\* What is recorded of a call beside the layers' logs.
AttackBegins ==
  /\ ~attack.running
  /\ \E s : attack' = [running |-> TRUE, called |-> TRUE, server |-> s,
                       blocked |-> ~Last(verdicts').allowed, layer |-> Last(verdicts').layer]

Tallied ==
  \/ /\ deployment.served /\ UNCHANGED <<attack, results>>
     /\ IF verdicts' = verdicts THEN UNCHANGED stats ELSE RecordEvent(Last(verdicts'))
  \/ /\ ~deployment.served /\ UNCHANGED <<stats, results>>
     /\ IF verdicts' = verdicts THEN UNCHANGED attack ELSE AttackBegins

\* What becomes of the attack when no call is decided.
AttackAlerts(alerted) ==
  attack' = [running |-> TRUE, called |-> attack.called, server |-> attack.server,
             blocked |-> attack.blocked \/ alerted,
             layer |-> IF attack.layer = 0 /\ alerted THEN 3 ELSE attack.layer]

AttackEnds == results' = Append(results, Outcome) /\ attack' = NoAttack

AttackMoves ==
  \/ UNCHANGED <<attack, results>>
  \/ UNCHANGED results /\ \E alerted \in BOOLEAN : AttackAlerts(alerted)
  \/ AttackEnds

NothingDecided ==
  UNCHANGED <<decisions, tally, egressLog, verdicts, raised, stats>> /\ AttackMoves

CallOrOutput ==
  \/ \E c \in Call : EvaluateCall(c) /\ Tallied
  \/ \E c \in Call : InterceptOutput(c) /\ UNCHANGED <<stats, attack, results>>

LEMMA AttackedCall ==
  ASSUME NEW c \in Call, AttackCall(c)
  PROVE  RulesMove /\ CallOrOutput
<1>1. UNCHANGED <<rules, stats, results>> /\ ~deployment.served /\ EvaluateCall(c)
  BY CallKeeps DEF AttackCall
<1>2. IF verdicts' = verdicts THEN UNCHANGED attack ELSE AttackBegins
  BY Zenon DEF AttackCall, AttackBegins
<1>3. Tallied
  BY <1>1, <1>2 DEF Tallied
<1> QED
  BY <1>1, <1>3 DEF CallOrOutput, RulesMove

LEMMA AttackedEvent ==
  ASSUME NEW e \in Event, AttackEvent(e)
  PROVE  RulesMove /\ NothingDecided
<1> DEFINE alerted == Last(kernel'.alerts).types # {}
<1>1. UNCHANGED <<rules, decisions, tally, egressLog, verdicts, raised, stats, results>>
  BY DEF AttackEvent, EvaluateKernelEvent, proxyVars
<1>2. AttackAlerts(alerted)
  BY Zenon DEF AttackEvent, AttackAlerts
<1>3. alerted \in BOOLEAN
  OBVIOUS
<1> HIDE DEF alerted
<1> QED
  BY <1>1, <1>2, <1>3 DEF NothingDecided, AttackMoves, RulesMove

LEMMA OperatedCall ==
  ASSUME Operate
  PROVE  RulesMove /\ (NothingDecided \/ CallOrOutput)
<1>1. UNCHANGED <<stats, attack, results>>
  BY DEF Operate, scanVars
<1>2. ASSUME NEW r \in RuleChoice, AddRule(r)
      PROVE  RulesMove /\ NothingDecided
  BY <1>1, <1>2 DEF AddRule, RulesMove, NothingDecided, AttackMoves
<1>3. CASE \E i \in DOMAIN quarantined : ReleaseQuarantined(i)
  BY <1>1, <1>3 DEF ReleaseQuarantined, RulesMove, NothingDecided, AttackMoves
<1>4. CASE \E s \in {c.server : c \in Call} \ {NoServer} :
             RegisterServer(s) \/ \E caps \in Capability : RegisterCapabilities(s, caps)
  BY <1>1, <1>4
  DEF RegisterServer, RegisterCapabilities, proxyVars, RulesMove, NothingDecided, AttackMoves
<1>5. CASE \E e \in Event : EvaluateKernelEvent(e)
  BY <1>1, <1>5 DEF EvaluateKernelEvent, proxyVars, RulesMove, NothingDecided, AttackMoves
<1>6. CASE \E c \in Call : ~deployment.served /\ InterceptOutput(c)
  <2>1. PICK c \in Call : InterceptOutput(c)
    BY <1>6
  <2>2. UNCHANGED rules
    BY <2>1 DEF InterceptOutput
  <2> QED
    BY <1>1, <2>1, <2>2 DEF RulesMove, CallOrOutput
<1>7. CASE Tick
  BY <1>1, <1>7 DEF Tick, proxyVars, RulesMove, NothingDecided, AttackMoves
<1> QED
  BY <1>2, <1>3, <1>4, <1>5, <1>6, <1>7 DEF Operate, Reconfigure, Observe

LEMMA StepCalls ==
  ASSUME [ScanNext]_apiVars
  PROVE  RulesMove /\ (NothingDecided \/ CallOrOutput)
<1>1. CASE UNCHANGED apiVars
  BY <1>1 DEF apiVars, fiveVars, scanVars, RulesMove, NothingDecided, AttackMoves
<1>2. CASE \E p \in Peer : Refuse(p)
  BY <1>2 DEF Refuse, fiveVars, RulesMove, NothingDecided, AttackMoves
<1>3. ASSUME NEW p \in Peer, NEW c \in Call, Scan(p, c)
      PROVE  RulesMove /\ CallOrOutput
  <2>1. UNCHANGED rules /\ EvaluateCall(c) /\ Tallied
    BY <1>3, CallKeeps DEF Scan, Tallied
  <2> QED
    BY <2>1 DEF RulesMove, CallOrOutput
<1>4. ASSUME NEW c \in Call, AttackCall(c)
      PROVE  RulesMove /\ CallOrOutput
  BY <1>4, AttackedCall
<1>5. ASSUME NEW e \in Event, AttackEvent(e)
      PROVE  RulesMove /\ NothingDecided
  BY <1>5, AttackedEvent
<1>6. CASE EndAttack
  BY <1>6 DEF EndAttack, AttackEnds, fiveVars, RulesMove, NothingDecided, AttackMoves
<1>7. CASE Operate
  BY <1>7, OperatedCall
<1> QED
  BY <1>1, <1>2, <1>3, <1>4, <1>5, <1>6, <1>7 DEF ScanNext

\* A tool's output is decided by the thresholds alone.
LEMMA OutputIs ==
  ASSUME NEW c \in Call, InterceptOutput(c)
  PROVE  \E d : /\ Record(d) /\ d.call = c /\ d.action \in RuleAction /\ d.by = "output"
                /\ UNCHANGED <<egressLog, verdicts, raised>>
<1> DEFINE r == InspectOutput(c, deployment.shadowMode)
           risk == IF deployment.inspector THEN r.risk ELSE 0
           d == [call |-> c, action |-> ActionFor(risk), risk |-> risk, by |-> "output",
                 report |-> IF deployment.inspector THEN r ELSE <<>>]
<1>1. Record(d) /\ UNCHANGED <<egressLog, verdicts, raised>>
  BY DEF InterceptOutput
<1>2. risk \in 0..100
  BY OutputRisk
<1>3. ActionFor(risk) \in RuleAction
  <2> HIDE DEF risk
  <2> QED
    BY <1>2, ActionIs
<1>4. d.call = c /\ d.action \in RuleAction /\ d.by = "output"
  BY <1>3
<1> HIDE DEF d
<1> QED
  BY <1>1, <1>4

-----------------------------------------------------------------------------
(* The layers' decisions fit together. *)

GoodDecision(d) ==
  /\ d.call \in Call /\ d.action \in RuleAction
  /\ d.by = "inspector" /\ d.report.failed = {} /\ ~d.report.allowed => d.action # "allow"

GoodVerdict(v) ==
  /\ v.call \in Call /\ v.layer \in 0..5 /\ v.risk \in 0..100
  /\ v.allowed = (v.layer = 0)
  /\ v.allowed => v.risk < 80
  /\ deployment.served /\ Late(v.call) => v.layer \in {1, 2}

GoodEgress(d) ==
  /\ d.allowed \in BOOLEAN
  /\ d.allowed => EgressAllowed(d.call)

FitInv ==
  /\ LogOf(decisions) /\ LogOf(verdicts) /\ LogOf(egressLog)
  /\ \A i \in DOMAIN decisions : GoodDecision(decisions[i])
  /\ \A i \in DOMAIN verdicts : GoodVerdict(verdicts[i])
  /\ \A i \in DOMAIN egressLog : GoodEgress(egressLog[i])

LEMMA Recorded ==
  ASSUME FitInv, NEW d, Record(d), GoodDecision(d)
  PROVE  LogOf(decisions') /\ \A i \in DOMAIN decisions' : GoodDecision(decisions'[i])
<1>1. decisions' = Append(decisions, d) /\ LogOf(decisions)
  BY DEF Record, FitInv
<1>2. /\ LogOf(decisions') /\ Len(decisions) \in Nat
      /\ DOMAIN decisions = 1..Len(decisions) /\ DOMAIN decisions' = 1..(Len(decisions) + 1)
      /\ decisions'[Len(decisions) + 1] = d
      /\ \A i \in 1..Len(decisions) : decisions'[i] = decisions[i]
  <2> DEFINE s == decisions
             t == decisions'
  <2>1. LogOf(s) /\ t = Append(s, d)
    BY <1>1
  <2> HIDE DEF s, t
  <2>2. /\ LogOf(t) /\ Len(s) \in Nat
        /\ DOMAIN s = 1..Len(s) /\ DOMAIN t = 1..(Len(s) + 1)
        /\ t[Len(s) + 1] = d
    BY <2>1, LongerLog
  <2>3. \A i \in 1..Len(s) : t[i] = s[i]
    BY <2>1, LongerLog
  <2> QED
    BY <2>2, <2>3 DEF s, t
<1>3. \A i \in 1..Len(decisions) : GoodDecision(decisions[i])
  BY <1>2 DEF FitInv
<1>4. ASSUME NEW i \in 1..(Len(decisions) + 1)
      PROVE  GoodDecision(decisions'[i])
  <2>1. i \in 1..Len(decisions) \/ i = Len(decisions) + 1
    BY <1>2
  <2> QED
    BY <1>2, <1>3, <2>1
<1> QED
  BY <1>2, <1>4

LEMMA Judged ==
  ASSUME FitInv, NEW c, NEW l, NEW risk, Verdict(c, l, risk),
         GoodVerdict([call |-> c, allowed |-> l = 0, layer |-> l, risk |-> risk])
  PROVE  LogOf(verdicts') /\ \A i \in DOMAIN verdicts' : GoodVerdict(verdicts'[i])
<1> DEFINE v == [call |-> c, allowed |-> l = 0, layer |-> l, risk |-> risk]
<1>1. verdicts' = Append(verdicts, v) /\ LogOf(verdicts) /\ GoodVerdict(v)
  BY DEF Verdict, FitInv
<1> HIDE DEF v
<1>2. /\ LogOf(verdicts') /\ Len(verdicts) \in Nat
      /\ DOMAIN verdicts = 1..Len(verdicts) /\ DOMAIN verdicts' = 1..(Len(verdicts) + 1)
      /\ verdicts'[Len(verdicts) + 1] = v
      /\ \A i \in 1..Len(verdicts) : verdicts'[i] = verdicts[i]
  <2> DEFINE s == verdicts
             t == verdicts'
  <2>1. LogOf(s) /\ t = Append(s, v)
    BY <1>1
  <2> HIDE DEF s, t
  <2>2. /\ LogOf(t) /\ Len(s) \in Nat
        /\ DOMAIN s = 1..Len(s) /\ DOMAIN t = 1..(Len(s) + 1)
        /\ t[Len(s) + 1] = v
    BY <2>1, LongerLog
  <2>3. \A i \in 1..Len(s) : t[i] = s[i]
    BY <2>1, LongerLog
  <2> QED
    BY <2>2, <2>3 DEF s, t
<1>3. \A i \in 1..Len(verdicts) : GoodVerdict(verdicts[i])
  BY <1>2 DEF FitInv
<1>4. ASSUME NEW i \in 1..(Len(verdicts) + 1)
      PROVE  GoodVerdict(verdicts'[i])
  <2>1. i \in 1..Len(verdicts) \/ i = Len(verdicts) + 1
    BY <1>2
  <2> QED
    BY <1>1, <1>2, <1>3, <2>1
<1> QED
  BY <1>2, <1>4

LEMMA Forwarded ==
  ASSUME FitInv, NEW d, egressLog' = Append(egressLog, d), GoodEgress(d)
  PROVE  LogOf(egressLog') /\ \A i \in DOMAIN egressLog' : GoodEgress(egressLog'[i])
<1>1. LogOf(egressLog)
  BY DEF FitInv
<1>2. /\ LogOf(egressLog') /\ Len(egressLog) \in Nat
      /\ DOMAIN egressLog = 1..Len(egressLog) /\ DOMAIN egressLog' = 1..(Len(egressLog) + 1)
      /\ egressLog'[Len(egressLog) + 1] = d
      /\ \A i \in 1..Len(egressLog) : egressLog'[i] = egressLog[i]
  <2> DEFINE s == egressLog
             t == egressLog'
  <2>1. LogOf(s) /\ t = Append(s, d)
    BY <1>1
  <2> HIDE DEF s, t
  <2>2. /\ LogOf(t) /\ Len(s) \in Nat
        /\ DOMAIN s = 1..Len(s) /\ DOMAIN t = 1..(Len(s) + 1)
        /\ t[Len(s) + 1] = d
    BY <2>1, LongerLog
  <2>3. \A i \in 1..Len(s) : t[i] = s[i]
    BY <2>1, LongerLog
  <2> QED
    BY <2>2, <2>3 DEF s, t
<1>3. \A i \in 1..Len(egressLog) : GoodEgress(egressLog[i])
  BY <1>2 DEF FitInv
<1>4. ASSUME NEW i \in 1..(Len(egressLog) + 1)
      PROVE  GoodEgress(egressLog'[i])
  <2>1. i \in 1..Len(egressLog) \/ i = Len(egressLog) + 1
    BY <1>2
  <2> QED
    BY <1>2, <1>3, <2>1
<1> QED
  BY <1>2, <1>4

LEMMA VerdictFits ==
  ASSUME NEW c \in Call, NEW l \in 0..5, NEW risk \in 0..100, l = 0 => risk < 80,
         deployment.served /\ Late(c) => l \in {1, 2}
  PROVE  GoodVerdict([call |-> c, allowed |-> l = 0, layer |-> l, risk |-> risk])
<1> DEFINE v == [call |-> c, allowed |-> l = 0, layer |-> l, risk |-> risk]
<1>1. v.call = c /\ v.layer = l /\ v.risk = risk
  OBVIOUS
<1>2. v.allowed = (l = 0)
  BY Zenon
<1> HIDE DEF v
<1>3. v.call \in Call /\ v.layer \in 0..5 /\ v.risk \in 0..100
  BY <1>1
<1>4. v.allowed = (v.layer = 0)
  BY <1>1, <1>2, Zenon
<1>5. v.allowed => v.risk < 80
  BY <1>1, <1>2
<1>6. deployment.served /\ Late(v.call) => v.layer \in {1, 2}
  BY <1>1
<1>7. GoodVerdict(v)
  BY <1>3, <1>4, <1>5, <1>6, Zenon DEF GoodVerdict
<1> QED
  BY <1>7 DEF v

LEMMA DecisionKept ==
  ASSUME NEW c \in Call, FitInv, Undecided(c) \/ \E d : Decided(c, d)
  PROVE  /\ LogOf(decisions') /\ LogOf(verdicts') /\ LogOf(egressLog')
         /\ \A i \in DOMAIN decisions' : GoodDecision(decisions'[i])
         /\ \A i \in DOMAIN verdicts' : GoodVerdict(verdicts'[i])
         /\ \A i \in DOMAIN egressLog' : GoodEgress(egressLog'[i])
<1> DEFINE InDecisions == LogOf(decisions') /\ \A i \in DOMAIN decisions' : GoodDecision(decisions'[i])
           InVerdicts == LogOf(verdicts') /\ \A i \in DOMAIN verdicts' : GoodVerdict(verdicts'[i])
           InEgress == LogOf(egressLog') /\ \A i \in DOMAIN egressLog' : GoodEgress(egressLog'[i])
<1>1. /\ UNCHANGED decisions => InDecisions
      /\ UNCHANGED verdicts => InVerdicts
      /\ UNCHANGED egressLog => InEgress
  BY DEF FitInv
<1>2. ASSUME Undecided(c)
      PROVE  InDecisions /\ InVerdicts /\ InEgress
  <2>1. InDecisions /\ InEgress
    BY <1>1, <1>2 DEF Undecided, NoVerdict
  <2>2. CASE NoVerdict("proxy")
    BY <1>1, <2>1, <2>2 DEF NoVerdict
  <2>3. CASE Verdict(c, 1, 95)
    <3> DEFINE l == 1
               risk == 95
    <3>0. l \in {1, 2} /\ Verdict(c, l, risk) /\ risk \in 0..100
      BY <2>3
    <3> HIDE DEF l, risk
    <3>1. GoodVerdict([call |-> c, allowed |-> l = 0, layer |-> l, risk |-> risk])
      <4>1. l \in 0..5 /\ (l = 0 => risk < 80)
        BY <3>0
      <4> QED
        BY <3>0, <4>1, VerdictFits
    <3>2. InVerdicts
      BY <3>0, <3>1, Judged
    <3> QED
      BY <2>1, <3>2
  <2> QED
    BY <1>2, <2>2, <2>3 DEF Undecided
<1>3. ASSUME NEW d, Decided(c, d)
      PROVE  InDecisions /\ InVerdicts /\ InEgress
  <2>1. Decides(d, c) /\ Record(d)
    BY <1>3 DEF Decided
  <2>2. GoodDecision(d)
    BY <2>1 DEF Decides, GoodDecision
  <2>3. InDecisions
    BY <2>1, <2>2, Recorded
  <2>4. CASE d.action \notin Passing /\ Verdict(c, 2, d.risk) /\ UNCHANGED <<egressLog, raised>>
    <3> DEFINE l == 2
               risk == d.risk
    <3>0. l \in {1, 2} /\ Verdict(c, l, risk) /\ risk \in 0..100
      BY <2>1, <2>4 DEF Decides
    <3> HIDE DEF l, risk
    <3>1. GoodVerdict([call |-> c, allowed |-> l = 0, layer |-> l, risk |-> risk])
      <4>1. l \in 0..5 /\ (l = 0 => risk < 80)
        BY <3>0
      <4> QED
        BY <3>0, <4>1, VerdictFits
    <3>2. InVerdicts
      BY <3>0, <3>1, Judged
    <3> QED
      BY <1>1, <2>3, <2>4, <3>2
  <2>5. CASE NoVerdict("later")
    BY <1>1, <2>3, <2>5 DEF NoVerdict
  <2>6. ASSUME d.action \in Passing, NEW l \in {0, 3, 4, 5}, NEW risk \in 0..100,
               LaterVerdict(c, l, risk)
        PROVE  InDecisions /\ InVerdicts /\ InEgress
    <3>1. ~(deployment.served /\ Late(c))
      BY <2>1, <2>6 DEF Decides
    <3>2. GoodVerdict([call |-> c, allowed |-> l = 0, layer |-> l, risk |-> risk])
      <4>1. l \in 0..5 /\ (l = 0 => risk < 80)
        BY <2>6 DEF LaterVerdict
      <4> QED
        BY <3>1, <4>1, VerdictFits
    <3>3. InVerdicts
      <4>1. Verdict(c, l, risk)
        BY <2>6 DEF LaterVerdict
      <4> QED
        BY <3>2, <4>1, Judged
    <3>4. CASE HasDest(c) /\ l \in {0, 5}
      <4> DEFINE e == [call |-> c, allowed |-> l = 0]
      <4>1. egressLog' = Append(egressLog, e) /\ GoodEgress(e)
        BY <2>6, <3>4 DEF LaterVerdict, GoodEgress
      <4> HIDE DEF e
      <4>2. InEgress
        BY <4>1, Forwarded
      <4> QED
        BY <2>3, <3>3, <4>2
    <3>5. CASE ~(HasDest(c) /\ l \in {0, 5})
      <4>1. UNCHANGED egressLog
        BY <2>6, <3>5 DEF LaterVerdict
      <4> QED
        BY <1>1, <2>3, <3>3, <4>1
    <3> QED
      BY <3>4, <3>5
  <2> QED
    BY <1>3, <2>4, <2>5, <2>6 DEF Decided
<1> QED
  BY <1>2, <1>3

LEMMA FitStep ==
  ASSUME RulesInv, FitInv, [ScanNext]_apiVars
  PROVE  FitInv'
<1>1. UNCHANGED deployment
  BY StepMoves
<1> DEFINE Kept ==
         /\ LogOf(decisions') /\ LogOf(verdicts') /\ LogOf(egressLog')
         /\ \A i \in DOMAIN decisions' : GoodDecision(decisions'[i])
         /\ \A i \in DOMAIN verdicts' : GoodVerdict(verdicts'[i])
         /\ \A i \in DOMAIN egressLog' : GoodEgress(egressLog'[i])
<1>2. Kept
  <2>1. CASE NothingDecided
    BY <2>1 DEF NothingDecided, FitInv
  <2>2. ASSUME NEW c \in Call, EvaluateCall(c)
        PROVE  Kept
    <3>1. Undecided(c) \/ \E d : Decided(c, d)
      BY <2>2, CallEnds
    <3> QED
      BY <3>1, DecisionKept
  <2>3. ASSUME NEW c \in Call, InterceptOutput(c)
        PROVE  Kept
    <3>1. PICK d : /\ Record(d) /\ d.call = c /\ d.action \in RuleAction /\ d.by = "output"
                   /\ UNCHANGED <<egressLog, verdicts, raised>>
      BY <2>3, OutputIs
    <3>2. GoodDecision(d)
      BY <3>1 DEF GoodDecision
    <3>3. LogOf(decisions') /\ \A i \in DOMAIN decisions' : GoodDecision(decisions'[i])
      BY <3>1, <3>2, Recorded
    <3>4. /\ LogOf(verdicts') /\ LogOf(egressLog')
          /\ \A i \in DOMAIN verdicts' : GoodVerdict(verdicts'[i])
          /\ \A i \in DOMAIN egressLog' : GoodEgress(egressLog'[i])
      BY <3>1 DEF FitInv
    <3> QED
      BY <3>3, <3>4
  <2> QED
    BY <2>1, <2>2, <2>3, StepCalls DEF CallOrOutput
<1> QED
  BY <1>1, <1>2 DEF FitInv, GoodDecision, GoodVerdict, GoodEgress, Late, EgressAllowed

LEMMA FitStarts == ScanInit => RulesInv /\ FitInv
<1> SUFFICES ASSUME ScanInit
             PROVE  RulesInv /\ FitInv
  OBVIOUS
<1>1. /\ deployment \in Deployment /\ rules = deployment.rules
      /\ decisions = <<>> /\ verdicts = <<>> /\ egressLog = <<>>
  BY DEF ScanInit, LayersInit
<1>2. RulesInv
  BY <1>1, RulesStart
<1>3. FitInv
  BY <1>1, EmptyLog DEF FitInv
<1> QED
  BY <1>2, <1>3

LEMMA FitMeans ==
  ASSUME RulesInv, FitInv
  PROVE  DecisionsFit
<1>1. AllowedIsNeverCritical
  BY DEF FitInv, GoodVerdict, AllowedIsNeverCritical
<1>2. ProxyFollowsMonitor
  BY DEF FitInv, GoodDecision, ProxyFollowsMonitor
<1>3. LateServersStayRogue
  BY DEF FitInv, GoodVerdict, Late, LateServersStayRogue
<1>4. EgressNeedsRule
  <2> SUFFICES ASSUME NEW i \in DOMAIN egressLog, egressLog[i].allowed, deployment.deny
               PROVE  LET c == egressLog[i].call
                          rs == deployment.egress
                          Mine(r) == c.server \in r.servers \/ r.servers = {}
                      IN \E k \in DOMAIN rs :
                            /\ Mine(rs[k]) /\ EgressAllows(rs[k], c.dest, c.port)
                            /\ \A j \in 1..k : Mine(rs[j]) => c.dest \notin rs[j].blocked
    BY DEF EgressNeedsRule
  <2> DEFINE c == egressLog[i].call
  <2>1. EgressAllowed(c) /\ deployment \in Deployment
    BY DEF FitInv, GoodEgress, RulesInv
  <2> HIDE DEF c
  <2>2. \E k \in DOMAIN deployment.egress :
            /\ \/ c.server \in deployment.egress[k].servers
               \/ deployment.egress[k].servers = {}
            /\ EgressAllows(deployment.egress[k], c.dest, c.port)
            /\ \A j \in 1..k :
                 \/ c.server \in deployment.egress[j].servers
                 \/ deployment.egress[j].servers = {}
                 => c.dest \notin deployment.egress[j].blocked
    BY <2>1, EgressIs
  <2> QED
    BY <2>2 DEF c
<1> QED
  BY <1>1, <1>2, <1>3, <1>4 DEF DecisionsFit

\* The decisions of the layers fit together, for any calls, rules, deployments
\* and thresholds within the assumptions: a call let through is never shown as
\* critical, the proxy lets nothing pass that the monitor blocks, a destination
\* is reached only by a rule, and a server registered late stays rogue
\* (evaluate_call, inspect_call, evaluate, _is_rogue_server).
THEOREM ScanDecisionsFit == ScanSpec => []DecisionsFit
<1>1. RulesInv /\ FitInv /\ [ScanNext]_apiVars => RulesInv' /\ FitInv'
  <2> SUFFICES ASSUME RulesInv, FitInv, [ScanNext]_apiVars
               PROVE  RulesInv' /\ FitInv'
    OBVIOUS
  <2>1. UNCHANGED deployment /\ RulesMove
    BY StepMoves, StepCalls
  <2>2. RulesInv'
    BY <2>1, RulesStep DEF RulesMove
  <2> QED
    BY <2>2, FitStep
<1>2. RulesInv /\ FitInv => DecisionsFit
  BY FitMeans
<1> QED
  BY <1>1, <1>2, FitStarts, PTL DEF ScanSpec

-----------------------------------------------------------------------------
(* The detectors' memory of the servers. *)

ShadowOf(sh) ==
  /\ sh = [allowed |-> sh.allowed, caps |-> sh.caps, calls |-> sh.calls, ml |-> sh.ml]
  /\ sh.calls \in [sh.allowed -> Nat]
  /\ DOMAIN sh.caps \subseteq sh.allowed
  /\ sh.ml \in {"unloaded", "ready", "off"}

\* An earned trust falls with the calls, by steps and down to a floor.
LEMMA TrustIs ==
  ASSUME NEW n \in Nat
  PROVE  /\ Max({30 - Min({5 * n, 20}), 10}) = IF n >= 4 THEN 10 ELSE 30 - 5 * n
         /\ Max({90 - Min({Max({n - 20, 0}), 20}), 70})
              = IF n <= 20 THEN 90 ELSE IF n >= 40 THEN 70 ELSE 110 - n
<1>1. /\ 0 \in Int /\ 10 \in Int /\ 20 \in Int /\ 70 \in Int /\ 5 * n \in Int /\ n - 20 \in Int
  OBVIOUS
<1> DEFINE low == Min({5 * n, 20})
           few == Max({n - 20, 0})
           high == Min({few, 20})
<1>2. low = IF 5 * n <= 20 THEN 5 * n ELSE 20
  BY <1>1, OfTwo, Zenon
<1>3. few = IF n - 20 >= 0 THEN n - 20 ELSE 0
  BY <1>1, OfTwo, Zenon
<1> HIDE DEF low, few
<1>4. few \in Int
  BY <1>3
<1>5. high = IF few <= 20 THEN few ELSE 20
  BY <1>1, <1>4, OfTwo, Zenon
<1> HIDE DEF high
<1>6. 30 - low \in Int /\ 90 - high \in Int
  BY <1>2, <1>4, <1>5
<1>7. Max({30 - low, 10}) = IF 30 - low >= 10 THEN 30 - low ELSE 10
  BY <1>1, <1>6, OfTwo, Zenon
<1>8. Max({90 - high, 70}) = IF 90 - high >= 70 THEN 90 - high ELSE 70
  BY <1>1, <1>6, OfTwo, Zenon
<1>9. Max({30 - low, 10}) = IF n >= 4 THEN 10 ELSE 30 - 5 * n
  BY <1>2, <1>7
<1>10. Max({90 - high, 70}) = IF n <= 20 THEN 90 ELSE IF n >= 40 THEN 70 ELSE 110 - n
  BY <1>3, <1>5, <1>8
<1> QED
  BY <1>9, <1>10 DEF low, high, few

LEMMA TrustOf ==
  ASSUME NEW sh, NEW s \in sh.allowed, sh.calls[s] \in Nat
  PROVE  Trust(sh, s) = IF s \notin DOMAIN sh.caps
                        THEN IF sh.calls[s] >= 4 THEN 10 ELSE 30 - 5 * sh.calls[s]
                        ELSE IF sh.calls[s] <= 20 THEN 90
                             ELSE IF sh.calls[s] >= 40 THEN 70 ELSE 110 - sh.calls[s]
<1> DEFINE n == sh.calls[s]
           earned == Max({30 - Min({5 * n, 20}), 10})
           given == Max({90 - Min({Max({n - 20, 0}), 20}), 70})
<1>1. Trust(sh, s) = IF s \notin DOMAIN sh.caps THEN earned ELSE given
  BY Zenon DEF Trust, Registered
<1>2. /\ earned = IF n >= 4 THEN 10 ELSE 30 - 5 * n
      /\ given = IF n <= 20 THEN 90 ELSE IF n >= 40 THEN 70 ELSE 110 - n
  BY TrustIs, Zenon
<1> HIDE DEF earned, given
<1> QED
  BY <1>1, <1>2

LEMMA CountedShadow ==
  ASSUME NEW sh, ShadowOf(sh), NEW c, NEW ml \in {"unloaded", "ready", "off"}, NEW t,
         t = [CountCall(sh, c) EXCEPT !.ml = ml]
  PROVE  /\ ShadowOf(t)
         /\ \A s \in DOMAIN sh.calls : ~(Trust(t, s) > Trust(sh, s))
<1>1. \E calls \in [sh.allowed -> Nat] :
         /\ t = [allowed |-> sh.allowed, caps |-> sh.caps, calls |-> calls, ml |-> ml]
         /\ \A s \in sh.allowed : calls[s] \in {sh.calls[s], sh.calls[s] + 1}
  <2>0. sh.calls \in [sh.allowed -> Nat]
    BY DEF ShadowOf
  <2>1. CASE Unregistered(sh, c)
    <3>1. t = [allowed |-> sh.allowed, caps |-> sh.caps, calls |-> sh.calls, ml |-> ml]
      BY <2>1 DEF CountCall, ShadowOf
    <3> QED
      BY <2>0, <3>1
  <2>2. CASE ~Unregistered(sh, c)
    <3> DEFINE more == [sh.calls EXCEPT ![c.server] = sh.calls[c.server] + 1]
    <3>1. t = [allowed |-> sh.allowed, caps |-> sh.caps, calls |-> more, ml |-> ml]
      BY <2>2 DEF CountCall, ShadowOf
    <3>2. c.server \in sh.allowed
      BY <2>2 DEF Unregistered
    <3>3. more \in [sh.allowed -> Nat] /\ \A s \in sh.allowed : more[s] \in {sh.calls[s], sh.calls[s] + 1}
      BY <2>0, <3>2
    <3> HIDE DEF more
    <3> QED
      BY <3>1, <3>3
  <2> QED
    BY <2>1, <2>2
<1>2. PICK calls \in [sh.allowed -> Nat] :
         /\ t = [allowed |-> sh.allowed, caps |-> sh.caps, calls |-> calls, ml |-> ml]
         /\ \A s \in sh.allowed : calls[s] \in {sh.calls[s], sh.calls[s] + 1}
  BY <1>1
<1>3. t.allowed = sh.allowed /\ t.caps = sh.caps /\ t.calls = calls /\ t.ml = ml
  BY <1>2
<1>4. ShadowOf(t)
  <2>1. t = [allowed |-> t.allowed, caps |-> t.caps, calls |-> t.calls, ml |-> t.ml]
    BY <1>2, <1>3
  <2>2. DOMAIN sh.caps \subseteq sh.allowed
    BY DEF ShadowOf
  <2> QED
    BY <1>3, <2>1, <2>2 DEF ShadowOf
<1>5. ASSUME NEW s \in DOMAIN sh.calls
      PROVE  ~(Trust(t, s) > Trust(sh, s))
  <2> DEFINE n == sh.calls[s]
             m == t.calls[s]
             earned(k) == IF k >= 4 THEN 10 ELSE 30 - 5 * k
             given(k) == IF k <= 20 THEN 90 ELSE IF k >= 40 THEN 70 ELSE 110 - k
             free == s \notin DOMAIN sh.caps
  <2>1. s \in sh.allowed /\ n \in Nat
    BY <1>5 DEF ShadowOf
  <2>2. m \in {n, n + 1} /\ m \in Nat
    BY <1>2, <1>3, <2>1
  <2>3. Trust(sh, s) = IF free THEN earned(n) ELSE given(n)
    BY <2>1, TrustOf, Zenon
  <2>4. Trust(t, s) = IF free THEN earned(m) ELSE given(m)
    <3>1. s \in t.allowed /\ DOMAIN t.caps = DOMAIN sh.caps /\ t.calls[s] \in Nat
      BY <1>3, <2>1, <2>2
    <3>2. Trust(t, s) = IF s \notin DOMAIN t.caps THEN earned(m) ELSE given(m)
      BY <3>1, TrustOf, Zenon
    <3> QED
      BY <3>1, <3>2, Zenon
  <2> HIDE DEF n, m, free
  <2> QED
    BY <2>1, <2>2, <2>3, <2>4
<1> QED
  BY <1>4, <1>5

LEMMA RegisteredShadow ==
  ASSUME NEW sh, ShadowOf(sh), NEW server, NEW caps, NEW t, t = Register(sh, server, caps)
  PROVE  /\ ShadowOf(t)
         /\ \A s \in DOMAIN sh.calls :
              \/ ~(Trust(t, s) > Trust(sh, s))
              \/ Registered(t, s) /\ t.calls[s] = 0
<1> DEFINE allowed == sh.allowed \union {server}
           declared == [s \in DOMAIN sh.caps \union {server} |->
                          IF s = server THEN caps ELSE sh.caps[s]]
           calls == [s \in DOMAIN sh.calls \union {server} |->
                       IF s = server THEN 0 ELSE sh.calls[s]]
<1>1. t = [allowed |-> allowed, caps |-> declared, calls |-> calls, ml |-> sh.ml]
  BY DEF Register, ShadowOf
<1>2. sh.calls \in [sh.allowed -> Nat] /\ DOMAIN sh.calls = sh.allowed
  BY DEF ShadowOf
<1>3. /\ calls \in [allowed -> Nat] /\ calls[server] = 0
      /\ \A s \in sh.allowed : s # server => calls[s] = sh.calls[s]
  BY <1>2
<1>4. DOMAIN declared = DOMAIN sh.caps \union {server}
  OBVIOUS
<1> HIDE DEF declared, calls, allowed
<1>5. t.allowed = allowed /\ t.caps = declared /\ t.calls = calls /\ t.ml = sh.ml
  BY <1>1
<1>6. ShadowOf(t)
  <2>1. t = [allowed |-> t.allowed, caps |-> t.caps, calls |-> t.calls, ml |-> t.ml]
    BY <1>1, <1>5
  <2>2. DOMAIN t.caps \subseteq t.allowed /\ t.ml \in {"unloaded", "ready", "off"}
    BY <1>4, <1>5 DEF ShadowOf, allowed
  <2>3. t.calls \in [t.allowed -> Nat]
    BY <1>3, <1>5
  <2> QED
    BY <2>1, <2>2, <2>3 DEF ShadowOf
<1>7. ASSUME NEW s \in DOMAIN sh.calls, s # server
      PROVE  ~(Trust(t, s) > Trust(sh, s))
  <2> DEFINE n == sh.calls[s]
             earned == IF n >= 4 THEN 10 ELSE 30 - 5 * n
             given == IF n <= 20 THEN 90 ELSE IF n >= 40 THEN 70 ELSE 110 - n
             free == s \notin DOMAIN sh.caps
  <2>1. s \in sh.allowed /\ n \in Nat /\ calls[s] = n
    BY <1>2, <1>3, <1>7
  <2>2. s \in t.allowed /\ t.calls[s] = n /\ (s \in DOMAIN t.caps <=> s \in DOMAIN sh.caps)
    BY <1>4, <1>5, <1>7, <2>1 DEF allowed
  <2>3. Trust(sh, s) = IF free THEN earned ELSE given
    BY <2>1, TrustOf, Zenon
  <2>4. Trust(t, s) = IF free THEN earned ELSE given
    <3>1. t.calls[s] \in Nat
      BY <2>1, <2>2
    <3>2. Trust(t, s) = IF s \notin DOMAIN t.caps
                        THEN IF t.calls[s] >= 4 THEN 10 ELSE 30 - 5 * t.calls[s]
                        ELSE IF t.calls[s] <= 20 THEN 90
                             ELSE IF t.calls[s] >= 40 THEN 70 ELSE 110 - t.calls[s]
      BY <2>2, <3>1, TrustOf, Zenon
    <3> QED
      BY <2>2, <3>2
  <2>5. (IF free THEN earned ELSE given) \in Int
    <3> HIDE DEF n, free
    <3> QED
      BY <2>1
  <2> HIDE DEF n, free, earned, given
  <2> QED
    BY <2>3, <2>4, <2>5
<1>8. Registered(t, server) /\ t.calls[server] = 0
  BY <1>3, <1>4, <1>5 DEF Registered
<1> QED
  BY <1>6, <1>7, <1>8

DetectorsMove ==
  \/ UNCHANGED detectors
  \/ \E c, ml : /\ ml \in {detectors.ml, "ready", "off"}
                /\ detectors' = [CountCall(detectors, c) EXCEPT !.ml = ml]
  \/ \E s, caps : detectors' = Register(detectors, s, caps)

LEMMA CallCounts ==
  ASSUME NEW c, EvaluateCall(c)
  PROVE  DetectorsMove
<1>1. ASSUME NEW ml \in MLChoices(c), Intercept(c, ml)
      PROVE  DetectorsMove
  <2>1. ml \in {detectors.ml, "ready", "off"}
    BY <1>1 DEF MLChoices, MLOutcome
  <2>2. UNCHANGED detectors \/ detectors' = [CountCall(detectors, c) EXCEPT !.ml = ml]
    BY <1>1 DEF Intercept
  <2> QED
    BY <2>1, <2>2 DEF DetectorsMove
<1>2. CASE StopUnknownServer(c) \/ RaiseInProxy(c)
  BY <1>2 DEF StopUnknownServer, RaiseInProxy, DetectorsMove
<1>3. CASE StopInProxy(c) \/ PassProxy(c)
  BY <1>1, <1>3 DEF StopInProxy, PassProxy
<1> QED
  BY <1>2, <1>3 DEF EvaluateCall

LEMMA StepDetects ==
  ASSUME [ScanNext]_apiVars
  PROVE  DetectorsMove
<1>1. CASE UNCHANGED apiVars
  BY <1>1 DEF apiVars, fiveVars, DetectorsMove
<1>2. CASE \E p \in Peer : Refuse(p)
  BY <1>2 DEF Refuse, fiveVars, DetectorsMove
<1>3. CASE \E p \in Peer, c \in Call : Scan(p, c)
  BY <1>3, CallCounts DEF Scan
<1>4. CASE \E c \in Call : AttackCall(c)
  BY <1>4, CallCounts DEF AttackCall
<1>6. CASE EndAttack \/ \E e \in Event : AttackEvent(e)
  BY <1>6 DEF EndAttack, AttackEvent, EvaluateKernelEvent, proxyVars, fiveVars, DetectorsMove
<1>5. CASE Operate
  <2>1. CASE \E r \in RuleChoice : AddRule(r)
    BY <2>1 DEF AddRule, DetectorsMove
  <2>2. CASE \E i \in DOMAIN quarantined : ReleaseQuarantined(i)
    BY <2>2 DEF ReleaseQuarantined, DetectorsMove
  <2>3. CASE \E s \in {c.server : c \in Call} \ {NoServer} :
               RegisterServer(s) \/ \E caps \in Capability : RegisterCapabilities(s, caps)
    BY <2>3 DEF RegisterServer, RegisterCapabilities, proxyVars, DetectorsMove
  <2>4. CASE \E e \in Event : EvaluateKernelEvent(e)
    BY <2>4 DEF EvaluateKernelEvent, proxyVars, DetectorsMove
  <2>5. CASE \E c \in Call : ~deployment.served /\ InterceptOutput(c)
    BY <2>5 DEF InterceptOutput, DetectorsMove
  <2>6. CASE Tick
    BY <2>6 DEF Tick, proxyVars, DetectorsMove
  <2> QED
    BY <1>5, <2>1, <2>2, <2>3, <2>4, <2>5, <2>6 DEF Operate, Reconfigure, Observe
<1> QED
  BY <1>1, <1>2, <1>3, <1>4, <1>5, <1>6 DEF ScanNext

ShadowInv == ShadowOf(detectors)

LEMMA ShadowStep ==
  ASSUME ShadowInv, [ScanNext]_apiVars
  PROVE  /\ ShadowInv'
         /\ \A s \in DOMAIN detectors.calls :
              \/ ~(Trust(detectors', s) > Trust(detectors, s))
              \/ Registered(detectors', s) /\ detectors'.calls[s] = 0
              \/ UNCHANGED detectors
<1> DEFINE sh == detectors
           t == detectors'
<1>1. ShadowOf(sh) /\ sh.ml \in {"unloaded", "ready", "off"}
  BY DEF ShadowInv, ShadowOf
<1>2. DetectorsMove
  BY StepDetects
<1> DEFINE Held == /\ ShadowOf(t)
                   /\ \A s \in DOMAIN sh.calls :
                        \/ ~(Trust(t, s) > Trust(sh, s))
                        \/ Registered(t, s) /\ t.calls[s] = 0
                        \/ t = sh
<1>3. ASSUME t = sh
      PROVE  Held
  <2> HIDE DEF sh, t
  <2> QED
    BY <1>1, <1>3
<1>4. ASSUME NEW c, NEW ml \in {sh.ml, "ready", "off"}, t = [CountCall(sh, c) EXCEPT !.ml = ml]
      PROVE  Held
  <2>1. ml \in {"unloaded", "ready", "off"}
    BY <1>1, <1>4
  <2> HIDE DEF sh, t
  <2>2. ShadowOf(t)
    BY <1>1, <1>4, <2>1, CountedShadow
  <2>3. \A s \in DOMAIN sh.calls : ~(Trust(t, s) > Trust(sh, s))
    BY <1>1, <1>4, <2>1, CountedShadow
  <2> QED
    BY <2>2, <2>3
<1>5. ASSUME NEW s, NEW caps, t = Register(sh, s, caps)
      PROVE  Held
  <2> HIDE DEF sh, t
  <2>1. ShadowOf(t)
    BY <1>1, <1>5, RegisteredShadow
  <2>2. \A x \in DOMAIN sh.calls :
              \/ ~(Trust(t, x) > Trust(sh, x))
              \/ Registered(t, x) /\ t.calls[x] = 0
    BY <1>1, <1>5, RegisteredShadow
  <2> QED
    BY <2>1, <2>2
<1>6. Held
  <2> HIDE DEF Held
  <2> QED
    BY <1>2, <1>3, <1>4, <1>5 DEF DetectorsMove
<1> QED
  BY <1>6 DEF ShadowInv

LEMMA ShadowStarts == ScanInit => ShadowInv
<1> SUFFICES ASSUME ScanInit
             PROVE  ShadowInv
  OBVIOUS
<1>1. detectors = Shadow0(deployment.allowed)
  BY DEF ScanInit, LayersInit
<1>2. DOMAIN <<>> = {}
  OBVIOUS
<1>3. detectors = [allowed |-> deployment.allowed, caps |-> <<>>,
                   calls |-> [s \in deployment.allowed |-> 0], ml |-> "unloaded"]
  BY <1>1 DEF Shadow0
<1>4. [s \in deployment.allowed |-> 0] \in [deployment.allowed -> Nat]
  OBVIOUS
<1> QED
  BY <1>2, <1>3, <1>4 DEF ShadowInv, ShadowOf

-----------------------------------------------------------------------------
(* What is configured outlives traffic. *)

LEMMA InsertedRemoved ==
  ASSUME RulesInv, NEW r \in RuleChoice, rules' = Insert(rules, r)
  PROVE  \E m \in DOMAIN rules' :
         /\ RemoveAt(rules', m) = rules
         /\ \A k \in DOMAIN rules' : k < m => rules'[k].priority >= rules'[m].priority
         /\ \A k \in DOMAIN rules' : k > m => rules'[k].priority < rules'[m].priority
<1> DEFINE rs == rules
           w == rules'
           n == Len(rs)
<1>1. rs \in Seq(RuleSet) /\ Falling(rs) /\ r \in RuleSet /\ w = Insert(rs, r)
  BY DEF RulesInv, RuleSet
<1>2. PICK k \in 0..n :
           /\ Insert(rs, r) \in Seq(RuleSet) /\ Len(Insert(rs, r)) = n + 1
           /\ \A i \in 1..k : Insert(rs, r)[i] = rs[i] /\ rs[i].priority >= r.priority
           /\ Insert(rs, r)[k + 1] = r
           /\ \A i \in (k + 1)..n : Insert(rs, r)[i + 1] = rs[i] /\ rs[i].priority < r.priority
  BY <1>1, InsertIs
<1> HIDE DEF rs, w
<1>3. /\ w \in Seq(RuleSet) /\ Len(w) = n + 1 /\ DOMAIN w = 1..(n + 1)
      /\ \A i \in 1..k : w[i] = rs[i] /\ rs[i].priority >= r.priority
      /\ w[k + 1] = r
      /\ \A i \in (k + 1)..n : w[i + 1] = rs[i] /\ rs[i].priority < r.priority
      /\ n \in Nat
  BY <1>1, <1>2
<1> DEFINE m == k + 1
           a == SubSeq(w, 1, m - 1)
           b == SubSeq(w, m + 1, Len(w))
<1>4. m \in 1..(n + 1) /\ m - 1 = k
  BY <1>3
<1>5. /\ a \in Seq(RuleSet) /\ Len(a) = k
      /\ \A i \in 1..k : a[i] = w[i]
  BY <1>3, <1>4
<1>6. /\ b \in Seq(RuleSet) /\ Len(b) = n - k
      /\ \A i \in 1..(n - k) : b[i] = w[k + 1 + i]
  BY <1>3, <1>4
<1> HIDE DEF a, b
<1>7. /\ a \o b \in Seq(RuleSet) /\ Len(a \o b) = n
      /\ \A i \in 1..k : (a \o b)[i] = a[i]
      /\ \A i \in (k + 1)..n : (a \o b)[i] = b[i - k]
  <2> DEFINE ab == a \o b
  <2>1. a \in Seq(RuleSet) /\ b \in Seq(RuleSet) /\ Len(a) = k /\ Len(b) = n - k
    BY <1>5, <1>6
  <2>2. /\ ab \in Seq(RuleSet) /\ Len(ab) = k + (n - k)
        /\ \A i \in 1..k : ab[i] = a[i]
        /\ \A i \in 1..(n - k) : ab[k + i] = b[i]
    BY <2>1, Joined
  <2> HIDE DEF ab
  <2>3. Len(ab) = n
    BY <1>3, <2>2
  <2>4. ASSUME NEW i \in (k + 1)..n
        PROVE  ab[i] = b[i - k]
    <3>1. i - k \in 1..(n - k) /\ k + (i - k) = i
      BY <1>3
    <3> QED
      BY <2>2, <3>1
  <2>5. /\ ab \in Seq(RuleSet) /\ Len(ab) = n
        /\ \A i \in 1..k : ab[i] = a[i]
        /\ \A i \in (k + 1)..n : ab[i] = b[i - k]
    BY <2>2, <2>3, <2>4
  <2> QED
    BY <2>5 DEF ab
<1>8. \A i \in 1..n : (a \o b)[i] = rs[i]
  <2> SUFFICES ASSUME NEW i \in 1..n
               PROVE  (a \o b)[i] = rs[i]
    OBVIOUS
  <2>1. CASE i \in 1..k
    BY <1>3, <1>5, <1>7, <2>1
  <2>2. CASE i \in (k + 1)..n
    <3>1. i - k \in 1..(n - k) /\ k + 1 + (i - k) = i + 1
      BY <1>3, <2>2
    <3> QED
      BY <1>3, <1>6, <1>7, <2>2, <3>1
  <2>3. i \in 1..k \/ i \in (k + 1)..n
    BY <1>3
  <2> QED
    BY <2>1, <2>2, <2>3
<1>9. a \o b = rs
  <2> DEFINE u == a \o b
  <2> HIDE DEF u
  <2>1. u \in Seq(RuleSet) /\ Len(u) = n /\ \A i \in 1..n : u[i] = rs[i]
    BY <1>7, <1>8 DEF u
  <2>2. u = rs
    BY <1>1, <2>1
  <2> QED
    BY <2>2 DEF u
<1>10. RemoveAt(w, m) = rs
  BY <1>9 DEF RemoveAt, a, b
<1>11. ASSUME NEW i \in DOMAIN w, i < m
       PROVE  w[i].priority >= w[m].priority
  <2>1. i \in 1..k
    BY <1>3, <1>11
  <2> QED
    BY <1>3, <2>1
<1>12. ASSUME NEW i \in DOMAIN w, i > m
       PROVE  w[i].priority < w[m].priority
  <2>1. i - 1 \in (k + 1)..n /\ (i - 1) + 1 = i
    BY <1>3, <1>12
  <2> QED
    BY <1>3, <2>1
<1>13. m \in DOMAIN w
  BY <1>3, <1>4
<1> HIDE DEF m
<1>14. \E x \in DOMAIN w :
         /\ RemoveAt(w, x) = rs
         /\ \A i \in DOMAIN w : i < x => w[i].priority >= w[x].priority
         /\ \A i \in DOMAIN w : i > x => w[i].priority < w[x].priority
  BY <1>10, <1>11, <1>12, <1>13
<1> QED
  BY <1>14 DEF w, rs

\* What is configured outlives traffic: every change of the rules is one rule
\* put behind those as urgent (add_rule), and no call raises the trust of a
\* server (score_server_trust), for any rules, calls and capabilities.
THEOREM ScanConfigurationIsKept == ScanSpec => ConfigurationIsKept
<1>1. RulesInv /\ ShadowInv /\ [ScanNext]_apiVars => RulesInv' /\ ShadowInv'
  <2> SUFFICES ASSUME RulesInv, ShadowInv, [ScanNext]_apiVars
               PROVE  RulesInv' /\ ShadowInv'
    OBVIOUS
  <2>1. UNCHANGED deployment /\ RulesMove
    BY StepMoves, StepCalls
  <2>2. RulesInv'
    BY <2>1, RulesStep DEF RulesMove
  <2> QED
    BY <2>2, ShadowStep
<1>2. ScanInit => RulesInv /\ ShadowInv
  BY FitStarts, ShadowStarts
<1>3. RulesInv /\ ShadowInv /\ [ScanNext]_apiVars =>
         [\E m \in DOMAIN rules' :
            /\ RemoveAt(rules', m) = rules
            /\ \A k \in DOMAIN rules' : k < m => rules'[k].priority >= rules'[m].priority
            /\ \A k \in DOMAIN rules' : k > m => rules'[k].priority < rules'[m].priority]_rules
  BY StepCalls, InsertedRemoved DEF RulesMove
<1>4. RulesInv /\ ShadowInv /\ [ScanNext]_apiVars =>
         [\A s \in DOMAIN detectors.calls :
            Trust(detectors', s) > Trust(detectors, s)
            => Registered(detectors', s) /\ detectors'.calls[s] = 0]_detectors
  <2> SUFFICES ASSUME ShadowInv, [ScanNext]_apiVars, ~UNCHANGED detectors,
                      NEW s \in DOMAIN detectors.calls,
                      Trust(detectors', s) > Trust(detectors, s)
               PROVE  Registered(detectors', s) /\ detectors'.calls[s] = 0
    OBVIOUS
  <2> QED
    BY ShadowStep
<1>5. ScanSpec => [](RulesInv /\ ShadowInv)
  BY <1>1, <1>2, PTL DEF ScanSpec
<1> QED
  BY <1>3, <1>4, <1>5, PTL
     DEF ScanSpec, ConfigurationIsKept, RulesKeepTheirOrder, TrafficEarnsNoTrust

-----------------------------------------------------------------------------
(* Counting the entries of the logs. *)

Judgements(log) == {i \in DOMAIN log : log[i].by # "output"}
Stoppings(log) == {i \in DOMAIN log : log[i].by # "output" /\ log[i].action \in {"block", "quarantine"}}
Untallied(log) == {i \in DOMAIN log : log[i].action \in {"quarantine", "redact"}}
StoppedAt(log, l) == {i \in DOMAIN log : log[i].layer = l}
LetThrough(log) == {i \in DOMAIN log : log[i].allowed}
Reaching(log) == {i \in DOMAIN log : log[i].layer \in {0, 5} /\ HasDest(log[i].call)}
Rated(log, severity) == {i \in DOMAIN log : Severity(log[i].risk) = severity}
Denied(log) == {i \in DOMAIN log : ~log[i].allowed}
BlockedIn(log) == {i \in DOMAIN log : log[i].blocked}
Silent(log) == {i \in DOMAIN log : ~log[i].called}

\* The new entry counts or not, and the others count as they did.
OneMore(old, new, x) == Cardinality(old) \in Nat /\ Cardinality(new) = Cardinality(old) + (IF x THEN 1 ELSE 0)

LEMMA CountsGrow ==
  ASSUME NEW s, LogOf(s), NEW x, NEW t, t = Append(s, x),
         NEW old, NEW new, NEW counts \in BOOLEAN,
         \A i : i \in old => i \in DOMAIN s,
         \A i : i \in new => i \in DOMAIN t,
         \A i \in DOMAIN s : i \in new <=> i \in old,
         Len(t) \in new <=> counts
  PROVE  OneMore(old, new, counts)
<1> DEFINE n == Len(s)
<1>1. n \in Nat /\ Len(t) = n + 1 /\ DOMAIN s = 1..n /\ DOMAIN t = 1..(n + 1)
  BY LongerLog
<1> HIDE DEF n
<1>2. old \in SUBSET (1..n)
  BY <1>1
<1>3. \A i : i \in new <=> i \in old \/ (i = n + 1 /\ n + 1 \in new)
  <2> SUFFICES ASSUME NEW i
               PROVE  i \in new <=> i \in old \/ (i = n + 1 /\ n + 1 \in new)
    OBVIOUS
  <2>1. CASE i \in 1..n
    BY <1>1, <2>1
  <2>2. CASE i = n + 1
    BY <1>1, <2>2
  <2>3. CASE i \notin 1..(n + 1)
    BY <1>1, <2>3
  <2> QED
    BY <1>1, <2>1, <2>2, <2>3
<1>4. /\ Cardinality(old) \in Nat
      /\ Cardinality(new) = IF n + 1 \in new THEN Cardinality(old) + 1 ELSE Cardinality(old)
  BY <1>1, <1>2, <1>3, OneEntryMore
<1> QED
  BY <1>1, <1>4 DEF OneMore

LEMMA OldEntries ==
  ASSUME NEW s, LogOf(s), NEW x, NEW t, t = Append(s, x)
  PROVE  /\ \A i \in DOMAIN s : t[i] = s[i] /\ i \in DOMAIN t
         /\ t[Len(t)] = x /\ Len(t) \in DOMAIN t
<1>1. /\ Len(s) \in Nat /\ Len(t) = Len(s) + 1
      /\ DOMAIN s = 1..Len(s) /\ DOMAIN t = 1..(Len(s) + 1)
      /\ t[Len(s) + 1] = x
  BY LongerLog
<1>2. \A i \in 1..Len(s) : t[i] = s[i]
  BY LongerLog
<1> QED
  BY <1>1, <1>2

LEMMA DecisionsGrow ==
  ASSUME NEW s, LogOf(s), NEW x, NEW t, t = Append(s, x)
  PROVE  /\ OneMore(Judgements(s), Judgements(t), x.by # "output")
         /\ OneMore(Stoppings(s), Stoppings(t), x.by # "output" /\ x.action \in {"block", "quarantine"})
         /\ OneMore(Untallied(s), Untallied(t), x.action \in {"quarantine", "redact"})
<1>1. /\ \A i \in DOMAIN s : t[i] = s[i] /\ i \in DOMAIN t
      /\ t[Len(t)] = x /\ Len(t) \in DOMAIN t
  BY OldEntries
<1>2. OneMore(Judgements(s), Judgements(t), x.by # "output")
  <2> DEFINE old == Judgements(s)
             new == Judgements(t)
             counts == x.by # "output"
  <2>1. /\ \A i : i \in old => i \in DOMAIN s
        /\ \A i : i \in new => i \in DOMAIN t
        /\ \A i \in DOMAIN s : i \in new <=> i \in old
        /\ Len(t) \in new <=> counts
    BY <1>1 DEF Judgements
  <2>2. counts \in BOOLEAN
    OBVIOUS
  <2> HIDE DEF old, new, counts
  <2>3. OneMore(old, new, counts)
    BY <2>1, <2>2, CountsGrow
  <2> QED
    BY <2>3 DEF old, new, counts
<1>3. OneMore(Stoppings(s), Stoppings(t), x.by # "output" /\ x.action \in {"block", "quarantine"})
  <2> DEFINE old == Stoppings(s)
             new == Stoppings(t)
             counts == x.by # "output" /\ x.action \in {"block", "quarantine"}
  <2>1. /\ \A i : i \in old => i \in DOMAIN s
        /\ \A i : i \in new => i \in DOMAIN t
        /\ \A i \in DOMAIN s : i \in new <=> i \in old
        /\ Len(t) \in new <=> counts
    BY <1>1 DEF Stoppings
  <2>2. counts \in BOOLEAN
    OBVIOUS
  <2> HIDE DEF old, new, counts
  <2>3. OneMore(old, new, counts)
    BY <2>1, <2>2, CountsGrow
  <2> QED
    BY <2>3 DEF old, new, counts
<1>4. OneMore(Untallied(s), Untallied(t), x.action \in {"quarantine", "redact"})
  <2> DEFINE old == Untallied(s)
             new == Untallied(t)
             counts == x.action \in {"quarantine", "redact"}
  <2>1. /\ \A i : i \in old => i \in DOMAIN s
        /\ \A i : i \in new => i \in DOMAIN t
        /\ \A i \in DOMAIN s : i \in new <=> i \in old
        /\ Len(t) \in new <=> counts
    BY <1>1 DEF Untallied
  <2>2. counts \in BOOLEAN
    OBVIOUS
  <2> HIDE DEF old, new, counts
  <2>3. OneMore(old, new, counts)
    BY <2>1, <2>2, CountsGrow
  <2> QED
    BY <2>3 DEF old, new, counts
<1> QED
  BY <1>2, <1>3, <1>4

LEMMA LayersGrow ==
  ASSUME NEW s, LogOf(s), NEW x, NEW t, t = Append(s, x)
  PROVE  \A l : OneMore(StoppedAt(s, l), StoppedAt(t, l), x.layer = l)
<1>1. /\ \A i \in DOMAIN s : t[i] = s[i] /\ i \in DOMAIN t
      /\ t[Len(t)] = x /\ Len(t) \in DOMAIN t
  BY OldEntries
<1>2. ASSUME NEW l
      PROVE  OneMore(StoppedAt(s, l), StoppedAt(t, l), x.layer = l)
  <2> DEFINE old == StoppedAt(s, l)
             new == StoppedAt(t, l)
             counts == x.layer = l
  <2>1. /\ \A i : i \in old => i \in DOMAIN s
        /\ \A i : i \in new => i \in DOMAIN t
        /\ \A i \in DOMAIN s : i \in new <=> i \in old
        /\ Len(t) \in new <=> counts
    BY <1>1 DEF StoppedAt
  <2>2. counts \in BOOLEAN
    OBVIOUS
  <2> HIDE DEF old, new, counts
  <2>3. OneMore(old, new, counts)
    BY <2>1, <2>2, CountsGrow
  <2> QED
    BY <2>3 DEF old, new, counts
<1> QED
  BY <1>2

LEMMA VerdictsGrow ==
  ASSUME NEW s, LogOf(s), NEW x, NEW t, t = Append(s, x)
  PROVE  /\ OneMore(Reaching(s), Reaching(t), x.layer \in {0, 5} /\ HasDest(x.call))
         /\ \A severity : OneMore(Rated(s, severity), Rated(t, severity), Severity(x.risk) = severity)
<1>1. /\ \A i \in DOMAIN s : t[i] = s[i] /\ i \in DOMAIN t
      /\ t[Len(t)] = x /\ Len(t) \in DOMAIN t
  BY OldEntries
<1>2. OneMore(Reaching(s), Reaching(t), x.layer \in {0, 5} /\ HasDest(x.call))
  <2> DEFINE old == Reaching(s)
             new == Reaching(t)
             counts == x.layer \in {0, 5} /\ HasDest(x.call)
  <2>1. /\ \A i : i \in old => i \in DOMAIN s
        /\ \A i : i \in new => i \in DOMAIN t
        /\ \A i \in DOMAIN s : i \in new <=> i \in old
        /\ Len(t) \in new <=> counts
    BY <1>1 DEF Reaching
  <2>2. counts \in BOOLEAN
    OBVIOUS
  <2> HIDE DEF old, new, counts
  <2>3. OneMore(old, new, counts)
    BY <2>1, <2>2, CountsGrow
  <2> QED
    BY <2>3 DEF old, new, counts
<1>3. ASSUME NEW severity
      PROVE  OneMore(Rated(s, severity), Rated(t, severity), Severity(x.risk) = severity)
  <2> DEFINE old == Rated(s, severity)
             new == Rated(t, severity)
             counts == Severity(x.risk) = severity
  <2>1. /\ \A i : i \in old => i \in DOMAIN s
        /\ \A i : i \in new => i \in DOMAIN t
        /\ \A i \in DOMAIN s : i \in new <=> i \in old
        /\ Len(t) \in new <=> counts
    BY <1>1 DEF Rated
  <2>2. counts \in BOOLEAN
    OBVIOUS
  <2> HIDE DEF old, new, counts
  <2>3. OneMore(old, new, counts)
    BY <2>1, <2>2, CountsGrow
  <2> QED
    BY <2>3 DEF old, new, counts
<1> QED
  BY <1>2, <1>3

LEMMA LetThroughGrow ==
  ASSUME NEW s, LogOf(s), NEW x, NEW t, t = Append(s, x), NEW so \in BOOLEAN, x.allowed <=> so
  PROVE  OneMore(LetThrough(s), LetThrough(t), so)
<1>1. /\ \A i \in DOMAIN s : t[i] = s[i] /\ i \in DOMAIN t
      /\ t[Len(t)] = x /\ Len(t) \in DOMAIN t
  BY OldEntries
<1> DEFINE old == LetThrough(s)
           new == LetThrough(t)
<1>2. /\ \A i : i \in old => i \in DOMAIN s
      /\ \A i : i \in new => i \in DOMAIN t
      /\ \A i \in DOMAIN s : i \in new <=> i \in old
      /\ Len(t) \in new <=> so
  BY <1>1 DEF LetThrough
<1> HIDE DEF old, new
<1> QED
  BY <1>2, CountsGrow DEF old, new

LEMMA DeniedGrow ==
  ASSUME NEW s, LogOf(s), NEW x, NEW t, t = Append(s, x)
  PROVE  OneMore(Denied(s), Denied(t), ~x.allowed)
<1>1. /\ \A i \in DOMAIN s : t[i] = s[i] /\ i \in DOMAIN t
      /\ t[Len(t)] = x /\ Len(t) \in DOMAIN t
  BY OldEntries
<1>2. OneMore(Denied(s), Denied(t), ~x.allowed)
  <2> DEFINE old == Denied(s)
             new == Denied(t)
             counts == ~x.allowed
  <2>1. /\ \A i : i \in old => i \in DOMAIN s
        /\ \A i : i \in new => i \in DOMAIN t
        /\ \A i \in DOMAIN s : i \in new <=> i \in old
        /\ Len(t) \in new <=> counts
    BY <1>1 DEF Denied
  <2>2. counts \in BOOLEAN
    OBVIOUS
  <2> HIDE DEF old, new, counts
  <2>3. OneMore(old, new, counts)
    BY <2>1, <2>2, CountsGrow
  <2> QED
    BY <2>3 DEF old, new, counts
<1> QED
  BY <1>2

LEMMA BlockedGrow ==
  ASSUME NEW s, LogOf(s), NEW x, NEW t, t = Append(s, x), NEW so \in BOOLEAN, x.blocked <=> so
  PROVE  OneMore(BlockedIn(s), BlockedIn(t), so)
<1>1. /\ \A i \in DOMAIN s : t[i] = s[i] /\ i \in DOMAIN t
      /\ t[Len(t)] = x /\ Len(t) \in DOMAIN t
  BY OldEntries
<1> DEFINE old == BlockedIn(s)
           new == BlockedIn(t)
<1>2. /\ \A i : i \in old => i \in DOMAIN s
      /\ \A i : i \in new => i \in DOMAIN t
      /\ \A i \in DOMAIN s : i \in new <=> i \in old
      /\ Len(t) \in new <=> so
  BY <1>1 DEF BlockedIn
<1> HIDE DEF old, new
<1> QED
  BY <1>2, CountsGrow DEF old, new

LEMMA SilentGrow ==
  ASSUME NEW s, LogOf(s), NEW x, NEW t, t = Append(s, x), NEW so \in BOOLEAN, x.called <=> ~so
  PROVE  OneMore(Silent(s), Silent(t), so)
<1>1. /\ \A i \in DOMAIN s : t[i] = s[i] /\ i \in DOMAIN t
      /\ t[Len(t)] = x /\ Len(t) \in DOMAIN t
  BY OldEntries
<1> DEFINE old == Silent(s)
           new == Silent(t)
<1>2. /\ \A i : i \in old => i \in DOMAIN s
      /\ \A i : i \in new => i \in DOMAIN t
      /\ \A i \in DOMAIN s : i \in new <=> i \in old
      /\ Len(t) \in new <=> so
  BY <1>1 DEF Silent
<1> HIDE DEF old, new
<1> QED
  BY <1>2, CountsGrow DEF old, new

-----------------------------------------------------------------------------
(* The logs tell one story. *)

Size(entries) == Cardinality(entries)

RecordTypes ==
  /\ raised \in [proxy : Nat, later : Nat]
  /\ tally \in [{"block", "allow"} -> Nat]

LogsInv ==
  /\ Size(Judgements(decisions)) + Size(StoppedAt(verdicts, 1)) = raised.later + Len(verdicts)
  /\ Size(Stoppings(decisions)) = Size(StoppedAt(verdicts, 2))
  /\ Len(egressLog) = Size(Reaching(verdicts))
  /\ Size(Denied(egressLog)) = Size(StoppedAt(verdicts, 5))
  /\ Len(decisions) = tally["block"] + tally["allow"] + Size(Untallied(decisions))

\* What a decision adds to the counts.
Plus(a, b, x) == a \in Nat /\ b = a + (IF x THEN 1 ELSE 0)

LEMMA RecordCounts ==
  ASSUME LogOf(decisions), RecordTypes, NEW d, d.action \in RuleAction, Record(d)
  PROVE  /\ Plus(Size(Judgements(decisions)), Size(Judgements(decisions')), d.by # "output")
         /\ Plus(Size(Stoppings(decisions)), Size(Stoppings(decisions')),
                 d.by # "output" /\ d.action \in {"block", "quarantine"})
         /\ Plus(Size(Untallied(decisions)), Size(Untallied(decisions')),
                 d.action \in {"quarantine", "redact"})
         /\ Len(decisions) \in Nat /\ Len(decisions') = Len(decisions) + 1
         /\ tally' \in [{"block", "allow"} -> Nat]
         /\ Plus(tally["block"], tally'["block"], d.action = "block")
         /\ Plus(tally["allow"], tally'["allow"], d.action = "allow")
<1> DEFINE s == decisions
           t == decisions'
<1>1. LogOf(s) /\ t = Append(s, d)
  BY DEF Record
<1>2. DOMAIN tally = {"block", "allow"} /\ tally["block"] \in Nat /\ tally["allow"] \in Nat
      /\ tally' = IF d.action \in DOMAIN tally THEN [tally EXCEPT ![d.action] = tally[d.action] + 1] ELSE tally
  BY DEF RecordTypes, Record
<1>3. /\ tally' \in [{"block", "allow"} -> Nat]
      /\ Plus(tally["block"], tally'["block"], d.action = "block")
      /\ Plus(tally["allow"], tally'["allow"], d.action = "allow")
  BY <1>2 DEF Plus, RecordTypes
<1> HIDE DEF s, t
<1>4. /\ OneMore(Judgements(s), Judgements(t), d.by # "output")
      /\ OneMore(Stoppings(s), Stoppings(t), d.by # "output" /\ d.action \in {"block", "quarantine"})
      /\ OneMore(Untallied(s), Untallied(t), d.action \in {"quarantine", "redact"})
  BY <1>1, DecisionsGrow, Zenon
<1>5. Len(s) \in Nat /\ Len(t) = Len(s) + 1
  BY <1>1, LongerLog
<1>6. /\ Plus(Size(Judgements(s)), Size(Judgements(t)), d.by # "output")
      /\ Plus(Size(Stoppings(s)), Size(Stoppings(t)),
              d.by # "output" /\ d.action \in {"block", "quarantine"})
      /\ Plus(Size(Untallied(s)), Size(Untallied(t)), d.action \in {"quarantine", "redact"})
  BY <1>4, Zenon DEF OneMore, Plus, Size
<1> QED
  BY <1>3, <1>5, <1>6 DEF s, t

LEMMA VerdictCounts ==
  ASSUME LogOf(verdicts), NEW c, NEW l \in 0..5, NEW risk, Verdict(c, l, risk)
  PROVE  /\ Len(verdicts) \in Nat /\ Len(verdicts') = Len(verdicts) + 1
         /\ \A k : Plus(Size(StoppedAt(verdicts, k)), Size(StoppedAt(verdicts', k)), l = k)
         /\ Plus(Size(LetThrough(verdicts)), Size(LetThrough(verdicts')), l = 0)
         /\ Plus(Size(Reaching(verdicts)), Size(Reaching(verdicts')), l \in {0, 5} /\ HasDest(c))
         /\ \A severity : Plus(Size(Rated(verdicts, severity)), Size(Rated(verdicts', severity)),
                               Severity(risk) = severity)
<1> DEFINE s == verdicts
           t == verdicts'
           v == [call |-> c, allowed |-> l = 0, layer |-> l, risk |-> risk]
<1>1. LogOf(s) /\ t = Append(s, v)
  BY DEF Verdict
<1>2. v.call = c /\ v.layer = l /\ v.risk = risk
  OBVIOUS
<1>3. v.allowed = (l = 0)
  BY Zenon
<1> HIDE DEF s, t, v
<1> DEFINE so == l = 0
<1>4. so \in BOOLEAN /\ (v.allowed <=> so)
  BY <1>3, Zenon
<1> HIDE DEF so
<1>5. \A k : OneMore(StoppedAt(s, k), StoppedAt(t, k), v.layer = k)
  BY <1>1, LayersGrow, Zenon
<1>6. /\ OneMore(Reaching(s), Reaching(t), v.layer \in {0, 5} /\ HasDest(v.call))
      /\ \A severity : OneMore(Rated(s, severity), Rated(t, severity), Severity(v.risk) = severity)
  BY <1>1, VerdictsGrow, Zenon
<1>9. Plus(Size(LetThrough(s)), Size(LetThrough(t)), l = 0)
  <2>1. OneMore(LetThrough(s), LetThrough(t), so)
    BY <1>1, <1>4, LetThroughGrow
  <2> QED
    BY <2>1, Zenon DEF OneMore, Plus, Size, so
<1>7. Len(s) \in Nat /\ Len(t) = Len(s) + 1
  BY <1>1, LongerLog
<1>8. /\ \A k : Plus(Size(StoppedAt(s, k)), Size(StoppedAt(t, k)), l = k)
      /\ Plus(Size(Reaching(s)), Size(Reaching(t)), l \in {0, 5} /\ HasDest(c))
      /\ \A severity : Plus(Size(Rated(s, severity)), Size(Rated(t, severity)),
                            Severity(risk) = severity)
  BY <1>2, <1>5, <1>6, Zenon DEF OneMore, Plus, Size
<1> QED
  BY <1>7, <1>8, <1>9 DEF s, t

LEMMA EgressCounts ==
  ASSUME LogOf(egressLog), NEW c, NEW l \in {0, 5},
         egressLog' = Append(egressLog, [call |-> c, allowed |-> l = 0])
  PROVE  /\ Len(egressLog) \in Nat /\ Len(egressLog') = Len(egressLog) + 1
         /\ Plus(Size(Denied(egressLog)), Size(Denied(egressLog')), l = 5)
<1> DEFINE s == egressLog
           t == egressLog'
           e == [call |-> c, allowed |-> l = 0]
<1>1. LogOf(s) /\ t = Append(s, e)
  OBVIOUS
<1>2. e.allowed = (l = 0)
  BY Zenon
<1> HIDE DEF s, t, e
<1>3. OneMore(Denied(s), Denied(t), ~e.allowed)
  BY <1>1, DeniedGrow, Zenon
<1>4. Len(s) \in Nat /\ Len(t) = Len(s) + 1
  BY <1>1, LongerLog
<1>5. ~e.allowed <=> l = 5
  <2>1. e.allowed <=> l = 0
    BY <1>2, Zenon
  <2>2. l = 0 <=> ~(l = 5)
    OBVIOUS
  <2> QED
    BY <2>1, <2>2, Zenon
<1>6. Plus(Size(Denied(s)), Size(Denied(t)), l = 5)
  <2>1. CASE l = 5
    BY <1>3, <1>5, <2>1 DEF OneMore, Plus, Size
  <2>2. CASE l # 5
    BY <1>3, <1>5, <2>2 DEF OneMore, Plus, Size
  <2> QED
    BY <2>1, <2>2
<1> QED
  BY <1>4, <1>6 DEF s, t

LEMMA Tallies ==
  ASSUME NEW n \in Nat, NEW m, m = n + 1, NEW x \in RuleAction,
         NEW b0, NEW b1, NEW a0, NEW a1, NEW u0, NEW u1,
         Plus(b0, b1, x = "block"), Plus(a0, a1, x = "allow"),
         Plus(u0, u1, x \in {"quarantine", "redact"}), n = b0 + a0 + u0
  PROVE  m = b1 + a1 + u1
<1>1. CASE x = "block"
  BY <1>1 DEF Plus
<1>2. CASE x = "allow"
  BY <1>2 DEF Plus
<1>3. CASE x \in {"quarantine", "redact"}
  BY <1>3 DEF Plus
<1> QED
  BY <1>1, <1>2, <1>3 DEF RuleAction

LEMMA LogsOfCall ==
  ASSUME FitInv, RecordTypes, LogsInv, NEW c, NEW d, Decided(c, d)
  PROVE  RecordTypes' /\ LogsInv'
<1>1. LogOf(decisions) /\ LogOf(verdicts) /\ LogOf(egressLog)
  BY DEF FitInv
<1>2. Record(d) /\ d.action \in RuleAction /\ d.by # "output" /\ Decides(d, c)
  BY DEF Decided, Decides
<1>3. /\ Plus(Size(Judgements(decisions)), Size(Judgements(decisions')), d.by # "output")
      /\ Plus(Size(Stoppings(decisions)), Size(Stoppings(decisions')),
              d.by # "output" /\ d.action \in {"block", "quarantine"})
      /\ Plus(Size(Untallied(decisions)), Size(Untallied(decisions')),
              d.action \in {"quarantine", "redact"})
      /\ Len(decisions) \in Nat /\ Len(decisions') = Len(decisions) + 1
      /\ tally' \in [{"block", "allow"} -> Nat]
      /\ Plus(tally["block"], tally'["block"], d.action = "block")
      /\ Plus(tally["allow"], tally'["allow"], d.action = "allow")
  BY <1>1, <1>2, RecordCounts
<1>4. Len(decisions') = tally'["block"] + tally'["allow"] + Size(Untallied(decisions'))
  <2>1. Len(decisions) = tally["block"] + tally["allow"] + Size(Untallied(decisions))
    BY DEF LogsInv
  <2> QED
    BY <1>2, <1>3, <2>1, Tallies
<1>5. /\ Size(Judgements(decisions')) = Size(Judgements(decisions)) + 1
      /\ Size(Stoppings(decisions'))
           = Size(Stoppings(decisions)) + (IF d.action \in Passing THEN 0 ELSE 1)
      /\ Size(Judgements(decisions)) \in Nat /\ Size(Stoppings(decisions)) \in Nat
  BY <1>2, <1>3 DEF Plus, RuleAction, Passing
<1>6. raised = [proxy |-> raised.proxy, later |-> raised.later]
      /\ raised.proxy \in Nat /\ raised.later \in Nat
  BY DEF RecordTypes
<1>7. CASE d.action \notin Passing /\ Verdict(c, 2, d.risk) /\ UNCHANGED <<egressLog, raised>>
  <2> DEFINE l == 2
  <2>1. l \in 0..5 /\ Verdict(c, l, d.risk) /\ l \notin {0, 1, 5} /\ l = 2
    BY <1>7
  <2> HIDE DEF l
  <2>2. /\ Len(verdicts) \in Nat /\ Len(verdicts') = Len(verdicts) + 1
        /\ \A k : Plus(Size(StoppedAt(verdicts, k)), Size(StoppedAt(verdicts', k)), l = k)
        /\ Plus(Size(Reaching(verdicts)), Size(Reaching(verdicts')), l \in {0, 5} /\ HasDest(c))
    BY <1>1, <2>1, VerdictCounts
  <2>3. /\ Plus(Size(StoppedAt(verdicts, 1)), Size(StoppedAt(verdicts', 1)), l = 1)
        /\ Plus(Size(StoppedAt(verdicts, 2)), Size(StoppedAt(verdicts', 2)), l = 2)
        /\ Plus(Size(StoppedAt(verdicts, 5)), Size(StoppedAt(verdicts', 5)), l = 5)
    BY <2>2
  <2>4. /\ Size(StoppedAt(verdicts', 1)) = Size(StoppedAt(verdicts, 1))
        /\ Size(StoppedAt(verdicts', 2)) = Size(StoppedAt(verdicts, 2)) + 1
        /\ Size(StoppedAt(verdicts', 5)) = Size(StoppedAt(verdicts, 5))
        /\ Size(Reaching(verdicts')) = Size(Reaching(verdicts))
        /\ Size(StoppedAt(verdicts, 1)) \in Nat
    BY <2>1, <2>2, <2>3 DEF Plus
  <2>5. Size(Judgements(decisions')) + Size(StoppedAt(verdicts', 1)) = raised.later + Len(verdicts')
    <3>1. Size(Judgements(decisions)) + Size(StoppedAt(verdicts, 1)) = raised.later + Len(verdicts)
      BY DEF LogsInv
    <3>2. Len(verdicts) \in Nat /\ Len(verdicts') = Len(verdicts) + 1
      BY <2>2
    <3>3. /\ Size(Judgements(decisions')) = Size(Judgements(decisions)) + 1
          /\ Size(Judgements(decisions)) \in Nat
      BY <1>5
    <3>4. /\ Size(StoppedAt(verdicts', 1)) = Size(StoppedAt(verdicts, 1))
          /\ Size(StoppedAt(verdicts, 1)) \in Nat
      BY <2>4
    <3> QED
      BY <1>6, <3>1, <3>2, <3>3, <3>4
  <2>6. Size(Stoppings(decisions')) = Size(StoppedAt(verdicts', 2))
    BY <1>5, <1>7, <2>4 DEF LogsInv
  <2>7. LogsInv'
    BY <1>4, <1>7, <2>4, <2>5, <2>6 DEF LogsInv
  <2> QED
    BY <1>3, <1>7, <2>7 DEF RecordTypes
<1>8. CASE d.action \in Passing /\ NoVerdict("later")
  <2>1. /\ raised' = [proxy |-> raised.proxy, later |-> raised.later + 1]
        /\ UNCHANGED <<verdicts, egressLog>>
    BY <1>6, <1>8 DEF NoVerdict
  <2>2. raised' \in [proxy : Nat, later : Nat] /\ raised'.later = raised.later + 1
    BY <1>6, <2>1
  <2>3. Size(StoppedAt(verdicts, 1)) \in Nat /\ Len(verdicts) \in Nat
    <3>1. Len(verdicts) \in Nat /\ DOMAIN verdicts = 1..Len(verdicts)
      BY <1>1 DEF LogOf
    <3>2. IsFiniteSet(1..Len(verdicts))
      BY <3>1, FS_Interval
    <3>3. StoppedAt(verdicts, 1) \in SUBSET (1..Len(verdicts))
      BY <3>1 DEF StoppedAt
    <3> QED
      BY <3>1, <3>2, <3>3, FS_Subset, FS_CardinalityType DEF Size
  <2>4. LogsInv'
    <3>1. LogsInv
      OBVIOUS
    <3>2. Size(Judgements(decisions')) + Size(StoppedAt(verdicts', 1))
            = raised'.later + Len(verdicts')
      <4>1. Size(Judgements(decisions)) + Size(StoppedAt(verdicts, 1))
              = raised.later + Len(verdicts)
        BY <3>1 DEF LogsInv
      <4>2. /\ Size(Judgements(decisions')) = Size(Judgements(decisions)) + 1
            /\ Size(Judgements(decisions)) \in Nat
        BY <1>5
      <4>3. raised'.later = raised.later + 1 /\ raised.later \in Nat
        BY <1>6, <2>2
      <4> QED
        BY <2>1, <2>3, <4>1, <4>2, <4>3
    <3>3. Size(Stoppings(decisions')) = Size(StoppedAt(verdicts', 2))
      BY <1>4, <1>5, <1>6, <1>8, <2>1, <3>1 DEF LogsInv
    <3>4. /\ Len(egressLog') = Size(Reaching(verdicts'))
          /\ Size(Denied(egressLog')) = Size(StoppedAt(verdicts', 5))
      BY <2>1, <3>1 DEF LogsInv
    <3>5. Len(decisions') = tally'["block"] + tally'["allow"] + Size(Untallied(decisions'))
      BY <1>4, <1>5, <3>1 DEF LogsInv
    <3> QED
      BY <3>2, <3>3, <3>4, <3>5 DEF LogsInv
  <2> QED
    BY <1>3, <2>2, <2>4 DEF RecordTypes
<1>9. ASSUME d.action \in Passing, NEW l \in {0, 3, 4, 5}, NEW risk \in 0..100, LaterVerdict(c, l, risk)
      PROVE  RecordTypes' /\ LogsInv'
  <2>1. /\ l \in 0..5 /\ Verdict(c, l, risk) /\ UNCHANGED raised
        /\ l = 5 => HasDest(c)
    BY <1>9 DEF LaterVerdict
  <2>2. /\ Len(verdicts) \in Nat /\ Len(verdicts') = Len(verdicts) + 1
        /\ \A k : Plus(Size(StoppedAt(verdicts, k)), Size(StoppedAt(verdicts', k)), l = k)
        /\ Plus(Size(Reaching(verdicts)), Size(Reaching(verdicts')), l \in {0, 5} /\ HasDest(c))
    BY <1>1, <2>1, VerdictCounts
  <2>3. /\ Plus(Size(StoppedAt(verdicts, 1)), Size(StoppedAt(verdicts', 1)), l = 1)
        /\ Plus(Size(StoppedAt(verdicts, 2)), Size(StoppedAt(verdicts', 2)), l = 2)
        /\ Plus(Size(StoppedAt(verdicts, 5)), Size(StoppedAt(verdicts', 5)), l = 5)
    BY <2>2
  <2>4. /\ Size(StoppedAt(verdicts', 1)) = Size(StoppedAt(verdicts, 1))
        /\ Size(StoppedAt(verdicts', 2)) = Size(StoppedAt(verdicts, 2))
        /\ Size(StoppedAt(verdicts', 5)) = Size(StoppedAt(verdicts, 5)) + (IF l = 5 THEN 1 ELSE 0)
        /\ Size(StoppedAt(verdicts, 1)) \in Nat
    BY <1>9, <2>3 DEF Plus
  <2>5. /\ Len(egressLog') = Size(Reaching(verdicts'))
        /\ Size(Denied(egressLog')) = Size(StoppedAt(verdicts', 5))
    <3>1. CASE HasDest(c) /\ l \in {0, 5}
      <4>1. egressLog' = Append(egressLog, [call |-> c, allowed |-> l = 0])
        BY <1>9, <3>1 DEF LaterVerdict
      <4>2. /\ Len(egressLog) \in Nat /\ Len(egressLog') = Len(egressLog) + 1
            /\ Plus(Size(Denied(egressLog)), Size(Denied(egressLog')), l = 5)
        BY <1>1, <3>1, <4>1, EgressCounts
      <4> QED
        BY <2>2, <2>4, <3>1, <4>2 DEF Plus, LogsInv
    <3>2. CASE ~(HasDest(c) /\ l \in {0, 5})
      <4>1. UNCHANGED egressLog /\ l # 5
        BY <1>9, <2>1, <3>2 DEF LaterVerdict
      <4> QED
        BY <2>2, <2>4, <3>2, <4>1 DEF Plus, LogsInv
    <3> QED
      BY <3>1, <3>2
  <2>6. LogsInv'
    BY <1>4, <1>5, <1>6, <1>9, <2>1, <2>2, <2>4, <2>5 DEF LogsInv
  <2> QED
    BY <1>3, <2>1, <2>6 DEF RecordTypes
<1> QED
  BY <1>7, <1>8, <1>9 DEF Decided

LEMMA LogsUndecided ==
  ASSUME FitInv, RecordTypes, LogsInv, NEW c, Undecided(c)
  PROVE  RecordTypes' /\ LogsInv'
<1>1. LogOf(verdicts) /\ UNCHANGED <<decisions, tally, egressLog>>
  BY DEF FitInv, Undecided, NoVerdict
<1>2. raised = [proxy |-> raised.proxy, later |-> raised.later]
      /\ raised.proxy \in Nat /\ raised.later \in Nat
  BY DEF RecordTypes
<1>3. CASE NoVerdict("proxy")
  <2>1. raised' = [proxy |-> raised.proxy + 1, later |-> raised.later] /\ UNCHANGED verdicts
    BY <1>2, <1>3 DEF NoVerdict
  <2>2. raised' \in [proxy : Nat, later : Nat] /\ raised'.later = raised.later
    BY <1>2, <2>1
  <2> QED
    BY <1>1, <2>1, <2>2 DEF LogsInv, RecordTypes
<1>4. CASE Verdict(c, 1, 95) /\ UNCHANGED raised
  <2> DEFINE l == 1
  <2>1. l \in 0..5 /\ Verdict(c, l, 95) /\ l \notin {0, 2, 5} /\ l = 1
    BY <1>4
  <2> HIDE DEF l
  <2>2. /\ Len(verdicts) \in Nat /\ Len(verdicts') = Len(verdicts) + 1
        /\ \A k : Plus(Size(StoppedAt(verdicts, k)), Size(StoppedAt(verdicts', k)), l = k)
        /\ Plus(Size(Reaching(verdicts)), Size(Reaching(verdicts')), l \in {0, 5} /\ HasDest(c))
    BY <1>1, <2>1, VerdictCounts
  <2>3. /\ Plus(Size(StoppedAt(verdicts, 1)), Size(StoppedAt(verdicts', 1)), l = 1)
        /\ Plus(Size(StoppedAt(verdicts, 2)), Size(StoppedAt(verdicts', 2)), l = 2)
        /\ Plus(Size(StoppedAt(verdicts, 5)), Size(StoppedAt(verdicts', 5)), l = 5)
    BY <2>2
  <2>4. /\ Size(StoppedAt(verdicts', 1)) = Size(StoppedAt(verdicts, 1)) + 1
        /\ Size(StoppedAt(verdicts', 2)) = Size(StoppedAt(verdicts, 2))
        /\ Size(StoppedAt(verdicts', 5)) = Size(StoppedAt(verdicts, 5))
        /\ Size(Reaching(verdicts')) = Size(Reaching(verdicts))
        /\ Size(StoppedAt(verdicts, 1)) \in Nat
    BY <2>1, <2>2, <2>3 DEF Plus
  <2>5. Size(Judgements(decisions)) + Size(StoppedAt(verdicts', 1)) = raised.later + Len(verdicts')
    <3>1. Size(Judgements(decisions)) + Size(StoppedAt(verdicts, 1)) = raised.later + Len(verdicts)
      BY DEF LogsInv
    <3>2. Size(Judgements(decisions)) \in Nat
      <4>1. LogOf(decisions)
        BY DEF FitInv
      <4>2. Len(decisions) \in Nat /\ DOMAIN decisions = 1..Len(decisions)
        BY <4>1 DEF LogOf
      <4>3. IsFiniteSet(1..Len(decisions))
        BY <4>2, FS_Interval
      <4>4. Judgements(decisions) \in SUBSET (1..Len(decisions))
        BY <4>2 DEF Judgements
      <4> QED
        BY <4>3, <4>4, FS_Subset, FS_CardinalityType DEF Size
    <3> QED
      BY <1>2, <2>2, <2>4, <3>1, <3>2
  <2>6. LogsInv'
    BY <1>1, <1>4, <2>4, <2>5 DEF LogsInv
  <2> QED
    BY <1>1, <1>4, <2>6 DEF RecordTypes
<1> QED
  BY <1>3, <1>4 DEF Undecided

LEMMA LogsStep ==
  ASSUME RulesInv, FitInv, RecordTypes, LogsInv, [ScanNext]_apiVars
  PROVE  RecordTypes' /\ LogsInv'
<1>1. CASE NothingDecided
  BY <1>1 DEF NothingDecided, RecordTypes, LogsInv
<1>2. ASSUME NEW c \in Call, EvaluateCall(c)
      PROVE  RecordTypes' /\ LogsInv'
  <2>1. Undecided(c) \/ \E d : Decided(c, d)
    BY <1>2, CallEnds
  <2> QED
    BY <2>1, LogsOfCall, LogsUndecided
<1>3. ASSUME NEW c \in Call, InterceptOutput(c)
      PROVE  RecordTypes' /\ LogsInv'
  <2>1. PICK d : /\ Record(d) /\ d.call = c /\ d.action \in RuleAction /\ d.by = "output"
                 /\ UNCHANGED <<egressLog, verdicts, raised>>
    BY <1>3, OutputIs
  <2>2. LogOf(decisions)
    BY DEF FitInv
  <2>3. /\ Plus(Size(Judgements(decisions)), Size(Judgements(decisions')), d.by # "output")
        /\ Plus(Size(Stoppings(decisions)), Size(Stoppings(decisions')),
                d.by # "output" /\ d.action \in {"block", "quarantine"})
        /\ Plus(Size(Untallied(decisions)), Size(Untallied(decisions')),
                d.action \in {"quarantine", "redact"})
        /\ Len(decisions) \in Nat /\ Len(decisions') = Len(decisions) + 1
        /\ tally' \in [{"block", "allow"} -> Nat]
        /\ Plus(tally["block"], tally'["block"], d.action = "block")
        /\ Plus(tally["allow"], tally'["allow"], d.action = "allow")
    BY <2>1, <2>2, RecordCounts
  <2>4. Len(decisions) = tally["block"] + tally["allow"] + Size(Untallied(decisions))
    BY DEF LogsInv
  <2>5. Len(decisions') = tally'["block"] + tally'["allow"] + Size(Untallied(decisions'))
    BY <2>1, <2>3, <2>4, Tallies
  <2>6. /\ Size(Judgements(decisions')) = Size(Judgements(decisions))
        /\ Size(Stoppings(decisions')) = Size(Stoppings(decisions))
    BY <2>1, <2>3 DEF Plus
  <2> QED
    BY <2>1, <2>3, <2>5, <2>6 DEF LogsInv, RecordTypes
<1> QED
  BY <1>1, <1>2, <1>3, StepCalls DEF CallOrOutput

-----------------------------------------------------------------------------
(* The dashboards' statistics. *)

\* The newest entries of a log, newest first.
NewestOf(recent, log) ==
  /\ LogOf(recent) /\ Len(recent) = Min({RecentCap, Len(log)})
  /\ \A i \in 1..Len(recent) : recent[i] = log[Len(log) + 1 - i]

LEMMA NewestMeans ==
  ASSUME NEW log, LogOf(log), NEW recent, NewestOf(recent, log)
  PROVE  recent = SubSeq(Reverse(log), 1, Min({RecentCap, Len(log)}))
<1> DEFINE n == Len(log)
           m == Min({RecentCap, n})
           back == Reverse(log)
           front == SubSeq(back, 1, m)
<1>1. PICK S : log \in Seq(S)
  BY DEF LogOf
<1>2. PICK T : recent \in Seq(T)
  BY DEF NewestOf, LogOf
<1>3. n \in Nat /\ RecentCap \in Nat
  BY <1>1, ServiceAssumption
<1>4. n \in Int /\ RecentCap \in Int
  BY <1>3
<1>5. m = IF RecentCap <= n THEN RecentCap ELSE n
  <2> HIDE DEF n
  <2> QED
    BY <1>4, OfTwo, Zenon
<1>6. Len(recent) = m /\ \A i \in 1..m : recent[i] = log[n + 1 - i]
  BY DEF NewestOf
<1>7. back = [i \in 1..n |-> log[n - i + 1]]
  BY DEF Reverse
<1> HIDE DEF n, m, back
<1>8. \A i \in 1..n : n - i + 1 \in 1..n /\ n - i + 1 = n + 1 - i
  BY <1>3
<1>9. back \in Seq(S) /\ Len(back) = n /\ \A i \in 1..n : back[i] = log[n + 1 - i]
  <2>1. \A i \in 1..n : log[n - i + 1] \in S
    BY <1>1, <1>8 DEF n
  <2>2. back \in [1..n -> S]
    BY <1>7, <2>1
  <2> QED
    BY <1>3, <1>7, <1>8, <2>2
<1>10. m \in 0..n
  BY <1>3, <1>5
<1>11. front \in Seq(S) /\ Len(front) = m /\ \A i \in 1..m : front[i] = back[i]
  BY <1>3, <1>9, <1>10
<1> HIDE DEF front
<1>12. \A i \in 1..m : front[i] = recent[i]
  BY <1>3, <1>6, <1>9, <1>10, <1>11
<1>13. recent = front
  <2>1. recent = [i \in 1..m |-> recent[i]]
    BY <1>2, <1>6
  <2>2. front = [i \in 1..m |-> front[i]]
    BY <1>11
  <2> QED
    BY <1>12, <2>1, <2>2
<1> QED
  BY <1>13 DEF front, back, m, n

LEMMA NewestGrow ==
  ASSUME NEW log, LogOf(log), NEW recent, NewestOf(recent, log), NEW v,
         NEW longer, longer = Append(log, v),
         NEW next, next = SubSeq(<<v>> \o recent, 1, Min({RecentCap, Len(recent) + 1}))
  PROVE  NewestOf(next, longer)
<1> DEFINE n == Len(log)
           k == Len(recent)
           q == Min({RecentCap, k + 1})
           w == <<v>> \o recent
<1>1. n \in Nat /\ Len(longer) = n + 1 /\ longer[n + 1] = v
  BY LongerLog
<1>2. \A i \in 1..n : longer[i] = log[i]
  BY LongerLog
<1>3. PICK S : recent \in Seq(S)
  BY DEF NewestOf, LogOf
<1>4. PICK T : T = S \union {v}
  OBVIOUS
<1>5. recent \in Seq(T) /\ v \in T
  <2>1. recent \in [1..Len(recent) -> S] /\ Len(recent) \in Nat
    BY <1>3
  <2>2. recent \in [1..Len(recent) -> T]
    BY <1>4, <2>1
  <2> QED
    BY <1>4, <2>1, <2>2
<1>6. /\ k = Min({RecentCap, n})
      /\ \A i \in 1..k : recent[i] = log[n + 1 - i]
  BY DEF NewestOf
<1>7. k \in Nat
  BY <1>5
<1>8. /\ w \in Seq(T) /\ Len(w) = k + 1
      /\ w[1] = v /\ \A i \in 2..(k + 1) : w[i] = recent[i - 1]
  BY <1>5
<1>9. next = SubSeq(w, 1, q)
  OBVIOUS
<1> HIDE DEF n, k, w
<1>10. n \in Int /\ k + 1 \in Int /\ RecentCap \in Int /\ RecentCap \in Nat /\ n + 1 \in Int
  BY <1>1, <1>7, ServiceAssumption
<1>11. k = IF RecentCap <= n THEN RecentCap ELSE n
  BY <1>6, <1>10, OfTwo, Zenon
<1>12. q = IF RecentCap <= k + 1 THEN RecentCap ELSE k + 1
  BY <1>10, OfTwo, Zenon
<1>13. Min({RecentCap, n + 1}) = IF RecentCap <= n + 1 THEN RecentCap ELSE n + 1
  BY <1>10, OfTwo, Zenon
<1> HIDE DEF q
<1>14. q = Min({RecentCap, n + 1}) /\ q \in 0..(k + 1) /\ k <= n
  BY <1>1, <1>7, <1>10, <1>11, <1>12, <1>13
<1>15. next \in Seq(T) /\ Len(next) = q /\ \A i \in 1..q : next[i] = w[i]
  <2>1. q \in Nat /\ q <= Len(w) /\ w \in Seq(T)
    BY <1>7, <1>8, <1>14
  <2>2. /\ SubSeq(w, 1, q) \in Seq(T) /\ Len(SubSeq(w, 1, q)) = q
        /\ \A i \in 1..q : SubSeq(w, 1, q)[i] = w[i]
    BY <2>1
  <2> QED
    BY <1>9, <2>2
<1>16. ASSUME NEW i \in 1..q
       PROVE  next[i] = longer[n + 2 - i]
  <2>1. CASE i = 1
    <3>1. n + 2 - i = n + 1
      BY <1>1, <2>1
    <3> QED
      BY <1>1, <1>8, <1>15, <2>1, <3>1
  <2>2. CASE i # 1
    <3>1. i \in 2..(k + 1) /\ i - 1 \in 1..k
      BY <1>7, <1>14, <2>2
    <3>2. next[i] = recent[i - 1]
      BY <1>8, <1>15, <3>1
    <3>3. recent[i - 1] = log[n + 1 - (i - 1)]
      BY <1>6, <3>1
    <3>4. n + 1 - (i - 1) = n + 2 - i /\ n + 2 - i \in 1..n
      BY <1>1, <1>7, <1>14, <3>1
    <3> QED
      BY <1>2, <3>2, <3>3, <3>4
  <2> QED
    BY <2>1, <2>2
<1>17. \A i \in 1..q : n + 2 - i = Len(longer) + 1 - i
  BY <1>1, <1>14
<1>18. LogOf(next)
  BY <1>15 DEF LogOf
<1>19. Len(next) = Min({RecentCap, Len(longer)})
  BY <1>1, <1>14, <1>15
<1>20. \A i \in 1..Len(next) : next[i] = longer[Len(longer) + 1 - i]
  BY <1>15, <1>16, <1>17
<1> QED
  BY <1>18, <1>19, <1>20 DEF NewestOf

Grade == {"CRITICAL", "HIGH", "MEDIUM", "LOW"}

StatsTypes ==
  /\ stats = [total |-> stats.total, blocked |-> stats.blocked, allowed |-> stats.allowed,
              byLayer |-> stats.byLayer, bySeverity |-> stats.bySeverity,
              recent |-> stats.recent, window |-> stats.window]
  /\ stats.total \in Nat /\ stats.blocked \in Nat /\ stats.allowed \in Nat
  /\ stats.byLayer \in [1..5 -> Nat]
  /\ stats.bySeverity \in [Grade -> Nat]

StatsCount ==
  /\ stats.total = Len(verdicts)
  /\ stats.total = stats.allowed + stats.blocked
  /\ stats.blocked = stats.byLayer[1] + stats.byLayer[2] + stats.byLayer[3]
                     + stats.byLayer[4] + stats.byLayer[5]
  /\ \A s \in Grade : stats.bySeverity[s] = Size(Rated(verdicts, s))
  /\ NewestOf(stats.recent, verdicts)

StatsInv == deployment.served => StatsTypes /\ StatsCount

LEMMA CallVerdict ==
  ASSUME RulesInv, NEW c \in Call, EvaluateCall(c)
  PROVE  UNCHANGED verdicts \/ \E l \in 0..5, risk \in 0..100 : Verdict(c, l, risk)
<1>1. CASE Undecided(c)
  <2>1. 1 \in 0..5 /\ 95 \in 0..100
    OBVIOUS
  <2> QED
    BY <1>1, <2>1 DEF Undecided, NoVerdict
<1>2. ASSUME NEW d, Decided(c, d)
      PROVE  UNCHANGED verdicts \/ \E l \in 0..5, risk \in 0..100 : Verdict(c, l, risk)
  <2>1. 2 \in 0..5 /\ d.risk \in 0..100 /\ {0, 3, 4, 5} \subseteq 0..5
    BY <1>2 DEF Decided, Decides
  <2> QED
    BY <1>2, <2>1 DEF Decided, NoVerdict, LaterVerdict
<1> QED
  BY <1>1, <1>2, CallEnds

LEMMA Newest ==
  ASSUME LogOf(verdicts), NEW c, NEW l, NEW risk, Verdict(c, l, risk)
  PROVE  /\ verdicts' # verdicts
         /\ Last(verdicts') = [call |-> c, allowed |-> l = 0, layer |-> l, risk |-> risk]
         /\ verdicts' = Append(verdicts, [call |-> c, allowed |-> l = 0, layer |-> l, risk |-> risk])
<1> DEFINE s == verdicts
           t == verdicts'
           v == [call |-> c, allowed |-> l = 0, layer |-> l, risk |-> risk]
<1>1. LogOf(s) /\ t = Append(s, v)
  BY DEF Verdict
<1> HIDE DEF s, t, v
<1>2. Len(s) \in Nat /\ Len(t) = Len(s) + 1 /\ t[Len(s) + 1] = v
  BY <1>1, LongerLog
<1>3. t # s /\ t[Len(t)] = v
  BY <1>2
<1> QED
  BY <1>1, <1>3 DEF Last, s, t, v

LEMMA EventRecorded ==
  ASSUME StatsTypes, NEW v, RecordEvent(v), v.layer \in 0..5
  PROVE  /\ StatsTypes'
         /\ stats'.total = stats.total + 1
         /\ stats'.blocked = IF v.allowed THEN stats.blocked ELSE stats.blocked + 1
         /\ stats'.allowed = IF v.allowed THEN stats.allowed + 1 ELSE stats.allowed
         /\ \A l \in 1..5 : Plus(stats.byLayer[l], stats'.byLayer[l], v.layer = l)
         /\ \A s \in Grade : Plus(stats.bySeverity[s], stats'.bySeverity[s], Severity(v.risk) = s)
         /\ stats'.recent = SubSeq(<<v>> \o stats.recent, 1, Min({RecentCap, Len(stats.recent) + 1}))
<1> DEFINE g == Severity(v.risk)
           byLayer == [l \in DOMAIN stats.byLayer |-> IF l = v.layer THEN stats.byLayer[l] + 1
                                                                      ELSE stats.byLayer[l]]
           bySeverity == [stats.bySeverity EXCEPT ![g] = stats.bySeverity[g] + 1]
           blocked == IF v.allowed THEN stats.blocked ELSE stats.blocked + 1
           allowed == IF v.allowed THEN stats.allowed + 1 ELSE stats.allowed
           recent == SubSeq(<<v>> \o stats.recent, 1, Min({RecentCap, Len(stats.recent) + 1}))
           window == StillCounted(Append(stats.window, now))
<1>1. stats' = [total |-> stats.total + 1, blocked |-> blocked, allowed |-> allowed,
                byLayer |-> byLayer, bySeverity |-> bySeverity,
                recent |-> recent, window |-> window]
  <2>1. stats' = [stats EXCEPT !.total = stats.total + 1, !.blocked = blocked,
                  !.allowed = allowed, !.byLayer = byLayer, !.bySeverity = bySeverity,
                  !.window = window, !.recent = recent]
    BY DEF RecordEvent
  <2>2. stats = [total |-> stats.total, blocked |-> stats.blocked, allowed |-> stats.allowed,
                 byLayer |-> stats.byLayer, bySeverity |-> stats.bySeverity,
                 recent |-> stats.recent, window |-> stats.window]
    BY DEF StatsTypes
  <2> HIDE DEF recent, window, g, byLayer, bySeverity, blocked, allowed
  <2> QED
    BY <2>1, <2>2
<1>2. g \in Grade
  BY DEF Severity, Grade
<1>3. /\ stats.byLayer \in [1..5 -> Nat] /\ stats.bySeverity \in [Grade -> Nat]
      /\ stats.total \in Nat /\ stats.blocked \in Nat /\ stats.allowed \in Nat
  BY DEF StatsTypes
<1> HIDE DEF recent, window, g
<1>4. byLayer \in [1..5 -> Nat] /\ \A l \in 1..5 : Plus(stats.byLayer[l], byLayer[l], v.layer = l)
  BY <1>3 DEF Plus
<1>5. /\ bySeverity \in [Grade -> Nat]
      /\ \A s \in Grade : Plus(stats.bySeverity[s], bySeverity[s], g = s)
  BY <1>2, <1>3 DEF Plus
<1>6. blocked \in Nat /\ allowed \in Nat /\ stats.total + 1 \in Nat
  BY <1>3
<1> HIDE DEF byLayer, bySeverity, blocked, allowed
<1>7. /\ stats'.total = stats.total + 1 /\ stats'.blocked = blocked /\ stats'.allowed = allowed
      /\ stats'.byLayer = byLayer /\ stats'.bySeverity = bySeverity
      /\ stats'.recent = recent /\ stats'.window = window
  BY <1>1
<1>8. stats' = [total |-> stats'.total, blocked |-> stats'.blocked, allowed |-> stats'.allowed,
                byLayer |-> stats'.byLayer, bySeverity |-> stats'.bySeverity,
                recent |-> stats'.recent, window |-> stats'.window]
  BY <1>1, <1>7
<1>9. StatsTypes'
  BY <1>4, <1>5, <1>6, <1>7, <1>8 DEF StatsTypes
<1> QED
  BY <1>4, <1>5, <1>7, <1>9 DEF blocked, allowed, recent, g

LEMMA LayersSum ==
  ASSUME NEW f \in [1..5 -> Nat], NEW g \in [1..5 -> Nat], NEW k \in 0..5,
         \A l \in 1..5 : Plus(f[l], g[l], k = l)
  PROVE  g[1] + g[2] + g[3] + g[4] + g[5]
           = f[1] + f[2] + f[3] + f[4] + f[5] + (IF k = 0 THEN 0 ELSE 1)
<1>1. /\ Plus(f[1], g[1], k = 1) /\ Plus(f[2], g[2], k = 2) /\ Plus(f[3], g[3], k = 3)
      /\ Plus(f[4], g[4], k = 4) /\ Plus(f[5], g[5], k = 5)
  OBVIOUS
<1>2. f[1] \in Nat /\ f[2] \in Nat /\ f[3] \in Nat /\ f[4] \in Nat /\ f[5] \in Nat
  OBVIOUS
<1> QED
  BY <1>1, <1>2 DEF Plus

LEMMA StatsOfVerdict ==
  ASSUME LogOf(verdicts), StatsTypes, StatsCount, NEW c, NEW l \in 0..5, NEW risk \in 0..100,
         Verdict(c, l, risk), RecordEvent(Last(verdicts'))
  PROVE  StatsTypes' /\ StatsCount'
<1> DEFINE v == [call |-> c, allowed |-> l = 0, layer |-> l, risk |-> risk]
<1>1. v.layer = l /\ v.risk = risk
  OBVIOUS
<1>2. v.allowed <=> l = 0
  BY Zenon
<1>3. RecordEvent(v) /\ verdicts' = Append(verdicts, v)
  BY Newest
<1> HIDE DEF v
<1>4. /\ StatsTypes'
      /\ stats'.total = stats.total + 1
      /\ stats'.blocked = IF v.allowed THEN stats.blocked ELSE stats.blocked + 1
      /\ stats'.allowed = IF v.allowed THEN stats.allowed + 1 ELSE stats.allowed
      /\ \A k \in 1..5 : Plus(stats.byLayer[k], stats'.byLayer[k], v.layer = k)
      /\ \A s \in Grade : Plus(stats.bySeverity[s], stats'.bySeverity[s], Severity(v.risk) = s)
      /\ stats'.recent = SubSeq(<<v>> \o stats.recent, 1, Min({RecentCap, Len(stats.recent) + 1}))
  BY <1>1, <1>3, EventRecorded
<1>5. /\ Len(verdicts) \in Nat /\ Len(verdicts') = Len(verdicts) + 1
      /\ \A s : Plus(Size(Rated(verdicts, s)), Size(Rated(verdicts', s)), Severity(risk) = s)
  BY VerdictCounts
<1>6. stats'.total = Len(verdicts')
  BY <1>4, <1>5 DEF StatsCount
<1>7. stats'.total = stats'.allowed + stats'.blocked
  <2>1. stats.total \in Nat /\ stats.blocked \in Nat /\ stats.allowed \in Nat
    BY DEF StatsTypes
  <2>2. stats.total = stats.allowed + stats.blocked
    BY DEF StatsCount
  <2>3. CASE v.allowed
    <3>1. stats'.blocked = stats.blocked /\ stats'.allowed = stats.allowed + 1
      BY <1>4, <2>3, Zenon
    <3>2. stats'.total = stats.total + 1
      BY <1>4
    <3> QED
      BY <2>1, <2>2, <3>1, <3>2
  <2>4. CASE ~v.allowed
    <3>1. stats'.blocked = stats.blocked + 1 /\ stats'.allowed = stats.allowed
      BY <1>4, <2>4, Zenon
    <3>2. stats'.total = stats.total + 1
      BY <1>4
    <3> QED
      BY <2>1, <2>2, <3>1, <3>2
  <2> QED
    BY <2>3, <2>4
<1>8. stats'.blocked = stats'.byLayer[1] + stats'.byLayer[2] + stats'.byLayer[3]
                       + stats'.byLayer[4] + stats'.byLayer[5]
  <2> DEFINE f == stats.byLayer
             g == stats'.byLayer
  <2>1. f \in [1..5 -> Nat] /\ g \in [1..5 -> Nat] /\ stats.blocked \in Nat
    BY <1>4 DEF StatsTypes
  <2>2. \A k \in 1..5 : Plus(f[k], g[k], l = k)
    BY <1>1, <1>4
  <2>3. stats.blocked = f[1] + f[2] + f[3] + f[4] + f[5]
    BY DEF StatsCount
  <2>4. stats'.blocked = stats.blocked + (IF l = 0 THEN 0 ELSE 1)
    <3>1. stats'.blocked = IF l = 0 THEN stats.blocked ELSE stats.blocked + 1
      BY <1>2, <1>4, Zenon
    <3> QED
      BY <2>1, <3>1
  <2> HIDE DEF f, g
  <2>5. g[1] + g[2] + g[3] + g[4] + g[5]
          = f[1] + f[2] + f[3] + f[4] + f[5] + (IF l = 0 THEN 0 ELSE 1)
    BY <2>1, <2>2, LayersSum
  <2>6. stats'.blocked = g[1] + g[2] + g[3] + g[4] + g[5]
    BY <2>3, <2>4, <2>5
  <2> QED
    BY <2>6 DEF g
<1>9. \A s \in Grade : stats'.bySeverity[s] = Size(Rated(verdicts', s))
  <2> SUFFICES ASSUME NEW s \in Grade
               PROVE  stats'.bySeverity[s] = Size(Rated(verdicts', s))
    OBVIOUS
  <2>1. Plus(stats.bySeverity[s], stats'.bySeverity[s], Severity(risk) = s)
    BY <1>1, <1>4
  <2>2. Plus(Size(Rated(verdicts, s)), Size(Rated(verdicts', s)), Severity(risk) = s)
    BY <1>5
  <2>3. stats.bySeverity[s] = Size(Rated(verdicts, s))
    BY DEF StatsCount
  <2> QED
    BY <2>1, <2>2, <2>3 DEF Plus
<1>10. NewestOf(stats'.recent, verdicts')
  <2> DEFINE log == verdicts
             longer == verdicts'
             recent == stats.recent
             next == stats'.recent
  <2>1. LogOf(log) /\ NewestOf(recent, log) /\ longer = Append(log, v)
    BY <1>3 DEF StatsCount
  <2>2. next = SubSeq(<<v>> \o recent, 1, Min({RecentCap, Len(recent) + 1}))
    BY <1>4
  <2> HIDE DEF log, longer, recent, next
  <2>3. NewestOf(next, longer)
    BY <2>1, <2>2, NewestGrow
  <2> QED
    BY <2>3 DEF next, longer
<1>11. StatsCount'
  BY <1>6, <1>7, <1>8, <1>9, <1>10 DEF StatsCount
<1> QED
  BY <1>4, <1>11

LEMMA StatsStep ==
  ASSUME RulesInv, FitInv, StatsInv, [ScanNext]_apiVars
  PROVE  StatsInv'
<1>1. UNCHANGED deployment
  BY StepMoves
<1> SUFFICES ASSUME deployment.served, StatsTypes, StatsCount
             PROVE  StatsTypes' /\ StatsCount'
  BY <1>1 DEF StatsInv
<1>2. UNCHANGED <<stats, verdicts>> => StatsTypes' /\ StatsCount'
  BY DEF StatsTypes, StatsCount
<1>3. CASE NothingDecided
  BY <1>2, <1>3 DEF NothingDecided
<1>4. ASSUME NEW c \in Call, EvaluateCall(c), Tallied
      PROVE  StatsTypes' /\ StatsCount'
  <2>1. IF verdicts' = verdicts THEN UNCHANGED stats ELSE RecordEvent(Last(verdicts'))
    BY <1>4 DEF Tallied
  <2>2. CASE UNCHANGED verdicts
    BY <1>2, <2>1, <2>2
  <2>3. ASSUME NEW l \in 0..5, NEW risk \in 0..100, Verdict(c, l, risk)
        PROVE  StatsTypes' /\ StatsCount'
    <3>1. LogOf(verdicts)
      BY DEF FitInv
    <3>2. verdicts' # verdicts
      BY <2>3, <3>1, Newest
    <3>3. RecordEvent(Last(verdicts'))
      BY <2>1, <3>2
    <3> QED
      BY <2>3, <3>1, <3>3, StatsOfVerdict
  <2> QED
    BY <1>4, <2>2, <2>3, CallVerdict
<1>5. ASSUME NEW c \in Call, InterceptOutput(c), UNCHANGED <<stats, attack, results>>
      PROVE  StatsTypes' /\ StatsCount'
  BY <1>2, <1>5, OutputIs
<1> QED
  BY <1>3, <1>4, <1>5, StepCalls DEF CallOrOutput

-----------------------------------------------------------------------------
(* The simulator's report. *)

\* The simulator counts a call as the defense does, but one that was let
\* through while the kernel monitor raised an alert: as blocked, by layer 3.  An
\* attack that runs counts beside the results, and one without a call has a
\* result and no verdict.
One(x) == IF x THEN 1 ELSE 0

AttackSound ==
  /\ attack.running \in BOOLEAN /\ attack.called \in BOOLEAN /\ attack.layer \in 0..5
  /\ attack.blocked <=> attack.layer # 0
  /\ ~attack.running => ~attack.called /\ attack.layer = 0

ReportCount ==
  /\ LogOf(results)
  /\ AttackSound
  /\ Len(results) + One(attack.called) = Len(verdicts) + Size(Silent(results))
  /\ \A l \in {1, 2, 4, 5} :
       Size(StoppedAt(results, l)) + One(attack.layer = l) = Size(StoppedAt(verdicts, l))
  /\ Size(BlockedIn(results)) + One(attack.layer # 0)
         + Size(LetThrough(verdicts)) + Size(StoppedAt(verdicts, 3))
       = Len(verdicts) + Size(StoppedAt(results, 3)) + One(attack.layer = 3)

ReportInv == ~deployment.served => ReportCount

LEMMA NewestMarks ==
  ASSUME LogOf(verdicts), NEW c, NEW l, NEW risk, Verdict(c, l, risk)
  PROVE  Last(verdicts').layer = l /\ (Last(verdicts').allowed <=> l = 0)
<1> DEFINE s == verdicts
           t == verdicts'
           v == [call |-> c, allowed |-> l = 0, layer |-> l, risk |-> risk]
<1>1. LogOf(s) /\ t = Append(s, v)
  BY DEF Verdict
<1>2. v.layer = l
  OBVIOUS
<1>3. v.allowed <=> l = 0
  BY Zenon
<1> HIDE DEF s, t, v
<1>4. Len(s) \in Nat /\ Len(t) = Len(s) + 1 /\ t[Len(s) + 1] = v
  BY <1>1, LongerLog
<1>5. Last(t) = v
  BY <1>4 DEF Last
<1>6. Last(t).layer = l /\ (Last(t).allowed <=> l = 0)
  BY <1>2, <1>3, <1>5, Zenon
<1> QED
  BY <1>6 DEF t

\* The numbers of a report are numbers.
LEMMA ReportSizes ==
  ASSUME LogOf(verdicts), LogOf(results)
  PROVE  /\ Len(results) \in Nat /\ Len(verdicts) \in Nat
         /\ Size(Silent(results)) \in Nat /\ Size(BlockedIn(results)) \in Nat
         /\ Size(LetThrough(verdicts)) \in Nat
         /\ \A l : Size(StoppedAt(results, l)) \in Nat /\ Size(StoppedAt(verdicts, l)) \in Nat
<1>1. /\ Len(results) \in Nat /\ DOMAIN results = 1..Len(results)
      /\ Len(verdicts) \in Nat /\ DOMAIN verdicts = 1..Len(verdicts)
  BY DEF LogOf
<1>2. IsFiniteSet(1..Len(results)) /\ IsFiniteSet(1..Len(verdicts))
  BY <1>1, FS_Interval
<1>3. /\ Silent(results) \in SUBSET (1..Len(results))
      /\ BlockedIn(results) \in SUBSET (1..Len(results))
      /\ LetThrough(verdicts) \in SUBSET (1..Len(verdicts))
      /\ \A l : StoppedAt(results, l) \in SUBSET (1..Len(results))
      /\ \A l : StoppedAt(verdicts, l) \in SUBSET (1..Len(verdicts))
  BY <1>1 DEF Silent, BlockedIn, LetThrough, StoppedAt
<1> QED
  BY <1>1, <1>2, <1>3, FS_Subset, FS_CardinalityType DEF Size

LEMMA ReportOfVerdict ==
  ASSUME LogOf(verdicts), ReportCount, NEW c, NEW l \in 0..5, NEW risk \in 0..100,
         Verdict(c, l, risk), AttackBegins, UNCHANGED results
  PROVE  ReportCount'
<1> DEFINE v == Last(verdicts')
<1>1. v.layer = l /\ (v.allowed <=> l = 0)
  BY NewestMarks
<1>2. PICK s : attack' = [running |-> TRUE, called |-> TRUE, server |-> s,
                          blocked |-> ~v.allowed, layer |-> v.layer]
  BY DEF AttackBegins
<1> HIDE DEF v
<1>3. /\ attack'.running = TRUE /\ attack'.called = TRUE /\ attack'.layer = l
      /\ attack'.blocked = ~v.allowed
  BY <1>1, <1>2, Zenon
<1>4. AttackSound'
  BY <1>1, <1>3 DEF AttackSound
<1>5. attack.called = FALSE /\ attack.layer = 0
  BY DEF ReportCount, AttackSound, AttackBegins
<1>6. /\ Len(verdicts) \in Nat /\ Len(verdicts') = Len(verdicts) + 1
      /\ \A k : Plus(Size(StoppedAt(verdicts, k)), Size(StoppedAt(verdicts', k)), l = k)
      /\ Plus(Size(LetThrough(verdicts)), Size(LetThrough(verdicts')), l = 0)
  BY VerdictCounts
<1>7. /\ Len(results) \in Nat /\ Size(Silent(results)) \in Nat
      /\ Size(BlockedIn(results)) \in Nat /\ \A k : Size(StoppedAt(results, k)) \in Nat
  BY ReportSizes DEF ReportCount
<1>8. Len(results) + One(attack'.called) = Len(verdicts') + Size(Silent(results))
  <2>1. Len(results) + One(attack.called) = Len(verdicts) + Size(Silent(results))
    BY DEF ReportCount
  <2> QED
    BY <1>3, <1>5, <1>6, <1>7, <2>1 DEF One
<1>9. ASSUME NEW k \in {1, 2, 4, 5}
      PROVE  Size(StoppedAt(results, k)) + One(attack'.layer = k) = Size(StoppedAt(verdicts', k))
  <2>1. Size(StoppedAt(results, k)) + One(attack.layer = k) = Size(StoppedAt(verdicts, k))
    BY DEF ReportCount
  <2>2. Plus(Size(StoppedAt(verdicts, k)), Size(StoppedAt(verdicts', k)), l = k)
    BY <1>6
  <2>3. Size(StoppedAt(results, k)) = Size(StoppedAt(verdicts, k))
    BY <1>5, <1>7, <2>1 DEF One
  <2> QED
    BY <1>3, <2>2, <2>3 DEF One, Plus
<1>10. Size(BlockedIn(results)) + One(attack'.layer # 0)
          + Size(LetThrough(verdicts')) + Size(StoppedAt(verdicts', 3))
        = Len(verdicts') + Size(StoppedAt(results, 3)) + One(attack'.layer = 3)
  <2> DEFINE b == Size(BlockedIn(results))
             r == Size(StoppedAt(results, 3))
             a == Size(LetThrough(verdicts))
             aa == Size(LetThrough(verdicts'))
             w == Size(StoppedAt(verdicts, 3))
             ww == Size(StoppedAt(verdicts', 3))
  <2>1. b + One(attack.layer # 0) + a + w = Len(verdicts) + r + One(attack.layer = 3)
    BY DEF ReportCount
  <2>2. Plus(a, aa, l = 0) /\ Plus(w, ww, l = 3) /\ b \in Nat /\ r \in Nat
    BY <1>6, <1>7
  <2> HIDE DEF a, aa, w, ww, b, r
  <2>3. b + a + w = Len(verdicts) + r
    BY <1>5, <1>6, <2>1, <2>2 DEF One, Plus
  <2>4. /\ a \in Nat /\ aa = a + (IF l = 0 THEN 1 ELSE 0)
        /\ w \in Nat /\ ww = w + (IF l = 3 THEN 1 ELSE 0)
    BY <2>2 DEF Plus
  <2>5. b + One(l # 0) + aa + ww = Len(verdicts') + r + One(l = 3)
    BY <1>6, <2>2, <2>3, <2>4 DEF One
  <2> QED
    BY <1>3, <2>5 DEF b, r, aa, ww
<1> QED
  BY <1>4, <1>8, <1>9, <1>10 DEF ReportCount

LEMMA ReportOfEvent ==
  ASSUME LogOf(verdicts), ReportCount, UNCHANGED <<results, verdicts>>,
         NEW alerted \in BOOLEAN, AttackAlerts(alerted)
  PROVE  ReportCount'
<1>1. /\ attack'.running = TRUE /\ attack'.called = attack.called
      /\ attack'.blocked = (attack.blocked \/ alerted)
      /\ attack'.layer = IF attack.layer = 0 /\ alerted THEN 3 ELSE attack.layer
  BY Zenon DEF AttackAlerts
<1>2. AttackSound
  BY DEF ReportCount
<1>3. AttackSound'
  <2>1. attack'.blocked <=> attack'.layer # 0
    <3>1. 3 # 0
      OBVIOUS
    <3>2. attack.blocked <=> attack.layer # 0
      BY <1>2 DEF AttackSound
    <3> QED
      BY <1>1, <3>1, <3>2, Zenon
  <2>2. attack'.called \in BOOLEAN
    BY <1>1, <1>2, Zenon DEF AttackSound
  <2>3. attack'.layer \in 0..5 /\ attack'.running = TRUE
    BY <1>1, <1>2 DEF AttackSound
  <2> QED
    BY <2>1, <2>2, <2>3 DEF AttackSound
<1>4. CASE attack.layer = 0 /\ alerted
  <2>1. attack'.layer = 3
    BY <1>1, <1>4
  <2>2. /\ Size(BlockedIn(results)) \in Nat /\ Size(LetThrough(verdicts)) \in Nat
        /\ Size(StoppedAt(verdicts, 3)) \in Nat /\ Size(StoppedAt(results, 3)) \in Nat
        /\ Len(verdicts) \in Nat
    BY ReportSizes DEF ReportCount
  <2>3. Size(BlockedIn(results)) + One(attack'.layer # 0)
            + Size(LetThrough(verdicts)) + Size(StoppedAt(verdicts, 3))
          = Len(verdicts) + Size(StoppedAt(results, 3)) + One(attack'.layer = 3)
    <3>1. Size(BlockedIn(results)) + One(attack.layer # 0)
              + Size(LetThrough(verdicts)) + Size(StoppedAt(verdicts, 3))
            = Len(verdicts) + Size(StoppedAt(results, 3)) + One(attack.layer = 3)
      BY DEF ReportCount
    <3> QED
      BY <1>4, <2>1, <2>2, <3>1 DEF One
  <2>4. \A l \in {1, 2, 4, 5} : One(attack'.layer = l) = One(attack.layer = l)
    BY <1>4, <2>1 DEF One
  <2> QED
    BY <1>1, <1>3, <2>3, <2>4 DEF ReportCount
<1>5. CASE ~(attack.layer = 0 /\ alerted)
  <2>1. attack'.layer = attack.layer
    BY <1>1, <1>5
  <2> QED
    BY <1>1, <1>3, <2>1 DEF ReportCount
<1> QED
  BY <1>4, <1>5

LEMMA ReportOfEnd ==
  ASSUME LogOf(verdicts), ReportCount, UNCHANGED verdicts, AttackEnds
  PROVE  ReportCount'
<1> DEFINE s == results
           t == results'
           x == Outcome
           so == attack.layer # 0
           no == ~attack.called
<1>1. LogOf(s) /\ t = Append(s, x) /\ AttackSound
  BY DEF ReportCount, AttackEnds
<1>2. /\ x.layer = attack.layer
      /\ x.called <=> ~no
      /\ x.blocked <=> so
      /\ so \in BOOLEAN /\ no \in BOOLEAN
  BY <1>1 DEF Outcome, AttackSound
<1>3. attack'.called = FALSE /\ attack'.layer = 0 /\ AttackSound'
  BY DEF AttackEnds, NoAttack, AttackSound
<1> HIDE DEF s, t, x
<1>4. LogOf(t) /\ Len(s) \in Nat /\ Len(t) = Len(s) + 1
  BY <1>1, LongerLog
<1>5. OneMore(BlockedIn(s), BlockedIn(t), so)
  BY <1>1, <1>2, BlockedGrow
<1>6. OneMore(Silent(s), Silent(t), no)
  BY <1>1, <1>2, SilentGrow
<1>7. \A k : OneMore(StoppedAt(s, k), StoppedAt(t, k), attack.layer = k)
  BY <1>1, <1>2, LayersGrow
<1>8. /\ Size(BlockedIn(s)) \in Nat /\ Size(BlockedIn(t)) = Size(BlockedIn(s)) + One(so)
      /\ Size(Silent(s)) \in Nat /\ Size(Silent(t)) = Size(Silent(s)) + One(no)
      /\ \A k : /\ Size(StoppedAt(s, k)) \in Nat
                /\ Size(StoppedAt(t, k)) = Size(StoppedAt(s, k)) + One(attack.layer = k)
  BY <1>5, <1>6, <1>7, Zenon DEF OneMore, Size, One
<1>9. /\ Len(verdicts) \in Nat /\ Size(LetThrough(verdicts)) \in Nat
      /\ \A k : Size(StoppedAt(verdicts, k)) \in Nat
  BY ReportSizes DEF ReportCount
<1>10. Len(t) + One(attack'.called) = Len(verdicts) + Size(Silent(t))
  <2>1. Len(s) + One(attack.called) = Len(verdicts) + Size(Silent(s))
    BY DEF ReportCount, s
  <2>2. attack.called \in BOOLEAN
    BY <1>1 DEF AttackSound
  <2> QED
    BY <1>3, <1>4, <1>8, <1>9, <2>1, <2>2 DEF One
<1>11. ASSUME NEW k \in {1, 2, 4, 5}
       PROVE  Size(StoppedAt(t, k)) + One(attack'.layer = k) = Size(StoppedAt(verdicts, k))
  <2>1. Size(StoppedAt(s, k)) + One(attack.layer = k) = Size(StoppedAt(verdicts, k))
    BY DEF ReportCount, s
  <2>2. One(attack'.layer = k) = 0
    BY <1>3 DEF One
  <2>3. Size(StoppedAt(t, k)) = Size(StoppedAt(verdicts, k))
    BY <1>8, <2>1
  <2> QED
    BY <1>9, <2>2, <2>3
<1>12. Size(BlockedIn(t)) + One(attack'.layer # 0)
           + Size(LetThrough(verdicts)) + Size(StoppedAt(verdicts, 3))
         = Len(verdicts) + Size(StoppedAt(t, 3)) + One(attack'.layer = 3)
  <2>1. Size(BlockedIn(s)) + One(so)
            + Size(LetThrough(verdicts)) + Size(StoppedAt(verdicts, 3))
          = Len(verdicts) + Size(StoppedAt(s, 3)) + One(attack.layer = 3)
    BY DEF ReportCount, s
  <2>2. One(attack'.layer # 0) = 0 /\ One(attack'.layer = 3) = 0
    BY <1>3 DEF One
  <2>3. One(so) \in Nat /\ One(attack.layer = 3) \in Nat
    BY DEF One
  <2> HIDE DEF so
  <2> QED
    BY <1>8, <1>9, <2>1, <2>2, <2>3
<1>13. LogOf(results')
  BY <1>4 DEF t
<1> QED
  BY <1>3, <1>10, <1>11, <1>12, <1>13 DEF ReportCount, t

LEMMA ReportStep ==
  ASSUME RulesInv, FitInv, ReportInv, [ScanNext]_apiVars
  PROVE  ReportInv'
<1>1. UNCHANGED deployment /\ LogOf(verdicts)
  BY StepMoves DEF FitInv
<1> SUFFICES ASSUME ~deployment.served, ReportCount
             PROVE  ReportCount'
  BY <1>1 DEF ReportInv
<1>2. UNCHANGED <<attack, results, verdicts>> => ReportCount'
  BY DEF ReportCount, AttackSound
<1>3. CASE NothingDecided
  BY <1>1, <1>2, <1>3, ReportOfEvent, ReportOfEnd DEF NothingDecided, AttackMoves
<1>4. ASSUME NEW c \in Call, EvaluateCall(c), Tallied
      PROVE  ReportCount'
  <2>1. UNCHANGED results /\ IF verdicts' = verdicts THEN UNCHANGED attack ELSE AttackBegins
    BY <1>4 DEF Tallied
  <2>2. CASE UNCHANGED verdicts
    BY <1>2, <2>1, <2>2
  <2>3. ASSUME NEW l \in 0..5, NEW risk \in 0..100, Verdict(c, l, risk)
        PROVE  ReportCount'
    <3>1. verdicts' # verdicts
      BY <1>1, <2>3, Newest
    <3> QED
      BY <1>1, <2>1, <2>3, <3>1, ReportOfVerdict
  <2> QED
    BY <1>4, <2>2, <2>3, CallVerdict
<1>5. ASSUME NEW c \in Call, InterceptOutput(c), UNCHANGED <<stats, attack, results>>
      PROVE  ReportCount'
  BY <1>2, <1>5, OutputIs
<1> QED
  BY <1>3, <1>4, <1>5, StepCalls DEF CallOrOutput

-----------------------------------------------------------------------------
(* What is recorded in different places agrees. *)

\* The quarantine holds calls.
HeldInv == quarantined \in Seq(Call)

LEMMA HeldRecord ==
  ASSUME HeldInv, NEW d, Record(d), d.call \in Call
  PROVE  HeldInv'
BY DEF HeldInv, Record

LEMMA HeldRelease ==
  ASSUME HeldInv, NEW i \in DOMAIN quarantined, ReleaseQuarantined(i)
  PROVE  HeldInv'
<1> DEFINE n == Len(quarantined)
           low == SubSeq(quarantined, 1, i - 1)
           high == SubSeq(quarantined, i + 1, n)
<1>1. quarantined \in Seq(Call) /\ n \in Nat /\ i \in 1..n
  BY DEF HeldInv
<1>2. low \in Seq(Call) /\ high \in Seq(Call)
  BY <1>1
<1>3. quarantined' = low \o high
  BY DEF ReleaseQuarantined, RemoveAt
<1> HIDE DEF low, high
<1>4. low \o high \in Seq(Call)
  BY <1>2
<1> QED
  BY <1>3, <1>4 DEF HeldInv

LEMMA HeldCall ==
  ASSUME RulesInv, HeldInv, NEW c \in Call, EvaluateCall(c)
  PROVE  HeldInv'
<1>1. Undecided(c) => HeldInv'
  BY DEF Undecided, HeldInv
<1>2. ASSUME NEW d, Decided(c, d)
      PROVE  HeldInv'
  <2>1. Record(d) /\ d.call \in Call
    BY <1>2 DEF Decided, Decides
  <2> QED
    BY <2>1, HeldRecord
<1> QED
  BY <1>1, <1>2, CallEnds

LEMMA HeldStep ==
  ASSUME RulesInv, HeldInv, [ScanNext]_apiVars
  PROVE  HeldInv'
<1>1. CASE UNCHANGED apiVars
  BY <1>1 DEF apiVars, fiveVars, HeldInv
<1>2. CASE \E p \in Peer : Refuse(p)
  BY <1>2 DEF Refuse, fiveVars, HeldInv
<1>3. CASE \E p \in Peer, c \in Call : Scan(p, c)
  BY <1>3, HeldCall DEF Scan
<1>4. CASE \E c \in Call : AttackCall(c)
  BY <1>4, HeldCall DEF AttackCall
<1>6. CASE EndAttack \/ \E e \in Event : AttackEvent(e)
  BY <1>6 DEF EndAttack, AttackEvent, EvaluateKernelEvent, proxyVars, fiveVars, HeldInv
<1>5. CASE Operate
  <2>1. CASE \E r \in RuleChoice : AddRule(r)
    BY <2>1 DEF AddRule, HeldInv
  <2>2. CASE \E i \in DOMAIN quarantined : ReleaseQuarantined(i)
    BY <2>2, HeldRelease
  <2>3. CASE \E s \in {c.server : c \in Call} \ {NoServer} :
               RegisterServer(s) \/ \E caps \in Capability : RegisterCapabilities(s, caps)
    BY <2>3 DEF RegisterServer, RegisterCapabilities, proxyVars, HeldInv
  <2>4. CASE \E e \in Event : EvaluateKernelEvent(e)
    BY <2>4 DEF EvaluateKernelEvent, proxyVars, HeldInv
  <2>5. ASSUME NEW c \in Call, InterceptOutput(c)
        PROVE  HeldInv'
    <3>1. PICK d : Record(d) /\ d.call = c
      BY <2>5, OutputIs
    <3> QED
      BY <3>1, HeldRecord
  <2>6. CASE Tick
    BY <2>6 DEF Tick, proxyVars, HeldInv
  <2> QED
    BY <1>5, <2>1, <2>2, <2>3, <2>4, <2>5, <2>6 DEF Operate, Reconfigure, Observe
<1> QED
  BY <1>1, <1>2, <1>3, <1>4, <1>5, <1>6 DEF ScanNext

RecordsInv == RecordTypes /\ LogsInv /\ StatsInv /\ ReportInv /\ HeldInv

LEMMA RecordsStep ==
  ASSUME RulesInv, FitInv, RecordsInv, [ScanNext]_apiVars
  PROVE  RecordsInv'
BY LogsStep, StatsStep, ReportStep, HeldStep DEF RecordsInv

LEMMA RecordsStart == ScanInit => RecordsInv
<1> SUFFICES ASSUME ScanInit
             PROVE  RecordsInv
  OBVIOUS
<1>1. /\ decisions = <<>> /\ tally = [block |-> 0, allow |-> 0] /\ quarantined = <<>>
      /\ egressLog = <<>> /\ verdicts = <<>> /\ raised = [proxy |-> 0, later |-> 0]
      /\ stats = NoStats /\ attack = NoAttack /\ results = <<>>
  BY DEF ScanInit, LayersInit
<1>2. Size({}) = 0 /\ Len(<<>>) = 0 /\ DOMAIN <<>> = {}
  BY FS_EmptySet DEF Size
<1>3. /\ Judgements(<<>>) = {} /\ Stoppings(<<>>) = {} /\ Untallied(<<>>) = {}
      /\ \A l : StoppedAt(<<>>, l) = {}
      /\ Reaching(<<>>) = {} /\ Denied(<<>>) = {} /\ BlockedIn(<<>>) = {} /\ LetThrough(<<>>) = {}
      /\ Silent(<<>>) = {}
      /\ \A s : Rated(<<>>, s) = {}
  BY <1>2 DEF Judgements, Stoppings, Untallied, StoppedAt, Reaching, Denied, BlockedIn,
              Silent, LetThrough, Rated
<1>10. /\ Size(Judgements(decisions)) = 0 /\ Size(Stoppings(decisions)) = 0
       /\ Size(Untallied(decisions)) = 0 /\ Size(Reaching(verdicts)) = 0
       /\ \A l : Size(StoppedAt(verdicts, l)) = 0 /\ Size(StoppedAt(results, l)) = 0
       /\ Size(Denied(egressLog)) = 0 /\ Size(BlockedIn(results)) = 0
       /\ Size(Silent(results)) = 0 /\ Size(LetThrough(verdicts)) = 0 /\ \A s : Size(Rated(verdicts, s)) = 0
       /\ Len(decisions) = 0 /\ Len(verdicts) = 0 /\ Len(egressLog) = 0 /\ Len(results) = 0
  <2>1. Size({}) = 0 /\ Len(<<>>) = 0
    BY <1>2
  <2> QED
    BY <1>1, <1>3, <2>1, Zenon
<1>4. RecordTypes /\ tally["block"] = 0 /\ tally["allow"] = 0 /\ raised.later = 0
  BY <1>1 DEF RecordTypes
<1>5. LogsInv
  BY <1>4, <1>10 DEF LogsInv
<1>6. StatsTypes
  BY <1>1 DEF StatsTypes, NoStats, Grade
<1>7. StatsCount
  <2>1. NewestOf(<<>>, <<>>)
    <3>1. 0 \in Int /\ RecentCap \in Int /\ 0 <= RecentCap
      BY ServiceAssumption
    <3>2. Min({RecentCap, 0}) = IF RecentCap <= 0 THEN RecentCap ELSE 0
      BY <3>1, OfTwo, Zenon
    <3>3. Min({RecentCap, 0}) = 0
      BY <3>1, <3>2
    <3> QED
      BY <1>2, <3>3, EmptyLog DEF NewestOf
  <2>2. NewestOf(stats.recent, verdicts)
    <3>1. stats.recent = <<>>
      BY <1>1 DEF NoStats
    <3> QED
      BY <1>1, <2>1, <3>1
  <2>3. /\ stats.total = 0 /\ stats.allowed = 0 /\ stats.blocked = 0
        /\ \A l \in 1..5 : stats.byLayer[l] = 0
        /\ \A s \in Grade : stats.bySeverity[s] = 0
    BY <1>1 DEF NoStats, Grade
  <2> QED
    BY <1>10, <2>2, <2>3 DEF StatsCount
<1>8. ReportInv
  <2>1. LogOf(results)
    BY <1>1, EmptyLog
  <2>2. /\ attack.running = FALSE /\ attack.called = FALSE /\ attack.blocked = FALSE
        /\ attack.layer = 0
    BY <1>1 DEF NoAttack
  <2>3. AttackSound
    <3>1. 0 \in 0..5
      OBVIOUS
    <3> QED
      BY <2>2, <3>1, Zenon DEF AttackSound
  <2>4. /\ One(attack.called) = 0 /\ One(attack.layer # 0) = 0
        /\ \A l \in {1, 2, 3, 4, 5} : One(attack.layer = l) = 0
    BY <2>2 DEF One
  <2>5. 3 \in {1, 2, 3, 4, 5} /\ {1, 2, 4, 5} \subseteq {1, 2, 3, 4, 5}
    OBVIOUS
  <2> QED
    BY <1>10, <2>1, <2>3, <2>4, <2>5 DEF ReportInv, ReportCount
<1>9. HeldInv
  BY <1>1, EmptySeq DEF HeldInv
<1> QED
  BY <1>4, <1>5, <1>6, <1>7, <1>8, <1>9 DEF RecordsInv, StatsInv

LEMMA TypesMean ==
  ASSUME FitInv, ShadowInv, RateInv, RecordsInv
  PROVE  LayersTypeOK
<1>1. /\ \A i \in DOMAIN decisions :
           decisions[i].call \in Call /\ decisions[i].action \in RuleAction
      /\ \A i \in DOMAIN verdicts : verdicts[i].layer \in 0..5 /\ verdicts[i].risk \in 0..100
  BY DEF FitInv, GoodDecision, GoodVerdict
<1>2. tally \in [{"block", "allow"} -> Nat] /\ quarantined \in Seq(Call)
  BY DEF RecordsInv, RecordTypes, HeldInv
<1>3. detectors.ml \in {"unloaded", "ready", "off"}
  BY DEF ShadowInv, ShadowOf
<1>4. Len(kernel.alerts) = Len(kernel.events)
  BY DEF RateInv, KernelTypes
<1>5. \A i \in DOMAIN quarantined : quarantined[i] \in Call
  BY <1>2
<1> QED
  BY <1>1, <1>2, <1>3, <1>4, <1>5 DEF LayersTypeOK

LEMMA LogsMean ==
  ASSUME FitInv, RecordsInv
  PROVE  LogsAgree
<1>1. /\ Size(Judgements(decisions)) + Size(StoppedAt(verdicts, 1)) = raised.later + Len(verdicts)
      /\ Size(Stoppings(decisions)) = Size(StoppedAt(verdicts, 2))
      /\ Len(egressLog) = Size(Reaching(verdicts))
      /\ Size(Denied(egressLog)) = Size(StoppedAt(verdicts, 5))
      /\ Len(decisions) = tally["block"] + tally["allow"] + Size(Untallied(decisions))
      /\ raised.later \in Nat
  BY DEF RecordsInv, LogsInv, RecordTypes
<1>2. /\ Size(StoppedAt(verdicts, 1)) \in Nat /\ Size(Judgements(decisions)) \in Nat
      /\ Len(verdicts) \in Nat
  <2>1. /\ Len(decisions) \in Nat /\ DOMAIN decisions = 1..Len(decisions)
        /\ Len(verdicts) \in Nat /\ DOMAIN verdicts = 1..Len(verdicts)
    BY DEF FitInv, LogOf
  <2>2. IsFiniteSet(1..Len(decisions)) /\ IsFiniteSet(1..Len(verdicts))
    BY <2>1, FS_Interval
  <2>3. /\ StoppedAt(verdicts, 1) \in SUBSET (1..Len(verdicts))
        /\ Judgements(decisions) \in SUBSET (1..Len(decisions))
    BY <2>1 DEF StoppedAt, Judgements
  <2> QED
    BY <2>1, <2>2, <2>3, FS_Subset, FS_CardinalityType DEF Size
<1>3. Size(Judgements(decisions)) = raised.later + Len(verdicts) - Size(StoppedAt(verdicts, 1))
  BY <1>1, <1>2
<1>4. /\ LayerStats.total = Len(verdicts)
      /\ \A l \in 1..5 : LayerStats.blocks[l] = Size(StoppedAt(verdicts, l))
  BY DEF LayerStats, Count, StoppedAt, Size
<1>5. /\ EgressStats.total = Len(egressLog) /\ EgressStats.denied = Size(Denied(egressLog))
  BY DEF EgressStats, Count, Denied, Size
<1>6. ProxyStats.blocked = tally["block"] /\ ProxyStats.allowed = tally["allow"]
  BY DEF ProxyStats
<1>7. Count(decisions, LAMBDA d : d.by # "output")
        = raised.later + LayerStats.total - LayerStats.blocks[1]
  BY <1>3, <1>4 DEF Count, Judgements, Size
<1>8. Count(decisions, LAMBDA d : d.by # "output" /\ d.action \in {"block", "quarantine"})
        = LayerStats.blocks[2]
  BY <1>1, <1>4 DEF Count, Stoppings, Size
<1>9. EgressStats.total = Count(verdicts, LAMBDA v : v.layer \in {0, 5} /\ HasDest(v.call))
  BY <1>1, <1>5 DEF Count, Reaching, Size
<1>10. EgressStats.denied = LayerStats.blocks[5]
  BY <1>1, <1>4, <1>5
<1>11. Len(decisions) = ProxyStats.blocked + ProxyStats.allowed
                        + Count(decisions, LAMBDA d : d.action \in {"quarantine", "redact"})
  BY <1>1, <1>6 DEF Count, Untallied, Size
<1> QED
  BY <1>7, <1>8, <1>9, <1>10, <1>11 DEF LogsAgree

LEMMA StatsMean ==
  ASSUME FitInv, RecordsInv
  PROVE  StatsFollowVerdicts
<1> SUFFICES ASSUME deployment.served
             PROVE  /\ stats.total = Len(verdicts)
                    /\ stats.total = stats.allowed + stats.blocked
                    /\ stats.blocked = stats.byLayer[1] + stats.byLayer[2] + stats.byLayer[3]
                                       + stats.byLayer[4] + stats.byLayer[5]
                    /\ \A s \in DOMAIN stats.bySeverity :
                         stats.bySeverity[s] = Count(verdicts, LAMBDA v : Severity(v.risk) = s)
                    /\ stats.recent = SubSeq(Reverse(verdicts), 1, Min({RecentCap, Len(verdicts)}))
  BY DEF StatsFollowVerdicts
<1>1. StatsTypes /\ StatsCount /\ LogOf(verdicts)
  BY DEF RecordsInv, StatsInv, FitInv
<1>2. DOMAIN stats.bySeverity = Grade
  BY <1>1 DEF StatsTypes
<1>3. \A s : Count(verdicts, LAMBDA v : Severity(v.risk) = s) = Size(Rated(verdicts, s))
  BY DEF Count, Rated, Size
<1>4. stats.recent = SubSeq(Reverse(verdicts), 1, Min({RecentCap, Len(verdicts)}))
  <2> DEFINE recent == stats.recent
             log == verdicts
  <2>1. LogOf(log) /\ NewestOf(recent, log)
    BY <1>1 DEF StatsCount
  <2> HIDE DEF recent, log
  <2>2. recent = SubSeq(Reverse(log), 1, Min({RecentCap, Len(log)}))
    BY <2>1, NewestMeans
  <2> QED
    BY <2>2 DEF recent, log
<1> QED
  BY <1>1, <1>2, <1>3, <1>4 DEF StatsCount

LEMMA ReportMeans ==
  ASSUME FitInv, RecordsInv
  PROVE  ReportFollowsDefense
<1> DEFINE silent == Count(results, LAMBDA r : ~r.called)
           report == SimulationReport
<1> SUFFICES ASSUME ~deployment.served, ~attack.running
             PROVE  /\ report.total = LayerStats.total + silent
                    /\ \A l \in {1, 2, 4, 5} : report.byLayer[l] = LayerStats.blocks[l]
                    /\ report.total - report.blocked
                         = LayerStats.allowed + silent
                           - (report.byLayer[3] - LayerStats.blocks[3])
  BY DEF ReportFollowsDefense
<1>1. ReportCount /\ LogOf(verdicts) /\ LogOf(results)
  BY DEF RecordsInv, ReportInv, ReportCount, FitInv
<1>2. attack.called = FALSE /\ attack.layer = 0
  BY <1>1 DEF ReportCount, AttackSound
<1>3. /\ LayerStats.total = Len(verdicts) /\ LayerStats.allowed = Size(LetThrough(verdicts))
      /\ \A l \in 1..5 : LayerStats.blocks[l] = Size(StoppedAt(verdicts, l))
  BY DEF LayerStats, Count, StoppedAt, LetThrough, Size
<1>4. /\ report.total = Len(results)
      /\ report.blocked = Size(BlockedIn(results))
      /\ \A l \in 1..5 : report.byLayer[l] = Size(StoppedAt(results, l))
  BY DEF SimulationReport, Count, StoppedAt, BlockedIn, Size
<1>5. silent = Size(Silent(results))
  BY DEF Count, Silent, Size
<1> HIDE DEF silent, report
<1>6. /\ Len(results) \in Nat /\ Len(verdicts) \in Nat
      /\ Size(Silent(results)) \in Nat /\ Size(BlockedIn(results)) \in Nat
      /\ Size(LetThrough(verdicts)) \in Nat
      /\ \A l : Size(StoppedAt(results, l)) \in Nat /\ Size(StoppedAt(verdicts, l)) \in Nat
  BY <1>1, ReportSizes
<1>7. Len(results) = Len(verdicts) + Size(Silent(results))
  <2>1. Len(results) + One(attack.called) = Len(verdicts) + Size(Silent(results))
    BY <1>1 DEF ReportCount
  <2> QED
    BY <1>2, <1>6, <2>1 DEF One
<1>8. ASSUME NEW l \in {1, 2, 4, 5}
      PROVE  report.byLayer[l] = LayerStats.blocks[l]
  <2>1. Size(StoppedAt(results, l)) + One(attack.layer = l) = Size(StoppedAt(verdicts, l))
    BY <1>1 DEF ReportCount
  <2>2. Size(StoppedAt(results, l)) = Size(StoppedAt(verdicts, l))
    BY <1>2, <1>6, <2>1 DEF One
  <2> QED
    BY <1>3, <1>4, <2>2
<1>9. Size(BlockedIn(results)) + Size(LetThrough(verdicts)) + Size(StoppedAt(verdicts, 3))
        = Len(verdicts) + Size(StoppedAt(results, 3))
  <2>1. Size(BlockedIn(results)) + One(attack.layer # 0)
            + Size(LetThrough(verdicts)) + Size(StoppedAt(verdicts, 3))
          = Len(verdicts) + Size(StoppedAt(results, 3)) + One(attack.layer = 3)
    BY <1>1 DEF ReportCount
  <2> QED
    BY <1>2, <1>6, <2>1 DEF One
<1>10. report.total = LayerStats.total + silent
  BY <1>3, <1>4, <1>5, <1>7
<1>11. report.total - report.blocked
         = LayerStats.allowed + silent - (report.byLayer[3] - LayerStats.blocks[3])
  <2> DEFINE n == Len(results)
             m == Len(verdicts)
             b == Size(BlockedIn(results))
             a == Size(LetThrough(verdicts))
             r3 == Size(StoppedAt(results, 3))
             v3 == Size(StoppedAt(verdicts, 3))
             k == Size(Silent(results))
  <2>1. /\ report.total = n /\ report.blocked = b /\ report.byLayer[3] = r3
        /\ LayerStats.allowed = a /\ LayerStats.blocks[3] = v3 /\ silent = k
    BY <1>3, <1>4, <1>5
  <2>2. n = m + k /\ b + a + v3 = m + r3
    BY <1>7, <1>9
  <2>3. /\ n \in Nat /\ m \in Nat /\ b \in Nat /\ a \in Nat /\ k \in Nat
        /\ r3 \in Nat /\ v3 \in Nat
    BY <1>6
  <2> HIDE DEF n, m, b, a, r3, v3, k
  <2>4. n - b = a + k - (r3 - v3)
    BY <2>2, <2>3
  <2> QED
    BY <2>1, <2>4
<1> QED
  BY <1>8, <1>10, <1>11

\* What is recorded in different places about the same calls agrees, for any
\* calls, rules, deployments and bounds within the assumptions, whichever calls
\* raise in between: the layers' logs with one another (evaluate_call), the
\* dashboards' statistics and recent list with the verdicts (_record_event),
\* and the simulator's report with the defense's (_execute_attack).
THEOREM ScanRecordsAgree == ScanSpec => []RecordsAgree
<1> DEFINE AllInv == RulesInv /\ FitInv /\ ShadowInv /\ RateInv /\ RecordsInv
<1>1. ScanInit => AllInv
  BY FitStarts, ShadowStarts, RateStarts, RecordsStart
<1>2. AllInv /\ [ScanNext]_apiVars => AllInv'
  <2> SUFFICES ASSUME RulesInv, FitInv, ShadowInv, RateInv, RecordsInv, [ScanNext]_apiVars
               PROVE  RulesInv' /\ FitInv' /\ ShadowInv' /\ RateInv' /\ RecordsInv'
    OBVIOUS
  <2>1. UNCHANGED deployment /\ RulesMove
    BY StepMoves, StepCalls
  <2>2. RulesInv'
    BY <2>1, RulesStep DEF RulesMove
  <2>3. RateInv'
    BY RateStep
  <2> QED
    BY <2>2, <2>3, FitStep, ShadowStep, RecordsStep
<1>3. AllInv => RecordsAgree
  BY TypesMean, LogsMean, StatsMean, ReportMeans DEF RecordsAgree
<1> QED
  BY <1>1, <1>2, <1>3, PTL DEF ScanSpec
=============================================================================
