-------------------------- MODULE IdentityDelivery --------------------------
(***************************************************************************)
(* Identity telemetry from the gateway's request path to the collector:    *)
(*                                                                         *)
(*   - the gateway appends one newline-terminated envelope per request to  *)
(*     a queue file (server.py, _write_identity_telemetry_event);          *)
(*   - the shipper process (identity_shipper.py) reads the record at its   *)
(*     durable cursor, POSTs it (identity_transport.py, post_envelope) and *)
(*     moves the cursor after a 2xx answer;                                *)
(*   - the collector, which is not part of the repository, keeps the first *)
(*     copy of each envelope (it deduplicates by event_fps).               *)
(*                                                                         *)
(* The append is not atomic: it can stop in the middle (disk full, killed  *)
(* process), and what it left is then the beginning of the next line.  The *)
(* shipper can be killed between any two of its steps, a request can be    *)
(* lost, refused, answered too late, or reach the collector after the      *)
(* shipper gave up on it.                                                  *)
(*                                                                         *)
(* Byte offsets are counted in lines: the shipper only ever stands at the  *)
(* beginning of a line.                                                    *)
(***************************************************************************)
EXTENDS Naturals, SequencesExt

CONSTANTS
  MaxRecords,  \* bound: requests the gateway writes telemetry for
  Garbled,     \* the content of a line that is not one JSON object
  NoTail       \* the queue file ends with a newline

ASSUME DeliveryAssumption ==
  /\ MaxRecords \in Nat
  /\ Garbled \notin Nat
  /\ NoTail \notin Nat
  /\ NoTail # Garbled

Envelopes == 1..MaxRecords
Line == Envelopes \union {Garbled}

VARIABLES
  lines,     \* the queue file: its newline-terminated lines
  tail,      \* the bytes after its last newline
  writing,   \* the gateway is inside an append
  nextEnv,   \* identifies the next request's envelope
  pc,        \* the shipper: "down", "asleep", "reading", "waiting", "acked"
  offset,    \* deliver_available's local offset
  cursor,    \* the cursor file
  attempt,   \* the POST under way: "none", "sent", "accepted", "refused"
  late,      \* envelopes of abandoned POSTs that may still arrive
  stored     \* what the collector has kept, in the order it arrived

queueVars == <<lines, tail, writing, nextEnv>>
shipperVars == <<pc, offset, cursor>>
vars == <<queueVars, shipperVars, attempt, late, stored>>

TypeOK ==
  /\ lines \in Seq(Line)
  /\ tail \in Line \union {NoTail}
  /\ writing \in BOOLEAN
  /\ nextEnv \in 1..(MaxRecords + 1)
  /\ pc \in {"down", "asleep", "reading", "waiting", "acked"}
  /\ offset \in Nat
  /\ cursor \in Nat
  /\ attempt \in {"none", "sent", "accepted", "refused"}
  /\ late \in SUBSET Envelopes
  /\ stored \in Seq(Envelopes)

Init ==
  /\ lines = <<>>
  /\ tail = NoTail
  /\ writing = FALSE
  /\ nextEnv = 1
  /\ pc = "asleep"
  /\ offset = 0
  /\ cursor = 0
  /\ attempt = "none"
  /\ late = {}
  /\ stored = <<>>

-----------------------------------------------------------------------------
(* The gateway's writer.                                                   *)

(* open(path, "a") and the first bytes of the record.  After an abandoned  *)
(* append they continue its line, and the two never form a JSON object.    *)
BeginAppend ==
  /\ ~writing
  /\ nextEnv <= MaxRecords
  /\ writing' = TRUE
  /\ nextEnv' = nextEnv + 1
  /\ tail' = IF tail = NoTail THEN nextEnv ELSE Garbled
  /\ UNCHANGED <<lines, shipperVars, attempt, late, stored>>

(* The rest of the record and its newline.                                 *)
FinishAppend ==
  /\ writing
  /\ writing' = FALSE
  /\ lines' = Append(lines, tail)
  /\ tail' = NoTail
  /\ UNCHANGED <<nextEnv, shipperVars, attempt, late, stored>>

(* The append stops before the newline: an OSError that the handler logs   *)
(* and drops, or the end of the gateway process.  Nothing removes the      *)
(* bytes that were written, if any were.                                   *)
AbandonAppend ==
  /\ writing
  /\ writing' = FALSE
  /\ \/ UNCHANGED tail
     \/ tail # Garbled /\ tail' = NoTail
  /\ UNCHANGED <<lines, nextEnv, shipperVars, attempt, late, stored>>

-----------------------------------------------------------------------------
(* The collector (external).                                               *)

(* The collector keeps an envelope unless it already holds it.             *)
Keep(e) == stored' = IF e \in ToSet(stored) THEN stored ELSE Append(stored, e)

(* The request the shipper is waiting on reaches the collector.  It may be *)
(* kept and acknowledged, refused, or kept and yet answered with an error. *)
Receive ==
  /\ attempt = "sent"
  /\ \/ Keep(lines[offset + 1]) /\ attempt' = "accepted"
     \/ Keep(lines[offset + 1]) /\ attempt' = "refused"
     \/ UNCHANGED stored /\ attempt' = "refused"
  /\ UNCHANGED <<queueVars, shipperVars, late>>

(* A request the shipper gave up on arrives, or is lost for good.          *)
LateArrival(e) ==
  /\ e \in late
  /\ late' = late \ {e}
  /\ Keep(e) \/ UNCHANGED stored
  /\ UNCHANGED <<queueVars, shipperVars, attempt>>

-----------------------------------------------------------------------------
(* The shipper.                                                            *)

(* Leave the current POST; the request may still be on its way.            *)
Abandon ==
  /\ attempt' = "none"
  /\ \/ UNCHANGED late
     \/ attempt = "sent" /\ late' = late \union {lines[offset + 1]}

(* Mutant: the cursor file is not loaded after a restart.                  *)
Wake_FromTheStart ==
  /\ pc = "asleep"
  /\ pc' = "reading"
  /\ offset' = 0
  /\ UNCHANGED <<queueVars, cursor, attempt, late, stored>>

(* run_forever calls deliver_available, which loads the cursor.            *)
Wake ==
  /\ pc = "asleep"
  /\ pc' = "reading"
  /\ offset' = cursor
  /\ UNCHANGED <<queueVars, cursor, attempt, late, stored>>

(* _read_next_envelope finds a complete record, and the POST leaves.       *)
Post ==
  /\ pc = "reading"
  /\ offset < Len(lines)
  /\ lines[offset + 1] # Garbled
  /\ pc' = "waiting"
  /\ attempt' = "sent"
  /\ UNCHANGED <<queueVars, offset, cursor, late, stored>>

(* There is no complete record (the file ends, or its last line has no     *)
(* newline yet) or the line is not a JSON object: ValueError.  Both end in *)
(* a sleep; the cursor is not moved.                                       *)
ReadNothing ==
  /\ pc = "reading"
  /\ offset < Len(lines) => lines[offset + 1] = Garbled
  /\ pc' = "asleep"
  /\ UNCHANGED <<queueVars, offset, cursor, attempt, late, stored>>

(* Mutant: any answer counts as a 2xx.                                     *)
Acknowledged_ByAnyStatus ==
  /\ pc = "waiting"
  /\ attempt \in {"accepted", "refused"}
  /\ pc' = "acked"
  /\ attempt' = "none"
  /\ UNCHANGED <<queueVars, offset, cursor, late, stored>>

(* The answer is a 2xx.                                                    *)
Acknowledged ==
  /\ pc = "waiting"
  /\ attempt = "accepted"
  /\ pc' = "acked"
  /\ attempt' = "none"
  /\ UNCHANGED <<queueVars, offset, cursor, late, stored>>

(* Mutant: a record that fails is left behind.                             *)
DeliveryFails_SkipsRecord ==
  /\ pc = "waiting"
  /\ pc' = "reading"
  /\ offset' = offset + 1
  /\ Abandon
  /\ UNCHANGED <<queueVars, cursor, stored>>

(* A status outside 200..299, a timeout or a connection error: the         *)
(* exception reaches run_forever, which backs off.                         *)
DeliveryFails ==
  /\ pc = "waiting"
  /\ pc' = "asleep"
  /\ Abandon
  /\ UNCHANGED <<queueVars, offset, cursor, stored>>

(* Mutant: the new offset is not written to the cursor file.               *)
SaveCursor_OnlyInMemory ==
  /\ pc = "acked"
  /\ offset' = offset + 1
  /\ pc' = "reading"
  /\ UNCHANGED <<queueVars, cursor, attempt, late, stored>>

(* _write_cursor: temporary file, fsync, atomic replace, directory fsync.  *)
SaveCursor ==
  /\ pc = "acked"
  /\ cursor' = offset + 1
  /\ offset' = offset + 1
  /\ pc' = "reading"
  /\ UNCHANGED <<queueVars, attempt, late, stored>>

(* _write_cursor raises, before or after the replace.                      *)
SaveCursorFails ==
  /\ pc = "acked"
  /\ cursor' \in {cursor, offset + 1}
  /\ pc' = "asleep"
  /\ UNCHANGED <<queueVars, offset, attempt, late, stored>>

(* The shipper is killed; in the middle of _write_cursor the new cursor is *)
(* on disk or it is not, never half of it.                                 *)
Crash ==
  /\ pc # "down"
  /\ pc' = "down"
  /\ offset' = 0
  /\ cursor' \in IF pc = "acked" THEN {cursor, offset + 1} ELSE {cursor}
  /\ Abandon
  /\ UNCHANGED <<queueVars, stored>>

Restart ==
  /\ pc = "down"
  /\ pc' = "asleep"
  /\ UNCHANGED <<queueVars, offset, cursor, attempt, late, stored>>

-----------------------------------------------------------------------------
Next ==
  \/ BeginAppend \/ FinishAppend \/ AbandonAppend
  \/ Wake \/ Post \/ ReadNothing
  \/ Acknowledged \/ DeliveryFails
  \/ SaveCursor \/ SaveCursorFails
  \/ Crash \/ Restart
  \/ Receive
  \/ \E e \in Envelopes : LateArrival(e)

Spec == Init /\ [][Next]_vars

(* The shipper is restarted when it is down, its loop goes on (a POST has  *)
(* a timeout).  Crashes, network and collector may fail any number of      *)
(* times, but a delivery that is tried for ever is, some time, accepted,   *)
(* answered in time and recorded in the cursor file.                       *)
Fairness ==
  /\ WF_vars(Restart)
  /\ SF_vars(Wake)
  /\ WF_vars(ReadNothing)
  /\ WF_vars(DeliveryFails)
  /\ SF_vars(Post)
  /\ SF_vars(Receive /\ attempt' = "accepted")
  /\ SF_vars(Acknowledged)
  /\ SF_vars(SaveCursor)

FairSpec == Spec /\ Fairness

-----------------------------------------------------------------------------
(* The collector holds the leading lines of the queue, in order, without a *)
(* gap and without a damaged line, whatever was lost, repeated, delayed or *)
(* interrupted.                                                            *)
StoredInOrder == IsPrefix(stored, lines)

(* The cursor never passes a record the collector does not hold (that      *)
(* record would be lost), and is never more than one record behind, so a   *)
(* restart repeats at most one delivery.                                   *)
CursorBehindByAtMostOne ==
  /\ cursor <= Len(stored)
  /\ Len(stored) <= cursor + 1

(* No failure, crash or restart makes the durable cursor go back.          *)
CursorNeverGoesBack == [][cursor' >= cursor]_vars

(* The pipeline implements in-order delivery, its liveness included: a     *)
(* record that no damaged line precedes is delivered.                      *)
Abstract ==
  INSTANCE InOrderDelivery
    WITH Records <- Envelopes, Malformed <- Garbled,
         published <- lines, delivered <- stored

DeliversInOrder == Abstract!Spec

(* ... and the shipper gets to know it: the cursor passes every such       *)
(* record, so it is not delivered again for ever.                          *)
CursorCatchesUp ==
  \A n \in Envelopes :
    (n <= Len(lines) /\ Garbled \notin ToSet(SubSeq(lines, 1, n)))
      ~> (cursor >= n)

=============================================================================
