---------------------------- MODULE WriteAheadLog ----------------------------
(***************************************************************************)
(* The write-ahead log of mcp_monitor/audit/wal.py, as the gateway uses    *)
(* it: one process writes, checkpoints and truncates; recover() may be     *)
(* called whenever no write is running.  The position of the last          *)
(* checkpoint (_committed_count) and the number of entries written         *)
(* (_entries_written) are fields of the object: a restart sets the first   *)
(* to zero and counts the second anew from the file.                       *)
(***************************************************************************)
EXTENDS LogFile, FiniteSets

CONSTANTS
  MaxEntries,  \* bound: entries ever written
  DiskFaults   \* whether a write may raise while the process lives on

ASSUME WalAssumption ==
  /\ MaxEntries \in Nat
  /\ DiskFaults \in BOOLEAN
  /\ Garbled # NoTail
  /\ {Garbled, NoTail} \cap (1..MaxEntries) = {}

Entry == 1..MaxEntries

VARIABLES
  entriesWritten,  \* _entries_written
  committedCount,  \* _committed_count
  pc,              \* "down", "idle" or "writing"
  last,            \* the newest entry handed to write()
  acked,           \* history: written, not checkpointed or truncated since
  committed        \* history: covered by a checkpoint() that returned

vars == <<file, entriesWritten, committedCount, pc, last, acked, committed>>

TypeOK ==
  /\ lines \in Seq(Entry \union {Garbled})
  /\ tail \in Entry \union {Garbled, NoTail}
  /\ entriesWritten \in Nat
  /\ committedCount \in 0..entriesWritten
  /\ pc \in {"down", "idle", "writing"}
  /\ last \in 0..MaxEntries
  /\ acked \in SUBSET Entry
  /\ committed \in SUBSET Entry

Init ==
  /\ lines = <<>>
  /\ tail = NoTail
  /\ entriesWritten = 0
  /\ committedCount = 0
  /\ pc = "down"
  /\ last = 0
  /\ acked = {}
  /\ committed = {}

-----------------------------------------------------------------------------
(* WriteAheadLog(path): the entries in the file are counted, not parsed.   *)
Start ==
  /\ pc = "down"
  /\ entriesWritten' = Len(Contents)
  /\ committedCount' = 0
  /\ pc' = "idle"
  /\ UNCHANGED <<file, last, acked, committed>>

(* write(entry), up to the append to the log.                              *)
BeginWrite ==
  /\ pc = "idle"
  /\ last < MaxEntries
  /\ last' = last + 1
  /\ pc' = "writing"
  /\ UNCHANGED <<file, entriesWritten, committedCount, acked, committed>>

(* Mutant: the entry is written after one that a retry already wrote.      *)
WriteOk_Twice ==
  /\ pc = "writing"
  /\ lines' = lines \o <<Merged(last), last>>
  /\ tail' = NoTail
  /\ entriesWritten' = entriesWritten + 1
  /\ acked' = acked \union {last}
  /\ pc' = "idle"
  /\ UNCHANGED <<committedCount, last, committed>>

(* write() returns: the entry is in the file and synced.                   *)
WriteOk ==
  /\ pc = "writing"
  /\ WriteLine(last)
  /\ entriesWritten' = entriesWritten + 1
  /\ acked' = acked \union {last}
  /\ pc' = "idle"
  /\ UNCHANGED <<committedCount, last, committed>>

(* write() raises (mkstemp, write, flush or fsync); whatever reached the   *)
(* log stays there and is not counted.                                     *)
WriteFails ==
  /\ DiskFaults
  /\ pc = "writing"
  /\ WritePart(last)
  /\ pc' = "idle"
  /\ UNCHANGED <<entriesWritten, committedCount, last, acked, committed>>

(* Mutants: the checkpoint covers the entry after the last one as well, or *)
(* not the last one.                                                       *)
Checkpoint_Short ==
  /\ pc = "idle"
  /\ entriesWritten > 0
  /\ committedCount' = entriesWritten - 1
  /\ committed' = committed \union acked
  /\ acked' = {}
  /\ UNCHANGED <<file, entriesWritten, pc, last>>
Checkpoint_OffByOne ==
  /\ pc = "idle"
  /\ committedCount' = entriesWritten + 1
  /\ committed' = committed \union acked
  /\ acked' = {}
  /\ UNCHANGED <<file, entriesWritten, pc, last>>

(* checkpoint().                                                           *)
Checkpoint ==
  /\ pc = "idle"
  /\ committedCount' = entriesWritten
  /\ committed' = committed \union acked
  /\ acked' = {}
  /\ UNCHANGED <<file, entriesWritten, pc, last>>

(* truncate(): the file is removed and both counters restart.              *)
Truncate ==
  /\ pc = "idle"
  /\ lines' = <<>>
  /\ tail' = NoTail
  /\ entriesWritten' = 0
  /\ committedCount' = 0
  /\ acked' = {}
  /\ UNCHANGED <<pc, last, committed>>

(* The process dies, possibly in the middle of a write.                    *)
Crash ==
  /\ pc # "down"
  /\ IF pc = "writing" THEN WritePart(last) ELSE UNCHANGED file
  /\ pc' = "down"
  /\ entriesWritten' = 0
  /\ committedCount' = 0
  /\ UNCHANGED <<last, acked, committed>>

Next ==
  \/ Start \/ BeginWrite \/ WriteOk \/ WriteFails
  \/ Checkpoint \/ Truncate \/ Crash

Spec == Init /\ [][Next]_vars

-----------------------------------------------------------------------------
(* What recover() returns when it does not raise.                          *)
Recovered == SubSeq(Contents, committedCount + 1, Len(Contents))

CanRecover == pc = "idle" /\ Readable

(* recover() never skips an entry that was acknowledged after the last     *)
(* checkpoint: the two counters may drift from the file (uncounted entries *)
(* of failed writes, a torn line counted as one), but never so far that    *)
(* the committed position passes an entry nobody committed.                *)
RecoverKeepsAcked == CanRecover => acked \subseteq ToSet(Recovered)

(* recover() returns entries in the order of the writes, each one once,    *)
(* even when failed and repeated writes left something behind.             *)
RecoverInWriteOrder ==
  CanRecover => \A i, j \in DOMAIN Recovered : i < j => Recovered[i] < Recovered[j]

(* A checkpoint of this process keeps what it committed out of recover(),  *)
(* with one exception per failed write whose line reached the file all the *)
(* same: such a line is in the file and not in the counters, and shifts    *)
(* the committed position by one.                                          *)
Uncounted == Len(Contents) - entriesWritten

CheckpointHolds ==
  CanRecover /\ committedCount > 0 =>
    Cardinality(committed \cap ToSet(Recovered)) <= Uncounted

(* wal.py:3: "Ensures that audit entries survive process crashes": after a *)
(* restart recover() gives back what was acknowledged.  A crash in the     *)
(* middle of a later write leaves half a line, and then recover() raises   *)
(* instead of returning the complete entries before it.                    *)
EntriesSurviveCrashes ==
  pc = "idle" => \A e \in acked : Readable /\ e \in ToSet(Recovered)

(* recover() returns the entries written since the last checkpoint, in     *)
(* order and once each, and of the committed ones only as many as failed   *)
(* writes left uncounted in the file.                                      *)
RecoverIsExact == RecoverInWriteOrder /\ CheckpointHolds
=============================================================================
