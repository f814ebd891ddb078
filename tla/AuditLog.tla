------------------------------ MODULE AuditLog ------------------------------
(***************************************************************************)
(* The hash-chained audit log of mcp_monitor/audit/log.py.                 *)
(*                                                                         *)
(* append() links the new entry to the last entry IN MEMORY, puts it into  *)
(* memory and only then writes it to the file; the write may raise         *)
(* (DiskFaults) and the process may die in the middle of it.  At the next  *)
(* start _load reads the file back, or raises on a line that is not JSON,  *)
(* and then there is no log object at all.                                 *)
(*                                                                         *)
(* An entry's hash covers its contents, so it stands for the entry: `hash` *)
(* is the entry's number and `prev` the number of the entry it was chained *)
(* to, 0 being the genesis value "0" * 64.                                 *)
(***************************************************************************)
EXTENDS LogFile

CONSTANTS
  MaxEntries,  \* bound: entries ever appended
  DiskFaults   \* whether a write may raise while the process lives on

ASSUME AuditAssumption ==
  /\ MaxEntries \in Nat
  /\ DiskFaults \in BOOLEAN
  /\ Garbled # NoTail

Entry == [hash : 1..MaxEntries, prev : 0..MaxEntries]

ASSUME AuditEntryAssumption == {Garbled, NoTail} \cap Entry = {}

VARIABLES
  entries,   \* _entries
  pc,        \* "down", "idle" or "persisting" (inside append)
  count,     \* entries created so far: the next entry's contents are new
  returned,  \* history: hashes of the entries append() has returned
  raised     \* history: hashes of the entries whose append() raised

vars == <<file, entries, pc, count, returned, raised>>

TypeOK ==
  /\ lines \in Seq(Entry \union {Garbled})
  /\ tail \in Entry \union {Garbled, NoTail}
  /\ entries \in Seq(Entry)
  /\ pc \in {"down", "idle", "persisting"}
  /\ count \in 0..MaxEntries
  /\ returned \in SUBSET (1..MaxEntries)
  /\ raised \in SUBSET (1..MaxEntries)

Init ==
  /\ lines = <<>>
  /\ tail = NoTail
  /\ entries = <<>>
  /\ pc = "down"
  /\ count = 0
  /\ returned = {}
  /\ raised = {}

LastHash == IF entries = <<>> THEN 0 ELSE Last(entries).hash

-----------------------------------------------------------------------------

(* Mutant of _load: the file is not read at all.                          *)
Load_Nothing ==
  /\ pc = "down"
  /\ Readable
  /\ pc' = "idle"
  /\ UNCHANGED <<file, entries, count, returned, raised>>

(* AuditLog(...): _load succeeds only if every line is JSON.               *)
Load ==
  /\ pc = "down"
  /\ Readable
  /\ entries' = Contents
  /\ pc' = "idle"
  /\ UNCHANGED <<file, count, returned, raised>>

(* _load raises: there is no log object, and the gateway does not start.   *)
LoadFails ==
  /\ pc = "down"
  /\ ~Readable
  /\ UNCHANGED vars

(* Mutant: the entry is chained to its predecessor's predecessor.          *)
BeginAppend_StaleHash ==
  /\ pc = "idle"
  /\ count < MaxEntries
  /\ count' = count + 1
  /\ entries' = Append(entries,
       [hash |-> count', prev |-> IF entries = <<>> THEN 0 ELSE Last(entries).prev])
  /\ pc' = "persisting"
  /\ UNCHANGED <<file, returned, raised>>

(* append() up to _persist.                                                *)
BeginAppend ==
  /\ pc = "idle"
  /\ count < MaxEntries
  /\ count' = count + 1
  /\ entries' = Append(entries, [hash |-> count', prev |-> LastHash])
  /\ pc' = "persisting"
  /\ UNCHANGED <<file, returned, raised>>

(* Mutant: append() returns an entry that was not written.                 *)
PersistOk_Unwritten ==
  /\ pc = "persisting"
  /\ returned' = returned \union {Last(entries).hash}
  /\ pc' = "idle"
  /\ UNCHANGED <<file, entries, count, raised>>

(* _persist succeeds and append() returns the entry.                       *)
PersistOk ==
  /\ pc = "persisting"
  /\ WriteLine(Last(entries))
  /\ returned' = returned \union {Last(entries).hash}
  /\ pc' = "idle"
  /\ UNCHANGED <<entries, count, raised>>

(* _persist raises: append() propagates it, but memory keeps the entry.    *)
PersistFails ==
  /\ DiskFaults
  /\ pc = "persisting"
  /\ WritePart(Last(entries))
  /\ raised' = raised \union {Last(entries).hash}
  /\ pc' = "idle"
  /\ UNCHANGED <<entries, count, returned>>

(* The process dies, possibly in the middle of a write.                    *)
Crash ==
  /\ pc # "down"
  /\ IF pc = "persisting" THEN WritePart(Last(entries)) ELSE UNCHANGED file
  /\ entries' = <<>>
  /\ pc' = "down"
  /\ UNCHANGED <<count, returned, raised>>

Next ==
  \/ Load \/ LoadFails
  \/ BeginAppend \/ PersistOk \/ PersistFails
  \/ Crash

Spec == Init /\ [][Next]_vars

-----------------------------------------------------------------------------
(* verify_chain() on a sequence of entries.                                *)
Chained(log) ==
  \A i \in DOMAIN log : log[i].prev = IF i = 1 THEN 0 ELSE log[i - 1].hash

Hashes(log) == {log[i].hash : i \in DOMAIN log}

(* log.py:4-6: "If any historical entry is modified, verify_chain()        *)
(* reports the first broken index"; of a log nobody modified it should     *)
(* report none.  After one failed write the next entry is chained to an    *)
(* entry that only memory has, and after a restart a break is reported.    *)
UnmodifiedLogVerifies == pc # "down" => Chained(entries)

(* What does hold: the chain is linked through memory and read back from   *)
(* the file, through crashes, restarts and failed writes, and every break  *)
(* verify_chain() then reports is at an entry chained to one whose         *)
(* append() raised.  Without failed writes there is no break at all.       *)
BreaksOnlyAtFailedAppends ==
  pc # "down" =>
    \A i \in DOMAIN entries :
      entries[i].prev \in raised \/ entries[i].prev = IF i = 1 THEN 0 ELSE entries[i - 1].hash

(* An entry whose append() returned is never silently missing: whenever    *)
(* the file can be read, it is there, whatever crashes and failed writes   *)
(* came between.                                                           *)
NothingReturnedIsLost == Readable => returned \subseteq Hashes(Contents)

(* Memory and a readable file hold the same log, in the same order, but    *)
(* for entries whose append() raised, whenever no append is running: the   *)
(* same entries, and in both in the order in which they were made.         *)
NotRaised(log) == {e \in ToSet(log) : e.hash \notin raised}

OldestFirst(log) == \A i, j \in DOMAIN log : i < j => log[i].hash < log[j].hash

MemoryMatchesFile ==
  pc = "idle" /\ Readable =>
    /\ NotRaised(entries) = NotRaised(Contents)
    /\ OldestFirst(entries) /\ OldestFirst(Contents)
=============================================================================
