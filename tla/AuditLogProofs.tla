---------------------------- MODULE AuditLogProofs ----------------------------
(***************************************************************************)
(* The audit log's promises, proved for any number of entries, crashes and *)
(* failed writes.                                                          *)
(*                                                                         *)
(* Two facts carry the proof.  A file that cannot be read stays so, and    *)
(* one that can be read has grown by nothing or by the entry being written *)
(* (FileWritten).  And the entry being appended is linked to the last      *)
(* entry of the file, unless it is linked to one whose append() raised     *)
(* (LinkInv): memory and file differ in nothing else that the chain        *)
(* depends on.  That they hold the same entries in the same order needs    *)
(* two facts more: a new entry is younger than any there is                *)
(* (YoungestInv), and the entry being appended is the only one that memory *)
(* may have and the file not (SameInv).                                    *)
(***************************************************************************)
EXTENDS AuditLog, SequenceTheorems, TLAPS

LastOf(log) == IF log = <<>> THEN 0 ELSE Last(log).hash

(* No break but at an entry chained to one of `exempt`.                    *)
Linked(log, exempt) ==
  \A i \in 1..Len(log) :
    log[i].prev \in exempt \/ log[i].prev = IF i = 1 THEN 0 ELSE log[i - 1].hash

FileInv == Readable => Linked(Contents, raised) /\ returned \subseteq Hashes(Contents)

MemoryInv ==
  /\ pc # "down" => Linked(entries, raised)
  /\ pc = "persisting" => entries # <<>>

LinkInv ==
  /\ pc = "idle" /\ Readable =>
       LastOf(entries) \in raised \/ LastOf(entries) = LastOf(Contents)
  /\ pc = "persisting" /\ Readable =>
       Last(entries).prev \in raised \/ Last(entries).prev = LastOf(Contents)

IInv == TypeOK /\ FileInv /\ MemoryInv /\ LinkInv

-----------------------------------------------------------------------------
(* A readable file is one without a garbled line: a sequence of entries.    *)
LEMMA FileContents ==
  ASSUME TypeOK
  PROVE  /\ Contents \in Seq(Entry \union {Garbled})
         /\ Readable <=> \A i \in 1..Len(Contents) : Contents[i] # Garbled
         /\ Readable => Contents \in Seq(Entry)
<1>1. Contents \in Seq(Entry \union {Garbled})
  BY DEF TypeOK, Contents
<1>2. Readable <=> \A i \in 1..Len(Contents) : Contents[i] # Garbled
  BY <1>1 DEF Readable, ToSet
<1>3. QED BY <1>1, <1>2

(* A write makes an unreadable file no better, and a readable one longer   *)
(* by the entry at most.                                                   *)
LEMMA FileWritten ==
  ASSUME TypeOK, NEW x \in Entry, WriteLine(x) \/ WritePart(x)
  PROVE  /\ lines' \in Seq(Entry \union {Garbled})
         /\ tail' \in Entry \union {Garbled, NoTail}
         /\ Readable' =>
              /\ Readable
              /\ Contents' = Contents \/ Contents' = Append(Contents, x)
              /\ WriteLine(x) => Contents' = Append(Contents, x)
<1>1. /\ lines \in Seq(Entry \union {Garbled}) /\ tail \in Entry \union {Garbled, NoTail}
      /\ NoTail \notin Entry \union {Garbled} /\ Garbled \notin Entry
  BY AuditAssumption, AuditEntryAssumption DEF TypeOK
<1>2. CASE WriteLine(x)
  <2>1. lines' = Append(lines, Merged(x)) /\ tail' = NoTail /\ Contents' = lines'
    BY <1>2 DEF WriteLine, Contents
  <2>2. CASE tail = NoTail
    <3>1. Contents = lines /\ Contents' = Append(lines, x) /\ lines' = Append(lines, x)
      BY <2>1, <2>2 DEF Merged, Contents
    <3>2. ToSet(Append(lines, x)) = ToSet(lines) \union {x}
      BY <1>1 DEF ToSet
    <3>3. Readable' => Readable
      BY <3>1, <3>2 DEF Readable
    <3>4. QED BY <1>1, <2>1, <3>1, <3>3
  <2>3. CASE tail # NoTail
    <3>1. lines' = Append(lines, Garbled)
      BY <2>1, <2>3 DEF Merged
    <3>2. Garbled \in ToSet(lines')
      BY <1>1, <3>1 DEF ToSet
    <3>3. ~Readable'
      BY <2>1, <3>2 DEF Readable
    <3>4. QED BY <1>1, <2>1, <3>1, <3>3
  <2>4. QED BY <2>2, <2>3
<1>3. CASE tail' \in {Garbled, Merged(x)} /\ UNCHANGED lines
  <2>1. ~WriteLine(x)
    BY <1>1, <1>3 DEF WriteLine, Merged
  <2>2. CASE tail = NoTail /\ tail' = x
    <3>1. Contents = lines /\ Contents' = Append(lines, x)
      BY <1>1, <1>3, <2>2 DEF Contents
    <3>2. ToSet(Append(lines, x)) = ToSet(lines) \union {x}
      BY <1>1 DEF ToSet
    <3>3. Readable' => Readable
      BY <3>1, <3>2 DEF Readable
    <3>4. QED BY <1>1, <1>3, <2>1, <2>2, <3>1, <3>3
  <2>3. CASE tail' = Garbled
    <3>1. Contents' = Append(lines, Garbled)
      BY <1>1, <1>3, <2>3 DEF Contents
    <3>2. Garbled \in ToSet(Contents')
      BY <1>1, <3>1 DEF ToSet
    <3>3. ~Readable'
      BY <3>2 DEF Readable
    <3>4. QED BY <1>1, <1>3, <2>3, <3>3
  <2>4. QED BY <1>3, <2>2, <2>3 DEF Merged
<1>4. CASE UNCHANGED file
  BY <1>1, <1>4 DEF file, WriteLine, Merged, Readable, Contents, ToSet
<1>5. QED BY <1>2, <1>3, <1>4 DEF WritePart

LEMMA LastIsEntry ==
  ASSUME NEW log \in Seq(Entry), log # <<>>
  PROVE  Last(log) \in Entry /\ LastOf(log) = log[Len(log)].hash
BY ElementOfSeq, EmptySeq, LenProperties DEF Last, LastOf

LEMMA AppendLinks ==
  ASSUME NEW log \in Seq(Entry), NEW e \in Entry, NEW exempt,
         Linked(log, exempt), e.prev \in exempt \/ e.prev = LastOf(log)
  PROVE  /\ Append(log, e) \in Seq(Entry)
         /\ Linked(Append(log, e), exempt)
         /\ LastOf(Append(log, e)) = e.hash
         /\ Hashes(Append(log, e)) = Hashes(log) \union {e.hash}
<1> DEFINE new == Append(log, e)
<1>1. /\ new \in Seq(Entry) /\ new # <<>> /\ Len(new) = Len(log) + 1
      /\ \A i \in 1..Len(log) : new[i] = log[i]
      /\ new[Len(log) + 1] = e
  BY AppendProperties
<1>2. Len(log) \in Nat /\ DOMAIN log = 1..Len(log) /\ DOMAIN new = 1..Len(new)
  BY <1>1, LenProperties
<1>3. LastOf(new) = e.hash
  BY <1>1, <1>2, LastIsEntry
<1>4. Hashes(new) = Hashes(log) \union {e.hash}
  BY <1>1, <1>2 DEF Hashes
<1>5. ASSUME NEW i \in 1..Len(new)
      PROVE  new[i].prev \in exempt \/ new[i].prev = IF i = 1 THEN 0 ELSE new[i - 1].hash
  <2>1. CASE i \in 1..Len(log)
    <3>1. new[i] = log[i] /\ (i # 1 => i - 1 \in 1..Len(log) /\ new[i - 1] = log[i - 1])
      BY <1>1, <1>2, <2>1
    <3>2. QED
      BY <2>1, <3>1 DEF Linked
  <2>2. CASE i = Len(log) + 1 /\ log = <<>>
    <3>1. i = 1 /\ LastOf(log) = 0
      BY <2>2, EmptySeq DEF LastOf
    <3>2. QED
      BY <1>1, <2>2, <3>1
  <2>3. CASE i = Len(log) + 1 /\ log # <<>>
    <3>1. Len(log) \in 1..Len(log) /\ LastOf(log) = log[Len(log)].hash
      BY <1>2, <2>3, EmptySeq, LastIsEntry
    <3>2. new[i] = e /\ new[i - 1] = log[Len(log)] /\ i # 1
      BY <1>1, <1>2, <2>3, <3>1
    <3>3. QED
      BY <3>1, <3>2
  <2>4. QED
    BY <1>1, <1>2, <2>1, <2>2, <2>3
<1>6. QED
  BY <1>1, <1>3, <1>4, <1>5 DEF Linked

LEMMA MoreExempt ==
  ASSUME NEW log, NEW exempt, NEW more, exempt \subseteq more, Linked(log, exempt)
  PROVE  Linked(log, more)
BY DEF Linked

-----------------------------------------------------------------------------
LEMMA AuditInit == Init => IInv
<1> SUFFICES ASSUME Init
             PROVE  IInv
  OBVIOUS
<1>1. TypeOK
  BY AuditAssumption DEF Init, TypeOK
<1>2. Contents = <<>> /\ Len(<<>>) = 0
  BY DEF Init, Contents
<1>3. QED
  BY <1>1, <1>2
     DEF Init, IInv, FileInv, MemoryInv, LinkInv, Linked, Hashes

(* The entry being appended.                                               *)
LEMMA Pending ==
  ASSUME TypeOK, MemoryInv, pc = "persisting"
  PROVE  /\ Last(entries) \in Entry
         /\ Last(entries).hash \in 1..MaxEntries
         /\ LastOf(entries) = Last(entries).hash
<1>1. entries \in Seq(Entry) /\ entries # <<>>
  BY DEF TypeOK, MemoryInv
<1>2. QED
  BY <1>1, LastIsEntry DEF LastOf, Entry

LEMMA AuditTypeStep ==
  ASSUME TypeOK, MemoryInv, [Next]_vars
  PROVE  TypeOK'
<1>1. CASE Load
  BY <1>1, FileContents DEF Load, TypeOK, file
<1>2. CASE LoadFails
  BY <1>2 DEF LoadFails, TypeOK, vars, file
<1>3. CASE BeginAppend
  <2>1. LastHash \in 0..MaxEntries
    <3>1. CASE entries = <<>>
      BY <3>1, AuditAssumption DEF LastHash
    <3>2. CASE entries # <<>>
      <4>1. Last(entries) \in Entry
        BY <3>2, LastIsEntry DEF TypeOK
      <4>2. QED BY <3>2, <4>1, AuditAssumption DEF LastHash, Entry
    <3>3. QED BY <3>1, <3>2
  <2>2. count' \in 1..MaxEntries
    BY <1>3, AuditAssumption DEF BeginAppend, TypeOK
  <2>3. [hash |-> count', prev |-> LastHash] \in Entry
    BY <2>1, <2>2 DEF Entry
  <2>4. entries' \in Seq(Entry)
    BY <1>3, <2>3, AppendProperties DEF BeginAppend, TypeOK
  <2>5. count' \in 0..MaxEntries
    BY <2>2, AuditAssumption
  <2>6. QED
    BY <1>3, <2>4, <2>5 DEF BeginAppend, TypeOK, file
<1>4. CASE PersistOk
  BY <1>4, Pending, FileWritten DEF PersistOk, TypeOK
<1>5. CASE PersistFails
  BY <1>5, Pending, FileWritten DEF PersistFails, TypeOK
<1>6. CASE Crash
  <2>1. lines' \in Seq(Entry \union {Garbled}) /\ tail' \in Entry \union {Garbled, NoTail}
    <3>1. CASE pc = "persisting"
      BY <1>6, <3>1, Pending, FileWritten DEF Crash
    <3>2. CASE pc # "persisting"
      BY <1>6, <3>2 DEF Crash, TypeOK, file
    <3>3. QED BY <3>1, <3>2
  <2>2. QED
    BY <1>6, <2>1 DEF Crash, TypeOK
<1>7. CASE UNCHANGED vars
  BY <1>7 DEF TypeOK, vars, file
<1>8. QED
  BY <1>1, <1>2, <1>3, <1>4, <1>5, <1>6, <1>7 DEF Next

(* What writing the pending entry, wholly or partly, makes of the file.    *)
LEMMA PendingWritten ==
  ASSUME IInv, TypeOK', pc = "persisting", Readable',
         WriteLine(Last(entries)) \/ WritePart(Last(entries)),
         raised \subseteq raised'
  PROVE  /\ Linked(Contents', raised')
         /\ returned \subseteq Hashes(Contents')
         /\ WriteLine(Last(entries)) =>
              /\ LastOf(Contents') = LastOf(entries)
              /\ Last(entries).hash \in Hashes(Contents')
<1> DEFINE e == Last(entries)
<1>1. e \in Entry /\ LastOf(entries) = e.hash
  BY Pending DEF IInv
<1>2. /\ Readable
      /\ Contents' = Contents \/ Contents' = Append(Contents, e)
      /\ WriteLine(e) => Contents' = Append(Contents, e)
  BY <1>1, FileWritten DEF IInv
<1>3. Contents \in Seq(Entry)
  BY <1>2, FileContents DEF IInv
<1>4. Linked(Contents, raised) /\ returned \subseteq Hashes(Contents)
  BY <1>2 DEF IInv, FileInv
<1>5. e.prev \in raised \/ e.prev = LastOf(Contents)
  BY <1>2 DEF IInv, LinkInv
<1>6. /\ Linked(Append(Contents, e), raised)
      /\ LastOf(Append(Contents, e)) = e.hash
      /\ Hashes(Append(Contents, e)) = Hashes(Contents) \union {e.hash}
  BY <1>1, <1>3, <1>4, <1>5, AppendLinks
<1>7. Linked(Contents', raised)
  BY <1>2, <1>4, <1>6
<1>8. Linked(Contents', raised')
  BY <1>7, MoreExempt
<1>9. QED
  BY <1>1, <1>2, <1>4, <1>6, <1>8

LEMMA AuditStep == IInv /\ [Next]_vars => IInv'
<1> SUFFICES ASSUME IInv, [Next]_vars
             PROVE  IInv'
  OBVIOUS
<1>1. TypeOK'
  BY AuditTypeStep DEF IInv
<1>2. CASE Load
  <2>1. Contents' = Contents /\ (Readable' <=> Readable) /\ raised' = raised
    BY <1>2 DEF Load, file, Contents, Readable
  <2>2. FileInv'
    BY <1>2, <2>1 DEF Load, IInv, FileInv
  <2>3. Linked(entries', raised') /\ pc' = "idle" /\ entries' = Contents
    BY <1>2, <2>1 DEF Load, IInv, FileInv
  <2>4. MemoryInv' /\ LinkInv'
    BY <2>1, <2>3 DEF MemoryInv, LinkInv
  <2>5. QED BY <1>1, <2>2, <2>4 DEF IInv
<1>3. CASE LoadFails
  BY <1>1, <1>3
     DEF LoadFails, vars, file, IInv, FileInv, MemoryInv, LinkInv, Contents, Readable
<1>4. CASE BeginAppend
  <2> DEFINE e == [hash |-> count', prev |-> LastHash]
  <2>1. /\ Contents' = Contents /\ (Readable' <=> Readable)
        /\ raised' = raised /\ returned' = returned
    BY <1>4 DEF BeginAppend, file, Contents, Readable
  <2>2. FileInv'
    BY <2>1 DEF IInv, FileInv
  <2>3. entries \in Seq(Entry) /\ entries' = Append(entries, e) /\ LastHash = LastOf(entries)
    BY <1>4 DEF BeginAppend, IInv, TypeOK, LastHash, LastOf
  <2>4. e \in Entry
    <3>1. count' \in 1..MaxEntries
      BY <1>4, AuditAssumption DEF BeginAppend, IInv, TypeOK
    <3>2. LastHash \in 0..MaxEntries
      <4>1. CASE entries = <<>>
        BY <4>1, AuditAssumption DEF LastHash
      <4>2. CASE entries # <<>>
        <5>1. Last(entries) \in Entry
          BY <2>3, <4>2, LastIsEntry
        <5>2. QED BY <4>2, <5>1, AuditAssumption DEF LastHash, Entry
      <4>3. QED BY <4>1, <4>2
    <3>3. QED BY <3>1, <3>2 DEF Entry
  <2>5. Linked(entries, raised)
    BY <1>4 DEF BeginAppend, IInv, MemoryInv
  <2>6. Linked(entries', raised') /\ entries' # <<>> /\ Last(entries') = e
    <3>1. Linked(Append(entries, e), raised)
      BY <2>3, <2>4, <2>5, AppendLinks
    <3>2. entries' # <<>> /\ Len(entries') = Len(entries) + 1
          /\ entries'[Len(entries) + 1] = e
      BY <2>3, <2>4, AppendProperties
    <3>3. QED BY <2>1, <2>3, <3>1, <3>2 DEF Last
  <2>7. MemoryInv'
    BY <2>6 DEF MemoryInv
  <2>8. LinkInv'
    <3>1. pc = "idle" /\ pc' = "persisting" /\ e.prev = LastOf(entries)
      BY <1>4, <2>3 DEF BeginAppend
    <3>2. Readable => LastOf(entries) \in raised \/ LastOf(entries) = LastOf(Contents)
      BY <3>1 DEF IInv, LinkInv
    <3>3. QED BY <2>1, <2>6, <3>1, <3>2 DEF LinkInv
  <2>9. QED BY <1>1, <2>2, <2>7, <2>8 DEF IInv
<1>5. CASE PersistOk
  <2>1. /\ pc = "persisting" /\ pc' = "idle" /\ WriteLine(Last(entries))
        /\ returned' = returned \union {Last(entries).hash}
        /\ entries' = entries /\ raised' = raised
    BY <1>5 DEF PersistOk
  <2>2. Readable' => /\ Linked(Contents', raised')
                     /\ returned' \subseteq Hashes(Contents')
                     /\ LastOf(Contents') = LastOf(entries')
    BY <1>1, <2>1, PendingWritten
  <2>3. FileInv' /\ LinkInv'
    BY <2>1, <2>2 DEF FileInv, LinkInv
  <2>4. MemoryInv'
    BY <2>1 DEF IInv, MemoryInv
  <2>5. QED BY <1>1, <2>3, <2>4 DEF IInv
<1>6. CASE PersistFails
  <2>1. /\ pc = "persisting" /\ pc' = "idle" /\ WritePart(Last(entries))
        /\ raised' = raised \union {Last(entries).hash}
        /\ entries' = entries /\ returned' = returned
    BY <1>6 DEF PersistFails
  <2>2. Readable' => Linked(Contents', raised') /\ returned' \subseteq Hashes(Contents')
    BY <1>1, <2>1, PendingWritten
  <2>3. LastOf(entries') \in raised'
    BY <2>1, Pending DEF IInv
  <2>4. FileInv' /\ LinkInv'
    BY <2>1, <2>2, <2>3 DEF FileInv, LinkInv
  <2>5. Linked(entries, raised')
    BY <2>1, MoreExempt DEF IInv, MemoryInv
  <2>6. MemoryInv'
    BY <2>1, <2>5 DEF MemoryInv
  <2>7. QED BY <1>1, <2>4, <2>6 DEF IInv
<1>7. CASE Crash
  <2>1. pc' = "down" /\ returned' = returned /\ raised' = raised
    BY <1>7 DEF Crash
  <2>2. ASSUME Readable'
        PROVE  Linked(Contents', raised') /\ returned' \subseteq Hashes(Contents')
    <3>1. CASE pc = "persisting"
      BY <1>1, <1>7, <2>1, <2>2, <3>1, PendingWritten DEF Crash
    <3>2. CASE pc # "persisting"
      <4>1. Contents' = Contents /\ Readable
        BY <1>7, <2>2, <3>2 DEF Crash, file, Contents, Readable
      <4>2. QED BY <2>1, <4>1 DEF IInv, FileInv
    <3>3. QED BY <3>1, <3>2
  <2>3. FileInv' /\ MemoryInv' /\ LinkInv'
    BY <2>1, <2>2 DEF FileInv, MemoryInv, LinkInv
  <2>4. QED BY <1>1, <2>3 DEF IInv
<1>8. CASE UNCHANGED vars
  BY <1>1, <1>8
     DEF vars, file, IInv, FileInv, MemoryInv, LinkInv, Contents, Readable
<1>9. QED
  BY <1>2, <1>3, <1>4, <1>5, <1>6, <1>7, <1>8 DEF Next

LEMMA AuditInvariant == Spec => []IInv
BY AuditInit, AuditStep, PTL DEF Spec

-----------------------------------------------------------------------------
(* The log's variables keep their types, for any number of entries.        *)
THEOREM AuditTypeCorrect == Spec => []TypeOK
<1>1. IInv => TypeOK
  BY DEF IInv
<1>2. QED BY <1>1, AuditInvariant, PTL

(* verify_chain() reports a break in an unmodified log only at an entry    *)
(* chained to one whose append() raised, whatever crashes, restarts and    *)
(* failed writes came between.                                             *)
THEOREM AuditBreaks == Spec => []BreaksOnlyAtFailedAppends
<1>1. IInv => BreaksOnlyAtFailedAppends
  <2> SUFFICES ASSUME IInv, pc # "down", NEW i \in DOMAIN entries
               PROVE  \/ entries[i].prev \in raised
                      \/ entries[i].prev = IF i = 1 THEN 0 ELSE entries[i - 1].hash
    BY DEF BreaksOnlyAtFailedAppends
  <2>1. i \in 1..Len(entries)
    BY LenProperties DEF IInv, TypeOK
  <2>2. QED BY <2>1 DEF IInv, MemoryInv, Linked
<1>2. QED BY <1>1, AuditInvariant, PTL

(* No entry that append() returned is missing from a readable file.        *)
THEOREM AuditKeepsReturned == Spec => []NothingReturnedIsLost
<1>1. IInv => NothingReturnedIsLost
  BY DEF IInv, FileInv, NothingReturnedIsLost
<1>2. QED BY <1>1, AuditInvariant, PTL

(* When no write fails in a process that goes on, crashes included, an     *)
(* unmodified log always verifies.                                         *)
THEOREM AuditVerifies ==
  ASSUME ~DiskFaults
  PROVE  Spec => []UnmodifiedLogVerifies
<1> DEFINE NoneRaised == raised = {}
<1>1. Init => NoneRaised
  BY DEF Init
<1>2. NoneRaised /\ [Next]_vars => NoneRaised'
  BY DEF Next, Load, LoadFails, BeginAppend, PersistOk, PersistFails, Crash, vars
<1>3. NoneRaised /\ IInv => UnmodifiedLogVerifies
  <2> SUFFICES ASSUME NoneRaised, IInv, pc # "down", NEW i \in DOMAIN entries
               PROVE  entries[i].prev = IF i = 1 THEN 0 ELSE entries[i - 1].hash
    BY DEF UnmodifiedLogVerifies, Chained
  <2>1. i \in 1..Len(entries)
    BY LenProperties DEF IInv, TypeOK
  <2>2. QED BY <2>1 DEF IInv, MemoryInv, Linked
<1>4. QED BY <1>1, <1>2, <1>3, AuditInvariant, PTL DEF Spec

-----------------------------------------------------------------------------
(* Memory and file.  The entry being appended apart, both hold the same    *)
(* entries but for those whose append() raised (SameInv); and a new entry  *)
(* is younger than any in either (YoungestInv), so both keep the order in  *)
(* which the entries were made.                                            *)

Youngest(log) == OldestFirst(log) /\ \A i \in DOMAIN log : log[i].hash <= count

YoungestInv ==
  /\ Readable => Youngest(Contents)
  /\ pc # "down" => Youngest(entries)
  /\ pc = "persisting" => Last(entries).hash = count
  /\ pc = "persisting" /\ Readable => \A i \in DOMAIN Contents : Contents[i].hash < count

SameInv ==
  /\ pc = "idle" /\ Readable => NotRaised(entries) = NotRaised(Contents)
  /\ pc = "persisting" =>
       /\ Last(entries) \in ToSet(entries)
       /\ Readable =>
            NotRaised(entries) \ {Last(entries)} = NotRaised(Contents) \ {Last(entries)}

MatchInv == YoungestInv /\ SameInv

LEMMA HashType ==
  ASSUME NEW log \in Seq(Entry), NEW i \in DOMAIN log
  PROVE  log[i] \in Entry /\ log[i].hash \in Int
<1>1. log[i] \in Entry
  BY ElementOfSeq, LenProperties
<1>2. \A e \in Entry : e.hash \in Int
  BY DEF Entry
<1> QED
  BY <1>1, <1>2

(* An entry added to a log of older ones.                                  *)
LEMMA AppendYoungest ==
  ASSUME NEW log \in Seq(Entry), NEW e \in Entry, OldestFirst(log),
         \A i \in DOMAIN log : log[i].hash < e.hash
  PROVE  /\ OldestFirst(Append(log, e))
         /\ \A i \in DOMAIN Append(log, e) : Append(log, e)[i].hash <= e.hash
         /\ ToSet(Append(log, e)) = ToSet(log) \union {e}
<1> DEFINE new == Append(log, e)
           m == Len(log)
<1>1. /\ m \in Nat /\ DOMAIN log = 1..m /\ DOMAIN new = 1..(m + 1)
      /\ \A i \in 1..m : new[i] = log[i]
      /\ new[m + 1] = e
  BY AppendProperties, LenProperties
<1>2. e.hash \in Int /\ \A i \in 1..m : log[i] \in Entry /\ log[i].hash \in Int
  <2>1. e.hash \in Int
    BY DEF Entry
  <2>2. \A i \in 1..m : log[i] \in Entry /\ log[i].hash \in Int
    BY <1>1, HashType
  <2> QED
    BY <2>1, <2>2
<1> HIDE DEF new, m
<1>3. 1..(m + 1) = 1..m \union {m + 1}
  BY <1>1
<1>4. ToSet(new) = ToSet(log) \union {e}
  BY <1>1, <1>3 DEF ToSet
<1>5. \A i \in DOMAIN new : new[i].hash <= e.hash
  BY <1>1, <1>2, <1>3
<1>6. OldestFirst(new)
  <2> SUFFICES ASSUME NEW i \in 1..(m + 1), NEW j \in 1..(m + 1), i < j
               PROVE  new[i].hash < new[j].hash
    BY <1>1 DEF OldestFirst
  <2>1. i \in 1..m
    BY <1>1
  <2>2. CASE j = m + 1
    BY <1>1, <2>1, <2>2
  <2>3. CASE j # m + 1
    BY <1>1, <1>3, <2>1, <2>3 DEF OldestFirst
  <2> QED
    BY <2>2, <2>3
<1> QED
  BY <1>4, <1>5, <1>6 DEF new

(* What writing the pending entry, wholly or partly, leaves in the file.   *)
LEMMA PendingKept ==
  ASSUME IInv, MatchInv, pc = "persisting", Readable', count' = count,
         WriteLine(Last(entries)) \/ WritePart(Last(entries))
  PROVE  /\ Readable /\ Youngest(Contents)'
         /\ ToSet(Contents)' = ToSet(Contents)
              \/ ToSet(Contents)' = ToSet(Contents) \union {Last(entries)}
         /\ WriteLine(Last(entries)) => ToSet(Contents)' = ToSet(Contents) \union {Last(entries)}
<1> DEFINE e == Last(entries)
<1>1. e \in Entry /\ e.hash = count
  BY Pending DEF IInv, MatchInv, YoungestInv
<1>2. /\ Readable
      /\ Contents' = Contents \/ Contents' = Append(Contents, e)
      /\ WriteLine(e) => Contents' = Append(Contents, e)
  BY <1>1, FileWritten DEF IInv
<1>3. Contents \in Seq(Entry)
  BY <1>2, FileContents DEF IInv
<1>4. Youngest(Contents) /\ \A i \in DOMAIN Contents : Contents[i].hash < e.hash
  BY <1>1, <1>2 DEF MatchInv, YoungestInv
<1> HIDE DEF e
<1>5. /\ OldestFirst(Append(Contents, e))
      /\ \A i \in DOMAIN Append(Contents, e) : Append(Contents, e)[i].hash <= count
      /\ ToSet(Append(Contents, e)) = ToSet(Contents) \union {e}
  BY <1>1, <1>3, <1>4, AppendYoungest DEF Youngest
<1>6. Youngest(Contents)'
  BY <1>2, <1>4, <1>5 DEF Youngest, OldestFirst
<1>7. /\ ToSet(Contents)' = ToSet(Contents) \/ ToSet(Contents)' = ToSet(Contents) \union {e}
      /\ WriteLine(e) => ToSet(Contents)' = ToSet(Contents) \union {e}
  BY <1>2, <1>5
<1> QED
  BY <1>2, <1>6, <1>7 DEF e

LEMMA MatchInit == Init => MatchInv
<1> SUFFICES ASSUME Init
             PROVE  MatchInv
  OBVIOUS
<1>1. Contents = <<>> /\ DOMAIN Contents = {}
  BY DEF Init, Contents
<1> QED
  BY <1>1 DEF Init, MatchInv, YoungestInv, SameInv, Youngest, OldestFirst

LEMMA MatchStep ==
  ASSUME IInv, MatchInv, [Next]_vars
  PROVE  MatchInv'
<1> USE DEF MatchInv
<1>1. CASE Load
  <2>1. /\ Contents' = Contents /\ (Readable' <=> Readable) /\ entries' = Contents /\ Readable
        /\ raised' = raised /\ count' = count /\ pc' = "idle"
    BY <1>1 DEF Load, file, Contents, Readable
  <2>2. YoungestInv'
    BY <2>1 DEF YoungestInv, Youngest, OldestFirst
  <2>3. SameInv'
    BY <2>1 DEF SameInv, NotRaised, ToSet
  <2> QED
    BY <2>2, <2>3
<1>2. CASE LoadFails \/ UNCHANGED vars
  <2>1. /\ Contents' = Contents /\ (Readable' <=> Readable) /\ entries' = entries
        /\ raised' = raised /\ count' = count /\ pc' = pc
    BY <1>2 DEF LoadFails, vars, file, Contents, Readable
  <2> QED
    BY <2>1 DEF YoungestInv, SameInv, Youngest, OldestFirst, NotRaised, ToSet, Last
<1>3. CASE BeginAppend
  <2> DEFINE e == [hash |-> count', prev |-> LastHash]
  <2>1. /\ Contents' = Contents /\ (Readable' <=> Readable)
        /\ raised' = raised /\ count' = count + 1 /\ count < MaxEntries
        /\ pc = "idle" /\ pc' = "persisting"
        /\ entries' = Append(entries, e) /\ entries \in Seq(Entry)
    BY <1>3 DEF BeginAppend, file, Contents, Readable, IInv, TypeOK
  <2>2. entries' \in Seq(Entry)
    BY <1>3, AuditTypeStep DEF IInv, TypeOK
  <2>3. /\ Len(entries) \in Nat /\ Len(entries') = Len(entries) + 1
        /\ entries'[Len(entries')] = e /\ entries' # <<>> /\ e \in Entry
    BY <2>1, <2>2, AppendProperties, LenProperties, ElementOfSeq
  <2>4. Last(entries') = e /\ Last(entries') \in ToSet(entries')
    BY <2>3, <2>2, LenProperties DEF Last, ToSet
  <2>5. count \in Nat /\ e.hash = count + 1
    BY <2>1, AuditAssumption DEF IInv, TypeOK
  <2>6. /\ OldestFirst(entries) /\ \A i \in DOMAIN entries : entries[i].hash <= count
    BY <2>1 DEF YoungestInv, Youngest
  <2> HIDE DEF e
  <2>7. ASSUME NEW log \in Seq(Entry), \A i \in DOMAIN log : log[i].hash <= count
        PROVE  \A i \in DOMAIN log : log[i].hash < count + 1 /\ log[i].hash <= count + 1
    <3> TAKE i \in DOMAIN log
    <3>1. log[i].hash \in Int
      BY HashType
    <3> QED
      BY <2>5, <2>7, <3>1
  <2>8. /\ OldestFirst(entries')
        /\ \A i \in DOMAIN entries' : entries'[i].hash <= count'
        /\ ToSet(entries') = ToSet(entries) \union {e}
    BY <2>1, <2>3, <2>5, <2>6, <2>7, AppendYoungest
  <2>9. Readable => /\ Youngest(Contents)
                    /\ \A i \in DOMAIN Contents : Contents[i].hash < count'
                    /\ \A i \in DOMAIN Contents : Contents[i].hash <= count'
    <3> SUFFICES ASSUME Readable
                 PROVE  /\ Youngest(Contents)
                        /\ \A i \in DOMAIN Contents : Contents[i].hash < count'
                        /\ \A i \in DOMAIN Contents : Contents[i].hash <= count'
      OBVIOUS
    <3>1. Contents \in Seq(Entry)
      BY FileContents DEF IInv
    <3>2. Youngest(Contents)
      BY DEF YoungestInv
    <3> QED
      BY <2>1, <2>7, <3>1, <3>2 DEF Youngest
  <2>10. YoungestInv'
    <3>1. Youngest(entries)'
      BY <2>8 DEF Youngest, OldestFirst
    <3>2. Last(entries)'.hash = count'
      BY <2>1, <2>4, <2>5
    <3>3. Readable' => Youngest(Contents)' /\ \A i \in DOMAIN Contents' : Contents'[i].hash < count'
      BY <2>1, <2>9 DEF Youngest, OldestFirst
    <3> QED
      BY <3>1, <3>2, <3>3 DEF YoungestInv
  <2>11. SameInv'
    <3>1. ASSUME Readable
          PROVE  NotRaised(entries)' \ {e} = NotRaised(Contents)' \ {e}
      <4>1. NotRaised(entries) = NotRaised(Contents)
        BY <2>1, <3>1 DEF SameInv
      <4>2. NotRaised(Contents)' = NotRaised(Contents)
        BY <2>1 DEF NotRaised, ToSet
      <4>3. NotRaised(entries)' \ {e} = NotRaised(entries) \ {e}
        BY <2>1, <2>8 DEF NotRaised
      <4> QED
        BY <4>1, <4>2, <4>3
    <3> QED
      BY <2>1, <2>4, <3>1 DEF SameInv
  <2> QED
    BY <2>10, <2>11
<1>4. CASE PersistOk
  <2> DEFINE e == Last(entries)
  <2>1. /\ pc = "persisting" /\ pc' = "idle" /\ WriteLine(e)
        /\ entries' = entries /\ raised' = raised /\ count' = count
    BY <1>4 DEF PersistOk
  <2>2. Readable' => Youngest(Contents)' /\ Readable /\ ToSet(Contents)' = ToSet(Contents) \union {e}
    BY <2>1, PendingKept
  <2>3. YoungestInv'
    BY <2>1, <2>2 DEF YoungestInv, Youngest, OldestFirst
  <2>4. SameInv'
    <3> SUFFICES ASSUME Readable'
                 PROVE  NotRaised(entries)' = NotRaised(Contents)'
      BY <2>1 DEF SameInv
    <3>1. /\ e \in ToSet(entries)
          /\ NotRaised(entries) \ {e} = NotRaised(Contents) \ {e}
      BY <2>1, <2>2 DEF SameInv
    <3>2. ToSet(entries)' = ToSet(entries)
      BY <2>1 DEF ToSet
    <3> HIDE DEF e
    <3> QED
      BY <2>1, <2>2, <3>1, <3>2 DEF NotRaised
  <2> QED
    BY <2>3, <2>4
<1>5. CASE PersistFails
  <2> DEFINE e == Last(entries)
  <2>1. /\ pc = "persisting" /\ pc' = "idle" /\ WritePart(e)
        /\ entries' = entries /\ raised' = raised \union {e.hash} /\ count' = count
    BY <1>5 DEF PersistFails
  <2>2. Readable' => /\ Youngest(Contents)' /\ Readable
                     /\ \/ ToSet(Contents)' = ToSet(Contents)
                        \/ ToSet(Contents)' = ToSet(Contents) \union {e}
    BY <2>1, PendingKept
  <2>3. YoungestInv'
    BY <2>1, <2>2 DEF YoungestInv, Youngest, OldestFirst
  <2>4. SameInv'
    <3> SUFFICES ASSUME Readable'
                 PROVE  NotRaised(entries)' = NotRaised(Contents)'
      BY <2>1 DEF SameInv
    <3>1. NotRaised(entries) \ {e} = NotRaised(Contents) \ {e}
      BY <2>1, <2>2 DEF SameInv
    <3>2. ToSet(entries)' = ToSet(entries)
      BY <2>1 DEF ToSet
    <3> HIDE DEF e
    <3> QED
      BY <2>1, <2>2, <3>1, <3>2 DEF NotRaised
  <2> QED
    BY <2>3, <2>4
<1>6. CASE Crash
  <2>1. pc' = "down" /\ count' = count
    BY <1>6 DEF Crash
  <2>2. Readable' => Youngest(Contents)'
    <3>1. CASE pc = "persisting"
      BY <1>6, <2>1, <3>1, PendingKept DEF Crash
    <3>2. CASE pc # "persisting"
      <4>1. Contents' = Contents /\ (Readable' <=> Readable)
        BY <1>6, <3>2 DEF Crash, file, Contents, Readable
      <4> QED
        BY <2>1, <4>1 DEF YoungestInv, Youngest, OldestFirst
    <3> QED
      BY <3>1, <3>2
  <2> QED
    BY <2>1, <2>2 DEF YoungestInv, SameInv
<1> QED
  BY <1>1, <1>2, <1>3, <1>4, <1>5, <1>6 DEF Next

(* Whenever no append is running and the file can be read, it holds what   *)
(* memory holds, in the same order, but for entries whose append() raised: *)
(* neither a restart nor a failed write makes one of them forget or        *)
(* repeat an entry (append, _persist, _load).                              *)
THEOREM AuditMemoryMatchesFile == Spec => []MemoryMatchesFile
<1>1. IInv /\ MatchInv => MemoryMatchesFile
  BY DEF MatchInv, SameInv, YoungestInv, Youngest, MemoryMatchesFile
<1> QED
  BY <1>1, AuditInit, AuditStep, MatchInit, MatchStep, PTL DEF Spec
==============================================================================
