------------------------- MODULE WriteAheadLogProofs -------------------------
(***************************************************************************)
(* What recover() returns, proved for any number of entries, failed        *)
(* writes, crashes, checkpoints and truncations.                           *)
(*                                                                         *)
(* The position of the last checkpoint is a count of writes that returned, *)
(* and the file may hold more lines than that (a failed write's) but, as   *)
(* long as it can be read, never fewer: CountInv.  That is why the slice   *)
(* recover() takes of the file cannot begin too late.  It cannot begin     *)
(* much too early either: an entry counted as committed is behind the      *)
(* committed position, but for as many as failed writes left uncounted in  *)
(* the file (PassedInv, which needs that an entry being written was never  *)
(* committed: FreshInv).                                                   *)
(***************************************************************************)
EXTENDS WriteAheadLog, SequenceTheorems, FiniteSetTheorems, TLAPS

CountInv == Readable => entriesWritten <= Len(Contents)

AckedInv ==
  Readable => \A e \in acked :
    \E i \in 1..Len(Contents) : i > committedCount /\ Contents[i] = e

OrderInv ==
  Readable =>
    /\ \A i, j \in 1..Len(Contents) : i < j => Contents[i] < Contents[j]
    /\ \A i \in 1..Len(Contents) : Contents[i] <= last
    /\ pc = "writing" => \A i \in 1..Len(Contents) : Contents[i] < last

WritingInv == pc = "writing" => last \in Entry

IInv == TypeOK /\ CountInv /\ AckedInv /\ OrderInv /\ WritingInv

(* A readable file is one without a garbled line: a sequence of entries.    *)
LEMMA FileContents ==
  ASSUME TypeOK
  PROVE  /\ Contents \in Seq(Entry \union {Garbled})
         /\ Readable <=> \A i \in 1..Len(Contents) : Contents[i] # Garbled
         /\ Readable => Contents \in Seq(Entry)
<1>1. Contents \in Seq(Entry \union {Garbled})
  BY DEF TypeOK, Contents
<1>2. Readable <=> \A i \in 1..Len(Contents) : Contents[i] # Garbled
  BY <1>1 DEF Readable, ToSet
<1>3. QED BY <1>1, <1>2

(* A write makes an unreadable file no better, and a readable one longer   *)
(* by the entry at most.                                                   *)
LEMMA FileWritten ==
  ASSUME TypeOK, NEW x \in Entry, WriteLine(x) \/ WritePart(x)
  PROVE  /\ lines' \in Seq(Entry \union {Garbled})
         /\ tail' \in Entry \union {Garbled, NoTail}
         /\ Readable' =>
              /\ Readable
              /\ Contents' = Contents \/ Contents' = Append(Contents, x)
              /\ WriteLine(x) => Contents' = Append(Contents, x)
<1>1. /\ lines \in Seq(Entry \union {Garbled}) /\ tail \in Entry \union {Garbled, NoTail}
      /\ NoTail \notin Entry \union {Garbled} /\ Garbled \notin Entry
  BY WalAssumption DEF TypeOK, Entry
<1>2. CASE WriteLine(x)
  <2>1. lines' = Append(lines, Merged(x)) /\ tail' = NoTail /\ Contents' = lines'
    BY <1>2 DEF WriteLine, Contents
  <2>2. CASE tail = NoTail
    <3>1. Contents = lines /\ Contents' = Append(lines, x) /\ lines' = Append(lines, x)
      BY <2>1, <2>2 DEF Merged, Contents
    <3>2. ToSet(Append(lines, x)) = ToSet(lines) \union {x}
      BY <1>1 DEF ToSet
    <3>3. Readable' => Readable
      BY <3>1, <3>2 DEF Readable
    <3>4. QED BY <1>1, <2>1, <3>1, <3>3
  <2>3. CASE tail # NoTail
    <3>1. lines' = Append(lines, Garbled)
      BY <2>1, <2>3 DEF Merged
    <3>2. Garbled \in ToSet(lines')
      BY <1>1, <3>1 DEF ToSet
    <3>3. ~Readable'
      BY <2>1, <3>2 DEF Readable
    <3>4. QED BY <1>1, <2>1, <3>1, <3>3
  <2>4. QED BY <2>2, <2>3
<1>3. CASE tail' \in {Garbled, Merged(x)} /\ UNCHANGED lines
  <2>1. ~WriteLine(x)
    BY <1>1, <1>3 DEF WriteLine, Merged
  <2>2. CASE tail = NoTail /\ tail' = x
    <3>1. Contents = lines /\ Contents' = Append(lines, x)
      BY <1>1, <1>3, <2>2 DEF Contents
    <3>2. ToSet(Append(lines, x)) = ToSet(lines) \union {x}
      BY <1>1 DEF ToSet
    <3>3. Readable' => Readable
      BY <3>1, <3>2 DEF Readable
    <3>4. QED BY <1>1, <1>3, <2>1, <2>2, <3>1, <3>3
  <2>3. CASE tail' = Garbled
    <3>1. Contents' = Append(lines, Garbled)
      BY <1>1, <1>3, <2>3 DEF Contents
    <3>2. Garbled \in ToSet(Contents')
      BY <1>1, <3>1 DEF ToSet
    <3>3. ~Readable'
      BY <3>2 DEF Readable
    <3>4. QED BY <1>1, <1>3, <2>3, <3>3
  <2>4. QED BY <1>3, <2>2, <2>3 DEF Merged
<1>4. CASE UNCHANGED file
  BY <1>1, <1>4 DEF file, WriteLine, Merged, Readable, Contents, ToSet
<1>5. QED BY <1>2, <1>3, <1>4 DEF WritePart

LEMMA WalInit == Init => IInv
<1> SUFFICES ASSUME Init
             PROVE  IInv
  OBVIOUS
<1>1. TypeOK
  BY WalAssumption DEF Init, TypeOK
<1>2. Contents = <<>> /\ Len(Contents) = 0
  BY DEF Init, Contents
<1>3. QED
  BY <1>1, <1>2 DEF Init, IInv, CountInv, AckedInv, OrderInv, WritingInv

-----------------------------------------------------------------------------
(* What writing `last`, wholly or partly, makes of the file.               *)
LEMMA LastWritten ==
  ASSUME IInv, pc = "writing", Readable', WriteLine(last) \/ WritePart(last)
  PROVE  /\ Readable /\ Contents' \in Seq(Entry)
         /\ Contents' = Contents \/ Contents' = Append(Contents, last)
         /\ WriteLine(last) => Contents' = Append(Contents, last)
         /\ \A i \in 1..Len(Contents) : i \in 1..Len(Contents') /\ Contents'[i] = Contents[i]
         /\ \A i \in 1..Len(Contents') :
              i \in 1..Len(Contents) \/ (i = Len(Contents) + 1 /\ Contents'[i] = last)
<1>1. last \in Entry
  BY DEF IInv, WritingInv
<1>2. /\ Readable
      /\ Contents' = Contents \/ Contents' = Append(Contents, last)
      /\ WriteLine(last) => Contents' = Append(Contents, last)
  BY <1>1, FileWritten DEF IInv
<1>3. Contents \in Seq(Entry)
  BY <1>2, FileContents DEF IInv
<1>4. QED
  BY <1>1, <1>2, <1>3, AppendProperties, LenProperties

(* The order survives the write: every line before it is older.            *)
LEMMA OrderKept ==
  ASSUME IInv, pc = "writing", Readable', WriteLine(last) \/ WritePart(last)
  PROVE  /\ \A i, j \in 1..Len(Contents') : i < j => Contents'[i] < Contents'[j]
         /\ \A i \in 1..Len(Contents') : Contents'[i] <= last
<1>1. /\ Readable
      /\ \A i \in 1..Len(Contents) : i \in 1..Len(Contents') /\ Contents'[i] = Contents[i]
      /\ \A i \in 1..Len(Contents') :
           i \in 1..Len(Contents) \/ (i = Len(Contents) + 1 /\ Contents'[i] = last)
  BY LastWritten
<1>2. /\ \A i, j \in 1..Len(Contents) : i < j => Contents[i] < Contents[j]
      /\ \A i \in 1..Len(Contents) : Contents[i] < last
  BY <1>1 DEF IInv, OrderInv
<1>3. last \in Int /\ Len(Contents) \in Nat
  BY FileContents, LenProperties, WalAssumption DEF IInv, TypeOK
<1>4. \A i \in 1..Len(Contents') : Contents'[i] <= last
  <2> SUFFICES ASSUME NEW i \in 1..Len(Contents')
               PROVE  Contents'[i] <= last
    OBVIOUS
  <2>1. CASE i \in 1..Len(Contents)
    <3>1. Contents[i] \in Int
      BY <1>1, <2>1, FileContents, ElementOfSeq DEF IInv, Entry
    <3>2. QED BY <1>1, <1>2, <1>3, <2>1, <3>1
  <2>2. CASE i = Len(Contents) + 1 /\ Contents'[i] = last
    BY <1>3, <2>2
  <2>3. QED BY <1>1, <2>1, <2>2
<1>5. \A i, j \in 1..Len(Contents') : i < j => Contents'[i] < Contents'[j]
  <2> SUFFICES ASSUME NEW i \in 1..Len(Contents'), NEW j \in 1..Len(Contents'), i < j
               PROVE  Contents'[i] < Contents'[j]
    OBVIOUS
  <2>1. i \in 1..Len(Contents)
    BY <1>1, <1>3
  <2>2. CASE j \in 1..Len(Contents)
    BY <1>1, <1>2, <2>1, <2>2
  <2>3. CASE j = Len(Contents) + 1 /\ Contents'[j] = last
    BY <1>1, <1>2, <2>1, <2>3
  <2>4. QED BY <1>1, <2>2, <2>3
<1>6. QED BY <1>4, <1>5

-----------------------------------------------------------------------------
LEMMA WalTypeStep ==
  ASSUME IInv, [Next]_vars
  PROVE  TypeOK'
<1> USE WalAssumption DEF IInv
<1>1. CASE Start
  <2>1. Len(Contents) \in Nat
    BY FileContents, LenProperties
  <2>2. QED BY <1>1, <2>1 DEF Start, TypeOK, file
<1>2. CASE BeginWrite
  BY <1>2 DEF BeginWrite, TypeOK, file
<1>3. CASE WriteOk
  <2>1. last \in Entry
    BY <1>3 DEF WriteOk, WritingInv
  <2>2. lines' \in Seq(Entry \union {Garbled}) /\ tail' \in Entry \union {Garbled, NoTail}
    BY <1>3, <2>1, FileWritten DEF WriteOk
  <2>3. QED BY <1>3, <2>1, <2>2 DEF WriteOk, TypeOK
<1>4. CASE WriteFails
  <2>1. lines' \in Seq(Entry \union {Garbled}) /\ tail' \in Entry \union {Garbled, NoTail}
    BY <1>4, FileWritten DEF WriteFails, WritingInv
  <2>2. QED BY <1>4, <2>1 DEF WriteFails, TypeOK
<1>5. CASE Checkpoint
  BY <1>5 DEF Checkpoint, TypeOK, file
<1>6. CASE Truncate
  BY <1>6 DEF Truncate, TypeOK
<1>7. CASE Crash
  <2>1. lines' \in Seq(Entry \union {Garbled}) /\ tail' \in Entry \union {Garbled, NoTail}
    <3>1. CASE pc = "writing"
      BY <1>7, <3>1, FileWritten DEF Crash, WritingInv
    <3>2. CASE pc # "writing"
      BY <1>7, <3>2 DEF Crash, TypeOK, file
    <3>3. QED BY <3>1, <3>2
  <2>2. QED BY <1>7, <2>1 DEF Crash, TypeOK
<1>8. CASE UNCHANGED vars
  BY <1>8 DEF vars, file, TypeOK
<1>9. QED
  BY <1>1, <1>2, <1>3, <1>4, <1>5, <1>6, <1>7, <1>8 DEF Next

(* Steps that leave the file alone.                                        *)
LEMMA SameFile ==
  ASSUME UNCHANGED file
  PROVE  Contents' = Contents /\ (Readable' <=> Readable)
BY DEF file, Contents, Readable

(* A write that raises or is cut off keeps the invariant, and so does the  *)
(* loss of the counters that goes with the latter.                         *)
LEMMA PartialWrite ==
  ASSUME IInv, pc = "writing", WritePart(last), last' = last, pc' # "writing",
         acked' = acked, committedCount' \in {committedCount, 0},
         entriesWritten' \in {entriesWritten, 0}
  PROVE  CountInv' /\ AckedInv' /\ OrderInv' /\ WritingInv'
<1>1. ASSUME Readable'
      PROVE  /\ entriesWritten' <= Len(Contents')
             /\ \A e \in acked : \E i \in 1..Len(Contents') :
                  i > committedCount' /\ Contents'[i] = e
  <2>1. Readable /\ Contents' \in Seq(Entry)
        /\ (Contents' = Contents \/ Contents' = Append(Contents, last))
        /\ \A i \in 1..Len(Contents) : i \in 1..Len(Contents') /\ Contents'[i] = Contents[i]
    BY <1>1, LastWritten
  <2>2. Contents \in Seq(Entry) /\ last \in Entry
    BY <2>1, FileContents DEF IInv, WritingInv
  <2>3. Len(Contents) \in Nat /\ Len(Contents') \in {Len(Contents), Len(Contents) + 1}
    BY <2>1, <2>2, AppendProperties, LenProperties
  <2>4. entriesWritten <= Len(Contents) /\ entriesWritten \in Nat /\ committedCount \in Nat
    BY <2>1 DEF IInv, CountInv, TypeOK
  <2>5. entriesWritten' <= Len(Contents')
    BY <2>3, <2>4
  <2>6. ASSUME NEW e \in acked
        PROVE  \E i \in 1..Len(Contents') : i > committedCount' /\ Contents'[i] = e
    <3>1. PICK i \in 1..Len(Contents) : i > committedCount /\ Contents[i] = e
      BY <2>1 DEF IInv, AckedInv
    <3>2. i > committedCount' /\ i \in 1..Len(Contents') /\ Contents'[i] = e
      BY <2>1, <2>3, <2>4, <3>1
    <3>3. QED BY <3>2
  <2>7. QED BY <2>5, <2>6
<1>2. CountInv' /\ AckedInv'
  BY <1>1 DEF CountInv, AckedInv
<1>3. OrderInv' /\ WritingInv'
  BY OrderKept DEF OrderInv, WritingInv
<1>4. QED BY <1>2, <1>3

LEMMA WholeWrite ==
  ASSUME IInv, WriteOk
  PROVE  CountInv' /\ AckedInv' /\ OrderInv' /\ WritingInv'
<1>1. /\ pc = "writing" /\ pc' = "idle" /\ WriteLine(last) /\ last' = last
      /\ entriesWritten' = entriesWritten + 1 /\ acked' = acked \union {last}
      /\ committedCount' = committedCount
  BY DEF WriteOk
<1>2. ASSUME Readable'
      PROVE  /\ entriesWritten' <= Len(Contents')
             /\ \A e \in acked' : \E i \in 1..Len(Contents') :
                  i > committedCount /\ Contents'[i] = e
  <2>1. last \in Entry /\ Contents' = Append(Contents, last) /\ Readable
    BY <1>1, <1>2, LastWritten DEF IInv, WritingInv
  <2>2. Contents \in Seq(Entry) /\ Len(Contents) \in Nat
    BY <2>1, FileContents, LenProperties DEF IInv
  <2>3. /\ Len(Contents') = Len(Contents) + 1
        /\ Contents'[Len(Contents) + 1] = last
        /\ \A i \in 1..Len(Contents) : i \in 1..Len(Contents') /\ Contents'[i] = Contents[i]
    BY <2>1, <2>2, AppendProperties
  <2>4. committedCount <= entriesWritten /\ entriesWritten <= Len(Contents)
        /\ committedCount \in Int /\ entriesWritten \in Nat
    BY <2>1 DEF IInv, TypeOK, CountInv
  <2>5. entriesWritten' <= Len(Contents')
    BY <1>1, <2>2, <2>3, <2>4
  <2>6. Len(Contents) + 1 \in 1..Len(Contents') /\ Len(Contents) + 1 > committedCount
    BY <2>2, <2>3, <2>4
  <2>7. ASSUME NEW e \in acked'
        PROVE  \E i \in 1..Len(Contents') : i > committedCount /\ Contents'[i] = e
    <3>1. CASE e = last
      BY <2>3, <2>6, <3>1
    <3>2. CASE e \in acked
      <4>1. PICK i \in 1..Len(Contents) : i > committedCount /\ Contents[i] = e
        BY <2>1, <3>2 DEF IInv, AckedInv
      <4>2. QED BY <2>3, <4>1
    <3>3. QED BY <1>1, <3>1, <3>2
  <2>8. QED BY <2>5, <2>7
<1>3. CountInv' /\ AckedInv'
  BY <1>1, <1>2 DEF CountInv, AckedInv
<1>4. OrderInv' /\ WritingInv'
  BY <1>1, OrderKept DEF OrderInv, WritingInv
<1>5. QED BY <1>3, <1>4

LEMMA WalStep == IInv /\ [Next]_vars => IInv'
<1> SUFFICES ASSUME IInv, [Next]_vars
             PROVE  IInv'
  OBVIOUS
<1> USE WalAssumption DEF IInv
<1>1. TypeOK'
  BY WalTypeStep
<1>2. Len(Contents) \in Nat
  BY FileContents, LenProperties
<1>3. CASE Start
  BY <1>1, <1>2, <1>3, SameFile
     DEF Start, TypeOK, CountInv, AckedInv, OrderInv, WritingInv
<1>4. CASE BeginWrite
  <2>1. Contents' = Contents /\ (Readable' <=> Readable)
    BY <1>4, SameFile DEF BeginWrite
  <2>2. /\ last' = last + 1 /\ last \in Nat /\ last < MaxEntries /\ pc' = "writing"
        /\ UNCHANGED <<entriesWritten, committedCount, acked>>
    BY <1>4 DEF BeginWrite, TypeOK
  <2>3. OrderInv'
    <3>1. ASSUME Readable, NEW i \in 1..Len(Contents)
          PROVE  Contents[i] <= last' /\ Contents[i] < last'
      <4>1. Contents[i] \in Int
        BY <3>1, FileContents, ElementOfSeq DEF Entry
      <4>2. Contents[i] <= last
        BY <3>1 DEF OrderInv
      <4>3. QED BY <2>2, <4>1, <4>2
    <3>2. QED BY <2>1, <3>1 DEF OrderInv
  <2>4. WritingInv'
    BY <2>2 DEF WritingInv, Entry
  <2>5. CountInv' /\ AckedInv'
    BY <2>1, <2>2 DEF CountInv, AckedInv
  <2>6. QED BY <1>1, <2>3, <2>4, <2>5
<1>5. CASE WriteOk
  BY <1>1, <1>5, WholeWrite
<1>6. CASE WriteFails
  BY <1>1, <1>6, PartialWrite DEF WriteFails
<1>7. CASE Checkpoint
  BY <1>1, <1>7, SameFile
     DEF Checkpoint, CountInv, AckedInv, OrderInv, WritingInv
<1>8. CASE Truncate
  <2>1. Contents' = <<>> /\ Len(Contents') = 0
    BY <1>8 DEF Truncate, Contents
  <2>2. QED
    BY <1>1, <1>8, <2>1
       DEF Truncate, CountInv, AckedInv, OrderInv, WritingInv
<1>9. CASE Crash
  <2>1. CASE pc = "writing"
    BY <1>1, <1>9, <2>1, PartialWrite DEF Crash
  <2>2. CASE pc # "writing"
    <3>1. Contents' = Contents /\ (Readable' <=> Readable)
      BY <1>9, <2>2, SameFile DEF Crash
    <3>2. entriesWritten' = 0 /\ committedCount' = 0 /\ pc' = "down"
          /\ last' = last /\ acked' = acked
      BY <1>9 DEF Crash
    <3>3. CountInv' /\ OrderInv' /\ WritingInv'
      BY <1>2, <3>1, <3>2 DEF CountInv, OrderInv, WritingInv
    <3>4. AckedInv'
      BY <3>1, <3>2 DEF AckedInv, TypeOK
    <3>5. QED BY <1>1, <3>3, <3>4
  <2>3. QED BY <2>1, <2>2
<1>10. CASE UNCHANGED vars
  <2>1. UNCHANGED file
    BY <1>10 DEF vars
  <2>2. QED
    BY <1>1, <1>10, <2>1, SameFile
       DEF vars, CountInv, AckedInv, OrderInv, WritingInv
<1>11. QED
  BY <1>3, <1>4, <1>5, <1>6, <1>7, <1>8, <1>9, <1>10 DEF Next

LEMMA WalInvariant == Spec => []IInv
BY WalInit, WalStep, PTL DEF Spec

(* What recover() returns, position by position.                           *)
LEMMA RecoveredEntries ==
  ASSUME IInv, Readable
  PROVE  LET c == committedCount
         IN  /\ Recovered \in Seq(Entry)
             /\ c \in Nat /\ c <= Len(Contents) /\ Len(Contents) \in Nat
             /\ DOMAIN Recovered = 1..(Len(Contents) - c)
             /\ \A i \in 1..(Len(Contents) - c) : Recovered[i] = Contents[c + i]
<1>1. Contents \in Seq(Entry)
  BY FileContents DEF IInv
<1>2. Len(Contents) \in Nat /\ \A i \in 1..Len(Contents) : Contents[i] \in Entry
  BY <1>1, LenProperties, ElementOfSeq
<1>3. committedCount \in Nat /\ committedCount <= Len(Contents)
  <2>1. entriesWritten \in Nat /\ committedCount \in 0..entriesWritten
    BY DEF IInv, TypeOK
  <2>2. entriesWritten <= Len(Contents)
    BY DEF IInv, CountInv
  <2>3. QED BY <1>2, <2>1, <2>2
<1> DEFINE m == committedCount + 1
           n == Len(Contents)
<1>4. m \in Int /\ n \in Int /\ \A i \in m..n : Contents[i] \in Entry
  BY <1>2, <1>3
<1>5. /\ SubSeq(Contents, m, n) \in Seq(Entry)
      /\ Len(SubSeq(Contents, m, n)) = IF m <= n THEN n - m + 1 ELSE 0
      /\ \A i \in 1..(n - m + 1) : SubSeq(Contents, m, n)[i] = Contents[m + i - 1]
  BY <1>4, SubSeqProperties
<1>6. Recovered = SubSeq(Contents, m, n)
  BY DEF Recovered
<1>7. Len(Recovered) = n - committedCount
  BY <1>2, <1>3, <1>5, <1>6
<1>8. DOMAIN Recovered = 1..(n - committedCount)
  BY <1>5, <1>6, <1>7, LenProperties
<1>9. \A i \in 1..(n - committedCount) : Recovered[i] = Contents[committedCount + i]
  <2> SUFFICES ASSUME NEW i \in 1..(n - committedCount)
               PROVE  Recovered[i] = Contents[committedCount + i]
    OBVIOUS
  <2>1. i \in 1..(n - m + 1) /\ m + i - 1 = committedCount + i
    BY <1>2, <1>3
  <2>2. QED BY <1>5, <1>6, <2>1
<1>10. QED BY <1>2, <1>3, <1>5, <1>6, <1>8, <1>9

(* The variables of wal.py keep their types, for any number of entries; in *)
(* particular the committed position never passes the count of entries.    *)
THEOREM WalTypeCorrect == Spec => []TypeOK
<1>1. IInv => TypeOK
  BY DEF IInv
<1>2. QED BY <1>1, WalInvariant, PTL

(* recover() returns every entry acknowledged after the last checkpoint,   *)
(* whatever failed writes, crashes and truncations came before.            *)
THEOREM WalRecoversAcked == Spec => []RecoverKeepsAcked
<1>1. IInv => RecoverKeepsAcked
  <2> SUFFICES ASSUME IInv, Readable, NEW e \in acked
               PROVE  e \in ToSet(Recovered)
    BY DEF RecoverKeepsAcked, CanRecover
  <2>1. PICK i \in 1..Len(Contents) : i > committedCount /\ Contents[i] = e
    BY DEF IInv, AckedInv
  <2>2. /\ committedCount \in Nat /\ Len(Contents) \in Nat
        /\ DOMAIN Recovered = 1..(Len(Contents) - committedCount)
        /\ \A k \in 1..(Len(Contents) - committedCount) :
             Recovered[k] = Contents[committedCount + k]
    BY RecoveredEntries
  <2>3. /\ i - committedCount \in 1..(Len(Contents) - committedCount)
        /\ committedCount + (i - committedCount) = i
    BY <2>1, <2>2
  <2>4. i - committedCount \in DOMAIN Recovered /\ Recovered[i - committedCount] = e
    BY <2>1, <2>2, <2>3
  <2>5. QED BY <2>4 DEF ToSet
<1>2. QED BY <1>1, WalInvariant, PTL

(* recover() returns entries in the order of the writes, each one once.    *)
THEOREM WalRecoversInOrder == Spec => []RecoverInWriteOrder
<1>1. IInv => RecoverInWriteOrder
  <2> SUFFICES ASSUME IInv, Readable,
                      NEW i \in DOMAIN Recovered, NEW j \in DOMAIN Recovered, i < j
               PROVE  Recovered[i] < Recovered[j]
    BY DEF RecoverInWriteOrder, CanRecover
  <2>1. /\ committedCount \in Nat /\ Len(Contents) \in Nat
        /\ DOMAIN Recovered = 1..(Len(Contents) - committedCount)
        /\ \A k \in 1..(Len(Contents) - committedCount) :
             Recovered[k] = Contents[committedCount + k]
    BY RecoveredEntries
  <2>2. /\ committedCount + i \in 1..Len(Contents)
        /\ committedCount + j \in 1..Len(Contents)
        /\ committedCount + i < committedCount + j
    BY <2>1
  <2>3. Contents[committedCount + i] < Contents[committedCount + j]
    BY <2>2 DEF IInv, OrderInv
  <2>4. QED BY <2>1, <2>3
<1>2. QED BY <1>1, WalInvariant, PTL

-----------------------------------------------------------------------------
(* The entries a checkpoint of this process committed and recover() still  *)
(* returns: no more than the lines that failed writes left uncounted.  An  *)
(* entry being written was never committed (FreshInv), so that a write     *)
(* that succeeds adds a line to both sides or to the right one only.       *)

Beyond == {Contents[i] : i \in (committedCount + 1)..Len(Contents)}

FreshInv ==
  /\ \A e \in acked \union committed : e <= last
  /\ pc = "writing" => last \notin acked \union committed

PassedInv ==
  Readable /\ committedCount > 0 =>
    Cardinality(committed \intersect Beyond) <= Len(Contents) - entriesWritten

PassInv == FreshInv /\ PassedInv

(* The slice of a sequence after its first c elements has at most as many  *)
(* different elements as it has positions.                                 *)
LEMMA SliceBound ==
  ASSUME NEW s, NEW c \in Nat, NEW n \in Nat, c <= n, NEW X
  PROVE  Cardinality(X \intersect {s[i] : i \in (c + 1)..n}) <= n - c
<1> DEFINE T == {s[i] : i \in (c + 1)..n}
           f == [i \in (c + 1)..n |-> s[i]]
<1>1. IsFiniteSet((c + 1)..n) /\ Cardinality((c + 1)..n) = n - c
  <2>1. c + 1 \in Int /\ n \in Int
    OBVIOUS
  <2>2. IsFiniteSet((c + 1)..n) /\ Cardinality((c + 1)..n) = IF c + 1 > n THEN 0 ELSE n - (c + 1) + 1
    BY <2>1, FS_Interval
  <2> QED
    BY <2>2
<1>2. f \in Surjection((c + 1)..n, T)
  BY DEF Surjection
<1>3. IsFiniteSet(T) /\ Cardinality(T) <= n - c
  BY <1>1, <1>2, FS_Surjection
<1> HIDE DEF T
<1>4. /\ Cardinality(X \intersect T) <= Cardinality(T)
      /\ Cardinality(T) \in Nat /\ Cardinality(X \intersect T) \in Nat
  BY <1>3, FS_Intersection, FS_CardinalityType
<1>5. Cardinality(X \intersect T) <= n - c
  BY <1>3, <1>4
<1> QED
  BY <1>5 DEF T

LEMMA FreshStep ==
  ASSUME IInv, FreshInv, [Next]_vars
  PROVE  FreshInv'
<1>1. CASE BeginWrite
  <2>1. /\ last' = last + 1 /\ last \in Nat /\ UNCHANGED <<acked, committed>>
        /\ \A e \in acked \union committed : e \in Int
    BY <1>1, WalAssumption DEF BeginWrite, IInv, TypeOK, Entry
  <2>2. \A e \in acked \union committed : e <= last' /\ e # last'
    BY <2>1 DEF FreshInv
  <2> QED
    BY <2>1, <2>2 DEF FreshInv
<1>2. CASE WriteOk
  <2>1. /\ pc' = "idle" /\ last' = last /\ acked' = acked \union {last} /\ committed' = committed
    BY <1>2 DEF WriteOk
  <2>2. last <= last
    BY WalAssumption DEF IInv, TypeOK
  <2> QED
    BY <2>1, <2>2 DEF FreshInv
<1>3. CASE Start \/ WriteFails \/ Checkpoint \/ Truncate \/ Crash \/ UNCHANGED vars
  <2>1. /\ pc' # "writing" \/ pc' = pc
        /\ last' = last /\ acked' \union committed' \subseteq acked \union committed
    BY <1>3 DEF Start, WriteFails, Checkpoint, Truncate, Crash, vars
  <2> QED
    BY <2>1 DEF FreshInv
<1> QED
  BY <1>1, <1>2, <1>3 DEF Next

(* A write that returns or raises: what is committed stays where it was.   *)
LEMMA PassedWrite ==
  ASSUME IInv, PassInv, pc = "writing", WriteLine(last) \/ WritePart(last), Readable',
         committedCount' = committedCount, committed' = committed, committedCount > 0
  PROVE  /\ Readable /\ (committed \intersect Beyond)' = committed \intersect Beyond
         /\ Len(Contents) \in Nat
         /\ Len(Contents') \in Nat /\ Len(Contents') >= Len(Contents)
         /\ WriteLine(last) => Len(Contents') = Len(Contents) + 1
<1>1. /\ Readable /\ Contents' \in Seq(Entry)
      /\ Contents' = Contents \/ Contents' = Append(Contents, last)
      /\ WriteLine(last) => Contents' = Append(Contents, last)
      /\ \A i \in 1..Len(Contents) : i \in 1..Len(Contents') /\ Contents'[i] = Contents[i]
      /\ \A i \in 1..Len(Contents') :
           i \in 1..Len(Contents) \/ (i = Len(Contents) + 1 /\ Contents'[i] = last)
  BY LastWritten
<1>2. last \notin committed
  BY DEF PassInv, FreshInv
<1>3. Contents \in Seq(Entry)
  BY <1>1, FileContents DEF IInv
<1>4. /\ Len(Contents) \in Nat /\ Len(Contents') \in Nat
      /\ Len(Contents') = Len(Contents) \/ Len(Contents') = Len(Contents) + 1
      /\ WriteLine(last) => Len(Contents') = Len(Contents) + 1
  <2>1. last \in Entry
    BY DEF IInv, WritingInv
  <2> QED
    BY <1>1, <1>3, <2>1, AppendProperties, LenProperties
<1>5. committedCount \in Nat
  BY DEF IInv, TypeOK
<1> DEFINE c == committedCount
           n == Len(Contents)
           m == Len(Contents')
<1>6. /\ n \in Nat /\ m \in Nat /\ c \in Nat /\ m >= n
      /\ \A i \in 1..n : Contents'[i] = Contents[i]
      /\ \A i \in 1..m : i \in 1..n \/ Contents'[i] = last
  BY <1>1, <1>4, <1>5
<1>7. Beyond = {Contents[i] : i \in (c + 1)..n} /\ Beyond' = {Contents'[i] : i \in (c + 1)..m}
  BY DEF Beyond
<1> HIDE DEF c, n, m
<1>8. \A i \in (c + 1)..n : i \in (c + 1)..m /\ i \in 1..n
  BY <1>6
<1>9. \A i \in (c + 1)..m : i \in 1..m /\ (i \in 1..n => i \in (c + 1)..n)
  BY <1>6
<1>10. committed \intersect Beyond' = committed \intersect Beyond
  <2>1. ASSUME NEW e \in committed, e \in Beyond
        PROVE  e \in Beyond'
    BY <1>6, <1>7, <1>8, <2>1
  <2>2. ASSUME NEW e \in committed, e \in Beyond'
        PROVE  e \in Beyond
    BY <1>2, <1>6, <1>7, <1>9, <2>2
  <2> QED
    BY <2>1, <2>2
<1> QED
  BY <1>1, <1>4, <1>10 DEF n, m

LEMMA PassStep ==
  ASSUME IInv, PassInv, [Next]_vars
  PROVE  PassInv'
<1>1. FreshInv'
  BY FreshStep DEF PassInv
<1>2. CASE Start \/ Truncate \/ Crash
  <2>1. committedCount' = 0
    BY <1>2 DEF Start, Truncate, Crash
  <2> QED
    BY <1>1, <2>1 DEF PassInv, PassedInv
<1>3. CASE BeginWrite \/ UNCHANGED vars
  <2>1. /\ UNCHANGED file /\ committedCount' = committedCount /\ committed' = committed
        /\ entriesWritten' = entriesWritten
    BY <1>3 DEF BeginWrite, vars
  <2>2. Contents' = Contents /\ (Readable' <=> Readable)
    BY <2>1, SameFile
  <2> QED
    BY <1>1, <2>1, <2>2 DEF PassInv, PassedInv, Beyond
<1>4. CASE WriteOk \/ WriteFails
  <2>1. /\ pc = "writing" /\ committedCount' = committedCount /\ committed' = committed
        /\ WriteLine(last) \/ WritePart(last)
        /\ \/ WriteLine(last) /\ entriesWritten' = entriesWritten + 1
           \/ entriesWritten' = entriesWritten
    BY <1>4 DEF WriteOk, WriteFails
  <2> SUFFICES ASSUME Readable', committedCount > 0
               PROVE  Cardinality((committed \intersect Beyond)') <= Len(Contents') - entriesWritten'
    BY <1>1, <2>1 DEF PassInv, PassedInv
  <2>2. /\ Readable /\ (committed \intersect Beyond)' = committed \intersect Beyond
        /\ Len(Contents) \in Nat
        /\ Len(Contents') \in Nat /\ Len(Contents') >= Len(Contents)
        /\ WriteLine(last) => Len(Contents') = Len(Contents) + 1
    BY <2>1, PassedWrite
  <2>3. Cardinality(committed \intersect Beyond) <= Len(Contents) - entriesWritten
    BY <2>2 DEF PassInv, PassedInv
  <2>4. entriesWritten \in Nat
    BY DEF IInv, TypeOK
  <2>5. Cardinality(committed \intersect Beyond) \in Nat
    <3>1. IsFiniteSet(committed)
      <4>1. IsFiniteSet(1..MaxEntries) /\ committed \in SUBSET (1..MaxEntries)
        BY FS_Interval, WalAssumption DEF IInv, TypeOK, Entry
      <4> QED
        BY <4>1, FS_Subset
    <3> QED
      BY <3>1, FS_Intersection, FS_CardinalityType
  <2> DEFINE x == Cardinality(committed \intersect Beyond)
             n == Len(Contents)
             m == Len(Contents')
  <2>6. /\ x \in Nat /\ n \in Nat /\ m \in Nat /\ m >= n /\ x <= n - entriesWritten
        /\ \/ m = n + 1 /\ entriesWritten' = entriesWritten + 1
           \/ entriesWritten' = entriesWritten
    BY <2>1, <2>2, <2>3, <2>5
  <2> HIDE DEF x, n, m
  <2>7. x <= m - entriesWritten'
    BY <2>4, <2>6
  <2> QED
    BY <2>2, <2>7, Zenon DEF x, m
<1>5. CASE Checkpoint
  <2>1. /\ UNCHANGED file /\ committedCount' = entriesWritten /\ entriesWritten' = entriesWritten
    BY <1>5 DEF Checkpoint
  <2>2. Contents' = Contents /\ (Readable' <=> Readable)
    BY <2>1, SameFile
  <2>3. ASSUME Readable
        PROVE  Cardinality((committed \intersect Beyond)') <= Len(Contents') - entriesWritten'
    <3>1. entriesWritten \in Nat /\ Len(Contents) \in Nat /\ entriesWritten <= Len(Contents)
      BY <2>3, FileContents, LenProperties DEF IInv, TypeOK, CountInv
    <3>2. Cardinality(committed' \intersect {Contents[i] : i \in (entriesWritten + 1)..Len(Contents)})
            <= Len(Contents) - entriesWritten
      BY <3>1, SliceBound
    <3> QED
      BY <2>1, <2>2, <3>2 DEF Beyond
  <2> QED
    BY <1>1, <2>2, <2>3 DEF PassInv, PassedInv
<1> QED
  BY <1>2, <1>3, <1>4, <1>5 DEF Next

LEMMA PassInit == Init => PassInv
<1> SUFFICES ASSUME Init
             PROVE  PassInv
  OBVIOUS
<1> QED
  BY DEF Init, PassInv, FreshInv, PassedInv

(* recover() returns the entries written since the last checkpoint in the  *)
(* order of the writes and once each; and of the entries that a checkpoint *)
(* of this process committed it returns at most one per line that a failed *)
(* write left in the file and out of the counters (write, checkpoint).     *)
THEOREM WalRecoversExactly == Spec => []RecoverIsExact
<1>1. IInv /\ PassInv => CheckpointHolds
  <2> SUFFICES ASSUME IInv, PassInv, Readable, committedCount > 0
               PROVE  Cardinality(committed \cap ToSet(Recovered)) <= Uncounted
    BY DEF CheckpointHolds, CanRecover
  <2>1. /\ committedCount \in Nat /\ Len(Contents) \in Nat
        /\ DOMAIN Recovered = 1..(Len(Contents) - committedCount)
        /\ \A k \in 1..(Len(Contents) - committedCount) :
             Recovered[k] = Contents[committedCount + k]
    BY RecoveredEntries
  <2> DEFINE c == committedCount
             n == Len(Contents)
  <2>2. /\ c \in Nat /\ n \in Nat
        /\ \A k \in 1..(n - c) : Recovered[k] = Contents[c + k]
        /\ ToSet(Recovered) = {Recovered[k] : k \in 1..(n - c)}
        /\ Beyond = {Contents[i] : i \in (c + 1)..n}
    BY <2>1 DEF ToSet, Beyond
  <2> HIDE DEF c, n
  <2>3. \A k \in 1..(n - c) : c + k \in (c + 1)..n
    BY <2>2
  <2>4. \A i \in (c + 1)..n : i - c \in 1..(n - c) /\ c + (i - c) = i
    BY <2>2
  <2>5. ToSet(Recovered) = Beyond
    <3>1. ASSUME NEW i \in (c + 1)..n
          PROVE  Contents[i] = Recovered[i - c] /\ i - c \in 1..(n - c)
      BY <2>2, <2>4
    <3>2. ToSet(Recovered) \subseteq Beyond
      BY <2>2, <2>3
    <3>3. Beyond \subseteq ToSet(Recovered)
      BY <2>2, <3>1
    <3> QED
      BY <3>2, <3>3
  <2> QED
    BY <2>5 DEF PassInv, PassedInv, Uncounted
<1>2. Spec => []CheckpointHolds
  BY <1>1, WalInit, WalStep, PassInit, PassStep, PTL DEF Spec
<1>3. RecoverInWriteOrder /\ CheckpointHolds => RecoverIsExact
  BY DEF RecoverIsExact
<1> QED
  BY <1>2, <1>3, WalRecoversInOrder, PTL
==============================================================================
