------------------------------- MODULE LogFile -------------------------------
(***************************************************************************)
(* A JSON-lines file that a process only ever appends to, as audit/log.py  *)
(* and audit/wal.py use it: an append is not atomic, and what an           *)
(* interrupted append left at the end of the file is the beginning of the  *)
(* next line.  Both readers iterate over the file's lines and accept a     *)
(* last line that has no newline; json.loads fails on a Garbled one.       *)
(***************************************************************************)
EXTENDS Naturals, SequencesExt

CONSTANTS
  Garbled,  \* the content of a line that is not one JSON object
  NoTail    \* the file ends with a newline (or is empty or missing)

VARIABLES
  lines,    \* the newline-terminated lines
  tail      \* what follows the last newline

file == <<lines, tail>>

(* What the reader's `for line in f` yields.                               *)
Contents == IF tail = NoTail THEN lines ELSE Append(lines, tail)

Readable == Garbled \notin ToSet(Contents)

(* The line that comes out when x is written at the end of the file.       *)
Merged(x) == IF tail = NoTail THEN x ELSE Garbled

(* x and its newline are appended.                                         *)
WriteLine(x) ==
  /\ lines' = Append(lines, Merged(x))
  /\ tail' = NoTail

(* An interrupted append: nothing reached the file, or a part of the line, *)
(* or all of it but the newline, or even the newline.                      *)
WritePart(x) ==
  \/ UNCHANGED file
  \/ tail' \in {Garbled, Merged(x)} /\ UNCHANGED lines
  \/ WriteLine(x)
=============================================================================
