------------------------------ MODULE ToolDrift ------------------------------
(* The behavioural baselines of advanced/drift.py for one tool: a window of    *)
(* recorded samples, the fields ever seen and the recent payload sizes, against*)
(* which a new output is checked.                                              *)
EXTENDS Integers, Sequences, FiniteSets, SequencesExt

CONSTANTS
    Inputs,         \* inputs, by their hash
    Outputs,        \* outputs: [fields, size]
    BaselineWindow, \* baseline_window
    MaxRecorded     \* bound: samples recorded

VARIABLES
    samples,    \* _baselines of the tool; _size_history holds their sizes
    known,      \* _known_fields of the tool
    recorded    \* every sample ever recorded

vars == <<samples, known, recorded>>

Sample(input, output) == [input |-> input, fields |-> output.fields, size |-> output.size]

Kept(window) ==
    IF Len(window) > BaselineWindow
    THEN SubSeq(window, Len(window) - BaselineWindow + 1, Len(window)) ELSE window

\* Mutant: only the fields of the window are known.
KnownInWindow(output) == (UNION {s.fields : s \in Range(samples)}) \cup output.fields

Known(output) == known \cup output.fields

RecordBaseline(input, output) ==
    /\ Len(recorded) < MaxRecorded
    /\ samples' = Kept(Append(samples, Sample(input, output)))
    /\ known' = Known(output)
    /\ recorded' = Append(recorded, Sample(input, output))

-----------------------------------------------------------------------------
(* check_drift()                                                               *)

AlwaysPresent == {f \in known : \A s \in Range(samples) : f \in s.fields}

\* Mutant: an input is compared with the oldest sample of it.
OldestOf(input) ==
    {samples[i] : i \in {j \in 1..Len(samples) :
        samples[j].input = input /\ \A k \in 1..(j - 1) : samples[k].input # input}}

\* The latest sample of an input, if the window has one.
LatestOf(input) ==
    {samples[i] : i \in {j \in 1..Len(samples) :
        samples[j].input = input /\ \A k \in (j + 1)..Len(samples) : samples[k].input # input}}

\* _check_size_anomaly() with the default sensitivity of 0.8: more than 3.75
\* times or less than 0.08 times the average of at least five sizes.
SizeAnomaly(size) ==
    LET total == FoldLeft(LAMBDA sum, s : sum + s.size, 0, samples)
        n == Len(samples)
    IN /\ n >= 5
       /\ total > 0
       /\ \/ 4 * size * n > 15 * total
          \/ 100 * size * n < 8 * total /\ total > 10 * n

\* The kinds of alerts for an output.
Drift(input, output) ==
    IF samples = <<>> THEN {}
    ELSE (IF output.fields \subseteq known THEN {} ELSE {"new_field"})
         \cup (IF known # {} /\ ~(AlwaysPresent \subseteq output.fields) THEN {"field_removed"} ELSE {})
         \cup (IF SizeAnomaly(output.size) THEN {"size_anomaly"} ELSE {})
         \cup (IF \E s \in LatestOf(input) : s.fields # output.fields
               THEN {"output_changed"} ELSE {})

Init == samples = <<>> /\ known = {} /\ recorded = <<>>

Next == \E input \in Inputs, output \in Outputs : RecordBaseline(input, output)

Spec == Init /\ [][Next]_vars

-----------------------------------------------------------------------------
(* Correctness.                                                                *)

\* An output with the fields of the latest recorded sample of its input raises
\* no alert but, perhaps, for its size: what was recorded last is no drift,
\* whatever else was recorded before and whatever has left the window, as long
\* as that sample is in it.
RecordedIsNoDrift ==
    \A i \in 1..Len(recorded), output \in Outputs :
       LET input == recorded[i].input
       IN (/\ i > Len(recorded) - BaselineWindow
           /\ output.fields = recorded[i].fields
           /\ \A j \in (i + 1)..Len(recorded) : recorded[j].input # input)
          => Drift(input, output) \subseteq {"size_anomaly"}

\* Once anything has been recorded, a field that no sample ever had raises an
\* alert, and one that some sample had, however long ago, is never called new.
NewFieldsAreNew ==
    \A input \in Inputs, output \in Outputs :
       "new_field" \in Drift(input, output) <=>
          /\ recorded # <<>>
          /\ \E f \in output.fields : \A i \in 1..Len(recorded) : f \notin recorded[i].fields
=============================================================================
