---------------------------- MODULE LogShipping -----------------------------
(* The log shippers of siem/shipper.py: a bounded buffer that is flushed when *)
(* it is full or an interval has passed, and three backends, a file that is   *)
(* rotated, the bulk interface of Elasticsearch with its retries, and the     *)
(* standard output. An event is the number of the ship() call that made it.   *)
EXTENDS Integers, Sequences, FiniteSets, SequencesExt

CONSTANTS
    BufferSize,     \* buffer_size
    FlushInterval,  \* flush_interval_seconds
    RotateSize,     \* rotate_size_mb, in lines
    MaxRetries,     \* max_retries
    MaxShipped,     \* bound: calls of ship()
    MaxSeconds      \* bound: the clock

VARIABLES
    backend,    \* which shipper: "file", "elasticsearch" or "stdout"
    second,     \* time.time
    made,       \* how many events ship() was called with
    buffer,     \* _buffer
    lastFlush,  \* _last_flush
    stats,      \* ShipperStats: the events counted as shipped and as failed
    file,       \* the lines of the output file: the events on each, 0 for half of one
    rotated,    \* the rotated files, by the second in their name
    replaced,   \* the lines of rotated files that a later rotation has replaced
    torn,       \* how many batches stopped in the middle of a line
    copies      \* per event: how often the index, or the output, has it

vars == <<backend, second, made, buffer, lastFlush, stats, file, rotated, replaced, torn, copies>>

-----------------------------------------------------------------------------
(* The backends. Each _ship_batch() ends with TRUE or FALSE, never raises.    *)

\* The file ends with half a line.
Open(lines) == lines # <<>> /\ Last(lines) = <<0>>

\* A line for each event of a batch; the first goes on the half line, if any.
Written(lines, batch) ==
    LET half == Open(lines) /\ batch # <<>>
        kept == IF half THEN Len(lines) - 1 ELSE Len(lines)
    IN [i \in 1..(kept + Len(batch)) |->
           IF i <= kept THEN lines[i]
           ELSE IF half /\ i = kept + 1 THEN <<0, batch[1]>> ELSE <<batch[i - kept]>>]

\* Mutant: the file is opened anew for each batch.
WriteAnew(lines, batch, success) ==
    success /\ file' = Written(<<>>, batch) /\ UNCHANGED torn

\* Appending a batch to a file: an OSError leaves the first events and
\* perhaps half of the next one.
Write(lines, batch, success) ==
    \/ success /\ file' = Written(lines, batch) /\ UNCHANGED torn
    \/ /\ ~success
       /\ \E whole \in 0..(Len(batch) - 1), half \in BOOLEAN :
             LET done == Written(lines, SubSeq(batch, 1, whole))
             IN /\ file' = IF half /\ ~Open(done) THEN Append(done, <<0>>) ELSE done
                /\ torn' = IF half THEN torn + 1 ELSE torn

\* _rotate(): the new name holds the second, and rename() replaces a file that
\* already has it.
Rotate ==
    /\ rotated' = [name \in DOMAIN rotated \cup {second} |->
                      IF name = second THEN file ELSE rotated[name]]
    /\ replaced' = IF second \in DOMAIN rotated
                   THEN replaced \cup Range(rotated[second]) ELSE replaced

\* A rename that fails is logged and the file grows on.
FileBatch(batch, success) ==
    /\ UNCHANGED copies
    /\ \/ Write(file, batch, success) /\ UNCHANGED <<rotated, replaced>>
       \/ Len(file) >= RotateSize /\ Rotate /\ Write(<<>>, batch, success)

Times(batch, n) == [e \in DOMAIN copies |-> IF e \in Range(batch) THEN copies[e] + n ELSE copies[e]]

\* Mutant: the retries are counted from the second attempt.
AttemptsAndOne == MaxRetries + 1

Attempts == MaxRetries

\* The bulk request: a URLError is retried, whether the index had applied the
\* request or not; every other exception, and a response with item errors,
\* ends the batch as failed. An index request has no id: each applied request
\* makes a document of its own.
ElasticBatch(batch, success) ==
    /\ UNCHANGED <<file, rotated, replaced, torn>>
    /\ \E retried \in 0..Attempts : \E applied \in 0..retried :
          \/ success /\ retried < Attempts /\ copies' = Times(batch, applied + 1)
          \/ ~success /\ retried = Attempts /\ copies' = Times(batch, applied)
          \/ /\ ~success /\ retried < Attempts
             /\ \E indexed \in SUBSET Range(batch) :
                   copies' = [e \in DOMAIN copies |->
                                 Times(batch, applied)[e] + (IF e \in indexed THEN 1 ELSE 0)]

StdoutBatch(batch, success) ==
    /\ UNCHANGED <<file, rotated, replaced, torn>>
    /\ \E printed \in 0..Len(batch) :
          /\ success <=> printed = Len(batch)
          /\ copies' = Times(SubSeq(batch, 1, printed), 1)

ShipBatch(batch, success) ==
    \/ backend = "file" /\ FileBatch(batch, success)
    \/ backend = "elasticsearch" /\ ElasticBatch(batch, success)
    \/ backend = "stdout" /\ StdoutBatch(batch, success)

-----------------------------------------------------------------------------
(* The buffer.                                                                *)

\* Mutant: a batch that failed is put back.
FlushKeeping(batch) ==
    \E success \in BOOLEAN :
       /\ ShipBatch(batch, success)
       /\ buffer' = IF success THEN <<>> ELSE batch
       /\ lastFlush' = second
       /\ stats' = IF success
                   THEN [stats EXCEPT !.shipped = @ \cup Range(batch), !.consecutive = 0]
                   ELSE [stats EXCEPT !.consecutive = @ + 1]

\* flush() of a buffer that is not empty.
Flush(batch) ==
    \E success \in BOOLEAN :
       /\ ShipBatch(batch, success)
       /\ buffer' = <<>>
       /\ lastFlush' = second
       /\ stats' = IF success
                   THEN [stats EXCEPT !.shipped = @ \cup Range(batch), !.consecutive = 0]
                   ELSE [stats EXCEPT !.failed = @ \cup Range(batch), !.consecutive = @ + 1]

\* The deque drops its oldest event when it is full.
Buffered(event) == Append(IF Len(buffer) = BufferSize THEN Tail(buffer) ELSE buffer, event)

\* Mutant: the buffer is flushed when it overflows.
DueWhenOver(queue) == Len(queue) > BufferSize \/ second - lastFlush >= FlushInterval

Due(queue) == Len(queue) >= BufferSize \/ second - lastFlush >= FlushInterval

Ship ==
    /\ made < MaxShipped
    /\ made' = made + 1
    /\ LET queue == Buffered(made + 1)
       IN IF Due(queue) THEN Flush(queue)
          ELSE /\ buffer' = queue
               /\ UNCHANGED <<lastFlush, stats, file, rotated, replaced, torn, copies>>
    /\ UNCHANGED <<backend, second>>

FlushNow == buffer # <<>> /\ Flush(buffer) /\ UNCHANGED <<backend, second, made>>

PassSecond ==
    /\ second < MaxSeconds
    /\ second' = second + 1
    /\ UNCHANGED <<backend, made, buffer, lastFlush, stats, file, rotated, replaced, torn, copies>>

Init ==
    /\ backend \in {"file", "elasticsearch", "stdout"}
    /\ second = 0
    /\ made = 0
    /\ buffer = <<>>
    /\ lastFlush = 0
    /\ stats = [shipped |-> {}, failed |-> {}, consecutive |-> 0]
    /\ file = <<>>
    /\ rotated = <<>>
    /\ replaced = {}
    /\ torn = 0
    /\ copies = [e \in 1..MaxShipped |-> 0]

Next == Ship \/ FlushNow \/ PassSecond

Spec == Init /\ [][Next]_vars

-----------------------------------------------------------------------------
(* Correctness.                                                               *)

Made == 1..made
Files == {file} \cup Range(rotated)
Lines == UNION {Range(lines) : lines \in Files}

\* Every event ship() was called with is counted as shipped, counted as failed
\* or still in the buffer, and in one of these only: the bounded deque never
\* drops one silently. The latest batch tells whether a failure is being counted.
EveryEventIsAccounted ==
    /\ stats.shipped \cup stats.failed \cup Range(buffer) = Made
    /\ stats.shipped \cap stats.failed = {}
    /\ (stats.shipped \cup stats.failed) \cap Range(buffer) = {}
    /\ stats.consecutive > 0 <=> made - Len(buffer) \in stats.failed

\* An event counted as shipped is where it was shipped to. In a file it has a
\* line of its own, or is the one event that was appended to half a line, one
\* for each batch that stopped there, unless the file was replaced by a
\* rotation within the same second.
ShippedIsStored ==
    IF backend = "file"
    THEN LET there == {e \in stats.shipped : <<e>> \in Lines}
             lost == {e \in stats.shipped : <<e>> \in replaced \/ <<0, e>> \in Lines \cup replaced}
         IN /\ stats.shipped \ there \subseteq lost
            /\ Cardinality({e \in lost : <<0, e>> \in Lines \cup replaced}) <= torn
    ELSE \A e \in stats.shipped : copies[e] >= 1

\* No backend multiplies events without bound: a file or the output holds an
\* event once, and the index at most once for each attempt. An event counted as
\* failed may be stored all the same.
CopiesAreBounded ==
    \A e \in 1..MaxShipped :
       copies[e] <= IF e > made \/ backend = "file" THEN 0
                    ELSE IF backend = "stdout" THEN 1 ELSE MaxRetries

\* Files keep the order of the ship() calls, within a file and from a rotated
\* one to the next, whatever was torn or lost in between.
FilesKeepOrder ==
    LET rising(lines) == \A i, j \in DOMAIN lines :
            i < j /\ lines[i] # <<0>> /\ lines[j] # <<0>> => Last(lines[i]) < Last(lines[j])
    IN /\ \A lines \in Files : rising(lines)
       /\ \A name \in DOMAIN rotated : \A i \in DOMAIN rotated[name], j \in DOMAIN file :
             file[j] # <<0>> => Last(rotated[name][i]) < Last(file[j])
=============================================================================
