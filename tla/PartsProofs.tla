----------------------------- MODULE PartsProofs -----------------------------
(* What the parts keep, proved for every value of their constants: a theorem   *)
(* for each part, from an inductive invariant over the variables of that part. *)
EXTENDS Parts, FiniteSetTheorems, SequenceTheorems, WellFoundedInduction, TLAPS

LEMMA PartsStep ==
  ASSUME [Next]_vars
  PROVE  /\ [Correlation!Next]_correlation
         /\ [Shipping!Next]_shipping
         /\ [Bucket!Next]_bucket
         /\ [Alerts!Next]_alerting
         /\ [Signed!Next]_manifests
         /\ [Drift!Next]_drift
         /\ [Canary!Next]_canary
         /\ [Sequenced!Next]_sequences
         /\ [Policy!Next]_policy
         /\ [Client!Next]_client
         /\ [Messages!Next]_jsonrpc
  BY DEF Next, vars

GuardInv ==
  /\ failClosed \in BOOLEAN
  /\ judged \in [Guarded -> {"none", "allow", "deny", "refuse", "fail"}]
  /\ answer \in [Guarded -> {"none", "verdict", "4xx", "5xx", "garbled", "nothing", "cut"}]
  /\ outcome \in [Guarded -> {"waiting", "ran", "blocked", "raised"}]
  /\ \A c \in Guarded :
        /\ answer[c] \in {"verdict", "garbled", "cut"} => judged[c] \in {"allow", "deny"}
        /\ answer[c] = "4xx" => judged[c] = "refuse"
        /\ answer[c] = "5xx" => judged[c] = "fail"
        /\ outcome[c] = "ran" => /\ answer[c] \in {"verdict", "5xx", "garbled", "nothing"}
                                 /\ Client!Allowed(c)

LEMMA GuardStep ==
  ASSUME GuardInv, [Client!Next]_client
  PROVE  GuardInv'
<1>1. CASE UNCHANGED client
  BY <1>1 DEF client, GuardInv, Client!Allowed
<1>2. ASSUME NEW c \in Guarded, Client!Judge(c)
      PROVE  GuardInv'
  <2>1. PICK v \in {"allow", "deny", "refuse", "fail"} : judged' = [judged EXCEPT ![c] = v]
    BY <1>2 DEF Client!Judge
  <2>2. /\ judged[c] = "none" /\ failClosed' = failClosed
        /\ answer' = answer /\ outcome' = outcome
    BY <1>2 DEF Client!Judge
  <2>3. /\ judged' \in [Guarded -> {"none", "allow", "deny", "refuse", "fail"}]
        /\ \A d \in Guarded \ {c} : judged'[d] = judged[d]
    BY <2>1 DEF GuardInv
  <2>4. answer[c] \notin {"verdict", "garbled", "cut", "4xx", "5xx"}
    BY <2>2 DEF GuardInv
  <2>5. \A d \in Guarded \ {c} : Client!Allowed(d)' <=> Client!Allowed(d)
    BY <2>2, <2>3 DEF Client!Allowed
  <2>6. answer[c] = "nothing" => (Client!Allowed(c)' <=> Client!Allowed(c))
    BY <2>2 DEF Client!Allowed
  <2>7. QED BY <2>2, <2>3, <2>4, <2>5, <2>6 DEF GuardInv
<1>3. ASSUME NEW c \in Guarded, Client!Arrive(c)
      PROVE  GuardInv'
  <2>1. PICK a \in {"verdict", "4xx", "5xx", "garbled", "nothing", "cut"} :
          /\ a \in {"verdict", "garbled", "cut"} => judged[c] \in {"allow", "deny"}
          /\ a = "4xx" => judged[c] = "refuse"
          /\ a = "5xx" => judged[c] = "fail"
          /\ answer' = [answer EXCEPT ![c] = a]
    BY <1>3 DEF Client!Arrive
  <2>2. /\ answer[c] = "none" /\ failClosed' = failClosed
        /\ judged' = judged /\ outcome' = outcome
    BY <1>3 DEF Client!Arrive
  <2>3. outcome[c] # "ran"
    BY <2>2 DEF GuardInv
  <2>4. /\ answer' \in [Guarded -> {"none", "verdict", "4xx", "5xx", "garbled", "nothing", "cut"}]
        /\ answer'[c] = a /\ \A d \in Guarded \ {c} : answer'[d] = answer[d]
    BY <2>1 DEF GuardInv
  <2>5. \A d \in Guarded \ {c} : Client!Allowed(d)' <=> Client!Allowed(d)
    BY <2>2, <2>4 DEF Client!Allowed
  <2>6. QED BY <2>1, <2>2, <2>3, <2>4, <2>5 DEF GuardInv
<1>4. ASSUME NEW c \in Guarded, Client!Run(c)
      PROVE  GuardInv'
  <2>1. /\ answer[c] # "none"
        /\ outcome' = [outcome EXCEPT ![c] = IF answer[c] = "cut" THEN "raised"
                          ELSE IF Client!Allowed(c) THEN "ran" ELSE "blocked"]
        /\ failClosed' = failClosed /\ judged' = judged /\ answer' = answer
    BY <1>4 DEF Client!Run
  <2>2. \A d \in Guarded : Client!Allowed(d)' <=> Client!Allowed(d)
    BY <2>1 DEF Client!Allowed
  <2>3. /\ outcome' \in [Guarded -> {"waiting", "ran", "blocked", "raised"}]
        /\ \A d \in Guarded \ {c} : outcome'[d] = outcome[d]
        /\ outcome'[c] = "ran" => answer[c] # "cut" /\ Client!Allowed(c)
    BY <2>1 DEF GuardInv
  <2>4. outcome'[c] = "ran" => answer[c] \in {"verdict", "5xx", "garbled", "nothing"}
    <3>1. answer[c] = "4xx" => ~Client!Allowed(c)
      BY DEF Client!Allowed
    <3>2. QED BY <2>1, <2>3, <3>1 DEF GuardInv
  <2>5. QED BY <2>1, <2>2, <2>3, <2>4 DEF GuardInv
<1> QED
  BY <1>1, <1>2, <1>3, <1>4 DEF Client!Next

LEMMA GuardInit == Init => GuardInv
  BY DEF Init, Client!Init, GuardInv

\* With fail_closed, guard() runs a function only after the gateway allowed this
\* very call; without it, a refusal that arrives as a 4xx still blocks
\* (client.py, scan and wrapper). GuardInv ties each answer to its decision.
THEOREM PartsGuard == Spec => []GuardHolds
<1>1. GuardInv => GuardHolds
  BY DEF GuardInv, GuardHolds, Client!RunsOnlyWhenAllowed, Client!FailOpenCoversOnlySilence, Client!Allowed
<1>2. GuardInv /\ [Next]_vars => GuardInv'
  BY PartsStep, GuardStep
<1> QED
  BY <1>1, <1>2, GuardInit, PTL DEF Spec

-----------------------------------------------------------------------------
(* The log shippers.  Events are numbered in the order of the ship() calls,     *)
(* those before the buffer have been in a batch. The files are kept in order    *)
(* by what each line ends with (WellFormed), and every event that shares its    *)
(* line with a torn one is paid for by a batch that stopped there (TornInv).    *)

HalfLine == <<0>>
Whole(e) == <<e>>
Joined(e) == <<0, e>>

LineSet(n) == {HalfLine} \cup {Whole(e) : e \in 1..n} \cup {Joined(e) : e \in 1..n}

LEMMA LineFacts ==
  /\ Shipping!Last(HalfLine) = 0
  /\ \A e \in Nat : /\ Shipping!Last(Whole(e)) = e /\ Shipping!Last(Joined(e)) = e
                    /\ Joined(e) # HalfLine /\ (e # 0 => Whole(e) # HalfLine)
  /\ \A e, f \in Nat : /\ Whole(e) # Joined(f)
                       /\ Whole(e) = Whole(f) => e = f
                       /\ Joined(e) = Joined(f) => e = f
<1>1. Shipping!Last(HalfLine) = 0
  BY DEF Shipping!Last, HalfLine
<1>2. ASSUME NEW e \in Nat
      PROVE  /\ Shipping!Last(Whole(e)) = e /\ Shipping!Last(Joined(e)) = e
             /\ Joined(e) # HalfLine /\ (e # 0 => Whole(e) # HalfLine)
  <2>1. Shipping!Last(Whole(e)) = e /\ Shipping!Last(Joined(e)) = e
    BY DEF Shipping!Last, Whole, Joined
  <2>2. Len(Joined(e)) = 2 /\ Len(HalfLine) = 1
    BY DEF Joined, HalfLine
  <2>3. Whole(e)[1] = e /\ HalfLine[1] = 0
    BY DEF Whole, HalfLine
  <2> QED
    BY <2>1, <2>2, <2>3
<1>3. ASSUME NEW e \in Nat, NEW f \in Nat
      PROVE  /\ Whole(e) # Joined(f)
             /\ Whole(e) = Whole(f) => e = f
             /\ Joined(e) = Joined(f) => e = f
  <2>1. Len(Whole(e)) = 1 /\ Len(Joined(f)) = 2
    BY DEF Whole, Joined
  <2> QED
    BY <1>2, <2>1
<1> QED
  BY <1>1, <1>2, <1>3

LEMMA LineNumbers ==
  ASSUME NEW n \in Nat, NEW line \in LineSet(n)
  PROVE  /\ Shipping!Last(line) \in 0..n
         /\ line # HalfLine => Shipping!Last(line) > 0
  BY LineFacts DEF LineSet

\* What Written() makes of a file.
Half(lines, batchOf) == Shipping!Open(lines) /\ batchOf # <<>>
Kept(lines, batchOf) == IF Half(lines, batchOf) THEN Len(lines) - 1 ELSE Len(lines)

LEMMA WrittenIs ==
  ASSUME NEW S, NEW lines \in Seq(S), NEW queue \in Seq(Nat)
  PROVE  LET w == Shipping!Written(lines, queue)
             kept == Kept(lines, queue)
         IN /\ kept \in 0..Len(lines)
            /\ Half(lines, queue) => /\ kept = Len(lines) - 1 /\ lines[Len(lines)] = HalfLine
                                     /\ Len(queue) > 0
            /\ ~Half(lines, queue) => kept = Len(lines)
            /\ DOMAIN w = 1..(kept + Len(queue)) /\ Len(w) = kept + Len(queue)
            /\ \A i \in 1..kept : w[i] = lines[i]
            /\ \A i \in 1..Len(queue) :
                  w[kept + i] = IF Half(lines, queue) /\ i = 1 THEN Joined(queue[1]) ELSE Whole(queue[i])
            /\ w = [i \in 1..(kept + Len(queue)) |-> w[i]]
<1> DEFINE w == Shipping!Written(lines, queue)
           kept == Kept(lines, queue)
<1>1. /\ kept \in 0..Len(lines)
      /\ Half(lines, queue) => /\ kept = Len(lines) - 1 /\ lines[Len(lines)] = HalfLine
                               /\ Len(queue) > 0
      /\ ~Half(lines, queue) => kept = Len(lines)
  BY DEF Half, Kept, Shipping!Open, Shipping!Last, HalfLine
<1>2. w = [i \in 1..(kept + Len(queue)) |->
             IF i <= kept THEN lines[i]
             ELSE IF Half(lines, queue) /\ i = kept + 1 THEN Joined(queue[1])
             ELSE Whole(queue[i - kept])]
  BY Zenon DEF Shipping!Written, Half, Kept, Joined, Whole
<1> HIDE DEF w, kept
<1>3. kept + Len(queue) \in Nat
  BY <1>1
<1>4. DOMAIN w = 1..(kept + Len(queue)) /\ w = [i \in 1..(kept + Len(queue)) |-> w[i]]
  BY <1>2
<1>5. Len(w) = kept + Len(queue)
  BY <1>3, <1>4
<1>6. \A i \in 1..kept : w[i] = lines[i]
  BY <1>1, <1>2
<1>7. \A i \in 1..Len(queue) :
        w[kept + i] = IF Half(lines, queue) /\ i = 1 THEN Joined(queue[1]) ELSE Whole(queue[i])
  <2> TAKE i \in 1..Len(queue)
  <2>1. /\ kept + i \in 1..(kept + Len(queue)) /\ ~(kept + i <= kept)
        /\ (kept + i) - kept = i /\ (kept + i = kept + 1 <=> i = 1)
    BY <1>1
  <2> QED
    BY <1>2, <2>1
<1> QED
  BY <1>1, <1>4, <1>5, <1>6, <1>7 DEF w, kept

WellFormed(lines, n) ==
  /\ lines \in Seq(LineSet(n))
  /\ \A i, j \in 1..Len(lines) :
        i < j /\ lines[i] # HalfLine /\ lines[j] # HalfLine
           => Shipping!Last(lines[i]) < Shipping!Last(lines[j])

\* The batch is the n events after the first m.
NextEvents(queue, m) ==
  queue \in Seq(Nat) /\ \A i \in 1..Len(queue) : queue[i] = m + i

LEMMA LineSetGrows ==
  ASSUME NEW m \in Nat, NEW n \in Nat, m <= n
  PROVE  LineSet(m) \subseteq LineSet(n)
<1>1. 1..m \subseteq 1..n
  OBVIOUS
<1> QED
  BY <1>1 DEF LineSet

\* An appended batch keeps a file in order, on lines of the later events.
LEMMA WrittenKeepsOrder ==
  ASSUME NEW m \in Nat, NEW lines, WellFormed(lines, m), NEW queue, NextEvents(queue, m)
  PROVE  LET w == Shipping!Written(lines, queue)
         IN /\ WellFormed(w, m + Len(queue))
            /\ \A i \in 1..Len(w) : w[i] # HalfLine =>
                  \/ i \in 1..Len(lines) /\ w[i] = lines[i]
                  \/ m < Shipping!Last(w[i])
<1> DEFINE w == Shipping!Written(lines, queue)
           kept == Kept(lines, queue)
           n == m + Len(queue)
<1>0. lines \in Seq(LineSet(m)) /\ queue \in Seq(Nat) /\ Len(queue) \in Nat /\ Len(lines) \in Nat
  BY DEF WellFormed, NextEvents
<1>1. /\ kept \in 0..Len(lines)
      /\ DOMAIN w = 1..(kept + Len(queue)) /\ Len(w) = kept + Len(queue)
      /\ \A i \in 1..kept : w[i] = lines[i]
      /\ \A i \in 1..Len(queue) :
            w[kept + i] = IF Half(lines, queue) /\ i = 1 THEN Joined(queue[1]) ELSE Whole(queue[i])
      /\ w = [i \in 1..(kept + Len(queue)) |-> w[i]]
  BY <1>0, WrittenIs
<1>2. n \in Nat /\ m <= n /\ LineSet(m) \subseteq LineSet(n)
  BY <1>0, LineSetGrows
<1> HIDE DEF w, kept, n
<1>3. \A i \in 1..kept : i \in 1..Len(lines) /\ w[i] = lines[i] /\ w[i] \in LineSet(m)
  <2>1. \A i \in 1..kept : i \in 1..Len(lines)
    BY <1>0, <1>1
  <2>2. \A i \in 1..Len(lines) : lines[i] \in LineSet(m)
    BY <1>0
  <2> QED
    BY <1>1, <2>1, <2>2
<1>4. \A i \in 1..Len(queue) : /\ w[kept + i] \in LineSet(n)
                               /\ Shipping!Last(w[kept + i]) = m + i
  <2> TAKE i \in 1..Len(queue)
  <2>1. queue[i] = m + i /\ m + i \in Nat /\ m + i \in 1..n
    BY <1>0 DEF NextEvents, n
  <2>2. w[kept + i] \in {Whole(m + i), Joined(m + i)}
    BY <1>1, <2>1
  <2> QED
    BY <2>1, <2>2, LineFacts DEF LineSet
<1>5. \A i \in 1..(kept + Len(queue)) :
         i \in 1..kept \/ \E k \in 1..Len(queue) : i = kept + k
  <2> TAKE i \in 1..(kept + Len(queue))
  <2> SUFFICES ASSUME i \notin 1..kept
               PROVE  \E k \in 1..Len(queue) : i = kept + k
    OBVIOUS
  <2>1. i - kept \in 1..Len(queue) /\ i = kept + (i - kept)
    BY <1>0, <1>1
  <2> QED
    BY <2>1
<1>6. \A i \in 1..(kept + Len(queue)) : w[i] \in LineSet(n)
  BY <1>2, <1>3, <1>4, <1>5
<1>7. w \in Seq(LineSet(n))
  <2>1. kept + Len(queue) \in Nat
    BY <1>0, <1>1
  <2>2. w \in [1..(kept + Len(queue)) -> LineSet(n)]
    BY <1>1, <1>6
  <2> QED
    BY <2>1, <2>2
<1>8. ASSUME NEW i \in 1..Len(w), NEW j \in 1..Len(w), i < j, w[i] # HalfLine, w[j] # HalfLine
      PROVE  Shipping!Last(w[i]) < Shipping!Last(w[j])
  <2>1. CASE i \in 1..kept /\ j \in 1..kept
    BY <1>3, <1>8, <2>1 DEF WellFormed
  <2>2. CASE i \in 1..kept /\ j \notin 1..kept
    <3>1. PICK k \in 1..Len(queue) : j = kept + k
      BY <1>1, <1>5, <2>2
    <3>2. Shipping!Last(w[i]) \in 0..m
      BY <1>3, <2>2, LineNumbers
    <3> QED
      BY <1>0, <1>4, <3>1, <3>2
  <2>3. CASE i \notin 1..kept
    <3>1. PICK k \in 1..Len(queue) : i = kept + k
      BY <1>1, <1>5, <2>3
    <3>2. j \notin 1..kept
      BY <1>1, <1>8, <2>3
    <3>3. PICK l \in 1..Len(queue) : j = kept + l
      BY <1>1, <1>5, <3>2
    <3>4. k < l
      BY <1>0, <1>1, <1>8, <3>1, <3>3
    <3>5. Shipping!Last(w[i]) = m + k /\ Shipping!Last(w[j]) = m + l
      BY <1>4, <3>1, <3>3
    <3> QED
      BY <1>0, <3>4, <3>5
  <2> QED
    BY <2>1, <2>2, <2>3
<1>9. ASSUME NEW i \in 1..Len(w), w[i] # HalfLine
      PROVE  \/ i \in 1..Len(lines) /\ w[i] = lines[i]
             \/ m < Shipping!Last(w[i])
  <2>1. CASE i \in 1..kept
    BY <1>3, <2>1
  <2>2. CASE i \notin 1..kept
    <3>1. PICK k \in 1..Len(queue) : i = kept + k
      BY <1>1, <1>5, <2>2
    <3> QED
      BY <1>0, <1>4, <3>1
  <2> QED
    BY <2>1, <2>2
<1> QED
  BY <1>7, <1>8, <1>9 DEF WellFormed, w, n

\* The lines that were there stay, but for a half line that is completed, and
\* every event of the batch is on a line.
LEMMA WrittenHoldsBatch ==
  ASSUME NEW m \in Nat, NEW lines, WellFormed(lines, m), NEW queue, NextEvents(queue, m)
  PROVE  LET w == Shipping!Written(lines, queue)
         IN /\ \A line \in Shipping!Range(lines) : line # HalfLine => line \in Shipping!Range(w)
            /\ \A i \in 1..Len(queue) : \/ Whole(m + i) \in Shipping!Range(w)
                                        \/ Joined(m + i) \in Shipping!Range(w)
            /\ \A e \in Nat : Joined(e) \in Shipping!Range(w) =>
                  Joined(e) \in Shipping!Range(lines) \/ (Half(lines, queue) /\ e = m + 1)
            /\ Shipping!Open(w) <=> Shipping!Open(lines) /\ queue = <<>>
            /\ queue = <<>> => w = lines
<1> DEFINE w == Shipping!Written(lines, queue)
           kept == Kept(lines, queue)
<1>0. lines \in Seq(LineSet(m)) /\ queue \in Seq(Nat) /\ Len(queue) \in Nat /\ Len(lines) \in Nat
      /\ (queue = <<>> <=> Len(queue) = 0)
  BY DEF WellFormed, NextEvents
<1>1. /\ kept \in 0..Len(lines)
      /\ Half(lines, queue) => kept = Len(lines) - 1 /\ lines[Len(lines)] = HalfLine /\ Len(queue) > 0
      /\ ~Half(lines, queue) => kept = Len(lines)
      /\ DOMAIN w = 1..(kept + Len(queue)) /\ Len(w) = kept + Len(queue)
      /\ \A i \in 1..kept : w[i] = lines[i]
      /\ \A i \in 1..Len(queue) :
            w[kept + i] = IF Half(lines, queue) /\ i = 1 THEN Joined(queue[1]) ELSE Whole(queue[i])
      /\ w = [i \in 1..(kept + Len(queue)) |-> w[i]]
  BY <1>0, WrittenIs
<1> HIDE DEF w, kept
<1>2. \A i \in 1..Len(queue) : /\ queue[i] = m + i /\ m + i \in Nat /\ m + i # 0
                               /\ kept + i \in DOMAIN w
  <2> TAKE i \in 1..Len(queue)
  <2>1. queue[i] = m + i
    BY DEF NextEvents
  <2>2. m + i \in Nat /\ m + i # 0
    BY <1>0
  <2>3. kept + i \in 1..(kept + Len(queue))
    BY <1>0, <1>1
  <2> QED
    BY <1>1, <2>1, <2>2, <2>3
<1>3. ASSUME NEW line \in Shipping!Range(lines), line # HalfLine
      PROVE  line \in Shipping!Range(w)
  <2>1. PICK i \in 1..Len(lines) : line = lines[i]
    BY <1>0 DEF Shipping!Range
  <2>2. i \in 1..kept
    BY <1>0, <1>1, <1>3, <2>1
  <2>3. w[i] = lines[i]
    BY <1>1, <2>2
  <2>4. kept \in Nat /\ i \in 1..(kept + Len(queue))
    BY <1>0, <1>1, <2>2
  <2> QED
    BY <1>1, <2>1, <2>3, <2>4 DEF Shipping!Range
<1>4. \A i \in 1..Len(queue) : w[kept + i] \in Shipping!Range(w) /\ w[kept + i] \in {Whole(m + i), Joined(m + i)}
  BY <1>1, <1>2 DEF Shipping!Range
<1>5. ASSUME NEW e \in Nat, Joined(e) \in Shipping!Range(w)
      PROVE  Joined(e) \in Shipping!Range(lines) \/ (Half(lines, queue) /\ e = m + 1)
  <2>1. PICK i \in 1..(kept + Len(queue)) : w[i] = Joined(e)
    BY <1>1, <1>5 DEF Shipping!Range
  <2>2. CASE i \in 1..kept
    <3>1. i \in 1..Len(lines) /\ DOMAIN lines = 1..Len(lines)
      BY <1>0, <1>1, <2>2
    <3>2. lines[i] = Joined(e)
      BY <1>1, <2>1, <2>2
    <3> QED
      BY <3>1, <3>2 DEF Shipping!Range
  <2>3. CASE i \notin 1..kept
    <3>1. i - kept \in 1..Len(queue) /\ kept + (i - kept) = i
      BY <1>0, <1>1, <2>3
    <3> DEFINE k == i - kept
    <3>2. w[i] = IF Half(lines, queue) /\ k = 1 THEN Joined(queue[1]) ELSE Whole(queue[k])
      BY <1>1, <3>1
    <3>3. queue[k] = m + k /\ m + k \in Nat
      BY <1>2, <3>1
    <3> HIDE DEF k
    <3>4. Half(lines, queue) /\ k = 1
      BY <2>1, <3>2, <3>3, LineFacts
    <3> QED
      BY <2>1, <3>2, <3>3, <3>4, LineFacts
  <2> QED
    BY <2>2, <2>3
<1>6. queue = <<>> => w = lines
  <2> SUFFICES ASSUME queue = <<>>
               PROVE  w = lines
    OBVIOUS
  <2>1. ~Half(lines, queue)
    BY DEF Half
  <2>2. kept = Len(lines) /\ kept + Len(queue) = Len(lines)
    BY <1>0, <1>1, <2>1
  <2>3. lines = [i \in 1..Len(lines) |-> lines[i]]
    BY <1>0
  <2> QED
    BY <1>1, <2>2, <2>3
<1>7. Len(queue) # 0 => ~Shipping!Open(w)
  <2> SUFFICES ASSUME Len(queue) # 0
               PROVE  w[Len(w)] # HalfLine
    BY DEF Shipping!Open, Shipping!Last, HalfLine
  <2>1. Len(queue) \in 1..Len(queue) /\ Len(w) = kept + Len(queue)
    BY <1>0, <1>1
  <2> QED
    BY <1>2, <1>4, <2>1, LineFacts
<1> QED
  BY <1>0, <1>3, <1>4, <1>5, <1>6, <1>7 DEF w

LEMMA WellFormedGrows ==
  ASSUME NEW m \in Nat, NEW n \in Nat, m <= n, NEW lines, WellFormed(lines, m)
  PROVE  WellFormed(lines, n)
<1>1. LineSet(m) \subseteq LineSet(n)
  BY LineSetGrows
<1>2. lines \in Seq(LineSet(n))
  BY <1>1 DEF WellFormed
<1> QED
  BY <1>2 DEF WellFormed

LEMMA HalfLineAppended ==
  ASSUME NEW n \in Nat, NEW lines, WellFormed(lines, n)
  PROVE  LET w == Append(lines, HalfLine)
         IN /\ WellFormed(w, n)
            /\ Shipping!Range(w) = Shipping!Range(lines) \cup {HalfLine}
            /\ \A i \in 1..Len(w) : w[i] # HalfLine => i \in 1..Len(lines) /\ w[i] = lines[i]
<1> DEFINE w == Append(lines, HalfLine)
<1>1. lines \in Seq(LineSet(n)) /\ HalfLine \in LineSet(n) /\ Len(lines) \in Nat
  BY DEF WellFormed, LineSet
<1>2. /\ w \in Seq(LineSet(n)) /\ Len(w) = Len(lines) + 1
      /\ \A i \in 1..Len(lines) : w[i] = lines[i]
      /\ w[Len(lines) + 1] = HalfLine
  BY <1>1
<1> HIDE DEF w
<1>3. \A i \in 1..Len(w) : i \in 1..Len(lines) \/ i = Len(lines) + 1
  BY <1>1, <1>2
<1>4. \A i \in 1..Len(w) : w[i] # HalfLine => i \in 1..Len(lines) /\ w[i] = lines[i]
  BY <1>2, <1>3
<1>5. WellFormed(w, n)
  BY <1>2, <1>4 DEF WellFormed
<1>6. /\ DOMAIN w = 1..Len(w) /\ DOMAIN lines = 1..Len(lines)
      /\ Len(lines) + 1 \in 1..Len(w) /\ \A i \in 1..Len(lines) : i \in 1..Len(w)
  BY <1>1, <1>2
<1>7. Shipping!Range(w) = Shipping!Range(lines) \cup {HalfLine}
  BY <1>2, <1>3, <1>6 DEF Shipping!Range
<1> QED
  BY <1>4, <1>5, <1>7 DEF w

\* What a batch leaves of the file it is appended to.
Appended(lines, base, queue, n, success, more) ==
  /\ WellFormed(lines, n + Len(queue))
  /\ \A i \in 1..Len(lines) : lines[i] # HalfLine =>
        \/ i \in 1..Len(base) /\ lines[i] = base[i]
        \/ n < Shipping!Last(lines[i])
  /\ \A line \in Shipping!Range(base) : line # HalfLine => line \in Shipping!Range(lines)
  /\ success => \A i \in 1..Len(queue) : \/ Whole(n + i) \in Shipping!Range(lines)
                                         \/ Joined(n + i) \in Shipping!Range(lines)
  /\ \A e \in Nat : Joined(e) \in Shipping!Range(lines) =>
        Joined(e) \in Shipping!Range(base) \/ (Shipping!Open(base) /\ e = n + 1)
  /\ Shipping!Open(lines) =>
        \/ more
        \/ Shipping!Open(base) /\ Shipping!Range(lines) = Shipping!Range(base)

LEMMA WriteAppends ==
  ASSUME NEW n \in Nat, NEW base, WellFormed(base, n), NEW queue, NextEvents(queue, n),
         Len(queue) > 0, NEW success \in BOOLEAN, Shipping!Write(base, queue, success), torn \in Nat
  PROVE  /\ torn' \in {torn, torn + 1}
         /\ Appended(file', base, queue, n, success, torn' = torn + 1)
<1>0. queue \in Seq(Nat) /\ Len(queue) \in Nat /\ queue # <<>>
  BY DEF NextEvents
<1>1. CASE success
  <2>1. file' = Shipping!Written(base, queue) /\ torn' = torn
    BY <1>1 DEF Shipping!Write
  <2> QED
    BY <1>0, <2>1, WrittenKeepsOrder, WrittenHoldsBatch DEF Appended, Half
<1>2. CASE ~success
  <2>1. PICK whole \in 0..(Len(queue) - 1), half \in BOOLEAN :
          LET done == Shipping!Written(base, SubSeq(queue, 1, whole))
          IN /\ file' = IF half /\ ~Shipping!Open(done) THEN Append(done, <<0>>) ELSE done
             /\ torn' = IF half THEN torn + 1 ELSE torn
    BY <1>2 DEF Shipping!Write
  <2> DEFINE front == SubSeq(queue, 1, whole)
             done == Shipping!Written(base, front)
  <2>2. NextEvents(front, n) /\ Len(front) = whole /\ whole \in Nat /\ whole <= Len(queue)
    BY <1>0 DEF NextEvents
  <2>3. WellFormed(done, n + Len(queue))
    <3>1. WellFormed(done, n + whole)
      BY <2>2, WrittenKeepsOrder
    <3> QED
      BY <1>0, <2>2, <3>1, WellFormedGrows
  <2>4. \A i \in 1..Len(done) : done[i] # HalfLine =>
          \/ i \in 1..Len(base) /\ done[i] = base[i]
          \/ n < Shipping!Last(done[i])
    BY <2>2, WrittenKeepsOrder
  <2>5. /\ \A line \in Shipping!Range(base) : line # HalfLine => line \in Shipping!Range(done)
        /\ \A e \in Nat : Joined(e) \in Shipping!Range(done) =>
              Joined(e) \in Shipping!Range(base) \/ (Shipping!Open(base) /\ e = n + 1)
        /\ Shipping!Open(done) => Shipping!Open(base) /\ done = base
    BY <2>2, WrittenHoldsBatch DEF Half
  <2>6. /\ torn' = IF half THEN torn + 1 ELSE torn
        /\ file' = IF half /\ ~Shipping!Open(done) THEN Append(done, HalfLine) ELSE done
    BY <2>1 DEF HalfLine
  <2> HIDE DEF done
  <2>7. CASE half /\ ~Shipping!Open(done)
    <3>1. file' = Append(done, HalfLine) /\ torn' = torn + 1
      BY <2>6, <2>7
    <3>2. /\ WellFormed(file', n + Len(queue))
          /\ Shipping!Range(file') = Shipping!Range(done) \cup {HalfLine}
          /\ \A i \in 1..Len(file') : file'[i] # HalfLine => i \in 1..Len(done) /\ file'[i] = done[i]
      BY <1>0, <2>3, <3>1, HalfLineAppended
    <3>3. \A e \in Nat : Joined(e) # HalfLine
      BY LineFacts
    <3> QED
      BY <1>2, <2>4, <2>5, <3>1, <3>2, <3>3 DEF Appended
  <2>8. CASE ~(half /\ ~Shipping!Open(done))
    <3>1. file' = done /\ torn' \in {torn, torn + 1}
      BY <2>6, <2>8
    <3> QED
      BY <1>2, <2>3, <2>4, <2>5, <3>1 DEF Appended
  <2> QED
    BY <2>7, <2>8
<1> QED
  BY <1>1, <1>2

Sent == made - Len(buffer)

\* The lines that were ever written, but for the half ones that were completed.
Old == replaced \cup UNION {Shipping!Range(rotated[name]) : name \in DOMAIN rotated}
AllLines == Shipping!Range(file) \cup Old

ShippingType ==
  /\ backend \in {"file", "elasticsearch", "stdout"}
  /\ made \in 0..MaxShipped
  /\ Len(buffer) < BufferSize /\ Len(buffer) <= made
  /\ NextEvents(buffer, Sent)

StatsInv(n) ==
  /\ stats \in [shipped : SUBSET Nat, failed : SUBSET Nat, consecutive : Nat]
  /\ stats.shipped \cup stats.failed = 1..n
  /\ stats.shipped \cap stats.failed = {}
  /\ stats.consecutive > 0 <=> n \in stats.failed

FilesInv(n) ==
  /\ WellFormed(file, n)
  /\ \A name \in DOMAIN rotated :
        /\ WellFormed(rotated[name], n)
        /\ \A i \in 1..Len(rotated[name]), j \in 1..Len(file) :
              file[j] # HalfLine => Shipping!Last(rotated[name][i]) < Shipping!Last(file[j])

StoredInv ==
  backend = "file" => \A e \in stats.shipped : Whole(e) \in AllLines \/ Joined(e) \in AllLines

TornEvents == {e \in 1..MaxShipped : Joined(e) \in AllLines}

TornInv ==
  /\ torn \in Nat
  /\ Cardinality(TornEvents) + (IF Shipping!Open(file) THEN 1 ELSE 0) <= torn

CopiesInv(n) ==
  /\ copies \in [1..MaxShipped -> Nat]
  /\ \A e \in 1..MaxShipped :
        /\ e > n \/ backend = "file" => copies[e] = 0
        /\ backend = "stdout" => copies[e] <= 1
        /\ backend = "elasticsearch" => copies[e] <= MaxRetries
        /\ backend # "file" /\ e \in stats.shipped => copies[e] >= 1

ShippingInv ==
  /\ ShippingType /\ StatsInv(Sent) /\ FilesInv(Sent) /\ StoredInv /\ TornInv /\ CopiesInv(Sent)

LEMMA TornEventsFinite ==
  /\ IsFiniteSet(TornEvents) /\ Cardinality(TornEvents) \in Nat
  /\ IsFiniteSet(TornEvents') /\ Cardinality(TornEvents') \in Nat
<1>1. IsFiniteSet(1..MaxShipped)
  BY ShippingAssumption, FS_Interval
<1> QED
  BY <1>1, FS_Subset, FS_CardinalityType DEF TornEvents

LEMMA RotateMovesLines ==
  ASSUME Shipping!Rotate
  PROVE  /\ Old' = Old \cup Shipping!Range(file)
         /\ \A name \in DOMAIN rotated' :
               \/ rotated'[name] = file
               \/ name \in DOMAIN rotated /\ rotated'[name] = rotated[name]
<1>1. /\ rotated' = [name \in DOMAIN rotated \cup {second} |->
                        IF name = second THEN file ELSE rotated[name]]
      /\ replaced' = IF second \in DOMAIN rotated
                     THEN replaced \cup Shipping!Range(rotated[second]) ELSE replaced
  BY DEF Shipping!Rotate
<1>2. /\ DOMAIN rotated' = DOMAIN rotated \cup {second} /\ rotated'[second] = file
      /\ \A name \in DOMAIN rotated : name # second => rotated'[name] = rotated[name]
  BY <1>1
<1>3. ASSUME NEW line \in Old'
      PROVE  line \in Old \cup Shipping!Range(file)
  <2>1. CASE line \in replaced'
    BY <1>1, <2>1 DEF Old
  <2>2. CASE \E name \in DOMAIN rotated' : line \in Shipping!Range(rotated'[name])
    BY <1>2, <2>2 DEF Old
  <2> QED
    BY <1>3, <2>1, <2>2 DEF Old, Shipping!Range
<1>4. ASSUME NEW line \in Old \cup Shipping!Range(file)
      PROVE  line \in Old'
  <2> DEFINE In(name) == line \in Shipping!Range(rotated'[name])
  <2>1. SUFFICES line \in replaced' \/ \E name \in DOMAIN rotated' : In(name)
    BY DEF Old, Shipping!Range
  <2>2. CASE line \in Shipping!Range(file)
    BY <1>2, <2>2
  <2>3. CASE line \in replaced
    BY <1>1, <2>3
  <2>4. ASSUME NEW name \in DOMAIN rotated, line \in Shipping!Range(rotated[name])
        PROVE  line \in replaced' \/ \E other \in DOMAIN rotated' : In(other)
    <3>1. CASE name = second
      BY <1>1, <2>4, <3>1
    <3>2. CASE name # second
      BY <1>2, <2>4, <3>2
    <3> QED
      BY <3>1, <3>2
  <2> QED
    BY <1>4, <2>2, <2>3, <2>4 DEF Old
<1> QED
  BY <1>2, <1>3, <1>4

LEMMA FileBatchStep ==
  ASSUME NEW n \in Nat, NEW queue, NextEvents(queue, n), Len(queue) > 0,
         FilesInv(n), TornInv, NEW success \in BOOLEAN, Shipping!FileBatch(queue, success)
  PROVE  /\ FilesInv(n + Len(queue))'
         /\ TornInv'
         /\ \A line \in AllLines : line # HalfLine => line \in AllLines'
         /\ success => \A i \in 1..Len(queue) : \/ Whole(n + i) \in AllLines'
                                                \/ Joined(n + i) \in AllLines'
<1>0. Len(queue) \in Nat /\ n + Len(queue) \in Nat /\ n <= n + Len(queue)
  BY DEF NextEvents
<1>1. \E base :
        /\ Shipping!Write(base, queue, success) /\ WellFormed(base, n)
        /\ Shipping!Range(base) \cup Old' = AllLines
        /\ Shipping!Open(base) => Shipping!Open(file)
        /\ \A name \in DOMAIN rotated' :
              /\ WellFormed(rotated'[name], n)
              /\ \A i \in 1..Len(rotated'[name]), j \in 1..Len(base) :
                    base[j] # HalfLine => Shipping!Last(rotated'[name][i]) < Shipping!Last(base[j])
  <2>1. CASE Shipping!Write(file, queue, success) /\ UNCHANGED <<rotated, replaced>>
    <3>1. Old' = Old
      BY <2>1 DEF Old, Shipping!Range
    <3> QED
      BY <2>1, <3>1 DEF FilesInv, AllLines
  <2>2. CASE Shipping!Rotate /\ Shipping!Write(<<>>, queue, success)
    <3>1. Old' = AllLines
      BY <2>2, RotateMovesLines DEF AllLines
    <3>2. WellFormed(<<>>, n) /\ Shipping!Range(<<>>) = {} /\ ~Shipping!Open(<<>>)
      BY DEF WellFormed, Shipping!Range, Shipping!Open
    <3>3. \A name \in DOMAIN rotated' : WellFormed(rotated'[name], n)
      BY <2>2, RotateMovesLines DEF FilesInv
    <3>4. Len(<<>>) = 0 /\ 1..0 = {}
      OBVIOUS
    <3> QED
      BY <2>2, <3>1, <3>2, <3>3, <3>4
  <2> QED
    BY <2>1, <2>2 DEF Shipping!FileBatch
<1>2. PICK base :
        /\ Shipping!Write(base, queue, success) /\ WellFormed(base, n)
        /\ Shipping!Range(base) \cup Old' = AllLines
        /\ Shipping!Open(base) => Shipping!Open(file)
        /\ \A name \in DOMAIN rotated' :
              /\ WellFormed(rotated'[name], n)
              /\ \A i \in 1..Len(rotated'[name]), j \in 1..Len(base) :
                    base[j] # HalfLine => Shipping!Last(rotated'[name][i]) < Shipping!Last(base[j])
  BY <1>1
<1>3. /\ torn \in Nat /\ torn' \in {torn, torn + 1}
      /\ Appended(file', base, queue, n, success, torn' = torn + 1)
  BY <1>2, WriteAppends DEF TornInv
<1>4. FilesInv(n + Len(queue))'
  <2>1. WellFormed(file', n + Len(queue))
    BY <1>3 DEF Appended
  <2>2. ASSUME NEW name \in DOMAIN rotated'
        PROVE  WellFormed(rotated'[name], n + Len(queue))
    BY <1>0, <1>2, <2>2, WellFormedGrows
  <2>3. ASSUME NEW name \in DOMAIN rotated', NEW i \in 1..Len(rotated'[name]),
               NEW j \in 1..Len(file'), file'[j] # HalfLine
        PROVE  Shipping!Last(rotated'[name][i]) < Shipping!Last(file'[j])
    <3>1. CASE j \in 1..Len(base) /\ file'[j] = base[j]
      BY <1>2, <2>3, <3>1
    <3>2. CASE n < Shipping!Last(file'[j])
      <4>1. rotated'[name] \in Seq(LineSet(n))
        BY <1>2 DEF WellFormed
      <4>2. rotated'[name][i] \in LineSet(n)
        BY <4>1
      <4>3. Shipping!Last(rotated'[name][i]) \in 0..n
        BY <4>2, LineNumbers
      <4>4. file'[j] \in LineSet(n + Len(queue))
        <5>1. file' \in Seq(LineSet(n + Len(queue)))
          BY <2>1 DEF WellFormed
        <5> QED
          BY <5>1
      <4>5. Shipping!Last(file'[j]) \in 0..(n + Len(queue))
        BY <1>0, <4>4, LineNumbers
      <4> QED
        BY <1>0, <3>2, <4>3, <4>5
    <3> QED
      BY <1>3, <2>3, <3>1, <3>2 DEF Appended
  <2> QED
    BY <2>1, <2>2, <2>3 DEF FilesInv
<1>5. AllLines' = Shipping!Range(file') \cup Old'
  BY DEF AllLines, Shipping!Range
<1>6. \A line \in AllLines : line # HalfLine => line \in AllLines'
  BY <1>2, <1>3, <1>5 DEF Appended
<1>7. success => \A i \in 1..Len(queue) : Whole(n + i) \in AllLines' \/ Joined(n + i) \in AllLines'
  BY <1>3, <1>5 DEF Appended
<1>8. TornInv'
  <2>1. /\ Cardinality(TornEvents) \in Nat /\ Cardinality(TornEvents') \in Nat
        /\ IsFiniteSet(TornEvents) /\ IsFiniteSet(TornEvents')
        /\ Cardinality(TornEvents) + (IF Shipping!Open(file) THEN 1 ELSE 0) <= torn
    BY TornEventsFinite DEF TornInv
  <2>2. \A e \in TornEvents' : e \in TornEvents \/ (Shipping!Open(base) /\ e = n + 1)
    BY <1>2, <1>3, <1>5, ShippingAssumption DEF TornEvents, Appended
  <2>3. /\ IsFiniteSet(TornEvents \cup {n + 1})
        /\ Cardinality(TornEvents \cup {n + 1}) \in {Cardinality(TornEvents), Cardinality(TornEvents) + 1}
    BY <2>1, FS_AddElement
  <2>4. Shipping!Open(base) => Cardinality(TornEvents') <= Cardinality(TornEvents) + 1
    <3>1. TornEvents' \subseteq TornEvents \cup {n + 1}
      BY <2>2
    <3>2. Cardinality(TornEvents') <= Cardinality(TornEvents \cup {n + 1})
      BY <2>3, <3>1, FS_Subset
    <3> QED
      BY <2>1, <2>3, <3>2
  <2>5. ~Shipping!Open(base) => Cardinality(TornEvents') <= Cardinality(TornEvents)
    <3> SUFFICES ASSUME ~Shipping!Open(base)
                 PROVE  Cardinality(TornEvents') <= Cardinality(TornEvents)
      OBVIOUS
    <3>1. TornEvents' \subseteq TornEvents
      BY <2>2
    <3> QED
      BY <2>1, <3>1, FS_Subset
  <2>6. Shipping!Open(file)' = Shipping!Open(file')
    BY DEF Shipping!Open, Shipping!Last
  <2>7. CASE Shipping!Open(file') /\ torn' # torn + 1
    <3>1. Shipping!Open(base) /\ Shipping!Range(file') = Shipping!Range(base)
      BY <1>3, <2>7 DEF Appended
    <3>2. AllLines' = AllLines
      BY <1>2, <1>5, <3>1
    <3>3. TornEvents' = TornEvents
      BY <3>2 DEF TornEvents
    <3>4. Shipping!Open(file) /\ torn' = torn
      BY <1>2, <1>3, <2>7, <3>1
    <3> QED
      BY <1>3, <2>1, <2>6, <3>3, <3>4 DEF TornInv
  <2>8. CASE Shipping!Open(file') /\ torn' = torn + 1
    <3>1. Cardinality(TornEvents') <= torn
      BY <1>2, <1>3, <2>1, <2>4, <2>5
    <3> QED
      BY <1>3, <2>1, <2>6, <2>8, <3>1 DEF TornInv
  <2>9. CASE ~Shipping!Open(file')
    <3>1. Cardinality(TornEvents') <= torn
      BY <1>2, <1>3, <2>1, <2>4, <2>5
    <3> QED
      BY <1>3, <2>1, <2>6, <2>9, <3>1 DEF TornInv
  <2> QED
    BY <2>7, <2>8, <2>9
<1> QED
  BY <1>4, <1>6, <1>7, <1>8

LEMMA BatchRange ==
  ASSUME NEW n \in Nat, NEW queue, NextEvents(queue, n)
  PROVE  Shipping!Range(queue) = (n + 1)..(n + Len(queue))
<1>1. /\ DOMAIN queue = 1..Len(queue) /\ Len(queue) \in Nat
      /\ \A i \in 1..Len(queue) : queue[i] = n + i
  BY DEF NextEvents
<1>2. ASSUME NEW e \in (n + 1)..(n + Len(queue))
      PROVE  e \in Shipping!Range(queue)
  <2>1. e - n \in 1..Len(queue) /\ n + (e - n) = e
    BY <1>1
  <2>2. queue[e - n] = e
    BY <1>1, <2>1
  <2> QED
    BY <1>1, <2>1, <2>2 DEF Shipping!Range
<1>3. ASSUME NEW e \in Shipping!Range(queue)
      PROVE  e \in (n + 1)..(n + Len(queue))
  <2>1. PICK i \in 1..Len(queue) : e = queue[i]
    BY <1>1 DEF Shipping!Range
  <2> QED
    BY <1>1, <2>1
<1> QED
  BY <1>2, <1>3

LEMMA TimesIs ==
  ASSUME NEW queue, NEW k \in Nat, copies \in [1..MaxShipped -> Nat]
  PROVE  /\ Shipping!Times(queue, k) \in [1..MaxShipped -> Nat]
         /\ \A e \in 1..MaxShipped :
               Shipping!Times(queue, k)[e] = IF e \in Shipping!Range(queue) THEN copies[e] + k ELSE copies[e]
  BY DEF Shipping!Times

\* What a batch that is not written to a file leaves of the copies.
LEMMA CopiesStep ==
  ASSUME NEW n \in Nat, NEW queue, NextEvents(queue, n), Len(queue) > 0, CopiesInv(n),
         NEW success \in BOOLEAN,
         \/ backend = "elasticsearch" /\ Shipping!ElasticBatch(queue, success)
         \/ backend = "stdout" /\ Shipping!StdoutBatch(queue, success)
  PROVE  /\ copies' \in [1..MaxShipped -> Nat]
         /\ \A e \in 1..MaxShipped :
               IF e \in Shipping!Range(queue)
               THEN /\ backend = "stdout" => copies'[e] <= 1
                    /\ backend = "elasticsearch" => copies'[e] <= MaxRetries
                    /\ success => copies'[e] >= 1
               ELSE copies'[e] = copies[e]
<1>1. \A e \in 1..MaxShipped : e \in Shipping!Range(queue) => copies[e] = 0
  BY BatchRange DEF CopiesInv, NextEvents
<1>2. copies \in [1..MaxShipped -> Nat]
  BY DEF CopiesInv
<1>3. CASE backend = "elasticsearch" /\ Shipping!ElasticBatch(queue, success)
  <2>0. PICK retried \in 0..MaxRetries : \E applied \in 0..retried :
          \/ success /\ retried < MaxRetries /\ copies' = Shipping!Times(queue, applied + 1)
          \/ ~success /\ retried = MaxRetries /\ copies' = Shipping!Times(queue, applied)
          \/ /\ ~success /\ retried < MaxRetries
             /\ \E indexed \in SUBSET Shipping!Range(queue) :
                   copies' = [e \in DOMAIN copies |->
                                 Shipping!Times(queue, applied)[e] + (IF e \in indexed THEN 1 ELSE 0)]
    BY <1>3 DEF Shipping!ElasticBatch, Shipping!Attempts
  <2>1. PICK applied \in 0..retried :
          \/ success /\ retried < MaxRetries /\ copies' = Shipping!Times(queue, applied + 1)
          \/ ~success /\ retried = MaxRetries /\ copies' = Shipping!Times(queue, applied)
          \/ /\ ~success /\ retried < MaxRetries
             /\ \E indexed \in SUBSET Shipping!Range(queue) :
                   copies' = [e \in DOMAIN copies |->
                                 Shipping!Times(queue, applied)[e] + (IF e \in indexed THEN 1 ELSE 0)]
    BY <2>0
  <2>2. /\ MaxRetries \in Nat /\ retried \in Nat /\ applied \in Nat /\ applied + 1 \in Nat
        /\ retried <= MaxRetries /\ applied <= retried
    BY ShippingAssumption
  <2>3. CASE success /\ retried < MaxRetries /\ copies' = Shipping!Times(queue, applied + 1)
    BY <1>1, <1>2, <1>3, <2>2, <2>3, TimesIs
  <2>4. CASE ~success /\ retried = MaxRetries /\ copies' = Shipping!Times(queue, applied)
    BY <1>1, <1>2, <1>3, <2>2, <2>4, TimesIs
  <2>5. CASE /\ ~success /\ retried < MaxRetries
             /\ \E indexed \in SUBSET Shipping!Range(queue) :
                   copies' = [e \in DOMAIN copies |->
                                 Shipping!Times(queue, applied)[e] + (IF e \in indexed THEN 1 ELSE 0)]
    <3>1. PICK indexed \in SUBSET Shipping!Range(queue) :
            copies' = [e \in 1..MaxShipped |->
                          Shipping!Times(queue, applied)[e] + (IF e \in indexed THEN 1 ELSE 0)]
      BY <1>2, <2>5
    <3> DEFINE t == Shipping!Times(queue, applied)
    <3>2. /\ t \in [1..MaxShipped -> Nat]
          /\ \A e \in 1..MaxShipped :
                t[e] = IF e \in Shipping!Range(queue) THEN copies[e] + applied ELSE copies[e]
      BY <1>2, <2>2, TimesIs
    <3>3. copies' = [e \in 1..MaxShipped |-> t[e] + (IF e \in indexed THEN 1 ELSE 0)]
      BY <3>1
    <3> HIDE DEF t
    <3>4. copies' \in [1..MaxShipped -> Nat]
      BY <3>2, <3>3
    <3>5. \A e \in 1..MaxShipped :
             IF e \in Shipping!Range(queue) THEN copies'[e] <= applied + 1 ELSE copies'[e] = copies[e]
      BY <1>1, <1>2, <2>2, <3>2, <3>3
    <3>6. applied + 1 <= MaxRetries
      BY <2>2, <2>5
    <3> QED
      BY <1>3, <2>2, <2>5, <3>4, <3>5, <3>6
  <2> QED
    BY <2>1, <2>3, <2>4, <2>5
<1>4. CASE backend = "stdout" /\ Shipping!StdoutBatch(queue, success)
  <2>1. PICK printed \in 0..Len(queue) :
          /\ success <=> printed = Len(queue)
          /\ copies' = Shipping!Times(SubSeq(queue, 1, printed), 1)
    BY <1>4 DEF Shipping!StdoutBatch
  <2> DEFINE front == SubSeq(queue, 1, printed)
  <2>2. NextEvents(front, n) /\ Len(front) = printed /\ printed <= Len(queue) /\ Len(queue) \in Nat
    BY DEF NextEvents
  <2>3. /\ Shipping!Range(front) \subseteq Shipping!Range(queue)
        /\ success => Shipping!Range(front) = Shipping!Range(queue)
    <3>1. /\ Shipping!Range(front) = (n + 1)..(n + printed)
          /\ Shipping!Range(queue) = (n + 1)..(n + Len(queue))
      BY <2>2, BatchRange
    <3> QED
      BY <2>1, <2>2, <3>1
  <2>4. /\ copies' \in [1..MaxShipped -> Nat]
        /\ \A e \in 1..MaxShipped :
              copies'[e] = IF e \in Shipping!Range(front) THEN copies[e] + 1 ELSE copies[e]
    BY <1>2, <2>1, TimesIs
  <2> QED
    BY <1>1, <1>2, <1>4, <2>3, <2>4
<1> QED
  BY <1>3, <1>4

LEMMA FlushStep ==
  ASSUME NEW n \in Nat, NEW queue, NextEvents(queue, n), Len(queue) > 0,
         n + Len(queue) <= MaxShipped, made' = n + Len(queue), backend' = backend,
         backend \in {"file", "elasticsearch", "stdout"},
         StatsInv(n), FilesInv(n), StoredInv, TornInv, CopiesInv(n), Shipping!Flush(queue)
  PROVE  ShippingInv'
<1> DEFINE m == n + Len(queue)
<1>0. Len(queue) \in Nat /\ m \in Nat /\ n < m /\ Shipping!Range(queue) = (n + 1)..m
  BY BatchRange DEF NextEvents
<1>1. PICK success \in BOOLEAN :
        /\ Shipping!ShipBatch(queue, success)
        /\ buffer' = <<>>
        /\ stats' = IF success
                    THEN [stats EXCEPT !.shipped = @ \cup Shipping!Range(queue), !.consecutive = 0]
                    ELSE [stats EXCEPT !.failed = @ \cup Shipping!Range(queue),
                                       !.consecutive = @ + 1]
  BY DEF Shipping!Flush
<1>2. Sent' = m /\ Len(buffer') = 0
  BY <1>0, <1>1 DEF Sent
<1>3. ShippingType'
  <2>1. NextEvents(buffer', m) /\ 0 < BufferSize /\ made' \in 0..MaxShipped /\ 0 <= made'
    BY <1>0, <1>1, ShippingAssumption DEF NextEvents
  <2> QED
    BY <1>2, <2>1 DEF ShippingType, NextEvents
<1> HIDE DEF m
<1>4. /\ StatsInv(m)'
      /\ \A e \in stats'.shipped : e \in stats.shipped \/ (success /\ e \in (n + 1)..m)
  <2>1. /\ stats.shipped \in SUBSET Nat /\ stats.failed \in SUBSET Nat /\ stats.consecutive \in Nat
        /\ stats.shipped \cup stats.failed = 1..n /\ stats.shipped \cap stats.failed = {}
    BY DEF StatsInv
  <2>2. /\ (n + 1)..m \in SUBSET Nat /\ 1..m = 1..n \cup (n + 1)..m /\ m \in (n + 1)..m
        /\ m \notin 1..n /\ (1..n) \cap ((n + 1)..m) = {}
    BY <1>0
  <2>3. CASE success
    <3>1. stats' = [stats EXCEPT !.shipped = @ \cup Shipping!Range(queue), !.consecutive = 0]
      BY <1>1, <2>3
    <3>2. /\ stats' \in [shipped : SUBSET Nat, failed : SUBSET Nat, consecutive : Nat]
          /\ stats'.shipped = stats.shipped \cup (n + 1)..m
          /\ stats'.failed = stats.failed /\ stats'.consecutive = 0
      BY <1>0, <2>1, <2>2, <3>1 DEF StatsInv
    <3> QED
      BY <2>1, <2>2, <2>3, <3>2 DEF StatsInv
  <2>4. CASE ~success
    <3>1. stats' = [stats EXCEPT !.failed = @ \cup Shipping!Range(queue), !.consecutive = @ + 1]
      BY <1>1, <2>4
    <3>2. /\ stats' \in [shipped : SUBSET Nat, failed : SUBSET Nat, consecutive : Nat]
          /\ stats'.failed = stats.failed \cup (n + 1)..m
          /\ stats'.shipped = stats.shipped /\ stats'.consecutive = stats.consecutive + 1
      <4>1. stats = [shipped |-> stats.shipped, failed |-> stats.failed,
                     consecutive |-> stats.consecutive]
        BY DEF StatsInv
      <4>2. stats' = [shipped |-> stats.shipped, failed |-> stats.failed \cup (n + 1)..m,
                      consecutive |-> stats.consecutive + 1]
        BY <1>0, <3>1, <4>1
      <4> QED
        BY <2>1, <2>2, <4>2
    <3>3. stats'.consecutive > 0 /\ m \in stats'.failed
      BY <2>1, <2>2, <3>2
    <3> QED
      BY <2>1, <2>2, <3>2, <3>3 DEF StatsInv
  <2> QED
    BY <2>3, <2>4
<1>5. CASE backend = "file"
  <2>1. Shipping!FileBatch(queue, success) /\ copies' = copies
    BY <1>1, <1>5 DEF Shipping!ShipBatch, Shipping!FileBatch
  <2>2. /\ FilesInv(m)' /\ TornInv'
        /\ \A line \in AllLines : line # HalfLine => line \in AllLines'
        /\ success => \A i \in 1..Len(queue) : Whole(n + i) \in AllLines' \/ Joined(n + i) \in AllLines'
    BY <2>1, FileBatchStep DEF m
  <2>3. StoredInv'
    <3> SUFFICES ASSUME NEW e \in stats'.shipped
                 PROVE  Whole(e) \in AllLines' \/ Joined(e) \in AllLines'
      BY DEF StoredInv
    <3>1. CASE e \in stats.shipped
      <4>1. e \in Nat /\ e # 0
        BY <3>1 DEF StatsInv
      <4> QED
        BY <1>5, <2>2, <3>1, <4>1, LineFacts DEF StoredInv
    <3>2. CASE success /\ e \in (n + 1)..m
      <4>1. e - n \in 1..Len(queue) /\ n + (e - n) = e
        BY <1>0, <3>2 DEF m
      <4> QED
        BY <2>2, <3>2, <4>1
    <3> QED
      BY <1>4, <3>1, <3>2
  <2>4. CopiesInv(m)'
    BY <1>5, <2>1 DEF CopiesInv
  <2> QED
    BY <1>2, <1>3, <1>4, <2>2, <2>3, <2>4 DEF ShippingInv, StatsInv, FilesInv, CopiesInv
<1>6. CASE backend # "file"
  <2>1. \/ backend = "elasticsearch" /\ Shipping!ElasticBatch(queue, success)
        \/ backend = "stdout" /\ Shipping!StdoutBatch(queue, success)
    BY <1>1, <1>6 DEF Shipping!ShipBatch
  <2>2. UNCHANGED <<file, rotated, replaced, torn>>
    BY <2>1 DEF Shipping!ElasticBatch, Shipping!StdoutBatch
  <2>3. FilesInv(m)'
    <3>1. /\ WellFormed(file, m)
          /\ \A name \in DOMAIN rotated : WellFormed(rotated[name], m)
      BY <1>0, WellFormedGrows DEF FilesInv
    <3> QED
      BY <2>2, <3>1 DEF FilesInv
  <2>4. TornInv' /\ StoredInv'
    <3>1. AllLines' = AllLines /\ TornEvents' = TornEvents
      BY <2>2 DEF AllLines, Old, Shipping!Range, TornEvents
    <3>2. Shipping!Open(file') = Shipping!Open(file)
      BY <2>2
    <3> QED
      BY <1>6, <2>2, <3>1, <3>2 DEF TornInv, StoredInv
  <2>5. CopiesInv(m)'
    <3>1. /\ copies' \in [1..MaxShipped -> Nat]
          /\ \A e \in 1..MaxShipped :
                IF e \in (n + 1)..m
                THEN /\ backend = "stdout" => copies'[e] <= 1
                     /\ backend = "elasticsearch" => copies'[e] <= MaxRetries
                     /\ success => copies'[e] >= 1
                ELSE copies'[e] = copies[e]
      BY <1>0, <2>1, CopiesStep
    <3> SUFFICES ASSUME NEW e \in 1..MaxShipped
                 PROVE  /\ e > m => copies'[e] = 0
                        /\ backend = "stdout" => copies'[e] <= 1
                        /\ backend = "elasticsearch" => copies'[e] <= MaxRetries
                        /\ e \in stats'.shipped => copies'[e] >= 1
      BY <1>6, <3>1 DEF CopiesInv
    <3>2. CASE e \in (n + 1)..m
      <4>1. e \notin stats.shipped /\ ~(e > m)
        BY <1>0, <3>2 DEF StatsInv
      <4> QED
        BY <1>4, <3>1, <3>2, <4>1
    <3>3. CASE e \notin (n + 1)..m
      <4>1. copies'[e] = copies[e] /\ (e \in stats'.shipped => e \in stats.shipped) /\ (e > m => e > n)
        BY <1>0, <1>4, <3>1, <3>3
      <4> QED
        BY <1>6, <4>1 DEF CopiesInv
    <3> QED
      BY <3>2, <3>3
  <2> QED
    BY <1>2, <1>3, <1>4, <2>3, <2>4, <2>5 DEF ShippingInv, StatsInv, FilesInv, CopiesInv
<1> QED
  BY <1>5, <1>6

LEMMA ShipStep ==
  ASSUME ShippingInv, Shipping!Ship
  PROVE  ShippingInv'
<1> DEFINE n == Sent
<1>0. /\ made \in Nat /\ MaxShipped \in Nat /\ BufferSize \in Nat \ {0} /\ made < MaxShipped
      /\ buffer \in Seq(Nat) /\ Len(buffer) \in Nat /\ Len(buffer) < BufferSize
      /\ Len(buffer) <= made /\ n \in Nat /\ n + Len(buffer) = made
      /\ \A i \in 1..Len(buffer) : buffer[i] = n + i
  BY ShippingAssumption DEF Shipping!Ship, ShippingInv, ShippingType, Sent, NextEvents
<1>1. PICK queue : queue = Append(buffer, made + 1)
  OBVIOUS
<1>2. /\ NextEvents(queue, n) /\ Len(queue) = Len(buffer) + 1
      /\ Shipping!Buffered(made + 1) = queue
  <2>1. /\ queue \in Seq(Nat) /\ Len(queue) = Len(buffer) + 1
        /\ \A i \in 1..Len(buffer) : queue[i] = buffer[i]
        /\ queue[Len(buffer) + 1] = made + 1
    <3> HIDE DEF n
    <3>1. made + 1 \in Nat
      BY <1>0
    <3> QED
      BY <1>0, <1>1, <3>1
  <2>2. \A i \in 1..Len(queue) : i \in 1..Len(buffer) \/ i = Len(buffer) + 1
    <3> HIDE DEF n
    <3> QED
      BY <1>0, <2>1
  <2>3. n + (Len(buffer) + 1) = made + 1
    <3> HIDE DEF n
    <3> QED
      BY <1>0
  <2>4. NextEvents(queue, n)
    <3> HIDE DEF n
    <3> QED
      BY <1>0, <2>1, <2>2, <2>3 DEF NextEvents
  <2>5. Len(buffer) # BufferSize
    BY <1>0
  <2> QED
    BY <1>1, <2>1, <2>4, <2>5 DEF Shipping!Buffered
<1>3. /\ made' = made + 1 /\ made' = n + Len(queue) /\ UNCHANGED <<backend, second>>
      /\ made' <= MaxShipped /\ n + Len(queue) <= MaxShipped
  BY <1>0, <1>2 DEF Shipping!Ship
<1>4. CASE Shipping!Due(queue)
  <2>1. Shipping!Flush(queue)
    BY <1>2, <1>4 DEF Shipping!Ship
  <2>2. PICK k \in Nat : k = n
    BY <1>0
  <2> QED
    BY <1>0, <1>2, <1>3, <2>1, <2>2, FlushStep DEF ShippingInv, ShippingType
<1>5. CASE ~Shipping!Due(queue)
  <2>1. /\ buffer' = queue
        /\ UNCHANGED <<backend, lastFlush, stats, file, rotated, replaced, torn, copies>>
    BY <1>2, <1>3, <1>5 DEF Shipping!Ship
  <2>2. Len(queue) < BufferSize
    BY <1>0, <1>2, <1>5 DEF Shipping!Due
  <2>3. Sent' = n
    <3> HIDE DEF n
    <3>1. Sent' = made' - Len(buffer')
      BY DEF Sent
    <3>2. made' = n + Len(buffer') /\ Len(buffer') \in Nat
      BY <1>0, <1>2, <1>3, <2>1
    <3> QED
      BY <1>0, <3>1, <3>2
  <2>4. ShippingType'
    BY <1>0, <1>2, <1>3, <2>1, <2>2, <2>3 DEF ShippingInv, ShippingType, NextEvents
  <2>5. /\ AllLines' = AllLines /\ TornEvents' = TornEvents
        /\ Shipping!Open(file)' = Shipping!Open(file)
    BY <2>1 DEF AllLines, Old, Shipping!Range, TornEvents, Shipping!Open, Shipping!Last
  <2> QED
    BY <2>1, <2>3, <2>4, <2>5
       DEF ShippingInv, StatsInv, FilesInv, StoredInv, TornInv, CopiesInv
<1> QED
  BY <1>4, <1>5

LEMMA ShippingStep ==
  ASSUME ShippingInv, [Shipping!Next]_shipping
  PROVE  ShippingInv'
<1>1. CASE Shipping!Ship
  BY <1>1, ShipStep
<1>2. CASE Shipping!FlushNow
  <2>1. /\ buffer # <<>> /\ Shipping!Flush(buffer) /\ UNCHANGED <<backend, second, made>>
    BY <1>2 DEF Shipping!FlushNow
  <2>2. PICK queue : queue = buffer
    OBVIOUS
  <2>3. /\ Sent \in Nat /\ Len(buffer) \in Nat /\ Len(buffer) > 0 /\ made \in Nat
        /\ Sent + Len(buffer) = made /\ made <= MaxShipped /\ NextEvents(queue, Sent)
    BY <2>1, <2>2, ShippingAssumption DEF ShippingInv, ShippingType, Sent, NextEvents
  <2>4. PICK n \in Nat : n = Sent
    BY <2>3
  <2> QED
    BY <2>1, <2>2, <2>3, <2>4, FlushStep DEF ShippingInv, ShippingType
<1>3. CASE /\ UNCHANGED <<backend, made, buffer, stats, file, rotated, replaced, torn, copies>>
  <2>1. /\ AllLines' = AllLines /\ TornEvents' = TornEvents /\ Sent' = Sent
        /\ Shipping!Open(file)' = Shipping!Open(file)
    BY <1>3 DEF AllLines, Old, Shipping!Range, TornEvents, Shipping!Open, Shipping!Last, Sent
  <2> QED
    BY <1>3, <2>1
       DEF ShippingInv, ShippingType, NextEvents, StatsInv, FilesInv, StoredInv, TornInv, CopiesInv
<1> QED
  BY <1>1, <1>2, <1>3 DEF Shipping!Next, Shipping!PassSecond, shipping

LEMMA ShippingInit == Init => ShippingInv
<1> SUFFICES ASSUME Init
             PROVE  ShippingInv
  OBVIOUS
<1>1. /\ backend \in {"file", "elasticsearch", "stdout"} /\ made = 0 /\ buffer = <<>>
      /\ stats = [shipped |-> {}, failed |-> {}, consecutive |-> 0]
      /\ file = <<>> /\ rotated = <<>> /\ replaced = {} /\ torn = 0
      /\ copies = [e \in 1..MaxShipped |-> 0]
  BY DEF Init, Shipping!Init
<1>2. Sent = 0 /\ Len(buffer) = 0 /\ DOMAIN rotated = {}
  <2>1. Len(<<>>) = 0 /\ DOMAIN <<>> = {}
    <3>1. <<>> \in Seq(Nat) /\ Len(<<>>) = 0
      OBVIOUS
    <3>2. DOMAIN <<>> = 1..0
      BY <3>1
    <3> QED
      BY <3>1, <3>2
  <2>2. DOMAIN rotated = {}
    BY <1>1, <2>1
  <2>3. Len(buffer) = 0
    BY <1>1, <2>1
  <2>4. made = 0
    BY <1>1
  <2>5. Sent = 0
    BY <2>3, <2>4 DEF Sent
  <2> QED
    BY <2>2, <2>3, <2>5
<1>3. ShippingType
  BY <1>1, <1>2, ShippingAssumption DEF ShippingType, NextEvents
<1>4. StatsInv(Sent)
  BY <1>1, <1>2 DEF StatsInv
<1>5. FilesInv(Sent)
  <2>1. WellFormed(file, 0)
    BY <1>1 DEF WellFormed
  <2> QED
    BY <1>2, <2>1 DEF FilesInv
<1>6. StoredInv
  BY <1>1 DEF StoredInv
<1>7. TornInv
  <2>1. AllLines = {} /\ ~Shipping!Open(file)
    BY <1>1, <1>2 DEF AllLines, Old, Shipping!Range, Shipping!Open
  <2>2. TornEvents = {}
    BY <2>1 DEF TornEvents
  <2> QED
    BY <1>1, <2>1, <2>2, FS_EmptySet DEF TornInv
<1>8. CopiesInv(Sent)
  BY <1>1, <1>2, ShippingAssumption DEF CopiesInv
<1> QED
  BY <1>3, <1>4, <1>5, <1>6, <1>7, <1>8 DEF ShippingInv

LEMMA AllLinesIs == Shipping!Lines \cup replaced = AllLines
  BY DEF Shipping!Lines, Shipping!Files, AllLines, Old, Shipping!Range

(* The instance has a Cardinality of its own, with the same definition.        *)
LEMMA ShippingCardinality == \A S : Shipping!Cardinality(S) = Cardinality(S)
  BY Zenon DEF Shipping!Cardinality, Cardinality

LEMMA ShippingImplies == ShippingInv => ShippingHolds
<1> SUFFICES ASSUME ShippingInv
             PROVE  ShippingHolds
  OBVIOUS
<1>0. /\ Sent \in Nat /\ Len(buffer) \in Nat /\ made \in Nat /\ Sent + Len(buffer) = made
      /\ Shipping!Range(buffer) = (Sent + 1)..made
  <2>1. Sent \in Nat /\ Len(buffer) \in Nat /\ made \in Nat /\ Sent + Len(buffer) = made
    BY ShippingAssumption DEF ShippingInv, ShippingType, Sent, NextEvents
  <2> QED
    BY <2>1, BatchRange DEF ShippingInv, ShippingType
<1>1. Shipping!EveryEventIsAccounted
  BY <1>0 DEF ShippingInv, StatsInv, Shipping!EveryEventIsAccounted, Shipping!Made, Sent
<1>2. Shipping!ShippedIsStored
  <2>1. CASE backend = "file"
    <3> DEFINE there == {e \in stats.shipped : <<e>> \in Shipping!Lines}
               lost == {e \in stats.shipped : <<e>> \in replaced \/ <<0, e>> \in Shipping!Lines \cup replaced}
               joined == {e \in lost : <<0, e>> \in Shipping!Lines \cup replaced}
    <3>1. stats.shipped \ there \subseteq lost
      BY <2>1, AllLinesIs DEF ShippingInv, StoredInv, Whole, Joined
    <3>2. joined \subseteq TornEvents
      <4>1. \A e \in stats.shipped : e \in 1..MaxShipped
        BY <1>0, ShippingAssumption DEF ShippingInv, ShippingType, StatsInv
      <4> QED
        BY <4>1, AllLinesIs DEF TornEvents, Joined
    <3>3. Cardinality(joined) <= torn
      <4> HIDE DEF joined
      <4>1. IsFiniteSet(joined) /\ Cardinality(joined) <= Cardinality(TornEvents)
        BY <3>2, FS_Subset, TornEventsFinite
      <4> QED
        BY <4>1, TornEventsFinite, FS_CardinalityType DEF ShippingInv, TornInv
    <3>4. Shipping!Cardinality(joined) = Cardinality(joined)
      BY ShippingCardinality
    <3> QED
      BY <2>1, <3>1, <3>3, <3>4 DEF Shipping!ShippedIsStored
  <2>2. CASE backend # "file"
    <3>1. \A e \in stats.shipped : e \in 1..MaxShipped
      BY <1>0, ShippingAssumption DEF ShippingInv, ShippingType, StatsInv
    <3> QED
      BY <2>2, <3>1 DEF Shipping!ShippedIsStored, ShippingInv, CopiesInv
  <2> QED
    BY <2>1, <2>2
<1>3. Shipping!CopiesAreBounded
  <2> SUFFICES ASSUME NEW e \in 1..MaxShipped
               PROVE  copies[e] <= IF e > made \/ backend = "file" THEN 0
                                   ELSE IF backend = "stdout" THEN 1 ELSE MaxRetries
    BY DEF Shipping!CopiesAreBounded
  <2>1. e > made => e > Sent
    BY <1>0, ShippingAssumption
  <2> QED
    BY <2>1 DEF ShippingInv, ShippingType, CopiesInv
<1>4. Shipping!FilesKeepOrder
  <2> DEFINE Rising(lines) == \A i, j \in DOMAIN lines :
                i < j /\ lines[i] # <<0>> /\ lines[j] # <<0>>
                   => Shipping!Last(lines[i]) < Shipping!Last(lines[j])
  <2>1. \A lines : WellFormed(lines, Sent) => Rising(lines) /\ DOMAIN lines = 1..Len(lines)
    <3> SUFFICES ASSUME NEW lines, WellFormed(lines, Sent)
                 PROVE  Rising(lines) /\ DOMAIN lines = 1..Len(lines)
      OBVIOUS
    <3>1. lines \in Seq(LineSet(Sent))
      BY DEF WellFormed
    <3>2. DOMAIN lines = 1..Len(lines)
      BY <3>1
    <3> QED
      BY <3>2 DEF WellFormed, HalfLine
  <2>2. \A lines \in Shipping!Files : WellFormed(lines, Sent)
    BY DEF Shipping!Files, Shipping!Range, ShippingInv, FilesInv
  <2>3. \A name \in DOMAIN rotated : \A i \in DOMAIN rotated[name], j \in DOMAIN file :
           file[j] # <<0>> => Shipping!Last(rotated[name][i]) < Shipping!Last(file[j])
    BY <2>1 DEF ShippingInv, FilesInv, HalfLine
  <2> QED
    BY <2>1, <2>2, <2>3 DEF Shipping!FilesKeepOrder
<1> QED
  BY <1>1, <1>2, <1>3, <1>4 DEF ShippingHolds

\* Every event ship() was called with is counted once, as shipped, as failed or
\* in the buffer; what is counted as shipped is stored, but for a file replaced
\* within a second, and shares its line with a torn event at most once for each
\* batch that stopped there; no backend multiplies events beyond its attempts,
\* and files keep the order of the calls (LogShipper.ship, flush, _ship_batch).
THEOREM PartsShipping == Spec => []ShippingHolds
<1>1. ShippingInv /\ [Next]_vars => ShippingInv'
  BY PartsStep, ShippingStep
<1> QED
  BY <1>1, ShippingInit, ShippingImplies, PTL DEF Spec

-----------------------------------------------------------------------------
(* The token bucket.  That no interval admits too much is inductive only with  *)
(* a bound that reaches up to now and counts the tokens that are left          *)
(* (CreditInv); that nothing less is admitted rests on the same sum being      *)
(* exact, counted from an admission that found the bucket full (ExactInv).     *)

Refill(from, to) == (to - from) * TokensPerMinute

Full == Burst * 60

BucketType ==
  /\ clock \in Nat /\ lastRefill \in Nat /\ lastRefill <= clock
  /\ tokens \in Nat /\ tokens <= Full
  /\ admitted \in Seq(Nat)

\* The tokens taken since the i-th admission, that one included.
Taken(i) == (Len(admitted) - i + 1) * 60

CreditInv ==
  \A i \in 1..Len(admitted) : Taken(i) + tokens <= Full + Refill(admitted[i], lastRefill)

ExactInv ==
  \/ tokens = Full
  \/ \E i \in 1..Len(admitted) : Taken(i) + tokens = Full + Refill(admitted[i], lastRefill)

BucketInv == BucketType /\ CreditInv /\ ExactInv /\ Bucket!BurstHolds

(* Time refills what its parts refill, and nothing in no time.                 *)
LEMMA RefillAdds ==
  ASSUME NEW a \in Nat, NEW b \in Nat, NEW c \in Nat
  PROVE  /\ Refill(a, b) + Refill(b, c) = Refill(a, c)
         /\ Refill(a, a) = 0
         /\ Refill(a, b) \in Int /\ Refill(b, c) \in Int /\ Refill(a, c) \in Int
<1> DEFINE T == TokensPerMinute
<1>1. T \in Nat
  BY BucketAssumption
<1>2. (b - a) * T + (c - b) * T = (c - a) * T
  <2>1. \A x, y \in Int, t \in Nat : x * t + y * t = (x + y) * t
    OBVIOUS
  <2>2. (b - a) + (c - b) = c - a /\ b - a \in Int /\ c - b \in Int
    OBVIOUS
  <2> QED
    BY <1>1, <2>1, <2>2
<1>3. (a - a) * T = 0
  BY <1>1
<1>4. /\ (b - a) * T \in Int /\ (c - b) * T \in Int /\ (c - a) * T \in Int
  BY <1>1
<1> QED
  BY <1>2, <1>3, <1>4 DEF Refill

LEMMA RefillGrows ==
  ASSUME NEW a \in Nat, NEW b \in Nat, a <= b
  PROVE  Refill(a, b) \in Nat
<1>1. \A x, y \in Nat : x * y \in Nat
  OBVIOUS
<1>2. b - a \in Nat
  OBVIOUS
<1> QED
  BY <1>1, <1>2, BucketAssumption DEF Refill

(* _refill() adds what the time brings, up to the brim.                        *)
LEMMA RefilledIs ==
  ASSUME BucketType
  PROVE  /\ Bucket!Refilled \in Nat /\ Full \in Nat
         /\ \/ Bucket!Refilled = tokens + Refill(lastRefill, clock) /\ Bucket!Refilled < Full
            \/ Bucket!Refilled = Full /\ Full <= tokens + Refill(lastRefill, clock)
<1>1. Refill(lastRefill, clock) \in Nat
  BY RefillGrows DEF BucketType
<1>2. Full \in Nat
  BY BucketAssumption DEF Full
<1>3. Bucket!Refilled = IF tokens + Refill(lastRefill, clock) < Full
                        THEN tokens + Refill(lastRefill, clock) ELSE Full
  BY DEF Bucket!Refilled, Bucket!Token, Refill, Full
<1> QED
  BY <1>1, <1>2, <1>3 DEF BucketType

(* What the sums become when the bucket is refilled up to now.                 *)
LEMMA RefilledSums ==
  ASSUME BucketInv
  PROVE  /\ \A i \in 1..Len(admitted) :
               Taken(i) + Bucket!Refilled <= Full + Refill(admitted[i], clock)
         /\ \/ Bucket!Refilled = Full
            \/ \E i \in 1..Len(admitted) :
                  Taken(i) + Bucket!Refilled = Full + Refill(admitted[i], clock)
<1>1. /\ Bucket!Refilled \in Nat /\ Full \in Nat
      /\ \/ Bucket!Refilled = tokens + Refill(lastRefill, clock) /\ Bucket!Refilled < Full
         \/ Bucket!Refilled = Full /\ Full <= tokens + Refill(lastRefill, clock)
  BY RefilledIs DEF BucketInv
<1>2. /\ tokens \in Nat /\ tokens <= Full /\ lastRefill \in Nat /\ clock \in Nat
      /\ lastRefill <= clock /\ Len(admitted) \in Nat
  BY DEF BucketInv, BucketType
<1>3. Refill(lastRefill, clock) \in Nat
  BY <1>2, RefillGrows
<1>4. ASSUME NEW i \in 1..Len(admitted)
      PROVE  /\ Refill(admitted[i], lastRefill) + Refill(lastRefill, clock) = Refill(admitted[i], clock)
             /\ Refill(admitted[i], lastRefill) \in Int /\ Refill(admitted[i], clock) \in Int
             /\ Taken(i) \in Nat
  <2>1. admitted[i] \in Nat
    BY DEF BucketInv, BucketType
  <2>2. Taken(i) \in Nat
    BY <1>2 DEF Taken
  <2> QED
    BY <2>1, <2>2, <1>2, RefillAdds
<1>5. \A i \in 1..Len(admitted) :
         Taken(i) + Bucket!Refilled <= Full + Refill(admitted[i], clock)
  <2> TAKE i \in 1..Len(admitted)
  <2>1. Taken(i) + tokens <= Full + Refill(admitted[i], lastRefill)
    BY DEF BucketInv, CreditInv
  <2>2. Bucket!Refilled <= tokens + Refill(lastRefill, clock)
    BY <1>1, <1>2, <1>3
  <2>3. /\ Refill(admitted[i], lastRefill) + Refill(lastRefill, clock) = Refill(admitted[i], clock)
        /\ Refill(admitted[i], lastRefill) \in Int /\ Refill(admitted[i], clock) \in Int
        /\ Taken(i) \in Nat
    BY <1>4
  <2>4. Full \in Int /\ Bucket!Refilled \in Int /\ tokens \in Int
    BY <1>1, <1>2
  <2> QED
    BY <1>3, <2>1, <2>2, <2>3, <2>4
<1>6. CASE Bucket!Refilled # Full
  <2>1. Bucket!Refilled = tokens + Refill(lastRefill, clock) /\ Bucket!Refilled < Full
    BY <1>1, <1>6
  <2>2. tokens # Full
    BY <2>1, <1>1, <1>2, <1>3
  <2>3. PICK i \in 1..Len(admitted) : Taken(i) + tokens = Full + Refill(admitted[i], lastRefill)
    BY <2>2 DEF BucketInv, ExactInv
  <2>4. /\ Refill(admitted[i], lastRefill) + Refill(lastRefill, clock) = Refill(admitted[i], clock)
        /\ Refill(admitted[i], lastRefill) \in Int /\ Refill(admitted[i], clock) \in Int
        /\ Taken(i) \in Nat
    BY <1>4
  <2>5. /\ Full \in Int /\ Bucket!Refilled \in Int /\ tokens \in Int
        /\ Refill(lastRefill, clock) \in Int
        /\ Bucket!Refilled = tokens + Refill(lastRefill, clock)
    BY <1>1, <1>2, <1>3, <2>1
  <2>6. Taken(i) + Bucket!Refilled = Full + Refill(admitted[i], clock)
    <3> DEFINE t == Taken(i)
               r == Refill(admitted[i], lastRefill)
               s == Refill(lastRefill, clock)
               u == Refill(admitted[i], clock)
               l == Bucket!Refilled
    <3>1. t \in Int /\ r \in Int /\ s \in Int /\ u \in Int /\ l \in Int
      BY <2>4, <2>5
    <3>2. Full \in Int /\ tokens \in Int
      BY <2>5
    <3>3. t + tokens = Full + r /\ r + s = u /\ l = tokens + s
      BY <2>3, <2>4, <2>5
    <3>4. t + l = Full + u
      <4> HIDE DEF t, r, s, u, l
      <4> QED
        BY <3>1, <3>2, <3>3
    <3> QED
      BY <3>4
  <2> QED
    BY <1>5, <2>6
<1> QED
  BY <1>5, <1>6

(* Refilling moves lastRefill by the time it pays for.                         *)
LEMMA RefillStep ==
  ASSUME BucketInv, tokens' = Bucket!Refilled, lastRefill' = clock, UNCHANGED <<clock, admitted>>
  PROVE  BucketInv'
<1>1. BucketType'
  BY RefilledIs DEF BucketInv, BucketType
<1>2. CreditInv' /\ ExactInv'
  BY RefilledSums DEF CreditInv, ExactInv, Taken, Full, Refill
<1>3. Bucket!BurstHolds'
  BY DEF BucketInv, Bucket!BurstHolds, Bucket!Token
<1> QED
  BY <1>1, <1>2, <1>3 DEF BucketInv

(* An admitted call takes a token of the credit it opens.                      *)
LEMMA AdmitStep ==
  ASSUME BucketInv, Bucket!Refilled >= 60, tokens' = Bucket!Refilled - 60, lastRefill' = clock,
         admitted' = Append(admitted, clock), UNCHANGED clock
  PROVE  BucketInv'
<1> DEFINE n == Len(admitted)
           left == Bucket!Refilled
<1>1. /\ n \in Nat /\ admitted \in Seq(Nat) /\ clock \in Nat
      /\ admitted' \in Seq(Nat) /\ Len(admitted') = n + 1
      /\ \A i \in 1..n : admitted'[i] = admitted[i] /\ admitted[i] \in Nat
      /\ admitted'[n + 1] = clock
  BY DEF BucketInv, BucketType
<1>2. left \in Nat /\ Full \in Nat /\ left <= Full /\ left >= 60
  BY RefilledIs DEF BucketInv
<1>3. BucketType'
  BY <1>1, <1>2 DEF BucketType, Full
<1>4. /\ \A i \in 1..n : Taken(i) + left <= Full + Refill(admitted[i], clock)
      /\ left = Full \/ \E i \in 1..n : Taken(i) + left = Full + Refill(admitted[i], clock)
  BY RefilledSums
<1> HIDE DEF left, n
<1> DEFINE After(i) == (n + 1 - i + 1) * 60
<1>5. \A i \in 1..(n + 1) : Taken(i)' = After(i)
  BY <1>1 DEF Taken
<1>6. \A i \in 1..n : After(i) = Taken(i) + 60 /\ Taken(i) \in Nat
  BY <1>1 DEF Taken, n
<1>7. After(n + 1) = 60
  BY <1>1
<1>8. /\ Refill(admitted'[n + 1], clock) = 0
      /\ \A i \in 1..n : Refill(admitted'[i], clock) = Refill(admitted[i], clock)
                         /\ Refill(admitted[i], clock) \in Int
  BY <1>1, RefillAdds
<1> HIDE DEF After
<1>9. ASSUME NEW i \in 1..(n + 1)
      PROVE  After(i) + (left - 60) <= Full + Refill(admitted'[i], clock)
  <2>1. CASE i = n + 1
    <3>1. After(i) = 60 /\ Refill(admitted'[i], clock) = 0
      BY <1>7, <1>8, <2>1
    <3> QED
      BY <1>2, <3>1
  <2>2. CASE i # n + 1
    <3>1. i \in 1..n
      BY <1>1, <2>2
    <3>2. Taken(i) + left <= Full + Refill(admitted[i], clock)
      BY <1>4, <3>1
    <3>3. After(i) = Taken(i) + 60 /\ Taken(i) \in Nat
      BY <1>6, <3>1
    <3>4. Refill(admitted'[i], clock) = Refill(admitted[i], clock) /\ Refill(admitted[i], clock) \in Int
      BY <1>8, <3>1
    <3> QED
      BY <1>2, <3>2, <3>3, <3>4
  <2> QED
    BY <2>1, <2>2
<1>10. CreditInv'
  BY <1>1, <1>5, <1>9 DEF CreditInv, Taken, Full, Refill, left, n
<1>11. \E i \in 1..(n + 1) : After(i) + (left - 60) = Full + Refill(admitted'[i], clock)
  <2>1. CASE left = Full
    <3>1. n + 1 \in 1..(n + 1)
      BY <1>1
    <3>2. After(n + 1) + (left - 60) = Full + Refill(admitted'[n + 1], clock)
      BY <1>2, <1>7, <1>8, <2>1
    <3> QED
      BY <3>1, <3>2
  <2>2. CASE left # Full
    <3>1. PICK i \in 1..n : Taken(i) + left = Full + Refill(admitted[i], clock)
      BY <1>4, <2>2
    <3>2. i \in 1..(n + 1)
      BY <1>1
    <3>3. After(i) = Taken(i) + 60 /\ Taken(i) \in Nat
      BY <1>6
    <3>4. Refill(admitted'[i], clock) = Refill(admitted[i], clock) /\ Refill(admitted[i], clock) \in Int
      BY <1>8
    <3>5. After(i) + (left - 60) = Full + Refill(admitted'[i], clock)
      BY <1>2, <3>1, <3>3, <3>4
    <3> QED
      BY <3>2, <3>5
  <2> QED
    BY <2>1, <2>2
<1>12. ExactInv'
  BY <1>1, <1>5, <1>11 DEF ExactInv, Taken, Full, Refill, left, n
<1>13. ASSUME NEW i \in 1..(n + 1), NEW j \in 1..(n + 1), i <= j
       PROVE  (j - i + 1) * 60 <= Full + Refill(admitted'[i], admitted'[j])
  <2>1. CASE j # n + 1
    <3>1. i \in 1..n /\ j \in 1..n
      BY <1>1, <1>13, <2>1
    <3>2. (j - i + 1) * 60 <= Full + Refill(admitted[i], admitted[j])
      BY <1>13, <3>1 DEF BucketInv, Bucket!BurstHolds, Bucket!Token, Full, Refill, n
    <3> QED
      BY <1>1, <3>1, <3>2
  <2>2. CASE j = n + 1
    <3>1. Refill(admitted'[i], clock) \in Int
      <4>1. admitted'[i] \in Nat
        BY <1>1, <1>13
      <4> QED
        BY <1>1, <4>1, RefillAdds
    <3>2. (j - i + 1) * 60 = After(i)
      BY <1>1, <2>2 DEF After
    <3>3. After(i) \in Int
      BY <1>1 DEF After
    <3>4. After(i) + (left - 60) <= Full + Refill(admitted'[i], clock)
      BY <1>9
    <3>5. (j - i + 1) * 60 <= Full + Refill(admitted'[i], clock)
      <4> DEFINE d == (j - i + 1) * 60
                 u == Refill(admitted'[i], clock)
      <4>1. d = After(i) /\ u \in Int
        BY <3>1, <3>2
      <4>2. After(i) + (left - 60) <= Full + u
        BY <3>4
      <4> HIDE DEF d, u
      <4>3. d <= Full + u
        BY <1>2, <3>3, <4>1, <4>2
      <4> QED
        BY <4>3 DEF d, u
    <3>6. Refill(admitted'[i], admitted'[j]) = Refill(admitted'[i], clock)
      BY <1>1, <2>2
    <3> QED
      BY <3>5, <3>6, Zenon
  <2> QED
    BY <2>1, <2>2
<1>14. Bucket!BurstHolds'
  BY <1>1, <1>13 DEF Bucket!BurstHolds, Bucket!Token, Full, Refill
<1> QED
  BY <1>3, <1>10, <1>12, <1>14 DEF BucketInv

LEMMA BucketStep ==
  ASSUME BucketInv, [Bucket!Next]_bucket
  PROVE  BucketInv'
<1>1. CASE UNCHANGED bucket
  BY <1>1 DEF bucket, BucketInv, BucketType, CreditInv, ExactInv, Taken, Full, Refill,
              Bucket!BurstHolds, Bucket!Token
<1>2. CASE Bucket!Allow
  <2>1. CASE Bucket!Refilled >= 60
    <3>1. tokens' = Bucket!Refilled - 60 /\ admitted' = Append(admitted, clock)
      BY <1>2, <2>1, RefilledIs DEF Bucket!Allow, Bucket!Token, BucketInv
    <3> QED
      BY <1>2, <2>1, <3>1, AdmitStep DEF Bucket!Allow
  <2>2. CASE ~ Bucket!Refilled >= 60
    <3>1. tokens' = Bucket!Refilled /\ UNCHANGED admitted
      BY <1>2, <2>2, RefilledIs DEF Bucket!Allow, Bucket!Token, BucketInv
    <3> QED
      BY <1>2, <3>1, RefillStep DEF Bucket!Allow
  <2> QED
    BY <2>1, <2>2
<1>3. CASE Bucket!RemainingTokens
  BY <1>3, RefillStep DEF Bucket!RemainingTokens
<1>4. CASE Bucket!Reset
  <2>1. /\ tokens' = Full /\ lastRefill' = clock /\ clock' = clock
        /\ admitted' = <<>> /\ Len(admitted') = 0 /\ 1..Len(admitted') = {}
    BY <1>4 DEF Bucket!Reset, Bucket!Token, Full
  <2>2. Full \in Nat
    BY BucketAssumption DEF Full
  <2>3. BucketType'
    BY <2>1, <2>2 DEF BucketInv, BucketType, Full
  <2>4. CreditInv' /\ Bucket!BurstHolds'
    BY <2>1 DEF CreditInv, Bucket!BurstHolds
  <2>5. ExactInv'
    BY <2>1 DEF ExactInv, Full
  <2> QED
    BY <2>3, <2>4, <2>5 DEF BucketInv
<1>5. CASE Bucket!Second
  <2>1. BucketType'
    BY <1>5 DEF BucketInv, BucketType, Bucket!Second, Full
  <2>2. CreditInv' /\ ExactInv' /\ Bucket!BurstHolds'
    BY <1>5 DEF BucketInv, CreditInv, ExactInv, Taken, Full, Refill, Bucket!BurstHolds,
                Bucket!Token, Bucket!Second
  <2> QED
    BY <2>1, <2>2 DEF BucketInv
<1> QED
  BY <1>1, <1>2, <1>3, <1>4, <1>5 DEF Bucket!Next

LEMMA BucketInit == Init => BucketInv
<1> SUFFICES ASSUME Init PROVE BucketInv
  OBVIOUS
<1>1. clock = 0 /\ tokens = Full /\ lastRefill = 0 /\ admitted = <<>>
  BY DEF Init, Bucket!Init, Bucket!Token, Full
<1>2. Full \in Nat /\ Len(admitted) = 0 /\ 1..Len(admitted) = {}
  BY <1>1, BucketAssumption DEF Full
<1>3. BucketType
  BY <1>1, <1>2 DEF BucketType
<1>4. CreditInv /\ Bucket!BurstHolds
  BY <1>2 DEF CreditInv, Bucket!BurstHolds
<1> QED
  BY <1>1, <1>3, <1>4 DEF BucketInv, ExactInv

LEMMA BucketRefuses ==
  ASSUME BucketInv
  PROVE  Bucket!RefusesOnlyAtTheBound
<1> SUFFICES ASSUME Bucket!Refilled < 60, Burst # 0
             PROVE  \E i \in 1..Len(admitted) :
                       (Len(admitted) - i + 2) * 60 > Full + Refill(admitted[i], clock)
  BY DEF Bucket!RefusesOnlyAtTheBound, Bucket!Token, Full, Refill
<1>1. Bucket!Refilled \in Nat /\ Full \in Nat /\ Full >= 60
  BY RefilledIs, BucketAssumption DEF BucketInv, Full
<1>2. PICK i \in 1..Len(admitted) : Taken(i) + Bucket!Refilled = Full + Refill(admitted[i], clock)
  BY <1>1, RefilledSums
<1>3. (Len(admitted) - i + 2) * 60 = Taken(i) + 60 /\ Taken(i) \in Int
  BY DEF Taken, BucketInv, BucketType
<1>4. (Len(admitted) - i + 2) * 60 > Full + Refill(admitted[i], clock)
  <2>1. Taken(i) + 60 > Taken(i) + Bucket!Refilled
    BY <1>1, <1>3
  <2> QED
    BY <1>2, <1>3, <2>1
<1> QED
  BY <1>4

\* Between any two admissions, allow() admits no more than the burst and what
\* that time refills, and it refuses only a call that would exceed this
\* (TokenBucket). CreditInv bounds what was admitted since the i-th call and is
\* still in the bucket; ExactInv says that nothing but a full bucket wastes time.
THEOREM PartsBucket == Spec => []BucketHolds
<1>1. BucketInv => BucketHolds
  BY BucketRefuses DEF BucketInv, BucketHolds
<1>2. BucketInv /\ [Next]_vars => BucketInv'
  BY PartsStep, BucketStep
<1> QED
  BY <1>1, <1>2, BucketInit, PTL DEF Spec

-----------------------------------------------------------------------------
(* Alerting.  Threads reach the lock in another order than they read the       *)
(* clock, so an alert is not later than the one before it by construction: it  *)
(* is because lastAlert bounds every read of an alert of its findings, and is  *)
(* itself the read of one.                                                     *)

Reading == [findings : Findings, read : Nat]

AlertType ==
  /\ time \in Nat
  /\ caller \in [Callers -> Reading \cup {Alerts!Idle}]
  /\ lastAlert \in [Findings -> Int]
  /\ alerts \subseteq [findings : Findings, read : Nat, number : Nat]
  /\ IsFiniteSet(alerts)
  /\ \A a \in alerts : a.number <= Cardinality(alerts)

LastIsLatest ==
  /\ \A a \in alerts : a.read <= lastAlert[a.findings]
  /\ \A f \in Findings :
        \/ lastAlert[f] = Alerts!NoAlert
        \/ \E a \in alerts : a.findings = f /\ a.read = lastAlert[f]

AlertInv == AlertType /\ LastIsLatest /\ AlertingHolds

LEMMA AlertInit == Init => AlertInv
<1> SUFFICES ASSUME Init PROVE AlertInv
  OBVIOUS
<1>1. /\ time = 0 /\ caller = [c \in Callers |-> Alerts!Idle] /\ alerts = {}
      /\ lastAlert = [f \in Findings |-> Alerts!NoAlert] /\ refused = Alerts!Idle
  BY DEF Init, Alerts!Init
<1>2. Alerts!NoAlert \in Int
  BY AlertingAssumption DEF Alerts!NoAlert
<1>3. IsFiniteSet(alerts)
  BY <1>1, FS_EmptySet
<1>4. AlertType
  BY <1>1, <1>2, <1>3 DEF AlertType
<1>5. LastIsLatest /\ AlertingHolds
  BY <1>1 DEF LastIsLatest, AlertingHolds, Alerts!AlertsAreSpaced, Alerts!OnlyOwnAlertsSilence
<1> QED
  BY <1>4, <1>5 DEF AlertInv

(* A call that is not silenced: a new alert, numbered after all others.        *)
LEMMA AlertFires ==
  ASSUME AlertInv, NEW own \in Reading, own.read - lastAlert[own.findings] >= Cooldown,
         lastAlert' = [lastAlert EXCEPT ![own.findings] = own.read],
         alerts' = alerts \cup {[findings |-> own.findings, read |-> own.read,
                                 number |-> Cardinality(alerts) + 1]},
         caller' \in [Callers -> Reading \cup {Alerts!Idle}],
         UNCHANGED <<time, refused>>
  PROVE  AlertInv'
<1> DEFINE n == Cardinality(alerts)
           new == [findings |-> own.findings, read |-> own.read, number |-> n + 1]
<1>1. own.findings \in Findings /\ own.read \in Nat
  BY DEF Reading
<1>2. n \in Nat
  BY FS_CardinalityType DEF AlertInv, AlertType
<1>3. new \notin alerts
  BY <1>2 DEF AlertInv, AlertType
<1>4. IsFiniteSet(alerts') /\ Cardinality(alerts') = n + 1
  BY <1>3, FS_AddElement DEF AlertInv, AlertType
<1>5. /\ alerts' = alerts \cup {new}
      /\ new.findings = own.findings /\ new.read = own.read /\ new.number = n + 1
      /\ new \in [findings : Findings, read : Nat, number : Nat]
  BY <1>1, <1>2
<1>6. ASSUME NEW a \in alerts
      PROVE  a.findings \in Findings /\ a.read \in Nat /\ a.number \in Nat /\ a.number <= n
  BY DEF AlertInv, AlertType
<1> HIDE DEF n, new
<1>7. ASSUME NEW a \in alerts'
      PROVE  a.number <= n + 1
  BY <1>2, <1>5, <1>6
<1>8. AlertType'
  <2>1. lastAlert' \in [Findings -> Int] /\ time' \in Nat
    BY <1>1 DEF AlertInv, AlertType
  <2>2. alerts' \subseteq [findings : Findings, read : Nat, number : Nat]
    BY <1>5 DEF AlertInv, AlertType
  <2> QED
    BY <1>4, <1>7, <2>1, <2>2 DEF AlertType
<1>9. ASSUME NEW a \in alerts, a.findings = own.findings
      PROVE  a.read + Cooldown <= own.read
  <2>1. a.read <= lastAlert[own.findings] /\ lastAlert[own.findings] \in Int
    BY <1>1, <1>9 DEF AlertInv, AlertType, LastIsLatest
  <2> QED
    BY <1>1, <1>6, <2>1, AlertingAssumption
<1>10. LastIsLatest'
  <2>1. ASSUME NEW a \in alerts'
        PROVE  a.read <= lastAlert'[a.findings]
    <3>1. CASE a = new
      BY <1>1, <1>5, <3>1 DEF AlertInv, AlertType
    <3>2. CASE a \in alerts /\ a.findings = own.findings
      <4>1. a.read <= own.read
        BY <1>1, <1>6, <1>9, <3>2, AlertingAssumption
      <4>2. lastAlert'[a.findings] = own.read
        BY <1>1, <3>2 DEF AlertInv, AlertType
      <4> QED
        BY <4>1, <4>2
    <3>3. CASE a \in alerts /\ a.findings # own.findings
      BY <1>6, <3>3 DEF AlertInv, AlertType, LastIsLatest
    <3> QED
      BY <1>5, <3>1, <3>2, <3>3
  <2>2. ASSUME NEW f \in Findings
        PROVE  \/ lastAlert'[f] = Alerts!NoAlert
               \/ \E a \in alerts' : a.findings = f /\ a.read = lastAlert'[f]
    <3>1. CASE f = own.findings
      BY <1>1, <1>5, <3>1 DEF AlertInv, AlertType
    <3>2. CASE f # own.findings
      BY <1>5, <3>2 DEF AlertInv, AlertType, LastIsLatest
    <3> QED
      BY <3>1, <3>2
  <2> QED
    BY <2>1, <2>2 DEF LastIsLatest, Alerts!NoAlert
<1>11. Alerts!AlertsAreSpaced'
  <2> SUFFICES ASSUME NEW a \in alerts', NEW b \in alerts',
                      a.findings = b.findings, a.number < b.number
               PROVE  b.read - a.read >= Cooldown
    BY DEF Alerts!AlertsAreSpaced
  <2>1. CASE a \in alerts /\ b \in alerts
    BY <2>1 DEF AlertInv, AlertingHolds, Alerts!AlertsAreSpaced
  <2>2. CASE a \in alerts /\ b = new
    BY <1>1, <1>5, <1>6, <1>9, <2>2, AlertingAssumption
  <2>3. CASE a = new
    <3>1. a.number = n + 1 /\ b.number <= n + 1 /\ b.number \in Nat
      BY <1>2, <1>5, <1>6, <1>7, <2>3
    <3> QED
      BY <1>2, <3>1
  <2> QED
    BY <1>5, <2>1, <2>2, <2>3
<1>12. Alerts!OnlyOwnAlertsSilence'
  BY DEF AlertInv, AlertingHolds, Alerts!OnlyOwnAlertsSilence, Alerts!Idle
<1> QED
  BY <1>8, <1>10, <1>11, <1>12 DEF AlertInv, AlertingHolds

(* The instance has a Cardinality of its own, with the same definition.        *)
LEMMA AlertCardinality == Alerts!Cardinality(alerts) = Cardinality(alerts)
  BY Zenon DEF Alerts!Cardinality, Cardinality

LEMMA AlertStep ==
  ASSUME AlertInv, [Alerts!Next]_alerting
  PROVE  AlertInv'
<1> USE DEF Alerts!NoAlert, Alerts!Idle
<1>1. CASE UNCHANGED alerting
  BY <1>1 DEF alerting, AlertInv, AlertType, LastIsLatest, AlertingHolds,
              Alerts!AlertsAreSpaced, Alerts!OnlyOwnAlertsSilence
<1>2. ASSUME NEW c \in Callers, Alerts!ReadClock(c)
      PROVE  AlertInv'
  <2>1. UNCHANGED <<time, lastAlert, alerts, refused>>
    BY <1>2 DEF Alerts!ReadClock
  <2>2. PICK f \in Findings : caller' = [caller EXCEPT ![c] = [findings |-> f, read |-> time]]
    BY <1>2 DEF Alerts!ReadClock
  <2>3. [findings |-> f, read |-> time] \in Reading
    BY DEF Reading, AlertInv, AlertType
  <2>4. caller' \in [Callers -> Reading \cup {Alerts!Idle}]
    BY <2>2, <2>3 DEF AlertInv, AlertType
  <2> QED
    BY <2>1, <2>4 DEF AlertInv, AlertType, LastIsLatest, AlertingHolds,
                      Alerts!AlertsAreSpaced, Alerts!OnlyOwnAlertsSilence
<1>3. ASSUME NEW c \in Callers, Alerts!Compare(c)
      PROVE  AlertInv'
  <2> DEFINE own == caller[c]
  <2>1. own \in Reading /\ own # Alerts!Idle
    BY <1>3 DEF Alerts!Compare, AlertInv, AlertType
  <2>2. caller' \in [Callers -> Reading \cup {Alerts!Idle}] /\ UNCHANGED time
    BY <1>3 DEF Alerts!Compare, AlertInv, AlertType
  <2>3. CASE /\ own.read - lastAlert[own.findings] < Cooldown
             /\ refused' = own
             /\ UNCHANGED <<lastAlert, alerts>>
    <3>1. AlertType' /\ LastIsLatest' /\ Alerts!AlertsAreSpaced'
      BY <2>2, <2>3 DEF AlertInv, AlertType, LastIsLatest, AlertingHolds, Alerts!AlertsAreSpaced
    <3>2. own.findings \in Findings /\ own.read \in Nat /\ lastAlert[own.findings] \in Int
      BY <2>1 DEF Reading, AlertInv, AlertType
    <3>3. lastAlert[own.findings] # Alerts!NoAlert
      BY <2>3, <3>2, AlertingAssumption
    <3>4. PICK a \in alerts : a.findings = own.findings /\ a.read = lastAlert[own.findings]
      BY <3>2, <3>3 DEF AlertInv, LastIsLatest
    <3>5. Alerts!OnlyOwnAlertsSilence'
      BY <2>3, <3>4 DEF Alerts!OnlyOwnAlertsSilence
    <3> QED
      BY <3>1, <3>5 DEF AlertInv, AlertingHolds
  <2>4. CASE /\ own.read - lastAlert[own.findings] >= Cooldown
             /\ lastAlert' = Alerts!StartCooldown(c)
             /\ alerts' = alerts \cup {[findings |-> own.findings, read |-> own.read,
                                        number |-> Cardinality(alerts) + 1]}
             /\ UNCHANGED refused
    <3>1. lastAlert' = [lastAlert EXCEPT ![own.findings] = own.read]
      BY <2>4 DEF Alerts!StartCooldown
    <3> QED
      BY <2>1, <2>2, <2>4, <3>1, AlertFires
  <2> QED
    BY <1>3, <2>3, <2>4, AlertCardinality DEF Alerts!Compare
<1>4. CASE \E n \in 1..MaxAlerts : Alerts!SendWebhook(n)
  BY <1>4 DEF Alerts!SendWebhook, AlertInv, AlertType, LastIsLatest, AlertingHolds,
              Alerts!AlertsAreSpaced, Alerts!OnlyOwnAlertsSilence
<1>5. CASE Alerts!Pass
  BY <1>5 DEF Alerts!Pass, AlertInv, AlertType, LastIsLatest, AlertingHolds,
              Alerts!AlertsAreSpaced, Alerts!OnlyOwnAlertsSilence
<1> QED
  BY <1>1, <1>2, <1>3, <1>4, <1>5 DEF Alerts!Next

\* Alerts of the same findings are a cooldown apart, and check_and_alert stays
\* silent only because of an earlier alert of the same findings, although the
\* clock is read before the lock is taken (AlertingHook). LastIsLatest: the table
\* holds the time of the latest alert.
THEOREM PartsAlerting == Spec => []AlertingHolds
<1>1. AlertInv => AlertingHolds
  BY DEF AlertInv
<1>2. AlertInv /\ [Next]_vars => AlertInv'
  BY PartsStep, AlertStep
<1> QED
  BY <1>1, <1>2, AlertInit, PTL DEF Spec

-----------------------------------------------------------------------------
(* Signed manifests.  What verifies carries the signature of what it says, as  *)
(* verify() checks the baseline again on every call; a step that changes the   *)
(* registered object in place leaves its signature behind.                     *)

LEMMA SignedAsVerified == Signed!VerifiedIsAsSigned
<1> SUFFICES ASSUME NEW m \in Manifests, Signed!Violations(m) = {}
             PROVE  /\ baseline # NoManifest
                    /\ \E signed \in signature[baseline] :
                          /\ content[m].interface = signed.interface
                          /\ Signed!Names(content[m].capabilities) = Signed!Names(signed.capabilities)
  BY DEF Signed!VerifiedIsAsSigned
<1>1. baseline # NoManifest
  BY DEF Signed!Violations
<1>2. /\ Signed!VerifySignature(baseline)
      /\ content[m].interface = content[baseline].interface
      /\ Signed!Names(content[m].capabilities) \ Signed!Names(content[baseline].capabilities) = {}
      /\ Signed!Names(content[baseline].capabilities) \ Signed!Names(content[m].capabilities) = {}
  BY <1>1 DEF Signed!Violations
<1>3. signature[baseline] = {content[baseline]}
  BY <1>2 DEF Signed!VerifySignature
<1>4. Signed!Names(content[m].capabilities) = Signed!Names(content[baseline].capabilities)
  BY <1>2
<1> QED
  BY <1>1, <1>2, <1>3, <1>4

LEMMA TamperingFailsAll ==
  ASSUME [Signed!Next]_manifests
  PROVE  baseline # NoManifest /\ baseline' = baseline /\ Signed!VerifySignature(baseline)
            /\ content'[baseline] # content[baseline]
         => \A m \in Manifests : Signed!Violations(m)' # {}
<1> SUFFICES ASSUME baseline # NoManifest, baseline' = baseline,
                    signature[baseline] = {content[baseline]},
                    content'[baseline] # content[baseline], NEW m \in Manifests
             PROVE  "baseline_tampered" \in Signed!Violations(m)'
  BY DEF Signed!VerifySignature
<1>1. UNCHANGED signature
  <2>1. content' # content
    OBVIOUS
  <2>2. PICK n \in Manifests : Signed!Sign(n) \/ Signed!RegisterBaseline(n) \/ Signed!Edit(n)
    BY <2>1 DEF Signed!Next, manifests
  <2> QED
    BY <2>1, <2>2 DEF Signed!Sign, Signed!RegisterBaseline, Signed!Edit
<1>2. ~Signed!VerifySignature(baseline)'
  BY <1>1 DEF Signed!VerifySignature
<1> QED
  BY <1>2 DEF Signed!Violations

\* Whatever the caller did to an object after registering it, a manifest that
\* verifies says what was signed, and a baseline changed in place fails every
\* manifest of its tool (ManifestVerifier.verify).
THEOREM PartsManifests == Spec => ManifestsHold
<1> DEFINE Tampered == /\ baseline # NoManifest /\ baseline' = baseline
                       /\ Signed!VerifySignature(baseline) /\ content'[baseline] # content[baseline]
           Fails == \A m \in Manifests : Signed!Violations(m)' # {}
<1>1. [Next]_vars => [Signed!VerifiedIsAsSigned']_vars
  <2>1. Signed!VerifiedIsAsSigned
    BY SignedAsVerified
  <2>2. Signed!VerifiedIsAsSigned'
    BY <2>1, PTL
  <2> QED
    BY <2>2
<1>2. [Next]_vars => [Tampered => Fails]_manifests
  BY PartsStep, TamperingFailsAll
<1>3. [][Next]_vars => [][Tampered => Fails]_manifests
  BY <1>2, PTL
<1> QED
  BY <1>1, <1>3, PTL DEF Spec, ManifestsHold, Signed!TamperedBaselineFailsAll, Signed!vars, manifests

-----------------------------------------------------------------------------
(* The policy engine decides one call from its initial state.                  *)

PolicyInv == decision # "none" => call \in Policy!Calls /\ decision = Policy!Decide(call)

LEMMA DecisionsAgree ==
  ASSUME NEW c \in Policy!Calls
  PROVE  /\ Policy!Decide(c) = "ALLOWED" <=>
               /\ Policy!AllowTool(c) /\ Policy!AllowEgress(c) /\ ~Policy!Malformed(c)
               /\ Policy!Destination(c).host \notin {"", "invalid"}
         /\ Policy!Decide(c) = "raised" <=>
               /\ Policy!AllowTool(c) /\ ~Policy!Malformed(c)
               /\ Policy!Destination(c).host = "invalid"
         /\ Policy!Decide(c) \in
               {"ALLOWED", "raised", "DENY_MALFORMED_INPUT", "DENY_EGRESS_MALFORMED"}
                  \cup Policy!AuthzReasons(c) \cup Policy!EgressReasons(c)
<1> DEFINE d == Policy!Destination(c)
<1>1. d = Policy!None \/ d \in Destinations
  BY DEF Policy!Calls, Policy!Destination, Policy!ArgumentNames
<1>2. d = Policy!None <=> d.host = "none"
  BY <1>1, PolicyAssumption DEF Policy!None
<1>3. Policy!AllowEgress(c) <=> d.host \in {"", "invalid", "none"} \cup AllowedHosts
  BY DEF Policy!AllowEgress, Policy!EgressHost
<1>4. Policy!EvaluateEgress(c) = IF d.host = "none" THEN "none"
                                 ELSE IF d.host = "invalid" THEN "raised"
                                 ELSE IF d.host = "" THEN "DENY_EGRESS_MALFORMED"
                                 ELSE IF d.host \notin AllowedHosts THEN "DENY_EGRESS_NOT_ALLOWED"
                                 ELSE "none"
  BY <1>2 DEF Policy!EvaluateEgress
<1> HIDE DEF d
<1>5. Policy!AllowTool(c) <=> c.tool \notin DangerousTools /\ c.server \in AllowedServers
  BY DEF Policy!AllowTool, Policy!AuthzReasons
<1>6. Policy!Decide(c) = "ALLOWED" <=>
         /\ Policy!AllowTool(c) /\ Policy!AllowEgress(c) /\ ~Policy!Malformed(c)
         /\ d.host \notin {"", "invalid"}
  BY <1>3, <1>4, <1>5 DEF Policy!Decide
<1>7. Policy!Decide(c) = "raised" <=>
         /\ Policy!AllowTool(c) /\ ~Policy!Malformed(c) /\ d.host = "invalid"
  BY <1>4, <1>5 DEF Policy!Decide
<1>8. Policy!Decide(c) \in {"ALLOWED", "raised", "DENY_MALFORMED_INPUT", "DENY_EGRESS_MALFORMED"}
                           \cup Policy!AuthzReasons(c) \cup Policy!EgressReasons(c)
  BY <1>3, <1>4 DEF Policy!Decide, Policy!AuthzReasons, Policy!EgressReasons
<1> QED
  BY <1>6, <1>7, <1>8 DEF d

\* PolicyEngine.evaluate and the two Rego policies decide alike on every call,
\* but for the cases ParityWithRego names.
THEOREM PartsPolicy == Spec => []ParityWithRego
<1>1. Init => PolicyInv
  BY DEF Init, Policy!Init, PolicyInv
<1>2. PolicyInv /\ [Next]_vars => PolicyInv'
  <2> SUFFICES ASSUME PolicyInv, [Policy!Next]_policy
               PROVE  PolicyInv'
    BY PartsStep
  <2>1. CASE UNCHANGED policy
    BY <2>1 DEF policy, PolicyInv
  <2>2. CASE Policy!Next
    <3>1. PICK c \in Policy!Calls : call' = c /\ decision' = Policy!Decide(c)
      BY <2>2 DEF Policy!Next, Policy!Evaluate
    <3>2. decision' = Policy!Decide(call')
      BY <3>1
    <3> QED
      BY <3>1, <3>2 DEF PolicyInv
  <2> QED
    BY <2>1, <2>2
<1>3. PolicyInv => ParityWithRego
  BY DecisionsAgree DEF PolicyInv, ParityWithRego, Policy!ParityWithRego
<1> QED
  BY <1>1, <1>2, <1>3, PTL DEF Spec

-----------------------------------------------------------------------------
(* Behavioural drift.  The window is the tail of what was recorded, and the    *)
(* known fields are those of everything recorded.                              *)

DriftSamples == {Drift!Sample(input, output) : input \in Inputs, output \in Outputs}

Before == Len(recorded) - Len(samples)

WindowIsTail ==
  /\ samples \in Seq(DriftSamples) /\ recorded \in Seq(DriftSamples)
  /\ Len(samples) <= Len(recorded) /\ Len(samples) <= BaselineWindow
  /\ Len(samples) = BaselineWindow \/ Len(samples) = Len(recorded)
  /\ \A k \in 1..Len(samples) : samples[k] = recorded[Before + k]

DriftInv == WindowIsTail /\ known = UNION {recorded[i].fields : i \in 1..Len(recorded)}

LEMMA WindowStep ==
  ASSUME WindowIsTail, NEW s \in DriftSamples,
         samples' = Drift!Kept(Append(samples, s)), recorded' = Append(recorded, s)
  PROVE  WindowIsTail'
<1> DEFINE long == Append(samples, s)
           m == Len(samples)
           n == Len(recorded)
           w == BaselineWindow
<1>1. m \in Nat /\ n \in Nat /\ w \in Nat \ {0} /\ m <= n /\ m <= w /\ (m = w \/ m = n)
  BY DriftAssumption DEF WindowIsTail
<1>2. /\ long \in Seq(DriftSamples) /\ Len(long) = m + 1
      /\ \A k \in 1..m : long[k] = samples[k]
      /\ long[m + 1] = s
  BY <1>1 DEF WindowIsTail
<1>3. /\ recorded' \in Seq(DriftSamples) /\ Len(recorded') = n + 1
      /\ \A k \in 1..n : recorded'[k] = recorded[k]
      /\ recorded'[n + 1] = s
  BY <1>1 DEF WindowIsTail
<1>4. ASSUME NEW k \in 1..(m + 1)
      PROVE  long[k] = recorded'[n - m + k]
  <2>1. CASE k = m + 1
    BY <1>1, <1>2, <1>3, <2>1
  <2>2. CASE k # m + 1
    <3>1. k \in 1..m /\ n - m + k \in 1..n
      BY <1>1, <2>2
    <3>2. samples[k] = recorded[n - m + k]
      BY <3>1 DEF WindowIsTail, Before
    <3> QED
      BY <1>2, <1>3, <3>1, <3>2
  <2> QED
    BY <2>1, <2>2
<1>5. samples' = IF Len(long) > w THEN SubSeq(long, Len(long) - w + 1, Len(long)) ELSE long
  BY DEF Drift!Kept
<1> HIDE DEF long, m, n, w
<1>6. CASE m = w
  <2>1. samples' = SubSeq(long, 2, m + 1)
    BY <1>1, <1>2, <1>5, <1>6
  <2>2. /\ samples' \in Seq(DriftSamples) /\ Len(samples') = m
        /\ \A k \in 1..m : samples'[k] = long[k + 1]
    <3>1. \A k \in 2..(m + 1) : long[k] \in DriftSamples
      BY <1>1, <1>2
    <3>2. (m + 1) - 2 + 1 = m /\ 2 <= m + 1 /\ 2 \in Int /\ m + 1 \in Int
      BY <1>1, <1>6
    <3>3. /\ samples' \in Seq(DriftSamples) /\ Len(samples') = m
          /\ \A k \in 1..m : samples'[k] = long[2 + k - 1]
      BY <2>1, <3>1, <3>2, SubSeqProperties
    <3>4. \A k \in 1..m : 2 + k - 1 = k + 1
      BY <1>1
    <3> QED
      BY <3>3, <3>4
  <2>3. ASSUME NEW k \in 1..m
        PROVE  samples'[k] = recorded'[(n + 1) - m + k]
    <3>1. k + 1 \in 1..(m + 1) /\ n - m + (k + 1) = (n + 1) - m + k
      BY <1>1
    <3>2. long[k + 1] = recorded'[n - m + (k + 1)]
      BY <1>4, <3>1
    <3> QED
      BY <2>2, <3>1, <3>2
  <2> QED
    BY <1>1, <1>3, <1>6, <2>2, <2>3 DEF WindowIsTail, Before, w
<1>7. CASE m # w
  <2>1. samples' = long
    BY <1>1, <1>2, <1>5, <1>7
  <2>2. (n + 1) - (m + 1) = n - m /\ m + 1 <= w /\ m + 1 <= n + 1 /\ m + 1 = n + 1
    BY <1>1, <1>7
  <2>3. Before' = n - m /\ Len(samples') = m + 1
    BY <1>2, <1>3, <2>1, <2>2 DEF Before
  <2>4. \A k \in 1..Len(samples') : samples'[k] = recorded'[Before' + k]
    BY <1>4, <2>1, <2>3
  <2> QED
    BY <1>2, <1>3, <2>1, <2>2, <2>3, <2>4 DEF WindowIsTail, w
<1> QED
  BY <1>6, <1>7

LEMMA DriftStep ==
  ASSUME DriftInv, [Drift!Next]_drift
  PROVE  DriftInv'
<1>1. CASE UNCHANGED drift
  BY <1>1 DEF drift, DriftInv, WindowIsTail, Before
<1>2. CASE Drift!Next
  <2>1. PICK input \in Inputs, output \in Outputs : Drift!RecordBaseline(input, output)
    BY <1>2 DEF Drift!Next
  <2> DEFINE s == Drift!Sample(input, output)
  <2>2. s \in DriftSamples
    BY DEF DriftSamples
  <2>3. s.fields = output.fields
    BY DEF Drift!Sample
  <2>4. /\ samples' = Drift!Kept(Append(samples, s)) /\ recorded' = Append(recorded, s)
        /\ known' = known \cup s.fields
    BY <2>1, <2>3 DEF Drift!RecordBaseline, Drift!Known
  <2> HIDE DEF s
  <2>5. WindowIsTail'
    BY <2>2, <2>4, WindowStep DEF DriftInv
  <2>6. /\ Len(recorded) \in Nat /\ Len(recorded') = Len(recorded) + 1
        /\ \A i \in 1..Len(recorded) : recorded'[i] = recorded[i]
        /\ recorded'[Len(recorded) + 1] = s
    BY <2>4 DEF DriftInv, WindowIsTail
  <2> DEFINE n == Len(recorded)
  <2>7. UNION {recorded'[i].fields : i \in 1..(n + 1)} = (UNION {recorded[i].fields : i \in 1..n}) \cup s.fields
    <3>1. 1..(n + 1) = 1..n \cup {n + 1}
      BY <2>6
    <3> HIDE DEF n
    <3>2. {recorded'[i].fields : i \in 1..(n + 1)} = {recorded[i].fields : i \in 1..n} \cup {s.fields}
      BY <2>6, <3>1 DEF n
    <3> DEFINE old == {recorded[i].fields : i \in 1..n}
               f == s.fields
    <3>3. UNION (old \cup {f}) = (UNION old) \cup f
      <4> HIDE DEF old, f
      <4> QED
        OBVIOUS
    <3> QED
      BY <3>2, <3>3
  <2> QED
    BY <2>4, <2>5, <2>6, <2>7 DEF DriftInv
<1> QED
  BY <1>1, <1>2

LEMMA DriftInit == Init => DriftInv
<1> SUFFICES ASSUME Init PROVE DriftInv
  OBVIOUS
<1>1. samples = <<>> /\ known = {} /\ recorded = <<>>
  BY DEF Init, Drift!Init
<1>2. Len(samples) = 0 /\ Len(recorded) = 0 /\ 1..Len(samples) = {} /\ 1..Len(recorded) = {}
  BY <1>1
<1> QED
  BY <1>1, <1>2, DriftAssumption DEF DriftInv, WindowIsTail

(* An output with the fields of the latest sample of its input.                *)
LEMMA DriftHoldsThen ==
  ASSUME DriftInv
  PROVE  DriftHolds
<1> DEFINE m == Len(samples)
           n == Len(recorded)
           w == BaselineWindow
<1>1. /\ m \in Nat /\ n \in Nat /\ w \in Nat \ {0} /\ m <= n /\ (m = w \/ m = n)
      /\ Before = n - m
  BY DriftAssumption DEF DriftInv, WindowIsTail, Before
<1>2. (\A k \in 1..m : samples[k] = recorded[Before + k]) /\ DOMAIN samples = 1..m
  BY DEF DriftInv, WindowIsTail, Before
<1> HIDE DEF m, n, w
<1>3. Drift!RecordedIsNoDrift
  <2> SUFFICES ASSUME NEW i \in 1..n, NEW output \in Outputs,
                      i > n - w,
                      output.fields = recorded[i].fields,
                      \A j \in (i + 1)..n : recorded[j].input # recorded[i].input
               PROVE  Drift!Drift(recorded[i].input, output) \subseteq {"size_anomaly"}
    BY DEF Drift!RecordedIsNoDrift, n, w
  <2> DEFINE input == recorded[i].input
             k == i - Before
  <2>1. k \in 1..m /\ Before + k = i
    BY <1>1
  <2>2. samples[k] = recorded[i]
    BY <1>2, <2>1
  <2>3. output.fields \subseteq known
    BY DEF DriftInv, n
  <2>4. Drift!AlwaysPresent \subseteq output.fields
    <3>1. recorded[i] \in Drift!Range(samples)
      BY <1>2, <2>1, <2>2 DEF Drift!Range
    <3> QED
      BY <3>1 DEF Drift!AlwaysPresent
  <2>5. \A s \in Drift!LatestOf(input) : s.fields = output.fields
    <3> SUFFICES ASSUME NEW j \in 1..m, samples[j].input = input,
                        \A l \in (j + 1)..m : samples[l].input # input
                 PROVE  samples[j].fields = output.fields
      BY DEF Drift!LatestOf, m
    <3>1. samples[k].input = input /\ samples[k].fields = output.fields
      BY <2>2
    <3>2. \A l \in (i + 1)..n : recorded[l].input # input
      OBVIOUS
    <3>3. k \in 1..m /\ Before + k = i
      BY <2>1
    <3> HIDE DEF k, input
    <3>4. ~(j < k)
      <4>1. j < k => k \in (j + 1)..m
        BY <1>1, <3>3
      <4> QED
        BY <3>1, <4>1
    <3>5. ~(j > k)
      <4>1. j > k => Before + j \in (i + 1)..n
        BY <1>1, <3>3
      <4>2. samples[j] = recorded[Before + j]
        BY <1>2
      <4> QED
        BY <3>2, <4>1, <4>2
    <3>6. j = k
      BY <3>3, <3>4, <3>5
    <3> QED
      BY <3>1, <3>6
  <2> QED
    BY <2>3, <2>4, <2>5 DEF Drift!Drift
<1>4. Drift!NewFieldsAreNew
  <2> SUFFICES ASSUME NEW input \in Inputs, NEW output \in Outputs
               PROVE  "new_field" \in Drift!Drift(input, output) <=>
                         /\ recorded # <<>>
                         /\ \E f \in output.fields :
                               \A i \in 1..Len(recorded) : f \notin recorded[i].fields
    BY DEF Drift!NewFieldsAreNew
  <2>1. samples = <<>> <=> recorded = <<>>
    <3>1. samples \in Seq(DriftSamples) /\ recorded \in Seq(DriftSamples)
      BY DEF DriftInv, WindowIsTail
    <3>2. samples = <<>> <=> Len(samples) = 0
      BY <3>1, EmptySeq
    <3>3. recorded = <<>> <=> Len(recorded) = 0
      BY <3>1, EmptySeq
    <3>4. m = 0 <=> n = 0
      BY <1>1
    <3> QED
      BY <3>2, <3>3, <3>4 DEF m, n
  <2>2. "new_field" \in Drift!Drift(input, output) <=> samples # <<>> /\ ~(output.fields \subseteq known)
    BY DEF Drift!Drift
  <2>3. ~(output.fields \subseteq known) <=>
           \E f \in output.fields : \A i \in 1..Len(recorded) : f \notin recorded[i].fields
    BY DEF DriftInv
  <2> QED
    BY <2>1, <2>2, <2>3
<1> QED
  BY <1>3, <1>4 DEF DriftHolds

\* The output recorded last for an input shows no drift but in its size, and a
\* field is reported as new exactly when no sample ever had it, also after the
\* window has moved on (BehavioralDriftDetector.record and evaluate).
THEOREM PartsDrift == Spec => []DriftHolds
<1>1. DriftInv /\ [Next]_vars => DriftInv'
  BY PartsStep, DriftStep
<1> QED
  BY <1>1, DriftInit, DriftHoldsThen, PTL DEF Spec

-----------------------------------------------------------------------------
(* Canary probes.  Ids may be shared, and then the hash of one probe is the    *)
(* baseline of another; where they are not, a probe and its baseline agree,    *)
(* whatever was registered or approved since.                                  *)

Expectations == {p.expected : p \in Probes} \cup {{output} : output \in ProbeOutputs} \cup {{}}

ProbeRecords == [id : Canary!Ids, tool : Canary!Tools, expected : Expectations,
                 needs : {p.needs : p \in Probes}, forbids : {p.forbids : p \in Probes}]

CanaryType ==
  /\ probes \in Seq(ProbeRecords)
  /\ baselines \in [Canary!Ids -> Expectations]
  /\ answers \in [Canary!Ids -> Seq({"pass", "fail", "drift"})]

BaselinesAgree ==
  Canary!Unique =>
     \A i \in 1..Len(probes) :
        probes[i].expected # {} => baselines[probes[i].id] = probes[i].expected

CanaryInv == CanaryType /\ BaselinesAgree

(* Where ids are unique, _find_probe() finds the one probe with the id.        *)
LEMMA IndexFinds ==
  ASSUME Canary!Unique, NEW i \in 1..Len(probes)
  PROVE  Canary!Index(probes[i].id) = i
<1> DEFINE First(k) ==
        /\ probes[k].id = probes[i].id
        /\ \A j \in 1..Len(probes) :
              probes[j].id = probes[i].id =>
                 \/ Canary!FirstOfTool(probes[k].tool) < Canary!FirstOfTool(probes[j].tool)
                 \/ probes[k].tool = probes[j].tool /\ k <= j
<1>1. \A j \in 1..Len(probes) : probes[j].id = probes[i].id => j = i
  BY DEF Canary!Unique
<1>2. First(i)
  BY <1>1
<1>3. \A k \in 1..Len(probes) : First(k) => k = i
  BY <1>1
<1>4. Canary!Index(probes[i].id) = CHOOSE k \in 1..Len(probes) : First(k)
  BY DEF Canary!Index
<1> HIDE DEF First
<1> QED
  BY <1>2, <1>3, <1>4

LEMMA RegisteredIndex ==
  ASSUME Canary!Unique, NEW id, Canary!Registered(id)
  PROVE  Canary!Index(id) \in 1..Len(probes) /\ probes[Canary!Index(id)].id = id
  BY IndexFinds DEF Canary!Registered

LEMMA RegisterStep ==
  ASSUME CanaryInv, NEW p \in Probes, Canary!RegisterProbe(p)
  PROVE  CanaryInv'
<1> DEFINE n == Len(probes)
<1>1. p \in ProbeRecords /\ p.id \in Canary!Ids /\ p.expected \in Expectations
  BY CanaryAssumption DEF ProbeRecords, Expectations, Canary!Ids, Canary!Tools
<1>2. /\ n \in Nat /\ probes' \in Seq(ProbeRecords) /\ Len(probes') = n + 1
      /\ \A i \in 1..n : probes'[i] = probes[i]
      /\ probes'[n + 1] = p
  BY <1>1 DEF CanaryInv, CanaryType, Canary!RegisterProbe
<1>3. \A i \in 1..n : probes[i] \in ProbeRecords
  BY DEF CanaryInv, CanaryType
<1>4. baselines' = IF p.expected = {} THEN baselines ELSE [baselines EXCEPT ![p.id] = p.expected]
  BY DEF Canary!RegisterProbe, Canary!NewBaseline
<1>5. CanaryType'
  BY <1>1, <1>2, <1>4 DEF CanaryInv, CanaryType, Canary!RegisterProbe
<1> HIDE DEF n
<1>6. ASSUME Canary!Unique', NEW i \in 1..(n + 1), probes'[i].expected # {}
      PROVE  baselines'[probes'[i].id] = probes'[i].expected
  <2>1. \A j, k \in 1..(n + 1) : probes'[j].id = probes'[k].id => j = k
    BY <1>2, <1>6 DEF Canary!Unique
  <2>2. CASE i = n + 1
    BY <1>1, <1>2, <1>4, <1>6, <2>2 DEF CanaryInv, CanaryType
  <2>3. CASE i # n + 1
    <3>1. i \in 1..n /\ n + 1 \in 1..(n + 1)
      BY <1>2, <2>3
    <3>2. probes'[i] = probes[i] /\ probes[i].id \in Canary!Ids
      BY <1>2, <1>3, <3>1 DEF ProbeRecords
    <3>3. probes[i].id # p.id
      BY <1>2, <2>1, <2>3, <3>1, <3>2
    <3>4. Canary!Unique
      <4>1. \A j \in 1..n : j \in 1..(n + 1)
        BY <1>2
      <4> QED
        BY <1>2, <2>1, <4>1 DEF Canary!Unique, n
    <3>5. baselines[probes[i].id] = probes[i].expected
      BY <1>6, <3>1, <3>2, <3>4 DEF CanaryInv, BaselinesAgree, n
    <3> QED
      BY <1>1, <1>4, <3>2, <3>3, <3>5 DEF CanaryInv, CanaryType
  <2> QED
    BY <2>2, <2>3
<1> QED
  BY <1>2, <1>5, <1>6 DEF CanaryInv, BaselinesAgree

(* Approving a change touches the expectation of one probe, if any.            *)
LEMMA UpdateKeeps ==
  ASSUME CanaryInv, NEW id \in Canary!Ids, NEW output \in ProbeOutputs,
         Canary!UpdateBaseline(id, output)
  PROVE  /\ DOMAIN probes' = 1..Len(probes) /\ Len(probes') = Len(probes)
         /\ probes' \in Seq(ProbeRecords)
         /\ \A i \in 1..Len(probes) :
               /\ probes'[i].id = probes[i].id /\ probes'[i].tool = probes[i].tool
               /\ probes'[i].expected = IF Canary!Registered(id) /\ i = Canary!Index(id)
                                        THEN {output} ELSE probes[i].expected
<1> DEFINE n == Len(probes)
           k == Canary!Index(id)
<1>1. /\ n \in Nat /\ DOMAIN probes = 1..n
      /\ \A i \in 1..n : probes[i] \in ProbeRecords
  BY DEF CanaryInv, CanaryType
<1>2. {output} \in Expectations
  BY DEF Expectations
<1>3. probes' = IF Canary!Registered(id) THEN [probes EXCEPT ![k].expected = {output}] ELSE probes
  BY DEF Canary!UpdateBaseline
<1> HIDE DEF k
<1>4. CASE ~Canary!Registered(id)
  BY <1>1, <1>3, <1>4 DEF CanaryInv, CanaryType
<1>5. CASE Canary!Registered(id)
  <2>1. probes' = [i \in 1..n |-> IF i = k THEN [probes[i] EXCEPT !.expected = {output}] ELSE probes[i]]
    BY <1>1, <1>3, <1>5
  <2>2. \A i \in 1..n : /\ [probes[i] EXCEPT !.expected = {output}] \in ProbeRecords
                        /\ [probes[i] EXCEPT !.expected = {output}].id = probes[i].id
                        /\ [probes[i] EXCEPT !.expected = {output}].tool = probes[i].tool
                        /\ [probes[i] EXCEPT !.expected = {output}].expected = {output}
    BY <1>1, <1>2 DEF ProbeRecords
  <2> HIDE DEF n
  <2>3. /\ DOMAIN probes' = 1..n /\ Len(probes') = n /\ probes' \in Seq(ProbeRecords)
        /\ \A i \in 1..n :
              /\ probes'[i].id = probes[i].id /\ probes'[i].tool = probes[i].tool
              /\ probes'[i].expected = IF Canary!Registered(id) /\ i = k THEN {output}
                                       ELSE probes[i].expected
    BY <1>1, <1>5, <2>1, <2>2
  <2> QED
    BY <2>3 DEF n, k
<1> QED
  BY <1>4, <1>5 DEF k

LEMMA UpdateStep ==
  ASSUME CanaryInv, NEW id \in Canary!Ids, NEW output \in ProbeOutputs,
         Canary!UpdateBaseline(id, output)
  PROVE  CanaryInv'
<1> DEFINE n == Len(probes)
           k == Canary!Index(id)
<1>1. /\ n \in Nat /\ DOMAIN probes = 1..n
      /\ \A i \in 1..n : probes[i] \in ProbeRecords
  BY DEF CanaryInv, CanaryType
<1>2. {output} \in Expectations
  BY DEF Expectations
<1>3. baselines' = [baselines EXCEPT ![id] = {output}]
  BY DEF Canary!UpdateBaseline
<1>5. /\ DOMAIN probes' = 1..n /\ Len(probes') = n /\ probes' \in Seq(ProbeRecords)
      /\ \A i \in 1..n : /\ probes'[i].id = probes[i].id /\ probes'[i].tool = probes[i].tool
                         /\ probes'[i].expected = IF Canary!Registered(id) /\ i = k THEN {output}
                                                  ELSE probes[i].expected
  BY UpdateKeeps
<1>6. CanaryType'
  BY <1>2, <1>3, <1>5 DEF CanaryInv, CanaryType, Canary!UpdateBaseline
<1>7. ASSUME Canary!Unique', NEW i \in 1..n, probes'[i].expected # {}
      PROVE  baselines'[probes'[i].id] = probes'[i].expected
  <2>1. Canary!Unique
    BY <1>5, <1>7 DEF Canary!Unique
  <2>2. probes[i].id \in Canary!Ids
    BY <1>1 DEF ProbeRecords
  <2>3. CASE probes[i].id = id
    <3>1. Canary!Registered(id) /\ i = k
      BY <2>1, <2>3, IndexFinds DEF Canary!Registered
    <3> QED
      BY <1>3, <1>5, <2>2, <2>3, <3>1 DEF CanaryInv, CanaryType
  <2>4. CASE probes[i].id # id
    <3>1. ~(Canary!Registered(id) /\ i = k)
      BY <2>1, <2>4, RegisteredIndex
    <3>2. probes'[i].expected = probes[i].expected
      BY <1>5, <3>1
    <3>3. baselines[probes[i].id] = probes[i].expected
      BY <1>7, <2>1, <3>2 DEF CanaryInv, BaselinesAgree
    <3> QED
      BY <1>3, <1>5, <2>2, <2>4, <3>2, <3>3 DEF CanaryInv, CanaryType
  <2> QED
    BY <2>3, <2>4
<1> QED
  BY <1>5, <1>6, <1>7 DEF CanaryInv, BaselinesAgree

LEMMA EvaluateStep ==
  ASSUME CanaryInv, NEW id \in Canary!Ids, NEW output \in ProbeOutputs,
         Canary!EvaluateResponse(id, output)
  PROVE  CanaryInv'
<1>1. UNCHANGED <<probes, baselines>>
  BY DEF Canary!EvaluateResponse
<1>2. answers' \in [Canary!Ids -> Seq({"pass", "fail", "drift"})]
  <2>1. CASE Canary!Registered(id)
    <3> DEFINE status == Canary!Status(probes[Canary!Index(id)], output)
    <3>1. status \in {"pass", "fail", "drift"}
      BY DEF Canary!Status
    <3>2. answers' = [answers EXCEPT ![id] = Append(@, status)]
      BY <2>1 DEF Canary!EvaluateResponse
    <3> HIDE DEF status
    <3> QED
      BY <3>1, <3>2 DEF CanaryInv, CanaryType
  <2>2. CASE ~Canary!Registered(id)
    BY <2>2 DEF Canary!EvaluateResponse, CanaryInv, CanaryType
  <2> QED
    BY <2>1, <2>2
<1> QED
  BY <1>1, <1>2 DEF CanaryInv, CanaryType, BaselinesAgree, Canary!Unique

LEMMA CanaryStep ==
  ASSUME CanaryInv, [Canary!Next]_canary
  PROVE  CanaryInv'
<1>1. CASE UNCHANGED canary
  BY <1>1 DEF canary, CanaryInv, CanaryType, BaselinesAgree, Canary!Unique
<1>2. CASE \E p \in Probes : Canary!RegisterProbe(p)
  BY <1>2, RegisterStep
<1>3. CASE \E id \in Canary!Ids, output \in ProbeOutputs :
              Canary!UpdateBaseline(id, output) \/ Canary!EvaluateResponse(id, output)
  BY <1>3, UpdateStep, EvaluateStep
<1> QED
  BY <1>1, <1>2, <1>3 DEF Canary!Next

LEMMA CanaryInit == Init => CanaryInv
<1> SUFFICES ASSUME Init PROVE CanaryInv
  OBVIOUS
<1>1. /\ probes = <<>> /\ baselines = [id \in Canary!Ids |-> {}]
      /\ answers = [id \in Canary!Ids |-> <<>>]
  BY DEF Init, Canary!Init
<1>2. CanaryType
  BY <1>1 DEF CanaryType, Expectations
<1>3. Len(probes) = 0 /\ 1..Len(probes) = {}
  BY <1>1
<1> QED
  BY <1>2, <1>3 DEF CanaryInv, BaselinesAgree

(* What an answer that passes was compared with.                               *)
LEMMA PassStep ==
  ASSUME CanaryInv, [Canary!Next]_canary, Canary!Unique, last' # last,
         NEW id \in Canary!Ids, NEW output \in ProbeOutputs,
         last' = [id |-> id, output |-> output, status |-> "pass"]
  PROVE  LET p == probes[Canary!Index(id)]
         IN  /\ p.expected # {} => p.expected = {output}
             /\ p.needs \subseteq output
             /\ p.forbids \cap output = {}
<1>1. PICK own \in Canary!Ids, out \in ProbeOutputs : Canary!EvaluateResponse(own, out)
  BY DEF Canary!Next, canary, Canary!RegisterProbe, Canary!UpdateBaseline
<1> DEFINE p == probes[Canary!Index(id)]
<1>2. Canary!Registered(own)
  BY <1>1 DEF Canary!EvaluateResponse
<1>3. last' = [id |-> own, output |-> out, status |-> Canary!Status(probes[Canary!Index(own)], out)]
  BY <1>1, <1>2 DEF Canary!EvaluateResponse
<1>4. own = id /\ out = output /\ Canary!Status(p, output) = "pass"
  BY <1>3
<1>5. /\ p.forbids \cap output = {} /\ p.needs \subseteq output
      /\ ~(p.expected # {} /\ baselines[p.id] # {output})
  BY <1>4 DEF Canary!Status
<1>6. p.expected # {} => baselines[p.id] = p.expected
  BY <1>2, <1>4, RegisteredIndex DEF CanaryInv, BaselinesAgree
<1> QED
  BY <1>5, <1>6

(* No status leaves a history, and a probe stays a probe of its tool.          *)
LEMMA CompromisedStep ==
  ASSUME CanaryInv, CanaryInv', [Canary!Next]_canary, NEW tool, Canary!Compromised(tool)
  PROVE  Canary!Compromised(tool)'
<1>1. PICK i \in 1..Len(probes) : /\ probes[i].tool = tool
                                  /\ "fail" \in Canary!Range(answers[probes[i].id])
  BY DEF Canary!Compromised, Canary!Statuses
<1>2. \A id \in Canary!Ids :
         "fail" \in Canary!Range(answers[id]) => "fail" \in Canary!Range(answers'[id])
  <2>1. CASE UNCHANGED answers
    BY <2>1
  <2>2. CASE answers' # answers
    <3>1. PICK own \in Canary!Ids, output \in ProbeOutputs : Canary!EvaluateResponse(own, output)
      BY <2>2 DEF Canary!Next, canary, Canary!RegisterProbe, Canary!UpdateBaseline
    <3> DEFINE status == Canary!Status(probes[Canary!Index(own)], output)
    <3>2. answers' = [answers EXCEPT ![own] = Append(@, status)]
      BY <2>2, <3>1 DEF Canary!EvaluateResponse
    <3>3. status \in {"pass", "fail", "drift"}
      BY DEF Canary!Status
    <3> HIDE DEF status
    <3> SUFFICES ASSUME NEW id \in Canary!Ids, "fail" \in Canary!Range(answers[id])
                 PROVE  "fail" \in Canary!Range(answers'[id])
      OBVIOUS
    <3>4. answers[id] \in Seq({"pass", "fail", "drift"})
      BY DEF CanaryInv, CanaryType
    <3>5. PICK m \in 1..Len(answers[id]) : answers[id][m] = "fail"
      BY <3>4 DEF Canary!Range
    <3>6. answers'[id] = IF id = own THEN Append(answers[id], status) ELSE answers[id]
      BY <3>2 DEF CanaryInv, CanaryType
    <3>7. m \in DOMAIN answers'[id] /\ answers'[id][m] = "fail"
      BY <3>3, <3>4, <3>5, <3>6
    <3> QED
      BY <3>7 DEF Canary!Range
  <2> QED
    BY <2>1, <2>2
<1>3. /\ i \in 1..Len(probes') /\ probes'[i].tool = tool /\ probes'[i].id = probes[i].id
      /\ probes[i].id \in Canary!Ids
  <2>1. probes[i] \in ProbeRecords
    BY DEF CanaryInv, CanaryType
  <2>2. CASE UNCHANGED probes
    BY <1>1, <2>1, <2>2 DEF ProbeRecords
  <2>3. CASE \E p \in Probes : Canary!RegisterProbe(p)
    <3>1. PICK p \in Probes : probes' = Append(probes, p)
      BY <2>3 DEF Canary!RegisterProbe
    <3>2. i \in 1..Len(probes') /\ probes'[i] = probes[i]
      BY <3>1 DEF CanaryInv, CanaryType
    <3> QED
      BY <1>1, <2>1, <3>2 DEF ProbeRecords
  <2>4. CASE \E id \in Canary!Ids, output \in ProbeOutputs : Canary!UpdateBaseline(id, output)
    <3>1. Len(probes') = Len(probes) /\ probes'[i].id = probes[i].id /\ probes'[i].tool = probes[i].tool
      BY <2>4, UpdateKeeps
    <3> QED
      BY <1>1, <2>1, <3>1 DEF ProbeRecords
  <2> QED
    BY <2>2, <2>3, <2>4 DEF Canary!Next, canary, Canary!EvaluateResponse
<1> QED
  BY <1>1, <1>2, <1>3 DEF Canary!Compromised, Canary!Statuses

\* A response passes only if it is the output registered or approved last, and
\* a tool once found compromised stays so (ToolCanary.evaluate_response,
\* update_baseline). BaselinesAgree: the tables of probes and baselines match.
THEOREM PartsCanary == Spec => CanaryHolds
<1> DEFINE Passes(id, output) == /\ Canary!Unique
                                 /\ last' # last
                                 /\ last' = [id |-> id, output |-> output, status |-> "pass"]
           Approved(id, output) == LET p == probes[Canary!Index(id)]
                                   IN /\ p.expected # {} => p.expected = {output}
                                      /\ p.needs \subseteq output
                                      /\ p.forbids \cap output = {}
           AsApproved == \A id \in Canary!Ids, output \in ProbeOutputs :
                            Passes(id, output) => Approved(id, output)
           Sticks == \A tool \in Canary!Tools :
                        Canary!Compromised(tool) => Canary!Compromised(tool)'
<1>1. CanaryInv /\ [Next]_vars => CanaryInv'
  BY PartsStep, CanaryStep
<1>2. CanaryInv /\ [Next]_vars => [AsApproved]_canary
  BY PartsStep, PassStep
<1>3. CanaryInv /\ CanaryInv' /\ [Next]_vars => [Sticks]_canary
  BY PartsStep, CompromisedStep
<1> QED
  BY CanaryInit, <1>1, <1>2, <1>3, PTL
     DEF Spec, CanaryHolds, Canary!PassIsAsApproved, Canary!CompromisedIsSticky, Canary!vars, canary

-----------------------------------------------------------------------------
(* Sequences of calls.  The window is in the order of the times, so that the   *)
(* calls of a rule's time are its end, and the two calls that _match_sequence  *)
(* finds in them are the earliest of the two patterns.                         *)

Called == [tool : CallTools, server : CallServers, arguments : SUBSET Data,
           output : SUBSET Data, at : Nat]

Ordered(w) ==
  /\ w \in Seq(Called)
  /\ \A i \in 1..Len(w) : w[i].at <= callMinute
  /\ \A i, j \in 1..Len(w) : i < j => w[i].at <= w[j].at

SequencesInv == callMinute \in Nat /\ Ordered(window)

LEMMA TimesAreNumbers ==
  ASSUME NEW w \in Seq(Called), NEW i \in 1..Len(w)
  PROVE  w[i].at \in Nat
<1>1. w[i] \in Called
  OBVIOUS
<1> QED
  BY <1>1 DEF Called

\* What the window is after a call.
Pushed(c) == IF Len(window) = WindowSize THEN Append(Tail(window), c) ELSE Append(window, c)

LEMMA OneCallMore ==
  ASSUME callMinute \in Nat, NEW w, Ordered(w), NEW c \in Called, c.at = callMinute
  PROVE  Ordered(Append(w, c)) /\ Len(Append(w, c)) = Len(w) + 1
<1> DEFINE n == Len(w)
           t == Append(w, c)
<1>1. w \in Seq(Called) /\ n \in Nat
  BY DEF Ordered
<1>2. /\ t \in Seq(Called) /\ Len(t) = n + 1 /\ t[n + 1] = c
      /\ \A i \in 1..n : t[i] = w[i]
  BY <1>1
<1> HIDE DEF t
<1>3. \A i \in 1..n : w[i].at \in Nat /\ w[i].at <= callMinute
  BY <1>1, TimesAreNumbers DEF Ordered
<1>4. ASSUME NEW i \in 1..Len(t)
      PROVE  t[i].at <= callMinute
  <2>1. CASE i = n + 1
    BY <1>2, <2>1
  <2>2. CASE i \in 1..n
    BY <1>2, <1>3, <2>2
  <2> QED
    BY <1>1, <1>2, <2>1, <2>2
<1>5. ASSUME NEW i \in 1..Len(t), NEW j \in 1..Len(t), i < j
      PROVE  t[i].at <= t[j].at
  <2>1. i \in 1..n /\ j \in 1..(n + 1)
    BY <1>1, <1>2, <1>5
  <2>2. CASE j = n + 1
    BY <1>2, <1>3, <2>1, <2>2
  <2>3. CASE j \in 1..n
    BY <1>2, <1>5, <2>1, <2>3 DEF Ordered
  <2> QED
    BY <1>1, <2>1, <2>2, <2>3
<1>6. Ordered(t)
  BY <1>2, <1>4, <1>5 DEF Ordered
<1> QED
  BY <1>2, <1>6 DEF t

LEMMA OneCallLess ==
  ASSUME NEW w, Ordered(w), w # <<>>
  PROVE  Ordered(Tail(w))
<1> DEFINE t == Tail(w)
<1>1. w \in Seq(Called) /\ Len(w) \in Nat \ {0}
  BY DEF Ordered
<1>2. /\ t \in Seq(Called) /\ Len(t) = Len(w) - 1
      /\ \A i \in 1..Len(t) : t[i] = w[i + 1]
  BY <1>1
<1> HIDE DEF t
<1>3. \A i \in 1..Len(t) : i + 1 \in 1..Len(w)
  BY <1>1, <1>2
<1>4. \A i \in 1..Len(t) : t[i].at <= callMinute
  BY <1>2, <1>3 DEF Ordered
<1>5. ASSUME NEW i \in 1..Len(t), NEW j \in 1..Len(t), i < j
      PROVE  t[i].at <= t[j].at
  <2>1. i + 1 < j + 1 /\ i + 1 \in 1..Len(w) /\ j + 1 \in 1..Len(w)
    BY <1>1, <1>2, <1>5
  <2> QED
    BY <1>2, <2>1 DEF Ordered
<1>6. Ordered(t)
  BY <1>2, <1>4, <1>5 DEF Ordered
<1> QED
  BY <1>6 DEF t

LEMMA PushedOrdered ==
  ASSUME SequencesInv, NEW c \in Called, c.at = callMinute
  PROVE  Ordered(Pushed(c))
<1>1. callMinute \in Nat /\ Ordered(window)
  BY DEF SequencesInv
<1>2. CASE Len(window) = WindowSize
  <2>1. window # <<>>
    BY <1>2, SequencesAssumption
  <2>2. Ordered(Tail(window))
    BY <1>1, <2>1, OneCallLess
  <2>3. Ordered(Append(Tail(window), c))
    BY <1>1, <2>2, OneCallMore
  <2> QED
    BY <1>2, <2>3 DEF Pushed
<1>3. CASE Len(window) # WindowSize
  <2>1. Ordered(Append(window, c))
    BY <1>1, OneCallMore
  <2> QED
    BY <1>3, <2>1 DEF Pushed
<1> QED
  BY <1>2, <1>3

\* What a recorded call does.
LEMMA CallRecorded ==
  ASSUME SequencesInv, Sequenced!RecordCall
  PROVE  /\ Ordered(window') /\ callMinute' = callMinute
         /\ callAlerts' = Sequenced!Alerts(window')
<1>1. PICK tool \in CallTools, server \in CallServers, sent \in SUBSET Data, got \in SUBSET Data :
        LET c == [tool |-> tool, server |-> server, arguments |-> sent,
                  output |-> got, at |-> callMinute]
        IN window' = Pushed(c) /\ callAlerts' = Sequenced!Alerts(Pushed(c))
  BY DEF Sequenced!RecordCall, Pushed
<1> DEFINE c == [tool |-> tool, server |-> server, arguments |-> sent,
                 output |-> got, at |-> callMinute]
<1>2. c \in Called /\ c.at = callMinute
  BY DEF SequencesInv, Called
<1>3. window' = Pushed(c) /\ callAlerts' = Sequenced!Alerts(Pushed(c))
  BY <1>1
<1> HIDE DEF c
<1>4. Ordered(Pushed(c))
  BY <1>2, PushedOrdered
<1>5. callMinute' = callMinute
  BY DEF Sequenced!RecordCall
<1> QED
  BY <1>3, <1>4, <1>5

LEMMA SequencesStep ==
  ASSUME SequencesInv, [Sequenced!Next]_sequences
  PROVE  SequencesInv'
<1>1. CASE UNCHANGED sequences
  BY <1>1 DEF sequences, SequencesInv, Ordered
<1>2. CASE Sequenced!RecordCall
  <2>1. Ordered(window') /\ callMinute' = callMinute
    BY <1>2, CallRecorded
  <2> QED
    BY <2>1 DEF SequencesInv, Ordered
<1>3. CASE Sequenced!ClearWindow
  BY <1>3 DEF Sequenced!ClearWindow, SequencesInv, Ordered
<1>4. CASE Sequenced!PassMinute
  <2>1. callMinute' = callMinute + 1 /\ window' = window /\ callMinute \in Nat /\ Ordered(window)
    BY <1>4 DEF Sequenced!PassMinute, SequencesInv
  <2>2. \A i \in 1..Len(window) : window[i].at \in Nat
    BY <2>1, TimesAreNumbers DEF Ordered
  <2>3. \A i \in 1..Len(window) : window[i].at <= callMinute + 1
    BY <2>1, <2>2 DEF Ordered
  <2> QED
    BY <2>1, <2>3 DEF SequencesInv, Ordered
<1> QED
  BY <1>1, <1>2, <1>3, <1>4 DEF Sequenced!Next

LEMMA SequencesInit == Init => SequencesInv
  BY DEF Init, Sequenced!Init, SequencesInv, Ordered

LEMMA LeastElement ==
  ASSUME NEW S \in SUBSET Nat, S # {}
  PROVE  \E m \in S : \A x \in S : m <= x
<1>1. PICK m \in S : \A x \in S : ~(<<x, m>> \in OpToRel(<, Nat))
  BY WFMin, NatLessThanWellFounded
<1>2. ASSUME NEW x \in S
      PROVE  m <= x
  <2>1. ~(x < m)
    BY <1>1 DEF OpToRel
  <2> QED
    BY <2>1
<1> QED
  BY <1>2

LEMMA LeastIs ==
  ASSUME NEW S \in SUBSET Nat, S # {}
  PROVE  Sequenced!Least(S) \in S /\ \A x \in S : Sequenced!Least(S) <= x
  BY LeastElement DEF Sequenced!Least

\* What _match_sequence finds among the calls at some positions: nothing, unless
\* two of them are of the two patterns in this order, and else the first two.
LEMMA MatchIs ==
  ASSUME NEW rule, NEW w, NEW P \in SUBSET Nat
  PROVE  LET match == Sequenced!MatchSequence(rule, w, P)
         IN \/ /\ match = <<>>
               /\ \A i, j \in P : ~(/\ i < j /\ Sequenced!Matches(w[i], rule.first)
                                    /\ Sequenced!Matches(w[j], rule.second))
            \/ \E i, j \in P :
                  /\ match = <<w[i], w[j]>> /\ i < j
                  /\ Sequenced!Matches(w[i], rule.first)
                  /\ Sequenced!Matches(w[j], rule.second)
                  /\ \A k \in P : Sequenced!Matches(w[k], rule.first) => i <= k
                  /\ \A k \in P : Sequenced!Matches(w[k], rule.second) /\ i < k => j <= k
<1> DEFINE first == {i \in P : Sequenced!Matches(w[i], rule.first)}
           behind == {j \in P : Sequenced!Matches(w[j], rule.second) /\ \E i \in first : i < j}
           a == Sequenced!Least(first)
           b == Sequenced!Least(behind)
<1>1. Sequenced!MatchSequence(rule, w, P) = IF behind = {} THEN <<>> ELSE <<w[a], w[b]>>
  BY DEF Sequenced!MatchSequence
<1>2. CASE behind = {}
  BY <1>1, <1>2
<1>3. CASE behind # {}
  <2>1. first # {} /\ first \in SUBSET Nat /\ behind \in SUBSET Nat
    BY <1>3
  <2> HIDE DEF a, b
  <2>2. a \in first /\ \A x \in first : a <= x
    <3> HIDE DEF first
    <3> QED
      BY <2>1, LeastIs DEF a
  <2>3. b \in behind /\ \A x \in behind : b <= x
    <3> HIDE DEF behind
    <3> QED
      BY <1>3, <2>1, LeastIs DEF b
  <2>4. PICK i \in first : i < b
    BY <2>3
  <2>5. a \in P /\ b \in P /\ a < b
    BY <2>1, <2>2, <2>3, <2>4
  <2>6. Sequenced!MatchSequence(rule, w, P) = <<w[a], w[b]>>
    BY <1>1, <1>3
  <2>7. \A k \in P : Sequenced!Matches(w[k], rule.second) /\ a < k => b <= k
    BY <2>2, <2>3
  <2> QED
    BY <2>2, <2>3, <2>5, <2>6, <2>7
<1> QED
  BY <1>2, <1>3

RuleName == {"read_then_exfil", "credential_harvest", "recon_then_exploit", "shadow_pivot"}

LEMMA RulesAre ==
  /\ DOMAIN Sequenced!Rules = RuleName
  /\ \A name \in RuleName : Sequenced!Rules[name].minutes \in Nat
  /\ Sequenced!Rules["read_then_exfil"].second = Sequenced!Sends
  /\ Sequenced!Rules["shadow_pivot"].first = {} /\ Sequenced!Rules["shadow_pivot"].second = {}
  /\ Sequenced!Rules["shadow_pivot"].minutes = 1
  BY DEF RuleName, Sequenced!Rules, Sequenced!Rule

\* The calls of a rule's time are the end of the window.
LEMMA RecentIsTheEnd ==
  ASSUME callMinute \in Nat, NEW w, Ordered(w), NEW name \in RuleName
  PROVE  /\ Sequenced!Recent(name, w) \in SUBSET Nat
         /\ Sequenced!Recent(name, w) \subseteq 1..Len(w)
         /\ \A i \in Sequenced!Recent(name, w) : \A j \in 1..Len(w) :
              i < j => j \in Sequenced!Recent(name, w)
<1> DEFINE R == Sequenced!Recent(name, w)
           d == Sequenced!Rules[name].minutes
<1>1. d \in Nat
  BY RulesAre
<1> HIDE DEF d
<1>2. R = {i \in 1..Len(w) : callMinute - w[i].at <= d}
  BY DEF Sequenced!Recent, d
<1> HIDE DEF R
<1>3. w \in Seq(Called) /\ Len(w) \in Nat
  BY DEF Ordered
<1>4. ASSUME NEW i \in R, NEW j \in 1..Len(w), i < j
      PROVE  j \in R
  <2>1. i \in 1..Len(w) /\ callMinute - w[i].at <= d
    BY <1>2
  <2>2. w[i].at \in Nat /\ w[j].at \in Nat /\ w[i].at <= w[j].at
    BY <1>3, <1>4, <2>1, TimesAreNumbers DEF Ordered
  <2>3. callMinute - w[j].at <= d
    BY <1>1, <2>1, <2>2
  <2> QED
    BY <1>2, <2>3
<1> QED
  BY <1>2, <1>3, <1>4 DEF R

\* When a rule without a condition alerts.
LEMMA PairsFound ==
  ASSUME callMinute \in Nat, NEW w, Ordered(w),
         NEW name \in {"credential_harvest", "recon_then_exploit"}
  PROVE  name \in Sequenced!Alerts(w) <=>
           \E i, j \in 1..Len(w) :
              /\ i < j
              /\ Sequenced!Matches(w[i], Sequenced!Rules[name].first)
              /\ Sequenced!Matches(w[j], Sequenced!Rules[name].second)
              /\ callMinute - w[i].at <= Sequenced!Rules[name].minutes
<1> DEFINE R == Sequenced!Recent(name, w)
           rule == Sequenced!Rules[name]
           match == Sequenced!MatchSequence(rule, w, R)
<1>1. name \in RuleName
  BY DEF RuleName
<1>2. /\ R \in SUBSET Nat /\ R \subseteq 1..Len(w)
      /\ \A i \in R : \A j \in 1..Len(w) : i < j => j \in R
  BY <1>1, RecentIsTheEnd
<1>3. name \in Sequenced!Alerts(w) <=> match # <<>>
  <2>1. \A m : Sequenced!Condition(name, m)
    BY DEF Sequenced!Condition
  <2> QED
    BY <1>1, <2>1, RulesAre DEF Sequenced!Alerts
<1>4. R = {i \in 1..Len(w) : callMinute - w[i].at <= rule.minutes}
  BY DEF Sequenced!Recent
<1> HIDE DEF R, rule
<1>5. \/ /\ match = <<>>
         /\ \A i, j \in R : ~(/\ i < j /\ Sequenced!Matches(w[i], rule.first)
                              /\ Sequenced!Matches(w[j], rule.second))
      \/ \E i, j \in R :
            /\ match = <<w[i], w[j]>> /\ i < j
            /\ Sequenced!Matches(w[i], rule.first)
            /\ Sequenced!Matches(w[j], rule.second)
  BY <1>2, MatchIs
<1> HIDE DEF match
<1>6. match # <<>> <=> \E i, j \in R : /\ i < j
                                     /\ Sequenced!Matches(w[i], rule.first)
                                     /\ Sequenced!Matches(w[j], rule.second)
  <2>1. \A x, y : <<x, y>> # <<>>
    OBVIOUS
  <2> QED
    BY <1>5, <2>1, Zenon
<1>7. (\E i, j \in R : /\ i < j
                       /\ Sequenced!Matches(w[i], rule.first)
                       /\ Sequenced!Matches(w[j], rule.second))
      <=> \E i, j \in 1..Len(w) : /\ i < j
                                  /\ Sequenced!Matches(w[i], rule.first)
                                  /\ Sequenced!Matches(w[j], rule.second)
                                  /\ callMinute - w[i].at <= rule.minutes
  BY <1>2, <1>4
<1> QED
  BY <1>3, <1>6, <1>7 DEF rule, match, R

LEMMA SameCardinality == \A S : Sequenced!Cardinality(S) = Cardinality(S)
  BY DEF Sequenced!Cardinality, Cardinality

\* When read_then_exfil alerts, an output is in the arguments of a later call
\* or of the same one.
LEMMA DataFlowed ==
  ASSUME NEW w, NEW i \in Nat, NEW j \in Nat, i < j, Sequenced!DataFlows(<<w[i], w[j]>>)
  PROVE  \E k \in {i, j} : w[k].output # {} /\ w[k].output \subseteq w[j].arguments
<1> DEFINE m == <<w[i], w[j]>>
<1>1. Len(m) = 2 /\ m[1] = w[i] /\ m[2] = w[j]
  OBVIOUS
<1>0. Sequenced!DataFlows(m)
  OBVIOUS
<1> HIDE DEF m
<1>6. \E x, y \in 1..Len(m) :
        /\ m[x].tool \cap {"send", "email", "post", "upload"} # {}
        /\ m[y].output # {}
        /\ Sequenced!Cardinality({z \in 1..y : m[z].output # {}}) < x
        /\ m[y].output \subseteq m[x].arguments
  BY <1>0 DEF Sequenced!DataFlows
<1>2. PICK x \in 1..Len(m), y \in 1..Len(m) :
        /\ m[x].tool \cap {"send", "email", "post", "upload"} # {}
        /\ m[y].output # {}
        /\ Sequenced!Cardinality({z \in 1..y : m[z].output # {}}) < x
        /\ m[y].output \subseteq m[x].arguments
  BY <1>6
<1>5. x \in 1..2 /\ y \in 1..2
  BY <1>1
<1>3. x = 2
  <2> DEFINE S == {z \in 1..y : m[z].output # {}}
  <2>0. IsFiniteSet(1..y)
    BY <1>5, FS_Interval
  <2>1. S \in SUBSET (1..y) /\ y \in S
    BY <1>2, <1>5
  <2>2. IsFiniteSet(S)
    BY <2>0, <2>1, FS_Subset
  <2> HIDE DEF S
  <2>3. Cardinality(S) \in Nat /\ Cardinality(S) # 0
    BY <2>1, <2>2, FS_CardinalityType, FS_EmptySet
  <2>4. Cardinality(S) < x
    BY <1>2, SameCardinality DEF S
  <2> QED
    BY <1>5, <2>3, <2>4
<1>4. \E k \in {i, j} : m[y] = w[k]
  BY <1>1, <1>5
<1> QED
  BY <1>1, <1>2, <1>3, <1>4

LEMMA ExfilFound ==
  ASSUME callMinute \in Nat, NEW w, Ordered(w), "read_then_exfil" \in Sequenced!Alerts(w)
  PROVE  \E i, j \in 1..Len(w) :
            /\ i <= j
            /\ w[i].output # {}
            /\ w[i].output \subseteq w[j].arguments
            /\ w[j].tool \cap Sequenced!Sends # {}
<1> DEFINE name == "read_then_exfil"
           R == Sequenced!Recent(name, w)
           rule == Sequenced!Rules[name]
           match == Sequenced!MatchSequence(rule, w, R)
<1>1. name \in RuleName
  BY DEF RuleName
<1>2. R \in SUBSET Nat /\ R \subseteq 1..Len(w)
  BY <1>1, RecentIsTheEnd
<1>3. match # <<>> /\ Sequenced!DataFlows(match)
  BY DEF Sequenced!Alerts, Sequenced!Condition
<1>4. rule.second = Sequenced!Sends
  BY RulesAre
<1> HIDE DEF R, rule
<1>5. PICK i \in R, j \in R :
        match = <<w[i], w[j]>> /\ i < j /\ Sequenced!Matches(w[j], rule.second)
  BY <1>2, <1>3, MatchIs
<1> HIDE DEF match
<1>6. w[j].tool \cap Sequenced!Sends # {}
  BY <1>4, <1>5 DEF Sequenced!Matches, Sequenced!Sends
<1>7. i \in Nat /\ j \in Nat /\ Sequenced!DataFlows(<<w[i], w[j]>>)
  BY <1>2, <1>3, <1>5
<1>8. PICK k \in {i, j} : w[k].output # {} /\ w[k].output \subseteq w[j].arguments
  BY <1>5, <1>7, DataFlowed
<1>9. k \in 1..Len(w) /\ j \in 1..Len(w) /\ k <= j
  BY <1>2, <1>5, <1>7
<1> QED
  BY <1>6, <1>8, <1>9

\* shadow_pivot looks at the first two calls of the last minute.
LEMMA PivotFound ==
  ASSUME callMinute \in Nat, NEW w, Ordered(w)
  PROVE  LET latest == {i \in 1..Len(w) : callMinute - w[i].at <= 1}
             from == CHOOSE i \in latest : \A j \in latest : i <= j
         IN "shadow_pivot" \in Sequenced!Alerts(w) <=>
               /\ Sequenced!Cardinality(latest) >= 2
               /\ w[from].server # w[from + 1].server
               /\ w[from + 1].server # ""
<1> DEFINE name == "shadow_pivot"
           latest == {i \in 1..Len(w) : callMinute - w[i].at <= 1}
           from == CHOOSE i \in latest : \A j \in latest : i <= j
           R == Sequenced!Recent(name, w)
           rule == Sequenced!Rules[name]
           match == Sequenced!MatchSequence(rule, w, R)
           apart == w[from].server # w[from + 1].server /\ w[from + 1].server # ""
<1>1. name \in RuleName
  BY DEF RuleName
<1>2. rule.first = {} /\ rule.second = {} /\ rule.minutes = 1
  BY RulesAre
<1>3. R = latest
  BY <1>2 DEF Sequenced!Recent
<1>4. /\ R \in SUBSET Nat /\ R \subseteq 1..Len(w)
      /\ \A i \in R : \A j \in 1..Len(w) : i < j => j \in R
  BY <1>1, RecentIsTheEnd
<1>5. from = Sequenced!Least(latest)
  BY DEF Sequenced!Least
<1>6. name \in Sequenced!Alerts(w) <=> match # <<>> /\ Sequenced!Condition(name, match)
  BY <1>1, RulesAre DEF Sequenced!Alerts
<1> HIDE DEF R, rule, from
<1>7. \A c : Sequenced!Matches(c, rule.first) /\ Sequenced!Matches(c, rule.second)
  BY <1>2 DEF Sequenced!Matches
<1>8. \/ match = <<>> /\ \A i, j \in R : ~(i < j)
      \/ \E i, j \in R : /\ match = <<w[i], w[j]>> /\ i < j
                         /\ \A k \in R : i <= k
                         /\ \A k \in R : i < k => j <= k
  <2>1. \/ /\ match = <<>>
           /\ \A i, j \in R : ~(/\ i < j /\ Sequenced!Matches(w[i], rule.first)
                                /\ Sequenced!Matches(w[j], rule.second))
        \/ \E i, j \in R :
              /\ match = <<w[i], w[j]>> /\ i < j
              /\ Sequenced!Matches(w[i], rule.first)
              /\ Sequenced!Matches(w[j], rule.second)
              /\ \A k \in R : Sequenced!Matches(w[k], rule.first) => i <= k
              /\ \A k \in R : Sequenced!Matches(w[k], rule.second) /\ i < k => j <= k
    BY <1>4, MatchIs
  <2> HIDE DEF match
  <2> QED
    BY <1>7, <2>1
<1> HIDE DEF match, latest
<1>9. IsFiniteSet(R)
  <2>1. Len(w) \in Nat
    BY DEF Ordered
  <2>2. IsFiniteSet(1..Len(w))
    BY <2>1, FS_Interval
  <2> QED
    BY <1>4, <2>2, FS_Subset
<1>10. ASSUME match = <<>>, \A i, j \in R : ~(i < j)
       PROVE  ~(name \in Sequenced!Alerts(w)) /\ ~(Cardinality(latest) >= 2)
  <2>1. Cardinality(R) <= 1
    <3>1. CASE R = {}
      BY <3>1, FS_EmptySet
    <3>2. CASE R # {}
      <4>1. PICK i \in R : TRUE
        BY <3>2
      <4>2. R = {i}
        <5> SUFFICES ASSUME NEW j \in R
                     PROVE  j = i
          BY <4>1
        <5>1. i \in Nat /\ j \in Nat /\ ~(i < j) /\ ~(j < i)
          BY <1>4, <1>10
        <5> QED
          BY <5>1
      <4> QED
        BY <4>2, FS_Singleton
    <3> QED
      BY <3>1, <3>2
  <2>2. Cardinality(R) \in Nat
    BY <1>9, FS_CardinalityType
  <2>3. ~(Cardinality(latest) >= 2)
    BY <1>3, <2>1, <2>2
  <2> QED
    BY <1>6, <1>10, <2>3
<1>11. ASSUME NEW i \in R, NEW j \in R, match = <<w[i], w[j]>>, i < j,
              \A k \in R : i <= k, \A k \in R : i < k => j <= k
       PROVE  name \in Sequenced!Alerts(w) <=> Cardinality(latest) >= 2 /\ apart
  <2>1. from = i
    <3>1. from \in R /\ \A x \in R : from <= x
      BY <1>3, <1>4, <1>5, LeastIs
    <3> QED
      BY <1>4, <1>11, <3>1
  <2>2. j = i + 1
    <3>1. i \in 1..Len(w) /\ j \in 1..Len(w) /\ Len(w) \in Nat
      BY <1>4 DEF Ordered
    <3>2. i + 1 \in 1..Len(w) /\ i < i + 1
      BY <1>11, <3>1
    <3>3. i + 1 \in R
      BY <1>4, <3>2
    <3>4. j <= i + 1
      BY <1>11, <3>2, <3>3
    <3> QED
      BY <1>11, <3>1, <3>4
  <2>3. Cardinality(R) >= 2
    <3>1. IsFiniteSet({i, j}) /\ Cardinality({i, j}) = 2
      <4>1. i # j
        BY <1>4, <1>11
      <4>2. /\ IsFiniteSet({i}) /\ Cardinality({i}) = 1 /\ j \notin {i}
        BY <4>1, FS_Singleton
      <4>3. IsFiniteSet({i} \cup {j}) /\ Cardinality({i} \cup {j}) = Cardinality({i}) + 1
        BY <4>2, FS_AddElement
      <4>4. {i} \cup {j} = {i, j}
        OBVIOUS
      <4> QED
        BY <4>2, <4>3, <4>4
    <3>2. {i, j} \subseteq R
      OBVIOUS
    <3>3. Cardinality({i, j}) <= Cardinality(R)
      BY <1>9, <3>2, FS_Subset
    <3>4. Cardinality(R) \in Nat
      BY <1>9, FS_CardinalityType
    <3> QED
      BY <3>1, <3>3, <3>4
  <2>4. match # <<>> /\ match[1] = w[from] /\ match[2] = w[from + 1]
    BY <1>11, <2>1, <2>2
  <2>5. Sequenced!Condition(name, match) <=> apart
    BY <2>4 DEF Sequenced!Condition
  <2>6. Cardinality(latest) >= 2
    BY <1>3, <2>3
  <2> HIDE DEF apart
  <2> QED
    BY <1>6, <2>4, <2>5, <2>6
<1>12. name \in Sequenced!Alerts(w) <=> Sequenced!Cardinality(latest) >= 2 /\ apart
  <2>0. Sequenced!Cardinality(latest) = Cardinality(latest)
    BY SameCardinality
  <2>1. CASE match = <<>> /\ \A i, j \in R : ~(i < j)
    <3>1. ~(name \in Sequenced!Alerts(w)) /\ ~(Cardinality(latest) >= 2)
      BY <1>10, <2>1
    <3> QED
      BY <2>0, <3>1
  <2>2. CASE \E i, j \in R : /\ match = <<w[i], w[j]>> /\ i < j
                             /\ \A k \in R : i <= k
                             /\ \A k \in R : i < k => j <= k
    <3>1. PICK i \in R, j \in R : /\ match = <<w[i], w[j]>> /\ i < j
                                  /\ \A k \in R : i <= k
                                  /\ \A k \in R : i < k => j <= k
      BY <2>2
    <3>2. name \in Sequenced!Alerts(w) <=> Cardinality(latest) >= 2 /\ apart
      BY <1>11, <3>1
    <3> HIDE DEF apart
    <3> QED
      BY <2>0, <3>2
  <2> QED
    BY <1>8, <2>1, <2>2
<1> QED
  BY <1>12 DEF from, latest

\* A step that records a call.
LEMMA SequencesMove ==
  ASSUME SequencesInv, [Sequenced!Next]_sequences, calls' # calls
  PROVE  /\ callMinute \in Nat /\ callMinute' = callMinute /\ Ordered(window')
         /\ callAlerts' = Sequenced!Alerts(window')
<1>1. Sequenced!RecordCall
  BY DEF Sequenced!Next, sequences, Sequenced!ClearWindow, Sequenced!PassMinute
<1> QED
  BY <1>1, CallRecorded DEF SequencesInv

\* The rules over sequences of calls alert as they should, for any tools,
\* servers, data and size of the window: credential_harvest and
\* recon_then_exploit exactly for a fresh pair of calls in order,
\* read_then_exfil only for data that flowed into a sending call, shadow_pivot
\* exactly for the two oldest calls of its minute (_evaluate_rules,
\* _match_sequence, _data_read_then_exfil).
THEOREM PartsSequences == Spec => SequencesHold
<1> DEFINE Found == calls' # calls =>
             \A name \in {"credential_harvest", "recon_then_exploit"} :
                name \in callAlerts' <=> Sequenced!Pairs(name)' # {}
           Carried == calls' # calls /\ "read_then_exfil" \in callAlerts' =>
             \E i, j \in 1..Len(window') :
                /\ i <= j
                /\ window'[i].output # {}
                /\ window'[i].output \subseteq window'[j].arguments
                /\ window'[j].tool \cap Sequenced!Sends # {}
           Oldest == calls' # calls =>
             LET latest == {i \in 1..Len(window') : callMinute - window'[i].at <= 1}
                 from == CHOOSE i \in latest : \A j \in latest : i <= j
             IN "shadow_pivot" \in callAlerts' <=>
                   /\ Sequenced!Cardinality(latest) >= 2
                   /\ window'[from].server # window'[from + 1].server
                   /\ window'[from + 1].server # ""
<1>1. SequencesInv /\ [Next]_vars => SequencesInv'
  BY PartsStep, SequencesStep
<1>2. ASSUME SequencesInv, [Next]_vars, calls' # calls
      PROVE  \A name \in {"credential_harvest", "recon_then_exploit"} :
                name \in callAlerts' <=> Sequenced!Pairs(name)' # {}
  <2> SUFFICES ASSUME NEW name \in {"credential_harvest", "recon_then_exploit"}
               PROVE  name \in callAlerts' <=> Sequenced!Pairs(name)' # {}
    OBVIOUS
  <2>1. /\ callMinute \in Nat /\ callMinute' = callMinute /\ Ordered(window')
        /\ callAlerts' = Sequenced!Alerts(window')
    BY <1>2, PartsStep, SequencesMove
  <2> DEFINE w == window'
             meets(i, j) == /\ i < j
                            /\ Sequenced!Matches(w[i], Sequenced!Rules[name].first)
                            /\ Sequenced!Matches(w[j], Sequenced!Rules[name].second)
                            /\ callMinute - w[i].at <= Sequenced!Rules[name].minutes
  <2>2. Sequenced!Pairs(name)' # {} <=> \E i, j \in 1..Len(w) : meets(i, j)
    <3>1. Sequenced!Pairs(name)'
            = {pair \in (1..Len(w)) \X (1..Len(w)) : meets(pair[1], pair[2])}
      BY <2>1 DEF Sequenced!Pairs
    <3> HIDE DEF meets, w
    <3>2. ASSUME NEW i \in 1..Len(w), NEW j \in 1..Len(w), meets(i, j)
          PROVE  Sequenced!Pairs(name)' # {}
      <4>1. <<i, j>> \in (1..Len(w)) \X (1..Len(w)) /\ <<i, j>>[1] = i /\ <<i, j>>[2] = j
        OBVIOUS
      <4>2. <<i, j>> \in Sequenced!Pairs(name)'
        BY <3>1, <3>2, <4>1
      <4> QED
        BY <4>2
    <3>3. ASSUME NEW pair \in Sequenced!Pairs(name)'
          PROVE  \E i, j \in 1..Len(w) : meets(i, j)
      <4>1. /\ pair \in (1..Len(w)) \X (1..Len(w))
            /\ meets(pair[1], pair[2])
        BY <3>1
      <4>2. pair[1] \in 1..Len(w) /\ pair[2] \in 1..Len(w)
        BY <4>1
      <4> QED
        BY <4>1, <4>2
    <3> QED
      BY <3>2, <3>3
  <2>3. name \in Sequenced!Alerts(w) <=> \E i, j \in 1..Len(w) : meets(i, j)
    <3>1. Ordered(w)
      BY <2>1
    <3> HIDE DEF w
    <3> QED
      BY <2>1, <3>1, PairsFound
  <2> QED
    BY <2>1, <2>2, <2>3
<1>3. ASSUME SequencesInv, [Next]_vars, calls' # calls, "read_then_exfil" \in callAlerts'
      PROVE  \E i, j \in 1..Len(window') :
                /\ i <= j
                /\ window'[i].output # {}
                /\ window'[i].output \subseteq window'[j].arguments
                /\ window'[j].tool \cap Sequenced!Sends # {}
  <2>1. callMinute \in Nat /\ Ordered(window') /\ "read_then_exfil" \in Sequenced!Alerts(window')
    BY <1>3, PartsStep, SequencesMove
  <2> QED
    BY <2>1, ExfilFound
<1>4. ASSUME SequencesInv, [Next]_vars, calls' # calls
      PROVE  LET latest == {i \in 1..Len(window') : callMinute - window'[i].at <= 1}
                 from == CHOOSE i \in latest : \A j \in latest : i <= j
             IN "shadow_pivot" \in callAlerts' <=>
                   /\ Sequenced!Cardinality(latest) >= 2
                   /\ window'[from].server # window'[from + 1].server
                   /\ window'[from + 1].server # ""
  <2>1. callMinute \in Nat /\ Ordered(window') /\ callAlerts' = Sequenced!Alerts(window')
    BY <1>4, PartsStep, SequencesMove
  <2>2. PICK w : w = window'
    OBVIOUS
  <2>3. Ordered(w)
    BY <2>1, <2>2
  <2>4. LET latest == {i \in 1..Len(w) : callMinute - w[i].at <= 1}
            from == CHOOSE i \in latest : \A j \in latest : i <= j
        IN "shadow_pivot" \in Sequenced!Alerts(w) <=>
              /\ Sequenced!Cardinality(latest) >= 2
              /\ w[from].server # w[from + 1].server
              /\ w[from + 1].server # ""
    BY <2>1, <2>3, PivotFound
  <2> QED
    BY <2>1, <2>2, <2>4
<1>5. SequencesInv /\ [Next]_vars => [Found]_sequences
  BY <1>2
<1>6. SequencesInv /\ [Next]_vars => [Carried]_sequences
  BY <1>3
<1>7. SequencesInv /\ [Next]_vars => [Oldest]_sequences
  BY <1>4
<1> QED
  BY SequencesInit, <1>1, <1>5, <1>6, <1>7, PTL
     DEF Spec, SequencesHold, Sequenced!PairsAreFound, Sequenced!ExfilCarriesData,
         Sequenced!PivotIsOfTheOldestTwo, Sequenced!vars, sequences

-----------------------------------------------------------------------------
(* JSON-RPC messages. The nesting is a forest given by parents; the walk takes *)
(* a container off the stack once its parent was visited, so what it has not   *)
(* visited yet is below something on the stack.                                *)

\* The parents of the containers of a message; the first one is the message.
Tree(p) ==
  /\ p \in Seq(Nat) /\ Len(p) >= 1
  /\ \A i \in 1..Len(p) : p[i] < i /\ (i > 1 => p[i] >= 1)

DepthIn(p, c) == LET d[i \in DOMAIN p] == IF i = 1 THEN 1 ELSE d[p[i]] + 1 IN d[c]

LEMMA DepthIsDepthIn == \A c : Messages!Depth(c) = DepthIn(parent, c)
  BY DEF Messages!Depth, DepthIn

\* The recursive definition of depth has a value: if there were a first
\* container at which it had none, its parent would have one.
LEMMA DepthExists ==
  ASSUME NEW p, Tree(p)
  PROVE  \E d : d = [i \in DOMAIN p |-> IF i = 1 THEN 1 ELSE d[p[i]] + 1]
<1> DEFINE n == Len(p)
           Good(d, m) == /\ d \in [1..m -> Nat]
                         /\ \A i \in 1..m : d[i] = IF i = 1 THEN 1 ELSE d[p[i]] + 1
           Bad == {m \in 0..n : ~ \E d : Good(d, m)}
<1>1. n \in Nat /\ DOMAIN p = 1..n /\ p \in [1..n -> Nat]
  BY DEF Tree
<1>2. Bad = {}
  <2> SUFFICES ASSUME Bad # {} PROVE FALSE
    OBVIOUS
  <2>1. PICK m \in Bad : \A x \in Bad : m <= x
    <3>1. Bad \in SUBSET Nat
      BY <1>1
    <3> HIDE DEF Bad
    <3> QED
      BY <3>1, LeastElement
  <2>2. m \in 0..n /\ ~ \E d : Good(d, m)
    OBVIOUS
  <2>3. m # 0
    <3>1. Good([i \in 1..0 |-> 0], 0)
      OBVIOUS
    <3> QED
      BY <2>2, <3>1
  <2>4. m - 1 \in 0..n /\ m - 1 \notin Bad
    <3>1. m - 1 \in 0..n /\ ~(m <= m - 1)
      BY <1>1, <2>2, <2>3
    <3> HIDE DEF Bad
    <3> QED
      BY <2>1, <3>1
  <2>5. PICK d : Good(d, m - 1)
    BY <2>4
  <2>6. m \in 1..n /\ m \in Nat
    BY <1>1, <2>2, <2>3
  <2>7. p[m] \in Nat /\ p[m] < m /\ (m > 1 => p[m] \in 1..(m - 1))
    BY <1>1, <2>6 DEF Tree
  <2> DEFINE e == [i \in 1..m |-> IF i < m THEN d[i] ELSE IF m = 1 THEN 1 ELSE d[p[m]] + 1]
  <2>8. \A i \in 1..(m - 1) : d[i] \in Nat /\ d[i] = IF i = 1 THEN 1 ELSE d[p[i]] + 1
    BY <2>5
  <2> HIDE DEF Good
  <2>9. e \in [1..m -> Nat]
    <3> SUFFICES ASSUME NEW i \in 1..m
                 PROVE  (IF i < m THEN d[i] ELSE IF m = 1 THEN 1 ELSE d[p[m]] + 1) \in Nat
      OBVIOUS
    <3>1. CASE i < m
      BY <2>6, <2>8, <3>1
    <3>2. CASE i = m
      BY <2>6, <2>7, <2>8, <3>2
    <3> QED
      BY <2>6, <3>1, <3>2
  <2>10. ASSUME NEW i \in 1..m
         PROVE  e[i] = IF i = 1 THEN 1 ELSE e[p[i]] + 1
    <3>1. CASE i = 1
      <4>1. 1 \in 1..(m - 1) \/ m = 1
        BY <2>6
      <4> QED
        BY <2>6, <2>8, <3>1, <4>1
    <3>2. CASE i # 1
      <4>1. i \in 1..n /\ p[i] \in Nat /\ p[i] < i /\ p[i] >= 1
        BY <1>1, <2>6, <3>2 DEF Tree
      <4>2. p[i] \in 1..(m - 1) /\ e[p[i]] = d[p[i]]
        BY <2>6, <4>1
      <4>3. CASE i < m
        BY <2>6, <2>8, <3>2, <4>2, <4>3
      <4>4. CASE i = m
        BY <2>6, <3>2, <4>2, <4>4
      <4> QED
        BY <2>6, <4>3, <4>4
    <3> QED
      BY <3>1, <3>2
  <2>11. Good(e, m)
    BY <2>9, <2>10 DEF Good
  <2> QED
    BY <2>2, <2>11
<1>3. PICK d : Good(d, n)
  <2>1. n \in 0..n
    BY <1>1
  <2>2. \E d : Good(d, n)
    <3> HIDE DEF Good
    <3> QED
      BY <1>2, <2>1
  <2> QED
    BY <2>2
<1>4. d = [i \in DOMAIN p |-> IF i = 1 THEN 1 ELSE d[p[i]] + 1]
  BY <1>1, <1>3
<1> QED
  BY <1>4

\* What the recursion says: one level for the message, one more for each level.
LEMMA DepthIs ==
  ASSUME NEW p, Tree(p)
  PROVE  /\ DepthIn(p, 1) = 1
         /\ \A c \in 1..Len(p) : c > 1 => DepthIn(p, c) = DepthIn(p, p[c]) + 1
         /\ \A c \in 1..Len(p) : DepthIn(p, c) \in Nat
<1> DEFINE d == CHOOSE f : f = [i \in DOMAIN p |-> IF i = 1 THEN 1 ELSE f[p[i]] + 1]
           Bad == {c \in 1..Len(p) : d[c] \notin Nat}
<1>1. d = [i \in DOMAIN p |-> IF i = 1 THEN 1 ELSE d[p[i]] + 1]
  BY DepthExists
<1>2. \A c : DepthIn(p, c) = d[c]
  BY DEF DepthIn
<1>3. Len(p) \in Nat /\ DOMAIN p = 1..Len(p) /\ p \in [1..Len(p) -> Nat]
  BY DEF Tree
<1> HIDE DEF d
<1>4. \A c \in 1..Len(p) : d[c] = IF c = 1 THEN 1 ELSE d[p[c]] + 1
  BY <1>1, <1>3
<1>5. Bad = {}
  <2> SUFFICES ASSUME Bad # {} PROVE FALSE
    OBVIOUS
  <2>1. PICK m \in Bad : \A x \in Bad : m <= x
    <3>1. Bad \in SUBSET Nat
      BY <1>3
    <3> HIDE DEF Bad
    <3> QED
      BY <3>1, LeastElement
  <2>2. m \in 1..Len(p) /\ d[m] \notin Nat
    OBVIOUS
  <2>3. m # 1
    BY <1>4, <2>2
  <2>4. p[m] \in 1..Len(p) /\ p[m] < m
    BY <1>3, <2>2, <2>3 DEF Tree
  <2>5. d[p[m]] \in Nat
    BY <1>3, <2>1, <2>2, <2>4
  <2> QED
    BY <1>4, <2>2, <2>3, <2>5
<1>6. 1 \in 1..Len(p)
  BY <1>3 DEF Tree
<1> QED
  BY <1>2, <1>3, <1>4, <1>5, <1>6

\* The containers of a set in some order, each once.
LEMMA Listed ==
  ASSUME NEW S, IsFiniteSet(S)
  PROVE  LET q == Messages!SetToSeq(S)
             m == Messages!Cardinality(S)
         IN  /\ m \in Nat /\ q \in [1..m -> S]
             /\ \A i, j \in 1..m : q[i] = q[j] => i = j
             /\ \A x \in S : \E i \in 1..m : q[i] = x
<1> DEFINE q == Messages!SetToSeq(S)
           m == Messages!Cardinality(S)
<1>1. m = Cardinality(S)
  BY DEF Messages!Cardinality, Cardinality
<1>2. m \in Nat /\ ExistsBijection(1..m, S)
  BY <1>1, FS_CardinalityType
<1> HIDE DEF m
<1>3. \E f \in [1..m -> S] : Messages!IsInjective(f)
  BY <1>2 DEF ExistsBijection, Bijection, Injection, IsInjective, Messages!IsInjective
<1>4. q \in [1..m -> S] /\ Messages!IsInjective(q)
  BY <1>3 DEF Messages!SetToSeq, m
<1> HIDE DEF q
<1>5. \A i, j \in 1..m : q[i] = q[j] => i = j
  BY <1>4 DEF Messages!IsInjective
<1>6. q \in Injection(1..m, S)
  BY <1>4, <1>5 DEF Injection, IsInjective
<1>7. Cardinality(1..m) = m
  BY <1>2, FS_Interval
<1>8. q \in Surjection(1..m, S)
  BY <1>1, <1>6, <1>7, FS_Injection
<1>9. \A x \in S : \E i \in 1..m : q[i] = x
  BY <1>8 DEF Surjection
<1> QED
  BY <1>2, <1>4, <1>5, <1>9 DEF q, m

Seen(v) == {v[i] : i \in 1..Len(v)}
Waiting(s) == {s[j].node : j \in 1..Len(s)}

\* No container is visited twice, or is on the stack and anywhere else.
Once(v, s) ==
  /\ \A i, j \in 1..Len(v) : v[i] = v[j] => i = j
  /\ \A i, j \in 1..Len(s) : s[i].node = s[j].node => i = j
  /\ Seen(v) \cap Waiting(s) = {}

\* What the walk has reached it reached from a parent it visited, and it knows
\* the depth of what is on the stack.
Walk(p, v, s) ==
  /\ v \in Seq(1..Len(p))
  /\ s \in Seq([node : 1..Len(p), depth : Nat])
  /\ Once(v, s)
  /\ \A c \in Seen(v) \cup Waiting(s) : c = 1 \/ p[c] \in Seen(v)
  /\ \A j \in 1..Len(s) : s[j].depth = DepthIn(p, s[j].node)

\* Nothing below a visited container is forgotten.
Closed(p, v, s) ==
  \A c \in 1..Len(p) : c = 1 \/ p[c] \in Seen(v) => c \in Seen(v) \cup Waiting(s)

LEMMA TakeOne ==
  ASSUME NEW p, Tree(p), NEW v, NEW s, Walk(p, v, s), s # <<>>
  PROVE  LET t == s[Len(s)]
             v2 == Append(v, t.node)
             s2 == SubSeq(s, 1, Len(s) - 1)
         IN  /\ t.node \in 1..Len(p) /\ t.depth = DepthIn(p, t.node)
             /\ t.node \notin Seen(v)
             /\ Seen(v2) = Seen(v) \cup {t.node}
             /\ Waiting(s2) = Waiting(s) \ {t.node}
             /\ Walk(p, v2, s2)
<1> DEFINE t == s[Len(s)]
           v2 == Append(v, t.node)
           s2 == SubSeq(s, 1, Len(s) - 1)
           Item == [node : 1..Len(p), depth : Nat]
<1>1. /\ v \in Seq(1..Len(p)) /\ s \in Seq(Item)
      /\ Len(v) \in Nat /\ Len(s) \in Nat /\ Len(s) >= 1
  BY DEF Walk
<1>2. /\ t \in Item /\ t.node \in 1..Len(p) /\ t.depth = DepthIn(p, t.node)
      /\ t.node \in Waiting(s)
  <2>1. Len(s) \in 1..Len(s)
    BY <1>1
  <2>2. t \in Item
    <3> HIDE DEF Item
    <3> QED
      BY <1>1, <2>1
  <2> QED
    BY <2>1, <2>2 DEF Walk, Waiting
<1>3. t.node \notin Seen(v)
  BY <1>2 DEF Walk, Once
<1> HIDE DEF t
<1>4. /\ v2 \in Seq(1..Len(p)) /\ Len(v2) = Len(v) + 1
      /\ \A i \in 1..Len(v) : v2[i] = v[i]
      /\ v2[Len(v) + 1] = t.node
  BY <1>1, <1>2
<1>5. /\ s2 \in Seq(Item) /\ Len(s2) = Len(s) - 1
      /\ \A j \in 1..(Len(s) - 1) : s2[j] = s[j]
  <2>1. /\ 1 \in Int /\ Len(s) - 1 \in Int
        /\ \A i \in 1..(Len(s) - 1) : i \in 1..Len(s)
    BY <1>1
  <2> HIDE DEF Item
  <2>2. \A i \in 1..(Len(s) - 1) : s[i] \in Item
    BY <1>1, <2>1
  <2> DEFINE n == Len(s) - 1
  <2>3. n \in Int /\ n >= 0
    BY <1>1
  <2> HIDE DEF n
  <2>4. /\ SubSeq(s, 1, n) \in Seq(Item)
        /\ Len(SubSeq(s, 1, n)) = IF 1 <= n THEN n - 1 + 1 ELSE 0
        /\ \A j \in 1..(n - 1 + 1) : SubSeq(s, 1, n)[j] = s[1 + j - 1]
    BY <2>1, <2>2, <2>3, SubSeqProperties DEF n
  <2>5. n - 1 + 1 = n /\ (\A j \in 1..n : 1 + j - 1 = j) /\ (~(1 <= n) => n = 0)
    BY <2>3
  <2>6. Len(SubSeq(s, 1, n)) = n /\ \A j \in 1..n : SubSeq(s, 1, n)[j] = s[j]
    BY <2>4, <2>5
  <2> QED
    BY <2>4, <2>6 DEF n
<1> HIDE DEF v2, s2, Item
<1>6. Seen(v2) = Seen(v) \cup {t.node}
  <2>1. ASSUME NEW x \in Seen(v2) PROVE x \in Seen(v) \cup {t.node}
    <3>1. PICK i \in 1..(Len(v) + 1) : x = v2[i]
      BY <1>4, <2>1 DEF Seen
    <3>2. i \in 1..Len(v) \/ i = Len(v) + 1
      BY <1>1, <3>1
    <3> QED
      BY <1>4, <3>1, <3>2 DEF Seen
  <2>2. ASSUME NEW x \in Seen(v) PROVE x \in Seen(v2)
    <3>1. PICK i \in 1..Len(v) : x = v[i]
      BY <2>2 DEF Seen
    <3>2. i \in 1..Len(v2) /\ v2[i] = x
      BY <1>1, <1>4, <3>1
    <3> QED
      BY <3>2 DEF Seen
  <2>3. t.node \in Seen(v2)
    <3>1. Len(v) + 1 \in 1..Len(v2)
      BY <1>1, <1>4
    <3> QED
      BY <1>4, <3>1 DEF Seen
  <2> QED
    BY <2>1, <2>2, <2>3
<1>7. Waiting(s2) = Waiting(s) \ {t.node}
  <2>1. ASSUME NEW x \in Waiting(s2) PROVE x \in Waiting(s) /\ x # t.node
    <3>1. PICK j \in 1..(Len(s) - 1) : x = s[j].node
      BY <1>5, <2>1 DEF Waiting
    <3>2. j \in 1..Len(s) /\ Len(s) \in 1..Len(s) /\ j # Len(s)
      BY <1>1, <3>1
    <3> QED
      BY <3>1, <3>2 DEF Waiting, Walk, Once, t
  <2>2. ASSUME NEW x \in Waiting(s), x # t.node PROVE x \in Waiting(s2)
    <3>1. PICK j \in 1..Len(s) : x = s[j].node
      BY <2>2 DEF Waiting
    <3>2. j \in 1..(Len(s) - 1)
      BY <1>1, <2>2, <3>1 DEF t
    <3> QED
      BY <1>5, <3>1, <3>2 DEF Waiting
  <2> QED
    BY <2>1, <2>2
<1>8. Once(v2, s2)
  <2>1. ASSUME NEW i \in 1..Len(v2), NEW j \in 1..Len(v2), v2[i] = v2[j] PROVE i = j
    <3>1. ASSUME NEW k \in 1..Len(v2)
          PROVE  \/ k \in 1..Len(v) /\ v2[k] = v[k] /\ v2[k] \in Seen(v)
                 \/ k = Len(v) + 1 /\ v2[k] = t.node
      <4>1. k \in 1..Len(v) \/ k = Len(v) + 1
        BY <1>1, <1>4
      <4> QED
        BY <1>4, <4>1 DEF Seen
    <3>2. \/ i \in 1..Len(v) /\ v2[i] = v[i] /\ v2[i] \in Seen(v)
          \/ i = Len(v) + 1 /\ v2[i] = t.node
      BY <3>1
    <3>3. \/ j \in 1..Len(v) /\ v2[j] = v[j] /\ v2[j] \in Seen(v)
          \/ j = Len(v) + 1 /\ v2[j] = t.node
      BY <3>1
    <3> QED
      BY <1>3, <2>1, <3>2, <3>3 DEF Walk, Once
  <2>2. ASSUME NEW i \in 1..Len(s2), NEW j \in 1..Len(s2), s2[i].node = s2[j].node
        PROVE  i = j
    <3>1. i \in 1..Len(s) /\ j \in 1..Len(s) /\ s2[i] = s[i] /\ s2[j] = s[j]
      BY <1>1, <1>5
    <3> QED
      BY <2>2, <3>1 DEF Walk, Once
  <2>3. Seen(v2) \cap Waiting(s2) = {}
    BY <1>6, <1>7 DEF Walk, Once
  <2> QED
    BY <2>1, <2>2, <2>3 DEF Once
<1>9. \A c \in Seen(v2) \cup Waiting(s2) : c = 1 \/ p[c] \in Seen(v2)
  BY <1>2, <1>6, <1>7 DEF Walk
<1>10. \A j \in 1..Len(s2) : s2[j].depth = DepthIn(p, s2[j].node)
  <2> SUFFICES ASSUME NEW j \in 1..Len(s2) PROVE s2[j].depth = DepthIn(p, s2[j].node)
    OBVIOUS
  <2>1. j \in 1..Len(s) /\ s2[j] = s[j]
    BY <1>1, <1>5
  <2> QED
    BY <2>1 DEF Walk
<1>11. Walk(p, v2, s2)
  BY <1>4, <1>5, <1>8, <1>9, <1>10 DEF Walk, Item
<1> QED
  BY <1>2, <1>3, <1>6, <1>7, <1>11 DEF t, v2, s2

\* The sequence q holds the children K of a visited container c, each once, and
\* none of them was reached before.
Pushable(p, v, s, c, m, K, q) ==
  /\ Walk(p, v, s)
  /\ c \in Seen(v)
  /\ K \in SUBSET (1..Len(p))
  /\ m \in Nat /\ q \in [1..m -> K]
  /\ \A i, j \in 1..m : q[i] = q[j] => i = j
  /\ \A x \in K : \E i \in 1..m : q[i] = x
  /\ \A x \in K : p[x] = c /\ x > 1
  /\ K \cap (Seen(v) \cup Waiting(s)) = {}

LEMMA PushSome ==
  ASSUME NEW p, Tree(p), NEW v, NEW s, NEW c, NEW m, NEW K, NEW q,
         Pushable(p, v, s, c, m, K, q),
         NEW d, d = DepthIn(p, c), d \in Nat
  PROVE  LET s2 == s \o [i \in 1..m |-> [node |-> q[i], depth |-> d + 1]]
         IN  Walk(p, v, s2) /\ Waiting(s2) = Waiting(s) \cup K
<1>0. /\ Walk(p, v, s) /\ c \in Seen(v)
      /\ m \in Nat /\ K \in SUBSET (1..Len(p)) /\ q \in [1..m -> K]
      /\ \A i, j \in 1..m : q[i] = q[j] => i = j
      /\ \A x \in K : \E i \in 1..m : q[i] = x
      /\ \A x \in K : p[x] = c /\ x > 1
      /\ K \cap (Seen(v) \cup Waiting(s)) = {}
  BY DEF Pushable
<1> DEFINE more == [i \in 1..m |-> [node |-> q[i], depth |-> d + 1]]
           s2 == s \o more
           Item == [node : 1..Len(p), depth : Nat]
<1>1. s \in Seq(Item) /\ Len(s) \in Nat
  BY <1>0 DEF Walk
<1>2. \A i \in 1..m : q[i] \in K /\ q[i] \in 1..Len(p)
  BY <1>0
<1>3. more \in Seq(Item) /\ Len(more) = m
  <2>1. \A i \in 1..m : [node |-> q[i], depth |-> d + 1] \in Item
    BY <1>0, <1>2
  <2>2. more \in [1..m -> Item]
    BY <1>0, <2>1
  <2> QED
    BY <1>0, <2>1, IsASeq
<1>4. /\ s2 \in Seq(Item) /\ Len(s2) = Len(s) + m
      /\ \A j \in 1..Len(s) : s2[j] = s[j]
      /\ \A i \in 1..m : s2[Len(s) + i] = [node |-> q[i], depth |-> d + 1]
  <2> HIDE DEF more, Item
  <2>0. m \in Nat
    BY <1>0
  <2>1. /\ s2 \in Seq(Item) /\ Len(s2) = Len(s) + m
        /\ \A j \in 1..Len(s) : s2[j] = s[j]
        /\ \A i \in 1..m : s2[Len(s) + i] = more[i]
    BY <1>1, <1>3, <2>0
  <2> QED
    BY <1>0, <2>1 DEF more
<1> HIDE DEF s2, Item
<1>5. ASSUME NEW j \in 1..Len(s2)
      PROVE  \/ j \in 1..Len(s) /\ s2[j] = s[j]
             \/ \E i \in 1..m : j = Len(s) + i /\ s2[j].node = q[i] /\ s2[j].depth = d + 1
  <2>1. j \in 1..Len(s) \/ (j - Len(s) \in 1..m /\ j = Len(s) + (j - Len(s)))
    BY <1>0, <1>1, <1>4
  <2>2. CASE j \in 1..Len(s)
    BY <1>0, <1>4, <2>2
  <2>3. CASE j - Len(s) \in 1..m /\ j = Len(s) + (j - Len(s))
    <3>1. PICK i \in 1..m : j = Len(s) + i
      BY <1>0, <2>3
    <3>2. s2[j] = [node |-> q[i], depth |-> d + 1]
      BY <1>0, <1>4, <3>1
    <3> QED
      BY <1>0, <3>1, <3>2
  <2> QED
    BY <1>0, <2>1, <2>2, <2>3
<1>6. Waiting(s2) = Waiting(s) \cup K
  <2>1. ASSUME NEW x \in Waiting(s2) PROVE x \in Waiting(s) \cup K
    <3>1. PICK j \in 1..Len(s2) : x = s2[j].node
      BY <1>0, <2>1 DEF Waiting
    <3>2. \/ j \in 1..Len(s) /\ s2[j] = s[j]
          \/ \E i \in 1..m : j = Len(s) + i /\ s2[j].node = q[i] /\ s2[j].depth = d + 1
      BY <1>0, <1>5
    <3> QED
      BY <1>0, <1>2, <3>1, <3>2 DEF Waiting
  <2>2. ASSUME NEW x \in Waiting(s) PROVE x \in Waiting(s2)
    <3>1. PICK j \in 1..Len(s) : x = s[j].node
      BY <1>0, <2>2 DEF Waiting
    <3>2. j \in 1..Len(s2) /\ s2[j] = s[j]
      BY <1>0, <1>1, <1>4
    <3> QED
      BY <1>0, <3>1, <3>2 DEF Waiting
  <2>3. ASSUME NEW x \in K PROVE x \in Waiting(s2)
    <3>1. PICK i \in 1..m : q[i] = x
      BY <1>0, <2>3
    <3>2. Len(s) + i \in 1..Len(s2)
      BY <1>0, <1>1, <1>4, <3>1
    <3>3. s2[Len(s) + i] = [node |-> q[i], depth |-> d + 1]
      BY <1>0, <1>4
    <3>4. s2[Len(s) + i].node = x
      BY <1>0, <3>1, <3>3
    <3> QED
      BY <1>0, <3>2, <3>4 DEF Waiting
  <2> QED
    BY <1>0, <2>1, <2>2, <2>3
<1>7. Once(v, s2)
  <2>1. ASSUME NEW i \in 1..Len(s2), NEW j \in 1..Len(s2), s2[i].node = s2[j].node
        PROVE  i = j
    <3> DEFINE Earlier(x) == x \in 1..Len(s) /\ s2[x].node = s[x].node
               Added(x) == \E k \in 1..m : x = Len(s) + k /\ s2[x].node = q[k]
    <3>1. \A x \in 1..Len(s2) : Earlier(x) \/ Added(x)
      BY <1>5
    <3>2. \A x, k : x \in 1..Len(s) /\ k \in 1..m => s[x].node # q[k]
      BY <1>0, <1>2 DEF Waiting
    <3>3. CASE Earlier(i) /\ Earlier(j)
      BY <1>0, <2>1, <3>3 DEF Walk, Once
    <3>4. CASE Added(i) /\ Added(j)
      BY <1>0, <2>1, <3>4
    <3>5. ~(Earlier(i) /\ Added(j)) /\ ~(Earlier(j) /\ Added(i))
      BY <2>1, <3>2
    <3> HIDE DEF Earlier, Added
    <3> QED
      BY <3>1, <3>3, <3>4, <3>5
  <2>2. Seen(v) \cap Waiting(s2) = {}
    BY <1>0, <1>6 DEF Walk, Once
  <2> QED
    BY <1>0, <2>1, <2>2 DEF Once, Walk
<1>8. \A x \in Seen(v) \cup Waiting(s2) : x = 1 \/ p[x] \in Seen(v)
  BY <1>0, <1>6 DEF Walk
<1>9. \A j \in 1..Len(s2) : s2[j].depth = DepthIn(p, s2[j].node)
  <2> SUFFICES ASSUME NEW j \in 1..Len(s2) PROVE s2[j].depth = DepthIn(p, s2[j].node)
    BY <1>0
  <2>1. CASE j \in 1..Len(s) /\ s2[j] = s[j]
    BY <1>0, <2>1 DEF Walk
  <2>2. CASE \E i \in 1..m : j = Len(s) + i /\ s2[j].node = q[i] /\ s2[j].depth = d + 1
    <3>1. PICK i \in 1..m : s2[j].node = q[i] /\ s2[j].depth = d + 1
      BY <1>0, <2>2
    <3>2. q[i] \in K /\ q[i] \in 1..Len(p) /\ q[i] > 1 /\ p[q[i]] = c
      BY <1>0, <1>2
    <3>3. DepthIn(p, q[i]) = DepthIn(p, p[q[i]]) + 1
      BY <1>0, <3>2, DepthIs
    <3> QED
      BY <1>0, <3>1, <3>2, <3>3
  <2> QED
    BY <1>0, <1>5, <2>1, <2>2
<1>10. Walk(p, v, s2)
  BY <1>0, <1>4, <1>7, <1>8, <1>9 DEF Walk, Item
<1> QED
  BY <1>0, <1>6, <1>10 DEF s2

Accepted == phase \in {"measuring", "measured"} \/ (phase = "done" /\ code = "")

WalkInv ==
  /\ phase \in {"idle", "measuring", "measured", "done"}
  /\ phase = "idle" => visited = <<>> /\ stack = <<>>
  /\ phase = "measured" \/ (phase = "done" /\ code = "") => stack = <<>>
  /\ Accepted => /\ Closed(parent, visited, stack)
                 /\ \A c \in Seen(visited) : DepthIn(parent, c) <= MaxDepth

TooDeepSomewhere == \E c \in 1..Len(parent) : DepthIn(parent, c) > MaxDepth

\* After the first n members of a message the places are those found so far.
ReadSoFar(message, n, places) ==
  /\ message \in Seq(Members)
  /\ n \in 0..Len(message)
  /\ places \in Seq(1..Len(message))
  /\ \A k \in 1..Len(places) : places[k] <= n
  /\ \A i, j \in 1..Len(places) : i < j => places[i] < places[j]
  /\ \A i \in 1..n : message[i] = "tools_call" => \E k \in 1..Len(places) : places[k] = i

ReadInv ==
  /\ batch \in BOOLEAN
  /\ ReadSoFar(members, read, returned)
  /\ code = "" => \A i \in 1..read : members[i] \notin Messages!Malformed
  /\ phase \in {"idle", "measuring"} => read = 0 /\ returned = <<>>
  /\ phase # "done" => code = ""
  /\ phase = "done" /\ code = "" => read = Len(members)
  /\ code # "" => TooDeepSomewhere \/ ~Messages!WellFormed

MessagesInv == Tree(parent) /\ Walk(parent, visited, stack) /\ WalkInv /\ ReadInv

LEMMA EmptyWalk ==
  ASSUME NEW p, Tree(p)
  PROVE  Walk(p, <<>>, <<>>)
<1>1. Seen(<<>>) = {} /\ Waiting(<<>>) = {}
  BY DEF Seen, Waiting
<1> QED
  BY <1>1 DEF Walk, Once

\* The walk begins with the message itself on the stack.
LEMMA StartOfWalk ==
  ASSUME NEW p, Tree(p), NEW s, s = << [node |-> 1, depth |-> 1] >>
  PROVE  /\ Seen(<<>>) = {} /\ Waiting(s) = {1}
         /\ Walk(p, <<>>, s)
<1>1. Len(s) = 1 /\ s[1] = [node |-> 1, depth |-> 1]
  OBVIOUS
<1>2. s[1].node = 1 /\ s[1].depth = 1
  BY <1>1
<1>3. \A j \in 1..Len(s) : j = 1
  BY <1>1
<1>4. Seen(<<>>) = {}
  BY DEF Seen
<1>5. Waiting(s) = {1}
  <2>1. 1 \in 1..Len(s)
    BY <1>1
  <2> QED
    BY <1>2, <1>3, <2>1 DEF Waiting
<1>6. s \in Seq([node : 1..Len(p), depth : Nat])
  <2>1. 1 \in 1..Len(p)
    BY DEF Tree
  <2>2. [node |-> 1, depth |-> 1] \in [node : 1..Len(p), depth : Nat]
    BY <2>1
  <2> QED
    BY <2>2
<1>7. DepthIn(p, 1) = 1
  BY DepthIs
<1>8. Once(<<>>, s)
  <2>1. \A i, j \in 1..Len(s) : s[i].node = s[j].node => i = j
    BY <1>3
  <2> QED
    BY <1>4, <2>1 DEF Once
<1>9. \A j \in 1..Len(s) : s[j].depth = DepthIn(p, s[j].node)
  BY <1>2, <1>3, <1>7
<1>10. \A c \in Seen(<<>>) \cup Waiting(s) : c = 1 \/ p[c] \in Seen(<<>>)
  BY <1>4, <1>5
<1> QED
  BY <1>4, <1>5, <1>6, <1>8, <1>9, <1>10 DEF Walk

LEMMA StartOfReading ==
  ASSUME NEW message \in Seq(Members)
  PROVE  ReadSoFar(message, 0, <<>>)
<1>1. Len(message) \in Nat
  OBVIOUS
<1>2. <<>> \in Seq(1..Len(message)) /\ Len(<<>>) = 0
  BY EmptySeq
<1> QED
  BY <1>1, <1>2 DEF ReadSoFar

LEMMA MessagesInit == Init => MessagesInv
<1> SUFFICES ASSUME Init PROVE MessagesInv
  OBVIOUS
<1>1. /\ parent = <<0>> /\ members = <<>> /\ batch = FALSE /\ stack = <<>> /\ visited = <<>>
      /\ phase = "idle" /\ read = 0 /\ code = "" /\ returned = <<>>
  BY DEF Init, Messages!Init
<1>2. Tree(parent)
  <2>1. Tree(<<0>>)
    BY DEF Tree
  <2> QED
    BY <1>1, <2>1
<1>3. Walk(parent, visited, stack)
  BY <1>1, <1>2, EmptyWalk
<1>4. WalkInv
  BY <1>1 DEF WalkInv, Accepted
<1>5. ReadInv
  <2>1. members \in Seq(Members)
    BY <1>1, EmptySeq
  <2>2. ReadSoFar(members, 0, <<>>) /\ Len(members) = 0
    BY <1>1, <2>1, StartOfReading
  <2>3. \A i \in 1..read : members[i] \notin Messages!Malformed
    <3>1. read = 0
      BY <1>1
    <3> QED
      BY <3>1
  <2>4. read = Len(members) /\ batch \in BOOLEAN /\ phase = "idle" /\ code = ""
    BY <1>1, <2>2
  <2>5. read = 0 /\ returned = <<>>
    BY <1>1
  <2>6. ReadSoFar(members, read, returned)
    BY <2>2, <2>5
  <2> QED
    BY <2>3, <2>4, <2>5, <2>6 DEF ReadInv
<1> QED
  BY <1>2, <1>3, <1>4, <1>5 DEF MessagesInv

LEMMA ReceiveStep ==
  ASSUME MessagesInv, Messages!Receive
  PROVE  MessagesInv'
<1>1. /\ phase = "idle" /\ visited' = <<>> /\ visited = <<>>
      /\ stack' = << [node |-> 1, depth |-> 1] >> /\ phase' = "measuring"
      /\ read' = 0 /\ code' = "" /\ returned' = <<>>
  BY DEF Messages!Receive, MessagesInv, WalkInv, ReadInv
<1>2. Tree(parent')
  <2>1. PICK n \in 1..MaxContainers :
          parent' \in {f \in [1..n -> 0..n] : \A i \in 1..n : f[i] < i /\ (i > 1 => f[i] > 0)}
    BY DEF Messages!Receive
  <2>2. n \in Nat /\ n >= 1
    BY <2>1
  <2>3. parent' \in [1..n -> Nat]
    BY <2>1, <2>2
  <2>4. parent' \in Seq(Nat) /\ Len(parent') = n
    BY <2>2, <2>3, IsASeq
  <2> QED
    BY <2>1, <2>2, <2>3, <2>4 DEF Tree
<1>3. Seen(visited') = {} /\ Waiting(stack') = {1} /\ Walk(parent', visited', stack')
  BY <1>1, <1>2, StartOfWalk
<1>5. WalkInv'
  <2>1. Closed(parent', visited', stack')
    BY <1>3 DEF Closed
  <2> QED
    BY <1>1, <1>3, <2>1 DEF WalkInv, Accepted
<1>6. ReadInv'
  <2>1. batch' \in BOOLEAN
    BY DEF Messages!Receive
  <2>2. members' \in Seq(Members)
    <3>1. \E m \in Nat : members' \in [1..m -> Members]
      <4>1. CASE batch'
        <5>1. members' \in Messages!BoundedSeq(Members, MaxMembers)
          BY <4>1 DEF Messages!Receive
        <5>2. PICK m \in 0..MaxMembers : members' \in [1..m -> Members]
          BY <5>1 DEF Messages!BoundedSeq, Messages!SeqOf
        <5> QED
          BY <5>2
      <4>2. CASE ~batch'
        <5>1. members' \in [{1} -> Members]
          BY <4>2 DEF Messages!Receive
        <5>2. {1} = 1..1
          OBVIOUS
        <5> QED
          BY <5>1, <5>2
      <4> QED
        BY <2>1, <4>1, <4>2
    <3>2. PICK m \in Nat : members' \in [1..m -> Members]
      BY <3>1
    <3> QED
      BY <3>2, IsASeq
  <2>3. ReadSoFar(members', read', returned')
    BY <1>1, <2>2, StartOfReading
  <2>4. phase' = "measuring" /\ code' = "" /\ read' = 0 /\ returned' = <<>>
    BY <1>1
  <2>5. (\A i \in 1..read : members[i] \notin Messages!Malformed)'
    <3>1. read' = 0
      BY <2>4
    <3> QED
      BY <3>1
  <2> QED
    BY <2>1, <2>3, <2>4, <2>5 DEF ReadInv
<1> QED
  BY <1>2, <1>3, <1>5, <1>6 DEF MessagesInv

\* The children of a container just visited are neither visited nor waiting.
LEMMA KidsAreNew ==
  ASSUME NEW p, Tree(p), NEW v, NEW s, Walk(p, v, s), NEW c \in 1..Len(p), c \notin Seen(v),
         NEW K, K = {x \in 1..Len(p) : p[x] = c}
  PROVE  K \cap (Seen(v) \cup {c} \cup Waiting(s)) = {}
<1>1. \A x \in K : x \in 1..Len(p) /\ p[x] = c /\ p[x] < x
  BY DEF Tree
<1>2. \A x \in K : x # 1 /\ x # c
  BY <1>1 DEF Tree
<1> QED
  BY <1>1, <1>2 DEF Walk

LEMMA MeasureStep ==
  ASSUME MessagesInv, Messages!Measure, MaxDepth \in Nat
  PROVE  MessagesInv'
<1> DEFINE t == stack[Len(stack)]
           s1 == SubSeq(stack, 1, Len(stack) - 1)
           deep == t.depth > MaxDepth
           K == {x \in 1..Len(parent) : parent[x] = t.node}
<1>1. /\ Tree(parent) /\ Walk(parent, visited, stack) /\ WalkInv /\ ReadInv
  BY DEF MessagesInv
<1>2. /\ phase = "measuring" /\ stack # <<>> /\ visited' = Append(visited, t.node)
      /\ UNCHANGED <<parent, members, batch, read, returned>>
      /\ deep => phase' = "done" /\ code' = "-32600" /\ stack' = s1
      /\ ~deep => /\ UNCHANGED <<phase, code>>
                  /\ stack' = Messages!Push(s1, t.node, t.depth)
  BY DEF Messages!Measure, Messages!TooDeep, Messages!Last, Messages!Front
<1>3. /\ t.node \in 1..Len(parent) /\ t.depth = DepthIn(parent, t.node)
      /\ t.node \notin Seen(visited)
      /\ Seen(visited') = Seen(visited) \cup {t.node}
      /\ Waiting(s1) = Waiting(stack) \ {t.node}
      /\ Walk(parent, visited', s1)
  BY <1>1, <1>2, TakeOne
<1>4. t.depth \in Nat
  BY <1>1, <1>3, DepthIs
<1> HIDE DEF t, s1
<1>5. code = "" /\ read = 0 /\ returned = <<>>
  BY <1>1, <1>2 DEF ReadInv
<1>6. CASE deep
  <2>1. Walk(parent', visited', stack')
    BY <1>2, <1>3, <1>6
  <2>2. TooDeepSomewhere'
    BY <1>2, <1>3, <1>6 DEF TooDeepSomewhere
  <2>3. WalkInv'
    BY <1>2, <1>6 DEF WalkInv, Accepted
  <2>4. ReadInv'
    BY <1>1, <1>2, <1>5, <1>6, <2>2 DEF ReadInv
  <2> QED
    BY <1>1, <1>2, <2>1, <2>3, <2>4 DEF MessagesInv
<1>7. CASE ~deep
  <2> DEFINE m == Messages!Cardinality(K)
             q == Messages!SetToSeq(K)
  <2>1. Messages!Children(t.node) = K
    BY <1>1 DEF Messages!Children, Tree
  <2>2. stack' = s1 \o [i \in 1..m |-> [node |-> q[i], depth |-> t.depth + 1]]
    BY <1>2, <1>7, <2>1 DEF Messages!Push
  <2>3. Len(parent) \in Nat /\ IsFiniteSet(K)
    <3>1. Len(parent) \in Nat
      BY <1>1 DEF Tree
    <3>2. IsFiniteSet(1..Len(parent))
      BY <3>1, FS_Interval
    <3> QED
      BY <3>1, <3>2, FS_Subset
  <2>4. /\ m \in Nat /\ q \in [1..m -> K]
        /\ \A i, j \in 1..m : q[i] = q[j] => i = j
        /\ \A x \in K : \E i \in 1..m : q[i] = x
    BY <2>3, Listed
  <2>5. \A x \in K : parent[x] = t.node /\ x > 1
    BY <1>1, <1>3, <2>3 DEF Tree
  <2>6. K \cap (Seen(visited) \cup {t.node} \cup Waiting(stack)) = {}
    <3> DEFINE c == t.node
    <3>1. c \in 1..Len(parent) /\ c \notin Seen(visited) /\ K = {x \in 1..Len(parent) : parent[x] = c}
      BY <1>3
    <3> HIDE DEF c, K
    <3>2. K \cap (Seen(visited) \cup {c} \cup Waiting(stack)) = {}
      BY <1>1, <3>1, KidsAreNew
    <3> QED
      BY <3>2 DEF c
  <2>7. K \cap (Seen(visited') \cup Waiting(s1)) = {}
    BY <1>3, <2>6
  <2>8. t.node \in Seen(visited') /\ K \in SUBSET (1..Len(parent))
    BY <1>3
  <2> HIDE DEF m, q, K
  <2>9. Walk(parent, visited', stack') /\ Waiting(stack') = Waiting(s1) \cup K
    <3> DEFINE v == visited'
               d == t.depth
               c == t.node
    <3>1. Walk(parent, v, s1) /\ c \in Seen(v) /\ d = DepthIn(parent, c) /\ d \in Nat
      BY <1>3, <1>4, <2>8
    <3>2. K \cap (Seen(v) \cup Waiting(s1)) = {}
      BY <2>7
    <3>3. \A x \in K : parent[x] = c /\ x > 1
      BY <2>5
    <3>4. stack' = s1 \o [i \in 1..m |-> [node |-> q[i], depth |-> d + 1]]
      BY <2>2
    <3>5. parent' = parent
      BY <1>2
    <3> HIDE DEF v, d, c
    <3>6. LET s2 == s1 \o [i \in 1..m |-> [node |-> q[i], depth |-> d + 1]]
          IN  Walk(parent, v, s2) /\ Waiting(s2) = Waiting(s1) \cup K
      <4>1. Tree(parent) /\ K \in SUBSET (1..Len(parent))
        BY <1>1, <2>8
      <4>2. Pushable(parent, v, s1, c, m, K, q)
        BY <2>4, <3>1, <3>2, <3>3, <4>1 DEF Pushable
      <4> QED
        BY <3>1, <4>1, <4>2, PushSome
    <3> QED
      BY <3>4, <3>5, <3>6 DEF v
  <2>10. Closed(parent, visited', stack')
    <3> SUFFICES ASSUME NEW c \in 1..Len(parent), c = 1 \/ parent[c] \in Seen(visited')
                 PROVE  c \in Seen(visited') \cup Waiting(stack')
      BY DEF Closed
    <3>1. CASE c = 1 \/ parent[c] \in Seen(visited)
      <4>1. c \in Seen(visited) \cup Waiting(stack)
        BY <1>1, <1>2, <3>1 DEF WalkInv, Accepted, Closed
      <4> QED
        BY <1>3, <2>9, <4>1
    <3>2. CASE parent[c] = t.node
      BY <2>9, <3>2 DEF K
    <3> QED
      BY <1>3, <3>1, <3>2
  <2>11. \A c \in Seen(visited') : DepthIn(parent, c) <= MaxDepth
    <3>1. DepthIn(parent, t.node) <= MaxDepth
      BY <1>3, <1>4, <1>7
    <3> QED
      BY <1>1, <1>2, <1>3, <3>1 DEF WalkInv, Accepted
  <2>12. WalkInv'
    BY <1>2, <1>7, <2>10, <2>11 DEF WalkInv, Accepted
  <2>13. ReadInv'
    BY <1>1, <1>2, <1>5, <1>7 DEF ReadInv
  <2> QED
    BY <1>1, <1>2, <2>9, <2>12, <2>13 DEF MessagesInv
<1> QED
  BY <1>6, <1>7

LEMMA MeasuredStep ==
  ASSUME MessagesInv, Messages!Measured
  PROVE  MessagesInv'
<1>1. /\ phase = "measuring" /\ stack = <<>> /\ phase' = "measured"
      /\ UNCHANGED <<parent, members, batch, stack, visited, read, code, returned>>
  BY DEF Messages!Measured
<1>2. Tree(parent) /\ Walk(parent, visited, stack) /\ WalkInv /\ ReadInv
  BY DEF MessagesInv
<1>3. WalkInv'
  BY <1>1, <1>2 DEF WalkInv, Accepted
<1>4. code = "" /\ read = 0
  BY <1>1, <1>2 DEF ReadInv
<1>5. ReadInv'
  BY <1>1, <1>2, <1>4 DEF ReadInv
<1> QED
  BY <1>1, <1>2, <1>3, <1>5 DEF MessagesInv

\* A step after the measuring leaves the walk as it is.
LEMMA WalkStays ==
  ASSUME MessagesInv, phase = "measured", phase' \in {"measured", "done"},
         UNCHANGED <<parent, stack, visited>>
  PROVE  Tree(parent)' /\ Walk(parent, visited, stack)' /\ WalkInv'
<1>1. Tree(parent) /\ Walk(parent, visited, stack) /\ WalkInv
  BY DEF MessagesInv
<1>2. Accepted /\ stack = <<>>
  BY <1>1 DEF WalkInv, Accepted
<1> QED
  BY <1>1, <1>2 DEF WalkInv

LEMMA ParseNothingStep ==
  ASSUME MessagesInv, Messages!ParseNothing
  PROVE  MessagesInv'
<1>1. /\ phase = "measured" /\ Messages!NoMessage /\ phase' = "done" /\ code' = "-32600"
      /\ UNCHANGED <<parent, members, batch, stack, visited, read, returned>>
  BY DEF Messages!ParseNothing
<1>2. Tree(parent)' /\ Walk(parent, visited, stack)' /\ WalkInv'
  BY <1>1, WalkStays
<1>3. ReadInv
  BY DEF MessagesInv
<1>4. ~Messages!WellFormed'
  BY <1>1 DEF Messages!NoMessage, Messages!WellFormed
<1>5. ReadSoFar(members, read, returned)' /\ batch' \in BOOLEAN
  BY <1>1, <1>3 DEF ReadInv
<1>6. ReadInv'
  BY <1>1, <1>4, <1>5 DEF ReadInv
<1> QED
  BY <1>2, <1>6 DEF MessagesInv

LEMMA OutcomeIs ==
  ASSUME NEW m \in Members
  PROVE  /\ m \in Messages!Malformed => Messages!Outcome(m) \in {"-32600", "-32602"}
         /\ Messages!Outcome(m) \in {"-32600", "-32602"} => m \in Messages!Malformed
         /\ m = "tools_call" => Messages!Outcome(m) = "call"
  BY MessagesAssumption DEF Messages!Outcome, Messages!Single, Messages!Malformed

LEMMA ReadOne ==
  ASSUME NEW message, NEW n, NEW places, ReadSoFar(message, n, places), n < Len(message),
         NEW places2,
         \/ places2 = Append(places, n + 1)
         \/ places2 = places /\ message[n + 1] # "tools_call"
  PROVE  ReadSoFar(message, n + 1, places2)
<1>1. /\ Len(message) \in Nat /\ n \in Nat /\ n + 1 \in 1..Len(message)
      /\ places \in Seq(1..Len(message)) /\ Len(places) \in Nat
      /\ \A k \in 1..Len(places) : places[k] \in 1..Len(message)
  BY DEF ReadSoFar
<1>2. CASE places2 = places /\ message[n + 1] # "tools_call"
  <2>1. ASSUME NEW i \in 1..(n + 1), message[i] = "tools_call"
        PROVE  \E k \in 1..Len(places) : places[k] = i
    <3>1. i \in 1..n
      BY <1>1, <1>2, <2>1
    <3> QED
      BY <2>1, <3>1 DEF ReadSoFar
  <2>2. \A k \in 1..Len(places) : places[k] <= n + 1
    BY <1>1 DEF ReadSoFar
  <2> QED
    BY <1>1, <1>2, <2>1, <2>2 DEF ReadSoFar
<1>3. CASE places2 = Append(places, n + 1)
  <2>1. /\ places2 \in Seq(1..Len(message)) /\ Len(places2) = Len(places) + 1
        /\ \A k \in 1..Len(places) : places2[k] = places[k]
        /\ places2[Len(places) + 1] = n + 1
    BY <1>1, <1>3
  <2>2. \A k \in 1..Len(places2) : k \in 1..Len(places) \/ k = Len(places) + 1
    BY <1>1, <2>1
  <2>3. ASSUME NEW k \in 1..Len(places2) PROVE places2[k] <= n + 1
    <3>1. CASE k \in 1..Len(places)
      <4>1. places[k] <= n /\ places[k] \in 1..Len(message)
        BY <1>1, <3>1 DEF ReadSoFar
      <4> QED
        BY <1>1, <2>1, <3>1, <4>1
    <3>2. CASE k = Len(places) + 1
      BY <1>1, <2>1, <3>2
    <3> QED
      BY <2>2, <3>1, <3>2
  <2>4. ASSUME NEW i \in 1..Len(places2), NEW j \in 1..Len(places2), i < j
        PROVE  places2[i] < places2[j]
    <3>1. i \in 1..Len(places) /\ places2[i] = places[i] /\ places[i] <= n
      BY <1>1, <2>1, <2>2, <2>4 DEF ReadSoFar
    <3>2. CASE j \in 1..Len(places)
      BY <2>1, <2>4, <3>1, <3>2 DEF ReadSoFar
    <3>3. CASE j = Len(places) + 1
      BY <1>1, <2>1, <3>1, <3>3
    <3> QED
      BY <2>2, <3>2, <3>3
  <2>5. ASSUME NEW i \in 1..(n + 1), message[i] = "tools_call"
        PROVE  \E k \in 1..Len(places2) : places2[k] = i
    <3>1. CASE i \in 1..n
      <4>1. PICK k \in 1..Len(places) : places[k] = i
        BY <2>5, <3>1 DEF ReadSoFar
      <4> QED
        BY <1>1, <2>1, <4>1
    <3>2. CASE i = n + 1
      BY <1>1, <2>1, <3>2
    <3> QED
      BY <1>1, <3>1, <3>2
  <2>6. n + 1 \in 0..Len(message) /\ message \in Seq(Members)
    BY <1>1 DEF ReadSoFar
  <2> QED
    BY <2>1, <2>3, <2>4, <2>5, <2>6 DEF ReadSoFar
<1> QED
  BY <1>2, <1>3

LEMMA OneMore == \A n \in Nat : \A i \in 1..(n + 1) : i \in 1..n \/ i = n + 1
  OBVIOUS

LEMMA ParseMemberStep ==
  ASSUME MessagesInv, Messages!ParseMember
  PROVE  MessagesInv'
<1> DEFINE m == members[read + 1]
           result == Messages!Outcome(m)
<1>1. /\ phase = "measured" /\ read < Len(members) /\ read' = read + 1
      /\ \/ result = "skip" /\ UNCHANGED <<phase, code, returned>>
         \/ /\ result = "call" /\ returned' = Append(returned, read + 1)
            /\ UNCHANGED <<phase, code>>
         \/ /\ result \in {"-32600", "-32602"} /\ code' = result /\ phase' = "done"
            /\ UNCHANGED returned
      /\ UNCHANGED <<parent, members, batch, stack, visited>>
  BY DEF Messages!ParseMember, Messages!Left
<1>2. Tree(parent)' /\ Walk(parent, visited, stack)' /\ WalkInv'
  BY <1>1, WalkStays
<1>3. ReadInv /\ ReadSoFar(members, read, returned)
  BY DEF MessagesInv, ReadInv
<1>4. /\ members \in Seq(Members) /\ Len(members) \in Nat /\ read \in Nat
      /\ read + 1 \in 1..Len(members) /\ m \in Members
  <2>1. members \in Seq(Members) /\ read \in 0..Len(members)
    BY <1>3 DEF ReadSoFar
  <2>2. Len(members) \in Nat /\ read + 1 \in 1..Len(members) /\ read \in Nat
    BY <1>1, <2>1
  <2> QED
    BY <2>1, <2>2
<1> HIDE DEF result
<1>5. /\ m \in Messages!Malformed => result \in {"-32600", "-32602"}
      /\ result \in {"-32600", "-32602"} => m \in Messages!Malformed
      /\ m = "tools_call" => result = "call"
  BY <1>4, OutcomeIs DEF result
<1>6. ReadSoFar(members', read', returned')
  <2>1. \/ returned' = Append(returned, read + 1)
        \/ returned' = returned /\ members[read + 1] # "tools_call"
    BY <1>1, <1>5
  <2>2. ReadSoFar(members, read + 1, returned')
    BY <1>1, <1>3, <2>1, ReadOne
  <2> QED
    BY <1>1, <2>2
<1>7. code' = "" => \A i \in 1..read' : members'[i] \notin Messages!Malformed
  <2> SUFFICES ASSUME code' = "", NEW i \in 1..read'
               PROVE  members[i] \notin Messages!Malformed
    BY <1>1
  <2>1. code = "" /\ result \notin {"-32600", "-32602"}
    BY <1>1, <1>3 DEF ReadInv
  <2>2. i \in 1..read \/ i = read + 1
    <3>1. i \in 1..(read + 1)
      BY <1>1
    <3> QED
      BY <1>4, <3>1, OneMore
  <2> QED
    BY <1>3, <1>5, <2>1, <2>2 DEF ReadInv
<1>8. code' # "" => ~Messages!WellFormed'
  <2> SUFFICES ASSUME code' # "" PROVE ~Messages!WellFormed'
    OBVIOUS
  <2>1. m \in Messages!Malformed
    BY <1>1, <1>3, <1>5 DEF ReadInv
  <2>2. m \in Messages!ToSet(members)
    <3>1. DOMAIN members = 1..Len(members)
      BY <1>4, LenProperties
    <3> QED
      BY <1>4, <3>1 DEF Messages!ToSet
  <2>3. ~Messages!WellFormed
    BY <2>1, <2>2 DEF Messages!WellFormed
  <2> QED
    BY <1>1, <2>3 DEF Messages!WellFormed
<1>9. ReadInv'
  <2>1. code = "" /\ batch' \in BOOLEAN
    BY <1>1, <1>3 DEF ReadInv
  <2>2. phase' \in {"measured", "done"} /\ (phase' = "done" => code' # "") /\ (phase' # "done" => code' = "")
    BY <1>1, <2>1
  <2> QED
    BY <1>6, <1>7, <1>8, <2>1, <2>2 DEF ReadInv
<1> QED
  BY <1>2, <1>9 DEF MessagesInv

LEMMA ReturnStep ==
  ASSUME MessagesInv, Messages!Return
  PROVE  MessagesInv'
<1>1. /\ phase = "measured" /\ ~(read < Len(members)) /\ phase' = "done"
      /\ UNCHANGED <<parent, members, batch, stack, visited, read, code, returned>>
  BY DEF Messages!Return, Messages!Left
<1>2. Tree(parent)' /\ Walk(parent, visited, stack)' /\ WalkInv'
  BY <1>1, WalkStays
<1>3. ReadInv /\ ReadSoFar(members, read, returned)
  BY DEF MessagesInv, ReadInv
<1>4. read = Len(members)
  <2>1. read \in 0..Len(members) /\ Len(members) \in Nat
    BY <1>3 DEF ReadSoFar
  <2> QED
    BY <1>1, <2>1
<1>5. code = ""
  BY <1>1, <1>3 DEF ReadInv
<1>6. ReadInv'
  BY <1>1, <1>3, <1>4, <1>5 DEF ReadInv
<1> QED
  BY <1>2, <1>6 DEF MessagesInv

LEMMA MessagesStep ==
  ASSUME MessagesInv, [Messages!Next]_jsonrpc
  PROVE  MessagesInv'
<1>1. CASE UNCHANGED jsonrpc
  BY <1>1 DEF jsonrpc, MessagesInv, WalkInv, ReadInv, Accepted, TooDeepSomewhere,
              Messages!WellFormed
<1>2. CASE Messages!Measure
  BY <1>2, MeasureStep, MessagesAssumption
<1> QED
  BY <1>1, <1>2, ReceiveStep, MeasuredStep, ParseNothingStep, ParseMemberStep, ReturnStep
     DEF Messages!Next

\* Once nothing is left on the stack, every container was visited: the first one
\* that was not would have a parent that was.
LEMMA AllSeen ==
  ASSUME NEW p, Tree(p), NEW v, Closed(p, v, <<>>)
  PROVE  1..Len(p) \subseteq Seen(v)
<1> DEFINE Missed == 1..Len(p) \ Seen(v)
<1>1. Missed = {}
  <2> SUFFICES ASSUME Missed # {} PROVE FALSE
    OBVIOUS
  <2>1. PICK c \in Missed : \A x \in Missed : c <= x
    <3>1. Missed \in SUBSET Nat
      OBVIOUS
    <3> HIDE DEF Missed
    <3> QED
      BY <3>1, LeastElement
  <2>2. Waiting(<<>>) = {}
    BY DEF Waiting
  <2>3. c \in 1..Len(p) /\ c # 1 /\ p[c] \notin Seen(v)
    BY <2>2 DEF Closed
  <2>4. p[c] \in 1..Len(p) /\ p[c] < c
    <3>1. Len(p) \in Nat /\ p[c] \in Nat
      BY <2>3 DEF Tree
    <3> QED
      BY <2>3, <3>1 DEF Tree
  <2>5. p[c] \in Missed
    BY <2>3, <2>4
  <2> QED
    BY <2>1, <2>3, <2>4, <2>5
<1> QED
  BY <1>1

LEMMA Concatenated ==
  ASSUME NEW S, NEW a \in Seq(S), NEW b \in Seq(S)
  PROVE  /\ a \o b \in Seq(S) /\ Len(a \o b) = Len(a) + Len(b)
         /\ \A i \in 1..Len(a) : (a \o b)[i] = a[i]
         /\ \A i \in 1..Len(b) : (a \o b)[Len(a) + i] = b[i]
  OBVIOUS

LEMMA EachVisitedOnce ==
  ASSUME MessagesInv
  PROVE  Messages!EachContainerOnce
<1> DEFINE nodes == [i \in DOMAIN stack |-> stack[i].node]
           both == visited \o nodes
<1>1. Tree(parent) /\ Walk(parent, visited, stack) /\ WalkInv
  BY DEF MessagesInv
<1>2. /\ Len(parent) \in Nat /\ visited \in Seq(1..Len(parent))
      /\ Len(visited) \in Nat /\ Len(stack) \in Nat /\ DOMAIN stack = 1..Len(stack)
      /\ \A i \in 1..Len(stack) : stack[i].node \in 1..Len(parent)
  <2>1. /\ Len(parent) \in Nat /\ visited \in Seq(1..Len(parent))
        /\ stack \in Seq([node : 1..Len(parent), depth : Nat])
    BY <1>1 DEF Tree, Walk
  <2> DEFINE Item == [node : 1..Len(parent), depth : Nat]
  <2>2. stack \in Seq(Item)
    BY <2>1
  <2>3. \A x \in Item : x.node \in 1..Len(parent)
    OBVIOUS
  <2> HIDE DEF Item
  <2>4. \A i \in 1..Len(stack) : stack[i] \in Item
    BY <2>2
  <2>5. Len(stack) \in Nat /\ DOMAIN stack = 1..Len(stack)
    BY <2>2
  <2> QED
    BY <2>1, <2>3, <2>4, <2>5
<1>3. Once(visited, stack)
  BY <1>1 DEF Walk
<1>4. nodes \in Seq(1..Len(parent)) /\ Len(nodes) = Len(stack)
  <2>1. nodes \in [1..Len(stack) -> 1..Len(parent)]
    BY <1>2
  <2> QED
    BY <1>2, <2>1, IsASeq
<1>5. /\ both \in Seq(1..Len(parent)) /\ Len(both) = Len(visited) + Len(stack)
      /\ \A i \in 1..Len(visited) : both[i] = visited[i]
      /\ \A i \in 1..Len(stack) : both[Len(visited) + i] = stack[i].node
  <2> HIDE DEF nodes
  <2>0. visited \in Seq(1..Len(parent)) /\ Len(visited) \in Nat /\ Len(stack) \in Nat
    BY <1>2
  <2>1. /\ both \in Seq(1..Len(parent)) /\ Len(both) = Len(visited) + Len(stack)
        /\ \A i \in 1..Len(visited) : both[i] = visited[i]
        /\ \A i \in 1..Len(stack) : both[Len(visited) + i] = nodes[i]
    BY <1>4, <2>0, Concatenated
  <2> QED
    BY <1>2, <2>1 DEF nodes
<1> HIDE DEF both
<1>6. DOMAIN both = 1..Len(both)
  BY <1>5
<1>7. Messages!IsInjective(both)
  <2> DEFINE Earlier(x) == x \in 1..Len(visited) /\ both[x] = visited[x]
             Added(x) == \E k \in 1..Len(stack) : x = Len(visited) + k /\ both[x] = stack[k].node
  <2>1. ASSUME NEW x \in 1..Len(both) PROVE Earlier(x) \/ Added(x)
    <3>1. CASE x \in 1..Len(visited)
      BY <1>5, <3>1
    <3>2. CASE x \notin 1..Len(visited)
      <4>1. x - Len(visited) \in 1..Len(stack) /\ x = Len(visited) + (x - Len(visited))
        BY <1>2, <1>5, <3>2
      <4> QED
        BY <1>5, <4>1
    <3> QED
      BY <3>1, <3>2
  <2>2. ASSUME NEW i \in 1..Len(both), NEW j \in 1..Len(both), both[i] = both[j]
        PROVE  i = j
    <3>1. (Earlier(i) \/ Added(i)) /\ (Earlier(j) \/ Added(j))
      BY <2>1
    <3>2. CASE Earlier(i) /\ Earlier(j)
      BY <1>3, <2>2, <3>2 DEF Once
    <3>3. CASE Added(i) /\ Added(j)
      BY <1>3, <2>2, <3>3 DEF Once
    <3>4. \A x, k : x \in 1..Len(visited) /\ k \in 1..Len(stack) => visited[x] # stack[k].node
      <4>1. \A x \in 1..Len(visited) : visited[x] \in Seen(visited)
        BY DEF Seen
      <4>2. \A k \in 1..Len(stack) : stack[k].node \in Waiting(stack)
        BY DEF Waiting
      <4> QED
        BY <1>3, <4>1, <4>2 DEF Once
    <3>5. ~(Earlier(i) /\ Added(j)) /\ ~(Earlier(j) /\ Added(i))
      BY <2>2, <3>4
    <3> HIDE DEF Earlier, Added
    <3> QED
      BY <3>1, <3>2, <3>3, <3>5
  <2> QED
    BY <1>6, <2>2 DEF Messages!IsInjective
<1>8. phase = "measured" => Len(visited) = Len(parent)
  <2> SUFFICES ASSUME phase = "measured" PROVE Len(visited) = Len(parent)
    OBVIOUS
  <2>1. 1..Len(parent) \subseteq Seen(visited)
    <3>1. stack = <<>> /\ Closed(parent, visited, stack)
      BY <1>1 DEF WalkInv, Accepted
    <3> QED
      BY <1>1, <3>1, AllSeen
  <2>2. visited \in [1..Len(visited) -> 1..Len(parent)]
    BY <1>2
  <2>3. visited \in Injection(1..Len(visited), 1..Len(parent))
    BY <1>3, <2>2 DEF Injection, IsInjective, Once
  <2>4. visited \in Surjection(1..Len(visited), 1..Len(parent))
    BY <2>1, <2>2 DEF Surjection, Seen
  <2>5. /\ IsFiniteSet(1..Len(parent)) /\ Cardinality(1..Len(parent)) = Len(parent)
        /\ Cardinality(1..Len(visited)) = Len(visited)
    <3>1. \A n \in Nat : IsFiniteSet(1..n) /\ Cardinality(1..n) = n
      <4> TAKE n \in Nat
      <4>1. IsFiniteSet(1..n) /\ Cardinality(1..n) = IF 1 > n THEN 0 ELSE n - 1 + 1
        BY FS_Interval
      <4> QED
        BY <4>1
    <3> QED
      BY <1>2, <3>1
  <2> QED
    BY <2>3, <2>4, <2>5, FS_Injection
<1> QED
  BY <1>7, <1>8 DEF Messages!EachContainerOnce, both

LEMMA DepthDecides ==
  ASSUME MessagesInv
  PROVE  Messages!DepthIsExact
<1>1. Tree(parent) /\ Walk(parent, visited, stack) /\ WalkInv /\ ReadInv
  BY DEF MessagesInv
<1>2. DOMAIN parent = 1..Len(parent)
  BY <1>1 DEF Tree
<1>3. ASSUME phase = "done", code = ""
      PROVE  \A c \in 1..Len(parent) : DepthIn(parent, c) <= MaxDepth
  <2>1. /\ stack = <<>> /\ Closed(parent, visited, stack)
        /\ \A c \in Seen(visited) : DepthIn(parent, c) <= MaxDepth
    BY <1>1, <1>3 DEF WalkInv, Accepted
  <2>2. 1..Len(parent) \subseteq Seen(visited)
    BY <1>1, <2>1, AllSeen
  <2> QED
    BY <2>1, <2>2
<1>4. ASSUME Messages!WellFormed, \A c \in 1..Len(parent) : DepthIn(parent, c) <= MaxDepth
      PROVE  code = ""
  <2>1. \A c \in 1..Len(parent) : DepthIn(parent, c) \in Nat
    BY <1>1, DepthIs
  <2>2. ~TooDeepSomewhere
    BY <1>4, <2>1, MessagesAssumption DEF TooDeepSomewhere
  <2> QED
    BY <1>1, <1>4, <2>2 DEF ReadInv
<1> QED
  BY <1>2, <1>3, <1>4, DepthIsDepthIn DEF Messages!DepthIsExact

LEMMA CallsKept ==
  ASSUME MessagesInv
  PROVE  Messages!NoCallIsLost
<1> SUFFICES ASSUME phase = "done", code = ""
             PROVE  /\ {i \in DOMAIN members : members[i] = "tools_call"} \subseteq Messages!ToSet(returned)
                    /\ \A i, j \in DOMAIN returned : i < j => returned[i] < returned[j]
                    /\ Messages!ToSet(members) \cap Messages!Malformed = {}
  BY DEF Messages!NoCallIsLost
<1>1. /\ ReadSoFar(members, read, returned) /\ read = Len(members)
      /\ \A i \in 1..read : members[i] \notin Messages!Malformed
  BY DEF MessagesInv, ReadInv
<1>2. DOMAIN members = 1..Len(members) /\ DOMAIN returned = 1..Len(returned)
  <2>1. members \in Seq(Members) /\ returned \in Seq(1..Len(members))
    BY <1>1 DEF ReadSoFar
  <2> QED
    BY <2>1, LenProperties
<1>3. {i \in DOMAIN members : members[i] = "tools_call"} \subseteq Messages!ToSet(returned)
  BY <1>1, <1>2 DEF ReadSoFar, Messages!ToSet
<1>4. \A i, j \in DOMAIN returned : i < j => returned[i] < returned[j]
  BY <1>1, <1>2 DEF ReadSoFar
<1>5. Messages!ToSet(members) \cap Messages!Malformed = {}
  BY <1>1, <1>2 DEF Messages!ToSet
<1> QED
  BY <1>3, <1>4, <1>5

\* The adapter of JSON-RPC messages, for any limit, number of containers and
\* members: a message is refused for its depth exactly when one of its containers
\* is too deep, the walk visits each container once, and no tool call of an
\* accepted message is lost (parse_message, _check_depth, _parse_batch).
THEOREM PartsMessages == Spec => []MessagesHold
<1>1. Init => MessagesInv
  BY MessagesInit
<1>2. MessagesInv /\ [Next]_vars => MessagesInv'
  BY PartsStep, MessagesStep
<1>3. MessagesInv => MessagesHold
  BY EachVisitedOnce, DepthDecides, CallsKept DEF MessagesHold
<1> QED
  BY <1>1, <1>2, <1>3, PTL DEF Spec

-----------------------------------------------------------------------------
(* The correlation engine.  A window is what the latest events of its session  *)
(* left in it: cutting a window again later takes no more than cutting it then *)
(* (CutAgain). The search of evaluate() takes the first event of each stage in *)
(* turn, which is at the end of the earliest chain from the first event of the *)
(* first stage; the labelled sequences are what its stages are made of.        *)

\* Counting up: what holds of 0, and of each number after one it holds of.
LEMMA UpTo ==
  ASSUME NEW n \in Nat, NEW G \in SUBSET (0..n), 0 \in G,
         \A i \in 1..n : i - 1 \in G => i \in G
  PROVE  \A i \in 0..n : i \in G
<1> DEFINE Bad == (0..n) \ G
<1> SUFFICES ASSUME Bad # {} PROVE FALSE
  OBVIOUS
<1>1. PICK m \in Bad : \A x \in Bad : m <= x
  <2>1. Bad \in SUBSET Nat
    OBVIOUS
  <2> HIDE DEF Bad
  <2> QED
    BY <2>1, LeastElement
<1>2. m \in 1..n /\ m \notin G
  OBVIOUS
<1>3. m - 1 \in 0..n /\ m - 1 \notin Bad
  BY <1>1, <1>2
<1> QED
  BY <1>2, <1>3

\* A loop over n items has a value after each of them.
Loop(n, S, start, g) == n \in Nat /\ start \in S /\ g \in [S \X (1..n) -> S]

LEMMA LoopExists ==
  ASSUME NEW n, NEW S, NEW start, NEW g, Loop(n, S, start, g)
  PROVE  \E f \in [0..n -> S] : /\ f[0] = start
                                /\ \A i \in 1..n : f[i] = g[<<f[i - 1], i>>]
<1> DEFINE Good(f, m) == /\ f \in [0..m -> S]
                         /\ f[0] = start
                         /\ \A i \in 1..m : f[i] = g[<<f[i - 1], i>>]
           G == {m \in 0..n : \E f : Good(f, m)}
<1> USE DEF Loop
<1>1. 0 \in G
  <2>1. Good([i \in 0..0 |-> start], 0)
    OBVIOUS
  <2> HIDE DEF Good
  <2> QED
    BY <2>1
<1>2. ASSUME NEW m \in 1..n, m - 1 \in G
      PROVE  m \in G
  <2>1. PICK f : Good(f, m - 1)
    BY <1>2
  <2> DEFINE e == [i \in 0..m |-> IF i < m THEN f[i] ELSE g[<<f[m - 1], m>>]]
  <2>2. f \in [0..(m - 1) -> S] /\ m \in Nat
    BY <2>1
  <2>3. f[m - 1] \in S
    BY <2>2
  <2>4. <<f[m - 1], m>> \in S \X (1..n)
    BY <2>3
  <2>5. g[<<f[m - 1], m>>] \in S
    BY <2>4
  <2>6. e \in [0..m -> S]
    <3>1. \A i \in 0..m : i < m => f[i] \in S
      BY <2>2
    <3> QED
      BY <2>5, <3>1
  <2>7. e[0] = start
    BY <2>1, <2>2
  <2>8. ASSUME NEW i \in 1..m
        PROVE  e[i] = g[<<e[i - 1], i>>]
    <3>1. e[i - 1] = f[i - 1]
      BY <2>2
    <3>2. CASE i < m
      <4>1. i \in 1..(m - 1) /\ e[i] = f[i]
        BY <2>2, <3>2
      <4>2. f[i] = g[<<f[i - 1], i>>]
        BY <2>1, <4>1
      <4> QED
        BY <3>1, <4>1, <4>2
    <3>3. CASE i = m
      <4>1. e[i] = g[<<f[m - 1], m>>]
        BY <2>2, <3>3
      <4> QED
        BY <3>1, <3>3, <4>1
    <3> QED
      BY <2>2, <3>2, <3>3
  <2>9. Good(e, m)
    BY <2>6, <2>7, <2>8
  <2> HIDE DEF Good
  <2> QED
    BY <2>9
<1>3. \A m \in 0..n : m \in G
  <2>1. G \in SUBSET (0..n)
    OBVIOUS
  <2> HIDE DEF G
  <2> QED
    BY <1>1, <1>2, <2>1, UpTo
<1>4. PICK f : Good(f, n)
  <2>1. n \in 0..n
    OBVIOUS
  <2> HIDE DEF Good
  <2> QED
    BY <1>3, <2>1
<1> QED
  BY <1>4

\* The events of the windows: those offered and those of the labelled data, with
\* the time they came.
Offered == Events \cup UNION {{Correlation!Labelled[label][i] : i \in 1..Len(Correlation!Labelled[label])} :
                                label \in DOMAIN Correlation!Labelled}

At(event, m) ==
  [tool |-> event.tool, layer |-> event.layer, action |-> event.action,
   high |-> event.high, findings |-> event.findings, at |-> m]

Entry == {At(event, m) : event \in Offered, m \in Nat}

InOrder(w) ==
  /\ w \in Seq(Entry)
  /\ \A i, j \in 1..Len(w) : i <= j => w[i].at <= w[j].at

LEMMA EntryHasTime == \A x \in Entry : x.at \in Nat
  BY DEF Entry, At

LEMMA InOrderIs ==
  ASSUME NEW w, InOrder(w)
  PROVE  /\ Len(w) \in Nat /\ DOMAIN w = 1..Len(w)
         /\ \A i \in 1..Len(w) : w[i] \in Entry /\ w[i].at \in Nat
<1>1. w \in Seq(Entry)
  BY DEF InOrder
<1>2. \A i \in 1..Len(w) : w[i] \in Entry
  BY <1>1, ElementOfSeq
<1> QED
  BY <1>1, <1>2, EntryHasTime, LenProperties

LEMMA StampedIs == \A event : Correlation!Stamped(event) = At(event, minute)
  BY DEF Correlation!Stamped, At

LEMMA EntryJoins ==
  ASSUME NEW w, InOrder(w), NEW x \in Entry, \A i \in 1..Len(w) : w[i].at <= x.at
  PROVE  /\ InOrder(Append(w, x))
         /\ Len(Append(w, x)) = Len(w) + 1
         /\ \A i \in 1..Len(w) : Append(w, x)[i] = w[i]
         /\ Append(w, x)[Len(w) + 1] = x
<1> DEFINE n == Len(w)
           t == Append(w, x)
<1>1. /\ n \in Nat /\ w \in Seq(Entry)
      /\ \A i \in 1..n : w[i] \in Entry /\ w[i].at \in Nat
  BY InOrderIs DEF InOrder
<1>2. /\ t \in Seq(Entry) /\ Len(t) = n + 1 /\ t[n + 1] = x
      /\ \A i \in 1..n : t[i] = w[i]
  BY <1>1, AppendProperties
<1>3. x.at \in Nat
  BY EntryHasTime
<1> HIDE DEF t, n
<1>4. ASSUME NEW i \in 1..(n + 1), NEW j \in 1..(n + 1), i <= j
      PROVE  t[i].at <= t[j].at
  <2>1. CASE j \in 1..n
    <3>1. i \in 1..n
      BY <1>1, <1>4, <2>1
    <3> QED
      BY <1>2, <1>4, <2>1, <3>1 DEF InOrder, n
  <2>2. CASE i \in 1..n /\ j = n + 1
    BY <1>2, <2>2 DEF n
  <2>3. CASE i = n + 1 /\ j = n + 1
    BY <1>2, <1>3, <2>3
  <2> QED
    BY <1>1, <1>4, <2>1, <2>2, <2>3
<1> QED
  BY <1>2, <1>4 DEF InOrder, t, n

\* Cutting a window that is in order drops its oldest events.
LEMMA YoungIs ==
  ASSUME NEW w, InOrder(w), minute \in Nat
  PROVE  \E old \in 0..Len(w) :
            /\ \A j \in 1..Len(w) : w[j].at > minute - Window <=> j > old
            /\ Correlation!Young(w) \in Seq(Entry)
            /\ Len(Correlation!Young(w)) = Len(w) - old
            /\ \A j \in 1..(Len(w) - old) : Correlation!Young(w)[j] = w[old + j]
<1> DEFINE n == Len(w)
           keep(events, i) == IF w[i].at > minute - Window THEN Append(events, w[i]) ELSE events
           g == [x \in Seq(Entry) \X (1..n) |-> keep(x[1], x[2])]
           among == CHOOSE f : f = [i \in 0..n |-> IF i = 0 THEN <<>> ELSE keep(f[i - 1], i)]
           Suffix(s, i, old) == /\ old \in 0..i
                                /\ \A j \in 1..i : w[j].at > minute - Window <=> j > old
                                /\ s \in Seq(Entry)
                                /\ Len(s) = i - old
                                /\ \A j \in 1..(i - old) : s[j] = w[old + j]
           G == {i \in 0..n : \E old : Suffix(among[i], i, old)}
<1>1. /\ n \in Nat /\ w \in Seq(Entry)
      /\ \A i \in 1..n : w[i] \in Entry /\ w[i].at \in Nat
  BY InOrderIs DEF InOrder
<1>2. among = [i \in 0..n |-> IF i = 0 THEN <<>> ELSE keep(among[i - 1], i)]
  <2>1. g \in [Seq(Entry) \X (1..n) -> Seq(Entry)]
    <3> SUFFICES ASSUME NEW x \in Seq(Entry) \X (1..n)
                 PROVE  keep(x[1], x[2]) \in Seq(Entry)
      OBVIOUS
    <3>1. x[1] \in Seq(Entry) /\ w[x[2]] \in Entry
      BY <1>1
    <3> QED
      BY <3>1, AppendProperties
  <2>2. <<>> \in Seq(Entry)
    OBVIOUS
  <2>3. PICK f \in [0..n -> Seq(Entry)] : /\ f[0] = <<>>
                                         /\ \A i \in 1..n : f[i] = g[<<f[i - 1], i>>]
    <3> DEFINE S == Seq(Entry)
               start == <<>>
    <3>1. Loop(n, S, start, g)
      BY <1>1, <2>1, <2>2 DEF Loop
    <3> HIDE DEF g, S, start, n
    <3>2. \E f \in [0..n -> S] : f[0] = start /\ \A i \in 1..n : f[i] = g[<<f[i - 1], i>>]
      BY <3>1, LoopExists
    <3> QED
      BY <3>2 DEF S, start
  <2>4. \A i \in 1..n : f[i] = keep(f[i - 1], i)
    <3> SUFFICES ASSUME NEW i \in 1..n
                 PROVE  f[i] = keep(f[i - 1], i)
      OBVIOUS
    <3>1. i - 1 \in 0..n
      OBVIOUS
    <3>2. <<f[i - 1], i>> \in Seq(Entry) \X (1..n)
      BY <3>1
    <3> QED
      BY <2>3, <3>2
  <2>5. f = [i \in 0..n |-> IF i = 0 THEN <<>> ELSE keep(f[i - 1], i)]
    <3> HIDE DEF keep
    <3> QED
      BY <1>1, <2>3, <2>4
  <2> QED
    BY <2>5
<1>3. Correlation!Young(w) = among[n]
  BY DEF Correlation!Young
<1> HIDE DEF among
<1>4. among[0] = <<>> /\ \A i \in 1..n : among[i] = keep(among[i - 1], i)
  <2> HIDE DEF keep
  <2>1. 0 \in 0..n /\ \A i \in 1..n : i \in 0..n /\ i # 0
    BY <1>1
  <2> QED
    BY <1>2, <2>1
<1>5. 0 \in G
  <2>1. Suffix(among[0], 0, 0)
    BY <1>4
  <2> HIDE DEF Suffix
  <2> QED
    BY <1>1, <2>1
<1>6. ASSUME NEW i \in 1..n, i - 1 \in G
      PROVE  i \in G
  <2>1. PICK old : Suffix(among[i - 1], i - 1, old)
    BY <1>6
  <2> DEFINE s == among[i - 1]
  <2>2. w[i] \in Entry /\ w[i].at \in Nat /\ i \in 0..n /\ i \in Nat
    BY <1>1
  <2>3. \A j \in 1..i : j \in 1..(i - 1) \/ j = i
    BY <2>2
  <2>4. CASE w[i].at > minute - Window
    <3>1. among[i] = Append(s, w[i])
      BY <1>4, <2>4
    <3> HIDE DEF s
    <3>2. s \in Seq(Entry) /\ Len(s) = i - 1 - old /\ old \in 0..(i - 1)
      BY <2>1 DEF s
    <3>3. /\ among[i] \in Seq(Entry) /\ Len(among[i]) = i - old
          /\ \A j \in 1..(i - 1 - old) : among[i][j] = s[j]
          /\ among[i][i - old] = w[i]
      BY <2>2, <3>1, <3>2, AppendProperties
    <3>4. \A j \in 1..(i - 1 - old) : among[i][j] = w[old + j]
      BY <2>1, <3>3 DEF s
    <3>5. \A j \in 1..(i - old) : among[i][j] = w[old + j]
      <4> SUFFICES ASSUME NEW j \in 1..(i - old)
                   PROVE  among[i][j] = w[old + j]
        OBVIOUS
      <4>1. CASE j = i - old
        <5>1. old + j = i
          BY <2>2, <3>2, <4>1
        <5> QED
          BY <3>3, <4>1, <5>1
      <4>2. CASE j # i - old
        <5>1. j \in 1..(i - 1 - old)
          BY <2>2, <3>2, <4>2
        <5> QED
          BY <3>4, <5>1
      <4> QED
        BY <4>1, <4>2
    <3>6. \A j \in 1..i : w[j].at > minute - Window <=> j > old
      BY <2>1, <2>2, <2>3, <2>4, <3>2
    <3>7. Suffix(among[i], i, old)
      BY <2>2, <3>2, <3>3, <3>5, <3>6
    <3> HIDE DEF Suffix
    <3> QED
      BY <2>2, <3>7
  <2>5. CASE ~(w[i].at > minute - Window)
    <3>1. among[i] = s
      BY <1>4, <2>5
    <3>2. \A j \in 1..(i - 1) : ~(w[j].at > minute - Window)
      <4> SUFFICES ASSUME NEW j \in 1..(i - 1)
                   PROVE  ~(w[j].at > minute - Window)
        OBVIOUS
      <4>1. j \in 1..n /\ j <= i /\ w[j].at \in Nat
        BY <1>1
      <4>2. w[j].at <= w[i].at
        BY <4>1 DEF InOrder
      <4> QED
        BY <2>2, <2>5, <4>1, <4>2, CorrelationAssumption
    <3>3. old = i - 1
      <4>1. old \in 0..(i - 1)
        BY <2>1
      <4>2. CASE old < i - 1
        <5>1. i - 1 \in 1..(i - 1) /\ i - 1 > old
          BY <2>2, <4>1, <4>2
        <5> QED
          BY <2>1, <3>2, <5>1
      <4> QED
        BY <2>2, <4>1, <4>2
    <3>4. Len(s) = 0 /\ s \in Seq(Entry)
      BY <2>1, <2>2, <3>3
    <3>5. \A j \in 1..i : w[j].at > minute - Window <=> j > i
      BY <2>2, <2>3, <2>5, <3>2
    <3> HIDE DEF s
    <3>6. Suffix(among[i], i, i)
      BY <2>2, <3>1, <3>4, <3>5
    <3> HIDE DEF Suffix
    <3> QED
      BY <2>2, <3>6
  <2> QED
    BY <2>4, <2>5
<1>7. n \in G
  <2>1. G \in SUBSET (0..n)
    OBVIOUS
  <2> HIDE DEF G
  <2>2. \A i \in 0..n : i \in G
    BY <1>1, <1>5, <1>6, <2>1, UpTo
  <2> QED
    BY <1>1, <2>2
<1>8. PICK old : Suffix(among[n], n, old)
  BY <1>7
<1> QED
  BY <1>3, <1>8

\* What a cut leaves of a window: its latest events, which are young, and every
\* young one but for the cap.
LEMMA ExpireIs ==
  ASSUME NEW w, InOrder(w), minute \in Nat
  PROVE  LET v == Correlation!Expire(w)
         IN \E gone \in 0..Len(w) :
               /\ InOrder(v)
               /\ Len(v) = Len(w) - gone
               /\ Len(v) <= Correlation!Cap
               /\ \A j \in 1..Len(v) : v[j] = w[gone + j] /\ w[gone + j].at > minute - Window
               /\ \/ \A j \in 1..gone : w[j].at <= minute - Window
                  \/ Len(v) = Correlation!Cap
               /\ gone > 0 /\ Len(v) < Correlation!Cap => w[1].at <= minute - Window
<1> DEFINE n == Len(w)
           y == Correlation!Young(w)
           v == Correlation!Expire(w)
           c == Correlation!Cap
<1>1. /\ n \in Nat /\ w \in Seq(Entry)
      /\ \A i \in 1..n : w[i] \in Entry /\ w[i].at \in Nat
  BY InOrderIs DEF InOrder
<1>2. PICK old \in 0..n :
          /\ \A j \in 1..n : w[j].at > minute - Window <=> j > old
          /\ y \in Seq(Entry)
          /\ Len(y) = n - old
          /\ \A j \in 1..(n - old) : y[j] = w[old + j]
  BY YoungIs
<1>3. c \in Nat \ {0}
  BY CorrelationAssumption DEF Correlation!Cap
<1>4. v = IF Len(y) > c THEN SubSeq(y, Len(y) - c + 1, Len(y)) ELSE y
  BY DEF Correlation!Expire, Correlation!Capped
<1> HIDE DEF y, v, c
<1>5. PICK gone \in old..n :
         /\ v \in Seq(Entry) /\ Len(v) = n - gone /\ Len(v) <= c
         /\ \A j \in 1..(n - gone) : v[j] = w[gone + j]
         /\ gone = old \/ Len(v) = c
  <2>1. CASE Len(y) > c
    <3>1. /\ Len(y) - c + 1 \in 1..Len(y) /\ Len(y) \in Int /\ Len(y) - c + 1 \in Int
          /\ \A i \in (Len(y) - c + 1)..Len(y) : y[i] \in Entry
      BY <1>1, <1>2, <1>3, <2>1
    <3>2. v = SubSeq(y, Len(y) - c + 1, Len(y))
      BY <1>4, <2>1
    <3>3. /\ v \in Seq(Entry) /\ Len(v) = c
          /\ \A i \in 1..c : v[i] = y[Len(y) - c + i]
      <4>1. /\ v \in Seq(Entry)
            /\ Len(v) = IF Len(y) - c + 1 <= Len(y) THEN Len(y) - (Len(y) - c + 1) + 1 ELSE 0
            /\ \A i \in 1..(Len(y) - (Len(y) - c + 1) + 1) : v[i] = y[(Len(y) - c + 1) + i - 1]
        <5> DEFINE m == Len(y) - c + 1
        <5>1. \A i \in m..Len(y) : y[i] \in Entry
          BY <3>1
        <5>2. m \in Int /\ Len(y) \in Int /\ v = SubSeq(y, m, Len(y))
          BY <3>1, <3>2
        <5> HIDE DEF m
        <5>3. /\ v \in Seq(Entry) /\ Len(v) = IF m <= Len(y) THEN Len(y) - m + 1 ELSE 0
              /\ \A i \in 1..(Len(y) - m + 1) : v[i] = y[m + i - 1]
          BY <5>1, <5>2, SubSeqProperties
        <5> QED
          BY <5>3 DEF m
      <4>2. Len(y) - (Len(y) - c + 1) + 1 = c /\ Len(y) - c + 1 <= Len(y)
        BY <1>3, <3>1
      <4>3. \A i \in 1..c : (Len(y) - c + 1) + i - 1 = Len(y) - c + i
        BY <1>3, <3>1
      <4> QED
        BY <4>1, <4>2, <4>3
    <3>4. n - c \in old..n /\ n - (n - c) = c
      BY <1>1, <1>2, <1>3, <2>1
    <3>5. \A j \in 1..c : v[j] = w[n - c + j]
      <4> SUFFICES ASSUME NEW j \in 1..c
                   PROVE  v[j] = w[n - c + j]
        OBVIOUS
      <4>1. Len(y) - c + j \in 1..(n - old) /\ old + (Len(y) - c + j) = n - c + j
        BY <1>1, <1>2, <1>3, <2>1
      <4> QED
        BY <1>2, <3>3, <4>1
    <3> DEFINE h == n - c
    <3>6. h \in old..n /\ n - h = c /\ c <= c
      BY <1>3, <3>4
    <3>7. \A j \in 1..(n - h) : v[j] = w[h + j]
      BY <3>5, <3>6
    <3> HIDE DEF h
    <3> QED
      BY <3>3, <3>6, <3>7
  <2>2. CASE ~(Len(y) > c)
    <3>1. v = y /\ Len(y) <= c /\ old \in old..n
      BY <1>1, <1>2, <1>3, <1>4, <2>2
    <3> QED
      BY <1>2, <3>1
  <2> QED
    BY <2>1, <2>2
<1>6. gone \in 0..n /\ gone \in Nat /\ old \in Nat /\ old <= gone /\ n - gone \in Nat
  BY <1>1, <1>2, <1>5
<1>7. \A j \in 1..(n - gone) : gone + j \in 1..n /\ gone + j > old
  BY <1>1, <1>6
<1>8. \A j \in 1..(n - gone) : v[j] = w[gone + j] /\ w[gone + j].at > minute - Window
  BY <1>2, <1>5, <1>7
<1>9. InOrder(v)
  <2> SUFFICES ASSUME NEW i \in 1..(n - gone), NEW j \in 1..(n - gone), i <= j
               PROVE  v[i].at <= v[j].at
    BY <1>5 DEF InOrder
  <2>1. gone + i <= gone + j
    BY <1>6
  <2> QED
    BY <1>5, <1>7, <2>1 DEF InOrder
<1>10. \A j \in 1..old : w[j].at <= minute - Window
  <2> SUFFICES ASSUME NEW j \in 1..old
               PROVE  w[j].at <= minute - Window
    OBVIOUS
  <2>1. j \in 1..n /\ ~(j > old) /\ w[j].at \in Nat
    BY <1>1, <1>2
  <2>2. ~(w[j].at > minute - Window)
    BY <1>2, <2>1
  <2> QED
    BY <2>1, <2>2, CorrelationAssumption
<1>11. \/ \A j \in 1..gone : w[j].at <= minute - Window
       \/ Len(v) = c
  BY <1>5, <1>10
<1>12. gone > 0 /\ Len(v) < c => w[1].at <= minute - Window
  <2> SUFFICES ASSUME gone > 0, Len(v) < c
               PROVE  w[1].at <= minute - Window
    OBVIOUS
  <2>1. gone = old
    BY <1>3, <1>5, <1>6
  <2>2. 1 \in 1..old
    BY <1>6, <2>1
  <2> QED
    BY <1>10, <2>2
<1> QED
  BY <1>5, <1>6, <1>8, <1>9, <1>11, <1>12 DEF v, c

\* What a search collected of the first i events: for each stage the first event
\* that is in it after the one before, as far as there is one.
Greedy(stages, w, f, i) ==
  /\ f \in Seq(Nat) /\ Len(f) <= Len(stages)
  /\ \A k \in 1..Len(f) : f[k] \in 1..i /\ Correlation!Is(w[f[k]], stages[k])
  /\ \A k \in 2..Len(f) : f[k - 1] < f[k]
  /\ \A k \in 1..Len(stages), j \in 1..i :
        k <= Len(f) + 1 /\ Correlation!Is(w[j], stages[k]) /\ (k = 1 \/ f[k - 1] < j)
        => k <= Len(f) /\ f[k] <= j

LEMMA OneMoreEvent ==
  ASSUME NEW stages, NEW w, NEW f, NEW i, i \in Nat \ {0}, Len(stages) \in Nat,
         Greedy(stages, w, f, i - 1)
  PROVE  Greedy(stages, w,
                IF Len(f) < Len(stages) /\ Correlation!Is(w[i], stages[Len(f) + 1])
                THEN Append(f, i) ELSE f,
                i)
<1> DEFINE L == Len(f)
           n == Len(stages)
           in(j, k) == Correlation!Is(w[j], stages[k])
<1>1. /\ f \in Seq(Nat) /\ L \in Nat /\ L <= n /\ n \in Nat /\ i \in Nat
      /\ \A k \in 1..L : f[k] \in 1..(i - 1) /\ in(f[k], k)
      /\ \A k \in 2..L : f[k - 1] < f[k]
      /\ \A k \in 1..n, j \in 1..(i - 1) :
            k <= L + 1 /\ in(j, k) /\ (k = 1 \/ f[k - 1] < j) => k <= L /\ f[k] <= j
  BY DEF Greedy
<1>2. \A k \in 1..L : f[k] \in 1..i /\ f[k] <= i
  BY <1>1
<1>3. \A j \in 1..i : j \in 1..(i - 1) \/ j = i
  BY <1>1
<1>4. CASE L < n /\ in(i, L + 1)
  <2> DEFINE e == Append(f, i)
  <2>1. /\ e \in Seq(Nat) /\ Len(e) = L + 1 /\ e[L + 1] = i
        /\ \A k \in 1..L : e[k] = f[k]
    BY <1>1, AppendProperties
  <2> HIDE DEF e
  <2>2. \A k \in 1..(L + 1) : e[k] \in 1..i /\ in(e[k], k)
    <3> SUFFICES ASSUME NEW k \in 1..(L + 1)
                 PROVE  e[k] \in 1..i /\ in(e[k], k)
      OBVIOUS
    <3>1. CASE k = L + 1
      BY <1>1, <1>4, <2>1, <3>1
    <3>2. CASE k \in 1..L
      <4>1. e[k] = f[k] /\ f[k] \in 1..i /\ in(f[k], k)
        BY <1>1, <1>2, <2>1, <3>2
      <4> HIDE DEF in
      <4> QED
        BY <4>1
    <3> QED
      BY <1>1, <3>1, <3>2
  <2>3. \A k \in 2..(L + 1) : e[k - 1] < e[k]
    <3> SUFFICES ASSUME NEW k \in 2..(L + 1)
                 PROVE  e[k - 1] < e[k]
      OBVIOUS
    <3>1. k - 1 \in 1..L /\ e[k - 1] = f[k - 1] /\ f[k - 1] \in 1..(i - 1)
      BY <1>1, <2>1
    <3>2. CASE k = L + 1
      BY <1>1, <2>1, <3>1, <3>2
    <3>3. CASE k \in 2..L
      <4>1. k \in 1..L
        BY <3>3
      <4> QED
        BY <1>1, <2>1, <3>1, <3>3, <4>1
    <3> QED
      BY <1>1, <3>2, <3>3
  <2>4. ASSUME NEW k \in 1..n, NEW j \in 1..i, k <= L + 2, in(j, k), k = 1 \/ e[k - 1] < j
        PROVE  k <= L + 1 /\ e[k] <= j
    <3> HIDE DEF in
    <3>1. CASE k \in 1..L
      <4>1. e[k] = f[k] /\ f[k] \in 1..(i - 1) /\ k \in Nat /\ k <= L + 1
        BY <1>1, <2>1, <3>1
      <4>2. k = 1 \/ e[k - 1] = f[k - 1]
        <5>1. k = 1 \/ k - 1 \in 1..L
          BY <1>1, <3>1
        <5> QED
          BY <2>1, <5>1
      <4>3. CASE j \in 1..(i - 1)
        BY <1>1, <2>4, <4>1, <4>2, <4>3
      <4>4. CASE j = i
        BY <1>1, <4>1, <4>4
      <4> QED
        BY <1>3, <4>3, <4>4
    <3>2. CASE k = L + 1
      <4>1. k = 1 \/ f[k - 1] < j
        <5>1. k = 1 \/ (k - 1 \in 1..L /\ e[k - 1] = f[k - 1])
          BY <1>1, <2>1, <3>2
        <5> QED
          BY <2>4, <5>1
      <4>2. j \notin 1..(i - 1)
        BY <1>1, <2>4, <3>2, <4>1
      <4> QED
        BY <1>1, <1>3, <2>1, <3>2, <4>2
    <3>3. CASE k = L + 2
      <4>1. k - 1 = L + 1 /\ k # 1
        BY <1>1, <3>3
      <4> QED
        BY <1>1, <2>1, <2>4, <4>1
    <3> QED
      BY <1>1, <2>4, <3>1, <3>2, <3>3
  <2>5. Greedy(stages, w, e, i)
    <3>1. Len(e) <= n
      BY <1>1, <1>4, <2>1
    <3>2. \A k \in 1..n, j \in 1..i :
            k <= Len(e) + 1 /\ in(j, k) /\ (k = 1 \/ e[k - 1] < j) => k <= Len(e) /\ e[k] <= j
      <4>1. Len(e) + 1 = L + 2
        BY <1>1, <2>1
      <4> HIDE DEF in
      <4> QED
        BY <2>1, <2>4, <4>1
    <3> QED
      BY <2>1, <2>2, <2>3, <3>1, <3>2 DEF Greedy
  <2> QED
    BY <1>4, <2>5 DEF e
<1>5. CASE ~(L < n /\ in(i, L + 1))
  <2>1. ASSUME NEW k \in 1..n, NEW j \in 1..i, k <= L + 1, in(j, k), k = 1 \/ f[k - 1] < j
        PROVE  k <= L /\ f[k] <= j
    <3> HIDE DEF in
    <3>1. CASE j \in 1..(i - 1)
      BY <1>1, <2>1, <3>1
    <3>2. CASE j = i
      <4>1. k # L + 1
        BY <1>1, <1>5, <2>1, <3>2
      <4>2. k \in 1..L
        BY <1>1, <2>1, <4>1
      <4> QED
        BY <1>2, <3>2, <4>2
    <3> QED
      BY <1>3, <3>1, <3>2
  <2>2. Greedy(stages, w, f, i)
    BY <1>1, <1>2, <2>1 DEF Greedy
  <2> QED
    BY <1>5, <2>2
<1> QED
  BY <1>4, <1>5

LEMMA CollectedIs ==
  ASSUME NEW rule, NEW w, Len(rule.stages) \in Nat, Len(w) \in Nat
  PROVE  Greedy(rule.stages, w, Correlation!Collected(rule, w), Len(w))
<1> DEFINE n == Len(w)
           take(found, i) ==
             IF Len(found) < Len(rule.stages)
                   /\ Correlation!Is(w[i], rule.stages[Len(found) + 1])
             THEN Append(found, i) ELSE found
           g == [x \in Seq(Nat) \X (1..n) |-> take(x[1], x[2])]
           after == CHOOSE f : f = [i \in 0..n |-> IF i = 0 THEN <<>> ELSE take(f[i - 1], i)]
           G == {i \in 0..n : Greedy(rule.stages, w, after[i], i)}
<1>1. after = [i \in 0..n |-> IF i = 0 THEN <<>> ELSE take(after[i - 1], i)]
  <2>1. g \in [Seq(Nat) \X (1..n) -> Seq(Nat)]
    <3> SUFFICES ASSUME NEW x \in Seq(Nat) \X (1..n)
                 PROVE  take(x[1], x[2]) \in Seq(Nat)
      OBVIOUS
    <3>1. x[1] \in Seq(Nat) /\ x[2] \in Nat
      OBVIOUS
    <3> QED
      BY <3>1, AppendProperties
  <2>2. <<>> \in Seq(Nat)
    OBVIOUS
  <2>3. PICK f \in [0..n -> Seq(Nat)] : /\ f[0] = <<>>
                                       /\ \A i \in 1..n : f[i] = g[<<f[i - 1], i>>]
    <3> DEFINE S == Seq(Nat)
               start == <<>>
    <3>1. Loop(n, S, start, g)
      BY <2>1, <2>2 DEF Loop
    <3> HIDE DEF g, S, start, n
    <3>2. \E f \in [0..n -> S] : f[0] = start /\ \A i \in 1..n : f[i] = g[<<f[i - 1], i>>]
      BY <3>1, LoopExists
    <3> QED
      BY <3>2 DEF S, start
  <2>4. \A i \in 1..n : f[i] = take(f[i - 1], i)
    <3> SUFFICES ASSUME NEW i \in 1..n
                 PROVE  f[i] = take(f[i - 1], i)
      OBVIOUS
    <3>1. i - 1 \in 0..n
      OBVIOUS
    <3>2. <<f[i - 1], i>> \in Seq(Nat) \X (1..n)
      BY <3>1
    <3> QED
      BY <2>3, <3>2
  <2>5. f = [i \in 0..n |-> IF i = 0 THEN <<>> ELSE take(f[i - 1], i)]
    <3> HIDE DEF take
    <3> QED
      BY <2>3, <2>4
  <2> QED
    BY <2>5
<1>2. Correlation!Collected(rule, w) = after[n]
  BY DEF Correlation!Collected
<1> HIDE DEF after
<1>3. after[0] = <<>> /\ \A i \in 1..n : after[i] = take(after[i - 1], i)
  <2> HIDE DEF take
  <2>1. 0 \in 0..n /\ \A i \in 1..n : i \in 0..n /\ i # 0
    OBVIOUS
  <2> QED
    BY <1>1, <2>1
<1>4. 0 \in G
  <2>1. Greedy(rule.stages, w, after[0], 0)
    BY <1>3 DEF Greedy
  <2> QED
    BY <2>1
<1>5. ASSUME NEW i \in 1..n, i - 1 \in G
      PROVE  i \in G
  <2>1. Greedy(rule.stages, w, after[i - 1], i - 1) /\ i \in Nat \ {0}
    BY <1>5
  <2>2. Greedy(rule.stages, w, take(after[i - 1], i), i)
    BY <2>1, OneMoreEvent
  <2> HIDE DEF take
  <2> QED
    BY <1>3, <2>2
<1>6. n \in G
  <2>1. G \in SUBSET (0..n)
    OBVIOUS
  <2> HIDE DEF G
  <2>2. \A i \in 0..n : i \in G
    BY <1>4, <1>5, <2>1, UpTo
  <2> QED
    BY <2>2
<1> QED
  BY <1>2, <1>6

RuleName6 == {"COR001", "COR002", "COR003", "COR004", "COR005", "COR006"}

LEMMA CorrelationRules ==
  /\ Correlation!RuleIds = RuleName6
  /\ \A id \in RuleName6 : /\ Len(Correlation!Rules[id].stages) \in {2, 3}
                           /\ Correlation!Rules[id].window \in Nat
<1>1. Correlation!RuleIds = RuleName6
  BY DEF Correlation!RuleIds, Correlation!Rules, RuleName6
<1>2. ASSUME NEW id \in RuleName6
      PROVE  /\ Len(Correlation!Rules[id].stages) \in {2, 3}
             /\ Correlation!Rules[id].window \in Nat
  BY DEF RuleName6, Correlation!Rules, Correlation!Rule
<1> QED
  BY <1>1, <1>2

\* A chain of a rule that starts from the first event of its first stage.
FirstChain(rule, w, chain) ==
  /\ chain \in Correlation!Chains(rule, w)
  /\ \A i \in 1..(chain[1] - 1) : ~Correlation!Is(w[i], rule.stages[1])
  /\ w[chain[Len(rule.stages)]].at - w[chain[1]].at <= rule.window

LEMMA FiresThenChain ==
  ASSUME NEW id \in RuleName6, NEW w, InOrder(w), Correlation!Fires(Correlation!Rules[id], w)
  PROVE  FirstChain(Correlation!Rules[id], w, Correlation!Collected(Correlation!Rules[id], w))
<1> DEFINE rule == Correlation!Rules[id]
           n == Len(rule.stages)
           f == Correlation!Collected(rule, w)
<1>1. /\ Len(w) \in Nat /\ n \in {2, 3} /\ n \in Nat
  BY InOrderIs, CorrelationRules
<1>2. Greedy(rule.stages, w, f, Len(w))
  <2> HIDE DEF rule
  <2> QED
    BY <1>1, CollectedIs
<1>3. Len(f) = n /\ w[f[n]].at - w[f[1]].at <= rule.window
  BY DEF Correlation!Fires
<1> HIDE DEF f, rule
<1>4. /\ f \in [1..n -> Nat]
      /\ \A k \in 1..n : f[k] \in 1..Len(w) /\ Correlation!Is(w[f[k]], rule.stages[k])
      /\ \A k \in 2..n : f[k - 1] < f[k]
      /\ \A j \in 1..Len(w) : Correlation!Is(w[j], rule.stages[1]) => f[1] <= j
  <2>1. f \in Seq(Nat)
    BY <1>2 DEF Greedy
  <2>2. 1 \in 1..n /\ 1 <= n + 1
    <3> HIDE DEF n
    <3> QED
      BY <1>1
  <2> QED
    <3>1. f \in [1..n -> Nat]
      BY <1>3, <2>1, LenProperties
    <3>2. /\ \A k \in 1..n : f[k] \in 1..Len(w) /\ Correlation!Is(w[f[k]], rule.stages[k])
          /\ \A k \in 2..n : f[k - 1] < f[k]
      BY <1>2, <1>3 DEF Greedy
    <3>3. \A j \in 1..Len(w) : Correlation!Is(w[j], rule.stages[1]) => f[1] <= j
      BY <1>1, <1>2, <1>3, <2>2 DEF Greedy
    <3> QED
      BY <3>1, <3>2, <3>3
<1>5. f \in Correlation!Chains(rule, w)
  BY <1>4 DEF Correlation!Chains
<1>6. \A i \in 1..(f[1] - 1) : ~Correlation!Is(w[i], rule.stages[1])
  <2>1. f[1] \in 1..Len(w)
    BY <1>1, <1>4
  <2> SUFFICES ASSUME NEW i \in 1..(f[1] - 1)
               PROVE  ~Correlation!Is(w[i], rule.stages[1])
    OBVIOUS
  <2>2. i \in 1..Len(w) /\ ~(f[1] <= i)
    BY <1>1, <2>1
  <2> QED
    BY <1>4, <2>2
<1>7. FirstChain(rule, w, f)
  BY <1>3, <1>5, <1>6 DEF FirstChain
<1> QED
  BY <1>7 DEF rule, f

LEMMA ChainThenFires ==
  ASSUME NEW id \in RuleName6, NEW w, InOrder(w), NEW chain,
         FirstChain(Correlation!Rules[id], w, chain)
  PROVE  Correlation!Fires(Correlation!Rules[id], w)
<1> DEFINE rule == Correlation!Rules[id]
           n == Len(rule.stages)
           f == Correlation!Collected(rule, w)
           G == {k \in 0..n : k = 0 \/ (k <= Len(f) /\ f[k] <= chain[k])}
<1>1. /\ Len(w) \in Nat /\ n \in {2, 3} /\ n \in Nat /\ rule.window \in Nat
      /\ \A i \in 1..Len(w) : w[i].at \in Nat
      /\ \A i, j \in 1..Len(w) : i <= j => w[i].at <= w[j].at
  BY InOrderIs, CorrelationRules DEF InOrder
<1>2. Greedy(rule.stages, w, f, Len(w))
  <2> HIDE DEF rule
  <2> QED
    BY <1>1, CollectedIs
<1>3. FirstChain(rule, w, chain)
  OBVIOUS
<1>4. Correlation!Fires(rule, w) <=> /\ Len(w) >= n /\ Len(f) = n
                                     /\ w[f[n]].at - w[f[1]].at <= rule.window
  BY DEF Correlation!Fires
<1> HIDE DEF f, rule, n
<1>5. /\ \A k \in 1..n : chain[k] \in 1..Len(w) /\ Correlation!Is(w[chain[k]], rule.stages[k])
      /\ \A k \in 2..n : chain[k - 1] < chain[k]
      /\ \A i \in 1..(chain[1] - 1) : ~Correlation!Is(w[i], rule.stages[1])
      /\ w[chain[n]].at - w[chain[1]].at <= rule.window
  BY <1>3 DEF FirstChain, Correlation!Chains, n
<1>6. /\ Len(f) \in Nat /\ Len(f) <= n
      /\ \A k \in 1..Len(f) : f[k] \in 1..Len(w) /\ Correlation!Is(w[f[k]], rule.stages[k])
      /\ \A k \in 2..Len(f) : f[k - 1] < f[k]
      /\ \A k \in 1..n, j \in 1..Len(w) :
            k <= Len(f) + 1 /\ Correlation!Is(w[j], rule.stages[k]) /\ (k = 1 \/ f[k - 1] < j)
            => k <= Len(f) /\ f[k] <= j
  BY <1>2 DEF Greedy, n
<1>7. ASSUME NEW k \in 1..n, k - 1 \in G
      PROVE  k \in G
  <2>1. k - 1 = 0 \/ (k - 1 <= Len(f) /\ f[k - 1] <= chain[k - 1])
    BY <1>7
  <2>2. k = 1 \/ f[k - 1] < chain[k]
    <3>1. CASE k # 1
      <4>1. k \in 2..n /\ k - 1 \in 1..n /\ k - 1 \in 1..Len(f)
        BY <1>1, <1>6, <2>1, <3>1
      <4>2. /\ chain[k - 1] < chain[k] /\ chain[k - 1] \in Int /\ chain[k] \in Int
            /\ f[k - 1] \in Int
        BY <1>5, <1>6, <4>1
      <4> QED
        BY <2>1, <3>1, <4>2
    <3> QED
      BY <3>1
  <2>3. k <= Len(f) + 1
    BY <1>1, <1>6, <2>1
  <2>4. k <= Len(f) /\ f[k] <= chain[k]
    BY <1>5, <1>6, <2>2, <2>3
  <2> QED
    BY <2>4
<1>8. \A k \in 0..n : k \in G
  <2>1. G \in SUBSET (0..n) /\ 0 \in G
    BY <1>1
  <2> HIDE DEF G
  <2> QED
    BY <1>1, <1>7, <2>1, UpTo
<1>9. \A k \in 1..n : k <= Len(f) /\ f[k] <= chain[k]
  BY <1>8
<1>10. 1 \in 1..n /\ n \in 1..n /\ 2 \in 1..n /\ 2 \in 2..n
  BY <1>1
<1>11. Len(f) = n
  BY <1>6, <1>9, <1>10
<1>12. /\ f[1] \in 1..Len(w) /\ f[n] \in 1..Len(w) /\ chain[n] \in 1..Len(w)
       /\ chain[1] \in 1..Len(w) /\ f[n] <= chain[n] /\ f[1] <= chain[1]
  BY <1>5, <1>6, <1>9, <1>10, <1>11
<1>13. f[1] = chain[1]
  <2>1. CASE f[1] < chain[1]
    <3>1. f[1] \in 1..(chain[1] - 1)
      BY <1>1, <1>12, <2>1
    <3> QED
      BY <1>5, <1>6, <1>10, <1>11, <3>1
  <2> QED
    BY <1>12, <2>1
<1>14. w[f[n]].at <= w[chain[n]].at
  BY <1>1, <1>12
<1>15. w[f[n]].at - w[f[1]].at <= rule.window
  <2> DEFINE x == w[f[n]].at
             y == w[chain[n]].at
             z == w[f[1]].at
  <2>1. x \in Nat /\ y \in Nat /\ z \in Nat
    BY <1>1, <1>12
  <2>2. x <= y /\ y - z <= rule.window
    BY <1>5, <1>13, <1>14
  <2> HIDE DEF x, y, z
  <2>3. x - z <= rule.window
    BY <1>1, <2>1, <2>2
  <2> QED
    BY <2>3 DEF x, z
<1>16. Len(w) >= n
  <2>1. f[1] < f[2] /\ f[2] \in 1..Len(w)
    <3>1. 2 - 1 = 1
      OBVIOUS
    <3> QED
      BY <1>6, <1>10, <1>11, <3>1
  <2>2. CASE n = 2
    BY <1>1, <1>12, <2>1, <2>2
  <2>3. CASE n = 3
    <3>1. 3 \in 2..n /\ 3 \in 1..n /\ 3 - 1 = 2
      BY <2>3
    <3>2. f[2] < f[3] /\ f[3] \in 1..Len(w)
      BY <1>6, <1>11, <3>1
    <3> QED
      BY <1>1, <1>12, <2>1, <2>3, <3>2
  <2> QED
    BY <1>1, <2>2, <2>3
<1> QED
  BY <1>4, <1>11, <1>15, <1>16 DEF rule

\* A rule that fires goes on firing while the event it starts from stays.
LEMMA ShiftedFires ==
  ASSUME NEW id \in RuleName6, NEW w, InOrder(w), Correlation!Fires(Correlation!Rules[id], w),
         NEW gone \in Nat, NEW v, InOrder(v), Len(v) = Len(w) + 1 - gone,
         \A j \in 1..Len(v) : gone + j \in 1..Len(w) => v[j] = w[gone + j],
         Correlation!Collected(Correlation!Rules[id], w)[1] > gone
  PROVE  Correlation!Fires(Correlation!Rules[id], v)
<1> DEFINE rule == Correlation!Rules[id]
           n == Len(rule.stages)
           f == Correlation!Collected(rule, w)
           c == [k \in 1..n |-> f[k] - gone]
<1>1. FirstChain(rule, w, f) /\ f[1] > gone
  BY FiresThenChain
<1>2. n \in {2, 3} /\ n \in Nat /\ Len(w) \in Nat /\ Len(v) \in Nat
  BY InOrderIs, CorrelationRules
<1> HIDE DEF f, rule, n
<1>3. /\ f \in [1..n -> 1..Len(w)]
      /\ \A k \in 1..n : Correlation!Is(w[f[k]], rule.stages[k])
      /\ \A k \in 2..n : f[k - 1] < f[k]
      /\ \A i \in 1..(f[1] - 1) : ~Correlation!Is(w[i], rule.stages[1])
      /\ w[f[n]].at - w[f[1]].at <= rule.window
  BY <1>1 DEF FirstChain, Correlation!Chains, n
<1>4. 1 \in 1..n /\ n \in 1..n /\ 2 \in 1..n /\ 2 \in 2..n /\ 2 - 1 = 1
  BY <1>2
<1>5. \A k \in 1..n : f[1] <= f[k]
  <2> SUFFICES ASSUME NEW k \in 1..n
               PROVE  f[1] <= f[k]
    OBVIOUS
  <2>1. f[1] < f[2] /\ f[1] \in Nat /\ f[2] \in Nat
    <3>1. f[1] \in 1..Len(w) /\ f[2] \in 1..Len(w)
      BY <1>3, <1>4
    <3>2. f[2 - 1] < f[2]
      BY <1>3, <1>4
    <3> QED
      BY <1>2, <1>4, <3>1, <3>2
  <2>2. CASE k = 3
    <3>1. 3 \in 2..n /\ 3 - 1 = 2
      BY <1>2, <2>2
    <3>2. f[2] < f[3] /\ f[3] \in Nat
      BY <1>3, <2>2, <3>1
    <3> QED
      BY <2>1, <2>2, <3>2
  <2>3. k = 1 \/ k = 2 \/ k = 3
    BY <1>2
  <2> QED
    BY <2>1, <2>2, <2>3
<1>6. \A k \in 1..n : f[k] - gone \in 1..Len(v) /\ v[f[k] - gone] = w[f[k]]
  <2> SUFFICES ASSUME NEW k \in 1..n
               PROVE  f[k] - gone \in 1..Len(v) /\ v[f[k] - gone] = w[f[k]]
    OBVIOUS
  <2>1. f[k] \in 1..Len(w) /\ f[k] > gone /\ f[k] \in Nat
    <3>1. f[k] \in 1..Len(w) /\ f[1] \in 1..Len(w)
      BY <1>3, <1>4
    <3> QED
      BY <1>1, <1>2, <1>5, <3>1
  <2>2. f[k] - gone \in 1..Len(v) /\ gone + (f[k] - gone) = f[k]
    BY <1>2, <2>1
  <2> QED
    BY <2>1, <2>2
<1>7. c \in [1..n -> 1..Len(v)] /\ \A k \in 1..n : c[k] = f[k] - gone
  BY <1>6
<1> HIDE DEF c
<1>8. \A k \in 1..n : Correlation!Is(v[c[k]], rule.stages[k])
  BY <1>3, <1>6, <1>7
<1>9. \A k \in 2..n : c[k - 1] < c[k]
  <2> SUFFICES ASSUME NEW k \in 2..n
               PROVE  c[k - 1] < c[k]
    OBVIOUS
  <2>1. k \in 1..n /\ k - 1 \in 1..n
    BY <1>2
  <2>2. f[k - 1] < f[k] /\ f[k] \in Nat /\ f[k - 1] \in Nat
    BY <1>3, <2>1
  <2> QED
    BY <1>7, <2>1, <2>2
<1>10. \A i \in 1..(c[1] - 1) : ~Correlation!Is(v[i], rule.stages[1])
  <2> SUFFICES ASSUME NEW i \in 1..(c[1] - 1)
               PROVE  ~Correlation!Is(v[i], rule.stages[1])
    OBVIOUS
  <2>1. c[1] = f[1] - gone /\ f[1] \in 1..Len(w) /\ c[1] \in 1..Len(v)
    BY <1>3, <1>4, <1>6, <1>7
  <2>2. gone + i \in 1..(f[1] - 1) /\ gone + i \in 1..Len(w) /\ i \in 1..Len(v)
    BY <1>2, <2>1
  <2>3. v[i] = w[gone + i]
    BY <2>2
  <2> QED
    BY <1>3, <2>2, <2>3
<1>11. v[c[n]].at - v[c[1]].at <= rule.window
  BY <1>3, <1>4, <1>6, <1>7
<1>12. FirstChain(rule, v, c)
  BY <1>7, <1>8, <1>9, <1>10, <1>11 DEF FirstChain, Correlation!Chains, n
<1> QED
  BY <1>12, ChainThenFires DEF rule

\* Where the events of a window are in the history.
History == [key : Sessions, event : Entry]

Recorded(h, m) ==
  /\ h \in Seq(History)
  /\ \A i \in 1..Len(h) : h[i].event.at <= m
  /\ \A i, j \in 1..Len(h) : i <= j => h[i].event.at <= h[j].event.at

DueIn(h, key, m) == {i \in 1..Len(h) : h[i].key = key /\ h[i].event.at > m - Window}

Places(h, w, D, cap, place) ==
  /\ place \in [1..Len(w) -> D]
  /\ \A i \in 1..Len(w) : h[place[i]].event = w[i]
  /\ \A i, j \in 1..Len(w) : i < j => place[i] < place[j]
  /\ \A d \in D : \/ \E i \in 1..Len(w) : place[i] = d
                  \/ Len(w) >= cap /\ d < place[1]

LEMMA RecordedIs ==
  ASSUME NEW h, NEW m, Recorded(h, m)
  PROVE  /\ Len(h) \in Nat /\ DOMAIN h = 1..Len(h)
         /\ \A i \in 1..Len(h) : /\ h[i] \in History /\ h[i].event \in Entry
                                 /\ h[i].event.at \in Nat
<1>1. h \in Seq(History)
  BY DEF Recorded
<1>2. \A i \in 1..Len(h) : h[i] \in History
  BY <1>1, ElementOfSeq
<1>3. \A x \in History : x.event \in Entry
  BY DEF History
<1> QED
  BY <1>1, <1>2, <1>3, EntryHasTime, LenProperties

\* A window that is cut again holds what is due at the later time.
LEMMA CutAgain ==
  ASSUME minute \in Nat, NEW h, Recorded(h, minute), NEW key, NEW m \in Nat, m <= minute,
         NEW u, InOrder(u), NEW place, Places(h, u, DueIn(h, key, m), Correlation!Cap, place)
  PROVE  /\ InOrder(Correlation!Expire(u))
         /\ Len(Correlation!Expire(u)) <= Correlation!Cap
         /\ \E p : Places(h, Correlation!Expire(u), DueIn(h, key, minute), Correlation!Cap, p)
<1> DEFINE v == Correlation!Expire(u)
           c == Correlation!Cap
           D == DueIn(h, key, m)
           E == DueIn(h, key, minute)
<1>1. PICK gone \in 0..Len(u) :
         /\ InOrder(v)
         /\ Len(v) = Len(u) - gone
         /\ Len(v) <= c
         /\ \A j \in 1..Len(v) : v[j] = u[gone + j] /\ u[gone + j].at > minute - Window
         /\ \/ \A j \in 1..gone : u[j].at <= minute - Window
            \/ Len(v) = c
         /\ gone > 0 /\ Len(v) < c => u[1].at <= minute - Window
  BY ExpireIs
<1>2. c \in Nat \ {0}
  BY CorrelationAssumption DEF Correlation!Cap
<1>3. /\ Len(u) \in Nat /\ Len(v) \in Nat /\ gone \in Nat
      /\ \A i \in 1..Len(u) : u[i].at \in Nat
  BY <1>1, InOrderIs
<1>4. /\ Len(h) \in Nat
      /\ \A i \in 1..Len(h) : h[i].event.at \in Nat
      /\ \A i, j \in 1..Len(h) : i <= j => h[i].event.at <= h[j].event.at
  BY RecordedIs DEF Recorded
<1>5. /\ place \in [1..Len(u) -> D]
      /\ \A i \in 1..Len(u) : h[place[i]].event = u[i]
      /\ \A i, j \in 1..Len(u) : i < j => place[i] < place[j]
      /\ \A d \in D : \/ \E i \in 1..Len(u) : place[i] = d
                      \/ Len(u) >= c /\ d < place[1]
  BY DEF Places
<1>6. /\ D = {i \in 1..Len(h) : h[i].key = key /\ h[i].event.at > m - Window}
      /\ E = {i \in 1..Len(h) : h[i].key = key /\ h[i].event.at > minute - Window}
  BY DEF DueIn
<1> HIDE DEF v, c, D, E
<1>7. E \subseteq D
  <2> SUFFICES ASSUME NEW i \in E
               PROVE  i \in D
    OBVIOUS
  <2>1. i \in 1..Len(h) /\ h[i].key = key /\ h[i].event.at > minute - Window
    BY <1>6
  <2>2. h[i].event.at > m - Window
    BY <1>4, <2>1, CorrelationAssumption
  <2> QED
    BY <1>6, <2>1, <2>2
<1> DEFINE p == [i \in 1..Len(v) |-> place[gone + i]]
<1>8. \A i \in 1..Len(v) : gone + i \in 1..Len(u)
  BY <1>1, <1>3
<1>9. \A i \in 1..Len(u) : place[i] \in D /\ place[i] \in 1..Len(h)
  BY <1>5, <1>6
<1>10. \A i \in 1..Len(v) : place[gone + i] \in E /\ h[place[gone + i]].event = v[i]
  <2> SUFFICES ASSUME NEW i \in 1..Len(v)
               PROVE  place[gone + i] \in E /\ h[place[gone + i]].event = v[i]
    OBVIOUS
  <2>1. h[place[gone + i]].event = u[gone + i] /\ v[i] = u[gone + i] /\ v[i].at > minute - Window
    BY <1>1, <1>5, <1>8
  <2>2. place[gone + i] \in 1..Len(h) /\ h[place[gone + i]].key = key
    BY <1>6, <1>8, <1>9
  <2> QED
    BY <1>6, <2>1, <2>2
<1>11. p \in [1..Len(v) -> E] /\ \A i \in 1..Len(v) : p[i] = place[gone + i]
  BY <1>10
<1> HIDE DEF p
<1>12. ASSUME NEW i \in 1..Len(v), NEW j \in 1..Len(v), i < j
       PROVE  p[i] < p[j]
  <2>1. gone + i < gone + j
    BY <1>3, <1>12
  <2> QED
    BY <1>5, <1>8, <1>11, <2>1
<1>13. ASSUME NEW d \in E
       PROVE  \/ \E i \in 1..Len(v) : p[i] = d
              \/ Len(v) >= c /\ d < p[1]
  <2>1. d \in D /\ d \in 1..Len(h) /\ h[d].event.at > minute - Window
    BY <1>6, <1>7
  <2>2. ASSUME NEW i \in 1..Len(u), place[i] = d
        PROVE  \/ \E k \in 1..Len(v) : p[k] = d
               \/ Len(v) >= c /\ d < p[1]
    <3>1. CASE i > gone
      <4>1. i - gone \in 1..Len(v) /\ gone + (i - gone) = i
        BY <1>1, <1>3, <3>1
      <4>2. p[i - gone] = d
        BY <1>11, <2>2, <4>1
      <4> QED
        BY <4>1, <4>2
    <3>2. CASE ~(i > gone)
      <4>1. i \in 1..gone /\ u[i].at \in Nat
        BY <1>3, <3>2
      <4>2. u[i].at > minute - Window
        BY <1>5, <2>1, <2>2
      <4>3. ~(u[i].at <= minute - Window)
        BY <4>1, <4>2, CorrelationAssumption
      <4>4. Len(v) = c
        BY <1>1, <4>1, <4>3
      <4>5. 1 \in 1..Len(v) /\ i < gone + 1
        BY <1>2, <1>3, <4>1, <4>4
      <4>6. p[1] = place[gone + 1] /\ gone + 1 \in 1..Len(u)
        BY <1>8, <1>11, <4>5
      <4>7. d < p[1]
        BY <1>5, <2>2, <4>5, <4>6
      <4> QED
        BY <1>2, <4>4, <4>7
    <3> QED
      BY <3>1, <3>2
  <2>3. CASE Len(u) >= c /\ d < place[1]
    <3>1. 1 \in 1..Len(u) /\ place[1] \in 1..Len(h) /\ h[place[1]].event = u[1]
      BY <1>2, <1>3, <1>5, <1>9, <2>3
    <3>2. CASE Len(v) < c
      <4>1. gone > 0
        BY <1>1, <1>2, <1>3, <2>3, <3>2
      <4>2. u[1].at <= minute - Window
        BY <1>1, <3>2, <4>1
      <4>3. h[d].event.at <= u[1].at
        <5>1. d <= place[1]
          BY <1>4, <2>1, <2>3, <3>1
        <5> QED
          BY <1>4, <2>1, <3>1, <5>1
      <4>4. h[d].event.at \in Nat /\ u[1].at \in Nat
        BY <1>3, <1>4, <2>1, <3>1
      <4> QED
        BY <2>1, <4>2, <4>3, <4>4, CorrelationAssumption
    <3>3. CASE ~(Len(v) < c)
      <4>1. Len(v) >= c /\ 1 \in 1..Len(v)
        BY <1>2, <1>3, <3>3
      <4>2. p[1] = place[gone + 1] /\ gone + 1 \in 1..Len(u) /\ place[gone + 1] \in 1..Len(h)
        BY <1>8, <1>9, <1>11, <4>1
      <4>3. gone = 0 \/ place[1] < place[gone + 1]
        <5>1. gone = 0 \/ 1 < gone + 1
          BY <1>3
        <5> QED
          BY <1>5, <3>1, <4>2, <5>1
      <4>4. d < p[1]
        BY <1>4, <2>1, <2>3, <3>1, <4>2, <4>3
      <4> QED
        BY <4>1, <4>4
    <3> QED
      BY <3>2, <3>3
  <2> QED
    BY <1>5, <2>1, <2>2, <2>3
<1>14. Places(h, v, E, c, p)
  BY <1>10, <1>11, <1>12, <1>13 DEF Places
<1> QED
  BY <1>1, <1>14 DEF v, c, E

LEMMA RecordGrows ==
  ASSUME NEW m \in Nat, NEW h, Recorded(h, m), NEW r \in History, r.event.at = m
  PROVE  /\ Recorded(Append(h, r), m)
         /\ Len(Append(h, r)) = Len(h) + 1
         /\ Append(h, r)[Len(h) + 1] = r
         /\ \A i \in 1..Len(h) : Append(h, r)[i] = h[i]
<1> DEFINE n == Len(h)
           t == Append(h, r)
<1>1. n \in Nat /\ h \in Seq(History) /\ \A i \in 1..n : h[i].event.at \in Nat
  BY RecordedIs DEF Recorded
<1>2. /\ t \in Seq(History) /\ Len(t) = n + 1 /\ t[n + 1] = r
      /\ \A i \in 1..n : t[i] = h[i]
  BY <1>1, AppendProperties
<1> HIDE DEF t
<1>3. \A i \in 1..n : t[i].event.at <= m
  BY <1>2 DEF Recorded
<1>4. \A i \in 1..(n + 1) : i \in 1..n \/ i = n + 1
  BY <1>1
<1>5. \A i \in 1..(n + 1) : t[i].event.at <= m
  BY <1>2, <1>3, <1>4
<1>6. ASSUME NEW i \in 1..(n + 1), NEW j \in 1..(n + 1), i <= j
      PROVE  t[i].event.at <= t[j].event.at
  <2>1. CASE j = n + 1
    BY <1>2, <1>5, <2>1
  <2>2. CASE j \in 1..n
    <3>1. i \in 1..n
      BY <1>1, <1>6, <2>2
    <3> QED
      BY <1>2, <1>6, <2>2, <3>1 DEF Recorded
  <2> QED
    BY <1>4, <2>1, <2>2
<1>7. Recorded(t, m)
  BY <1>2, <1>5, <1>6 DEF Recorded
<1> QED
  BY <1>2, <1>7 DEF t

\* An event of another session moves nothing.
LEMMA PlaceStays ==
  ASSUME NEW m \in Nat, NEW h, Recorded(h, m), NEW r \in History, r.event.at = m,
         NEW key, r.key # key, NEW cut, NEW cap, NEW w, NEW place,
         Places(h, w, DueIn(h, key, cut), cap, place)
  PROVE  Places(Append(h, r), w, DueIn(Append(h, r), key, cut), cap, place)
<1> DEFINE n == Len(h)
           t == Append(h, r)
<1>1. /\ n \in Nat /\ Len(t) = n + 1 /\ t[n + 1] = r
      /\ \A i \in 1..n : t[i] = h[i]
  BY RecordGrows, RecordedIs
<1> HIDE DEF t, n
<1>2. DueIn(t, key, cut) = DueIn(h, key, cut) /\ DueIn(h, key, cut) \subseteq 1..n
  <2>1. \A i : i \in 1..(n + 1) <=> i \in 1..n \/ i = n + 1
    BY <1>1
  <2> QED
    BY <1>1, <2>1 DEF DueIn, n
<1>3. \A i \in 1..Len(w) : place[i] \in 1..n
  BY <1>2 DEF Places
<1>4. \A i \in 1..Len(w) : t[place[i]].event = w[i]
  BY <1>1, <1>3 DEF Places
<1>5. Places(t, w, DueIn(t, key, cut), cap, place)
  BY <1>2, <1>4 DEF Places
<1> QED
  BY <1>5 DEF t

\* An event that joins a window is the last of it and of the history.
LEMMA PlaceJoins ==
  ASSUME NEW m \in Nat, NEW h, Recorded(h, m), NEW r \in History, r.event.at = m,
         NEW cut \in Nat, cut <= m, NEW cap \in Nat \ {0}, NEW w, InOrder(w), NEW place,
         Places(h, w, DueIn(h, r.key, cut), cap, place)
  PROVE  /\ InOrder(Append(w, r.event))
         /\ \E p : Places(Append(h, r), Append(w, r.event),
                          DueIn(Append(h, r), r.key, cut), cap, p)
<1> DEFINE n == Len(h)
           t == Append(h, r)
           k == Len(w)
           u == Append(w, r.event)
           D == DueIn(h, r.key, cut)
           E == DueIn(t, r.key, cut)
           p == [i \in 1..(k + 1) |-> IF i = k + 1 THEN n + 1 ELSE place[i]]
<1>1. /\ n \in Nat /\ Len(t) = n + 1 /\ t[n + 1] = r
      /\ \A i \in 1..n : t[i] = h[i] /\ h[i].event.at <= m
  <2>1. Len(h) \in Nat /\ \A i \in 1..Len(h) : h[i].event.at <= m
    BY RecordedIs DEF Recorded
  <2>2. /\ Len(t) = Len(h) + 1 /\ t[Len(h) + 1] = r
        /\ \A i \in 1..Len(h) : t[i] = h[i]
    BY RecordGrows
  <2> QED
    BY <2>1, <2>2
<1>2. r.event \in Entry
  BY DEF History
<1>3. D \subseteq 1..n
  BY DEF DueIn
<1>4. /\ k \in Nat
      /\ place \in [1..k -> D]
      /\ \A i \in 1..k : h[place[i]].event = w[i]
      /\ \A i, j \in 1..k : i < j => place[i] < place[j]
      /\ \A d \in D : (\E i \in 1..k : place[i] = d) \/ (k >= cap /\ d < place[1])
  BY InOrderIs DEF Places
<1>5. \A i \in 1..k : w[i].at <= r.event.at
  <2> SUFFICES ASSUME NEW i \in 1..k
               PROVE  w[i].at <= r.event.at
    OBVIOUS
  <2>1. place[i] \in 1..n
    BY <1>3, <1>4
  <2> QED
    BY <1>1, <1>4, <2>1
<1>6. /\ InOrder(u) /\ Len(u) = k + 1 /\ u[k + 1] = r.event
      /\ \A i \in 1..k : u[i] = w[i]
  BY <1>2, <1>5, EntryJoins
<1>7. E = D \cup {n + 1}
  <2>1. \A i : i \in 1..(n + 1) <=> i \in 1..n \/ i = n + 1
    BY <1>1
  <2>2. r.event.at > cut - Window
    BY CorrelationAssumption
  <2> HIDE DEF t, n
  <2>3. D = {i \in 1..n : h[i].key = r.key /\ h[i].event.at > cut - Window}
    BY DEF DueIn, n
  <2>4. E = {i \in 1..(n + 1) : t[i].key = r.key /\ t[i].event.at > cut - Window}
    BY <1>1 DEF DueIn
  <2> HIDE DEF D, E
  <2>5. ASSUME NEW i \in E
        PROVE  i \in D \cup {n + 1}
    BY <1>1, <2>1, <2>3, <2>4
  <2>6. D \subseteq E
    BY <1>1, <2>1, <2>3, <2>4
  <2>7. n + 1 \in E
    BY <1>1, <2>1, <2>2, <2>4
  <2> QED
    BY <2>5, <2>6, <2>7
<1> HIDE DEF t, n, k, u, D, E
<1>8. \A i \in 1..(k + 1) : i \in 1..k \/ i = k + 1
  BY <1>4
<1>9. /\ p \in [1..(k + 1) -> E] /\ p[k + 1] = n + 1
      /\ \A i \in 1..k : p[i] = place[i] /\ place[i] \in 1..n
  <2>1. \A i \in 1..k : place[i] \in D /\ place[i] \in 1..n /\ i # k + 1
    <3>1. \A i \in 1..k : i # k + 1
      BY <1>4
    <3>2. \A i \in 1..k : place[i] \in D
      BY <1>4
    <3> QED
      BY <1>3, <3>1, <3>2
  <2>2. \A i \in 1..(k + 1) : (IF i = k + 1 THEN n + 1 ELSE place[i]) \in E
    BY <1>7, <1>8, <2>1
  <2>3. k + 1 \in 1..(k + 1) /\ \A i \in 1..k : i \in 1..(k + 1)
    BY <1>4
  <2> QED
    BY <2>1, <2>2, <2>3
<1> HIDE DEF p
<1>10. \A i \in 1..(k + 1) : t[p[i]].event = u[i]
  BY <1>1, <1>4, <1>6, <1>8, <1>9
<1>11. ASSUME NEW i \in 1..(k + 1), NEW j \in 1..(k + 1), i < j
       PROVE  p[i] < p[j]
  <2>1. i \in 1..k
    BY <1>4, <1>11
  <2>2. CASE j = k + 1
    BY <1>1, <1>9, <2>1, <2>2
  <2>3. CASE j \in 1..k
    BY <1>4, <1>9, <1>11, <2>1, <2>3
  <2> QED
    BY <1>8, <2>2, <2>3
<1>12. ASSUME NEW d \in E
       PROVE  (\E i \in 1..(k + 1) : p[i] = d) \/ (k + 1 >= cap /\ d < p[1])
  <2>1. CASE d = n + 1
    <3>1. k + 1 \in 1..(k + 1)
      BY <1>4
    <3> QED
      BY <1>9, <2>1, <3>1
  <2>2. ASSUME NEW i \in 1..k, place[i] = d
        PROVE  \E j \in 1..(k + 1) : p[j] = d
    <3>1. i \in 1..(k + 1)
      BY <1>4
    <3> QED
      BY <1>9, <2>2, <3>1
  <2>3. CASE k >= cap /\ d < place[1]
    <3>1. 1 \in 1..k /\ k + 1 >= cap
      BY <1>4, <2>3
    <3> QED
      BY <1>9, <2>3, <3>1
  <2> QED
    BY <1>4, <1>7, <2>1, <2>2, <2>3
<1>13. Places(t, u, E, cap, p)
  BY <1>6, <1>9, <1>10, <1>11, <1>12 DEF Places
<1> QED
  BY <1>6, <1>13 DEF t, u, E

WindowsKept(key) ==
  /\ InOrder(sessions[key]) /\ Len(sessions[key]) <= Correlation!Cap
  /\ \E place : Places(history, sessions[key], DueIn(history, key, expired[key]),
                       Correlation!Cap, place)

WindowsInv ==
  /\ minute \in Nat
  /\ expired \in [Sessions -> Nat] /\ \A key \in Sessions : expired[key] <= minute
  /\ Recorded(history, minute)
  /\ sessions \in [Sessions -> Seq(Entry)]
  /\ replayed \in {"none"} \cup DOMAIN Correlation!Labelled
  /\ \A key \in Sessions : WindowsKept(key)

\* What an ingested event does to the windows, and what it evaluates.
LEMMA IngestKeeps ==
  ASSUME WindowsInv, NEW key \in Sessions, NEW event \in Offered,
         Correlation!Ingest(key, event)
  PROVE  WindowsInv'
<1> DEFINE x == Correlation!Stamped(event)
           r == [key |-> key, event |-> x]
           u == Append(sessions[key], x)
           v == Correlation!Expire(u)
           c == Correlation!Cap
           h == Append(history, r)
<1>1. /\ sessions' = [sessions EXCEPT ![key] = v]
      /\ history' = h
      /\ expired' = [expired EXCEPT ![key] = minute]
      /\ minute' = minute /\ replayed' = replayed
  BY DEF Correlation!Ingest
<1>2. c \in Nat \ {0} /\ c = Correlation!Cap'
  BY <1>1, CorrelationAssumption DEF Correlation!Cap
<1>3. /\ minute \in Nat /\ expired \in [Sessions -> Nat]
      /\ \A k \in Sessions : expired[k] <= minute
      /\ Recorded(history, minute)
      /\ sessions \in [Sessions -> Seq(Entry)]
  BY DEF WindowsInv
<1>4. x \in Entry /\ x.at = minute /\ r.key = key /\ r.event = x
  <2>1. x = At(event, minute)
    BY StampedIs
  <2> HIDE DEF x
  <2>2. x \in Entry
    BY <1>3, <2>1 DEF Entry
  <2>3. x.at = minute
    BY <2>1 DEF At
  <2> QED
    BY <2>2, <2>3
<1>5. r \in History
  BY <1>4 DEF History
<1>6. PICK place : Places(history, sessions[key], DueIn(history, key, expired[key]), c, place)
  BY DEF WindowsInv, WindowsKept
<1>7. InOrder(sessions[key]) /\ expired[key] \in Nat /\ expired[key] <= minute
  BY <1>3 DEF WindowsInv, WindowsKept
<1> HIDE DEF x, r, c
<1>8. /\ InOrder(u)
      /\ \E p : Places(h, u, DueIn(h, key, expired[key]), c, p)
  <2>1. r.event.at = minute
    BY <1>4
  <2>2. Places(history, sessions[key], DueIn(history, r.key, expired[key]), c, place)
    BY <1>4, <1>6
  <2>3. /\ InOrder(Append(sessions[key], r.event))
        /\ \E p : Places(Append(history, r), Append(sessions[key], r.event),
                         DueIn(Append(history, r), r.key, expired[key]), c, p)
    BY <1>2, <1>3, <1>5, <1>7, <2>1, <2>2, PlaceJoins
  <2> QED
    BY <1>4, <2>3
<1>9. Recorded(h, minute)
  BY <1>3, <1>4, <1>5, RecordGrows
<1> HIDE DEF u, h
<1>10. /\ InOrder(v) /\ Len(v) <= c
       /\ \E p : Places(h, v, DueIn(h, key, minute), c, p)
  BY <1>3, <1>7, <1>8, <1>9, CutAgain DEF c
<1> HIDE DEF v
<1>11. sessions'[key] = v /\ expired'[key] = minute
  BY <1>1, <1>3
<1>12. WindowsKept(key)'
  BY <1>1, <1>2, <1>10, <1>11 DEF WindowsKept
<1>13. ASSUME NEW k \in Sessions, k # key
       PROVE  WindowsKept(k)'
  <2>1. sessions'[k] = sessions[k] /\ expired'[k] = expired[k]
    BY <1>1, <1>3, <1>13
  <2>2. PICK q : Places(history, sessions[k], DueIn(history, k, expired[k]), c, q)
    BY DEF WindowsInv, WindowsKept, c
  <2>3. Places(h, sessions[k], DueIn(h, k, expired[k]), c, q)
    BY <1>3, <1>4, <1>5, <1>13, <2>2, PlaceStays DEF h
  <2>4. InOrder(sessions[k]) /\ Len(sessions[k]) <= c
    BY DEF WindowsInv, WindowsKept, c
  <2> QED
    BY <1>1, <1>2, <2>1, <2>3, <2>4 DEF WindowsKept
<1>14. expired' \in [Sessions -> Nat] /\ \A k \in Sessions : expired'[k] <= minute'
  BY <1>1, <1>3
<1>15. sessions' \in [Sessions -> Seq(Entry)]
  BY <1>1, <1>3, <1>10 DEF InOrder
<1>16. replayed \in {"none"} \cup DOMAIN Correlation!Labelled
  BY DEF WindowsInv
<1> QED
  BY <1>1, <1>3, <1>9, <1>12, <1>13, <1>14, <1>15, <1>16 DEF WindowsInv

LabelNames == {"mal_cor001", "mal_cor002", "mal_cor003", "mal_cor004", "mal_cor005",
               "mal_cor006", "ben_normal_1", "ben_single_block", "ben_low_risk_blocks"}

LEMMA LabelLengths ==
  /\ DOMAIN Correlation!Labelled = LabelNames
  /\ \A label \in LabelNames : Len(Correlation!Labelled[label]) \in 1..3
  /\ Len(Correlation!Labelled["mal_cor001"]) = 3
  /\ Len(Correlation!Labelled["mal_cor002"]) = 2
  /\ Len(Correlation!Labelled["mal_cor003"]) = 2
  /\ Len(Correlation!Labelled["mal_cor004"]) = 3
  /\ Len(Correlation!Labelled["mal_cor005"]) = 2
  /\ Len(Correlation!Labelled["mal_cor006"]) = 2
  /\ Len(Correlation!Labelled["ben_normal_1"]) = 2
  /\ Len(Correlation!Labelled["ben_single_block"]) = 1
  /\ Len(Correlation!Labelled["ben_low_risk_blocks"]) = 3
<1>1. DOMAIN Correlation!Labelled = LabelNames
  BY DEF Correlation!Labelled, LabelNames
<1>2. /\ Len(Correlation!Labelled["mal_cor001"]) = 3
      /\ Len(Correlation!Labelled["mal_cor002"]) = 2
      /\ Len(Correlation!Labelled["mal_cor003"]) = 2
      /\ Len(Correlation!Labelled["mal_cor004"]) = 3
      /\ Len(Correlation!Labelled["mal_cor005"]) = 2
      /\ Len(Correlation!Labelled["mal_cor006"]) = 2
      /\ Len(Correlation!Labelled["ben_normal_1"]) = 2
      /\ Len(Correlation!Labelled["ben_single_block"]) = 1
      /\ Len(Correlation!Labelled["ben_low_risk_blocks"]) = 3
  BY DEF Correlation!Labelled
<1> QED
  BY <1>1, <1>2 DEF LabelNames

LEMMA EvaluateAllKeeps ==
  ASSUME WindowsInv, Correlation!EvaluateAll
  PROVE  WindowsInv'
<1> DEFINE c == Correlation!Cap
<1>1. /\ sessions' = [key \in Sessions |-> Correlation!Expire(sessions[key])]
      /\ expired' = [key \in Sessions |-> minute]
      /\ minute' = minute /\ history' = history /\ replayed' = replayed
  BY DEF Correlation!EvaluateAll
<1>2. c = Correlation!Cap'
  BY <1>1 DEF Correlation!Cap
<1>3. /\ minute \in Nat /\ expired \in [Sessions -> Nat]
      /\ \A k \in Sessions : expired[k] <= minute
      /\ Recorded(history, minute)
  BY DEF WindowsInv
<1> HIDE DEF c
<1>4. ASSUME NEW key \in Sessions
      PROVE  WindowsKept(key)' /\ sessions'[key] \in Seq(Entry)
  <2> DEFINE u == sessions[key]
             v == Correlation!Expire(u)
  <2>1. PICK place : Places(history, u, DueIn(history, key, expired[key]), c, place)
    BY DEF WindowsInv, WindowsKept, c
  <2>2. InOrder(u) /\ expired[key] \in Nat /\ expired[key] <= minute
    BY <1>3 DEF WindowsInv, WindowsKept
  <2> HIDE DEF u
  <2>3. /\ InOrder(v) /\ Len(v) <= c
        /\ \E p : Places(history, v, DueIn(history, key, minute), c, p)
    BY <1>3, <2>1, <2>2, CutAgain DEF c
  <2>4. sessions'[key] = v /\ expired'[key] = minute
    BY <1>1 DEF u
  <2> HIDE DEF v
  <2> QED
    BY <1>1, <1>2, <2>3, <2>4 DEF WindowsKept, InOrder
<1>5. sessions' \in [Sessions -> Seq(Entry)]
  BY <1>1, <1>4
<1>6. expired' \in [Sessions -> Nat] /\ \A k \in Sessions : expired'[k] <= minute'
  BY <1>1, <1>3
<1>7. replayed \in {"none"} \cup DOMAIN Correlation!Labelled
  BY DEF WindowsInv
<1> QED
  BY <1>1, <1>3, <1>4, <1>5, <1>6, <1>7 DEF WindowsInv

LEMMA PassMinuteKeeps ==
  ASSUME WindowsInv, Correlation!PassMinute
  PROVE  WindowsInv'
<1>1. minute' = minute + 1 /\ UNCHANGED <<sessions, history, expired, replayed>>
  BY DEF Correlation!PassMinute
<1>2. Correlation!Cap' = Correlation!Cap
  BY <1>1 DEF Correlation!Cap
<1>3. Recorded(history, minute + 1)
  <2>1. Recorded(history, minute) /\ minute \in Nat
    BY DEF WindowsInv
  <2>2. \A i \in 1..Len(history) : history[i].event.at \in Nat
    BY <2>1, RecordedIs
  <2> QED
    BY <2>1, <2>2 DEF Recorded
<1>4. ASSUME NEW key \in Sessions
      PROVE  WindowsKept(key)'
  <2>1. WindowsKept(key)
    BY DEF WindowsInv
  <2> QED
    BY <1>1, <1>2, <2>1 DEF WindowsKept
<1>5. ASSUME NEW key \in Sessions
      PROVE  expired[key] <= minute + 1
  <2>1. expired[key] \in Nat /\ expired[key] <= minute /\ minute \in Nat
    BY DEF WindowsInv
  <2> QED
    BY <2>1
<1>6. /\ minute + 1 \in Nat /\ expired \in [Sessions -> Nat] /\ sessions \in [Sessions -> Seq(Entry)]
      /\ replayed \in {"none"} \cup DOMAIN Correlation!Labelled
  BY DEF WindowsInv
<1>7. minute' \in Nat /\ Recorded(history', minute') /\ \A key \in Sessions : expired'[key] <= minute'
  BY <1>1, <1>3, <1>5, <1>6
<1> QED
  BY <1>1, <1>4, <1>6, <1>7 DEF WindowsInv

LEMMA NothingRecorded ==
  ASSUME WindowsInv, history = <<>>, NEW key \in Sessions
  PROVE  Len(sessions[key]) = 0 /\ sessions[key] = <<>> /\ DueIn(history, key, expired[key]) = {}
<1>1. DueIn(history, key, expired[key]) = {}
  BY DEF DueIn
<1>2. PICK place : Places(history, sessions[key], {}, Correlation!Cap, place)
  BY <1>1 DEF WindowsInv, WindowsKept
<1>3. Len(sessions[key]) \in Nat /\ sessions[key] \in Seq(Entry)
  BY InOrderIs DEF WindowsInv, WindowsKept
<1>4. Len(sessions[key]) = 0
  <2>1. \A i \in 1..Len(sessions[key]) : FALSE
    BY <1>2 DEF Places
  <2>2. Len(sessions[key]) \notin 1..Len(sessions[key])
    BY <2>1
  <2> QED
    BY <1>3, <2>2
<1> QED
  BY <1>1, <1>3, <1>4, EmptySeq

LEMMA StartReplayKeeps ==
  ASSUME WindowsInv, Correlation!StartReplay
  PROVE  WindowsInv'
<1>1. /\ history = <<>> /\ UNCHANGED <<minute, sessions, history, expired>>
      /\ replayed' \in DOMAIN Correlation!Labelled
  BY DEF Correlation!StartReplay
<1>2. Correlation!Cap' \in Nat
  BY CorrelationAssumption DEF Correlation!Cap
<1>3. ASSUME NEW key \in Sessions
      PROVE  WindowsKept(key)'
  <2>1. Len(sessions[key]) = 0 /\ DueIn(history, key, expired[key]) = {} /\ InOrder(sessions[key])
    BY <1>1, NothingRecorded DEF WindowsInv, WindowsKept
  <2>2. Places(history, sessions[key], {}, Correlation!Cap', [i \in 1..0 |-> 0])
    BY <2>1 DEF Places
  <2> DEFINE c == Correlation!Cap'
  <2>3. \E p : Places(history, sessions[key], DueIn(history, key, expired[key]), c, p)
    BY <2>1, <2>2
  <2>4. c \in Nat /\ Len(sessions[key]) <= c
    BY <1>2, <2>1
  <2> HIDE DEF c
  <2>5. history' = history /\ sessions' = sessions /\ expired' = expired
    BY <1>1
  <2> QED
    BY <2>1, <2>3, <2>4, <2>5 DEF WindowsKept, c
<1> QED
  BY <1>1, <1>3 DEF WindowsInv

LEMMA LabelledIsOffered ==
  ASSUME NEW label \in DOMAIN Correlation!Labelled,
         NEW i \in 1..Len(Correlation!Labelled[label])
  PROVE  Correlation!Labelled[label][i] \in Offered
  BY DEF Offered

LEMMA WindowsStep ==
  ASSUME WindowsInv, [Correlation!Next]_correlation
  PROVE  WindowsInv'
<1>1. CASE UNCHANGED correlation
  <2>1. UNCHANGED <<minute, sessions, history, expired, replayed>>
    BY <1>1 DEF correlation
  <2>2. Correlation!Cap' = Correlation!Cap
    BY <2>1 DEF Correlation!Cap
  <2>3. ASSUME NEW key \in Sessions
        PROVE  WindowsKept(key)'
    <3>1. WindowsKept(key)
      BY DEF WindowsInv
    <3> QED
      BY <2>1, <2>2, <3>1 DEF WindowsKept
  <2> QED
    BY <2>1, <2>3 DEF WindowsInv
<1>2. CASE Correlation!Observe
  <2>1. PICK key \in Sessions, event \in Events : Correlation!Ingest(key, event)
    BY <1>2 DEF Correlation!Observe
  <2>2. event \in Offered
    BY DEF Offered
  <2> QED
    BY <2>1, <2>2, IngestKeeps
<1>3. CASE Correlation!Replay
  <2>1. /\ replayed # "none" /\ Len(history) < Len(Correlation!Labelled[replayed])
        /\ \E key \in Sessions :
              Correlation!Ingest(key, Correlation!Labelled[replayed][Len(history) + 1])
    BY <1>3 DEF Correlation!Replay
  <2>2. replayed \in DOMAIN Correlation!Labelled /\ Len(history) \in Nat
    BY <2>1, RecordedIs DEF WindowsInv
  <2>3. Len(history) + 1 \in 1..Len(Correlation!Labelled[replayed])
    <3>1. Len(Correlation!Labelled[replayed]) \in Nat
      BY <2>2, LabelLengths
    <3> QED
      BY <2>1, <2>2, <3>1
  <2>4. Correlation!Labelled[replayed][Len(history) + 1] \in Offered
    BY <2>2, <2>3, LabelledIsOffered
  <2> QED
    BY <2>1, <2>4, IngestKeeps
<1> QED
  BY <1>1, <1>2, <1>3, EvaluateAllKeeps, PassMinuteKeeps, StartReplayKeeps DEF Correlation!Next

LEMMA WindowsInit == Init => WindowsInv
<1> SUFFICES ASSUME Init PROVE WindowsInv
  OBVIOUS
<1>1. /\ minute = 0 /\ history = <<>> /\ replayed = "none"
      /\ sessions = [key \in Sessions |-> <<>>] /\ expired = [key \in Sessions |-> 0]
  BY DEF Init, Correlation!Init
<1>2. InOrder(<<>>) /\ Recorded(<<>>, 0) /\ Len(<<>>) = 0
  BY DEF InOrder, Recorded
<1>3. Correlation!Cap \in Nat
  BY CorrelationAssumption DEF Correlation!Cap
<1>4. ASSUME NEW key \in Sessions
      PROVE  WindowsKept(key)
  <2>1. DueIn(<<>>, key, 0) = {}
    BY DEF DueIn
  <2>2. Places(<<>>, <<>>, {}, Correlation!Cap, [i \in 1..0 |-> 0])
    BY DEF Places
  <2>3. sessions[key] = <<>> /\ expired[key] = 0
    BY <1>1
  <2>4. \E p : Places(history, sessions[key], DueIn(history, key, expired[key]), Correlation!Cap, p)
    BY <1>1, <2>1, <2>2, <2>3
  <2>5. Len(sessions[key]) <= Correlation!Cap
    BY <1>2, <1>3, <2>3
  <2> QED
    BY <1>2, <2>3, <2>4, <2>5 DEF WindowsKept
<1>5. sessions \in [Sessions -> Seq(Entry)] /\ expired \in [Sessions -> Nat]
  BY <1>1
<1> QED
  BY <1>1, <1>2, <1>4, <1>5 DEF WindowsInv

LEMMA LatestEvents == WindowsInv => Correlation!WindowIsLatestEvents
<1> SUFFICES ASSUME WindowsInv, NEW key \in Sessions
             PROVE  LET w == sessions[key]
                        D == Correlation!Due(key)
                    IN /\ Len(w) <= Correlation!Cap
                       /\ \E place \in [1..Len(w) -> D] :
                             /\ \A i \in 1..Len(w) : history[place[i]].event = w[i]
                             /\ \A i \in 2..Len(w) : place[i - 1] < place[i]
                             /\ \A due \in D : \/ \E i \in 1..Len(w) : place[i] = due
                                               \/ Len(w) = Correlation!Cap /\ due < place[1]
  BY DEF Correlation!WindowIsLatestEvents
<1> DEFINE w == sessions[key]
           D == Correlation!Due(key)
           c == Correlation!Cap
<1>1. D = DueIn(history, key, expired[key])
  <2>1. DOMAIN history = 1..Len(history)
    BY RecordedIs DEF WindowsInv
  <2> QED
    BY <2>1 DEF Correlation!Due, DueIn
<1>2. InOrder(w) /\ Len(w) <= c /\ \E place : Places(history, w, D, c, place)
  BY <1>1 DEF WindowsInv, WindowsKept
<1>3. c \in Nat
  BY CorrelationAssumption DEF Correlation!Cap
<1> HIDE DEF w, D, c
<1>4. Len(w) \in Nat
  BY <1>2, InOrderIs
<1>5. PICK place : Places(history, w, D, c, place)
  BY <1>2
<1>6. /\ place \in [1..Len(w) -> D]
      /\ \A i \in 1..Len(w) : history[place[i]].event = w[i]
      /\ \A d \in D : \/ \E i \in 1..Len(w) : place[i] = d
                      \/ Len(w) >= c /\ d < place[1]
  BY <1>5 DEF Places
<1>7. ASSUME NEW i \in 2..Len(w)
      PROVE  place[i - 1] < place[i]
  <2>1. i - 1 \in 1..Len(w) /\ i \in 1..Len(w) /\ i - 1 < i
    BY <1>4
  <2> QED
    BY <1>5, <2>1 DEF Places
<1>8. Len(w) >= c => Len(w) = c
  BY <1>2, <1>3, <1>4
<1> QED
  BY <1>2, <1>6, <1>7, <1>8 DEF w, D, c

LEMMA FirstChains == WindowsInv => Correlation!FiresOnFirstChain
<1> SUFFICES ASSUME WindowsInv, NEW key \in Sessions, NEW id \in Correlation!RuleIds
             PROVE  LET w == sessions[key]
                        rule == Correlation!Rules[id]
                    IN Correlation!Fires(rule, w) <=>
                         \E chain \in Correlation!Chains(rule, w) :
                            /\ \A i \in 1..(chain[1] - 1) : ~Correlation!Is(w[i], rule.stages[1])
                            /\ w[chain[Len(rule.stages)]].at - w[chain[1]].at <= rule.window
  BY DEF Correlation!FiresOnFirstChain
<1> DEFINE w == sessions[key]
           rule == Correlation!Rules[id]
<1>1. InOrder(w) /\ id \in RuleName6
  BY CorrelationRules DEF WindowsInv, WindowsKept
<1>2. Correlation!Fires(rule, w) <=> \E chain : FirstChain(rule, w, chain)
  <2> HIDE DEF w
  <2> QED
    BY <1>1, FiresThenChain, ChainThenFires
<1> HIDE DEF w, rule
<1>3. \A chain : FirstChain(rule, w, chain) <=>
         /\ chain \in Correlation!Chains(rule, w)
         /\ \A i \in 1..(chain[1] - 1) : ~Correlation!Is(w[i], rule.stages[1])
         /\ w[chain[Len(rule.stages)]].at - w[chain[1]].at <= rule.window
  BY DEF FirstChain
<1>4. Correlation!Fires(rule, w) <=>
         \E chain \in Correlation!Chains(rule, w) :
            /\ \A i \in 1..(chain[1] - 1) : ~Correlation!Is(w[i], rule.stages[1])
            /\ w[chain[Len(rule.stages)]].at - w[chain[1]].at <= rule.window
  BY <1>2, <1>3
<1> QED
  BY <1>4 DEF w, rule

\* The window that an ingested event is evaluated with.
LEMMA IngestedWindow ==
  ASSUME WindowsInv, NEW key \in Sessions, NEW event \in Offered,
         Correlation!Ingest(key, event)
  PROVE  LET u == Append(sessions[key], At(event, minute))
             v == Correlation!Expire(u)
         IN /\ InOrder(u) /\ Len(u) = Len(sessions[key]) + 1
            /\ \A i \in 1..Len(sessions[key]) : u[i] = sessions[key][i]
            /\ sessions'[key] = v
            /\ matches' = {id \in RuleName6 : Correlation!Fires(Correlation!Rules[id], v)}
            /\ fired' = fired \cup {id \in RuleName6 : Correlation!Fires(Correlation!Rules[id], v)}
<1> DEFINE w == sessions[key]
           x == At(event, minute)
           v == Correlation!Expire(Append(w, x))
<1>1. /\ minute \in Nat /\ Recorded(history, minute) /\ InOrder(w)
      /\ \E place : Places(history, w, DueIn(history, key, expired[key]), Correlation!Cap, place)
  BY DEF WindowsInv, WindowsKept
<1>2. x \in Entry /\ x.at = minute
  <2>1. x \in Entry
    BY <1>1 DEF Entry
  <2>2. x.at = minute
    BY DEF At
  <2> QED
    BY <2>1, <2>2
<1>3. Correlation!Stamped(event) = x
  BY StampedIs
<1>4. sessions' = [sessions EXCEPT ![key] = v] /\ sessions \in [Sessions -> Seq(Entry)]
  BY <1>3 DEF Correlation!Ingest, WindowsInv
<1>5. matches' = Correlation!Evaluate(v) /\ fired' = fired \cup Correlation!Evaluate(v)
  BY <1>3 DEF Correlation!Ingest
<1> HIDE DEF w, x, v
<1>6. Correlation!Evaluate(v) = {id \in RuleName6 : Correlation!Fires(Correlation!Rules[id], v)}
  BY CorrelationRules DEF Correlation!Evaluate
<1>7. \A i \in 1..Len(w) : w[i].at <= x.at
  <2> SUFFICES ASSUME NEW i \in 1..Len(w)
               PROVE  w[i].at <= x.at
    OBVIOUS
  <2>1. PICK place : Places(history, w, DueIn(history, key, expired[key]), Correlation!Cap, place)
    BY <1>1
  <2>2. place[i] \in 1..Len(history) /\ history[place[i]].event = w[i]
    BY <2>1 DEF Places, DueIn
  <2> QED
    BY <1>1, <1>2, <2>2 DEF Recorded
<1>8. /\ InOrder(Append(w, x)) /\ Len(Append(w, x)) = Len(w) + 1
      /\ \A i \in 1..Len(w) : Append(w, x)[i] = w[i]
  BY <1>1, <1>2, <1>7, EntryJoins
<1>9. sessions'[key] = v
  BY <1>4
<1> QED
  BY <1>5, <1>6, <1>8, <1>9 DEF w, x, v

LEMMA IngestedOnly ==
  ASSUME WindowsInv, [Correlation!Next]_correlation, history' # history
  PROVE  \E key \in Sessions, event \in Offered : Correlation!Ingest(key, event)
<1>1. CASE Correlation!Observe
  <2>1. PICK key \in Sessions, event \in Events : Correlation!Ingest(key, event)
    BY <1>1 DEF Correlation!Observe
  <2>2. event \in Offered
    BY DEF Offered
  <2> QED
    BY <2>1, <2>2
<1>2. CASE Correlation!Replay
  <2>1. /\ replayed \in DOMAIN Correlation!Labelled
        /\ Len(history) < Len(Correlation!Labelled[replayed])
    BY <1>2 DEF Correlation!Replay, WindowsInv
  <2>2. Len(history) + 1 \in 1..Len(Correlation!Labelled[replayed])
    <3>1. Len(Correlation!Labelled[replayed]) \in Nat /\ Len(history) \in Nat
      BY <2>1, LabelLengths, RecordedIs DEF WindowsInv
    <3> QED
      BY <2>1, <3>1
  <2>3. Correlation!Labelled[replayed][Len(history) + 1] \in Offered
    BY <2>1, <2>2, LabelledIsOffered
  <2> QED
    BY <1>2, <2>3 DEF Correlation!Replay
<1>3. CASE Correlation!EvaluateAll \/ Correlation!PassMinute \/ Correlation!StartReplay
  BY <1>3 DEF Correlation!EvaluateAll, Correlation!PassMinute, Correlation!StartReplay
<1>4. CASE UNCHANGED correlation
  BY <1>4 DEF correlation
<1> QED
  BY <1>1, <1>2, <1>3, <1>4 DEF Correlation!Next

LEMMA MatchRepeated ==
  ASSUME WindowsInv, [Correlation!Next]_correlation, history' # history,
         NEW key \in Sessions, NEW id \in RuleName6, history'[Len(history')].key = key,
         Correlation!Fires(Correlation!Rules[id], sessions[key]),
         Correlation!Collected(Correlation!Rules[id], sessions[key])[1]
            > Len(sessions[key]) + 1 - Len(sessions'[key])
  PROVE  id \in matches'
<1>1. PICK k \in Sessions, event \in Offered : Correlation!Ingest(k, event)
  BY IngestedOnly
<1>2. k = key
  <2> DEFINE r == [key |-> k, event |-> Correlation!Stamped(event)]
  <2>1. history' = Append(history, r)
    BY <1>1 DEF Correlation!Ingest
  <2>2. history \in Seq(History) /\ r.key = k
    BY DEF WindowsInv, Recorded
  <2>3. r \in History
    <3>1. Correlation!Stamped(event) \in Entry
      BY StampedIs DEF Entry, WindowsInv
    <3> QED
      BY <3>1 DEF History
  <2> HIDE DEF r
  <2>4. history'[Len(history')] = r
    BY <2>1, <2>2, <2>3, AppendProperties
  <2> QED
    BY <2>2, <2>4
<1> DEFINE w == sessions[key]
           u == Append(w, At(event, minute))
           v == Correlation!Expire(u)
<1>3. /\ InOrder(u) /\ Len(u) = Len(w) + 1
      /\ \A i \in 1..Len(w) : u[i] = w[i]
      /\ sessions'[key] = v
      /\ matches' = {x \in RuleName6 : Correlation!Fires(Correlation!Rules[x], v)}
  BY <1>1, <1>2, IngestedWindow
<1>4. InOrder(w) /\ minute \in Nat
  BY DEF WindowsInv, WindowsKept
<1> HIDE DEF w, u
<1>5. PICK gone \in 0..Len(u) :
         /\ InOrder(v) /\ Len(v) = Len(u) - gone
         /\ \A j \in 1..Len(v) : v[j] = u[gone + j]
  BY <1>3, <1>4, ExpireIs
<1> HIDE DEF v
<1>6. gone \in Nat /\ Len(w) \in Nat /\ Len(v) = Len(w) + 1 - gone
  BY <1>3, <1>4, <1>5, InOrderIs
<1>7. Correlation!Fires(Correlation!Rules[id], w)
  BY DEF w
<1>8. Correlation!Collected(Correlation!Rules[id], w)[1] > gone
  <2>1. gone = Len(w) + 1 - Len(v)
    BY <1>6
  <2>2. Correlation!Collected(Correlation!Rules[id], w)[1] > Len(w) + 1 - Len(v)
    BY <1>3 DEF w
  <2> QED
    BY <2>1, <2>2
<1>9. \A j \in 1..Len(v) : gone + j \in 1..Len(w) => v[j] = w[gone + j]
  BY <1>3, <1>5
<1>10. Correlation!Fires(Correlation!Rules[id], v)
  BY <1>4, <1>5, <1>6, <1>7, <1>8, <1>9, ShiftedFires
<1> QED
  BY <1>3, <1>10

\* The stage of each labelled event: each is in one at most.
StageNames == {"recon", "sensitive", "exfil", "injection", "escalation", "trust", "probing"}

Tags == [
    mal_cor001 |-> <<"recon", "sensitive", "exfil">>,
    mal_cor002 |-> <<"injection", "escalation">>,
    mal_cor003 |-> <<"trust", "exfil">>,
    mal_cor004 |-> <<"probing", "probing", "probing">>,
    mal_cor005 |-> <<"injection", "exfil">>,
    mal_cor006 |-> <<"sensitive", "trust">>,
    ben_normal_1 |-> <<"none", "none">>,
    ben_single_block |-> <<"none">>,
    ben_low_risk_blocks |-> <<"none", "none", "none">>]

Tagged(event, tag) == \A m \in Nat : \A s \in StageNames : Correlation!Is(At(event, m), s) <=> s = tag

LEMMA TaggedIs ==
  ASSUME NEW event, NEW tag,
         Correlation!IsReconEvent(event) <=> tag = "recon",
         Correlation!IsSensitiveAccess(event) <=> tag = "sensitive",
         Correlation!IsExfilAttempt(event) <=> tag = "exfil",
         Correlation!IsInjectionAttempt(event) <=> tag = "injection",
         Correlation!IsPrivilegeEscalation(event) <=> tag = "escalation",
         Correlation!IsServerTrustViolation(event) <=> tag = "trust",
         Correlation!IsRepeatedBlock(event) <=> tag = "probing"
  PROVE  Tagged(event, tag)
<1> SUFFICES ASSUME NEW m \in Nat, NEW s \in StageNames
             PROVE  Correlation!Is(At(event, m), s) <=> s = tag
  BY DEF Tagged
<1> DEFINE e == At(event, m)
<1>1. /\ e.tool = event.tool /\ e.layer = event.layer /\ e.action = event.action
      /\ e.high = event.high /\ e.findings = event.findings
  BY DEF At
<1> HIDE DEF e
<1>2. /\ Correlation!IsReconEvent(e) <=> tag = "recon"
      /\ Correlation!IsSensitiveAccess(e) <=> tag = "sensitive"
      /\ Correlation!IsExfilAttempt(e) <=> tag = "exfil"
      /\ Correlation!IsInjectionAttempt(e) <=> tag = "injection"
      /\ Correlation!IsPrivilegeEscalation(e) <=> tag = "escalation"
      /\ Correlation!IsServerTrustViolation(e) <=> tag = "trust"
      /\ Correlation!IsRepeatedBlock(e) <=> tag = "probing"
  BY <1>1 DEF Correlation!Mentions, Correlation!Found, Correlation!IsReconEvent,
              Correlation!IsSensitiveAccess, Correlation!IsExfilAttempt,
              Correlation!IsInjectionAttempt, Correlation!IsPrivilegeEscalation,
              Correlation!IsServerTrustViolation, Correlation!IsRepeatedBlock
<1>3. /\ Correlation!Is(e, "recon") <=> Correlation!IsReconEvent(e)
      /\ Correlation!Is(e, "sensitive") <=> Correlation!IsSensitiveAccess(e)
      /\ Correlation!Is(e, "exfil") <=> Correlation!IsExfilAttempt(e)
      /\ Correlation!Is(e, "injection") <=> Correlation!IsInjectionAttempt(e)
      /\ Correlation!Is(e, "escalation") <=> Correlation!IsPrivilegeEscalation(e)
      /\ Correlation!Is(e, "trust") <=> Correlation!IsServerTrustViolation(e)
      /\ Correlation!Is(e, "probing") <=> Correlation!IsRepeatedBlock(e)
  BY DEF Correlation!Is, Correlation!Stage
<1>4. Correlation!Is(e, s) <=> s = tag
  BY <1>2, <1>3 DEF StageNames
<1> QED
  BY <1>4 DEF e

\* The stages an event is in, by its words.
LEMMA MadeIs ==
  ASSUME NEW tool, NEW layer, NEW action, NEW high, NEW findings
  PROVE  LET e == Correlation!Made(tool, layer, action, high, findings)
         IN /\ e.layer = layer /\ e.action = action /\ e.high = high
            /\ \A words : Correlation!Mentions(e, words) <=>
                            \E word \in words : word \in tool \/ word \in findings
            /\ \A words : Correlation!Found(e, words) <=> \E word \in words : word \in findings
<1> DEFINE e == Correlation!Made(tool, layer, action, high, findings)
<1>1. /\ e.layer = layer /\ e.action = action /\ e.high = high
      /\ e.tool = tool /\ e.findings = findings
  BY DEF Correlation!Made
<1> HIDE DEF e
<1> QED
  BY <1>1 DEF Correlation!Mentions, Correlation!Found, e

LEMMA EventsAreTagged ==
  ASSUME NEW label \in LabelNames, NEW i \in 1..Len(Correlation!Labelled[label])
  PROVE  Tagged(Correlation!Labelled[label][i], Tags[label][i])
<1>1. Tagged(Correlation!Made({"tools/list"}, "", "allow", FALSE, {"discover"}), "recon")
  <2> DEFINE words == {"tools/list"}
             found == {"discover"}
             none == ""
             e == Correlation!Made(words, none, "allow", FALSE, found)
  <2>0. none \notin {"network_egress", "prompt_injection", "process_spawn", "server_trust"}
    BY Zenon
  <2> HIDE DEF words, found, none
  <2>1. /\ e.layer = none /\ e.action = "allow" /\ e.high = FALSE
        /\ \A S : Correlation!Mentions(e, S) <=> \E word \in S : word \in words \/ word \in found
        /\ \A S : Correlation!Found(e, S) <=> \E word \in S : word \in found
    BY MadeIs
  <2> HIDE DEF e
  <2>2. /\ Correlation!IsReconEvent(e) <=> "recon" = "recon"
        /\ Correlation!IsSensitiveAccess(e) <=> "recon" = "sensitive"
    BY <2>0, <2>1 DEF words, found, Correlation!IsReconEvent, Correlation!IsSensitiveAccess
  <2>3. Correlation!IsExfilAttempt(e) <=> "recon" = "exfil"
    BY <2>0, <2>1 DEF words, found, Correlation!IsExfilAttempt
  <2>4. /\ Correlation!IsInjectionAttempt(e) <=> "recon" = "injection"
        /\ Correlation!IsPrivilegeEscalation(e) <=> "recon" = "escalation"
        /\ Correlation!IsServerTrustViolation(e) <=> "recon" = "trust"
    BY <2>0, <2>1 DEF words, found, Correlation!IsInjectionAttempt, Correlation!IsPrivilegeEscalation,
                Correlation!IsServerTrustViolation
  <2>5. Correlation!IsRepeatedBlock(e) <=> "recon" = "probing"
    BY <2>0, <2>1 DEF Correlation!IsRepeatedBlock
  <2>6. Tagged(e, "recon")
    BY <2>2, <2>3, <2>4, <2>5, TaggedIs
  <2> QED
    BY <2>6 DEF e, words, found, none
<1>2. Tagged(Correlation!Made({"read_file"}, "", "block", FALSE, {"sensitive"}), "sensitive")
  <2> DEFINE words == {"read_file"}
             found == {"sensitive"}
             none == ""
             e == Correlation!Made(words, none, "block", FALSE, found)
  <2>0. none \notin {"network_egress", "prompt_injection", "process_spawn", "server_trust"}
    BY Zenon
  <2> HIDE DEF words, found, none
  <2>1. /\ e.layer = none /\ e.action = "block" /\ e.high = FALSE
        /\ \A S : Correlation!Mentions(e, S) <=> \E word \in S : word \in words \/ word \in found
        /\ \A S : Correlation!Found(e, S) <=> \E word \in S : word \in found
    BY MadeIs
  <2> HIDE DEF e
  <2>2. /\ Correlation!IsReconEvent(e) <=> "sensitive" = "recon"
        /\ Correlation!IsSensitiveAccess(e) <=> "sensitive" = "sensitive"
    BY <2>0, <2>1 DEF words, found, Correlation!IsReconEvent, Correlation!IsSensitiveAccess
  <2>3. Correlation!IsExfilAttempt(e) <=> "sensitive" = "exfil"
    BY <2>0, <2>1 DEF words, found, Correlation!IsExfilAttempt
  <2>4. /\ Correlation!IsInjectionAttempt(e) <=> "sensitive" = "injection"
        /\ Correlation!IsPrivilegeEscalation(e) <=> "sensitive" = "escalation"
        /\ Correlation!IsServerTrustViolation(e) <=> "sensitive" = "trust"
    BY <2>0, <2>1 DEF words, found, Correlation!IsInjectionAttempt, Correlation!IsPrivilegeEscalation,
                Correlation!IsServerTrustViolation
  <2>5. Correlation!IsRepeatedBlock(e) <=> "sensitive" = "probing"
    BY <2>0, <2>1 DEF Correlation!IsRepeatedBlock
  <2>6. Tagged(e, "sensitive")
    BY <2>2, <2>3, <2>4, <2>5, TaggedIs
  <2> QED
    BY <2>6 DEF e, words, found, none
<1>3. Tagged(Correlation!Made({}, "network_egress", "block", FALSE, {"exfiltration", "hidden_recipient"}), "exfil")
  <2> DEFINE words == {}
             found == {"exfiltration", "hidden_recipient"}
             e == Correlation!Made(words, "network_egress", "block", FALSE, found)
  <2> HIDE DEF words, found
  <2>1. /\ e.layer = "network_egress" /\ e.action = "block" /\ e.high = FALSE
        /\ \A S : Correlation!Mentions(e, S) <=> \E word \in S : word \in words \/ word \in found
        /\ \A S : Correlation!Found(e, S) <=> \E word \in S : word \in found
    BY MadeIs
  <2> HIDE DEF e
  <2>2. /\ Correlation!IsReconEvent(e) <=> "exfil" = "recon"
        /\ Correlation!IsSensitiveAccess(e) <=> "exfil" = "sensitive"
    BY <2>1 DEF words, found, Correlation!IsReconEvent, Correlation!IsSensitiveAccess
  <2>3. Correlation!IsExfilAttempt(e) <=> "exfil" = "exfil"
    BY <2>1 DEF words, found, Correlation!IsExfilAttempt
  <2>4. /\ Correlation!IsInjectionAttempt(e) <=> "exfil" = "injection"
        /\ Correlation!IsPrivilegeEscalation(e) <=> "exfil" = "escalation"
        /\ Correlation!IsServerTrustViolation(e) <=> "exfil" = "trust"
    BY <2>1 DEF words, found, Correlation!IsInjectionAttempt, Correlation!IsPrivilegeEscalation,
                Correlation!IsServerTrustViolation
  <2>5. Correlation!IsRepeatedBlock(e) <=> "exfil" = "probing"
    BY <2>1 DEF Correlation!IsRepeatedBlock
  <2>6. Tagged(e, "exfil")
    BY <2>2, <2>3, <2>4, <2>5, TaggedIs
  <2> QED
    BY <2>6 DEF e, words, found
<1>4. Tagged(Correlation!Made({}, "", "block", FALSE, {"prompt_injection"}), "injection")
  <2> DEFINE words == {}
             found == {"prompt_injection"}
             none == ""
             e == Correlation!Made(words, none, "block", FALSE, found)
  <2>0. none \notin {"network_egress", "prompt_injection", "process_spawn", "server_trust"}
    BY Zenon
  <2> HIDE DEF words, found, none
  <2>1. /\ e.layer = none /\ e.action = "block" /\ e.high = FALSE
        /\ \A S : Correlation!Mentions(e, S) <=> \E word \in S : word \in words \/ word \in found
        /\ \A S : Correlation!Found(e, S) <=> \E word \in S : word \in found
    BY MadeIs
  <2> HIDE DEF e
  <2>2. /\ Correlation!IsReconEvent(e) <=> "injection" = "recon"
        /\ Correlation!IsSensitiveAccess(e) <=> "injection" = "sensitive"
    BY <2>0, <2>1 DEF words, found, Correlation!IsReconEvent, Correlation!IsSensitiveAccess
  <2>3. Correlation!IsExfilAttempt(e) <=> "injection" = "exfil"
    BY <2>0, <2>1 DEF words, found, Correlation!IsExfilAttempt
  <2>4. /\ Correlation!IsInjectionAttempt(e) <=> "injection" = "injection"
        /\ Correlation!IsPrivilegeEscalation(e) <=> "injection" = "escalation"
        /\ Correlation!IsServerTrustViolation(e) <=> "injection" = "trust"
    BY <2>0, <2>1 DEF words, found, Correlation!IsInjectionAttempt, Correlation!IsPrivilegeEscalation,
                Correlation!IsServerTrustViolation
  <2>5. Correlation!IsRepeatedBlock(e) <=> "injection" = "probing"
    BY <2>0, <2>1 DEF Correlation!IsRepeatedBlock
  <2>6. Tagged(e, "injection")
    BY <2>2, <2>3, <2>4, <2>5, TaggedIs
  <2> QED
    BY <2>6 DEF e, words, found, none
<1>5. Tagged(Correlation!Made({}, "process_spawn", "block", FALSE, {"subprocess"}), "escalation")
  <2> DEFINE words == {}
             found == {"subprocess"}
             e == Correlation!Made(words, "process_spawn", "block", FALSE, found)
  <2> HIDE DEF words, found
  <2>1. /\ e.layer = "process_spawn" /\ e.action = "block" /\ e.high = FALSE
        /\ \A S : Correlation!Mentions(e, S) <=> \E word \in S : word \in words \/ word \in found
        /\ \A S : Correlation!Found(e, S) <=> \E word \in S : word \in found
    BY MadeIs
  <2> HIDE DEF e
  <2>2. /\ Correlation!IsReconEvent(e) <=> "escalation" = "recon"
        /\ Correlation!IsSensitiveAccess(e) <=> "escalation" = "sensitive"
    BY <2>1 DEF words, found, Correlation!IsReconEvent, Correlation!IsSensitiveAccess
  <2>3. Correlation!IsExfilAttempt(e) <=> "escalation" = "exfil"
    BY <2>1 DEF words, found, Correlation!IsExfilAttempt
  <2>4. /\ Correlation!IsInjectionAttempt(e) <=> "escalation" = "injection"
        /\ Correlation!IsPrivilegeEscalation(e) <=> "escalation" = "escalation"
        /\ Correlation!IsServerTrustViolation(e) <=> "escalation" = "trust"
    BY <2>1 DEF words, found, Correlation!IsInjectionAttempt, Correlation!IsPrivilegeEscalation,
                Correlation!IsServerTrustViolation
  <2>5. Correlation!IsRepeatedBlock(e) <=> "escalation" = "probing"
    BY <2>1 DEF Correlation!IsRepeatedBlock
  <2>6. Tagged(e, "escalation")
    BY <2>2, <2>3, <2>4, <2>5, TaggedIs
  <2> QED
    BY <2>6 DEF e, words, found
<1>6. Tagged(Correlation!Made({}, "server_trust", "block", FALSE, {"unregistered", "shadow_server"}), "trust")
  <2> DEFINE words == {}
             found == {"unregistered", "shadow_server"}
             e == Correlation!Made(words, "server_trust", "block", FALSE, found)
  <2> HIDE DEF words, found
  <2>1. /\ e.layer = "server_trust" /\ e.action = "block" /\ e.high = FALSE
        /\ \A S : Correlation!Mentions(e, S) <=> \E word \in S : word \in words \/ word \in found
        /\ \A S : Correlation!Found(e, S) <=> \E word \in S : word \in found
    BY MadeIs
  <2> HIDE DEF e
  <2>2. /\ Correlation!IsReconEvent(e) <=> "trust" = "recon"
        /\ Correlation!IsSensitiveAccess(e) <=> "trust" = "sensitive"
    BY <2>1 DEF words, found, Correlation!IsReconEvent, Correlation!IsSensitiveAccess
  <2>3. Correlation!IsExfilAttempt(e) <=> "trust" = "exfil"
    BY <2>1 DEF words, found, Correlation!IsExfilAttempt
  <2>4. /\ Correlation!IsInjectionAttempt(e) <=> "trust" = "injection"
        /\ Correlation!IsPrivilegeEscalation(e) <=> "trust" = "escalation"
        /\ Correlation!IsServerTrustViolation(e) <=> "trust" = "trust"
    BY <2>1 DEF words, found, Correlation!IsInjectionAttempt, Correlation!IsPrivilegeEscalation,
                Correlation!IsServerTrustViolation
  <2>5. Correlation!IsRepeatedBlock(e) <=> "trust" = "probing"
    BY <2>1 DEF Correlation!IsRepeatedBlock
  <2>6. Tagged(e, "trust")
    BY <2>2, <2>3, <2>4, <2>5, TaggedIs
  <2> QED
    BY <2>6 DEF e, words, found
<1>7. Tagged(Correlation!Made({}, "network_egress", "block", FALSE, {"exfiltration"}), "exfil")
  <2> DEFINE words == {}
             found == {"exfiltration"}
             e == Correlation!Made(words, "network_egress", "block", FALSE, found)
  <2> HIDE DEF words, found
  <2>1. /\ e.layer = "network_egress" /\ e.action = "block" /\ e.high = FALSE
        /\ \A S : Correlation!Mentions(e, S) <=> \E word \in S : word \in words \/ word \in found
        /\ \A S : Correlation!Found(e, S) <=> \E word \in S : word \in found
    BY MadeIs
  <2> HIDE DEF e
  <2>2. /\ Correlation!IsReconEvent(e) <=> "exfil" = "recon"
        /\ Correlation!IsSensitiveAccess(e) <=> "exfil" = "sensitive"
    BY <2>1 DEF words, found, Correlation!IsReconEvent, Correlation!IsSensitiveAccess
  <2>3. Correlation!IsExfilAttempt(e) <=> "exfil" = "exfil"
    BY <2>1 DEF words, found, Correlation!IsExfilAttempt
  <2>4. /\ Correlation!IsInjectionAttempt(e) <=> "exfil" = "injection"
        /\ Correlation!IsPrivilegeEscalation(e) <=> "exfil" = "escalation"
        /\ Correlation!IsServerTrustViolation(e) <=> "exfil" = "trust"
    BY <2>1 DEF words, found, Correlation!IsInjectionAttempt, Correlation!IsPrivilegeEscalation,
                Correlation!IsServerTrustViolation
  <2>5. Correlation!IsRepeatedBlock(e) <=> "exfil" = "probing"
    BY <2>1 DEF Correlation!IsRepeatedBlock
  <2>6. Tagged(e, "exfil")
    BY <2>2, <2>3, <2>4, <2>5, TaggedIs
  <2> QED
    BY <2>6 DEF e, words, found
<1>8. Tagged(Correlation!Made({}, "", "block", TRUE, {}), "probing")
  <2> DEFINE words == {}
             found == {}
             none == ""
             e == Correlation!Made(words, none, "block", TRUE, found)
  <2>0. none \notin {"network_egress", "prompt_injection", "process_spawn", "server_trust"}
    BY Zenon
  <2> HIDE DEF words, found, none
  <2>1. /\ e.layer = none /\ e.action = "block" /\ e.high = TRUE
        /\ \A S : Correlation!Mentions(e, S) <=> \E word \in S : word \in words \/ word \in found
        /\ \A S : Correlation!Found(e, S) <=> \E word \in S : word \in found
    BY MadeIs
  <2> HIDE DEF e
  <2>2. /\ Correlation!IsReconEvent(e) <=> "probing" = "recon"
        /\ Correlation!IsSensitiveAccess(e) <=> "probing" = "sensitive"
    BY <2>0, <2>1 DEF words, found, Correlation!IsReconEvent, Correlation!IsSensitiveAccess
  <2>3. Correlation!IsExfilAttempt(e) <=> "probing" = "exfil"
    BY <2>0, <2>1 DEF words, found, Correlation!IsExfilAttempt
  <2>4. /\ Correlation!IsInjectionAttempt(e) <=> "probing" = "injection"
        /\ Correlation!IsPrivilegeEscalation(e) <=> "probing" = "escalation"
        /\ Correlation!IsServerTrustViolation(e) <=> "probing" = "trust"
    BY <2>0, <2>1 DEF words, found, Correlation!IsInjectionAttempt, Correlation!IsPrivilegeEscalation,
                Correlation!IsServerTrustViolation
  <2>5. Correlation!IsRepeatedBlock(e) <=> "probing" = "probing"
    BY <2>0, <2>1 DEF Correlation!IsRepeatedBlock
  <2>6. Tagged(e, "probing")
    BY <2>2, <2>3, <2>4, <2>5, TaggedIs
  <2> QED
    BY <2>6 DEF e, words, found, none
<1>9. Tagged(Correlation!Made({}, "", "deny", TRUE, {}), "probing")
  <2> DEFINE words == {}
             found == {}
             none == ""
             e == Correlation!Made(words, none, "deny", TRUE, found)
  <2>0. none \notin {"network_egress", "prompt_injection", "process_spawn", "server_trust"}
    BY Zenon
  <2> HIDE DEF words, found, none
  <2>1. /\ e.layer = none /\ e.action = "deny" /\ e.high = TRUE
        /\ \A S : Correlation!Mentions(e, S) <=> \E word \in S : word \in words \/ word \in found
        /\ \A S : Correlation!Found(e, S) <=> \E word \in S : word \in found
    BY MadeIs
  <2> HIDE DEF e
  <2>2. /\ Correlation!IsReconEvent(e) <=> "probing" = "recon"
        /\ Correlation!IsSensitiveAccess(e) <=> "probing" = "sensitive"
    BY <2>0, <2>1 DEF words, found, Correlation!IsReconEvent, Correlation!IsSensitiveAccess
  <2>3. Correlation!IsExfilAttempt(e) <=> "probing" = "exfil"
    BY <2>0, <2>1 DEF words, found, Correlation!IsExfilAttempt
  <2>4. /\ Correlation!IsInjectionAttempt(e) <=> "probing" = "injection"
        /\ Correlation!IsPrivilegeEscalation(e) <=> "probing" = "escalation"
        /\ Correlation!IsServerTrustViolation(e) <=> "probing" = "trust"
    BY <2>0, <2>1 DEF words, found, Correlation!IsInjectionAttempt, Correlation!IsPrivilegeEscalation,
                Correlation!IsServerTrustViolation
  <2>5. Correlation!IsRepeatedBlock(e) <=> "probing" = "probing"
    BY <2>0, <2>1 DEF Correlation!IsRepeatedBlock
  <2>6. Tagged(e, "probing")
    BY <2>2, <2>3, <2>4, <2>5, TaggedIs
  <2> QED
    BY <2>6 DEF e, words, found, none
<1>10. Tagged(Correlation!Made({"get_secret"}, "", "block", FALSE, {"credentials"}), "sensitive")
  <2> DEFINE words == {"get_secret"}
             found == {"credentials"}
             none == ""
             e == Correlation!Made(words, none, "block", FALSE, found)
  <2>0. none \notin {"network_egress", "prompt_injection", "process_spawn", "server_trust"}
    BY Zenon
  <2> HIDE DEF words, found, none
  <2>1. /\ e.layer = none /\ e.action = "block" /\ e.high = FALSE
        /\ \A S : Correlation!Mentions(e, S) <=> \E word \in S : word \in words \/ word \in found
        /\ \A S : Correlation!Found(e, S) <=> \E word \in S : word \in found
    BY MadeIs
  <2> HIDE DEF e
  <2>2. /\ Correlation!IsReconEvent(e) <=> "sensitive" = "recon"
        /\ Correlation!IsSensitiveAccess(e) <=> "sensitive" = "sensitive"
    BY <2>0, <2>1 DEF words, found, Correlation!IsReconEvent, Correlation!IsSensitiveAccess
  <2>3. Correlation!IsExfilAttempt(e) <=> "sensitive" = "exfil"
    BY <2>0, <2>1 DEF words, found, Correlation!IsExfilAttempt
  <2>4. /\ Correlation!IsInjectionAttempt(e) <=> "sensitive" = "injection"
        /\ Correlation!IsPrivilegeEscalation(e) <=> "sensitive" = "escalation"
        /\ Correlation!IsServerTrustViolation(e) <=> "sensitive" = "trust"
    BY <2>0, <2>1 DEF words, found, Correlation!IsInjectionAttempt, Correlation!IsPrivilegeEscalation,
                Correlation!IsServerTrustViolation
  <2>5. Correlation!IsRepeatedBlock(e) <=> "sensitive" = "probing"
    BY <2>0, <2>1 DEF Correlation!IsRepeatedBlock
  <2>6. Tagged(e, "sensitive")
    BY <2>2, <2>3, <2>4, <2>5, TaggedIs
  <2> QED
    BY <2>6 DEF e, words, found, none
<1>11. Tagged(Correlation!Made({}, "server_trust", "block", FALSE, {"unregistered"}), "trust")
  <2> DEFINE words == {}
             found == {"unregistered"}
             e == Correlation!Made(words, "server_trust", "block", FALSE, found)
  <2> HIDE DEF words, found
  <2>1. /\ e.layer = "server_trust" /\ e.action = "block" /\ e.high = FALSE
        /\ \A S : Correlation!Mentions(e, S) <=> \E word \in S : word \in words \/ word \in found
        /\ \A S : Correlation!Found(e, S) <=> \E word \in S : word \in found
    BY MadeIs
  <2> HIDE DEF e
  <2>2. /\ Correlation!IsReconEvent(e) <=> "trust" = "recon"
        /\ Correlation!IsSensitiveAccess(e) <=> "trust" = "sensitive"
    BY <2>1 DEF words, found, Correlation!IsReconEvent, Correlation!IsSensitiveAccess
  <2>3. Correlation!IsExfilAttempt(e) <=> "trust" = "exfil"
    BY <2>1 DEF words, found, Correlation!IsExfilAttempt
  <2>4. /\ Correlation!IsInjectionAttempt(e) <=> "trust" = "injection"
        /\ Correlation!IsPrivilegeEscalation(e) <=> "trust" = "escalation"
        /\ Correlation!IsServerTrustViolation(e) <=> "trust" = "trust"
    BY <2>1 DEF words, found, Correlation!IsInjectionAttempt, Correlation!IsPrivilegeEscalation,
                Correlation!IsServerTrustViolation
  <2>5. Correlation!IsRepeatedBlock(e) <=> "trust" = "probing"
    BY <2>1 DEF Correlation!IsRepeatedBlock
  <2>6. Tagged(e, "trust")
    BY <2>2, <2>3, <2>4, <2>5, TaggedIs
  <2> QED
    BY <2>6 DEF e, words, found
<1>12. Tagged(Correlation!Made({}, "", "allow", FALSE, {}), "none")
  <2> DEFINE words == {}
             found == {}
             none == ""
             e == Correlation!Made(words, none, "allow", FALSE, found)
  <2>0. none \notin {"network_egress", "prompt_injection", "process_spawn", "server_trust"}
    BY Zenon
  <2> HIDE DEF words, found, none
  <2>1. /\ e.layer = none /\ e.action = "allow" /\ e.high = FALSE
        /\ \A S : Correlation!Mentions(e, S) <=> \E word \in S : word \in words \/ word \in found
        /\ \A S : Correlation!Found(e, S) <=> \E word \in S : word \in found
    BY MadeIs
  <2> HIDE DEF e
  <2>2. /\ Correlation!IsReconEvent(e) <=> "none" = "recon"
        /\ Correlation!IsSensitiveAccess(e) <=> "none" = "sensitive"
    BY <2>0, <2>1 DEF words, found, Correlation!IsReconEvent, Correlation!IsSensitiveAccess
  <2>3. Correlation!IsExfilAttempt(e) <=> "none" = "exfil"
    BY <2>0, <2>1 DEF words, found, Correlation!IsExfilAttempt
  <2>4. /\ Correlation!IsInjectionAttempt(e) <=> "none" = "injection"
        /\ Correlation!IsPrivilegeEscalation(e) <=> "none" = "escalation"
        /\ Correlation!IsServerTrustViolation(e) <=> "none" = "trust"
    BY <2>0, <2>1 DEF words, found, Correlation!IsInjectionAttempt, Correlation!IsPrivilegeEscalation,
                Correlation!IsServerTrustViolation
  <2>5. Correlation!IsRepeatedBlock(e) <=> "none" = "probing"
    BY <2>0, <2>1 DEF Correlation!IsRepeatedBlock
  <2>6. Tagged(e, "none")
    BY <2>2, <2>3, <2>4, <2>5, TaggedIs
  <2> QED
    BY <2>6 DEF e, words, found, none
<1>13. Tagged(Correlation!Made({}, "", "block", FALSE, {}), "none")
  <2> DEFINE words == {}
             found == {}
             none == ""
             e == Correlation!Made(words, none, "block", FALSE, found)
  <2>0. none \notin {"network_egress", "prompt_injection", "process_spawn", "server_trust"}
    BY Zenon
  <2> HIDE DEF words, found, none
  <2>1. /\ e.layer = none /\ e.action = "block" /\ e.high = FALSE
        /\ \A S : Correlation!Mentions(e, S) <=> \E word \in S : word \in words \/ word \in found
        /\ \A S : Correlation!Found(e, S) <=> \E word \in S : word \in found
    BY MadeIs
  <2> HIDE DEF e
  <2>2. /\ Correlation!IsReconEvent(e) <=> "none" = "recon"
        /\ Correlation!IsSensitiveAccess(e) <=> "none" = "sensitive"
    BY <2>0, <2>1 DEF words, found, Correlation!IsReconEvent, Correlation!IsSensitiveAccess
  <2>3. Correlation!IsExfilAttempt(e) <=> "none" = "exfil"
    BY <2>0, <2>1 DEF words, found, Correlation!IsExfilAttempt
  <2>4. /\ Correlation!IsInjectionAttempt(e) <=> "none" = "injection"
        /\ Correlation!IsPrivilegeEscalation(e) <=> "none" = "escalation"
        /\ Correlation!IsServerTrustViolation(e) <=> "none" = "trust"
    BY <2>0, <2>1 DEF words, found, Correlation!IsInjectionAttempt, Correlation!IsPrivilegeEscalation,
                Correlation!IsServerTrustViolation
  <2>5. Correlation!IsRepeatedBlock(e) <=> "none" = "probing"
    BY <2>0, <2>1 DEF Correlation!IsRepeatedBlock
  <2>6. Tagged(e, "none")
    BY <2>2, <2>3, <2>4, <2>5, TaggedIs
  <2> QED
    BY <2>6 DEF e, words, found, none
<1>14. CASE label = "mal_cor001"
  <2>1. /\ Correlation!Labelled["mal_cor001"][1] = Correlation!Made({"tools/list"}, "", "allow", FALSE, {"discover"})
        /\ Tags["mal_cor001"][1] = "recon"
        /\ Correlation!Labelled["mal_cor001"][2] = Correlation!Made({"read_file"}, "", "block", FALSE, {"sensitive"})
        /\ Tags["mal_cor001"][2] = "sensitive"
        /\ Correlation!Labelled["mal_cor001"][3] = Correlation!Made({}, "network_egress", "block", FALSE, {"exfiltration", "hidden_recipient"})
        /\ Tags["mal_cor001"][3] = "exfil"
    BY DEF Correlation!Labelled, Tags
  <2>2. i = 1 \/ i = 2 \/ i = 3
    BY <1>14, LabelLengths
  <2> QED
    BY <1>14, <2>1, <2>2, <1>1, <1>2, <1>3
<1>15. CASE label = "mal_cor002"
  <2>1. /\ Correlation!Labelled["mal_cor002"][1] = Correlation!Made({}, "", "block", FALSE, {"prompt_injection"})
        /\ Tags["mal_cor002"][1] = "injection"
        /\ Correlation!Labelled["mal_cor002"][2] = Correlation!Made({}, "process_spawn", "block", FALSE, {"subprocess"})
        /\ Tags["mal_cor002"][2] = "escalation"
    BY DEF Correlation!Labelled, Tags
  <2>2. i = 1 \/ i = 2
    BY <1>15, LabelLengths
  <2> QED
    BY <1>15, <2>1, <2>2, <1>4, <1>5
<1>16. CASE label = "mal_cor003"
  <2>1. /\ Correlation!Labelled["mal_cor003"][1] = Correlation!Made({}, "server_trust", "block", FALSE, {"unregistered", "shadow_server"})
        /\ Tags["mal_cor003"][1] = "trust"
        /\ Correlation!Labelled["mal_cor003"][2] = Correlation!Made({}, "network_egress", "block", FALSE, {"exfiltration"})
        /\ Tags["mal_cor003"][2] = "exfil"
    BY DEF Correlation!Labelled, Tags
  <2>2. i = 1 \/ i = 2
    BY <1>16, LabelLengths
  <2> QED
    BY <1>16, <2>1, <2>2, <1>6, <1>7
<1>17. CASE label = "mal_cor004"
  <2>1. /\ Correlation!Labelled["mal_cor004"][1] = Correlation!Made({}, "", "block", TRUE, {})
        /\ Tags["mal_cor004"][1] = "probing"
        /\ Correlation!Labelled["mal_cor004"][2] = Correlation!Made({}, "", "deny", TRUE, {})
        /\ Tags["mal_cor004"][2] = "probing"
        /\ Correlation!Labelled["mal_cor004"][3] = Correlation!Made({}, "", "block", TRUE, {})
        /\ Tags["mal_cor004"][3] = "probing"
    BY DEF Correlation!Labelled, Tags
  <2>2. i = 1 \/ i = 2 \/ i = 3
    BY <1>17, LabelLengths
  <2> QED
    BY <1>17, <2>1, <2>2, <1>8, <1>9
<1>18. CASE label = "mal_cor005"
  <2>1. /\ Correlation!Labelled["mal_cor005"][1] = Correlation!Made({}, "", "block", FALSE, {"prompt_injection"})
        /\ Tags["mal_cor005"][1] = "injection"
        /\ Correlation!Labelled["mal_cor005"][2] = Correlation!Made({}, "network_egress", "block", FALSE, {"exfiltration"})
        /\ Tags["mal_cor005"][2] = "exfil"
    BY DEF Correlation!Labelled, Tags
  <2>2. i = 1 \/ i = 2
    BY <1>18, LabelLengths
  <2> QED
    BY <1>18, <2>1, <2>2, <1>4, <1>7
<1>19. CASE label = "mal_cor006"
  <2>1. /\ Correlation!Labelled["mal_cor006"][1] = Correlation!Made({"get_secret"}, "", "block", FALSE, {"credentials"})
        /\ Tags["mal_cor006"][1] = "sensitive"
        /\ Correlation!Labelled["mal_cor006"][2] = Correlation!Made({}, "server_trust", "block", FALSE, {"unregistered"})
        /\ Tags["mal_cor006"][2] = "trust"
    BY DEF Correlation!Labelled, Tags
  <2>2. i = 1 \/ i = 2
    BY <1>19, LabelLengths
  <2> QED
    BY <1>19, <2>1, <2>2, <1>10, <1>11
<1>20. CASE label = "ben_normal_1"
  <2>1. /\ Correlation!Labelled["ben_normal_1"][1] = Correlation!Made({}, "", "allow", FALSE, {})
        /\ Tags["ben_normal_1"][1] = "none"
        /\ Correlation!Labelled["ben_normal_1"][2] = Correlation!Made({}, "", "allow", FALSE, {})
        /\ Tags["ben_normal_1"][2] = "none"
    BY DEF Correlation!Labelled, Tags
  <2>2. i = 1 \/ i = 2
    BY <1>20, LabelLengths
  <2> QED
    BY <1>20, <2>1, <2>2, <1>12
<1>21. CASE label = "ben_single_block"
  <2>1. /\ Correlation!Labelled["ben_single_block"][1] = Correlation!Made({}, "", "block", FALSE, {})
        /\ Tags["ben_single_block"][1] = "none"
    BY DEF Correlation!Labelled, Tags
  <2>2. i = 1
    BY <1>21, LabelLengths
  <2> QED
    BY <1>21, <2>1, <2>2, <1>13
<1>22. CASE label = "ben_low_risk_blocks"
  <2>1. /\ Correlation!Labelled["ben_low_risk_blocks"][1] = Correlation!Made({}, "", "block", FALSE, {})
        /\ Tags["ben_low_risk_blocks"][1] = "none"
        /\ Correlation!Labelled["ben_low_risk_blocks"][2] = Correlation!Made({}, "", "block", FALSE, {})
        /\ Tags["ben_low_risk_blocks"][2] = "none"
        /\ Correlation!Labelled["ben_low_risk_blocks"][3] = Correlation!Made({}, "", "block", FALSE, {})
        /\ Tags["ben_low_risk_blocks"][3] = "none"
    BY DEF Correlation!Labelled, Tags
  <2>2. i = 1 \/ i = 2 \/ i = 3
    BY <1>22, LabelLengths
  <2> QED
    BY <1>22, <2>1, <2>2, <1>13
<1> QED
  BY <1>14, <1>15, <1>16, <1>17, <1>18, <1>19, <1>20, <1>21, <1>22 DEF LabelNames

LEMMA RuleStages ==
  /\ Correlation!Rules["COR001"].stages = <<"recon", "sensitive", "exfil">>
  /\ Correlation!Rules["COR002"].stages = <<"injection", "escalation">>
  /\ Correlation!Rules["COR003"].stages = <<"trust", "exfil">>
  /\ Correlation!Rules["COR004"].stages = <<"probing", "probing", "probing">>
  /\ Correlation!Rules["COR005"].stages = <<"injection", "exfil">>
  /\ Correlation!Rules["COR006"].stages = <<"sensitive", "trust">>
  BY DEF Correlation!Rules, Correlation!Rule

LEMMA TagsAre ==
  /\ \A label \in LabelNames : Len(Tags[label]) = Len(Correlation!Labelled[label])
  /\ Tags["mal_cor001"] = <<"recon", "sensitive", "exfil">>
  /\ Tags["mal_cor002"] = <<"injection", "escalation">>
  /\ Tags["mal_cor003"] = <<"trust", "exfil">>
  /\ Tags["mal_cor004"] = <<"probing", "probing", "probing">>
  /\ Tags["mal_cor005"] = <<"injection", "exfil">>
  /\ Tags["mal_cor006"] = <<"sensitive", "trust">>
  /\ Tags["ben_normal_1"] = <<"none", "none">>
  /\ Tags["ben_single_block"] = <<"none">>
  /\ Tags["ben_low_risk_blocks"] = <<"none", "none", "none">>
<1>1. /\ Tags["mal_cor001"] = <<"recon", "sensitive", "exfil">>
      /\ Tags["mal_cor002"] = <<"injection", "escalation">>
      /\ Tags["mal_cor003"] = <<"trust", "exfil">>
      /\ Tags["mal_cor004"] = <<"probing", "probing", "probing">>
      /\ Tags["mal_cor005"] = <<"injection", "exfil">>
      /\ Tags["mal_cor006"] = <<"sensitive", "trust">>
      /\ Tags["ben_normal_1"] = <<"none", "none">>
      /\ Tags["ben_single_block"] = <<"none">>
      /\ Tags["ben_low_risk_blocks"] = <<"none", "none", "none">>
  BY DEF Tags
<1>2. /\ Len(Tags["mal_cor001"]) = 3
      /\ Len(Tags["mal_cor002"]) = 2
      /\ Len(Tags["mal_cor003"]) = 2
      /\ Len(Tags["mal_cor004"]) = 3
      /\ Len(Tags["mal_cor005"]) = 2
      /\ Len(Tags["mal_cor006"]) = 2
      /\ Len(Tags["ben_normal_1"]) = 2
      /\ Len(Tags["ben_single_block"]) = 1
      /\ Len(Tags["ben_low_risk_blocks"]) = 3
  BY <1>1
<1>3. \A label \in LabelNames : Len(Tags[label]) = Len(Correlation!Labelled[label])
  BY <1>2, LabelLengths DEF LabelNames
<1> QED
  BY <1>1, <1>3

LEMMA ExpectedIs ==
  /\ Correlation!Expected["mal_cor001"] = {"COR001"}
  /\ Correlation!Expected["mal_cor002"] = {"COR002"}
  /\ Correlation!Expected["mal_cor003"] = {"COR003"}
  /\ Correlation!Expected["mal_cor004"] = {"COR004"}
  /\ Correlation!Expected["mal_cor005"] = {"COR005"}
  /\ Correlation!Expected["mal_cor006"] = {"COR006"}
  /\ Correlation!Expected["ben_normal_1"] = {}
  /\ Correlation!Expected["ben_single_block"] = {}
  /\ Correlation!Expected["ben_low_risk_blocks"] = {}
  BY DEF Correlation!Expected

\* A labelled sequence that is in the first two stages of a rule, in this order,
\* is labelled with it.
LEMMA LabelledWith ==
  ASSUME NEW label \in LabelNames, NEW id \in RuleName6, NEW a \in Nat, NEW b \in Nat,
         1 <= a, a < b, b <= Len(Tags[label]),
         Tags[label][a] = Correlation!Rules[id].stages[1],
         Tags[label][b] = Correlation!Rules[id].stages[2]
  PROVE  id \in Correlation!Expected[label]
<1> DEFINE first == Tags[label][a]
           other == Tags[label][b]
<1>1. \/ id = "COR001" /\ first = "recon" /\ other = "sensitive"
      \/ id = "COR002" /\ first = "injection" /\ other = "escalation"
      \/ id = "COR003" /\ first = "trust" /\ other = "exfil"
      \/ id = "COR004" /\ first = "probing" /\ other = "probing"
      \/ id = "COR005" /\ first = "injection" /\ other = "exfil"
      \/ id = "COR006" /\ first = "sensitive" /\ other = "trust"
  BY RuleStages DEF RuleName6
<1>2. CASE label = "mal_cor001"
  <2>1. Tags[label] = <<"recon", "sensitive", "exfil">>
    BY <1>2, TagsAre
  <2>2. (a = 1 /\ b = 2) \/ (a = 1 /\ b = 3) \/ (a = 2 /\ b = 3)
    BY <2>1
  <2>3. (first = "recon" /\ other = "exfil") \/ (first = "recon" /\ other = "sensitive") \/ (first = "sensitive" /\ other = "exfil")
    BY <2>1, <2>2
  <2> HIDE DEF first, other
  <2> QED
    BY <1>1, <1>2, <2>3, ExpectedIs
<1>3. CASE label = "mal_cor002"
  <2>1. Tags[label] = <<"injection", "escalation">>
    BY <1>3, TagsAre
  <2>2. (a = 1 /\ b = 2)
    BY <2>1
  <2>3. (first = "injection" /\ other = "escalation")
    BY <2>1, <2>2
  <2> HIDE DEF first, other
  <2> QED
    BY <1>1, <1>3, <2>3, ExpectedIs
<1>4. CASE label = "mal_cor003"
  <2>1. Tags[label] = <<"trust", "exfil">>
    BY <1>4, TagsAre
  <2>2. (a = 1 /\ b = 2)
    BY <2>1
  <2>3. (first = "trust" /\ other = "exfil")
    BY <2>1, <2>2
  <2> HIDE DEF first, other
  <2> QED
    BY <1>1, <1>4, <2>3, ExpectedIs
<1>5. CASE label = "mal_cor004"
  <2>1. Tags[label] = <<"probing", "probing", "probing">>
    BY <1>5, TagsAre
  <2>2. (a = 1 /\ b = 2) \/ (a = 1 /\ b = 3) \/ (a = 2 /\ b = 3)
    BY <2>1
  <2>3. (first = "probing" /\ other = "probing")
    BY <2>1, <2>2
  <2> HIDE DEF first, other
  <2> QED
    BY <1>1, <1>5, <2>3, ExpectedIs
<1>6. CASE label = "mal_cor005"
  <2>1. Tags[label] = <<"injection", "exfil">>
    BY <1>6, TagsAre
  <2>2. (a = 1 /\ b = 2)
    BY <2>1
  <2>3. (first = "injection" /\ other = "exfil")
    BY <2>1, <2>2
  <2> HIDE DEF first, other
  <2> QED
    BY <1>1, <1>6, <2>3, ExpectedIs
<1>7. CASE label = "mal_cor006"
  <2>1. Tags[label] = <<"sensitive", "trust">>
    BY <1>7, TagsAre
  <2>2. (a = 1 /\ b = 2)
    BY <2>1
  <2>3. (first = "sensitive" /\ other = "trust")
    BY <2>1, <2>2
  <2> HIDE DEF first, other
  <2> QED
    BY <1>1, <1>7, <2>3, ExpectedIs
<1>8. CASE label = "ben_normal_1"
  <2>1. Tags[label] = <<"none", "none">>
    BY <1>8, TagsAre
  <2>2. (a = 1 /\ b = 2)
    BY <2>1
  <2>3. (first = "none" /\ other = "none")
    BY <2>1, <2>2
  <2> HIDE DEF first, other
  <2> QED
    BY <1>1, <1>8, <2>3, ExpectedIs
<1>9. CASE label = "ben_single_block"
  <2>1. Len(Tags[label]) = 1
    BY <1>9, TagsAre
  <2> QED
    BY <2>1
<1>10. CASE label = "ben_low_risk_blocks"
  <2>1. Tags[label] = <<"none", "none", "none">>
    BY <1>10, TagsAre
  <2>2. (a = 1 /\ b = 2) \/ (a = 1 /\ b = 3) \/ (a = 2 /\ b = 3)
    BY <2>1
  <2>3. (first = "none" /\ other = "none")
    BY <2>1, <2>2
  <2> HIDE DEF first, other
  <2> QED
    BY <1>1, <1>10, <2>3, ExpectedIs
<1> QED
  BY <1>2, <1>3, <1>4, <1>5, <1>6, <1>7, <1>8, <1>9, <1>10 DEF LabelNames

\* A rule that a sequence is labelled with has its stages.
LEMMA LabelledIsChain ==
  ASSUME NEW label \in LabelNames, NEW id \in Correlation!Expected[label]
  PROVE  id \in RuleName6 /\ Tags[label] = Correlation!Rules[id].stages
<1>1. \/ label = "mal_cor001" /\ id = "COR001"
      \/ label = "mal_cor002" /\ id = "COR002"
      \/ label = "mal_cor003" /\ id = "COR003"
      \/ label = "mal_cor004" /\ id = "COR004"
      \/ label = "mal_cor005" /\ id = "COR005"
      \/ label = "mal_cor006" /\ id = "COR006"
  BY ExpectedIs DEF LabelNames
<1>2. /\ Tags["mal_cor001"] = Correlation!Rules["COR001"].stages
      /\ Tags["mal_cor002"] = Correlation!Rules["COR002"].stages
      /\ Tags["mal_cor003"] = Correlation!Rules["COR003"].stages
      /\ Tags["mal_cor004"] = Correlation!Rules["COR004"].stages
      /\ Tags["mal_cor005"] = Correlation!Rules["COR005"].stages
      /\ Tags["mal_cor006"] = Correlation!Rules["COR006"].stages
  BY TagsAre, RuleStages
<1> QED
  BY <1>1, <1>2 DEF RuleName6

LEMMA StageOfRule ==
  ASSUME NEW id \in RuleName6, NEW k \in 1..Len(Correlation!Rules[id].stages)
  PROVE  Correlation!Rules[id].stages[k] \in StageNames
<1>1. \A x \in RuleName6 : Correlation!Rules[x].stages \in Seq(StageNames)
  <2>1. /\ Correlation!Rules["COR001"].stages \in Seq(StageNames)
        /\ Correlation!Rules["COR002"].stages \in Seq(StageNames)
        /\ Correlation!Rules["COR003"].stages \in Seq(StageNames)
        /\ Correlation!Rules["COR004"].stages \in Seq(StageNames)
        /\ Correlation!Rules["COR005"].stages \in Seq(StageNames)
        /\ Correlation!Rules["COR006"].stages \in Seq(StageNames)
    BY RuleStages DEF StageNames
  <2> QED
    BY <2>1 DEF RuleName6
<1> QED
  BY <1>1, ElementOfSeq

\* The window of a labelled sequence of which m events were replayed.
Replayed(label, m) == [i \in 1..m |-> At(Correlation!Labelled[label][i], 0)]

LEMMA ReplayedIs ==
  ASSUME NEW label \in LabelNames, NEW m \in 0..Len(Correlation!Labelled[label])
  PROVE  LET w == Replayed(label, m)
         IN /\ InOrder(w) /\ Len(w) = m
            /\ \A i \in 1..m : w[i].at = 0
            /\ \A i \in 1..m : \A s \in StageNames : Correlation!Is(w[i], s) <=> s = Tags[label][i]
<1> DEFINE w == Replayed(label, m)
<1>1. Len(Correlation!Labelled[label]) \in Nat /\ m \in Nat
  BY LabelLengths
<1>2. \A i \in 1..m : i \in 1..Len(Correlation!Labelled[label])
  BY <1>1
<1>3. \A i \in 1..m : w[i] = At(Correlation!Labelled[label][i], 0)
  BY DEF Replayed
<1>4. \A i \in 1..m : At(Correlation!Labelled[label][i], 0) \in Entry
  <2> SUFFICES ASSUME NEW i \in 1..m
               PROVE  At(Correlation!Labelled[label][i], 0) \in Entry
    OBVIOUS
  <2>1. Correlation!Labelled[label][i] \in Offered
    BY <1>2, LabelLengths, LabelledIsOffered
  <2> QED
    BY <2>1 DEF Entry
<1>5. w \in Seq(Entry) /\ Len(w) = m
  BY <1>1, <1>4 DEF Replayed
<1> HIDE DEF w
<1>6. ASSUME NEW i \in 1..m
      PROVE  w[i].at = 0
  <2>1. PICK event : event = Correlation!Labelled[label][i]
    OBVIOUS
  <2>2. w[i] = At(event, 0)
    BY <1>3, <2>1
  <2> QED
    BY <2>2 DEF At
<1>7. ASSUME NEW i \in 1..m, NEW s \in StageNames
      PROVE  Correlation!Is(w[i], s) <=> s = Tags[label][i]
  <2>1. Tagged(Correlation!Labelled[label][i], Tags[label][i])
    BY <1>2, EventsAreTagged
  <2> QED
    BY <1>3, <2>1 DEF Tagged
<1>8. InOrder(w)
  BY <1>5, <1>6 DEF InOrder
<1> QED
  BY <1>5, <1>6, <1>7, <1>8 DEF w

\* Replaying fires nothing but what the sequence is labelled with.
LEMMA FiresAsLabelled ==
  ASSUME NEW label \in LabelNames, NEW m \in 0..Len(Correlation!Labelled[label]),
         NEW id \in RuleName6, Correlation!Fires(Correlation!Rules[id], Replayed(label, m))
  PROVE  id \in Correlation!Expected[label]
<1> DEFINE w == Replayed(label, m)
           stages == Correlation!Rules[id].stages
           n == Len(stages)
           f == Correlation!Collected(Correlation!Rules[id], w)
           a == f[1]
           b == f[2]
<1>1. /\ InOrder(w) /\ Len(w) = m
      /\ \A i \in 1..m : \A s \in StageNames : Correlation!Is(w[i], s) <=> s = Tags[label][i]
  BY ReplayedIs
<1>2. Correlation!Fires(Correlation!Rules[id], w)
  OBVIOUS
<1> HIDE DEF w
<1>3. f \in Correlation!Chains(Correlation!Rules[id], w)
  BY <1>1, <1>2, FiresThenChain DEF FirstChain
<1>4. n \in {2, 3} /\ n \in Nat
  BY CorrelationRules
<1> HIDE DEF f
<1>5. /\ \A k \in 1..n : f[k] \in 1..m /\ Correlation!Is(w[f[k]], stages[k])
      /\ \A k \in 2..n : f[k - 1] < f[k]
  BY <1>1, <1>3 DEF Correlation!Chains
<1>6. \A k \in 1..n : stages[k] \in StageNames
  BY StageOfRule
<1> HIDE DEF stages, n
<1>7. 1 \in 1..n /\ 2 \in 1..n /\ 2 \in 2..n /\ 2 - 1 = 1
  BY <1>4
<1>8. a \in 1..m /\ b \in 1..m
  BY <1>5, <1>7
<1>9. a < b
  <2>1. f[2 - 1] < f[2]
    BY <1>5, <1>7
  <2> QED
    BY <1>7, <2>1
<1>10. Tags[label][a] = stages[1] /\ Tags[label][b] = stages[2]
  BY <1>1, <1>5, <1>6, <1>7, <1>8
<1>11. Len(Tags[label]) = Len(Correlation!Labelled[label]) /\ Len(Correlation!Labelled[label]) \in Nat
  BY TagsAre, LabelLengths
<1> HIDE DEF a, b
<1>12. a \in Nat /\ b \in Nat /\ 1 <= a /\ b <= Len(Tags[label])
  BY <1>8, <1>11
<1> QED
  BY <1>9, <1>10, <1>12, LabelledWith DEF stages

\* And the whole sequence fires it.
LEMMA LabelFires ==
  ASSUME NEW label \in LabelNames, NEW id \in Correlation!Expected[label]
  PROVE  /\ id \in RuleName6
         /\ Correlation!Fires(Correlation!Rules[id],
                              Replayed(label, Len(Correlation!Labelled[label])))
<1> DEFINE rule == Correlation!Rules[id]
           m == Len(Correlation!Labelled[label])
           w == Replayed(label, m)
           c == [k \in 1..m |-> k]
<1>1. /\ id \in RuleName6 /\ Tags[label] = rule.stages /\ Len(rule.stages) = m
      /\ m \in Nat /\ m \in 1..3 /\ rule.window \in Nat
  BY LabelledIsChain, TagsAre, LabelLengths, CorrelationRules
<1>2. /\ InOrder(w) /\ Len(w) = m
      /\ \A i \in 1..m : w[i].at = 0
      /\ \A i \in 1..m : \A s \in StageNames : Correlation!Is(w[i], s) <=> s = Tags[label][i]
  <2>1. m \in 0..m
    BY <1>1
  <2> QED
    BY <2>1, ReplayedIs
<1>3. \A k \in 1..m : rule.stages[k] \in StageNames
  BY <1>1, StageOfRule
<1> HIDE DEF w, m, rule
<1>4. c \in [1..m -> 1..m] /\ \A k \in 1..m : c[k] = k
  OBVIOUS
<1>5. \A k \in 2..m : c[k - 1] < c[k]
  <2> SUFFICES ASSUME NEW k \in 2..m
               PROVE  c[k - 1] < c[k]
    OBVIOUS
  <2>1. k \in 1..m /\ k - 1 \in 1..m /\ k - 1 < k
    BY <1>1
  <2> QED
    BY <1>4, <2>1
<1> HIDE DEF c
<1>6. \A k \in 1..m : Correlation!Is(w[c[k]], rule.stages[k])
  BY <1>1, <1>2, <1>3, <1>4
<1>7. 1 \in 1..m /\ m \in 1..m
  BY <1>1
<1>8. \A i \in 1..(c[1] - 1) : ~Correlation!Is(w[i], rule.stages[1])
  BY <1>4, <1>7
<1>9. w[c[m]].at - w[c[1]].at <= rule.window
  BY <1>1, <1>2, <1>4, <1>7
<1>10. c \in Correlation!Chains(rule, w)
  BY <1>1, <1>2, <1>4, <1>5, <1>6 DEF Correlation!Chains
<1>11. FirstChain(rule, w, c)
  BY <1>1, <1>8, <1>9, <1>10 DEF FirstChain
<1>12. Correlation!Fires(rule, w)
  BY <1>1, <1>2, <1>11, ChainThenFires DEF rule
<1> QED
  BY <1>1, <1>12 DEF w, m, rule

ReplayInv ==
  /\ history = <<>> => fired = {}
  /\ replayed # "none" =>
       LET length == Len(Correlation!Labelled[replayed])
       IN /\ minute = 0
          /\ Len(history) <= length
          /\ history # <<>> =>
               \E key \in Sessions : sessions[key] = Replayed(replayed, Len(history))
          /\ fired \subseteq Correlation!Expected[replayed]
          /\ Len(history) = length => Correlation!Expected[replayed] \subseteq fired

\* One more event of a labelled sequence.
LEMMA ReplayedOne ==
  ASSUME WindowsInv, ReplayInv, Correlation!Replay
  PROVE  LET m == Len(history) + 1
         IN /\ replayed \in LabelNames /\ m <= Len(Correlation!Labelled[replayed])
            /\ minute' = 0 /\ replayed' = replayed /\ Len(history') = m
            /\ \E key \in Sessions : sessions'[key] = Replayed(replayed, m)
            /\ fired' = fired \cup {id \in RuleName6 : Correlation!Fires(Correlation!Rules[id],
                                                                        Replayed(replayed, m))}
<1> DEFINE n == Len(history)
           length == Len(Correlation!Labelled[replayed])
           event == Correlation!Labelled[replayed][n + 1]
<1>1. /\ replayed \in LabelNames /\ n < length
      /\ \E key \in Sessions : /\ \A other \in Sessions \ {key} : sessions[other] = <<>>
                               /\ Correlation!Ingest(key, event)
  BY LabelLengths DEF Correlation!Replay, WindowsInv
<1>2. length \in 1..3 /\ length \in Nat /\ n \in Nat
  <2>1. Recorded(history, minute)
    BY DEF WindowsInv
  <2> QED
    BY <1>1, <2>1, LabelLengths, RecordedIs
<1>3. /\ minute = 0
      /\ history # <<>> => \E key \in Sessions : sessions[key] = Replayed(replayed, n)
  BY DEF ReplayInv, Correlation!Replay
<1>4. PICK key \in Sessions : /\ \A other \in Sessions \ {key} : sessions[other] = <<>>
                              /\ Correlation!Ingest(key, event)
  BY <1>1
<1> DEFINE w == sessions[key]
           u == Append(w, At(event, minute))
           v == Correlation!Expire(u)
           r == Replayed(replayed, n + 1)
<1>5. event \in Offered
  BY <1>1, <1>2, LabelLengths, LabelledIsOffered
<1>6. /\ minute' = minute /\ replayed' = replayed
      /\ history' = Append(history, [key |-> key, event |-> Correlation!Stamped(event)])
  BY <1>4 DEF Correlation!Ingest
<1>7. Len(history') = n + 1
  <2>1. history \in Seq(History) /\ minute \in Nat
    BY DEF WindowsInv, Recorded
  <2>2. Correlation!Stamped(event) \in Entry
    BY <1>5, <2>1, StampedIs DEF Entry
  <2>3. [key |-> key, event |-> Correlation!Stamped(event)] \in History
    BY <2>2 DEF History
  <2> QED
    BY <1>6, <2>1, <2>3, AppendProperties
<1>8. /\ InOrder(Replayed(replayed, n)) /\ Len(Replayed(replayed, n)) = n
      /\ \A i \in 1..n : Replayed(replayed, n)[i].at = 0
  <2>1. n \in 0..length
    BY <1>1, <1>2
  <2> QED
    BY <1>1, <2>1, ReplayedIs
<1>9. InOrder(r) /\ Len(r) = n + 1 /\ \A i \in 1..(n + 1) : r[i].at = 0
  <2>1. n + 1 \in 0..length
    BY <1>1, <1>2
  <2> HIDE DEF n
  <2> QED
    BY <1>1, <2>1, ReplayedIs
<1>10. w = Replayed(replayed, n)
  <2>1. CASE history = <<>>
    <3>1. w = <<>> /\ n = 0
      BY <2>1, NothingRecorded
    <3>2. Replayed(replayed, n) = <<>>
      BY <1>8, <3>1, EmptySeq DEF InOrder
    <3> QED
      BY <3>1, <3>2
  <2>2. CASE history # <<>>
    <3>1. PICK k \in Sessions : sessions[k] = Replayed(replayed, n)
      BY <1>3, <2>2
    <3>2. n # 0
      <4>1. history \in Seq(History)
        BY DEF WindowsInv, Recorded
      <4> QED
        BY <2>2, <4>1, EmptySeq
    <3>3. sessions[k] # <<>>
      BY <1>8, <3>1, <3>2
    <3>4. k = key
      BY <1>4, <3>3
    <3> QED
      BY <3>1, <3>4
  <2> QED
    BY <2>1, <2>2
<1>11. /\ InOrder(u) /\ Len(u) = n + 1
       /\ \A i \in 1..n : u[i] = w[i]
       /\ sessions'[key] = v
       /\ fired' = fired \cup {id \in RuleName6 : Correlation!Fires(Correlation!Rules[id], v)}
  BY <1>4, <1>5, <1>8, <1>10, IngestedWindow
<1>12. \A i \in 1..(n + 1) : u[i] = r[i]
  <2>1. u[n + 1] = At(event, 0)
    <3>1. w \in Seq(Entry) /\ Len(w) = n
      BY <1>8, <1>10 DEF InOrder
    <3>2. At(event, 0) \in Entry
      BY <1>5 DEF Entry
    <3> HIDE DEF event
    <3> QED
      BY <1>3, <3>1, <3>2, AppendProperties
  <2>2. r[n + 1] = At(event, 0)
    BY <1>2 DEF Replayed
  <2>3. \A i \in 1..n : r[i] = Replayed(replayed, n)[i]
    BY <1>2 DEF Replayed
  <2>4. \A i \in 1..(n + 1) : i \in 1..n \/ i = n + 1
    BY <1>2
  <2> HIDE DEF u, r
  <2> QED
    BY <1>10, <1>11, <2>1, <2>2, <2>3, <2>4
<1> HIDE DEF u, r, w
<1>13. v = r
  <2>1. PICK gone \in 0..(n + 1) :
          /\ InOrder(v) /\ Len(v) = n + 1 - gone
          /\ \A j \in 1..Len(v) : v[j] = u[gone + j]
          /\ \/ \A j \in 1..gone : u[j].at <= minute - Window
             \/ Len(v) = Correlation!Cap
    <3>1. InOrder(u) /\ Len(u) = n + 1 /\ minute \in Nat /\ n \in Nat
      BY <1>2, <1>3, <1>11
    <3> HIDE DEF n
    <3>2. \E gone \in 0..Len(u) :
             /\ InOrder(v) /\ Len(v) = Len(u) - gone
             /\ \A j \in 1..Len(v) : v[j] = u[gone + j]
             /\ \/ \A j \in 1..gone : u[j].at <= minute - Window
                \/ Len(v) = Correlation!Cap
      BY <3>1, ExpireIs
    <3> HIDE DEF v
    <3>3. PICK gone \in 0..Len(u) :
             /\ InOrder(v) /\ Len(v) = Len(u) - gone
             /\ \A j \in 1..Len(v) : v[j] = u[gone + j]
             /\ \/ \A j \in 1..gone : u[j].at <= minute - Window
                \/ Len(v) = Correlation!Cap
      BY <3>2
    <3>4. gone \in 0..(n + 1)
      BY <3>1
    <3>5. Len(v) = n + 1 - gone
      BY <3>1, <3>3
    <3> QED
      BY <3>3, <3>4, <3>5
  <2>2. Correlation!Cap = 1000
    <3>1. replayed # "none"
      BY DEF Correlation!Replay
    <3> QED
      BY <3>1 DEF Correlation!Cap
  <2>3. Len(v) # Correlation!Cap
    BY <1>1, <1>2, <2>1, <2>2
  <2>4. gone = 0
    <3>1. CASE gone # 0
      <4>1. 1 \in 1..gone /\ 1 \in 1..(n + 1)
        BY <1>2, <2>1, <3>1
      <4>2. u[1].at = 0
        BY <1>9, <1>12, <4>1
      <4>3. u[1].at <= 0 - Window
        BY <1>3, <2>1, <2>3, <4>1
      <4> QED
        BY <4>2, <4>3, CorrelationAssumption
    <3> QED
      BY <3>1
  <2> HIDE DEF v
  <2>5. Len(v) = n + 1 /\ \A j \in 1..Len(v) : v[j] = r[j]
    BY <1>2, <1>12, <2>1, <2>4
  <2>6. v \in Seq(Entry) /\ r \in Seq(Entry) /\ Len(r) = Len(v)
    BY <1>9, <2>1, <2>5 DEF InOrder
  <2> QED
    BY <2>5, <2>6, SeqEqual
<1>14. sessions'[key] = r
  BY <1>11, <1>13
<1>15. fired' = fired \cup {id \in RuleName6 : Correlation!Fires(Correlation!Rules[id], r)}
  BY <1>11, <1>13
<1>16. n + 1 <= length
  BY <1>1, <1>2
<1> QED
  BY <1>1, <1>3, <1>6, <1>7, <1>14, <1>15, <1>16 DEF r

LEMMA ReplayStep ==
  ASSUME WindowsInv, ReplayInv, [Correlation!Next]_correlation
  PROVE  ReplayInv'
<1>1. CASE UNCHANGED correlation
  BY <1>1 DEF correlation, ReplayInv
<1>2. CASE Correlation!Observe
  <2>1. PICK key \in Sessions, event \in Events : Correlation!Ingest(key, event)
    BY <1>2 DEF Correlation!Observe
  <2>2. /\ replayed' = "none"
        /\ history' = Append(history, [key |-> key, event |-> Correlation!Stamped(event)])
    BY <1>2, <2>1 DEF Correlation!Ingest, Correlation!Observe
  <2>3. history' # <<>>
    <3>1. history \in Seq(History) /\ minute \in Nat
      BY DEF WindowsInv, Recorded
    <3>2. Correlation!Stamped(event) \in Entry
      BY <3>1, StampedIs DEF Entry, Offered
    <3>3. [key |-> key, event |-> Correlation!Stamped(event)] \in History
      BY <3>2 DEF History
    <3> QED
      BY <2>2, <3>1, <3>3, AppendProperties
  <2> QED
    BY <2>2, <2>3 DEF ReplayInv
<1>3. CASE Correlation!EvaluateAll \/ Correlation!PassMinute
  BY <1>3 DEF Correlation!EvaluateAll, Correlation!PassMinute, ReplayInv
<1>4. CASE Correlation!StartReplay
  <2>1. /\ history = <<>> /\ history' = <<>> /\ minute' = 0 /\ fired' = {}
        /\ replayed' \in LabelNames
    BY <1>4, LabelLengths DEF Correlation!StartReplay, ReplayInv
  <2>2. Len(Correlation!Labelled[replayed']) \in 1..3 /\ Len(history') = 0
    BY <2>1, LabelLengths
  <2> QED
    BY <2>1, <2>2 DEF ReplayInv
<1>5. CASE Correlation!Replay
  <2> DEFINE m == Len(history) + 1
             length == Len(Correlation!Labelled[replayed])
             expected == Correlation!Expected[replayed]
             r == Replayed(replayed, m)
             new == {id \in RuleName6 : Correlation!Fires(Correlation!Rules[id], r)}
  <2>1. /\ replayed \in LabelNames /\ m <= length
        /\ minute' = 0 /\ replayed' = replayed /\ Len(history') = m
        /\ \E key \in Sessions : sessions'[key] = r
        /\ fired' = fired \cup new
    BY <1>5, ReplayedOne
  <2>2. m \in 0..length
    <3>1. Len(history) \in Nat /\ length \in Nat
      BY <2>1, LabelLengths, RecordedIs DEF WindowsInv
    <3> QED
      BY <2>1, <3>1
  <2>3. fired \subseteq expected
    BY <1>5 DEF ReplayInv, Correlation!Replay
  <2>4. new \subseteq expected
    BY <2>1, <2>2, FiresAsLabelled
  <2>5. m = length => expected \subseteq new
    BY <2>1, LabelFires
  <2>6. history' # <<>>
    <3>1. Len(history') # 0
      BY <2>1, <2>2, RecordedIs DEF WindowsInv
    <3> QED
      BY <3>1
  <2> HIDE DEF new, r, expected
  <2>7. fired' \subseteq expected /\ (m = length => expected \subseteq fired')
    BY <2>1, <2>3, <2>4, <2>5
  <2> HIDE DEF m
  <2>8. Len(history') = m /\ \E key \in Sessions : sessions'[key] = Replayed(replayed', Len(history'))
    BY <2>1 DEF r
  <2>9. Correlation!Expected[replayed'] = expected /\ Len(Correlation!Labelled[replayed']) = length
    BY <2>1 DEF expected
  <2> QED
    BY <2>1, <2>6, <2>7, <2>8, <2>9 DEF ReplayInv
<1> QED
  BY <1>1, <1>2, <1>3, <1>4, <1>5 DEF Correlation!Next

LEMMA ReplayInit == Init => ReplayInv
  BY DEF Init, Correlation!Init, ReplayInv

LEMMA LabelsFit == ReplayInv => Correlation!LabelsHold
  BY DEF ReplayInv, Correlation!LabelsHold

\* The correlation engine, for any sessions, events, windows and caps: the
\* window of a session is the latest of its own recent events, a rule fires
\* exactly for a chain from the first event of its first stage, the labelled
\* sequences fire what they are labelled with, and a match is returned again
\* until the event it starts from is gone (CorrelationEngine.ingest,
\* _expire_old_events, CorrelationRule.evaluate, run_precision_recall).
THEOREM PartsCorrelation == Spec => CorrelationHolds
<1> DEFINE Repeated == \A key \in Sessions, id \in Correlation!RuleIds :
             LET gone == Len(sessions[key]) + 1 - Len(sessions'[key])
             IN (/\ history' # history
                 /\ history'[Len(history')].key = key
                 /\ Correlation!Fires(Correlation!Rules[id], sessions[key])
                 /\ Correlation!Collected(Correlation!Rules[id], sessions[key])[1] > gone)
                => id \in matches'
           Stands == /\ Correlation!WindowIsLatestEvents
                     /\ Correlation!FiresOnFirstChain
                     /\ Correlation!LabelsHold
<1>1. Init => WindowsInv /\ ReplayInv
  BY WindowsInit, ReplayInit
<1>2. WindowsInv /\ ReplayInv /\ [Next]_vars => (WindowsInv /\ ReplayInv)'
  BY PartsStep, WindowsStep, ReplayStep
<1>3. WindowsInv /\ [Next]_vars => [Repeated]_correlation
  <2> SUFFICES ASSUME WindowsInv, [Next]_vars PROVE Repeated
    OBVIOUS
  <2>1. Correlation!RuleIds = RuleName6
    BY CorrelationRules
  <2>2. [Correlation!Next]_correlation
    BY PartsStep
  <2> QED
    BY <2>1, <2>2, MatchRepeated
<1>4. WindowsInv /\ ReplayInv => Stands
  BY LatestEvents, FirstChains, LabelsFit
<1> QED
  BY <1>1, <1>2, <1>3, <1>4, PTL
     DEF Spec, CorrelationHolds, Correlation!MatchesAreRepeated, Correlation!vars, correlation
=============================================================================
