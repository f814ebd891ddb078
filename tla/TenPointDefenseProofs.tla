----------------------- MODULE TenPointDefenseProofs -----------------------
(***************************************************************************)
(* What holds of the ten-point defense for every set of servers, calls and *)
(* addresses, every age and size of the registry and every sending limit.  *)
(* Nothing is let out for a recipient its call did not name: inductive     *)
(* once every remembered intent is known to be its call's own (Faithful).  *)
(* The registry holds at most one intent above its size: an overfull one   *)
(* loses at least its oldest entry.  No window holds more sends than the   *)
(* limit: every send let through is among the attempts counted, as long as *)
(* it is in the window (SendInv).  And a server knows an address because an *)
(* operator approved it or, where it learns, because a call was held for   *)
(* it; a call that names one it does not know is never let through.        *)
(***************************************************************************)
EXTENDS TenPointDefense, SequenceTheorems, FiniteSetTheorems, WellFoundedInduction,
        TLAPS

\* An intent is that of the call it is filed under.
Faithful ==
   \A i \in DOMAIN intents :
      i \in DOMAIN calls /\ intents[i].recipients = calls[i].to

IInv ==
   /\ calls \in Seq(Call)
   /\ outbound \in Seq([id : Nat, emails : SUBSET Address, allowed : BOOLEAN])
   /\ Faithful
   /\ EgressWithinIntent

LEMMA TenPointInit == Init => IInv
BY DEF Init, IInv, Faithful, EgressWithinIntent

\* Dropping intents keeps the others faithful.
LEMMA FreshIsFaithful ==
   ASSUME IInv, NEW ids \in SUBSET (DOMAIN intents),
          intents' = Fresh(intents, ids), UNCHANGED <<calls, outbound>>
   PROVE  IInv'
BY DEF IInv, Faithful, EgressWithinIntent, Fresh

LEMMA MalformedStep ==
   ASSUME IInv, NEW c \in Call, Malformed(c)
   PROVE  IInv'
<1>1. KeptIntents \in SUBSET (DOMAIN intents)
  BY DEF KeptIntents
<1>2. intents' = Fresh(intents, KeptIntents) /\ UNCHANGED <<calls, outbound>>
  BY DEF Malformed
<1> QED
  BY <1>1, <1>2, FreshIsFaithful

LEMMA InspectCallStep ==
   ASSUME IInv, NEW c \in Call, InspectCall(c)
   PROVE  IInv'
<1> DEFINE id == Len(calls) + 1
<1>1. /\ calls' = Append(calls, c)
      /\ outbound' = outbound
      /\ intents' = [i \in KeptIntents \union {id} |->
            IF i = id THEN [recipients |-> c.to, ts |-> now] ELSE intents[i]]
  BY DEF InspectCall, RecordIntent
<1>2. calls \in Seq(Call) /\ calls' \in Seq(Call)
  BY <1>1 DEF IInv
<1>3. /\ DOMAIN calls' = DOMAIN calls \union {id}
      /\ calls'[id] = c
      /\ \A i \in DOMAIN calls : calls'[i] = calls[i]
  BY <1>1, <1>2
<1>4. KeptIntents \subseteq DOMAIN intents
  BY DEF KeptIntents
<1>5. Faithful'
  <2> SUFFICES ASSUME NEW i \in KeptIntents \union {id}
               PROVE  i \in DOMAIN calls' /\ intents'[i].recipients = calls'[i].to
    BY <1>1 DEF Faithful
  <2>1. CASE i = id
    BY <2>1, <1>1, <1>3
  <2>2. CASE i # id
    <3>1. i \in DOMAIN intents /\ intents'[i] = intents[i]
      BY <2>2, <1>1, <1>4
    <3>2. i \in DOMAIN calls /\ intents[i].recipients = calls[i].to
      BY <3>1 DEF IInv, Faithful
    <3> QED
      BY <3>1, <3>2, <1>3
  <2> QED
    BY <2>1, <2>2
<1>6. EgressWithinIntent'
  BY <1>1, <1>3 DEF IInv, EgressWithinIntent
<1> QED
  BY <1>1, <1>2, <1>5, <1>6 DEF IInv

LEMMA InspectEgressStep ==
   ASSUME IInv, NEW id \in 0..Len(calls), NEW emails \in Payload, InspectEgress(id, emails)
   PROVE  IInv'
<1> DEFINE v == [id |-> id, emails |-> emails, allowed |-> emails \subseteq Authorized(id)]
<1>1. calls' = calls /\ outbound' = Append(outbound, v)
  BY DEF InspectEgress
<1>2. calls \in Seq(Call) /\ calls' \in Seq(Call)
  BY <1>1 DEF IInv
<1>3. emails \in SUBSET Address /\ id \in Nat
  BY <1>2, TenPointAssumption
<1>4. /\ v \in [id : Nat, emails : SUBSET Address, allowed : BOOLEAN]
      /\ v.id = id /\ v.emails = emails
      /\ v.allowed = (emails \subseteq Authorized(id))
  BY <1>3
<1> HIDE DEF v
<1>5. outbound \in Seq([id : Nat, emails : SUBSET Address, allowed : BOOLEAN])
  BY DEF IInv
<1>6. /\ outbound' \in Seq([id : Nat, emails : SUBSET Address, allowed : BOOLEAN])
      /\ DOMAIN outbound' = DOMAIN outbound \union {Len(outbound) + 1}
      /\ outbound'[Len(outbound) + 1] = v
      /\ \A k \in DOMAIN outbound : outbound'[k] = outbound[k]
  BY <1>1, <1>4, <1>5
<1>7. Faithful'
  <2>1. CASE Expired(id)
    BY <2>1, <1>1 DEF InspectEgress, Fresh, IInv, Faithful
  <2>2. CASE ~Expired(id)
    BY <2>2, <1>1 DEF InspectEgress, IInv, Faithful
  <2> QED
    BY <2>1, <2>2
<1>8. ASSUME v.allowed
      PROVE  v.emails = {} \/ (v.id \in DOMAIN calls /\ v.emails \subseteq calls[v.id].to)
  <2>1. emails \subseteq Authorized(id)
    BY <1>4, <1>8
  <2>2. CASE id \in DOMAIN intents /\ ~Expired(id)
    BY <2>1, <2>2, <1>4 DEF Authorized, IInv, Faithful
  <2>3. CASE ~(id \in DOMAIN intents /\ ~Expired(id))
    BY <2>1, <2>3, <1>4 DEF Authorized
  <2> QED
    BY <2>2, <2>3
<1>9. EgressWithinIntent'
  BY <1>1, <1>6, <1>8 DEF IInv, EgressWithinIntent
<1> QED
  BY <1>2, <1>6, <1>7, <1>9 DEF IInv

LEMMA TenPointStep == IInv /\ [Next]_vars => IInv'
<1> SUFFICES ASSUME IInv, [Next]_vars
             PROVE  IInv'
  OBVIOUS
<1>1. ASSUME NEW c \in Call, InspectCall(c)
      PROVE  IInv'
  BY <1>1, InspectCallStep
<1>2. ASSUME NEW c \in Call, Malformed(c)
      PROVE  IInv'
  BY <1>2, MalformedStep
<1>3. ASSUME NEW id \in 0..Len(calls), NEW emails \in Payload, InspectEgress(id, emails)
      PROVE  IInv'
  BY <1>3, InspectEgressStep
<1>4. CASE UNCHANGED <<calls, intents, outbound>>
  BY <1>4 DEF IInv, Faithful, EgressWithinIntent
<1>5. [Next]_vars => \/ \E c \in Call : InspectCall(c) \/ Malformed(c)
                     \/ \E id \in 0..Len(calls), emails \in Payload : InspectEgress(id, emails)
                     \/ UNCHANGED <<calls, intents, outbound>>
  BY DEF Next, Operation, ScanNetwork, Connect, SetNetworkPolicy, ConfigureServer, Approve,
         Mint, Tick, vars
<1> QED
  BY <1>1, <1>2, <1>3, <1>4, <1>5

(* Whatever is let out, its recipients were named by the call it is about. *)
THEOREM TenPointEgress == Spec => []EgressWithinIntent
<1>1. IInv => EgressWithinIntent
  BY DEF IInv
<1> QED
  BY <1>1, TenPointInit, TenPointStep, PTL DEF Spec

-----------------------------------------------------------------------------
(* The size of the registry. *)

\* Some id is the smallest, and it is among the oldest.
LEMMA OldestIsThere ==
   ASSUME NEW ids \in SUBSET Nat, ids # {}, NEW n \in Nat \ {0}
   PROVE  \E i \in ids : i \in Oldest(ids, n)
<1>1. PICK i \in ids : \A j \in ids : ~(<<j, i>> \in OpToRel(<, Nat))
  BY WFMin, NatLessThanWellFounded
<1>2. \A j \in ids : ~(j < i)
  BY <1>1 DEF OpToRel
<1>3. {j \in ids : j < i} = {}
  BY <1>2
<1>4. Cardinality({j \in ids : j < i}) = 0
  BY <1>3, FS_EmptySet
<1> QED
  BY <1>4 DEF Oldest

SizeInv ==
   /\ IsFiniteSet(DOMAIN intents)
   /\ IntentsBounded

LEMMA SmallerSize ==
   ASSUME NEW S, IsFiniteSet(S), Cardinality(S) <= MaxEntries + 1, NEW T \in SUBSET S
   PROVE  IsFiniteSet(T) /\ Cardinality(T) <= MaxEntries + 1
<1>1. IsFiniteSet(T) /\ Cardinality(T) <= Cardinality(S)
  BY FS_Subset
<1>2. Cardinality(T) \in Nat /\ Cardinality(S) \in Nat /\ MaxEntries \in Nat
  BY <1>1, FS_CardinalityType, TenPointAssumption
<1> QED
  BY <1>1, <1>2

LEMMA OneMore ==
   ASSUME NEW S, IsFiniteSet(S), Cardinality(S) <= MaxEntries, NEW x
   PROVE  IsFiniteSet(S \union {x}) /\ Cardinality(S \union {x}) <= MaxEntries + 1
<1>1. /\ IsFiniteSet(S \union {x})
      /\ Cardinality(S \union {x}) = IF x \in S THEN Cardinality(S) ELSE Cardinality(S) + 1
  BY FS_AddElement
<1>2. Cardinality(S) \in Nat /\ MaxEntries \in Nat
  BY FS_CardinalityType, TenPointAssumption
<1> QED
  BY <1>1, <1>2

\* What is kept leaves room for one more.
LEMMA KeptHasRoom ==
   ASSUME IInv, SizeInv
   PROVE  IsFiniteSet(KeptIntents) /\ Cardinality(KeptIntents) <= MaxEntries
<1> DEFINE full == DOMAIN intents
           n == Cardinality(full)
           kept == IF n > MaxEntries THEN full \ Oldest(full, n \div 2) ELSE full
<1>1. IsFiniteSet(full) /\ n \in Nat /\ n <= MaxEntries + 1
  BY FS_CardinalityType DEF SizeInv, IntentsBounded
<1>2. MaxEntries \in Nat \ {0}
  BY TenPointAssumption
<1>3. IsFiniteSet(kept) /\ Cardinality(kept) <= MaxEntries
  <2>1. CASE n > MaxEntries
    <3>1. n = MaxEntries + 1 /\ n \div 2 \in Nat \ {0}
      BY <2>1, <1>1, <1>2
    <3>2. full \in SUBSET Nat
      BY DEF IInv, Faithful
    <3>3. full # {}
      <4>1. n # 0
        BY <3>1, <1>2
      <4>2. Cardinality({}) = 0
        BY FS_EmptySet
      <4> QED
        BY <4>1, <4>2
    <3>4. PICK i \in full : i \in Oldest(full, n \div 2)
      BY <3>1, <3>2, <3>3, OldestIsThere
    <3>5. IsFiniteSet(full \ {i}) /\ Cardinality(full \ {i}) = n - 1
      BY <1>1, FS_RemoveElement
    <3>6. kept \in SUBSET (full \ {i})
      BY <2>1, <3>4
    <3>7. IsFiniteSet(kept) /\ Cardinality(kept) <= n - 1
      BY <3>5, <3>6, FS_Subset
    <3> QED
      BY <3>1, <3>7, <1>2
  <2>2. CASE ~(n > MaxEntries)
    BY <2>2, <1>1, <1>2
  <2> QED
    BY <2>1, <2>2
<1>4. KeptIntents \in SUBSET kept
  BY DEF KeptIntents
<1>5. IsFiniteSet(KeptIntents) /\ Cardinality(KeptIntents) <= Cardinality(kept)
  BY <1>3, <1>4, FS_Subset
<1>6. Cardinality(KeptIntents) \in Nat /\ Cardinality(kept) \in Nat
  BY <1>3, <1>5, FS_CardinalityType
<1> QED
  BY <1>2, <1>3, <1>5, <1>6

LEMMA SizeStep == IInv /\ SizeInv /\ [Next]_vars => SizeInv'
<1> SUFFICES ASSUME IInv, SizeInv, [Next]_vars
             PROVE  SizeInv'
  OBVIOUS
<1>1. ASSUME NEW c \in Call, InspectCall(c)
      PROVE  SizeInv'
  <2> DEFINE id == Len(calls) + 1
  <2>1. DOMAIN intents' = KeptIntents \union {id}
    BY <1>1 DEF InspectCall, RecordIntent
  <2>2. IsFiniteSet(KeptIntents) /\ Cardinality(KeptIntents) <= MaxEntries
    BY KeptHasRoom
  <2>3. Cardinality(KeptIntents) \in Nat /\ MaxEntries \in Nat
    BY <2>2, FS_CardinalityType, TenPointAssumption
  <2>4. /\ IsFiniteSet(KeptIntents \union {id})
        /\ Cardinality(KeptIntents \union {id}) <= MaxEntries + 1
    BY <2>2, <2>3, OneMore
  <2> QED
    BY <2>1, <2>4 DEF SizeInv, IntentsBounded
<1>2. ASSUME DOMAIN intents' \subseteq DOMAIN intents
      PROVE  SizeInv'
  BY <1>2, SmallerSize DEF SizeInv, IntentsBounded
<1>3. ASSUME NEW c \in Call, Malformed(c)
      PROVE  SizeInv'
  <2>1. DOMAIN intents' \subseteq DOMAIN intents
    BY <1>3 DEF Malformed, Fresh, KeptIntents
  <2> QED
    BY <2>1, <1>2
<1>4. ASSUME NEW id \in 0..Len(calls), NEW emails \in Payload, InspectEgress(id, emails)
      PROVE  SizeInv'
  <2>1. DOMAIN intents' \subseteq DOMAIN intents
    BY <1>4 DEF InspectEgress, Fresh
  <2> QED
    BY <2>1, <1>2
<1>5. CASE UNCHANGED intents
  BY <1>5, <1>2
<1>6. [Next]_vars => \/ \E c \in Call : InspectCall(c) \/ Malformed(c)
                     \/ \E id \in 0..Len(calls), emails \in Payload : InspectEgress(id, emails)
                     \/ UNCHANGED intents
  BY DEF Next, Operation, ScanNetwork, Connect, SetNetworkPolicy, ConfigureServer, Approve,
         Mint, Tick, vars
<1> QED
  BY <1>1, <1>3, <1>4, <1>5, <1>6

LEMMA SizeInit == Init => SizeInv
<1>1. MaxEntries \in Nat
  BY TenPointAssumption
<1> QED
  BY <1>1, FS_EmptySet DEF Init, SizeInv, IntentsBounded

(* The registry of intents never holds more than one entry above its size. *)
THEOREM TenPointRegistry == Spec => []IntentsBounded
<1>1. SizeInv => IntentsBounded
  BY DEF SizeInv
<1> QED
  BY <1>1, TenPointInit, TenPointStep, SizeInit, SizeStep, PTL DEF Spec

(* Both: the registry is bounded, and forgetting an intent, by age or for  *)
(* want of room, never lets anything out.                                  *)
THEOREM TenPointRegistryHolds == Spec => []RegistryHolds
<1>1. EgressWithinIntent /\ IntentsBounded => RegistryHolds
  BY DEF RegistryHolds
<1> QED
  BY <1>1, TenPointEgress, TenPointRegistry, PTL

-----------------------------------------------------------------------------
(* Verdicts: a step adds none, a blocking one, or an allowing one, and the *)
(* last brings the list back under its cap.                                *)

Layer == {"honeypot", "ml", "whitelist", "rate", "egress", "network", "none"}

Verdict == [allowed : BOOLEAN, by : Layer]

VerdictInv == verdicts \in Seq(Verdict) /\ OnlyBlocksOverflow

LEMMA VerdictGiven ==
   ASSUME NEW c \in Call, Trip(c) \/ JudgedThreat(c) \/ Hold(c) \/ ExceedRate(c) \/ Pass(c)
   PROVE  Allow \/ \E layer \in Layer : Block(layer)
BY DEF Trip, JudgedThreat, Hold, ExceedRate, Pass, Layer

LEMMA VerdictOf ==
   ASSUME [Next]_vars
   PROVE  verdicts' = verdicts \/ Allow \/ \E layer \in Layer : Block(layer)
<1>1. ASSUME NEW c \in Call, InspectCall(c)
      PROVE  Allow \/ \E layer \in Layer : Block(layer)
  BY <1>1, VerdictGiven DEF InspectCall
<1>2. ASSUME NEW c \in Call, Malformed(c)
      PROVE  verdicts' = verdicts
  BY <1>2 DEF Malformed
<1>3. ASSUME NEW id \in 0..Len(calls), NEW emails \in Payload, InspectEgress(id, emails)
      PROVE  Allow \/ Block("egress")
  BY <1>3 DEF InspectEgress
<1>4. CASE ScanNetwork
  BY <1>4 DEF ScanNetwork, Layer
<1>5. CASE \/ \E c \in Connection : Connect(c) \/ SetNetworkPolicy(c)
           \/ \E s \in Server, ds \in SUBSET Domain : ConfigureServer(s, ds)
           \/ \E s \in Server, r \in Address : Approve(s, r)
           \/ \E t \in Token : Mint(t)
           \/ Tick \/ UNCHANGED vars
  BY <1>5 DEF Connect, SetNetworkPolicy, ConfigureServer, Approve,
         Mint, Tick, vars
<1>6. "egress" \in Layer
  BY DEF Layer
<1> QED
  BY <1>1, <1>2, <1>3, <1>4, <1>5, <1>6 DEF Next, Operation

LEMMA VerdictStep ==
   ASSUME VerdictInv, [Next]_vars
   PROVE  VerdictInv'
<1>0. MaxVerdicts \in Nat \ {0}
  BY TenPointAssumption
<1>1. CASE verdicts' = verdicts
  BY <1>1 DEF VerdictInv, OnlyBlocksOverflow
<1>2. ASSUME NEW layer \in Layer, Block(layer)
      PROVE  VerdictInv'
  <2> DEFINE v == [allowed |-> FALSE, by |-> layer]
             n == Len(verdicts)
  <2>1. v \in Verdict /\ ~v.allowed
    BY DEF Verdict
  <2>2. verdicts' = Append(verdicts, v)
    BY <1>2 DEF Block
  <2> HIDE DEF v
  <2>3. /\ verdicts' \in Seq(Verdict) /\ n \in Nat
        /\ DOMAIN verdicts = 1..n /\ DOMAIN verdicts' = 1..(n + 1)
        /\ \A k \in 1..n : verdicts'[k] = verdicts[k]
        /\ verdicts'[n + 1] = v
    BY <2>1, <2>2 DEF VerdictInv
  <2>4. OnlyBlocksOverflow'
    BY <2>1, <2>3 DEF VerdictInv, OnlyBlocksOverflow
  <2> QED
    BY <2>3, <2>4 DEF VerdictInv
<1>3. CASE Allow
  <2> DEFINE s == Append(verdicts, [allowed |-> TRUE, by |-> "none"])
             m == Len(s) - MaxVerdicts + 1
  <2>1. s \in Seq(Verdict) /\ Len(s) \in Nat
    BY DEF VerdictInv, Verdict, Layer
  <2>2. verdicts' = IF Len(s) > MaxVerdicts THEN SubSeq(s, m, Len(s)) ELSE s
    BY <1>3 DEF Allow, Newest
  <2> HIDE DEF s
  <2>3. verdicts' \in Seq(Verdict) /\ Len(verdicts') <= MaxVerdicts /\ Len(verdicts') \in Nat
    <3>1. CASE Len(s) > MaxVerdicts
      <4>1. m \in 1..Len(s) /\ Len(s) - m + 1 = MaxVerdicts
        BY <1>0, <2>1, <3>1
      <4>2. \A i \in m..Len(s) : s[i] \in Verdict
        BY <1>0, <2>1, <4>1
      <4>3. /\ SubSeq(s, m, Len(s)) \in Seq(Verdict)
            /\ Len(SubSeq(s, m, Len(s))) = IF m <= Len(s) THEN Len(s) - m + 1 ELSE 0
        BY <2>1, <4>1, <4>2, SubSeqProperties
      <4> QED
        BY <1>0, <2>2, <3>1, <4>1, <4>3
    <3>2. CASE ~(Len(s) > MaxVerdicts)
      BY <1>0, <2>1, <2>2, <3>2
    <3> QED
      BY <3>1, <3>2
  <2>4. \A k \in DOMAIN verdicts' : ~(k > MaxVerdicts)
    BY <1>0, <2>3
  <2> QED
    BY <2>3, <2>4 DEF VerdictInv, OnlyBlocksOverflow
<1> QED
  BY <1>1, <1>2, <1>3, VerdictOf

-----------------------------------------------------------------------------
(* Types. *)

Send == [call : DOMAIN calls, at : 0..now]

TypeInv ==
   /\ IInv /\ TypeOK
   /\ pending \in Seq([server : Server, recipients : SUBSET Address])
   /\ DOMAIN network = {"allowed", "ports", "blocked", "live"}

LEMMA CallTypes ==
   ASSUME NEW c \in Call
   PROVE  /\ c.server \in Server /\ c.to \subseteq Address /\ c.emails \subseteq Address
          /\ Unknown(c) \subseteq c.emails
BY TenPointAssumption DEF Unknown

\* The calls, the intents and the clock.
HistoryOK ==
   /\ calls \in Seq(Call)
   /\ DOMAIN intents \subseteq DOMAIN calls
   /\ \A i \in DOMAIN intents : intents[i].recipients \subseteq Address /\ intents[i].ts \in 0..now
   /\ now \in Nat

LEMMA HistoryStep ==
   ASSUME TypeInv, [Next]_vars
   PROVE  HistoryOK' /\ DOMAIN calls \subseteq DOMAIN calls' /\ now <= now'
<1>1. IInv'
  BY TenPointStep DEF TypeInv
<1>2. /\ calls' \in Seq(Call) /\ DOMAIN intents' \subseteq DOMAIN calls'
      /\ \A i \in DOMAIN intents' : intents'[i].recipients \subseteq Address
  <2>1. \A i \in DOMAIN intents' : i \in DOMAIN calls' /\ intents'[i].recipients = calls'[i].to
    BY <1>1 DEF IInv, Faithful
  <2>2. calls' \in Seq(Call)
    BY <1>1 DEF IInv
  <2>3. \A i \in DOMAIN calls' : calls'[i] \in Call
    BY <2>2
  <2> QED
    BY <2>1, <2>2, <2>3, CallTypes
<1>3. now' \in Nat /\ now <= now'
  <2>1. now' = now \/ now' = now + 1
    BY DEF Next, Operation, InspectCall, Malformed, InspectEgress, ScanNetwork, Connect,
           SetNetworkPolicy, ConfigureServer, Approve,
         Mint, Tick, vars
  <2>2. now \in Nat
    BY DEF TypeInv, TypeOK
  <2> QED
    BY <2>1, <2>2
<1>4. DOMAIN calls \subseteq DOMAIN calls'
  <2>1. calls' = calls \/ \E c \in Call : calls' = Append(calls, c)
    BY DEF Next, Operation, InspectCall, RecordIntent, Malformed, InspectEgress, ScanNetwork,
           Connect, SetNetworkPolicy, ConfigureServer, Approve,
         Mint, Tick, vars
  <2>2. ASSUME NEW c \in Call, calls' = Append(calls, c)
        PROVE  DOMAIN calls \subseteq DOMAIN calls'
    <3>1. calls \in Seq(Call)
      BY DEF TypeInv, IInv
    <3> QED
      BY <2>2, <3>1
  <2> QED
    BY <2>1, <2>2
<1>5. \A i \in DOMAIN intents' :
         \/ intents'[i].ts = now
         \/ i \in DOMAIN intents /\ intents'[i] = intents[i]
  <2>1. ASSUME NEW c \in Call, InspectCall(c)
        PROVE  \A i \in DOMAIN intents' :
                  \/ intents'[i].ts = now
                  \/ i \in DOMAIN intents /\ intents'[i] = intents[i]
    BY <2>1 DEF InspectCall, RecordIntent, KeptIntents
  <2>2. ASSUME NEW c \in Call, Malformed(c)
        PROVE  \A i \in DOMAIN intents' : i \in DOMAIN intents /\ intents'[i] = intents[i]
    BY <2>2 DEF Malformed, Fresh, KeptIntents
  <2>3. ASSUME NEW id \in 0..Len(calls), NEW emails \in Payload, InspectEgress(id, emails)
        PROVE  \A i \in DOMAIN intents' : i \in DOMAIN intents /\ intents'[i] = intents[i]
    BY <2>3 DEF InspectEgress, Fresh
  <2>4. [Next]_vars => \/ \E c \in Call : InspectCall(c) \/ Malformed(c)
                       \/ \E id \in 0..Len(calls), emails \in Payload : InspectEgress(id, emails)
                       \/ UNCHANGED intents
    BY DEF Next, Operation, ScanNetwork, Connect, SetNetworkPolicy, ConfigureServer, Approve,
         Mint, Tick,
           vars
  <2> QED
    BY <2>1, <2>2, <2>3, <2>4
<1>6. \A i \in DOMAIN intents' : intents'[i].ts \in 0..now'
  <2>1. now \in Nat /\ \A i \in DOMAIN intents : intents[i].ts \in 0..now
    BY DEF TypeInv, TypeOK
  <2> QED
    BY <1>3, <1>5, <2>1
<1> QED
  BY <1>2, <1>3, <1>4, <1>6 DEF HistoryOK

\* The sends: what is remembered of them, and what was let through.
LEMMA SendsTyped ==
   ASSUME TypeInv, [Next]_vars
   PROVE  attempts' \in [Server -> SUBSET Send'] /\ sent' \in [Server -> SUBSET Send']
<1>1. /\ HistoryOK' /\ DOMAIN calls \subseteq DOMAIN calls' /\ now <= now'
      /\ now \in Nat /\ now' \in Nat
  BY HistoryStep DEF HistoryOK, TypeInv, TypeOK
<1>2. Send \subseteq Send'
  BY <1>1 DEF Send
<1>3. attempts \in [Server -> SUBSET Send] /\ sent \in [Server -> SUBSET Send]
  BY DEF TypeInv, TypeOK, Send
<1>4. CASE UNCHANGED <<attempts, sent>>
  BY <1>2, <1>3, <1>4
<1>5. ASSUME NEW c \in Call, InspectCall(c), ExceedRate(c) \/ Pass(c)
      PROVE  attempts' \in [Server -> SUBSET Send'] /\ sent' \in [Server -> SUBSET Send']
  <2>1. ThisSend \in Send'
    <3>1. calls' = Append(calls, c) /\ now' = now /\ calls \in Seq(Call)
      BY <1>5 DEF InspectCall, RecordIntent, TypeInv, IInv
    <3>2. Len(calls) + 1 \in DOMAIN calls'
      BY <3>1
    <3> QED
      BY <1>1, <3>1, <3>2 DEF ThisSend, Send
  <2>2. Attempts(c.server) \subseteq Send'
    BY <1>2, <1>3, <2>1, CallTypes DEF Attempts, InWindow
  <2>3. /\ attempts' = attempts \/ attempts' = [attempts EXCEPT ![c.server] = Attempts(c.server)]
        /\ sent' = sent \/ sent' = [sent EXCEPT ![c.server] = @ \union {ThisSend}]
    BY <1>5 DEF ExceedRate, Pass, CountAttempt
  <2> QED
    BY <1>2, <1>3, <2>1, <2>2, <2>3
<1>6. [Next]_vars => \/ UNCHANGED <<attempts, sent>>
                     \/ \E c \in Call : InspectCall(c) /\ (ExceedRate(c) \/ Pass(c))
  BY DEF Next, Operation, InspectCall, Trip, JudgedThreat, Hold, Malformed, InspectEgress,
         ScanNetwork, Connect, SetNetworkPolicy, ConfigureServer, Approve,
         Mint, Tick, policyVars, vars
<1> QED
  BY <1>4, <1>5, <1>6

\* What a step can do to the recipients known and held.
LEMMA ApprovalSteps ==
   ASSUME [Next]_vars
   PROVE  \/ UNCHANGED <<approved, granted, pending>>
          \/ \E c \in Call : Hold(c)
          \/ \E s \in Server, ds \in SUBSET Domain : ConfigureServer(s, ds)
          \/ \E s \in Server, r \in Address : Approve(s, r)
BY DEF Next, Operation, InspectCall, Trip, JudgedThreat, ExceedRate, Pass, Malformed,
       InspectEgress, ScanNetwork, Connect, SetNetworkPolicy, Mint, Tick, policyVars, vars

Held == [server : Server, recipients : SUBSET Address]

LEMMA HoldOf ==
   ASSUME TypeInv, NEW c \in Call, Hold(c)
   PROVE  LET p == [server |-> c.server, recipients |-> Unknown(c)]
          IN /\ p \in Held /\ pending' = Append(pending, p) /\ granted' = granted
             /\ approved' = IF AutoLearn
                            THEN [approved EXCEPT ![c.server] = @ \union Unknown(c)] ELSE approved
<1>1. c.server \in Server /\ Unknown(c) \subseteq Address
  BY CallTypes
<1> QED
  BY <1>1 DEF Hold, Held

LEMMA ApprovalsTyped ==
   ASSUME TypeInv, [Next]_vars
   PROVE  /\ approved' \in [Server -> SUBSET (Address \union Domain)]
          /\ granted' \in [Server -> SUBSET Address]
          /\ pending' \in Seq([server : Server, recipients : SUBSET Address])
<1>1. /\ approved \in [Server -> SUBSET (Address \union Domain)]
      /\ granted \in [Server -> SUBSET Address]
      /\ pending \in Seq(Held)
  BY DEF TypeInv, TypeOK, Held
<1>2. ASSUME NEW c \in Call, Hold(c)
      PROVE  /\ approved' \in [Server -> SUBSET (Address \union Domain)]
             /\ granted' = granted /\ pending' \in Seq(Held)
  <2> DEFINE p == [server |-> c.server, recipients |-> Unknown(c)]
  <2>1. c.server \in Server /\ Unknown(c) \subseteq Address
    BY CallTypes
  <2>2. /\ p \in Held /\ pending' = Append(pending, p) /\ granted' = granted
        /\ approved' = IF AutoLearn
                       THEN [approved EXCEPT ![c.server] = @ \union Unknown(c)] ELSE approved
    BY <1>2, HoldOf
  <2> HIDE DEF p
  <2>3. pending' \in Seq(Held)
    BY <1>1, <2>2
  <2>4. approved' \in [Server -> SUBSET (Address \union Domain)]
    BY <1>1, <2>1, <2>2
  <2> QED
    BY <2>2, <2>3, <2>4
<1>3. ASSUME NEW s \in Server, NEW ds \in SUBSET Domain, ConfigureServer(s, ds)
      PROVE  /\ approved' \in [Server -> SUBSET (Address \union Domain)]
             /\ granted' = granted /\ pending' = pending
  BY <1>1, <1>3 DEF ConfigureServer
<1>4. ASSUME NEW s \in Server, NEW r \in Address, Approve(s, r)
      PROVE  /\ approved' \in [Server -> SUBSET (Address \union Domain)]
             /\ granted' \in [Server -> SUBSET Address] /\ pending' = pending
  BY <1>1, <1>4 DEF Approve
<1> QED
  BY <1>1, <1>2, <1>3, <1>4, ApprovalSteps DEF Held

\* What only configuration, or the monitored host, changes.
LEMMA SettingsTyped ==
   ASSUME TypeInv, [Next]_vars
   PROVE  /\ limited' \subseteq Server /\ tokens' \subseteq Token
          /\ network'.live \subseteq Connection
          /\ DOMAIN network' = {"allowed", "ports", "blocked", "live"}
          /\ mlReady' \in BOOLEAN /\ steps' \in Nat
<1>1. /\ limited \subseteq Server /\ tokens \subseteq Token /\ mlReady \in BOOLEAN /\ steps \in Nat
      /\ network.live \subseteq Connection
      /\ DOMAIN network = {"allowed", "ports", "blocked", "live"}
  BY DEF TypeInv, TypeOK
<1>2. steps' \in Nat
  BY <1>1 DEF Next, vars
<1>3. mlReady' = mlReady
  BY DEF Next, Operation, InspectCall, Trip, JudgedThreat, Hold, ExceedRate, Pass, Malformed,
         InspectEgress, ScanNetwork, Connect, SetNetworkPolicy, ConfigureServer, Approve,
         Mint, Tick,
         policyVars, vars
<1>4. ASSUME NEW c \in Connection, Connect(c) \/ SetNetworkPolicy(c)
      PROVE  /\ network'.live \subseteq Connection
             /\ DOMAIN network' = {"allowed", "ports", "blocked", "live"}
             /\ UNCHANGED <<limited, tokens>>
  <2>1. CASE Connect(c)
    BY <1>1, <2>1 DEF Connect
  <2>2. CASE SetNetworkPolicy(c)
    BY <1>1, <2>2 DEF SetNetworkPolicy
  <2> QED
    BY <1>4, <2>1, <2>2
<1>5. ASSUME NEW s \in Server, NEW ds \in SUBSET Domain, ConfigureServer(s, ds)
      PROVE  limited' \subseteq Server /\ UNCHANGED <<tokens, network>>
  BY <1>1, <1>5 DEF ConfigureServer
<1>6. ASSUME NEW t \in Token, Mint(t)
      PROVE  tokens' \subseteq Token /\ UNCHANGED <<limited, network>>
  BY <1>1, <1>6 DEF Mint
<1>7. [Next]_vars => \/ UNCHANGED <<limited, tokens, network>>
                     \/ \E c \in Connection : Connect(c) \/ SetNetworkPolicy(c)
                     \/ \E s \in Server, ds \in SUBSET Domain : ConfigureServer(s, ds)
                     \/ \E t \in Token : Mint(t)
  BY DEF Next, Operation, InspectCall, Trip, JudgedThreat, Hold, ExceedRate, Pass, Malformed,
         InspectEgress, ScanNetwork, Approve, Tick, policyVars, vars
<1> QED
  BY <1>1, <1>2, <1>3, <1>4, <1>5, <1>6, <1>7

LEMMA TypeStep ==
   ASSUME TypeInv, [Next]_vars
   PROVE  TypeInv'
<1>1. IInv'
  BY TenPointStep DEF TypeInv
<1>2. TypeOK'
  BY HistoryStep, SendsTyped, ApprovalsTyped, SettingsTyped DEF HistoryOK, TypeOK, Send
<1> QED
  BY <1>1, <1>2, ApprovalsTyped, SettingsTyped DEF TypeInv

LEMMA TypeInit == Init => TypeInv
  BY TenPointInit DEF Init, TypeInv, TypeOK

-----------------------------------------------------------------------------
(* The rate: what was let through in the last window is still remembered,   *)
(* so a window that ends now holds no more sends than were counted; every    *)
(* other window was within the limit when it ended.                          *)

SendInv ==
   \A s \in Server :
      /\ IsFiniteSet(attempts[s]) /\ IsFiniteSet(sent[s])
      /\ InWindow(sent[s]) \subseteq attempts[s]

RateInv == SendInv /\ SendsHold

LEMMA SendTypes ==
   ASSUME TypeInv
   PROVE  /\ now \in Nat
          /\ \A s \in Server : \A x \in attempts[s] : x.at \in 0..now
          /\ \A s \in Server : \A x \in sent[s] : x.at \in 0..now
<1>1. /\ now \in Nat
      /\ attempts \in [Server -> SUBSET [call : DOMAIN calls, at : 0..now]]
      /\ sent \in [Server -> SUBSET [call : DOMAIN calls, at : 0..now]]
  BY DEF TypeInv, TypeOK
<1> QED
  BY <1>1

LEMMA SmallerCount ==
   ASSUME NEW S, IsFiniteSet(S), Cardinality(S) <= SendLimit, NEW T \in SUBSET S
   PROVE  Cardinality(T) <= SendLimit
<1>1. IsFiniteSet(T) /\ Cardinality(T) <= Cardinality(S)
  BY FS_Subset
<1>2. Cardinality(T) \in Nat /\ Cardinality(S) \in Nat /\ SendLimit \in Nat
  BY <1>1, FS_CardinalityType, TenPointAssumption
<1> QED
  BY <1>1, <1>2

\* What is counted is finite, and holds what was let through and is in the window.
LEMMA AttemptsCover ==
   ASSUME TypeInv, SendInv, NEW s \in Server
   PROVE  /\ IsFiniteSet(Attempts(s))
          /\ IsFiniteSet(sent[s] \union {ThisSend})
          /\ InWindow(sent[s] \union {ThisSend}) \subseteq Attempts(s)
<1>1. IsFiniteSet(attempts[s] \union {ThisSend}) /\ IsFiniteSet(sent[s] \union {ThisSend})
  BY FS_AddElement DEF SendInv
<1>2. IsFiniteSet(Attempts(s))
  BY <1>1, FS_Subset DEF Attempts, InWindow
<1>3. InWindow(sent[s]) \subseteq attempts[s]
  BY DEF SendInv
<1> QED
  BY <1>1, <1>2, <1>3 DEF Attempts, InWindow

\* A step in which time stands still and server s counts one attempt more.
LEMMA CountStep ==
   ASSUME TypeInv, RateInv, NEW s \in Server,
          now' = now, attempts' = [attempts EXCEPT ![s] = Attempts(s)],
          \/ sent' = sent
          \/ /\ sent' = [sent EXCEPT ![s] = @ \union {ThisSend}]
             /\ Cardinality(Attempts(s)) <= SendLimit
   PROVE  RateInv'
<1>1. SendInv /\ SendsHold
  BY DEF RateInv
<1>2. /\ IsFiniteSet(Attempts(s)) /\ IsFiniteSet(sent[s] \union {ThisSend})
      /\ InWindow(sent[s] \union {ThisSend}) \subseteq Attempts(s)
  BY <1>1, AttemptsCover
<1>3. InWindow(sent[s]) \subseteq Attempts(s)
  BY <1>2 DEF InWindow
<1>4. /\ attempts \in [Server -> SUBSET [call : DOMAIN calls, at : 0..now]]
      /\ sent \in [Server -> SUBSET [call : DOMAIN calls, at : 0..now]]
  BY DEF TypeInv, TypeOK
<1>5. /\ attempts'[s] = Attempts(s)
      /\ \A u \in Server \ {s} : attempts'[u] = attempts[u]
  BY <1>4
<1>6. /\ sent'[s] = sent[s] \/ sent'[s] = sent[s] \union {ThisSend}
      /\ \A u \in Server \ {s} : sent'[u] = sent[u]
  BY <1>4
<1>7. SendInv'
  <2> SUFFICES ASSUME NEW u \in Server
               PROVE  /\ IsFiniteSet(attempts'[u]) /\ IsFiniteSet(sent'[u])
                      /\ \A x \in sent'[u] : now - x.at <= SendWindow => x \in attempts'[u]
    BY DEF SendInv, InWindow
  <2>1. CASE u = s
    <3>1. IsFiniteSet(sent[s])
      BY <1>1 DEF SendInv
    <3> QED
      BY <2>1, <3>1, <1>2, <1>3, <1>5, <1>6 DEF InWindow
  <2>2. CASE u # s
    BY <2>2, <1>1, <1>5, <1>6 DEF SendInv, InWindow
  <2> QED
    BY <2>1, <2>2
<1>8. SendsHold'
  <2> SUFFICES ASSUME NEW u \in Server, NEW t \in 0..now
               PROVE  Cardinality({x \in sent'[u] : x.at \in t..(t + SendWindow)}) <= SendLimit
    BY DEF SendsHold
  <2>1. CASE sent'[u] = sent[u]
    BY <2>1, <1>1 DEF SendsHold
  <2>2. CASE sent'[u] # sent[u]
    <3>1. /\ u = s /\ sent'[s] = sent[s] \union {ThisSend}
          /\ Cardinality(Attempts(s)) <= SendLimit
      BY <2>2, <1>4, <1>6
    <3>2. now \in Nat /\ SendWindow \in Nat /\ ThisSend.at = now
      BY SendTypes, TenPointAssumption DEF ThisSend
    <3>3. CASE now \in t..(t + SendWindow)
      <4>1. \A x \in sent'[s] : x.at \in 0..now
        BY <3>1, <3>2, SendTypes
      <4>2. \A x \in sent'[s] : x.at \in t..(t + SendWindow) => now - x.at <= SendWindow
        BY <3>2, <3>3, <4>1
      <4>3. {x \in sent'[s] : x.at \in t..(t + SendWindow)} \in SUBSET Attempts(s)
        BY <1>2, <3>1, <4>2 DEF InWindow
      <4> QED
        BY <1>2, <3>1, <4>3, SmallerCount
    <3>4. CASE now \notin t..(t + SendWindow)
      <4>1. {x \in sent'[s] : x.at \in t..(t + SendWindow)}
               = {x \in sent[s] : x.at \in t..(t + SendWindow)}
        BY <3>1, <3>2, <3>4
      <4> QED
        BY <1>1, <3>1, <4>1 DEF SendsHold
    <3> QED
      BY <3>3, <3>4
  <2> QED
    BY <2>1, <2>2
<1> QED
  BY <1>7, <1>8 DEF RateInv

\* A step that counts nothing: time stands still, or moves on by one.
LEMMA QuietStep ==
   ASSUME TypeInv, RateInv, UNCHANGED <<attempts, sent>>, now' = now \/ now' = now + 1
   PROVE  RateInv'
<1>1. SendInv /\ SendsHold /\ SendLimit \in Nat /\ SendWindow \in Nat
  BY TenPointAssumption DEF RateInv
<1>2. SendInv'
  <2> SUFFICES ASSUME NEW s \in Server, NEW x \in sent[s], now' - x.at <= SendWindow
               PROVE  x \in attempts[s]
    BY <1>1 DEF SendInv, InWindow
  <2>1. now \in Nat /\ x.at \in 0..now
    BY SendTypes
  <2>2. now - x.at <= SendWindow
    BY <2>1, <1>1
  <2> QED
    BY <2>2, <1>1 DEF SendInv, InWindow
<1>3. SendsHold'
  <2> SUFFICES ASSUME NEW s \in Server, NEW t \in 0..now'
               PROVE  Cardinality({x \in sent[s] : x.at \in t..(t + SendWindow)}) <= SendLimit
    BY DEF SendsHold
  <2>1. now \in Nat /\ \A x \in sent[s] : x.at \in 0..now
    BY SendTypes
  <2>2. CASE t \in 0..now
    BY <2>2, <1>1 DEF SendsHold
  <2>3. CASE t \notin 0..now
    <3>1. {x \in sent[s] : x.at \in t..(t + SendWindow)} = {}
      BY <2>1, <2>3, <1>1
    <3>2. Cardinality({x \in sent[s] : x.at \in t..(t + SendWindow)}) = 0
      BY <3>1, FS_EmptySet
    <3> QED
      BY <3>2, <1>1
  <2> QED
    BY <2>2, <2>3
<1> QED
  BY <1>2, <1>3 DEF RateInv

LEMMA RateStep ==
   ASSUME TypeInv, RateInv, [Next]_vars
   PROVE  RateInv'
<1>1. ASSUME NEW c \in Call, InspectCall(c), ExceedRate(c)
      PROVE  RateInv'
  <2>1. c.server \in limited /\ now' = now /\ sent' = sent
    BY <1>1 DEF InspectCall, ExceedRate, RateExceeded
  <2>2. attempts' = [attempts EXCEPT ![c.server] = Attempts(c.server)]
    BY <1>1, <2>1 DEF ExceedRate, CountAttempt
  <2> QED
    BY <2>1, <2>2, CallTypes, CountStep
<1>2. ASSUME NEW c \in Call, InspectCall(c), Pass(c), c.emails # {}, c.server \in limited
      PROVE  RateInv'
  <2>1. /\ now' = now
        /\ attempts' = [attempts EXCEPT ![c.server] = Attempts(c.server)]
        /\ sent' = [sent EXCEPT ![c.server] = @ \union {ThisSend}]
    BY <1>2 DEF InspectCall, Pass, CountAttempt
  <2>2. c.server \in Server
    BY CallTypes
  <2>3. Cardinality(Attempts(c.server)) <= SendLimit
    <3>1. ~(Cardinality(Attempts(c.server)) > SendLimit)
      BY <1>2 DEF Pass, RateExceeded
    <3>2. IsFiniteSet(Attempts(c.server))
      BY <2>2, AttemptsCover DEF RateInv
    <3>3. Cardinality(Attempts(c.server)) \in Nat /\ SendLimit \in Nat
      BY <3>2, FS_CardinalityType, TenPointAssumption
    <3> QED
      BY <3>1, <3>3
  <2> QED
    BY <2>1, <2>2, <2>3, CountStep
<1>3. ASSUME NEW c \in Call, InspectCall(c), Pass(c), c.emails = {} \/ c.server \notin limited
      PROVE  now' = now /\ UNCHANGED <<attempts, sent>>
  BY <1>3 DEF InspectCall, Pass, CountAttempt
<1>4. [Next]_vars =>
         \/ \E c \in Call : InspectCall(c) /\ (ExceedRate(c) \/ Pass(c))
         \/ /\ now' = now \/ now' = now + 1
            /\ UNCHANGED <<attempts, sent>>
  BY DEF Next, Operation, InspectCall, Trip, JudgedThreat, Hold, Malformed, InspectEgress,
         ScanNetwork, Connect, SetNetworkPolicy, ConfigureServer, Approve,
         Mint, Tick, policyVars, vars
<1> QED
  BY <1>1, <1>2, <1>3, <1>4, QuietStep

LEMMA RateInit == Init => RateInv
<1> SUFFICES ASSUME Init
             PROVE  RateInv
  OBVIOUS
<1>1. /\ attempts = [s \in Server |-> {}] /\ sent = [s \in Server |-> {}]
      /\ SendLimit \in Nat
  BY TenPointAssumption DEF Init
<1>2. SendInv
  BY <1>1, FS_EmptySet DEF SendInv, InWindow
<1>3. ASSUME NEW s \in Server, NEW t \in 0..now
      PROVE  Cardinality({x \in sent[s] : x.at \in t..(t + SendWindow)}) <= SendLimit
  <2>1. {x \in sent[s] : x.at \in t..(t + SendWindow)} = {}
    BY <1>1
  <2>2. Cardinality({x \in sent[s] : x.at \in t..(t + SendWindow)}) = 0
    BY <2>1, FS_EmptySet
  <2> QED
    BY <2>2, <1>1
<1> QED
  BY <1>2, <1>3 DEF RateInv, SendsHold

-----------------------------------------------------------------------------
(* Why an address is known: what a server is configured with are domains,   *)
(* and no domain is an address.                                              *)

LEMMA VerdictInit == Init => VerdictInv
BY DEF Init, VerdictInv, OnlyBlocksOverflow, Verdict

\* What was held stays among the held, whatever else a step does.
LEMMA HeldStays ==
   ASSUME TypeInv, [Next]_vars, NEW k \in DOMAIN pending
   PROVE  k \in DOMAIN pending' /\ pending'[k] = pending[k]
<1>1. pending \in Seq(Held)
  BY DEF TypeInv, Held
<1>2. ASSUME NEW p \in Held, pending' = Append(pending, p)
      PROVE  k \in DOMAIN pending' /\ pending'[k] = pending[k]
  BY <1>1, <1>2
<1>3. ASSUME NEW c \in Call, Hold(c)
      PROVE  k \in DOMAIN pending' /\ pending'[k] = pending[k]
  BY <1>2, <1>3, HoldOf
<1> QED
  BY <1>3, ApprovalSteps DEF ConfigureServer, Approve

LEMMA KnownStep ==
   ASSUME TypeInv, KnownForAReason, [Next]_vars
   PROVE  KnownForAReason'
<1> DEFINE Learned(s, r) ==
      AutoLearn /\ \E k \in DOMAIN pending :
                      pending[k].server = s /\ r \in pending[k].recipients
<1>1. /\ approved \in [Server -> SUBSET (Address \union Domain)]
      /\ granted \in [Server -> SUBSET Address]
      /\ pending \in Seq(Held)
  BY DEF TypeInv, TypeOK, Held
<1> SUFFICES ASSUME NEW s \in Server, NEW r \in approved'[s] \ Domain
             PROVE  r \in granted'[s] \/ Learned(s, r)'
  BY DEF KnownForAReason
<1>2. Learned(s, r) => Learned(s, r)'
  BY HeldStays
<1>3. r \in approved[s] => r \in granted[s] \/ Learned(s, r)
  BY DEF KnownForAReason
<1> HIDE DEF Learned
<1>4. CASE UNCHANGED <<approved, granted, pending>>
  BY <1>2, <1>3, <1>4
<1>5. ASSUME NEW u \in Server, NEW ds \in SUBSET Domain, ConfigureServer(u, ds)
      PROVE  r \in approved[s] /\ granted' = granted
  BY <1>1, <1>5 DEF ConfigureServer
<1>6. ASSUME NEW u \in Server, NEW a \in Address, Approve(u, a)
      PROVE  r \in granted'[s] \/ (r \in approved[s] /\ (r \in granted[s] => r \in granted'[s]))
  BY <1>1, <1>6 DEF Approve
<1>7. ASSUME NEW c \in Call, Hold(c)
      PROVE  r \in granted'[s] \/ Learned(s, r)'
  <2> DEFINE p == [server |-> c.server, recipients |-> Unknown(c)]
  <2>1. /\ pending' = Append(pending, p) /\ p \in Held /\ granted' = granted
        /\ approved' = IF AutoLearn
                       THEN [approved EXCEPT ![c.server] = @ \union Unknown(c)] ELSE approved
    BY <1>7, HoldOf
  <2>2. CASE r \in approved[s]
    BY <1>2, <1>3, <2>1, <2>2
  <2>3. CASE r \notin approved[s]
    <3>1. AutoLearn /\ s = c.server /\ r \in Unknown(c)
      BY <1>1, <2>1, <2>3
    <3>2. p.server = s /\ r \in p.recipients
      BY <3>1
    <3> HIDE DEF p
    <3>3. Len(pending) + 1 \in DOMAIN pending' /\ pending'[Len(pending) + 1] = p
      BY <1>1, <2>1
    <3> QED
      BY <3>1, <3>2, <3>3 DEF Learned
  <2> QED
    BY <2>2, <2>3
<1> QED
  BY <1>2, <1>3, <1>4, <1>5, <1>6, <1>7, ApprovalSteps

\* The verdict of a call, which is the last of the list.
LEMMA LastVerdict ==
   ASSUME VerdictInv
   PROVE  /\ \A layer \in Layer : Block(layer) =>
               verdicts'[Len(verdicts')] = [allowed |-> FALSE, by |-> layer]
<1>1. ASSUME NEW v \in Verdict, verdicts' = Append(verdicts, v)
      PROVE  verdicts'[Len(verdicts')] = v
  BY <1>1 DEF VerdictInv
<1>2. \A layer \in Layer : [allowed |-> FALSE, by |-> layer] \in Verdict
  BY DEF Verdict
<1> QED
  BY <1>1, <1>2 DEF Block

LEMMA HeldStep ==
   ASSUME TypeInv, VerdictInv, [Next]_vars, NEW s \in Server, NEW c \in Call,
          calls' = Append(calls, c), c.server = s
   PROVE  LET verdict == verdicts'[Len(verdicts')]
          IN /\ verdict.allowed => \A r \in c.emails : Known(s, r)
             /\ \A r \in approved'[s] \ approved[s] :
                   /\ verdict.by = "whitelist"
                   /\ Len(pending') = Len(pending) + 1
                   /\ r \in pending'[Len(pending')].recipients
<1> DEFINE verdict == verdicts'[Len(verdicts')]
<1>1. /\ calls \in Seq(Call) /\ pending \in Seq(Held)
      /\ approved \in [Server -> SUBSET (Address \union Domain)]
  BY DEF TypeInv, TypeOK, Held
<1>2. InspectCall(c)
  <2>1. ASSUME NEW d \in Call, calls' = Append(calls, d)
        PROVE  d = c
    <3>1. /\ Append(calls, d)[Len(calls) + 1] = d
          /\ Append(calls, c)[Len(calls) + 1] = c
      BY <1>1
    <3> QED
      BY <2>1, <3>1
  <2>2. calls' # calls
    BY <1>1
  <2>3. ASSUME NEW d \in Call, InspectCall(d)
        PROVE  calls' = Append(calls, d)
    BY <2>3 DEF InspectCall, RecordIntent
  <2>4. \E d \in Call : InspectCall(d)
    BY <2>2 DEF Next, Operation, Malformed, InspectEgress, ScanNetwork, Connect, SetNetworkPolicy,
        ConfigureServer, Approve, Mint, Tick, vars
  <2> QED
    BY <2>1, <2>3, <2>4
<1>3. ASSUME NEW layer \in Layer, Block(layer)
      PROVE  verdict.allowed = FALSE /\ verdict.by = layer
  <2>1. verdict = [allowed |-> FALSE, by |-> layer]
    BY <1>3, LastVerdict
  <2> HIDE DEF verdict
  <2> QED
    BY <2>1
<1>4. {"honeypot", "ml", "rate", "whitelist"} \subseteq Layer
  BY DEF Layer
<1> HIDE DEF verdict
<1>5. CASE Trip(c) \/ JudgedThreat(c) \/ ExceedRate(c)
  BY <1>3, <1>4, <1>5 DEF Trip, JudgedThreat, ExceedRate, policyVars, verdict
<1>6. CASE Pass(c)
  BY <1>6 DEF Pass, Unknown, verdict
<1>7. CASE Hold(c)
  <2> DEFINE p == [server |-> c.server, recipients |-> Unknown(c)]
  <2>1. /\ pending' = Append(pending, p) /\ p \in Held
        /\ approved' = IF AutoLearn
                       THEN [approved EXCEPT ![c.server] = @ \union Unknown(c)] ELSE approved
    BY <1>7, HoldOf
  <2>2. Block("whitelist")
    BY <1>7 DEF Hold
  <2>3. verdict.allowed = FALSE /\ verdict.by = "whitelist"
    BY <1>3, <1>4, <2>2
  <2>4. \A r \in approved'[s] \ approved[s] : r \in p.recipients
    BY <1>1, <2>1
  <2> HIDE DEF p
  <2>5. Len(pending') = Len(pending) + 1 /\ pending'[Len(pending')] = p
    BY <1>1, <2>1
  <2> QED
    BY <2>3, <2>4, <2>5 DEF verdict
<1> QED
  BY <1>2, <1>5, <1>6, <1>7 DEF InspectCall

CallInv == TypeInv /\ VerdictInv /\ RateInv /\ KnownForAReason

(* Over any sequence of calls, configurations, approvals and ticks the     *)
(* limit of a server's sends holds in every window (RateLimiter.check),    *)
(* only blocked calls outgrow the list of verdicts (Defense10._allow and   *)
(* _block), a server knows an address only because an operator approved it *)
(* or a call was held for it, and no call is let through that names an     *)
(* address not known before it (RecipientWhitelist.approve and check).     *)
THEOREM TenPointCallsAreHeld == Spec => CallsAreHeld
<1>1. Init => CallInv
  <2>1. Init => KnownForAReason
    BY DEF Init, KnownForAReason
  <2> QED
    BY <2>1, TypeInit, VerdictInit, RateInit DEF CallInv
<1>2. CallInv /\ [Next]_vars => CallInv'
  BY TypeStep, VerdictStep, RateStep, KnownStep DEF CallInv
<1>3. CallInv => TypeOK /\ SendsHold /\ OnlyBlocksOverflow /\ KnownForAReason
  BY DEF CallInv, TypeInv, VerdictInv, RateInv
<1>4. CallInv /\ [Next]_vars =>
         [\A s \in Server, c \in Call : calls' = Append(calls, c) /\ c.server = s =>
            LET verdict == verdicts'[Len(verdicts')]
            IN /\ verdict.allowed => \A r \in c.emails : Known(s, r)
               /\ \A r \in approved'[s] \ approved[s] :
                     /\ verdict.by = "whitelist"
                     /\ Len(pending') = Len(pending) + 1
                     /\ r \in pending'[Len(pending')].recipients]_vars
  BY HeldStep DEF CallInv
<1>5. Spec => []CallInv
  BY <1>1, <1>2, PTL DEF Spec
<1> QED
  BY <1>3, <1>4, <1>5, PTL DEF Spec, CallsAreHeld, FirstContactIsHeld
==============================================================================
