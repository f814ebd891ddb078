--------------------------- MODULE TenPointDefense ---------------------------
(****************************************************************************)
(* Defense10: a tool call is compared with canary tokens, the classifier,    *)
(* the approved recipients and the sending rate of its server; the recipients*)
(* it names itself are remembered, and when the outbound request of the call *)
(* is seen, its recipients must be among them.  Live connections are scanned *)
(* apart.  A call's id is its number: ids are fresh, and times only grow, so *)
(* the oldest intents are those with the smallest ids.                       *)
(****************************************************************************)
EXTENDS Integers, Sequences, FiniteSets

CONSTANTS Server, Address, Domain,
          DomainOf(_),     \* the domain of an address
          Token,           \* values a canary may have
          Call,            \* calls: server, shape, to, emails, tokens, threat
          Connection,      \* remote ends: addr, port, local
          SendLimit, SendWindow,   \* sends per server and window
          MaxAge, MaxEntries,      \* of the intent registry
          MaxVerdicts,             \* verdicts kept
          AutoLearn,               \* RecipientWhitelist(auto_learn=...)
          Payload,                 \* sets of recipients an outbound request may have
          MaxSteps, MaxNow         \* bounds of the model: operations, and time

ASSUME TenPointAssumption ==
   /\ \A c \in Call : c.server \in Server /\ c.to \subseteq Address /\ c.emails \subseteq Address
   /\ Payload \subseteq SUBSET Address
   /\ MaxEntries \in Nat \ {0} /\ MaxVerdicts \in Nat \ {0}
   /\ SendLimit \in Nat /\ SendWindow \in Nat
   /\ AutoLearn \in BOOLEAN
   /\ Address \intersect Domain = {}   \* a domain is kept with a leading "@"

VARIABLES calls,      \* ghost: the calls inspected, in order; a call's id is its index
          intents,    \* IntentRegistry._intents: id -> recipients and time
          approved,   \* RecipientWhitelist._approved: server -> addresses and domains
          granted,    \* ghost: server -> the addresses an operator approved
          pending,    \* RecipientWhitelist._pending
          limited,    \* servers with a configured limit
          attempts,   \* RateLimiter._events: server -> sends, each a call's id and its time
          sent,       \* ghost: server -> the sends let through under a limit
          tokens,     \* HoneypotVault._tokens
          verdicts,   \* Defense10._verdicts
          outbound,   \* EgressInspector._verdicts, with the id they are about
          network,    \* NetworkMonitor: allowed, ports, blocked; and the live connections
          mlReady,    \* Defense10._ml_available
          now,
          steps       \* bound: operations so far
vars == <<calls, intents, approved, granted, pending, limited, attempts, sent, tokens, verdicts,
          outbound, network, mlReady, now, steps>>
policyVars == <<approved, granted, pending, limited, attempts, sent, tokens, network, mlReady>>

----------------------------------------------------------------------------
(* IntentRegistry *)

Oldest(ids, n) == {i \in ids : Cardinality({j \in ids : j < i}) < n}

Fresh(table, ids) == [i \in ids |-> table[i]]

\* Mutant: the size of the registry is not limited.
KeptUnlessExpired == {i \in DOMAIN intents : now - intents[i].ts <= MaxAge}

\* The size is checked before the new entry is added.
KeptIntents ==
   LET full == DOMAIN intents
       kept == IF Cardinality(full) > MaxEntries
               THEN full \ Oldest(full, Cardinality(full) \div 2) ELSE full
   IN {i \in kept : now - intents[i].ts <= MaxAge}

RecordIntent(c) ==
   LET id == Len(calls) + 1
   IN /\ calls' = Append(calls, c)
      /\ intents' = [i \in KeptIntents \union {id} |->
            IF i = id THEN [recipients |-> c.to, ts |-> now] ELSE intents[i]]

----------------------------------------------------------------------------
(* RecipientWhitelist and RateLimiter *)

Known(s, r) == r \in approved[s] \/ DomainOf(r) \in approved[s]

Unknown(c) == {r \in c.emails : ~Known(c.server, r)}

ThisSend == [call |-> Len(calls) + 1, at |-> now]

InWindow(sends) == {x \in sends : now - x.at <= SendWindow}

\* Mutant: what is exactly a window old is forgotten.
RecentAttempts(s) == {x \in attempts[s] \union {ThisSend} : now - x.at < SendWindow}

\* Every checked send is remembered, the refused ones as well.
Attempts(s) == InWindow(attempts[s] \union {ThisSend})

RateExceeded(s) == s \in limited /\ Cardinality(Attempts(s)) > SendLimit

CountAttempt(s) ==
   attempts' = IF s \in limited THEN [attempts EXCEPT ![s] = Attempts(s)] ELSE attempts

----------------------------------------------------------------------------
(* Verdicts: only an allowing one trims the list. *)

Block(layer) == verdicts' = Append(verdicts, [allowed |-> FALSE, by |-> layer])

Newest(seq, n) == IF Len(seq) > n THEN SubSeq(seq, Len(seq) - n + 1, Len(seq)) ELSE seq

\* Mutant: an allowed call does not trim the list either.
AllowUntrimmed == verdicts' = Append(verdicts, [allowed |-> TRUE, by |-> "none"])

Allow == verdicts' = Newest(Append(verdicts, [allowed |-> TRUE, by |-> "none"]), MaxVerdicts)

----------------------------------------------------------------------------
(* inspect_call: the intent is recorded first, whatever becomes of the call. *)

Init ==
   /\ calls = <<>> /\ intents = <<>>
   /\ approved = [s \in Server |-> {}] /\ granted = [s \in Server |-> {}] /\ pending = <<>>
   /\ limited = {}
   /\ attempts = [s \in Server |-> {}] /\ sent = [s \in Server |-> {}]
   /\ tokens = {}
   /\ verdicts = <<>> /\ outbound = <<>>
   /\ network = [allowed |-> {}, ports |-> {}, blocked |-> {}, live |-> {}]
   /\ mlReady \in BOOLEAN
   /\ now = 0 /\ steps = 0

\* Arguments that are not a dict make the registry raise after its eviction.
Malformed(c) ==
   /\ c.shape = "text"
   /\ intents' = Fresh(intents, KeptIntents)
   /\ UNCHANGED <<calls, policyVars, verdicts, outbound, now>>

Trip(c) ==
   /\ c.tokens \intersect tokens # {}
   /\ Block("honeypot")
   /\ UNCHANGED policyVars

JudgedThreat(c) ==
   /\ c.tokens \intersect tokens = {}
   /\ mlReady /\ c.threat
   /\ Block("ml")
   /\ UNCHANGED policyVars

Clean(c) == c.tokens \intersect tokens = {} /\ ~(mlReady /\ c.threat)

\* Mutant: a recipient that has been learned is not held any more.
LearnAndSend(c) ==
   /\ Clean(c)
   /\ Unknown(c) # {}
   /\ pending' = Append(pending, [server |-> c.server, recipients |-> Unknown(c)])
   /\ approved' = IF AutoLearn
                  THEN [approved EXCEPT ![c.server] = @ \union Unknown(c)] ELSE approved
   /\ IF AutoLearn THEN Allow ELSE Block("whitelist")
   /\ UNCHANGED <<granted, limited, attempts, sent, tokens, network, mlReady>>

Hold(c) ==
   /\ Clean(c)
   /\ Unknown(c) # {}
   /\ pending' = Append(pending, [server |-> c.server, recipients |-> Unknown(c)])
   /\ approved' = IF AutoLearn
                  THEN [approved EXCEPT ![c.server] = @ \union Unknown(c)] ELSE approved
   /\ Block("whitelist")
   /\ UNCHANGED <<granted, limited, attempts, sent, tokens, network, mlReady>>

ExceedRate(c) ==
   /\ Clean(c)
   /\ c.emails # {} /\ Unknown(c) = {}
   /\ RateExceeded(c.server)
   /\ CountAttempt(c.server)
   /\ Block("rate")
   /\ UNCHANGED <<approved, granted, pending, limited, sent, tokens, network, mlReady>>

Pass(c) ==
   /\ Clean(c)
   /\ Unknown(c) = {}
   /\ c.emails # {} => ~RateExceeded(c.server)
   /\ IF c.emails = {} THEN UNCHANGED <<attempts, sent>>
      ELSE /\ CountAttempt(c.server)
           /\ sent' = IF c.server \in limited
                      THEN [sent EXCEPT ![c.server] = @ \union {ThisSend}] ELSE sent
   /\ Allow
   /\ UNCHANGED <<approved, granted, pending, limited, tokens, network, mlReady>>

InspectCall(c) ==
   /\ c.shape = "map"
   /\ RecordIntent(c)
   /\ Trip(c) \/ JudgedThreat(c) \/ Hold(c) \/ ExceedRate(c) \/ Pass(c)
   /\ UNCHANGED <<outbound, now>>

----------------------------------------------------------------------------
(* inspect_egress: an intent that is gone authorizes nobody. *)

Expired(id) == id \in DOMAIN intents /\ now - intents[id].ts > MaxAge

\* Mutant: the outbound request is compared with every live intent.
AuthorizedByAny(id) == UNION {intents[i].recipients : i \in DOMAIN intents}

Authorized(id) ==
   IF id \in DOMAIN intents /\ ~Expired(id) THEN intents[id].recipients ELSE {}

InspectEgress(id, emails) ==
   /\ intents' = IF Expired(id) THEN Fresh(intents, DOMAIN intents \ {id}) ELSE intents
   /\ outbound' = Append(outbound,
         [id |-> id, emails |-> emails, allowed |-> emails \subseteq Authorized(id)])
   /\ IF emails \subseteq Authorized(id) THEN Allow ELSE Block("egress")
   /\ UNCHANGED <<calls, policyVars, now>>

----------------------------------------------------------------------------
(* scan_network *)

MailPort == {25, 465, 587, 2525}

Outgoing(c) == c.port # 0 /\ c.addr \notin {"0.0.0.0", "::"}

Suspicious(c) ==
   \/ c.addr \in network.blocked
   \/ c.port \in MailPort /\ c.port \notin network.ports
   \/ network.allowed # {} /\ c.addr \notin network.allowed /\ ~c.local

ScanNetwork ==
   /\ IF \E c \in network.live : Outgoing(c) /\ Suspicious(c) THEN Block("network") ELSE Allow
   /\ UNCHANGED <<calls, intents, policyVars, outbound, now>>

\* The monitored host: connections come and go between two scans.
Connect(c) ==
   /\ network' = [network EXCEPT !.live = IF c \in @ THEN @ \ {c} ELSE @ \union {c}]
   /\ UNCHANGED <<calls, intents, approved, granted, pending, limited, attempts, sent, tokens,
                  verdicts, outbound, mlReady, now>>

SetNetworkPolicy(c) ==
   /\ \/ \E ps \in {{}, {c.port}} :
            network' = [network EXCEPT !.allowed = @ \union {c.addr}, !.ports = @ \union ps]
      \/ network' = [network EXCEPT !.blocked = @ \union {c.addr}]
   /\ UNCHANGED <<calls, intents, approved, granted, pending, limited, attempts, sent, tokens,
                  verdicts, outbound, mlReady, now>>

----------------------------------------------------------------------------
(* Configuration and time *)

ConfigureServer(s, domains) ==
   /\ limited' = limited \union {s}
   /\ approved' = [approved EXCEPT ![s] = @ \union domains]
   /\ UNCHANGED <<calls, intents, granted, pending, attempts, sent, tokens, verdicts, outbound, network,
                  mlReady, now>>

\* The operator approves an address, held or never seen.
Approve(s, r) ==
   /\ approved' = [approved EXCEPT ![s] = @ \union {r}]
   /\ granted' = [granted EXCEPT ![s] = @ \union {r}]
   /\ UNCHANGED <<calls, intents, pending, limited, attempts, sent, tokens, verdicts, outbound,
                  network, mlReady, now>>

Mint(t) ==
   /\ tokens' = tokens \union {t}
   /\ UNCHANGED <<calls, intents, approved, granted, pending, limited, attempts, sent, verdicts,
                  outbound, network, mlReady, now>>

Tick ==
   /\ now < MaxNow
   /\ now' = now + 1
   /\ UNCHANGED <<calls, intents, policyVars, verdicts, outbound>>

Operation ==
   \/ \E c \in Call : InspectCall(c) \/ Malformed(c)
   \/ \E id \in 0..Len(calls), emails \in Payload : InspectEgress(id, emails)
   \/ ScanNetwork
   \/ \E c \in Connection : Connect(c) \/ SetNetworkPolicy(c)
   \/ \E s \in Server, ds \in SUBSET Domain : ConfigureServer(s, ds)
   \/ \E s \in Server, r \in Address : Approve(s, r)
   \/ \E t \in Token : Mint(t)

Next ==
   \/ steps < MaxSteps /\ Operation /\ steps' = steps + 1
   \/ Tick /\ UNCHANGED steps

Spec == Init /\ [][Next]_vars

----------------------------------------------------------------------------
(* Properties. *)

\* The state has its shape (the attributes of Defense10 and its parts).
TypeOK ==
   /\ calls \in Seq(Call)
   /\ DOMAIN intents \subseteq DOMAIN calls
   /\ \A i \in DOMAIN intents : intents[i].recipients \subseteq Address /\ intents[i].ts \in 0..now
   /\ approved \in [Server -> SUBSET (Address \union Domain)]
   /\ granted \in [Server -> SUBSET Address]
   /\ attempts \in [Server -> SUBSET [call : DOMAIN calls, at : 0..now]]
   /\ sent \in [Server -> SUBSET [call : DOMAIN calls, at : 0..now]]
   /\ limited \subseteq Server /\ tokens \subseteq Token
   /\ network.live \subseteq Connection
   /\ mlReady \in BOOLEAN /\ now \in Nat /\ steps \in Nat

\* Nothing leaves for a recipient the call did not name itself, however many
\* calls came in between, expired or were evicted (IntentRegistry,
\* EgressInspector.inspect: a forgotten intent authorizes nobody).
EgressWithinIntent ==
   \A k \in DOMAIN outbound : outbound[k].allowed =>
      \/ outbound[k].emails = {}
      \/ /\ outbound[k].id \in DOMAIN calls
         /\ outbound[k].emails \subseteq calls[outbound[k].id].to

\* The registry never holds more than one entry above its size: it checks the
\* size before it adds (_evict_stale).
IntentsBounded == Cardinality(DOMAIN intents) <= MaxEntries + 1

\* At most the configured number of sends gets through in any window once a
\* limit is set, wherever the window starts (RateLimiter.check counts the
\* refused sends too, and drops what has left the window).
SendsHold ==
   \A s \in Server, t \in 0..now :
      Cardinality({x \in sent[s] : x.at \in t..(t + SendWindow)}) <= SendLimit

\* Verdicts above the cap are blocked ones: the list is trimmed by _allow and
\* not by _block, so an allowed call always brings it back under the cap.
OnlyBlocksOverflow ==
   \A k \in DOMAIN verdicts : k > MaxVerdicts => ~verdicts[k].allowed

\* An address a server knows by itself was approved by an operator, or, where
\* the deployment learns, named by a call that was held: nothing else that a
\* call does makes it known (RecipientWhitelist.approve and check, auto_learn).
KnownForAReason ==
   \A s \in Server : \A r \in approved[s] \ Domain :
      \/ r \in granted[s]
      \/ AutoLearn /\ \E k \in DOMAIN pending :
                         pending[k].server = s /\ r \in pending[k].recipients

\* A call that names an address its server does not know, by itself or by its
\* domain, is not let through, learning or not; and a call that makes an
\* address known is blocked and put among those held for approval
\* (RecipientWhitelist.check, which refuses what it has just learned).
FirstContactIsHeld ==
   [][\A s \in Server, c \in Call : calls' = Append(calls, c) /\ c.server = s =>
         LET verdict == verdicts'[Len(verdicts')]
         IN /\ verdict.allowed => \A r \in c.emails : Known(s, r)
            /\ \A r \in approved'[s] \ approved[s] :
                  /\ verdict.by = "whitelist"
                  /\ Len(pending') = Len(pending) + 1
                  /\ r \in pending'[Len(pending')].recipients]_vars

\* The registry of intents is bounded, and what it forgets authorizes nothing.
RegistryHolds == EgressWithinIntent /\ IntentsBounded

\* Over any sequence of operations the first contact with a recipient is held,
\* the sending rate holds, and only blocked calls outgrow the list of verdicts.
CallsAreHeld ==
   [](TypeOK /\ SendsHold /\ OnlyBlocksOverflow /\ KnownForAReason) /\ FirstContactIsHeld
=============================================================================
