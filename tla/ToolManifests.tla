---------------------------- MODULE ToolManifests ---------------------------
(* Signed tool manifests (advanced/manifest.py). The security team signs a     *)
(* manifest and registers it as the baseline of its tool; a live manifest is   *)
(* compared with it. register_baseline() keeps the object it is given, not a   *)
(* copy, so whoever holds that object can change the baseline in place.        *)
(*                                                                             *)
(* All manifests here are of one tool of one server: tools share no state.     *)
EXTENDS Naturals, FiniteSets

CONSTANTS
    Manifests,      \* manifest objects
    Interfaces,     \* description and parameters, as one value
    Capabilities,   \* capability lists: bags of names, [name -> how often]
    Versions,       \* version
    NoManifest,     \* no baseline
    MaxEdits        \* bound: changes of manifests in place

Contents == [interface : Interfaces, capabilities : Capabilities, version : Versions]

VARIABLES
    content,    \* per object: what canonical_bytes() covers
    signature,  \* per object: {} or the set of the content that was signed
    baseline,   \* the object registered for the tool, or NoManifest
    edits       \* bound

vars == <<content, signature, baseline, edits>>

\* sign(), by the holder of the key.
Sign(m) ==
    /\ signature' = [signature EXCEPT ![m] = {content[m]}]
    /\ UNCHANGED <<content, baseline, edits>>

RegisterBaseline(m) ==
    /\ baseline' = m
    /\ UNCHANGED <<content, signature, edits>>

\* The holder of an object changes it, or gives it the signature of another one.
Edit(m) ==
    /\ edits < MaxEdits
    /\ edits' = edits + 1
    /\ \/ \E c \in Contents : content' = [content EXCEPT ![m] = c] /\ UNCHANGED signature
       \/ \E n \in Manifests : signature' = [signature EXCEPT ![m] = signature[n]] /\ UNCHANGED content
    /\ UNCHANGED baseline

\* The HMAC of what an object says now is the signature it carries.
VerifySignature(m) == signature[m] = {content[m]}

Names(bag) == {name \in DOMAIN bag : bag[name] > 0}

\* Mutant: the signature of the baseline is not checked again.
ComparedOnly(m) ==
    IF baseline = NoManifest THEN {"no_baseline"}
    ELSE LET own == content[baseline]
             live == content[m]
         IN (IF live.interface # own.interface THEN {"drift"} ELSE {})
            \cup (IF Names(live.capabilities) # Names(own.capabilities) THEN {"capabilities"} ELSE {})

\* verify(): the kinds of violations. A list of capabilities that differs only
\* in how often it names one is unequal but adds no violation, and the version
\* is compared nowhere.
Violations(m) ==
    IF baseline = NoManifest THEN {"no_baseline"}
    ELSE LET own == content[baseline]
             live == content[m]
             gained == Names(live.capabilities) \ Names(own.capabilities)
             lost == Names(own.capabilities) \ Names(live.capabilities)
         IN (IF VerifySignature(baseline) THEN {} ELSE {"baseline_tampered"})
            \cup (IF live.interface # own.interface THEN {"drift"} ELSE {})
            \cup (IF gained # {} THEN {"capability_escalation"} ELSE {})
            \cup (IF lost # {} THEN {"capability_reduction"} ELSE {})

Init ==
    /\ \E c \in Contents : content = [m \in Manifests |-> c]
    /\ signature = [m \in Manifests |-> {}]
    /\ baseline = NoManifest
    /\ edits = 0

Next == \E m \in Manifests : Sign(m) \/ RegisterBaseline(m) \/ Edit(m)

Spec == Init /\ [][Next]_vars

-----------------------------------------------------------------------------
(* Correctness.                                                                *)

\* A live manifest that verifies has the interface and the capabilities the
\* holder of the key once signed, even where the registered object was changed,
\* or its signature replaced, after it was registered.
VerifiedIsAsSigned ==
    \A m \in Manifests :
       Violations(m) = {} =>
          /\ baseline # NoManifest
          /\ \E signed \in signature[baseline] :
                /\ content[m].interface = signed.interface
                /\ Names(content[m].capabilities) = Names(signed.capabilities)

\* Changing the registered object in place, if not to what was signed, makes
\* every manifest of the tool fail until that object is signed again, restored
\* or replaced: nothing passes against a changed baseline.
TamperedBaselineFailsAll ==
    [][baseline # NoManifest /\ baseline' = baseline /\ VerifySignature(baseline)
          /\ content'[baseline] # content[baseline]
        => \A m \in Manifests : Violations(m)' # {}]_vars
=============================================================================
