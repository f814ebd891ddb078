-------------------------------- MODULE Parts --------------------------------
(* The parts of the system that share no state with one another, side by side:  *)
(* a behaviour is one of one part, chosen at the start, and the other parts     *)
(* stay in their initial states.                                                *)
EXTENDS Integers

CONSTANTS
    (* EventCorrelation *) Sessions, Events, Window, MaxPerSession, MaxIngested, MaxMinutes,
    (* LogShipping      *) BufferSize, FlushInterval, RotateSize, MaxRetries, MaxShipped,
                           MaxSeconds,
    (* TokenBucket      *) Burst, TokensPerMinute, MaxClock, MaxAdmitted,
    (* Alerting         *) Callers, Findings, Cooldown, MaxAlerts, MaxTime,
    (* ToolManifests    *) Manifests, Interfaces, Capabilities, Versions, NoManifest, MaxEdits,
    (* ToolDrift        *) Inputs, Outputs, BaselineWindow, MaxRecorded,
    (* ToolCanary       *) Probes, ProbeOutputs, MaxProbes, MaxAnswers,
    (* CallSequences    *) CallTools, CallServers, Data, WindowSize, MaxCalls, MaxCallMinutes,
    (* PolicyEngine     *) PolicyTools, Servers, Destinations, DangerousTools, AllowedServers,
                           AllowedHosts,
    (* ClientGuard      *) Guarded,
    (* JsonRpcMessages  *) MaxContainers, MaxDepth, MaxMembers, Members

ASSUME CorrelationAssumption == Window \in Nat \ {0} /\ MaxPerSession \in Nat \ {0}

ASSUME ShippingAssumption ==
    /\ BufferSize \in Nat \ {0} /\ FlushInterval \in Nat /\ RotateSize \in Nat
    /\ MaxRetries \in Nat /\ MaxShipped \in Nat

ASSUME BucketAssumption == Burst \in Nat /\ TokensPerMinute \in Nat

ASSUME AlertingAssumption == Cooldown \in Nat

ASSUME ManifestsAssumption == NoManifest \notin Manifests

ASSUME DriftAssumption == BaselineWindow \in Nat \ {0}

ASSUME CanaryAssumption ==
    \A p \in Probes : p = [id |-> p.id, tool |-> p.tool, expected |-> p.expected,
                            needs |-> p.needs, forbids |-> p.forbids]

ASSUME SequencesAssumption == WindowSize \in Nat \ {0}

\* "none" stands for the lack of a destination.
ASSUME PolicyAssumption == \A d \in Destinations : d.host # "none"

ASSUME MessagesAssumption ==
    /\ MaxDepth \in Nat
    /\ Members \subseteq {"no_object", "wrong_version", "no_method", "response", "other_method",
                          "bad_params", "bad_name", "bad_arguments", "tools_list", "tools_call"}

VARIABLES
    part,       \* the part that runs
    (* EventCorrelation *) minute, sessions, history, expired, matches, replayed, fired,
    (* LogShipping      *) backend, second, made, buffer, lastFlush, stats, file, rotated,
                           replaced, torn, copies,
    (* TokenBucket      *) clock, tokens, lastRefill, admitted,
    (* Alerting         *) time, caller, lastAlert, alerts, refused, sending,
    (* ToolManifests    *) content, signature, baseline, edits,
    (* ToolDrift        *) samples, known, recorded,
    (* ToolCanary       *) probes, baselines, answers, last,
    (* CallSequences    *) callMinute, window, calls, callAlerts,
    (* PolicyEngine     *) call, decision,
    (* ClientGuard      *) failClosed, judged, answer, outcome,
    (* JsonRpcMessages  *) parent, members, batch, stack, visited, phase, read, code, returned

correlation == <<minute, sessions, history, expired, matches, replayed, fired>>
shipping == <<backend, second, made, buffer, lastFlush, stats, file, rotated, replaced, torn, copies>>
bucket == <<clock, tokens, lastRefill, admitted>>
alerting == <<time, caller, lastAlert, alerts, refused, sending>>
manifests == <<content, signature, baseline, edits>>
drift == <<samples, known, recorded>>
canary == <<probes, baselines, answers, last>>
sequences == <<callMinute, window, calls, callAlerts>>
policy == <<call, decision>>
client == <<failClosed, judged, answer, outcome>>
jsonrpc == <<parent, members, batch, stack, visited, phase, read, code, returned>>

-----------------------------------------------------------------------------
(* A constant that only one part has keeps the name it has there.              *)

Correlation == INSTANCE EventCorrelation

Shipping == INSTANCE LogShipping

Bucket == INSTANCE TokenBucket

Alerts == INSTANCE Alerting

Signed == INSTANCE ToolManifests

Drift == INSTANCE ToolDrift

Canary == INSTANCE ToolCanary WITH history <- answers, Outputs <- ProbeOutputs

Sequenced == INSTANCE CallSequences WITH
    minute <- callMinute, recorded <- calls, alerts <- callAlerts,
    Tools <- CallTools, Servers <- CallServers, MaxMinutes <- MaxCallMinutes

Policy == INSTANCE PolicyEngine WITH Tools <- PolicyTools

Client == INSTANCE ClientGuard WITH Callers <- Guarded

Messages == INSTANCE JsonRpcMessages

-----------------------------------------------------------------------------
\* A part that does not run starts in one of its initial states only.
Init ==
    /\ part \in {"correlation", "shipping", "bucket", "alerting", "manifests", "drift",
                 "canary", "sequences", "policy", "client", "jsonrpc"}
    /\ Correlation!Init /\ Shipping!Init /\ Bucket!Init /\ Alerts!Init /\ Signed!Init
    /\ Drift!Init /\ Canary!Init /\ Sequenced!Init /\ Policy!Init /\ Client!Init /\ Messages!Init
    /\ part = "shipping" \/ backend = "file"
    /\ part = "manifests" \/ content = [m \in Manifests |-> CHOOSE c \in Signed!Contents : TRUE]
    /\ part = "client" \/ failClosed

Next ==
    \/ /\ part = "correlation" /\ Correlation!Next
       /\ UNCHANGED <<part, shipping, bucket, alerting, manifests, drift, canary, sequences, policy, client, jsonrpc>>
    \/ /\ part = "shipping" /\ Shipping!Next
       /\ UNCHANGED <<part, correlation, bucket, alerting, manifests, drift, canary, sequences, policy, client, jsonrpc>>
    \/ /\ part = "bucket" /\ Bucket!Next
       /\ UNCHANGED <<part, correlation, shipping, alerting, manifests, drift, canary, sequences, policy, client, jsonrpc>>
    \/ /\ part = "alerting" /\ Alerts!Next
       /\ UNCHANGED <<part, correlation, shipping, bucket, manifests, drift, canary, sequences, policy, client, jsonrpc>>
    \/ /\ part = "manifests" /\ Signed!Next
       /\ UNCHANGED <<part, correlation, shipping, bucket, alerting, drift, canary, sequences, policy, client, jsonrpc>>
    \/ /\ part = "drift" /\ Drift!Next
       /\ UNCHANGED <<part, correlation, shipping, bucket, alerting, manifests, canary, sequences, policy, client, jsonrpc>>
    \/ /\ part = "canary" /\ Canary!Next
       /\ UNCHANGED <<part, correlation, shipping, bucket, alerting, manifests, drift, sequences, policy, client, jsonrpc>>
    \/ /\ part = "sequences" /\ Sequenced!Next
       /\ UNCHANGED <<part, correlation, shipping, bucket, alerting, manifests, drift, canary, policy, client, jsonrpc>>
    \/ /\ part = "policy" /\ Policy!Next
       /\ UNCHANGED <<part, correlation, shipping, bucket, alerting, manifests, drift, canary, sequences, client, jsonrpc>>
    \/ /\ part = "client" /\ Client!Next
       /\ UNCHANGED <<part, correlation, shipping, bucket, alerting, manifests, drift, canary, sequences, policy, jsonrpc>>
    \/ /\ part = "jsonrpc" /\ Messages!Next
       /\ UNCHANGED <<part, correlation, shipping, bucket, alerting, manifests, drift, canary, sequences, policy, client>>

vars == <<part, correlation, shipping, bucket, alerting, manifests, drift, canary, sequences,
          policy, client, jsonrpc>>

Spec == Init /\ [][Next]_vars

-----------------------------------------------------------------------------
(* Correctness: one property for each part, put together from the properties   *)
(* that are stated in its module.                                             *)

\* Rules fire on the windows they should: a session's window is its latest
\* events, a rule fires exactly for a chain from the first event of its first
\* stage, labelled sequences fire what they are labelled with, and a match is
\* returned again while it is in the window (CorrelationEngine.ingest).
CorrelationHolds ==
    /\ [](/\ Correlation!WindowIsLatestEvents
          /\ Correlation!FiresOnFirstChain
          /\ Correlation!LabelsHold)
    /\ Correlation!MatchesAreRepeated

\* An event shipped is accounted for once and stored, but for torn lines and
\* files replaced within a second, in order, and no more often than it was sent
\* (LogShipper and its subclasses).
ShippingHolds ==
    /\ Shipping!EveryEventIsAccounted
    /\ Shipping!ShippedIsStored
    /\ Shipping!CopiesAreBounded
    /\ Shipping!FilesKeepOrder

\* No interval admits more than the burst and its refill, and allow() refuses
\* only what would break that bound (TokenBucket).
BucketHolds == Bucket!BurstHolds /\ Bucket!RefusesOnlyAtTheBound

\* Alerts of the same findings are a cooldown apart, and nothing else silences
\* them (AlertingHook.check_and_alert).
AlertingHolds == Alerts!AlertsAreSpaced /\ Alerts!OnlyOwnAlertsSilence

\* A manifest that verifies says what was signed, whatever became of the
\* registered object, and a baseline changed in place fails every manifest of
\* its tool (ManifestVerifier.verify).
ManifestsHold ==
    /\ [][Signed!VerifiedIsAsSigned']_vars
    /\ Signed!TamperedBaselineFailsAll

\* The output recorded last for an input is no drift but in size, and a field
\* is new exactly when no sample ever had it (BehavioralDriftDetector).
DriftHolds == Drift!RecordedIsNoDrift /\ Drift!NewFieldsAreNew

\* An answer passes only if it is the output registered or approved last, and a
\* tool once found compromised stays so (ToolCanary).
CanaryHolds == Canary!PassIsAsApproved /\ Canary!CompromisedIsSticky

\* The sequence rules see what they should of the window: any fresh pair, data
\* that flowed into a sending call, the two oldest calls (CrossToolCorrelationEngine).
SequencesHold ==
    Sequenced!PairsAreFound /\ Sequenced!ExfilCarriesData /\ Sequenced!PivotIsOfTheOldestTwo

\* The Python rules decide as the Rego policies do (PolicyEngine.evaluate).
ParityWithRego == Policy!ParityWithRego

\* With fail_closed a function runs only after the gateway allowed its call,
\* and without it a denial that arrives still blocks (guard).
GuardHolds == Client!RunsOnlyWhenAllowed /\ Client!FailOpenCoversOnlySilence

\* A message is refused for its depth exactly when a container is too deep, the
\* walk visits each container once, and an accepted message loses no call
\* (inspect_message, _check_depth).
MessagesHold == Messages!DepthIsExact /\ Messages!EachContainerOnce /\ Messages!NoCallIsLost
==============================================================================
