------------------------------ MODULE Alerting ------------------------------
(* The alerting hook of production/alerting.py. check_and_alert() is called by *)
(* the threads that inspect calls: it reads the clock, then takes the lock to  *)
(* compare and set the time of the last alert of the same findings, and then   *)
(* starts a thread that posts to the webhook and forgets about it.             *)
EXTENDS Integers, FiniteSets

CONSTANTS
    Callers,    \* threads that call check_and_alert()
    Findings,   \* findings keys
    Cooldown,   \* cooldown_seconds
    MaxAlerts,  \* bound: alerts fired
    MaxTime     \* bound: the clock

NoAlert == -Cooldown    \* last_time 0.0 is far in the past

VARIABLES
    time,       \* time.time
    caller,     \* per thread: the findings and the clock it has read, or Idle
    lastAlert,  \* _last_alert_times
    alerts,     \* the alerts fired: findings, the clock read, and their number
    refused,    \* the last call refused in the cooldown: findings and the clock read
    sending     \* the alerts whose thread has not posted yet

vars == <<time, caller, lastAlert, alerts, refused, sending>>

Idle == [findings |-> "none", read |-> 0]

\* A result below the risk threshold, and every result without a webhook, is
\* left alone before this.
ReadClock(c) ==
    /\ caller[c] = Idle
    /\ \E f \in Findings : caller' = [caller EXCEPT ![c] = [findings |-> f, read |-> time]]
    /\ UNCHANGED <<time, lastAlert, alerts, refused, sending>>

\* Mutant: firing an alert does not start its cooldown.
StartLater(c) == lastAlert

\* Mutant: the cooldown is the same for all findings.
StartForAll(c) == [f \in Findings |-> caller[c].read]

StartCooldown(c) == [lastAlert EXCEPT ![caller[c].findings] = caller[c].read]

Compare(c) ==
    LET own == caller[c]
    IN /\ own # Idle
       /\ Cardinality(alerts) < MaxAlerts
       /\ \/ /\ own.read - lastAlert[own.findings] < Cooldown
             /\ refused' = own
             /\ UNCHANGED <<lastAlert, alerts, sending>>
          \/ /\ own.read - lastAlert[own.findings] >= Cooldown
             /\ lastAlert' = StartCooldown(c)
             /\ alerts' = alerts \cup {[findings |-> own.findings, read |-> own.read,
                                        number |-> Cardinality(alerts) + 1]}
             /\ sending' = sending \cup {Cardinality(alerts) + 1}
             /\ UNCHANGED refused
       /\ caller' = [caller EXCEPT ![c] = Idle]
       /\ UNCHANGED time

\* _send_webhook(): one attempt; an address that is neither https nor local is
\* skipped and an exception is logged, so whether it was posted shows nowhere.
SendWebhook(n) ==
    /\ n \in sending
    /\ sending' = sending \ {n}
    /\ UNCHANGED <<time, caller, lastAlert, alerts, refused>>

Pass ==
    /\ time < MaxTime
    /\ time' = time + 1
    /\ UNCHANGED <<caller, lastAlert, alerts, refused, sending>>

Init ==
    /\ time = 0
    /\ caller = [c \in Callers |-> Idle]
    /\ lastAlert = [f \in Findings |-> NoAlert]
    /\ alerts = {}
    /\ refused = Idle
    /\ sending = {}

Next ==
    \/ \E c \in Callers : ReadClock(c) \/ Compare(c)
    \/ \E n \in 1..MaxAlerts : SendWebhook(n)
    \/ Pass

Spec == Init /\ [][Next]_vars

-----------------------------------------------------------------------------
(* Correctness.                                                               *)

\* Two alerts of the same findings are a cooldown apart, in the order in which
\* they were fired, although threads read the clock before they take the lock
\* and may take it in another order.
AlertsAreSpaced ==
    \A a, b \in alerts :
       a.findings = b.findings /\ a.number < b.number => b.read - a.read >= Cooldown

\* A result is refused only on account of an alert of its own findings that was
\* fired less than a cooldown before, whether or not the webhook got it: a lost
\* alert silences the next ones for one cooldown and no longer.
OnlyOwnAlertsSilence ==
    refused # Idle =>
       \E a \in alerts : a.findings = refused.findings /\ refused.read - a.read < Cooldown
=============================================================================
