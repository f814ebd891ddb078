-------------------------- MODULE InOrderDelivery --------------------------
(***************************************************************************)
(* What the identity-telemetry pipeline promises, without its machinery:   *)
(* records are published to a queue, and the collector comes to hold       *)
(* exactly the leading records of that queue, in order, each one once.     *)
(* A malformed record is never delivered, and nothing overtakes it.        *)
(***************************************************************************)
EXTENDS Naturals, Sequences

CONSTANTS
  Records,    \* well-formed records
  Malformed   \* what a damaged record looks like

VARIABLES
  published,  \* the complete records of the queue
  delivered   \* what the collector holds

Init ==
  /\ published = <<>>
  /\ delivered = <<>>

Publish ==
  /\ \E r \in Records \union {Malformed} : published' = Append(published, r)
  /\ UNCHANGED delivered

Deliver ==
  /\ Len(delivered) < Len(published)
  /\ published[Len(delivered) + 1] # Malformed
  /\ delivered' = Append(delivered, published[Len(delivered) + 1])
  /\ UNCHANGED published

Next == Publish \/ Deliver

Safety == Init /\ [][Next]_<<published, delivered>>

Spec == Safety /\ WF_<<published, delivered>>(Deliver)
=============================================================================
