------------------------------- MODULE Outbox -------------------------------
(***************************************************************************)
(* What the send pipeline promises a reader of the conversation about each *)
(* message it drafts: a message is planned once; a planned message is      *)
(* delivered or cancelled; both are final.  In particular a cancelled      *)
(* message never returns to the schedule, whatever a restart, a retry, a   *)
(* resume or a late approval does.                                         *)
(***************************************************************************)
CONSTANT Draft

VARIABLE fate

Fate == {"unplanned", "planned", "cancelled", "delivered"}

Init == fate = [d \in Draft |-> "unplanned"]

Plan(d) ==
  /\ fate[d] = "unplanned"
  /\ fate' = [fate EXCEPT ![d] = "planned"]

Deliver(d) ==
  /\ fate[d] = "planned"
  /\ fate' = [fate EXCEPT ![d] = "delivered"]

\* One event may drop several planned messages: the tracked one, and the
\* others that were waiting for a review.
Cancel(S) ==
  /\ \A d \in S : fate[d] = "planned"
  /\ fate' = [d \in Draft |-> IF d \in S THEN "cancelled" ELSE fate[d]]

Next ==
  \/ \E d \in Draft : Plan(d) \/ Deliver(d)
  \/ \E S \in SUBSET Draft : Cancel(S)

Spec == Init /\ [][Next]_fate
=============================================================================
