------------------------------- MODULE Outbox -------------------------------
(* What the outbound queue promises of each message, whoever drains it: a   *)
(* message may go out several times, but one transmission at a time and     *)
(* only while it is unsettled; it settles once; and "delivered" is said     *)
(* only of a message its channel has received, or need not receive.         *)
CONSTANTS
  Messages,
  Unroutable  \* messages that settle even if nothing arrives

VARIABLES
  outcome,   \* "none", "delivered" or "failed"
  received,  \* the messages their channel has received, once or more
  open       \* received in a transmission that is not over

vars == <<outcome, received, open>>

Init ==
  /\ outcome = [m \in Messages |-> "none"]
  /\ received = {}
  /\ open = {}

Transmit(m) ==
  /\ outcome[m] = "none"
  /\ m \notin open
  /\ received' = received \union {m}
  /\ open' = open \union {m}
  /\ UNCHANGED outcome

\* The sender learns of a transmission.
Deliver(m) ==
  /\ outcome[m] = "none"
  /\ m \in open \/ m \in Unroutable
  /\ outcome' = [outcome EXCEPT ![m] = "delivered"]
  /\ open' = open \ {m}
  /\ UNCHANGED received

GiveUp(m) ==
  /\ outcome[m] = "none"
  /\ outcome' = [outcome EXCEPT ![m] = "failed"]
  /\ open' = open \ {m}
  /\ UNCHANGED received

\* The sender gets no answer, or forgets what it was doing.
Lose(M) ==
  /\ open' = open \ M
  /\ UNCHANGED <<outcome, received>>

Next ==
  \/ \E m \in Messages : Transmit(m) \/ Deliver(m) \/ GiveUp(m)
  \/ \E M \in SUBSET Messages : Lose(M)

OutboxSpec == Init /\ [][Next]_vars

-----------------------------------------------------------------------------
(* What follows of every message.                                           *)

\* What is said to be delivered has arrived, unless it had nowhere to go; and
\* only what is unsettled is under way.
DeliveredHasArrived ==
  /\ open \subseteq {m \in received : outcome[m] = "none"}
  /\ \A m \in Messages \ Unroutable : outcome[m] = "delivered" => m \in received

\* A settled message stays as it settled, and does not go out again.
SettledStays ==
  [][\A m \in Messages : outcome[m] # "none" =>
       /\ outcome'[m] = outcome[m]
       /\ m \notin open' /\ (m \in received' => m \in received)]_vars
=============================================================================
