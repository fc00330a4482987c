--------------------------- MODULE EffectProtocol ---------------------------
(***************************************************************************)
(* What GroupGuard promises about its WhatsApp effects, with nothing of    *)
(* how it keeps the promise: each effect is planned durably before it is   *)
(* attempted, attempted at most once in all time, and ends in a status     *)
(* that says no more than what is known.                                   *)
(***************************************************************************)
EXTENDS Integers

CONSTANT Effects

VARIABLES
  plan,      \* the durable record of each effect
  attempted, \* times the effect was handed to WhatsApp
  landed     \* times WhatsApp carried it out

protocolVars == <<plan, attempted, landed>>

PlanStates ==
  {"absent", "pending", "observed", "delivered", "unknown", "skipped"}

ProtocolTypeOK ==
  /\ plan \in [Effects -> PlanStates]
  /\ attempted \in [Effects -> {0, 1}]
  /\ landed \in [Effects -> {0, 1}]

ProtocolInit ==
  /\ plan = [e \in Effects |-> "absent"]
  /\ attempted = [e \in Effects |-> 0]
  /\ landed = [e \in Effects |-> 0]

Record(e, from, to) ==
  /\ plan[e] = from
  /\ plan' = [plan EXCEPT ![e] = to]

Plan(e) == Record(e, "absent", "pending") /\ UNCHANGED <<attempted, landed>>

Attempt(e) ==
  /\ plan[e] = "pending"
  /\ attempted[e] = 0
  /\ attempted' = [attempted EXCEPT ![e] = 1]
  /\ UNCHANGED <<plan, landed>>

Land(e) ==
  /\ attempted[e] = 1
  /\ landed[e] = 0
  /\ landed' = [landed EXCEPT ![e] = 1]
  /\ UNCHANGED <<plan, attempted>>

\* Only an effect WhatsApp has carried out may be recorded as delivered.
Confirm(e) ==
  /\ landed[e] = 1
  /\ Record(e, "pending", "delivered")
  /\ UNCHANGED <<attempted, landed>>

\* Only an effect never handed to WhatsApp may be recorded as skipped, or as
\* an observation.
Decline(e) ==
  /\ attempted[e] = 0
  /\ \E to \in {"skipped", "observed"} : Record(e, "pending", to)
  /\ UNCHANGED <<attempted, landed>>

GiveUp(e) == Record(e, "pending", "unknown") /\ UNCHANGED <<attempted, landed>>

ProtocolNext ==
  \E e \in Effects :
    Plan(e) \/ Attempt(e) \/ Land(e) \/ Confirm(e) \/ Decline(e) \/ GiveUp(e)

ProtocolSpec == ProtocolInit /\ [][ProtocolNext]_protocolVars
=============================================================================
