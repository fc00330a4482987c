------------------------------ MODULE Verdicts ------------------------------
(* What an approval promises: one verdict per request, an approved request  *)
(* carried out at most once, a rejected one never, and the agent told of a  *)
(* rejection at most once.                                                  *)
EXTENDS Naturals

CONSTANT Requests

VARIABLES
  verdict,  \* "open", "approved" or "rejected"
  applied,  \* how often the requested action was carried out
  told      \* how often the agent was told that it is rejected

vars == <<verdict, applied, told>>

Init ==
  /\ verdict = [r \in Requests |-> "open"]
  /\ applied = [r \in Requests |-> 0]
  /\ told = [r \in Requests |-> 0]

Decide(r, v) ==
  /\ verdict[r] = "open"
  /\ verdict' = [verdict EXCEPT ![r] = v]
  /\ UNCHANGED <<applied, told>>

CarryOut(r) ==
  /\ verdict[r] = "approved" /\ applied[r] = 0
  /\ applied' = [applied EXCEPT ![r] = 1]
  /\ UNCHANGED <<verdict, told>>

Tell(r) ==
  /\ verdict[r] = "rejected" /\ told[r] = 0
  /\ told' = [told EXCEPT ![r] = 1]
  /\ UNCHANGED <<verdict, applied>>

Next ==
  \E r \in Requests : Decide(r, "approved") \/ Decide(r, "rejected") \/ CarryOut(r) \/ Tell(r)

VerdictSpec == Init /\ [][Next]_vars

-----------------------------------------------------------------------------
(* What follows of every request.                                           *)

PromiseTypeOK ==
  /\ verdict \in [Requests -> {"open", "approved", "rejected"}]
  /\ applied \in [Requests -> {0, 1}]
  /\ told \in [Requests -> {0, 1}]

\* No request is both carried out and told rejected, neither happens twice, and
\* neither before the verdict.
OneFate ==
  \A r \in Requests :
    /\ applied[r] + told[r] <= 1
    /\ applied[r] = 1 => verdict[r] = "approved"
    /\ told[r] = 1 => verdict[r] = "rejected"

\* A verdict once given stands.
VerdictsStand ==
  [][\A r \in Requests : verdict[r] # "open" => verdict'[r] = verdict[r]]_verdict
=============================================================================
