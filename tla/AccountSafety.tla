--------------------------- MODULE AccountSafety ---------------------------
(***************************************************************************)
(* AccountSafetyController of src/groupguard/reliability/effects.ts: the   *)
(* volatile account-wide limiter every GroupGuard effect asks for a permit *)
(* before it touches WhatsApp.  It is a value passed through operators, so *)
(* that the runtime's actions can use it inside one atomic step.           *)
(*                                                                         *)
(* The code keeps, per action, a list of reservation timestamps.  Here the *)
(* list is a set of [effect, at] records: each timestamp is tagged with    *)
(* the effect that reserved it, which keeps equal timestamps apart.        *)
(***************************************************************************)
EXTENDS Integers, FiniteSets

CONSTANTS
  Limit,            \* Limit[a]: budgets[a].limit
  Window,           \* Window[a]: budgets[a].windowMs
  FailureThreshold, \* consecutive failures that open the circuit
  Cooldown          \* circuitCooldownMs

\* 'moderation-dm' is configured but no code path reserves it.
AccountActions == {"reply", "moderation-delete"}

ASSUME SafetyAssumption ==
  /\ Limit \in [AccountActions -> Nat]
  /\ Window \in [AccountActions -> Nat \ {0}]
  /\ FailureThreshold \in Nat \ {0}
  /\ Cooldown \in Nat \ {0}

\* E is the set of effects that ask for permits.
SafetyState(E) ==
  [attempts : [AccountActions -> SUBSET [effect : E, at : Nat]],
   consecutiveFailures : Nat,
   circuitOpenUntil : Nat]

\* The controller a starting process constructs.
FreshSafety ==
  [attempts |-> [a \in AccountActions |-> {}],
   consecutiveFailures |-> 0,
   circuitOpenUntil |-> 0]

CircuitOpen(s, t) == s.circuitOpenUntil > t

\* The reservations of action a that still count against its budget at t.
Recent(s, a, t) == {r \in s.attempts[a] : r.at > t - Window[a]}

\* Fault (see GroupGuardRuntime): one attempt too many fits the budget.
FaultyPermitted(s, a, t) ==
  /\ ~CircuitOpen(s, t)
  /\ Cardinality(Recent(s, a, t)) <= Limit[a]

\* Does reserve(a) at time t grant a permit?
Permitted(s, a, t) ==
  /\ ~CircuitOpen(s, t)
  /\ Cardinality(Recent(s, a, t)) < Limit[a]

\* An expired circuit is closed by the first reserve after it, whether or not
\* the budget then grants the permit.
CloseExpired(s) ==
  IF s.circuitOpenUntil = 0
  THEN s
  ELSE [s EXCEPT !.circuitOpenUntil = 0, !.consecutiveFailures = 0]

\* The controller after reserve(a) at time t for effect e.
AfterReserve(s, a, t, e) ==
  IF CircuitOpen(s, t)
  THEN s
  ELSE [CloseExpired(s) EXCEPT !.attempts[a] =
          Recent(s, a, t) \union
            (IF Permitted(s, a, t) THEN {[effect |-> e, at |-> t]} ELSE {})]

\* Fault: any success closes the circuit.
FaultyAfterSuccess(s) ==
  [s EXCEPT !.consecutiveFailures = 0, !.circuitOpenUntil = 0]

\* A success ends the failure streak; it does not close an open circuit.
AfterSuccess(s) == [s EXCEPT !.consecutiveFailures = 0]

\* Each failure at or past the threshold opens the circuit, or extends it.
AfterFailure(s, t) ==
  LET streak == s.consecutiveFailures + 1
      until == IF streak >= FailureThreshold THEN t + Cooldown
               ELSE s.circuitOpenUntil
  IN  [s EXCEPT !.consecutiveFailures = streak, !.circuitOpenUntil = until]
=============================================================================
