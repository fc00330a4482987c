---------------------- MODULE GroupGuardRuntimeProofs ----------------------
(***************************************************************************)
(* Theorems about GroupGuardRuntime, for every set of groups, policies,    *)
(* messages and handlers, every budget and every bound.                    *)
(***************************************************************************)
EXTENDS GroupGuardRuntime, FiniteSetTheorems, TLAPS

-----------------------------------------------------------------------------
(* Lemmas about the operators of AccountSafety and Moderation.             *)

\* The recent reservations are among those recorded.
LEMMA RecentType ==
  ASSUME NEW E, NEW s \in SafetyState(E), NEW a \in AccountActions, NEW t \in Nat
  PROVE  Recent(s, a, t) \in SUBSET [effect : E, at : Nat]
BY DEF Recent, SafetyState

\* reserve() leaves a well-formed controller.
LEMMA ReserveType ==
  ASSUME NEW E, NEW s \in SafetyState(E), NEW a \in AccountActions,
         NEW t \in Nat, NEW e \in E
  PROVE  AfterReserve(s, a, t, e) \in SafetyState(E)
<1>1. Recent(s, a, t) \in SUBSET [effect : E, at : Nat]
  BY RecentType
<1>2. CloseExpired(s) \in SafetyState(E)
  BY DEF CloseExpired, SafetyState
<1> DEFINE R == Recent(s, a, t) \union
                  (IF Permitted(s, a, t) THEN {[effect |-> e, at |-> t]} ELSE {})
<1>3. R \in SUBSET [effect : E, at : Nat]
  BY <1>1
<1> HIDE DEF R
<1>4. [CloseExpired(s) EXCEPT !.attempts[a] = R] \in SafetyState(E)
  BY <1>2, <1>3 DEF SafetyState
<1> QED
  BY <1>4 DEF AfterReserve, R

\* recordSuccess() and recordFailure() leave a well-formed controller.
LEMMA ReportType ==
  ASSUME NEW E, NEW s \in SafetyState(E), NEW t \in Nat
  PROVE  /\ AfterSuccess(s) \in SafetyState(E)
         /\ AfterFailure(s, t) \in SafetyState(E)
<1>1. AfterSuccess(s) \in SafetyState(E)
  BY DEF AfterSuccess, SafetyState
<1>2. AfterFailure(s, t) \in SafetyState(E)
  <2> DEFINE streak == s.consecutiveFailures + 1
             until == IF streak >= FailureThreshold THEN t + Cooldown
                      ELSE s.circuitOpenUntil
  <2>1. streak \in Nat /\ until \in Nat
    BY SafetyAssumption DEF SafetyState
  <2>2. AfterFailure(s, t)
          = [s EXCEPT !.consecutiveFailures = streak, !.circuitOpenUntil = until]
    BY Zenon DEF AfterFailure
  <2> HIDE DEF streak, until
  <2> QED
    BY <2>1, <2>2 DEF SafetyState
<1> QED
  BY <1>1, <1>2

\* Evaluating an arrival keeps messageTimes a map to sets of arrivals.
LEMMA TimesType ==
  ASSUME NEW tm \in MessageTimes, NEW guards, NEW m, NEW a \in Arrivals
  PROVE  TimesAfter(tm, guards, m, a) \in MessageTimes
<1>1. \A g : RecentArrivals(tm, g, m) \subseteq SameKey(tm, g.id, m)
  BY DEF RecentArrivals
<1> SUFFICES ASSUME NEW id \in RateGuards
             PROVE  TimesAfter(tm, guards, m, a)[id] \in SUBSET Arrivals
  BY DEF TimesAfter, MessageTimes
<1> DEFINE walked == {i \in Walked(tm, guards, m) : guards[i].id = id}
           g == guards[CHOOSE i \in walked : TRUE]
<1>2. CASE walked = {}
  BY <1>2 DEF TimesAfter, MessageTimes
<1>3. CASE walked # {}
  <2>1. g.id = id
    BY <1>3
  <2>2. RecentArrivals(tm, g, m) \subseteq tm[id]
    BY <1>1, <2>1 DEF SameKey
  <2>3. TimesAfter(tm, guards, m, a)[id]
          = (tm[id] \ SameKey(tm, id, m)) \union RecentArrivals(tm, g, m) \union {a}
    BY <1>3 DEF TimesAfter
  <2> QED
    BY <2>2, <2>3 DEF MessageTimes
<1> QED
  BY <1>2, <1>3

\* The verdict is one of the four the code knows.
LEMMA DecisionType ==
  ASSUME NEW tm, NEW guards, NEW m, NEW x, NEW a, NEW c
  PROVE  Decision(tm, guards, m, x, a, c) \in Decisions
BY DEF Decision, Decisions

-----------------------------------------------------------------------------
(* Type correctness.                                                       *)

\* A call that is under way is about a message, and so are its effects.
LEMMA CallUnderWay ==
  ASSUME TypeOK, NEW h \in Handlers, At(h) # "idle"
  PROVE  /\ call[h] \in Call
         /\ call[h].arrival \in HandledArrivals
         /\ Msg(h) \in Messages /\ GroupOf[Msg(h)] \in Groups
         /\ <<"moderation", Msg(h)>> \in Effects
         /\ <<"directory", Msg(h)>> \in Effects
BY DEF TypeOK, CallsOK, At, Msg, HandledArrivals, Arrivals, Effects

\* Going on from another place keeps every call well-formed.
LEMMA BecomeType ==
  ASSUME TypeOK, NEW h \in Handlers, NEW c \in Call,
         c.pc # "idle" => c.arrival \in HandledArrivals,
         Become(h, c)
  PROVE  CallsOK' /\ OutcomesOK'
BY DEF TypeOK, CallsOK, OutcomesOK, At, Become, outcomeVars

\* A call that goes on from another place keeps its locals, and their types.
LEMMA ContinueType ==
  ASSUME TypeOK, NEW h \in Handlers, At(h) # "idle",
         NEW state \in Awaiting \union Atomic, Continue(h, state)
  PROVE  CallsOK' /\ OutcomesOK'
<1> DEFINE c == [call[h] EXCEPT !.pc = state]
<1>1. c \in Call /\ c.arrival \in HandledArrivals
  BY CallUnderWay DEF Call
<1>2. Become(h, c)
  BY DEF Continue
<1> HIDE DEF c
<1> QED
  BY <1>1, <1>2, BecomeType

\* A handler without a call is well-formed.
LEMMA IdleType == Idle \in Call /\ Idle.pc = "idle"
BY DEF Idle, Call, AdminStates, Decisions

\* Returning to the batch, or rejecting, keeps every call well-formed.
LEMMA ReturnType ==
  ASSUME TypeOK, NEW h \in Handlers, NEW m \in Messages, NEW handled,
         Return(h, m, handled)
  PROVE  CallsOK' /\ OutcomesOK'
<1>1. CallsOK'
  BY IdleType DEF TypeOK, CallsOK, At, Return
<1>2. OutcomesOK'
  BY DEF TypeOK, OutcomesOK, Return
<1> QED
  BY <1>1, <1>2

\* A rejected call keeps them as well.
LEMMA RejectType ==
  ASSUME TypeOK, NEW h \in Handlers, Reject(h)
  PROVE  CallsOK' /\ OutcomesOK'
BY IdleType, BecomeType DEF Reject

\* The ledger's statements write rows.
LEMMA LedgerType ==
  ASSUME TypeOK, NEW e \in Effects
  PROVE  /\ \A kind \in Kinds : Claim(e, kind) => ledger' \in [Effects -> Row]
         /\ \A status \in Statuses : Mark(e, status) => ledger' \in [Effects -> Row]
<1>1. ASSUME NEW kind \in Kinds, Claim(e, kind)
      PROVE  ledger' \in [Effects -> Row]
  BY <1>1 DEF TypeOK, Claim, Row, Statuses
<1>2. ASSUME NEW status \in Statuses, Mark(e, status)
      PROVE  ledger' \in [Effects -> Row]
  BY <1>2 DEF TypeOK, Mark, Row
<1> QED
  BY <1>1, <1>2

\* The system starts well-formed.
LEMMA InitType == Init => TypeOK
<1> SUFFICES ASSUME Init PROVE TypeOK
  OBVIOUS
<1>1. CallsOK
  BY IdleType DEF Init, CallsOK, At
<1>2. safety \in SafetyState(Effects)
  BY DEF Init, FreshSafety, SafetyState
<1>3. ledger \in [Effects -> Row]
  BY DEF Init, NoRow, Row, Statuses
<1>4. OutcomesOK
  BY DEF Init, OutcomesOK
<1> QED
  BY <1>1, <1>2, <1>3, <1>4 DEF Init, TypeOK, NoMessageTimes, MessageTimes, NoPermits

\* Starting an effect, and either way it ends, keep the state well-formed.
LEMMA StartType ==
  ASSUME TypeOK, NEW h \in Handlers, NEW e \in Effects,
         NEW claimed, claimed # "idle", NEW action \in AccountActions,
         NEW awaiting \in Awaiting, Start(h, claimed, action, e, awaiting)
  PROVE  TypeOK'
<1> USE DEF outside, engineVars
<1>1. At(h) # "idle"
  BY DEF Start
<1>2. safety' \in SafetyState(Effects)
  BY ReserveType DEF Start, TypeOK
<1>3. CASE Permitted(safety, action, now)
  <2>1. CallsOK' /\ OutcomesOK'
    BY <1>1, <1>3, ContinueType DEF Start
  <2>2. attempted' \in [Effects -> Nat]
    BY <1>3 DEF Start, TypeOK
  <2>3. permits' \in [AccountActions -> SUBSET [effect : Effects, at : Nat]]
    BY <1>3 DEF Start, TypeOK
  <2> QED
    BY <1>2, <1>3, <2>1, <2>2, <2>3 DEF Start, TypeOK
<1>4. CASE ~Permitted(safety, action, now)
  <2>1. CallsOK' /\ OutcomesOK'
    BY <1>1, <1>4, CallUnderWay, ReturnType DEF Start
  <2>2. ledger' \in [Effects -> Row]
    BY <1>4, LedgerType DEF Start, Statuses
  <2> QED
    BY <1>2, <1>4, <2>1, <2>2 DEF Start, TypeOK
<1> QED
  BY <1>3, <1>4

\* The await's good end keeps the types.
LEMMA SucceedType ==
  ASSUME TypeOK, NEW h \in Handlers, NEW e \in Effects,
         NEW awaiting, awaiting # "idle", Succeed(h, awaiting, e)
  PROVE  TypeOK'
<1> USE DEF outside, engineVars
<1>1. At(h) # "idle"
  BY DEF Succeed
<1>2. CASE ~LedgerOpen
  <2>1. safety' \in SafetyState(Effects)
    <3>1. AfterSuccess(safety) \in SafetyState(Effects)
      BY ReportType DEF TypeOK
    <3>2. AfterFailure(AfterSuccess(safety), now) \in SafetyState(Effects)
      BY <3>1, ReportType DEF TypeOK
    <3> QED
      BY <1>2, <3>2 DEF Succeed
  <2>2. quietUntil' \in Nat
    BY <1>2, SafetyAssumption DEF Succeed, NoteCircuit, TypeOK
  <2> QED
    BY <1>2, <2>1, <2>2, RejectType DEF Succeed, TypeOK
<1>3. CASE LedgerOpen
  <2>1. safety' \in SafetyState(Effects)
    BY <1>3, ReportType DEF Succeed, TypeOK
  <2>2. CallsOK' /\ OutcomesOK'
    BY <1>1, <1>3, CallUnderWay, ReturnType DEF Succeed
  <2>3. ledger' \in [Effects -> Row]
    BY <1>3, LedgerType DEF Succeed, Statuses
  <2> QED
    BY <1>3, <2>1, <2>2, <2>3 DEF Succeed, TypeOK
<1> QED
  BY <1>2, <1>3

\* So does its bad end.
LEMMA FailType ==
  ASSUME TypeOK, NEW h \in Handlers, NEW e \in Effects,
         NEW awaiting, awaiting # "idle", Fail(h, awaiting, e)
  PROVE  TypeOK'
<1> USE DEF outside, engineVars
<1>1. At(h) # "idle"
  BY DEF Fail
<1>2. safety' \in SafetyState(Effects)
  BY ReportType DEF Fail, TypeOK
<1>3. quietUntil' \in Nat
  BY SafetyAssumption DEF Fail, NoteCircuit, TypeOK
<1>4. CASE ~LedgerOpen
  BY <1>2, <1>3, <1>4, RejectType DEF Fail, TypeOK
<1>5. CASE LedgerOpen
  <2>1. CallsOK' /\ OutcomesOK'
    BY <1>1, <1>5, CallUnderWay, ReturnType DEF Fail
  <2>2. ledger' \in [Effects -> Row]
    BY <1>5, LedgerType DEF Fail, Statuses
  <2> QED
    BY <1>2, <1>3, <1>5, <2>1, <2>2 DEF Fail, TypeOK
<1> QED
  BY <1>4, <1>5

\* Judging a message keeps the state well-formed.
LEMMA EvaluateType ==
  ASSUME TypeOK, NEW h \in Handlers, Evaluate(h)
  PROVE  TypeOK'
<1> DEFINE m == Msg(h)
           p == PolicyOf(m)
           a == call[h].admin
           verdict == Decision(times, p.guards, m, p.adminExempt, a, CanEnforce(m))
           e == <<"moderation", m>>
           Next_(state) == [call[h] EXCEPT !.pc = state, !.decision = verdict]
<1>1. At(h) # "idle"
  BY DEF Evaluate
<1>2. m \in Messages /\ e \in Effects /\ call[h] \in Call /\ call[h].arrival \in HandledArrivals
  BY <1>1, CallUnderWay
<1>3. verdict \in Decisions
  BY DecisionType
<1>4. times' \in MessageTimes /\ judged' \subseteq Messages
  <2>1. CASE Exempted(p.adminExempt, a)
    BY <2>1 DEF Evaluate, engineVars, TypeOK
  <2>2. CASE ~Exempted(p.adminExempt, a)
    BY <1>2, <2>2, TimesType DEF Evaluate, TypeOK, HandledArrivals
  <2> QED
    BY <2>1, <2>2
<1>5. ASSUME NEW state \in Awaiting \union Atomic, Become(h, Next_(state))
      PROVE  CallsOK' /\ OutcomesOK'
  <2>1. Next_(state) \in Call /\ Next_(state).arrival \in HandledArrivals
    BY <1>2, <1>3 DEF Call
  <2> HIDE DEF Next_
  <2> QED
    BY <1>5, <2>1, BecomeType
<1>6. /\ CallsOK' /\ OutcomesOK'
      /\ ledger' \in [Effects -> Row]
  <2>1. CASE Become(h, Next_("answering")) /\ UNCHANGED ledger
    BY <1>5, <2>1 DEF Atomic, TypeOK
  <2>2. CASE Reject(h) /\ UNCHANGED ledger
    BY <2>2, RejectType DEF TypeOK
  <2>3. CASE Claim(e, "moderation-delete") /\ Become(h, Next_("delete-claimed"))
    BY <1>2, <1>5, <2>3, LedgerType DEF Atomic, Kinds
  <2>4. CASE /\ Claim(e, "moderation-observation")
             /\ Become(h, Next_("observation-claimed"))
    BY <1>2, <1>5, <2>4, LedgerType DEF Atomic, Kinds
  <2>5. CASE Return(h, m, TRUE) /\ UNCHANGED ledger
    BY <1>2, <2>5, ReturnType DEF TypeOK
  <2> QED
    BY <2>1, <2>2, <2>3, <2>4, <2>5 DEF Evaluate
<1> HIDE DEF m, p, a, verdict, e, Next_
<1> QED
  BY <1>4, <1>6 DEF Evaluate, TypeOK, outside, accountVars

\* Every step keeps the state well-formed.
LEMMA NextType == TypeOK /\ [Next]_vars => TypeOK'
<1> SUFFICES ASSUME TypeOK, [Next]_vars PROVE TypeOK'
  OBVIOUS
<1> USE DEF outside, accountVars, engineVars, volatileVars, outcomeVars
<1>1. CASE Tick
  BY <1>1 DEF Tick, TypeOK, CallsOK, OutcomesOK, At
<1>2. CASE Teardown
  BY <1>2 DEF Teardown, TypeOK, CallsOK, OutcomesOK, At
<1>3. CASE Restart
  <2>1. safety' \in SafetyState(Effects)
    BY <1>3 DEF Restart, FreshSafety, SafetyState
  <2>2. CallsOK'
    BY <1>3, IdleType DEF Restart, CallsOK, At
  <2>3. OutcomesOK'
    BY <1>3 DEF Restart, TypeOK, OutcomesOK
  <2>4. /\ times' \in MessageTimes
        /\ permits' \in [AccountActions -> SUBSET [effect : Effects, at : Nat]]
    BY <1>3 DEF Restart, NoMessageTimes, MessageTimes, NoPermits
  <2>5. closing' \in BOOLEAN
    BY <1>3, Zenon DEF Restart
  <2>6. lifetime' \in Nat /\ quietUntil' \in Nat /\ judged' = {}
    BY <1>3 DEF Restart, TypeOK
  <2> QED
    BY <1>3, <2>1, <2>2, <2>3, <2>4, <2>5, <2>6 DEF Restart, TypeOK
<1>4. ASSUME NEW h \in Handlers, NEW m \in Messages, Deliver(h, m)
      PROVE  TypeOK'
  <2> arrivals' \in [Messages -> Nat]
    BY <1>4 DEF Deliver, TypeOK
  <2>1. CASE GroupOf[m] \notin Groups
    <3>1. CallsOK' /\ OutcomesOK'
      BY <1>4, <2>1, ReturnType DEF Deliver
    <3> QED
      BY <1>4, <3>1 DEF Deliver, TypeOK
  <2>2. CASE GroupOf[m] \in Groups
    <3> DEFINE c == [Idle EXCEPT
                       !.arrival = <<m, arrivals[m] + 1>>,
                       !.pc = IF PolicyOf(m).guards = <<>> THEN "answering"
                              ELSE IF PolicyOf(m).adminExempt THEN "resolving-admins"
                              ELSE "evaluating"]
    <3>1. <<m, arrivals[m] + 1>> \in HandledArrivals
      BY <2>2 DEF TypeOK, HandledArrivals, Arrivals
    <3>2. c \in Call /\ c.arrival \in HandledArrivals
      BY <3>1 DEF HandledArrivals, Call, Idle, Awaiting, Atomic, AdminStates, Decisions
    <3>3. Become(h, c)
      BY <1>4, <2>2 DEF Deliver
    <3> HIDE DEF c
    <3>4. CallsOK' /\ OutcomesOK'
      BY <3>2, <3>3, BecomeType
    <3> QED
      BY <1>4, <3>4 DEF Deliver, TypeOK
  <2> QED
    BY <2>1, <2>2
<1>5. ASSUME NEW h \in Handlers, Step(h)
      PROVE  TypeOK'
  <2>1. CASE ResolveAdmins(h)
    <3>1. At(h) # "idle"
      BY <2>1 DEF ResolveAdmins
    <3>2. PICK a \in AdminStates :
            Become(h, [call[h] EXCEPT !.pc = "evaluating", !.admin = a])
      BY <2>1 DEF ResolveAdmins
    <3> DEFINE c == [call[h] EXCEPT !.pc = "evaluating", !.admin = a]
    <3>3. c \in Call /\ c.arrival \in HandledArrivals
      BY <3>1, CallUnderWay DEF Call, Atomic
    <3>4. Become(h, c)
      BY <3>2
    <3> HIDE DEF c
    <3>5. CallsOK' /\ OutcomesOK'
      BY <3>3, <3>4, BecomeType
    <3> QED
      BY <2>1, <3>5 DEF ResolveAdmins, TypeOK
  <2>2. CASE Evaluate(h)
    BY <2>2, EvaluateType
  <2>3. CASE SettleObservation(h)
    <3>1. At(h) # "idle"
      BY <2>3 DEF SettleObservation
    <3>2. ledger' \in [Effects -> Row]
      BY <2>3, <3>1, CallUnderWay, LedgerType DEF SettleObservation, Statuses
    <3>3. CASE call[h].decision = "observe"
      <4>1. CallsOK' /\ OutcomesOK'
        BY <2>3, <3>1, <3>3, ContinueType DEF SettleObservation, Atomic
      <4> QED
        BY <2>3, <3>2, <4>1 DEF SettleObservation, TypeOK
    <3>4. CASE call[h].decision # "observe"
      <4>1. CallsOK' /\ OutcomesOK'
        BY <2>3, <3>1, <3>4, CallUnderWay, ReturnType DEF SettleObservation
      <4> QED
        BY <2>3, <3>2, <4>1 DEF SettleObservation, TypeOK
    <3> QED
      BY <3>3, <3>4
  <2>4. CASE StartDelete(h)
    <3>1. At(h) # "idle"
      BY <2>4 DEF StartDelete, Start
    <3> QED
      BY <2>4, <3>1, CallUnderWay, StartType DEF StartDelete, AccountActions, Awaiting
  <2>5. CASE FinishDelete(h)
    <3>1. At(h) # "idle"
      BY <2>5 DEF FinishDelete, Succeed, Fail
    <3> QED
      BY <2>5, <3>1, CallUnderWay, SucceedType, FailType DEF FinishDelete
  <2>6. CASE Answer(h)
    <3>1. At(h) # "idle"
      BY <2>6 DEF Answer
    <3>2. CallsOK' /\ OutcomesOK'
      BY <2>6, <3>1, CallUnderWay, ContinueType, ReturnType DEF Answer, Awaiting
    <3> QED
      BY <2>6, <3>2 DEF Answer, TypeOK
  <2>7. CASE Respond(h)
    <3>1. At(h) # "idle"
      BY <2>7 DEF Respond
    <3>2. CallsOK' /\ OutcomesOK'
      BY <2>7, <3>1, CallUnderWay, ContinueType, ReturnType, RejectType
      DEF Respond, Atomic
    <3>3. ledger' \in [Effects -> Row]
      BY <2>7, <3>1, CallUnderWay, LedgerType DEF Respond, Kinds, TypeOK
    <3> QED
      BY <2>7, <3>2, <3>3 DEF Respond, TypeOK
  <2>8. CASE StartReply(h)
    <3>1. At(h) # "idle"
      BY <2>8 DEF StartReply, Start
    <3> QED
      BY <2>8, <3>1, CallUnderWay, StartType DEF StartReply, AccountActions, Awaiting
  <2>9. CASE FinishReply(h)
    <3>1. At(h) # "idle"
      BY <2>9 DEF FinishReply, Succeed, Fail
    <3> QED
      BY <2>9, <3>1, CallUnderWay, SucceedType, FailType DEF FinishReply
  <2> QED
    BY <1>5, <2>1, <2>2, <2>3, <2>4, <2>5, <2>6, <2>7, <2>8, <2>9 DEF Step
<1>6. ASSUME NEW e \in Effects, Land(e)
      PROVE  TypeOK'
  BY <1>6 DEF Land, TypeOK, CallsOK, OutcomesOK, At
<1>7. CASE UNCHANGED vars
  BY <1>7 DEF vars, TypeOK, CallsOK, OutcomesOK, At
<1> QED
  BY <1>1, <1>2, <1>3, <1>4, <1>5, <1>6, <1>7 DEF Next

\* The state is well-formed in every behaviour.
THEOREM TypeCorrect == Spec => []TypeOK
<1> QED
  BY InitType, NextType, PTL DEF Spec

-----------------------------------------------------------------------------
(* The life of an effect.  Every step of the runtime is, as far as the     *)
(* effects are concerned, one of five kinds; the invariants of the ledger  *)
(* and the refinement are proved for the five kinds.                       *)

Claimed == {"observation-claimed", "delete-claimed", "reply-claimed"}

\* The kind of effect a call settles, by its place.
KindAt(pc) ==
  IF pc = "observation-claimed" THEN "moderation-observation"
  ELSE IF pc \in {"delete-claimed", "deleting"} THEN "moderation-delete"
  ELSE "directory-reply"

HoldsNothing(h) == \A e \in Effects : ~Holds(h, e)

OthersKeep(h) == \A g \in Handlers : g # h => call'[g] = call[g]

\* Every moderation lock is open for the deletion the call is about.
Unlocked(h) ==
  /\ CanEnforce(Msg(h))
  /\ PolicyOf(Msg(h)).adminExempt => call[h].admin = "member"

QuietStep ==
  /\ UNCHANGED <<ledger, attempted, landed>>
  /\ \A h \in Handlers : call'[h] = call[h] \/ HoldsNothing(h)'
  /\ closing' => closing \/ EventLoopFree
  /\ now' >= now

ClaimStep(h, e) ==
  /\ ledger[e].status = "absent"
  /\ ~closing
  /\ Holds(h, e)' /\ At(h)' \in Claimed
  /\ At(h)' = "delete-claimed" => Unlocked(h)'
  /\ Claim(e, KindAt(At(h)'))
  /\ OthersKeep(h)
  /\ UNCHANGED <<attempted, landed, closing, now>>

StartStep(h, e) ==
  /\ Holds(h, e) /\ At(h) \in {"delete-claimed", "reply-claimed"}
  /\ Holds(h, e)' /\ At(h)' \in {"deleting", "sending"}
  /\ \E n \in {0, 1} : attempted' = [attempted EXCEPT ![e] = @ + n]
  /\ OthersKeep(h)
  /\ UNCHANGED <<ledger, landed, closing, now>>

SettleStep(h, e, status) ==
  /\ Holds(h, e)
  /\ At(h) \in Claimed \/ ~closing
  /\ HoldsNothing(h)'
  /\ Mark(e, status)
  /\ status = "delivered" => landed[e] > 0 \/ At(h) = "observation-claimed"
  /\ status = "skipped" => At(h) \in Claimed
  /\ OthersKeep(h)
  /\ UNCHANGED <<attempted, landed, closing, now>>

LandStep(e) ==
  /\ landed[e] < attempted[e]
  /\ landed' = [landed EXCEPT ![e] = @ + 1]
  /\ UNCHANGED <<call, ledger, attempted, closing, now>>

EffectStep ==
  \/ QuietStep
  \/ \E h \in Handlers, e \in Effects :
       \/ ClaimStep(h, e) \/ StartStep(h, e)
       \/ \E status \in {"delivered", "unknown", "skipped"} : SettleStep(h, e, status)
  \/ \E e \in Effects : LandStep(e)

Holding == {"observation-claimed", "delete-claimed", "deleting",
            "reply-claimed", "sending"}

\* Going on to a place where no effect is held, or back to the batch, leaves
\* the call without one and the other calls alone.
LEMMA LettingGo ==
  ASSUME TypeOK, NEW h \in Handlers
  PROVE  /\ \A c : Become(h, c) /\ c.pc \notin Holding => HoldsNothing(h)' /\ OthersKeep(h)
         /\ \A s : Continue(h, s) /\ s \notin Holding => HoldsNothing(h)' /\ OthersKeep(h)
         /\ \A m, b : Return(h, m, b) => HoldsNothing(h)' /\ OthersKeep(h)
         /\ Reject(h) => HoldsNothing(h)' /\ OthersKeep(h)
<1>1. ASSUME NEW c, call' = [call EXCEPT ![h] = c], c.pc \notin Holding
      PROVE  HoldsNothing(h)' /\ OthersKeep(h)
  BY <1>1 DEF TypeOK, CallsOK, HoldsNothing, OthersKeep, Holds, At, Holding
<1>2. [call[h] EXCEPT !.pc = "idle"].pc = "idle"
  BY DEF TypeOK, CallsOK, Call
<1>3. ASSUME NEW s, Continue(h, s), s \notin Holding
      PROVE  HoldsNothing(h)' /\ OthersKeep(h)
  <2>1. [call[h] EXCEPT !.pc = s].pc = s
    BY DEF TypeOK, CallsOK, Call
  <2> QED
    BY <1>1, <1>3, <2>1 DEF Continue, Become
<1>4. Idle.pc \notin Holding
  BY DEF Idle, Holding
<1> QED
  BY <1>1, <1>3, <1>4 DEF Become, Return, Reject

\* Going on to a place where an effect is held.
LEMMA TakingHold ==
  ASSUME TypeOK, NEW h \in Handlers, At(h) # "idle", NEW c, Become(h, c),
         c.arrival = call[h].arrival, NEW e
  PROVE  /\ OthersKeep(h)
         /\ At(h)' = c.pc
         /\ c.pc \in {"observation-claimed", "delete-claimed", "deleting"} =>
              (e = <<"moderation", Msg(h)>> => Holds(h, e)')
         /\ c.pc \in {"reply-claimed", "sending"} =>
              (e = <<"directory", Msg(h)>> => Holds(h, e)')
<1>1. call'[h] = c
  BY DEF Become, TypeOK, CallsOK
<1>2. OthersKeep(h)
  BY DEF Become, TypeOK, CallsOK, OthersKeep
<1>3. At(h)' = c.pc /\ Msg(h)' = Msg(h)
  BY <1>1 DEF At, Msg
<1>4. ASSUME c.pc \in {"observation-claimed", "delete-claimed", "deleting"},
             e = <<"moderation", Msg(h)>>
      PROVE  Holds(h, e)'
  BY <1>3, <1>4 DEF Holds
<1>5. ASSUME c.pc \in {"reply-claimed", "sending"}, e = <<"directory", Msg(h)>>
      PROVE  Holds(h, e)'
  BY <1>3, <1>5 DEF Holds
<1> QED
  BY <1>2, <1>3, <1>4, <1>5

\* The same for a call that keeps its locals.
LEMMA ContinuingHold ==
  ASSUME TypeOK, NEW h \in Handlers, At(h) # "idle", NEW s, Continue(h, s), NEW e
  PROVE  /\ OthersKeep(h)
         /\ At(h)' = s
         /\ s \in {"observation-claimed", "delete-claimed", "deleting"} =>
              (e = <<"moderation", Msg(h)>> => Holds(h, e)')
         /\ s \in {"reply-claimed", "sending"} =>
              (e = <<"directory", Msg(h)>> => Holds(h, e)')
<1> DEFINE c == [call[h] EXCEPT !.pc = s]
<1>1. c.pc = s /\ c.arrival = call[h].arrival
  BY DEF TypeOK, CallsOK, Call
<1>2. Become(h, c)
  BY DEF Continue
<1> HIDE DEF c
<1> QED
  BY <1>1, <1>2, TakingHold

\* A step that touches no effect and lets go of one handler's is quiet.
LEMMA Quiet ==
  ASSUME TypeOK, NEW h \in Handlers, HoldsNothing(h)', OthersKeep(h),
         UNCHANGED <<ledger, attempted, landed, closing, now>>
  PROVE  EffectStep
BY DEF TypeOK, EffectStep, QuietStep, OthersKeep

\* Asking for a permit starts the effect its handler holds, or settles it as
\* skipped.
LEMMA StartIsEffectStep ==
  ASSUME TypeOK, NEW h \in Handlers, NEW e \in Effects, NEW action,
         NEW claimed \in {"delete-claimed", "reply-claimed"},
         NEW awaiting \in {"deleting", "sending"},
         Start(h, claimed, action, e, awaiting),
         Holds(h, e), Continue(h, awaiting) => Holds(h, e)'
  PROVE  EffectStep
<1> USE DEF outside
<1>1. At(h) = claimed /\ At(h) # "idle"
  BY DEF Start
<1>2. CASE Permitted(safety, action, now)
  <2>1. Continue(h, awaiting) /\ UNCHANGED <<ledger, landed, closing, now>>
    BY <1>2 DEF Start
  <2>2. OthersKeep(h) /\ At(h)' = awaiting
    BY <1>1, <2>1, ContinuingHold
  <2>3. StartStep(h, e)
    BY <1>1, <1>2, <2>1, <2>2 DEF Start, StartStep
  <2> QED
    BY <2>3 DEF EffectStep
<1>3. CASE ~Permitted(safety, action, now)
  <2>1. Mark(e, "skipped") /\ Return(h, Msg(h), TRUE) /\ UNCHANGED <<attempted, landed, closing, now>>
    BY <1>3 DEF Start
  <2>2. SettleStep(h, e, "skipped")
    BY <1>1, <2>1, LettingGo DEF SettleStep, Claimed
  <2> QED
    BY <2>2 DEF EffectStep
<1> QED
  BY <1>2, <1>3

\* The end of the call settles the effect its handler holds, or leaves it to a
\* closed ledger.
LEMMA FinishIsEffectStep ==
  ASSUME TypeOK, NEW h \in Handlers, NEW e \in Effects, NEW awaiting,
         Succeed(h, awaiting, e) \/ Fail(h, awaiting, e), Holds(h, e)
  PROVE  EffectStep
<1> USE DEF outside
<1>1. CASE Reject(h) /\ UNCHANGED <<ledger, attempted, landed, closing, now>>
  BY <1>1, LettingGo, Quiet
<1>2. ASSUME NEW status \in {"delivered", "unknown"}, Mark(e, status), LedgerOpen,
             status = "delivered" => landed[e] > 0,
             Return(h, Msg(h), TRUE), UNCHANGED <<attempted, landed, closing, now>>
      PROVE  EffectStep
  <2>1. SettleStep(h, e, status)
    BY <1>2, LettingGo DEF SettleStep, LedgerOpen
  <2> QED
    BY <2>1 DEF EffectStep
<1> QED
  BY <1>1, <1>2 DEF Succeed, Fail

\* The moderation verdict claims an effect, or touches none.
LEMMA EvaluateIsEffectStep ==
  ASSUME TypeOK, NEW h \in Handlers, Evaluate(h)
  PROVE  EffectStep
<1> DEFINE m == Msg(h)
           verdict == Decision(times, PolicyOf(m).guards, m, PolicyOf(m).adminExempt,
                               call[h].admin, CanEnforce(m))
           Next_(state) == [call[h] EXCEPT !.pc = state, !.decision = verdict]
<1>1. At(h) # "idle" /\ UNCHANGED <<attempted, landed, closing, now>>
  BY DEF Evaluate, outside
<1>2. PICK e \in Effects : e = <<"moderation", m>>
  BY <1>1, CallUnderWay
<1>3. \A state : /\ Next_(state).pc = state /\ Next_(state).arrival = call[h].arrival
                /\ Next_(state).admin = call[h].admin
  BY DEF TypeOK, CallsOK, Call
<1>4. CASE Become(h, Next_("answering")) /\ UNCHANGED ledger
  <2>1. Next_("answering").pc \notin Holding
    BY <1>3 DEF Holding
  <2> HIDE DEF Next_
  <2> QED
    BY <1>1, <1>4, <2>1, LettingGo, Quiet
<1>5. CASE Reject(h) /\ UNCHANGED ledger
  BY <1>1, <1>5, LettingGo, Quiet
<1>6. CASE Return(h, m, TRUE) /\ UNCHANGED ledger
  BY <1>1, <1>6, LettingGo, Quiet
<1>7. ASSUME NEW state \in {"delete-claimed", "observation-claimed"},
             LedgerOpen, Claimable(e), Claim(e, KindAt(state)), Become(h, Next_(state)),
             state = "delete-claimed" => verdict = "delete"
      PROVE  EffectStep
  <2>1. /\ Next_(state).pc = state /\ Next_(state).arrival = call[h].arrival
        /\ Next_(state).admin = call[h].admin
    BY <1>3
  <2> HIDE DEF Next_
  <2>2. OthersKeep(h) /\ At(h)' = state /\ Holds(h, e)'
    BY <1>1, <1>2, <1>7, <2>1, TakingHold
  <2>3. state = "delete-claimed" => Unlocked(h)'
    <3>1. call'[h].arrival = call[h].arrival /\ call'[h].admin = call[h].admin
      BY <1>7, <2>1 DEF Become, TypeOK, CallsOK
    <3>2. Msg(h)' = m /\ now' = now
      BY <1>1, <3>1 DEF Msg
    <3>3. call[h].admin \in AdminStates
      BY DEF TypeOK, CallsOK, Call
    <3>4. verdict = "delete" => /\ CanEnforce(m)
                                /\ PolicyOf(m).adminExempt => call[h].admin = "member"
      BY <3>3 DEF Decision, Exempted, AdminStates
    <3> QED
      BY <1>7, <3>1, <3>2, <3>4 DEF Unlocked, CanEnforce, PolicyOf
  <2>4. ClaimStep(h, e)
    BY <1>1, <1>7, <2>2, <2>3 DEF ClaimStep, Claimable, Claimed, LedgerOpen
  <2> QED
    BY <1>2, <2>4 DEF EffectStep
<1>8. CASE /\ Claimable(e) /\ LedgerOpen
           /\ \/ /\ verdict = "delete"
                 /\ Claim(e, "moderation-delete")
                 /\ Become(h, Next_("delete-claimed"))
              \/ /\ Claim(e, "moderation-observation")
                 /\ Become(h, Next_("observation-claimed"))
  <2> HIDE DEF Next_
  <2> QED
    BY <1>7, <1>8 DEF KindAt
<1> QED
  BY <1>2, <1>4, <1>5, <1>6, <1>8 DEF Evaluate

\* So does the responder's answer.
LEMMA RespondIsEffectStep ==
  ASSUME TypeOK, NEW h \in Handlers, Respond(h)
  PROVE  EffectStep
<1>1. At(h) # "idle" /\ UNCHANGED <<attempted, landed, closing, now>>
  BY DEF Respond, outside
<1>2. PICK e \in Effects : e = <<"directory", Msg(h)>>
  BY <1>1, CallUnderWay
<1>3. CASE /\ LedgerOpen /\ Claimable(e)
           /\ Claim(e, "directory-reply") /\ Continue(h, "reply-claimed")
  <2>1. OthersKeep(h) /\ At(h)' = "reply-claimed" /\ Holds(h, e)'
    BY <1>1, <1>2, <1>3, ContinuingHold
  <2>2. ClaimStep(h, e)
    BY <1>1, <1>3, <2>1 DEF ClaimStep, Claimable, Claimed, KindAt, LedgerOpen
  <2> QED
    BY <1>2, <2>2 DEF EffectStep
<1>4. CASE ((\E b : Return(h, Msg(h), b)) \/ Reject(h)) /\ UNCHANGED ledger
  BY <1>1, <1>4, LettingGo, Quiet
<1> QED
  BY <1>2, <1>3, <1>4 DEF Respond

\* Every step of handle() is one of the five.
LEMMA StepIsEffectStep ==
  ASSUME TypeOK, NEW h \in Handlers, Step(h)
  PROVE  EffectStep
<1>1. CASE ResolveAdmins(h)
  <2>1. PICK a \in AdminStates :
          Become(h, [call[h] EXCEPT !.pc = "evaluating", !.admin = a])
    BY <1>1 DEF ResolveAdmins
  <2>2. [call[h] EXCEPT !.pc = "evaluating", !.admin = a].pc \notin Holding
    BY DEF TypeOK, CallsOK, Call, Holding
  <2>3. UNCHANGED <<ledger, attempted, landed, closing, now>>
    BY <1>1 DEF ResolveAdmins, outside
  <2> QED
    BY <2>1, <2>2, <2>3, LettingGo, Quiet
<1>2. CASE Evaluate(h)
  BY <1>2, EvaluateIsEffectStep
<1>3. CASE SettleObservation(h)
  <2>1. PICK e \in Effects : /\ e = <<"moderation", Msg(h)>>
                             /\ At(h) = "observation-claimed" /\ Holds(h, e)
    BY <1>3, CallUnderWay DEF SettleObservation, Holds
  <2>2. HoldsNothing(h)' /\ OthersKeep(h)
    BY <1>3, LettingGo DEF SettleObservation, Holding
  <2>3. SettleStep(h, e, "delivered")
    BY <1>3, <2>1, <2>2 DEF SettleObservation, SettleStep, outside, Claimed
  <2> QED
    BY <2>1, <2>3 DEF EffectStep
<1>4. CASE StartDelete(h)
  <2>1. At(h) = "delete-claimed"
    BY <1>4 DEF StartDelete, Start
  <2>2. PICK e \in Effects : e = <<"moderation", Msg(h)>> /\ Holds(h, e)
    BY <2>1, CallUnderWay DEF Holds
  <2>3. Continue(h, "deleting") => Holds(h, e)'
    BY <2>1, <2>2, ContinuingHold
  <2>4. Start(h, "delete-claimed", "moderation-delete", e, "deleting")
    BY <1>4, <2>2 DEF StartDelete
  <2> QED
    BY <2>2, <2>3, <2>4, StartIsEffectStep
<1>5. CASE FinishDelete(h)
  <2>1. At(h) = "deleting"
    BY <1>5 DEF FinishDelete, Succeed, Fail
  <2>2. PICK e \in Effects : e = <<"moderation", Msg(h)>> /\ Holds(h, e)
    BY <2>1, CallUnderWay DEF Holds
  <2>3. Succeed(h, "deleting", e) \/ Fail(h, "deleting", e)
    BY <1>5, <2>2 DEF FinishDelete
  <2> QED
    BY <2>2, <2>3, FinishIsEffectStep
<1>6. CASE Answer(h)
  <2>1. UNCHANGED <<ledger, attempted, landed, closing, now>>
    BY <1>6 DEF Answer, outside
  <2>2. HoldsNothing(h)' /\ OthersKeep(h)
    BY <1>6, LettingGo DEF Answer, Holding
  <2> QED
    BY <2>1, <2>2, Quiet
<1>7. CASE Respond(h)
  BY <1>7, RespondIsEffectStep
<1>8. CASE StartReply(h)
  <2>1. At(h) = "reply-claimed"
    BY <1>8 DEF StartReply, Start
  <2>2. PICK e \in Effects : e = <<"directory", Msg(h)>> /\ Holds(h, e)
    BY <2>1, CallUnderWay DEF Holds
  <2>3. Continue(h, "sending") => Holds(h, e)'
    BY <2>1, <2>2, ContinuingHold
  <2>4. Start(h, "reply-claimed", "reply", e, "sending")
    BY <1>8, <2>2 DEF StartReply
  <2> QED
    BY <2>2, <2>3, <2>4, StartIsEffectStep
<1>9. CASE FinishReply(h)
  <2>1. At(h) = "sending"
    BY <1>9 DEF FinishReply, Succeed, Fail
  <2>2. PICK e \in Effects : e = <<"directory", Msg(h)>> /\ Holds(h, e)
    BY <2>1, CallUnderWay DEF Holds
  <2>3. Succeed(h, "sending", e) \/ Fail(h, "sending", e)
    BY <1>9, <2>2 DEF FinishReply
  <2> QED
    BY <2>2, <2>3, FinishIsEffectStep
<1> QED
  BY <1>1, <1>2, <1>3, <1>4, <1>5, <1>6, <1>7, <1>8, <1>9 DEF Step

\* And so is every step of the system: the outside's, and restarts.
LEMMA NextIsEffectStep == TypeOK /\ [Next]_vars => EffectStep
<1> SUFFICES ASSUME TypeOK, [Next]_vars PROVE EffectStep
  OBVIOUS
<1> USE DEF volatileVars
<1>1. CASE Tick \/ Teardown \/ UNCHANGED vars
  BY <1>1 DEF Tick, Teardown, vars, EffectStep, QuietStep, TypeOK
<1>2. CASE Restart
  <2>1. \A h \in Handlers : HoldsNothing(h)'
    BY <1>2 DEF Restart, HoldsNothing, Holds, At, Idle
  <2> QED
    BY <1>2, <2>1 DEF Restart, EffectStep, QuietStep, TypeOK
<1>3. ASSUME NEW h \in Handlers, NEW m \in Messages, Deliver(h, m)
      PROVE  EffectStep
  <2>1. UNCHANGED <<ledger, attempted, landed, closing, now>>
    BY <1>3 DEF Deliver
  <2>2. CASE Return(h, m, TRUE)
    BY <2>1, <2>2, LettingGo, Quiet
  <2>3. ASSUME NEW a, NEW pc, pc \notin Holding,
               Become(h, [Idle EXCEPT !.arrival = a, !.pc = pc])
        PROVE  EffectStep
    <3>1. [Idle EXCEPT !.arrival = a, !.pc = pc].pc \notin Holding
      BY <2>3 DEF Idle
    <3> QED
      BY <2>1, <2>3, <3>1, LettingGo, Quiet
  <2>4. CASE GroupOf[m] \in Groups
    <3> DEFINE pc == IF PolicyOf(m).guards = <<>> THEN "answering"
                     ELSE IF PolicyOf(m).adminExempt THEN "resolving-admins"
                     ELSE "evaluating"
               a == <<m, arrivals[m] + 1>>
    <3>1. Become(h, [Idle EXCEPT !.arrival = a, !.pc = pc])
      BY <1>3, <2>4 DEF Deliver
    <3>2. pc \notin Holding
      BY DEF Holding
    <3> HIDE DEF pc, a
    <3> QED
      BY <2>3, <3>1, <3>2
  <2> QED
    BY <1>3, <2>2, <2>4 DEF Deliver
<1>4. ASSUME NEW h \in Handlers, Step(h)
      PROVE  EffectStep
  BY <1>4, StepIsEffectStep
<1>5. ASSUME NEW e \in Effects, Land(e)
      PROVE  EffectStep
  BY <1>5 DEF Land, EffectStep, LandStep
<1> QED
  BY <1>1, <1>2, <1>3, <1>4, <1>5 DEF Next

-----------------------------------------------------------------------------
(* The inductive invariant.  AtMostOneAttempt, PlannedBeforeSent and       *)
(* LedgerTellsTheTruth are not inductive: that a claim is granted once     *)
(* bounds the attempts only because the one call that was granted it holds *)
(* the row until it has settled it.                                        *)

\* A held row is pending, and of the kind its holder claimed.
HeldRowsPending ==
  \A h \in Handlers, e \in Effects : Holds(h, e) =>
    ledger[e].status = "pending" /\ ledger[e].kind = KindAt(At(h))

OneHolder ==
  \A g, h \in Handlers, e \in Effects : Holds(g, e) /\ Holds(h, e) => g = h

\* What is claimed and not yet started was never started before.
ClaimedIsFresh ==
  \A h \in Handlers, e \in Effects :
    Holds(h, e) /\ At(h) \in Claimed => attempted[e] = 0

LandedOnlyIfAttempted == \A e \in Effects : landed[e] <= attempted[e]

EffectInv ==
  /\ HeldRowsPending /\ OneHolder /\ ClaimedIsFresh /\ LandedOnlyIfAttempted
  /\ AtMostOneAttempt /\ PlannedBeforeSent /\ LedgerTellsTheTruth

\* Which of the two keys of a message a call holds, by its place.
LEMMA HeldKind ==
  ASSUME NEW h, NEW e, Holds(h, e)
  PROVE  /\ At(h) \in {"delete-claimed", "deleting"} =>
              e[1] = "moderation" /\ KindAt(At(h)) = "moderation-delete"
         /\ At(h) \in {"reply-claimed", "sending"} =>
              e[1] = "directory" /\ KindAt(At(h)) = "directory-reply"
         /\ At(h) = "observation-claimed" => KindAt(At(h)) = "moderation-observation"
BY DEF Holds, KindAt, Holding

\* At first nothing is held, recorded or attempted.
LEMMA EffectInit == Init => EffectInv
<1> SUFFICES ASSUME Init PROVE EffectInv
  OBVIOUS
<1>1. \A h \in Handlers, e \in Effects : ~Holds(h, e)
  BY DEF Init, Holds, At, Idle
<1> QED
  BY <1>1 DEF Init, EffectInv, HeldRowsPending, OneHolder, ClaimedIsFresh,
    LandedOnlyIfAttempted, AtMostOneAttempt, PlannedBeforeSent,
    LedgerTellsTheTruth, NoRow

\* A quiet step can only make handlers let go.
LEMMA QuietKeeps == TypeOK /\ EffectInv /\ QuietStep => EffectInv'
<1> SUFFICES ASSUME TypeOK, EffectInv, QuietStep PROVE EffectInv'
  OBVIOUS
<1>1. UNCHANGED <<ledger, attempted, landed>>
  BY DEF QuietStep
<1>2. ASSUME NEW h \in Handlers, NEW e \in Effects, Holds(h, e)'
      PROVE  Holds(h, e) /\ At(h)' = At(h)
  BY <1>2 DEF QuietStep, HoldsNothing, Holds, At, Msg
<1>3. HeldRowsPending'
  BY <1>1, <1>2 DEF EffectInv, HeldRowsPending, KindAt
<1>4. OneHolder'
  BY <1>2 DEF EffectInv, OneHolder
<1>5. ClaimedIsFresh'
  BY <1>1, <1>2 DEF EffectInv, ClaimedIsFresh
<1>6. /\ LandedOnlyIfAttempted' /\ AtMostOneAttempt' /\ PlannedBeforeSent'
      /\ LedgerTellsTheTruth'
  BY <1>1 DEF EffectInv, LandedOnlyIfAttempted, AtMostOneAttempt, PlannedBeforeSent,
    LedgerTellsTheTruth
<1> QED
  BY <1>3, <1>4, <1>5, <1>6 DEF EffectInv

\* The calls other than h's hold what they held.
LEMMA OthersHold ==
  ASSUME NEW h \in Handlers, OthersKeep(h), NEW g \in Handlers, g # h, NEW e
  PROVE  At(g)' = At(g) /\ (Holds(g, e)' <=> Holds(g, e))
<1>1. At(g)' = At(g) /\ Msg(g)' = Msg(g)
  BY DEF OthersKeep, At, Msg
<1> QED
  BY <1>1 DEF Holds

\* A call holds at most one effect.
LEMMA HoldsOne ==
  ASSUME NEW h, NEW e, NEW f
  PROVE  /\ Holds(h, e) /\ Holds(h, f) => e = f
         /\ Holds(h, e)' /\ Holds(h, f)' => e = f
BY DEF Holds

\* A claim finds no row, so nobody holds the effect and nothing was attempted.
LEMMA ClaimKeeps ==
  ASSUME TypeOK, EffectInv, NEW h \in Handlers, NEW e \in Effects, ClaimStep(h, e)
  PROVE  EffectInv'
<1>1. attempted[e] = 0 /\ landed[e] = 0
  <2>1. attempted[e] = 0
    BY DEF ClaimStep, EffectInv, LedgerTellsTheTruth
  <2> QED
    BY <2>1 DEF TypeOK, EffectInv, LandedOnlyIfAttempted
<1>2. \A g \in Handlers : ~Holds(g, e)
  BY DEF ClaimStep, EffectInv, HeldRowsPending
<1>3. /\ ledger'[e].status = "pending" /\ ledger'[e].kind = KindAt(At(h)')
      /\ \A f \in Effects : f # e => ledger'[f] = ledger[f]
  BY DEF ClaimStep, Claim, TypeOK
<1>4. ASSUME NEW g \in Handlers, NEW f \in Effects, Holds(g, f)'
      PROVE  \/ g = h /\ f = e
             \/ g # h /\ f # e /\ Holds(g, f) /\ At(g)' = At(g)
  <2>1. CASE g = h
    BY <1>4, <2>1, HoldsOne DEF ClaimStep
  <2>2. CASE g # h
    BY <1>2, <1>4, <2>2, OthersHold DEF ClaimStep
  <2> QED
    BY <2>1, <2>2
<1>5. HeldRowsPending'
  BY <1>3, <1>4 DEF EffectInv, HeldRowsPending, KindAt
<1>6. OneHolder'
  BY <1>4 DEF EffectInv, OneHolder
<1>7. UNCHANGED <<attempted, landed>>
  BY DEF ClaimStep
<1>8. ClaimedIsFresh'
  BY <1>1, <1>4, <1>7 DEF EffectInv, ClaimedIsFresh
<1>9. LandedOnlyIfAttempted' /\ AtMostOneAttempt'
  BY <1>7 DEF EffectInv, LandedOnlyIfAttempted, AtMostOneAttempt
<1>10. PlannedBeforeSent'
  BY <1>1, <1>3, <1>7 DEF EffectInv, PlannedBeforeSent, TypeOK
<1>11. LedgerTellsTheTruth'
  BY <1>1, <1>3, <1>7 DEF EffectInv, LedgerTellsTheTruth
<1> QED
  BY <1>5, <1>6, <1>8, <1>9, <1>10, <1>11 DEF EffectInv

\* A start finds a fresh row of the right kind.
LEMMA StartKeeps ==
  ASSUME TypeOK, EffectInv, NEW h \in Handlers, NEW e \in Effects, StartStep(h, e)
  PROVE  EffectInv'
<1>1. attempted[e] = 0 /\ landed[e] = 0
  <2>1. attempted[e] = 0
    BY DEF StartStep, EffectInv, ClaimedIsFresh, Claimed
  <2> QED
    BY <2>1 DEF TypeOK, EffectInv, LandedOnlyIfAttempted
<1>2. /\ attempted'[e] \in {0, 1}
      /\ \A f \in Effects : f # e => attempted'[f] = attempted[f]
      /\ UNCHANGED <<ledger, landed>>
  BY <1>1 DEF StartStep, TypeOK
<1>3. ASSUME NEW g \in Handlers, NEW f \in Effects, Holds(g, f)'
      PROVE  /\ Holds(g, f)
             /\ \/ g = h /\ f = e /\ At(g)' \notin Claimed
                \/ g # h /\ f # e /\ At(g)' = At(g)
  <2>1. CASE g = h
    BY <1>3, <2>1, HoldsOne DEF StartStep, Claimed
  <2>2. CASE g # h
    BY <1>3, <2>2, OthersHold DEF StartStep, EffectInv, OneHolder
  <2> QED
    BY <2>1, <2>2
<1>4. KindAt(At(h)') = KindAt(At(h))
  <2>1. /\ At(h) = "delete-claimed" => e[1] = "moderation"
        /\ At(h) = "reply-claimed" => e[1] = "directory"
    BY HeldKind DEF StartStep
  <2>2. /\ At(h)' = "deleting" => e[1] = "moderation"
        /\ At(h)' = "sending" => e[1] = "directory"
    BY DEF StartStep, Holds
  <2> QED
    BY <2>1, <2>2 DEF StartStep, KindAt
<1>5. HeldRowsPending'
  BY <1>2, <1>3, <1>4 DEF EffectInv, HeldRowsPending, KindAt
<1>6. OneHolder'
  BY <1>3 DEF EffectInv, OneHolder
<1>7. ClaimedIsFresh'
  BY <1>2, <1>3 DEF EffectInv, ClaimedIsFresh
<1>8. LandedOnlyIfAttempted' /\ AtMostOneAttempt'
  BY <1>1, <1>2 DEF EffectInv, LandedOnlyIfAttempted, AtMostOneAttempt
<1>9. ledger[e].status = "pending" /\ ledger[e].kind = KindAt(At(h))
  BY DEF StartStep, EffectInv, HeldRowsPending
<1>10. PlannedBeforeSent'
  <2>1. ledger[e].kind = (IF e[1] = "directory" THEN "directory-reply"
                          ELSE "moderation-delete")
    BY <1>9, HeldKind DEF StartStep
  <2> QED
    BY <1>2, <2>1 DEF EffectInv, PlannedBeforeSent
<1>11. LedgerTellsTheTruth'
  BY <1>2, <1>9 DEF EffectInv, LedgerTellsTheTruth
<1> QED
  BY <1>5, <1>6, <1>7, <1>8, <1>10, <1>11 DEF EffectInv

\* A row is settled by its holder, who knows what it says.
LEMMA SettleKeeps ==
  ASSUME TypeOK, EffectInv, NEW h \in Handlers, NEW e \in Effects,
         NEW status \in {"delivered", "unknown", "skipped"}, SettleStep(h, e, status)
  PROVE  EffectInv'
<1>1. /\ ledger[e].status = "pending" /\ ledger[e].kind = KindAt(At(h))
  BY DEF SettleStep, EffectInv, HeldRowsPending
<1>2. /\ ledger'[e].status = status /\ ledger'[e].kind = ledger[e].kind
      /\ \A f \in Effects : f # e => ledger'[f] = ledger[f]
  BY DEF SettleStep, Mark, TypeOK, Row
<1>3. ASSUME NEW g \in Handlers, NEW f \in Effects, Holds(g, f)'
      PROVE  g # h /\ f # e /\ Holds(g, f) /\ At(g)' = At(g)
  <2>1. g # h
    BY <1>3 DEF SettleStep, HoldsNothing
  <2> QED
    BY <1>3, <2>1, OthersHold DEF SettleStep, EffectInv, OneHolder
<1>4. HeldRowsPending'
  BY <1>2, <1>3 DEF EffectInv, HeldRowsPending, KindAt
<1>5. OneHolder'
  BY <1>3 DEF EffectInv, OneHolder
<1>6. UNCHANGED <<attempted, landed>>
  BY DEF SettleStep
<1>7. ClaimedIsFresh'
  BY <1>3, <1>6 DEF EffectInv, ClaimedIsFresh
<1>8. LandedOnlyIfAttempted' /\ AtMostOneAttempt'
  BY <1>6 DEF EffectInv, LandedOnlyIfAttempted, AtMostOneAttempt
<1>9. PlannedBeforeSent'
  BY <1>2, <1>6 DEF EffectInv, PlannedBeforeSent
<1>10. LedgerTellsTheTruth'
  <2>1. status = "skipped" => attempted[e] = 0
    BY DEF SettleStep, EffectInv, ClaimedIsFresh
  <2>2. landed[e] > 0 => landed[e] = 1
    BY DEF TypeOK, EffectInv, LandedOnlyIfAttempted, AtMostOneAttempt
  <2>3. status = "delivered" /\ ledger'[e].kind # "moderation-observation"
          => landed[e] = 1
    BY <1>1, <1>2, <2>2, HeldKind DEF SettleStep
  <2> QED
    BY <1>2, <1>6, <2>1, <2>3 DEF EffectInv, LedgerTellsTheTruth
<1> QED
  BY <1>4, <1>5, <1>7, <1>8, <1>9, <1>10 DEF EffectInv

\* WhatsApp carries out what it was handed, once.
LEMMA LandKeeps ==
  ASSUME TypeOK, EffectInv, NEW e \in Effects, LandStep(e)
  PROVE  EffectInv'
<1>1. attempted[e] = 1 /\ landed[e] = 0
  BY DEF LandStep, TypeOK, EffectInv, AtMostOneAttempt
<1>2. /\ landed'[e] = 1
      /\ \A f \in Effects : f # e => landed'[f] = landed[f]
      /\ UNCHANGED <<call, ledger, attempted>>
  BY <1>1 DEF LandStep, TypeOK
<1>3. HeldRowsPending' /\ OneHolder' /\ ClaimedIsFresh'
  BY <1>2 DEF EffectInv, HeldRowsPending, OneHolder, ClaimedIsFresh, Holds, At, Msg, KindAt
<1>4. LandedOnlyIfAttempted' /\ AtMostOneAttempt' /\ PlannedBeforeSent'
  BY <1>1, <1>2 DEF EffectInv, LandedOnlyIfAttempted, AtMostOneAttempt, PlannedBeforeSent
<1>5. LedgerTellsTheTruth'
  BY <1>1, <1>2 DEF EffectInv, LedgerTellsTheTruth
<1> QED
  BY <1>3, <1>4, <1>5 DEF EffectInv

\* The effect invariant is inductive.
LEMMA EffectNext == TypeOK /\ EffectInv /\ [Next]_vars => EffectInv'
BY NextIsEffectStep, QuietKeeps, ClaimKeeps, StartKeeps, SettleKeeps, LandKeeps
DEF EffectStep

\* The ledger, its holders and the counts agree in every behaviour.
THEOREM EffectInvariant == Spec => []EffectInv
BY TypeCorrect, EffectInit, EffectNext, PTL DEF Spec

\* No effect is handed to WhatsApp twice, whatever is redelivered, interleaved
\* or restarted.
THEOREM AtMostOnce == Spec => []AtMostOneAttempt
<1>1. EffectInv => AtMostOneAttempt
  BY DEF EffectInv
<1> QED
  BY <1>1, EffectInvariant, PTL

\* Whatever WhatsApp was asked to do has a row that plans that very effect.
THEOREM Planned == Spec => []PlannedBeforeSent
<1>1. EffectInv => PlannedBeforeSent
  BY DEF EffectInv
<1> QED
  BY <1>1, EffectInvariant, PTL

\* No row of the ledger says more than what happened.
THEOREM Truthful == Spec => []LedgerTellsTheTruth
<1>1. EffectInv => LedgerTellsTheTruth
  BY DEF EffectInv
<1> QED
  BY <1>1, EffectInvariant, PTL

\* A settled row keeps its kind and status for ever.
THEOREM SettledFinal == Spec => SettledRowsAreFinal
<1> DEFINE Final ==
      \A e \in Effects :
        /\ ledger[e].status # "absent" =>
             ledger'[e].kind = ledger[e].kind /\ ledger'[e].status # "absent"
        /\ ledger[e].status \notin {"absent", "pending"} => ledger'[e] = ledger[e]
<1>1. ASSUME TypeOK, EffectInv, EffectStep
      PROVE  [Final]_ledger
  <2>1. CASE QuietStep
    BY <2>1 DEF QuietStep
  <2>2. ASSUME NEW h \in Handlers, NEW e \in Effects, ClaimStep(h, e)
        PROVE  Final
    BY <1>1, <2>2 DEF ClaimStep, Claim, TypeOK
  <2>3. ASSUME NEW h \in Handlers, NEW e \in Effects, StartStep(h, e)
        PROVE  [Final]_ledger
    BY <2>3 DEF StartStep
  <2>4. ASSUME NEW h \in Handlers, NEW e \in Effects,
               NEW status \in {"delivered", "unknown", "skipped"},
               SettleStep(h, e, status)
        PROVE  Final
    <3>1. ledger[e].status = "pending"
      BY <1>1, <2>4 DEF SettleStep, EffectInv, HeldRowsPending
    <3>2. ledger'[e].status = status /\ ledger'[e].kind = ledger[e].kind
      BY <1>1, <2>4 DEF SettleStep, Mark, TypeOK, Row
    <3>3. \A f \in Effects : f # e => ledger'[f] = ledger[f]
      BY <1>1, <2>4 DEF SettleStep, Mark, TypeOK
    <3> QED
      BY <3>1, <3>2, <3>3
  <2>5. ASSUME NEW e \in Effects, LandStep(e)
        PROVE  [Final]_ledger
    BY <2>5 DEF LandStep
  <2> QED
    BY <1>1, <2>1, <2>2, <2>3, <2>4, <2>5 DEF EffectStep
<1>2. TypeOK /\ EffectInv /\ [Next]_vars => [Final]_ledger
  BY <1>1, NextIsEffectStep
<1> QED
  BY <1>2, TypeCorrect, EffectInvariant, PTL DEF Spec, SettledRowsAreFinal

-----------------------------------------------------------------------------
(* What EveryClaimSettles rests on: no step forgets a claim.               *)

\* A call that holds an effect settles it or goes on holding it, as long as its
\* process lives and its ledger is open.
KeepsClaim(h, e) ==
  Holds(h, e) => \/ Holds(h, e)' \/ ledger'[e].status # "pending"
                 \/ closing \/ lifetime' # lifetime

ClaimsAreKept == [][\A h \in Handlers, e \in Effects : KeepsClaim(h, e)]_vars

\* Until the first restart, a pending row is some call's to settle.
NoOrphans ==
  lifetime = 0 /\ ~closing =>
    \A e \in Effects : ledger[e].status = "pending" => \E h \in Handlers : Holds(h, e)

\* Marking the row of a held effect settles it.
LEMMA MarkSettles ==
  ASSUME TypeOK, NEW e \in Effects, NEW status, status # "pending", Mark(e, status)
  PROVE  ledger'[e].status # "pending"
BY DEF TypeOK, Row, Mark

\* A call that starts an effect keeps it, or marks its row as skipped.
LEMMA StartKeepsClaim ==
  ASSUME TypeOK, NEW h \in Handlers, NEW claimed, claimed # "idle", NEW action,
         NEW awaiting, NEW e \in Effects, Start(h, claimed, action, e, awaiting),
         \/ awaiting = "deleting" /\ e = <<"moderation", Msg(h)>>
         \/ awaiting = "sending" /\ e = <<"directory", Msg(h)>>
  PROVE  Holds(h, e)' \/ ledger'[e].status # "pending"
<1>1. CASE Permitted(safety, action, now)
  <2>1. At(h) # "idle" /\ Continue(h, awaiting)
    BY <1>1 DEF Start
  <2> QED
    BY <2>1, ContinuingHold
<1>2. CASE ~Permitted(safety, action, now)
  BY <1>2, MarkSettles DEF Start
<1> QED
  BY <1>1, <1>2

\* A call's own step keeps its claim.
LEMMA StepKeepsClaim ==
  ASSUME TypeOK, NEW h \in Handlers, Step(h), NEW e \in Effects
  PROVE  KeepsClaim(h, e)
<1> SUFFICES ASSUME Holds(h, e)
             PROVE  Holds(h, e)' \/ ledger'[e].status # "pending" \/ closing
  BY DEF KeepsClaim
<1>1. ResolveAdmins(h) \/ Evaluate(h) \/ Answer(h) \/ Respond(h) => FALSE
  BY DEF ResolveAdmins, Evaluate, Answer, Respond, Holds
<1>2. CASE SettleObservation(h)
  <2>1. e = <<"moderation", Msg(h)>> /\ Mark(e, "delivered")
    BY <1>2 DEF SettleObservation, Holds
  <2> QED
    BY <2>1, MarkSettles
<1>3. CASE StartDelete(h)
  <2>1. e = <<"moderation", Msg(h)>>
    BY <1>3 DEF StartDelete, Start, Holds
  <2>2. Start(h, "delete-claimed", "moderation-delete", e, "deleting")
    BY <1>3, <2>1 DEF StartDelete
  <2> QED
    BY <2>1, <2>2, StartKeepsClaim
<1>4. CASE StartReply(h)
  <2>1. e = <<"directory", Msg(h)>>
    BY <1>4 DEF StartReply, Start, Holds
  <2>2. Start(h, "reply-claimed", "reply", e, "sending")
    BY <1>4, <2>1 DEF StartReply
  <2> QED
    BY <2>1, <2>2, StartKeepsClaim
<1>5. ASSUME NEW awaiting, Succeed(h, awaiting, e) \/ Fail(h, awaiting, e)
      PROVE  closing \/ ledger'[e].status # "pending"
  <2>1. closing \/ Mark(e, "delivered") \/ Mark(e, "unknown")
    BY <1>5 DEF Succeed, Fail, LedgerOpen
  <2> QED
    BY <2>1, MarkSettles
<1>6. CASE FinishDelete(h)
  <2>1. e = <<"moderation", Msg(h)>>
    BY <1>6 DEF FinishDelete, Succeed, Fail, Holds
  <2> QED
    BY <1>5, <1>6, <2>1 DEF FinishDelete
<1>7. CASE FinishReply(h)
  <2>1. e = <<"directory", Msg(h)>>
    BY <1>7 DEF FinishReply, Succeed, Fail, Holds
  <2> QED
    BY <1>5, <1>7, <2>1 DEF FinishReply
<1> QED
  BY <1>1, <1>2, <1>3, <1>4, <1>6, <1>7 DEF Step

\* A call that is left alone holds what it held.
LEMMA LeftAloneHolds ==
  ASSUME NEW h, call'[h] = call[h], NEW e
  PROVE  Holds(h, e)' <=> Holds(h, e)
<1>1. At(h)' = At(h) /\ Msg(h)' = Msg(h)
  BY DEF At, Msg
<1> QED
  BY <1>1 DEF Holds

\* A step of one call leaves the others alone.
LEMMA StepLeavesOthers ==
  ASSUME TypeOK, NEW g \in Handlers, Step(g), NEW h \in Handlers, h # g
  PROVE  call'[h] = call[h]
<1>1. PICK c : call' = [call EXCEPT ![g] = c]
  BY DEF Step, ResolveAdmins, Evaluate, SettleObservation, StartDelete, StartReply, Start,
    FinishDelete, FinishReply, Succeed, Fail, Answer, Respond, Continue, Become, Return, Reject
<1> QED
  BY <1>1 DEF TypeOK, CallsOK

\* Every step keeps every claim.
LEMMA NextKeepsClaims ==
  ASSUME TypeOK, [Next]_vars, NEW h \in Handlers, NEW e \in Effects
  PROVE  KeepsClaim(h, e)
<1>1. CASE call'[h] = call[h]
  BY <1>1, LeftAloneHolds DEF KeepsClaim
<1>2. CASE Tick \/ Teardown \/ UNCHANGED vars \/ \E f \in Effects : Land(f)
  BY <1>1, <1>2 DEF Tick, Teardown, Land, vars, volatileVars
<1>3. CASE Restart
  BY <1>3 DEF Restart, KeepsClaim, TypeOK
<1>4. ASSUME NEW g \in Handlers, NEW m \in Messages, Deliver(g, m)
      PROVE  KeepsClaim(h, e)
  <2>1. CASE g = h
    BY <1>4, <2>1 DEF Deliver, Holds, KeepsClaim
  <2>2. CASE g # h
    BY <1>1, <1>4, <2>2 DEF Deliver, Become, Return, TypeOK, CallsOK
  <2> QED
    BY <2>1, <2>2
<1>5. ASSUME NEW g \in Handlers, Step(g) PROVE KeepsClaim(h, e)
  BY <1>1, <1>5, StepKeepsClaim, StepLeavesOthers
<1> QED
  BY <1>2, <1>3, <1>4, <1>5 DEF Next

\* Whatever handlers interleave and however WhatsApp answers, a call that has
\* claimed a ledger row keeps it or settles it; only a teardown or the end of the
\* process leaves a row pending.
THEOREM NoClaimForgotten == Spec => ClaimsAreKept
<1>1. TypeOK /\ [Next]_vars => \A h \in Handlers, e \in Effects : KeepsClaim(h, e)
  BY NextKeepsClaims
<1> QED
  BY <1>1, TypeCorrect, PTL DEF Spec, ClaimsAreKept

\* A step that leaves a row pending that was not, claims it.
LEMMA PendingIsClaimed ==
  ASSUME TypeOK, EffectStep, NEW e \in Effects,
         ledger'[e].status = "pending", ledger[e].status # "pending"
  PROVE  \E h \in Handlers : Holds(h, e)'
<1>1. ASSUME NEW h \in Handlers, NEW f \in Effects, ClaimStep(h, f)
      PROVE  \E g \in Handlers : Holds(g, e)'
  <2>1. f = e
    BY <1>1 DEF ClaimStep, Claim, TypeOK
  <2> QED
    BY <1>1, <2>1 DEF ClaimStep
<1>2. ASSUME NEW h \in Handlers, NEW f \in Effects,
             NEW status \in {"delivered", "unknown", "skipped"}, SettleStep(h, f, status)
      PROVE  FALSE
  <2>1. status # "pending" /\ Mark(f, status)
    BY <1>2 DEF SettleStep
  <2>2. f # e
    BY <2>1, MarkSettles
  <2> QED
    BY <2>1, <2>2 DEF Mark, TypeOK
<1> QED
  BY <1>1, <1>2 DEF EffectStep, QuietStep, StartStep, LandStep

\* Until the process dies, a pending row is one a call under way will settle: no
\* interleaving, duplicate or failure leaves an orphan in the ledger.
THEOREM NoOrphanRows == Spec => []NoOrphans
<1>1. Init => NoOrphans
  BY DEF Init, NoOrphans, NoRow
<1>2. ASSUME TypeOK, NoOrphans, [Next]_vars
      PROVE  NoOrphans'
  <2> SUFFICES ASSUME lifetime' = 0, ~closing', NEW e \in Effects,
                      ledger'[e].status = "pending"
               PROVE  \E h \in Handlers : Holds(h, e)'
    BY DEF NoOrphans
  <2>1. EffectStep
    BY <1>2, NextIsEffectStep
  <2>2. CASE Restart
    BY <1>2, <2>2 DEF Restart, TypeOK
  <2>3. CASE ~Restart
    <3>1. lifetime' = lifetime /\ (closing => closing')
      <4>1. ASSUME NEW h \in Handlers, Step(h) PROVE UNCHANGED outside
        BY <4>1 DEF Step, ResolveAdmins, Evaluate, SettleObservation, StartDelete, StartReply,
          Start, FinishDelete, FinishReply, Succeed, Fail, Answer, Respond
      <4>2. ASSUME NEW h \in Handlers, NEW m \in Messages, Deliver(h, m)
            PROVE  UNCHANGED <<lifetime, closing>>
        BY <4>2 DEF Deliver
      <4>3. CASE Tick \/ Teardown \/ UNCHANGED vars \/ \E f \in Effects : Land(f)
        BY <4>3 DEF Tick, Teardown, Land, vars
      <4> QED
        BY <1>2, <2>3, <4>1, <4>2, <4>3 DEF Next, outside
    <3>2. CASE ledger[e].status = "pending"
      <4>1. PICK h \in Handlers : Holds(h, e)
        BY <1>2, <3>1, <3>2 DEF NoOrphans
      <4>2. KeepsClaim(h, e)
        BY <1>2, NextKeepsClaims
      <4> QED
        BY <3>1, <4>1, <4>2 DEF KeepsClaim
    <3>3. CASE ledger[e].status # "pending"
      BY <1>2, <2>1, <3>3, PendingIsClaimed
    <3> QED
      BY <3>2, <3>3
  <2> QED
    BY <2>2, <2>3
<1> QED
  BY <1>1, <1>2, TypeCorrect, PTL DEF Spec

-----------------------------------------------------------------------------
(* The runtime implements the effect protocol.                             *)

\* Writing one row is writing one entry of the plan.
LEMMA PlanOfWrite ==
  ASSUME TypeOK, NEW e \in Effects, NEW row, ledger' = [ledger EXCEPT ![e] = row]
  PROVE  PlanOf' = [PlanOf EXCEPT ![e] =
           IF row.status = "delivered" /\ row.kind = "moderation-observation"
           THEN "observed" ELSE row.status]
BY DEF PlanOf, TypeOK

\* The runtime starts where the protocol starts.
LEMMA ProtocolInitLemma == Init => Protocol!ProtocolInit
BY DEF Init, Protocol!ProtocolInit, PlanOf, NoRow

\* Each kind of step is a step of the protocol, or a stutter.
LEMMA ProtocolStep ==
  ASSUME TypeOK, EffectInv, EffectStep
  PROVE  [Protocol!ProtocolNext]_(Protocol!protocolVars)
<1> USE DEF Protocol!protocolVars
<1>1. CASE QuietStep
  BY <1>1 DEF QuietStep, PlanOf
<1>2. ASSUME NEW h \in Handlers, NEW e \in Effects, ClaimStep(h, e)
      PROVE  Protocol!Plan(e)
  <2>1. PlanOf[e] = "absent"
    BY <1>2 DEF ClaimStep, PlanOf
  <2>2. PlanOf' = [PlanOf EXCEPT ![e] = "pending"]
    <3>1. PICK row : /\ row.status = "pending"
                     /\ ledger' = [ledger EXCEPT ![e] = row]
      BY <1>2 DEF ClaimStep, Claim
    <3> QED
      BY <3>1, PlanOfWrite
  <2> QED
    BY <1>2, <2>1, <2>2 DEF ClaimStep, Protocol!Plan, Protocol!Record
<1>3. ASSUME NEW h \in Handlers, NEW e \in Effects, StartStep(h, e)
      PROVE  Protocol!Attempt(e) \/ UNCHANGED Protocol!protocolVars
  <2>1. PlanOf' = PlanOf /\ UNCHANGED landed
    BY <1>3 DEF StartStep, PlanOf
  <2>2. PlanOf[e] = "pending" /\ attempted[e] = 0
    BY <1>3 DEF StartStep, EffectInv, HeldRowsPending, ClaimedIsFresh, Claimed, PlanOf
  <2>3. CASE attempted' = [attempted EXCEPT ![e] = @ + 0]
    <3>1. attempted' = attempted
      BY <2>2, <2>3 DEF TypeOK
    <3> QED
      BY <2>1, <3>1
  <2>4. CASE attempted' = [attempted EXCEPT ![e] = @ + 1]
    <3>1. attempted' = [attempted EXCEPT ![e] = 1]
      BY <2>2, <2>4
    <3> QED
      BY <2>1, <2>2, <3>1 DEF Protocol!Attempt
  <2> QED
    BY <1>3, <2>3, <2>4 DEF StartStep
<1>4. ASSUME NEW h \in Handlers, NEW e \in Effects,
             NEW status \in {"delivered", "unknown", "skipped"},
             SettleStep(h, e, status)
      PROVE  Protocol!Confirm(e) \/ Protocol!Decline(e) \/ Protocol!GiveUp(e)
  <2> DEFINE observed == status = "delivered" /\ At(h) = "observation-claimed"
             to == IF observed THEN "observed" ELSE status
  <2>1. ledger[e].status = "pending" /\ ledger[e].kind = KindAt(At(h))
    BY <1>4 DEF SettleStep, EffectInv, HeldRowsPending
  <2>2. PlanOf[e] = "pending" /\ UNCHANGED <<attempted, landed>>
    BY <1>4, <2>1 DEF SettleStep, PlanOf
  <2>3. PlanOf' = [PlanOf EXCEPT ![e] = to]
    <3> DEFINE r == [ledger[e] EXCEPT !.status = status]
    <3>0. r.status = status /\ r.kind = ledger[e].kind
      BY DEF TypeOK, Row
    <3>1. PICK row : row = r /\ row.status = status /\ row.kind = ledger[e].kind
      BY <3>0
    <3>2. ledger' = [ledger EXCEPT ![e] = row]
      BY <1>4, <3>1 DEF SettleStep, Mark
    <3>3. row.kind = "moderation-observation" <=> At(h) = "observation-claimed"
      BY <2>1, <3>1 DEF KindAt
    <3> QED
      BY <3>1, <3>2, <3>3, PlanOfWrite
  <2>4. CASE observed \/ status = "skipped"
    <3>1. attempted[e] = 0
      BY <1>4, <2>4 DEF SettleStep, EffectInv, ClaimedIsFresh, Claimed
    <3>2. to \in {"skipped", "observed"}
      BY <2>4
    <3> QED
      BY <2>2, <2>3, <3>1, <3>2 DEF Protocol!Decline, Protocol!Record
  <2>5. CASE status = "delivered" /\ ~observed
    <3>1. landed[e] = 1
      BY <1>4, <2>5
      DEF SettleStep, TypeOK, EffectInv, LandedOnlyIfAttempted, AtMostOneAttempt
    <3> QED
      BY <2>2, <2>3, <2>5, <3>1 DEF Protocol!Confirm, Protocol!Record
  <2>6. CASE status = "unknown"
    BY <2>2, <2>3, <2>6 DEF Protocol!GiveUp, Protocol!Record
  <2> QED
    BY <2>4, <2>5, <2>6
<1>5. ASSUME NEW e \in Effects, LandStep(e)
      PROVE  Protocol!Land(e)
  <2>1. attempted[e] = 1 /\ landed[e] = 0
    BY <1>5 DEF LandStep, TypeOK, EffectInv, AtMostOneAttempt
  <2>2. PlanOf' = PlanOf /\ UNCHANGED attempted
    BY <1>5 DEF LandStep, PlanOf
  <2>3. landed' = [landed EXCEPT ![e] = 1]
    BY <1>5, <2>1 DEF LandStep
  <2> QED
    BY <2>1, <2>2, <2>3 DEF Protocol!Land
<1> QED
  BY <1>1, <1>2, <1>3, <1>4, <1>5 DEF EffectStep, Protocol!ProtocolNext

\* Every behaviour of the runtime is one of the effect protocol.
THEOREM Implements == Spec => ImplementsProtocol
<1>1. TypeOK /\ EffectInv /\ [Next]_vars
        => [Protocol!ProtocolNext]_(Protocol!protocolVars)
  BY NextIsEffectStep, ProtocolStep
<1> QED
  BY <1>1, ProtocolInitLemma, TypeCorrect, EffectInvariant, PTL
  DEF Spec, ImplementsProtocol, Protocol!ProtocolSpec

-----------------------------------------------------------------------------
(* Teardown and the moderation locks.                                      *)

\* Once the ledger is closed no call holds a row it has not yet acted on, and
\* what is about to be deleted stays unlocked: time only passes.
LockInv ==
  /\ closing => \A h \in Handlers : At(h) \notin Claimed
  /\ \A h \in Handlers : At(h) = "delete-claimed" => Unlocked(h)

\* No handler has claimed anything at first.
LEMMA LockInit == Init => LockInv
BY DEF Init, LockInv, Claimed, At, Idle

\* A call left alone stays unlocked while time passes.
LEMMA StaysUnlocked ==
  ASSUME TypeOK, NEW h \in Handlers, At(h) # "idle",
         Unlocked(h), call'[h] = call[h], now' >= now, TypeOK'
  PROVE  Unlocked(h)'
<1>1. Msg(h)' = Msg(h)
  BY DEF Msg
<1>2. PolicyOf(Msg(h)).observationEnds \in Nat
  BY RuntimeAssumption, CallUnderWay DEF GroupPolicy, PolicyOf
<1> QED
  BY <1>1, <1>2 DEF Unlocked, CanEnforce, PolicyOf, TypeOK

\* What may have changed of a call that is not the one taking the step.
LEMMA LockKept ==
  ASSUME TypeOK, TypeOK', LockInv, NEW h \in Handlers, call'[h] = call[h], now' >= now
  PROVE  /\ At(h)' = At(h)
         /\ At(h)' = "delete-claimed" => Unlocked(h)'
<1>1. At(h)' = At(h)
  BY DEF At
<1>2. ASSUME At(h)' = "delete-claimed"
      PROVE  Unlocked(h)'
  BY <1>1, <1>2, StaysUnlocked DEF LockInv
<1> QED
  BY <1>1, <1>2

\* A call that has claimed a row holds it.
LEMMA HoldsNothingNext ==
  ASSUME TypeOK', NEW h \in Handlers, HoldsNothing(h)'
  PROVE  At(h)' \notin Claimed
<1>1. SUFFICES ASSUME At(h)' \in Claimed PROVE FALSE
  OBVIOUS
<1>2. Msg(h)' \in Messages
  BY <1>1 DEF TypeOK, CallsOK, HandledArrivals, Arrivals, At, Msg, Claimed
<1>3. PICK m \in Messages : m = Msg(h)'
  BY <1>2
<1>4. <<"moderation", m>> \in Effects /\ <<"directory", m>> \in Effects
  BY DEF Effects
<1>5. \E e \in Effects : Holds(h, e)'
  BY <1>1, <1>3, <1>4 DEF Holds, Claimed
<1> QED
  BY <1>5 DEF HoldsNothing

\* The lock invariant is inductive.
LEMMA LockNext ==
  ASSUME TypeOK, TypeOK', LockInv, EffectStep
  PROVE  LockInv'
<1>1. CASE QuietStep
  <2>1. ASSUME NEW h \in Handlers
        PROVE  /\ closing' => At(h)' \notin Claimed
               /\ At(h)' = "delete-claimed" => Unlocked(h)'
    <3>1. CASE call'[h] = call[h]
      <4>1. EventLoopFree => At(h) \notin Claimed
        BY DEF EventLoopFree, Atomic, Claimed
      <4> QED
        BY <1>1, <3>1, <4>1, LockKept DEF QuietStep, LockInv
    <3>2. CASE HoldsNothing(h)'
      BY <3>2, HoldsNothingNext DEF Claimed
    <3> QED
      BY <1>1, <3>1, <3>2 DEF QuietStep
  <2> QED
    BY <2>1 DEF LockInv
<1>2. ASSUME NEW h \in Handlers, OthersKeep(h), UNCHANGED <<closing, now>>,
             closing => At(h)' \notin Claimed,
             At(h)' = "delete-claimed" => Unlocked(h)'
      PROVE  LockInv'
  <2>1. ASSUME NEW g \in Handlers, g # h
        PROVE  /\ closing' => At(g)' \notin Claimed
               /\ At(g)' = "delete-claimed" => Unlocked(g)'
    <3>1. call'[g] = call[g] /\ now' >= now
      BY <1>2, <2>1 DEF OthersKeep, TypeOK
    <3> QED
      BY <1>2, <3>1, LockKept DEF LockInv
  <2> QED
    BY <1>2, <2>1 DEF LockInv
<1>3. ASSUME NEW h \in Handlers, NEW e \in Effects, ClaimStep(h, e)
      PROVE  LockInv'
  BY <1>2, <1>3 DEF ClaimStep
<1>4. ASSUME NEW h \in Handlers, NEW e \in Effects, StartStep(h, e)
      PROVE  LockInv'
  BY <1>2, <1>4 DEF StartStep, Claimed
<1>5. ASSUME NEW h \in Handlers, NEW e \in Effects, NEW status, SettleStep(h, e, status)
      PROVE  LockInv'
  BY <1>2, <1>5, HoldsNothingNext DEF SettleStep, Claimed
<1>6. ASSUME NEW e \in Effects, LandStep(e)
      PROVE  LockInv'
  <2>1. \A h \in Handlers : call'[h] = call[h] /\ now' >= now /\ closing' = closing
    BY <1>6 DEF LandStep, TypeOK
  <2> QED
    BY <2>1, LockKept DEF LockInv
<1> QED
  BY <1>1, <1>3, <1>4, <1>5, <1>6 DEF EffectStep

\* A claimed deletion is unlocked until it starts, and a closing process holds no
\* claim it has not started.
LEMMA LockInvariant == Spec => []LockInv
<1>1. TypeOK /\ TypeOK' /\ LockInv /\ [Next]_vars => LockInv'
  BY NextIsEffectStep, LockNext
<1> QED
  BY <1>1, LockInit, TypeCorrect, PTL DEF Spec

\* Nothing is written or started once teardown has closed the ledger.
THEOREM TeardownStops == Spec => NothingStartsAfterTeardown
<1> DEFINE Stops == closing => ledger' = ledger /\ attempted' = attempted
<1>1. ASSUME LockInv, EffectStep
      PROVE  [Stops]_<<ledger, attempted, closing>>
  <2>1. SUFFICES ASSUME closing PROVE ledger' = ledger /\ attempted' = attempted
    OBVIOUS
  <2>2. \A h \in Handlers : At(h) \notin Claimed
    BY <1>1, <2>1 DEF LockInv
  <2> QED
    BY <1>1, <2>1, <2>2
    DEF EffectStep, QuietStep, ClaimStep, StartStep, SettleStep, LandStep, Claimed
<1>2. TypeOK /\ LockInv /\ [Next]_vars => [Stops]_<<ledger, attempted, closing>>
  BY <1>1, NextIsEffectStep
<1> QED
  BY <1>2, TypeCorrect, LockInvariant, PTL DEF Spec, NothingStartsAfterTeardown

\* A deletion starts only with every moderation lock open.
THEOREM DeleteUnlocked == Spec => DeleteNeedsEveryLock
<1> DEFINE Locks ==
      \A m \in Messages : attempted'[<<"moderation", m>>] > attempted[<<"moderation", m>>] =>
        /\ CanEnforce(m)
        /\ \E h \in Handlers :
             /\ At(h) = "delete-claimed" /\ Msg(h) = m
             /\ PolicyOf(m).adminExempt => call[h].admin = "member"
<1>1. ASSUME TypeOK, LockInv, EffectStep
      PROVE  [Locks]_attempted
  <2>1. SUFFICES ASSUME NEW m \in Messages,
                        attempted'[<<"moderation", m>>] > attempted[<<"moderation", m>>]
                 PROVE  /\ CanEnforce(m)
                        /\ \E h \in Handlers :
                             /\ At(h) = "delete-claimed" /\ Msg(h) = m
                             /\ PolicyOf(m).adminExempt => call[h].admin = "member"
    OBVIOUS
  <2>2. <<"moderation", m>> \in Effects /\ attempted[<<"moderation", m>>] \in Nat
    BY <1>1 DEF Effects, TypeOK
  <2>3. attempted' # attempted
    BY <2>1, <2>2
  <2>4. PICK h \in Handlers, e \in Effects : StartStep(h, e)
    BY <1>1, <2>3 DEF EffectStep, QuietStep, ClaimStep, SettleStep, LandStep
  <2>5. e = <<"moderation", m>>
    BY <1>1, <2>1, <2>2, <2>4 DEF StartStep, TypeOK
  <2>6. At(h) = "delete-claimed" /\ Msg(h) = m
    BY <2>4, <2>5 DEF StartStep, Holds
  <2> QED
    BY <1>1, <2>6 DEF LockInv, Unlocked
<1>2. TypeOK /\ LockInv /\ [Next]_vars => [Locks]_attempted
  BY <1>1, NextIsEffectStep
<1> QED
  BY <1>2, TypeCorrect, LockInvariant, PTL DEF Spec, DeleteNeedsEveryLock

-----------------------------------------------------------------------------
(* The account's budget and circuit.  As far as the controller goes, every *)
(* step is one of four kinds.                                              *)

IdleStep == UNCHANGED accountVars /\ now' >= now

RebootStep ==
  safety' = FreshSafety /\ permits' = NoPermits /\ quietUntil' = 0 /\ UNCHANGED now

ReserveStep(a, e) ==
  /\ safety' = AfterReserve(safety, a, now, e)
  /\ permits' = (IF Permitted(safety, a, now)
                 THEN [permits EXCEPT ![a] = @ \union {[effect |-> e, at |-> now]}]
                 ELSE permits)
  /\ UNCHANGED <<quietUntil, now>>

ReportStep ==
  /\ \/ safety' = AfterSuccess(safety) /\ UNCHANGED quietUntil
     \/ /\ \/ safety' = AfterFailure(safety, now)
           \/ safety' = AfterFailure(AfterSuccess(safety), now)
        /\ NoteCircuit
  /\ UNCHANGED <<permits, now>>

AccountStep ==
  \/ IdleStep \/ RebootStep \/ ReportStep
  \/ \E a \in AccountActions, e \in Effects : ReserveStep(a, e)

\* Every step of the system is one of those four.
LEMMA NextIsAccountStep == TypeOK /\ [Next]_vars => AccountStep
<1> SUFFICES ASSUME TypeOK, [Next]_vars PROVE AccountStep
  OBVIOUS
<1> USE DEF outside, volatileVars, accountVars
<1>1. ASSUME UNCHANGED <<accountVars, now>>
      PROVE  AccountStep
  BY <1>1 DEF AccountStep, IdleStep, TypeOK
<1>2. CASE Tick
  BY <1>2 DEF Tick, AccountStep, IdleStep, TypeOK
<1>3. CASE Restart
  BY <1>3 DEF Restart, AccountStep, RebootStep
<1>4. CASE Teardown \/ UNCHANGED vars \/ \E e \in Effects : Land(e)
  BY <1>1, <1>4 DEF Teardown, vars, Land
<1>5. CASE \E h \in Handlers, m \in Messages : Deliver(h, m)
  BY <1>1, <1>5 DEF Deliver
<1>6. ASSUME NEW h \in Handlers, NEW e \in Effects, NEW a \in AccountActions,
             NEW claimed, NEW awaiting, Start(h, claimed, a, e, awaiting)
      PROVE  AccountStep
  <2>1. ReserveStep(a, e)
    BY <1>6 DEF Start, ReserveStep
  <2> QED
    BY <2>1 DEF AccountStep
<1>7. ASSUME NEW h, NEW e, NEW awaiting, Succeed(h, awaiting, e) \/ Fail(h, awaiting, e)
      PROVE  AccountStep
  <2>1. ReportStep
    BY <1>7 DEF Succeed, Fail, ReportStep
  <2> QED
    BY <2>1 DEF AccountStep
<1>8. ASSUME NEW h \in Handlers, Step(h)
      PROVE  AccountStep
  <2>1. CASE StartDelete(h) \/ StartReply(h)
    <3>1. At(h) # "idle"
      BY <2>1 DEF StartDelete, StartReply, Start
    <3> QED
      BY <1>6, <2>1, <3>1, CallUnderWay DEF StartDelete, StartReply, AccountActions
  <2>2. CASE FinishDelete(h) \/ FinishReply(h)
    BY <1>7, <2>2 DEF FinishDelete, FinishReply
  <2>3. CASE \/ ResolveAdmins(h) \/ Evaluate(h) \/ SettleObservation(h)
             \/ Answer(h) \/ Respond(h)
    BY <1>1, <2>3 DEF ResolveAdmins, Evaluate, SettleObservation, Answer, Respond
  <2> QED
    BY <1>8, <2>1, <2>2, <2>3 DEF Step
<1> QED
  BY <1>2, <1>3, <1>4, <1>5, <1>8 DEF Next

\* The silence a failure streak asked for is what the open circuit keeps.
CircuitInv == quietUntil > now => safety.circuitOpenUntil = quietUntil

\* reserve() closes the circuit only once its time has passed.
LEMMA CircuitReserve ==
  ASSUME NEW E, NEW s \in SafetyState(E), NEW a \in AccountActions, NEW t \in Nat, NEW e
  PROVE  AfterReserve(s, a, t, e).circuitOpenUntil =
           IF CircuitOpen(s, t) THEN s.circuitOpenUntil ELSE 0
BY DEF AfterReserve, CloseExpired, CircuitOpen, SafetyState

\* A success leaves the circuit alone; a failure opens it at the threshold.
LEMMA CircuitReport ==
  ASSUME NEW E, NEW s \in SafetyState(E), NEW t \in Nat
  PROVE  /\ AfterSuccess(s).circuitOpenUntil = s.circuitOpenUntil
         /\ AfterFailure(s, t).circuitOpenUntil =
              IF AfterFailure(s, t).consecutiveFailures >= FailureThreshold
              THEN t + Cooldown ELSE s.circuitOpenUntil
BY DEF AfterSuccess, AfterFailure, SafetyState

\* The circuit invariant is inductive.
LEMMA CircuitNext ==
  ASSUME TypeOK, TypeOK', CircuitInv, AccountStep
  PROVE  CircuitInv'
<1>1. CASE IdleStep
  BY <1>1 DEF IdleStep, accountVars, CircuitInv, TypeOK
<1>2. CASE RebootStep
  BY <1>2 DEF RebootStep, CircuitInv, TypeOK
<1>3. CASE ReportStep
  <2>1. AfterSuccess(safety) \in SafetyState(Effects)
    BY ReportType DEF TypeOK
  <2>2. CASE safety' = AfterSuccess(safety) /\ UNCHANGED quietUntil
    BY <1>3, <2>2, CircuitReport DEF ReportStep, CircuitInv, TypeOK
  <2>3. ASSUME NEW s \in SafetyState(Effects),
               s.circuitOpenUntil = safety.circuitOpenUntil,
               safety' = AfterFailure(s, now), NoteCircuit
        PROVE  CircuitInv'
    BY <1>3, <2>3, CircuitReport DEF ReportStep, NoteCircuit, CircuitInv, TypeOK
  <2> QED
    BY <1>3, <2>1, <2>2, <2>3, CircuitReport DEF ReportStep, TypeOK
<1>4. ASSUME NEW a \in AccountActions, NEW e \in Effects, ReserveStep(a, e)
      PROVE  CircuitInv'
  BY <1>4, CircuitReserve DEF ReserveStep, CircuitOpen, CircuitInv, TypeOK
<1> QED
  BY <1>1, <1>2, <1>3, <1>4 DEF AccountStep

\* The circuit stays open for as long as the last opening asked for.
LEMMA CircuitInvariant == Spec => []CircuitInv
<1>1. Init => CircuitInv
  BY DEF Init, CircuitInv
<1>2. TypeOK /\ TypeOK' /\ CircuitInv /\ [Next]_vars => CircuitInv'
  BY NextIsAccountStep, CircuitNext
<1> QED
  BY <1>1, <1>2, TypeCorrect, PTL DEF Spec

\* Nothing is permitted before the cooldown after a failure streak has passed.
THEOREM CircuitBlocks == Spec => OpenCircuitBlocks
<1> DEFINE Blocks ==
      \A a \in AccountActions : permits'[a] \subseteq permits[a] \/ now >= quietUntil
<1>1. ASSUME TypeOK, CircuitInv, AccountStep
      PROVE  [Blocks]_permits
  <2>1. CASE IdleStep \/ ReportStep
    BY <2>1 DEF IdleStep, ReportStep, accountVars
  <2>2. CASE RebootStep
    BY <2>2 DEF RebootStep, NoPermits
  <2>3. ASSUME NEW a \in AccountActions, NEW e \in Effects, ReserveStep(a, e)
        PROVE  [Blocks]_permits
    <3>1. CASE Permitted(safety, a, now)
      BY <1>1, <3>1 DEF Permitted, CircuitOpen, CircuitInv, TypeOK, SafetyState
    <3>2. CASE ~Permitted(safety, a, now)
      BY <2>3, <3>2 DEF ReserveStep
    <3> QED
      BY <3>1, <3>2
  <2> QED
    BY <1>1, <2>1, <2>2, <2>3 DEF AccountStep
<1>2. TypeOK /\ CircuitInv /\ [Next]_vars => [Blocks]_permits
  BY <1>1, NextIsAccountStep
<1> QED
  BY <1>2, TypeCorrect, CircuitInvariant, PTL DEF Spec, OpenCircuitBlocks

\* The permits of action a in the window that ends at t.
InWindow(a, t) == {p \in permits[a] : t - Window[a] < p.at /\ p.at <= t}

\* BudgetHolds is not inductive: the controller forgets what has left its
\* window, and must still know every permit that has not.
BudgetInv ==
  \A a \in AccountActions :
    /\ IsFiniteSet(safety.attempts[a]) /\ IsFiniteSet(permits[a])
    /\ \A p \in permits[a] :
         p.at <= now /\ (p.at > now - Window[a] => p \in safety.attempts[a])
    /\ \A t \in 0..now : Cardinality(InWindow(a, t)) <= Limit[a]

\* What reserve() remembers: the recent reservations, and the one it permits;
\* an open circuit leaves the list alone.
LEMMA ReserveAttempts ==
  ASSUME NEW s \in SafetyState(Effects), NEW a \in AccountActions, NEW t \in Nat,
         NEW e \in Effects
  PROVE  AfterReserve(s, a, t, e).attempts =
           IF CircuitOpen(s, t) THEN s.attempts
           ELSE [s.attempts EXCEPT ![a] =
                   Recent(s, a, t) \union
                     (IF Permitted(s, a, t) THEN {[effect |-> e, at |-> t]} ELSE {})]
<1> DEFINE R == Recent(s, a, t) \union
                  (IF Permitted(s, a, t) THEN {[effect |-> e, at |-> t]} ELSE {})
<1>1. CASE CircuitOpen(s, t)
  BY <1>1 DEF AfterReserve
<1>2. CASE ~CircuitOpen(s, t)
  <2>1. CloseExpired(s) \in SafetyState(Effects) /\ CloseExpired(s).attempts = s.attempts
    BY DEF CloseExpired, SafetyState
  <2>2. AfterReserve(s, a, t, e) = [CloseExpired(s) EXCEPT !.attempts[a] = R]
    BY <1>2 DEF AfterReserve
  <2> HIDE DEF R
  <2>3. AfterReserve(s, a, t, e).attempts = [s.attempts EXCEPT ![a] = R]
    BY <2>1, <2>2 DEF SafetyState
  <2> QED
    BY <1>2, <2>3 DEF R
<1> QED
  BY <1>1, <1>2

\* At first there are no reservations and no permits.
LEMMA BudgetInit == Init => BudgetInv
<1> SUFFICES ASSUME Init, NEW a \in AccountActions
             PROVE  /\ safety.attempts[a] = {} /\ permits[a] = {}
                    /\ \A t \in 0..now : Cardinality(InWindow(a, t)) <= Limit[a]
  BY FS_EmptySet DEF BudgetInv
<1>1. safety.attempts[a] = {} /\ permits[a] = {}
  BY DEF Init, FreshSafety, NoPermits
<1>2. \A t : InWindow(a, t) = {}
  BY <1>1 DEF InWindow
<1> QED
  BY <1>1, <1>2, FS_EmptySet, SafetyAssumption

\* As time passes permits only leave the window.
LEMMA BudgetIdle ==
  ASSUME TypeOK, TypeOK', BudgetInv, NEW a \in AccountActions, now' >= now,
         permits'[a] = permits[a], safety'.attempts[a] = safety.attempts[a]
  PROVE  /\ IsFiniteSet(safety'.attempts[a]) /\ IsFiniteSet(permits'[a])
         /\ \A p \in permits'[a] :
              p.at <= now' /\ (p.at > now' - Window[a] => p \in safety'.attempts[a])
         /\ \A t \in 0..now' : Cardinality(InWindow(a, t)') <= Limit[a]
<1>1. /\ now \in Nat /\ now' \in Nat /\ Window[a] \in Nat /\ Limit[a] \in Nat
      /\ \A p \in permits[a] : p.at \in Nat
  BY SafetyAssumption DEF TypeOK
<1>2. IsFiniteSet(safety'.attempts[a]) /\ IsFiniteSet(permits'[a])
  BY DEF BudgetInv
<1>3. \A p \in permits'[a] :
        p.at <= now' /\ (p.at > now' - Window[a] => p \in safety'.attempts[a])
  BY <1>1 DEF BudgetInv
<1>4. ASSUME NEW t \in 0..now'
      PROVE  Cardinality(InWindow(a, t)') <= Limit[a]
  <2>1. InWindow(a, t)' = InWindow(a, t)
    BY DEF InWindow
  <2>2. CASE t <= now
    BY <1>1, <2>1, <2>2 DEF BudgetInv
  <2>3. CASE t > now
    <3>1. InWindow(a, t) \subseteq InWindow(a, now)
      BY <1>1, <2>3 DEF InWindow, BudgetInv
    <3>2. IsFiniteSet(InWindow(a, now)) /\ InWindow(a, now) \subseteq permits[a]
      BY FS_Subset DEF InWindow, BudgetInv
    <3>3. Cardinality(InWindow(a, now)) <= Limit[a]
      BY <1>1 DEF BudgetInv
    <3>4. /\ Cardinality(InWindow(a, t)) <= Cardinality(InWindow(a, now))
          /\ Cardinality(InWindow(a, t)) \in Nat /\ Cardinality(InWindow(a, now)) \in Nat
      BY <3>1, <3>2, FS_Subset, FS_CardinalityType
    <3> QED
      BY <1>1, <2>1, <3>3, <3>4
  <2> QED
    BY <1>1, <2>2, <2>3
<1> QED
  BY <1>2, <1>3, <1>4

\* The window that ends now gains the permit; reserve() counted what it holds.
LEMMA BudgetReserve ==
  ASSUME TypeOK, TypeOK', BudgetInv, NEW a \in AccountActions, NEW e \in Effects,
         ReserveStep(a, e)
  PROVE  /\ IsFiniteSet(safety'.attempts[a]) /\ IsFiniteSet(permits'[a])
         /\ \A p \in permits'[a] :
              p.at <= now' /\ (p.at > now' - Window[a] => p \in safety'.attempts[a])
         /\ \A t \in 0..now' : Cardinality(InWindow(a, t)') <= Limit[a]
<1> DEFINE r == [effect |-> e, at |-> now]
           K == Recent(safety, a, now)
<1>1. /\ now \in Nat /\ now' = now /\ Window[a] \in Nat /\ Limit[a] \in Nat
      /\ \A p \in permits[a] : p.at \in Nat
      /\ r.at = now
  BY SafetyAssumption DEF TypeOK, ReserveStep
<1>2. IsFiniteSet(K) /\ IsFiniteSet(permits[a])
  <2>1. K \subseteq safety.attempts[a]
    BY DEF Recent
  <2> QED
    BY <2>1, FS_Subset DEF BudgetInv
<1>3. \A p \in permits[a] : p.at > now - Window[a] => p \in K
  BY DEF BudgetInv, Recent
<1>4. safety'.attempts[a] =
        IF CircuitOpen(safety, now) THEN safety.attempts[a]
        ELSE K \union (IF Permitted(safety, a, now) THEN {r} ELSE {})
  <2>1. safety \in SafetyState(Effects) /\ safety' = AfterReserve(safety, a, now, e)
    BY DEF TypeOK, ReserveStep
  <2>2. safety'.attempts =
          IF CircuitOpen(safety, now) THEN safety.attempts
          ELSE [safety.attempts EXCEPT ![a] =
                  K \union (IF Permitted(safety, a, now) THEN {r} ELSE {})]
    BY <1>1, <2>1, ReserveAttempts
  <2> QED
    BY <2>1, <2>2 DEF SafetyState
<1>5. CASE CircuitOpen(safety, now)
  <2>1. safety'.attempts[a] = safety.attempts[a] /\ permits' = permits
    BY <1>5, <1>4 DEF ReserveStep, Permitted
  <2> QED
    BY <1>1, <2>1, BudgetIdle
<1>6. CASE ~CircuitOpen(safety, now) /\ ~Permitted(safety, a, now)
  <2>1. safety'.attempts[a] = K /\ permits' = permits
    BY <1>6, <1>4 DEF ReserveStep
  <2>2. \A t : InWindow(a, t)' = InWindow(a, t)
    BY <2>1 DEF InWindow
  <2> QED
    BY <1>1, <1>2, <1>3, <2>1, <2>2 DEF BudgetInv
<1>7. CASE Permitted(safety, a, now)
  <2>1. safety'.attempts[a] = K \union {r}
    BY <1>7, <1>4 DEF Permitted
  <2>2. permits'[a] = permits[a] \union {r}
    BY <1>7 DEF ReserveStep, TypeOK
  <2> HIDE DEF r, K
  <2>3. IsFiniteSet(safety'.attempts[a]) /\ IsFiniteSet(permits'[a])
    BY <1>2, <2>1, <2>2, FS_AddElement
  <2>4. \A p \in permits'[a] :
          p.at <= now' /\ (p.at > now' - Window[a] => p \in safety'.attempts[a])
    BY <1>1, <1>3, <2>1, <2>2 DEF BudgetInv
  <2>5. ASSUME NEW t \in 0..now'
        PROVE  Cardinality(InWindow(a, t)') <= Limit[a]
    <3>1. CASE t < now
      <4>1. InWindow(a, t)' = InWindow(a, t)
        BY <1>1, <2>2, <3>1 DEF InWindow
      <4> QED
        BY <1>1, <3>1, <4>1 DEF BudgetInv
    <3>2. CASE t = now
      <4>1. InWindow(a, t)' \subseteq K \union {r}
        BY <1>3, <2>2, <3>2 DEF InWindow
      <4>2. Cardinality(K) < Limit[a]
        BY <1>7 DEF Permitted, K
      <4>3. /\ IsFiniteSet(K \union {r})
            /\ Cardinality(K \union {r}) <= Cardinality(K) + 1
            /\ Cardinality(K) \in Nat
        <5>1. Cardinality(K) \in Nat
          BY <1>2, FS_CardinalityType
        <5>2. /\ IsFiniteSet(K \union {r})
              /\ Cardinality(K \union {r})
                   = IF r \in K THEN Cardinality(K) ELSE Cardinality(K) + 1
          BY <1>2, FS_AddElement
        <5> QED
          BY <5>1, <5>2
      <4>4. /\ Cardinality(InWindow(a, t)') <= Cardinality(K \union {r})
            /\ Cardinality(InWindow(a, t)') \in Nat
            /\ Cardinality(K \union {r}) \in Nat
        BY <4>1, <4>3, FS_Subset, FS_CardinalityType
      <4> QED
        BY <1>1, <4>2, <4>3, <4>4
    <3> QED
      BY <1>1, <3>1, <3>2
  <2> QED
    BY <2>3, <2>4, <2>5
<1> QED
  BY <1>5, <1>6, <1>7

\* The budget invariant is inductive.
LEMMA BudgetNext ==
  ASSUME TypeOK, TypeOK', BudgetInv, AccountStep
  PROVE  BudgetInv'
<1> SUFFICES ASSUME NEW a \in AccountActions
             PROVE  /\ IsFiniteSet(safety'.attempts[a]) /\ IsFiniteSet(permits'[a])
                    /\ \A p \in permits'[a] :
                         p.at <= now' /\ (p.at > now' - Window[a]
                                            => p \in safety'.attempts[a])
                    /\ \A t \in 0..now' : Cardinality(InWindow(a, t)') <= Limit[a]
  BY DEF BudgetInv
<1>1. CASE IdleStep
  BY <1>1, BudgetIdle DEF IdleStep, accountVars
<1>2. CASE ReportStep
  <2>1. safety'.attempts = safety.attempts
    BY <1>2 DEF ReportStep, AfterSuccess, AfterFailure, TypeOK, SafetyState
  <2> QED
    BY <1>2, <2>1, BudgetIdle DEF ReportStep, TypeOK
<1>3. CASE RebootStep
  <2>1. safety'.attempts[a] = {} /\ permits'[a] = {}
    BY <1>3 DEF RebootStep, FreshSafety, NoPermits
  <2>2. \A t : InWindow(a, t)' = {}
    BY <2>1 DEF InWindow
  <2> QED
    BY <2>1, <2>2, FS_EmptySet, SafetyAssumption
<1>4. ASSUME NEW b \in AccountActions, NEW e \in Effects, ReserveStep(b, e), b # a
      PROVE  /\ permits'[a] = permits[a] /\ safety'.attempts[a] = safety.attempts[a]
             /\ now' >= now
  <2>1. safety \in SafetyState(Effects) /\ safety' = AfterReserve(safety, b, now, e)
    BY <1>4 DEF TypeOK, ReserveStep
  <2>2. now \in Nat
    BY DEF TypeOK
  <2>3. safety'.attempts =
          IF CircuitOpen(safety, now) THEN safety.attempts
          ELSE [safety.attempts EXCEPT ![b] =
                  Recent(safety, b, now) \union
                    (IF Permitted(safety, b, now)
                     THEN {[effect |-> e, at |-> now]} ELSE {})]
    BY <2>1, <2>2, ReserveAttempts
  <2>4. safety'.attempts[a] = safety.attempts[a]
    BY <1>4, <2>1, <2>3 DEF SafetyState
  <2> QED
    BY <1>4, <2>2, <2>4 DEF ReserveStep, TypeOK
<1> QED
  BY <1>1, <1>2, <1>3, <1>4, BudgetIdle, BudgetReserve DEF AccountStep

\* In no window does one process start more of an action than its budget.
THEOREM BudgetKept == Spec => []BudgetHolds
<1>1. TypeOK /\ TypeOK' /\ BudgetInv /\ [Next]_vars => BudgetInv'
  BY NextIsAccountStep, BudgetNext
<1>2. BudgetInv => BudgetHolds
  BY DEF BudgetInv, BudgetHolds, InWindow
<1> QED
  BY <1>1, <1>2, BudgetInit, TypeCorrect, PTL DEF Spec

-----------------------------------------------------------------------------
(* Slow mode.  The engine forgets a message as soon as a younger one of its *)
(* sender is judged, so what it has counted is no record of whom it let     *)
(* through.  What survives is that whoever it let through unrecorded is     *)
(* covered: by its own timestamp, or by a younger one that took its place.  *)

RecordedIn(rows, m) == rows[<<"moderation", m>>].status # "absent"

CoveredIn(tm, m) ==
  \E a \in SameKey(tm, "slow-mode", m) : SentAt[m] <= SentAt[a[1]]

SlowModeInv ==
  /\ \A id \in RateGuards : IsFiniteSet(times[id])
  /\ \A m \in judged : HasGuard(m, "slow-mode") => RecordedIn(ledger, m) \/ CoveredIn(times, m)

\* The guard a message is judged by is on its group's list.
LEMMA GuardFound ==
  ASSUME NEW m, NEW id, HasGuard(m, id)
  PROVE  \E i \in DOMAIN PolicyOf(m).guards :
           GuardOf(m, id) = PolicyOf(m).guards[i] /\ GuardOf(m, id).id = id
BY DEF HasGuard, GuardOf

\* The window of a guard on a list is a number.
LEMMA WindowType ==
  ASSUME NEW guards \in Seq(Guard), NEW i \in DOMAIN guards
  PROVE  guards[i].window \in Nat
<1>1. guards[i] \in Guard
  OBVIOUS
<1> QED
  BY <1>1 DEF Guard

\* What evaluating a message leaves of a rate guard's list: nothing that was
\* not there but the arrival itself; of other senders everything; of its own
\* what is recent; and the arrival, if the walk got as far as the guard.
LEMMA TimesAfterIs ==
  ASSUME NEW tm \in MessageTimes, NEW guards, NEW m, NEW a, NEW id \in RateGuards
  PROVE  LET after == TimesAfter(tm, guards, m, a)[id] IN
         /\ after \subseteq tm[id] \union {a}
         /\ \/ after = tm[id]
            \/ /\ a \in after
               /\ \E i \in DOMAIN guards : guards[i].id = id /\
                    \A b \in tm[id] : b \in SameKey(tm, id, m) =>
                      b \in after \/ ~(SentAt[b[1]] > SentAt[m] - guards[i].window)
               /\ \A b \in tm[id] : b \notin SameKey(tm, id, m) => b \in after
         /\ (\E i \in Walked(tm, guards, m) : guards[i].id = id) => a \in after
<1> DEFINE walked == {i \in Walked(tm, guards, m) : guards[i].id = id}
           j == CHOOSE i \in walked : TRUE
           after == TimesAfter(tm, guards, m, a)[id]
<1>1. CASE walked = {}
  <2>1. after = tm[id]
    BY <1>1 DEF TimesAfter
  <2> QED
    BY <1>1, <2>1
<1>2. CASE walked # {}
  <2>1. j \in DOMAIN guards /\ guards[j].id = id
    BY <1>2 DEF Walked
  <2>2. after = (tm[id] \ SameKey(tm, id, m))
                  \union RecentArrivals(tm, guards[j], m) \union {a}
    BY <1>2 DEF TimesAfter
  <2>3. RecentArrivals(tm, guards[j], m)
          = {b \in SameKey(tm, id, m) : SentAt[b[1]] > SentAt[m] - guards[j].window}
    BY <2>1 DEF RecentArrivals
  <2>4. SameKey(tm, id, m) \subseteq tm[id]
    BY DEF SameKey
  <2> HIDE DEF walked, j, after
  <2>5. after \subseteq tm[id] \union {a} /\ a \in after
    BY <2>2, <2>3, <2>4
  <2>6. \A b \in tm[id] : b \in SameKey(tm, id, m) =>
          b \in after \/ ~(SentAt[b[1]] > SentAt[m] - guards[j].window)
    BY <2>2, <2>3
  <2>7. \A b \in tm[id] : b \notin SameKey(tm, id, m) => b \in after
    BY <2>2
  <2> QED
    BY <2>1, <2>5, <2>6, <2>7 DEF after
<1> QED
  BY <1>1, <1>2

\* A covered message stays covered, whoever is judged next: what a judgement
\* forgets is older than the message judged.
LEMMA StaysCovered ==
  ASSUME NEW tm \in MessageTimes, NEW guards \in Seq(Guard), NEW m \in Messages,
         NEW a \in Arrivals, a[1] = m, NEW n \in Messages, CoveredIn(tm, n)
  PROVE  CoveredIn(TimesAfter(tm, guards, m, a), n)
<1> DEFINE after == TimesAfter(tm, guards, m, a)
<1>1. PICK b \in SameKey(tm, "slow-mode", n) : SentAt[n] <= SentAt[b[1]]
  BY DEF CoveredIn
<1>2. /\ b \in tm["slow-mode"] /\ b[1] \in Messages
      /\ GroupOf[b[1]] = GroupOf[n] /\ SenderOf[b[1]] = SenderOf[n]
  BY <1>1 DEF SameKey, MessageTimes, RateGuards, Arrivals
<1>3. SentAt[b[1]] \in Nat /\ SentAt[m] \in Nat /\ SentAt[n] \in Nat
  BY <1>2, RuntimeAssumption
<1>4. "slow-mode" \in RateGuards
  BY DEF RateGuards
<1> HIDE DEF after
<1>5. CASE b \in after["slow-mode"]
  BY <1>1, <1>2, <1>5 DEF CoveredIn, SameKey, after
<1>6. CASE b \notin after["slow-mode"]
  <2>1. /\ a \in after["slow-mode"]
        /\ b \in SameKey(tm, "slow-mode", m)
        /\ \E i \in DOMAIN guards : ~(SentAt[b[1]] > SentAt[m] - guards[i].window)
    BY <1>2, <1>4, <1>6, TimesAfterIs DEF after
  <2>2. SentAt[b[1]] <= SentAt[m]
    <3>1. \A i \in DOMAIN guards : guards[i].window \in Nat
      BY WindowType
    <3> QED
      BY <1>3, <2>1, <3>1
  <2>3. GroupOf[m] = GroupOf[n] /\ SenderOf[m] = SenderOf[n]
    BY <1>2, <2>1 DEF SameKey
  <2>4. SentAt[n] <= SentAt[m]
    BY <1>1, <1>3, <2>2
  <2> QED
    BY <2>1, <2>3, <2>4 DEF CoveredIn, SameKey, after
<1> QED
  BY <1>5, <1>6

\* A row once written is never absent again.
LEMMA RowsStay ==
  ASSUME TypeOK, [Next]_vars, NEW e \in Effects, ledger[e].status # "absent"
  PROVE  ledger'[e].status # "absent"
<1>1. EffectStep
  BY NextIsEffectStep
<1>2. ledger \in [Effects -> Row]
  BY DEF TypeOK
<1>3. ASSUME NEW h, NEW f, ClaimStep(h, f)
      PROVE  ledger'[e].status # "absent"
  BY <1>2, <1>3 DEF ClaimStep, Claim
<1>4. ASSUME NEW h, NEW f, NEW status \in {"delivered", "unknown", "skipped"},
             SettleStep(h, f, status)
      PROVE  ledger'[e].status # "absent"
  BY <1>2, <1>4 DEF SettleStep, Mark, Row
<1> QED
  BY <1>1, <1>3, <1>4 DEF EffectStep, QuietStep, StartStep, LandStep

\* The engine changes when a message is judged, and when the process dies.
LEMMA EngineStep ==
  ASSUME [Next]_vars
  PROVE  \/ UNCHANGED engineVars
         \/ times' = NoMessageTimes /\ judged' = {}
         \/ \E h \in Handlers : Evaluate(h)
<1> USE DEF volatileVars
<1>1. CASE Tick \/ Teardown \/ UNCHANGED vars \/ \E e \in Effects : Land(e)
  BY <1>1 DEF Tick, Teardown, Land, vars, engineVars
<1>2. CASE Restart
  BY <1>2 DEF Restart
<1>3. CASE \E h \in Handlers, m \in Messages : Deliver(h, m)
  BY <1>3 DEF Deliver
<1>4. ASSUME NEW h \in Handlers, Step(h), ~Evaluate(h)
      PROVE  UNCHANGED engineVars
  <2>1. CASE StartDelete(h) \/ StartReply(h)
    BY <2>1 DEF StartDelete, StartReply, Start
  <2>2. CASE FinishDelete(h) \/ FinishReply(h)
    BY <2>2 DEF FinishDelete, FinishReply, Succeed, Fail
  <2>3. CASE ResolveAdmins(h) \/ SettleObservation(h) \/ Answer(h) \/ Respond(h)
    BY <2>3 DEF ResolveAdmins, SettleObservation, Answer, Respond
  <2> QED
    BY <1>4, <2>1, <2>2, <2>3 DEF Step
<1> QED
  BY <1>1, <1>2, <1>3, <1>4 DEF Next

\* A judgement that finds a broken guard leaves the message on record.
LEMMA BrokenIsRecorded ==
  ASSUME TypeOK, NEW h \in Handlers, Evaluate(h), LedgerOpen,
         ~Exempted(PolicyOf(Msg(h)).adminExempt, call[h].admin),
         AnyBroken(times, PolicyOf(Msg(h)).guards, Msg(h))
  PROVE  RecordedIn(ledger', Msg(h))
<1> USE DEF RecordedIn
<1> DEFINE m == Msg(h)
           p == PolicyOf(m)
           e == <<"moderation", m>>
           verdict == Decision(times, p.guards, m, p.adminExempt, call[h].admin,
                               CanEnforce(m))
<1>1. verdict # "allow"
  BY DEF Decision
<1>2. e \in Effects
  BY CallUnderWay DEF Evaluate
<1>3. ledger \in [Effects -> Row]
  BY DEF TypeOK
<1>4. CASE Claimable(e)
  <2>1. \E kind : Claim(e, kind)
    BY <1>1, <1>4 DEF Evaluate
  <2> QED
    BY <1>2, <1>3, <2>1 DEF Claim
<1>5. CASE ~Claimable(e)
  <2>1. UNCHANGED ledger
    BY <1>1, <1>5 DEF Evaluate
  <2> QED
    BY <1>5, <2>1 DEF Claimable
<1> QED
  BY <1>4, <1>5

\* What a judgement does to the engine, with its database open or closed.
LEMMA JudgementIs ==
  ASSUME NEW h \in Handlers, Evaluate(h)
  PROVE  \/ UNCHANGED engineVars
         \/ /\ ~Exempted(PolicyOf(Msg(h)).adminExempt, call[h].admin)
            /\ times' = TimesAfter(times, PolicyOf(Msg(h)).guards, Msg(h), call[h].arrival)
            /\ judged' = judged \/ (LedgerOpen /\ judged' = judged \union {Msg(h)})
<1>1. CASE Exempted(PolicyOf(Msg(h)).adminExempt, call[h].admin)
  BY <1>1 DEF Evaluate
<1>2. CASE ~Exempted(PolicyOf(Msg(h)).adminExempt, call[h].admin)
  <2>1. /\ times' = TimesAfter(times, PolicyOf(Msg(h)).guards, Msg(h), call[h].arrival)
        /\ judged' = IF LedgerOpen THEN judged \union {Msg(h)} ELSE judged
    BY <1>2, Zenon DEF Evaluate
  <2> QED
    BY <1>2, <2>1
<1> QED
  BY <1>1, <1>2

\* The guards of the group of a call under way are a list of guards.
LEMMA GuardsType ==
  ASSUME NEW m, GroupOf[m] \in Groups
  PROVE  PolicyOf(m).guards \in Seq(Guard)
BY RuntimeAssumption DEF PolicyOf, GroupPolicy

\* A message that is judged is put on record, or it is counted.
LEMMA JudgedIsCovered ==
  ASSUME TypeOK, NEW h \in Handlers, Evaluate(h), LedgerOpen,
         ~Exempted(PolicyOf(Msg(h)).adminExempt, call[h].admin),
         HasGuard(Msg(h), "slow-mode")
  PROVE  \/ RecordedIn(ledger', Msg(h))
         \/ CoveredIn(TimesAfter(times, PolicyOf(Msg(h)).guards, Msg(h),
                                 call[h].arrival), Msg(h))
<1> DEFINE m == Msg(h)
           guards == PolicyOf(m).guards
           a == call[h].arrival
           after == TimesAfter(times, guards, m, a)
<1>1. CASE AnyBroken(times, guards, m)
  BY <1>1, BrokenIsRecorded
<1>2. CASE ~AnyBroken(times, guards, m)
  <2>1. PICK i \in DOMAIN guards : guards[i].id = "slow-mode"
    BY GuardFound
  <2>2. i \in Walked(times, guards, m)
    BY <1>2, <2>1 DEF AnyBroken, Walked
  <2>3. times \in MessageTimes /\ "slow-mode" \in RateGuards
    BY DEF TypeOK, RateGuards
  <2> HIDE DEF guards
  <2>4. a \in after["slow-mode"]
    BY <2>1, <2>2, <2>3, TimesAfterIs
  <2>5. a[1] = m
    BY DEF Msg
  <2>6. SentAt[m] <= SentAt[m]
    <3>1. m \in Messages
      BY CallUnderWay DEF Evaluate
    <3> QED
      BY <3>1, RuntimeAssumption
  <2> HIDE DEF after, a, m
  <2>7. CoveredIn(after, m)
    BY <2>4, <2>5, <2>6 DEF CoveredIn, SameKey
  <2> QED
    BY <2>7 DEF after, a, m, guards
<1> QED
  BY <1>1, <1>2

\* Whoever is judged within the interval of a message let through is caught:
\* what covers the one is recent to the other.
LEMMA NeighbourIsCaught ==
  ASSUME TypeOK, SlowModeInv, NEW h \in Handlers, Evaluate(h), LedgerOpen,
         ~Exempted(PolicyOf(Msg(h)).adminExempt, call[h].admin),
         HasGuard(Msg(h), "slow-mode"),
         NEW n \in judged, n \in Messages, CoveredIn(times, n),
         GroupOf[n] = GroupOf[Msg(h)], SenderOf[n] = SenderOf[Msg(h)],
         SentAt[Msg(h)] - SentAt[n] < GuardOf(Msg(h), "slow-mode").window
  PROVE  RecordedIn(ledger', Msg(h))
<1> DEFINE m == Msg(h)
           g == GuardOf(m, "slow-mode")
<1>1. PICK i \in DOMAIN PolicyOf(m).guards : g = PolicyOf(m).guards[i] /\ g.id = "slow-mode"
  BY GuardFound
<1>2. m \in Messages /\ GroupOf[m] \in Groups
  BY CallUnderWay DEF Evaluate
<1>3. g.window \in Nat
  BY <1>1, <1>2, GuardsType, WindowType
<1>4. PICK b \in SameKey(times, "slow-mode", n) : SentAt[n] <= SentAt[b[1]]
  BY DEF CoveredIn
<1>5. b \in times["slow-mode"] /\ b[1] \in Messages
  BY <1>4 DEF SameKey, TypeOK, MessageTimes, RateGuards, Arrivals
<1>6. SentAt[b[1]] > SentAt[m] - g.window
  <2>1. SentAt[m] - SentAt[n] < g.window
    OBVIOUS
  <2>2. SentAt[b[1]] \in Nat /\ SentAt[m] \in Nat /\ SentAt[n] \in Nat
    BY <1>2, <1>5, RuntimeAssumption
  <2> HIDE DEF m, g
  <2> QED
    BY <1>3, <1>4, <2>1, <2>2
<1> HIDE DEF g
<1>7. b \in RecentArrivals(times, g, m)
  BY <1>1, <1>4, <1>6 DEF RecentArrivals, SameKey
<1>8. Cardinality(RecentArrivals(times, g, m)) >= 1
  <2>1. RecentArrivals(times, g, m) \subseteq times["slow-mode"]
    BY <1>1 DEF RecentArrivals, SameKey
  <2>2. IsFiniteSet(RecentArrivals(times, g, m))
    BY <2>1, FS_Subset DEF SlowModeInv, RateGuards
  <2>3. /\ Cardinality(RecentArrivals(times, g, m)) \in Nat
        /\ Cardinality(RecentArrivals(times, g, m)) # 0
    BY <1>7, <2>2, FS_CardinalityType, FS_EmptySet
  <2> QED
    BY <2>3
<1>9. GuardBroken(times, g, m)
  BY <1>1, <1>8 DEF GuardBroken, Allowance, RateGuards
<1>10. AnyBroken(times, PolicyOf(m).guards, m)
  BY <1>1, <1>9 DEF AnyBroken
<1> QED
  BY <1>10, BrokenIsRecorded

\* Nobody is judged before the first step.
LEMMA SlowModeInit == Init => SlowModeInv /\ SlowModeHolds
BY FS_EmptySet DEF Init, SlowModeInv, SlowModeHolds, NoMessageTimes

\* Evaluating an arrival keeps the lists finite.
LEMMA TimesStayFinite ==
  ASSUME NEW tm \in MessageTimes, NEW guards, NEW m, NEW a, NEW id \in RateGuards,
         IsFiniteSet(tm[id])
  PROVE  IsFiniteSet(TimesAfter(tm, guards, m, a)[id])
<1>1. TimesAfter(tm, guards, m, a)[id] \subseteq tm[id] \union {a}
  BY TimesAfterIs
<1>2. IsFiniteSet(tm[id] \union {a})
  BY FS_AddElement
<1> QED
  BY <1>1, <1>2, FS_Subset

\* Judging a message keeps every judged message recorded or covered.
LEMMA JudgementCovers ==
  ASSUME TypeOK, SlowModeInv, [Next]_vars, NEW h \in Handlers, Evaluate(h)
  PROVE  SlowModeInv'
<1> DEFINE m == Msg(h)
           guards == PolicyOf(m).guards
           a == call[h].arrival
           after == TimesAfter(times, guards, m, a)
<1>1. /\ m \in Messages /\ GroupOf[m] \in Groups /\ a \in Arrivals /\ a[1] = m
      /\ guards \in Seq(Guard)
  BY CallUnderWay, GuardsType DEF Evaluate, HandledArrivals, Msg
<1>2. times \in MessageTimes /\ judged \subseteq Messages
  BY DEF TypeOK
<1>3. ASSUME NEW n \in judged, HasGuard(n, "slow-mode")
      PROVE  RecordedIn(ledger', n) \/ CoveredIn(times, n)
  <2>1. <<"moderation", n>> \in Effects
    BY <1>2, <1>3 DEF Effects
  <2> QED
    BY <1>3, <2>1, RowsStay DEF SlowModeInv, RecordedIn
<1>4. CASE UNCHANGED engineVars
  BY <1>3, <1>4 DEF SlowModeInv, engineVars
<1>5. CASE /\ ~Exempted(PolicyOf(m).adminExempt, call[h].admin)
           /\ times' = after
           /\ judged' = judged \/ (LedgerOpen /\ judged' = judged \union {m})
  <2>1. ASSUME NEW id \in RateGuards
        PROVE  IsFiniteSet(times'[id])
    BY <1>2, <1>5, TimesStayFinite DEF SlowModeInv
  <2>2. ASSUME NEW n \in judged, HasGuard(n, "slow-mode")
        PROVE  RecordedIn(ledger', n) \/ CoveredIn(times', n)
    <3>1. CASE CoveredIn(times, n)
      <4> HIDE DEF m, guards, a
      <4> QED
        BY <1>1, <1>2, <1>5, <2>2, <3>1, StaysCovered
    <3> QED
      BY <1>3, <2>2, <3>1
  <2>3. ASSUME LedgerOpen, HasGuard(m, "slow-mode")
        PROVE  RecordedIn(ledger', m) \/ CoveredIn(times', m)
    BY <1>5, <2>3, JudgedIsCovered
  <2> HIDE DEF m, guards, a, after
  <2> QED
    BY <1>5, <2>1, <2>2, <2>3 DEF SlowModeInv
<1> QED
  BY <1>4, <1>5, JudgementIs

\* Of a judged message and a neighbour judged with it, one is on record.
LEMMA JudgementHolds ==
  ASSUME TypeOK, SlowModeInv, SlowModeHolds, [Next]_vars,
         NEW h \in Handlers, Evaluate(h)
  PROVE  SlowModeHolds'
<1> DEFINE x == Msg(h)
           w(m) == GuardOf(m, "slow-mode").window
<1>1. x \in Messages /\ GroupOf[x] \in Groups
  BY CallUnderWay DEF Evaluate
<1>2. judged \subseteq Messages
  BY DEF TypeOK
<1>3. \/ judged' = judged
      \/ /\ judged' = judged \union {x} /\ LedgerOpen
         /\ ~Exempted(PolicyOf(x).adminExempt, call[h].admin)
  BY JudgementIs DEF engineVars
<1>4. ASSUME NEW n \in judged, RecordedIn(ledger, n)
      PROVE  RecordedIn(ledger', n)
  <2>1. <<"moderation", n>> \in Effects
    BY <1>2 DEF Effects
  <2> QED
    BY <1>4, <2>1, RowsStay DEF RecordedIn
<1>5. ASSUME NEW m \in judged', HasGuard(m, "slow-mode"),
             NEW n \in Neighbours(judged', m, w(m)),
             ~RecordedIn(ledger', m), ~RecordedIn(ledger', n)
      PROVE  FALSE
  <2>1. /\ n \in judged' /\ n # m
        /\ GroupOf[n] = GroupOf[m] /\ SenderOf[n] = SenderOf[m]
        /\ SentAt[n] - SentAt[m] < w(m) /\ SentAt[m] - SentAt[n] < w(m)
    BY <1>5 DEF Neighbours
  <2>2. HasGuard(n, "slow-mode") /\ w(n) = w(m)
    BY <1>5, <2>1 DEF HasGuard, GuardOf, PolicyOf
  <2> HIDE DEF w
  <2>3. CASE m \in judged /\ n \in judged
    <3>1. n \in Neighbours(judged, m, w(m))
      BY <2>1, <2>3 DEF Neighbours
    <3>2. RecordedIn(ledger, m) \/ RecordedIn(ledger, n)
      BY <1>5, <2>3, <3>1 DEF SlowModeHolds, RecordedIn, w
    <3> QED
      BY <1>4, <1>5, <2>3, <3>2
  <2>4. ASSUME NEW k \in judged, HasGuard(k, "slow-mode"), ~RecordedIn(ledger', k),
               ~RecordedIn(ledger', x), HasGuard(x, "slow-mode"), x \in judged',
               x \notin judged,
               GroupOf[k] = GroupOf[x], SenderOf[k] = SenderOf[x],
               SentAt[x] - SentAt[k] < w(x)
        PROVE  FALSE
    <3>1. CoveredIn(times, k)
      BY <1>4, <2>4 DEF SlowModeInv
    <3> QED
      BY <1>2, <1>3, <2>4, <3>1, NeighbourIsCaught DEF w
  <2> QED
    BY <1>3, <1>5, <2>1, <2>2, <2>3, <2>4
<1> QED
  BY <1>5 DEF SlowModeHolds, RecordedIn

\* Every step keeps slow mode, and what it rests on.
LEMMA SlowModeNext ==
  TypeOK /\ SlowModeInv /\ SlowModeHolds /\ [Next]_vars => SlowModeInv' /\ SlowModeHolds'
<1> SUFFICES ASSUME TypeOK, SlowModeInv, SlowModeHolds, [Next]_vars
             PROVE  SlowModeInv' /\ SlowModeHolds'
  OBVIOUS
<1>1. ASSUME NEW n \in judged, RecordedIn(ledger, n)
      PROVE  RecordedIn(ledger', n)
  <2>1. <<"moderation", n>> \in Effects
    BY DEF Effects, TypeOK
  <2> QED
    BY <1>1, <2>1, RowsStay DEF RecordedIn
<1>2. CASE UNCHANGED engineVars
  <2>1. SlowModeInv'
    BY <1>1, <1>2 DEF SlowModeInv, engineVars
  <2>2. SlowModeHolds'
    BY <1>1, <1>2 DEF SlowModeHolds, engineVars, RecordedIn, Neighbours
  <2> QED
    BY <2>1, <2>2
<1>3. CASE times' = NoMessageTimes /\ judged' = {}
  BY <1>3, FS_EmptySet DEF SlowModeInv, SlowModeHolds, NoMessageTimes
<1>4. CASE \E h \in Handlers : Evaluate(h)
  BY <1>4, JudgementCovers, JudgementHolds
<1> QED
  BY <1>2, <1>3, <1>4, EngineStep

\* The inductive invariant of slow mode.
THEOREM SlowModeInvariant == Spec => []SlowModeInv
BY SlowModeInit, SlowModeNext, TypeCorrect, PTL DEF Spec

\* Of two messages one member sends within the interval at most one goes
\* unrecorded, whatever order the batches judge them in (moderation.ts).
THEOREM SlowModeKept == Spec => []SlowModeHolds
BY SlowModeInit, SlowModeNext, TypeCorrect, PTL DEF Spec

-----------------------------------------------------------------------------
(* no-spam.  Here the number matters, so each message let through has to be *)
(* on the list itself, or to be too old for whoever is the newest.          *)

SameSender(n, m) == GroupOf[n] = GroupOf[m] /\ SenderOf[n] = SenderOf[m]

SpamWindow(m) == GuardOf(m, "no-spam").window

CountedIn(tm, n) == \E a \in SameKey(tm, "no-spam", n) : a[1] = n

TooOldFor(n, k) == SameSender(n, k) /\ SentAt[n] <= SentAt[k] - SpamWindow(n)

\* Once its database is closed the engine still forgets, but judges nobody.
NoSpamInv ==
  closing \/ \A n \in judged : HasGuard(n, "no-spam") =>
    \/ RecordedIn(ledger, n)
    \/ CountedIn(times, n)
    \/ \E k \in judged : TooOldFor(n, k)

\* Whom the engine let through in the interval before m was sent.
LetThrough(m) ==
  {n \in judged : SameSender(n, m) /\ SentAt[n] > SentAt[m] - SpamWindow(m)
                  /\ ~RecordedIn(ledger, n)}

Newest(m) == \A n \in judged : SameSender(n, m) => SentAt[n] <= SentAt[m]

\* A message that is its sender's newest is let through only if fewer than max
\* of the interval before it were.
NoSpamHolds ==
  [][\A m \in judged' \ judged :
       HasGuard(m, "no-spam") /\ ~RecordedIn(ledger', m) /\ Newest(m)
         => Cardinality(LetThrough(m)) < GuardOf(m, "no-spam").max]_judged

\* A guard listed once is the one its group's members are judged by.
LEMMA GuardIsOne ==
  ASSUME NEW m, GroupOf[m] \in Groups, NEW i \in DOMAIN PolicyOf(m).guards
  PROVE  GuardOf(m, PolicyOf(m).guards[i].id) = PolicyOf(m).guards[i]
<1>1. HasGuard(m, PolicyOf(m).guards[i].id)
  BY DEF HasGuard
<1>2. PICK j \in DOMAIN PolicyOf(m).guards :
        /\ GuardOf(m, PolicyOf(m).guards[i].id) = PolicyOf(m).guards[j]
        /\ PolicyOf(m).guards[j].id = PolicyOf(m).guards[i].id
  BY <1>1, GuardFound
<1> QED
  BY <1>2, GuardsListedOnce DEF PolicyOf

\* A message on the list stays on it, unless it is too old for the next one.
LEMMA StaysCounted ==
  ASSUME NEW tm \in MessageTimes, NEW m \in Messages, GroupOf[m] \in Groups,
         NEW a \in Arrivals, NEW n \in Messages, CountedIn(tm, n)
  PROVE  CountedIn(TimesAfter(tm, PolicyOf(m).guards, m, a), n) \/ TooOldFor(n, m)
<1> DEFINE guards == PolicyOf(m).guards
           after == TimesAfter(tm, guards, m, a)
<1>1. PICK b \in SameKey(tm, "no-spam", n) : b[1] = n
  BY DEF CountedIn
<1>2. b \in tm["no-spam"] /\ "no-spam" \in RateGuards
  BY <1>1 DEF SameKey, RateGuards
<1> HIDE DEF after, guards
<1>3. CASE b \in after["no-spam"]
  BY <1>1, <1>3 DEF CountedIn, SameKey, after, guards
<1>4. CASE b \notin after["no-spam"]
  <2>1. PICK i \in DOMAIN guards :
          /\ guards[i].id = "no-spam" /\ b \in SameKey(tm, "no-spam", m)
          /\ ~(SentAt[n] > SentAt[m] - guards[i].window)
    BY <1>1, <1>2, <1>4, TimesAfterIs DEF after
  <2>2. SameSender(n, m)
    BY <1>1, <2>1 DEF SameKey, SameSender
  <2>3. GuardOf(n, "no-spam") = guards[i]
    <3>1. GuardOf(m, "no-spam") = guards[i]
      BY <2>1, GuardIsOne DEF guards
    <3>2. GuardOf(n, "no-spam") = GuardOf(m, "no-spam")
      BY <2>2 DEF SameSender, GuardOf, PolicyOf
    <3> QED
      BY <3>1, <3>2
  <2>4. guards[i].window \in Nat /\ SentAt[n] \in Nat /\ SentAt[m] \in Nat
    BY GuardsType, WindowType, RuntimeAssumption DEF guards
  <2>5. SentAt[n] <= SentAt[m] - SpamWindow(n)
    BY <2>1, <2>3, <2>4 DEF SpamWindow
  <2> QED
    BY <2>2, <2>5 DEF TooOldFor
<1> QED
  BY <1>3, <1>4 DEF after, guards

\* A message that is judged is put on record, or it is on the list.
LEMMA JudgedIsCounted ==
  ASSUME TypeOK, NEW h \in Handlers, Evaluate(h), LedgerOpen,
         ~Exempted(PolicyOf(Msg(h)).adminExempt, call[h].admin),
         HasGuard(Msg(h), "no-spam")
  PROVE  \/ RecordedIn(ledger', Msg(h))
         \/ CountedIn(TimesAfter(times, PolicyOf(Msg(h)).guards, Msg(h),
                                 call[h].arrival), Msg(h))
<1> DEFINE m == Msg(h)
           guards == PolicyOf(m).guards
           a == call[h].arrival
           after == TimesAfter(times, guards, m, a)
<1>1. CASE AnyBroken(times, guards, m)
  BY <1>1, BrokenIsRecorded
<1>2. CASE ~AnyBroken(times, guards, m)
  <2>1. PICK i \in DOMAIN guards : guards[i].id = "no-spam"
    BY GuardFound
  <2>2. i \in Walked(times, guards, m)
    BY <1>2, <2>1 DEF AnyBroken, Walked
  <2>3. times \in MessageTimes /\ "no-spam" \in RateGuards
    BY DEF TypeOK, RateGuards
  <2> HIDE DEF guards
  <2>4. a \in after["no-spam"]
    BY <2>1, <2>2, <2>3, TimesAfterIs
  <2>5. a[1] = m
    BY DEF Msg
  <2> HIDE DEF after, a, m
  <2>6. CountedIn(after, m)
    BY <2>4, <2>5 DEF CountedIn, SameKey
  <2> QED
    BY <2>6 DEF after, a, m, guards
<1> QED
  BY <1>1, <1>2

\* Judging a message keeps the list honest about those let through.
LEMMA JudgementCounts ==
  ASSUME TypeOK, NoSpamInv, [Next]_vars, NEW h \in Handlers, Evaluate(h)
  PROVE  NoSpamInv'
<1> DEFINE m == Msg(h)
           guards == PolicyOf(m).guards
           a == call[h].arrival
           after == TimesAfter(times, guards, m, a)
<1>1. /\ m \in Messages /\ GroupOf[m] \in Groups /\ a \in Arrivals
      /\ closing' = closing
  BY CallUnderWay DEF Evaluate, HandledArrivals, outside
<1>2. times \in MessageTimes /\ judged \subseteq Messages
  BY DEF TypeOK
<1>3. CASE closing
  BY <1>1, <1>3 DEF NoSpamInv
<1>4. ASSUME ~closing, NEW n \in judged, HasGuard(n, "no-spam")
      PROVE  \/ RecordedIn(ledger', n) \/ CountedIn(times, n)
             \/ \E k \in judged : TooOldFor(n, k)
  <2>1. <<"moderation", n>> \in Effects
    BY <1>2, <1>4 DEF Effects
  <2> QED
    BY <1>4, <2>1, RowsStay DEF NoSpamInv, RecordedIn
<1>5. CASE ~closing /\ UNCHANGED engineVars
  BY <1>4, <1>5 DEF NoSpamInv, engineVars
<1>6. CASE /\ ~closing
           /\ ~Exempted(PolicyOf(m).adminExempt, call[h].admin)
           /\ times' = after
           /\ judged' = judged \union {m}
  <2>1. ASSUME NEW n \in judged, HasGuard(n, "no-spam")
        PROVE  \/ RecordedIn(ledger', n) \/ CountedIn(times', n)
               \/ \E k \in judged' : TooOldFor(n, k)
    <3>1. CASE CountedIn(times, n)
      <4>1. CountedIn(after, n) \/ TooOldFor(n, m)
        <5> HIDE DEF m, a
        <5> QED
          BY <1>1, <1>2, <2>1, <3>1, StaysCounted
      <4> HIDE DEF m, after
      <4> QED
        BY <1>6, <4>1
    <3> HIDE DEF m, after
    <3> QED
      BY <1>4, <1>6, <2>1, <3>1
  <2>2. ASSUME HasGuard(m, "no-spam")
        PROVE  RecordedIn(ledger', m) \/ CountedIn(times', m)
    BY <1>6, <2>2, JudgedIsCounted DEF LedgerOpen
  <2> HIDE DEF m, guards, a, after
  <2> QED
    BY <1>6, <2>1, <2>2 DEF NoSpamInv
<1>7. \/ UNCHANGED engineVars
      \/ /\ ~Exempted(PolicyOf(m).adminExempt, call[h].admin)
         /\ times' = after
         /\ judged' = IF LedgerOpen THEN judged \union {m} ELSE judged
  BY Zenon DEF Evaluate
<1> QED
  BY <1>3, <1>5, <1>6, <1>7 DEF LedgerOpen

\* What is counted of the interval before the newest message includes whom the
\* engine let through in it.
LEMMA LetThroughCounted ==
  ASSUME TypeOK, SlowModeInv, NoSpamInv, ~closing, NEW m \in Messages,
         HasGuard(m, "no-spam"), Newest(m)
  PROVE  LET recent == RecentArrivals(times, GuardOf(m, "no-spam"), m) IN
         /\ Cardinality(LetThrough(m)) \in Nat /\ Cardinality(recent) \in Nat
         /\ Cardinality(LetThrough(m)) <= Cardinality(recent)
<1> DEFINE g == GuardOf(m, "no-spam")
           recent == RecentArrivals(times, g, m)
           who == {a[1] : a \in recent}
<1>1. g.id = "no-spam" /\ GroupOf[m] \in Groups /\ g.window \in Nat
  <2>1. GroupOf[m] \in Groups
    BY DEF HasGuard
  <2> QED
    BY <2>1, GuardFound, GuardsType, WindowType
<1>2. IsFiniteSet(recent)
  <2>1. recent \subseteq times["no-spam"]
    BY <1>1 DEF RecentArrivals, SameKey
  <2> QED
    BY <2>1, FS_Subset DEF SlowModeInv, RateGuards
<1>3. LetThrough(m) \subseteq who
  <2> SUFFICES ASSUME NEW n \in judged, SameSender(n, m),
                      SentAt[n] > SentAt[m] - SpamWindow(m), ~RecordedIn(ledger, n)
               PROVE  n \in who
    BY DEF LetThrough
  <2>1. n \in Messages /\ HasGuard(n, "no-spam") /\ SpamWindow(n) = g.window
    BY DEF TypeOK, SameSender, HasGuard, GuardOf, PolicyOf, SpamWindow
  <2>2. ASSUME NEW k \in judged, TooOldFor(n, k) PROVE FALSE
    <3>1. SentAt[k] <= SentAt[m] /\ SentAt[n] <= SentAt[k] - g.window
      BY <2>1, <2>2 DEF Newest, TooOldFor, SameSender
    <3>2. SentAt[k] \in Nat /\ SentAt[m] \in Nat /\ SentAt[n] \in Nat
      BY <2>1, RuntimeAssumption DEF TypeOK
    <3>3. SentAt[n] > SentAt[m] - g.window
      BY DEF SpamWindow
    <3> HIDE DEF g
    <3> QED
      BY <1>1, <3>1, <3>2, <3>3
  <2>3. PICK a \in SameKey(times, "no-spam", n) : a[1] = n
    BY <2>1, <2>2 DEF NoSpamInv, CountedIn
  <2>4. a \in SameKey(times, "no-spam", m)
    BY <2>3 DEF SameKey, SameSender
  <2>5. a \in recent
    BY <1>1, <2>3, <2>4 DEF RecentArrivals, SpamWindow
  <2> QED
    BY <2>3, <2>5
<1>4. IsFiniteSet(who) /\ Cardinality(who) <= Cardinality(recent)
  <2> DEFINE f == [a \in recent |-> a[1]]
  <2>1. f \in Surjection(recent, who)
    BY DEF Surjection
  <2> HIDE DEF f, recent, who
  <2> QED
    BY <1>2, <2>1, FS_Surjection
<1>5. IsFiniteSet(LetThrough(m)) /\ Cardinality(LetThrough(m)) <= Cardinality(who)
  <2> HIDE DEF who
  <2> QED
    BY <1>3, <1>4, FS_Subset
<1> HIDE DEF recent, who
<1>6. /\ Cardinality(LetThrough(m)) \in Nat /\ Cardinality(who) \in Nat
      /\ Cardinality(recent) \in Nat
  BY <1>2, <1>4, <1>5, FS_CardinalityType
<1> QED
  BY <1>4, <1>5, <1>6 DEF recent, g

\* The newest message finds room, or a guard is broken and it is recorded.
LEMMA NewestFindsRoom ==
  ASSUME TypeOK, SlowModeInv, NoSpamInv, NEW h \in Handlers, Evaluate(h),
         judged' # judged, HasGuard(Msg(h), "no-spam"),
         ~RecordedIn(ledger', Msg(h)), Newest(Msg(h))
  PROVE  Cardinality(LetThrough(Msg(h))) < GuardOf(Msg(h), "no-spam").max
<1> DEFINE m == Msg(h)
           g == GuardOf(m, "no-spam")
           recent == RecentArrivals(times, g, m)
<1>1. LedgerOpen /\ ~Exempted(PolicyOf(m).adminExempt, call[h].admin)
  BY JudgementIs DEF engineVars
<1>2. ~AnyBroken(times, PolicyOf(m).guards, m)
  BY <1>1, BrokenIsRecorded
<1>3. PICK i \in DOMAIN PolicyOf(m).guards : g = PolicyOf(m).guards[i] /\ g.id = "no-spam"
  BY GuardFound
<1>4. g.max \in Nat
  <2>1. PolicyOf(m).guards \in Seq(Guard)
    BY GuardsType DEF HasGuard
  <2>2. PolicyOf(m).guards[i] \in Guard
    BY <2>1
  <2> QED
    BY <1>3, <2>2 DEF Guard
<1>5. ~(Cardinality(recent) >= g.max)
  BY <1>2, <1>3 DEF AnyBroken, GuardBroken, Allowance, RateGuards
<1>6. /\ Cardinality(LetThrough(m)) \in Nat /\ Cardinality(recent) \in Nat
      /\ Cardinality(LetThrough(m)) <= Cardinality(recent)
  <2>1. m \in Messages /\ ~closing
    BY <1>1, CallUnderWay DEF Evaluate, LedgerOpen
  <2> HIDE DEF m
  <2> QED
    BY <2>1, LetThroughCounted DEF m
<1> HIDE DEF m, g, recent
<1> QED
  BY <1>4, <1>5, <1>6 DEF m, g

\* Only a restart opens the database again.
LEMMA ClosingSteps ==
  ASSUME [Next]_vars, closing, ~closing'
  PROVE  times' = NoMessageTimes /\ judged' = {}
<1>1. CASE Restart
  BY <1>1 DEF Restart
<1>2. CASE Tick \/ UNCHANGED vars \/ \E e \in Effects : Land(e)
  BY <1>2 DEF Tick, Land, vars
<1>3. CASE Teardown \/ \E h \in Handlers, m \in Messages : Deliver(h, m)
  BY <1>3 DEF Teardown, Deliver
<1>4. ASSUME NEW h \in Handlers, Step(h)
      PROVE  closing' = closing
  <2> USE DEF outside
  <2>1. CASE StartDelete(h) \/ StartReply(h)
    BY <2>1 DEF StartDelete, StartReply, Start
  <2>2. CASE FinishDelete(h) \/ FinishReply(h)
    BY <2>2 DEF FinishDelete, FinishReply, Succeed, Fail
  <2>3. CASE \/ ResolveAdmins(h) \/ SettleObservation(h) \/ Answer(h) \/ Respond(h)
             \/ Evaluate(h)
    BY <2>3 DEF ResolveAdmins, SettleObservation, Answer, Respond, Evaluate
  <2> QED
    BY <1>4, <2>1, <2>2, <2>3 DEF Step
<1> QED
  BY <1>1, <1>2, <1>3, <1>4 DEF Next

\* Every step keeps the list honest.
LEMMA NoSpamNext ==
  ASSUME TypeOK, NoSpamInv, [Next]_vars
  PROVE  NoSpamInv'
<1>1. CASE times' = NoMessageTimes /\ judged' = {}
  BY <1>1 DEF NoSpamInv
<1>2. CASE UNCHANGED engineVars
  <2>1. CASE closing => closing'
    <3>1. ASSUME NEW n \in judged, RecordedIn(ledger, n)
          PROVE  RecordedIn(ledger', n)
      <4>1. <<"moderation", n>> \in Effects
        BY DEF Effects, TypeOK
      <4> QED
        BY <3>1, <4>1, RowsStay DEF RecordedIn
    <3> QED
      BY <1>2, <2>1, <3>1 DEF NoSpamInv, engineVars
  <2>2. CASE ~(closing => closing')
    BY <1>1, <2>2, ClosingSteps
  <2> QED
    BY <2>1, <2>2
<1>3. CASE \E h \in Handlers : Evaluate(h)
  BY <1>3, JudgementCounts
<1> QED
  BY <1>1, <1>2, <1>3, EngineStep

\* The invariant of the list: whom it has forgotten is too old to matter.
THEOREM NoSpamInvariant == Spec => []NoSpamInv
<1>1. Init => NoSpamInv
  BY DEF Init, NoSpamInv
<1> QED
  BY <1>1, NoSpamNext, TypeCorrect, PTL DEF Spec

\* Within the interval before its newest message no member gets more than max
\* through, whatever the batches interleave (evaluateGuard's no-spam).
THEOREM NoSpamKept == Spec => NoSpamHolds
<1>1. TypeOK /\ SlowModeInv /\ NoSpamInv /\ [Next]_vars =>
        [\A m \in judged' \ judged :
           HasGuard(m, "no-spam") /\ ~RecordedIn(ledger', m) /\ Newest(m)
             => Cardinality(LetThrough(m)) < GuardOf(m, "no-spam").max]_judged
  <2> SUFFICES ASSUME TypeOK, SlowModeInv, NoSpamInv, [Next]_vars,
                      NEW m \in judged' \ judged, HasGuard(m, "no-spam"),
                      ~RecordedIn(ledger', m), Newest(m)
               PROVE  Cardinality(LetThrough(m)) < GuardOf(m, "no-spam").max
    OBVIOUS
  <2>1. PICK h \in Handlers : Evaluate(h)
    BY EngineStep DEF engineVars
  <2>2. m = Msg(h) /\ judged' # judged
    BY <2>1, JudgementIs DEF engineVars
  <2> QED
    BY <2>1, <2>2, NewestFindsRoom
<1> QED
  BY <1>1, NoSpamInvariant, SlowModeInvariant, TypeCorrect, PTL DEF Spec, NoSpamHolds
=============================================================================
