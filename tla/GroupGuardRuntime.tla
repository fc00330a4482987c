------------------------- MODULE GroupGuardRuntime -------------------------
(***************************************************************************)
(* GroupGuardRuntime.handle (src/groupguard/runtime.ts) over the durable   *)
(* EffectLedger and the volatile AccountSafetyController of                *)
(* src/groupguard/reliability/effects.ts, as the WhatsApp adapter          *)
(* (src/channels/whatsapp.ts) drives them.                                 *)
(*                                                                         *)
(* Each messages.upsert batch is an async loop of its own: a handler here. *)
(* A handler takes one message at a time, and WhatsApp may deliver a       *)
(* message again, to the same handler or another one.  handle() runs to    *)
(* its next await without interruption, so a step is what happens between  *)
(* two awaits, except where the process may die inside it: a handler whose *)
(* state is in Atomic holds the event loop, and only it or Restart can     *)
(* move.  The ledger outlives the process, everything else dies with it.   *)
(***************************************************************************)
EXTENDS AccountSafety, Moderation, Sequences

CONSTANTS
  Groups,      \* the groups configured in groupguard.json
  Policy,      \* Policy[g]: what the configuration says of group g
  Handlers,    \* concurrent message batches
  MaxTime,     \* bound on the clock
  MaxArrivals, \* bound on the deliveries of one message
  MaxRestarts  \* bound on process restarts

\* enforceable: the host lock is on, observationMode is off and
\* observationStartedAt is set; observationEnds: that start plus the minimum.
GroupPolicy ==
  [guards : Seq(Guard), adminExempt : BOOLEAN, enforceable : BOOLEAN,
   observationEnds : Nat, directoryEnabled : BOOLEAN,
   forwardUnmatchedToAgent : BOOLEAN]

ASSUME RuntimeAssumption ==
  /\ SentAt \in [Messages -> Nat]
  /\ Policy \in [Groups -> GroupPolicy]
  /\ MaxTime \in Nat /\ MaxArrivals \in Nat /\ MaxRestarts \in Nat

\* The operator lists each guard once.
ASSUME GuardsListedOnce ==
  \A g \in Groups : \A i, j \in DOMAIN Policy[g].guards :
    Policy[g].guards[i].id = Policy[g].guards[j].id => i = j

\* An effect is named by its ledger key: the kind of step and the message.
Effects == {"moderation", "directory"} \X Messages

Kinds == {"directory-reply", "moderation-delete", "moderation-observation"}
Statuses == {"absent", "pending", "delivered", "unknown", "skipped"}
Row == [status : Statuses, kind : Kinds \union {"none"}]
NoRow == [status |-> "absent", kind |-> "none"]

\* Where handle() awaits, and the points it passes between two awaits.
Awaiting == {"resolving-admins", "deleting", "responding", "sending"}
Atomic == {"evaluating", "observation-claimed", "delete-claimed",
           "answering", "reply-claimed"}
Decisions == {"allow", "observe", "skip-unverified-admins", "delete"}

VARIABLES
  now,       \* Date.now()
  lifetime,  \* how many times the process has been restarted
  closing,   \* teardown() has closed the ledger
  call,      \* each handler's call of handle(): its place and its locals
  ledger,    \* the effects table: durable
  safety,    \* the account safety controller: volatile
  times,     \* the moderation engine's messageTimes: volatile
  landed     \* how often WhatsApp carried out each effect

\* History, read by no action but Deliver, whose bound it is.
VARIABLES
  arrivals,   \* deliveries of each message so far
  attempted,  \* times each effect was handed to WhatsApp, over all lifetimes
  permits,    \* per action, what this process's controller ever permitted
  quietUntil, \* the end of the latest circuit opening of this process
  judged,     \* messages this process's moderation engine has judged
  completed,  \* messages some handle() call has finished with
  forwarded   \* times each message was passed on to the agent router

outside == <<now, lifetime, closing, arrivals, landed>>
accountVars == <<safety, permits, quietUntil>>
engineVars == <<times, judged>>
volatileVars == <<call, accountVars, engineVars>>
outcomeVars == <<completed, forwarded>>
vars == <<now, lifetime, closing, call, ledger, safety, times, landed, arrivals,
          attempted, permits, quietUntil, judged, completed, forwarded>>

NoArrival == <<>>
Idle == [pc |-> "idle", arrival |-> NoArrival, admin |-> "unverified",
         decision |-> "allow"]

HandledArrivals == {a \in Arrivals : GroupOf[a[1]] \in Groups}

Call == [pc : {"idle"} \union Awaiting \union Atomic,
         arrival : Arrivals \union {NoArrival},
         admin : AdminStates,
         decision : Decisions]

At(h) == call[h].pc
Msg(h) == call[h].arrival[1]
PolicyOf(m) == Policy[GroupOf[m]]

EventLoopFree == \A h \in Handlers : At(h) \notin Atomic

\* handle() goes on from another place.
Become(h, c) == call' = [call EXCEPT ![h] = c] /\ UNCHANGED outcomeVars
Continue(h, state) == Become(h, [call[h] EXCEPT !.pc = state])

\* handle() resolves: the batch passes the message to the agent when handled
\* is false, and goes on to its next message.
Return(h, m, handled) ==
  /\ call' = [call EXCEPT ![h] = Idle]
  /\ completed' = completed \union {m}
  /\ forwarded' = IF handled THEN forwarded ELSE [forwarded EXCEPT ![m] = @ + 1]

\* handle() rejects: the batch logs the error and drops the message.
Reject(h) == Become(h, Idle)

-----------------------------------------------------------------------------
\* The ledger's statements.  INSERT OR IGNORE succeeds for the first caller
\* alone; the UPDATE behind markDelivered, markUnknown and markSkipped looks
\* at nothing but the key.  Once teardown has closed the database all throw.
\*
\* A definition named Faulty... is the one after it with a mistake put in: no
\* action uses it, it shows which property notices the mistake.

FaultyLedgerOpen == TRUE
LedgerOpen == ~closing

\* Fault: a claim retries what a crash left pending.
FaultyClaimablePending(e) == ledger[e].status \in {"absent", "pending"}
Claimable(e) == ledger[e].status = "absent"
Claim(e, kind) ==
  ledger' = [ledger EXCEPT ![e] = [status |-> "pending", kind |-> kind]]

\* Fault: the status goes into the wrong column.
FaultyMark(e, status) == ledger' = [ledger EXCEPT ![e].kind = status]
Mark(e, status) == ledger' = [ledger EXCEPT ![e].status = status]

-----------------------------------------------------------------------------
NoPermits == [a \in AccountActions |-> {}]

Init ==
  /\ now = 0 /\ lifetime = 0 /\ closing = FALSE
  /\ call = [h \in Handlers |-> Idle]
  /\ ledger = [e \in Effects |-> NoRow]
  /\ safety = FreshSafety
  /\ times = NoMessageTimes
  /\ landed = [e \in Effects |-> 0]
  /\ arrivals = [m \in Messages |-> 0]
  /\ attempted = [e \in Effects |-> 0]
  /\ permits = NoPermits /\ quietUntil = 0 /\ judged = {}
  /\ completed = {}
  /\ forwarded = [m \in Messages |-> 0]

Tick ==
  /\ now < MaxTime
  /\ now' = now + 1
  /\ UNCHANGED <<lifetime, closing, arrivals, landed, ledger, attempted,
                 volatileVars, outcomeVars>>

\* A batch hands a message to handle(), which runs to its first await.
Deliver(h, m) ==
  /\ EventLoopFree
  /\ At(h) = "idle"
  /\ arrivals[m] < MaxArrivals
  /\ SentAt[m] <= now
  /\ arrivals' = [arrivals EXCEPT ![m] = @ + 1]
  /\ IF GroupOf[m] \notin Groups
     THEN Return(h, m, TRUE)
     ELSE Become(h, [Idle EXCEPT
            !.arrival = <<m, arrivals[m] + 1>>,
            !.pc = IF PolicyOf(m).guards = <<>> THEN "answering"
                   ELSE IF PolicyOf(m).adminExempt THEN "resolving-admins"
                   ELSE "evaluating"])
  /\ UNCHANGED <<now, lifetime, closing, landed, ledger, attempted, accountVars,
                 engineVars>>

\* resolveAdminState answers; a rejection counts as unverified.
ResolveAdmins(h) ==
  /\ EventLoopFree
  /\ At(h) = "resolving-admins"
  /\ \E a \in AdminStates :
       Become(h, [call[h] EXCEPT !.pc = "evaluating", !.admin = a])
  /\ UNCHANGED <<outside, ledger, attempted, accountVars, engineVars>>

CanEnforce(m) == PolicyOf(m).enforceable /\ now >= PolicyOf(m).observationEnds

\* The moderation verdict, and the claim of its ledger row.
Evaluate(h) ==
  LET m == Msg(h)
      p == PolicyOf(m)
      a == call[h].admin
      verdict == Decision(times, p.guards, m, p.adminExempt, a, CanEnforce(m))
      e == <<"moderation", m>>
      Decided(state) == Become(h, [call[h] EXCEPT !.pc = state, !.decision = verdict])
  IN /\ At(h) = "evaluating"
     /\ IF Exempted(p.adminExempt, a)
        THEN UNCHANGED engineVars
        ELSE /\ times' = TimesAfter(times, p.guards, m, call[h].arrival)
             /\ judged' = IF LedgerOpen THEN judged \union {m} ELSE judged
     /\ \/ /\ verdict = "allow"
           /\ Decided("answering")
           /\ UNCHANGED ledger
        \/ /\ verdict # "allow" /\ ~LedgerOpen
           /\ Reject(h)
           /\ UNCHANGED ledger
        \/ /\ verdict # "allow" /\ LedgerOpen /\ Claimable(e)
           /\ IF verdict = "delete"
              THEN Claim(e, "moderation-delete") /\ Decided("delete-claimed")
              ELSE Claim(e, "moderation-observation")
                     /\ Decided("observation-claimed")
        \/ /\ verdict # "allow" /\ LedgerOpen /\ ~Claimable(e)
           /\ IF verdict = "observe" THEN Decided("answering")
              ELSE Return(h, m, TRUE)
           /\ UNCHANGED ledger
     /\ UNCHANGED <<outside, attempted, accountVars>>

SettleObservation(h) ==
  /\ At(h) = "observation-claimed"
  /\ Mark(<<"moderation", Msg(h)>>, "delivered")
  /\ IF call[h].decision = "observe" THEN Continue(h, "answering")
     ELSE Return(h, Msg(h), TRUE)
  /\ UNCHANGED <<outside, attempted, accountVars, engineVars>>

\* reserve(), and the call it permits up to its await.  The call reaches
\* WhatsApp only when the socket is open at that moment.
Start(h, claimed, action, e, awaiting) ==
  /\ At(h) = claimed
  /\ safety' = AfterReserve(safety, action, now, e)
  /\ IF Permitted(safety, action, now)
     THEN /\ \E online \in {0, 1} :
               attempted' = [attempted EXCEPT ![e] = @ + online]
          /\ permits' = [permits EXCEPT ![action] = @ \union {[effect |-> e, at |-> now]}]
          /\ Continue(h, awaiting)
          /\ UNCHANGED ledger
     ELSE /\ Mark(e, "skipped")
          /\ Return(h, Msg(h), TRUE)
          /\ UNCHANGED <<attempted, permits>>
  /\ UNCHANGED <<outside, quietUntil, engineVars>>

StartDelete(h) ==
  Start(h, "delete-claimed", "moderation-delete", <<"moderation", Msg(h)>>, "deleting")

StartReply(h) ==
  Start(h, "reply-claimed", "reply", <<"directory", Msg(h)>>, "sending")

\* WhatsApp carries out an effect it was handed, whatever became of the caller.
Land(e) ==
  /\ landed[e] < attempted[e]
  /\ landed' = [landed EXCEPT ![e] = @ + 1]
  /\ UNCHANGED <<now, lifetime, closing, arrivals, ledger, attempted,
                 volatileVars, outcomeVars>>

\* History: a failure streak that reaches the threshold asks for silence.
NoteCircuit ==
  quietUntil' = IF safety'.consecutiveFailures >= FailureThreshold
                THEN now + Cooldown ELSE quietUntil

\* Fault: the effect is recorded as delivered without awaiting the call.
FaultySucceed(h, awaiting, e) ==
  /\ EventLoopFree
  /\ At(h) = awaiting
  /\ safety' = AfterSuccess(safety)
  /\ IF LedgerOpen THEN Mark(e, "delivered") /\ Return(h, Msg(h), TRUE)
     ELSE Reject(h) /\ UNCHANGED ledger
  /\ UNCHANGED <<outside, attempted, permits, quietUntil, engineVars>>

\* The call resolves.  On a closed ledger markDelivered throws into the catch,
\* which counts a failure before markUnknown throws as well.
Succeed(h, awaiting, e) ==
  /\ EventLoopFree
  /\ At(h) = awaiting
  /\ landed[e] > 0
  /\ IF ~LedgerOpen
     THEN /\ safety' = AfterFailure(AfterSuccess(safety), now)
          /\ NoteCircuit
          /\ Reject(h)
          /\ UNCHANGED ledger
     ELSE /\ safety' = AfterSuccess(safety)
          /\ Mark(e, "delivered")
          /\ Return(h, Msg(h), TRUE)
          /\ UNCHANGED quietUntil
  /\ UNCHANGED <<outside, attempted, permits, engineVars>>

\* Faults: the catch records the effect as skipped; it records nothing; the
\* call has no timeout.
FaultyFailSkipped(h, awaiting, e) ==
  /\ EventLoopFree
  /\ At(h) = awaiting
  /\ safety' = AfterFailure(safety, now)
  /\ NoteCircuit
  /\ Mark(e, "skipped") /\ Return(h, Msg(h), TRUE)
  /\ UNCHANGED <<outside, attempted, permits, engineVars>>

FaultyFailUnrecorded(h, awaiting, e) ==
  /\ EventLoopFree
  /\ At(h) = awaiting
  /\ safety' = AfterFailure(safety, now)
  /\ NoteCircuit
  /\ Return(h, Msg(h), TRUE)
  /\ UNCHANGED <<outside, ledger, attempted, permits, engineVars>>

\* The call rejects, which says nothing about whether WhatsApp acted.
Fail(h, awaiting, e) ==
  /\ EventLoopFree
  /\ At(h) = awaiting
  /\ safety' = AfterFailure(safety, now)
  /\ NoteCircuit
  /\ IF ~LedgerOpen
     THEN Reject(h) /\ UNCHANGED ledger
     ELSE Mark(e, "unknown") /\ Return(h, Msg(h), TRUE)
  /\ UNCHANGED <<outside, attempted, permits, engineVars>>

FinishDelete(h) ==
  LET e == <<"moderation", Msg(h)>>
  IN  Succeed(h, "deleting", e) \/ Fail(h, "deleting", e)

FinishReply(h) ==
  LET e == <<"directory", Msg(h)>>
  IN  Succeed(h, "sending", e) \/ Fail(h, "sending", e)

\* The directory step: ask the responder, or leave the message unmatched.
Answer(h) ==
  /\ At(h) = "answering"
  /\ IF PolicyOf(Msg(h)).directoryEnabled
     THEN Continue(h, "responding")
     ELSE Return(h, Msg(h), ~PolicyOf(Msg(h)).forwardUnmatchedToAgent)
  /\ UNCHANGED <<outside, ledger, attempted, accountVars, engineVars>>

\* The responder comes back with nothing, or with a response to claim.
Respond(h) ==
  LET m == Msg(h)
      e == <<"directory", m>>
  IN /\ EventLoopFree
     /\ At(h) = "responding"
     /\ \/ /\ Return(h, m, ~PolicyOf(m).forwardUnmatchedToAgent)
           /\ UNCHANGED ledger
        \/ /\ ~LedgerOpen
           /\ Reject(h)
           /\ UNCHANGED ledger
        \/ /\ LedgerOpen /\ Claimable(e)
           /\ Claim(e, "directory-reply")
           /\ Continue(h, "reply-claimed")
        \/ /\ LedgerOpen /\ ~Claimable(e)
           /\ Return(h, m, TRUE)
           /\ UNCHANGED ledger
     /\ UNCHANGED <<outside, attempted, accountVars, engineVars>>

\* teardown() closes the ledger while handlers may still be awaiting.
Teardown ==
  /\ EventLoopFree
  /\ ~closing
  /\ closing' = TRUE
  /\ UNCHANGED <<now, lifetime, arrivals, landed, ledger, attempted,
                 volatileVars, outcomeVars>>

\* The process dies at any point, or exits after teardown, and comes back with
\* nothing but the ledger.
Restart ==
  /\ lifetime < MaxRestarts
  /\ lifetime' = lifetime + 1
  /\ closing' = FALSE
  /\ call' = [h \in Handlers |-> Idle]
  /\ safety' = FreshSafety
  /\ times' = NoMessageTimes
  /\ permits' = NoPermits /\ quietUntil' = 0 /\ judged' = {}
  /\ UNCHANGED <<now, ledger, landed, arrivals, attempted, outcomeVars>>

Step(h) ==
  \/ ResolveAdmins(h) \/ Evaluate(h) \/ SettleObservation(h)
  \/ StartDelete(h) \/ FinishDelete(h)
  \/ Answer(h) \/ Respond(h) \/ StartReply(h) \/ FinishReply(h)

Next ==
  \/ Tick \/ Teardown \/ Restart
  \/ \E h \in Handlers, m \in Messages : Deliver(h, m)
  \/ \E h \in Handlers : Step(h)
  \/ \E e \in Effects : Land(e)

Spec == Init /\ [][Next]_vars

\* Every await ends: the group lookup and the socket calls time out inside
\* Baileys, and the classifier aborts after timeoutMs.
Fairness == \A h \in Handlers : WF_vars(Step(h))

FairSpec == Spec /\ Fairness

-----------------------------------------------------------------------------
(* Properties.                                                             *)

\* A call that is under way has a message, and the policy of its group.
CallsOK ==
  /\ call \in [Handlers -> Call]
  /\ \A h \in Handlers : At(h) # "idle" => call[h].arrival \in HandledArrivals

OutcomesOK == completed \subseteq Messages /\ forwarded \in [Messages -> Nat]

TypeOK ==
  /\ now \in Nat /\ lifetime \in Nat /\ closing \in BOOLEAN
  /\ CallsOK
  /\ ledger \in [Effects -> Row]
  /\ safety \in SafetyState(Effects)
  /\ times \in MessageTimes
  /\ landed \in [Effects -> Nat]
  /\ arrivals \in [Messages -> Nat]
  /\ attempted \in [Effects -> Nat]
  /\ permits \in [AccountActions -> SUBSET [effect : Effects, at : Nat]]
  /\ quietUntil \in Nat
  /\ judged \subseteq Messages
  /\ OutcomesOK

\* No effect is handed to WhatsApp twice, however often its message is
\* delivered, whatever the handlers interleave, and across restarts.
AtMostOneAttempt == \A e \in Effects : attempted[e] <= 1

\* Whatever WhatsApp was ever asked to do has a row in the durable ledger, and
\* that row plans this very effect: a message recorded as merely observed is
\* never deleted later, when the same key is up for deletion.
PlannedBeforeSent ==
  \A e \in Effects : attempted[e] > 0 =>
    ledger[e].kind = (IF e[1] = "directory" THEN "directory-reply"
                      ELSE "moderation-delete")

\* A row never claims more than what happened: "delivered" means WhatsApp did
\* it exactly once (or there was nothing to do but observe), "skipped" that
\* WhatsApp was never asked.
LedgerTellsTheTruth ==
  \A e \in Effects :
    /\ ledger[e].status = "delivered" /\ ledger[e].kind # "moderation-observation"
         => landed[e] = 1
    /\ ledger[e].status \in {"absent", "skipped"} => attempted[e] = 0

\* A row, once written, keeps its kind; once settled, it keeps its status.  An
\* unknown result stays unknown, and no late handler rewrites another's row.
SettledRowsAreFinal ==
  [][\A e \in Effects :
       /\ ledger[e].status # "absent" =>
            ledger'[e].kind = ledger[e].kind /\ ledger'[e].status # "absent"
       /\ ledger[e].status \notin {"absent", "pending"} =>
            ledger'[e] = ledger[e]]_ledger

\* Handlers that are still awaiting when the adapter is torn down start no
\* effect and leave no row afterwards.
NothingStartsAfterTeardown ==
  [][closing => ledger' = ledger /\ attempted' = attempted]_<<ledger, attempted, closing>>

\* Over any window of an action's length, one process starts no more of that
\* action than its budget, in all groups together.
BudgetHolds ==
  \A a \in AccountActions : \A t \in 0..now :
    Cardinality({p \in permits[a] : t - Window[a] < p.at /\ p.at <= t}) <= Limit[a]

\* After a failure streak opens the circuit nothing is started until the
\* cooldown has passed, not even when an earlier call succeeds meanwhile.
OpenCircuitBlocks ==
  [][\A a \in AccountActions :
       permits'[a] \subseteq permits[a] \/ now >= quietUntil]_permits

\* A deletion starts only with every moderation lock open at that moment, and,
\* in a group that exempts its admins, for a sender a successful lookup found
\* to be no admin, although the lookup was awaited.
DeleteNeedsEveryLock ==
  [][\A m \in Messages : attempted'[<<"moderation", m>>] > attempted[<<"moderation", m>>] =>
       /\ CanEnforce(m)
       /\ \E h \in Handlers :
            /\ At(h) = "delete-claimed" /\ Msg(h) = m
            /\ PolicyOf(m).adminExempt => call[h].admin = "member"]_attempted

Neighbours(S, m, w) ==
  {n \in S \ {m} :
     /\ GroupOf[n] = GroupOf[m] /\ SenderOf[n] = SenderOf[m]
     /\ SentAt[n] - SentAt[m] < w /\ SentAt[m] - SentAt[n] < w}

HasGuard(m, id) ==
  /\ GroupOf[m] \in Groups
  /\ \E i \in DOMAIN PolicyOf(m).guards : PolicyOf(m).guards[i].id = id

GuardOf(m, id) ==
  PolicyOf(m).guards[CHOOSE i \in DOMAIN PolicyOf(m).guards :
                       PolicyOf(m).guards[i].id = id]

\* Of two messages one member sends within the slow-mode interval, the engine
\* lets at most one through unrecorded, in whatever order the concurrent
\* batches get to them.
SlowModeHolds ==
  \A m \in judged : HasGuard(m, "slow-mode") =>
    \A n \in Neighbours(judged, m, GuardOf(m, "slow-mode").window) :
      \/ ledger[<<"moderation", m>>].status # "absent"
      \/ ledger[<<"moderation", n>>].status # "absent"

\* A message GroupGuard is through with gets no further effect when it is
\* delivered again.
DuplicateDeliveryIgnored ==
  [][\A m \in completed : \A c \in {"moderation", "directory"} :
       /\ attempted'[<<c, m>>] = attempted[<<c, m>>]
       /\ forwarded'[m] = forwarded[m]]_<<attempted, forwarded>>

\* The effect whose pending row the call in handler h has to settle.
Holds(h, e) ==
  \/ /\ At(h) \in {"observation-claimed", "delete-claimed", "deleting"}
     /\ e = <<"moderation", Msg(h)>>
  \/ /\ At(h) \in {"reply-claimed", "sending"}
     /\ e = <<"directory", Msg(h)>>

\* The row of a claimed effect is settled unless the process is torn down or
\* dies first (what a dead process claimed stays pending for good).
EveryClaimSettles ==
  \A e \in Effects : \A n \in 0..MaxRestarts :
    ((\E h \in Handlers : Holds(h, e)) /\ lifetime = n)
      ~> (ledger[e].status # "pending" \/ lifetime # n \/ closing)

\* The ledger as the protocol sees it: an observation needs no delivery.
PlanOf ==
  [e \in Effects |->
     IF ledger[e].status = "delivered" /\ ledger[e].kind = "moderation-observation"
     THEN "observed" ELSE ledger[e].status]

Protocol == INSTANCE EffectProtocol WITH plan <- PlanOf

\* The runtime implements the effect protocol.
ImplementsProtocol == Protocol!ProtocolSpec
=============================================================================
