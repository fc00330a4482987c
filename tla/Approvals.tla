----------------------------- MODULE Approvals -----------------------------
(* Approval requests (src/src/modules/approvals): the card sent to an       *)
(* approver, the clicks on it, the reason a rejecting approver may add by a *)
(* direct message, and the sweep that ends a rejection still without one.   *)
(*                                                                          *)
(* pending_approvals is durable; the calls under way and the map of armed   *)
(* direct messages die with the process.  A click, a reply and the sweep    *)
(* are calls of their own and interleave at every await; only the status of *)
(* the row decides between them.                                            *)
EXTENDS Naturals

CONSTANTS
  Requests,
  Handlers,    \* calls of handleApprovalsResponse or captureReasonReply
  DmOf,        \* DmOf[r]: the direct message of the approver of r
  None,
  MaxClicks,   \* bound: clicks on the cards
  MaxFaults,   \* bound: errors of the host's own databases
  MaxRestarts  \* bound: restarts of the host

Dms == {DmOf[r] : r \in Requests}
Sweeper == "sweep"
Slots == Handlers \union {Sweeper}

ASSUME ApprovalAssumption ==
  /\ Sweeper \notin Handlers
  /\ None \notin Requests
  /\ MaxClicks \in Nat /\ MaxFaults \in Nat /\ MaxRestarts \in Nat

VARIABLES
  row,       \* pending_approvals: the status of each request's row
  expired,   \* awaiting rows whose expires_at has passed
  asking,    \* where requestApproval is
  visible,   \* cards an approver can click
  armed,     \* awaitingReason: the request a direct message would explain
  at, req,   \* where each call is, and for which request
  list,      \* the rows the sweep has still to visit
  clicks, faults, restarts

\* History: what the requesting agent got, over all lifetimes.
VARIABLES
  verdict,     \* what became of the request
  applied,     \* times the requested action was carried out
  told,        \* times the agent was told of a rejection
  unreachable, \* requests of which the agent was told that nobody got the card
  dropped      \* requests whose note to the agent was never written

card == <<asking, visible>>
call == <<at, req>>
counters == <<clicks, faults, restarts>>
history == <<verdict, applied, told, unreachable, dropped>>
vars == <<row, expired, asking, visible, armed, at, req, list,
          clicks, faults, restarts, verdict, applied, told, unreachable, dropped>>

Places == {"idle", "approving", "applying", "applied", "parking", "prompting",
           "rejecting", "rejecting held", "telling", "closing"}
Statuses == {"absent", "pending", "awaiting", "approved", "rejected", "deleted"}

TypeOK ==
  /\ row \in [Requests -> Statuses]
  /\ expired \subseteq Requests
  /\ asking \in [Requests -> {"no", "sending", "over"}]
  /\ visible \subseteq Requests
  /\ armed \in [Dms -> Requests \union {None}]
  /\ at \in [Slots -> Places]
  /\ req \in [Slots -> Requests \union {None}]
  /\ \A h \in Slots : at[h] = "idle" <=> req[h] = None
  /\ list \subseteq Requests
  /\ clicks \in 0..MaxClicks
  /\ faults \in 0..MaxFaults
  /\ restarts \in 0..MaxRestarts
  /\ verdict \in [Requests -> {"open", "approved", "rejected"}]
  /\ applied \in [Requests -> Nat]
  /\ told \in [Requests -> Nat]
  /\ unreachable \subseteq Requests
  /\ dropped \subseteq Requests

Init ==
  /\ row = [r \in Requests |-> "absent"]
  /\ expired = {}
  /\ asking = [r \in Requests |-> "no"]
  /\ visible = {}
  /\ armed = [d \in Dms |-> None]
  /\ at = [h \in Slots |-> "idle"]
  /\ req = [h \in Slots |-> None]
  /\ list = {}
  /\ clicks = 0
  /\ faults = 0
  /\ restarts = 0
  /\ verdict = [r \in Requests |-> "open"]
  /\ applied = [r \in Requests |-> 0]
  /\ told = [r \in Requests |-> 0]
  /\ unreachable = {}
  /\ dropped = {}
-----------------------------------------------------------------------------
(* requestApproval.                                                         *)

\* An approver is found, the row written and the card given to the adapter.
Ask(r) ==
  /\ asking[r] = "no"
  /\ row' = [row EXCEPT ![r] = "pending"]
  /\ asking' = [asking EXCEPT ![r] = "sending"]
  /\ UNCHANGED <<expired, visible, armed, call, list, counters, history>>

\* No approver, or none with a direct message: the agent hears of it at once.
NobodyToAsk(r) ==
  /\ asking[r] = "no"
  /\ asking' = [asking EXCEPT ![r] = "over"]
  /\ unreachable' = unreachable \union {r}
  /\ UNCHANGED <<row, expired, visible, armed, call, list, counters, verdict, applied, told, dropped>>

\* The approver sees the card, before the adapter's answer.
CardArrives(r) ==
  /\ asking[r] = "sending"
  /\ visible' = visible \union {r}
  /\ UNCHANGED <<row, expired, asking, armed, call, list, counters, history>>

CardSent(r) ==
  /\ asking[r] = "sending" /\ r \in visible
  /\ asking' = [asking EXCEPT ![r] = "over"]
  /\ UNCHANGED <<row, expired, visible, armed, call, list, counters, history>>

Gone(r) ==
  /\ row' = [row EXCEPT ![r] = "deleted"]
  /\ expired' = expired \ {r}

\* The adapter rejects: the row is removed, whatever became of it meanwhile.
CardFails(r) ==
  /\ asking[r] = "sending"
  /\ asking' = [asking EXCEPT ![r] = "over"]
  /\ Gone(r)
  /\ unreachable' = unreachable \union {r}
  /\ UNCHANGED <<visible, armed, call, list, counters, verdict, applied, told, dropped>>

Fault == faults < MaxFaults /\ faults' = faults + 1

\* The adapter rejects, and the database the removal of the row, or the mailbox
\* the note to the agent.
CardFailsHalfway(r) ==
  /\ asking[r] = "sending"
  /\ asking' = [asking EXCEPT ![r] = "over"]
  /\ Fault
  /\ \/ UNCHANGED <<row, expired, dropped>>
     \/ Gone(r) /\ dropped' = dropped \union {r}
  /\ UNCHANGED <<visible, armed, call, list, clicks, restarts, verdict, applied, told, unreachable>>
-----------------------------------------------------------------------------
(* Calls: at and req move together, idle calls have no request.             *)

Become(h, where, r) ==
  /\ at' = [at EXCEPT ![h] = where]
  /\ req' = [req EXCEPT ![h] = IF where = "idle" THEN None ELSE r]

Go(h, where) == Become(h, where, req[h])

HasRow(r) == row[r] \notin {"absent", "deleted"}

\* handleApprovalsResponse reads the row of an authorised click; a click whose
\* row is gone is nobody's.
Click(h, r, button) ==
  /\ at[h] = "idle" /\ h # Sweeper
  /\ clicks < MaxClicks /\ r \in visible /\ HasRow(r)
  /\ clicks' = clicks + 1
  /\ Become(h, CASE button = "approve" -> "approving"
                 [] button = "reject with reason" -> "parking"
                 [] OTHER -> IF row[r] = "awaiting" THEN "rejecting held" ELSE "rejecting", r)
  /\ UNCHANGED <<row, expired, card, armed, list, faults, restarts, history>>

\* Faulty: the UPDATE does not compare the status.
FaultyClaims(r, from) == HasRow(r)

Claims(r, from) == row[r] = from

\* transitionPendingApprovalStatus: one UPDATE, guarded by the status.
Transition(h, from, to, next) ==
  IF Claims(req[h], from)
  THEN row' = [row EXCEPT ![req[h]] = to] /\ Go(h, next)
  ELSE row' = row /\ Go(h, "idle")

Decided(h, from, v) ==
  verdict' = IF Claims(req[h], from) THEN [verdict EXCEPT ![req[h]] = v] ELSE verdict

Approve(h) ==
  /\ at[h] = "approving"
  /\ Transition(h, "pending", "approved", "applying")
  /\ Decided(h, "pending", "approved")
  /\ UNCHANGED <<expired, card, armed, list, counters, applied, told, unreachable, dropped>>

\* The handler replays the guarded action with the row as its grant; a grant
\* whose row is gone is refused.
Apply(h) ==
  /\ at[h] = "applying" /\ HasRow(req[h])
  /\ Go(h, "applied")
  /\ applied' = [applied EXCEPT ![req[h]] = @ + 1]
  /\ UNCHANGED <<row, expired, card, armed, list, counters, verdict, told, unreachable, dropped>>

\* The handler returns, throws (the agent hears of it), is refused or missing.
Return(h) ==
  /\ at[h] \in {"applying", "applied"}
  /\ Go(h, "closing")
  /\ UNCHANGED <<row, expired, card, armed, list, counters, history>>

\* markApprovalAwaitingReason.
Park(h) ==
  /\ at[h] = "parking"
  /\ Transition(h, "pending", "awaiting", "prompting")
  /\ UNCHANGED <<expired, card, armed, list, counters, history>>

\* The prompt is out: the direct message is armed, over an earlier arming.
Arm(h) ==
  /\ at[h] = "prompting"
  /\ Go(h, "idle")
  /\ armed' = [armed EXCEPT ![DmOf[req[h]]] = req[h]]
  /\ UNCHANGED <<row, expired, card, list, counters, history>>

\* No direct message or no adapter, or the prompt is rejected.
PromptFails(h) ==
  /\ at[h] = "prompting"
  /\ Go(h, "rejecting held")
  /\ UNCHANGED <<row, expired, card, armed, list, counters, history>>

\* finalizeReject: the transition from the status its caller read, the note to
\* the agent, the row's end.
Reject(h) ==
  \E from \in {"pending", "awaiting"} :
  /\ at[h] = IF from = "awaiting" THEN "rejecting held" ELSE "rejecting"
  /\ Transition(h, from, "rejected", "telling")
  /\ Decided(h, from, "rejected")
  /\ UNCHANGED <<expired, card, armed, list, counters, applied, told, unreachable, dropped>>

\* Faulty: only the sweep tells the agent.
FaultyTell(h) ==
  /\ at[h] = "telling"
  /\ Go(h, "closing")
  /\ told' = IF h # Sweeper THEN told ELSE [told EXCEPT ![req[h]] = @ + 1]
  /\ UNCHANGED <<row, expired, card, armed, list, counters, verdict, applied, unreachable, dropped>>

Tell(h) ==
  /\ at[h] = "telling"
  /\ Go(h, "closing")
  /\ told' = [told EXCEPT ![req[h]] = @ + 1]
  /\ UNCHANGED <<row, expired, card, armed, list, counters, verdict, applied, unreachable, dropped>>

\* Faulty: the call ends, but keeps its request.
FaultyClose(h) ==
  /\ at[h] = "closing"
  /\ Gone(req[h])
  /\ at' = [at EXCEPT ![h] = "idle"]
  /\ UNCHANGED <<card, armed, req, list, counters, history>>

Close(h) ==
  /\ at[h] = "closing"
  /\ Gone(req[h])
  /\ Go(h, "idle")
  /\ UNCHANGED <<card, armed, list, counters, history>>

\* A database or the mailbox throws, and nothing catches it in the call: it is
\* over and the row stays as it is, for a rejected one without the note.  In
\* the sweep it is the end of the pass.
Throws(h) ==
  /\ at[h] \notin {"idle", "applying", "applied"}
  /\ Fault
  /\ Go(h, "idle")
  /\ list' = IF h = Sweeper THEN {} ELSE list
  /\ dropped' = IF at[h] = "telling" THEN dropped \union {req[h]} ELSE dropped
  /\ UNCHANGED <<row, expired, card, armed, clicks, restarts, verdict, applied, told, unreachable>>
-----------------------------------------------------------------------------
(* The reason, and the sweep.                                               *)

\* captureReasonReply disarms the direct message first; a reply to a request
\* that is no longer held is an ordinary message.
Reply(h, d) ==
  /\ at[h] = "idle" /\ h # Sweeper
  /\ armed[d] # None
  /\ armed' = [armed EXCEPT ![d] = None]
  /\ IF row[armed[d]] = "awaiting"
     THEN Become(h, "rejecting held", armed[d]) ELSE UNCHANGED call
  /\ UNCHANGED <<row, expired, card, list, counters, history>>

\* REASON_CAPTURE_WINDOW_MS passes.
WindowEnds(r) ==
  /\ row[r] = "awaiting" /\ r \notin expired
  /\ expired' = expired \union {r}
  /\ UNCHANGED <<row, card, armed, call, list, counters, history>>

\* Faulty: only the holds this process has armed.
FaultyOverdue == {r \in expired : row[r] = "awaiting" /\ \E d \in Dms : armed[d] = r}

Overdue == {r \in expired : row[r] = "awaiting"}

\* sweepAwaitingReasonRejects reads the overdue rows, then takes each in turn.
SweepReads ==
  /\ at[Sweeper] = "idle" /\ list = {} /\ Overdue # {}
  /\ list' = Overdue
  /\ UNCHANGED <<row, expired, card, armed, call, counters, history>>

SweepTakes(r) ==
  /\ at[Sweeper] = "idle" /\ r \in list
  /\ list' = list \ {r}
  /\ Become(Sweeper, "rejecting held", r)
  /\ UNCHANGED <<row, expired, card, armed, counters, history>>

\* The host dies and starts again: the rows are left as they are.
Restart ==
  /\ restarts < MaxRestarts
  /\ restarts' = restarts + 1
  /\ asking' = [r \in Requests |-> IF asking[r] = "sending" THEN "over" ELSE asking[r]]
  /\ armed' = [d \in Dms |-> None]
  /\ at' = [h \in Slots |-> "idle"]
  /\ req' = [h \in Slots |-> None]
  /\ list' = {}
  /\ dropped' = dropped \union {req[h] : h \in {k \in Slots : at[k] = "telling"}}
  /\ UNCHANGED <<row, expired, visible, clicks, faults, verdict, applied, told, unreachable>>
-----------------------------------------------------------------------------
Buttons == {"approve", "reject", "reject with reason"}

Requesting(r) ==
  Ask(r) \/ NobodyToAsk(r) \/ CardArrives(r) \/ CardSent(r) \/ CardFails(r)
  \/ CardFailsHalfway(r)

\* What a call does by itself, without an answer from outside.
Step(h) == Approve(h) \/ Park(h) \/ Reject(h) \/ Tell(h) \/ Close(h)
Outside(h) == Apply(h) \/ Return(h) \/ Arm(h) \/ PromptFails(h)
Sweep == SweepReads \/ \E r \in Requests : SweepTakes(r)

Next ==
  \/ \E r \in Requests : Requesting(r) \/ WindowEnds(r)
  \/ \E h \in Slots :
       \/ Step(h) \/ Outside(h) \/ Throws(h)
       \/ \E r \in Requests, b \in Buttons : Click(h, r, b)
       \/ \E d \in Dms : Reply(h, d)
  \/ Sweep
  \/ Restart

Spec == Init /\ [][Next]_vars

\* The event loop runs every call on, the clock goes on and the sweep ticks;
\* no approver has to click or to reply, no channel and no handler to answer.
FairSpec ==
  /\ Spec
  /\ \A h \in Slots : WF_vars(Step(h))
  /\ \A r \in Requests : WF_vars(WindowEnds(r))
  /\ WF_vars(Sweep)
-----------------------------------------------------------------------------
\* A rejection held for its reason ends: by the reply, by another click or by
\* the sweep, also when the prompt hangs or the host restarts.
HeldRejectionsEnd == \A r \in Requests : row[r] = "awaiting" ~> row[r] # "awaiting"

\* The agent hears of a rejection, and of the end of one held for a reason,
\* also when the host restarts or a call throws, unless it was told that nobody
\* got the card.  The one loss is a note that was never written: its call died
\* with the process or threw with the row already "rejected", and the sweep
\* reads held rows only.
RejectionsAreTold ==
  \A r \in Requests :
    verdict[r] = "rejected" \/ row[r] = "awaiting"
      ~> told[r] > 0 \/ r \in unreachable \/ r \in dropped

Promise == INSTANCE Verdicts

\* Clicks, replies, failures and the sweep give a request one verdict, carry it
\* out at most once and tell of a rejection at most once.
ImplementsVerdicts == Promise!VerdictSpec
=============================================================================
