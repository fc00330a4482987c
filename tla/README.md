# Formal models of GroupGuard

TLA+ models, TLC runs and TLAPS proofs for GroupGuard, a moderation and
directory bot for WhatsApp groups, and for the NanoClaw agent host it runs in.
Paths below are relative to the repository's root; `whatsapp.ts:488` means
`src/channels/whatsapp.ts`, line 488.

Contents: [the system](#the-system), [the modules](#the-modules-and-the-code),
[the runs](#the-runs), [fairness](#fairness), [the proofs](#the-proofs),
[what the models leave out](#abstractions-and-what-they-leave-out),
[disagreements found](#disagreements-between-code-and-documents),
[the plan](#the-plan).

## The system

One Node.js process owns a WhatsApp linked device (Baileys). Messages arrive in
batches; each batch is an async loop that hands its messages to GroupGuard one
by one, and several batches may be in progress. GroupGuard may delete a message,
answer it from a provider directory, or leave it to the NanoClaw router, which
serves agents in containers through one SQLite mailbox per session.

### Components

| Component | State | Operations | Talks to |
|---|---|---|---|
| Adapter: connection (`src/channels/whatsapp.ts`, `reliability/reconnect.ts`) | socket, `connected`, `shuttingDown`, reconnect and stable timers, reconnect budget, first-open promise, auth directory (durable) | `setup`, `connectSocket`, `connection.update`, `scheduleReconnect`, `teardown` | Baileys (events), GroupGuard (calls), host (calls) |
| Adapter: outgoing queue (`whatsapp.ts:591-689`) | `outgoingQueue`, `flushing` | `deliver`, `sendRawMessage`, `flushOutgoingQueue` | socket, host delivery |
| GroupGuard runtime (`src/groupguard/runtime.ts`) | none of its own between calls | `handle` | moderation, ledger, limiter, responder, adapter (callbacks `sendMessage`, `deleteMessage`, `resolveAdminState`) |
| Effect ledger (`reliability/effects.ts:47`) | SQLite table (durable) | `claim`, `markDelivered`, `markUnknown`, `markSkipped`, `close` | runtime, service |
| Account safety (`reliability/effects.ts:140`) | reservations per action, failure streak, circuit (volatile) | `reserve`, `recordSuccess`, `recordFailure` | runtime |
| Moderation engine (`moderation/moderation.ts`) | `messageTimes` (volatile) | `evaluate` | runtime |
| Directory store (`directory/data.ts`) | snapshot in memory, cache file (durable) | `loadCache`, `refresh`, `current` | source (file or HTTPS), service |
| GroupGuard service (`bootstrap.ts`) | responder, refresh timer | `create`, refresh, `health`, `close` | all of the above |
| Classifier and responder (`directory/ollama-classifier.ts`, `responder.ts`) | classification cache (volatile) | `classify`, `prewarm`, `respond` | Ollama |
| Configuration, ingress (`config.ts`, `ingress.ts`) | none | parsing, `decideWhatsAppIngress` | adapter |
| Operator commands (`operations.ts`, `scripts/groupguard-*.ts`) | `config/groupguard.json`, `.env` (durable) | `setEnforcementMode`, init, doctor | files |
| Host delivery (`src/delivery.ts`) | in-flight set, attempt counters (volatile); the table `delivered` (durable) | two poll chains, `deliverSessionMessages`, `drainSession` | mailbox, adapters |
| Host sweep (`src/host-sweep.ts`) | none of its own | stuck decision, retry with backoff, recurrence, closing task sessions, ending held rejections | mailbox, containers, modules |
| Scheduling (`src/modules/scheduling`, `mailbox/sqlite/tasks.ts`, `cli/resources/tasks.ts`) | task rows of `messages_in`, the task session's status (durable) | create, cancel, pause, resume, update, run now, re-arm | mailbox, sweep, operators and agents |
| Approvals (`src/modules/approvals`) | `pending_approvals` (durable), armed direct messages (volatile) | `requestApproval`, `handleApprovalsResponse`, `captureReasonReply`, `finalizeReject`, the sweep of held rejections | adapters, router, agents |
| Container lifecycle (`container-runner.ts`, `container-restart.ts`) | running containers, wake promises | wake, kill, exit | driver, mailbox |
| Session mailbox (`session-manager.ts`, `src/mailbox`) | inbound and outbound SQLite files per session | write, mark, acknowledge | host and container |
| Container poll loop (`container/agent-runner/src/poll-loop.ts`) | claims, current turn | poll, claim, push follow-ups, complete | mailbox, model provider |
| Router (`src/router.ts`), other modules (`src/modules/*`) | central database | routing, permissions, agent to agent, self modification | mailbox |
| Startup backoff (`src/circuit-breaker.ts`) | counter file | `enforceStartupBackoff`, reset | host start |

### What is hard, and what correct means

* **Effects** (`handle`). Redelivery by WhatsApp, two batches with the same
  message, a crash after WhatsApp was asked and before the row is marked, calls
  that reject although WhatsApp acted, a teardown that closes the ledger under
  awaiting handlers. Correct: no effect is attempted twice in all time, every
  attempt is planned durably first, no row says more than is known, nothing
  starts after teardown, and deletions pass every lock.
* **Limits.** Budgets are account-wide and their window slides; a success may
  come in while the circuit is open. Correct: no window holds more permits than
  its limit, and an open circuit lets nothing start.
* **Rate guards.** Batches judge one member's messages in any order. Correct:
  slow mode never lets two through within the interval, no-spam punishes only
  bursts, a redelivery changes nothing.
* **Directory.** Each refresh is a chain of awaits that can fail or be cut off.
  Correct: the cache is never torn, a valid snapshot is never lost, what is in
  memory fits the taxonomy and is on disk, a good source is loaded in the end and
  its snapshot is what is served.
* **Session.** Router, sweep and modules wake one session; its container crashes,
  hangs, survives a restart of the host, or dies unnoticed; each side of the
  mailbox learns of the other by reading its table. Correct: one container per
  session directory, two halves that agree, settled messages that stay settled,
  retries that are counted, and no message or dead container that waits for ever.
* **Connection.** A timer, an awaiting `connectSocket`, an old socket and a
  shutdown overlap. Correct: one connection at a time, bounded reconnects, no
  silent stop, no queued message dropped.
* **Host delivery.** Two timer chains drain the same queues; a send may be rejected
  after the channel has the message, hang, or be cut off by a crash, and what the
  host remembers of its attempts dies with it. Correct: one transmission of a
  message at a time and none after it has settled, a second copy only when the
  answer to the last was lost, retries that end, "delivered" said only of what
  arrived, and every due message settled in the end as long as a chain that serves its
  session is not caught in a channel that never answers.
* **Approvals.** Clicks, a reply with a reason, a card whose delivery fails late and
  the sweep decide the same request, each from a row read before an await. Correct:
  one verdict per request, an approved action carried out at most once and a rejected
  one never, one note to the agent, no rejection held for ever, and none that the agent
  does not hear of, unless its note could not be written.
* **Task series.** The runner finishes occurrences, the sweep re-arms them in two
  separate writes, operators and agents change them in between. Correct: no crash or race
  ends a series or brings it back, each finished occurrence is re-armed, a script that
  keeps failing is paused, and only a spent session is closed; where a refused write or
  a sweep cut off between its writes breaks this, the properties say exactly how far.

`PROJECT.json` lists these hazards at their lines, with those no property covers.

## The modules and the code

| Module | Models | Notes |
|---|---|---|
| `AccountSafety` | `AccountSafetyController` | a value and operators on it, no variables |
| `Moderation` | `ModerationEngine` | likewise |
| `GroupGuardRuntime` | `handle`, `EffectLedger`, teardown, crash and restart | composes the two above |
| `EffectProtocol` | nothing of the code: what the effects promise | abstract specification |
| `GroupGuardDirectory` | `AtomicDirectoryStore`, `GroupGuardService.create`, the refresh timer | |
| `WhatsAppConnection` | the adapter's connection and outgoing queue, `ReconnectBudget` | |
| `SessionRunner` | one session: mailbox (inbound half), host sweep, container registry, poll loop | host and runner are two processes |
| `HostDelivery` | the two chains of `delivery.ts` and the table `delivered` | the outbound half of the mailbox |
| `Inbox` | what the mailbox promises of each inbound message | abstract specification |
| `SendQueue` | what the adapter's `deliver()` promises of each message | abstract specification |
| `Outbox` | what the outbound queue promises of each message | abstract specification |
| `Approvals` | the approvals module: requests, clicks, reasons, sweep | |
| `Verdicts` | what an approval promises | abstract specification |
| `TaskSeries` | one task series: its rows, its runner, the sweep's recurrence, the commands | |
| `MC...` | scenarios for TLC | constants only |
| `...Proofs` | theorems | |

A definition named `Faulty...` is the definition after it with one plausible
mistake. No specification uses it; it documents which property notices that
mistake (`PROJECT.json`, "mutants").

### GroupGuardRuntime

`handle()` runs without interruption from one await to the next, so the steps of
the model end at awaits. They also end where the process may die in between with
a different durable state: after the ledger's INSERT, before `reserve`. A handler
in such a place (`Atomic`) holds the event loop, so that only it, the outside
(`Tick`, `Land`) or a crash can move.

| Action | Code |
|---|---|
| `Deliver` | a batch takes a message, calls `handle()` (`whatsapp.ts:876-961`, `runtime.ts:57-66`) |
| `ResolveAdmins` | `resolveAdminState` answers, or rejects (`runtime.ts:64-70`) |
| `Evaluate` | `canEnforce`, the guards, the claim (`runtime.ts:71-97`) |
| `SettleObservation` | an observation is recorded (`runtime.ts:117-121`) |
| `StartDelete`, `StartReply` | `reserve`, then skip or call WhatsApp (`runtime.ts:101-107`, `138-144`) |
| `Land` | WhatsApp carries out what it was handed, whenever it likes |
| `FinishDelete`, `FinishReply` | the call resolves or rejects (`runtime.ts:107-114`, `144-152`) |
| `Answer`, `Respond` | the directory step and its claim (`runtime.ts:125-137`) |
| `Teardown` | the adapter closes the ledger (`whatsapp.ts:1211-1219`) |
| `Restart` | the process dies anywhere and a new one is made (`bootstrap.ts:59-137`) |

An effect is named as its ledger key is, by kind of step and message: one
message has at most one moderation effect and one directory effect. `ledger`
survives `Restart`; `safety`, `times` and `call` do not. `attempted` counts, over
all lifetimes, how often WhatsApp was handed an effect: a call made while the
socket is down rejects before that, so `Start` chooses whether it counts.
`landed` counts what WhatsApp did, which no code can see. `permits`,
`quietUntil`, `judged`, `completed` and `forwarded` are history for properties.

### GroupGuardDirectory

`pc` is the place where the boot, or the timer's refresh, is awaiting; `tmp` is
written in part, then whole; `renamed` remembers the last snapshot made durable.
`store` is the store's snapshot, `responder` the variable in `create()`,
`serving` the service's field: three pieces of state, as in the code. Two
refreshes do not overlap: the period is at least an hour, and a refresh's awaits
end within seconds.

### WhatsAppConnection

`connecting` holds the `connectSocket()` calls that are awaiting, `sock` the
sockets that have not reported their close. `tries` counts reconnects since a
connection last held, apart from the code's own counter. `handed` and `confirmed`
remember what became of messages. A message is handed over by the host once
(what delivers it again belongs to host delivery).

`SendQueue` is the same queue with nothing of connections: a message is new, queued,
being sent, in the flush, taken or lost, and a socket is asked each time one goes to
be sent or flushed. `PlaceOf` reads the place off `confirmed`, `sending`, `flushing`,
`queue` and `accepted`. A rejected flush is the only way to "lost".

### SessionRunner

One session, since nothing that is modelled is shared between sessions. The host is
single-threaded, so its actions are what it runs between two awaits; a runner is
another process and interleaves with every one of them.

| Variable | Code |
|---|---|
| `inbound` | `messages_in`, owned by the host: status, tries, and whether `process_after` is ahead |
| `ack` | `processing_ack`, owned by the runner; of a claim's time only what the SLA reads: `claimed`, `beaten` (a heartbeat since), `stale` |
| `runner`, `batch`, `held` | each container's process: its poll loop, the batch of its query, the follow-ups it has claimed and not pushed |
| `silent` | `ABSOLUTE_CEILING_MS` have passed without a heartbeat |
| `entry`, `finished` | `activeContainers.get(session)` and its `finished` flag |
| `waking` | the promise in `wakePromises`: preparing until the entry is registered, then started |
| `sweeping` | where `sweepSession` is: it awaits only the wake |

| Action | Code |
|---|---|
| `Arrive`, `Wake` | the router writes the row, and wakes in a later step (`router.ts:588-660`) |
| `SpawnFails`, `Spawn`, `Started`, `StartFails` | `wakeContainer`, `spawnContainer` (`container-runner.ts:134-275`) |
| `Sweep`, `SweepResumes` | `sweepSession` before and after its wake, with `maintainSessionMailbox`, `enforceRunningContainerSla`, `resetStuckProcessingRows` (`host-sweep.ts:169-354`) |
| `Kill` (in `Sweep`) | `killContainer` (`container-runner.ts:349`); docker stop and rm run synchronously in it (`docker-driver.ts:524`) |
| `Terminal`, `Finish` | a hint that is confirmed (`session-events.ts:154`), finalisation (`container-runner.ts:302-346`) |
| `Boot`, `Claim`, `Result`, `FollowUp`, `Push`, `QueryEnds` | `runPollLoop`, `processQuery` (`poll-loop.ts:78-298`, `411-656`) |
| `Heartbeat`, `Hang`, `Age`, `Silence`, `Elapse` | events of a turn, their absence, and time |
| `Crash`, `Restart` | a container dies; the host restarts and adopts what runs (`container-runner.ts:382`) |

`refusals` counts what the host asked for in vain: docker would not stop or list
containers, or the central database would not record a start. `OneRunner` and one
half of `HalvesAgree` are about runs without one; the rest holds with any number of
them.

`Inbox` is what router, sweep and runners together owe each message: accepted once;
finished by a runner; completed when the host learns so; retried or given up only while
nobody has finished it, and given up only with all tries used. Status and tries are
mapped to those of the row, `done` to the acknowledgements that say completed, and
`supervised` to `refusals = 0`: a runner that docker would not stop may finish a message
the host has settled, and changes nothing by it.

### HostDelivery and Outbox

Each chain (`active`, `sweep`) is a record of locals: the sessions it has still to
visit, the one it drains, the messages left there and its copy of the delivered ids.
A step ends at an await, and at the moment the channel has the message, which the
host does not see.

| Action | Code |
|---|---|
| `FallDue` | a container writes a row, or its `deliver_after` passes |
| `Begin` | the timer fires and lists the sessions (`pollActive`, `pollSweep`) |
| `Skip`, `Enter` | `deliverSessionMessages` and the in-flight set |
| `ReadQueue`, `ReadFails` | `drainSession` reads the delivered ids and the due rows |
| `Call`, `Arrives` | `deliverMessage` up to the adapter's call; the channel has it |
| `Recorded` | the call resolved: `markDelivered`, the attempts cleared, the hooks |
| `Rejected` | the `catch`: the attempt counted, or the row marked failed |
| `Exit` | the `finally` |
| `Restart` | the process dies anywhere; `attempts`, `inflight` and the chains start anew |

`Hanging` are the sessions whose channel never answers a call: a chain that calls into one
waits there for ever, with the session in flight. The other chain skips that session, but
may be caught in a second one; then nothing is delivered until a restart
([below](#disagreements-between-code-and-documents)). `EveryDueMessageSettles` excuses just
that: a message may stay unsettled only if *every* chain sure to visit its session (both
if its container runs, else the slow one) comes to wait for ever in another session.

`attempts` is the code's counter; `tries` counts calls, which is what the properties
are about. `received`, `lost` and `first` remember what the channel got, whose answer
the host missed, and which messages the hooks were told are first. `Outbox` is the
promise without chains, sessions or attempts; `open` is mapped to the calls in which
a copy has arrived. It allows any number of copies, but only one at a time and
none after settlement.

### Approvals and Verdicts

`row` is the status in `pending_approvals`, the only thing the calls share and the
only thing they compare. `at` and `req` say where each call is: one slot per
concurrent call of a click or a reply, and one for the sweep, which takes its rows in
turn.

| Action | Code |
|---|---|
| `Ask`, `NobodyToAsk`, `CardArrives`, `CardSent`, `CardFails`, `CardFailsHalfway` | `requestApproval` (`primitive.ts`); halfway: the deletion of the row or the note throws |
| `Click` | `handleApprovalsResponse` reads the row (`response-handler.ts`) |
| `Approve`, `Apply`, `Return` | the transition to approved, the action's handler, its return |
| `Park`, `Arm`, `PromptFails` | a rejection held for its reason (`reason-capture.ts`) |
| `Reject`, `Tell`, `Close` | `finalizeReject` (`finalize.ts`): transition, note, end of the row |
| `Reply` | `captureReasonReply` |
| `WindowEnds`, `SweepReads`, `SweepTakes` | `sweepAwaitingReasonRejects` |
| `Throws` | a database or the mailbox throws at any await of a call; nothing catches it, so the call ends, and in the sweep the pass |
| `Restart` | the process dies; rows stay as they are |

`verdict`, `applied`, `told`, `unreachable` and `dropped` are history; `Verdicts` speaks of
the first three and of nothing else. `dropped` are the requests whose note was never
written: `writeSessionMessage` threw (`finalize.ts:42`), or the process died, when the row
was `rejected` already. `RejectionsAreTold` excuses these and no other, whatever else
throws or restarts.

### TaskSeries

One series with a session of its own, which is how `createScheduledTask` makes it.
`seq` grows with each row, so occurrences are numbers.

| Action | Code |
|---|---|
| `Create`, `Cancel`, `Pause`, `Resume`, `Update`, `RunNow` | the commands (`cli/resources/tasks.ts`, `mailbox/sqlite/tasks.ts`) |
| `FallDue` | `process_after` passes |
| `Claim`, `RunEnds`, `Stop` | the runner; a script's failure is its own acknowledgement |
| `SweepWakes`, `SweepGoesOn`, `Woken`, `NotWoken` | `sweepSession` before and after its one await of a wake: acknowledgements mirrored, stuck rows reset |
| `Rearm`, `RearmFails`, `Clear`, `ClearFails` | `handleRecurrence`, per finished occurrence: insert, await, clear |
| `SweepEnds` | `shouldCloseTaskSession` and the closing |
| `Restart` | the host dies; containers run on |

`current` is the occurrence whose successor is inserted and whose recurrence is not
yet cleared: the window in which everything that is hard here happens. `forks` counts
how often the sweep was cut off in it, `kept` the occurrences operators added or
resumed, `late` those added to a session already closed, `refused` the occurrences of
which the sweep's last pass was refused a write.

`Armed` is what a series goes on from: the recurring occurrences of an *active* session,
since the sweep reads no other. So closing a session counts as the end of its series,
and `OnlyCommandsStartOrEndASeries` allows it only if a write was refused, in that pass,
for each occurrence the series could go on from.

## The runs

| Run | Question | Bounds |
|---|---|---|
| `runtime_effects` | effects under redelivery, interleaving, crash, teardown; claims settle | 1 message, 2 handlers, 2 deliveries, 2 restarts, time 0..2, fairness |
| `runtime_limits` | budget, circuit, slow mode in any order | 3 messages of one member sent at times 0, 2, 3, interval 2; 2 handlers, limit 1 per window of 2, threshold 1, cooldown 2, time 0..3, 1 restart |
| `directory` | everything about the directory | 3 versions, 2 taxonomies that overlap in one, 2 publishes, 2 failures, 2 restarts, fairness |
| `connection` | everything about the connection, and its send queue | 3 messages, budget 2, 3 opens, fairness |
| `session` | one runner, agreeing halves, the inbox | 2 messages, 2 containers at a time, 1 try, 1 crash, 1 restart, 1 refusal |
| `session_liveness` | messages settle, dead entries go | the same without refusals, fairness |
| `delivery` | the outbox, duplicates, retries, settlement | 4 messages in 3 sessions, two of which hang, 2 of them due at the start, 2 attempts, 1 refused write, 1 restart, fairness |
| `approvals` | one verdict, one note, nothing held for ever | 2 requests to one approver, 2 calls and the sweep, 2 clicks, 1 error of a database, 2 restarts, fairness |
| `tasks` | everything about a series | 3 occurrences, pause after 1 failure, 1 try, 3 commands, 1 refused write, 1 restart, fairness |
| `runtime_duplicate`, `directory_served`, `session_retry` | see [disagreements](#disagreements-between-code-and-documents) | the smallest that show them |

Why the bounds are enough. *Effects*: effects of different messages share only the event
loop and the limiter, and the latter has its own run; with two deliveries, two handlers
and two restarts a message is handled concurrently, or again after a crash; the
observation period ends at time 1, within the run. *Limits*: three messages mean deletions
and replies beyond a limit of one, and time 3 leaves the first window; the third message
is within the interval of the second and not of the first, and every order of judging is
possible. *Directory*: two failures hit any two awaits; the taxonomies share a version and
each has one of its own, so a cache can be stale, still valid, or valid again.
*Connection*: the budget can be used up, restored and used up again; three messages are
enough for one to be sending, one to be in the flush and one to be queued. *Session*: two
messages are a batch and a follow-up; a container incarnation is reused once it is gone,
so there are any number of them over time and two at once, which is what must not happen;
with one try a message is retried, then given up; a crash, a restart and a refusal can
come together in any order. *Delivery*: both chains can stand at the same session, and
each in a call that hangs, in the same life or the next: one hanging session is skipped,
two stop both chains, and a third session, whose container runs, shows who is served; its
two messages are a first and a later one; with two attempts a message is retried, then
given up, and the refused write makes that fail once; that two of the messages are due at
the start only spares the states before. *Approvals*: two requests share the approver's
direct message, so one arming can replace another; two clicks are both on one card, from a
pending or a held row, or one on each, the error can meet any await of any call, and the
second restart meets what the first one left behind. *Tasks*: three occurrences are one
that ran, its successor and one added by a command; three commands include create, so that
any two others follow, among them cancel then run now and pause then resume; the pause
after one failure is reached with an occurrence to spare. What TLC shows for these
instances TLAPS proves for all, where the property is one of safety.

Deadlock is not checked where bounded clocks, deliveries, publishes, opens, clicks and
rows bring a model to rest, nor in `delivery`, where both chains may come to wait for
ever (which is one of the things it shows); it is checked in the runs of `SessionRunner`,
whose timers never stop. Handlers, messages and containers of a session are
interchangeable, and the two larger runs without liveness use that symmetry.

What the runs show is in `PROJECT.json` ("about"); the properties are stated
in words above each definition.

## Fairness

* `GroupGuardRuntime`: weak fairness of each handler's `Step`, for
  `EveryClaimSettles`. Every await of
  `handle()` ends: the group lookup and the sends by Baileys' query timeout, the
  classifier by its abort signal (`ollama-classifier.ts:113`). WhatsApp owes
  nothing: `Land` and `Deliver` are not fair.
* `GroupGuardDirectory`: weak fairness of the refresh. `fetch` aborts after its
  timeout (`data.ts:140`), so does `prewarm`; `setInterval` keeps firing until
  `close()`. Publishing, failing and restarting are not fair.
* `WhatsAppConnection`: timers fire, `connectSocket`'s awaits end, Baileys
  reports the end of an attempt to open and answers or fails a send. A
  connection that is open may stay so for ever.
* `SessionRunner`: the sweep's timer fires (`host-sweep.ts:157`), promises settle,
  delays and the ceiling pass, and a turn that has no end goes quiet. Of ever new
  attempts, some spawn, boot and poll succeed (strong fairness): otherwise docker
  or the gateway is down for good, or a container is killed each time before it
  polls. Nothing is asked of queries left open, hints, heartbeats and the router's
  wakes, so the liveness found is the sweep's own. `EveryMessageSettles` holds
  because crashes are bounded: see `session_retry` below.
* `HostDelivery`: each chain goes on, its timer fires again (`setTimeout` in the
  `finally` of each poll), and an adapter answers, by resolving or rejecting. A
  session in `Hanging` never answers: nothing in `delivery.ts` puts a deadline on an
  adapter's call, and `EveryDueMessageSettles` says what that costs.
* `Approvals`: the event loop runs each call on between its outside answers, the reason
  window passes and the sweep ticks. No approver has to click or reply, no channel and
  no action's handler has to answer. Databases may throw, as often as the bound allows.
* `TaskSeries`: only the sweep is fair. It always has a next step; whether a wake or a
  write succeeds is left open. Time, the runner and the operator owe nothing.

## The proofs

Checked by TLAPS for every value of the constants under the named assumptions
(`SafetyAssumption`, `RuntimeAssumption`, `GuardsListedOnce`, `DirectoryAssumption`,
`ConnectionAssumption`, `ConstantsAssumption`, `DeliveryAssumption`, `ApprovalAssumption`,
`SeriesAssumption`): limits are natural numbers, windows, threshold, cooldown and attempts
positive, bounds natural, `None` and `Torn` nothing else, every outbound row in one
session. The bounds that keep TLC's runs finite are natural numbers of any size. Every
passing run evaluates the assumptions of its module.

Each safety property of the passing runs is proved. So are some that no run
checks, because they follow from what the runs check, repeat part of it, or are the
safety a liveness property rests on; the names of their theorems are below.

Five theorems say that a component implements its abstract specification. For four of
them what follows of the specification is carried over to the component. It is proved
from the abstract steps alone, with nothing of chains, containers, calls or sockets:
`SettledRightly`, `NothingRevoked` (`Inbox`), `SentWasAsked`, `DoneIsDone`
(`SendQueue`), `OneFateEach`, `VerdictsFinal` (`Verdicts`), `DeliveredArrived`,
`SettledStaysSettled` (`Outbox`).

**`GroupGuardRuntimeProofs`.** Its core is `NextIsEffectStep`: as far as effects
go, every action is one of five kinds (quiet, claim, start, settle, land). All
theorems about effects follow from the kinds, so each is proved once and not for
fifteen actions.

* `TypeCorrect`.
* `EffectInvariant`: `AtMostOneAttempt` is not inductive, since it says nothing
  of who may start. `EffectInv` adds that a claimed row has one holder, that a
  held row is pending and of the holder's kind, that what was attempted is held
  or recorded, and that landings do not exceed attempts. From it: `AtMostOnce`,
  `Planned`, `Truthful`, `SettledFinal`.
* `Implements`: under `PlanOf` (a delivered observation counts as observed) each
  kind of step is a step of `EffectProtocol` or a stutter.
* `TeardownStops`, `DeleteUnlocked`, from `LockInv`: after teardown nobody is
  between claim and start, and a claimed deletion stays unlocked because time
  only passes.
* `CircuitBlocks`, `BudgetKept`: as far as the limiter goes, every action is one
  of four kinds. For the budget the invariant says that the reservations the
  controller still holds include every permit of the current window, which the
  code's filter makes true; the sliding-window count then needs the cardinality
  theorems.
* `NoClaimForgotten`, `NoOrphanRows`: what `EveryClaimSettles` rests on. Each step leaves
  every claim with its call, or settles its row, unless the ledger is closed or the
  process ends; so in a first process a pending row always belongs to a call under way.
* `SlowModeKept`: `recentCount` throws away what is older than the cutoff of the message
  it judges, whichever that is, so the engine's list is no record of whom it let through,
  and `SlowModeHolds` is not inductive. `SlowModeInv` says what survives: a message let
  through unrecorded is *covered*, by its own timestamp or by a younger one of its
  sender. Whatever prunes a cover is judged, recorded in the list and younger still,
  hence covers it in turn; and a neighbour judged later finds the cover in its window,
  since the window has no upper bound.
* `NoSpamKept`: with a maximum above one, one cover is not enough, each message has to be
  counted itself. `NoSpamInv`: a judged message is recorded in the ledger, or on the list,
  or too old for a message already judged. For the newest message of its sender the last
  case is outside its window, so the list holds every message let through in it, and the
  guard's count bounds their number. For a message that arrives late it does not: see
  [below](#disagreements-between-code-and-documents).

**`GroupGuardDirectoryProofs`.** The inductive invariant is the conjunction of
the safety invariants with `RefreshOrder` (what a refresh has validated, written
and renamed at each place) and `BootOrder` (what is set before the service is
up). From it `CacheWhole`,
`MemoryDurable`, `ValidInMemory`, `ColdStart` and `LastValid`.

**`WhatsAppConnectionProofs`.** `ConnectionInv` adds to `OneConnection` that the
stable timer is set only while a socket is open and that `tries` is the code's own
counter, which is why the budget bounds the reconnects. `StaysUnderWay` is what
`KeepsReconnecting` rests on: with no socket, no `connectSocket()` and no timer the
adapter has been torn down, logged out, used up its budget or failed its setup.
`NothingDropped` needs the types of the queue and nothing else. `KeepsSendQueue` needs
`PlaceInv`: a message is in one place, and queued once. Were it queued twice, or queued
while it is sent, a flush would send what another call is sending. Then each message
moves by itself (`MessageMoves`), and a flush that confirms one message moves the next
in the same step.

**`SessionRunnerProofs`.** `OneRunner` says nothing of the registry and is not
inductive. `RegistryInv` adds why it holds: without a refusal, whoever lives is in
the entry and not being finalised, a wake that prepares has no entry, and a dead
container holds no messages. `OneAtMost` follows. `HalvesAgree` needs more: a message
the host gave up has no claim *and* nobody holds it, or a late result would
complete it (`MailboxInv`); it is the registry that guarantees this at each reset,
so `Agreement` rests on both invariants. `SettledFinal` needs only the types.
`SessionKeepsInbox` takes the abstract step of each message on its own (`MessageMoves`):
a sweep completes one message, retries another and gives up a third in one go. It rests
on the invariants of registry and mailbox, on absent rows having no claim
(`ArrivedInvariant`), and on refusals never being taken back (`RefusalsStay`).

**`HostDeliveryProofs`.** `QueueInv` says who is in flight and what a chain's copies
say of the table: two chains never drain one session, what a chain has read as
delivered is delivered, and what it has still to send is not settled. From it
`DuplicatesExplained`, and `DeliveryRefinesOutbox` with the calls in flight mapped to
the outbox's open transmissions. `FirstDelivery` needs that a message announced as
first is settled, so that the next drain of its session reads a table that is not
empty; `RetriesAreBounded`, that `tries` follows the code's counter. `SessionsAreFreed` is
the converse of the guard, which `EveryDueMessageSettles` rests on: a session in flight
is one that a chain drains, whatever failed on the way out.

**`ApprovalsProofs`.** Everything rests on the compared status: `OpenInv` (a row still to
be decided has no verdict), `OwnerInv` and `OneOwner` (a call that is to carry out, or to
tell, has the verdict and is the only one). `ApprovalsKeepVerdicts`: a step decides,
carries out, tells, or does none of the three.

**`TaskSeriesProofs`.** `NextSeries` reduces the steps to quiet ones (no row comes to
life, nothing that recurs changes), the six commands, and the four parts of a re-arming;
the theorems follow by these kinds. `SeriesInv` says that what recurs is live or finished,
and that a finished recurring occurrence is on the list of the sweep at work or in
`refused`: so a session closes with nothing to re-arm but what was refused a write
(`ClosedIsSpent`, `SpentCarriers`), and the armed occurrences change from none to some by
command or by a fork, from some to none by command or in such a pass (`CommandsRule`).
`BrokenIsPaused` needs two accounts. `BudgetInv` bounds the occurrences that can run
without a further re-arming; `StreakInv` bounds the failures in a row together with all
that can still run and fail. A re-arming uses up one account to add to the other, which is
why neither is inductive alone.

Only model-checked: liveness (`EveryClaimSettles`, `GoodSourceIsLoaded`,
`KeepsReconnecting`, `EveryMessageSettles`, `DeadEntriesGo`, `EveryDueMessageSettles`,
`HeldRejectionsEnd`, `RejectionsAreTold`, `FinishedOccurrencesAreRearmed`), which TLAPS
does not do here. For three of them the safety they rest on is proved (`NoClaimForgotten`,
`StaysUnderWay`, `SessionsAreFreed`). The properties of the runs that expect a violation
do not hold, so there is nothing to prove.

## Abstractions, and what they leave out

* The clock never goes back (`Date.now()` may). All times of one run are small
  numbers; windows and cooldowns are given in them.
* A socket call that resolves has been carried out: that is what the code takes a
  message ID, or the resolved deletion, to mean.
* A stateless guard is the set of messages it rejects; the rate guards are modelled
  in full. `guards` of a policy are the enabled ones, each listed once
  (`GuardsListedOnce`): the engine keys its counters by guard, so listing one
  twice would count a message twice.
* The budget for `moderation-dm` is configured but no code reserves it.
* A batch's order of messages is not kept: any handler may take any message.
  That allows more interleavings than batches do, never fewer.
* The responder's answer is any answer after any delay; which providers it names
  is a pure function.
* Ledger rows a dead process left pending stay so; no code reconciles them.
* A ledger throws in the model when it is closed, and never while it is open. Were SQLite
  to fail in `markDelivered` after WhatsApp has acted (`runtime.ts:108`), the `catch` would
  count a failure for a success, and a second error would leave `handle()`: neither is
  modelled, and no property here would see it.
* `SettledRowsAreFinal` and `BudgetHolds` are about what the code promises: a
  restart resets budgets and circuit.
* A socket reports its close once. Pairing, QR codes, media, reactions, LID
  translation and group sync are left out: none of them touches the state
  modelled, except that translation only adds awaits before `handle()`.
* `deliver()` is modelled for text. A send that is rejected although WhatsApp took
  the message is queued and sent again; the host is told nothing either way.
* A message taken from the queue by a flush that fails is lost: the model has it
  (`FlushEnds`, "lost" in `SendQueue`).

* `SessionRunner` has messages that trigger and nothing else: no context rows, tasks,
  scripts, commands or `on_wake` rows, and no limit of messages per prompt. SQLite
  errors in the runner and Bash's declared timeout, which only lengthens the
  tolerances, are left out. A kill by another module than the sweep (restart,
  self-modification) is a `Crash`, with the same end. Containers that are prepared
  and never started, and the `container_status` column, are not modelled: nothing here
  reads them. `messages_out` belongs to host delivery.
* `HostDelivery`: `deliverMessage` is a call with any outcome at its await. Where it
  routes, whom it permits, files, threads and system actions decide which outcome, not
  what the chain does next; what a handler inside the host does is an arrival. A handler
  that throws after its work has the same place as an adapter that does. Typing indicators
  are left out, and the hooks except for `firstDelivery`. One `ReadFails` stands for every
  error on the way to the queue.
* `Approvals`: one approver per request, as `requestApproval` picks one. Who may click
  (`response-handler.ts`) is a guard that only removes clicks. The action's handler is a
  call with any outcome; that it may ask for another approval is another request. Not
  modelled: OneCLI credential approvals, interactive questions (`modules/interactive`: a
  row is deleted by the first answer), requests without an adapter, sessions deleted
  under a request.
* `TaskSeries`: one series per session, which is what the commands create. Cron
  arithmetic, time zones and the length of the backoff are left out: an occurrence falls due
  some time later. Not modelled: `delete` (it removes rows, so the history that the
  streak reads goes with them), `cancel --all` (the same on every session), updates of
  prompt, script or time, run logs. A runner's work is `Claim`, then `RunEnds`; what the
  registry and the wake do is in `SessionRunner`, so here a wake succeeds or does not.

### Not modelled

The map covers the code that carries protocol state. Most of the repository does
not: about half of its lines are setup, update and migration scripts
(`setup/`, `scripts/`), run once by an operator, linear, and correct or not by what they
print and write; other channels (`chat-sdk-bridge.ts`) and providers are adapters to
libraries whose behaviour is not in the repository; the central database, permissions,
templates and the command line are single SQL statements and formatting. A state
machine for one of these would say what the statement says. What has protocol state and
is still open is in [the plan](#the-plan), and each component's note in `PROJECT.json` says
why it is not or only partly modelled.

## Disagreements between code and documents

1. `runtime_duplicate`: README.md asks that duplicate deliveries be ignored. In an
   enforced slow-mode group, a message that passed is deleted when it is delivered
   again, because the guard finds its own timestamp (`moderation.ts:186-192`).
2. `directory_served`: the timer's refresh updates a variable of `create()` that
   the runtime does not read (`bootstrap.ts:104`, `128`): the process answers from
   the snapshot of its boot until it is restarted.
3. `session_retry`: after a crash the sweep wakes a new container before it looks at
   the old one's claims, and the new one drops them, so the try is not counted:
   `MAX_TRIES` and the backoff never apply to a message that crashes its container,
   although `docs/architecture.md:535` and the header of `host-sweep.ts` say they do.

Seen while modelling, without a run of their own:

* *Moderation.* The no-spam guard names a maximum per window (`moderation.ts:183`), and
  counts messages after the window as well when one is judged late (`moderation.ts:127`).
  It can also count too few then: `recentCount` forgets what is too old for the message at
  hand, so with a maximum of two per interval of three, messages sent at 0, 1 and 4 pass,
  and one sent at 2 that is judged last passes too, the third within one interval.
  `NoSpamKept` is about a sender's newest message for that reason; slow mode holds in any
  order.
* *Connection.* A `connectSocket()` that is awaiting when the adapter is torn down
  connects afterwards (`whatsapp.ts:698`), which the comment at 763 says must not
  happen. A budget used up before the first open leaves `setup()` awaiting for ever
  (`whatsapp.ts:492`). A flush that fails loses the message it has taken out
  (`whatsapp.ts:597`), and a message queued on an open connection waits for the
  next open (`whatsapp.ts:685`).
* *Session.* The claim a crash leaves can make the sweep kill a fresh container that is
  slow to boot, which the comment at `host-sweep.ts:342` means to prevent; the
  output-sent protection of `docs/architecture.md:537` is not in the code; a follow-up is
  acknowledged when it is pushed, before its turn, so a crash in that turn loses it; when
  `markContainerRunning` throws after a start, the container goes on without an entry
  (`container-runner.ts:249`) and the next wake starts a second one.
* *Delivery.* Attempts are counted in memory, so a host that restarts between them starts
  again at one. The comment on `firstDelivery` (`delivery.ts:490`) says that exactly one
  row per session carries it: none does when the first row failed for good, which puts it
  into the table without an announcement. No adapter call has a deadline
  (`delivery.ts:455`): one that never settles in the slow chain leaves all sessions
  unserved whose container does not run, and two, one per chain, stop the delivery of every
  session until the host is restarted.
* *Approvals.* Between the transition to `rejected` (`finalize.ts:36`) and the note
  (`finalize.ts:42`) a crash, or a mailbox that throws, leaves the agent untold for ever:
  nothing catches the error, and no later step reads a rejected row.
  `reason-capture.ts:12` and 160 say of a rejection held for a reason that the agent
  always gets its decision. In the sweep such an error also ends the pass for the rows
  behind it (`reason-capture.ts:165`), which wait for the next tick. A card whose delivery
  fails after it was shown deletes a row an approver has already acted on
  (`primitive.ts:285`).
* *Tasks.* A crash, or a refused clear, between the insert and the clear of a re-arming
  forks the series: both occurrences recur, and a series cancelled before the next sweep
  comes back (`recurrence.ts:96`). A cancel that meets a finished occurrence not yet
  re-armed touches only live rows, so a series with an added run is cancelled with success
  and re-armed all the same. A pause of an occurrence at work is lost with its
  acknowledgement. `update --recurrence` gives every paused or future row of the series
  the recurrence, an added run too, which makes a second chain of the kind the comment at
  `cli/resources/tasks.ts:395` guards against. When the insert of a re-arming is refused
  once (`recurrence.ts:113`) and nothing else is live, the same pass closes the session
  (`host-sweep.ts:226`), and the recurring row in it is never looked at again: the series
  has ended without a command and without a word, which `mailbox/sqlite/tasks.ts:150`
  means to prevent for runs that fail. `tasks run` can insert into a session that has just
  been closed, which no sweep serves.

## The plan

Done, the riskiest first: `AccountSafety`, `Moderation`, `EffectProtocol` and
`GroupGuardRuntime`; `GroupGuardDirectory`; `WhatsAppConnection`; `SessionRunner`;
`HostDelivery` with `Outbox`; `Approvals` with `Verdicts`; `TaskSeries`; the proofs of each.

Open, in order:

1. `EnforcementMode`: `setEnforcementMode` with a crash between its two writes, composed
   with the locks of `GroupGuardRuntime`: the promise that a deletion is never
   enabled early.
2. `CategoryClassifier`: the cache under concurrent calls and failures.
3. The router's fan-out to sessions, and the queue of `WhatsAppConnection` behind
   `HostDelivery`: the outbox's "delivered" then means "queued", and a message lost by a
   flush counts as delivered.
4. `SessionRunner` composed with `TaskSeries`, whose runner and wake are simpler; the
   runner's writes to `messages_out` composed with `HostDelivery`.
5. `StartupBackoff`; interactive questions and OneCLI approvals as variants of `Approvals`.
6. What the other liveness properties rest on, as theorems of safety.
