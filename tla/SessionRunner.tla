--------------------------- MODULE SessionRunner ---------------------------
(* One session of the agent platform: its inbound mailbox, the host sweep,  *)
(* the container registry of the host and the poll loop of the runner.      *)
(*                                                                          *)
(* The host owns messages_in (inbound) and the runner processing_ack (ack); *)
(* each learns of the other's work only by reading the other's table.  The  *)
(* host is single-threaded, so an action is what it runs between two        *)
(* awaits; a runner is another process and interleaves with all of it.      *)
EXTENDS Naturals, FiniteSets

CONSTANTS
  Messages,      \* the trigger messages the router may write
  Containers,    \* the container incarnations alive at one time
  None,
  MaxTries,      \* MAX_TRIES
  MaxCrashes,    \* bound: containers that die on their own
  MaxRestarts,   \* bound: restarts of the host
  MaxRefusals    \* bound: failures of docker, or of recording a start

ASSUME ConstantsAssumption ==
  /\ MaxTries \in Nat
  /\ MaxCrashes \in Nat
  /\ MaxRestarts \in Nat
  /\ MaxRefusals \in Nat
  /\ None \notin Containers

VARIABLES
  inbound,    \* messages_in: status, tries, and whether process_after is ahead
  ack,        \* processing_ack; a 'processing' row is claimed, beaten or stale
  runner,     \* what each container's process is doing
  batch,      \* the initial batch of its query
  held,       \* follow-ups it has claimed and not yet pushed
  silent,     \* no heartbeat for ABSOLUTE_CEILING_MS
  entry,      \* activeContainers.get(session)
  finished,   \* the entry is being finalised
  waking,     \* the promise in wakePromises
  sweeping,   \* where sweepSession is
  crashes, restarts, refusals

mailbox == <<inbound, ack>>
process == <<runner, batch, held>>
host == <<entry, finished, waking, sweeping>>
counters == <<crashes, restarts, refusals>>
vars == <<inbound, ack, runner, batch, held, silent, entry, finished, waking,
          sweeping, crashes, restarts, refusals>>

(* A 'processing' row carries the time of the claim.  What the SLA reads of *)
(* it: claimed = young or its runner's heartbeat unknown, beaten = the      *)
(* heartbeat file is newer than the claim, stale = older than the tolerance *)
(* with no heartbeat since.                                                 *)
Claims == {"claimed", "beaten", "stale"}
AckStates == Claims \union {"none", "completed"}
Settled == {"completed", "failed"}
RunnerStates == {"gone", "booting", "polling", "busy", "open", "hung"}

Row(status) == [status |-> status, tries |-> 0, deferred |-> FALSE]

Live == {c \in Containers : runner[c] # "gone"}

Processing == {m \in Messages : ack[m] \in Claims}

TypeOK ==
  /\ inbound \in [Messages -> [status : {"absent", "pending"} \union Settled,
                               tries : 0..MaxTries, deferred : BOOLEAN]]
  /\ ack \in [Messages -> AckStates]
  /\ runner \in [Containers -> RunnerStates]
  /\ batch \in [Containers -> SUBSET Messages]
  /\ held \in [Containers -> SUBSET Messages]
  /\ silent \in BOOLEAN
  /\ entry \in Containers \union {None}
  /\ finished \in BOOLEAN
  /\ waking \in {"no", "preparing", "started"}
  /\ sweeping \in {"no", "waking", "woken"}
  /\ crashes \in 0..MaxCrashes
  /\ restarts \in 0..MaxRestarts
  /\ refusals \in 0..MaxRefusals

Init ==
  /\ inbound = [m \in Messages |-> Row("absent")]
  /\ ack = [m \in Messages |-> "none"]
  /\ runner = [c \in Containers |-> "gone"]
  /\ batch = [c \in Containers |-> {}]
  /\ held = [c \in Containers |-> {}]
  /\ silent = FALSE
  /\ entry = None
  /\ finished = FALSE
  /\ waking = "no"
  /\ sweeping = "no"
  /\ crashes = 0
  /\ restarts = 0
  /\ refusals = 0
-----------------------------------------------------------------------------
(* The host: inbound messages, wakes and spawns.                            *)

\* The router writes the row; it wakes the session in a later step, if it
\* lives to do so.
Arrive(m) ==
  /\ inbound[m].status = "absent"
  /\ inbound' = [inbound EXCEPT ![m] = Row("pending")]
  /\ UNCHANGED <<ack, process, silent, host, counters>>

\* retryWithBackoff's delay passes: process_after is no longer ahead.
Elapse(m) ==
  /\ inbound[m].deferred
  /\ inbound' = [inbound EXCEPT ![m].deferred = FALSE]
  /\ UNCHANGED <<ack, process, silent, host, counters>>

\* wakeContainer is a no-op with an entry, and joins a wake in flight.
MayWake == entry = None /\ waking = "no"

\* Any module may wake the session: the router, approvals, another agent.
Wake ==
  /\ MayWake
  /\ waking' = "preparing"
  /\ UNCHANGED <<mailbox, process, silent, entry, finished, sweeping, counters>>

\* The wake promise settles, and resumes a sweep that awaits it.
WakeSettles ==
  /\ waking' = "no"
  /\ sweeping' = IF sweeping = "waking" THEN "woken" ELSE sweeping

\* spawnContainer throws before a container runs: wakeContainer answers false.
SpawnFails ==
  /\ waking = "preparing"
  /\ WakeSettles
  /\ UNCHANGED <<mailbox, process, silent, entry, finished, counters>>

\* The rest of spawnContainer up to the start: the orphan heartbeat file goes,
\* so no heartbeat is newer than a leftover claim any more; the entry is
\* registered before the start.
Spawn(c) ==
  /\ waking = "preparing"
  /\ runner[c] = "gone"
  /\ ack' = [m \in Messages |-> IF ack[m] = "beaten" THEN "claimed" ELSE ack[m]]
  /\ silent' = FALSE
  /\ entry' = c
  /\ finished' = FALSE
  /\ runner' = [runner EXCEPT ![c] = "booting"]
  /\ waking' = "started"
  /\ UNCHANGED <<inbound, batch, held, sweeping, counters>>

\* afterStart: markContainerRunning returns.
Started ==
  /\ waking = "started"
  /\ WakeSettles
  /\ UNCHANGED <<mailbox, process, silent, entry, finished, counters>>

\* afterStart throws: the entry goes, though nobody stops the container.  If it
\* is being finalised, the error waits for that.
StartFails ==
  /\ waking = "started"
  /\ ~finished
  /\ refusals < MaxRefusals
  /\ refusals' = refusals + 1
  /\ entry' = None
  /\ WakeSettles
  /\ UNCHANGED <<mailbox, process, silent, finished, crashes, restarts>>

\* The hub confirms the end of a container the host did not stop.  The hint it
\* needs may never come.
Terminal ==
  /\ entry # None
  /\ runner[entry] = "gone"
  /\ ~finished
  /\ finished' = TRUE
  /\ UNCHANGED <<mailbox, process, silent, entry, waking, sweeping, counters>>

\* finish, after markContainerStopped.
Finish ==
  /\ finished
  /\ entry' = None
  /\ finished' = FALSE
  /\ UNCHANGED <<mailbox, process, silent, waking, sweeping, counters>>
-----------------------------------------------------------------------------
(* The host sweep.                                                          *)

\* Faulty: a late ack rewrites a settled row.
FaultySynced(rows) ==
  [m \in Messages |->
     IF ack[m] = "completed"
     THEN [rows[m] EXCEPT !.status = "completed"] ELSE rows[m]]

\* applyProcessingAcks never reopens or rewrites a settled row.
Synced(rows) ==
  [m \in Messages |->
     IF ack[m] = "completed" /\ rows[m].status \notin Settled
     THEN [rows[m] EXCEPT !.status = "completed"] ELSE rows[m]]

DueIn(rows) == {m \in Messages : rows[m].status = "pending" /\ ~rows[m].deferred}

\* Faulty: the tries are never used up.
FaultyRetried(row) == [row EXCEPT !.tries = @ + 1, !.deferred = TRUE]

\* Faulty: the backoff is set, the try is not counted.
FaultyRetriedFree(row) ==
  IF row.tries >= MaxTries THEN [row EXCEPT !.status = "failed"]
  ELSE [row EXCEPT !.deferred = TRUE]

\* retryWithBackoff, or markMessageFailed once the tries are used up.
Retried(row) ==
  IF row.tries >= MaxTries THEN [row EXCEPT !.status = "failed"]
  ELSE [status |-> row.status, tries |-> row.tries + 1, deferred |-> TRUE]

\* Faulty: the clean-up deletes every ack, not only the claims.
FaultyResetStuck(rows) ==
  /\ inbound' = [m \in Messages |->
                   IF m \in Processing /\ m \in DueIn(rows)
                   THEN Retried(rows[m]) ELSE rows[m]]
  /\ ack' = [m \in Messages |-> "none"]

\* resetStuckProcessingRows: every claimed row that is still pending and due is
\* retried, and every claim goes, also those of rows it skipped.
ResetStuck(rows) ==
  /\ inbound' = [m \in Messages |->
                   IF m \in Processing /\ m \in DueIn(rows)
                   THEN Retried(rows[m]) ELSE rows[m]]
  /\ ack' = [m \in Messages |-> IF m \in Processing THEN "none" ELSE ack[m]]

\* Faulty: no absolute ceiling.
FaultyStuck == \E m \in Messages : ack[m] = "stale"

\* decideStuckAction: the absolute ceiling, or a claim gone quiet.
Stuck == silent \/ \E m \in Messages : ack[m] = "stale"

\* docker stop and docker rm --force run to their end inside killContainer.
\* The daemon may refuse both; finalisation starts in either case.
Kill(c) ==
  /\ finished' = TRUE
  /\ \/ /\ runner' = [runner EXCEPT ![c] = "gone"]
        /\ batch' = [batch EXCEPT ![c] = {}]
        /\ held' = [held EXCEPT ![c] = {}]
        /\ UNCHANGED refusals
     \/ /\ runner[c] # "gone"
        /\ refusals < MaxRefusals
        /\ refusals' = refusals + 1
        /\ UNCHANGED process

\* enforceRunningContainerSla: a stuck runner is killed and its rows are reset
\* before anything else runs on the host.
EnforceSla(rows) ==
  /\ entry # None
  /\ IF Stuck
     THEN Kill(entry) /\ ResetStuck(rows)
     ELSE /\ inbound' = rows
          /\ UNCHANGED <<ack, process, finished, refusals>>
  /\ UNCHANGED <<silent, entry, waking, crashes, restarts>>

\* maintainSessionMailbox with no runner.
MaintainIdle(rows) ==
  /\ entry = None
  /\ ResetStuck(rows)
  /\ UNCHANGED <<process, silent, entry, finished, waking, counters>>

\* sweepSession up to its first wait: the acks are mirrored; due rows and no
\* runner wake the session first, and the claims are looked at afterwards.
Sweep ==
  /\ sweeping = "no"
  /\ LET rows == Synced(inbound) IN
     IF DueIn(rows) # {} /\ entry = None
     THEN /\ sweeping' = "waking"
          /\ waking' = IF waking = "no" THEN "preparing" ELSE waking
          /\ inbound' = rows
          /\ UNCHANGED <<ack, process, silent, entry, finished, counters>>
     ELSE /\ EnforceSla(rows) \/ MaintainIdle(rows)
          /\ UNCHANGED sweeping

\* The rest of sweepSession once its wake has settled: a runner just woken is
\* not held to the SLA.
SweepResumes ==
  /\ sweeping = "woken"
  /\ sweeping' = "no"
  /\ IF entry = None
     THEN MaintainIdle(inbound)
     ELSE UNCHANGED <<mailbox, process, silent, entry, finished, waking, counters>>
-----------------------------------------------------------------------------
(* The runner.                                                              *)

\* clearStaleProcessingAcks, before the first poll.
Boot(c) ==
  /\ runner[c] = "booting"
  /\ ack' = [m \in Messages |-> IF m \in Processing THEN "none" ELSE ack[m]]
  /\ runner' = [runner EXCEPT ![c] = "polling"]
  /\ UNCHANGED <<inbound, batch, held, silent, host, counters>>

\* getPendingMessages: a row with any ack is not handed out again.
Unclaimed == {m \in DueIn(inbound) : ack[m] = "none"}

Acked(ms, state) == [m \in Messages |-> IF m \in ms THEN state ELSE ack[m]]

\* runPollLoop claims the batch and opens a query with it.
Claim(c) ==
  /\ runner[c] = "polling"
  /\ Unclaimed # {}
  /\ ack' = Acked(Unclaimed, "claimed")
  /\ batch' = [batch EXCEPT ![c] = Unclaimed]
  /\ runner' = [runner EXCEPT ![c] = "busy"]
  /\ UNCHANGED <<inbound, held, silent, host, counters>>

Beat(a) == [m \in Messages |-> IF a[m] \in Claims THEN "beaten" ELSE a[m]]

\* An event of a turn in progress touches the heartbeat file.
Heartbeat(c) ==
  /\ runner[c] = "busy"
  /\ ack' = Beat(ack)
  /\ silent' = FALSE
  /\ UNCHANGED <<inbound, process, host, counters>>

\* A result ends the turn and completes the initial batch; the query stays open.
Result(c) ==
  /\ runner[c] = "busy"
  /\ ack' = Beat(Acked(batch[c], "completed"))
  /\ silent' = FALSE
  /\ runner' = [runner EXCEPT ![c] = "open"]
  /\ UNCHANGED <<inbound, batch, held, host, counters>>

\* The follow-up poll claims what has arrived since, then awaits its scripts.
FollowUp(c) ==
  /\ runner[c] \in {"busy", "open"}
  /\ held[c] = {}
  /\ Unclaimed # {}
  /\ ack' = Acked(Unclaimed, "claimed")
  /\ held' = [held EXCEPT ![c] = Unclaimed]
  /\ UNCHANGED <<inbound, runner, batch, silent, host, counters>>

\* Pushed into the open query, follow-ups are completed before their turn runs.
Push(c) ==
  /\ runner[c] \in {"busy", "open"}
  /\ held[c] # {}
  /\ ack' = Acked(held[c], "completed")
  /\ held' = [held EXCEPT ![c] = {}]
  /\ runner' = [runner EXCEPT ![c] = "busy"]
  /\ UNCHANGED <<inbound, batch, silent, host, counters>>

\* The query ends or throws: its batch is completed all the same.  Follow-ups
\* held at that moment are dropped and keep their claims.
QueryEnds(c) ==
  /\ runner[c] \in {"busy", "open"}
  /\ ack' = Acked(batch[c], "completed")
  /\ batch' = [batch EXCEPT ![c] = {}]
  /\ held' = [held EXCEPT ![c] = {}]
  /\ runner' = [runner EXCEPT ![c] = "polling"]
  /\ UNCHANGED <<inbound, silent, host, counters>>

\* The turn never produces another event.
Hang(c) ==
  /\ runner[c] = "busy"
  /\ runner' = [runner EXCEPT ![c] = "hung"]
  /\ UNCHANGED <<mailbox, batch, held, silent, host, counters>>
-----------------------------------------------------------------------------
(* Time, crashes and restarts.                                              *)

\* CLAIM_STUCK_MS pass without a heartbeat since the claim.
Age(m) ==
  /\ ack[m] = "claimed"
  /\ ack' = [ack EXCEPT ![m] = "stale"]
  /\ UNCHANGED <<inbound, process, silent, host, counters>>

\* ABSOLUTE_CEILING_MS pass without a heartbeat.
Silence ==
  /\ entry # None
  /\ ~silent
  /\ silent' = TRUE
  /\ UNCHANGED <<mailbox, process, host, counters>>

\* The process dies, or is killed by a command that does not touch the mailbox.
Crash(c) ==
  /\ runner[c] # "gone"
  /\ crashes < MaxCrashes
  /\ crashes' = crashes + 1
  /\ runner' = [runner EXCEPT ![c] = "gone"]
  /\ batch' = [batch EXCEPT ![c] = {}]
  /\ held' = [held EXCEPT ![c] = {}]
  /\ UNCHANGED <<mailbox, silent, host, restarts, refusals>>

\* Faulty: survivors are left alone and forgotten.
FaultyAdopts == entry' = None /\ UNCHANGED refusals

\* adoptRunningSessions: each container still running is registered, the last
\* one listed staying; none is if docker does not answer.  An adopted runner
\* without a heartbeat file is counted from its adoption.
Adopts ==
  \/ /\ entry' \in IF Live = {} THEN {None} ELSE Live
     /\ UNCHANGED refusals
  \/ /\ Live # {}
     /\ refusals < MaxRefusals
     /\ refusals' = refusals + 1
     /\ entry' = None

\* The host restarts: its maps are empty, the containers run on, and adoption
\* comes before the channels, the polls and the sweep.
Restart ==
  /\ restarts < MaxRestarts
  /\ restarts' = restarts + 1
  /\ Adopts
  /\ silent' \in {silent, FALSE}
  /\ finished' = FALSE
  /\ waking' = "no"
  /\ sweeping' = "no"
  /\ UNCHANGED <<mailbox, process, crashes>>
-----------------------------------------------------------------------------
HostStep ==
  \/ Wake \/ SpawnFails \/ Started \/ StartFails \/ Terminal \/ Finish
  \/ Sweep \/ SweepResumes \/ Restart

\* A query that never ends a turn goes quiet in the end.
TurnSettles(c) == Result(c) \/ QueryEnds(c) \/ Hang(c)

RunnerStep(c) ==
  \/ Spawn(c) \/ Boot(c) \/ Claim(c) \/ Heartbeat(c)
  \/ FollowUp(c) \/ Push(c) \/ TurnSettles(c) \/ Crash(c)

Next ==
  \/ HostStep
  \/ Silence
  \/ \E m \in Messages : Arrive(m) \/ Elapse(m) \/ Age(m)
  \/ \E c \in Containers : RunnerStep(c)

Spec == Init /\ [][Next]_vars

(* Timers fire and promises settle; of ever new attempts some spawn gets    *)
(* through docker and the gateway, some runner boots and polls before the   *)
(* ceiling kills it; a turn ends or goes quiet.  Nothing is asked of a      *)
(* query left open, of the hints of a container's end, or of heartbeats.    *)
Fairness ==
  /\ WF_vars(Sweep) /\ WF_vars(SweepResumes)
  /\ WF_vars(Started) /\ WF_vars(Finish) /\ WF_vars(Silence)
  /\ SF_vars(\E c \in Containers : Spawn(c))
  /\ SF_vars(\E c \in Containers : Boot(c))
  /\ SF_vars(\E c \in Containers : Claim(c))
  /\ \A m \in Messages : WF_vars(Elapse(m))
  /\ \A c \in Containers : WF_vars(TurnSettles(c))

FairSpec == Spec /\ Fairness
-----------------------------------------------------------------------------
(* Properties.                                                              *)

\* Concurrent wakes, crashes, kills and restarts of the host never leave two
\* containers running on the session's directory, unless docker refused to
\* stop or to list one, or the start of one could not be recorded.
OneRunner == refusals = 0 => Cardinality(Live) <= 1

\* The two halves of the mailbox never disagree for good: what the host calls
\* completed a runner completed, and what the host gave up no runner finishes.
HalvesAgree ==
  \A m \in Messages :
    /\ inbound[m].status = "completed" => ack[m] = "completed"
    /\ refusals = 0 /\ inbound[m].status = "failed" => ack[m] = "none"

\* A row once completed or failed stays so, also when a runner the host could
\* not stop completes it late.
SettledIsFinal ==
  [][\A m \in Messages : inbound[m].status \in Settled =>
       inbound'[m].status = inbound[m].status]_inbound

\* Every message that reaches the mailbox is completed or failed in the end,
\* whatever hangs, crashes or goes unnoticed on the way.
EveryMessageSettles ==
  \A m \in Messages :
    inbound[m].status = "pending" ~> inbound[m].status \in Settled

\* The registry does not keep a dead container for ever, although the hint of
\* its end may be lost: until it goes, every wake is a no-op.
DeadEntriesGo ==
  \A c \in Containers : entry = c /\ runner[c] = "gone" ~> entry # c \/ runner[c] # "gone"

\* "When the host detects a stale processing message or the container exits
\* with an error, it increments tries": no claim on a due message is released
\* without a try being counted.
ReleasedClaimIsCounted ==
  [][\A m \in Messages :
       m \in Processing /\ m \in DueIn(inbound) /\ ack'[m] = "none"
         => inbound'[m] # inbound[m]]_mailbox

\* The host's view of a message, and the runners', as the inbox sees them.
Status == [m \in Messages |-> inbound[m].status]
Tries == [m \in Messages |-> inbound[m].tries]
Done == {m \in Messages : ack[m] = "completed"}

Abstract ==
  INSTANCE Inbox WITH status <- Status, tries <- Tries, done <- Done,
                      supervised <- (refusals = 0)

\* Whatever crashes, hangs or restarts, a message is settled once, completed
\* only if a runner finished it, failed only when its tries are used up.
ImplementsInbox == Abstract!InboxSpec
=============================================================================
