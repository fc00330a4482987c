----------------------------- MODULE TaskSeries -----------------------------
(* One scheduled task series (src/src/modules/scheduling): the occurrences  *)
(* in the mailbox of its own session, the runner that works on them, the    *)
(* sweep that re-arms them and closes a spent session, and the operator's   *)
(* commands.                                                                *)
(*                                                                          *)
(* The rows are durable; where the sweep is dies with the host.  Commands   *)
(* run in the host's process between two awaits of the sweep.               *)
EXTENDS Naturals, FiniteSets

CONSTANTS
  MaxRows,      \* bound: occurrences of the series
  Cap,          \* SCRIPT_FAIL_PAUSE_CAP
  MaxTries,     \* MAX_TRIES of a stuck message
  MaxCommands,  \* bound: the operator's commands
  MaxFaults,    \* bound: writes the mailbox refuses
  MaxRestarts   \* bound: restarts of the host

Occurrences == 1..MaxRows  \* in the order of seq

ASSUME SeriesAssumption ==
  /\ MaxRows \in Nat \ {0} /\ Cap \in Nat \ {0} /\ MaxTries \in Nat
  /\ MaxCommands \in Nat /\ MaxFaults \in Nat /\ MaxRestarts \in Nat

VARIABLES
  session,   \* the task session in the central database
  status,    \* messages_in: the status of each occurrence
  recur,     \* occurrences whose recurrence is not NULL
  due,       \* occurrences whose process_after has passed
  tries,
  ack,       \* processing_ack
  running,   \* the session's container runs
  sweeping,  \* where sweepSession is
  todo,      \* finished occurrences it has still to re-arm
  current,   \* the one among them whose successor is inserted, or 0
  faults, restarts

\* History.
VARIABLES
  commands,  \* commands that took effect
  kept,      \* occurrences the operator has added or resumed
  forks,     \* occurrences re-armed whose recurrence was not cleared
  late,      \* occurrences added to a closed session
  refused    \* occurrences of which the sweep's last pass was refused a write

rows == <<status, recur, due, tries, ack>>
sweeper == <<sweeping, todo, current>>
history == <<commands, kept, forks, late, refused>>
vars == <<session, status, recur, due, tries, ack, running, sweeping, todo, current,
          faults, restarts, commands, kept, forks, late, refused>>

Stored == {r \in Occurrences : status[r] # "absent"}
Live == {r \in Occurrences : status[r] \in {"pending", "paused"}}
Finished == {r \in Occurrences : status[r] \in {"completed", "failed"}}
Carriers == recur \intersect (Live \union Finished)

TypeOK ==
  /\ session \in {"none", "active", "closed"}
  /\ status \in [Occurrences -> {"absent", "pending", "paused", "completed",
                                 "failed", "cancelled"}]
  /\ recur \subseteq Stored
  /\ due \subseteq Stored
  /\ tries \in [Occurrences -> 0..MaxTries]
  /\ ack \in [Occurrences -> {"none", "processing", "completed", "script-skip:error"}]
  /\ \A r \in Occurrences : ack[r] # "none" => r \in due
  /\ running \in BOOLEAN
  /\ sweeping \in {"idle", "waking", "rearming"}
  /\ todo \subseteq recur \intersect Finished
  /\ current \in todo \union {0}
  /\ faults \in 0..MaxFaults
  /\ restarts \in 0..MaxRestarts
  /\ commands \in 0..MaxCommands
  /\ kept \in Nat /\ forks \in Nat
  /\ late \subseteq Stored
  /\ refused \subseteq Stored

Init ==
  /\ session = "none"
  /\ status = [r \in Occurrences |-> "absent"]
  /\ recur = {}
  /\ due = {}
  /\ tries = [r \in Occurrences |-> 0]
  /\ ack = [r \in Occurrences |-> "none"]
  /\ running = FALSE
  /\ sweeping = "idle"
  /\ todo = {} /\ current = 0
  /\ faults = 0 /\ restarts = 0
  /\ commands = 0 /\ kept = 0 /\ forks = 0
  /\ late = {} /\ refused = {}

\* The row insertTask would write: seq grows.
IsNext(r) == r \notin Stored /\ \A q \in Occurrences : q < r => q \in Stored

Insert(r, as, again, now) ==
  /\ IsNext(r)
  /\ status' = [status EXCEPT ![r] = as]
  /\ recur' = IF again THEN recur \union {r} ELSE recur
  /\ due' = IF now THEN due \union {r} ELSE due
  /\ UNCHANGED <<tries, ack>>
-----------------------------------------------------------------------------
(* The operator, or an agent, on the command line (ncl tasks).              *)

Command == commands < MaxCommands /\ commands' = commands + 1

\* createScheduledTask: a session of its own and the first occurrence.
Create ==
  /\ session = "none" /\ Command
  /\ session' = "active"
  /\ \E again \in BOOLEAN, as \in {"pending", "paused"} : Insert(1, as, again, FALSE)
  /\ UNCHANGED <<running, sweeper, faults, restarts, kept, forks, late, refused>>

\* Faulty: the recurrence of the cancelled row stays.
FaultyCancel ==
  /\ Live # {} /\ Command
  /\ status' = [r \in Occurrences |-> IF r \in Live THEN "cancelled" ELSE status[r]]
  /\ UNCHANGED <<session, recur, due, tries, ack, running, sweeper, faults, restarts,
                 kept, forks, late, refused>>

Cancel ==
  /\ Live # {} /\ Command
  /\ status' = [r \in Occurrences |-> IF r \in Live THEN "cancelled" ELSE status[r]]
  /\ recur' = recur \ Live
  /\ UNCHANGED <<session, due, tries, ack, running, sweeper, faults, restarts,
                 kept, forks, late, refused>>

Switch(from, to) ==
  /\ \E r \in Occurrences : status[r] = from
  /\ Command
  /\ status' = [r \in Occurrences |-> IF status[r] = from THEN to ELSE status[r]]
  /\ UNCHANGED <<session, recur, due, tries, ack, running, sweeper, faults, restarts,
                 forks, late, refused>>

Pause == Switch("pending", "paused") /\ UNCHANGED kept

Resume ==
  /\ Switch("paused", "pending")
  /\ kept' = kept + Cardinality({r \in Occurrences : status[r] = "paused"})

\* updateTask with a recurrence: occurrences that are due stay as they are.
Update(again) ==
  LET rs == {r \in Live : status[r] = "paused" \/ r \notin due} IN
  /\ rs # {} /\ Command
  /\ recur' = IF again THEN recur \union rs ELSE recur \ rs
  /\ UNCHANGED <<session, status, due, tries, ack, running, sweeper, faults, restarts,
                 kept, forks, late, refused>>

\* runTaskCommand.  Its list of sessions is read before the insert, or replaced
\* by the caller's --session: the session may be closed.
RunNow(r) ==
  /\ session # "none" /\ Command
  /\ Insert(r, "pending", FALSE, TRUE)
  /\ kept' = kept + 1
  /\ late' = IF session = "closed" THEN late \union {r} ELSE late
  /\ UNCHANGED <<session, running, sweeper, faults, restarts, forks, refused>>
-----------------------------------------------------------------------------
(* Time and the container.                                                  *)

FallDue(r) ==
  /\ r \in Live \ due
  /\ due' = due \union {r}
  /\ UNCHANGED <<session, status, recur, tries, ack, running, sweeper, faults, restarts, history>>

\* The poll loop claims what is pending, due and not acknowledged.
Claim(r) ==
  /\ running /\ status[r] = "pending" /\ r \in due /\ ack[r] = "none"
  /\ ack' = [ack EXCEPT ![r] = "processing"]
  /\ UNCHANGED <<session, status, recur, due, tries, running, sweeper, faults, restarts, history>>

\* The turn ends, the pre-task script skips the run, or the script fails.
RunEnds(r, how) ==
  /\ running /\ ack[r] = "processing"
  /\ ack' = [ack EXCEPT ![r] = how]
  /\ UNCHANGED <<session, status, recur, due, tries, running, sweeper, faults, restarts, history>>

\* The container ends or dies.
Stop ==
  /\ running
  /\ running' = FALSE
  /\ UNCHANGED <<session, rows, sweeper, faults, restarts, history>>
-----------------------------------------------------------------------------
(* The sweep.                                                               *)

\* applyProcessingAcks.
Mirrored(r) ==
  IF ack[r] \notin {"none", "processing"} /\ r \notin Finished
  THEN IF ack[r] = "script-skip:error" THEN "failed" ELSE "completed"
  ELSE status[r]

\* resetStuckProcessingRows.
Stuck(r) == ack[r] = "processing" /\ status[r] = "pending" /\ r \in due

\* Faulty: the claims of a dead container stay.
FaultyUnclaimed == ack

Unclaimed == [r \in Occurrences |-> IF ack[r] = "processing" THEN "none" ELSE ack[r]]

\* Faulty: failed occurrences are not read.
FaultyRecurring(st) == {r \in recur : st[r] = "completed"}

\* getCompletedRecurring.
Recurring(st) == {r \in recur : st[r] \in {"completed", "failed"}}

\* maintainSessionMailbox up to its first await: the stuck rows are given back,
\* if nothing works on them, and the finished recurring ones read.
Maintain(reset) ==
  LET gone(r) == reset /\ Stuck(r) /\ tries[r] >= MaxTries
      back(r) == reset /\ Stuck(r) /\ tries[r] < MaxTries
  IN
  /\ status' = [r \in Occurrences |-> IF gone(r) THEN "failed" ELSE Mirrored(r)]
  /\ due' = {r \in due : ~ back(r)}
  /\ tries' = [r \in Occurrences |-> IF back(r) THEN tries[r] + 1 ELSE tries[r]]
  /\ ack' = IF reset THEN Unclaimed ELSE ack
  /\ todo' = Recurring(status')
  /\ refused' = {}
  /\ sweeping' = "rearming"
  /\ UNCHANGED <<recur, current>>

DueCount == Cardinality({r \in due : Mirrored(r) = "pending"})

\* The sweep finds a due occurrence and no container, and awaits the wake.
SweepWakes ==
  /\ session = "active" /\ sweeping = "idle" /\ ~ running /\ DueCount > 0
  /\ status' = [r \in Occurrences |-> Mirrored(r)]
  /\ sweeping' = "waking"
  /\ UNCHANGED <<session, recur, due, tries, ack, running, todo, current, faults, restarts, history>>

\* It finds nothing to wake for; a running container may be judged stuck.
SweepGoesOn(kill) ==
  /\ session = "active" /\ sweeping = "idle" /\ (running \/ DueCount = 0)
  /\ kill => running
  /\ Maintain(kill \/ ~ running)
  /\ running' = (running /\ ~ kill)
  /\ UNCHANGED <<session, faults, restarts, commands, kept, forks, late>>

\* The container starts, and its runner drops the claims of the last one.
Woken ==
  /\ sweeping = "waking"
  /\ running' = TRUE
  /\ ack' = Unclaimed
  /\ todo' = Recurring(status)
  /\ refused' = {}
  /\ sweeping' = "rearming"
  /\ UNCHANGED <<session, status, recur, due, tries, current, faults, restarts,
                 commands, kept, forks, late>>

\* Nothing was acknowledged while the wake was awaited.
NotWoken ==
  /\ sweeping = "waking"
  /\ Maintain(TRUE)
  /\ UNCHANGED <<session, running, faults, restarts, commands, kept, forks, late>>

\* trailingFailedRuns.
Streak ==
  Cardinality({r \in Finished : \A q \in Finished : q >= r => status[q] = "failed"})

\* Faulty: one failure too many.
FaultyArmedAs == IF Streak > Cap THEN "paused" ELSE "pending"

ArmedAs == IF Streak >= Cap THEN "paused" ELSE "pending"

\* handleRecurrence inserts the next occurrence and awaits it.
Rearm(r, next) ==
  /\ sweeping = "rearming" /\ current = 0 /\ r \in todo
  /\ Insert(next, ArmedAs, TRUE, FALSE)
  /\ current' = r
  /\ UNCHANGED <<session, sweeping, todo, running, faults, restarts, history>>

Fault == faults < MaxFaults /\ faults' = faults + 1

RearmFails(r) ==
  /\ sweeping = "rearming" /\ current = 0 /\ r \in todo
  /\ Fault
  /\ todo' = todo \ {r}
  /\ refused' = refused \union {r}
  /\ UNCHANGED <<session, rows, running, sweeping, current, restarts, commands, kept, forks, late>>

Clear ==
  /\ current # 0
  /\ recur' = recur \ {current}
  /\ todo' = todo \ {current}
  /\ current' = 0
  /\ UNCHANGED <<session, status, due, tries, ack, running, sweeping, faults, restarts, history>>

ClearFails ==
  /\ current # 0
  /\ Fault
  /\ todo' = todo \ {current}
  /\ current' = 0
  /\ forks' = forks + 1
  /\ refused' = refused \union {current}
  /\ UNCHANGED <<session, rows, running, sweeping, restarts, commands, kept, late>>

\* Faulty: a paused occurrence does not count.
FaultySpent == ~ running /\ \A r \in Occurrences : status[r] # "pending"

\* shouldCloseTaskSession.
Spent == ~ running /\ Live = {}

SweepEnds ==
  /\ sweeping = "rearming" /\ todo = {}
  /\ session' = IF Spent THEN "closed" ELSE session
  /\ sweeping' = "idle"
  /\ UNCHANGED <<rows, running, todo, current, faults, restarts, history>>

\* The host dies and starts again; containers run on and are adopted.
Restart ==
  /\ restarts < MaxRestarts
  /\ restarts' = restarts + 1
  /\ sweeping' = "idle"
  /\ todo' = {} /\ current' = 0
  /\ forks' = IF current # 0 THEN forks + 1 ELSE forks
  /\ UNCHANGED <<session, rows, running, faults, commands, kept, late, refused>>
-----------------------------------------------------------------------------
Operator ==
  \/ Create \/ Cancel \/ Pause \/ Resume
  \/ \E again \in BOOLEAN : Update(again)
  \/ \E r \in Occurrences : RunNow(r)

Container ==
  \/ Stop
  \/ \E r \in Occurrences :
       Claim(r) \/ \E how \in {"completed", "script-skip:error"} : RunEnds(r, how)

\* What the sweep does next; whether a wake or a write succeeds is not its own.
Sweep ==
  \/ SweepWakes \/ (\E kill \in BOOLEAN : SweepGoesOn(kill))
  \/ Woken \/ NotWoken
  \/ \E r, next \in Occurrences : Rearm(r, next)
  \/ \E r \in Occurrences : RearmFails(r)
  \/ Clear \/ ClearFails \/ SweepEnds

Next ==
  \/ Operator
  \/ \E r \in Occurrences : FallDue(r)
  \/ Container
  \/ Sweep
  \/ Restart

Spec == Init /\ [][Next]_vars

\* The timer fires and promises settle.
FairSpec == Spec /\ WF_vars(Sweep)
-----------------------------------------------------------------------------
\* The occurrences a series goes on from: not the one about to be cleared, and
\* none in a closed session, which the sweep does not read.
Armed == IF session = "active" THEN Carriers \ {current} ELSE {}

\* A series starts and ends by command only, with one exception each: a cancelled
\* one comes back if the sweep is cut off between its two writes, and one ends if
\* a write of the pass that closes its session was refused for each occurrence
\* it could go on from.  No other crash or race of the sweep loses or revives it,
\* not even a late acknowledgement of the run it was cancelled in.
OnlyCommandsStartOrEndASeries ==
  [][(Armed = {}) # (Armed' = {}) =>
       \/ commands' > commands
       \/ Armed = {} /\ forks' > forks
       \/ session' = "closed" /\ Carriers \subseteq refused]_<<session, status, recur, current>>

\* A closed session has nothing left to run, and nothing to re-arm, but what was
\* added after it closed or what its last pass was refused a write for.
ClosedSessionsAreSpent ==
  session = "closed" =>
    /\ Live \subseteq late
    /\ Carriers \subseteq late \union refused

\* A script that keeps failing runs Cap times, and once more for each occurrence
\* that the operator added or resumed, or that a fork left armed.
BrokenScriptIsPaused == Streak <= Cap + kept + forks

\* A finished occurrence is re-armed in the end, unless a write for it was refused
\* in the pass that closed the session, which no later pass reads.
FinishedOccurrencesAreRearmed ==
  \A r \in Occurrences :
    r \in recur \intersect Finished /\ session = "active" ~>
      \/ r \notin recur
      \/ session = "closed" /\ r \in refused
      \/ Stored = Occurrences
=============================================================================
