------------------------ MODULE SessionRunnerProofs ------------------------
(* What SessionRunner keeps for any number of messages, containers, tries, *)
(* crashes, restarts and refusals.                                         *)
EXTENDS SessionRunner, FiniteSetTheorems, TLAPS

Rows == [Messages -> [status : {"absent", "pending"} \union Settled,
                      tries : 0..MaxTries, deferred : BOOLEAN]]

Acks == [Messages -> AckStates]

Batches == [Containers -> SUBSET Messages]

USE DEF mailbox, process, host, counters
-----------------------------------------------------------------------------
(* Type correctness.                                                       *)

\* Mirroring the acks keeps rows rows.
LEMMA SyncedType ==
  ASSUME TypeOK
  PROVE  Synced(inbound) \in Rows
BY DEF TypeOK, Synced, Rows, Settled

\* A retried row stays within the tries it is allowed.
LEMMA RetriedType ==
  ASSUME NEW rows \in Rows, NEW m \in Messages
  PROVE  Retried(rows[m]) \in [status : {"absent", "pending"} \union Settled,
                               tries : 0..MaxTries, deferred : BOOLEAN]
<1>1. CASE rows[m].tries >= MaxTries
  <2> DEFINE row == rows[m]
  <2>1. /\ row.tries \in 0..MaxTries /\ row.deferred \in BOOLEAN
        /\ row = [status |-> row.status, tries |-> row.tries, deferred |-> row.deferred]
    BY DEF Rows
  <2>2. [row EXCEPT !.status = "failed"] =
          [status |-> "failed", tries |-> row.tries, deferred |-> row.deferred]
    BY <2>1
  <2>3. Retried(row) = [status |-> "failed", tries |-> row.tries, deferred |-> row.deferred]
    BY <1>1, <2>2 DEF Retried
  <2> QED
    BY <2>1, <2>3 DEF Settled
<1>2. CASE ~(rows[m].tries >= MaxTries)
  <2> DEFINE row == rows[m]
  <2>1. /\ row.status \in {"absent", "pending"} \union Settled
        /\ row.tries \in 0..MaxTries
    BY DEF Rows
  <2>2. Retried(row) = [status |-> row.status, tries |-> row.tries + 1, deferred |-> TRUE]
    BY <1>2 DEF Retried
  <2>3. row.tries + 1 \in 0..MaxTries
    BY <1>2, <2>1, ConstantsAssumption
  <2> QED
    BY <2>1, <2>2, <2>3
<1> QED
  BY <1>1, <1>2

\* Resetting the claims keeps the types of both halves of the mailbox.
LEMMA ResetStuckType ==
  ASSUME TypeOK, NEW rows \in Rows, ResetStuck(rows)
  PROVE  inbound' \in Rows /\ ack' \in Acks
<1>1. inbound' \in Rows
  <2>1. \A m \in Messages :
          (IF m \in Processing /\ m \in DueIn(rows) THEN Retried(rows[m]) ELSE rows[m])
            \in [status : {"absent", "pending"} \union Settled,
                 tries : 0..MaxTries, deferred : BOOLEAN]
    BY RetriedType DEF Rows
  <2> QED
    BY <2>1 DEF ResetStuck, Rows
<1>2. ack' \in Acks
  BY DEF TypeOK, ResetStuck, Acks, AckStates
<1> QED
  BY <1>1, <1>2

\* Killing a container keeps the types of what it writes.
LEMMA KillType ==
  ASSUME TypeOK, NEW c \in Containers, Kill(c)
  PROVE  /\ finished' \in BOOLEAN
         /\ runner' \in [Containers -> RunnerStates]
         /\ batch' \in Batches
         /\ held' \in Batches
         /\ refusals' \in 0..MaxRefusals
<1>1. CASE UNCHANGED refusals
  BY <1>1 DEF TypeOK, Kill, RunnerStates, Batches
<1>2. CASE refusals' = refusals + 1 /\ refusals < MaxRefusals /\ UNCHANGED process
  BY <1>2, ConstantsAssumption DEF TypeOK, Kill, RunnerStates, Batches
<1> QED
  BY <1>1, <1>2 DEF Kill

\* Acks given out to some messages are acks.
LEMMA AckedType ==
  ASSUME TypeOK, NEW ms, NEW state \in AckStates
  PROVE  Acked(ms, state) \in Acks /\ Beat(Acked(ms, state)) \in Acks /\ Beat(ack) \in Acks
BY DEF TypeOK, Acked, Beat, Acks, AckStates, Claims

\* The sweep keeps the types, whichever way it goes.
LEMMA SweepType ==
  ASSUME TypeOK, Sweep
  PROVE  TypeOK'
<1> DEFINE rows == Synced(inbound)
<1>1. rows \in Rows
  BY SyncedType
<1>2. CASE DueIn(rows) # {} /\ entry = None
  BY <1>1, <1>2 DEF Sweep, TypeOK, Rows
<1>3. CASE ~(DueIn(rows) # {} /\ entry = None) /\ EnforceSla(rows)
  <2>1. CASE Stuck
    <3>1. Kill(entry) /\ ResetStuck(rows) /\ entry \in Containers
      BY <1>3, <2>1 DEF EnforceSla, TypeOK
    <3>2. UNCHANGED <<silent, entry, waking, crashes, restarts, sweeping>>
      BY <1>3 DEF EnforceSla, Sweep
    <3> HIDE DEF rows
    <3> QED
      BY <1>1, <3>1, <3>2, KillType, ResetStuckType DEF TypeOK, Rows, Acks, Batches
  <2>2. CASE ~Stuck
    BY <1>1, <1>3, <2>2 DEF EnforceSla, Sweep, TypeOK, Rows
  <2> QED
    BY <2>1, <2>2
<1>4. CASE ~(DueIn(rows) # {} /\ entry = None) /\ MaintainIdle(rows)
  <2>1. ResetStuck(rows)
    BY <1>4 DEF MaintainIdle
  <2>2. UNCHANGED <<process, silent, entry, finished, waking, counters, sweeping>>
    BY <1>4 DEF MaintainIdle, Sweep
  <2> HIDE DEF rows
  <2> QED
    BY <1>1, <2>1, <2>2, ResetStuckType DEF TypeOK, Rows, Acks
<1> QED
  BY <1>2, <1>3, <1>4 DEF Sweep

\* So does its second half.
LEMMA SweepResumesType ==
  ASSUME TypeOK, SweepResumes
  PROVE  TypeOK'
<1>1. CASE entry = None
  <2>1. inbound \in Rows
    BY DEF TypeOK, Rows
  <2>2. ResetStuck(inbound)
    BY <1>1 DEF SweepResumes, MaintainIdle
  <2>3. UNCHANGED <<process, silent, entry, finished, waking, counters>> /\ sweeping' = "no"
    BY <1>1 DEF SweepResumes, MaintainIdle
  <2> QED
    BY <2>1, <2>2, <2>3, ResetStuckType DEF TypeOK, Rows, Acks
<1>2. CASE entry # None
  BY <1>2 DEF SweepResumes, TypeOK
<1> QED
  BY <1>1, <1>2

\* Every step of a runner keeps the types.
LEMMA RunnerStepType ==
  ASSUME TypeOK, NEW c \in Containers, RunnerStep(c)
  PROVE  TypeOK'
<1>1. CASE Spawn(c)
  BY <1>1 DEF Spawn, TypeOK, RunnerStates, AckStates, Claims
<1>2. CASE Boot(c)
  BY <1>2 DEF Boot, TypeOK, RunnerStates, AckStates
<1>3. Unclaimed \subseteq Messages
  BY DEF Unclaimed, DueIn
<1>4. CASE Claim(c)
  BY <1>3, <1>4, AckedType DEF Claim, TypeOK, RunnerStates, AckStates, Claims, Acks
<1>5. CASE Heartbeat(c)
  BY <1>5, AckedType DEF Heartbeat, TypeOK, AckStates, Acks
<1>6. CASE FollowUp(c)
  BY <1>3, <1>6, AckedType DEF FollowUp, TypeOK, AckStates, Claims, Acks
<1>7. CASE Push(c)
  BY <1>7, AckedType DEF Push, TypeOK, RunnerStates, AckStates, Acks
<1>8. CASE Result(c)
  BY <1>8, AckedType DEF Result, TypeOK, RunnerStates, AckStates, Acks
<1>9. CASE QueryEnds(c)
  BY <1>9, AckedType DEF QueryEnds, TypeOK, RunnerStates, AckStates, Acks
<1>10. CASE Hang(c)
  BY <1>10 DEF Hang, TypeOK, RunnerStates
<1>11. CASE Crash(c)
  BY <1>11, ConstantsAssumption DEF Crash, TypeOK, RunnerStates
<1> QED
  BY <1>1, <1>2, <1>4, <1>5, <1>6, <1>7, <1>8, <1>9, <1>10, <1>11 DEF RunnerStep, TurnSettles

\* The type invariant is inductive.
LEMMA TypeNext ==
  ASSUME TypeOK, [Next]_vars
  PROVE  TypeOK'
<1>1. CASE Wake
  BY <1>1 DEF Wake, TypeOK
<1>2. CASE SpawnFails \/ Started
  BY <1>2 DEF SpawnFails, Started, WakeSettles, TypeOK
<1>3. CASE StartFails
  BY <1>3, ConstantsAssumption DEF StartFails, WakeSettles, TypeOK
<1>4. CASE Terminal \/ Finish
  BY <1>4 DEF Terminal, Finish, TypeOK
<1>5. CASE Sweep
  BY <1>5, SweepType
<1>6. CASE SweepResumes
  BY <1>6, SweepResumesType
<1>7. CASE Restart
  <2>1. entry' \in Containers \union {None} /\ refusals' \in 0..MaxRefusals
    BY <1>7, ConstantsAssumption DEF Restart, Adopts, Live, TypeOK
  <2>2. restarts' \in 0..MaxRestarts
    BY <1>7, ConstantsAssumption DEF Restart, TypeOK
  <2>4. silent' \in BOOLEAN
    BY <1>7, Zenon DEF Restart, TypeOK
  <2>3. /\ finished' = FALSE /\ waking' = "no" /\ sweeping' = "no"
        /\ UNCHANGED <<mailbox, process, crashes>>
    BY <1>7 DEF Restart
  <2> QED
    BY <2>1, <2>2, <2>3, <2>4 DEF TypeOK
<1>8. CASE Silence
  BY <1>8 DEF Silence, TypeOK
<1>9. ASSUME NEW m \in Messages, Arrive(m) \/ Elapse(m) \/ Age(m)
      PROVE  TypeOK'
  <2>1. CASE Arrive(m)
    BY <2>1, ConstantsAssumption DEF Arrive, Row, TypeOK
  <2>2. CASE Elapse(m)
    BY <2>2 DEF Elapse, TypeOK
  <2>3. CASE Age(m)
    BY <2>3 DEF Age, TypeOK, AckStates, Claims
  <2> QED
    BY <1>9, <2>1, <2>2, <2>3
<1>10. ASSUME NEW c \in Containers, RunnerStep(c)
       PROVE  TypeOK'
  BY <1>10, RunnerStepType
<1>11. CASE UNCHANGED vars
  BY <1>11 DEF vars, TypeOK
<1> QED
  BY <1>1, <1>2, <1>3, <1>4, <1>5, <1>6, <1>7, <1>8, <1>9, <1>10, <1>11 DEF Next, HostStep

\* The mailbox, the registry and the runners stay in their types; no row is
\* tried more often than MAX_TRIES allows.
THEOREM TypeCorrect == Spec => []TypeOK
<1>1. Init => TypeOK
  <2> SUFFICES ASSUME Init PROVE TypeOK
    OBVIOUS
  <2>1. inbound \in [Messages -> [status : {"absent", "pending"} \union Settled,
                                  tries : 0..MaxTries, deferred : BOOLEAN]]
    BY ConstantsAssumption DEF Init, Row
  <2>2. ack \in [Messages -> AckStates] /\ runner \in [Containers -> RunnerStates]
    BY DEF Init, AckStates, RunnerStates
  <2>3. batch \in Batches /\ held \in Batches
    BY DEF Init, Batches
  <2>4. crashes \in 0..MaxCrashes /\ restarts \in 0..MaxRestarts /\ refusals \in 0..MaxRefusals
    BY ConstantsAssumption DEF Init
  <2>5. /\ silent \in BOOLEAN /\ finished \in BOOLEAN
        /\ entry \in Containers \union {None}
        /\ waking \in {"no", "preparing", "started"} /\ sweeping \in {"no", "waking", "woken"}
    BY DEF Init
  <2> QED
    BY <2>1, <2>2, <2>3, <2>4, <2>5 DEF TypeOK, Batches
<1> QED
  BY <1>1, TypeNext, PTL DEF Spec
-----------------------------------------------------------------------------
(* One runner.  The registry and the world agree as long as nothing was    *)
(* refused: who lives is in the entry, a wake that prepares has none, and  *)
(* an entry that is being finalised is dead already.                       *)

GhostsHoldNothing ==
  \A c \in Containers : runner[c] = "gone" => batch[c] = {} /\ held[c] = {}

RegisteredOrGone ==
  refusals = 0 => \A c \in Containers : runner[c] # "gone" => c = entry /\ ~finished

RegistryInv ==
  /\ GhostsHoldNothing
  /\ RegisteredOrGone
  /\ waking = "preparing" => entry = None
  /\ finished => entry # None

\* A kill leaves no one alive, or counts a refusal.
LEMMA KillRegistry ==
  ASSUME TypeOK, RegistryInv, entry # None, Kill(entry)
  PROVE  /\ GhostsHoldNothing'
         /\ refusals' = 0 => refusals = 0 /\ \A c \in Containers : runner'[c] = "gone"
         /\ finished'
<1>0. entry \in Containers /\ refusals \in Nat
  BY DEF TypeOK
<1>1. CASE /\ runner' = [runner EXCEPT ![entry] = "gone"]
           /\ batch' = [batch EXCEPT ![entry] = {}]
           /\ held' = [held EXCEPT ![entry] = {}]
           /\ UNCHANGED refusals
  <2>1. GhostsHoldNothing'
    BY <1>0, <1>1 DEF TypeOK, RegistryInv, GhostsHoldNothing
  <2>2. refusals' = 0 => \A c \in Containers : runner'[c] = "gone"
    BY <1>0, <1>1 DEF TypeOK, RegistryInv, RegisteredOrGone
  <2> QED
    BY <1>1, <2>1, <2>2 DEF Kill
<1>2. CASE refusals' = refusals + 1 /\ UNCHANGED process
  BY <1>0, <1>2 DEF Kill, RegistryInv, GhostsHoldNothing
<1> QED
  BY <1>1, <1>2 DEF Kill

\* The sweep keeps the registry true.
LEMMA SweepRegistry ==
  ASSUME TypeOK, RegistryInv, Sweep
  PROVE  RegistryInv'
<1> DEFINE rows == Synced(inbound)
<1>1. CASE DueIn(rows) # {} /\ entry = None
  BY <1>1 DEF Sweep, RegistryInv, GhostsHoldNothing, RegisteredOrGone
<1>2. CASE ~(DueIn(rows) # {} /\ entry = None) /\ EnforceSla(rows)
  <2>1. CASE Stuck
    <3>1. Kill(entry) /\ entry # None /\ UNCHANGED <<entry, waking>>
      BY <1>2, <2>1 DEF EnforceSla
    <3>2. /\ GhostsHoldNothing'
          /\ refusals' = 0 => \A c \in Containers : runner'[c] = "gone"
      BY <3>1, KillRegistry
    <3> HIDE DEF rows
    <3> QED
      BY <3>1, <3>2 DEF RegistryInv, RegisteredOrGone
  <2>2. CASE ~Stuck
    BY <1>2, <2>2 DEF EnforceSla, RegistryInv, GhostsHoldNothing, RegisteredOrGone
  <2> QED
    BY <2>1, <2>2
<1>3. CASE ~(DueIn(rows) # {} /\ entry = None) /\ MaintainIdle(rows)
  BY <1>3 DEF MaintainIdle, RegistryInv, GhostsHoldNothing, RegisteredOrGone
<1> QED
  BY <1>1, <1>2, <1>3 DEF Sweep

\* So does every step of a runner.
LEMMA RunnerStepRegistry ==
  ASSUME TypeOK, RegistryInv, NEW c \in Containers, RunnerStep(c)
  PROVE  RegistryInv'
<1>1. CASE Spawn(c)
  <2>1. GhostsHoldNothing'
    BY <1>1 DEF Spawn, TypeOK, RegistryInv, GhostsHoldNothing
  <2>2. entry = None /\ c # None
    BY <1>1, ConstantsAssumption DEF Spawn, RegistryInv
  <2>3. refusals = 0 => \A d \in Containers : runner[d] = "gone"
    BY <2>2, ConstantsAssumption DEF RegistryInv, RegisteredOrGone
  <2>4. RegisteredOrGone'
    BY <1>1, <2>3 DEF Spawn, TypeOK, RegisteredOrGone
  <2> QED
    BY <1>1, <2>1, <2>4 DEF Spawn, RegistryInv
<1>2. CASE Crash(c)
  BY <1>2 DEF Crash, TypeOK, RegistryInv, GhostsHoldNothing, RegisteredOrGone
<1>3. CASE /\ runner[c] # "gone" /\ UNCHANGED <<entry, finished, waking, refusals>>
           /\ \A d \in Containers :
                /\ runner'[d] = "gone" <=> runner[d] = "gone"
                /\ d # c => batch'[d] = batch[d] /\ held'[d] = held[d]
  <2>1. GhostsHoldNothing'
    BY <1>3 DEF RegistryInv, GhostsHoldNothing
  <2>2. RegisteredOrGone'
    BY <1>3 DEF RegistryInv, RegisteredOrGone
  <2> QED
    BY <1>3, <2>1, <2>2 DEF RegistryInv
<1>4. CASE Boot(c)
  BY <1>3, <1>4 DEF Boot, TypeOK
<1>5. CASE Claim(c)
  BY <1>3, <1>5 DEF Claim, TypeOK
<1>6. CASE Heartbeat(c)
  BY <1>3, <1>6 DEF Heartbeat, TypeOK
<1>7. CASE FollowUp(c)
  BY <1>3, <1>7 DEF FollowUp, TypeOK
<1>8. CASE Push(c)
  BY <1>3, <1>8 DEF Push, TypeOK
<1>9. CASE TurnSettles(c)
  BY <1>3, <1>9 DEF TurnSettles, Result, QueryEnds, Hang, TypeOK
<1> QED
  BY <1>1, <1>2, <1>4, <1>5, <1>6, <1>7, <1>8, <1>9 DEF RunnerStep

\* The registry invariant is inductive.
LEMMA RegistryNext ==
  ASSUME TypeOK, RegistryInv, [Next]_vars
  PROVE  RegistryInv'
<1> USE DEF RegistryInv, GhostsHoldNothing, RegisteredOrGone
<1>1. CASE Wake
  BY <1>1 DEF Wake, MayWake
<1>2. CASE SpawnFails \/ Started
  BY <1>2 DEF SpawnFails, Started, WakeSettles
<1>3. CASE StartFails
  BY <1>3 DEF StartFails, WakeSettles, TypeOK
<1>4. CASE Terminal
  BY <1>4 DEF Terminal
<1>5. CASE Finish
  BY <1>5 DEF Finish
<1>6. CASE Sweep
  BY <1>6, SweepRegistry
<1>7. CASE SweepResumes
  BY <1>7 DEF SweepResumes, MaintainIdle
<1>8. CASE Restart
  <2>1. refusals' = 0 => refusals = 0 /\ entry' \in IF Live = {} THEN {None} ELSE Live
    BY <1>8 DEF Restart, Adopts, TypeOK
  <2>2. finished' = FALSE /\ waking' = "no" /\ UNCHANGED process
    BY <1>8 DEF Restart
  <2>3. ASSUME refusals' = 0, NEW c \in Containers, runner'[c] # "gone"
        PROVE  c = entry'
    BY <2>1, <2>2, <2>3 DEF Live
  <2> QED
    BY <2>2, <2>3
<1>9. ASSUME NEW m \in Messages, Arrive(m) \/ Elapse(m) \/ Age(m)
      PROVE  RegistryInv'
  BY <1>9 DEF Arrive, Elapse, Age
<1>10. CASE Silence
  BY <1>10 DEF Silence
<1>11. ASSUME NEW c \in Containers, RunnerStep(c)
       PROVE  RegistryInv'
  BY <1>11, RunnerStepRegistry
<1>12. CASE UNCHANGED vars
  BY <1>12 DEF vars
<1> QED
  BY <1>1, <1>2, <1>3, <1>4, <1>5, <1>6, <1>7, <1>8, <1>9, <1>10, <1>11, <1>12
     DEF Next, HostStep

\* The registry and the containers agree in every reachable state.
LEMMA RegistryInvariant == Spec => []RegistryInv
<1>1. Init => RegistryInv
  BY DEF Init, RegistryInv, GhostsHoldNothing, RegisteredOrGone
<1> QED
  BY <1>1, RegistryNext, TypeCorrect, PTL DEF Spec

\* Unless docker refused, or a start went unrecorded, no two containers ever
\* run on one session's directory, however wakes, sweeps, kills, crashes and
\* restarts of the host interleave.
THEOREM OneAtMost == Spec => []OneRunner
<1>1. TypeOK /\ RegistryInv => OneRunner
  <2> SUFFICES ASSUME TypeOK, RegistryInv, refusals = 0
               PROVE  Cardinality(Live) <= 1
    BY DEF OneRunner
  <2>1. Live \subseteq {entry}
    BY DEF Live, RegistryInv, RegisteredOrGone
  <2>2. IsFiniteSet({entry}) /\ Cardinality({entry}) = 1
    BY FS_Singleton
  <2>3. Cardinality(Live) <= Cardinality({entry})
    BY <2>1, <2>2, FS_Subset
  <2> QED
    BY <2>2, <2>3
<1> QED
  BY <1>1, TypeCorrect, RegistryInvariant, PTL
-----------------------------------------------------------------------------
(* The two halves of the mailbox.  A message the host gave up must not only *)
(* be unclaimed: no runner may still hold it, or its result would ack it.   *)

CompletedByRunner ==
  \A m \in Messages : inbound[m].status = "completed" => ack[m] = "completed"

GivenUp ==
  refusals = 0 =>
    \A m \in Messages : inbound[m].status = "failed" =>
      /\ ack[m] = "none"
      /\ \A c \in Containers : m \notin batch[c] /\ m \notin held[c]

MailboxInv == CompletedByRunner /\ GivenUp

\* What a retry may do to a row.
LEMMA RetriedStatus ==
  ASSUME NEW rows \in Rows, NEW m \in Messages
  PROVE  Retried(rows[m]).status \in {rows[m].status, "failed"}
BY DEF Retried, Rows

\* Mirroring only completes unsettled rows that a runner completed.
LEMMA SyncedStatus ==
  ASSUME TypeOK, NEW m \in Messages
  PROVE  \/ Synced(inbound)[m].status = inbound[m].status
         \/ /\ Synced(inbound)[m].status = "completed"
            /\ ack[m] = "completed"
            /\ inbound[m].status \notin Settled
BY DEF TypeOK, Synced

\* Mirroring the acks keeps the halves in agreement.
LEMMA SyncedAgrees ==
  ASSUME TypeOK, MailboxInv
  PROVE  \A m \in Messages :
           /\ Synced(inbound)[m].status = "completed" => ack[m] = "completed"
           /\ Synced(inbound)[m].status = "failed" => inbound[m].status = "failed"
BY SyncedStatus DEF MailboxInv, CompletedByRunner

\* A reset settles no row but by giving it up, and then its claim is gone.
LEMMA ResetStuckStatus ==
  ASSUME TypeOK, NEW rows \in Rows, ResetStuck(rows), NEW m \in Messages
  PROVE  /\ \/ inbound'[m].status = rows[m].status
            \/ /\ inbound'[m].status = "failed"
               /\ m \in Processing
               /\ rows[m].status = "pending"
         /\ ack'[m] = IF m \in Processing THEN "none" ELSE ack[m]
<1>1. CASE m \in Processing /\ m \in DueIn(rows)
  <2>1. inbound'[m] = Retried(rows[m]) /\ rows[m].status = "pending"
    BY <1>1 DEF ResetStuck, DueIn
  <2> QED
    BY <1>1, <2>1, RetriedStatus DEF ResetStuck
<1>2. CASE ~(m \in Processing /\ m \in DueIn(rows))
  BY <1>2 DEF ResetStuck
<1> QED
  BY <1>1, <1>2

\* A reset with nobody alive keeps the halves in agreement.
LEMMA ResetStuckAgrees ==
  ASSUME TypeOK, MailboxInv, NEW rows \in Rows, ResetStuck(rows), GhostsHoldNothing',
         \A m \in Messages : /\ rows[m].status = "completed" => ack[m] = "completed"
                             /\ rows[m].status = "failed" => inbound[m].status = "failed",
         refusals' = 0 => refusals = 0 /\ \A c \in Containers : runner'[c] = "gone"
  PROVE  MailboxInv'
<1>1. CompletedByRunner'
  <2> SUFFICES ASSUME NEW m \in Messages, inbound'[m].status = "completed"
               PROVE  ack'[m] = "completed"
    BY DEF CompletedByRunner
  <2>1. rows[m].status = "completed"
    BY ResetStuckStatus
  <2>2. ack[m] = "completed" /\ m \notin Processing
    BY <2>1 DEF Processing, Claims
  <2> QED
    BY <2>2, ResetStuckStatus
<1>2. GivenUp'
  <2> SUFFICES ASSUME refusals' = 0, NEW m \in Messages, inbound'[m].status = "failed"
               PROVE  /\ ack'[m] = "none"
                      /\ \A c \in Containers : m \notin batch'[c] /\ m \notin held'[c]
    BY DEF GivenUp
  <2>1. \A c \in Containers : batch'[c] = {} /\ held'[c] = {}
    BY DEF GhostsHoldNothing
  <2>2. CASE m \in Processing
    BY <2>1, <2>2, ResetStuckStatus
  <2>3. CASE m \notin Processing
    BY <2>1, <2>3, ResetStuckStatus DEF MailboxInv, GivenUp
  <2> QED
    BY <2>2, <2>3
<1> QED
  BY <1>1, <1>2 DEF MailboxInv

\* The sweep keeps the halves in agreement.
LEMMA SweepAgrees ==
  ASSUME TypeOK, RegistryInv, MailboxInv, Sweep
  PROVE  MailboxInv'
<1> DEFINE rows == Synced(inbound)
<1>1. /\ rows \in Rows
      /\ \A m \in Messages : /\ rows[m].status = "completed" => ack[m] = "completed"
                             /\ rows[m].status = "failed" => inbound[m].status = "failed"
  BY SyncedType, SyncedAgrees
<1>2. CASE inbound' = rows /\ UNCHANGED <<ack, process, refusals>>
  BY <1>1, <1>2 DEF MailboxInv, CompletedByRunner, GivenUp
<1>3. CASE EnforceSla(rows) /\ Stuck
  <2>1. entry # None /\ Kill(entry) /\ ResetStuck(rows)
    BY <1>3 DEF EnforceSla
  <2> HIDE DEF rows
  <2>2. /\ GhostsHoldNothing'
        /\ refusals' = 0 => refusals = 0 /\ \A c \in Containers : runner'[c] = "gone"
    BY <2>1, KillRegistry
  <2> QED
    BY <1>1, <2>1, <2>2, ResetStuckAgrees
<1>4. CASE MaintainIdle(rows)
  <2>1. ResetStuck(rows) /\ UNCHANGED <<process, refusals>> /\ entry = None
    BY <1>4 DEF MaintainIdle
  <2> HIDE DEF rows
  <2>2. /\ GhostsHoldNothing'
        /\ refusals' = 0 => refusals = 0 /\ \A c \in Containers : runner'[c] = "gone"
    BY <2>1, ConstantsAssumption DEF RegistryInv, GhostsHoldNothing, RegisteredOrGone
  <2> QED
    BY <1>1, <2>1, <2>2, ResetStuckAgrees
<1> QED
  BY <1>2, <1>3, <1>4 DEF Sweep, EnforceSla

\* So does its second half.
LEMMA SweepResumesAgrees ==
  ASSUME TypeOK, RegistryInv, MailboxInv, SweepResumes
  PROVE  MailboxInv'
<1>1. CASE entry = None
  <2>1. ResetStuck(inbound) /\ UNCHANGED <<process, refusals>>
    BY <1>1 DEF SweepResumes, MaintainIdle
  <2>2. /\ GhostsHoldNothing'
        /\ refusals' = 0 => refusals = 0 /\ \A c \in Containers : runner'[c] = "gone"
    BY <1>1, <2>1, ConstantsAssumption DEF RegistryInv, GhostsHoldNothing, RegisteredOrGone
  <2>3. /\ inbound \in Rows
        /\ \A m \in Messages : inbound[m].status = "completed" => ack[m] = "completed"
    BY DEF TypeOK, Rows, MailboxInv, CompletedByRunner
  <2> QED
    BY <2>1, <2>2, <2>3, ResetStuckAgrees
<1>2. CASE entry # None
  BY <1>2 DEF SweepResumes, MailboxInv, CompletedByRunner, GivenUp
<1> QED
  BY <1>1, <1>2

\* A runner acks and holds only what is not given up.
LEMMA RunnerStepAgrees ==
  ASSUME TypeOK, MailboxInv, NEW c \in Containers, RunnerStep(c)
  PROVE  MailboxInv'
<1> DEFINE Kept(m) ==
       /\ ack[m] = "completed" => ack'[m] = "completed"
       /\ inbound'[m].status = inbound[m].status
       /\ refusals' = 0 => refusals = 0
       /\ refusals = 0 /\ inbound[m].status = "failed" =>
            /\ ack'[m] = "none"
            /\ \A d \in Containers : m \notin batch'[d] /\ m \notin held'[d]
<1>1. (\A m \in Messages : Kept(m)) => MailboxInv'
  BY DEF MailboxInv, CompletedByRunner, GivenUp
<1> SUFFICES ASSUME NEW m \in Messages PROVE Kept(m)
  BY <1>1
<1> USE DEF MailboxInv, GivenUp, TypeOK, Claims
<1>2. m \in Unclaimed => inbound[m].status = "pending" /\ ack[m] = "none"
  BY DEF Unclaimed, DueIn
<1>3. CASE Spawn(c)
  BY <1>3 DEF Spawn
<1>4. CASE Boot(c)
  BY <1>4 DEF Boot, Processing
<1>5. CASE Claim(c)
  BY <1>2, <1>5 DEF Claim, Acked
<1>6. CASE Heartbeat(c)
  BY <1>6 DEF Heartbeat, Beat
<1>7. CASE FollowUp(c)
  BY <1>2, <1>7 DEF FollowUp, Acked
<1>8. CASE Push(c)
  BY <1>8 DEF Push, Acked
<1>9. CASE Result(c)
  BY <1>9 DEF Result, Acked, Beat
<1>10. CASE QueryEnds(c)
  BY <1>10 DEF QueryEnds, Acked
<1>11. CASE Hang(c)
  BY <1>11 DEF Hang
<1>12. CASE Crash(c)
  BY <1>12 DEF Crash
<1> QED
  BY <1>3, <1>4, <1>5, <1>6, <1>7, <1>8, <1>9, <1>10, <1>11, <1>12 DEF RunnerStep, TurnSettles

\* The agreement of the halves is inductive, given the registry.
LEMMA MailboxNext ==
  ASSUME TypeOK, RegistryInv, MailboxInv, [Next]_vars
  PROVE  MailboxInv'
<1>1. CASE UNCHANGED <<mailbox, process>> /\ (refusals' = 0 => refusals = 0)
  BY <1>1 DEF MailboxInv, CompletedByRunner, GivenUp
<1>2. CASE Wake \/ SpawnFails \/ Started \/ Terminal \/ Finish \/ Silence \/ UNCHANGED vars
  BY <1>1, <1>2 DEF Wake, SpawnFails, Started, Terminal, Finish, Silence, vars
<1>3. CASE StartFails
  BY <1>1, <1>3 DEF StartFails, TypeOK
<1>4. CASE Restart
  BY <1>1, <1>4 DEF Restart, Adopts, TypeOK
<1>5. CASE Sweep
  BY <1>5, SweepAgrees
<1>6. CASE SweepResumes
  BY <1>6, SweepResumesAgrees
<1>7. ASSUME NEW m \in Messages, Arrive(m) \/ Elapse(m) \/ Age(m)
      PROVE  MailboxInv'
  <2> USE DEF MailboxInv, CompletedByRunner, GivenUp, TypeOK
  <2>1. CASE Arrive(m)
    BY <2>1 DEF Arrive, Row
  <2>2. CASE Elapse(m)
    BY <2>2 DEF Elapse
  <2>3. CASE Age(m)
    BY <2>3 DEF Age
  <2> QED
    BY <1>7, <2>1, <2>2, <2>3
<1>8. ASSUME NEW c \in Containers, RunnerStep(c)
      PROVE  MailboxInv'
  BY <1>8, RunnerStepAgrees
<1> QED
  BY <1>2, <1>3, <1>4, <1>5, <1>6, <1>7, <1>8 DEF Next, HostStep

LEMMA MailboxInvariant == Spec => []MailboxInv
<1>1. Init => MailboxInv
  BY DEF Init, Row, MailboxInv, CompletedByRunner, GivenUp
<1> QED
  BY <1>1, MailboxNext, TypeCorrect, RegistryInvariant, PTL DEF Spec

\* What the host calls completed a runner completed; what the host gave up no
\* runner has claimed or completed, nor can: no one holds it any more.
THEOREM Agreement == Spec => []HalvesAgree
<1>1. MailboxInv => HalvesAgree
  BY DEF MailboxInv, CompletedByRunner, GivenUp, HalvesAgree
<1> QED
  BY <1>1, MailboxInvariant, PTL

\* No step of the host reopens or rewrites a settled row.
LEMMA SettledStays ==
  ASSUME TypeOK, [Next]_vars, NEW m \in Messages, inbound[m].status \in Settled
  PROVE  inbound'[m].status = inbound[m].status
<1>1. inbound[m].status # "pending" /\ inbound[m].status # "absent"
  BY DEF Settled
<1>2. /\ Synced(inbound) \in Rows /\ inbound \in Rows
      /\ Synced(inbound)[m].status = inbound[m].status
  BY SyncedType, SyncedStatus DEF TypeOK, Rows
<1>3. CASE Sweep \/ SweepResumes
  <2>1. \/ inbound' \in {inbound, Synced(inbound)}
        \/ \E rows \in {inbound, Synced(inbound)} : ResetStuck(rows)
    BY <1>3 DEF Sweep, SweepResumes, EnforceSla, MaintainIdle
  <2>2. ASSUME NEW rows \in {inbound, Synced(inbound)}, ResetStuck(rows)
        PROVE  inbound'[m].status = inbound[m].status
    <3>1. rows \in Rows /\ rows[m].status = inbound[m].status
      BY <1>2
    <3> QED
      BY <1>1, <2>2, <3>1, ResetStuckStatus
  <2> QED
    BY <1>2, <2>1, <2>2
<1>4. ASSUME NEW n \in Messages, Arrive(n) \/ Elapse(n) \/ Age(n)
      PROVE  inbound'[m].status = inbound[m].status
  BY <1>1, <1>4 DEF Arrive, Elapse, Age, Row, TypeOK
<1>5. CASE UNCHANGED inbound
  BY <1>5
<1>6. ASSUME NEW c \in Containers, RunnerStep(c)
      PROVE  UNCHANGED inbound
  BY <1>6 DEF RunnerStep, TurnSettles, Spawn, Boot, Claim, Heartbeat, FollowUp, Push,
              Result, QueryEnds, Hang, Crash
<1>7. CASE Wake \/ SpawnFails \/ Started \/ StartFails \/ Terminal \/ Finish \/ Restart
  BY <1>7 DEF Wake, SpawnFails, Started, StartFails, Terminal, Finish, Restart
<1> QED
  BY <1>3, <1>4, <1>5, <1>6, <1>7 DEF Next, HostStep, Silence, vars

\* A completed or failed message stays what it is, also when a runner that
\* could not be stopped completes it late.
THEOREM SettledFinal == Spec => SettledIsFinal
<1>1. TypeOK /\ [Next]_vars =>
        [\A m \in Messages : inbound[m].status \in Settled =>
           inbound'[m].status = inbound[m].status]_inbound
  BY SettledStays
<1> QED
  BY <1>1, TypeCorrect, PTL DEF Spec, SettledIsFinal
-----------------------------------------------------------------------------
(* The session implements the inbox.  Nobody knows of a message before it   *)
(* arrives; then each step moves each message as the inbox allows.          *)

Unknown(m) ==
  /\ ack[m] = "none"
  /\ \A c \in Containers : m \notin batch[c] /\ m \notin held[c]

ArrivedInv == \A m \in Messages : inbound[m].status = "absent" => Unknown(m)

\* What the two halves of a sweep may do to the mailbox and to the runners.
LEMMA SweepShape ==
  ASSUME TypeOK, Sweep \/ SweepResumes
  PROVE  /\ \/ inbound' \in {inbound, Synced(inbound)} /\ ack' = ack
            \/ \E rows \in {inbound, Synced(inbound)} : ResetStuck(rows)
         /\ \A c \in Containers : batch'[c] \subseteq batch[c] /\ held'[c] \subseteq held[c]
         /\ refusals' = 0 => refusals = 0
<1> DEFINE Shrunk ==
      /\ \A c \in Containers : batch'[c] \subseteq batch[c] /\ held'[c] \subseteq held[c]
      /\ refusals' = 0 => refusals = 0
<1>1. UNCHANGED <<process, refusals>> => Shrunk
  OBVIOUS
<1>2. ASSUME NEW c \in Containers, Kill(c) PROVE Shrunk
  BY <1>2 DEF Kill, TypeOK
<1>3. ASSUME NEW rows, EnforceSla(rows)
      PROVE  /\ \/ inbound' = rows /\ ack' = ack
                \/ ResetStuck(rows)
             /\ Shrunk
  <2>1. CASE Stuck
    <3>1. Kill(entry) /\ ResetStuck(rows) /\ entry \in Containers
      BY <1>3, <2>1 DEF EnforceSla, TypeOK
    <3> QED
      BY <1>2, <3>1
  <2>2. CASE ~Stuck
    BY <1>1, <1>3, <2>2 DEF EnforceSla
  <2> QED
    BY <2>1, <2>2
<1>4. ASSUME NEW rows, MaintainIdle(rows) PROVE ResetStuck(rows) /\ Shrunk
  BY <1>1, <1>4 DEF MaintainIdle
<1> HIDE DEF Shrunk
<1>5. CASE Sweep
  BY <1>1, <1>3, <1>4, <1>5 DEF Sweep, Shrunk
<1>6. CASE SweepResumes
  BY <1>1, <1>4, <1>6 DEF SweepResumes, Shrunk
<1> QED
  BY <1>5, <1>6

\* A sweep leaves alone what has not arrived.
LEMMA SweepArrived ==
  ASSUME TypeOK, ArrivedInv, Sweep \/ SweepResumes
  PROVE  ArrivedInv'
<1> SUFFICES ASSUME NEW m \in Messages, inbound'[m].status = "absent"
             PROVE  Unknown(m)'
  BY DEF ArrivedInv
<1>1. /\ inbound \in Rows /\ Synced(inbound) \in Rows
      /\ Synced(inbound)[m].status = "absent" => inbound[m].status = "absent"
  BY SyncedType, SyncedStatus DEF TypeOK, Rows
<1>2. inbound[m].status = "absent" /\ (ack[m] = "none" => ack'[m] = "none")
  <2>1. CASE inbound' \in {inbound, Synced(inbound)} /\ ack' = ack
    BY <1>1, <2>1
  <2>2. ASSUME NEW rows \in {inbound, Synced(inbound)}, ResetStuck(rows)
        PROVE  inbound[m].status = "absent" /\ (ack[m] = "none" => ack'[m] = "none")
    BY <1>1, <2>2, ResetStuckStatus
  <2> QED
    BY <2>1, <2>2, SweepShape
<1> QED
  BY <1>2, SweepShape DEF ArrivedInv, Unknown

\* A runner claims, holds and acks only what has arrived.
LEMMA RunnerStepArrived ==
  ASSUME TypeOK, ArrivedInv, NEW c \in Containers, RunnerStep(c)
  PROVE  ArrivedInv' /\ inbound' = inbound /\ refusals' = refusals
<1>1. inbound' = inbound /\ refusals' = refusals
  BY DEF RunnerStep, TurnSettles, Spawn, Boot, Claim, Heartbeat, FollowUp, Push,
         Result, QueryEnds, Hang, Crash
<1> SUFFICES ASSUME NEW m \in Messages, inbound[m].status = "absent", Unknown(m)
             PROVE  Unknown(m)'
  BY <1>1 DEF ArrivedInv
<1> USE DEF Unknown, TypeOK, Claims
<1>2. m \notin Unclaimed
  BY DEF Unclaimed, DueIn
<1>3. CASE Spawn(c)
  BY <1>3 DEF Spawn
<1>4. CASE Boot(c)
  BY <1>4 DEF Boot, Processing
<1>5. CASE Claim(c)
  BY <1>2, <1>5 DEF Claim, Acked
<1>6. CASE Heartbeat(c)
  BY <1>6 DEF Heartbeat, Beat
<1>7. CASE FollowUp(c)
  BY <1>2, <1>7 DEF FollowUp, Acked
<1>8. CASE Push(c)
  BY <1>8 DEF Push, Acked
<1>9. CASE Result(c)
  BY <1>9 DEF Result, Acked, Beat
<1>10. CASE QueryEnds(c)
  BY <1>10 DEF QueryEnds, Acked
<1>11. CASE Hang(c)
  BY <1>11 DEF Hang
<1>12. CASE Crash(c)
  BY <1>12 DEF Crash
<1> QED
  BY <1>1, <1>3, <1>4, <1>5, <1>6, <1>7, <1>8, <1>9, <1>10, <1>11, <1>12
  DEF RunnerStep, TurnSettles

\* The other steps leave the mailbox alone, and forget no refusal.
LEMMA QuietSteps ==
  ASSUME TypeOK,
         \/ Wake \/ SpawnFails \/ Started \/ StartFails \/ Terminal \/ Finish
         \/ Restart \/ Silence \/ UNCHANGED vars
  PROVE  UNCHANGED <<mailbox, process>> /\ (refusals' = 0 => refusals = 0)
<1>1. CASE Wake \/ SpawnFails \/ Started \/ Terminal \/ Finish \/ Silence \/ UNCHANGED vars
  BY <1>1 DEF Wake, SpawnFails, Started, Terminal, Finish, Silence, vars
<1>2. CASE StartFails
  BY <1>2 DEF StartFails, TypeOK
<1>3. CASE Restart
  BY <1>3 DEF Restart, Adopts, TypeOK
<1> QED
  BY <1>1, <1>2, <1>3

\* No step forgets that docker refused.
LEMMA RefusalsStay ==
  ASSUME TypeOK, ArrivedInv, [Next]_vars
  PROVE  refusals' = 0 => refusals = 0
<1>1. ASSUME NEW m \in Messages, Arrive(m) \/ Elapse(m) \/ Age(m)
      PROVE  refusals' = refusals
  BY <1>1 DEF Arrive, Elapse, Age
<1> QED
  BY <1>1, QuietSteps, SweepShape, RunnerStepArrived DEF Next, HostStep

LEMMA ArrivedNext ==
  ASSUME TypeOK, ArrivedInv, [Next]_vars
  PROVE  ArrivedInv'
<1>1. CASE \/ Wake \/ SpawnFails \/ Started \/ StartFails \/ Terminal \/ Finish
           \/ Restart \/ Silence \/ UNCHANGED vars
  BY <1>1, QuietSteps DEF ArrivedInv, Unknown
<1>2. ASSUME NEW m \in Messages, Arrive(m) \/ Elapse(m) \/ Age(m)
      PROVE  ArrivedInv'
  <2> USE DEF ArrivedInv, Unknown, TypeOK
  <2>1. CASE Arrive(m)
    BY <2>1 DEF Arrive, Row
  <2>2. CASE Elapse(m)
    BY <2>2 DEF Elapse
  <2>3. CASE Age(m)
    BY <2>3 DEF Age
  <2> QED
    BY <1>2, <2>1, <2>2, <2>3
<1> QED
  BY <1>1, <1>2, SweepArrived, RunnerStepArrived DEF Next, HostStep

\* Only a message that has arrived is claimed, held or acked.
LEMMA ArrivedInvariant == Spec => []ArrivedInv
<1>1. Init => ArrivedInv
  BY DEF Init, ArrivedInv, Unknown
<1> QED
  BY <1>1, ArrivedNext, TypeCorrect, PTL DEF Spec

Moves(m) ==
  \/ Abstract!Accept(m) \/ Abstract!Finish(m) \/ Abstract!Complete(m)
  \/ Abstract!Retry(m) \/ Abstract!GiveUp(m) \/ Abstract!Rest(m)

\* What becomes of a message, read off the two tables.
LEMMA BecomesIs ==
  ASSUME NEW m \in Messages, NEW s, NEW n, NEW d,
         inbound'[m].status = s, inbound'[m].tries = n, ack'[m] = "completed" <=> d
  PROVE  Abstract!Becomes(m, s, n, d)
BY DEF Abstract!Becomes, Status, Tries, Done

\* A message neither half of the mailbox moves is at rest.
LEMMA RestIs ==
  ASSUME NEW m \in Messages,
         inbound'[m].status = inbound[m].status, inbound'[m].tries = inbound[m].tries,
         ack'[m] = "completed" <=> ack[m] = "completed"
  PROVE  Moves(m)
<1>1. Abstract!Becomes(m, Status[m], Tries[m], m \in Done)
  BY DEF Abstract!Becomes, Status, Tries, Done
<1> QED
  BY <1>1 DEF Abstract!Rest, Moves

\* Mirroring the acks completes what a runner finished, and nothing else.
LEMMA SyncMoves ==
  ASSUME TypeOK, ArrivedInv, NEW m \in Messages,
         inbound'[m] = Synced(inbound)[m], ack'[m] = "completed" <=> ack[m] = "completed"
  PROVE  Moves(m)
<1>1. CASE ack[m] = "completed" /\ inbound[m].status \notin Settled
  <2>1. inbound'[m].status = "completed" /\ inbound'[m].tries = inbound[m].tries
    BY <1>1 DEF Synced, TypeOK
  <2>2. inbound[m].status = "pending"
    BY <1>1 DEF ArrivedInv, Unknown, TypeOK
  <2>3. Abstract!Becomes(m, "completed", Tries[m], TRUE)
    BY <1>1, <2>1, BecomesIs DEF Tries
  <2> QED
    BY <1>1, <2>2, <2>3 DEF Moves, Abstract!Complete, Status, Done
<1>2. CASE ~(ack[m] = "completed" /\ inbound[m].status \notin Settled)
  <2>1. inbound'[m] = inbound[m]
    BY <1>2 DEF Synced
  <2> QED
    BY <2>1, RestIs
<1> QED
  BY <1>1, <1>2

\* A reset counts a try of what was claimed, or gives it up.
LEMMA ResetMoves ==
  ASSUME TypeOK, ArrivedInv, NEW m \in Messages,
         NEW rows \in {inbound, Synced(inbound)}, ResetStuck(rows)
  PROVE  Moves(m)
<1>1. CASE m \in Processing
  <2>1. ack[m] # "completed" /\ ack'[m] = "none"
    BY <1>1 DEF ResetStuck, Processing, Claims
  <2>2. rows[m] = inbound[m]
    BY <2>1 DEF Synced
  <2>3. CASE m \notin DueIn(rows)
    <3>1. inbound'[m] = inbound[m]
      BY <2>2, <2>3 DEF ResetStuck
    <3> QED
      BY <2>1, <3>1, RestIs
  <2>4. CASE m \in DueIn(rows)
    <3>1. inbound'[m] = Retried(inbound[m]) /\ inbound[m].status = "pending"
      BY <1>1, <2>2, <2>4 DEF ResetStuck, DueIn
    <3>2. inbound[m].tries \in 0..MaxTries
      BY DEF TypeOK
    <3>3. CASE inbound[m].tries >= MaxTries
      <4>1. inbound'[m].status = "failed" /\ inbound'[m].tries = inbound[m].tries
        BY <3>1, <3>3 DEF Retried, TypeOK
      <4>2. Abstract!Becomes(m, "failed", Tries[m], FALSE)
        BY <2>1, <4>1, BecomesIs DEF Tries
      <4>3. Tries[m] = MaxTries
        BY <3>2, <3>3, ConstantsAssumption DEF Tries
      <4> QED
        BY <2>1, <3>1, <4>2, <4>3 DEF Moves, Abstract!GiveUp, Status, Done
    <3>4. CASE ~(inbound[m].tries >= MaxTries)
      <4>1. inbound'[m].status = "pending" /\ inbound'[m].tries = inbound[m].tries + 1
        BY <3>1, <3>4 DEF Retried
      <4>2. Abstract!Becomes(m, "pending", Tries[m] + 1, FALSE)
        BY <2>1, <4>1, BecomesIs DEF Tries
      <4>3. Tries[m] < MaxTries
        BY <3>2, <3>4, ConstantsAssumption DEF Tries
      <4> QED
        BY <2>1, <3>1, <4>2, <4>3 DEF Moves, Abstract!Retry, Status, Done
    <3> QED
      BY <3>3, <3>4
  <2> QED
    BY <2>3, <2>4
<1>2. CASE m \notin Processing
  <2>1. inbound'[m] = rows[m] /\ ack'[m] = ack[m]
    BY <1>2 DEF ResetStuck
  <2>2. CASE rows = inbound
    BY <2>1, <2>2, RestIs
  <2>3. CASE rows = Synced(inbound)
    BY <2>1, <2>3, SyncMoves
  <2> QED
    BY <2>2, <2>3
<1> QED
  BY <1>1, <1>2

\* A runner finishes what it holds, and holds nothing settled unless it escaped.
LEMMA RunnerMoves ==
  ASSUME TypeOK, MailboxInv, ArrivedInv, NEW c \in Containers, RunnerStep(c),
         NEW m \in Messages
  PROVE  Moves(m)
<1>1. inbound' = inbound
  BY RunnerStepArrived
<1>2. ASSUME ack'[m] = "completed" <=> ack[m] = "completed"
      PROVE  Moves(m)
  BY <1>1, <1>2, RestIs
<1>3. ASSUME m \in batch[c] \/ m \in held[c], ack'[m] = "completed", ack[m] # "completed"
      PROVE  Moves(m)
  <2>1. /\ inbound[m].status # "absent" /\ inbound[m].status # "completed"
        /\ refusals = 0 => inbound[m].status # "failed"
    BY <1>3 DEF ArrivedInv, Unknown, MailboxInv, CompletedByRunner, GivenUp
  <2>2. inbound[m].status = "pending" \/ refusals # 0
    BY <2>1 DEF TypeOK, Settled
  <2>3. Abstract!Becomes(m, Status[m], Tries[m], TRUE)
    BY <1>1, <1>3, BecomesIs DEF Status, Tries
  <2> QED
    BY <2>1, <2>2, <2>3 DEF Moves, Abstract!Finish, Status
<1> USE DEF TypeOK, Claims
<1>4. m \in Unclaimed => ack[m] = "none"
  BY DEF Unclaimed
<1>5. CASE Spawn(c)
  BY <1>2, <1>5 DEF Spawn
<1>6. CASE Boot(c)
  BY <1>2, <1>6 DEF Boot, Processing
<1>7. CASE Claim(c)
  BY <1>2, <1>4, <1>7 DEF Claim, Acked
<1>8. CASE Heartbeat(c)
  BY <1>2, <1>8 DEF Heartbeat, Beat
<1>9. CASE FollowUp(c)
  BY <1>2, <1>4, <1>9 DEF FollowUp, Acked
<1>10. CASE Push(c)
  BY <1>2, <1>3, <1>10 DEF Push, Acked
<1>11. CASE Result(c)
  BY <1>2, <1>3, <1>11 DEF Result, Acked, Beat
<1>12. CASE QueryEnds(c)
  BY <1>2, <1>3, <1>12 DEF QueryEnds, Acked
<1>13. CASE Hang(c)
  BY <1>2, <1>13 DEF Hang
<1>14. CASE Crash(c)
  BY <1>2, <1>14 DEF Crash
<1> QED
  BY <1>5, <1>6, <1>7, <1>8, <1>9, <1>10, <1>11, <1>12, <1>13, <1>14
  DEF RunnerStep, TurnSettles

\* Every step of the session moves every message as the inbox allows.
LEMMA MessageMoves ==
  ASSUME TypeOK, MailboxInv, ArrivedInv, [Next]_vars, NEW m \in Messages
  PROVE  Moves(m)
<1>1. CASE \/ Wake \/ SpawnFails \/ Started \/ StartFails \/ Terminal \/ Finish
           \/ Restart \/ Silence \/ UNCHANGED vars
  BY <1>1, QuietSteps, RestIs
<1>2. CASE Sweep \/ SweepResumes
  <2>1. CASE inbound' \in {inbound, Synced(inbound)} /\ ack' = ack
    BY <2>1, RestIs, SyncMoves
  <2> QED
    BY <1>2, <2>1, SweepShape, ResetMoves
<1>3. ASSUME NEW n \in Messages, Arrive(n) \/ Elapse(n) \/ Age(n)
      PROVE  Moves(m)
  <2> USE DEF TypeOK
  <2>1. CASE Arrive(n) /\ m = n
    <3>1. inbound'[m] = Row("pending") /\ ack'[m] = ack[m] /\ inbound[m].status = "absent"
      BY <2>1 DEF Arrive
    <3>2. ack[m] # "completed"
      BY <3>1 DEF ArrivedInv, Unknown
    <3>3. Abstract!Becomes(m, "pending", 0, FALSE)
      BY <3>1, <3>2 DEF Abstract!Becomes, Row, Status, Tries, Done
    <3> QED
      BY <3>1, <3>3 DEF Moves, Abstract!Accept, Status
  <2>2. CASE Arrive(n) /\ m # n
    BY <2>2, RestIs DEF Arrive
  <2>3. CASE Elapse(n)
    BY <2>3, RestIs DEF Elapse
  <2>4. CASE Age(n)
    BY <2>4, RestIs DEF Age
  <2> QED
    BY <1>3, <2>1, <2>2, <2>3, <2>4
<1> QED
  BY <1>1, <1>2, <1>3, RunnerMoves, RunnerStepArrived DEF Next, HostStep

\* Whatever crashes, hangs or restarts, the session keeps the inbox's promise:
\* a message is settled once, completed only if a runner finished it, failed
\* only when its tries are used up (host-sweep.ts, poll-loop.ts).
THEOREM SessionKeepsInbox == Spec => ImplementsInbox
<1>1. Init => Abstract!Init
  BY DEF Init, Row, Abstract!Init, Status, Tries, Done
<1>2. ASSUME TypeOK, MailboxInv, ArrivedInv, [Next]_vars
      PROVE  Abstract!Next
  <2>1. \A m \in Messages : Moves(m)
    BY <1>2, MessageMoves
  <2>2. refusals' = 0 => refusals = 0
    BY <1>2, RefusalsStay
  <2>3. DOMAIN Status' = Messages /\ DOMAIN Tries' = Messages /\ Done' \subseteq Messages
    BY DEF Status, Tries, Done
  <2> QED
    BY <2>1, <2>2, <2>3 DEF Abstract!Next, Moves
<1> QED
  BY <1>1, <1>2, TypeCorrect, MailboxInvariant, ArrivedInvariant, PTL
  DEF Spec, ImplementsInbox, Abstract!InboxSpec
-----------------------------------------------------------------------------
(* What the inbox promises holds of the session.                            *)

\* One step of the inbox keeps what is settled of each message.
LEMMA SettlementNext ==
  ASSUME TypeOK, Abstract!Settlement, [Abstract!Next]_(Abstract!vars)
  PROVE  Abstract!Settlement'
<1> USE DEF Abstract!Settlement
<1>1. CASE UNCHANGED Abstract!vars
  BY <1>1 DEF Abstract!vars
<1>2. CASE Abstract!Next
  <2>1. refusals' = 0 => refusals = 0
    BY <1>2 DEF Abstract!Next
  <2> SUFFICES ASSUME NEW m \in Messages
               PROVE  /\ Status'[m] = "absent" => m \notin Done' /\ Tries'[m] = 0
                      /\ Status'[m] = "completed" => m \in Done'
                      /\ Status'[m] = "failed" =>
                           Tries'[m] = MaxTries /\ (refusals' = 0 => m \notin Done')
    OBVIOUS
  <2>2. CASE Abstract!Accept(m)
    BY <2>2 DEF Abstract!Accept, Abstract!Becomes
  <2>3. CASE Abstract!Finish(m)
    BY <2>1, <2>3 DEF Abstract!Finish, Abstract!Becomes
  <2>4. CASE Abstract!Complete(m)
    BY <2>4 DEF Abstract!Complete, Abstract!Becomes
  <2>5. CASE Abstract!Retry(m)
    BY <2>5 DEF Abstract!Retry, Abstract!Becomes
  <2>6. CASE Abstract!GiveUp(m)
    BY <2>6 DEF Abstract!GiveUp, Abstract!Becomes
  <2>7. CASE Abstract!Rest(m)
    BY <2>1, <2>7 DEF Abstract!Rest, Abstract!Becomes
  <2> QED
    BY <1>2, <2>2, <2>3, <2>4, <2>5, <2>6, <2>7 DEF Abstract!Next
<1> QED
  BY <1>1, <1>2

\* A completed row was finished by a runner; a failed one used all its tries,
\* and no runner finished it unless one escaped the host.
THEOREM SettledRightly == Spec => []Abstract!Settlement
<1>1. Abstract!Init => Abstract!Settlement
  BY DEF Abstract!Init, Abstract!Settlement
<1> QED
  BY <1>1, SettlementNext, SessionKeepsInbox, TypeCorrect, PTL
  DEF ImplementsInbox, Abstract!InboxSpec

\* A settled row keeps its status, a finished message stays finished and costs
\* no further try, and tries are only ever counted up.
THEOREM NothingRevoked == Spec => Abstract!Progress
<1>1. ASSUME TypeOK, Abstract!Settlement, [Abstract!Next]_(Abstract!vars)
      PROVE  [\A m \in Messages :
                /\ Status[m] \in {"completed", "failed"} => Status'[m] = Status[m]
                /\ m \in Done => m \in Done' /\ Tries'[m] = Tries[m]
                /\ Tries'[m] >= Tries[m]]_(Abstract!vars)
  <2> SUFFICES ASSUME Abstract!Next, NEW m \in Messages
               PROVE  /\ Status[m] \in {"completed", "failed"} => Status'[m] = Status[m]
                      /\ m \in Done => m \in Done' /\ Tries'[m] = Tries[m]
                      /\ Tries'[m] >= Tries[m]
    BY <1>1
  <2>1. Tries[m] \in Nat
    BY <1>1, ConstantsAssumption DEF Tries, TypeOK
  <2>2. Status[m] = "absent" => m \notin Done /\ Tries[m] = 0
    BY <1>1 DEF Abstract!Settlement
  <2>3. Moves(m)
    BY DEF Abstract!Next, Moves
  <2> QED
    BY <2>1, <2>2, <2>3
    DEF Moves, Abstract!Accept, Abstract!Finish, Abstract!Complete, Abstract!Retry,
        Abstract!GiveUp, Abstract!Rest, Abstract!Becomes
<1> QED
  BY <1>1, SessionKeepsInbox, SettledRightly, TypeCorrect, PTL
  DEF ImplementsInbox, Abstract!InboxSpec, Abstract!Progress
=============================================================================
