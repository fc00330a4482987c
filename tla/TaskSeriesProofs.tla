-------------------------- MODULE TaskSeriesProofs --------------------------
(***************************************************************************)
(* The safety of a task series, for any number of occurrences, commands,   *)
(* refused writes and restarts.  Two accounts are kept: of what the sweep  *)
(* has still to re-arm, and of the occurrences that can still run, which   *)
(* bounds the failures of a broken script.                                 *)
(***************************************************************************)
EXTENDS TaskSeries, TLAPS, FiniteSetTheorems

\* Only a live or a finished occurrence is recurring, and the sweep has
\* something to re-arm only while it re-arms.
RecurInv ==
  /\ recur \subseteq Live \union Finished
  /\ sweeping # "rearming" => todo = {} /\ current = 0

\* While the sweep re-arms, no finished recurring occurrence is left out, but one
\* it was refused a write for; it has no business in a closed session.
RearmInv ==
  /\ sweeping = "rearming" => recur \intersect Finished \subseteq todo \union refused
  /\ session # "active" => sweeping = "idle"
  /\ session = "none" => Stored = {}

\* The occurrences that can still run: pending, or claimed and not finished.
Runnable == {r \in Stored \ Finished : status[r] = "pending" \/ ack[r] # "none"}

\* The failures in a row.
Trail == {r \in Finished : \A q \in Finished : q >= r => status[q] = "failed"}

\* The carriers but the one about to be cleared, be the session open or not.
Going == Carriers \ {current}

\* What may run again without a re-arming, and what is to be re-armed.
Outstanding == {r \in Stored \ Finished : r \in Live \/ ack[r] # "none"} \union Going

\* An occurrence is outstanding because it was created first, or by a command,
\* or by a fork.
BudgetInv == Cardinality(Outstanding) <= 1 + kept + forks

\* Should all that can run fail, the script would still have been paused in time.
StreakInv == Cardinality(Trail \union Runnable) <= Cap + kept + forks

SeriesInv == TypeOK /\ RecurInv /\ RearmInv
-----------------------------------------------------------------------------
AllStatus == {"absent", "pending", "paused", "completed", "failed", "cancelled"}
AllAcks == {"none", "processing", "completed", "script-skip:error"}

\* The part of TypeOK that is about rows.
RowsTyped ==
  /\ status \in [Occurrences -> AllStatus]
  /\ recur \subseteq Stored
  /\ due \subseteq Stored
  /\ tries \in [Occurrences -> 0..MaxTries]
  /\ ack \in [Occurrences -> AllAcks]
  /\ \A r \in Occurrences : ack[r] # "none" => r \in due

\* The part that is about the sweep.
SweepTyped ==
  /\ sweeping \in {"idle", "waking", "rearming"}
  /\ todo \subseteq recur \intersect Finished
  /\ current \in todo \union {0}

\* The bounded counters.
Counted ==
  /\ faults \in 0..MaxFaults
  /\ restarts \in 0..MaxRestarts
  /\ commands \in 0..MaxCommands

Recorded == kept \in Nat /\ forks \in Nat /\ late \subseteq Stored /\ refused \subseteq Stored

Switched == session \in {"none", "active", "closed"} /\ running \in BOOLEAN

LEMMA TypeParts == TypeOK <=> RowsTyped /\ SweepTyped /\ Counted /\ Recorded /\ Switched
BY DEF TypeOK, RowsTyped, SweepTyped, Counted, Recorded, Switched, AllStatus, AllAcks

LEMMA OccurrencesFinite == IsFiniteSet(Occurrences) /\ Occurrences \subseteq Nat /\ 0 \notin Occurrences
BY SeriesAssumption, FS_Interval DEF Occurrences

LEMMA CountGrows ==
  ASSUME NEW T, T \subseteq Occurrences, NEW S, S \subseteq T
  PROVE  Cardinality(S) \in Nat /\ Cardinality(T) \in Nat /\ Cardinality(S) <= Cardinality(T)
<1>1. IsFiniteSet(T)
  BY OccurrencesFinite, FS_Subset
<1>2. IsFiniteSet(S) /\ Cardinality(S) <= Cardinality(T)
  BY <1>1, FS_Subset
<1> QED
  BY <1>1, <1>2, FS_CardinalityType

LEMMA CountAdded ==
  ASSUME NEW T, T \subseteq Occurrences, NEW x \in Occurrences, NEW S, S \subseteq T \union {x}
  PROVE  Cardinality(S) <= Cardinality(T) + 1
<1>1. IsFiniteSet(T) /\ Cardinality(T) \in Nat
  BY OccurrencesFinite, FS_Subset, FS_CardinalityType
<1>2. Cardinality(T \union {x}) <= Cardinality(T) + 1
  <2>1. CASE x \in T
    <3>1. T \union {x} = T
      BY <2>1
    <3> QED
      BY <1>1, <3>1
  <2>2. CASE x \notin T
    <3>1. Cardinality(T \union {x}) = Cardinality(T) + 1
      BY <1>1, <2>2, FS_AddElement
    <3> QED
      BY <1>1, <3>1
  <2> QED
    BY <2>1, <2>2
<1>3. Cardinality(S) \in Nat /\ Cardinality(S) <= Cardinality(T \union {x}) /\ Cardinality(T \union {x}) \in Nat
  BY CountGrows
<1> QED
  BY <1>1, <1>2, <1>3

LEMMA CountJoined ==
  ASSUME NEW T, T \subseteq Occurrences, NEW U, U \subseteq Occurrences, NEW S, S \subseteq T \union U
  PROVE  Cardinality(S) <= Cardinality(T) + Cardinality(U)
<1>1. /\ IsFiniteSet(T) /\ Cardinality(T) \in Nat
      /\ IsFiniteSet(U) /\ Cardinality(U) \in Nat
  BY OccurrencesFinite, FS_Subset, FS_CardinalityType
<1>2. Cardinality(T \union U) = Cardinality(T) + Cardinality(U) - Cardinality(T \intersect U)
  BY <1>1, FS_Union
<1>3. Cardinality(T \intersect U) \in Nat
  BY CountGrows
<1>4. Cardinality(S) \in Nat /\ Cardinality(S) <= Cardinality(T \union U) /\ Cardinality(T \union U) \in Nat
  BY CountGrows
<1> QED
  BY <1>1, <1>2, <1>3, <1>4

-----------------------------------------------------------------------------
(* What a step may do to the rows.                                         *)

\* Rows settle, are claimed or lose their claim; none comes to life.
QuietRows ==
  \A r \in Occurrences :
    \/ status'[r] = status[r] /\ (ack'[r] = "none" \/ ack[r] # "none" \/ status[r] = "pending")
    \/ r \in Runnable /\ status'[r] \in {"completed", "failed"}

Quiet == QuietRows /\ UNCHANGED <<recur, current, kept, forks, commands, late>>

LEMMA MirroredFacts ==
  ASSUME TypeOK, NEW r \in Occurrences
  PROVE  /\ Mirrored(r) \in AllStatus
         /\ \/ Mirrored(r) = status[r]
            \/ r \in Runnable /\ Mirrored(r) \in {"completed", "failed"}
         /\ r \in Stored <=> Mirrored(r) # "absent"
BY DEF TypeOK, Mirrored, Runnable, Stored, Finished, AllStatus

LEMMA QuietSets ==
  ASSUME TypeOK, QuietRows, status' \in [Occurrences -> AllStatus]
  PROVE  /\ Stored' = Stored /\ Live' \subseteq Live
         /\ Finished \subseteq Finished' /\ Live \union Finished \subseteq Live' \union Finished'
BY DEF TypeOK, QuietRows, Stored, Finished, Live, Runnable

LEMMA MaintainTyped ==
  ASSUME TypeOK, RecurInv, sweeping # "rearming", NEW reset \in BOOLEAN, Maintain(reset)
  PROVE  /\ RowsTyped' /\ SweepTyped' /\ QuietRows
         /\ recur' = recur /\ current' = 0 /\ current = 0
         /\ sweeping' = "rearming" /\ todo' = recur' \intersect Finished' /\ refused' = {}
<1>1. status' \in [Occurrences -> AllStatus]
  BY MirroredFacts DEF Maintain, AllStatus
<1>2. ack' \in [Occurrences -> AllAcks] /\ \A r \in Occurrences : ack'[r] \in {ack[r], "none"}
  BY DEF Maintain, Unclaimed, TypeOK, AllAcks
<1>3. \A r \in Occurrences : reset /\ Stuck(r) => ack'[r] = "none" /\ r \in Runnable
  BY DEF Maintain, Unclaimed, Stuck, Runnable, Stored, Finished, TypeOK
<1>4. \A r \in Occurrences : 
         \/ status'[r] = status[r]
         \/ r \in Runnable /\ status'[r] \in {"completed", "failed"}
  BY <1>3, MirroredFacts DEF Maintain
<1>5. Stored' = Stored
  BY <1>1, <1>4 DEF Stored, Runnable
<1>6. due' \subseteq due
  BY DEF Maintain
<1>7. \A r \in Occurrences : ack'[r] # "none" => r \in due'
  BY <1>2, <1>3 DEF Maintain, TypeOK
<1>8. tries' \in [Occurrences -> 0..MaxTries]
  BY SeriesAssumption DEF Maintain, TypeOK
<1>9. recur' = recur /\ current' = 0 /\ sweeping' = "rearming" /\ todo' = recur \intersect Finished' /\ refused' = {}
  <2>1. Occurrences = 1..MaxRows /\ recur \subseteq Occurrences
    BY DEF Occurrences, TypeOK, Stored
  <2> QED
    BY <2>1 DEF Maintain, Recurring, Finished, RecurInv
<1> QED
  BY <1>1, <1>2, <1>4, <1>5, <1>6, <1>7, <1>8, <1>9 DEF RowsTyped, SweepTyped, QuietRows, RecurInv, TypeOK

LEMMA InsertTyped ==
  ASSUME TypeOK, NEW r \in Occurrences, NEW as \in {"pending", "paused"},
         NEW again \in BOOLEAN, NEW now \in BOOLEAN, Insert(r, as, again, now)
  PROVE  /\ RowsTyped'
         /\ r \notin Stored /\ Stored' = Stored \union {r}
         /\ Live' = Live \union {r} /\ Finished' = Finished
         /\ status'[r] = as /\ \A q \in Occurrences \ {r} : status'[q] = status[q]
<1>1. r \notin Stored
  BY DEF Insert, IsNext
<1>2. status' \in [Occurrences -> AllStatus] /\ status'[r] = as /\ \A q \in Occurrences \ {r} : status'[q] = status[q]
  BY DEF Insert, TypeOK, AllStatus
<1>3. Stored' = Stored \union {r} /\ Live' = Live \union {r} /\ Finished' = Finished
  BY <1>1, <1>2 DEF Stored, Live, Finished
<1>4. recur' \subseteq Stored' /\ due' \subseteq Stored' /\ due \subseteq due'
  BY <1>3 DEF Insert, TypeOK
<1>5. tries' = tries /\ ack' = ack
  BY DEF Insert
<1> QED
  BY <1>1, <1>2, <1>3, <1>4, <1>5 DEF RowsTyped, TypeOK, AllAcks

LEMMA CommandCounted ==
  ASSUME TypeOK, Command, UNCHANGED <<faults, restarts>>
  PROVE  Counted'
<1>1. commands < MaxCommands /\ commands' = commands + 1
  BY DEF Command
<1>2. commands \in 0..MaxCommands /\ MaxCommands \in Nat
  BY SeriesAssumption DEF TypeOK
<1>3. commands' \in 0..MaxCommands
  BY <1>1, <1>2
<1> QED
  BY <1>3 DEF Counted, TypeOK

LEMMA FaultCounted ==
  ASSUME TypeOK, Fault, UNCHANGED <<commands, restarts>>
  PROVE  Counted'
<1>1. faults < MaxFaults /\ faults' = faults + 1
  BY DEF Fault
<1>2. faults \in 0..MaxFaults /\ MaxFaults \in Nat
  BY SeriesAssumption DEF TypeOK
<1>3. faults' \in 0..MaxFaults
  BY <1>1, <1>2
<1> QED
  BY <1>3 DEF Counted, TypeOK
-----------------------------------------------------------------------------
(* The steps of the runner and of time, and those of the sweep that only    *)
(* settle rows.                                                            *)

LEMMA QuietSeries ==
  ASSUME SeriesInv, Quiet, RowsTyped', SweepTyped', Counted', Switched', refused' \subseteq Stored,
         \/ UNCHANGED <<sweeping, todo, status, refused>>
         \/ sweeping' = "rearming" /\ todo' = recur \intersect Finished'
         \/ sweeping' # "rearming" /\ todo' = {} /\ current' = 0
         \/ /\ UNCHANGED <<sweeping, status>> /\ todo' \subseteq todo
            /\ todo \union refused \subseteq todo' \union refused',
         session' # "active" => sweeping' = "idle",
         session' = "none" => session = "none"
  PROVE  SeriesInv'
<1> USE DEF SeriesInv
<1>1. status' \in [Occurrences -> AllStatus]
  BY DEF RowsTyped
<1>2. /\ Stored' = Stored /\ Finished \subseteq Finished'
      /\ Live \union Finished \subseteq Live' \union Finished'
  BY <1>1, QuietSets DEF Quiet
<1>3. Recorded'
  BY <1>2 DEF Recorded, Quiet, TypeOK
<1>4. TypeOK'
  <2>1. (RowsTyped /\ SweepTyped /\ Counted /\ Recorded /\ Switched)'
    BY <1>3
  <2> QED
    BY <2>1 DEF TypeOK, RowsTyped, SweepTyped, Counted, Recorded, Switched, AllStatus, AllAcks
<1>5. RecurInv'
  <2>1. recur' \subseteq Live' \union Finished'
    BY <1>2 DEF RecurInv, Quiet
  <2>2. sweeping' # "rearming" => todo' = {} /\ current' = 0
    BY DEF RecurInv, Quiet
  <2> QED
    BY <2>1, <2>2 DEF RecurInv
<1>6. RearmInv'
  <2>1. sweeping' = "rearming" => recur' \intersect Finished' \subseteq todo' \union refused'
    <3>1. CASE UNCHANGED <<sweeping, status>> /\ todo \union refused \subseteq todo' \union refused'
      <4>1. Finished' = Finished
        BY <3>1 DEF Finished
      <4> QED
        BY <3>1, <4>1 DEF RearmInv, Quiet
    <3> QED
      BY <3>1 DEF Quiet
  <2> QED
    BY <1>2, <2>1 DEF RearmInv
<1> QED
  BY <1>4, <1>5, <1>6

LEMMA FallDueQuiet ==
  ASSUME SeriesInv, NEW r \in Occurrences, FallDue(r)
  PROVE  SeriesInv' /\ Quiet
<1> USE DEF SeriesInv, FallDue
<1>1. Quiet
  BY DEF Quiet, QuietRows, history, sweeper
<1>2. RowsTyped'
  BY DEF RowsTyped, TypeOK, Live, Stored, AllStatus, AllAcks
<1>3. SweepTyped' /\ Counted' /\ refused' = refused /\ refused \subseteq Stored
  BY SeriesAssumption DEF SweepTyped, Counted, TypeOK, Finished, sweeper, history
<1>4. Switched'
  BY DEF Switched, TypeOK
<1>5. session' # "active" => sweeping' = "idle"
  BY DEF RearmInv, sweeper
<1> QED
  BY <1>1, <1>2, <1>3, <1>4, <1>5, QuietSeries DEF sweeper

LEMMA ClaimQuiet ==
  ASSUME SeriesInv, NEW r \in Occurrences, Claim(r)
  PROVE  SeriesInv' /\ Quiet
<1> USE DEF SeriesInv, Claim
<1>1. Quiet
  BY DEF Quiet, QuietRows, history, sweeper, TypeOK
<1>2. RowsTyped'
  BY DEF RowsTyped, TypeOK, Stored, AllStatus, AllAcks
<1>3. SweepTyped' /\ Counted' /\ refused' = refused /\ refused \subseteq Stored
  BY SeriesAssumption DEF SweepTyped, Counted, TypeOK, Finished, sweeper, history
<1>4. Switched'
  BY DEF Switched, TypeOK
<1>5. session' # "active" => sweeping' = "idle"
  BY DEF RearmInv, sweeper
<1> QED
  BY <1>1, <1>2, <1>3, <1>4, <1>5, QuietSeries DEF sweeper

LEMMA RunEndsQuiet ==
  ASSUME SeriesInv, NEW r \in Occurrences, NEW how \in {"completed", "script-skip:error"}, RunEnds(r, how)
  PROVE  SeriesInv' /\ Quiet
<1> USE DEF SeriesInv, RunEnds
<1>1. Quiet
  BY DEF Quiet, QuietRows, history, sweeper, TypeOK
<1>2. RowsTyped'
  BY DEF RowsTyped, TypeOK, Stored, AllStatus, AllAcks
<1>3. SweepTyped' /\ Counted' /\ refused' = refused /\ refused \subseteq Stored
  BY SeriesAssumption DEF SweepTyped, Counted, TypeOK, Finished, sweeper, history
<1>4. Switched'
  BY DEF Switched, TypeOK
<1>5. session' # "active" => sweeping' = "idle"
  BY DEF RearmInv, sweeper
<1> QED
  BY <1>1, <1>2, <1>3, <1>4, <1>5, QuietSeries DEF sweeper

LEMMA StopQuiet ==
  ASSUME SeriesInv, Stop
  PROVE  SeriesInv' /\ Quiet
<1> USE DEF SeriesInv, Stop
<1>1. Quiet
  BY DEF Quiet, QuietRows, history, rows, sweeper
<1>2. RowsTyped'
  BY DEF RowsTyped, TypeOK, Stored, AllStatus, AllAcks, rows
<1>3. SweepTyped' /\ Counted' /\ refused' = refused /\ refused \subseteq Stored
  BY SeriesAssumption DEF SweepTyped, Counted, TypeOK, Finished, sweeper, history, rows
<1>4. Switched'
  BY DEF Switched, TypeOK
<1>5. session' # "active" => sweeping' = "idle"
  BY DEF RearmInv, sweeper
<1> QED
  BY <1>1, <1>2, <1>3, <1>4, <1>5, QuietSeries DEF sweeper, rows

LEMMA SweepWakesQuiet ==
  ASSUME SeriesInv, SweepWakes
  PROVE  SeriesInv' /\ Quiet
<1> USE DEF SeriesInv
<1>1. status' \in [Occurrences -> AllStatus] /\ \A r \in Occurrences : status'[r] = Mirrored(r)
  BY MirroredFacts DEF SweepWakes, AllStatus
<1>2. QuietRows
  BY <1>1, MirroredFacts DEF SweepWakes, QuietRows
<1>3. UNCHANGED <<recur, current, kept, forks, commands, late, due, tries, ack, todo, session, running, faults, restarts, refused>>
  BY DEF SweepWakes, history
<1>4. Quiet
  BY <1>2, <1>3 DEF Quiet
<1>5. Stored' = Stored
  BY <1>1, <1>2, QuietSets
<1>6. RowsTyped'
  BY <1>1, <1>3, <1>5 DEF RowsTyped, TypeOK, AllStatus, AllAcks
<1>7. todo' = {} /\ current' = 0 /\ sweeping' = "waking" /\ session' = "active"
  BY <1>3 DEF SweepWakes, RecurInv
<1>8. SweepTyped' /\ Counted' /\ Switched' /\ refused' \subseteq Stored
  BY <1>3, <1>7, SeriesAssumption DEF SweepTyped, Counted, Switched, TypeOK
<1> QED
  BY <1>3, <1>4, <1>6, <1>7, <1>8, QuietSeries

LEMMA SweepGoesOnQuiet ==
  ASSUME SeriesInv, NEW kill \in BOOLEAN, SweepGoesOn(kill)
  PROVE  SeriesInv' /\ Quiet
<1> USE DEF SeriesInv
<1>1. /\ UNCHANGED <<session, faults, restarts, kept, forks, commands, late>>
      /\ running' \in BOOLEAN /\ session = "active" /\ sweeping = "idle"
  BY DEF SweepGoesOn, history
<1>2. Maintain(kill \/ ~ running)
  BY DEF SweepGoesOn
<1>3. /\ RowsTyped' /\ SweepTyped' /\ QuietRows
      /\ recur' = recur /\ current' = 0 /\ current = 0
      /\ sweeping' = "rearming" /\ todo' = recur' \intersect Finished' /\ refused' = {}
  BY <1>1, <1>2, MaintainTyped
<1>4. Quiet
  BY <1>1, <1>3 DEF Quiet
<1>5. Counted' /\ Switched' /\ refused' \subseteq Stored
  BY <1>1, <1>3, SeriesAssumption DEF Counted, Switched, TypeOK
<1> QED
  BY <1>1, <1>3, <1>4, <1>5, QuietSeries

LEMMA NotWokenQuiet ==
  ASSUME SeriesInv, NotWoken
  PROVE  SeriesInv' /\ Quiet
<1> USE DEF SeriesInv
<1>1. /\ UNCHANGED <<session, running, faults, restarts, kept, forks, commands, late>>
      /\ sweeping = "waking" /\ Maintain(TRUE)
  BY DEF NotWoken, history
<1>2. session' = "active"
  BY <1>1 DEF RearmInv, TypeOK
<1>3. /\ RowsTyped' /\ SweepTyped' /\ QuietRows
      /\ recur' = recur /\ current' = 0 /\ current = 0
      /\ sweeping' = "rearming" /\ todo' = recur' \intersect Finished' /\ refused' = {}
  BY <1>1, MaintainTyped
<1>4. Quiet
  BY <1>1, <1>3 DEF Quiet
<1>5. Counted' /\ Switched' /\ refused' \subseteq Stored
  BY <1>1, <1>3, SeriesAssumption DEF Counted, Switched, TypeOK
<1> QED
  BY <1>2, <1>3, <1>4, <1>5, QuietSeries

LEMMA WokenQuiet ==
  ASSUME SeriesInv, Woken
  PROVE  SeriesInv' /\ Quiet
<1> USE DEF SeriesInv
<1>1. /\ UNCHANGED <<session, status, recur, due, tries, current, faults, restarts, kept, forks, commands, late>>
      /\ refused' = {} /\ sweeping = "waking" /\ running' \in BOOLEAN /\ sweeping' = "rearming" /\ current = 0
  BY DEF Woken, history, RecurInv
<1>2. session' = "active"
  BY <1>1 DEF RearmInv, TypeOK
<1>3. ack' \in [Occurrences -> AllAcks] /\ \A r \in Occurrences : ack'[r] \in {ack[r], "none"}
  BY DEF Woken, Unclaimed, TypeOK, AllAcks
<1>4. Stored' = Stored /\ Finished' = Finished
  BY <1>1 DEF Stored, Finished
<1>5. RowsTyped'
  BY <1>1, <1>3, <1>4 DEF RowsTyped, TypeOK, AllStatus
<1>6. todo' = recur \intersect Finished'
  <2>1. recur \subseteq Occurrences
    BY DEF TypeOK, Stored
  <2> QED
    BY <1>4, <2>1 DEF Woken, Recurring, Finished
<1>7. SweepTyped'
  BY <1>1, <1>6 DEF SweepTyped
<1>8. QuietRows
  BY <1>1, <1>3 DEF QuietRows
<1>9. Quiet
  BY <1>1, <1>8 DEF Quiet
<1>10. Counted' /\ Switched' /\ refused' \subseteq Stored
  BY <1>1, SeriesAssumption DEF Counted, Switched, TypeOK
<1> QED
  BY <1>1, <1>2, <1>5, <1>6, <1>7, <1>9, <1>10, QuietSeries

LEMMA RearmFailsQuiet ==
  ASSUME SeriesInv, NEW r \in Occurrences, RearmFails(r)
  PROVE  SeriesInv' /\ Quiet
<1> USE DEF SeriesInv
<1>1. /\ UNCHANGED <<session, status, recur, due, tries, ack, running, sweeping, current, restarts, kept, forks, commands, late>>
      /\ sweeping = "rearming" /\ current = 0 /\ todo' = todo \ {r} /\ r \in todo /\ Fault
      /\ refused' = refused \union {r}
  BY DEF RearmFails, history, rows
<1>2. Counted' /\ refused' \subseteq Stored
  <2>1. Counted'
    BY <1>1, FaultCounted
  <2>2. refused' \subseteq Stored
    BY <1>1 DEF TypeOK
  <2> QED
    BY <2>1, <2>2
<1>3. Stored' = Stored /\ Finished' = Finished
  BY <1>1 DEF Stored, Finished
<1>4. RowsTyped' /\ SweepTyped' /\ Switched'
  <2>1. RowsTyped'
    BY <1>1, <1>3 DEF RowsTyped, TypeOK, AllStatus, AllAcks
  <2>2. SweepTyped'
    BY <1>1, <1>3 DEF SweepTyped, TypeOK
  <2>3. Switched'
    BY <1>1 DEF Switched, TypeOK
  <2> QED
    BY <2>1, <2>2, <2>3
<1>5. Quiet
  BY <1>1 DEF Quiet, QuietRows
<1>6. session' # "active" => sweeping' = "idle"
  BY <1>1 DEF RearmInv
<1> QED
  BY <1>1, <1>2, <1>4, <1>5, <1>6, QuietSeries

LEMMA SweepEndsQuiet ==
  ASSUME SeriesInv, SweepEnds
  PROVE  SeriesInv' /\ Quiet
<1> USE DEF SeriesInv
<1>1. /\ UNCHANGED <<status, recur, due, tries, ack, running, todo, current, faults, restarts, kept, forks, commands, late, refused>>
      /\ sweeping = "rearming" /\ todo = {} /\ sweeping' = "idle"
  BY DEF SweepEnds, history, rows
<1>2. session = "active" /\ session' \in {"active", "closed"}
  BY <1>1 DEF SweepEnds, RearmInv, TypeOK
<1>3. Stored' = Stored /\ Finished' = Finished /\ current = 0
  BY <1>1 DEF Stored, Finished, TypeOK
<1>4. RowsTyped' /\ SweepTyped' /\ Counted' /\ refused' \subseteq Stored
  <2>1. RowsTyped'
    BY <1>1, <1>3 DEF RowsTyped, TypeOK, AllStatus, AllAcks
  <2>2. SweepTyped'
    BY <1>1, <1>3 DEF SweepTyped, TypeOK
  <2>3. Counted' /\ refused' \subseteq Stored
    BY <1>1 DEF Counted, TypeOK
  <2> QED
    BY <2>1, <2>2, <2>3
<1>5. Quiet
  BY <1>1 DEF Quiet, QuietRows
<1>6. Switched'
  BY <1>1, <1>2 DEF Switched, TypeOK
<1> QED
  BY <1>1, <1>2, <1>3, <1>4, <1>5, <1>6, QuietSeries
-----------------------------------------------------------------------------
(* The commands.                                                           *)

LEMMA AssembledType ==
  ASSUME RowsTyped', SweepTyped', Counted', Recorded', Switched'
  PROVE  TypeOK'
BY DEF TypeOK, RowsTyped, SweepTyped, Counted, Recorded, Switched, AllStatus, AllAcks

\* What holds of a step whose rows are of the right type, whatever it did.
LEMMA CommandSeries ==
  ASSUME SeriesInv, Command, RowsTyped', Recorded',
         UNCHANGED <<running, sweeping, todo, current, faults, restarts, refused>>,
         session' = session \/ session' = "active",
         Finished' = Finished, recur' \intersect Finished = recur \intersect Finished,
         recur' \subseteq Live' \union Finished',
         session' = "none" => Stored' = Stored
  PROVE  SeriesInv'
<1> USE DEF SeriesInv
<1>1. Counted'
  BY CommandCounted
<1>2. SweepTyped' /\ Switched'
  <2>1. SweepTyped'
    BY DEF SweepTyped, TypeOK
  <2>2. Switched'
    BY DEF Switched, TypeOK
  <2> QED
    BY <2>1, <2>2
<1>3. TypeOK'
  BY <1>1, <1>2, AssembledType
<1>4. RecurInv'
  BY DEF RecurInv
<1>5. RearmInv'
  BY DEF RearmInv
<1> QED
  BY <1>3, <1>4, <1>5

LEMMA CreateSeries ==
  ASSUME SeriesInv, Create
  PROVE  /\ SeriesInv' /\ Stored' = {1} /\ session = "none" /\ session' = "active"
         /\ commands' = commands + 1 /\ UNCHANGED <<kept, forks, late, refused>>
<1> USE DEF SeriesInv
<1>1. PICK again \in BOOLEAN, as \in {"pending", "paused"} : Insert(1, as, again, FALSE)
  BY DEF Create
<1>2. /\ UNCHANGED <<running, sweeping, todo, current, faults, restarts, kept, forks, late, refused>>
      /\ session = "none" /\ session' = "active" /\ Command
  BY DEF Create, sweeper
<1>3. 1 \in Occurrences
  BY SeriesAssumption DEF Occurrences
<1>4. /\ RowsTyped'
      /\ 1 \notin Stored /\ Stored' = Stored \union {1}
      /\ Live' = Live \union {1} /\ Finished' = Finished
  BY <1>1, <1>3, InsertTyped
<1>5. Stored = {}
  BY <1>2 DEF RearmInv
<1>6. Finished = {} /\ recur' \subseteq recur \union {1}
  BY <1>1, <1>5 DEF Insert, Finished, Stored
<1>7. recur' \subseteq Live' \union Finished'
  BY <1>4, <1>6 DEF RecurInv
<1>8. Recorded'
  BY <1>2, <1>4 DEF Recorded, TypeOK
<1>9. SeriesInv'
  BY <1>2, <1>4, <1>6, <1>7, <1>8, CommandSeries
<1> QED
  BY <1>2, <1>4, <1>5, <1>9 DEF Command

LEMMA CancelSeries ==
  ASSUME SeriesInv, Cancel
  PROVE  /\ SeriesInv' /\ Stored' = Stored /\ Live' = {} /\ Finished' = Finished
         /\ recur' = recur \ Live /\ \A r \in Finished : status'[r] = status[r]
         /\ commands' = commands + 1 /\ UNCHANGED <<session, current, ack, kept, forks, late, refused>>
<1> USE DEF SeriesInv
<1>1. /\ UNCHANGED <<session, due, tries, ack, running, sweeping, todo, current, faults, restarts, kept, forks, late, refused>>
      /\ Command /\ recur' = recur \ Live
      /\ status' = [r \in Occurrences |-> IF r \in Live THEN "cancelled" ELSE status[r]]
  BY DEF Cancel, sweeper
<1>2. status' \in [Occurrences -> AllStatus]
  BY <1>1 DEF TypeOK, AllStatus
<1>3. Stored' = Stored /\ Live' = {} /\ Finished' = Finished /\ \A r \in Finished : status'[r] = status[r]
  BY <1>1 DEF Stored, Live, Finished
<1>4. Live \intersect Finished = {}
  BY DEF Live, Finished
<1>5. RowsTyped'
  BY <1>1, <1>2, <1>3 DEF RowsTyped, TypeOK, AllAcks
<1>6. Recorded'
  BY <1>1, <1>3 DEF Recorded, TypeOK
<1>7. recur' \subseteq Live' \union Finished' /\ recur' \intersect Finished = recur \intersect Finished
  BY <1>1, <1>3, <1>4 DEF RecurInv
<1>8. SeriesInv'
  BY <1>1, <1>3, <1>5, <1>6, <1>7, CommandSeries
<1> QED
  BY <1>1, <1>3, <1>8 DEF Command

LEMMA SwitchSets ==
  ASSUME SeriesInv, NEW from \in {"pending", "paused"}, NEW to \in {"pending", "paused"}, Switch(from, to)
  PROVE  /\ UNCHANGED <<session, recur, due, tries, ack, running, sweeping, todo, current, faults, restarts, forks, late, refused>>
         /\ Command /\ RowsTyped'
         /\ Stored' = Stored /\ Live' = Live /\ Finished' = Finished
         /\ \A r \in Occurrences : status'[r] = status[r] \/ (status[r] = from /\ status'[r] = to)
<1> USE DEF SeriesInv
<1>1. /\ UNCHANGED <<session, recur, due, tries, ack, running, sweeping, todo, current, faults, restarts, forks, late, refused>>
      /\ Command
      /\ status' = [r \in Occurrences |-> IF status[r] = from THEN to ELSE status[r]]
  BY DEF Switch, sweeper
<1>2. status' \in [Occurrences -> AllStatus]
  BY <1>1 DEF TypeOK, AllStatus
<1>3. Stored' = Stored /\ Live' = Live /\ Finished' = Finished
  BY <1>1 DEF Stored, Live, Finished
<1>4. RowsTyped'
  BY <1>1, <1>2, <1>3 DEF RowsTyped, TypeOK, AllAcks
<1>5. \A r \in Occurrences : status'[r] = status[r] \/ (status[r] = from /\ status'[r] = to)
  BY <1>1
<1> QED
  BY <1>1, <1>3, <1>4, <1>5

Paused == {r \in Occurrences : status[r] = "paused"}

\* kept may only be counted up.
SwitchedSeries ==
  /\ SeriesInv' /\ Stored' = Stored /\ Live' = Live /\ Finished' = Finished
  /\ \A r \in Finished : status'[r] = status[r]
  /\ commands' = commands + 1
  /\ UNCHANGED <<session, recur, ack, current, forks, late, refused>>

LEMMA PauseSeries ==
  ASSUME SeriesInv, Pause
  PROVE  SwitchedSeries /\ kept' = kept /\ \A r \in Occurrences : status'[r] = "pending" => status[r] = "pending"
<1> USE DEF SeriesInv
<1>1. Switch("pending", "paused") /\ kept' = kept
  BY DEF Pause
<1>2. /\ UNCHANGED <<session, recur, due, tries, ack, running, sweeping, todo, current, faults, restarts, forks, late, refused>>
      /\ Command /\ RowsTyped'
      /\ Stored' = Stored /\ Live' = Live /\ Finished' = Finished
      /\ \A r \in Occurrences : status'[r] = status[r] \/ (status[r] = "pending" /\ status'[r] = "paused")
  BY <1>1, SwitchSets
<1>3. Recorded'
  BY <1>1, <1>2 DEF Recorded, TypeOK
<1>4. SeriesInv'
  BY <1>2, <1>3, CommandSeries DEF RecurInv
<1>5. \A r \in Finished : status'[r] = status[r]
  BY <1>2 DEF Finished
<1>6. commands' = commands + 1
  BY <1>2 DEF Command
<1> QED
  BY <1>1, <1>2, <1>4, <1>5, <1>6 DEF SwitchedSeries

LEMMA ResumeSeries ==
  ASSUME SeriesInv, Resume
  PROVE  /\ SwitchedSeries /\ kept' = kept + Cardinality(Paused) /\ Cardinality(Paused) \in Nat
         /\ \A r \in Occurrences : status'[r] = "pending" => status[r] = "pending" \/ r \in Paused
<1> USE DEF SeriesInv
<1>1. Switch("paused", "pending") /\ kept' = kept + Cardinality(Paused)
  BY DEF Resume, Paused
<1>2. /\ UNCHANGED <<session, recur, due, tries, ack, running, sweeping, todo, current, faults, restarts, forks, late, refused>>
      /\ Command /\ RowsTyped'
      /\ Stored' = Stored /\ Live' = Live /\ Finished' = Finished
      /\ \A r \in Occurrences : status'[r] = status[r] \/ (status[r] = "paused" /\ status'[r] = "pending")
  BY <1>1, SwitchSets
<1>3. Cardinality(Paused) \in Nat
  <2>1. Paused \subseteq Occurrences
    BY DEF Paused
  <2> QED
    BY <2>1, OccurrencesFinite, FS_Subset, FS_CardinalityType
<1>4. Recorded'
  BY <1>1, <1>2, <1>3 DEF Recorded, TypeOK
<1>5. SeriesInv'
  BY <1>2, <1>4, CommandSeries DEF RecurInv
<1>6. \A r \in Finished : status'[r] = status[r]
  BY <1>2 DEF Finished
<1>7. commands' = commands + 1
  BY <1>2 DEF Command
<1>8. \A r \in Occurrences : status'[r] = "pending" => status[r] = "pending" \/ r \in Paused
  BY <1>2 DEF Paused
<1> QED
  BY <1>1, <1>2, <1>3, <1>5, <1>6, <1>7, <1>8 DEF SwitchedSeries

LEMMA UpdateSeries ==
  ASSUME SeriesInv, NEW again \in BOOLEAN, Update(again)
  PROVE  /\ SeriesInv' /\ status' = status /\ Stored' = Stored /\ Live' = Live /\ Finished' = Finished
         /\ recur' \subseteq recur \union Live /\ commands' = commands + 1
         /\ UNCHANGED <<session, current, ack, kept, forks, late, refused>>
<1> USE DEF SeriesInv
<1>1. /\ UNCHANGED <<session, status, due, tries, ack, running, sweeping, todo, current, faults, restarts, kept, forks, late, refused>>
      /\ Command
  BY DEF Update, sweeper
<1>2. PICK rs \in SUBSET Live : recur' = IF again THEN recur \union rs ELSE recur \ rs
  BY DEF Update
<1>3. Stored' = Stored /\ Live' = Live /\ Finished' = Finished
  BY <1>1 DEF Stored, Live, Finished
<1>4. Live \intersect Finished = {} /\ Live \subseteq Stored
  BY DEF Live, Finished, Stored
<1>5. RowsTyped'
  BY <1>1, <1>2, <1>3, <1>4 DEF RowsTyped, TypeOK, AllStatus, AllAcks
<1>6. Recorded'
  BY <1>1, <1>3 DEF Recorded, TypeOK
<1>7. recur' \subseteq Live' \union Finished' /\ recur' \intersect Finished = recur \intersect Finished
  BY <1>2, <1>3, <1>4 DEF RecurInv
<1>8. SeriesInv'
  BY <1>1, <1>3, <1>5, <1>6, <1>7, CommandSeries
<1> QED
  BY <1>1, <1>2, <1>3, <1>8 DEF Command

LEMMA RunNowSeries ==
  ASSUME SeriesInv, NEW r \in Occurrences, RunNow(r)
  PROVE  /\ SeriesInv' /\ r \notin Stored /\ Stored' = Stored \union {r}
         /\ Live' = Live \union {r} /\ Finished' = Finished
         /\ \A q \in Occurrences \ {r} : status'[q] = status[q]
         /\ recur' = recur /\ kept' = kept + 1 /\ commands' = commands + 1
         /\ late' = IF session = "closed" THEN late \union {r} ELSE late
         /\ session # "none" /\ UNCHANGED <<session, current, ack, forks, refused>>
<1> USE DEF SeriesInv
<1>1. /\ UNCHANGED <<session, running, sweeping, todo, current, faults, restarts, forks, tries, ack, refused>>
      /\ Command /\ session # "none" /\ Insert(r, "pending", FALSE, TRUE)
      /\ kept' = kept + 1 /\ late' = IF session = "closed" THEN late \union {r} ELSE late
  BY DEF RunNow, Insert, sweeper
<1>2. recur' = recur
  BY <1>1 DEF Insert
<1>3. /\ RowsTyped'
      /\ r \notin Stored /\ Stored' = Stored \union {r}
      /\ Live' = Live \union {r} /\ Finished' = Finished
      /\ \A q \in Occurrences \ {r} : status'[q] = status[q]
  BY <1>1, InsertTyped
<1>4. Recorded'
  BY <1>1, <1>3 DEF Recorded, TypeOK
<1>5. SeriesInv'
  BY <1>1, <1>2, <1>3, <1>4, CommandSeries DEF RecurInv
<1> QED
  BY <1>1, <1>2, <1>3, <1>5 DEF Command
-----------------------------------------------------------------------------
(* The two writes of a re-arming, and what may come between them.          *)

LEMMA RearmSeries ==
  ASSUME SeriesInv, NEW r \in Occurrences, NEW next \in Occurrences, Rearm(r, next)
  PROVE  /\ SeriesInv' /\ next \notin Stored /\ Stored' = Stored \union {next}
         /\ Live' = Live \union {next} /\ Finished' = Finished
         /\ status'[next] = ArmedAs /\ \A q \in Occurrences \ {next} : status'[q] = status[q]
         /\ recur' = recur \union {next} /\ current = 0 /\ current' = r
         /\ r \in recur \intersect Finished /\ session = "active"
         /\ UNCHANGED <<session, ack, commands, kept, forks, late, refused>>
<1> USE DEF SeriesInv
<1>1. /\ UNCHANGED <<session, sweeping, todo, running, faults, restarts, commands, kept, forks, late, ack, refused>>
      /\ sweeping = "rearming" /\ current = 0 /\ current' = r /\ r \in todo
      /\ Insert(next, ArmedAs, TRUE, FALSE)
  BY DEF Rearm, Insert, history
<1>2. recur' = recur \union {next}
  BY <1>1 DEF Insert
<1>3. ArmedAs \in {"pending", "paused"}
  BY DEF ArmedAs
<1>4. /\ RowsTyped'
      /\ next \notin Stored /\ Stored' = Stored \union {next}
      /\ Live' = Live \union {next} /\ Finished' = Finished
      /\ status'[next] = ArmedAs /\ \A q \in Occurrences \ {next} : status'[q] = status[q]
  BY <1>1, <1>3, InsertTyped
<1>5. r \in recur \intersect Finished /\ r \in Stored
  BY <1>1 DEF TypeOK, Finished, Stored
<1>6. session = "active"
  BY <1>1, <1>5 DEF RearmInv, TypeOK
<1>7. TypeOK'
  <2>1. Recorded'
    BY <1>1, <1>4 DEF Recorded, TypeOK
  <2>2. SweepTyped'
    BY <1>1, <1>2, <1>4 DEF SweepTyped, TypeOK
  <2>3. Counted' /\ Switched'
    BY <1>1 DEF Counted, Switched, TypeOK
  <2> QED
    BY <1>4, <2>1, <2>2, <2>3, AssembledType
<1>8. next \notin Finished
  BY <1>4 DEF Finished, Stored
<1>9. RecurInv'
  BY <1>1, <1>2, <1>4 DEF RecurInv
<1>10. RearmInv'
  BY <1>1, <1>2, <1>4, <1>6, <1>8 DEF RearmInv
<1> QED
  BY <1>1, <1>2, <1>4, <1>5, <1>6, <1>7, <1>9, <1>10

LEMMA ClearSeries ==
  ASSUME SeriesInv, Clear
  PROVE  /\ SeriesInv' /\ recur' = recur \ {current} /\ current # 0 /\ current' = 0
         /\ session = "active"
         /\ UNCHANGED <<session, status, ack, commands, kept, forks, late, refused>>
<1> USE DEF SeriesInv
<1>1. /\ UNCHANGED <<session, status, due, tries, ack, running, sweeping, faults, restarts, commands, kept, forks, late, refused>>
      /\ current # 0 /\ current' = 0 /\ recur' = recur \ {current} /\ todo' = todo \ {current}
  BY DEF Clear, history
<1>2. Stored' = Stored /\ Finished' = Finished /\ Live' = Live
  BY <1>1 DEF Stored, Finished, Live
<1>3. sweeping = "rearming" /\ session = "active"
  BY <1>1 DEF RecurInv, RearmInv
<1>4. TypeOK'
  <2>1. RowsTyped'
    BY <1>1, <1>2 DEF RowsTyped, TypeOK, AllStatus, AllAcks
  <2>2. SweepTyped'
    BY <1>1, <1>2 DEF SweepTyped, TypeOK
  <2>3. Counted' /\ Switched'
    BY <1>1 DEF Counted, Switched, TypeOK
  <2>4. Recorded'
    BY <1>1, <1>2 DEF Recorded, TypeOK
  <2> QED
    BY <2>1, <2>2, <2>3, <2>4, AssembledType
<1>5. RecurInv'
  BY <1>1, <1>2, <1>3 DEF RecurInv
<1>6. RearmInv'
  BY <1>1, <1>2, <1>3 DEF RearmInv
<1> QED
  BY <1>1, <1>3, <1>4, <1>5, <1>6

\* The sweep forgets a finished occurrence that is still recurring.
Forgets ==
  /\ SeriesInv' /\ current' = 0
  /\ forks' = IF current # 0 THEN forks + 1 ELSE forks
  /\ UNCHANGED <<session, status, recur, ack, commands, kept, late>>
  /\ session = "active" \/ refused' = refused

LEMMA ClearFailsSeries ==
  ASSUME SeriesInv, ClearFails
  PROVE  Forgets
<1> USE DEF SeriesInv
<1>1. /\ UNCHANGED <<session, status, recur, due, tries, ack, running, sweeping, restarts, commands, kept, late>>
      /\ Fault /\ current # 0 /\ current' = 0 /\ todo' = todo \ {current} /\ forks' = forks + 1
      /\ refused' = refused \union {current}
  BY DEF ClearFails, rows
<1>2. Stored' = Stored /\ Finished' = Finished /\ Live' = Live
  BY <1>1 DEF Stored, Finished, Live
<1>3. sweeping = "rearming" /\ session = "active"
  BY <1>1 DEF RecurInv, RearmInv
<1>4. Counted' /\ refused' \subseteq Stored
  <2>1. Counted'
    BY <1>1, FaultCounted
  <2>2. refused' \subseteq Stored
    BY <1>1 DEF TypeOK
  <2> QED
    BY <2>1, <2>2
<1>5. TypeOK'
  <2>1. RowsTyped'
    BY <1>1, <1>2 DEF RowsTyped, TypeOK, AllStatus, AllAcks
  <2>2. SweepTyped'
    BY <1>1, <1>2 DEF SweepTyped, TypeOK
  <2>3. Switched'
    BY <1>1 DEF Switched, TypeOK
  <2>4. Recorded'
    BY <1>1, <1>2, <1>4 DEF Recorded, TypeOK
  <2> QED
    BY <1>4, <2>1, <2>2, <2>3, <2>4, AssembledType
<1>6. RecurInv'
  BY <1>1, <1>2, <1>3 DEF RecurInv
<1>7. RearmInv'
  BY <1>1, <1>2, <1>3, <1>4 DEF RearmInv
<1> QED
  BY <1>1, <1>3, <1>4, <1>5, <1>6, <1>7 DEF Forgets

LEMMA RestartSeries ==
  ASSUME SeriesInv, Restart
  PROVE  Forgets
<1> USE DEF SeriesInv
<1>1. /\ UNCHANGED <<session, status, recur, due, tries, ack, running, faults, commands, kept, late, refused>>
      /\ restarts < MaxRestarts /\ restarts' = restarts + 1
      /\ current' = 0 /\ todo' = {} /\ sweeping' = "idle"
      /\ forks' = IF current # 0 THEN forks + 1 ELSE forks
  BY DEF Restart, rows
<1>2. Stored' = Stored /\ Finished' = Finished /\ Live' = Live
  BY <1>1 DEF Stored, Finished, Live
<1>3. Counted'
  <2>1. restarts \in 0..MaxRestarts /\ MaxRestarts \in Nat
    BY SeriesAssumption DEF TypeOK
  <2>2. restarts' \in 0..MaxRestarts
    BY <1>1, <2>1
  <2> QED
    BY <1>1, <2>2 DEF Counted, TypeOK
<1>4. TypeOK'
  <2>1. RowsTyped'
    BY <1>1, <1>2 DEF RowsTyped, TypeOK, AllStatus, AllAcks
  <2>2. SweepTyped'
    BY <1>1, <1>2 DEF SweepTyped, TypeOK
  <2>3. Switched'
    BY <1>1 DEF Switched, TypeOK
  <2>4. Recorded'
    <3>1. forks' \in Nat /\ kept' \in Nat
      BY <1>1 DEF TypeOK
    <3> QED
      BY <1>1, <1>2, <3>1 DEF Recorded, TypeOK
  <2> QED
    BY <1>3, <2>1, <2>2, <2>3, <2>4, AssembledType
<1>5. RecurInv'
  BY <1>1, <1>2 DEF RecurInv
<1>6. RearmInv'
  BY <1>1, <1>2 DEF RearmInv
<1> QED
  BY <1>1, <1>3, <1>4, <1>5, <1>6 DEF Forgets
-----------------------------------------------------------------------------
(* As far as the properties go, a step is quiet, one of the commands, or    *)
(* part of a re-arming.                                                    *)

QuietStep ==
  /\ Quiet
  /\ \/ session' = session /\ (session = "active" \/ refused' = refused)
     \/ refused' = refused /\ session' = "closed" /\ sweeping = "rearming" /\ todo = {} /\ Live = {}

Stepping ==
  \/ QuietStep
  \/ Create \/ Cancel \/ Pause \/ Resume
  \/ \E again \in BOOLEAN : Update(again)
  \/ \E r \in Occurrences : RunNow(r)
  \/ \E r, next \in Occurrences : Rearm(r, next)
  \/ Clear \/ Forgets

LEMMA NextSeries ==
  ASSUME SeriesInv, [Next]_vars
  PROVE  SeriesInv' /\ Stepping
<1>0. TypeOK
  BY DEF SeriesInv
<1>1. CASE Operator
  <2>1. Create \/ Cancel \/ Pause \/ Resume => SeriesInv'
    BY CreateSeries, CancelSeries, PauseSeries, ResumeSeries DEF SwitchedSeries
  <2>2. ASSUME NEW again \in BOOLEAN, Update(again) PROVE SeriesInv'
    BY <2>2, UpdateSeries
  <2>3. ASSUME NEW r \in Occurrences, RunNow(r) PROVE SeriesInv'
    BY <2>3, RunNowSeries
  <2> QED
    BY <1>1, <2>1, <2>2, <2>3 DEF Operator, Stepping
<1>2. ASSUME NEW r \in Occurrences, FallDue(r) PROVE SeriesInv' /\ QuietStep
  <2>1. SeriesInv' /\ Quiet
    BY <1>2, FallDueQuiet
  <2>2. refused' = refused /\ session' = session
    BY <1>2 DEF FallDue, history
  <2> QED
    BY <1>0, <2>1, <2>2 DEF QuietStep
<1>3. CASE Container
  <2>1. CASE Stop
    BY <1>0, <2>1, StopQuiet DEF Stop, QuietStep, history, Stepping
  <2>2. ASSUME NEW r \in Occurrences, Claim(r) PROVE SeriesInv' /\ QuietStep
    BY <1>0, <2>2, ClaimQuiet DEF Claim, QuietStep, history
  <2>3. ASSUME NEW r \in Occurrences, NEW how \in {"completed", "script-skip:error"}, RunEnds(r, how)
        PROVE  SeriesInv' /\ QuietStep
    BY <1>0, <2>3, RunEndsQuiet DEF RunEnds, QuietStep, history
  <2> QED
    BY <1>3, <2>1, <2>2, <2>3 DEF Container, Stepping
<1>4. CASE Sweep
  <2>1. CASE SweepWakes
    BY <1>0, <2>1, SweepWakesQuiet DEF SweepWakes, QuietStep, history, Stepping
  <2>2. ASSUME NEW kill \in BOOLEAN, SweepGoesOn(kill) PROVE SeriesInv' /\ QuietStep
    BY <2>2, SweepGoesOnQuiet DEF SweepGoesOn, QuietStep
  <2>3. CASE Woken
    BY <1>0, <2>3, WokenQuiet DEF Woken, QuietStep, SeriesInv, RearmInv, Stepping
  <2>4. CASE NotWoken
    BY <1>0, <2>4, NotWokenQuiet DEF NotWoken, QuietStep, SeriesInv, RearmInv, Stepping
  <2>5. ASSUME NEW r \in Occurrences, NEW next \in Occurrences, Rearm(r, next) PROVE SeriesInv'
    BY <2>5, RearmSeries
  <2>6. ASSUME NEW r \in Occurrences, RearmFails(r) PROVE SeriesInv' /\ QuietStep
    BY <1>0, <2>6, RearmFailsQuiet DEF RearmFails, QuietStep, SeriesInv, RearmInv
  <2>7. CASE Clear
    BY <2>7, ClearSeries DEF Stepping
  <2>8. CASE ClearFails
    BY <2>8, ClearFailsSeries DEF Stepping, Forgets
  <2>9. CASE SweepEnds
    <3>1. /\ session' = session \/ (session' = "closed" /\ Live = {})
          /\ sweeping = "rearming" /\ todo = {} /\ refused' = refused
      BY <2>9 DEF SweepEnds, Spent, history
    <3> QED
      BY <1>0, <2>9, <3>1, SweepEndsQuiet DEF QuietStep, Stepping
  <2> QED
    BY <1>4, <2>1, <2>2, <2>3, <2>4, <2>5, <2>6, <2>7, <2>8, <2>9 DEF Sweep, Stepping
<1>5. CASE Restart
  BY <1>5, RestartSeries DEF Stepping, Forgets
<1>6. CASE UNCHANGED vars
  <2>1. SeriesInv'
    BY <1>6 DEF SeriesInv, vars, TypeOK, RecurInv, RearmInv, Stored, Live, Finished
  <2>2. QuietStep
    BY <1>0, <1>6 DEF vars, QuietStep, Quiet, QuietRows
  <2> QED
    BY <2>1, <2>2 DEF Stepping
<1>7. (\E r \in Occurrences : FallDue(r)) => SeriesInv' /\ Stepping
  BY <1>2 DEF Stepping
<1>8. Next \/ UNCHANGED vars
  OBVIOUS
<1> QED
  BY <1>1, <1>3, <1>4, <1>5, <1>6, <1>7, <1>8 DEF Next

LEMMA InitSeries == Init => SeriesInv
<1> SUFFICES ASSUME Init PROVE SeriesInv
  OBVIOUS
<1>1. Stored = {} /\ Live = {} /\ Finished = {}
  BY DEF Init, Stored, Live, Finished
<1>2. RowsTyped
  <2>1. tries \in [Occurrences -> 0..MaxTries]
    BY SeriesAssumption DEF Init
  <2>2. status \in [Occurrences -> AllStatus]
    BY DEF Init, AllStatus
  <2>3. ack \in [Occurrences -> AllAcks] /\ \A r \in Occurrences : ack[r] = "none"
    BY DEF Init, AllAcks
  <2>4. recur = {} /\ due = {}
    BY DEF Init
  <2> QED
    BY <2>1, <2>2, <2>3, <2>4 DEF RowsTyped
<1>3. SweepTyped /\ Counted /\ Recorded /\ Switched
  <2>1. SweepTyped
    BY DEF Init, SweepTyped
  <2>2. Counted
    BY SeriesAssumption DEF Init, Counted
  <2>3. Recorded
    BY DEF Init, Recorded
  <2>4. Switched
    BY DEF Init, Switched
  <2> QED
    BY <2>1, <2>2, <2>3, <2>4
<1>4. TypeOK
  BY <1>2, <1>3, TypeParts
<1>5. RecurInv /\ RearmInv
  BY <1>1 DEF Init, RecurInv, RearmInv
<1> QED
  BY <1>4, <1>5 DEF SeriesInv

\* The variables of TaskSeries stay in their types: among others, the sweep only
\* ever re-arms finished occurrences that recur, and only due ones are claimed.
THEOREM TypeCorrect == Spec => []TypeOK
<1>1. Spec => []SeriesInv
  <2>1. SeriesInv /\ [Next]_vars => SeriesInv'
    BY NextSeries
  <2> QED
    BY InitSeries, <2>1, PTL DEF Spec
<1>2. SeriesInv => TypeOK
  BY DEF SeriesInv
<1> QED
  BY <1>1, <1>2, PTL

\* The inductive invariant of the series: what recurs is live or finished, and
\* what the sweep has not yet re-armed it has on its list, or was refused.
THEOREM SeriesInvariant == Spec => []SeriesInv
<1>1. SeriesInv /\ [Next]_vars => SeriesInv'
  BY NextSeries
<1> QED
  BY InitSeries, <1>1, PTL DEF Spec
-----------------------------------------------------------------------------
(* What is armed, and what a closed session still holds.                   *)

LEMMA GoingIs ==
  ASSUME SeriesInv, SeriesInv'
  PROVE  /\ Carriers = recur /\ Going = recur \ {current}
         /\ Carriers' = recur' /\ Going' = recur' \ {current'}
         /\ 0 \notin recur /\ 0 \notin recur'
<1>1. Carriers = recur /\ Carriers' = recur'
  BY DEF SeriesInv, RecurInv, Carriers
<1>2. recur \subseteq Occurrences /\ recur' \subseteq Occurrences
  BY DEF SeriesInv, TypeOK, Stored
<1> QED
  BY <1>1, <1>2, OccurrencesFinite DEF Going

LEMMA QuietLive ==
  ASSUME SeriesInv, SeriesInv', Quiet
  PROVE  /\ Stored' = Stored /\ Live' \subseteq Live /\ Finished \subseteq Finished'
         /\ Going' = Going
<1>1. status' \in [Occurrences -> AllStatus]
  BY DEF SeriesInv, TypeOK, AllStatus
<1>2. Stored' = Stored /\ Live' \subseteq Live /\ Finished \subseteq Finished'
  BY <1>1, QuietSets DEF SeriesInv, Quiet
<1> QED
  BY <1>2, GoingIs DEF Quiet

\* When the sweep has nothing left to do, what still carries the recurrence was
\* refused a write.
LEMMA SpentCarriers ==
  ASSUME SeriesInv, sweeping = "rearming", todo = {}, Live = {}
  PROVE  recur \subseteq refused
BY DEF SeriesInv, RecurInv, RearmInv

LEMMA NextSpent ==
  ASSUME SeriesInv, ClosedSessionsAreSpent, [Next]_vars
  PROVE  ClosedSessionsAreSpent'
<1>1. SeriesInv' /\ Stepping
  BY NextSeries
<1>2. Carriers = recur /\ Carriers' = recur'
  BY <1>1, GoingIs
<1> SUFFICES ASSUME session' = "closed"
             PROVE  Live' \subseteq late' /\ Carriers' \subseteq late' \union refused'
  BY DEF ClosedSessionsAreSpent
<1>3. session = "closed" => Live \subseteq late /\ recur \subseteq late \union refused
  BY <1>2 DEF ClosedSessionsAreSpent
<1>5. CASE QuietStep
  <2>1. Live' \subseteq Live /\ recur' = recur /\ late' = late
    BY <1>1, <1>5, QuietLive DEF QuietStep, Quiet
  <2>2. CASE session' = session /\ (session = "active" \/ refused' = refused)
    BY <1>2, <1>3, <2>1, <2>2
  <2>3. CASE sweeping = "rearming" /\ todo = {} /\ Live = {} /\ refused' = refused
    BY <1>2, <2>1, <2>3, SpentCarriers
  <2> QED
    BY <1>5, <2>2, <2>3 DEF QuietStep
<1>6. CASE Create
  BY <1>6, CreateSeries
<1>7. CASE Cancel
  BY <1>2, <1>3, <1>7, CancelSeries
<1>8. CASE Pause
  <2>1. SwitchedSeries
    BY <1>8, PauseSeries
  <2> QED
    BY <1>2, <1>3, <2>1 DEF SwitchedSeries
<1>9. CASE Resume
  <2>1. SwitchedSeries
    BY <1>9, ResumeSeries
  <2> QED
    BY <1>2, <1>3, <2>1 DEF SwitchedSeries
<1>10. ASSUME NEW again \in BOOLEAN, Update(again)
       PROVE  Live' \subseteq late' /\ Carriers' \subseteq late' \union refused'
  BY <1>2, <1>3, <1>10, UpdateSeries
<1>11. ASSUME NEW r \in Occurrences, RunNow(r)
       PROVE  Live' \subseteq late' /\ Carriers' \subseteq late' \union refused'
  BY <1>2, <1>3, <1>11, RunNowSeries
<1>12. ASSUME NEW r \in Occurrences, NEW next \in Occurrences, Rearm(r, next) PROVE FALSE
  BY <1>12, RearmSeries
<1>13. CASE Clear
  BY <1>13, ClearSeries
<1>14. CASE Forgets
  <2>1. Live' = Live
    BY <1>14 DEF Forgets, Live
  <2> QED
    BY <1>2, <1>3, <1>14, <2>1 DEF Forgets
<1> QED
  BY <1>1, <1>5, <1>6, <1>7, <1>8, <1>9, <1>10, <1>11, <1>12, <1>13, <1>14 DEF Stepping

\* A session is closed only when nothing of it is left to run, and nothing to
\* re-arm but what its last pass was refused a write for; what comes later was
\* added later.
THEOREM ClosedIsSpent == Spec => []ClosedSessionsAreSpent
<1>1. Init => ClosedSessionsAreSpent
  BY DEF Init, ClosedSessionsAreSpent
<1>2. SeriesInv /\ ClosedSessionsAreSpent /\ [Next]_vars => ClosedSessionsAreSpent'
  BY NextSpent
<1> QED
  BY <1>1, <1>2, SeriesInvariant, PTL DEF Spec

LEMMA NextArmed ==
  ASSUME SeriesInv, [Next]_vars, (Armed = {}) # (Armed' = {})
  PROVE  \/ commands' > commands
         \/ Armed = {} /\ forks' > forks
         \/ session' = "closed" /\ Carriers \subseteq refused
<1>1. SeriesInv' /\ Stepping
  BY NextSeries
<1>2. /\ Going = recur \ {current} /\ Going' = recur' \ {current'}
      /\ 0 \notin recur /\ 0 \notin recur' /\ Carriers = recur
  BY <1>1, GoingIs
<1>0. /\ Armed = IF session = "active" THEN Going ELSE {}
      /\ Armed' = IF session' = "active" THEN Going' ELSE {}
  BY DEF Armed, Going
<1>3. commands' = commands + 1 => commands' > commands
  BY SeriesAssumption DEF SeriesInv, TypeOK
<1>4. CASE QuietStep
  <2>1. Going' = Going
    BY <1>2, <1>4 DEF QuietStep, Quiet
  <2>2. session' # session
    BY <1>0, <2>1
  <2>3. session' = "closed" /\ sweeping = "rearming" /\ todo = {} /\ Live = {}
    BY <1>4, <2>2 DEF QuietStep
  <2> QED
    BY <1>2, <2>3, SpentCarriers
<1>5. CASE Create
  BY <1>3, <1>5, CreateSeries
<1>6. CASE Cancel
  BY <1>3, <1>6, CancelSeries
<1>7. CASE Pause
  BY <1>3, <1>7, PauseSeries DEF SwitchedSeries
<1>8. CASE Resume
  BY <1>3, <1>8, ResumeSeries DEF SwitchedSeries
<1>9. ASSUME NEW again \in BOOLEAN, Update(again) PROVE commands' > commands
  BY <1>3, <1>9, UpdateSeries
<1>10. ASSUME NEW r \in Occurrences, RunNow(r) PROVE commands' > commands
  BY <1>3, <1>10, RunNowSeries
<1>11. ASSUME NEW r \in Occurrences, NEW next \in Occurrences, Rearm(r, next) PROVE FALSE
  <2>1. /\ next \notin Stored /\ r \in recur /\ r \in Stored
        /\ recur' = recur \union {next} /\ current = 0 /\ current' = r
        /\ session = "active" /\ session' = session
    BY <1>11, RearmSeries DEF SeriesInv, TypeOK
  <2>2. r \in Armed /\ next \in Armed'
    BY <1>0, <1>2, <2>1
  <2> QED
    BY <2>2
<1>12. CASE Clear
  BY <1>0, <1>2, <1>12, ClearSeries
<1>13. CASE Forgets
  <2>1. Armed \subseteq Armed'
    BY <1>0, <1>2, <1>13 DEF Forgets
  <2>2. current = 0 => Armed' = Armed
    BY <1>0, <1>2, <1>13 DEF Forgets
  <2>3. current # 0 => forks' > forks
    BY <1>13 DEF Forgets, SeriesInv, TypeOK
  <2> QED
    BY <2>1, <2>2, <2>3
<1> QED
  BY <1>1, <1>4, <1>5, <1>6, <1>7, <1>8, <1>9, <1>10, <1>11, <1>12, <1>13 DEF Stepping

\* For any crashes, refused writes and races of the sweep, a series that is not
\* ended by a command ends only with the session, in a pass that was refused a
\* write for each occurrence it could go on from; and a cancelled one comes back
\* only if the sweep is cut off between its two writes.
THEOREM CommandsRule == Spec => OnlyCommandsStartOrEndASeries
<1>1. SeriesInv /\ [Next]_vars =>
        [(Armed = {}) # (Armed' = {}) =>
           \/ commands' > commands
           \/ Armed = {} /\ forks' > forks
           \/ session' = "closed" /\ Carriers \subseteq refused]_<<session, status, recur, current>>
  BY NextArmed
<1> QED
  BY <1>1, SeriesInvariant, PTL DEF Spec, OnlyCommandsStartOrEndASeries
-----------------------------------------------------------------------------
(* How many occurrences can still run.                                     *)

OutstandingRows == {r \in Stored \ Finished : r \in Live \/ ack[r] # "none"}

LEMMA OutstandingIs ==
  ASSUME SeriesInv, SeriesInv'
  PROVE  /\ Outstanding = OutstandingRows \union (recur \ {current})
         /\ Outstanding' = OutstandingRows' \union (recur' \ {current'})
         /\ Outstanding \subseteq Occurrences /\ Outstanding' \subseteq Stored'
         /\ kept \in Nat /\ forks \in Nat
         /\ Cardinality(Outstanding) \in Nat /\ Cardinality(Outstanding') \in Nat
<1>1. /\ Outstanding = OutstandingRows \union (recur \ {current})
      /\ Outstanding' = OutstandingRows' \union (recur' \ {current'})
  BY GoingIs DEF Outstanding, OutstandingRows
<1>2. recur \subseteq Stored /\ recur' \subseteq Stored'
  BY DEF SeriesInv, TypeOK
<1>3. Outstanding \subseteq Stored /\ Outstanding' \subseteq Stored'
  BY <1>1, <1>2 DEF OutstandingRows
<1>4. Stored \subseteq Occurrences /\ Stored' \subseteq Occurrences
  BY DEF Stored
<1>5. Cardinality(Outstanding) \in Nat /\ Cardinality(Outstanding') \in Nat
  BY <1>3, <1>4, CountGrows
<1> QED
  BY <1>1, <1>3, <1>4, <1>5 DEF SeriesInv, TypeOK

LEMMA NextBudget ==
  ASSUME SeriesInv, BudgetInv, [Next]_vars
  PROVE  BudgetInv'
<1>1. SeriesInv' /\ Stepping
  BY NextSeries
<1>2. /\ Outstanding = OutstandingRows \union (recur \ {current})
      /\ Outstanding' = OutstandingRows' \union (recur' \ {current'})
      /\ Outstanding \subseteq Occurrences /\ Outstanding' \subseteq Stored'
      /\ kept \in Nat /\ forks \in Nat
      /\ Cardinality(Outstanding) \in Nat /\ Cardinality(Outstanding') \in Nat
  BY <1>1, OutstandingIs
<1>3. Cardinality(Outstanding) <= 1 + kept + forks
  BY DEF BudgetInv
<1> SUFFICES Cardinality(Outstanding') <= 1 + kept' + forks'
  BY DEF BudgetInv
<1>4. ASSUME Outstanding' \subseteq Outstanding, forks' = forks,
             \E n \in Nat : kept' = kept + n
      PROVE  Cardinality(Outstanding') <= 1 + kept' + forks'
  <2>1. Cardinality(Outstanding') <= Cardinality(Outstanding)
    BY <1>2, <1>4, CountGrows
  <2> QED
    BY <1>2, <1>3, <1>4, <2>1
<1>5. ASSUME NEW x \in Occurrences, Outstanding' \subseteq Outstanding \union {x},
             \/ kept' = kept + 1 /\ forks' = forks
             \/ kept' = kept /\ forks' = forks + 1
      PROVE  Cardinality(Outstanding') <= 1 + kept' + forks'
  <2>1. Cardinality(Outstanding') <= Cardinality(Outstanding) + 1
    BY <1>2, <1>5, CountAdded
  <2> QED
    BY <1>2, <1>3, <1>5, <2>1
<1>6. kept' = kept => \E n \in Nat : kept' = kept + n
  BY <1>2
<1>7. CASE QuietStep
  <2>1. /\ Stored' = Stored /\ Live' \subseteq Live /\ Finished \subseteq Finished'
        /\ recur' = recur /\ current' = current
    BY <1>1, <1>7, QuietLive DEF QuietStep, Quiet
  <2>2. QuietRows /\ kept' = kept /\ forks' = forks
    BY <1>7 DEF QuietStep, Quiet
  <2>3. OutstandingRows' \subseteq OutstandingRows
    <3> SUFFICES ASSUME NEW r \in OutstandingRows' PROVE r \in OutstandingRows
      OBVIOUS
    <3>1. r \in Occurrences /\ r \in Stored' \ Finished' /\ (r \in Live' \/ ack'[r] # "none")
      BY DEF OutstandingRows, Stored
    <3>2. status'[r] = status[r] /\ (ack'[r] = "none" \/ ack[r] # "none" \/ status[r] = "pending")
      BY <2>2, <3>1 DEF QuietRows, Finished
    <3>3. r \in Stored \ Finished /\ (status[r] = "pending" => r \in Live)
      BY <2>1, <3>1 DEF Live
    <3> QED
      BY <2>1, <3>1, <3>2, <3>3 DEF OutstandingRows
  <2> QED
    BY <1>2, <1>4, <1>6, <2>1, <2>2, <2>3
<1>8. CASE Create
  <2>1. Stored' = {1} /\ kept' = kept /\ forks' = forks
    BY <1>8, CreateSeries
  <2>2. Cardinality(Outstanding') <= 1
    <3>1. IsFiniteSet({1}) /\ Cardinality({1}) = 1
      BY FS_Singleton
    <3> QED
      BY <1>2, <2>1, <3>1, FS_Subset
  <2> QED
    BY <1>2, <2>1, <2>2
<1>9. CASE Cancel
  <2>1. /\ Stored' = Stored /\ Live' = {} /\ Finished' = Finished
        /\ recur' \subseteq recur /\ UNCHANGED <<current, ack, kept, forks>>
    BY <1>9, CancelSeries
  <2>2. OutstandingRows' \subseteq OutstandingRows
    BY <2>1 DEF OutstandingRows
  <2> QED
    BY <1>2, <1>4, <1>6, <2>1, <2>2
<1>10. ASSUME SwitchedSeries, \E n \in Nat : kept' = kept + n
       PROVE  Cardinality(Outstanding') <= 1 + kept' + forks'
  <2>1. OutstandingRows' = OutstandingRows /\ UNCHANGED <<recur, current, forks>>
    BY <1>10 DEF SwitchedSeries, OutstandingRows
  <2> QED
    BY <1>2, <1>4, <1>10, <2>1
<1>11. CASE Pause
  BY <1>6, <1>10, <1>11, PauseSeries
<1>12. CASE Resume
  BY <1>10, <1>12, ResumeSeries
<1>13. ASSUME NEW again \in BOOLEAN, Update(again)
       PROVE  Cardinality(Outstanding') <= 1 + kept' + forks'
  <2>1. /\ Stored' = Stored /\ Live' = Live /\ Finished' = Finished
        /\ recur' \subseteq recur \union Live /\ UNCHANGED <<current, ack, kept, forks>>
    BY <1>13, UpdateSeries
  <2>2. OutstandingRows' = OutstandingRows
    BY <2>1 DEF OutstandingRows
  <2>3. Live \subseteq OutstandingRows
    BY DEF OutstandingRows, Live, Stored, Finished
  <2> QED
    BY <1>2, <1>4, <1>6, <2>1, <2>2, <2>3
<1>14. ASSUME NEW r \in Occurrences, RunNow(r)
       PROVE  Cardinality(Outstanding') <= 1 + kept' + forks'
  <2>1. /\ Stored' = Stored \union {r} /\ Live' = Live \union {r} /\ Finished' = Finished
        /\ kept' = kept + 1 /\ UNCHANGED <<recur, current, ack, forks>>
    BY <1>14, RunNowSeries
  <2>2. OutstandingRows' \subseteq OutstandingRows \union {r}
    BY <2>1 DEF OutstandingRows
  <2> QED
    BY <1>2, <1>5, <2>1, <2>2
<1>15. ASSUME NEW r \in Occurrences, NEW next \in Occurrences, Rearm(r, next)
       PROVE  Cardinality(Outstanding') <= 1 + kept' + forks'
  <2>1. /\ Stored' = Stored \union {next} /\ Live' = Live \union {next} /\ Finished' = Finished
        /\ recur' = recur \union {next} /\ current = 0 /\ current' = r
        /\ r \in recur /\ r \in Finished /\ UNCHANGED <<ack, kept, forks>>
    BY <1>15, RearmSeries
  <2>2. OutstandingRows' \subseteq OutstandingRows \union {next}
    BY <2>1 DEF OutstandingRows
  <2>3. r \in Outstanding /\ r \notin OutstandingRows
    <3>1. r # 0
      BY OccurrencesFinite
    <3> QED
      BY <1>2, <2>1, <3>1 DEF OutstandingRows
  <2>4. Outstanding' \subseteq (Outstanding \ {r}) \union {next}
    <3>1. 0 \notin recur
      BY <1>1, GoingIs
    <3> QED
      BY <1>2, <2>1, <2>2, <2>3, <3>1
  <2>5. Cardinality(Outstanding') <= Cardinality(Outstanding \ {r}) + 1
    BY <1>2, <2>4, CountAdded
  <2>6. Cardinality(Outstanding \ {r}) = Cardinality(Outstanding) - 1
    <3>1. IsFiniteSet(Outstanding)
      BY <1>2, OccurrencesFinite, FS_Subset
    <3> QED
      BY <2>3, <3>1, FS_RemoveElement
  <2> QED
    BY <1>2, <1>3, <2>1, <2>5, <2>6
<1>16. CASE Clear
  <2>1. recur' = recur \ {current} /\ current' = 0 /\ UNCHANGED <<status, ack, kept, forks>>
    BY <1>16, ClearSeries
  <2>2. OutstandingRows' = OutstandingRows
    BY <2>1 DEF OutstandingRows, Stored, Finished, Live
  <2> QED
    BY <1>2, <1>4, <1>6, <2>1, <2>2
<1>17. CASE Forgets
  <2>1. recur' = recur /\ current' = 0 /\ UNCHANGED <<status, ack, kept>>
    BY <1>17 DEF Forgets
  <2>2. OutstandingRows' = OutstandingRows
    BY <2>1 DEF OutstandingRows, Stored, Finished, Live
  <2>3. Outstanding' \subseteq Outstanding \union {current}
    BY <1>2, <2>1, <2>2
  <2>4. CASE current = 0
    <3>1. 0 \notin recur /\ forks' = forks
      BY <1>1, <1>17, <2>4, GoingIs DEF Forgets
    <3>2. Outstanding' \subseteq Outstanding
      BY <1>2, <2>1, <2>2, <2>4
    <3>3. \E n \in Nat : kept' = kept + n
      BY <1>6, <2>1
    <3> QED
      BY <1>4, <3>1, <3>2, <3>3
  <2>5. CASE current # 0
    <3>1. forks' = forks + 1
      BY <1>17, <2>5 DEF Forgets
    <3>2. current \in Occurrences
      BY <2>5 DEF SeriesInv, TypeOK, Finished
    <3> QED
      BY <1>5, <2>1, <2>3, <3>1, <3>2
  <2> QED
    BY <2>4, <2>5
<1> QED
  BY <1>1, <1>7, <1>8, <1>9, <1>11, <1>12, <1>13, <1>14, <1>15, <1>16, <1>17 DEF Stepping

\* What may run without a re-arming was created first, or is there by a command or
\* a fork.
THEOREM BudgetInvariant == Spec => []BudgetInv
<1>1. Init => BudgetInv
  <2> SUFFICES ASSUME Init PROVE BudgetInv
    OBVIOUS
  <2>1. Stored = {} /\ recur = {} /\ kept = 0 /\ forks = 0
    BY DEF Init, Stored
  <2>2. Outstanding = {}
    BY <2>1 DEF Outstanding, Going, Carriers
  <2> QED
    BY <2>1, <2>2, FS_EmptySet DEF BudgetInv
<1>2. SeriesInv /\ BudgetInv /\ [Next]_vars => BudgetInv'
  BY NextBudget
<1> QED
  BY <1>1, <1>2, SeriesInvariant, PTL DEF Spec
-----------------------------------------------------------------------------
(* How often a broken script runs.                                         *)

Able == Trail \union Runnable

LEMMA AbleFacts ==
  ASSUME SeriesInv, SeriesInv'
  PROVE  /\ Able \subseteq Occurrences /\ Able' \subseteq Stored'
         /\ kept \in Nat /\ forks \in Nat /\ Cap \in Nat /\ Cap >= 1
         /\ Cardinality(Able) \in Nat /\ Cardinality(Able') \in Nat
<1>1. Able \subseteq Occurrences /\ Able' \subseteq Stored' /\ Stored' \subseteq Occurrences
  BY DEF Able, Trail, Runnable, Stored, Finished
<1>2. Cardinality(Able) \in Nat /\ Cardinality(Able') \in Nat
  BY <1>1, CountGrows
<1> QED
  BY <1>1, <1>2, SeriesAssumption DEF SeriesInv, TypeOK

\* A step that leaves the finished occurrences alone leaves the failures in a row.
LEMMA TrailStays ==
  ASSUME Finished' = Finished, \A r \in Finished : status'[r] = status[r]
  PROVE  Trail' = Trail
BY DEF Trail

LEMMA NextStreak ==
  ASSUME SeriesInv, BudgetInv, StreakInv, [Next]_vars
  PROVE  StreakInv'
<1>1. SeriesInv' /\ Stepping
  BY NextSeries
<1>2. /\ Able \subseteq Occurrences /\ Able' \subseteq Stored'
      /\ kept \in Nat /\ forks \in Nat /\ Cap \in Nat /\ Cap >= 1
      /\ Cardinality(Able) \in Nat /\ Cardinality(Able') \in Nat
  BY <1>1, AbleFacts
<1>3. Cardinality(Able) <= Cap + kept + forks
  BY DEF StreakInv, Able
<1> SUFFICES Cardinality(Able') <= Cap + kept' + forks'
  BY DEF StreakInv, Able
<1>4. ASSUME Able' \subseteq Able, kept' = kept, forks' = forks \/ forks' = forks + 1
      PROVE  Cardinality(Able') <= Cap + kept' + forks'
  <2>1. Cardinality(Able') <= Cardinality(Able)
    BY <1>2, <1>4, CountGrows
  <2> QED
    BY <1>2, <1>3, <1>4, <2>1
<1>5. CASE QuietStep
  <2>1. Stored' = Stored /\ Finished \subseteq Finished' /\ kept' = kept /\ forks' = forks /\ QuietRows
    BY <1>1, <1>5, QuietLive DEF QuietStep, Quiet
  <2>2. ASSUME NEW r \in Trail' PROVE r \in Able
    <3>1. r \in Occurrences /\ r \in Finished' /\ \A q \in Finished' : q >= r => status'[q] = "failed"
      BY DEF Trail, Finished
    <3>2. CASE r \in Finished
      <4>1. \A q \in Finished : status'[q] = status[q]
        BY <2>1 DEF QuietRows, Finished, Runnable
      <4> QED
        BY <2>1, <3>1, <3>2, <4>1 DEF Able, Trail
    <3>3. CASE r \notin Finished
      <4>1. status'[r] # status[r]
        BY <3>1, <3>3 DEF Finished
      <4> QED
        BY <2>1, <3>1, <4>1 DEF Able, QuietRows
    <3> QED
      BY <3>2, <3>3
  <2>3. ASSUME NEW r \in Runnable' PROVE r \in Able
    <3>1. r \in Occurrences /\ r \in Stored' \ Finished' /\ (status'[r] = "pending" \/ ack'[r] # "none")
      BY DEF Runnable, Stored
    <3>2. status'[r] = status[r] /\ (ack'[r] = "none" \/ ack[r] # "none" \/ status[r] = "pending")
      BY <2>1, <3>1 DEF QuietRows, Finished
    <3> QED
      BY <2>1, <3>1, <3>2 DEF Able, Runnable
  <2>4. Able' \subseteq Able
    BY <2>2, <2>3 DEF Able
  <2> QED
    BY <1>4, <2>1, <2>4
<1>6. CASE Create
  <2>1. Stored' = {1} /\ kept' = kept /\ forks' = forks
    BY <1>6, CreateSeries
  <2>2. Cardinality(Able') <= 1
    <3>1. IsFiniteSet({1}) /\ Cardinality({1}) = 1
      BY FS_Singleton
    <3> QED
      BY <1>2, <2>1, <3>1, FS_Subset
  <2> QED
    BY <1>2, <2>1, <2>2
<1>7. CASE Cancel
  <2>1. /\ Stored' = Stored /\ Live' = {} /\ Finished' = Finished
        /\ \A r \in Finished : status'[r] = status[r]
        /\ UNCHANGED <<ack, kept, forks>>
    BY <1>7, CancelSeries
  <2>2. \A r \in Occurrences : status'[r] # "pending"
    BY <2>1 DEF Live
  <2>3. Runnable' \subseteq Runnable
    BY <2>1, <2>2 DEF Runnable, Stored
  <2> QED
    BY <1>4, <2>1, <2>3, TrailStays DEF Able
<1>8. CASE Pause
  <2>1. /\ Stored' = Stored /\ Finished' = Finished /\ \A r \in Finished : status'[r] = status[r]
        /\ UNCHANGED <<ack, kept, forks>>
        /\ \A r \in Occurrences : status'[r] = "pending" => status[r] = "pending"
    BY <1>8, PauseSeries DEF SwitchedSeries
  <2>2. Runnable' \subseteq Runnable
    BY <2>1 DEF Runnable, Stored
  <2> QED
    BY <1>4, <2>1, <2>2, TrailStays DEF Able
<1>9. CASE Resume
  <2>1. /\ Stored' = Stored /\ Finished' = Finished /\ \A r \in Finished : status'[r] = status[r]
        /\ UNCHANGED <<ack, forks>>
        /\ \A r \in Occurrences : status'[r] = "pending" => status[r] = "pending" \/ r \in Paused
        /\ kept' = kept + Cardinality(Paused) /\ Cardinality(Paused) \in Nat
    BY <1>9, ResumeSeries DEF SwitchedSeries
  <2>2. Runnable' \subseteq Runnable \union Paused
    BY <2>1 DEF Runnable, Stored
  <2>3. Able' \subseteq Able \union Paused
    BY <2>1, <2>2, TrailStays DEF Able
  <2>4. Cardinality(Able') <= Cardinality(Able) + Cardinality(Paused)
    BY <1>2, <2>3, CountJoined DEF Paused
  <2> QED
    BY <1>2, <1>3, <2>1, <2>4
<1>10. ASSUME NEW again \in BOOLEAN, Update(again)
       PROVE  Cardinality(Able') <= Cap + kept' + forks'
  <2>1. UNCHANGED <<status, ack, kept, forks>>
    BY <1>10, UpdateSeries
  <2>2. Able' = Able
    BY <2>1 DEF Able, Trail, Runnable, Stored, Finished
  <2> QED
    BY <1>4, <2>1, <2>2
<1>11. ASSUME NEW r \in Occurrences, RunNow(r)
       PROVE  Cardinality(Able') <= Cap + kept' + forks'
  <2>1. /\ r \notin Stored /\ Stored' = Stored \union {r} /\ Finished' = Finished
        /\ \A q \in Occurrences \ {r} : status'[q] = status[q]
        /\ kept' = kept + 1 /\ UNCHANGED <<ack, forks>>
    BY <1>11, RunNowSeries
  <2>2. Trail' = Trail
    <3>1. r \notin Finished
      BY <2>1 DEF Finished, Stored
    <3>2. \A q \in Finished : status'[q] = status[q]
      BY <2>1, <3>1 DEF Finished
    <3> QED
      BY <2>1, <3>2, TrailStays
  <2>3. Runnable' \subseteq Runnable \union {r}
    BY <2>1 DEF Runnable, Stored
  <2>4. Able' \subseteq Able \union {r}
    BY <2>2, <2>3 DEF Able
  <2>5. Cardinality(Able') <= Cardinality(Able) + 1
    BY <1>2, <2>4, CountAdded
  <2> QED
    BY <1>2, <1>3, <2>1, <2>5
<1>12. ASSUME NEW r \in Occurrences, NEW next \in Occurrences, Rearm(r, next)
       PROVE  Cardinality(Able') <= Cap + kept' + forks'
  <2>1. /\ next \notin Stored /\ Stored' = Stored \union {next} /\ Finished' = Finished
        /\ status'[next] = ArmedAs /\ \A q \in Occurrences \ {next} : status'[q] = status[q]
        /\ current = 0 /\ r \in recur /\ r \in Finished
        /\ UNCHANGED <<ack, kept, forks>>
    BY <1>12, RearmSeries
  <2>2. Trail' = Trail
    <3>1. next \notin Finished
      BY <2>1 DEF Finished, Stored
    <3>2. \A q \in Finished : status'[q] = status[q]
      BY <2>1, <3>1 DEF Finished
    <3> QED
      BY <2>1, <3>2, TrailStays
  <2>3. Runnable' \subseteq Runnable \union {next}
    BY <2>1 DEF Runnable, Stored
  <2>4. CASE Streak >= Cap
    <3>1. status'[next] = "paused"
      BY <2>1, <2>4 DEF ArmedAs
    <3>2. ack'[next] = "none"
      BY <2>1 DEF SeriesInv, TypeOK
    <3>3. next \notin Runnable'
      BY <3>1, <3>2 DEF Runnable
    <3> QED
      BY <1>4, <2>1, <2>2, <2>3, <3>3 DEF Able
  <2>5. CASE ~ (Streak >= Cap)
    <3>1. /\ Outstanding = OutstandingRows \union (recur \ {current})
          /\ Outstanding \subseteq Occurrences /\ Cardinality(Outstanding) \in Nat
      BY <1>1, OutstandingIs
    <3>2. r \in Outstanding
      <4>1. r # 0
        BY OccurrencesFinite
      <4> QED
        BY <2>1, <3>1, <4>1
    <3>3. Runnable \subseteq Outstanding \ {r}
      BY <2>1, <3>1 DEF Runnable, OutstandingRows, Live, Stored
    <3>4. Cardinality(Outstanding \ {r}) = Cardinality(Outstanding) - 1
      <4>1. IsFiniteSet(Outstanding)
        BY <3>1, OccurrencesFinite, FS_Subset
      <4> QED
        BY <3>2, <4>1, FS_RemoveElement
    <3>5. Cardinality(Runnable) <= kept + forks /\ Cardinality(Runnable) \in Nat
      <4>1. /\ Cardinality(Runnable) <= Cardinality(Outstanding \ {r})
            /\ Cardinality(Runnable) \in Nat
        BY <3>1, <3>3, CountGrows
      <4>2. Cardinality(Outstanding) <= 1 + kept + forks
        BY DEF BudgetInv
      <4> QED
        BY <1>2, <3>1, <3>4, <4>1, <4>2
    <3>6. Cardinality(Trail) <= Cap - 1 /\ Cardinality(Trail) \in Nat /\ Trail \subseteq Occurrences
      <4>1. Trail \subseteq Occurrences
        BY DEF Trail, Finished
      <4>2. Cardinality(Trail) \in Nat
        BY <4>1, CountGrows
      <4>3. ~ (Cardinality(Trail) >= Cap)
        BY <2>5 DEF Streak, Trail
      <4> QED
        BY <1>2, <4>1, <4>2, <4>3
    <3>7. Runnable \subseteq Occurrences
      BY DEF Runnable, Stored
    <3>8. Cardinality(Able) <= Cardinality(Trail) + Cardinality(Runnable)
      BY <3>6, <3>7, CountJoined DEF Able
    <3>9. Cardinality(Able') <= Cardinality(Able) + 1
      <4>1. Able' \subseteq Able \union {next}
        BY <2>2, <2>3 DEF Able
      <4> QED
        BY <1>2, <4>1, CountAdded
    <3> QED
      BY <1>2, <2>1, <3>5, <3>6, <3>8, <3>9
  <2> QED
    BY <2>4, <2>5
<1>13. CASE Clear
  <2>1. UNCHANGED <<status, ack, kept, forks>>
    BY <1>13, ClearSeries
  <2>2. Able' = Able
    BY <2>1 DEF Able, Trail, Runnable, Stored, Finished
  <2> QED
    BY <1>4, <2>1, <2>2
<1>14. CASE Forgets
  <2>1. UNCHANGED <<status, ack, kept>> /\ (forks' = forks \/ forks' = forks + 1)
    BY <1>14 DEF Forgets
  <2>2. Able' = Able
    BY <2>1 DEF Able, Trail, Runnable, Stored, Finished
  <2> QED
    BY <1>4, <2>1, <2>2
<1> QED
  BY <1>1, <1>5, <1>6, <1>7, <1>8, <1>9, <1>10, <1>11, <1>12, <1>13, <1>14 DEF Stepping

\* A script that keeps failing is paused: its failures in a row never exceed the
\* cap by more than the operator's additions and the forks account for.
THEOREM BrokenIsPaused == Spec => []BrokenScriptIsPaused
<1>1. Init => StreakInv
  <2> SUFFICES ASSUME Init PROVE StreakInv
    OBVIOUS
  <2>1. Stored = {} /\ Finished = {} /\ kept = 0 /\ forks = 0
    BY DEF Init, Stored, Finished
  <2>2. Trail \union Runnable = {}
    BY <2>1 DEF Trail, Runnable
  <2> QED
    BY <2>1, <2>2, FS_EmptySet, SeriesAssumption DEF StreakInv
<1>2. SeriesInv /\ BudgetInv /\ StreakInv /\ [Next]_vars => StreakInv'
  BY NextStreak
<1>3. SeriesInv /\ StreakInv => BrokenScriptIsPaused
  <2> SUFFICES ASSUME SeriesInv, StreakInv PROVE Cardinality(Trail) <= Cap + kept + forks
    BY DEF BrokenScriptIsPaused, Streak, Trail
  <2>1. Trail \subseteq Able /\ Able \subseteq Occurrences
    BY DEF Able, Trail, Runnable, Stored, Finished
  <2>2. /\ Cardinality(Trail) \in Nat /\ Cardinality(Able) \in Nat
        /\ Cardinality(Trail) <= Cardinality(Able)
    BY <2>1, CountGrows
  <2>3. kept \in Nat /\ forks \in Nat /\ Cap \in Nat
    BY SeriesAssumption DEF SeriesInv, TypeOK
  <2> QED
    BY <2>2, <2>3 DEF StreakInv, Able
<1> QED
  BY <1>1, <1>2, <1>3, SeriesInvariant, BudgetInvariant, PTL DEF Spec
=============================================================================
