----------------------- MODULE GroupGuardDirectoryProofs -----------------------
(***************************************************************************)
(* The safety properties of GroupGuardDirectory, for any number of         *)
(* snapshots, taxonomies, publications, failures and restarts.             *)
(***************************************************************************)
EXTENDS GroupGuardDirectory, TLAPS

\* What a refresh has got hold of at each of its awaits.
RefreshOrder ==
  /\ pc \in {"writing", "renaming", "storing"} => value \in Fits[taxonomy]
  /\ pc = "renaming" => tmp = value
  /\ pc = "storing" => cache = value

\* A boot that got past its cache has what fits of it, and makes its responder
\* of what it has.
BootOrder ==
  /\ pc = "loading" => ~up /\ store = None
  /\ ~up => /\ pc # "idle"
            /\ pc \notin {"loading", "storing"} /\ renamed \in Fits[taxonomy] => store # None
            /\ pc = "prewarming" => responder = store

\* The inductive invariant.
DirectoryInv ==
  TypeOK /\ CacheIsWhole /\ MemoryIsDurable /\ OnlyValidSnapshots
    /\ RefreshOrder /\ BootOrder

-----------------------------------------------------------------------------
\* A refresh that gives up ends, or lets the boot go on with what is stored.
LEMMA GivingUp ==
  ASSUME GiveUp
  PROVE  \/ up /\ pc' = "idle" /\ responder' = responder
         \/ ~up /\ pc' = "prewarming" /\ responder' = store
  BY DEF GiveUp

\* The two flags stay Boolean (a goal for Zenon, as the others are for SMT).
LEMMA FlagsNext == FlagsOK /\ [Next]_vars => FlagsOK'
<1> SUFFICES ASSUME FlagsOK, [Next]_vars PROVE FlagsOK'
  OBVIOUS
<1>1. CASE up' = up /\ timer' = timer
  BY <1>1 DEF FlagsOK
<1>2. CASE Restart
  BY <1>2, Zenon DEF Restart, FlagsOK
<1>3. CASE Close
  <2>1. timer' = FALSE /\ up' = up
    BY <1>3 DEF Close
  <2> QED
    BY <2>1, Zenon DEF FlagsOK
<1>4. CASE Prewarmed
  <2>1. CASE up
    BY <1>4, <2>1 DEF Prewarmed, FlagsOK
  <2>2. CASE ~up
    BY <1>4, <2>2, Zenon DEF Prewarmed, FlagsOK
  <2> QED
    BY <2>1, <2>2
<1> QED
  BY <1>1, <1>2, <1>3, <1>4
  DEF Next, Refreshing, Publish, LoadCache, TimerFires, Fetch, Write, Rename, Store, vars

\* The processes before the first one left nothing behind.
LEMMA DirectoryInit == Init => DirectoryInv
<1> SUFFICES ASSUME Init PROVE DirectoryInv
  OBVIOUS
<1>1. FlagsOK
  BY Zenon DEF Init, FlagsOK
<1> QED
  BY <1>1, DirectoryAssumption
  DEF Init, DirectoryInv, TypeOK, Snapshots, Places, CacheIsWhole, MemoryIsDurable,
      OnlyValidSnapshots, RefreshOrder, BootOrder

\* Every step keeps the invariant.
LEMMA DirectoryNext == DirectoryInv /\ [Next]_vars => DirectoryInv'
<1> SUFFICES ASSUME DirectoryInv, [Next]_vars PROVE DirectoryInv'
  OBVIOUS
<1> USE DirectoryAssumption
        DEF DirectoryInv, TypeOK, Snapshots, Places, CacheIsWhole, MemoryIsDurable,
            OnlyValidSnapshots, RefreshOrder, BootOrder, files, memory, counters
<1> FlagsOK'
  BY FlagsNext
<1>1. CASE Publish
  BY <1>1 DEF Publish
<1>2. CASE Restart
  BY <1>2 DEF Restart
<1>3. CASE Close
  BY <1>3 DEF Close
<1>4. CASE LoadCache
  BY <1>4 DEF LoadCache, Cached, Valid
<1>5. CASE TimerFires
  BY <1>5 DEF TimerFires
<1>6. CASE Fetch
  <2>1. CASE Valid(source) /\ Fetched /\ pc' = "writing"
             /\ UNCHANGED <<responder, failures, store>>
    BY <1>6, <2>1 DEF Fetch, Valid, Fetched
  <2>2. CASE Reject /\ GiveUp /\ UNCHANGED <<value, tmp, cache>>
    BY <1>6, <2>2, GivingUp DEF Fetch, Reject
  <2>3. CASE Breaks /\ GiveUp /\ UNCHANGED <<value, tmp, cache, store>>
    BY <1>6, <2>3, GivingUp DEF Fetch, Breaks
  <2> QED
    BY <1>6, <2>1, <2>2, <2>3 DEF Fetch
<1>7. CASE Write
  <2>1. CASE tmp' = value /\ pc' = "renaming" /\ UNCHANGED <<cache, responder, failures>>
    BY <1>7, <2>1 DEF Write
  <2>2. CASE Breaks /\ CleanUp /\ GiveUp
    BY <1>7, <2>2, GivingUp DEF Write, Breaks, CleanUp
  <2> QED
    BY <1>7, <2>1, <2>2 DEF Write
<1>8. CASE Rename
  <2>1. CASE cache' = tmp /\ renamed' = tmp /\ tmp' = None /\ pc' = "storing"
             /\ UNCHANGED <<responder, failures>>
    BY <1>8, <2>1 DEF Rename
  <2>2. CASE Breaks /\ CleanUp /\ GiveUp /\ UNCHANGED renamed
    BY <1>8, <2>2, GivingUp DEF Rename, Breaks, CleanUp
  <2> QED
    BY <1>8, <2>1, <2>2 DEF Rename
<1>9. CASE Store
  BY <1>9 DEF Store, KeepSnapshot
<1>10. CASE Prewarmed
  BY <1>10 DEF Prewarmed
<1>11. CASE UNCHANGED vars
  BY <1>11 DEF vars
<1> QED
  BY <1>1, <1>2, <1>3, <1>4, <1>5, <1>6, <1>7, <1>8, <1>9, <1>10, <1>11
  DEF Next, Refreshing

\* The invariant holds throughout.
LEMMA DirectoryInvariant == Spec => []DirectoryInv
<1> QED
  BY DirectoryInit, DirectoryNext, PTL DEF Spec

\* Every variable keeps its type.
THEOREM TypeCorrect == Spec => []TypeOK
<1>1. DirectoryInv => TypeOK
  BY DEF DirectoryInv
<1> QED
  BY DirectoryInvariant, <1>1, PTL

\* The cache file is never seen in part (data.ts: write, then rename).
THEOREM CacheWhole == Spec => []CacheIsWhole
<1>1. DirectoryInv => CacheIsWhole
  BY DEF DirectoryInv
<1> QED
  BY DirectoryInvariant, <1>1, PTL

\* The snapshot in memory is on disk first (data.ts: rename, then assign).
THEOREM MemoryDurable == Spec => []MemoryIsDurable
<1>1. DirectoryInv => MemoryIsDurable
  BY DEF DirectoryInv
<1> QED
  BY DirectoryInvariant, <1>1, PTL

\* What answers are made of fits the taxonomy they are made with.
THEOREM ValidInMemory == Spec => []OnlyValidSnapshots
<1>1. DirectoryInv => OnlyValidSnapshots
  BY DEF DirectoryInv
<1> QED
  BY DirectoryInvariant, <1>1, PTL

\* A process that comes up answers if a durable snapshot fits (bootstrap.ts:
\* the boot outlives a failed refresh, and makes a responder of the cache).
THEOREM ColdStart == Spec => ColdStartServes
<1>1. DirectoryInv /\ [Next]_vars
        => (~up /\ up' /\ renamed \in Fits[taxonomy] => serving' # None)
  <2> SUFFICES ASSUME DirectoryInv, [Next]_vars, ~up, up', renamed \in Fits[taxonomy]
               PROVE  serving' # None
    OBVIOUS
  <2>1. CASE Prewarmed
    BY <2>1 DEF Prewarmed, DirectoryInv, BootOrder
  <2>2. CASE ~Prewarmed
    BY <2>2 DEF Next, Refreshing, Publish, Restart, Close, LoadCache, TimerFires, Fetch,
                Write, Rename, Store, vars
  <2> QED
    BY <2>1, <2>2
<1>2. DirectoryInv /\ [Next]_vars
        => [~up /\ up' /\ renamed \in Fits[taxonomy] => serving' # None]_vars
  BY <1>1
<1> QED
  BY DirectoryInvariant, <1>2, PTL DEF Spec, ColdStartServes

\* No refresh that fails takes the snapshot away (data.ts: the catch rethrows
\* before the assignment), and the file is only ever replaced by a rename of what
\* was validated and written whole.
THEOREM LastValid == Spec => LastValidStays
<1> DEFINE Stays ==
             /\ cache' # cache => cache' \in Fits[taxonomy]
             /\ store # None /\ restarts' = restarts => store' # None
<1>1. DirectoryInv /\ [Next]_vars => Stays
  <2> SUFFICES ASSUME DirectoryInv, [Next]_vars PROVE Stays
    OBVIOUS
  <2> USE DirectoryAssumption DEF DirectoryInv, TypeOK, Snapshots, CacheIsWhole, RefreshOrder,
          files, memory, counters
  <2>1. CASE Fetch
    BY <2>1 DEF Fetch, Fetched, Reject, GiveUp
  <2>2. CASE Write
    BY <2>2 DEF Write, CleanUp, GiveUp
  <2>3. CASE Rename
    BY <2>3 DEF Rename, CleanUp, GiveUp
  <2>4. CASE Restart
    BY <2>4 DEF Restart
  <2>5. CASE LoadCache
    BY <2>5 DEF LoadCache, Cached, MemoryIsDurable, OnlyValidSnapshots, BootOrder
  <2>6. CASE Store
    BY <2>6 DEF Store, KeepSnapshot
  <2>7. CASE Publish \/ Close \/ TimerFires \/ Prewarmed \/ UNCHANGED vars
    BY <2>7 DEF Publish, Close, TimerFires, Prewarmed, vars
  <2> QED
    BY <2>1, <2>2, <2>3, <2>4, <2>5, <2>6, <2>7 DEF Next, Refreshing
<1> QED
  BY DirectoryInvariant, <1>1, PTL DEF Spec, LastValidStays
=============================================================================
