------------------------ MODULE GroupGuardDirectory ------------------------
(***************************************************************************)
(* The directory snapshot of one GroupGuard process after another:         *)
(* AtomicDirectoryStore (src/groupguard/directory/data.ts) as              *)
(* GroupGuardService.create drives it (src/groupguard/bootstrap.ts), at    *)
(* boot and then by the refresh timer.                                     *)
(*                                                                         *)
(* A refresh is a chain of awaits: fetch and validate, write a temporary   *)
(* file, rename it over the cache, keep the snapshot in memory.  Each may  *)
(* fail, the process may die between any two, and the operator may publish *)
(* another snapshot, or restart with another taxonomy, at any time.        *)
(***************************************************************************)
EXTENDS Naturals

CONSTANTS
  Versions,    \* the snapshots the operator may publish
  Taxonomies,
  Fits,        \* Fits[x]: the versions that validate against taxonomy x
  None,        \* no snapshot
  Torn,        \* a file written in part
  Broken,      \* what a source serves that is no JSON, or no snapshot at all
  MaxPublishes, MaxFailures, MaxRestarts  \* bounds on what the outside does

ASSUME DirectoryAssumption ==
  /\ Fits \in [Taxonomies -> SUBSET Versions]
  /\ Taxonomies # {}
  /\ None \notin Versions /\ Torn \notin Versions /\ Broken \notin Versions
  /\ None # Torn
  /\ MaxPublishes \in Nat /\ MaxFailures \in Nat /\ MaxRestarts \in Nat

VARIABLES
  source,    \* what the configured source serves now
  cache,     \* the file at cachePath: durable
  tmp,       \* the temporary file of this process's refresh
  taxonomy,  \* the taxonomy this process loaded
  store,     \* AtomicDirectoryStore.snapshot
  responder, \* the snapshot in create()'s variable responder
  serving,   \* the snapshot in the service's field of that name
  pc,        \* where the boot, or the timer's refresh, awaits
  value,     \* the validated snapshot of the refresh under way
  up,        \* create() has returned the service
  timer      \* the refresh timer is set

\* The outside's counters, and the last snapshot any process made durable.
VARIABLES publishes, failures, restarts, renamed

files == <<cache, tmp, renamed>>
memory == <<store, responder, serving>>
counters == <<publishes, failures, restarts>>
vars == <<source, files, taxonomy, memory, pc, value, up, timer, counters>>

Snapshots == Versions \union {None}
Places == {"loading", "fetching", "writing", "renaming", "storing", "prewarming", "idle"}

\* parseDirectorySnapshot accepts the whole of it, or throws.
\* Fault: nothing is validated.
FaultyValid(v) == v # None
Valid(v) == v \in Fits[taxonomy]

-----------------------------------------------------------------------------
Init ==
  /\ source \in Versions \union {Broken}
  /\ cache = None /\ tmp = None /\ renamed = None
  /\ taxonomy \in Taxonomies
  /\ store = None /\ responder = None /\ serving = None
  /\ pc = "loading" /\ value = None
  /\ up = FALSE /\ timer = FALSE
  /\ publishes = 0 /\ failures = 0 /\ restarts = 0

\* The source changes, for better or worse.
Publish ==
  /\ publishes < MaxPublishes
  /\ publishes' = publishes + 1
  /\ source' \in Versions \union {Broken}
  /\ UNCHANGED <<files, taxonomy, memory, pc, value, up, timer, failures, restarts>>

\* The process dies and another starts, its configuration read again.  A
\* temporary file left behind is never looked at: its name holds the pid.
Restart ==
  /\ restarts < MaxRestarts
  /\ restarts' = restarts + 1
  /\ taxonomy' \in Taxonomies
  /\ store' = None /\ responder' = None /\ serving' = None
  /\ pc' = "loading" /\ value' = None /\ tmp' = None
  /\ up' = FALSE /\ timer' = FALSE
  /\ UNCHANGED <<source, cache, renamed, publishes, failures>>

\* loadCache(): any error, a cache that fails validation included, means none.
Cached == IF Valid(cache) THEN cache ELSE None

LoadCache ==
  /\ pc = "loading"
  /\ store' = Cached
  /\ pc' = "fetching"
  /\ UNCHANGED <<source, files, taxonomy, responder, serving, value, up, timer, counters>>

TimerFires ==
  /\ timer /\ pc = "idle"
  /\ pc' = "fetching"
  /\ UNCHANGED <<source, files, taxonomy, memory, value, up, timer, counters>>

\* refresh() rejects.  The boot goes on with what the store holds; the timer's
\* refresh ends.  Faults: the boot goes on without; the boot rejects as well.
FaultyGiveUpEmpty ==
  pc' = (IF up THEN "idle" ELSE "prewarming") /\ UNCHANGED responder

FaultyGiveUpForGood ==
  pc' = (IF up THEN "idle" ELSE "rejected") /\ UNCHANGED responder

GiveUp ==
  IF up THEN pc' = "idle" /\ UNCHANGED responder
  ELSE pc' = "prewarming" /\ responder' = store

\* The network or the disk fails.
Breaks == failures < MaxFailures /\ failures' = failures + 1

\* Fault: a rejected body empties the store.
FaultyReject == ~Valid(source) /\ store' = None /\ UNCHANGED failures
Reject == ~Valid(source) /\ UNCHANGED <<store, failures>>

Fetched == value' = source /\ tmp' = Torn /\ UNCHANGED cache

\* fetch and validate, mkdir, and open the temporary file.
Fetch ==
  /\ pc = "fetching"
  /\ \/ /\ Valid(source)
        /\ Fetched
        /\ pc' = "writing"
        /\ UNCHANGED <<responder, failures, store>>
     \/ Reject /\ GiveUp /\ UNCHANGED <<value, tmp, cache>>
     \/ Breaks /\ GiveUp /\ UNCHANGED <<value, tmp, cache, store>>
  /\ UNCHANGED <<source, renamed, taxonomy, serving, up, timer, publishes, restarts>>

\* The catch removes the temporary file.
CleanUp == tmp' = None /\ UNCHANGED cache

Write ==
  /\ pc = "writing"
  /\ \/ /\ tmp' = value /\ pc' = "renaming"
        /\ UNCHANGED <<cache, responder, failures>>
     \/ Breaks /\ CleanUp /\ GiveUp
  /\ UNCHANGED <<source, renamed, taxonomy, store, serving, value, up, timer,
                 publishes, restarts>>

Rename ==
  /\ pc = "renaming"
  /\ \/ /\ cache' = tmp /\ renamed' = tmp /\ tmp' = None /\ pc' = "storing"
        /\ UNCHANGED <<responder, failures>>
     \/ Breaks /\ CleanUp /\ GiveUp /\ UNCHANGED renamed
  /\ UNCHANGED <<source, taxonomy, store, serving, value, up, timer, publishes, restarts>>

\* The rename resolved: the snapshot is kept, and a responder made of it.
KeepSnapshot == store' = value /\ responder' = value

Store ==
  /\ pc = "storing"
  /\ KeepSnapshot
  /\ pc' = "prewarming"
  /\ UNCHANGED <<source, files, taxonomy, serving, value, up, timer, counters>>

\* prewarm() comes back, whether Ollama answered or not.  At boot create()
\* sets the timer and returns a service with the responder there is now.
Prewarmed ==
  /\ pc = "prewarming"
  /\ pc' = "idle"
  /\ IF up THEN UNCHANGED <<serving, up, timer>>
     ELSE serving' = responder /\ up' = TRUE /\ timer' = TRUE
  /\ UNCHANGED <<source, files, taxonomy, store, responder, value, counters>>

\* close(): a refresh under way goes on.
Close ==
  /\ up /\ timer
  /\ timer' = FALSE
  /\ UNCHANGED <<source, files, taxonomy, memory, pc, value, up, counters>>

Refreshing ==
  LoadCache \/ TimerFires \/ Fetch \/ Write \/ Rename \/ Store \/ Prewarmed

Next == Publish \/ Restart \/ Close \/ Refreshing

Spec == Init /\ [][Next]_vars

\* Every await ends (fetch aborts after timeoutMs, prewarm too) and setInterval
\* keeps firing; the source, the disk and the operator owe nothing.
FairSpec == Spec /\ WF_vars(Refreshing)

-----------------------------------------------------------------------------
(* Properties.                                                             *)

FlagsOK == up \in BOOLEAN /\ timer \in BOOLEAN

TypeOK ==
  /\ source \in Versions \union {Broken}
  /\ cache \in Snapshots \union {Torn} /\ tmp \in Snapshots \union {Torn}
  /\ renamed \in Snapshots
  /\ taxonomy \in Taxonomies
  /\ store \in Snapshots /\ responder \in Snapshots /\ serving \in Snapshots
  /\ pc \in Places /\ value \in Snapshots
  /\ FlagsOK
  /\ publishes \in Nat /\ failures \in Nat /\ restarts \in Nat

\* The cache is replaced whole: whenever a process may die, whatever fails,
\* the file is the last snapshot whose rename succeeded, never a part of one.
CacheIsWhole == cache = renamed

\* What the process answers from is on disk already: a crash never loses a
\* snapshot that was in use, except to a newer one whose rename succeeded.
MemoryIsDurable == store # None => cache = store \/ (pc = "storing" /\ cache = value)

\* Every snapshot in memory validates against this process's taxonomy, the one
\* the responder uses, although the cache may have been written under another.
OnlyValidSnapshots == {store, responder, serving} \subseteq Fits[taxonomy] \union {None}

\* No failed or invalid refresh, and no crash in one, costs the disk the snapshot
\* it has: the file changes only to a whole one that fits.  None costs the process
\* the snapshot it answers from.
LastValidStays ==
  [][/\ cache' # cache => cache' \in Fits[taxonomy]
     /\ store # None /\ restarts' = restarts => store' # None]_vars

\* A process that starts with a source out of order answers all the same, if
\* some earlier process ever made a snapshot durable that still fits.
ColdStartServes ==
  [][~up /\ up' /\ renamed \in Fits[taxonomy] => serving' # None]_vars

\* A source that settles on a valid snapshot gets it into the store for good,
\* however many refreshes failed before.
GoodSourceIsLoaded ==
  \A v \in Versions :
    <>[](source = v /\ v \in Fits[taxonomy] /\ (up => timer)) => <>[](store = v)

\* Between refreshes the service answers from the snapshot its last successful
\* refresh loaded, which is the one health() reports.
ServesTheRefreshedSnapshot == up /\ pc = "idle" => serving = store
=============================================================================
