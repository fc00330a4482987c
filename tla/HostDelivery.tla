---------------------------- MODULE HostDelivery ----------------------------
(* The host's outbound delivery (src/src/delivery.ts): two timer chains, a  *)
(* fast one over the sessions whose container runs and a slow one over all  *)
(* active sessions, drain each session's messages_out into the channels.    *)
(*                                                                          *)
(* The chains interleave at every await.  messages_out and the table        *)
(* delivered are durable; the attempt counts, the sessions in flight and    *)
(* the chains themselves die with the process.                              *)
EXTENDS Naturals, FiniteSets, FiniteSetsExt

CONSTANTS
  Messages,     \* outbound rows; the order of their timestamps is that of Nat
  Sessions,
  SessionOf,    \* SessionOf[m]: the session whose queue holds m
  Unroutable,   \* rows deliverMessage may return from without sending anything
  Hidden,       \* system, agent and task_log rows: the hooks do not see them
  Hanging,      \* sessions whose channel never answers a call
  Backlog,      \* rows that are due when the host starts
  Running,      \* sessions whose container runs throughout; others may stop
  None,
  MaxAttempts,  \* MAX_DELIVERY_ATTEMPTS
  MaxFaults,    \* bound: errors of the host's own databases
  MaxRestarts   \* bound: restarts of the host

ASSUME DeliveryAssumption ==
  /\ Messages \subseteq Nat
  /\ SessionOf \in [Messages -> Sessions]
  /\ Unroutable \subseteq Messages
  /\ None \notin Sessions
  /\ Backlog \subseteq Messages
  /\ Running \subseteq Sessions
  /\ MaxAttempts \in Nat \ {0}
  /\ MaxFaults \in Nat /\ MaxRestarts \in Nat

Polls == {"active", "sweep"}

VARIABLES
  due,       \* rows of messages_out whose deliver_after has passed
  outcome,   \* the table delivered: none, delivered or failed
  attempts,  \* deliveryAttempts: volatile
  inflight,  \* inflightDeliveries: volatile
  at,        \* where each chain is
  list,      \* the sessions it still has to visit
  session,   \* the session it drains
  pending,   \* the messages it still has to deliver there
  seen,      \* its copy of the delivered ids
  faults, restarts

\* History, read by no action.
VARIABLES
  received,  \* messages their channel has received, once or more
  lost,      \* messages whose last copy the host did not learn of
  tries,     \* calls for an unsettled message in the life of this process
  first      \* messages announced to the hooks as their session's first

chain == <<at, list, session, pending, seen>>
memory == <<attempts, inflight>>
counters == <<faults, restarts>>
history == <<received, lost, tries, first>>
vars == <<due, outcome, attempts, inflight, at, list, session, pending,
          seen, faults, restarts, received, lost, tries, first>>

Places == {"polling", "entered", "draining", "sending", "arrived"}

TypeOK ==
  /\ due \subseteq Messages
  /\ outcome \in [Messages -> {"none", "delivered", "failed"}]
  /\ attempts \in [Messages -> Nat]
  /\ inflight \subseteq Sessions
  /\ at \in [Polls -> Places]
  /\ list \in [Polls -> SUBSET Sessions]
  /\ session \in [Polls -> Sessions \union {None}]
  /\ \A p \in Polls : at[p] = "polling" <=> session[p] = None
  /\ pending \in [Polls -> SUBSET Messages]
  /\ seen \in [Polls -> SUBSET Messages]
  /\ faults \in 0..MaxFaults
  /\ restarts \in 0..MaxRestarts
  /\ received \subseteq Messages
  /\ lost \subseteq Messages
  /\ tries \in [Messages -> Nat]
  /\ first \subseteq Messages

Init ==
  /\ due = Backlog
  /\ outcome = [m \in Messages |-> "none"]
  /\ attempts = [m \in Messages |-> 0]
  /\ inflight = {}
  /\ at = [p \in Polls |-> "polling"]
  /\ list = [p \in Polls |-> {}]
  /\ session = [p \in Polls |-> None]
  /\ pending = [p \in Polls |-> {}]
  /\ seen = [p \in Polls |-> {}]
  /\ faults = 0
  /\ restarts = 0
  /\ received = {}
  /\ lost = {}
  /\ tries = [m \in Messages |-> 0]
  /\ first = {}
-----------------------------------------------------------------------------
\* A container writes a row, or the row's deliver_after passes.
FallDue(m) ==
  /\ m \notin due
  /\ due' = due \union {m}
  /\ UNCHANGED <<outcome, memory, chain, counters, history>>

Fault == faults < MaxFaults /\ faults' = faults + 1

\* The timer fires: pollActive lists the sessions whose container runs,
\* pollSweep the active ones.
Lists(p) == IF p = "active" THEN {R \in SUBSET Sessions : Running \subseteq R}
                            ELSE {Sessions}

Begin(p) ==
  /\ at[p] = "polling" /\ list[p] = {}
  /\ list' \in {[list EXCEPT ![p] = R] : R \in Lists(p)}
  /\ UNCHANGED <<due, outcome, memory, at, session, pending, seen, counters, history>>

\* deliverSessionMessages returns at once for a session in flight.
Skip(p, s) ==
  /\ at[p] = "polling" /\ s \in list[p] /\ s \in inflight
  /\ list' = [list EXCEPT ![p] = @ \ {s}]
  /\ UNCHANGED <<due, outcome, memory, at, session, pending, seen, counters, history>>

\* Faulty: both chains drain a session at once.
FaultyFree(s) == TRUE

Free(s) == s \notin inflight

Enter(p, s) ==
  /\ at[p] = "polling" /\ s \in list[p] /\ Free(s)
  /\ inflight' = inflight \union {s}
  /\ at' = [at EXCEPT ![p] = "entered"]
  /\ list' = [list EXCEPT ![p] = @ \ {s}]
  /\ session' = [session EXCEPT ![p] = s]
  /\ UNCHANGED <<due, outcome, attempts, pending, seen, counters, history>>

Settled(s) == {m \in Messages : SessionOf[m] = s /\ outcome[m] # "none"}
\* Faulty: the delivered ids are not left out.
FaultyWaiting(s) == {m \in due : SessionOf[m] = s}

Waiting(s) == {m \in due : SessionOf[m] = s /\ outcome[m] = "none"}

\* Faulty: the delivered ids are not read.
FaultyReadQueue(p) ==
  /\ at[p] = "entered"
  /\ at' = [at EXCEPT ![p] = "draining"]
  /\ pending' = [pending EXCEPT ![p] = Waiting(session[p])]
  /\ UNCHANGED <<due, outcome, memory, list, session, seen, counters, history>>

\* One mailbox session reads the delivered ids and the due messages.
ReadQueue(p) ==
  /\ at[p] = "entered"
  /\ at' = [at EXCEPT ![p] = "draining"]
  /\ pending' = [pending EXCEPT ![p] = Waiting(session[p])]
  /\ seen' = [seen EXCEPT ![p] = Settled(session[p])]
  /\ UNCHANGED <<due, outcome, memory, list, session, counters, history>>

\* Faulty: no finally, the session stays in flight.
FaultyLeave(p) ==
  /\ at' = [at EXCEPT ![p] = "polling"]
  /\ session' = [session EXCEPT ![p] = None]
  /\ pending' = [pending EXCEPT ![p] = {}]
  /\ seen' = [seen EXCEPT ![p] = {}]
  /\ UNCHANGED inflight

Leave(p) ==
  /\ inflight' = inflight \ {session[p]}
  /\ at' = [at EXCEPT ![p] = "polling"]
  /\ session' = [session EXCEPT ![p] = None]
  /\ pending' = [pending EXCEPT ![p] = {}]
  /\ seen' = [seen EXCEPT ![p] = {}]

\* Faulty: an error path that forgets which session it left.
FaultyReadFails(p) ==
  /\ at[p] = "entered"
  /\ Fault
  /\ at' = [at EXCEPT ![p] = "polling"]
  /\ UNCHANGED <<due, outcome, memory, list, session, pending, seen, restarts, history>>

\* The mailbox cannot be read: the error is logged and the session left.
ReadFails(p) ==
  /\ at[p] = "entered"
  /\ Fault
  /\ Leave(p)
  /\ UNCHANGED <<due, outcome, attempts, list, restarts, history>>

\* The finally of deliverSessionMessages.
Exit(p) ==
  /\ at[p] = "draining" /\ pending[p] = {}
  /\ Leave(p)
  /\ UNCHANGED <<due, outcome, attempts, list, counters, history>>

Current(p) == Min(pending[p])

\* deliverMessage up to its await of the adapter.
Call(p) ==
  /\ at[p] = "draining" /\ pending[p] # {}
  /\ at' = [at EXCEPT ![p] = "sending"]
  /\ tries' = [tries EXCEPT ![Current(p)] = @ + 1]
  /\ UNCHANGED <<due, outcome, memory, list, session, pending, seen, counters,
                 received, lost, first>>

\* The channel has the message (a handler inside the host has done its work).
Arrives(p) ==
  /\ at[p] = "sending"
  /\ at' = [at EXCEPT ![p] = "arrived"]
  /\ received' = received \union {Current(p)}
  /\ lost' = lost \ {Current(p)}
  /\ UNCHANGED <<due, outcome, memory, list, session, pending, seen, counters,
                 tries, first>>

Done(p) ==
  /\ at' = [at EXCEPT ![p] = "draining"]
  /\ pending' = [pending EXCEPT ![p] = @ \ {Current(p)}]

\* INSERT OR IGNORE: a row of delivered is never changed.
Record(m, what) ==
  outcome' = IF outcome[m] = "none" THEN [outcome EXCEPT ![m] = what] ELSE outcome

\* deliverMessage returned: markDelivered, then the hooks.
Recorded(p) ==
  LET m == Current(p) IN
  /\ at[p] = "arrived" \/ (at[p] = "sending" /\ m \in Unroutable)
  /\ Done(p)
  /\ Record(m, "delivered")
  /\ seen' = [seen EXCEPT ![p] = @ \union {m}]
  /\ attempts' = [attempts EXCEPT ![m] = 0]
  /\ first' = IF seen[p] = {} /\ m \notin Hidden THEN first \union {m} ELSE first
  /\ tries' = [tries EXCEPT ![m] = 0]
  /\ UNCHANGED <<due, inflight, list, session, counters, received, lost>>

\* A copy has arrived in a call that is not over.
Unconfirmed(p) == IF at[p] = "arrived" THEN {Current(p)} ELSE {}
Open == UNION {Unconfirmed(p) : p \in Polls}

\* Faulty: one attempt too many.
FaultyGivesUp(m) == attempts[m] + 1 > MaxAttempts

GivesUp(m) == attempts[m] + 1 >= MaxAttempts

\* The catch of drainSession: the attempt is counted, and the last one
\* recorded as failed, unless the mailbox refuses.
Failed(p) ==
  LET m == Current(p) IN
  /\ Done(p)
  /\ lost' = lost \union Unconfirmed(p)
  /\ \/ /\ ~ GivesUp(m)
        /\ attempts' = [attempts EXCEPT ![m] = @ + 1]
        /\ UNCHANGED <<outcome, tries, faults>>
     \/ /\ GivesUp(m)
        /\ Record(m, "failed")
        /\ attempts' = [attempts EXCEPT ![m] = 0]
        /\ tries' = [tries EXCEPT ![m] = 0]
        /\ UNCHANGED faults
     \/ /\ GivesUp(m)
        /\ Fault
        /\ attempts' = [attempts EXCEPT ![m] = @ + 1]
        /\ UNCHANGED <<outcome, tries>>
  /\ UNCHANGED <<due, inflight, list, session, seen, restarts, received, first>>

\* deliverMessage throws (an unknown, detached or forbidden destination, or an
\* adapter that rejects, whether or not it has sent), or markDelivered does.
Rejected(p) == at[p] \in {"sending", "arrived"} /\ Failed(p)

\* The process dies and starts again: an empty attempt table, no session in
\* flight, both chains about to begin.
Restart ==
  /\ restarts < MaxRestarts
  /\ restarts' = restarts + 1
  /\ attempts' = [m \in Messages |-> 0]
  /\ inflight' = {}
  /\ at' = [p \in Polls |-> "polling"]
  /\ list' = [p \in Polls |-> {}]
  /\ session' = [p \in Polls |-> None]
  /\ pending' = [p \in Polls |-> {}]
  /\ seen' = [p \in Polls |-> {}]
  /\ lost' = lost \union Open
  /\ tries' = [m \in Messages |-> 0]
  /\ UNCHANGED <<due, outcome, faults, received, first>>

\* No call has a deadline: one that is not answered keeps its chain.
Answer(p) ==
  /\ session[p] \notin Hanging
  /\ Arrives(p) \/ Recorded(p) \/ Rejected(p)

Turn(p) ==
  \/ Begin(p) \/ ReadQueue(p) \/ ReadFails(p) \/ Exit(p) \/ Call(p)
  \/ \E s \in Sessions : Skip(p, s) \/ Enter(p, s)

Next ==
  \/ \E m \in Messages : FallDue(m)
  \/ \E p \in Polls : Turn(p) \/ Answer(p)
  \/ Restart

Spec == Init /\ [][Next]_vars

\* The event loop serves both chains, timers fire, and every call of a channel
\* ends, except in a session that hangs.
FairSpec == Spec /\ \A p \in Polls : WF_vars(Turn(p) \/ Answer(p))
-----------------------------------------------------------------------------
\* A channel receives a message again only if the host did not learn of the
\* last copy: the call was rejected after it, or the process died in it.  The
\* two chains never send a message twice.
DuplicatesNeedALostAnswer ==
  [][(Open' \ Open) \intersect received \subseteq lost]_<<at, pending, lost>>

\* In the life of a process a message is tried MaxAttempts times, and once more
\* for each time the database refused to record that it failed; it is recorded
\* as failed only after MaxAttempts tries.
RetriesEnd ==
  [][\A m \in Messages :
       /\ tries'[m] <= MaxAttempts + faults'
       /\ outcome'[m] = "failed" /\ outcome[m] # "failed"
            => tries[m] >= MaxAttempts]_<<tries, outcome>>

\* At most one message of a session is announced to the hooks as its first.
OneFirstDelivery ==
  \A m, n \in first : SessionOf[m] = SessionOf[n] => m = n

\* A chain waits for a channel that does not answer.
Hangs(p) == at[p] = "sending" /\ session[p] \in Hanging

\* The chains sure to visit a message's session: both if its container runs.
Servers(m) == IF SessionOf[m] \in Running THEN Polls ELSE {"sweep"}

\* A due message of a session that answers settles, in spite of crashes, errors
\* and rejections, unless every chain sure to visit its session comes to wait
\* for ever in another one.  One hanging session cannot stop a session whose
\* container runs: the chain that is left skips it.  Two can, one per chain.
EveryDueMessageSettles ==
  \A m \in {n \in Messages : SessionOf[n] \notin Hanging} :
    \/ m \in due ~> outcome[m] # "none"
    \/ <>[](\A p \in Servers(m) : Hangs(p))

Queue == INSTANCE Outbox WITH open <- Open

\* The chains implement the outbox: nothing is sent once a message has settled,
\* a settled message stays as it is, and delivered means arrived.
ImplementsOutbox == Queue!OutboxSpec
=============================================================================
