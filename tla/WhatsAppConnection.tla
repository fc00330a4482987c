------------------------- MODULE WhatsAppConnection -------------------------
(***************************************************************************)
(* The WhatsApp adapter's connection (src/channels/whatsapp.ts) with its   *)
(* ReconnectBudget (src/groupguard/reliability/reconnect.ts): setup,       *)
(* reconnection, logout, shutdown, and the outgoing queue behind           *)
(* deliver().                                                              *)
(*                                                                         *)
(* connectSocket() awaits the auth state and the web version before it     *)
(* makes a socket; a socket then opens and closes when Baileys says so,    *)
(* and closes once.  Every step below is what runs between two awaits.     *)
(***************************************************************************)
EXTENDS Integers, Sequences, FiniteSets

CONSTANTS
  Messages,    \* outbound messages the host delivers, each of them once
  MaxAttempts, \* GROUPGUARD_RECONNECT_MAX_ATTEMPTS
  MaxOpens     \* bound on successful connections

ASSUME ConnectionAssumption == MaxAttempts \in Nat /\ MaxOpens \in Nat

VARIABLES
  connected, shuttingDown,
  connecting,  \* the connectSocket() calls that are awaiting: by "setup" or "timer"
  sock,        \* the sockets that have not closed: "opening", "open" or "ending"
  timer,       \* reconnectTimer is set
  stable,      \* stableConnectionTimer is set
  attempts,    \* of the reconnect budget
  firstOpen,   \* the promise setup() awaits
  auth,        \* the auth directory: durable
  queue,       \* outgoingQueue
  flushing,    \* the message flushOutgoingQueue awaits, if it runs
  sending      \* messages whose sendRawMessage awaits the socket

\* History.
VARIABLES
  accepted,  \* messages deliver() was called with
  handed,    \* times each message was given to a socket
  confirmed, \* messages a socket accepted
  tries,     \* reconnects since a connection last held for RECONNECT_STABLE_MS
  opens      \* successful connections

outgoing == <<queue, flushing, sending, accepted, handed, confirmed>>
vars == <<connected, shuttingDown, connecting, sock, timer, stable, attempts,
          firstOpen, auth, outgoing, tries, opens>>

Callers == {"setup", "timer"}
SocketStates == {"opening", "open", "ending"}

-----------------------------------------------------------------------------
\* setup() has called connectSocket() and awaits the first open.
Init ==
  /\ connected = FALSE /\ shuttingDown = FALSE
  /\ connecting = {"setup"} /\ sock = {}
  /\ timer = FALSE /\ stable = FALSE /\ attempts = 0
  /\ firstOpen = "waiting" /\ auth = "kept"
  /\ queue = <<>> /\ flushing = {} /\ sending = {}
  /\ accepted = {} /\ handed = [m \in Messages |-> 0] /\ confirmed = {}
  /\ tries = 0 /\ opens = 0

\* scheduleReconnect(): one timer at a time, within the budget.
\* Fault: off by one.
FaultyScheduleReconnect ==
  IF shuttingDown \/ timer \/ attempts > MaxAttempts
  THEN UNCHANGED <<timer, attempts, tries>>
  ELSE timer' = TRUE /\ attempts' = attempts + 1 /\ tries' = tries + 1

ScheduleReconnect ==
  IF shuttingDown \/ timer \/ attempts >= MaxAttempts
  THEN UNCHANGED <<timer, attempts, tries>>
  ELSE timer' = TRUE /\ attempts' = attempts + 1 /\ tries' = tries + 1

TimerFires ==
  /\ timer
  /\ timer' = FALSE
  /\ connecting' = connecting \union {"timer"}
  /\ UNCHANGED <<connected, shuttingDown, sock, stable, attempts, firstOpen, auth,
                 outgoing, tries, opens>>

\* connectSocket() gets its auth state and version, and makes the socket.  It
\* does not look at shuttingDown again.
SocketMade(c) ==
  /\ c \in connecting
  /\ connecting' = connecting \ {c}
  /\ sock' = sock \union {"opening"}
  /\ UNCHANGED <<connected, shuttingDown, timer, stable, attempts, firstOpen, auth,
                 outgoing, tries, opens>>

\* connectSocket() throws: setup() rejects, a reconnect is scheduled again.
\* Fault: the reconnect is only logged.
FaultyConnectFails(c) ==
  /\ c \in connecting
  /\ connecting' = connecting \ {c}
  /\ firstOpen' = IF c = "setup" THEN "rejected" ELSE firstOpen
  /\ UNCHANGED <<connected, shuttingDown, sock, timer, stable, attempts, auth,
                 outgoing, tries, opens>>

ConnectFails(c) ==
  /\ c \in connecting
  /\ connecting' = connecting \ {c}
  /\ IF c = "setup" THEN firstOpen' = "rejected" /\ UNCHANGED <<timer, attempts, tries>>
     ELSE ScheduleReconnect /\ UNCHANGED firstOpen
  /\ UNCHANGED <<connected, shuttingDown, sock, stable, auth, outgoing, opens>>

\* flushOutgoingQueue goes on to the next message, or ends.  The message leaves
\* the queue before the socket is asked.
FlushNext ==
  IF queue = <<>> THEN flushing' = {} /\ UNCHANGED <<queue, handed>>
  ELSE /\ flushing' = {Head(queue)}
       /\ queue' = Tail(queue)
       /\ handed' = [handed EXCEPT ![Head(queue)] = @ + 1]

\* connection.update "open".
Opened ==
  /\ "opening" \in sock /\ opens < MaxOpens
  /\ sock' = (sock \ {"opening"}) \union {"open"}
  /\ connected' = TRUE /\ timer' = FALSE /\ stable' = TRUE
  /\ firstOpen' = IF firstOpen = "waiting" THEN "resolved" ELSE firstOpen
  /\ IF flushing = {} THEN FlushNext ELSE UNCHANGED <<queue, flushing, handed>>
  /\ opens' = opens + 1
  /\ UNCHANGED <<shuttingDown, connecting, attempts, auth, sending, accepted, confirmed, tries>>

\* connection.update "close".  Faults: the stable timer is left running; the
\* reconnect is tried at once, and scheduled as well.
FaultyClosedStable(s, reason) ==
  /\ s \in sock
  /\ sock' = sock \ {s}
  /\ connected' = FALSE
  /\ ~shuttingDown /\ ScheduleReconnect
  /\ UNCHANGED <<shuttingDown, connecting, stable, firstOpen, auth, outgoing, opens>>

FaultyClosedTwice(s, reason) ==
  /\ s \in sock
  /\ sock' = sock \ {s}
  /\ connected' = FALSE /\ stable' = FALSE
  /\ ~shuttingDown /\ ScheduleReconnect
  /\ connecting' = connecting \union {"timer"}
  /\ UNCHANGED <<shuttingDown, firstOpen, auth, outgoing, opens>>

Closed(s, reason) ==
  /\ s \in sock
  /\ sock' = sock \ {s}
  /\ connected' = FALSE /\ stable' = FALSE
  /\ IF ~shuttingDown /\ reason # "loggedOut"
     THEN ScheduleReconnect /\ UNCHANGED <<firstOpen, auth>>
     ELSE /\ auth' = IF reason = "loggedOut" THEN "cleared" ELSE auth
          /\ firstOpen' = IF firstOpen = "waiting" THEN "rejected" ELSE firstOpen
          /\ UNCHANGED <<timer, attempts, tries>>
  /\ UNCHANGED <<shuttingDown, connecting, outgoing, opens>>

\* The connection held for RECONNECT_STABLE_MS.
Stabilised ==
  /\ stable
  /\ stable' = FALSE /\ attempts' = 0
  /\ tries' = IF "open" \in sock THEN 0 ELSE tries
  /\ UNCHANGED <<connected, shuttingDown, connecting, sock, timer, firstOpen, auth,
                 outgoing, opens>>

\* teardown(), for an adapter whose setup() resolved.  Ending a socket makes it
\* close.
Teardown ==
  /\ firstOpen = "resolved" /\ ~shuttingDown
  /\ shuttingDown' = TRUE /\ connected' = FALSE /\ timer' = FALSE /\ stable' = FALSE
  /\ sock' = IF sock = {} THEN {} ELSE {"ending"}
  /\ UNCHANGED <<connecting, attempts, firstOpen, auth, outgoing, tries, opens>>

\* sendRawMessage: queue while disconnected, else ask the socket.
\* Fault: a message sent while disconnected is dropped.
FaultyQueued(m) == UNCHANGED queue
Queued(m) == queue' = Append(queue, m)

Deliver(m) ==
  /\ firstOpen = "resolved" /\ m \notin accepted
  /\ accepted' = accepted \union {m}
  /\ IF connected
     THEN /\ sending' = sending \union {m}
          /\ handed' = [handed EXCEPT ![m] = @ + 1]
          /\ UNCHANGED queue
     ELSE Queued(m) /\ UNCHANGED <<sending, handed>>
  /\ UNCHANGED <<connected, shuttingDown, connecting, sock, timer, stable, attempts,
                 firstOpen, auth, flushing, confirmed, tries, opens>>

\* The socket accepts a message, or rejects it: then it is queued, for the next
\* open to flush.
SendEnds(m) ==
  /\ m \in sending
  /\ sending' = sending \ {m}
  /\ \/ confirmed' = confirmed \union {m} /\ UNCHANGED queue
     \/ Queued(m) /\ UNCHANGED confirmed
  /\ UNCHANGED <<connected, shuttingDown, connecting, sock, timer, stable, attempts,
                 firstOpen, auth, flushing, accepted, handed, tries, opens>>

\* The same for the flush, which ends at the first rejection: the message it
\* had taken is in no queue any more.
FlushEnds(m) ==
  /\ m \in flushing
  /\ \/ confirmed' = confirmed \union {m} /\ FlushNext
     \/ flushing' = {} /\ UNCHANGED <<queue, handed, confirmed>>
  /\ UNCHANGED <<connected, shuttingDown, connecting, sock, timer, stable, attempts,
                 firstOpen, auth, sending, accepted, tries, opens>>

Reasons == {"lost", "loggedOut"}

\* What a socket that is not open yet ends in.
SocketSettles ==
  Opened \/ \E s \in {"opening", "ending"}, r \in Reasons : Closed(s, r)

Connecting == \E c \in Callers : SocketMade(c) \/ ConnectFails(c)

Outgoing == \E m \in Messages : SendEnds(m) \/ FlushEnds(m)

Next ==
  \/ TimerFires \/ Connecting \/ SocketSettles \/ Stabilised \/ Teardown \/ Outgoing
  \/ \E r \in Reasons : Closed("open", r)
  \/ \E m \in Messages : Deliver(m)

Spec == Init /\ [][Next]_vars

\* Timers fire, connectSocket's awaits end, and Baileys gives up on a socket
\* that does not open (connectTimeoutMs) and on a query nobody answers.
Fairness ==
  /\ WF_vars(TimerFires) /\ WF_vars(Connecting) /\ WF_vars(SocketSettles)
  /\ WF_vars(Outgoing)

FairSpec == Spec /\ Fairness

-----------------------------------------------------------------------------
(* Properties.                                                             *)

FlagsOK ==
  /\ connected \in BOOLEAN /\ shuttingDown \in BOOLEAN
  /\ timer \in BOOLEAN /\ stable \in BOOLEAN

OutgoingOK ==
  /\ queue \in Seq(Messages) /\ flushing \subseteq Messages /\ sending \subseteq Messages
  /\ accepted \subseteq Messages /\ confirmed \subseteq Messages
  /\ handed \in [Messages -> Nat]

TypeOK ==
  /\ FlagsOK /\ OutgoingOK
  /\ connecting \subseteq Callers /\ sock \subseteq SocketStates
  /\ attempts \in 0..MaxAttempts
  /\ firstOpen \in {"waiting", "resolved", "rejected"} /\ auth \in {"kept", "cleared"}
  /\ tries \in Nat /\ opens \in 0..MaxOpens

\* There is one connection in the making or in use, never two: no reconnect
\* timer beside a connectSocket() that awaits, or beside a socket.  (Two would
\* write one auth directory.)
OneConnection ==
  /\ \A c, d \in connecting : c = d
  /\ \A s, t \in sock : s = t
  /\ connecting = {} \/ sock = {}
  /\ timer => connecting = {} /\ sock = {}

\* However the account's connection flaps, there are no more reconnects than
\* the budget between two connections that held.
ReconnectsBounded == tries <= MaxAttempts

Exhausted == attempts = MaxAttempts /\ connecting = {} /\ sock = {} /\ ~timer

\* Until it is logged out, torn down, or out of budget, or setup() has failed,
\* a disconnected adapter gets connected again, and setup() comes back.
KeepsReconnecting ==
  ~connected ~> \/ connected \/ shuttingDown \/ auth = "cleared"
                \/ Exhausted \/ firstOpen = "rejected" \/ opens = MaxOpens

\* Whatever deliver() took is still queued or was given to a socket: the queue
\* loses nothing on its own, in whatever order sends and flushes fail.
NothingDroppedUnsent ==
  \A m \in accepted : handed[m] > 0 \/ \E i \in DOMAIN queue : queue[i] = m

InQueue(m) == \E i \in DOMAIN queue : queue[i] = m

\* Where a message is, as its sender sees it.
PlaceOf ==
  [m \in Messages |->
     IF m \in confirmed THEN "taken"
     ELSE IF m \in sending THEN "sending"
     ELSE IF m \in flushing THEN "flushing"
     ELSE IF InQueue(m) THEN "queued"
     ELSE IF m \in accepted THEN "lost" ELSE "new"]

Abstract == INSTANCE SendQueue WITH place <- PlaceOf, asks <- handed

\* Whatever order sends, rejections, reconnects and flushes come in, the adapter
\* keeps the promise of a send queue: it never sends twice what WhatsApp took,
\* and loses a message only where a flush is rejected.
ImplementsSendQueue == Abstract!SendQueueSpec
=============================================================================
