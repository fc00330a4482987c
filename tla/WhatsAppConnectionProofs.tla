----------------------- MODULE WhatsAppConnectionProofs -----------------------
(***************************************************************************)
(* The safety of the adapter's connection and of its outgoing queue, for   *)
(* any reconnect budget, any messages and any number of connections.       *)
(***************************************************************************)
EXTENDS WhatsAppConnection, TLAPS

\* The inductive invariant of the connection: the stable timer only runs over
\* an open socket, so that each reconnect since the last one that held is an
\* attempt of the budget.
ConnectionInv ==
  /\ FlagsOK
  /\ connecting \subseteq Callers /\ sock \subseteq SocketStates
  /\ attempts \in 0..MaxAttempts /\ tries = attempts
  /\ firstOpen \in {"waiting", "resolved", "rejected"} /\ auth \in {"kept", "cleared"}
  /\ opens \in 0..MaxOpens
  /\ OneConnection
  /\ stable => "open" \in sock

\* The invariant of the queue.
QueueInv == OutgoingOK /\ NothingDroppedUnsent

-----------------------------------------------------------------------------
\* Scheduling sets the timer of a budget that is not used up, or does nothing.
LEMMA Scheduling ==
  ASSUME ConnectionInv, ScheduleReconnect
  PROVE  /\ attempts' \in 0..MaxAttempts /\ tries' = attempts'
         /\ timer' \in BOOLEAN
  <1>1. CASE shuttingDown \/ timer \/ attempts >= MaxAttempts
    BY <1>1 DEF ScheduleReconnect, ConnectionInv, FlagsOK
  <1>2. CASE ~(shuttingDown \/ timer \/ attempts >= MaxAttempts)
    <2>1. timer' = TRUE /\ attempts' = attempts + 1 /\ tries' = tries + 1
      BY <1>2 DEF ScheduleReconnect
    <2>2. timer' \in BOOLEAN
      BY <2>1, Zenon
    <2> QED
      BY <1>2, <2>1, <2>2, ConnectionAssumption DEF ConnectionInv
  <1> QED
    BY <1>1, <1>2

\* The flags stay Boolean.
LEMMA FlagsNext == ConnectionInv /\ [Next]_vars => FlagsOK'
<1> SUFFICES ASSUME ConnectionInv, [Next]_vars PROVE FlagsOK'
  OBVIOUS
<1>0. FlagsOK
  BY DEF ConnectionInv
<1>1. CASE UNCHANGED <<connected, shuttingDown, timer, stable>>
  BY <1>0, <1>1 DEF FlagsOK
<1>2. CASE TimerFires
  BY <1>0, <1>2, Zenon DEF TimerFires, FlagsOK
<1>3. ASSUME NEW c \in Callers, ConnectFails(c) PROVE FlagsOK'
  <2>1. timer' \in BOOLEAN
    BY <1>0, <1>3, Scheduling DEF ConnectFails, FlagsOK
  <2> QED
    BY <1>0, <1>3, <2>1 DEF ConnectFails, FlagsOK
<1>4. CASE Opened
  BY <1>0, <1>4, Zenon DEF Opened, FlagsOK
<1>5. ASSUME NEW s \in SocketStates, NEW r \in Reasons, Closed(s, r) PROVE FlagsOK'
  <2>1. timer' \in BOOLEAN
    BY <1>0, <1>5, Scheduling DEF Closed, FlagsOK
  <2>2. connected' \in BOOLEAN /\ stable' \in BOOLEAN
    BY <1>5, Zenon DEF Closed
  <2> QED
    BY <1>0, <1>5, <2>1, <2>2 DEF Closed, FlagsOK
<1>6. CASE Stabilised
  BY <1>0, <1>6, Zenon DEF Stabilised, FlagsOK
<1>7. CASE Teardown
  BY <1>0, <1>7, Zenon DEF Teardown, FlagsOK
<1>8. CASE \E c \in Callers : SocketMade(c)
  BY <1>1, <1>8 DEF SocketMade
<1>9. CASE Outgoing \/ UNCHANGED vars \/ \E m \in Messages : Deliver(m)
  BY <1>1, <1>9 DEF Outgoing, SendEnds, FlushEnds, Deliver, vars
<1> QED
  BY <1>2, <1>3, <1>4, <1>5, <1>6, <1>7, <1>8, <1>9
  DEF Next, Connecting, SocketSettles, SocketStates

\* setup() starts with one connectSocket() under way and a full budget.
LEMMA ConnectionInit == Init => ConnectionInv
<1> SUFFICES ASSUME Init PROVE ConnectionInv
  OBVIOUS
<1>1. FlagsOK
  BY Zenon DEF Init, FlagsOK
<1> QED
  BY <1>1, ConnectionAssumption DEF Init, ConnectionInv, OneConnection, Callers, SocketStates

\* Every step keeps the connection's invariant.
LEMMA ConnectionNext == ConnectionInv /\ [Next]_vars => ConnectionInv'
<1> SUFFICES ASSUME ConnectionInv, [Next]_vars PROVE ConnectionInv'
  OBVIOUS
<1>0. FlagsOK'
  BY FlagsNext
<1> USE <1>0, ConnectionAssumption DEF ConnectionInv, OneConnection, Callers, SocketStates
<1>1. CASE TimerFires
  BY <1>1 DEF TimerFires
<1>2. ASSUME NEW c \in Callers, SocketMade(c) PROVE ConnectionInv'
  BY <1>2 DEF SocketMade
<1>3. ASSUME NEW c \in Callers, ConnectFails(c) PROVE ConnectionInv'
  <2>1. CASE c = "setup"
    BY <1>3, <2>1 DEF ConnectFails
  <2>2. CASE c # "setup"
    BY <1>3, <2>2, Scheduling DEF ConnectFails
  <2> QED
    BY <2>1, <2>2
<1>4. CASE Opened
  BY <1>4 DEF Opened
<1>5. ASSUME NEW s \in SocketStates, NEW r \in Reasons, Closed(s, r) PROVE ConnectionInv'
  <2>1. CASE ~shuttingDown /\ r # "loggedOut"
    BY <1>5, <2>1, Scheduling DEF Closed
  <2>2. CASE ~(~shuttingDown /\ r # "loggedOut")
    BY <1>5, <2>2 DEF Closed
  <2> QED
    BY <2>1, <2>2
<1>6. CASE Stabilised
  BY <1>6 DEF Stabilised
<1>7. CASE Teardown
  BY <1>7 DEF Teardown
<1>8. CASE Outgoing \/ UNCHANGED vars \/ \E m \in Messages : Deliver(m)
  <2>1. UNCHANGED <<connecting, sock, timer, stable, attempts, firstOpen, auth, tries, opens>>
    BY <1>8 DEF Outgoing, SendEnds, FlushEnds, Deliver, vars
  <2> QED
    BY <2>1
<1> QED
  BY <1>1, <1>2, <1>3, <1>4, <1>5, <1>6, <1>7, <1>8 DEF Next, Connecting, SocketSettles

\* The connection's invariant holds throughout.
LEMMA ConnectionInvariant == Spec => []ConnectionInv
<1> QED
  BY ConnectionInit, ConnectionNext, PTL DEF Spec

\* reconnectTimer, connectSocket() and the socket exclude each other.
THEOREM OneAtATime == Spec => []OneConnection
<1>1. ConnectionInv => OneConnection
  BY DEF ConnectionInv
<1> QED
  BY ConnectionInvariant, <1>1, PTL

\* ReconnectBudget caps the reconnects between two connections that held.
THEOREM Bounded == Spec => []ReconnectsBounded
<1>1. ConnectionInv => ReconnectsBounded
  BY ConnectionAssumption DEF ConnectionInv, ReconnectsBounded
<1> QED
  BY ConnectionInvariant, <1>1, PTL

-----------------------------------------------------------------------------
(* What KeepsReconnecting rests on: a disconnected adapter is on its way.   *)

\* Something is under way that ends in a connection, or in another attempt.
UnderWay == connecting # {} \/ sock # {} \/ timer

\* The adapter stopped for good: it was torn down or logged out, its budget is
\* used up, or setup() failed.
GaveUp ==
  shuttingDown \/ auth = "cleared" \/ attempts = MaxAttempts \/ firstOpen = "rejected"

NeverStranded ==
  /\ connected => "open" \in sock
  /\ UnderWay \/ GaveUp

\* Scheduling a reconnect leaves one under way, unless the adapter gave up.
LEMMA SchedulingGoesOn ==
  ASSUME ConnectionInv, ScheduleReconnect
  PROVE  timer' \/ shuttingDown \/ attempts' = MaxAttempts
BY ConnectionAssumption DEF ScheduleReconnect, ConnectionInv

\* No step strands the adapter.
LEMMA StrandedNext ==
  ASSUME ConnectionInv, NeverStranded, [Next]_vars
  PROVE  NeverStranded'
<1> USE DEF NeverStranded, UnderWay, GaveUp
<1>1. CASE TimerFires
  BY <1>1 DEF TimerFires
<1>2. ASSUME NEW c \in Callers, SocketMade(c) PROVE NeverStranded'
  BY <1>2 DEF SocketMade
<1>3. ASSUME NEW c \in Callers, ConnectFails(c) PROVE NeverStranded'
  <2>1. sock = {}
    BY <1>3 DEF ConnectFails, ConnectionInv, OneConnection
  <2>2. CASE c = "setup"
    BY <1>3, <2>1, <2>2 DEF ConnectFails
  <2>3. CASE c # "setup"
    BY <1>3, <2>1, <2>3, SchedulingGoesOn DEF ConnectFails
  <2> QED
    BY <2>2, <2>3
<1>4. CASE Opened
  BY <1>4 DEF Opened
<1>5. ASSUME NEW s, NEW r \in Reasons, Closed(s, r) PROVE NeverStranded'
  <2>1. connected' = FALSE
    BY <1>5 DEF Closed
  <2>2. CASE ~shuttingDown /\ r # "loggedOut"
    BY <1>5, <2>1, <2>2, SchedulingGoesOn DEF Closed
  <2>3. CASE shuttingDown \/ r = "loggedOut"
    BY <1>5, <2>1, <2>3 DEF Closed
  <2> QED
    BY <2>2, <2>3
<1>6. CASE Stabilised
  BY <1>6 DEF Stabilised, ConnectionInv
<1>7. CASE Teardown
  BY <1>7 DEF Teardown
<1>8. CASE Outgoing \/ UNCHANGED vars \/ \E m \in Messages : Deliver(m)
  <2>1. UNCHANGED <<connected, shuttingDown, connecting, sock, timer, attempts, firstOpen, auth>>
    BY <1>8 DEF Outgoing, SendEnds, FlushEnds, Deliver, vars
  <2> QED
    BY <2>1
<1> QED
  BY <1>1, <1>2, <1>3, <1>4, <1>5, <1>6, <1>7, <1>8 DEF Next, Connecting, SocketSettles

\* However its sockets open, fail and close, the adapter never stops between two
\* attempts: without a socket, a connectSocket() or a reconnectTimer it was torn
\* down, logged out or out of budget, or setup() had failed.
THEOREM StaysUnderWay == Spec => []NeverStranded
<1>1. Init => NeverStranded
  BY DEF Init, NeverStranded, UnderWay
<1> QED
  BY <1>1, StrandedNext, ConnectionInvariant, PTL DEF Spec

-----------------------------------------------------------------------------
\* A message is where deliver() put it: given to a socket, or queued.
Kept(m) == handed[m] > 0 \/ \E i \in DOMAIN queue : queue[i] = m

\* Appending to the queue keeps what is in it, and adds the message.
LEMMA Queueing ==
  ASSUME OutgoingOK, NEW m \in Messages, Queued(m)
  PROVE  /\ queue' \in Seq(Messages)
         /\ \E i \in DOMAIN queue' : queue'[i] = m
         /\ \A n : (\E i \in DOMAIN queue : queue[i] = n)
                   => \E i \in DOMAIN queue' : queue'[i] = n
  <1>1. queue \in Seq(Messages) /\ queue' = Append(queue, m)
    BY DEF OutgoingOK, Queued
  <1>2. queue' \in Seq(Messages) /\ Len(queue') = Len(queue) + 1
    BY <1>1
  <1>3. queue'[Len(queue) + 1] = m /\ \A i \in 1..Len(queue) : queue'[i] = queue[i]
    BY <1>1
  <1>4. Len(queue) \in Nat /\ DOMAIN queue = 1..Len(queue) /\ DOMAIN queue' = 1..Len(queue')
    BY <1>1, <1>2
  <1> QED
    BY <1>2, <1>3, <1>4

\* The flush takes a message out of the queue by giving it to the socket.
LEMMA Flushing ==
  ASSUME OutgoingOK, FlushNext
  PROVE  /\ queue' \in Seq(Messages) /\ flushing' \subseteq Messages
         /\ handed' \in [Messages -> Nat]
         /\ \A m \in Messages : Kept(m) => Kept(m)'
  <1>1. CASE queue = <<>>
    BY <1>1 DEF FlushNext, OutgoingOK, Kept
  <1>2. CASE queue # <<>>
    <2>1. /\ queue \in Seq(Messages) /\ handed \in [Messages -> Nat]
          /\ flushing' = {Head(queue)} /\ queue' = Tail(queue)
          /\ handed' = [handed EXCEPT ![Head(queue)] = @ + 1]
      BY <1>2 DEF FlushNext, OutgoingOK
    <2>2. /\ Head(queue) \in Messages /\ Head(queue) = queue[1]
          /\ queue' \in Seq(Messages) /\ Len(queue) \in Nat /\ Len(queue') = Len(queue) - 1
          /\ \A i \in 1..Len(queue') : queue'[i] = queue[i + 1]
      BY <1>2, <2>1
    <2>3. handed' \in [Messages -> Nat] /\ handed'[Head(queue)] > 0
      BY <2>1, <2>2
    <2>4. ASSUME NEW m \in Messages, Kept(m), m # Head(queue) PROVE Kept(m)'
      <3>1. CASE handed[m] > 0
        BY <2>1, <2>4, <3>1 DEF Kept
      <3>2. CASE \E i \in DOMAIN queue : queue[i] = m
        <4>1. PICK i \in 1..Len(queue) : queue[i] = m
          BY <2>1, <3>2
        <4>2. i - 1 \in 1..Len(queue') /\ queue'[i - 1] = m
          BY <2>2, <2>4, <4>1
        <4>3. DOMAIN queue' = 1..Len(queue')
          BY <2>2
        <4> QED
          BY <4>2, <4>3 DEF Kept
      <3> QED
        BY <2>4, <3>1, <3>2 DEF Kept
    <2>5. \A m \in Messages : m = Head(queue) => Kept(m)'
      BY <2>3 DEF Kept
    <2> QED
      BY <2>1, <2>2, <2>3, <2>4, <2>5
  <1> QED
    BY <1>1, <1>2

\* Every step keeps the queue's invariant.
LEMMA QueueNext == QueueInv /\ [Next]_vars => QueueInv'
<1> SUFFICES ASSUME QueueInv, [Next]_vars PROVE QueueInv'
  OBVIOUS
<1>0. OutgoingOK /\ \A m \in accepted : Kept(m)
  BY DEF QueueInv, NothingDroppedUnsent, Kept
<1>g. OutgoingOK' /\ (\A m \in accepted' : Kept(m)') => QueueInv'
  BY DEF QueueInv, NothingDroppedUnsent, Kept
<1>1. CASE UNCHANGED outgoing
  BY <1>0, <1>1, <1>g DEF outgoing, OutgoingOK, Kept
<1>2. CASE Opened
  <2>1. CASE FlushNext
    BY <1>0, <1>2, <2>1, <1>g, Flushing DEF Opened, OutgoingOK
  <2>2. CASE UNCHANGED <<queue, flushing, handed>>
    BY <1>0, <1>2, <2>2, <1>g DEF Opened, OutgoingOK, Kept
  <2> QED
    BY <1>2, <2>1, <2>2 DEF Opened
<1>3. ASSUME NEW m \in Messages, Deliver(m) PROVE QueueInv'
  <2>1. CASE connected
    <3>1. /\ accepted' = accepted \union {m} /\ sending' = sending \union {m}
          /\ handed' = [handed EXCEPT ![m] = @ + 1]
          /\ UNCHANGED <<queue, flushing, confirmed>>
      BY <1>3, <2>1 DEF Deliver
    <3> QED
      BY <1>0, <1>g, <3>1 DEF OutgoingOK, Kept
  <2>2. CASE ~connected
    <3>1. /\ accepted' = accepted \union {m} /\ Queued(m)
          /\ UNCHANGED <<sending, handed, flushing, confirmed>>
      BY <1>3, <2>2 DEF Deliver
    <3> QED
      BY <1>0, <1>g, <3>1, Queueing DEF OutgoingOK, Kept
  <2> QED
    BY <2>1, <2>2
<1>4. ASSUME NEW m \in Messages, SendEnds(m) PROVE QueueInv'
  <2>1. CASE UNCHANGED queue
    BY <1>0, <1>4, <1>g, <2>1 DEF SendEnds, OutgoingOK, Kept
  <2>2. CASE Queued(m)
    BY <1>0, <1>4, <1>g, <2>2, Queueing DEF SendEnds, OutgoingOK, Kept
  <2> QED
    BY <1>4, <2>1, <2>2 DEF SendEnds
<1>5. ASSUME NEW m \in Messages, FlushEnds(m) PROVE QueueInv'
  <2>1. CASE FlushNext
    BY <1>0, <1>5, <1>g, <2>1, Flushing DEF FlushEnds, OutgoingOK
  <2>2. CASE flushing' = {} /\ UNCHANGED <<queue, handed, confirmed>>
    BY <1>0, <1>5, <1>g, <2>2 DEF FlushEnds, OutgoingOK, Kept
  <2> QED
    BY <1>5, <2>1, <2>2 DEF FlushEnds
<1>6. CASE TimerFires \/ Stabilised \/ Teardown \/ UNCHANGED vars
  BY <1>1, <1>6 DEF TimerFires, Stabilised, Teardown, vars
<1>7. ASSUME NEW c \in Callers, SocketMade(c) \/ ConnectFails(c) PROVE QueueInv'
  BY <1>1, <1>7 DEF SocketMade, ConnectFails
<1>8. ASSUME NEW s, NEW r, Closed(s, r) PROVE QueueInv'
  BY <1>1, <1>8 DEF Closed
<1> QED
  BY <1>2, <1>3, <1>4, <1>5, <1>6, <1>7, <1>8 DEF Next, Connecting, SocketSettles, Outgoing

\* sendRawMessage and flushOutgoingQueue lose no message they did not give to
\* the socket first.
THEOREM NothingDropped == Spec => []NothingDroppedUnsent
<1>1. Init => QueueInv
  BY DEF Init, QueueInv, OutgoingOK, NothingDroppedUnsent
<1>2. QueueInv => NothingDroppedUnsent
  BY DEF QueueInv
<1> QED
  BY QueueNext, <1>1, <1>2, PTL DEF Spec

\* Every variable keeps its type.
THEOREM TypeCorrect == Spec => []TypeOK
<1>1. ConnectionInv /\ QueueInv => TypeOK
  BY ConnectionAssumption DEF ConnectionInv, QueueInv, TypeOK
<1>2. Init => QueueInv
  BY DEF Init, QueueInv, OutgoingOK, NothingDroppedUnsent
<1> QED
  BY ConnectionInvariant, QueueNext, <1>1, <1>2, PTL DEF Spec
-----------------------------------------------------------------------------
(* A message is in one place: nothing is queued twice, or queued while it   *)
(* is being sent, or once a socket took it.                                 *)

Distinct == \A i, j \in DOMAIN queue : queue[i] = queue[j] => i = j

OnePlace(m) ==
  /\ InQueue(m) => m \in accepted \ (flushing \union sending \union confirmed)
  /\ m \in flushing => m \in accepted \ (sending \union confirmed)
  /\ m \in sending => m \in accepted \ confirmed
  /\ m \in confirmed => m \in accepted

PlaceInv ==
  /\ Distinct
  /\ \A m \in Messages : OnePlace(m)
  /\ \A m, n \in flushing : m = n

\* A message queued that was in no queue is there once.
LEMMA QueuedOnce ==
  ASSUME OutgoingOK, Distinct, NEW m \in Messages, ~InQueue(m), Queued(m)
  PROVE  Distinct' /\ \A n : InQueue(n)' <=> (InQueue(n) \/ n = m)
<1>1. queue \in Seq(Messages) /\ queue' = Append(queue, m)
  BY DEF OutgoingOK, Queued
<1>2. /\ Len(queue) \in Nat
      /\ DOMAIN queue = 1..Len(queue) /\ DOMAIN queue' = 1..(Len(queue) + 1)
      /\ queue'[Len(queue) + 1] = m /\ \A i \in 1..Len(queue) : queue'[i] = queue[i]
  BY <1>1
<1> HIDE <1>1
<1>3. \A i \in DOMAIN queue' : i \in DOMAIN queue \/ i = Len(queue) + 1
  BY <1>2
<1> QED
  BY <1>2, <1>3 DEF Distinct, InQueue

\* The flush takes the head, which is in the queue no more.
LEMMA FlushTakes ==
  ASSUME OutgoingOK, Distinct, FlushNext, queue # <<>>
  PROVE  /\ Head(queue) \in Messages /\ InQueue(Head(queue))
         /\ flushing' = {Head(queue)}
         /\ handed' = [handed EXCEPT ![Head(queue)] = @ + 1]
         /\ Distinct' /\ \A n : InQueue(n)' <=> (InQueue(n) /\ n # Head(queue))
<1>1. queue \in Seq(Messages) /\ queue' = Tail(queue)
  BY DEF FlushNext, OutgoingOK
<1>2. /\ Len(queue) \in Nat /\ Len(queue) > 0
      /\ DOMAIN queue = 1..Len(queue) /\ DOMAIN queue' = 1..(Len(queue) - 1)
      /\ Head(queue) = queue[1] /\ \A i \in 1..(Len(queue) - 1) : queue'[i] = queue[i + 1]
  BY <1>1
<1> HIDE <1>1
<1>3. Distinct'
  BY <1>2 DEF Distinct
<1>4. ASSUME NEW n PROVE InQueue(n)' <=> (InQueue(n) /\ n # Head(queue))
  <2>1. ASSUME InQueue(n)' PROVE InQueue(n) /\ n # Head(queue)
    <3>1. PICK i \in DOMAIN queue' : queue'[i] = n
      BY <2>1 DEF InQueue
    <3>2. i + 1 \in DOMAIN queue /\ queue[i + 1] = n /\ i + 1 # 1 /\ 1 \in DOMAIN queue
      BY <1>2, <3>1
    <3> QED
      BY <1>2, <3>2 DEF InQueue, Distinct
  <2>2. ASSUME InQueue(n), n # Head(queue) PROVE InQueue(n)'
    <3>1. PICK i \in DOMAIN queue : queue[i] = n
      BY <2>2 DEF InQueue
    <3>2. i - 1 \in DOMAIN queue' /\ queue'[i - 1] = n
      BY <1>2, <2>2, <3>1
    <3> QED
      BY <3>2 DEF InQueue
  <2> QED
    BY <2>1, <2>2
<1>5. InQueue(Head(queue)) /\ Head(queue) \in Messages
  BY <1>1, <1>2 DEF InQueue
<1> QED
  BY <1>3, <1>4, <1>5 DEF FlushNext

\* The flush starts, or goes on once its message is confirmed.
LEMMA FlushPlace ==
  ASSUME OutgoingOK, PlaceInv, FlushNext, UNCHANGED <<sending, accepted>>,
         confirmed' = confirmed \union flushing
  PROVE  PlaceInv'
<1>1. CASE queue = <<>>
  BY <1>1 DEF FlushNext, PlaceInv, OnePlace, InQueue, Distinct
<1>2. CASE queue # <<>>
  BY <1>2, FlushTakes DEF PlaceInv, OnePlace
<1> QED
  BY <1>1, <1>2

\* Every step leaves every message in one place.
LEMMA PlaceNext ==
  ASSUME OutgoingOK, PlaceInv, [Next]_vars
  PROVE  PlaceInv'
<1>1. CASE UNCHANGED outgoing
  BY <1>1 DEF outgoing, PlaceInv, OnePlace, InQueue, Distinct
<1>2. CASE Opened
  <2>1. CASE flushing = {}
    BY <1>2, <2>1, FlushPlace DEF Opened
  <2>2. CASE flushing # {}
    BY <1>1, <1>2, <2>2 DEF Opened, outgoing
  <2> QED
    BY <2>1, <2>2
<1>3. ASSUME NEW m \in Messages, Deliver(m) PROVE PlaceInv'
  <2>1. CASE connected
    <3>1. /\ m \notin accepted /\ accepted' = accepted \union {m}
          /\ sending' = sending \union {m} /\ UNCHANGED <<queue, flushing, confirmed>>
      BY <1>3, <2>1 DEF Deliver
    <3> QED
      BY <3>1 DEF PlaceInv, OnePlace, InQueue, Distinct
  <2>2. CASE ~connected
    <3>1. /\ m \notin accepted /\ accepted' = accepted \union {m} /\ Queued(m)
          /\ UNCHANGED <<sending, flushing, confirmed>>
      BY <1>3, <2>2 DEF Deliver
    <3>2. ~InQueue(m)
      BY <3>1 DEF PlaceInv, OnePlace
    <3> QED
      BY <3>1, <3>2, QueuedOnce DEF PlaceInv, OnePlace
  <2> QED
    BY <2>1, <2>2
<1>4. ASSUME NEW m \in Messages, SendEnds(m) PROVE PlaceInv'
  <2>1. m \in sending /\ sending' = sending \ {m} /\ UNCHANGED <<flushing, accepted>>
    BY <1>4 DEF SendEnds
  <2>2. CASE confirmed' = confirmed \union {m} /\ UNCHANGED queue
    BY <2>1, <2>2 DEF PlaceInv, OnePlace, InQueue, Distinct
  <2>3. CASE Queued(m) /\ UNCHANGED confirmed
    <3>1. ~InQueue(m)
      BY <2>1 DEF PlaceInv, OnePlace
    <3> QED
      BY <2>1, <2>3, <3>1, QueuedOnce DEF PlaceInv, OnePlace
  <2> QED
    BY <1>4, <2>2, <2>3 DEF SendEnds
<1>5. ASSUME NEW m \in Messages, FlushEnds(m) PROVE PlaceInv'
  <2>1. m \in flushing /\ flushing = {m} /\ UNCHANGED <<sending, accepted>>
    BY <1>5 DEF FlushEnds, PlaceInv
  <2>2. CASE confirmed' = confirmed \union {m} /\ FlushNext
    BY <2>1, <2>2, FlushPlace
  <2>3. CASE flushing' = {} /\ UNCHANGED <<queue, handed, confirmed>>
    BY <2>1, <2>3 DEF PlaceInv, OnePlace, InQueue, Distinct
  <2> QED
    BY <1>5, <2>2, <2>3 DEF FlushEnds
<1>6. CASE TimerFires \/ Stabilised \/ Teardown \/ UNCHANGED vars
  BY <1>1, <1>6 DEF TimerFires, Stabilised, Teardown, vars
<1>7. ASSUME NEW c \in Callers, SocketMade(c) \/ ConnectFails(c) PROVE PlaceInv'
  BY <1>1, <1>7 DEF SocketMade, ConnectFails
<1>8. ASSUME NEW s, NEW r, Closed(s, r) PROVE PlaceInv'
  BY <1>1, <1>8 DEF Closed
<1> QED
  BY <1>2, <1>3, <1>4, <1>5, <1>6, <1>7, <1>8 DEF Next, Connecting, SocketSettles, Outgoing

\* Whatever order sends, rejections, reconnects and flushes come in, a message
\* is in one place: queued once, in the flush, being sent, or accepted.
THEOREM InOnePlace == Spec => []PlaceInv
<1>1. Init => PlaceInv
  BY DEF Init, PlaceInv, OnePlace, InQueue, Distinct
<1>2. TypeOK => OutgoingOK
  BY DEF TypeOK
<1> QED
  BY <1>1, <1>2, PlaceNext, TypeCorrect, PTL DEF Spec

-----------------------------------------------------------------------------
(* The adapter implements the send queue.                                   *)

Moves(m) ==
  Abstract!Accept(m) \/ Abstract!Flush(m) \/ Abstract!Take(m)
    \/ Abstract!Refuse(m) \/ Abstract!Rest(m)

\* A message that is where it was, and was given to no socket, is at rest.
LEMMA RestIs ==
  ASSUME NEW m \in Messages,
         m \in confirmed' <=> m \in confirmed, m \in sending' <=> m \in sending,
         m \in flushing' <=> m \in flushing, InQueue(m)' <=> InQueue(m),
         m \in accepted' <=> m \in accepted, handed'[m] = handed[m]
  PROVE  Moves(m)
BY DEF Moves, Abstract!Rest, PlaceOf

\* The flush moves its message on, and takes the head of the queue.
LEMMA FlushMoves ==
  ASSUME OutgoingOK, PlaceInv, FlushNext, UNCHANGED <<sending, accepted>>,
         confirmed' = confirmed \union flushing, NEW m \in Messages
  PROVE  Moves(m)
<1>1. CASE queue = <<>>
  <2>1. flushing' = {} /\ UNCHANGED <<queue, handed>>
    BY <1>1 DEF FlushNext
  <2>2. InQueue(m)' <=> InQueue(m)
    BY <2>1 DEF InQueue
  <2>3. CASE m \in flushing
    <3>1. PlaceOf[m] = "flushing" /\ PlaceOf'[m] = "taken"
      BY <2>3 DEF PlaceOf, PlaceInv, OnePlace
    <3>2. handed'[m] = handed[m] + 0
      BY <2>1 DEF OutgoingOK
    <3> QED
      BY <3>1, <3>2 DEF Moves, Abstract!Take, Abstract!Goes
  <2>4. CASE m \notin flushing
    BY <2>1, <2>2, <2>4, RestIs
  <2> QED
    BY <2>3, <2>4
<1>2. CASE queue # <<>>
  <2> DEFINE x == Head(queue)
  <2>1. /\ x \in Messages /\ InQueue(x) /\ flushing' = {x}
        /\ handed' = [handed EXCEPT ![x] = @ + 1]
        /\ InQueue(m)' <=> (InQueue(m) /\ m # x)
    BY <1>2, FlushTakes DEF PlaceInv
  <2> HIDE DEF x
  <2>2. x \notin flushing \union sending \union confirmed
    BY <2>1 DEF PlaceInv, OnePlace
  <2>3. CASE m \in flushing
    <3>1. PlaceOf[m] = "flushing" /\ PlaceOf'[m] = "taken"
      BY <2>3 DEF PlaceOf, PlaceInv, OnePlace
    <3>2. handed'[m] = handed[m] + 0
      BY <2>1, <2>2, <2>3 DEF OutgoingOK
    <3> QED
      BY <3>1, <3>2 DEF Moves, Abstract!Take, Abstract!Goes
  <2>4. CASE m = x
    <3>1. PlaceOf[m] = "queued" /\ PlaceOf'[m] = "flushing"
      BY <2>1, <2>2, <2>4 DEF PlaceOf
    <3>2. handed'[m] = handed[m] + 1
      BY <2>1, <2>4 DEF OutgoingOK
    <3> QED
      BY <3>1, <3>2 DEF Moves, Abstract!Flush, Abstract!Goes
  <2>5. CASE m \notin flushing /\ m # x
    <3>1. handed'[m] = handed[m]
      BY <2>1, <2>5 DEF OutgoingOK
    <3> QED
      BY <2>1, <2>5, <3>1, RestIs
  <2> QED
    BY <2>3, <2>4, <2>5
<1> QED
  BY <1>1, <1>2

\* deliver() puts a new message in the queue, or gives it to the socket.
LEMMA DeliverMoves ==
  ASSUME OutgoingOK, PlaceInv, NEW n \in Messages, Deliver(n), NEW m \in Messages
  PROVE  Moves(m)
<1>1. /\ n \notin accepted /\ accepted' = accepted \union {n}
      /\ UNCHANGED <<flushing, confirmed>>
  BY DEF Deliver
<1>2. n \notin flushing \union sending \union confirmed /\ ~InQueue(n)
  BY <1>1 DEF PlaceInv, OnePlace
<1>3. PlaceOf[n] = "new"
  BY <1>1, <1>2 DEF PlaceOf
<1>4. CASE connected
  <2>1. /\ sending' = sending \union {n} /\ UNCHANGED queue
        /\ handed' = [handed EXCEPT ![n] = @ + 1]
    BY <1>4 DEF Deliver
  <2>2. InQueue(m)' <=> InQueue(m)
    BY <2>1 DEF InQueue
  <2>3. CASE m = n
    <3>1. PlaceOf'[m] = "sending" /\ handed'[m] = handed[m] + 1
      BY <1>1, <1>2, <2>1, <2>3 DEF PlaceOf, OutgoingOK
    <3> QED
      BY <1>3, <2>3, <3>1 DEF Moves, Abstract!Accept, Abstract!Goes
  <2>4. CASE m # n
    <3>1. handed'[m] = handed[m]
      BY <2>1, <2>4 DEF OutgoingOK
    <3> QED
      BY <1>1, <2>1, <2>2, <2>4, <3>1, RestIs
  <2> QED
    BY <2>3, <2>4
<1>5. CASE ~connected
  <2>1. Queued(n) /\ UNCHANGED <<sending, handed>>
    BY <1>5 DEF Deliver
  <2>2. InQueue(m)' <=> (InQueue(m) \/ m = n)
    BY <1>2, <2>1, QueuedOnce DEF PlaceInv
  <2>3. CASE m = n
    <3>1. PlaceOf'[m] = "queued" /\ handed'[m] = handed[m] + 0
      BY <1>1, <1>2, <2>1, <2>2, <2>3 DEF PlaceOf, OutgoingOK
    <3> QED
      BY <1>3, <2>3, <3>1 DEF Moves, Abstract!Accept, Abstract!Goes
  <2>4. CASE m # n
    BY <1>1, <2>1, <2>2, <2>4, RestIs
  <2> QED
    BY <2>3, <2>4
<1> QED
  BY <1>4, <1>5

\* A direct send ends with its message taken, or queued again.
LEMMA SendMoves ==
  ASSUME OutgoingOK, PlaceInv, NEW n \in Messages, SendEnds(n), NEW m \in Messages
  PROVE  Moves(m)
<1>1. /\ n \in sending /\ sending' = sending \ {n}
      /\ UNCHANGED <<flushing, accepted, handed>>
  BY DEF SendEnds
<1>2. n \notin flushing \union confirmed /\ ~InQueue(n)
  BY <1>1 DEF PlaceInv, OnePlace
<1>3. PlaceOf[n] = "sending" /\ handed'[n] = handed[n] + 0
  BY <1>1, <1>2 DEF PlaceOf, OutgoingOK
<1>4. CASE confirmed' = confirmed \union {n} /\ UNCHANGED queue
  <2>1. InQueue(m)' <=> InQueue(m)
    BY <1>4 DEF InQueue
  <2>2. CASE m = n
    <3>1. PlaceOf'[m] = "taken"
      BY <1>4, <2>2 DEF PlaceOf
    <3> QED
      BY <1>3, <2>2, <3>1 DEF Moves, Abstract!Take, Abstract!Goes
  <2>3. CASE m # n
    BY <1>1, <1>4, <2>1, <2>3, RestIs
  <2> QED
    BY <2>2, <2>3
<1>5. CASE Queued(n) /\ UNCHANGED confirmed
  <2>1. InQueue(m)' <=> (InQueue(m) \/ m = n)
    BY <1>2, <1>5, QueuedOnce DEF PlaceInv
  <2>2. CASE m = n
    <3>1. PlaceOf'[m] = "queued"
      BY <1>1, <1>2, <1>5, <2>1, <2>2 DEF PlaceOf
    <3> QED
      BY <1>3, <2>2, <3>1 DEF Moves, Abstract!Refuse, Abstract!Goes
  <2>3. CASE m # n
    BY <1>1, <1>5, <2>1, <2>3, RestIs
  <2> QED
    BY <2>2, <2>3
<1> QED
  BY <1>4, <1>5 DEF SendEnds

\* A flush ends with its message taken, and the next one under way, or lost.
LEMMA FlushEndMoves ==
  ASSUME OutgoingOK, PlaceInv, NEW n \in Messages, FlushEnds(n), NEW m \in Messages
  PROVE  Moves(m)
<1>1. n \in flushing /\ flushing = {n} /\ UNCHANGED <<sending, accepted>>
  BY DEF FlushEnds, PlaceInv
<1>2. CASE confirmed' = confirmed \union {n} /\ FlushNext
  BY <1>1, <1>2, FlushMoves
<1>3. CASE flushing' = {} /\ UNCHANGED <<queue, handed, confirmed>>
  <2>1. InQueue(m)' <=> InQueue(m)
    BY <1>3 DEF InQueue
  <2>2. CASE m = n
    <3>1. m \in accepted /\ m \notin sending \union confirmed /\ ~InQueue(m)
      BY <1>1, <2>2 DEF PlaceInv, OnePlace
    <3>2. /\ PlaceOf[m] = "flushing" /\ PlaceOf'[m] = "lost"
          /\ handed'[m] = handed[m] + 0
      BY <1>1, <1>3, <2>1, <2>2, <3>1 DEF PlaceOf, OutgoingOK
    <3> QED
      BY <3>2 DEF Moves, Abstract!Refuse, Abstract!Goes
  <2>3. CASE m # n
    BY <1>1, <1>3, <2>1, <2>3, RestIs
  <2> QED
    BY <2>2, <2>3
<1> QED
  BY <1>2, <1>3 DEF FlushEnds

\* Every step of the adapter moves every message as the send queue allows.
LEMMA MessageMoves ==
  ASSUME OutgoingOK, PlaceInv, [Next]_vars, NEW m \in Messages
  PROVE  Moves(m)
<1>1. CASE UNCHANGED outgoing
  BY <1>1, RestIs DEF outgoing, InQueue
<1>2. CASE Opened
  <2>1. CASE flushing = {}
    BY <1>2, <2>1, FlushMoves DEF Opened
  <2>2. CASE flushing # {}
    BY <1>1, <1>2, <2>2 DEF Opened, outgoing
  <2> QED
    BY <2>1, <2>2
<1>3. CASE TimerFires \/ Stabilised \/ Teardown \/ UNCHANGED vars
  BY <1>1, <1>3 DEF TimerFires, Stabilised, Teardown, vars
<1>4. ASSUME NEW c \in Callers, SocketMade(c) \/ ConnectFails(c)
      PROVE  UNCHANGED outgoing
  BY <1>4 DEF SocketMade, ConnectFails
<1>5. ASSUME NEW s, NEW r, Closed(s, r) PROVE UNCHANGED outgoing
  BY <1>5 DEF Closed
<1> QED
  BY <1>1, <1>2, <1>3, <1>4, <1>5, DeliverMoves, SendMoves, FlushEndMoves
  DEF Next, Connecting, SocketSettles, Outgoing

\* Whatever order sends, rejections, reconnects and flushes come in, the adapter
\* is a send queue (sendRawMessage, flushOutgoingQueue).
THEOREM KeepsSendQueue == Spec => ImplementsSendQueue
<1>1. Init => Abstract!Init
  BY DEF Init, Abstract!Init, PlaceOf, InQueue
<1>2. ASSUME TypeOK, TypeOK', PlaceInv, PlaceInv', [Next]_vars
      PROVE  Abstract!Next
  <2>1. OutgoingOK
    BY <1>2 DEF TypeOK
  <2>2. \A m \in Messages : Moves(m)
    BY <1>2, <2>1, MessageMoves
  <2>3. \A m, n \in Messages :
          PlaceOf'[m] = "flushing" /\ PlaceOf'[n] = "flushing" => m = n
    BY <1>2 DEF PlaceInv, PlaceOf
  <2>4. DOMAIN PlaceOf' = Messages /\ DOMAIN handed' = Messages
    BY <1>2 DEF PlaceOf, TypeOK, OutgoingOK
  <2> QED
    BY <2>2, <2>3, <2>4 DEF Abstract!Next, Moves
<1> QED
  BY <1>1, <1>2, TypeCorrect, InOnePlace, PTL
  DEF Spec, ImplementsSendQueue, Abstract!SendQueueSpec

\* What is neither new nor queued was given to a socket, and nothing else was
\* before it was accepted.
THEOREM SentWasAsked == Spec => []Abstract!AskedFor
<1>1. Abstract!Init => Abstract!AskedFor
  BY DEF Abstract!Init, Abstract!AskedFor
<1>2. ASSUME TypeOK, Abstract!AskedFor, [Abstract!Next]_(Abstract!queueVars)
      PROVE  Abstract!AskedFor'
  <2>1. CASE UNCHANGED Abstract!queueVars
    BY <1>2, <2>1 DEF Abstract!queueVars, Abstract!AskedFor
  <2>2. CASE Abstract!Next
    <3> SUFFICES ASSUME NEW m \in Messages
                 PROVE  /\ PlaceOf'[m] \notin {"new", "queued"} => handed'[m] > 0
                        /\ PlaceOf'[m] = "new" => handed'[m] = 0
      BY DEF Abstract!AskedFor
    <3>1. handed[m] \in Nat
      BY <1>2 DEF TypeOK, OutgoingOK
    <3>2. /\ PlaceOf[m] \notin {"new", "queued"} => handed[m] > 0
          /\ PlaceOf[m] = "new" => handed[m] = 0
      BY <1>2 DEF Abstract!AskedFor
    <3>3. Moves(m)
      BY <2>2 DEF Abstract!Next, Moves
    <3> QED
      BY <3>1, <3>2, <3>3
      DEF Moves, Abstract!Accept, Abstract!Flush, Abstract!Take, Abstract!Refuse,
          Abstract!Rest, Abstract!Goes
  <2> QED
    BY <1>2, <2>1, <2>2
<1> QED
  BY <1>1, <1>2, KeepsSendQueue, TypeCorrect, PTL
  DEF ImplementsSendQueue, Abstract!SendQueueSpec

\* A message that was taken, or lost in a flush, stays so, and no socket is
\* asked to send it again.
THEOREM DoneIsDone == Spec => Abstract!DoneWith
<1>1. ASSUME [Abstract!Next]_(Abstract!queueVars)
      PROVE  [\A m \in Messages : PlaceOf[m] \in {"taken", "lost"} =>
                PlaceOf'[m] = PlaceOf[m] /\ handed'[m] = handed[m]]_(Abstract!queueVars)
  <2> SUFFICES ASSUME Abstract!Next, NEW m \in Messages, PlaceOf[m] \in {"taken", "lost"}
               PROVE  PlaceOf'[m] = PlaceOf[m] /\ handed'[m] = handed[m]
    BY <1>1
  <2>1. Moves(m)
    BY DEF Abstract!Next, Moves
  <2> QED
    BY <2>1
    DEF Moves, Abstract!Accept, Abstract!Flush, Abstract!Take, Abstract!Refuse,
        Abstract!Rest, Abstract!Goes
<1> QED
  BY <1>1, KeepsSendQueue, PTL
  DEF ImplementsSendQueue, Abstract!SendQueueSpec, Abstract!DoneWith
=============================================================================
