------------------------------ MODULE SendQueue ------------------------------
(* What deliver() of a connected channel promises of each message, with     *)
(* nothing of connections: it is given to a socket at once or kept until    *)
(* one is there; a send a socket rejects is kept again, and only a flush    *)
(* that is rejected loses its message; what a socket took is done with.     *)
EXTENDS Naturals

CONSTANT Messages

VARIABLES
  place, \* where each message is
  asks   \* times a socket was asked to send it

queueVars == <<place, asks>>

Init ==
  /\ place = [m \in Messages |-> "new"]
  /\ asks = [m \in Messages |-> 0]

\* Message m goes from one place to another; a socket is asked on the way in.
Goes(m, from, to) ==
  /\ place[m] = from /\ place'[m] = to
  /\ asks'[m] = asks[m] + (IF to \in {"sending", "flushing"} THEN 1 ELSE 0)

Accept(m) == Goes(m, "new", "queued") \/ Goes(m, "new", "sending")

Flush(m) == Goes(m, "queued", "flushing")

Take(m) == Goes(m, "sending", "taken") \/ Goes(m, "flushing", "taken")

Refuse(m) == Goes(m, "sending", "queued") \/ Goes(m, "flushing", "lost")

Rest(m) == place'[m] = place[m] /\ asks'[m] = asks[m]

\* A message that is taken lets the next one follow in the same step.
Next ==
  /\ DOMAIN place' = Messages /\ DOMAIN asks' = Messages
  /\ \A m \in Messages : Accept(m) \/ Flush(m) \/ Take(m) \/ Refuse(m) \/ Rest(m)
  /\ \A m, n \in Messages : place'[m] = "flushing" /\ place'[n] = "flushing" => m = n

SendQueueSpec == Init /\ [][Next]_queueVars
-----------------------------------------------------------------------------
(* What follows of every message.                                           *)

\* What is neither new nor queued was given to a socket; what is new was not.
AskedFor ==
  \A m \in Messages :
    /\ place[m] \notin {"new", "queued"} => asks[m] > 0
    /\ place[m] = "new" => asks[m] = 0

\* A message that was taken, or lost, stays so, and no socket is asked again.
DoneWith ==
  [][\A m \in Messages : place[m] \in {"taken", "lost"} =>
       place'[m] = place[m] /\ asks'[m] = asks[m]]_queueVars
=============================================================================
