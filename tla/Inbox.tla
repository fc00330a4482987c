------------------------------- MODULE Inbox -------------------------------
(* What the mailbox promises of each inbound message, whoever runs it: it   *)
(* is settled once, as completed only when a runner has finished it, as     *)
(* failed only when every try was used up; and a supervised one, whose      *)
(* runners the host can stop, is not finished once it has failed.           *)
EXTENDS Naturals

CONSTANTS Messages, MaxTries

VARIABLES
  status,     \* "absent", "pending", "completed" or "failed"
  tries,      \* retries counted
  done,       \* the messages a runner has finished
  supervised  \* no runner has ever escaped the host

vars == <<status, tries, done, supervised>>

Init ==
  /\ status = [m \in Messages |-> "absent"]
  /\ tries = [m \in Messages |-> 0]
  /\ done = {}
  /\ supervised = TRUE

\* What becomes of message m: its status and tries, and whether it is done.
Becomes(m, s, n, d) ==
  status'[m] = s /\ tries'[m] = n /\ (m \in done' <=> d)

Accept(m) == status[m] = "absent" /\ Becomes(m, "pending", 0, FALSE)

\* A runner finishes it; only a runner that escaped finishes a settled one.
Finish(m) ==
  /\ status[m] = "pending" \/ (status[m] # "absent" /\ ~supervised)
  /\ Becomes(m, status[m], tries[m], TRUE)

\* The host learns that it is finished.
Complete(m) ==
  /\ status[m] = "pending" /\ m \in done
  /\ Becomes(m, "completed", tries[m], TRUE)

Retry(m) ==
  /\ status[m] = "pending" /\ m \notin done /\ tries[m] < MaxTries
  /\ Becomes(m, "pending", tries[m] + 1, FALSE)

GiveUp(m) ==
  /\ status[m] = "pending" /\ m \notin done /\ tries[m] = MaxTries
  /\ Becomes(m, "failed", tries[m], FALSE)

Rest(m) == Becomes(m, status[m], tries[m], m \in done)

\* A sweep, or a runner's turn, moves several messages at once.
Next ==
  /\ DOMAIN status' = Messages /\ DOMAIN tries' = Messages /\ done' \subseteq Messages
  /\ \A m \in Messages :
       Accept(m) \/ Finish(m) \/ Complete(m) \/ Retry(m) \/ GiveUp(m) \/ Rest(m)
  /\ supervised' => supervised

InboxSpec == Init /\ [][Next]_vars
-----------------------------------------------------------------------------
(* What follows of every message.                                           *)

\* Nothing is known of a message that has not come; a completed one was finished;
\* a failed one had all its tries, and was not finished as long as no runner
\* escaped.
Settlement ==
  \A m \in Messages :
    /\ status[m] = "absent" => m \notin done /\ tries[m] = 0
    /\ status[m] = "completed" => m \in done
    /\ status[m] = "failed" => tries[m] = MaxTries /\ (supervised => m \notin done)

\* A settled message stays as it is, a finished one finished, and no try is
\* ever uncounted or counted of a finished message.
Progress ==
  [][\A m \in Messages :
       /\ status[m] \in {"completed", "failed"} => status'[m] = status[m]
       /\ m \in done => m \in done' /\ tries'[m] = tries[m]
       /\ tries'[m] >= tries[m]]_vars
=============================================================================
