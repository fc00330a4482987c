------------------------- MODULE HostDeliveryProofs -------------------------
(***************************************************************************)
(* The safety of outbound delivery, for any sessions, messages, faults and *)
(* restarts.  Everything rests on the guard of deliverSessionMessages: a   *)
(* session is drained by one chain at a time, so that what this chain has  *)
(* read of its queue stays true until it leaves.                           *)
(***************************************************************************)
EXTENDS HostDelivery, TLAPS, WellFoundedInduction

Draining(p) == at[p] \in {"draining", "sending", "arrived"}
Calling(p) == at[p] \in {"sending", "arrived"}

\* What a chain has still to deliver is unsettled and of its session.
QueueInv ==
  \A p \in Polls :
    /\ ~ Draining(p) => pending[p] = {}
    /\ Calling(p) => pending[p] # {}
    /\ \A m \in pending[p] : SessionOf[m] = session[p] /\ outcome[m] = "none"

\* The guard: a session being drained is in flight, and no other chain has it.
GuardInv ==
  /\ \A p \in Polls : at[p] # "polling" => session[p] \in inflight
  /\ \A p, q \in Polls :
       at[p] # "polling" /\ at[q] # "polling" /\ session[p] = session[q] => p = q

DeliveryInv == TypeOK /\ QueueInv /\ GuardInv
-----------------------------------------------------------------------------
\* A queue that is not empty has an earliest message.
LEMMA EarliestExists ==
  ASSUME NEW S, S \subseteq Nat, S # {}
  PROVE  Min(S) \in S
<1> DEFINE Before == {ss \in Nat \X Nat : ss[1] < ss[2]}
<1>1. IsWellFoundedOn(Before, Nat)
  BY NatLessThanWellFounded, Zenon DEF OpToRel
<1>2. PICK x \in S : \A y \in S : ~ (<<y, x>> \in Before)
  BY <1>1, WFMin, Zenon
<1>3. \A y \in S : x <= y
  <2>1. TAKE y \in S
  <2>2. <<y, x>> \in Nat \X Nat
    OBVIOUS
  <2>3. ~ (y < x)
    BY <1>2, <2>2
  <2> QED
    BY <2>3
<1> QED
  BY <1>3 DEF Min

LEMMA CurrentIsPending ==
  ASSUME TypeOK, NEW p \in Polls, pending[p] # {}
  PROVE  Current(p) \in pending[p] /\ Current(p) \in Messages
<1>1. pending[p] \subseteq Messages /\ pending[p] \subseteq Nat
  BY DeliveryAssumption DEF TypeOK
<1>2. Min(pending[p]) \in pending[p]
  BY <1>1, EarliestExists
<1> QED
  BY <1>1, <1>2 DEF Current

USE DEF Polls, Places

LEMMA InitDelivery == Init => DeliveryInv
BY DeliveryAssumption DEF Init, DeliveryInv, TypeOK, QueueInv, GuardInv, Draining, Calling

LEMMA FaultBounded == TypeOK /\ Fault => faults' \in 0..MaxFaults
BY DeliveryAssumption DEF TypeOK, Fault

LEMMA RecordedType ==
  ASSUME TypeOK, NEW p \in Polls, Recorded(p), Current(p) \in Messages
  PROVE  TypeOK'
<1> DEFINE m == Current(p)
<1>1. /\ at' = [at EXCEPT ![p] = "draining"]
      /\ pending' = [pending EXCEPT ![p] = @ \ {m}]
      /\ outcome' = IF outcome[m] = "none" THEN [outcome EXCEPT ![m] = "delivered"] ELSE outcome
      /\ seen' = [seen EXCEPT ![p] = @ \union {m}]
      /\ attempts' = [attempts EXCEPT ![m] = 0]
      /\ tries' = [tries EXCEPT ![m] = 0]
      /\ at[p] # "polling"
      /\ UNCHANGED <<due, inflight, list, session, faults, restarts, received, lost>>
  BY DEF Recorded, Done, Record, counters
<1>2. m \in Messages
  OBVIOUS
<1>3. first' \subseteq Messages
  BY <1>2 DEF Recorded, TypeOK
<1> HIDE DEF m
<1>4. /\ at' \in [Polls -> Places] /\ \A q \in Polls : at'[q] = "polling" <=> session'[q] = None
      /\ pending' \in [Polls -> SUBSET Messages] /\ seen' \in [Polls -> SUBSET Messages]
  BY <1>1, <1>2 DEF TypeOK
<1>5. /\ attempts' \in [Messages -> Nat] /\ tries' \in [Messages -> Nat]
      /\ outcome' \in [Messages -> {"none", "delivered", "failed"}]
  BY <1>1, <1>2 DEF TypeOK
<1> QED
  BY <1>1, <1>3, <1>4, <1>5 DEF TypeOK

LEMMA NextType ==
  ASSUME DeliveryInv, [Next]_vars
  PROVE  TypeOK'
<1> USE DeliveryAssumption DEF DeliveryInv, history, memory, chain, counters
<1>1. ASSUME NEW m \in Messages, FallDue(m) PROVE TypeOK'
  BY <1>1 DEF FallDue, TypeOK
<1>2. ASSUME NEW p \in Polls, Begin(p) PROVE TypeOK'
  <2>1. PICK R \in SUBSET Sessions : list' = [list EXCEPT ![p] = R]
    BY <1>2 DEF Begin, Lists
  <2> QED
    BY <1>2, <2>1 DEF Begin, TypeOK
<1>3. ASSUME NEW p \in Polls, NEW s \in Sessions, Skip(p, s) PROVE TypeOK'
  BY <1>3 DEF Skip, TypeOK
<1>4. ASSUME NEW p \in Polls, NEW s \in Sessions, Enter(p, s) PROVE TypeOK'
  BY <1>4 DEF Enter, TypeOK
<1>5. ASSUME NEW p \in Polls, ReadQueue(p) PROVE TypeOK'
  BY <1>5 DEF ReadQueue, TypeOK, Waiting, Settled
<1>6. ASSUME NEW p \in Polls, ReadFails(p) PROVE TypeOK'
  BY <1>6, FaultBounded DEF ReadFails, Leave, TypeOK
<1>7. ASSUME NEW p \in Polls, Exit(p) PROVE TypeOK'
  BY <1>7 DEF Exit, Leave, TypeOK
<1>8. ASSUME NEW p \in Polls, Call(p) PROVE TypeOK'
  <2>1. Current(p) \in Messages
    BY <1>8, CurrentIsPending DEF Call
  <2>2. tries' \in [Messages -> Nat]
    <3>1. PICK m \in Messages : m = Current(p)
      BY <2>1
    <3>2. tries' = [tries EXCEPT ![m] = @ + 1]
      BY <1>8, <3>1 DEF Call
    <3> QED
      BY <3>2 DEF TypeOK
  <2>3. at' \in [Polls -> Places] /\ \A q \in Polls : at'[q] = "polling" <=> session'[q] = None
    BY <1>8 DEF Call, TypeOK
  <2> QED
    BY <1>8, <2>2, <2>3 DEF Call, TypeOK
<1>9. ASSUME NEW p \in Polls, Arrives(p) PROVE TypeOK'
  BY <1>9, CurrentIsPending DEF Arrives, TypeOK, QueueInv, Calling
<1>10. ASSUME NEW p \in Polls, Recorded(p) PROVE TypeOK'
  <2>1. Current(p) \in Messages
    BY <1>10, CurrentIsPending DEF Recorded, QueueInv, Calling
  <2> QED
    BY <1>10, <2>1, RecordedType
<1>11. ASSUME NEW p \in Polls, Rejected(p) PROVE TypeOK'
  <2>1. Current(p) \in Messages
    BY <1>11, CurrentIsPending DEF Rejected, QueueInv, Calling
  <2>2. faults' \in 0..MaxFaults
    BY <1>11, FaultBounded DEF Rejected, Failed, TypeOK
  <2>3. lost' \subseteq Messages
    BY <1>11, <2>1 DEF Rejected, Failed, Unconfirmed, TypeOK
  <2>4. /\ attempts' \in [Messages -> Nat] /\ tries' \in [Messages -> Nat]
        /\ outcome' \in [Messages -> {"none", "delivered", "failed"}]
    BY <1>11, <2>1 DEF Rejected, Failed, Record, TypeOK
  <2>5. /\ at' \in [Polls -> Places] /\ pending' \in [Polls -> SUBSET Messages]
        /\ \A q \in Polls : at'[q] = "polling" <=> session'[q] = None
    BY <1>11 DEF Rejected, Failed, Done, TypeOK
  <2> QED
    BY <1>11, <2>2, <2>3, <2>4, <2>5 DEF Rejected, Failed, TypeOK
<1>12. CASE Restart
  <2>1. lost' \subseteq Messages
    <3>1. \A p \in Polls : Unconfirmed(p) \subseteq Messages
      BY CurrentIsPending DEF Unconfirmed, QueueInv, Calling
    <3> QED
      BY <1>12, <3>1 DEF Restart, Open, TypeOK
  <2> QED
    BY <1>12, <2>1 DEF Restart, TypeOK
<1>13. CASE UNCHANGED vars
  BY <1>13 DEF vars, TypeOK
<1> QED
  BY <1>1, <1>2, <1>3, <1>4, <1>5, <1>6, <1>7, <1>8, <1>9, <1>10, <1>11, <1>12, <1>13
     DEF Next, Turn, Answer

\* Only the chain that drains a session settles its messages, and it takes
\* them off its own queue as it does.
LEMMA NextQueue ==
  ASSUME DeliveryInv, [Next]_vars
  PROVE  QueueInv'
<1> USE DeliveryAssumption DEF DeliveryInv, history, memory, chain, counters, Draining, Calling
<1>1. ASSUME NEW m \in Messages, FallDue(m) PROVE QueueInv'
  BY <1>1 DEF FallDue, TypeOK, QueueInv
<1>2. ASSUME NEW p \in Polls, Begin(p) PROVE QueueInv'
  BY <1>2 DEF Begin, TypeOK, QueueInv
<1>3. ASSUME NEW p \in Polls, NEW s \in Sessions, Skip(p, s) PROVE QueueInv'
  BY <1>3 DEF Skip, TypeOK, QueueInv
<1>4. ASSUME NEW p \in Polls, NEW s \in Sessions, Enter(p, s) PROVE QueueInv'
  BY <1>4 DEF Enter, TypeOK, QueueInv
<1>5. ASSUME NEW p \in Polls, ReadQueue(p) PROVE QueueInv'
  BY <1>5 DEF ReadQueue, TypeOK, QueueInv, Waiting
<1>6. ASSUME NEW p \in Polls, ReadFails(p) PROVE QueueInv'
  BY <1>6 DEF ReadFails, Leave, TypeOK, QueueInv
<1>7. ASSUME NEW p \in Polls, Exit(p) PROVE QueueInv'
  BY <1>7 DEF Exit, Leave, TypeOK, QueueInv
<1>8. ASSUME NEW p \in Polls, Call(p) PROVE QueueInv'
  BY <1>8 DEF Call, TypeOK, QueueInv
<1>9. ASSUME NEW p \in Polls, Arrives(p) PROVE QueueInv'
  BY <1>9 DEF Arrives, TypeOK, QueueInv
<1>10. ASSUME NEW p \in Polls, Recorded(p) \/ Rejected(p) PROVE QueueInv'
  <2> DEFINE m == Current(p)
  <2>1. m \in pending[p] /\ m \in Messages
    BY <1>10, CurrentIsPending DEF Recorded, Rejected, QueueInv
  <2>2. /\ at[p] \in {"sending", "arrived"}
        /\ at' = [at EXCEPT ![p] = "draining"]
        /\ pending' = [pending EXCEPT ![p] = @ \ {m}]
        /\ session' = session
        /\ \A n \in Messages : n # m => outcome'[n] = outcome[n]
    BY <1>10, <2>1 DEF Recorded, Rejected, Failed, Done, Record, TypeOK
  <2>3. ASSUME NEW q \in Polls, q # p, m \in pending[q] PROVE FALSE
    <3>1. session[q] = session[p]
      BY <2>1, <2>3 DEF QueueInv
    <3>2. at[q] # "polling" /\ at[p] # "polling"
      BY <2>2, <2>3 DEF QueueInv, Draining
    <3> QED
      BY <2>3, <3>1, <3>2 DEF GuardInv
  <2> HIDE DEF m
  <2> QED
    BY <2>1, <2>2, <2>3 DEF QueueInv, TypeOK
<1>12. CASE Restart
  BY <1>12 DEF Restart, QueueInv
<1>13. CASE UNCHANGED vars
  BY <1>13 DEF vars, QueueInv
<1> QED
  BY <1>1, <1>2, <1>3, <1>4, <1>5, <1>6, <1>7, <1>8, <1>9, <1>10, <1>12, <1>13
     DEF Next, Turn, Answer

\* Enter is the only way in, and it looks at inflight.
LEMMA NextGuard ==
  ASSUME DeliveryInv, [Next]_vars
  PROVE  GuardInv'
<1> USE DEF DeliveryInv, memory, chain
<1>1. ASSUME NEW p \in Polls, NEW s \in Sessions, Enter(p, s) PROVE GuardInv'
  BY <1>1 DEF Enter, Free, TypeOK, GuardInv
<1>2. ASSUME NEW p \in Polls, ReadFails(p) \/ Exit(p) PROVE GuardInv'
  BY <1>2 DEF ReadFails, Exit, Leave, TypeOK, GuardInv
<1>3. ASSUME NEW p \in Polls, ReadQueue(p) \/ Call(p) \/ Arrives(p) PROVE GuardInv'
  BY <1>3 DEF ReadQueue, Call, Arrives, TypeOK, GuardInv
<1>4. ASSUME NEW p \in Polls, Recorded(p) \/ Rejected(p) PROVE GuardInv'
  BY <1>4 DEF Recorded, Rejected, Failed, Done, TypeOK, GuardInv
<1>5. CASE Restart
  BY <1>5 DEF Restart, GuardInv
<1>6. CASE UNCHANGED <<at, session, inflight>>
  BY <1>6 DEF GuardInv
<1> QED
  BY <1>1, <1>2, <1>3, <1>4, <1>5, <1>6
     DEF Next, Turn, Answer, FallDue, Begin, Skip, vars

\* No reachable state has a chain outside its types or two chains in one
\* session.
THEOREM DeliveryInvariant == Spec => []DeliveryInv
<1>1. DeliveryInv /\ [Next]_vars => DeliveryInv'
  BY NextType, NextQueue, NextGuard DEF DeliveryInv
<1> QED
  BY InitDelivery, <1>1, PTL DEF Spec

\* Type correctness of the two chains and of what they share.
THEOREM TypeCorrect == Spec => []TypeOK
<1>1. DeliveryInv => TypeOK
  BY DEF DeliveryInv
<1> QED
  BY DeliveryInvariant, <1>1, PTL
-----------------------------------------------------------------------------
\* A session in flight is one that a chain drains: no error path leaves a session
\* in inflightDeliveries, which would skip it for the rest of the process's life.
NoSessionLeft == \A s \in inflight : \E p \in Polls : at[p] # "polling" /\ session[p] = s

\* Entering adds the chain with its session; leaving takes away both.
LEMMA NextLeft ==
  ASSUME DeliveryInv, NoSessionLeft, [Next]_vars
  PROVE  NoSessionLeft'
<1> USE DEF DeliveryInv, memory, chain
<1>1. ASSUME NEW p \in Polls, NEW s \in Sessions, Enter(p, s) PROVE NoSessionLeft'
  <2>1. at'[p] # "polling" /\ session'[p] = s /\ inflight' = inflight \union {s}
    BY <1>1 DEF Enter, TypeOK
  <2>2. \A q \in Polls : q # p => at'[q] = at[q] /\ session'[q] = session[q]
    BY <1>1 DEF Enter, TypeOK
  <2>3. at[p] = "polling"
    BY <1>1 DEF Enter
  <2> QED
    BY <2>1, <2>2, <2>3 DEF NoSessionLeft
<1>2. ASSUME NEW p \in Polls, ReadFails(p) \/ Exit(p) PROVE NoSessionLeft'
  <2>1. Leave(p)
    BY <1>2 DEF ReadFails, Exit
  <2>2. inflight' = inflight \ {session[p]}
        /\ \A q \in Polls : q # p => at'[q] = at[q] /\ session'[q] = session[q]
    BY <2>1 DEF Leave, TypeOK
  <2> QED
    BY <2>2 DEF NoSessionLeft
<1>3. ASSUME NEW p \in Polls, UNCHANGED <<inflight, session>>,
             at[p] # "polling", at'[p] # "polling",
             \A q \in Polls : q # p => at'[q] = at[q]
      PROVE  NoSessionLeft'
  BY <1>3 DEF NoSessionLeft
<1>4. ASSUME NEW p \in Polls, ReadQueue(p) \/ Call(p) \/ Arrives(p) PROVE NoSessionLeft'
  BY <1>3, <1>4 DEF ReadQueue, Call, Arrives, TypeOK
<1>5. ASSUME NEW p \in Polls, Recorded(p) \/ Rejected(p) PROVE NoSessionLeft'
  <2>1. at[p] # "polling" /\ Done(p) /\ UNCHANGED <<inflight, session>>
    BY <1>5 DEF Recorded, Rejected, Failed
  <2> QED
    BY <1>3, <2>1 DEF Done, TypeOK
<1>6. CASE Restart
  BY <1>6 DEF Restart, NoSessionLeft
<1>7. CASE UNCHANGED <<at, session, inflight>>
  BY <1>7 DEF NoSessionLeft
<1> QED
  BY <1>1, <1>2, <1>4, <1>5, <1>6, <1>7
     DEF Next, Turn, Answer, FallDue, Begin, Skip, vars

\* Whatever fails while a session is drained, deliverSessionMessages takes it out
\* of inflightDeliveries again.
THEOREM SessionsAreFreed == Spec => []NoSessionLeft
<1>1. Init => NoSessionLeft
  BY DEF Init, NoSessionLeft
<1> QED
  BY <1>1, NextLeft, DeliveryInvariant, PTL DEF Spec
-----------------------------------------------------------------------------
\* What a chain knows of its session: the messages announced as first are
\* settled, and the chain has read of them.
FirstInv ==
  /\ OneFirstDelivery
  /\ \A m \in first :
       /\ outcome[m] # "none"
       /\ \A p \in Polls : Draining(p) /\ SessionOf[m] = session[p] => m \in seen[p]

\* A copy the host has not recorded is lost, or its call is not over.
ReceivedInv ==
  /\ Open \subseteq received
  /\ \A m \in received : outcome[m] = "none" => m \in lost \union Open

\* The attempts of a process are those of its calls that are over.
TriesInv ==
  \A m \in Messages :
    /\ attempts[m] < MaxAttempts + faults
    /\ (\E p \in Polls : Calling(p) /\ Current(p) = m) => tries[m] = attempts[m] + 1
    /\ ~ (\E p \in Polls : Calling(p) /\ Current(p) = m) => tries[m] = attempts[m]

LEMMA InitFirst == Init => FirstInv
BY DEF Init, FirstInv, OneFirstDelivery

LEMMA NextFirst ==
  ASSUME DeliveryInv, FirstInv, [Next]_vars
  PROVE  FirstInv'
<1> USE DeliveryAssumption
    DEF DeliveryInv, history, memory, chain, counters, Draining, OneFirstDelivery
<1>1. ASSUME NEW p \in Polls, Call(p) \/ Arrives(p) PROVE FirstInv'
  <2>1. /\ at[p] \in {"draining", "sending"}
        /\ \A q \in Polls : Draining(q)' => Draining(q)
        /\ UNCHANGED <<outcome, session, seen, first>>
    BY <1>1 DEF Call, Arrives, TypeOK
  <2> QED
    BY <2>1 DEF FirstInv
<1>2. ASSUME NEW p \in Polls, NEW s \in Sessions, Enter(p, s) PROVE FirstInv'
  <2>1. /\ \A q \in Polls : Draining(q)' => Draining(q) /\ session'[q] = session[q]
        /\ UNCHANGED <<outcome, seen, first>>
    BY <1>2 DEF Enter, TypeOK
  <2> QED
    BY <2>1 DEF FirstInv
<1>3. ASSUME NEW p \in Polls, ReadQueue(p) PROVE FirstInv'
  BY <1>3 DEF ReadQueue, Settled, TypeOK, FirstInv
<1>4. ASSUME NEW p \in Polls, ReadFails(p) \/ Exit(p) PROVE FirstInv'
  <2>1. /\ \A q \in Polls : Draining(q)' => /\ Draining(q) /\ session'[q] = session[q]
                                             /\ seen'[q] = seen[q]
        /\ UNCHANGED <<outcome, first>>
    BY <1>4 DEF ReadFails, Exit, Leave, TypeOK
  <2> QED
    BY <2>1 DEF FirstInv
<1>5. ASSUME NEW p \in Polls, Recorded(p) PROVE FirstInv'
  <2> DEFINE m == Current(p)
  <2>1. m \in pending[p] /\ m \in Messages /\ SessionOf[m] = session[p] /\ outcome[m] = "none"
    BY <1>5, CurrentIsPending DEF Recorded, QueueInv, Calling
  <2>2. /\ at[p] \in {"sending", "arrived"}
        /\ at' = [at EXCEPT ![p] = "draining"]
        /\ outcome' = [outcome EXCEPT ![m] = "delivered"]
        /\ seen' = [seen EXCEPT ![p] = @ \union {m}]
        /\ \A n \in first' : n \in first \/ (n = m /\ seen[p] = {})
        /\ session' = session
    BY <1>5, <2>1 DEF Recorded, Done, Record
  <2>3. ASSUME NEW q \in Polls, q # p, Draining(q) PROVE session[q] # SessionOf[m]
    BY <2>1, <2>2, <2>3 DEF GuardInv
  <2> HIDE DEF m
  <2>4. \A n \in first' : n \in Messages /\ outcome'[n] # "none"
    BY <2>1, <2>2 DEF FirstInv, TypeOK
  <2>5. \A n, k \in first' : SessionOf[n] = SessionOf[k] => n = k
    <3>1. seen[p] = {} => \A n \in first : SessionOf[n] # SessionOf[m]
      BY <2>1, <2>2 DEF FirstInv
    <3> QED
      BY <2>2, <3>1 DEF FirstInv
  <2>6. ASSUME NEW n \in first', NEW q \in Polls, Draining(q)', SessionOf[n] = session'[q]
        PROVE  n \in seen'[q]
    <3>1. Draining(q) /\ SessionOf[n] = session[q]
      BY <2>2, <2>6 DEF TypeOK
    <3>2. CASE n \in first
      BY <2>2, <3>1, <3>2 DEF FirstInv, TypeOK
    <3>3. CASE n = m
      BY <2>2, <2>3, <3>1, <3>3 DEF TypeOK
    <3> QED
      BY <2>2, <2>6, <3>2, <3>3
  <2> QED
    BY <2>4, <2>5, <2>6 DEF FirstInv
<1>6. ASSUME NEW p \in Polls, Rejected(p) PROVE FirstInv'
  BY <1>6 DEF Rejected, Failed, Done, Record, TypeOK, FirstInv
<1>7. CASE Restart
  BY <1>7 DEF Restart, FirstInv
<1>8. CASE UNCHANGED <<at, session, outcome, seen, first>>
  BY <1>8 DEF FirstInv
<1> QED
  BY <1>1, <1>2, <1>3, <1>4, <1>5, <1>6, <1>7, <1>8
     DEF Next, Turn, Answer, FallDue, Begin, Skip, vars

\* At most one message of a session is announced as its first.
THEOREM FirstDelivery == Spec => []OneFirstDelivery
<1>1. DeliveryInv /\ FirstInv /\ [Next]_vars => FirstInv'
  BY NextFirst
<1>2. FirstInv => OneFirstDelivery
  BY DEF FirstInv
<1> QED
  BY InitFirst, DeliveryInvariant, <1>1, <1>2, PTL DEF Spec
-----------------------------------------------------------------------------
LEMMA OpenIs ==
  /\ \A m : m \in Open <=> \E p \in Polls : at[p] = "arrived" /\ m = Current(p)
  /\ \A m : m \in Open' <=> \E p \in Polls : at'[p] = "arrived" /\ m = Current(p)'
BY DEF Open, Unconfirmed

\* How each step changes the transmissions under way.
LEMMA OpenArrives ==
  ASSUME DeliveryInv, NEW p \in Polls, Arrives(p)
  PROVE  /\ Current(p) \in Messages /\ outcome[Current(p)] = "none"
         /\ Current(p) \notin Open /\ Open' = Open \union {Current(p)}
<1> USE DEF DeliveryInv
<1>1. Current(p) \in pending[p] /\ Current(p) \in Messages
  BY CurrentIsPending DEF Arrives, QueueInv, Calling
<1>2. \A q \in Polls : at[q] = "arrived" => Current(q) # Current(p)
  <2>1. \A q \in Polls : at[q] = "arrived" => Current(q) \in pending[q]
    BY CurrentIsPending DEF QueueInv, Calling
  <2> QED
    BY <1>1, <2>1 DEF Arrives, QueueInv, GuardInv
<1>3. \A q \in Polls : Current(q)' = Current(q)
  BY DEF Arrives, Current
<1>4. outcome[Current(p)] = "none"
  BY <1>1 DEF QueueInv
<1>5. Current(p) \notin Open
  BY <1>2, OpenIs
<1>6. \A m : m \in Open' <=> m \in Open \/ m = Current(p)
  <2>1. \A q \in Polls : at'[q] = "arrived" <=> at[q] = "arrived" \/ q = p
    BY DEF Arrives, TypeOK
  <2> QED
    BY <1>3, <2>1, OpenIs
<1> QED
  BY <1>1, <1>4, <1>5, <1>6

LEMMA OpenEnds ==
  ASSUME DeliveryInv, NEW p \in Polls, Recorded(p) \/ Rejected(p)
  PROVE  /\ Current(p) \in Messages /\ Current(p) \in pending[p]
         /\ outcome[Current(p)] = "none" /\ SessionOf[Current(p)] = session[p]
         /\ at[p] = "arrived" <=> Current(p) \in Open
         /\ Open' = Open \ {Current(p)}
<1> USE DEF DeliveryInv
<1>1. Current(p) \in pending[p] /\ Current(p) \in Messages
  BY CurrentIsPending DEF Recorded, Rejected, QueueInv, Calling
<1>2. \A q \in Polls : q # p /\ Calling(q) => Current(q) # Current(p)
  <2>1. \A q \in Polls : Calling(q) => Current(q) \in pending[q]
    BY CurrentIsPending DEF QueueInv, Calling
  <2> QED
    BY <1>1, <2>1 DEF Recorded, Rejected, QueueInv, GuardInv, Calling
<1>3. \A q \in Polls : q # p => Current(q)' = Current(q) /\ at'[q] = at[q]
  BY DEF Recorded, Rejected, Failed, Done, Current, TypeOK
<1>4. at'[p] = "draining"
  BY DEF Recorded, Rejected, Failed, Done, TypeOK
<1> QED
  BY <1>1, <1>2, <1>3, <1>4, OpenIs DEF QueueInv, Calling

LEMMA OpenStays ==
  ASSUME DeliveryInv, NEW p \in Polls,
         Begin(p) \/ ReadQueue(p) \/ ReadFails(p) \/ Exit(p) \/ Call(p)
           \/ \E s \in Sessions : Skip(p, s) \/ Enter(p, s)
  PROVE  Open' = Open
<1> USE DEF DeliveryInv
<1>1. /\ \A q \in Polls : q # p => pending'[q] = pending[q] /\ at'[q] = at[q]
      /\ at[p] # "arrived" /\ at'[p] # "arrived"
  <2>1. CASE Begin(p)
    BY <2>1 DEF Begin, TypeOK
  <2>2. CASE ReadQueue(p) \/ Call(p)
    BY <2>2 DEF ReadQueue, Call, TypeOK
  <2>3. CASE ReadFails(p) \/ Exit(p)
    BY <2>3 DEF ReadFails, Exit, Leave, TypeOK
  <2>4. ASSUME NEW s \in Sessions, Skip(p, s) \/ Enter(p, s)
        PROVE  /\ \A q \in Polls : q # p => pending'[q] = pending[q] /\ at'[q] = at[q]
               /\ at[p] # "arrived" /\ at'[p] # "arrived"
    BY <2>4 DEF Skip, Enter, TypeOK
  <2> QED
    BY <2>1, <2>2, <2>3, <2>4
<1>2. \A q \in Polls : q # p => Current(q)' = Current(q)
  BY <1>1 DEF Current
<1> QED
  BY <1>1, <1>2, OpenIs

LEMMA OpenForgotten == Restart => Open' = {}
BY OpenIs DEF Restart

LEMMA InitReceived == Init => ReceivedInv
BY OpenIs DEF Init, ReceivedInv

LEMMA NextReceived ==
  ASSUME DeliveryInv, ReceivedInv, [Next]_vars
  PROVE  ReceivedInv'
<1> USE DEF DeliveryInv
<1>1. ASSUME NEW p \in Polls, Arrives(p) PROVE ReceivedInv'
  BY <1>1, OpenArrives DEF Arrives, ReceivedInv
<1>2. ASSUME NEW p \in Polls, Recorded(p) PROVE ReceivedInv'
  <2>1. /\ outcome' = [outcome EXCEPT ![Current(p)] = "delivered"]
        /\ UNCHANGED <<received, lost>>
    BY <1>2, OpenEnds DEF Recorded, Record
  <2> QED
    BY <1>2, <2>1, OpenEnds DEF ReceivedInv, TypeOK
<1>3. ASSUME NEW p \in Polls, Rejected(p) PROVE ReceivedInv'
  <2>1. /\ \A m \in Messages : outcome'[m] = "none" => outcome[m] = "none"
        /\ received' = received /\ lost' = lost \union Unconfirmed(p)
    BY <1>3, OpenEnds DEF Rejected, Failed, Record, TypeOK
  <2>2. lost' \union Open' = lost \union Open
    BY <1>3, <2>1, OpenEnds DEF Unconfirmed
  <2> QED
    BY <1>3, <2>1, <2>2, OpenEnds DEF ReceivedInv, TypeOK
<1>4. CASE Restart
  BY <1>4, OpenForgotten DEF Restart, ReceivedInv
<1>5. CASE Open' = Open /\ UNCHANGED <<outcome, received, lost>>
  BY <1>5 DEF ReceivedInv
<1>6. ASSUME NEW m \in Messages, FallDue(m) PROVE Open' = Open /\ UNCHANGED <<outcome, received, lost>>
  BY <1>6 DEF FallDue, chain, history, Open, Unconfirmed, Current
<1>7. UNCHANGED vars => Open' = Open /\ UNCHANGED <<outcome, received, lost>>
  BY DEF vars, Open, Unconfirmed, Current
<1>8. ASSUME NEW p \in Polls, Turn(p) PROVE Open' = Open /\ UNCHANGED <<outcome, received, lost>>
  <2>1. Open' = Open
    BY <1>8, OpenStays DEF Turn
  <2>2. UNCHANGED <<outcome, received, lost>>
    BY <1>8 DEF Turn, Begin, ReadQueue, ReadFails, Exit, Call, Skip, Enter, history
  <2> QED
    BY <2>1, <2>2
<1> QED
  BY <1>1, <1>2, <1>3, <1>4, <1>5, <1>6, <1>7, <1>8 DEF Next, Answer

\* A channel receives a message again only if the host did not learn of the
\* last copy.
THEOREM DuplicatesExplained == Spec => DuplicatesNeedALostAnswer
<1>1. ASSUME DeliveryInv, ReceivedInv, [Next]_vars
      PROVE  (Open' \ Open) \intersect received \subseteq lost
  <2>1. ASSUME NEW p \in Polls, Arrives(p)
        PROVE  (Open' \ Open) \intersect received \subseteq lost
    BY <1>1, <2>1, OpenArrives DEF ReceivedInv
  <2>2. ASSUME NEW p \in Polls, Recorded(p) \/ Rejected(p) PROVE Open' \subseteq Open
    BY <1>1, <2>2, OpenEnds
  <2>3. ASSUME NEW p \in Polls, Turn(p) PROVE Open' \subseteq Open
    BY <1>1, <2>3, OpenStays DEF Turn
  <2>4. ASSUME NEW m \in Messages, FallDue(m) PROVE Open' \subseteq Open
    BY <2>4 DEF FallDue, chain, Open, Unconfirmed, Current
  <2>5. UNCHANGED vars => Open' \subseteq Open
    BY DEF vars, Open, Unconfirmed, Current
  <2>6. Restart => Open' \subseteq Open
    BY OpenForgotten
  <2> QED
    BY <1>1, <2>1, <2>2, <2>3, <2>4, <2>5, <2>6 DEF Next, Answer
<1>2. DeliveryInv /\ ReceivedInv /\ [Next]_vars => ReceivedInv'
  BY NextReceived
<1>3. DeliveryInv /\ ReceivedInv /\ [Next]_vars
        => [(Open' \ Open) \intersect received \subseteq lost]_<<at, pending, lost>>
  BY <1>1
<1> QED
  BY InitReceived, DeliveryInvariant, <1>2, <1>3, PTL DEF Spec, DuplicatesNeedALostAnswer

\* The chains implement the outbox: an arrival is a transmission, a record or
\* a rejection ends it, and a restart forgets all that are under way.
THEOREM DeliveryRefinesOutbox == Spec => ImplementsOutbox
<1>1. Init => Queue!Init
  BY OpenIs DEF Init, Queue!Init
<1>2. ASSUME DeliveryInv, [Next]_vars PROVE [Queue!Next]_(Queue!vars)
  <2>1. ASSUME NEW p \in Polls, Arrives(p) PROVE Queue!Next
    <3>1. Queue!Transmit(Current(p))
      BY <1>2, <2>1, OpenArrives DEF Arrives, Queue!Transmit
    <3> QED
      BY <1>2, <2>1, <3>1, OpenArrives DEF Queue!Next
  <2>2. ASSUME NEW p \in Polls, Recorded(p) PROVE Queue!Next
    <3>1. Queue!Deliver(Current(p))
      BY <1>2, <2>2, OpenEnds DEF Recorded, Record, Queue!Deliver
    <3> QED
      BY <1>2, <2>2, <3>1, OpenEnds DEF Queue!Next
  <2>3. ASSUME NEW p \in Polls, Rejected(p) PROVE Queue!Next
    <3>1. Open' = Open \ {Current(p)} /\ received' = received /\ Current(p) \in Messages
          /\ outcome[Current(p)] = "none"
      BY <1>2, <2>3, OpenEnds DEF Rejected, Failed
    <3>2. outcome' = outcome \/ outcome' = [outcome EXCEPT ![Current(p)] = "failed"]
      BY <2>3 DEF Rejected, Failed, Record
    <3>3. CASE outcome' = outcome
      BY <3>1, <3>3 DEF Queue!Lose, Queue!Next
    <3>4. CASE outcome' = [outcome EXCEPT ![Current(p)] = "failed"]
      BY <3>1, <3>4 DEF Queue!GiveUp, Queue!Next
    <3> QED
      BY <3>2, <3>3, <3>4
  <2>4. CASE Restart
    <3>1. Open \subseteq Messages
      BY <1>2, CurrentIsPending, OpenIs DEF DeliveryInv, QueueInv, Calling
    <3>2. Queue!Lose(Open)
      BY <2>4, OpenForgotten DEF Restart, Queue!Lose
    <3> QED
      BY <3>1, <3>2 DEF Queue!Next
  <2>5. ASSUME NEW p \in Polls, Turn(p) PROVE UNCHANGED Queue!vars
    <3>1. Open' = Open
      BY <1>2, <2>5, OpenStays DEF Turn
    <3>2. UNCHANGED <<outcome, received>>
      BY <2>5 DEF Turn, Begin, ReadQueue, ReadFails, Exit, Call, Skip, Enter, history
    <3> QED
      BY <3>1, <3>2 DEF Queue!vars
  <2>6. ASSUME NEW m \in Messages, FallDue(m) PROVE UNCHANGED Queue!vars
    BY <2>6 DEF FallDue, chain, history, Open, Unconfirmed, Current, Queue!vars
  <2>7. CASE UNCHANGED vars
    BY <2>7 DEF vars, Open, Unconfirmed, Current, Queue!vars
  <2> QED
    BY <1>2, <2>1, <2>2, <2>3, <2>4, <2>5, <2>6, <2>7 DEF Next, Answer
<1>3. DeliveryInv /\ [Next]_vars => [Queue!Next]_(Queue!vars)
  BY <1>2
<1> QED
  BY <1>1, DeliveryInvariant, <1>3, PTL DEF Spec, ImplementsOutbox, Queue!OutboxSpec
-----------------------------------------------------------------------------
LEMMA InitTries == Init => TriesInv
BY DeliveryAssumption DEF Init, TriesInv, Calling

LEMMA NextTries ==
  ASSUME DeliveryInv, TriesInv, [Next]_vars
  PROVE  TriesInv'
<1> USE DeliveryAssumption DEF DeliveryInv
<1>1. ASSUME NEW p \in Polls, Call(p) PROVE TriesInv'
  <2> DEFINE m == Current(p)
  <2>1. m \in pending[p] /\ m \in Messages
    BY <1>1, CurrentIsPending DEF Call
  <2>2. /\ at[p] = "draining" /\ at' = [at EXCEPT ![p] = "sending"]
        /\ tries' = [tries EXCEPT ![m] = @ + 1]
        /\ UNCHANGED <<attempts, faults, pending>>
    BY <1>1 DEF Call, memory, counters
  <2>3. \A q \in Polls : Calling(q) => Current(q) # m
    <3>1. \A q \in Polls : Calling(q) => Current(q) \in pending[q]
      BY CurrentIsPending DEF QueueInv, Calling
    <3> QED
      BY <2>1, <2>2, <3>1 DEF QueueInv, GuardInv, Calling
  <2>4. /\ \A q \in Polls : Current(q)' = Current(q)
        /\ \A q \in Polls : Calling(q)' <=> Calling(q) \/ q = p
    BY <2>2 DEF Current, Calling, TypeOK
  <2>5. Calling(p)' /\ Current(p)' = m
    BY <2>4
  <2>6. ASSUME NEW n \in Messages, n # m
        PROVE  (\E q \in Polls : Calling(q)' /\ Current(q)' = n)
                 <=> \E q \in Polls : Calling(q) /\ Current(q) = n
    BY <2>4, <2>6
  <2> HIDE DEF m
  <2>7. \A n \in Messages : tries'[n] = IF n = m THEN tries[n] + 1 ELSE tries[n]
    BY <2>1, <2>2 DEF TypeOK
  <2>8. tries[m] = attempts[m]
    BY <2>1, <2>3 DEF TriesInv
  <2>9. ASSUME NEW n \in Messages, n # m
        PROVE  /\ (\E q \in Polls : Calling(q)' /\ Current(q)' = n) => tries'[n] = attempts'[n] + 1
               /\ ~ (\E q \in Polls : Calling(q)' /\ Current(q)' = n) => tries'[n] = attempts'[n]
    BY <2>2, <2>6, <2>7, <2>9 DEF TriesInv
  <2>10. \A n \in Messages : attempts'[n] < MaxAttempts + faults'
    BY <2>2 DEF TriesInv
  <2> QED
    BY <2>2, <2>5, <2>7, <2>8, <2>9, <2>10 DEF TriesInv
<1>2. ASSUME NEW p \in Polls, Recorded(p) \/ Rejected(p) PROVE TriesInv'
  <2> DEFINE m == Current(p)
  <2>1. m \in Messages /\ m \in pending[p] /\ outcome[m] = "none" /\ SessionOf[m] = session[p]
    BY <1>2, OpenEnds
  <2>2. \A q \in Polls : q # p /\ Calling(q) => Current(q) # m
    <3>1. \A q \in Polls : Calling(q) => Current(q) \in pending[q]
      BY CurrentIsPending DEF QueueInv, Calling
    <3> QED
      BY <1>2, <2>1, <3>1 DEF Recorded, Rejected, QueueInv, GuardInv, Calling
  <2>3. /\ \A q \in Polls : q # p => Current(q)' = Current(q)
        /\ \A q \in Polls : Calling(q)' <=> Calling(q) /\ q # p
    BY <1>2 DEF Recorded, Rejected, Failed, Done, Current, Calling, TypeOK
  <2>4. Calling(p)
    BY <1>2 DEF Recorded, Rejected, Calling
  <2>5. /\ faults' \in Nat /\ faults' >= faults /\ faults \in Nat
        /\ \/ attempts' = [attempts EXCEPT ![m] = 0] /\ tries' = [tries EXCEPT ![m] = 0]
           \/ /\ attempts' = [attempts EXCEPT ![m] = @ + 1] /\ tries' = tries
              /\ attempts[m] + 1 < MaxAttempts \/ faults' = faults + 1
    <3>1. faults' \in Nat /\ faults' >= faults /\ faults \in Nat
      BY <1>2 DEF Recorded, Rejected, Failed, Fault, counters, TypeOK
    <3>2. CASE Recorded(p)
      BY <3>1, <3>2 DEF Recorded
    <3>3. CASE Rejected(p)
      <4>1. ~ GivesUp(m) => attempts[m] + 1 < MaxAttempts
        <5>1. attempts[m] \in Nat
          BY <2>1 DEF TypeOK
        <5> QED
          BY <5>1 DEF GivesUp
      <4> QED
        BY <3>1, <3>3, <4>1 DEF Rejected, Failed, Fault
    <3> QED
      BY <1>2, <3>2, <3>3
  <2>6. ASSUME NEW n \in Messages
        PROVE  (\E q \in Polls : Calling(q)' /\ Current(q)' = n)
                 <=> (\E q \in Polls : Calling(q) /\ Current(q) = n) /\ n # m
    <3>1. ASSUME NEW q \in Polls, Calling(q)', Current(q)' = n
          PROVE  Calling(q) /\ Current(q) = n /\ n # m
      BY <2>2, <2>3, <3>1
    <3>2. ASSUME NEW q \in Polls, Calling(q), Current(q) = n, n # m
          PROVE  Calling(q)' /\ Current(q)' = n
      BY <2>3, <3>2
    <3> QED
      BY <3>1, <3>2
  <2>7. tries[m] = attempts[m] + 1
    BY <2>1, <2>4 DEF TriesInv
  <2> HIDE DEF m
  <2> QED
    BY <2>1, <2>5, <2>6, <2>7 DEF TriesInv, TypeOK
<1>3. CASE Restart
  BY <1>3 DEF Restart, TriesInv, Calling, TypeOK
<1>4. ASSUME NEW p \in Polls, Turn(p), ~ Call(p) PROVE TriesInv'
  <2>1. /\ faults' \in Nat /\ faults' >= faults /\ UNCHANGED <<attempts, tries>>
    BY <1>4 DEF Turn, Begin, ReadQueue, ReadFails, Exit, Skip, Enter, history, memory, counters,
                Fault, TypeOK
  <2>2. /\ \A q \in Polls : q # p => pending'[q] = pending[q] /\ at'[q] = at[q]
        /\ ~ Calling(p) /\ ~ Calling(p)'
    <3>1. CASE Begin(p)
      BY <3>1 DEF Begin, Calling, TypeOK
    <3>2. CASE ReadQueue(p)
      BY <3>2 DEF ReadQueue, Calling, TypeOK
    <3>3. CASE ReadFails(p) \/ Exit(p)
      BY <3>3 DEF ReadFails, Exit, Leave, Calling, TypeOK
    <3>4. ASSUME NEW s \in Sessions, Skip(p, s) \/ Enter(p, s)
          PROVE  /\ \A q \in Polls : q # p => pending'[q] = pending[q] /\ at'[q] = at[q]
                 /\ ~ Calling(p) /\ ~ Calling(p)'
      BY <3>4 DEF Skip, Enter, Calling, TypeOK
    <3> QED
      BY <1>4, <3>1, <3>2, <3>3, <3>4 DEF Turn
  <2>3. \A q \in Polls : Calling(q)' <=> Calling(q)
    BY <2>2 DEF Calling
  <2>4. \A q \in Polls : Calling(q) => Current(q)' = Current(q)
    BY <2>2 DEF Current
  <2> QED
    BY <2>1, <2>3, <2>4 DEF TriesInv, TypeOK
<1>5. ASSUME NEW p \in Polls, Arrives(p) PROVE TriesInv'
  <2>1. \A q \in Polls : (Calling(q)' <=> Calling(q)) /\ Current(q)' = Current(q)
    BY <1>5 DEF Arrives, Calling, Current, TypeOK
  <2> QED
    BY <1>5, <2>1 DEF Arrives, TriesInv, memory, counters
<1>6. CASE UNCHANGED <<at, pending, attempts, tries, faults>>
  BY <1>6 DEF TriesInv, Calling, Current
<1> QED
  BY <1>1, <1>2, <1>3, <1>4, <1>5, <1>6
     DEF Next, Answer, FallDue, vars, memory, chain, counters, history

\* A process tries a message MaxAttempts times, and once more for each fault,
\* and gives it up only after MaxAttempts tries.
THEOREM RetriesAreBounded == Spec => RetriesEnd
<1> DEFINE Step == \A m \in Messages :
                     /\ tries'[m] <= MaxAttempts + faults'
                     /\ outcome'[m] = "failed" /\ outcome[m] # "failed"
                          => tries[m] >= MaxAttempts
<1>1. ASSUME DeliveryInv, TriesInv, TypeOK', TriesInv', [Next]_vars PROVE Step
  <2>1. ASSUME NEW m \in Messages PROVE tries'[m] <= MaxAttempts + faults'
    BY <1>1, <2>1, DeliveryAssumption DEF TriesInv, TypeOK
  <2>2. ASSUME NEW m \in Messages, outcome'[m] = "failed", outcome[m] # "failed"
        PROVE  tries[m] >= MaxAttempts
    <3>1. PICK p \in Polls : Rejected(p)
      BY <1>1, <2>2 DEF DeliveryInv, TypeOK, Next, Turn, Answer, FallDue, Begin, Skip, Enter,
         ReadQueue, ReadFails, Exit, Call, Arrives, Recorded, Record, Restart, vars
    <3>2. m = Current(p) /\ GivesUp(m)
      BY <1>1, <2>2, <3>1, OpenEnds DEF Rejected, Failed, Record, DeliveryInv, TypeOK
    <3>3. tries[m] = attempts[m] + 1
      BY <1>1, <3>1, <3>2 DEF TriesInv, Rejected, Calling
    <3> QED
      BY <1>1, <3>2, <3>3 DEF GivesUp, DeliveryInv, TypeOK
  <2> QED
    BY <2>1, <2>2
<1>2. DeliveryInv /\ TriesInv /\ DeliveryInv' /\ [Next]_vars => TriesInv'
  BY NextTries
<1>3. DeliveryInv /\ TriesInv /\ DeliveryInv' /\ TriesInv' /\ [Next]_vars
        => [Step]_<<tries, outcome>>
  BY <1>1 DEF DeliveryInv
<1> QED
  BY InitTries, DeliveryInvariant, <1>2, <1>3, PTL DEF Spec, RetriesEnd

-----------------------------------------------------------------------------
(* What the outbox is good for, whoever implements it.                      *)

\* What is said to be delivered has arrived, unless it had nowhere to go.
THEOREM DeliveredArrived == Spec => []Queue!DeliveredHasArrived
<1> USE DEF Queue!DeliveredHasArrived
<1> DEFINE Typed == outcome \in [Messages -> {"none", "delivered", "failed"}]
<1>1. Queue!Init => Queue!DeliveredHasArrived
  BY DEF Queue!Init
<1>2. ASSUME Typed, Queue!DeliveredHasArrived, [Queue!Next]_(Queue!vars)
      PROVE  Queue!DeliveredHasArrived'
  <2>1. ASSUME NEW m \in Messages, Queue!Transmit(m) PROVE Queue!DeliveredHasArrived'
    BY <1>2, <2>1 DEF Queue!Transmit
  <2>2. ASSUME NEW m \in Messages, Queue!Deliver(m) PROVE Queue!DeliveredHasArrived'
    BY <1>2, <2>2 DEF Queue!Deliver
  <2>3. ASSUME NEW m \in Messages, Queue!GiveUp(m) PROVE Queue!DeliveredHasArrived'
    BY <1>2, <2>3 DEF Queue!GiveUp
  <2>4. ASSUME NEW M, Queue!Lose(M) PROVE Queue!DeliveredHasArrived'
    BY <1>2, <2>4 DEF Queue!Lose
  <2>5. CASE UNCHANGED Queue!vars
    BY <1>2, <2>5 DEF Queue!vars
  <2> QED
    BY <1>2, <2>1, <2>2, <2>3, <2>4, <2>5 DEF Queue!Next
<1>3. TypeOK => Typed
  BY DEF TypeOK
<1> HIDE DEF Typed
<1> QED
  BY <1>1, <1>2, <1>3, TypeCorrect, DeliveryRefinesOutbox, PTL
  DEF ImplementsOutbox, Queue!OutboxSpec

\* A message once delivered or given up stays so, and never goes out again:
\* not by the other chain, not after a restart, not by a late answer.
THEOREM SettledStaysSettled == Spec => Queue!SettledStays
<1> DEFINE Stays == \A m \in Messages : outcome[m] # "none" =>
                      /\ outcome'[m] = outcome[m]
                      /\ m \notin Open' /\ (m \in received' => m \in received)
<1>1. ASSUME Queue!DeliveredHasArrived, [Queue!Next]_(Queue!vars)
      PROVE  [Stays]_(Queue!vars)
  <2> USE DEF Queue!DeliveredHasArrived
  <2>1. ASSUME NEW m \in Messages, Queue!Transmit(m) PROVE Stays
    BY <1>1, <2>1 DEF Queue!Transmit
  <2>2. ASSUME NEW m \in Messages, Queue!Deliver(m) PROVE Stays
    BY <1>1, <2>2 DEF Queue!Deliver
  <2>3. ASSUME NEW m \in Messages, Queue!GiveUp(m) PROVE Stays
    BY <1>1, <2>3 DEF Queue!GiveUp
  <2>4. ASSUME NEW M, Queue!Lose(M) PROVE Stays
    BY <1>1, <2>4 DEF Queue!Lose
  <2> QED
    BY <1>1, <2>1, <2>2, <2>3, <2>4 DEF Queue!Next
<1> QED
  BY <1>1, DeliveredArrived, DeliveryRefinesOutbox, PTL
  DEF ImplementsOutbox, Queue!OutboxSpec, Queue!SettledStays
=============================================================================
