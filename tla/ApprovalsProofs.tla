-------------------------- MODULE ApprovalsProofs --------------------------
(***************************************************************************)
(* One verdict per request, for any requests, approvers, clicks and        *)
(* restarts.  The row's status decides between the calls, and whoever won  *)
(* it is the only one to carry the action out or to tell of the rejection. *)
(***************************************************************************)
EXTENDS Approvals, TLAPS

Undecided == {"absent", "pending", "awaiting"}
Owning == {"applying", "telling"}

\* A row that is still to be decided has no verdict, and a request is asked once.
OpenInv ==
  /\ \A r \in Requests : row[r] \in Undecided => verdict[r] = "open"
  /\ \A r \in Requests :
       asking[r] = "no" => row[r] \in {"absent", "deleted"} /\ verdict[r] = "open"
  /\ \A r \in Requests : verdict[r] = "open" => applied[r] = 0 /\ told[r] = 0

\* A call that is to carry out, or to tell, has the verdict and has not yet.
OwnerInv ==
  \A h \in Slots :
    /\ at[h] = "applying" => verdict[req[h]] = "approved" /\ applied[req[h]] = 0
    /\ at[h] = "telling" => verdict[req[h]] = "rejected" /\ told[req[h]] = 0

\* It is the only such call for its request.
OneOwner ==
  \A h, k \in Slots : at[h] \in Owning /\ at[k] = at[h] /\ req[k] = req[h] => h = k

ApprovalInv == TypeOK /\ OpenInv /\ OwnerInv /\ OneOwner
-----------------------------------------------------------------------------
USE DEF Places, Statuses

LEMMA InitApproval == Init => ApprovalInv
BY ApprovalAssumption
   DEF Init, ApprovalInv, TypeOK, OpenInv, OwnerInv, OneOwner, Slots, Undecided, Owning

LEMMA DmType == \A r \in Requests : DmOf[r] \in Dms
BY DEF Dms

\* An idle call has no request, any other has one.
LEMMA RequestOfCall ==
  ASSUME TypeOK, NEW h \in Slots, at[h] # "idle"
  PROVE  req[h] \in Requests /\ req[h] # None
BY DEF TypeOK

CallTyped ==
  /\ at \in [Slots -> Places]
  /\ req \in [Slots -> Requests \union {None}]
  /\ \A k \in Slots : at[k] = "idle" <=> req[k] = None

LEMMA CallType ==
  ASSUME TypeOK, NEW h \in Slots, NEW where \in Places, NEW r \in Requests, Become(h, where, r)
  PROVE  CallTyped'
BY ApprovalAssumption DEF TypeOK, Become, CallTyped

LEMMA FaultType ==
  ASSUME TypeOK, Fault
  PROVE  faults' \in 0..MaxFaults
<1>1. faults < MaxFaults /\ faults' = faults + 1
  BY DEF Fault
<1>2. faults \in 0..MaxFaults /\ MaxFaults \in Nat
  BY ApprovalAssumption DEF TypeOK
<1> QED
  BY <1>1, <1>2

LEMMA NextType ==
  ASSUME TypeOK, [Next]_vars
  PROVE  TypeOK'
<1> USE ApprovalAssumption DEF card, call, counters, history
<1>1. ASSUME NEW r \in Requests, Requesting(r) PROVE TypeOK'
  <2>1. CASE Ask(r)
    BY <2>1 DEF Ask, TypeOK
  <2>2. CASE NobodyToAsk(r)
    BY <2>2 DEF NobodyToAsk, TypeOK
  <2>3. CASE CardArrives(r)
    BY <2>3 DEF CardArrives, TypeOK
  <2>4. CASE CardSent(r)
    BY <2>4 DEF CardSent, TypeOK
  <2>5. CASE CardFails(r)
    BY <2>5 DEF CardFails, Gone, TypeOK
  <2>6. CASE CardFailsHalfway(r)
    <3>1. faults' \in 0..MaxFaults
      BY <2>6, FaultType DEF CardFailsHalfway
    <3> QED
      BY <2>6, <3>1 DEF CardFailsHalfway, Gone, TypeOK
  <2> QED
    BY <1>1, <2>1, <2>2, <2>3, <2>4, <2>5, <2>6 DEF Requesting
<1>2. ASSUME NEW r \in Requests, WindowEnds(r) PROVE TypeOK'
  BY <1>2 DEF WindowEnds, TypeOK
<1>3. ASSUME NEW h \in Slots, Step(h) PROVE TypeOK'
  <2>1. req[h] \in Requests
    BY <1>3, RequestOfCall DEF Step, Approve, Park, Reject, Tell, Close
  <2>2. CASE Approve(h)
    <3>1. row' \in [Requests -> Statuses] /\ verdict' \in [Requests -> {"open", "approved", "rejected"}]
      BY <2>1, <2>2 DEF Approve, Transition, Decided, TypeOK
    <3>2. Become(h, "applying", req[h]) \/ Become(h, "idle", req[h])
      BY <2>2 DEF Approve, Transition, Go
    <3>3. CallTyped'
      BY <2>1, <3>2, CallType
    <3> QED
      BY <2>1, <2>2, <3>1, <3>3 DEF Approve, TypeOK, CallTyped
  <2>3. CASE Park(h)
    <3>1. row' \in [Requests -> Statuses]
      BY <2>1, <2>3 DEF Park, Transition, TypeOK
    <3>2. Become(h, "prompting", req[h]) \/ Become(h, "idle", req[h])
      BY <2>3 DEF Park, Transition, Go
    <3>3. CallTyped'
      BY <2>1, <3>2, CallType
    <3> QED
      BY <2>1, <2>3, <3>1, <3>3 DEF Park, TypeOK, CallTyped
  <2>4. CASE Reject(h)
    <3>1. row' \in [Requests -> Statuses] /\ verdict' \in [Requests -> {"open", "approved", "rejected"}]
      BY <2>1, <2>4 DEF Reject, Transition, Decided, TypeOK
    <3>2. Become(h, "telling", req[h]) \/ Become(h, "idle", req[h])
      BY <2>4 DEF Reject, Transition, Go
    <3>3. CallTyped'
      BY <2>1, <3>2, CallType
    <3> QED
      <4>1. UNCHANGED <<expired, card, armed, list, counters, applied, told, unreachable, dropped>>
        BY <2>4 DEF Reject
      <4> QED
        BY <3>1, <3>3, <4>1 DEF TypeOK, CallTyped
  <2>5. CASE Tell(h)
    <3>1. CallTyped'
      BY <2>1, <2>5, CallType DEF Tell, Go
    <3> QED
      <4>1. PICK r \in Requests : r = req[h]
        BY <2>1
      <4>2. told' = [told EXCEPT ![r] = @ + 1]
        BY <2>5, <4>1 DEF Tell
      <4>3. told' \in [Requests -> Nat]
        <5>1. told \in [Requests -> Nat]
          BY DEF TypeOK
        <5> QED
          BY <4>2, <5>1
      <4> QED
        BY <2>5, <3>1, <4>3 DEF Tell, TypeOK, CallTyped
  <2>6. CASE Close(h)
    <3>1. CallTyped'
      BY <2>1, <2>6, CallType DEF Close, Go
    <3> QED
      BY <2>1, <2>6, <3>1 DEF Close, Gone, TypeOK, CallTyped
  <2> QED
    BY <1>3, <2>2, <2>3, <2>4, <2>5, <2>6 DEF Step
<1>4. ASSUME NEW h \in Slots, Outside(h) PROVE TypeOK'
  <2>1. req[h] \in Requests
    BY <1>4, RequestOfCall DEF Outside, Apply, Return, Arm, PromptFails
  <2>2. CASE Apply(h)
    <3>1. CallTyped'
      BY <2>1, <2>2, CallType DEF Apply, Go
    <3> QED
      <4>1. PICK r \in Requests : r = req[h]
        BY <2>1
      <4>2. applied' = [applied EXCEPT ![r] = @ + 1]
        BY <2>2, <4>1 DEF Apply
      <4>3. applied' \in [Requests -> Nat]
        <5>1. applied \in [Requests -> Nat]
          BY DEF TypeOK
        <5> QED
          BY <4>2, <5>1
      <4> QED
        BY <2>2, <3>1, <4>3 DEF Apply, TypeOK, CallTyped
  <2>3. CASE Return(h)
    <3>1. CallTyped'
      BY <2>1, <2>3, CallType DEF Return, Go
    <3> QED
      BY <2>1, <2>3, <3>1 DEF Return, TypeOK, CallTyped
  <2>4. CASE Arm(h)
    <3>1. CallTyped'
      BY <2>1, <2>4, CallType DEF Arm, Go
    <3> QED
      BY <2>1, <2>4, <3>1, DmType DEF Arm, TypeOK, CallTyped
  <2>5. CASE PromptFails(h)
    <3>1. CallTyped'
      BY <2>1, <2>5, CallType DEF PromptFails, Go
    <3> QED
      BY <2>1, <2>5, <3>1 DEF PromptFails, TypeOK, CallTyped
  <2> QED
    BY <1>4, <2>2, <2>3, <2>4, <2>5 DEF Outside
<1>5. ASSUME NEW h \in Slots, NEW r \in Requests, NEW b \in Buttons, Click(h, r, b) PROVE TypeOK'
  <2>1. \E where \in Places : Become(h, where, r)
    BY <1>5 DEF Click
  <2>2. CallTyped'
    BY <2>1, CallType
  <2> QED
    <3>1. clicks' \in 0..MaxClicks
      <4>1. clicks < MaxClicks /\ clicks' = clicks + 1
        BY <1>5 DEF Click
      <4>2. clicks \in 0..MaxClicks /\ MaxClicks \in Nat
        BY DEF TypeOK
      <4> QED
        BY <4>1, <4>2
    <3> QED
      BY <1>5, <2>2, <3>1 DEF Click, TypeOK, CallTyped
<1>6. ASSUME NEW h \in Slots, NEW d \in Dms, Reply(h, d) PROVE TypeOK'
  <2>1. armed[d] \in Requests
    BY <1>6 DEF Reply, TypeOK
  <2>2. Become(h, "rejecting held", armed[d]) \/ UNCHANGED call
    BY <1>6 DEF Reply
  <2> QED
    <3>1. CallTyped'
      BY <2>1, <2>2, CallType DEF TypeOK, CallTyped
    <3> QED
      BY <1>6, <3>1 DEF Reply, TypeOK, CallTyped
<1>7. ASSUME Sweep PROVE TypeOK'
  <2>1. CASE SweepReads
    BY <2>1 DEF SweepReads, Overdue, TypeOK
  <2>2. ASSUME NEW r \in Requests, SweepTakes(r) PROVE TypeOK'
    <3>1. CallTyped'
      BY <2>2, CallType DEF SweepTakes, Slots
    <3> QED
      BY <2>2, <3>1 DEF SweepTakes, TypeOK, CallTyped
  <2> QED
    BY <1>7, <2>1, <2>2 DEF Sweep
<1>8. CASE Restart
  <2>1. CallTyped' /\ armed' \in [Dms -> Requests \union {None}]
    BY <1>8 DEF Restart, CallTyped
  <2>2. restarts' \in 0..MaxRestarts
    <3>1. restarts < MaxRestarts /\ restarts' = restarts + 1
      BY <1>8 DEF Restart
    <3>2. restarts \in 0..MaxRestarts /\ MaxRestarts \in Nat
      BY DEF TypeOK
    <3> QED
      BY <3>1, <3>2
  <2>3. asking' \in [Requests -> {"no", "sending", "over"}]
    BY <1>8 DEF Restart, TypeOK
  <2>4. dropped' \subseteq Requests
    <3>1. dropped' = dropped \union {req[h] : h \in {k \in Slots : at[k] = "telling"}}
      BY <1>8 DEF Restart
    <3>2. \A h \in Slots : at[h] = "telling" => req[h] \in Requests
      BY RequestOfCall
    <3>3. {req[h] : h \in {k \in Slots : at[k] = "telling"}} \subseteq Requests
      BY <3>2
    <3>4. dropped \subseteq Requests
      BY DEF TypeOK
    <3> QED
      BY <3>1, <3>3, <3>4
  <2> QED
    BY <1>8, <2>1, <2>2, <2>3, <2>4 DEF Restart, TypeOK, CallTyped
<1>9. ASSUME NEW h \in Slots, Throws(h) PROVE TypeOK'
  <2>1. req[h] \in Requests
    BY <1>9, RequestOfCall DEF Throws
  <2>2. CallTyped'
    BY <1>9, <2>1, CallType DEF Throws, Go
  <2>3. faults' \in 0..MaxFaults
    BY <1>9, FaultType DEF Throws
  <2>4. list' \subseteq Requests /\ dropped' \subseteq Requests
    BY <1>9, <2>1 DEF Throws, TypeOK
  <2> QED
    BY <1>9, <2>2, <2>3, <2>4 DEF Throws, TypeOK, CallTyped
<1>10. CASE UNCHANGED vars
  BY <1>10 DEF vars, TypeOK
<1> QED
  BY <1>1, <1>2, <1>3, <1>4, <1>5, <1>6, <1>7, <1>8, <1>9, <1>10 DEF Next

\* The variables of Approvals stay in their types.
THEOREM TypeCorrect == Spec => []TypeOK
<1>1. Init => TypeOK
  BY InitApproval DEF ApprovalInv
<1> QED
  BY <1>1, NextType, PTL DEF Spec
-----------------------------------------------------------------------------
(* As far as verdicts go, every action is one of five kinds.               *)

\* Nothing is decided, carried out or told, and nobody comes to own a request.
Quiet ==
  /\ UNCHANGED <<verdict, applied, told>>
  /\ \A r \in Requests : row'[r] \in Undecided => row[r] \in Undecided \/ verdict[r] = "open"
  /\ \A r \in Requests : asking'[r] = "no" => asking[r] = "no" /\ row'[r] \in {row[r], "deleted"}
  /\ \A h \in Slots : at'[h] \in Owning => at'[h] = at[h] /\ req'[h] = req[h]

\* A call claims the row, and with it owns the request.
Wins(h, v, where) ==
  /\ req[h] \in Requests
  /\ row[req[h]] \in {"pending", "awaiting"}
  /\ row' = [row EXCEPT ![req[h]] = v]
  /\ verdict' = [verdict EXCEPT ![req[h]] = v]
  /\ at' = [at EXCEPT ![h] = where]
  /\ req' = [req EXCEPT ![h] = req[h]]
  /\ UNCHANGED <<asking, applied, told>>

LEMMA QuietCall ==
  ASSUME TypeOK, NEW h \in Slots, NEW where \in Places \ Owning, NEW r, Become(h, where, r)
  PROVE  \A k \in Slots : at'[k] \in Owning => at'[k] = at[k] /\ req'[k] = req[k]
BY DEF Become, TypeOK, Owning

LEMMA NextIsVerdictStep ==
  ASSUME TypeOK, OpenInv, [Next]_vars
  PROVE  \/ Quiet
         \/ \E h \in Slots : Wins(h, "approved", "applying")
         \/ \E h \in Slots : Wins(h, "rejected", "telling")
         \/ \E h \in Slots : Apply(h)
         \/ \E h \in Slots : Tell(h)
<1> USE DEF card, call, counters, history
<1>1. ASSUME NEW r \in Requests, Requesting(r) PROVE Quiet
  <2>1. CASE Ask(r)
    BY <2>1 DEF Ask, Quiet, OpenInv, Undecided, TypeOK
  <2>2. CASE NobodyToAsk(r)
    BY <2>2 DEF NobodyToAsk, Quiet, TypeOK
  <2>3. CASE CardArrives(r) \/ CardSent(r)
    BY <2>3 DEF CardArrives, CardSent, Quiet, TypeOK
  <2>4. CASE CardFails(r)
    BY <2>4 DEF CardFails, Gone, Quiet, Undecided, TypeOK
  <2>5. CASE CardFailsHalfway(r)
    BY <2>5 DEF CardFailsHalfway, Gone, Quiet, Undecided, TypeOK
  <2> QED
    BY <1>1, <2>1, <2>2, <2>3, <2>4, <2>5 DEF Requesting
<1>2. ASSUME NEW r \in Requests, WindowEnds(r) PROVE Quiet
  BY <1>2 DEF WindowEnds, Quiet
<1>3. ASSUME NEW h \in Slots, Approve(h) PROVE Quiet \/ Wins(h, "approved", "applying")
  <2>1. req[h] \in Requests /\ req[h] # None
    BY <1>3, RequestOfCall DEF Approve
  <2>2. CASE Claims(req[h], "pending")
    BY <1>3, <2>1, <2>2 DEF Approve, Transition, Decided, Go, Become, Claims, Wins
  <2>3. CASE ~ Claims(req[h], "pending")
    <3>1. Become(h, "idle", req[h])
      BY <1>3, <2>3 DEF Approve, Transition, Go
    <3> QED
      BY <1>3, <2>3, <3>1, QuietCall DEF Approve, Transition, Decided, Quiet, Owning
  <2> QED
    BY <2>2, <2>3
<1>4. ASSUME NEW h \in Slots, Park(h) PROVE Quiet
  <2>1. req[h] \in Requests
    BY <1>4, RequestOfCall DEF Park
  <2>2. Become(h, "prompting", req[h]) \/ Become(h, "idle", req[h])
    BY <1>4 DEF Park, Transition, Go
  <2>3. \A k \in Slots : at'[k] \in Owning => at'[k] = at[k] /\ req'[k] = req[k]
    BY <2>2, QuietCall DEF Owning
  <2>4. \A r \in Requests : row'[r] \in Undecided => row[r] \in Undecided
    BY <1>4, <2>1 DEF Park, Transition, Claims, Undecided, TypeOK
  <2> QED
    <3>1. \A r \in Requests : asking[r] = "no" => row'[r] = row[r]
      BY <1>4, <2>1 DEF Park, Transition, Claims, OpenInv, TypeOK
    <3> QED
      BY <1>4, <2>3, <2>4, <3>1 DEF Park, Quiet
<1>5. ASSUME NEW h \in Slots, Reject(h) PROVE Quiet \/ Wins(h, "rejected", "telling")
  <2>1. req[h] \in Requests /\ req[h] # None
    BY <1>5, RequestOfCall DEF Reject
  <2>2. PICK from \in {"pending", "awaiting"} :
          /\ Transition(h, from, "rejected", "telling")
          /\ Decided(h, from, "rejected")
    BY <1>5 DEF Reject
  <2>3. CASE Claims(req[h], from)
    BY <1>5, <2>1, <2>2, <2>3 DEF Reject, Transition, Decided, Go, Become, Claims, Wins
  <2>4. CASE ~ Claims(req[h], from)
    <3>1. Become(h, "idle", req[h])
      BY <2>2, <2>4 DEF Transition, Go
    <3> QED
      BY <1>5, <2>2, <2>4, <3>1, QuietCall DEF Reject, Transition, Decided, Quiet, Owning
  <2> QED
    BY <2>3, <2>4
<1>6. ASSUME NEW h \in Slots, Close(h) PROVE Quiet
  <2>1. req[h] \in Requests
    BY <1>6, RequestOfCall DEF Close
  <2>2. \A k \in Slots : at'[k] \in Owning => at'[k] = at[k] /\ req'[k] = req[k]
    BY <1>6, QuietCall DEF Close, Go, Owning
  <2> QED
    <3>1. \A r \in Requests : row'[r] \in {row[r], "deleted"}
      BY <1>6, <2>1 DEF Close, Gone, TypeOK
    <3> QED
      BY <1>6, <2>2, <3>1 DEF Close, Quiet, Undecided
<1>7. ASSUME NEW h \in Slots, Return(h) \/ Arm(h) \/ PromptFails(h) PROVE Quiet
  <2>1. \A k \in Slots : at'[k] \in Owning => at'[k] = at[k] /\ req'[k] = req[k]
    BY <1>7, QuietCall DEF Return, Arm, PromptFails, Go, Owning
  <2> QED
    BY <1>7, <2>1 DEF Return, Arm, PromptFails, Quiet
<1>8. ASSUME NEW h \in Slots, NEW r \in Requests, NEW b \in Buttons, Click(h, r, b) PROVE Quiet
  <2>1. \A k \in Slots : at'[k] \in Owning => at'[k] = at[k] /\ req'[k] = req[k]
    BY <1>8, QuietCall DEF Click, Owning
  <2> QED
    BY <1>8, <2>1 DEF Click, Quiet
<1>9. ASSUME NEW h \in Slots, NEW d \in Dms, Reply(h, d) PROVE Quiet
  <2>1. Become(h, "rejecting held", armed[d]) \/ UNCHANGED call
    BY <1>9 DEF Reply
  <2>2. \A k \in Slots : at'[k] \in Owning => at'[k] = at[k] /\ req'[k] = req[k]
    BY <2>1, QuietCall DEF Owning
  <2> QED
    BY <1>9, <2>2 DEF Reply, Quiet
<1>10. ASSUME Sweep PROVE Quiet
  <2>1. CASE SweepReads
    BY <2>1 DEF SweepReads, Quiet
  <2>2. ASSUME NEW r \in Requests, SweepTakes(r) PROVE Quiet
    <3>1. Sweeper \in Slots
      BY DEF Slots
    <3>2. \A k \in Slots : at'[k] \in Owning => at'[k] = at[k] /\ req'[k] = req[k]
      BY <2>2, <3>1, QuietCall DEF SweepTakes, Owning
    <3> QED
      BY <2>2, <3>2 DEF SweepTakes, Quiet
  <2> QED
    BY <1>10, <2>1, <2>2 DEF Sweep
<1>11. CASE Restart
  BY <1>11 DEF Restart, Quiet, Owning
<1>12. ASSUME NEW h \in Slots, Throws(h) PROVE Quiet
  <2>1. \A k \in Slots : at'[k] \in Owning => at'[k] = at[k] /\ req'[k] = req[k]
    BY <1>12, QuietCall DEF Throws, Go, Owning
  <2> QED
    BY <1>12, <2>1 DEF Throws, Quiet
<1>13. CASE UNCHANGED vars
  BY <1>13 DEF vars, Quiet
<1> QED
  BY <1>1, <1>2, <1>3, <1>4, <1>5, <1>6, <1>7, <1>8, <1>9, <1>10, <1>11, <1>12, <1>13
     DEF Next, Step, Outside
-----------------------------------------------------------------------------
LEMMA QuietKeeps ==
  ASSUME ApprovalInv, TypeOK', Quiet
  PROVE  OpenInv' /\ OwnerInv' /\ OneOwner'
<1>1. OpenInv'
  BY DEF ApprovalInv, OpenInv, Quiet
<1>2. OwnerInv'
  BY DEF ApprovalInv, OwnerInv, Quiet, Owning
<1>3. OneOwner'
  BY DEF ApprovalInv, OneOwner, Quiet
<1> QED
  BY <1>1, <1>2, <1>3

LEMMA WinsKeeps ==
  ASSUME ApprovalInv, NEW h \in Slots, NEW v, NEW where,
         \/ v = "approved" /\ where = "applying"
         \/ v = "rejected" /\ where = "telling",
         Wins(h, v, where)
  PROVE  /\ verdict[req[h]] = "open"
         /\ OpenInv' /\ OwnerInv' /\ OneOwner'
<1>1. PICK r \in Requests : r = req[h]
  BY DEF Wins
<1>2. verdict[r] = "open" /\ applied[r] = 0 /\ told[r] = 0
  BY <1>1 DEF ApprovalInv, OpenInv, Wins, Undecided
<1>3. \A k \in Slots : at[k] \in Owning => req[k] # r
  BY <1>1, <1>2 DEF ApprovalInv, OwnerInv, Owning
<1>4. /\ \A q \in Requests : row'[q] = (IF q = r THEN v ELSE row[q])
      /\ \A q \in Requests : verdict'[q] = (IF q = r THEN v ELSE verdict[q])
      /\ \A k \in Slots : at'[k] = (IF k = h THEN where ELSE at[k])
      /\ req' = req
      /\ UNCHANGED <<asking, applied, told>>
  BY <1>1 DEF ApprovalInv, TypeOK, Wins
<1>5. OpenInv'
  <2>1. asking[r] # "no"
    BY <1>1 DEF ApprovalInv, OpenInv, Wins
  <2> QED
    BY <1>2, <1>4, <2>1 DEF ApprovalInv, OpenInv, Undecided
<1>6. OwnerInv'
  <2> SUFFICES ASSUME NEW k \in Slots
      PROVE  /\ at'[k] = "applying" => verdict'[req'[k]] = "approved" /\ applied'[req'[k]] = 0
             /\ at'[k] = "telling" => verdict'[req'[k]] = "rejected" /\ told'[req'[k]] = 0
    BY DEF OwnerInv
  <2>1. CASE k = h
    BY <1>1, <1>2, <1>4, <2>1
  <2>2. CASE k # h
    <3>1. at'[k] = at[k] /\ req'[k] = req[k]
      BY <1>4, <2>2
    <3>2. at[k] \in Owning => req[k] \in Requests /\ req[k] # r
      BY <1>3, RequestOfCall DEF ApprovalInv, Owning
    <3> QED
      BY <1>4, <3>1, <3>2 DEF ApprovalInv, OwnerInv, Owning
  <2> QED
    BY <2>1, <2>2
<1>7. OneOwner'
  BY <1>1, <1>3, <1>4 DEF ApprovalInv, OneOwner, Owning
<1> QED
  BY <1>1, <1>2, <1>5, <1>6, <1>7

LEMMA ApplyKeeps ==
  ASSUME ApprovalInv, NEW h \in Slots, Apply(h)
  PROVE  /\ verdict[req[h]] = "approved" /\ applied[req[h]] = 0
         /\ OpenInv' /\ OwnerInv' /\ OneOwner'
<1>1. PICK r \in Requests : r = req[h] /\ r # None
  BY RequestOfCall DEF ApprovalInv, Apply
<1>2. verdict[r] = "approved" /\ applied[r] = 0
  BY <1>1 DEF ApprovalInv, OwnerInv, Apply
<1>3. /\ \A q \in Requests : applied'[q] = (IF q = r THEN applied[q] + 1 ELSE applied[q])
      /\ \A k \in Slots : at'[k] = (IF k = h THEN "applied" ELSE at[k])
      /\ req' = req
      /\ UNCHANGED <<row, asking, verdict, told>>
  BY <1>1 DEF ApprovalInv, TypeOK, Apply, Go, Become, card
<1>4. OpenInv'
  BY <1>2, <1>3 DEF ApprovalInv, OpenInv
<1>5. OwnerInv'
  <2> SUFFICES ASSUME NEW k \in Slots
      PROVE  /\ at'[k] = "applying" => verdict'[req'[k]] = "approved" /\ applied'[req'[k]] = 0
             /\ at'[k] = "telling" => verdict'[req'[k]] = "rejected" /\ told'[req'[k]] = 0
    BY DEF OwnerInv
  <2>1. at'[k] = "applying" => k # h /\ at[k] = "applying" /\ req[k] # r /\ req[k] \in Requests
    BY <1>1, <1>3, RequestOfCall DEF ApprovalInv, OneOwner, Owning, Apply
  <2> QED
    BY <1>3, <2>1 DEF ApprovalInv, OwnerInv
<1>6. OneOwner'
  BY <1>3 DEF ApprovalInv, OneOwner, Owning
<1> QED
  BY <1>1, <1>2, <1>4, <1>5, <1>6

LEMMA TellKeeps ==
  ASSUME ApprovalInv, NEW h \in Slots, Tell(h)
  PROVE  /\ verdict[req[h]] = "rejected" /\ told[req[h]] = 0
         /\ OpenInv' /\ OwnerInv' /\ OneOwner'
<1>1. PICK r \in Requests : r = req[h] /\ r # None
  BY RequestOfCall DEF ApprovalInv, Tell
<1>2. verdict[r] = "rejected" /\ told[r] = 0
  BY <1>1 DEF ApprovalInv, OwnerInv, Tell
<1>3. /\ \A q \in Requests : told'[q] = (IF q = r THEN told[q] + 1 ELSE told[q])
      /\ \A k \in Slots : at'[k] = (IF k = h THEN "closing" ELSE at[k])
      /\ req' = req
      /\ UNCHANGED <<row, asking, verdict, applied>>
  BY <1>1 DEF ApprovalInv, TypeOK, Tell, Go, Become, card
<1>4. OpenInv'
  BY <1>2, <1>3 DEF ApprovalInv, OpenInv
<1>5. OwnerInv'
  <2> SUFFICES ASSUME NEW k \in Slots
      PROVE  /\ at'[k] = "applying" => verdict'[req'[k]] = "approved" /\ applied'[req'[k]] = 0
             /\ at'[k] = "telling" => verdict'[req'[k]] = "rejected" /\ told'[req'[k]] = 0
    BY DEF OwnerInv
  <2>1. at'[k] = "telling" => k # h /\ at[k] = "telling" /\ req[k] # r /\ req[k] \in Requests
    BY <1>1, <1>3, RequestOfCall DEF ApprovalInv, OneOwner, Owning, Tell
  <2> QED
    BY <1>3, <2>1 DEF ApprovalInv, OwnerInv
<1>6. OneOwner'
  BY <1>3 DEF ApprovalInv, OneOwner, Owning
<1> QED
  BY <1>1, <1>2, <1>4, <1>5, <1>6

LEMMA NextApproval ==
  ASSUME ApprovalInv, [Next]_vars
  PROVE  ApprovalInv'
<1>1. TypeOK'
  BY NextType DEF ApprovalInv
<1>2. \/ Quiet
      \/ \E h \in Slots : Wins(h, "approved", "applying")
      \/ \E h \in Slots : Wins(h, "rejected", "telling")
      \/ \E h \in Slots : Apply(h)
      \/ \E h \in Slots : Tell(h)
  BY NextIsVerdictStep DEF ApprovalInv
<1> QED
  BY <1>1, <1>2, QuietKeeps, WinsKeeps, ApplyKeeps, TellKeeps DEF ApprovalInv

\* The inductive invariant of the approvals: who owns a request, and what has
\* become of it.
THEOREM ApprovalInvariant == Spec => []ApprovalInv
BY InitApproval, NextApproval, PTL DEF Spec
-----------------------------------------------------------------------------
LEMMA InitPromise == Init => Promise!Init
BY DEF Init, Promise!Init

LEMMA NextPromise ==
  ASSUME ApprovalInv, [Next]_vars
  PROVE  [Promise!Next]_(Promise!vars)
<1>1. CASE Quiet
  BY <1>1 DEF Quiet, Promise!vars
<1>2. ASSUME NEW h \in Slots, NEW v, NEW where,
             \/ v = "approved" /\ where = "applying"
             \/ v = "rejected" /\ where = "telling",
             Wins(h, v, where)
      PROVE  Promise!Next
  <2>1. req[h] \in Requests /\ verdict[req[h]] = "open"
    BY <1>2, WinsKeeps DEF Wins
  <2> QED
    BY <1>2, <2>1 DEF Wins, Promise!Next, Promise!Decide
<1>3. ASSUME NEW h \in Slots, Apply(h) PROVE Promise!Next
  <2>1. PICK r \in Requests : r = req[h]
    BY <1>3, RequestOfCall DEF ApprovalInv, Apply
  <2>2. verdict[r] = "approved" /\ applied[r] = 0
    BY <1>3, <2>1, ApplyKeeps
  <2>3. applied' = [applied EXCEPT ![r] = 1]
    BY <1>3, <2>1, <2>2 DEF Apply
  <2> QED
    BY <1>3, <2>2, <2>3 DEF Apply, Promise!Next, Promise!CarryOut
<1>4. ASSUME NEW h \in Slots, Tell(h) PROVE Promise!Next
  <2>1. PICK r \in Requests : r = req[h]
    BY <1>4, RequestOfCall DEF ApprovalInv, Tell
  <2>2. verdict[r] = "rejected" /\ told[r] = 0
    BY <1>4, <2>1, TellKeeps
  <2>3. told' = [told EXCEPT ![r] = 1]
    BY <1>4, <2>1, <2>2 DEF Tell
  <2> QED
    BY <1>4, <2>2, <2>3 DEF Tell, Promise!Next, Promise!Tell
<1> QED
  BY <1>1, <1>2, <1>3, <1>4, NextIsVerdictStep DEF ApprovalInv

\* However clicks, replies, failures and the sweep interleave, a request has
\* one verdict, is carried out at most once, and its rejection told at most once.
THEOREM ApprovalsKeepVerdicts == Spec => ImplementsVerdicts
<1>1. Init => Promise!Init
  BY InitPromise
<1>2. ApprovalInv /\ [Next]_vars => [Promise!Next]_(Promise!vars)
  BY NextPromise
<1> QED
  BY <1>1, <1>2, ApprovalInvariant, PTL DEF Spec, ImplementsVerdicts, Promise!VerdictSpec

-----------------------------------------------------------------------------
(* What the promise is good for, whoever keeps it.                          *)

LEMMA PromiseInv ==
  Promise!VerdictSpec => [](Promise!PromiseTypeOK /\ Promise!OneFate)
<1> DEFINE Inv == Promise!PromiseTypeOK /\ Promise!OneFate
<1> USE DEF Promise!PromiseTypeOK, Promise!OneFate
<1>1. Promise!Init => Inv
  BY DEF Promise!Init
<1>2. Inv /\ [Promise!Next]_(Promise!vars) => Inv'
  <2> SUFFICES ASSUME Inv, [Promise!Next]_(Promise!vars) PROVE Inv'
    OBVIOUS
  <2>1. ASSUME NEW r \in Requests, NEW v \in {"approved", "rejected"}, Promise!Decide(r, v)
        PROVE  Inv'
    BY <2>1 DEF Promise!Decide
  <2>2. ASSUME NEW r \in Requests, Promise!CarryOut(r) PROVE Inv'
    BY <2>2 DEF Promise!CarryOut
  <2>3. ASSUME NEW r \in Requests, Promise!Tell(r) PROVE Inv'
    BY <2>3 DEF Promise!Tell
  <2>4. CASE UNCHANGED Promise!vars
    BY <2>4 DEF Promise!vars
  <2> QED
    BY <2>1, <2>2, <2>3, <2>4 DEF Promise!Next
<1> QED
  BY <1>1, <1>2, PTL DEF Promise!VerdictSpec

\* No request is both carried out and told rejected, and neither happens twice
\* or before the verdict (response-handler.ts, finalize.ts).
THEOREM OneFateEach == Spec => []Promise!OneFate
BY PromiseInv, ApprovalsKeepVerdicts, PTL DEF ImplementsVerdicts

\* A verdict once given stands, whatever is clicked, replied or swept later.
THEOREM VerdictsFinal == Spec => Promise!VerdictsStand
<1> DEFINE Stand == \A r \in Requests : verdict[r] # "open" => verdict'[r] = verdict[r]
<1>1. [Promise!Next]_(Promise!vars) => [Stand]_verdict
  <2> SUFFICES ASSUME [Promise!Next]_(Promise!vars), verdict' # verdict PROVE Stand
    OBVIOUS
  <2>1. PICK r \in Requests, v \in {"approved", "rejected"} : Promise!Decide(r, v)
    BY DEF Promise!Next, Promise!CarryOut, Promise!Tell, Promise!vars
  <2> QED
    BY <2>1 DEF Promise!Decide
<1> QED
  BY <1>1, ApprovalsKeepVerdicts, PTL
  DEF ImplementsVerdicts, Promise!VerdictSpec, Promise!VerdictsStand
=============================================================================
