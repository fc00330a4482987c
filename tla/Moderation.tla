----------------------------- MODULE Moderation -----------------------------
(***************************************************************************)
(* ModerationEngine of src/groupguard/moderation/moderation.ts.            *)
(*                                                                         *)
(* A guard is stateless (its verdict depends on the message alone, so the  *)
(* set Breaks lists the messages each one objects to) or one of the two    *)
(* rate guards, which count the sender's recent messages.  The engine's    *)
(* volatile map messageTimes holds, per rate guard, group and sender, a    *)
(* list of message timestamps; here it holds the arrivals that put them    *)
(* there, so that a message delivered twice is counted twice, as in the    *)
(* code.  An arrival is a message and the ordinal of its delivery.         *)
(***************************************************************************)
EXTENDS Integers, FiniteSets

CONSTANTS
  Messages,
  GroupOf,       \* GroupOf[m]: the group m was sent to
  SenderOf,      \* SenderOf[m]: who sent it
  SentAt,        \* SentAt[m]: the timestamp WhatsApp gave it
  Breaks         \* the pairs <<m, id>> where stateless guard id rejects m

RateGuards == {"no-spam", "slow-mode"}

\* A guard of a group's list: max only matters to no-spam, window to a rate
\* guard.
Guard == [id : STRING, max : Nat, window : Nat]

Arrivals == Messages \X Nat

MessageTimes == [RateGuards -> SUBSET Arrivals]

NoMessageTimes == [id \in RateGuards |-> {}]

\* The arrivals filed under the same group and sender as m.
SameKey(times, id, m) ==
  {a \in times[id] : GroupOf[a[1]] = GroupOf[m] /\ SenderOf[a[1]] = SenderOf[m]}

\* Fault (see GroupGuardRuntime): only what was sent before m counts.
FaultyRecentArrivals(times, g, m) ==
  {a \in SameKey(times, g.id, m) :
     SentAt[a[1]] > SentAt[m] - g.window /\ SentAt[a[1]] <= SentAt[m]}

\* recentCount keeps what is newer than the cutoff, with no upper bound: a
\* message that arrives late is counted against ones sent after it.
RecentArrivals(times, g, m) ==
  {a \in SameKey(times, g.id, m) : SentAt[a[1]] > SentAt[m] - g.window}

\* How many recent messages a rate guard puts up with: slow mode's number is
\* no parameter.
Allowance(g) == IF g.id = "slow-mode" THEN 1 ELSE g.max

GuardBroken(times, g, m) ==
  IF g.id \in RateGuards
  THEN Cardinality(RecentArrivals(times, g, m)) >= Allowance(g)
  ELSE <<m, g.id>> \in Breaks

\* evaluate walks the list and stops at the first broken guard, so the guards
\* after it neither object nor record the message.
Walked(times, guards, m) ==
  {i \in DOMAIN guards : \A j \in DOMAIN guards :
     j < i => ~GuardBroken(times, guards[j], m)}

AnyBroken(times, guards, m) ==
  \E i \in DOMAIN guards : GuardBroken(times, guards[i], m)

\* messageTimes after evaluating arrival a of message m.
TimesAfter(times, guards, m, a) ==
  [id \in RateGuards |->
     LET walked == {i \in Walked(times, guards, m) : guards[i].id = id}
     IN  IF walked = {}
         THEN times[id]
         ELSE LET g == guards[CHOOSE i \in walked : TRUE]
              IN  (times[id] \ SameKey(times, id, m))
                    \union RecentArrivals(times, g, m) \union {a}]

\* What resolveAdminState reports about the sender; "unverified" is also the
\* value used when it rejects and when the group exempts nobody.
AdminStates == {"admin", "member", "unverified"}

Exempted(adminExempt, admin) == adminExempt /\ admin = "admin"

\* Fault: an unverified admin list does not stop a deletion.
FaultyDecision(times, guards, m, adminExempt, admin, canEnforce) ==
  IF Exempted(adminExempt, admin) \/ ~AnyBroken(times, guards, m) THEN "allow"
  ELSE IF ~canEnforce THEN "observe"
  ELSE "delete"

\* The action evaluate decides on.  canEnforce is the runtime's conjunction of
\* the host lock, the group's mode and its completed observation period.
Decision(times, guards, m, adminExempt, admin, canEnforce) ==
  IF Exempted(adminExempt, admin) \/ ~AnyBroken(times, guards, m) THEN "allow"
  ELSE IF ~canEnforce THEN "observe"
  ELSE IF adminExempt /\ admin = "unverified" THEN "skip-unverified-admins"
  ELSE "delete"
=============================================================================
