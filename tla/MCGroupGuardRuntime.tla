------------------------ MODULE MCGroupGuardRuntime ------------------------
(* Scenarios of GroupGuardRuntime for TLC.                                 *)
EXTENDS GroupGuardRuntime, TLC

CONSTANTS g1, m1, m2, m3, h1, h2

OneGroup == {g1}
SentToG1 == [m \in Messages |-> g1]
OneSender == [m \in Messages |-> "alice"]
SentAtOnce == [m \in Messages |-> 0]

\* m1 is the oldest; a late m1 finds m2 and m3 counted already.
SentApart == (m1 :> 0) @@ (m2 :> 2) @@ (m3 :> 3)

Links == [id |-> "no-links", max |-> 0, window |-> 0]
SlowMode == [id |-> "slow-mode", max |-> 1, window |-> 2]

GroupWith(guards, exempt, enforceable, directory) ==
  [g \in Groups |->
     [guards |-> guards, adminExempt |-> exempt, enforceable |-> enforceable,
      observationEnds |-> 1, directoryEnabled |-> directory,
      forwardUnmatchedToAgent |-> FALSE]]

\* The observation period of an enforced group ends at time 1.
LinkPolicy == GroupWith(<<Links>>, TRUE, TRUE, TRUE)
SlowModePolicy == GroupWith(<<SlowMode, Links>>, FALSE, TRUE, TRUE)

LinkInM1 == {<<m1, "no-links">>}

LimitOfOne == [a \in AccountActions |-> 1]
WindowOfOne == [a \in AccountActions |-> 1]
WindowOfTwo == [a \in AccountActions |-> 2]

HandlerSymmetry == Permutations(Handlers)
=============================================================================
