-------------------------- MODULE MCSessionRunner --------------------------
(* SessionRunner for TLC.                                                  *)
EXTENDS SessionRunner, TLC

CONSTANTS m1, m2, c1, c2

SessionSymmetry == Permutations(Messages) \union Permutations(Containers)
=============================================================================
