----------------------- MODULE MCGroupGuardDirectory -----------------------
(* Scenarios of GroupGuardDirectory for TLC.                               *)
EXTENDS GroupGuardDirectory, TLC

CONSTANTS v1, v2, v3, x1, x2

\* v3 names a category that only the second taxonomy has.
FitsBoth == (x1 :> {v1, v2}) @@ (x2 :> {v2, v3})
=============================================================================
