--------------------------- MODULE MCHostDelivery ---------------------------
(* Scenarios of HostDelivery for TLC.                                       *)
EXTENDS HostDelivery, TLC

CONSTANTS s1, s2, s3

\* One message each for s1 and s2, whose channels hang, two for s3.
ThreeQueues == (1 :> s1) @@ (2 :> s2) @@ (3 :> s3) @@ (4 :> s3)
=============================================================================
