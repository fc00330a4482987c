---------------------------- MODULE MCApprovals ----------------------------
(* Scenarios of Approvals for TLC.                                          *)
EXTENDS Approvals

\* All requests go to one approver.
OneApprover == [r \in Requests |-> "dm"]
=============================================================================
