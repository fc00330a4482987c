---------------------------- MODULE MCTaskSeries ----------------------------
(* TaskSeries for TLC.                                                      *)
EXTENDS TaskSeries
=============================================================================
