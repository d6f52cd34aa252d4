--------------------------- MODULE MCTaskMonitor ---------------------------
(* Instances of TaskMonitor for TLC. *)
EXTENDS TaskMonitor
=============================================================================
