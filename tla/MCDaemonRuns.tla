---------------------------- MODULE MCDaemonRuns ----------------------------
(* Instances of DaemonRuns for TLC: the run ids.                            *)
EXTENDS DaemonRuns

CONSTANTS i1, i2
=============================================================================
