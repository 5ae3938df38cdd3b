---------------------------- MODULE MCDaemonLock ----------------------------
(* Instances of DaemonLock for TLC.  Process p2, which has nothing to do    *)
(* with the daemon, gets the pid of p1 once p1 is gone; p3 has a pid of its *)
(* own.  p1 makes two claims, as two goroutines of one process may.         *)
EXTENDS DaemonLock

CONSTANTS p1, p2, p3, n1, n3, c1, d1, c3, s1

MCPidOf  == [p \in Procs |-> IF p = p3 THEN n3 ELSE n1]
MCProcOf == [c \in Claims |-> IF c = c3 THEN p3 ELSE p1]

\* A clean start, a file that cannot be parsed, and a lock of the earlier format.
AnyFirst == {NoLock, Garbage, n1}
=============================================================================
