SPECIFICATION Spec
CONSTANTS
  p1 = p1
  p2 = p2
  p3 = p3
  n1 = n1
  n3 = n3
  c1 = c1
  d1 = d1
  c3 = c3
  s1 = s1
  NoLock = NoLock
  Garbage = Garbage
  Procs = {p1, p2, p3}
  Pids = {n1, n3}
  PidOf <- MCPidOf
  Claims = {c1, d1, c3}
  ProcOf <- MCProcOf
  Stops = {s1}
  StartTimes = TRUE
  FirstLock <- AnyFirst
CHECK_DEADLOCK FALSE
INVARIANT Exclusive
