----------------------------- MODULE DaemonLock -----------------------------
(***************************************************************************)
(* The single-instance lock of the daemon (supervise.go): AcquireLock, the *)
(* release it returns, and Stop.                                           *)
(*                                                                         *)
(* A claim is one call of AcquireLock in a process; a stop is one call of  *)
(* Stop, in a process of its own that is not modelled.  Processes have     *)
(* pids, and a pid may be used again once its process is gone, also by a   *)
(* process that has nothing to do with the daemon.  Every file operation   *)
(* and every look at the process table is a step of its own.               *)
(***************************************************************************)
EXTENDS Naturals

CONSTANTS
    Procs,        \* processes, each of which runs once
    Pids,         \* pid numbers, disjoint from Procs
    PidOf,        \* [Procs -> Pids]
    Claims,       \* calls of AcquireLock
    ProcOf,       \* [Claims -> Procs]
    Stops,        \* calls of Stop
    StartTimes,   \* the kernel tells when a process started (Linux: TRUE)
    FirstLock,    \* what the lock file may hold at first
    NoLock,       \* there is no lock file
    Garbage       \* the lock file cannot be parsed

\* A lock file names a process (LockRecord) or, in the earlier format, a pid.
Locks == Procs \cup Pids \cup {NoLock, Garbage}

ASSUME LockAssumption ==
    /\ PidOf \in [Procs -> Pids] /\ ProcOf \in [Claims -> Procs]
    /\ Procs \cap Pids = {} /\ Claims \cap Stops = {}
    /\ NoLock # Garbage /\ {NoLock, Garbage} \cap (Procs \cup Pids) = {}
    /\ FirstLock \subseteq Pids \cup {NoLock, Garbage}
    /\ StartTimes \in BOOLEAN

VARIABLES
    lock,       \* agentd.pid
    started,    \* processes that have been started
    alive,      \* processes that run
    pc,         \* where each claim and each stop is
    seen,       \* what AcquireLock or Stop read from the lock file
    replaced    \* a lock was taken over, or cleared by Stop (observer)

vars == <<lock, started, alive, pc, seen, replaced>>

Calls == Claims \cup Stops
ClaimLocations == {"idle", "read", "check", "take", "held", "removing",
                   "released", "refused", "dead"}
StopLocations  == {"idle", "check", "signal", "clear", "wait",
                   "cleared", "stopped", "failed"}

Init ==
    /\ lock \in FirstLock
    /\ started = {} /\ alive = {}
    /\ pc = [c \in Calls |-> "idle"]
    /\ seen = [c \in Calls |-> NoLock]
    /\ replaced = FALSE

Goto(c, l)  == pc' = [pc EXCEPT ![c] = l]
Readable(l) == l \in Procs \cup Pids
LockPid(l)  == IF l \in Procs THEN PidOf[l] ELSE l
PidAlive(l) == \E p \in alive : PidOf[p] = LockPid(l)
\* sameIdentity: a record or a kernel without start times matches by the pid alone.
SameIdentity(l, p) ==
    LockPid(l) = PidOf[p] /\ (l \in Procs /\ StartTimes => l = p)
\* releaseLock compares the pid and the start time, zero with zero where there is none.
IsOwn(l, p) ==
    Readable(l) /\ LockPid(l) = PidOf[p] /\ (StartTimes => l = p)

-----------------------------------------------------------------------------
(* Processes.                                                              *)

Start(p) ==
    /\ p \notin started
    /\ \A q \in alive : PidOf[q] # PidOf[p]
    /\ started' = started \cup {p}
    /\ alive' = alive \cup {p}
    /\ UNCHANGED <<lock, pc, seen, replaced>>

\* The process ends, by its own exit or by a crash, wherever its claims are.
End(p) ==
    /\ p \in alive
    /\ alive' = alive \ {p}
    /\ pc' = [c \in Calls |->
                IF c \in Claims /\ ProcOf[c] = p
                   /\ pc[c] \notin {"released", "refused"} THEN "dead" ELSE pc[c]]
    /\ UNCHANGED <<lock, started, seen, replaced>>

-----------------------------------------------------------------------------
(* AcquireLock.                                                            *)

\* Mutant: the file is looked at and then written, as it was before GAP-104.
LinkBlind(c) ==
    /\ ProcOf[c] \in alive /\ pc[c] = "idle"
    /\ lock \notin Procs \ alive
    /\ lock' = ProcOf[c]
    /\ Goto(c, "held")
    /\ UNCHANGED <<started, alive, seen, replaced>>

\* os.Link: the lock appears with its content, or it exists already.
Link(c) ==
    /\ ProcOf[c] \in alive /\ pc[c] = "idle"
    /\ IF lock = NoLock THEN lock' = ProcOf[c] /\ Goto(c, "held")
                        ELSE UNCHANGED lock /\ Goto(c, "read")
    /\ UNCHANGED <<started, alive, seen, replaced>>

\* ReadLock.  A lock that is gone again or cannot be parsed is taken over.
Read(c) ==
    /\ pc[c] = "read"
    /\ seen' = [seen EXCEPT ![c] = lock]
    /\ Goto(c, IF Readable(lock) THEN "check" ELSE "take")
    /\ UNCHANGED <<lock, started, alive, replaced>>

\* processAlive and sameIdentity, against the record of the claiming process.
Check(c) ==
    /\ pc[c] = "check"
    /\ Goto(c, IF PidAlive(seen[c]) /\ SameIdentity(seen[c], ProcOf[c])
               THEN "refused" ELSE "take")
    /\ UNCHANGED <<lock, started, alive, seen, replaced>>

\* Mutant: the file gets the name of the claim, not of its process.
TakeNamed(c) ==
    /\ pc[c] = "take"
    /\ lock' = c
    /\ Goto(c, "held")
    /\ replaced' = TRUE
    /\ UNCHANGED <<started, alive, seen>>

\* takeOver: a rename over whatever is there.
Take(c) ==
    /\ pc[c] = "take"
    /\ lock' = ProcOf[c]
    /\ Goto(c, "held")
    /\ replaced' = TRUE
    /\ UNCHANGED <<started, alive, seen>>

\* Writing the claim or the takeover file failed: AcquireLock returns the error.
ClaimErrs(c) ==
    /\ ProcOf[c] \in alive /\ pc[c] \in {"idle", "take"}
    /\ Goto(c, "refused")
    /\ UNCHANGED <<lock, started, alive, seen, replaced>>

\* Mutant: the comparison is the wrong way round.
ReleaseReadOther(c) ==
    /\ pc[c] = "held"
    /\ Goto(c, IF IsOwn(lock, ProcOf[c]) THEN "released" ELSE "removing")
    /\ UNCHANGED <<lock, started, alive, seen, replaced>>

\* releaseLock reads the file and compares it with the claim's record ...
ReleaseRead(c) ==
    /\ pc[c] = "held"
    /\ Goto(c, IF IsOwn(lock, ProcOf[c]) THEN "removing" ELSE "released")
    /\ UNCHANGED <<lock, started, alive, seen, replaced>>

\* ... and removes whatever is there by then.
ReleaseRemove(c) ==
    /\ pc[c] = "removing"
    /\ lock' = NoLock
    /\ Goto(c, "released")
    /\ UNCHANGED <<started, alive, seen, replaced>>

-----------------------------------------------------------------------------
(* Stop.                                                                   *)

StopRead(s) ==
    /\ pc[s] = "idle"
    /\ seen' = [seen EXCEPT ![s] = lock]
    /\ Goto(s, IF Readable(lock) THEN "check" ELSE "failed")
    /\ UNCHANGED <<lock, started, alive, replaced>>

StopCheck(s) ==
    /\ pc[s] = "check"
    /\ Goto(s, IF PidAlive(seen[s]) THEN "signal" ELSE "clear")
    /\ UNCHANGED <<lock, started, alive, seen, replaced>>

\* The lock is removed without another look at it; Stop reports an error.
StopClear(s) ==
    /\ pc[s] = "clear"
    /\ lock' = NoLock
    /\ Goto(s, "cleared")
    /\ replaced' = TRUE
    /\ UNCHANGED <<started, alive, seen>>

\* SIGTERM to whatever process has the pid now; the lock stays if that fails.
StopSignal(s) ==
    /\ pc[s] = "signal"
    /\ \/ PidAlive(seen[s]) /\ Goto(s, "wait")
       \/ Goto(s, "failed")
    /\ UNCHANGED <<lock, started, alive, seen, replaced>>

\* Mutant: Stop returns once the signal is sent, as it did before GAP-104.
StopWaitNot(s) ==
    /\ pc[s] = "wait"
    /\ Goto(s, "stopped")
    /\ UNCHANGED <<lock, started, alive, seen, replaced>>

\* waitForExit: until no process has the pid, or until stopGracePeriod is over.
StopWait(s) ==
    /\ pc[s] = "wait"
    /\ \/ ~PidAlive(seen[s]) /\ Goto(s, "stopped")
       \/ PidAlive(seen[s]) /\ Goto(s, "failed")
    /\ UNCHANGED <<lock, started, alive, seen, replaced>>

-----------------------------------------------------------------------------
Acquire(c) == Link(c) \/ Read(c) \/ Check(c) \/ Take(c) \/ ClaimErrs(c)
Release(c) == ReleaseRead(c) \/ ReleaseRemove(c)
Stop(s)    == StopRead(s) \/ StopCheck(s) \/ StopClear(s) \/ StopSignal(s) \/ StopWait(s)

Next ==
    \/ \E p \in Procs : Start(p) \/ End(p)
    \/ \E c \in Claims : Acquire(c) \/ Release(c)
    \/ \E s \in Stops : Stop(s)

Spec == Init /\ [][Next]_vars
-----------------------------------------------------------------------------
(* Properties.                                                             *)

TypeOK ==
    /\ lock \in Locks
    /\ started \in SUBSET Procs /\ alive \in SUBSET started
    /\ pc \in [Calls -> ClaimLocations \cup StopLocations]
    /\ seen \in [Calls -> Locks]
    /\ replaced \in BOOLEAN

Holds(c) == pc[c] \in {"held", "removing"}

\* supervise.go:75-79: link alone excludes.  As long as no lock was taken over
\* and none cleared by Stop, at most one claim holds the lock, whatever the
\* order of acquires, releases and crashes, and the file names its process.
LinkExcludes ==
    ~replaced => \A c \in Claims : Holds(c) =>
        lock = ProcOf[c] /\ \A d \in Claims : Holds(d) => d = c

\* A live process named by the lock file has a claim that holds it: no release
\* leaves its lock behind, however releases, takeovers and Stop interleave.
LockIsBacked ==
    lock \in alive => \E c \in Claims : ProcOf[c] = lock /\ Holds(c)

\* supervise.go:203 "It returns when the daemon has actually exited": when Stop
\* reports success, the process its lock named is gone.
StopIsTrue ==
    \A s \in Stops : pc[s] = "stopped" /\ seen[s] \in Procs => seen[s] \notin alive

\* The inductive invariant behind the proofs: files and calls name processes
\* that have been started, so no later process is taken for one of them, and a
\* claim that is on its way runs in a live process.
NamesStarted ==
    /\ lock \in Procs => lock \in started
    /\ \A c \in Calls : seen[c] \in Procs => seen[c] \in started

ClaimsRun ==
    \A c \in Claims : pc[c] \in {"read", "check", "take", "held", "removing"}
                        => ProcOf[c] \in alive

IInv ==
    /\ TypeOK /\ NamesStarted /\ ClaimsRun
    /\ LinkExcludes /\ LockIsBacked /\ StopIsTrue

\* supervise.go:1 "a single-instance lock that actually excludes" and 54 "A lock
\* whose process is alive and whose identity matches is refused": two processes
\* do not hold the lock at the same time.
Exclusive ==
    \A c, d \in Claims : Holds(c) /\ Holds(d) => ProcOf[c] = ProcOf[d]
=============================================================================
