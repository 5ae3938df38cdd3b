-------------------------- MODULE DaemonLock_proofs --------------------------
(***************************************************************************)
(* Proofs about the single-instance lock, for any processes, pids, claims  *)
(* and stops, with or without start times: the inductive invariant IInv    *)
(* and the properties it contains.                                         *)
(***************************************************************************)
EXTENDS DaemonLock, TLAPS

LEMMA InitIInv == Init => IInv
<1>. USE LockAssumption DEF Init
<1>1. Init => lock \in Locks /\ lock \notin Procs
  BY DEF Locks
<1>2. Init => /\ started \in SUBSET Procs /\ alive \in SUBSET started
              /\ pc \in [Calls -> ClaimLocations \cup StopLocations]
              /\ seen \in [Calls -> Locks]
  BY DEF Locks, ClaimLocations, StopLocations
<1>3. Init => replaced \in BOOLEAN
  BY Zenon
<1>4. Init => NamesStarted /\ ClaimsRun /\ LinkExcludes /\ LockIsBacked /\ StopIsTrue
  BY <1>1 DEF NamesStarted, ClaimsRun, LinkExcludes, LockIsBacked, StopIsTrue, Holds, Calls
<1> QED
  BY ONLY <1>1, <1>2, <1>3, <1>4 DEF IInv, TypeOK

\* A call that moves to a location it may move to keeps the shape of pc.
LEMMA GotoType ==
    ASSUME TypeOK, NEW c \in Calls, NEW l \in ClaimLocations \cup StopLocations, Goto(c, l)
    PROVE  /\ pc' \in [Calls -> ClaimLocations \cup StopLocations]
           /\ pc'[c] = l
           /\ \A d \in Calls \ {c} : pc'[d] = pc[d]
  BY DEF TypeOK, Goto

-----------------------------------------------------------------------------
(* One lemma per action.                                                   *)

LEMMA StartStep == ASSUME IInv, NEW p \in Procs, Start(p) PROVE IInv'
<1>. USE DEF IInv, TypeOK, Start
<1>1. TypeOK'
  OBVIOUS
<1>2. NamesStarted' /\ ClaimsRun' /\ LinkExcludes'
  BY DEF NamesStarted, ClaimsRun, LinkExcludes, Holds
<1>3. LockIsBacked' /\ StopIsTrue'
  BY LockAssumption DEF NamesStarted, LockIsBacked, StopIsTrue, Holds, Calls, Locks
<1> QED
  BY <1>1, <1>2, <1>3

LEMMA EndStep == ASSUME IInv, NEW p \in Procs, End(p) PROVE IInv'
<1>. USE DEF IInv, TypeOK, End
<1>0. \A c \in Claims : Holds(c)' => Holds(c) /\ ProcOf[c] # p
  BY DEF Holds, Calls, ClaimLocations, StopLocations
<1>1. TypeOK'
  BY DEF ClaimLocations, StopLocations
<1>2. NamesStarted' /\ ClaimsRun' /\ LinkExcludes'
  BY <1>0 DEF NamesStarted, ClaimsRun, LinkExcludes, Calls
<1>3. LockIsBacked'
  BY DEF LockIsBacked, Holds, Calls
<1>4. StopIsTrue'
  BY LockAssumption DEF StopIsTrue, Calls
<1> QED
  BY <1>1, <1>2, <1>3, <1>4

LEMMA AcquireStep == ASSUME IInv, NEW c \in Claims, Acquire(c) PROVE IInv'
<1>. USE DEF IInv
<1>0. c \in Calls /\ c \notin Stops
  BY LockAssumption DEF Calls
<1>1. CASE Link(c) /\ lock = NoLock
  <2>1. /\ lock' = ProcOf[c] /\ Goto(c, "held") /\ ProcOf[c] \in alive
        /\ UNCHANGED <<started, alive, seen, replaced>>
    BY <1>1 DEF Link
  <2>2. TypeOK'
    BY <1>0, <2>1, GotoType, LockAssumption DEF TypeOK, ClaimLocations, Locks
  <2>3. NamesStarted' /\ ClaimsRun'
    BY <1>0, <2>1 DEF TypeOK, Goto, NamesStarted, ClaimsRun, Calls
  <2>4. LinkExcludes'
    <3>1. ~replaced => \A d \in Claims : ~Holds(d)
      BY <1>1, LockAssumption DEF LinkExcludes
    <3> QED
      BY <1>0, <2>1, <3>1 DEF TypeOK, Goto, LinkExcludes, Holds, Calls
  <2>5. LockIsBacked'
    BY <1>0, <2>1 DEF TypeOK, Goto, LockIsBacked, Holds
  <2>6. StopIsTrue'
    BY <1>0, <2>1 DEF TypeOK, Goto, StopIsTrue, Calls
  <2> QED
    BY <2>2, <2>3, <2>4, <2>5, <2>6
<1>2. CASE Take(c)
  <2>1. /\ lock' = ProcOf[c] /\ Goto(c, "held") /\ ProcOf[c] \in alive /\ replaced'
        /\ UNCHANGED <<started, alive, seen>>
    BY <1>2 DEF Take, ClaimsRun
  <2>2. TypeOK'
    BY <1>0, <1>2, <2>1, GotoType, LockAssumption DEF TypeOK, ClaimLocations, Locks, Take
  <2>3. NamesStarted' /\ ClaimsRun' /\ LinkExcludes'
    BY <1>0, <2>1 DEF TypeOK, Goto, NamesStarted, ClaimsRun, LinkExcludes, Calls
  <2>4. LockIsBacked'
    BY <1>0, <2>1 DEF TypeOK, Goto, LockIsBacked, Holds
  <2>5. StopIsTrue'
    BY <1>0, <2>1 DEF TypeOK, Goto, StopIsTrue, Calls
  <2> QED
    BY <2>2, <2>3, <2>4, <2>5
<1>3. ASSUME NEW l \in {"read", "check", "take", "refused"}, Goto(c, l), ~Holds(c),
             l # "refused" => ProcOf[c] \in alive,
             seen' \in [Calls -> Locks],
             \A d \in Calls \ {c} : seen'[d] = seen[d], seen'[c] \in {seen[c], lock},
             UNCHANGED <<lock, started, alive, replaced>>
      PROVE  IInv'
  <2>1. TypeOK'
    BY <1>0, <1>3, GotoType DEF TypeOK, ClaimLocations
  <2>2. \A d \in Claims : Holds(d)' <=> Holds(d)
    BY <1>0, <1>3 DEF TypeOK, Goto, Holds, Calls
  <2>3. NamesStarted' /\ ClaimsRun'
    BY <1>0, <1>3 DEF TypeOK, Goto, NamesStarted, ClaimsRun, Calls
  <2>4. LinkExcludes' /\ LockIsBacked'
    BY <1>3, <2>2 DEF LinkExcludes, LockIsBacked
  <2>5. StopIsTrue'
    BY <1>0, <1>3 DEF TypeOK, Goto, StopIsTrue, Calls
  <2> QED
    BY <2>1, <2>3, <2>4, <2>5
<1>4. CASE Link(c) /\ lock # NoLock
  BY <1>0, <1>3, <1>4 DEF TypeOK, Link, Holds
<1>5. CASE Read(c)
  BY <1>0, <1>3, <1>5 DEF TypeOK, Read, Holds, ClaimsRun
<1>6. CASE Check(c)
  BY <1>0, <1>3, <1>6 DEF TypeOK, Check, Holds, ClaimsRun
<1>7. CASE ClaimErrs(c)
  BY <1>0, <1>3, <1>7 DEF TypeOK, ClaimErrs, Holds
<1> QED
  BY <1>1, <1>2, <1>4, <1>5, <1>6, <1>7 DEF Acquire

LEMMA ReleaseStep == ASSUME IInv, NEW c \in Claims, Release(c) PROVE IInv'
<1>. USE DEF IInv
<1>0. c \in Calls /\ c \notin Stops
  BY LockAssumption DEF Calls
<1>1. CASE ReleaseRead(c)
  <2>1. PICK l \in {"removing", "released"} :
            /\ Goto(c, l) /\ (IsOwn(lock, ProcOf[c]) => l = "removing") /\ pc[c] = "held"
            /\ UNCHANGED <<lock, started, alive, seen, replaced>>
    BY <1>1 DEF ReleaseRead
  <2>2. TypeOK'
    BY <1>0, <2>1, GotoType DEF TypeOK, ClaimLocations
  <2>3. NamesStarted' /\ ClaimsRun' /\ LinkExcludes'
    BY <1>0, <2>1 DEF TypeOK, Goto, NamesStarted, ClaimsRun, LinkExcludes, Holds, Calls
  <2>4. LockIsBacked'
    <3>1. lock = ProcOf[c] => l = "removing"
      BY <2>1, LockAssumption DEF IsOwn, Readable, LockPid
    <3> QED
      BY <1>0, <2>1, <3>1 DEF TypeOK, Goto, LockIsBacked, Holds, Calls
  <2>5. StopIsTrue'
    BY <1>0, <2>1 DEF TypeOK, Goto, StopIsTrue, Calls
  <2> QED
    BY <2>2, <2>3, <2>4, <2>5
<1>2. CASE ReleaseRemove(c)
  <2>1. /\ lock' = NoLock /\ Goto(c, "released") /\ Holds(c)
        /\ UNCHANGED <<started, alive, seen, replaced>>
    BY <1>2 DEF ReleaseRemove, Holds
  <2>2. TypeOK'
    BY <1>0, <2>1, GotoType DEF TypeOK, ClaimLocations, Locks
  <2>3. NamesStarted' /\ ClaimsRun' /\ LinkExcludes'
    BY <1>0, <2>1, LockAssumption
    DEF TypeOK, Goto, NamesStarted, ClaimsRun, LinkExcludes, Holds, Calls
  <2>4. LockIsBacked' /\ StopIsTrue'
    BY <1>0, <2>1, LockAssumption DEF TypeOK, Goto, LockIsBacked, StopIsTrue, Calls
  <2> QED
    BY <2>2, <2>3, <2>4
<1> QED
  BY <1>1, <1>2 DEF Release

LEMMA StopStep == ASSUME IInv, NEW s \in Stops, Stop(s) PROVE IInv'
<1>. USE DEF IInv
<1>0. s \in Calls /\ s \notin Claims
  BY LockAssumption DEF Calls
<1>1. PICK l \in StopLocations : Goto(s, l) /\ (l = "stopped" => ~PidAlive(seen[s]))
  BY DEF Stop, StopRead, StopCheck, StopClear, StopSignal, StopWait, StopLocations
<1>2. /\ UNCHANGED <<started, alive>>
      /\ \/ UNCHANGED <<lock, replaced>>
         \/ lock' = NoLock /\ replaced'
  BY DEF Stop, StopRead, StopCheck, StopClear, StopSignal, StopWait
<1>3. \/ UNCHANGED seen
      \/ seen' = [seen EXCEPT ![s] = lock] /\ l # "stopped"
  BY <1>0, <1>1 DEF Stop, StopRead, StopCheck, StopClear, StopSignal, StopWait, Goto, TypeOK
<1>4. \A c \in Claims : Holds(c)' <=> Holds(c)
  BY <1>0, <1>1 DEF TypeOK, Goto, Holds, Calls
<1>5. TypeOK'
  BY <1>0, <1>1, <1>2, <1>3, GotoType DEF TypeOK, Locks
<1>6. NamesStarted' /\ ClaimsRun'
  BY <1>0, <1>1, <1>2, <1>3, LockAssumption DEF TypeOK, Goto, NamesStarted, ClaimsRun, Calls
<1>7. LinkExcludes'
  BY <1>2, <1>4 DEF LinkExcludes
<1>8. LockIsBacked'
  BY <1>2, <1>4, LockAssumption DEF LockIsBacked, TypeOK
<1>9. StopIsTrue'
  <2>1. l = "stopped" /\ seen[s] \in Procs => seen[s] \notin alive
    BY <1>1 DEF PidAlive, LockPid
  <2> QED
    BY <1>0, <1>1, <1>2, <1>3, <2>1 DEF TypeOK, Goto, StopIsTrue, Calls
<1> QED
  BY <1>5, <1>6, <1>7, <1>8, <1>9

LEMMA Step == IInv /\ [Next]_vars => IInv'
<1>1. ASSUME IInv, UNCHANGED vars PROVE IInv'
  BY <1>1 DEF vars, IInv, TypeOK, NamesStarted, ClaimsRun, LinkExcludes, LockIsBacked,
              StopIsTrue, Holds
<1> QED
  BY <1>1, StartStep, EndStep, AcquireStep, ReleaseStep, StopStep DEF Next

-----------------------------------------------------------------------------
(* Theorems.                                                               *)

\* The inductive invariant of the lock.
THEOREM Inductive == Spec => []IInv
<1>1. Init => IInv
  BY InitIInv
<1>2. IInv /\ [Next]_vars => IInv'
  BY Step
<1> QED
  BY <1>1, <1>2, PTL DEF Spec

\* Type correctness of the lock.
THEOREM TypeCorrect == Spec => []TypeOK
<1>1. IInv => TypeOK
  BY DEF IInv
<1> QED
  BY <1>1, Inductive, PTL

\* Without a takeover and a cleared lock, at most one claim holds the lock.
THEOREM LinkIsExclusive == Spec => []LinkExcludes
<1>1. IInv => LinkExcludes
  BY DEF IInv
<1> QED
  BY <1>1, Inductive, PTL

\* A live process the lock file names holds the lock.
THEOREM LockHasHolder == Spec => []LockIsBacked
<1>1. IInv => LockIsBacked
  BY DEF IInv
<1> QED
  BY <1>1, Inductive, PTL

\* A Stop that reports success has seen the named process end.
THEOREM StopSeesTheEnd == Spec => []StopIsTrue
<1>1. IInv => StopIsTrue
  BY DEF IInv
<1> QED
  BY <1>1, Inductive, PTL
=============================================================================
