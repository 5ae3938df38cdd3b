------------------------- MODULE DaemonRuns_proofs -------------------------
(***************************************************************************)
(* Proofs about the run table of the daemon, for any set of run ids and    *)
(* any number of starts and restarts: type correctness, the inductive      *)
(* invariant IInv in its three layers (the map and its drivers, what a     *)
(* serving daemon's records say, and, as long as no client starts a run    *)
(* while a drain unwinds, the timelines), and the properties that follow.  *)
(***************************************************************************)
EXTENDS DaemonRuns, TLAPS

-----------------------------------------------------------------------------
(* Type correctness.                                                       *)

LEMMA TypeInit == Init => TypeOK
<1>. USE DaemonAssumption DEF Init, Lives, None
<1>1. Init => /\ mode \in {"serving", "draining", "cancelled", "unwinding", "down"}
              /\ runs \in [RunIds -> Lives \cup {None}]
              /\ idOf \in [Lives -> RunIds \cup {None}]
              /\ lives \in 0..MaxLives /\ restarts \in 0..MaxRestarts
  OBVIOUS
<1>2. Init => /\ pc \in [Lives -> Locations]
              /\ busy \in [Lives -> BOOLEAN]
              /\ stopped \in [Lives -> BOOLEAN]
  BY DEF Locations
<1>3. Init => /\ phase \in [Lives -> Phases]
              /\ verdict \in [Lives -> Verdicts]
              /\ record \in [RunIds -> RecordStatus]
  BY DEF Phases, Verdicts, RecordStatus, Terminal
<1>4. Init => /\ checkpoint \in [RunIds -> {"none", "ask", "safe"}]
              /\ log \in [RunIds -> {"none", "started", "finished", "paused"}]
  OBVIOUS
<1>5. Init => lateStart \in BOOLEAN
  BY Zenon
<1> QED
  BY ONLY <1>1, <1>2, <1>3, <1>4, <1>5 DEF TypeOK

LEMMA TypeStep ==
    ASSUME TypeOK, [Next]_vars
    PROVE  TypeOK'
<1>. USE DaemonAssumption DEF TypeOK, Goto, Id, Lives, None, Locations,
         Phases, Verdicts, RecordStatus, Terminal, vars, memory, files
<1>1. ASSUME NEW i \in RunIds, StartReserve(i) PROVE TypeOK'
  BY <1>1 DEF StartReserve, Serving
<1>2. ASSUME NEW i \in RunIds, AnswerReserve(i) PROVE TypeOK'
  BY <1>2 DEF AnswerReserve, Serving
<1>3. ASSUME NEW i \in RunIds, Cancel(i) PROVE TypeOK'
  BY <1>3 DEF Cancel, Serving
<1>4. ASSUME NEW a \in Lives, StartRecord(a) PROVE TypeOK'
  BY <1>4 DEF StartRecord
<1>5. ASSUME NEW a \in Lives, StartEvent(a) PROVE TypeOK'
  BY <1>5 DEF StartEvent
<1>6. ASSUME NEW a \in Lives, Execute(a) PROVE TypeOK'
  BY <1>6 DEF Execute
<1>7. ASSUME NEW a \in Lives, LoopStep(a) PROVE TypeOK'
  BY <1>7 DEF LoopStep
<1>8. ASSUME NEW a \in Lives, LoopCancelled(a) PROVE TypeOK'
  <2>1. PICK c \in {"safe", checkpoint[Id(a)]} : Returns(a, "stopped", "cancelled", c)
    BY <1>8 DEF LoopCancelled
  <2>2. checkpoint' \in [RunIds -> {"none", "ask", "safe"}]
    BY <2>1 DEF Returns
  <2> QED
    BY <2>1, <2>2 DEF Returns
<1>9. ASSUME NEW a \in Lives, StepCancelled(a) PROVE TypeOK'
  <2>1. PICK c \in {"safe", checkpoint[Id(a)]} : Returns(a, "stopped", "yielded", c)
    BY <1>9 DEF StepCancelled
  <2>2. checkpoint' \in [RunIds -> {"none", "ask", "safe"}]
    BY <2>1 DEF Returns
  <2> QED
    BY <2>1, <2>2 DEF Returns
<1>10. ASSUME NEW a \in Lives, LogStop(a) PROVE TypeOK'
  BY <1>10 DEF LogStop
<1>11. ASSUME NEW a \in Lives, RecordStop(a) PROVE TypeOK'
  BY <1>11 DEF RecordStop
<1>12. ASSUME NEW a \in Lives, Leave(a) PROVE TypeOK'
  BY <1>12 DEF Leave
<1>13. ASSUME NEW a \in Lives, AnswerTaken(a) PROVE TypeOK'
  BY <1>13 DEF AnswerTaken
<1>14. ASSUME NEW a \in Lives, AnswerRefused(a) PROVE TypeOK'
  BY <1>14 DEF AnswerRefused
<1>15. ASSUME NEW a \in Lives, AnswerLost(a) PROVE TypeOK'
  BY <1>15 DEF AnswerLost
<1>16. ASSUME NEW a \in Lives, StepOn(a) PROVE TypeOK'
  BY <1>16 DEF StepOn
<1>17. ASSUME NEW a \in Lives, StepStops(a) PROVE TypeOK'
  <2>1. ASSUME NEW p \in Phases, NEW v \in Verdicts, NEW c \in {"ask", "safe"},
               pc[a] = "step", v \in {"complete", "yielded", "awaiting_approval"},
               Returns(a, p, v, c)
        PROVE  TypeOK'
    BY <2>1 DEF Returns
  <2> QED
    BY <1>17, <2>1 DEF StepStops, Phases, Verdicts, Terminal
<1>18. ASSUME NEW a \in Lives, StepErrs(a) PROVE TypeOK'
  BY <1>18 DEF StepErrs, Returns
<1>19. CASE Terminate
  BY <1>19 DEF Terminate
<1>20. CASE CancelAll
  BY <1>20 DEF CancelAll
<1>21. CASE ReleaseParked
  BY <1>21 DEF ReleaseParked
<1>22. CASE Exit
  BY <1>22 DEF Exit, Die
<1>23. CASE Crash
  BY <1>23 DEF Crash, Die
<1>24. CASE Restart
  BY <1>24 DEF Restart, Reconciled
<1>25. CASE UNCHANGED vars
  BY <1>25
<1> QED
  BY <1>1, <1>2, <1>3, <1>4, <1>5, <1>6, <1>7, <1>8, <1>9, <1>10,
     <1>11, <1>12, <1>13, <1>14, <1>15, <1>16, <1>17, <1>18, <1>19, <1>20,
     <1>21, <1>22, <1>23, <1>24, <1>25
     DEF Next, Client, Drive, Step, Drain

-----------------------------------------------------------------------------
(* The map and its drivers.                                                *)

Map == Named /\ DriverStarted /\ BusyIsDriven /\ DriverIsNamed /\ DownIsEmpty

LEMMA MapInit == Init => Map
  BY DaemonAssumption DEF Init, Map, Named, DriverStarted, BusyIsDriven, DriverIsNamed,
     DownIsEmpty, Idle, Lives, None

LEMMA MapStep ==
    ASSUME TypeOK, Map, [Next]_vars
    PROVE  Map'
<1>. USE DaemonAssumption DEF TypeOK, Map, Named, DriverStarted, BusyIsDriven,
         DriverIsNamed, DownIsEmpty, Idle, Goto, Id, Lives, None, vars,
         memory, files
<1>1. ASSUME NEW i \in RunIds, StartReserve(i) PROVE Map'
  BY <1>1 DEF StartReserve, Serving
<1>2. ASSUME NEW i \in RunIds, AnswerReserve(i) PROVE Map'
  BY <1>2 DEF AnswerReserve, Serving
<1>3. ASSUME NEW i \in RunIds, Cancel(i) PROVE Map'
  BY <1>3 DEF Cancel, Serving
<1>4. ASSUME NEW a \in Lives, StartRecord(a) PROVE Map'
  BY <1>4 DEF StartRecord
<1>5. ASSUME NEW a \in Lives, StartEvent(a) PROVE Map'
  BY <1>5 DEF StartEvent
<1>6. ASSUME NEW a \in Lives, Execute(a) PROVE Map'
  BY <1>6 DEF Execute
<1>7. ASSUME NEW a \in Lives, LoopStep(a) PROVE Map'
  BY <1>7 DEF LoopStep
<1>8. ASSUME NEW a \in Lives, LoopCancelled(a) PROVE Map'
  BY <1>8 DEF LoopCancelled, Returns
<1>9. ASSUME NEW a \in Lives, StepCancelled(a) PROVE Map'
  BY <1>9 DEF StepCancelled, Returns
<1>10. ASSUME NEW a \in Lives, LogStop(a) PROVE Map'
  BY <1>10 DEF LogStop
<1>11. ASSUME NEW a \in Lives, RecordStop(a) PROVE Map'
  BY <1>11 DEF RecordStop
<1>12. ASSUME NEW a \in Lives, Leave(a) PROVE Map'
  <2>. DEFINE i == Id(a)
  <2>1. a <= lives /\ i \in RunIds /\ pc[a] = "leave" /\ pc' = [pc EXCEPT ![a] = "none"]
        /\ UNCHANGED <<mode, idOf, lives>>
    BY <1>12 DEF Map, DriverStarted, Leave, Goto
  <2>2. CASE verdict[a] = "awaiting_approval"
    <3>1. busy' = [busy EXCEPT ![a] = FALSE] /\ UNCHANGED runs
      BY <1>12, <2>2 DEF Leave
    <3> QED
      BY <2>1, <3>1, DaemonAssumption
      DEF TypeOK, Map, Named, DriverStarted, BusyIsDriven, DriverIsNamed, DownIsEmpty, Idle, Id, Lives, None
  <2>3. CASE verdict[a] # "awaiting_approval"
    <3>1. runs' = [runs EXCEPT ![i] = None] /\ UNCHANGED busy
      BY <1>12, <2>3 DEF Leave
    <3>2. Named'
      BY <2>1, <3>1, DaemonAssumption DEF TypeOK, Map, Named, Id, Lives, None
    <3>3. BusyIsDriven'
      BY <2>1, <3>1, DaemonAssumption DEF TypeOK, Map, Named, BusyIsDriven, Idle, Id, Lives, None
    <3>4. DriverIsNamed'
      BY <2>1, <3>1, DaemonAssumption DEF TypeOK, Map, DriverIsNamed, DriverStarted, Id, Lives, None
    <3>5. DriverStarted' /\ DownIsEmpty'
      BY <2>1, <3>1 DEF TypeOK, Map, DriverStarted, DownIsEmpty, Id
    <3> QED
      BY <3>2, <3>3, <3>4, <3>5 DEF Map
  <2> QED
    BY <2>2, <2>3
<1>13. ASSUME NEW a \in Lives, AnswerTaken(a) PROVE Map'
  BY <1>13 DEF AnswerTaken
<1>14. ASSUME NEW a \in Lives, AnswerRefused(a) PROVE Map'
  BY <1>14 DEF AnswerRefused
<1>15. ASSUME NEW a \in Lives, AnswerLost(a) PROVE Map'
  BY <1>15 DEF AnswerLost
<1>16. ASSUME NEW a \in Lives, StepOn(a) PROVE Map'
  BY <1>16 DEF StepOn
<1>17. ASSUME NEW a \in Lives, StepStops(a) PROVE Map'
  <2>1. ASSUME NEW p \in Phases, NEW v \in Verdicts, NEW c \in {"ask", "safe"},
               pc[a] = "step", v \in {"complete", "yielded", "awaiting_approval"},
               Returns(a, p, v, c)
        PROVE  Map'
    BY <2>1 DEF Returns
  <2> QED
    BY <1>17, <2>1 DEF StepStops, Phases, Verdicts, Terminal
<1>18. ASSUME NEW a \in Lives, StepErrs(a) PROVE Map'
  BY <1>18 DEF StepErrs, Returns
<1>19. CASE Terminate
  BY <1>19 DEF Terminate
<1>20. CASE CancelAll
  BY <1>20 DEF CancelAll
<1>21. CASE ReleaseParked
  BY <1>21 DEF ReleaseParked
<1>22. CASE Exit
  BY <1>22 DEF Exit, Die
<1>23. CASE Crash
  BY <1>23 DEF Crash, Die
<1>24. CASE Restart
  BY <1>24 DEF Restart, Reconciled
<1>25. CASE UNCHANGED vars
  BY <1>25
<1> QED
  BY <1>1, <1>2, <1>3, <1>4, <1>5, <1>6, <1>7, <1>8, <1>9, <1>10,
     <1>11, <1>12, <1>13, <1>14, <1>15, <1>16, <1>17, <1>18, <1>19, <1>20,
     <1>21, <1>22, <1>23, <1>24, <1>25
     DEF Next, Client, Drive, Step, Drain

-----------------------------------------------------------------------------
(* The records of a serving daemon.                                        *)

Honest == LeaveRecorded /\ RunningIsReal

LEMMA HonestInit == Init => Honest
  BY DEF Init, Honest, LeaveRecorded, RunningIsReal

LEMMA HonestStep ==
    ASSUME TypeOK, Map, Honest, [Next]_vars
    PROVE  Honest'
<1>. USE DaemonAssumption DEF TypeOK, Map, DriverStarted, DriverIsNamed,
         Honest, LeaveRecorded, RunningIsReal, Goto, Id, Lives, None,
         Locations, Phases, Verdicts, RecordStatus, Terminal, vars, memory,
         files
<1>1. ASSUME NEW i \in RunIds, StartReserve(i) PROVE Honest'
  BY <1>1 DEF StartReserve, Serving
<1>2. ASSUME NEW i \in RunIds, AnswerReserve(i) PROVE Honest'
  BY <1>2 DEF AnswerReserve, Serving
<1>3. ASSUME NEW i \in RunIds, Cancel(i) PROVE Honest'
  BY <1>3 DEF Cancel, Serving
<1>4. ASSUME NEW a \in Lives, StartRecord(a) PROVE Honest'
  <2>1. LeaveRecorded'
    <3>1. ASSUME NEW b \in Lives, mode # "unwinding", pc[b] = "leave" PROVE Id(b) # Id(a)
      BY <1>4, <3>1 DEF StartRecord
    <3> QED
      BY <1>4, <3>1 DEF StartRecord
  <2>2. RunningIsReal'
    BY <1>4 DEF StartRecord
  <2> QED
    BY <2>1, <2>2
<1>5. ASSUME NEW a \in Lives, StartEvent(a) PROVE Honest'
  BY <1>5 DEF StartEvent
<1>6. ASSUME NEW a \in Lives, Execute(a) PROVE Honest'
  BY <1>6 DEF Execute
<1>7. ASSUME NEW a \in Lives, LoopStep(a) PROVE Honest'
  BY <1>7 DEF LoopStep
<1>8. ASSUME NEW a \in Lives, LoopCancelled(a) PROVE Honest'
  BY <1>8 DEF LoopCancelled, Returns
<1>9. ASSUME NEW a \in Lives, StepCancelled(a) PROVE Honest'
  BY <1>9 DEF StepCancelled, Returns
<1>10. ASSUME NEW a \in Lives, LogStop(a) PROVE Honest'
  BY <1>10 DEF LogStop
<1>11. ASSUME NEW a \in Lives, RecordStop(a) PROVE Honest'
  BY <1>11 DEF RecordStop
<1>12. ASSUME NEW a \in Lives, Leave(a) PROVE Honest'
  <2>1. /\ mode # "unwinding" => record[Id(a)] = verdict[a]
        /\ verdict[a] # "running"
    BY <1>12 DEF Leave, Honest, LeaveRecorded, TypeOK, Verdicts, Terminal
  <2>2. LeaveRecorded'
    BY <1>12 DEF Leave, Honest, LeaveRecorded, TypeOK, Goto, Id, files
  <2>3. RunningIsReal'
    BY <1>12, <2>1 DEF Leave, Honest, RunningIsReal, TypeOK, Id, files
  <2> QED
    BY <2>2, <2>3 DEF Honest
<1>13. ASSUME NEW a \in Lives, AnswerTaken(a) PROVE Honest'
  BY <1>13 DEF AnswerTaken
<1>14. ASSUME NEW a \in Lives, AnswerRefused(a) PROVE Honest'
  BY <1>14 DEF AnswerRefused
<1>15. ASSUME NEW a \in Lives, AnswerLost(a) PROVE Honest'
  BY <1>15 DEF AnswerLost
<1>16. ASSUME NEW a \in Lives, StepOn(a) PROVE Honest'
  BY <1>16 DEF StepOn
<1>17. ASSUME NEW a \in Lives, StepStops(a) PROVE Honest'
  <2>1. ASSUME NEW p \in Phases, NEW v \in Verdicts, NEW c \in {"ask", "safe"},
               pc[a] = "step", v \in {"complete", "yielded", "awaiting_approval"},
               Returns(a, p, v, c)
        PROVE  Honest'
    BY <2>1 DEF Returns
  <2> QED
    BY <1>17, <2>1 DEF StepStops, Phases, Verdicts, Terminal
<1>18. ASSUME NEW a \in Lives, StepErrs(a) PROVE Honest'
  BY <1>18 DEF StepErrs, Returns
<1>19. CASE Terminate
  BY <1>19 DEF Terminate
<1>20. CASE CancelAll
  BY <1>20 DEF CancelAll
<1>21. CASE ReleaseParked
  BY <1>21 DEF ReleaseParked
<1>22. CASE Exit
  BY <1>22 DEF Exit, Die
<1>23. CASE Crash
  BY <1>23 DEF Crash, Die
<1>24. CASE Restart
  <2>1. LeaveRecorded'
    BY <1>24 DEF Restart, Map, DownIsEmpty, LeaveRecorded, memory
  <2>2. \A i \in RunIds : record'[i] # "running"
    BY <1>24 DEF Restart, Reconciled, TypeOK, RecordStatus, Verdicts, Terminal
  <2> QED
    BY <2>1, <2>2 DEF Honest, RunningIsReal
<1>25. CASE UNCHANGED vars
  BY <1>25
<1> QED
  BY <1>1, <1>2, <1>3, <1>4, <1>5, <1>6, <1>7, <1>8, <1>9, <1>10,
     <1>11, <1>12, <1>13, <1>14, <1>15, <1>16, <1>17, <1>18, <1>19, <1>20,
     <1>21, <1>22, <1>23, <1>24, <1>25
     DEF Next, Client, Drive, Step, Drain

-----------------------------------------------------------------------------
(* The timelines, as long as no run is started while a drain unwinds.      *)

Logged == \A i \in RunIds : record[i] \in Terminal => log[i] = "finished"

Quiet == DriverAlone /\ DriverRecord /\ IdleRecord /\ IdleAlone /\ Logged

LEMMA QuietInit == Init => Quiet
  BY DEF Init, Quiet, DriverAlone, DriverRecord, IdleRecord, IdleAlone, Logged,
     Idle, Terminal, None

LEMMA QuietStep ==
    ASSUME TypeOK, Map, Quiet, ~lateStart', [Next]_vars
    PROVE  Quiet'
<1>. USE DaemonAssumption DEF TypeOK, Map, Named, DriverStarted, BusyIsDriven,
         DriverIsNamed, DownIsEmpty, Quiet, DriverAlone, DriverRecord,
         IdleRecord, IdleAlone, Logged, Idle, Goto, Id, Lives, None,
         Locations, Phases, Verdicts, RecordStatus, Terminal, vars, memory,
         files
<1>1. ASSUME NEW i \in RunIds, StartReserve(i) PROVE Quiet'
  <2>. DEFINE n == lives + 1
  <2>m. mode # "unwinding"
    BY <1>1, Zenon DEF StartReserve
  <2>n. n \in Lives
    BY ONLY <1>1, TypeOK, DaemonAssumption DEF TypeOK, StartReserve, Lives
  <2>s. i \in RunIds /\ StartReserve(i)
    BY ONLY <1>1
  <2>. HIDE DEF n
  <2>0. /\ mode # "unwinding" /\ runs[i] = None /\ n \in Lives /\ i \in RunIds
        /\ idOf' = [idOf EXCEPT ![n] = i] /\ runs' = [runs EXCEPT ![i] = n]
        /\ pc' = [pc EXCEPT ![n] = "startRecord"]
        /\ UNCHANGED <<record, log, verdict>>
    BY ONLY <2>m, <2>n, <2>s DEF StartReserve, Goto, files, n
  <2>a. \A b \in Lives : pc[b] # "none" => b # n
    BY ONLY TypeOK, Map, DaemonAssumption DEF TypeOK, Map, DriverStarted, Lives, n
  <2>b. \A b \in Lives : pc[b] # "none" => Id(b) # i
    BY ONLY <2>0, TypeOK, Map DEF Map, DriverIsNamed, Id, Lives, None
  <2>c. \A j \in RunIds : runs[j] # n
    BY ONLY TypeOK, Map, DaemonAssumption DEF TypeOK, Map, Named, Lives, None, n
  <2>1. DriverAlone'
    BY ONLY <2>0, <2>a, <2>b, <2>c, TypeOK, Quiet
    DEF TypeOK, Quiet, DriverAlone, Id, None
  <2>2. DriverRecord'
    BY ONLY <2>0, <2>a, <2>b, <2>c, TypeOK, Quiet
    DEF TypeOK, Quiet, DriverRecord, Id, None
  <2>3. IdleRecord'
    BY ONLY <2>0, <2>a, <2>b, <2>c, TypeOK, Quiet
    DEF TypeOK, Quiet, IdleRecord, Idle, Id, None
  <2>4. IdleAlone'
    BY ONLY <2>0, <2>a, <2>b, <2>c, TypeOK, Quiet
    DEF TypeOK, Quiet, IdleAlone, Idle, Id, None
  <2>5. Logged'
    BY ONLY <2>0, TypeOK, Quiet DEF TypeOK, Quiet, Logged, Id, None
  <2> QED
    BY ONLY <2>1, <2>2, <2>3, <2>4, <2>5 DEF Quiet
<1>2. ASSUME NEW i \in RunIds, AnswerReserve(i) PROVE Quiet'
  BY <1>2 DEF AnswerReserve, Serving
<1>3. ASSUME NEW i \in RunIds, Cancel(i) PROVE Quiet'
  BY <1>3 DEF Cancel, Serving
<1>4. ASSUME NEW a \in Lives, StartRecord(a) PROVE Quiet'
  BY <1>4 DEF StartRecord
<1>5. ASSUME NEW a \in Lives, StartEvent(a) PROVE Quiet'
  <2>1. DriverAlone'
    BY <1>5 DEF StartEvent
  <2>2. DriverRecord'
    BY <1>5 DEF StartEvent
  <2>3. IdleRecord'
    BY <1>5 DEF StartEvent
  <2>4. IdleAlone'
    BY <1>5 DEF StartEvent
  <2>5. Logged'
    <3>1. record[Id(a)] \notin Terminal /\ UNCHANGED record
      BY <1>5 DEF StartEvent
    <3>2. \A i \in RunIds \ {Id(a)} : log'[i] = log[i]
      BY <1>5 DEF StartEvent
    <3> QED
      BY <3>1, <3>2
  <2> QED
    BY ONLY <2>1, <2>2, <2>3, <2>4, <2>5 DEF Quiet
<1>6. ASSUME NEW a \in Lives, Execute(a) PROVE Quiet'
  <2>1. DriverAlone'
    BY <1>6 DEF Execute
  <2>2. DriverRecord'
    BY ONLY <1>6, a \in Lives, TypeOK, Quiet DEF TypeOK, Quiet, DriverRecord, Execute, Goto, Id,
       Locations, files
  <2>3. IdleRecord'
    BY <1>6 DEF Execute
  <2>4. IdleAlone'
    BY <1>6 DEF Execute
  <2>5. Logged'
    BY <1>6 DEF Execute
  <2> QED
    BY ONLY <2>1, <2>2, <2>3, <2>4, <2>5 DEF Quiet
<1>7. ASSUME NEW a \in Lives, LoopStep(a) PROVE Quiet'
  BY <1>7, SMTT(60) DEF LoopStep
<1>8. ASSUME NEW a \in Lives, LoopCancelled(a) PROVE Quiet'
  BY <1>8 DEF LoopCancelled, Returns
<1>9. ASSUME NEW a \in Lives, StepCancelled(a) PROVE Quiet'
  BY <1>9 DEF StepCancelled, Returns
<1>10. ASSUME NEW a \in Lives, LogStop(a) PROVE Quiet'
  <2>1. DriverAlone'
    BY <1>10 DEF LogStop
  <2>2. DriverRecord'
    BY <1>10 DEF LogStop
  <2>3. IdleRecord'
    BY <1>10 DEF LogStop
  <2>4. IdleAlone'
    BY <1>10 DEF LogStop
  <2>5. Logged'
    <3>1. record[Id(a)] \notin Terminal /\ UNCHANGED record
      BY <1>10 DEF LogStop
    <3>2. \A i \in RunIds \ {Id(a)} : log'[i] = log[i]
      BY <1>10 DEF LogStop
    <3> QED
      BY <3>1, <3>2
  <2> QED
    BY ONLY <2>1, <2>2, <2>3, <2>4, <2>5 DEF Quiet
<1>11. ASSUME NEW a \in Lives, RecordStop(a) PROVE Quiet'
  BY <1>11 DEF RecordStop
<1>12. ASSUME NEW a \in Lives, Leave(a) PROVE Quiet'
  BY <1>12 DEF Leave
<1>13. ASSUME NEW a \in Lives, AnswerTaken(a) PROVE Quiet'
  BY <1>13 DEF AnswerTaken
<1>14. ASSUME NEW a \in Lives, AnswerRefused(a) PROVE Quiet'
  BY <1>14 DEF AnswerRefused
<1>15. ASSUME NEW a \in Lives, AnswerLost(a) PROVE Quiet'
  BY <1>15 DEF AnswerLost
<1>16. ASSUME NEW a \in Lives, StepOn(a) PROVE Quiet'
  BY <1>16, SMTT(60) DEF StepOn
<1>17. ASSUME NEW a \in Lives, StepStops(a) PROVE Quiet'
  <2>1. ASSUME NEW p \in Phases, NEW v \in Verdicts, NEW c \in {"ask", "safe"},
               pc[a] = "step", v \in {"complete", "yielded", "awaiting_approval"},
               Returns(a, p, v, c)
        PROVE  Quiet'
    BY <2>1, SMTT(60) DEF Returns
  <2> QED
    BY <1>17, <2>1 DEF StepStops, Phases, Verdicts, Terminal
<1>18. ASSUME NEW a \in Lives, StepErrs(a) PROVE Quiet'
  BY <1>18 DEF StepErrs, Returns
<1>19. CASE Terminate
  BY <1>19 DEF Terminate
<1>20. CASE CancelAll
  BY <1>20 DEF CancelAll
<1>21. CASE ReleaseParked
  BY <1>21 DEF ReleaseParked
<1>22. CASE Exit
  BY <1>22 DEF Exit, Die
<1>23. CASE Crash
  BY <1>23 DEF Crash, Die
<1>24. CASE Restart
  BY <1>24 DEF Restart, Reconciled
<1>25. CASE UNCHANGED vars
  BY <1>25
<1> QED
  BY <1>1, <1>2, <1>3, <1>4, <1>5, <1>6, <1>7, <1>8, <1>9, <1>10,
     <1>11, <1>12, <1>13, <1>14, <1>15, <1>16, <1>17, <1>18, <1>19, <1>20,
     <1>21, <1>22, <1>23, <1>24, <1>25
     DEF Next, Client, Drive, Step, Drain

-----------------------------------------------------------------------------
(* Runs that wait for an answer.                                           *)

\* A life on its way to park, parked, or with an answer being resolved: its
\* checkpoint asks, and so does its timeline once LogStop is past.
Parking ==
    /\ \A a \in Lives :
          /\ (pc[a] \in {"event", "record", "leave"} /\ verdict[a] = "awaiting_approval")
                => phase[a] = "ask" /\ checkpoint[Id(a)] = "ask"
          /\ (pc[a] \in {"record", "leave"} /\ verdict[a] = "awaiting_approval")
                => log[Id(a)] = "paused"
          /\ pc[a] = "resolve" =>
                phase[a] \in {"ask", "lost"} /\ checkpoint[Id(a)] = "ask" /\ log[Id(a)] = "paused"
    /\ \A i \in RunIds : Idle(i) =>
          phase[runs[i]] \in {"ask", "lost"} /\ checkpoint[i] = "ask" /\ log[i] = "paused"

LEMMA ParkInit == Init => Parking
  BY DEF Init, Parking, Idle, None

LEMMA ParkStep ==
    ASSUME TypeOK, Map, Quiet, Parking, ~lateStart', [Next]_vars
    PROVE  Parking'
<1>. USE DaemonAssumption DEF TypeOK, Map, Named, DriverStarted, BusyIsDriven,
         DriverIsNamed, DownIsEmpty, Quiet, DriverAlone,
         IdleAlone, Idle, Parking, Goto, Id, Lives, None,
         Locations, Phases, Verdicts, Terminal, vars, memory, files
<1>1. ASSUME NEW i \in RunIds, StartReserve(i) PROVE Parking'
  BY <1>1 DEF StartReserve, Serving
<1>2. ASSUME NEW i \in RunIds, AnswerReserve(i) PROVE Parking'
  BY <1>2 DEF AnswerReserve, Serving
<1>3. ASSUME NEW i \in RunIds, Cancel(i) PROVE Parking'
  BY <1>3 DEF Cancel, Serving
<1>4. ASSUME NEW a \in Lives, StartRecord(a) PROVE Parking'
  BY <1>4 DEF StartRecord
<1>5. ASSUME NEW a \in Lives, StartEvent(a) PROVE Parking'
  BY <1>5 DEF StartEvent
<1>6. ASSUME NEW a \in Lives, Execute(a) PROVE Parking'
  BY <1>6 DEF Execute
<1>7. ASSUME NEW a \in Lives, LoopStep(a) PROVE Parking'
  BY <1>7 DEF LoopStep
<1>8. ASSUME NEW a \in Lives, LoopCancelled(a) PROVE Parking'
  BY <1>8 DEF LoopCancelled, Returns
<1>9. ASSUME NEW a \in Lives, StepCancelled(a) PROVE Parking'
  BY <1>9 DEF StepCancelled, Returns
<1>10. ASSUME NEW a \in Lives, LogStop(a) PROVE Parking'
  BY <1>10 DEF LogStop
<1>11. ASSUME NEW a \in Lives, RecordStop(a) PROVE Parking'
  BY <1>11 DEF RecordStop
<1>12. ASSUME NEW a \in Lives, Leave(a) PROVE Parking'
  BY <1>12 DEF Leave
<1>13. ASSUME NEW a \in Lives, AnswerTaken(a) PROVE Parking'
  BY <1>13 DEF AnswerTaken
<1>14. ASSUME NEW a \in Lives, AnswerRefused(a) PROVE Parking'
  BY <1>14 DEF AnswerRefused
<1>15. ASSUME NEW a \in Lives, AnswerLost(a) PROVE Parking'
  BY <1>15 DEF AnswerLost
<1>16. ASSUME NEW a \in Lives, StepOn(a) PROVE Parking'
  BY <1>16 DEF StepOn
<1>17. ASSUME NEW a \in Lives, StepStops(a) PROVE Parking'
  BY <1>17 DEF StepStops, Returns
<1>18. ASSUME NEW a \in Lives, StepErrs(a) PROVE Parking'
  BY <1>18 DEF StepErrs, Returns
<1>19. CASE Terminate
  BY <1>19 DEF Terminate
<1>20. CASE CancelAll
  BY <1>20 DEF CancelAll
<1>21. CASE ReleaseParked
  BY <1>21 DEF ReleaseParked
<1>22. CASE Exit
  BY <1>22 DEF Exit, Die
<1>23. CASE Crash
  BY <1>23 DEF Crash, Die
<1>24. CASE Restart
  BY <1>24 DEF Restart, Reconciled
<1>25. CASE UNCHANGED vars
  BY <1>25
<1> QED
  BY <1>1, <1>2, <1>3, <1>4, <1>5, <1>6, <1>7, <1>8, <1>9, <1>10,
     <1>11, <1>12, <1>13, <1>14, <1>15, <1>16, <1>17, <1>18, <1>19, <1>20,
     <1>21, <1>22, <1>23, <1>24, <1>25
     DEF Next, Client, Drive, Step, Drain

-----------------------------------------------------------------------------
(* Answers that were taken.                                                *)

Started(i)  == \E a \in 1..lives : Id(a) = i
OnlyLife(a) == \A b \in 1..lives : Id(b) = Id(a) => b = a

\* No checkpoint of the id asks, and once the id is out of the map its record
\* does not ask either.
NotAsked(i) ==
    /\ checkpoint[i] # "ask"
    /\ mode = "serving" /\ runs[i] = None => record[i] # "awaiting_approval"

\* This holds for the only life of an id that has nothing to ask, and for an id
\* that was never started.
Answered ==
    /\ \A a \in 1..lives : Id(a) \in RunIds
    /\ \A i \in RunIds : ~Started(i) => checkpoint[i] = "none" /\ record[i] = "absent"
    /\ \A a \in 1..lives : OnlyLife(a) /\ phase[a] \notin {"ask", "lost"} => NotAsked(Id(a))

\* A life has no runner before execute, and none that has stopped while it loops.
Phased ==
    /\ \A a \in Lives : a > lives => phase[a] = "none"
    /\ \A a \in Lives :
          /\ pc[a] \in {"startRecord", "startEvent", "execute"} => phase[a] = "none"
          /\ pc[a] \in {"loop", "step"} => phase[a] = "going"

LEMMA PhasedInit == Init => Phased
  BY DEF Init, Phased

LEMMA PhasedStep ==
    ASSUME TypeOK, Map, Phased, [Next]_vars
    PROVE  Phased'
<1>. USE DaemonAssumption DEF TypeOK, Map, DriverStarted, Phased, Goto, Lives, vars, memory
<1>1. ASSUME NEW i \in RunIds, StartReserve(i) PROVE Phased'
  BY <1>1 DEF StartReserve, Serving
<1>2. ASSUME NEW i \in RunIds, AnswerReserve(i) PROVE Phased'
  BY <1>2 DEF AnswerReserve, Serving
<1>3. ASSUME NEW i \in RunIds, Cancel(i) PROVE Phased'
  BY <1>3 DEF Cancel, Serving
<1>4. ASSUME NEW a \in Lives, StartRecord(a) PROVE Phased'
  BY <1>4 DEF StartRecord
<1>5. ASSUME NEW a \in Lives, StartEvent(a) PROVE Phased'
  BY <1>5 DEF StartEvent
<1>6. ASSUME NEW a \in Lives, Execute(a) PROVE Phased'
  BY <1>6 DEF Execute
<1>7. ASSUME NEW a \in Lives, LoopStep(a) PROVE Phased'
  BY <1>7 DEF LoopStep
<1>8. ASSUME NEW a \in Lives, LoopCancelled(a) PROVE Phased'
  BY <1>8 DEF LoopCancelled, Returns
<1>9. ASSUME NEW a \in Lives, StepCancelled(a) PROVE Phased'
  BY <1>9 DEF StepCancelled, Returns
<1>10. ASSUME NEW a \in Lives, LogStop(a) PROVE Phased'
  BY <1>10 DEF LogStop
<1>11. ASSUME NEW a \in Lives, RecordStop(a) PROVE Phased'
  BY <1>11 DEF RecordStop
<1>12. ASSUME NEW a \in Lives, Leave(a) PROVE Phased'
  BY <1>12 DEF Leave
<1>13. ASSUME NEW a \in Lives, AnswerTaken(a) PROVE Phased'
  BY <1>13 DEF AnswerTaken
<1>14. ASSUME NEW a \in Lives, AnswerRefused(a) PROVE Phased'
  BY <1>14 DEF AnswerRefused
<1>15. ASSUME NEW a \in Lives, AnswerLost(a) PROVE Phased'
  BY <1>15 DEF AnswerLost
<1>16. ASSUME NEW a \in Lives, StepOn(a) PROVE Phased'
  BY <1>16 DEF StepOn
<1>17. ASSUME NEW a \in Lives, StepStops(a) PROVE Phased'
  <2>1. ASSUME NEW p, NEW v, NEW c, pc[a] = "step", Returns(a, p, v, c) PROVE Phased'
    BY <2>1 DEF Returns
  <2> QED
    BY <1>17, <2>1 DEF StepStops
<1>18. ASSUME NEW a \in Lives, StepErrs(a) PROVE Phased'
  BY <1>18 DEF StepErrs, Returns
<1>19. CASE Terminate
  BY <1>19 DEF Terminate
<1>20. CASE CancelAll
  BY <1>20 DEF CancelAll
<1>21. CASE ReleaseParked
  BY <1>21 DEF ReleaseParked
<1>22. CASE Exit
  BY <1>22 DEF Exit, Die
<1>23. CASE Crash
  BY <1>23 DEF Crash, Die
<1>24. CASE Restart
  BY <1>24 DEF Restart, Reconciled
<1>25. CASE UNCHANGED vars
  BY <1>25
<1> QED
  BY <1>1, <1>2, <1>3, <1>4, <1>5, <1>6, <1>7, <1>8, <1>9, <1>10,
     <1>11, <1>12, <1>13, <1>14, <1>15, <1>16, <1>17, <1>18, <1>19, <1>20,
     <1>21, <1>22, <1>23, <1>24, <1>25
     DEF Next, Client, Drive, Step, Drain

LEMMA AnsweredInit == Init => Answered
  BY DEF Init, Answered, Started

\* A step that starts no life and touches no id that was never started.
LEMMA AnsweredFrame ==
    ASSUME TypeOK, Answered, UNCHANGED <<lives, idOf>>,
           \A i \in RunIds : ~Started(i) => checkpoint'[i] = checkpoint[i] /\ record'[i] = record[i],
           \A a \in 1..lives : OnlyLife(a) /\ phase'[a] \notin {"ask", "lost"} => NotAsked(Id(a))'
    PROVE  Answered'
<1>1. \A i \in RunIds : Started(i)' = Started(i)
  BY DEF Started, Id
<1>2. \A a \in 1..lives : OnlyLife(a)' = OnlyLife(a) /\ Id(a)' = Id(a)
  BY DEF OnlyLife, Id
<1> QED
  BY <1>1, <1>2 DEF Answered

\* A goroutine drives a life that was started.
LEMMA DriverKnown ==
    ASSUME TypeOK, Map, NEW a \in Lives, pc[a] # "none"
    PROVE  a \in 1..lives /\ Id(a) \in RunIds /\ Started(Id(a))
  BY DaemonAssumption DEF TypeOK, Map, DriverStarted, Started, Lives

LEMMA AnsweredStart ==
    ASSUME TypeOK, Map, Phased, Answered, NEW i \in RunIds, StartReserve(i)
    PROVE  Answered'
<1>0. PICK n : n = lives + 1
  OBVIOUS
<1>1. /\ n \in Lives /\ lives' = n /\ idOf' = [idOf EXCEPT ![n] = i]
      /\ runs' = [runs EXCEPT ![i] = n]
      /\ UNCHANGED <<mode, phase, record, checkpoint>>
  BY <1>0, DaemonAssumption DEF StartReserve, TypeOK, Lives, files
<1>2. 1..lives' = 1..lives \cup {n} /\ n \notin 1..lives /\ 1..lives \subseteq Lives
  BY <1>0, <1>1, DaemonAssumption DEF TypeOK, Lives
<1>3. Id(n)' = i /\ \A a \in 1..lives : Id(a)' = Id(a)
  BY <1>1, <1>2 DEF Id, TypeOK
<1>4. \A a \in 1..lives' : Id(a)' \in RunIds
  BY <1>2, <1>3 DEF Answered
<1>5. ASSUME NEW j \in RunIds, ~Started(j)' PROVE checkpoint'[j] = "none" /\ record'[j] = "absent"
  <2>1. ~Started(j)
    BY <1>5, <1>2, <1>3 DEF Started
  <2> QED
    BY <2>1, <1>1 DEF Answered
<1>6. ASSUME NEW a \in 1..lives', OnlyLife(a)', phase'[a] \notin {"ask", "lost"}
      PROVE  NotAsked(Id(a))'
  <2>1. CASE a = n
    <3>1. ~Started(i)
      BY <1>6, <2>1, <1>2, <1>3 DEF OnlyLife, Started
    <3> QED
      BY <3>1, <2>1, <1>1, <1>3 DEF Answered, NotAsked
  <2>2. CASE a \in 1..lives /\ Id(a) # i
    <3>1. OnlyLife(a)
      BY <1>6, <2>2, <1>2, <1>3 DEF OnlyLife
    <3>2. NotAsked(Id(a))
      BY <1>6, <2>2, <3>1, <1>1 DEF Answered
    <3>3. runs'[Id(a)] = runs[Id(a)]
      BY <2>2, <1>1 DEF TypeOK
    <3> QED
      BY <2>2, <3>2, <3>3, <1>1, <1>3 DEF NotAsked
  <2>3. CASE a \in 1..lives /\ Id(a) = i
    BY <1>6, <2>3, <1>2, <1>3 DEF OnlyLife
  <2> QED
    BY <2>1, <2>2, <2>3, <1>2
<1>7. Answered' <=> /\ \A a \in 1..lives' : Id(a)' \in RunIds
                    /\ \A j \in RunIds : ~Started(j)' => checkpoint'[j] = "none" /\ record'[j] = "absent"
                    /\ \A a \in 1..lives' : OnlyLife(a)' /\ phase'[a] \notin {"ask", "lost"}
                          => NotAsked(Id(a))'
  BY DEF Answered
<1> QED
  BY <1>4, <1>5, <1>6, <1>7

\* A driver moves: its life's phase, its id's record or checkpoint may change.
LEMMA AnsweredDrive ==
    ASSUME TypeOK, Map, LeaveRecorded, Phased, Answered, NEW a \in Lives, Drive(a) \/ Step(a)
    PROVE  Answered'
<1>. USE DEF Goto, Returns
<1>0. pc[a] # "none" /\ UNCHANGED <<mode, lives, idOf>>
  BY DEF Drive, Step, StartRecord, StartEvent, Execute, LoopStep, LoopCancelled, StepCancelled,
     LogStop, RecordStop, Leave, AnswerTaken, AnswerRefused, AnswerLost, StepOn, StepStops, StepErrs
<1>1. a \in 1..lives /\ Id(a) \in RunIds /\ Started(Id(a))
  BY <1>0, DriverKnown
<1>2. mode = "serving" => runs[Id(a)] = a
  BY <1>0 DEF Map, DriverIsNamed
<1>3. mode = "serving" /\ pc[a] = "leave" => record[Id(a)] = verdict[a]
  BY DEF LeaveRecorded
<1>4. 1..lives \subseteq Lives /\ a # None
  BY DaemonAssumption, <1>1 DEF TypeOK, Lives, None
<1>5. /\ \E c : checkpoint' = [checkpoint EXCEPT ![Id(a)] = c]
      /\ \E r : record' = [record EXCEPT ![Id(a)] = r]
      /\ \E p : phase' = [phase EXCEPT ![a] = p]
      /\ \E m : runs' = [runs EXCEPT ![Id(a)] = m]
  <2>1. /\ checkpoint = [checkpoint EXCEPT ![Id(a)] = checkpoint[Id(a)]]
        /\ record = [record EXCEPT ![Id(a)] = record[Id(a)]]
        /\ phase = [phase EXCEPT ![a] = phase[a]]
        /\ runs = [runs EXCEPT ![Id(a)] = runs[Id(a)]]
    BY <1>1 DEF TypeOK
  <2>2. checkpoint' = checkpoint \/ \E c : checkpoint' = [checkpoint EXCEPT ![Id(a)] = c]
    BY DEF Drive, Step, StartRecord, StartEvent, Execute, LoopStep, LoopCancelled, StepCancelled,
       LogStop, RecordStop, Leave, AnswerTaken, AnswerRefused, AnswerLost, StepOn, StepStops,
       StepErrs, files
  <2>3. record' = record \/ \E r : record' = [record EXCEPT ![Id(a)] = r]
    BY DEF Drive, Step, StartRecord, StartEvent, Execute, LoopStep, LoopCancelled, StepCancelled,
       LogStop, RecordStop, Leave, AnswerTaken, AnswerRefused, AnswerLost, StepOn, StepStops,
       StepErrs, files
  <2>4. phase' = phase \/ \E p : phase' = [phase EXCEPT ![a] = p]
    BY DEF Drive, Step, StartRecord, StartEvent, Execute, LoopStep, LoopCancelled, StepCancelled,
       LogStop, RecordStop, Leave, AnswerTaken, AnswerRefused, AnswerLost, StepOn, StepStops,
       StepErrs
  <2>5. runs' = runs \/ \E m : runs' = [runs EXCEPT ![Id(a)] = m]
    BY DEF Drive, Step, StartRecord, StartEvent, Execute, LoopStep, LoopCancelled, StepCancelled,
       LogStop, RecordStop, Leave, AnswerTaken, AnswerRefused, AnswerLost, StepOn, StepStops,
       StepErrs
  <2> QED
    BY <2>1, <2>2, <2>3, <2>4, <2>5
<1>6. \A i \in RunIds : i # Id(a) =>
         checkpoint'[i] = checkpoint[i] /\ record'[i] = record[i] /\ runs'[i] = runs[i]
  BY <1>5 DEF TypeOK
<1>7. ASSUME NEW b \in 1..lives, OnlyLife(b), phase'[b] \notin {"ask", "lost"}
      PROVE  NotAsked(Id(b))'
  <2>0. Id(b)' = Id(b) /\ Id(b) \in RunIds
    BY <1>0 DEF Id, Answered
  <2>1. CASE Id(b) # Id(a)
    <3>1. phase'[b] = phase[b]
      BY <2>1, <1>5, <1>4 DEF TypeOK
    <3>2. NotAsked(Id(b))
      BY <1>7, <3>1 DEF Answered
    <3> QED
      BY <3>2, <2>0, <2>1, <1>6, <1>0 DEF NotAsked
  <2>2. CASE Id(b) = Id(a)
    <3>1. b = a
      BY <1>1, <1>7, <2>2 DEF OnlyLife
    <3>2. checkpoint'[Id(a)] # "ask"
      <4>1. \/ UNCHANGED <<phase, checkpoint>>
            \/ checkpoint' = [checkpoint EXCEPT ![Id(a)] = "safe"]
            \/ phase[a] \notin {"ask", "lost"} /\ UNCHANGED checkpoint
            \/ phase[a] \notin {"ask", "lost"}
                  /\ checkpoint' = [checkpoint EXCEPT ![Id(a)] = checkpoint[Id(a)]]
            \/ phase' = [phase EXCEPT ![a] = "ask"] \/ phase' = [phase EXCEPT ![a] = "lost"]
        BY DEF Phased, Drive, Step, StartRecord, StartEvent, Execute, LoopStep, LoopCancelled,
           StepCancelled, LogStop, RecordStop, Leave, AnswerTaken, AnswerRefused, AnswerLost,
           StepOn, StepStops, StepErrs, files
      <4>2. phase[a] \notin {"ask", "lost"} => checkpoint[Id(a)] # "ask"
        BY <1>7, <3>1 DEF Answered, NotAsked
      <4> QED
        BY <4>1, <4>2, <1>1, <1>7, <3>1 DEF TypeOK
    <3>3. mode = "serving" /\ runs'[Id(a)] = None => record'[Id(a)] # "awaiting_approval"
      <4>1. mode = "serving" /\ runs'[Id(a)] = None =>
              pc[a] = "leave" /\ verdict[a] # "awaiting_approval" /\ record' = record
        BY <1>1, <1>2, <1>4 DEF Drive, Step, StartRecord, StartEvent, Execute, LoopStep,
           LoopCancelled, StepCancelled, LogStop, RecordStop, Leave, AnswerTaken, AnswerRefused,
           AnswerLost, StepOn, StepStops, StepErrs, files, TypeOK
      <4> QED
        BY <4>1, <1>3
    <3> QED
      BY <3>2, <3>3, <2>0, <2>2, <1>0 DEF NotAsked
  <2> QED
    BY <2>1, <2>2
<1> QED
  BY <1>0, <1>1, <1>6, <1>7, AnsweredFrame

LEMMA AnsweredStep ==
    ASSUME TypeOK, Map, LeaveRecorded, Phased, Answered, [Next]_vars
    PROVE  Answered'
<1>1. ASSUME NEW i \in RunIds, StartReserve(i) PROVE Answered'
  BY <1>1, AnsweredStart
<1>2. ASSUME NEW a \in Lives, Drive(a) \/ Step(a) PROVE Answered'
  BY <1>2, AnsweredDrive
<1>3. ASSUME UNCHANGED <<runs, lives, idOf, phase, record, checkpoint>>, mode' # "serving" \/ mode' = mode
      PROVE  Answered'
  <2>1. \A a \in 1..lives : Id(a)' = Id(a) /\ (NotAsked(Id(a)) => NotAsked(Id(a))')
    BY <1>3 DEF NotAsked, Id
  <2> QED
    BY <1>3, <2>1, AnsweredFrame DEF Answered
<1>4. CASE ReleaseParked \/ Exit \/ Crash
  <2>1. mode' # "serving" /\ UNCHANGED <<lives, idOf, phase, record, checkpoint>>
    BY <1>4 DEF ReleaseParked, Exit, Crash, Die, files
  <2>2. \A a \in 1..lives : Id(a)' = Id(a) /\ (NotAsked(Id(a)) => NotAsked(Id(a))')
    BY <2>1 DEF NotAsked, Id
  <2> QED
    BY <2>1, <2>2, AnsweredFrame DEF Answered
<1>5. CASE Restart
  <2>1. /\ UNCHANGED <<lives, idOf, phase, checkpoint>>
        /\ \A i \in RunIds : record'[i] = Reconciled(i)
    BY <1>5 DEF Restart, memory
  <2>2. \A i \in RunIds : ~Started(i) => checkpoint'[i] = checkpoint[i] /\ record'[i] = record[i]
    BY <2>1 DEF Answered, Reconciled
  <2>3. ASSUME NEW a \in 1..lives, OnlyLife(a), phase'[a] \notin {"ask", "lost"}
        PROVE  NotAsked(Id(a))'
    <3>1. Id(a)' = Id(a) /\ Id(a) \in RunIds /\ checkpoint[Id(a)] # "ask"
      BY <2>1, <2>3 DEF Answered, NotAsked, Id
    <3>2. record'[Id(a)] # "awaiting_approval"
      BY <2>1, <3>1 DEF Reconciled, Terminal
    <3> QED
      BY <2>1, <3>1, <3>2 DEF NotAsked
  <2> QED
    BY <2>1, <2>2, <2>3, AnsweredFrame
<1>6. CASE Terminate \/ CancelAll \/ \E i \in RunIds : AnswerReserve(i) \/ Cancel(i)
  BY <1>6, <1>3 DEF Terminate, CancelAll, AnswerReserve, Cancel, memory, files
<1>7. CASE UNCHANGED vars
  BY <1>7, <1>3 DEF vars, memory, files
<1> QED
  BY <1>1, <1>2, <1>4, <1>5, <1>6, <1>7 DEF Next, Client, Drain

\* A late start is remembered.
LEMMA LateStays == lateStart /\ [Next]_vars => lateStart'
  BY DEF Next, Client, Drive, Step, Drain, StartReserve, AnswerReserve, Cancel, StartRecord,
     StartEvent, Execute, LoopStep, LoopCancelled, StepCancelled, LogStop, RecordStop, Leave,
     AnswerTaken, AnswerRefused, AnswerLost, StepOn, StepStops, StepErrs, Returns, Terminate,
     CancelAll, ReleaseParked, Exit, Crash, Die, Restart, vars

-----------------------------------------------------------------------------
(* The promise to clients: DaemonRuns implements RunLifecycle.             *)

LEMMA HoldInit == Init => \A i \in RunIds : Hold(i) = "free"
<1>. SUFFICES ASSUME Init, NEW i \in RunIds PROVE Hold(i) = "free"
  OBVIOUS
<1>1. runs[i] = None /\ \A a \in Lives : pc[a] = "none"
  BY DEF Init
<1> QED
  BY <1>1 DEF Hold

\* A step that moves no goroutine into or out of the reservation.
LEMMA HoldFrame ==
    ASSUME UNCHANGED <<runs, idOf>>,
           \A b \in Lives : /\ pc'[b] = "none" <=> pc[b] = "none"
                            /\ pc'[b] = "startRecord" <=> pc[b] = "startRecord"
    PROVE  \A i \in RunIds : Hold(i)' = Hold(i)
  BY DEF Hold, Id

\* What a step does to one id is a step of the promise.
LEMMA SameStep ==
    ASSUME UNCHANGED <<record, lateStart>>, \A i \in RunIds : Hold(i)' = Hold(i)
    PROVE  UNCHANGED Lifecycle!vars
  BY DEF Lifecycle!vars

LEMMA LeaveMaps ==
    ASSUME UNCHANGED <<record, lateStart>>,
           \A i \in RunIds : \/ Hold(i)' = Hold(i)
                             \/ Hold(i) = "held" /\ Hold(i)' = "free" /\ record[i] \in Verdicts
    PROVE  Lifecycle!Next
<1>. DEFINE left == {i \in RunIds : Hold(i) = "held" /\ Hold(i)' = "free" /\ record[i] \in Verdicts}
<1>1. [i \in RunIds |-> Hold(i)]' =
        [i \in RunIds |-> IF i \in left THEN "free" ELSE [j \in RunIds |-> Hold(j)][i]]
  OBVIOUS
<1>2. left \in SUBSET {i \in RunIds : [j \in RunIds |-> Hold(j)][i] = "held"
                                         /\ record[i] \in Lifecycle!Verdicts}
  BY DEF Verdicts, Terminal, Lifecycle!Verdicts
<1>. HIDE DEF left
<1>3. Lifecycle!Leave
  BY <1>1, <1>2 DEF Lifecycle!Leave
<1> QED
  BY <1>3 DEF Lifecycle!Next, Lifecycle!Strict

\* A driver that reaches its end gives up its id or leaves it to the map.
LEMMA EndMaps ==
    ASSUME TypeOK, Map, Quiet, NEW a \in Lives,
           pc[a] \notin {"none", "startRecord"}, pc' = [pc EXCEPT ![a] = "none"],
           UNCHANGED <<idOf, record, lateStart>>, record[Id(a)] \in Verdicts,
           runs' = runs \/ runs' = [runs EXCEPT ![Id(a)] = None]
    PROVE  Lifecycle!Next
<1>1. Id(a) \in RunIds /\ \A b \in Lives : Id(b)' = Id(b)
  BY DEF Map, DriverStarted, Id
<1>2. \A b \in Lives : pc[b] # "none" /\ Id(b) = Id(a) => b = a
  BY DEF Quiet, DriverAlone
<1>3. Hold(Id(a)) = "held"
  BY <1>1, <1>2 DEF Hold
<1>4. \A b \in Lives : pc'[b] = "none" \/ Id(b) # Id(a)
  BY <1>2 DEF TypeOK
<1>5. \A b \in Lives : Id(b) # Id(a) => pc'[b] = pc[b]
  BY DEF TypeOK
<1>6. ASSUME NEW i \in RunIds, i = Id(a) PROVE Hold(i)' \in {"held", "free"}
  BY <1>1, <1>4, <1>6 DEF Hold
<1>7. ASSUME NEW i \in RunIds, i # Id(a) PROVE Hold(i)' = Hold(i)
  <2>1. runs'[i] = runs[i]
    BY <1>1, <1>7 DEF TypeOK
  <2> QED
    BY <2>1, <1>1, <1>5, <1>7 DEF Hold
<1> QED
  BY <1>1, <1>3, <1>6, <1>7, LeaveMaps

LEMMA BeginMaps ==
    ASSUME TypeOK, Map, NEW i \in RunIds, StartReserve(i), ~lateStart'
    PROVE  Lifecycle!Next
<1>0. PICK n : n = lives + 1
  OBVIOUS
<1>1. /\ n \in Lives /\ n # None /\ idOf' = [idOf EXCEPT ![n] = i]
      /\ runs' = [runs EXCEPT ![i] = n] /\ pc' = [pc EXCEPT ![n] = "startRecord"]
      /\ runs[i] = None /\ mode # "unwinding" /\ UNCHANGED <<record, lateStart>>
  <2>1. lateStart' = (lateStart \/ mode = "unwinding")
    BY DEF StartReserve
  <2>2. mode # "unwinding" /\ lateStart' = lateStart
    BY <2>1, Zenon DEF TypeOK
  <2> QED
    BY <1>0, <2>2, DaemonAssumption DEF StartReserve, TypeOK, Lives, files, Goto, None
<1>2. pc[n] = "none"
  BY <1>0, <1>1, DaemonAssumption DEF Map, DriverStarted, TypeOK, Lives
<1>3. \A b \in Lives : pc[b] # "none" => Id(b) # i
  BY <1>1, DaemonAssumption DEF Map, DriverIsNamed, None, Lives
<1>4. /\ Id(n)' = i /\ pc'[n] = "startRecord"
      /\ \A b \in Lives : b # n => Id(b)' = Id(b) /\ pc'[b] = pc[b]
  BY <1>1 DEF Id, TypeOK
<1>5. Hold(i) = "free"
  BY <1>1, <1>3 DEF Hold
<1>6. Hold(i)' = "begun"
  BY <1>1, <1>4 DEF Hold
<1>7. ASSUME NEW j \in RunIds, j # i PROVE Hold(j)' = Hold(j)
  <2>1. runs'[j] = runs[j]
    BY <1>1, <1>7 DEF TypeOK
  <2> QED
    BY <2>1, <1>1, <1>2, <1>4, <1>7 DEF Hold
<1>8. /\ [j \in RunIds |-> Hold(j)][i] = "free"
      /\ [j \in RunIds |-> Hold(j)]' = [[j \in RunIds |-> Hold(j)] EXCEPT ![i] = "begun"]
  BY <1>5, <1>6, <1>7
<1>9. Lifecycle!Begin(i)
  BY <1>8, <1>1 DEF Lifecycle!Begin
<1> QED
  BY <1>9, <1>1 DEF Lifecycle!Next, Lifecycle!Strict

LEMMA RunMaps ==
    ASSUME TypeOK, Map, Quiet, NEW a \in Lives, StartRecord(a)
    PROVE  Lifecycle!Next
<1>1. /\ Id(a) \in RunIds /\ pc[a] = "startRecord" /\ pc' = [pc EXCEPT ![a] = "startEvent"]
      /\ record' = [record EXCEPT ![Id(a)] = "running"] /\ UNCHANGED <<runs, idOf, lateStart>>
  BY DEF StartRecord, Map, DriverStarted, Goto
<1>2. \A b \in Lives : pc[b] # "none" /\ Id(b) = Id(a) => b = a
  BY <1>1 DEF Quiet, DriverAlone
<1>3. pc'[a] = "startEvent" /\ \A b \in Lives : b # a => pc'[b] = pc[b]
  BY <1>1 DEF TypeOK
<1>4. \A b \in Lives : Id(b)' = Id(b)
  BY <1>1 DEF Id
<1>5. Hold(Id(a)) = "begun"
  BY <1>1 DEF Hold
<1>6. ASSUME NEW i \in RunIds, i = Id(a) PROVE Hold(i)' = "held"
  <2>1. ~\E b \in Lives : pc'[b] = "startRecord" /\ Id(b)' = i
    BY <1>2, <1>3, <1>4, <1>6
  <2>2. \E b \in Lives : pc'[b] # "none" /\ Id(b)' = i
    BY <1>3, <1>4, <1>6
  <2> QED
    BY <2>1, <2>2 DEF Hold
<1>7. ASSUME NEW i \in RunIds, i # Id(a) PROVE Hold(i)' = Hold(i)
  BY <1>1, <1>3, <1>4, <1>7 DEF Hold
<1>8. /\ [j \in RunIds |-> Hold(j)][Id(a)] = "begun"
      /\ [j \in RunIds |-> Hold(j)]' = [[j \in RunIds |-> Hold(j)] EXCEPT ![Id(a)] = "held"]
  BY <1>1, <1>5, <1>6, <1>7
<1>9. Lifecycle!Run(Id(a))
  BY <1>8, <1>1 DEF Lifecycle!Run
<1> QED
  BY <1>9, <1>1 DEF Lifecycle!Next, Lifecycle!Strict

LEMMA SettleMaps ==
    ASSUME TypeOK, Map, Quiet, NEW a \in Lives, RecordStop(a)
    PROVE  Lifecycle!Next
<1>1. /\ Id(a) \in RunIds /\ pc[a] = "record" /\ pc' = [pc EXCEPT ![a] = "leave"]
      /\ record' = [record EXCEPT ![Id(a)] = verdict[a]] /\ UNCHANGED <<runs, idOf, lateStart>>
  BY DEF RecordStop, Map, DriverStarted, Goto
<1>2. record[Id(a)] \in {"running", "awaiting_approval"}
  BY <1>1 DEF Quiet, DriverRecord
<1>3. \A b \in Lives : pc[b] # "none" /\ Id(b) = Id(a) => b = a
  BY <1>1 DEF Quiet, DriverAlone
<1>4. Hold(Id(a)) = "held"
  BY <1>1, <1>3 DEF Hold
<1>5. \A i \in RunIds : Hold(i)' = Hold(i)
  BY <1>1, HoldFrame DEF TypeOK
<1>6. verdict[a] \in Lifecycle!Verdicts
  BY DEF TypeOK, Verdicts, Terminal, Lifecycle!Verdicts
<1>7. Lifecycle!Settle(Id(a))
  BY <1>1, <1>2, <1>4, <1>5, <1>6 DEF Lifecycle!Settle
<1> QED
  BY <1>7, <1>1 DEF Lifecycle!Next, Lifecycle!Strict

LEMMA ReleaseMaps ==
    ASSUME TypeOK, Map, Quiet, Phased, ReleaseParked
    PROVE  Lifecycle!Next
<1>1. /\ mode = "cancelled" /\ UNCHANGED <<pc, idOf, record, lateStart>>
      /\ \A i \in RunIds : \/ runs'[i] = runs[i]
                           \/ runs[i] # None /\ phase[runs[i]] = "ask" /\ runs'[i] = None
  BY DEF ReleaseParked, files
<1>2. ASSUME NEW i \in RunIds
      PROVE  \/ Hold(i)' = Hold(i)
             \/ Hold(i) = "held" /\ Hold(i)' = "free" /\ record[i] \in Verdicts
  <2>1. \A a \in Lives : Id(a)' = Id(a)
    BY <1>1 DEF Id
  <2>2. CASE runs'[i] = runs[i]
    BY <1>1, <2>1, <2>2 DEF Hold
  <2>3. CASE runs[i] # None /\ phase[runs[i]] = "ask" /\ runs'[i] = None
    <3>1. \A a \in Lives : pc[a] = "startRecord" => Id(a) # i
      BY <1>1, <2>3 DEF Map, DriverIsNamed, Phased
    <3>2. Hold(i) = "held"
      BY <2>3, <3>1 DEF Hold
    <3>3. CASE Idle(i)
      <4>1. record[i] \in Verdicts
        BY <3>3 DEF Quiet, IdleRecord, Verdicts
      <4>2. Hold(i)' \in {"held", "free"}
        BY <1>1, <2>1, <3>1 DEF Hold
      <4> QED
        BY <3>2, <4>1, <4>2
    <3>4. CASE ~Idle(i)
      <4>1. runs[i] \in Lives /\ Id(runs[i]) = i /\ pc[runs[i]] # "none"
        BY <2>3, <3>4 DEF Idle, TypeOK, Map, Named
      <4>2. Hold(i)' = "held"
        BY <1>1, <2>1, <3>1, <4>1 DEF Hold
      <4> QED
        BY <3>2, <4>2
    <3> QED
      BY <3>3, <3>4
  <2> QED
    BY <1>1, <2>2, <2>3
<1> QED
  BY <1>1, <1>2, LeaveMaps

LEMMA ReconcileMaps ==
    ASSUME TypeOK, Map, Restart
    PROVE  Lifecycle!Next
<1>1. mode = "down" /\ UNCHANGED <<pc, runs, idOf, lateStart>>
      /\ record' = [i \in RunIds |-> Reconciled(i)]
  BY DEF Restart, memory
<1>2. \A i \in RunIds : Hold(i) = "free"
  BY <1>1 DEF Map, DownIsEmpty, Hold
<1>3. \A i \in RunIds : Hold(i)' = Hold(i)
  BY <1>1, HoldFrame
<1>4. \A i \in RunIds :
         /\ Reconciled(i) \in Lifecycle!Final \cup {"absent", "awaiting_approval"}
         /\ IF record[i] \in Lifecycle!Final \cup {"absent"} THEN Reconciled(i) = record[i]
            ELSE Reconciled(i) \in {"awaiting_approval", "interrupted"}
  BY DEF Reconciled, Terminal, Lifecycle!Final, TypeOK, RecordStatus, Verdicts
<1>5. Lifecycle!Reconcile
  BY <1>1, <1>2, <1>3, <1>4 DEF Lifecycle!Reconcile
<1> QED
  BY <1>5, <1>1 DEF Lifecycle!Next, Lifecycle!Strict

LEMMA CrashMaps ==
    ASSUME Die PROVE Lifecycle!Next
<1>1. \A i \in RunIds : Hold(i)' = "free"
  BY DEF Die, Hold
<1>2. Lifecycle!Crash
  BY <1>1 DEF Lifecycle!Crash, Die, files
<1> QED
  BY <1>2 DEF Lifecycle!Next, Lifecycle!Strict, Die

\* An answer takes up a life that idles in the map.
LEMMA AnswerMaps ==
    ASSUME TypeOK, Map, Quiet, NEW i \in RunIds, AnswerReserve(i)
    PROVE  UNCHANGED Lifecycle!vars
<1>1. /\ runs[i] # None /\ runs[i] \in Lives /\ Id(runs[i]) = i
      /\ ~busy[runs[i]] /\ pc' = [pc EXCEPT ![runs[i]] = "resolve"]
      /\ UNCHANGED <<runs, idOf, record, lateStart>>
  BY DEF AnswerReserve, Goto, TypeOK, Map, Named, files
<1>2. Idle(i)
  BY <1>1, Zenon DEF Map, BusyIsDriven
<1>3. \A b \in Lives : pc[b] # "none" => Id(b) # i
  BY <1>2 DEF Quiet, IdleAlone
<1>4. /\ \A b \in Lives : Id(b)' = Id(b)
      /\ \A b \in Lives : b # runs[i] => pc'[b] = pc[b]
      /\ pc'[runs[i]] = "resolve" /\ pc[runs[i]] = "none"
  BY <1>1, <1>2 DEF Id, TypeOK, Idle
<1>5. ASSUME NEW j \in RunIds PROVE Hold(j)' = Hold(j)
  <2>1. CASE j = i
    BY <1>1, <1>3, <1>4, <2>1 DEF Hold
  <2>2. CASE j # i
    BY <1>1, <1>4, <2>2 DEF Hold
  <2> QED
    BY <2>1, <2>2
<1> QED
  BY <1>1, <1>5, SameStep

\* A driver on its way, between the reservation and the end.
LEMMA DriveMaps ==
    ASSUME TypeOK, NEW a \in Lives,
           \/ StartEvent(a) \/ Execute(a) \/ LoopStep(a) \/ LoopCancelled(a) \/ StepCancelled(a)
           \/ LogStop(a) \/ AnswerTaken(a) \/ Step(a)
    PROVE  UNCHANGED Lifecycle!vars
<1>1. /\ pc[a] \notin {"none", "startRecord"}
      /\ \E l : pc' = [pc EXCEPT ![a] = l] /\ l \notin {"none", "startRecord"}
      /\ UNCHANGED <<runs, idOf, record, lateStart>>
  BY DEF StartEvent, Execute, LoopStep, LoopCancelled, StepCancelled, LogStop, AnswerTaken,
     Step, StepOn, StepStops, StepErrs, Returns, Goto, files
<1>2. \A i \in RunIds : Hold(i)' = Hold(i)
  BY <1>1, HoldFrame DEF TypeOK
<1> QED
  BY <1>1, <1>2, SameStep

-----------------------------------------------------------------------------
(* Theorems.                                                               *)

\* Type correctness of the run table.
THEOREM TypeCorrect == Spec => []TypeOK
<1>1. Init => TypeOK
  BY TypeInit
<1>2. TypeOK /\ [Next]_vars => TypeOK'
  BY TypeStep
<1> QED
  BY <1>1, <1>2, PTL DEF Spec

\* The map names every driver, and busy tells who is driven.
THEOREM MapCorrect == Spec => []Map
<1>1. Init => Map
  BY MapInit
<1>2. TypeOK /\ Map /\ [Next]_vars => Map'
  BY MapStep
<1> QED
  BY <1>1, <1>2, TypeCorrect, PTL DEF Spec

\* What a driver has written is what it builds on (see Quiet).
THEOREM QuietCorrect == Spec => [](~lateStart => Quiet)
<1>1. Init => (~lateStart => Quiet)
  BY QuietInit
<1>2. TypeOK /\ Map /\ (~lateStart => Quiet) /\ [Next]_vars => (~lateStart => Quiet)'
  <2>1. (~lateStart => Quiet)' <=> (~lateStart' => Quiet')
    OBVIOUS
  <2> QED
    BY <2>1, QuietStep, LateStays
<1> QED
  BY <1>1, <1>2, TypeCorrect, MapCorrect, PTL DEF Spec

\* A record that says running has a run behind it while the daemon serves.
THEOREM RunningHasRun == Spec => [](LeaveRecorded /\ RunningIsReal)
<1>1. Init => Honest
  BY HonestInit
<1>2. TypeOK /\ Map /\ Honest /\ [Next]_vars => Honest'
  BY HonestStep
<1>3. Honest => LeaveRecorded /\ RunningIsReal
  BY DEF Honest
<1> QED
  BY <1>1, <1>2, <1>3, TypeCorrect, MapCorrect, PTL DEF Spec

\* The inductive invariant that the run of DaemonRuns.cfg evaluates.
THEOREM Inductive == Spec => []IInv
<1>1. TypeOK /\ Map /\ (~lateStart => Quiet) /\ LeaveRecorded /\ RunningIsReal => IInv
  BY DEF IInv, Map, Quiet, Logged, TerminalIsLogged
<1> QED
  BY <1>1, TypeCorrect, MapCorrect, QuietCorrect, RunningHasRun, PTL

\* A life in the map is busy exactly while it is driven, and a driver is the one
\* its id names.
THEOREM DriversAreKnown == Spec => [](BusyIsDriven /\ DriverIsNamed)
<1>1. Map => BusyIsDriven /\ DriverIsNamed
  BY DEF Map
<1> QED
  BY <1>1, MapCorrect, PTL

\* An answer never starts a second loop over one runner.
THEOREM OneLoop == Spec => SingleDriver
<1>1. ASSUME TypeOK, Map, [Next]_vars, NEW a \in Lives, pc[a] # "none", pc'[a] = "resolve"
      PROVE  pc[a] = "resolve"
  <2>1. ASSUME NEW i \in RunIds, AnswerReserve(i) PROVE pc[a] = "resolve"
    <3>1. runs[i] # None /\ ~busy[runs[i]] /\ pc' = [pc EXCEPT ![runs[i]] = "resolve"]
      BY <2>1 DEF AnswerReserve, Goto
    <3>2. pc[runs[i]] = "none"
      BY <1>1, <2>1, <3>1, Zenon DEF Map, BusyIsDriven, Idle
    <3> QED
      BY <1>1, <3>1, <3>2 DEF TypeOK
  <2>2. ASSUME NEW i \in RunIds, StartReserve(i) \/ Cancel(i) PROVE pc[a] = "resolve"
    BY <1>1, <2>2 DEF TypeOK, StartReserve, Cancel, Goto
  <2>3. ASSUME NEW b \in Lives, Drive(b) \/ Step(b) PROVE pc[a] = "resolve"
    BY <1>1, <2>3 DEF TypeOK, Drive, Step, StartRecord, StartEvent, Execute, LoopStep,
       LoopCancelled, StepCancelled, LogStop, RecordStop, Leave, AnswerTaken,
       AnswerRefused, AnswerLost, StepOn, StepStops, StepErrs, Returns, Goto
  <2>4. CASE Terminate \/ Drain \/ Crash \/ Restart
    BY <1>1, <2>4 DEF TypeOK, Terminate, Drain, CancelAll, ReleaseParked, Exit, Crash,
       Die, Restart, memory
  <2>5. CASE UNCHANGED vars
    BY <1>1, <2>5 DEF vars
  <2> QED
    BY <1>1, <2>1, <2>2, <2>3, <2>4, <2>5 DEF Next, Client
<1>2. TypeOK /\ Map /\ [Next]_vars
        => (\A a \in Lives : pc[a] # "none" => (pc'[a] = "resolve" => pc[a] = "resolve"))
  BY <1>1
<1> QED
  BY <1>2, TypeCorrect, MapCorrect, PTL DEF Spec, SingleDriver

\* A terminal record is preceded by its run.finished.
THEOREM TimelineAgrees == Spec => []TerminalIsLogged
<1>1. (~lateStart => Quiet) => TerminalIsLogged
  BY DEF Quiet, Logged, TerminalIsLogged
<1> QED
  BY <1>1, QuietCorrect, PTL

\* A final record is changed by a new start only.
THEOREM FinalRecordsStay == Spec => FinalStays
<1>1. ASSUME TypeOK, Quiet, [Next]_vars, NEW i \in RunIds,
             record[i] \in Terminal \cup {"interrupted"}
      PROVE  record'[i] \in {record[i], "running"}
  <2>1. ASSUME NEW a \in Lives, StartRecord(a) PROVE record'[i] \in {record[i], "running"}
    BY <2>1 DEF TypeOK, StartRecord
  <2>2. ASSUME NEW a \in Lives, RecordStop(a) PROVE record'[i] \in {record[i], "running"}
    <3>1. record[Id(a)] \in {"running", "awaiting_approval"}
      BY <1>1, <2>2 DEF RecordStop, Quiet, DriverRecord
    <3>2. Id(a) # i
      BY <1>1, <3>1 DEF Terminal
    <3> QED
      BY <2>2, <3>2 DEF RecordStop, TypeOK
  <2>3. CASE Restart
    BY <1>1, <2>3 DEF Restart, Reconciled
  <2>4. CASE UNCHANGED record
    BY <2>4
  <2>5. \/ \E a \in Lives : StartRecord(a) \/ RecordStop(a)
        \/ Restart \/ UNCHANGED record
    BY <1>1 DEF Next, Client, Drive, Step, Drain, StartReserve, AnswerReserve, Cancel,
       StartEvent, Execute, LoopStep, LoopCancelled, StepCancelled, LogStop, Leave,
       AnswerTaken, AnswerRefused, AnswerLost, StepOn, StepStops, StepErrs, Returns,
       Terminate, CancelAll, ReleaseParked, Exit, Crash, Die, vars, memory, files
  <2> QED
    BY <2>1, <2>2, <2>3, <2>4, <2>5
<1>2. TypeOK /\ (~lateStart => Quiet) /\ [Next]_vars
        => (\A i \in RunIds : ~lateStart /\ record[i] \in Terminal \cup {"interrupted"} =>
                record'[i] \in {record[i], "running"})
  BY <1>1
<1> QED
  BY <1>2, TypeCorrect, QuietCorrect, PTL DEF Spec, FinalStays

\* A run that waits for an answer says so in its record, its timeline and its
\* latest checkpoint.
THEOREM ParkedRunsAreDurable == Spec => []ParkedIsDurable
<1>1. Init => (~lateStart => Parking)
  BY ParkInit
<1>2. TypeOK /\ Map /\ (~lateStart => Quiet) /\ (~lateStart => Parking) /\ [Next]_vars
        => (~lateStart => Parking)'
  <2>1. (~lateStart => Parking)' <=> (~lateStart' => Parking')
    OBVIOUS
  <2> QED
    BY <2>1, ParkStep, LateStays
<1>3. (~lateStart => Quiet) /\ (~lateStart => Parking) => ParkedIsDurable
  BY DEF Quiet, IdleRecord, Parking, ParkedIsDurable
<1> QED
  BY <1>1, <1>2, <1>3, TypeCorrect, MapCorrect, QuietCorrect, PTL DEF Spec

\* An answer that was taken is not asked for again after a restart.
THEOREM AnswersStay == Spec => []AnswerStays
<1>1. Init => Phased /\ Answered
  BY PhasedInit, AnsweredInit
<1>2. TypeOK /\ Map /\ LeaveRecorded /\ (Phased /\ Answered) /\ [Next]_vars => (Phased /\ Answered)'
  <2>1. (Phased /\ Answered)' <=> Phased' /\ Answered'
    OBVIOUS
  <2> QED
    BY <2>1, PhasedStep, AnsweredStep
<1>3. TypeOK /\ Phased /\ Answered => AnswerStays
  BY DEF Answered, OnlyLife, NotAsked, AnswerStays
<1> QED
  BY <1>1, <1>2, <1>3, TypeCorrect, MapCorrect, RunningHasRun, PTL DEF Spec
\* The run table implements the promise: every step is a step of RunLifecycle or
\* leaves a client nothing to see.
THEOREM LifecycleKept == Spec => LifecycleSpec
<1>1. Init => Lifecycle!Init
  BY HoldInit DEF Init, Lifecycle!Init
<1>2. Init => Phased
  BY PhasedInit
<1>3. TypeOK /\ Map /\ Phased /\ [Next]_vars => Phased'
  BY PhasedStep
<1>4. TypeOK /\ Map /\ Phased /\ (~lateStart => Quiet) /\ [Next]_vars
        => [Lifecycle!Next]_(Lifecycle!vars)
  <2>. SUFFICES ASSUME TypeOK, Map, Phased, ~lateStart => Quiet, [Next]_vars
                PROVE  Lifecycle!Next \/ UNCHANGED Lifecycle!vars
    OBVIOUS
  <2>1. CASE lateStart'
    BY <2>1 DEF Lifecycle!Next
  <2>2. CASE ~lateStart'
    <3>0. Quiet
      BY <2>2, LateStays
    <3>1. ASSUME NEW i \in RunIds, Client(i) PROVE Lifecycle!Next \/ UNCHANGED Lifecycle!vars
      <4>1. CASE Cancel(i)
        <5>1. UNCHANGED <<runs, idOf, pc, record, lateStart>>
          BY <4>1 DEF Cancel, files
        <5> QED
          BY <5>1, HoldFrame, SameStep
      <4> QED
        BY <3>0, <3>1, <4>1, <2>2, BeginMaps, AnswerMaps DEF Client
    <3>2. ASSUME NEW a \in Lives, Drive(a) \/ Step(a)
          PROVE  Lifecycle!Next \/ UNCHANGED Lifecycle!vars
      <4>1. CASE Leave(a)
        <5>1. /\ pc[a] = "leave" /\ pc' = [pc EXCEPT ![a] = "none"]
              /\ UNCHANGED <<idOf, record, lateStart>>
              /\ runs' = runs \/ runs' = [runs EXCEPT ![Id(a)] = None]
          BY <4>1 DEF Leave, Goto, files
        <5>2. record[Id(a)] \in Verdicts
          BY <3>0, <5>1 DEF Quiet, DriverRecord, TypeOK
        <5> QED
          BY <3>0, <5>1, <5>2, EndMaps
      <4>2. CASE AnswerRefused(a) \/ AnswerLost(a)
        <5>1. /\ pc[a] = "resolve" /\ pc' = [pc EXCEPT ![a] = "none"]
              /\ UNCHANGED <<idOf, record, lateStart, runs>>
          BY <4>2 DEF AnswerRefused, AnswerLost, Goto, files
        <5>2. record[Id(a)] \in Verdicts
          BY <3>0, <5>1 DEF Quiet, DriverRecord, Verdicts
        <5> QED
          BY <3>0, <5>1, <5>2, EndMaps
      <4> QED
        BY <3>0, <3>2, <4>1, <4>2, RunMaps, SettleMaps, DriveMaps DEF Drive
    <3>3. CASE Terminate \/ CancelAll
      <4>1. UNCHANGED <<runs, idOf, pc, record, lateStart>>
        BY <3>3 DEF Terminate, CancelAll, memory, files
      <4> QED
        BY <4>1, HoldFrame, SameStep
    <3>4. CASE Exit \/ Crash
      BY <3>4, CrashMaps DEF Exit, Crash
    <3>5. CASE UNCHANGED vars
      <4>1. UNCHANGED <<runs, idOf, pc, record, lateStart>>
        BY <3>5 DEF vars
      <4> QED
        BY <4>1, HoldFrame, SameStep
    <3> QED
      BY <3>0, <3>1, <3>2, <3>3, <3>4, <3>5, ReleaseMaps, ReconcileMaps DEF Next, Drain
  <2> QED
    BY <2>1, <2>2
<1> QED
  BY <1>1, <1>2, <1>3, <1>4, TypeCorrect, MapCorrect, QuietCorrect, PTL
     DEF Spec, LifecycleSpec, Lifecycle!Spec

-----------------------------------------------------------------------------
(* The safety half of CancelEnds.                                          *)

\* How many steps a cancelled driver is from its end, at most.
Distance(l) ==
    CASE l = "startRecord" -> 7
      [] l = "startEvent"  -> 6
      [] l \in {"execute", "resolve", "step"} -> 5
      [] l = "loop"   -> 4
      [] l = "event"  -> 3
      [] l = "record" -> 2
      [] l = "leave"  -> 1
      [] OTHER        -> 0

Unwinds(a) ==
    /\ stopped'[a]
    /\ pc'[a] = pc[a] \/ Distance(pc'[a]) < Distance(pc[a])
    /\ Drive(a) \/ Step(a) => Distance(pc'[a]) < Distance(pc[a])

LEMMA OwnStep ==
    ASSUME TypeOK, NEW a \in Lives, stopped[a], pc[a] # "none", Drive(a) \/ Step(a)
    PROVE  Distance(pc'[a]) < Distance(pc[a]) /\ stopped' = stopped
<1>1. stopped' = stopped
  BY DEF Drive, Step, StartRecord, StartEvent, Execute, LoopStep, LoopCancelled, StepCancelled,
     LogStop, RecordStop, Leave, AnswerTaken, AnswerRefused, AnswerLost, StepOn, StepStops,
     StepErrs, Returns
<1>2. \/ pc[a] = "startRecord" /\ pc'[a] = "startEvent"
      \/ pc[a] = "startEvent" /\ pc'[a] = "execute"
      \/ pc[a] = "execute" /\ pc'[a] = "loop"
      \/ pc[a] = "loop" /\ pc'[a] = "event"
      \/ pc[a] = "step" /\ pc'[a] \in {"loop", "event"}
      \/ pc[a] = "event" /\ pc'[a] = "record"
      \/ pc[a] = "record" /\ pc'[a] = "leave"
      \/ pc[a] = "leave" /\ pc'[a] = "none"
      \/ pc[a] = "resolve" /\ pc'[a] \in {"loop", "none"}
  BY DEF TypeOK, Drive, Step, StartRecord, StartEvent, Execute, LoopStep, LoopCancelled,
     StepCancelled, LogStop, RecordStop, Leave, AnswerTaken, AnswerRefused, AnswerLost, StepOn,
     StepStops, StepErrs, Returns, Goto
<1> QED
  BY <1>1, <1>2 DEF Distance

LEMMA OtherDrivers ==
    ASSUME TypeOK, NEW a \in Lives, NEW b \in Lives, b # a, Drive(b) \/ Step(b)
    PROVE  pc'[a] = pc[a] /\ stopped' = stopped
BY DEF TypeOK, Drive, Step, StartRecord, StartEvent, Execute, LoopStep, LoopCancelled,
   StepCancelled, LogStop, RecordStop, Leave, AnswerTaken, AnswerRefused, AnswerLost, StepOn,
   StepStops, StepErrs, Returns, Goto

\* What CancelEnds needs beside fairness.  A cancelled context stays cancelled, and
\* wherever the cancellation found its driver, no step of a client, of another run
\* or of the drain takes the driver back, and each step of its own takes it nearer
\* to the end: there are at most seven of them.
THEOREM CancelRunsDown ==
    Spec => [][\A a \in Lives : stopped[a] /\ pc[a] # "none" => Unwinds(a)]_vars
<1>1. ASSUME TypeOK, Map, [Next]_vars, NEW a \in Lives, stopped[a], pc[a] # "none"
      PROVE  Unwinds(a)
  <2>1. ASSUME Drive(a) \/ Step(a) PROVE Unwinds(a)
    BY <1>1, <2>1, OwnStep DEF Unwinds
  <2>2. SUFFICES ASSUME ~(Drive(a) \/ Step(a))
                 PROVE  stopped'[a] /\ (pc'[a] = pc[a] \/ pc'[a] = "none")
    <3>1. pc'[a] = "none" => Distance(pc'[a]) < Distance(pc[a])
      BY <1>1 DEF TypeOK, Locations, Distance
    <3> QED
      BY <2>1, <2>2, <3>1 DEF Unwinds
  <2>3. ASSUME NEW b \in Lives, Drive(b) \/ Step(b) PROVE stopped'[a] /\ pc'[a] = pc[a]
    BY <1>1, <2>2, <2>3, OtherDrivers
  <2>4. ASSUME NEW i \in RunIds, StartReserve(i) PROVE stopped'[a] /\ pc'[a] = pc[a]
    <3>1. a <= lives /\ lives \in Nat
      BY <1>1, DaemonAssumption DEF Map, DriverStarted, TypeOK
    <3>2. a # lives + 1
      BY <3>1 DEF Lives
    <3> QED
      BY <1>1, <2>4, <3>2 DEF TypeOK, StartReserve, Goto
  <2>5. ASSUME NEW i \in RunIds, AnswerReserve(i) PROVE stopped'[a] /\ pc'[a] = pc[a]
    <3>1. runs[i] # None /\ ~busy[runs[i]] /\ pc' = [pc EXCEPT ![runs[i]] = "resolve"]
          /\ stopped' = stopped
      BY <2>5 DEF AnswerReserve, Goto
    <3>2. pc[runs[i]] = "none"
      BY <1>1, <2>5, <3>1, Zenon DEF Map, BusyIsDriven, Idle
    <3> QED
      BY <1>1, <3>1, <3>2 DEF TypeOK
  <2>6. ASSUME NEW i \in RunIds, Cancel(i) PROVE stopped'[a] /\ pc'[a] = pc[a]
    BY <1>1, <2>6 DEF TypeOK, Cancel
  <2>7. CASE CancelAll
    BY <1>1, <2>7 DEF TypeOK, CancelAll
  <2>8. CASE Exit \/ Crash
    BY <1>1, <2>8 DEF TypeOK, Exit, Crash, Die
  <2>9. CASE Terminate \/ ReleaseParked \/ Restart \/ UNCHANGED vars
    BY <1>1, <2>9 DEF TypeOK, Terminate, ReleaseParked, Restart, memory, vars
  <2> QED
    BY <1>1, <2>3, <2>4, <2>5, <2>6, <2>7, <2>8, <2>9 DEF Next, Client, Drain
<1>2. TypeOK /\ Map /\ [Next]_vars
        => (\A a \in Lives : stopped[a] /\ pc[a] # "none" => Unwinds(a))
  BY <1>1
<1> QED
  BY <1>2, TypeCorrect, MapCorrect, PTL DEF Spec
-----------------------------------------------------------------------------
(* The runner behind a life.                                               *)

\* A life as the run table sees its runner (see RunnerContract): as long as it is
\* driven or in the map.
Here(a)      == pc[a] # "none" \/ (Id(a) \in RunIds /\ runs[Id(a)] = a)
Stage(a)     == IF Here(a) THEN phase[a] ELSE "none"
Outlook(a)   == IF Stage(a) \in {"none", "going"} THEN "none" ELSE verdict[a]
Saved(a)     == IF Id(a) \in RunIds THEN checkpoint[Id(a)] ELSE "none"
Cancelled(a) == Stage(a) # "none" /\ stopped[a]

Runner(a) == INSTANCE RunnerContract WITH
    stage <- Stage(a), verdict <- Outlook(a), saved <- Saved(a), cancelled <- Cancelled(a)

Kept(a) == [Runner(a)!Next]_(Runner(a)!vars)

LEMMA RunnerSame ==
    ASSUME NEW a \in Lives, Here(a)' = Here(a), UNCHANGED Saved(a),
           Here(a) => phase'[a] = phase[a] /\ verdict'[a] = verdict[a] /\ stopped'[a] = stopped[a]
    PROVE  Kept(a)
<1>1. UNCHANGED <<Stage(a), Outlook(a), Saved(a), Cancelled(a)>>
  BY DEF Stage, Outlook, Cancelled
<1> HIDE DEF Stage, Outlook, Saved, Cancelled
<1> QED
  BY <1>1 DEF Kept, Runner!vars

\* A life that no one drives and no id names lets others write the checkpoints.
LEMMA RunnerAway ==
    ASSUME TypeOK', NEW a \in Lives, Stage(a) = "none", Stage(a)' = "none"
    PROVE  Kept(a)
<1>1. Saved(a)' \in {"none", "ask", "safe"}
  BY DEF Saved, TypeOK
<1>2. UNCHANGED <<Stage(a), Outlook(a), Cancelled(a)>>
  BY DEF Outlook, Cancelled
<1> HIDE DEF Stage, Outlook, Saved, Cancelled
<1>3. Runner(a)!Other
  BY <1>1, <1>2 DEF Runner!Other
<1> QED
  BY <1>3 DEF Kept, Runner!Next

\* A life is given up.
LEMMA RunnerEnd ==
    ASSUME NEW a \in Lives, Stage(a)' = "none", UNCHANGED Saved(a)
    PROVE  Kept(a)
<1>1. Outlook(a)' = "none" /\ Cancelled(a)' = FALSE
  BY DEF Outlook, Cancelled
<1> HIDE DEF Stage, Outlook, Saved, Cancelled
<1>2. Runner(a)!End
  BY <1>1 DEF Runner!End
<1> QED
  BY <1>2 DEF Kept, Runner!Next

\* The runner returns: what the life takes it through is a return of the contract.
LEMMA RunnerReturns ==
    ASSUME TypeOK, Map, Phased, NEW a \in Lives, pc[a] \in {"loop", "step"},
           NEW p \in {"stopped", "ask"}, NEW v \in Verdicts, NEW c \in {"none", "ask", "safe"},
           Returns(a, p, v, c)
    PROVE  /\ Stage(a) = "going" /\ Stage(a)' = p /\ Outlook(a)' = v
           /\ Saved(a) = checkpoint[Id(a)] /\ Saved(a)' = c
           /\ Cancelled(a) = stopped[a] /\ UNCHANGED Cancelled(a)
<1>1. phase[a] = "going" /\ Id(a) \in RunIds
  BY DEF Phased, Map, DriverStarted
<1>2. /\ pc'[a] = "event" /\ phase'[a] = p /\ verdict'[a] = v /\ checkpoint'[Id(a)] = c
      /\ stopped' = stopped /\ idOf' = idOf
  BY <1>1 DEF Returns, TypeOK, Goto
<1>3. Here(a) /\ Here(a)' /\ Id(a)' = Id(a)
  BY <1>2 DEF Here, Id
<1>4. Stage(a) = "going" /\ Stage(a)' = p
  BY <1>1, <1>2, <1>3 DEF Stage
<1>5. Outlook(a)' = v
  BY <1>2, <1>4 DEF Outlook
<1>6. Saved(a) = checkpoint[Id(a)] /\ Saved(a)' = c
  BY <1>1, <1>2, <1>3 DEF Saved
<1>7. Cancelled(a) = stopped[a] /\ UNCHANGED Cancelled(a)
  BY <1>2, <1>4 DEF Cancelled, TypeOK
<1> QED
  BY <1>4, <1>5, <1>6, <1>7

LEMMA RunnerStops ==
    ASSUME TypeOK, Map, Phased, NEW a \in Lives,
           LoopCancelled(a) \/ StepCancelled(a) \/ StepStops(a) \/ StepErrs(a)
    PROVE  Kept(a)
<1>0. /\ pc[a] \in {"loop", "step"} /\ Id(a) \in RunIds /\ checkpoint[Id(a)] \in {"none", "ask", "safe"}
  BY DEF LoopCancelled, StepCancelled, StepStops, StepErrs, Map, DriverStarted, TypeOK
<1>1. ASSUME NEW v \in Verdicts, NEW c \in {"none", "ask", "safe"}, Returns(a, "stopped", v, c),
             \/ v \in {"complete", "yielded"} /\ c = "safe"
             \/ stopped[a] /\ v \in {"cancelled", "yielded"} /\ c \in {"safe", checkpoint[Id(a)]}
             \/ v = (IF stopped[a] THEN "cancelled" ELSE "failed") /\ c = checkpoint[Id(a)]
      PROVE  Kept(a)
  <2>1. /\ Stage(a) = "going" /\ Stage(a)' = "stopped" /\ Outlook(a)' = v
        /\ Saved(a) = checkpoint[Id(a)] /\ Saved(a)' = c
        /\ Cancelled(a) = stopped[a] /\ UNCHANGED Cancelled(a)
    BY <1>0, <1>1, RunnerReturns
  <2> HIDE DEF Stage, Outlook, Saved, Cancelled
  <2>2. Runner(a)!Stop
    BY <1>1, <2>1 DEF Runner!Stop
  <2> QED
    BY <2>2 DEF Kept, Runner!Next, Runner!Return
<1>2. ASSUME Returns(a, "ask", "awaiting_approval", "ask") PROVE Kept(a)
  <2>1. /\ Stage(a) = "going" /\ Stage(a)' = "ask" /\ Outlook(a)' = "awaiting_approval"
        /\ Saved(a)' = "ask" /\ UNCHANGED Cancelled(a)
    BY <1>0, <1>2, RunnerReturns DEF Verdicts
  <2> HIDE DEF Stage, Outlook, Saved, Cancelled
  <2>2. Runner(a)!Ask
    BY <2>1 DEF Runner!Ask
  <2> QED
    BY <2>2 DEF Kept, Runner!Next, Runner!Return
<1>3. {"complete", "yielded", "cancelled", "failed"} \subseteq Verdicts
  BY DEF Verdicts, Terminal
<1>4. CASE LoopCancelled(a)
  BY <1>0, <1>1, <1>3, <1>4 DEF LoopCancelled
<1>5. CASE StepCancelled(a)
  BY <1>0, <1>1, <1>3, <1>5 DEF StepCancelled
<1>6. CASE StepStops(a)
  BY <1>1, <1>2, <1>3, <1>6 DEF StepStops
<1>7. CASE StepErrs(a)
  BY <1>0, <1>1, <1>3, <1>7 DEF StepErrs
<1> QED
  BY <1>4, <1>5, <1>6, <1>7

\* The steps of a life's own driver.
LEMMA RunnerOwn ==
    ASSUME TypeOK, Map, Phased, NEW a \in Lives, Drive(a) \/ Step(a)
    PROVE  Kept(a)
<1>0. Id(a) \in RunIds /\ Here(a)
  BY DEF Map, DriverStarted, Here, Drive, Step, StartRecord, StartEvent, Execute, LoopStep,
     LoopCancelled, StepCancelled, LogStop, RecordStop, Leave, AnswerTaken, AnswerRefused,
     AnswerLost, StepOn, StepStops, StepErrs
<1>1. CASE StartRecord(a) \/ StartEvent(a) \/ LoopStep(a) \/ StepOn(a) \/ LogStop(a) \/ RecordStop(a)
  <2>1. pc'[a] # "none" /\ UNCHANGED <<phase, verdict, stopped, checkpoint, idOf>>
    BY <1>1 DEF TypeOK, StartRecord, StartEvent, LoopStep, StepOn, LogStop, RecordStop, Goto, files
  <2>2. Here(a)' = TRUE /\ Here(a) = TRUE /\ UNCHANGED Saved(a)
    BY <1>0, <2>1 DEF Here, Saved, Id
  <2> QED
    BY <2>1, <2>2, RunnerSame
<1>2. CASE Execute(a)
  <2>1. /\ phase[a] = "none" /\ phase'[a] = "going" /\ pc'[a] = "loop"
        /\ UNCHANGED <<checkpoint, idOf>>
    BY <1>2 DEF Phased, TypeOK, Execute, Goto, files
  <2>2. Stage(a) = "none" /\ Stage(a)' = "going" /\ UNCHANGED Saved(a)
    BY <1>0, <2>1 DEF Stage, Here, Saved, Id
  <2>3. Outlook(a)' = "none" /\ Cancelled(a)' \in BOOLEAN
    BY <2>2 DEF Outlook, Cancelled
  <2> HIDE DEF Stage, Outlook, Saved, Cancelled
  <2>4. Runner(a)!Begin
    BY <2>2, <2>3 DEF Runner!Begin
  <2> QED
    BY <2>4 DEF Kept, Runner!Next
<1>3. CASE LoopCancelled(a) \/ StepCancelled(a) \/ StepStops(a) \/ StepErrs(a)
  BY <1>3, RunnerStops
<1>4. CASE Leave(a) \/ AnswerRefused(a)
  <2>1. UNCHANGED <<phase, verdict, stopped, checkpoint, idOf>>
    BY <1>4 DEF Leave, AnswerRefused, files
  <2>2. UNCHANGED Saved(a)
    BY <2>1 DEF Saved, Id
  <2>3. CASE Here(a)'
    BY <1>0, <2>1, <2>2, <2>3, RunnerSame
  <2>4. CASE ~Here(a)'
    BY <2>2, <2>4, RunnerEnd DEF Stage
  <2> QED
    BY <2>3, <2>4
<1>5. CASE AnswerTaken(a)
  <2>1. /\ phase[a] = "ask" /\ phase'[a] = "going" /\ pc'[a] = "loop"
        /\ checkpoint'[Id(a)] = "safe" /\ UNCHANGED <<stopped, idOf>>
    BY <1>0, <1>5 DEF TypeOK, AnswerTaken, Goto
  <2>2. Stage(a) = "ask" /\ Stage(a)' = "going" /\ Saved(a)' = "safe"
    BY <1>0, <2>1 DEF Stage, Here, Saved, Id
  <2>3. Outlook(a)' = "none" /\ UNCHANGED Cancelled(a)
    BY <2>1, <2>2 DEF Outlook, Cancelled
  <2> HIDE DEF Stage, Outlook, Saved, Cancelled
  <2>4. Runner(a)!Answer
    BY <2>2, <2>3 DEF Runner!Answer
  <2> QED
    BY <2>4 DEF Kept, Runner!Next
<1>6. CASE AnswerLost(a)
  <2>1. /\ phase[a] = "ask" /\ phase'[a] = "lost"
        /\ UNCHANGED <<verdict, stopped, checkpoint, idOf>>
    BY <1>6 DEF TypeOK, AnswerLost, files
  <2>2. UNCHANGED Saved(a)
    BY <2>1 DEF Saved, Id
  <2>3. CASE Here(a)'
    <3>1. Stage(a) = "ask" /\ Stage(a)' = "lost"
      BY <1>0, <2>1, <2>3 DEF Stage
    <3>2. UNCHANGED <<Outlook(a), Cancelled(a)>>
      BY <2>1, <3>1 DEF Outlook, Cancelled
    <3> HIDE DEF Stage, Outlook, Saved, Cancelled
    <3>3. Runner(a)!Lose
      BY <2>2, <3>1, <3>2 DEF Runner!Lose
    <3> QED
      BY <3>3 DEF Kept, Runner!Next
  <2>4. CASE ~Here(a)'
    BY <2>2, <2>4, RunnerEnd DEF Stage
  <2> QED
    BY <2>3, <2>4
<1> QED
  BY <1>1, <1>2, <1>3, <1>4, <1>5, <1>6 DEF Drive, Step

\* What a driver leaves alone.
LEMMA DriverTouches ==
    ASSUME TypeOK, NEW a \in Lives, NEW b \in Lives, b # a, Drive(b) \/ Step(b)
    PROVE  /\ pc[b] # "none" /\ pc'[a] = pc[a] /\ phase'[a] = phase[a] /\ verdict'[a] = verdict[a]
           /\ UNCHANGED <<stopped, idOf>>
           /\ runs' = runs \/ runs' = [runs EXCEPT ![Id(b)] = None]
           /\ \A i \in RunIds : i # Id(b) => checkpoint'[i] = checkpoint[i]
BY DEF TypeOK, Drive, Step, StartRecord, StartEvent, Execute, LoopStep, LoopCancelled,
   StepCancelled, LogStop, RecordStop, Leave, AnswerTaken, AnswerRefused, AnswerLost, StepOn,
   StepStops, StepErrs, Returns, Goto, files

\* The steps of another life's driver: of another id, or of an id that no longer
\* names this life.
LEMMA RunnerOther ==
    ASSUME TypeOK, TypeOK', Map, Quiet, NEW a \in Lives, NEW b \in Lives, b # a,
           Drive(b) \/ Step(b)
    PROVE  Kept(a)
<1>1. /\ pc[b] # "none" /\ pc'[a] = pc[a] /\ phase'[a] = phase[a] /\ verdict'[a] = verdict[a]
      /\ UNCHANGED <<stopped, idOf>>
      /\ runs' = runs \/ runs' = [runs EXCEPT ![Id(b)] = None]
      /\ \A i \in RunIds : i # Id(b) => checkpoint'[i] = checkpoint[i]
  BY DriverTouches
<1>2. CASE Id(a) = Id(b)
  <2>1. pc[a] = "none"
    BY <1>1, <1>2 DEF Quiet, DriverAlone
  <2>2. Id(a) \in RunIds => runs[Id(a)] # a
    BY <1>1, <1>2, <2>1 DEF Quiet, IdleAlone, Idle, Lives, None
  <2>3. ~Here(a) /\ ~Here(a)'
    BY <1>1, <2>1, <2>2 DEF Here, Id, TypeOK, Lives, None
  <2> QED
    BY <2>3, RunnerAway DEF Stage
<1>3. CASE Id(a) # Id(b)
  <2>1. Here(a)' = Here(a)
    BY <1>1, <1>3 DEF Here, Id, TypeOK
  <2>2. UNCHANGED Saved(a)
    BY <1>1, <1>3 DEF Saved, Id
  <2> QED
    BY <1>1, <2>1, <2>2, RunnerSame
<1> QED
  BY <1>2, <1>3

\* A context is cancelled, or stays as it is.
LEMMA RunnerCancel ==
    ASSUME NEW a \in Lives, UNCHANGED <<runs, idOf, pc, phase, verdict, checkpoint>>,
           stopped[a] \in BOOLEAN, stopped'[a] = stopped[a] \/ stopped'[a] = TRUE
    PROVE  Kept(a)
<1>1. Here(a)' = Here(a) /\ UNCHANGED Saved(a)
  BY DEF Here, Saved, Id
<1>2. UNCHANGED <<Stage(a), Outlook(a)>>
  BY <1>1 DEF Stage, Outlook
<1>3. CASE stopped'[a] = stopped[a]
  BY <1>1, <1>3, RunnerSame
<1>4. CASE Stage(a) = "none"
  BY <1>1, <1>2, <1>4, RunnerEnd
<1>5. CASE Stage(a) # "none" /\ ~stopped[a] /\ stopped'[a] = TRUE
  <2>1. ~Cancelled(a) /\ Cancelled(a)' = TRUE
    BY <1>2, <1>5 DEF Cancelled
  <2> HIDE DEF Stage, Outlook, Saved, Cancelled
  <2>2. Runner(a)!Cancel
    BY <1>1, <1>2, <1>5, <2>1 DEF Runner!Cancel
  <2> QED
    BY <2>2 DEF Kept, Runner!Next
<1> QED
  BY <1>3, <1>4, <1>5

\* The steps of clients.
LEMMA RunnerClient ==
    ASSUME TypeOK, TypeOK', Map, Phased, NEW a \in Lives, NEW i \in RunIds, Client(i)
    PROVE  Kept(a)
<1>1. CASE StartReserve(i)
  <2>1. /\ runs[i] = None /\ runs' = [runs EXCEPT ![i] = lives + 1]
        /\ pc' = [pc EXCEPT ![lives + 1] = "startRecord"]
        /\ idOf' = [idOf EXCEPT ![lives + 1] = i]
        /\ stopped' = [stopped EXCEPT ![lives + 1] = mode \in {"cancelled", "unwinding"}]
        /\ lives + 1 \in Lives /\ lives \in Nat
        /\ UNCHANGED <<phase, verdict, checkpoint>>
    BY <1>1, DaemonAssumption DEF StartReserve, Goto, files, TypeOK, Lives
  <2>2. CASE a = lives + 1
    <3>1. a > lives
      BY <2>1, <2>2
    <3>2. phase[a] = "none"
      BY <3>1 DEF Phased
    <3>3. Stage(a) = "none" /\ Stage(a)' = "none"
      BY <2>1, <3>2 DEF Stage
    <3> QED
      BY <3>3, RunnerAway
  <2>3. CASE a # lives + 1
    <3>1. pc'[a] = pc[a] /\ idOf'[a] = idOf[a] /\ stopped'[a] = stopped[a]
      BY <2>1, <2>3 DEF TypeOK
    <3>2. Id(a) \in RunIds => (runs'[Id(a)] = a <=> runs[Id(a)] = a)
      BY <2>1, <2>3 DEF TypeOK, Lives, None
    <3>3. Here(a)' = Here(a)
      BY <3>1, <3>2 DEF Here, Id
    <3>4. UNCHANGED Saved(a)
      BY <2>1, <3>1 DEF Saved, Id
    <3> QED
      BY <2>1, <3>1, <3>3, <3>4, RunnerSame
  <2> QED
    BY <2>2, <2>3
<1>2. CASE AnswerReserve(i)
  <2>1. /\ runs[i] # None /\ pc' = [pc EXCEPT ![runs[i]] = "resolve"]
        /\ UNCHANGED <<runs, idOf, stopped, phase, verdict, checkpoint>>
    BY <1>2 DEF AnswerReserve, Goto, files
  <2>2. Id(runs[i]) = i
    BY <2>1 DEF Map, Named
  <2>3. Here(a)' = Here(a)
    BY <2>1, <2>2 DEF Here, Id, TypeOK
  <2>4. UNCHANGED Saved(a)
    BY <2>1 DEF Saved, Id
  <2> QED
    BY <2>1, <2>3, <2>4, RunnerSame
<1>3. CASE Cancel(i)
  <2>1. /\ UNCHANGED <<runs, idOf, pc, phase, verdict, checkpoint>>
        /\ ~stopped[runs[i]] /\ stopped' = [stopped EXCEPT ![runs[i]] = TRUE]
    BY <1>3 DEF Cancel, files
  <2> QED
    BY <2>1, RunnerCancel DEF TypeOK
<1> QED
  BY <1>1, <1>2, <1>3 DEF Client

\* The steps of the drain, of a crash and of a restart.
LEMMA RunnerDaemon ==
    ASSUME TypeOK, NEW a \in Lives, Terminate \/ Drain \/ Crash \/ Restart \/ UNCHANGED vars
    PROVE  Kept(a)
<1>1. CASE Terminate \/ Restart \/ UNCHANGED vars
  <2>1. UNCHANGED <<runs, idOf, pc, phase, verdict, stopped, checkpoint>>
    BY <1>1 DEF Terminate, Restart, memory, files, vars
  <2> QED
    BY <2>1, RunnerSame DEF Here, Saved, Id
<1>2. CASE CancelAll
  <2>1. /\ UNCHANGED <<runs, idOf, pc, phase, verdict, checkpoint>>
        /\ stopped' = [b \in Lives |-> stopped[b] \/ b <= lives]
    BY <1>2 DEF CancelAll, files
  <2>2. stopped'[a] = stopped[a] \/ stopped'[a] = TRUE
    BY <2>1 DEF TypeOK
  <2> QED
    BY <2>1, <2>2, RunnerCancel DEF TypeOK
<1>3. CASE ReleaseParked
  <2>1. UNCHANGED <<idOf, pc, phase, verdict, stopped, checkpoint>>
    BY <1>3 DEF ReleaseParked, files
  <2>2. UNCHANGED Saved(a)
    BY <2>1 DEF Saved, Id
  <2>3. Here(a)' => Here(a)
    BY <1>3, <2>1 DEF ReleaseParked, Here, Id, Lives, None
  <2>4. CASE Here(a)'
    BY <2>1, <2>2, <2>3, <2>4, RunnerSame
  <2>5. CASE ~Here(a)'
    BY <2>2, <2>5, RunnerEnd DEF Stage
  <2> QED
    BY <2>4, <2>5
<1>4. CASE Exit \/ Crash
  <2>1. /\ UNCHANGED <<idOf, checkpoint>> /\ pc'[a] = "none"
        /\ \A i \in RunIds : runs'[i] = None
    BY <1>4 DEF Exit, Crash, Die, files
  <2>2. ~Here(a)' /\ UNCHANGED Saved(a)
    BY <2>1 DEF Here, Saved, Id, Lives, None
  <2> QED
    BY <2>2, RunnerEnd DEF Stage
<1> QED
  BY <1>1, <1>2, <1>3, <1>4 DEF Drain

\* The run table and the runner fit together, one half of it.  As long as no run
\* is started while a drain unwinds, no life takes its runner through anything but
\* steps of the contract, which NativeAgent implements (NativeAgent_proofs): a
\* client that answers, a cancellation, a drain that releases a life that asks, a
\* crash, and another life of the same id that writes the id's checkpoints.
THEOREM RunnersKept ==
    Spec => [][~lateStart' => \A a \in Lives : [Runner(a)!Next]_(Runner(a)!vars)]_vars
<1>1. Init => Phased
  BY PhasedInit
<1>2. TypeOK /\ Map /\ Phased /\ [Next]_vars => Phased'
  BY PhasedStep
<1>3. TypeOK /\ Map /\ Phased /\ (~lateStart => Quiet) /\ [Next]_vars
        => (~lateStart' => \A a \in Lives : Kept(a))
  <2>. SUFFICES ASSUME TypeOK, Map, Phased, ~lateStart => Quiet, [Next]_vars, ~lateStart',
                       NEW a \in Lives
                PROVE  Kept(a)
    OBVIOUS
  <2>1. TypeOK' /\ Quiet
    BY TypeStep, LateStays
  <2>2. ASSUME NEW b \in Lives, Drive(b) \/ Step(b) PROVE Kept(a)
    BY <2>1, <2>2, RunnerOwn, RunnerOther
  <2>3. ASSUME NEW i \in RunIds, Client(i) PROVE Kept(a)
    BY <2>1, <2>3, RunnerClient
  <2>4. CASE Terminate \/ Drain \/ Crash \/ Restart \/ UNCHANGED vars
    BY <2>4, RunnerDaemon
  <2> QED
    BY <2>2, <2>3, <2>4 DEF Next
<1>4. (\A a \in Lives : Kept(a))
        => (\A a \in Lives : [Runner(a)!Next]_(Runner(a)!vars))
  BY DEF Kept
<1> QED
  BY <1>1, <1>2, <1>3, <1>4, TypeCorrect, MapCorrect, QuietCorrect, PTL DEF Spec

\* The other half: wherever a life is when its runner returns, every return the
\* contract allows is a step the run table has.  Only the loop pauses a run itself
\* and reports the cancellation, so only there a cancelled run has saved and says
\* cancelled.
THEOREM ReturnsAreCovered ==
    ASSUME TypeOK, Map, Phased, NEW a \in Lives, pc[a] \in {"loop", "step"},
           NEW p \in {"stopped", "ask"}, NEW v \in Verdicts, NEW c \in {"none", "ask", "safe"},
           Returns(a, p, v, c), Runner(a)!Return
    PROVE  /\ pc[a] = "step" =>
                 \/ Step(a) \/ StepCancelled(a)
                 \/ stopped[a] /\ v = "cancelled" /\ c = "safe"
           /\ pc[a] = "loop" /\ stopped[a] /\ v = "cancelled" => LoopCancelled(a)
<1>1. /\ Stage(a) = "going" /\ Stage(a)' = p /\ Outlook(a)' = v
      /\ Saved(a) = checkpoint[Id(a)] /\ Saved(a)' = c /\ Cancelled(a) = stopped[a]
  BY RunnerReturns
<1> HIDE DEF Stage, Outlook, Saved, Cancelled
<1>2. \/ /\ p = "stopped"
         /\ \/ v \in {"complete", "yielded"} /\ c = "safe"
            \/ stopped[a] /\ v \in {"cancelled", "yielded"} /\ c \in {"safe", checkpoint[Id(a)]}
            \/ v = (IF stopped[a] THEN "cancelled" ELSE "failed") /\ c = checkpoint[Id(a)]
      \/ p = "ask" /\ v = "awaiting_approval" /\ c = "ask"
  BY <1>1 DEF Runner!Return, Runner!Stop, Runner!Ask
<1> QED
  BY <1>2 DEF Step, StepStops, StepErrs, StepCancelled, LoopCancelled
=============================================================================
