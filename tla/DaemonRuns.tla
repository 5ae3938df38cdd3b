----------------------------- MODULE DaemonRuns -----------------------------
(***************************************************************************)
(* The run table of the harness daemon (internal/harness/daemon): starting *)
(* a run, driving it to its next stop, answering a permission request,     *)
(* cancelling, draining on SIGTERM, crashing, and reconciling the store on *)
(* the next start.                                                         *)
(*                                                                         *)
(* A "life" is one activeRun: one opStart of a run id.  A life is driven   *)
(* by at most one goroutine, whose location is pc[a]; the lock s.mu makes  *)
(* each action below atomic and is not held between two of them.  The run  *)
(* record, the latest checkpoint and the event log are files and survive   *)
(* the process; the map and the lives do not.                              *)
(***************************************************************************)
EXTENDS Naturals

CONSTANTS
    RunIds,        \* run ids clients use
    MaxLives,      \* bound on the number of starts explored
    MaxRestarts    \* bound on the number of daemon restarts explored

ASSUME DaemonAssumption ==
    /\ MaxLives \in Nat /\ MaxRestarts \in Nat
    /\ 0 \notin RunIds

Lives    == 1..MaxLives
None     == 0
Terminal == {"complete", "failed", "cancelled"}
Verdicts == Terminal \cup {"yielded", "awaiting_approval"}
RecordStatus == Verdicts \cup {"absent", "running", "interrupted"}
\* The runner's phase as far as the daemon looks at it.  "none": no runner yet;
\* "lost": going, but its answer could not be checkpointed and nobody drives it.
Phases   == {"none", "going", "ask", "stopped", "lost"}

VARIABLES
    mode,       \* "serving", "draining", "cancelled", "unwinding", "down"
    runs,       \* s.runs: run id -> life, or None
    idOf,       \* the run id of each life
    lives,      \* lives started so far
    pc,         \* where the goroutine of each life is; "none": it has none
    busy,       \* ar.busy
    stopped,    \* the life's context is cancelled
    phase,      \* the runner's phase
    verdict,    \* the status observe computed
    record,     \* daemon-run-<id>.json: its status
    checkpoint, \* the latest checkpoint of the id: "none", "ask" or "safe"
    log,        \* the last lifecycle event of the id in its event log
    lateStart,  \* a run was started while a drain unwound (observer)
    restarts    \* restarts so far (bounds the model)

memory == <<runs, pc, busy, stopped, phase, verdict>>
files  == <<record, checkpoint, log>>
vars   == <<mode, runs, idOf, lives, pc, busy, stopped, phase, verdict,
            record, checkpoint, log, lateStart, restarts>>

Locations == {"none", "startRecord", "startEvent", "execute", "loop", "step",
              "event", "record", "leave", "resolve"}

Init ==
    /\ mode = "serving"
    /\ runs = [i \in RunIds |-> None]
    /\ idOf = [a \in Lives |-> None]
    /\ lives = 0
    /\ pc = [a \in Lives |-> "none"]
    /\ busy = [a \in Lives |-> FALSE]
    /\ stopped = [a \in Lives |-> FALSE]
    /\ phase = [a \in Lives |-> "none"]
    /\ verdict = [a \in Lives |-> "complete"]
    /\ record = [i \in RunIds |-> "absent"]
    /\ checkpoint = [i \in RunIds |-> "none"]
    /\ log = [i \in RunIds |-> "none"]
    /\ lateStart = FALSE
    /\ restarts = 0

Id(a)      == idOf[a]
Goto(a, l) == pc' = [pc EXCEPT ![a] = l]
\* Connections that are open stay served while the daemon drains.
Serving    == mode # "down"

-----------------------------------------------------------------------------
(* opStart and execute.                                                    *)

\* Mutant: the check that the id is free is dropped.
StartReserveAgain(i) ==
    /\ Serving /\ lives < MaxLives
    /\ LET a == lives + 1 IN
          /\ lives' = a
          /\ idOf' = [idOf EXCEPT ![a] = i]
          /\ runs' = [runs EXCEPT ![i] = a]
          /\ busy' = [busy EXCEPT ![a] = TRUE]
          /\ stopped' = [stopped EXCEPT ![a] = mode \in {"cancelled", "unwinding"}]
          /\ Goto(a, "startRecord")
    /\ lateStart' = (lateStart \/ mode = "unwinding")
    /\ UNCHANGED <<mode, phase, verdict, files, restarts>>

\* Reserve the id.  A life started after the root context died is born cancelled.
StartReserve(i) ==
    /\ Serving /\ lives < MaxLives
    /\ runs[i] = None
    /\ LET a == lives + 1 IN
          /\ lives' = a
          /\ idOf' = [idOf EXCEPT ![a] = i]
          /\ runs' = [runs EXCEPT ![i] = a]
          /\ busy' = [busy EXCEPT ![a] = TRUE]
          /\ stopped' = [stopped EXCEPT ![a] = mode \in {"cancelled", "unwinding"}]
          /\ Goto(a, "startRecord")
    /\ lateStart' = (lateStart \/ mode = "unwinding")
    /\ UNCHANGED <<mode, phase, verdict, files, restarts>>

StartRecord(a) ==
    /\ pc[a] = "startRecord"
    /\ record' = [record EXCEPT ![Id(a)] = "running"]
    /\ Goto(a, "startEvent")
    /\ UNCHANGED <<mode, runs, idOf, lives, busy, stopped, phase, verdict,
                   checkpoint, log, lateStart, restarts>>

StartEvent(a) ==
    /\ pc[a] = "startEvent"
    /\ log' = [log EXCEPT ![Id(a)] = "started"]
    /\ Goto(a, "execute")
    /\ UNCHANGED <<mode, runs, idOf, lives, busy, stopped, phase, verdict,
                   record, checkpoint, lateStart, restarts>>

Execute(a) ==
    /\ pc[a] = "execute"
    /\ phase' = [phase EXCEPT ![a] = "going"]
    /\ Goto(a, "loop")
    /\ UNCHANGED <<mode, runs, idOf, lives, busy, stopped, verdict, files, lateStart, restarts>>

-----------------------------------------------------------------------------
(* observe: RunUntilDone, then the event, the record and the map.          *)

\* RunUntilDone returned: the runner is in phase p, the daemon's verdict is v,
\* and the last checkpoint the runner wrote on the way is c.
Returns(a, p, v, c) ==
    /\ phase' = [phase EXCEPT ![a] = p]
    /\ verdict' = [verdict EXCEPT ![a] = v]
    /\ checkpoint' = [checkpoint EXCEPT ![Id(a)] = c]
    /\ Goto(a, "event")
    /\ UNCHANGED <<mode, runs, idOf, lives, busy, stopped, record, log, lateStart, restarts>>

\* The loop of RunUntilDone checks the context before every step.
LoopStep(a) ==
    /\ pc[a] = "loop" /\ ~stopped[a]
    /\ Goto(a, "step")
    /\ UNCHANGED <<mode, runs, idOf, lives, busy, stopped, phase, verdict, files, lateStart, restarts>>

\* Mutant: the loop pauses the run and goes round again instead of returning.
LoopCancelledAgain(a) ==
    /\ pc[a] = "loop" /\ stopped[a]
    /\ checkpoint' = [checkpoint EXCEPT ![Id(a)] = "safe"]
    /\ UNCHANGED <<mode, runs, idOf, lives, pc, busy, stopped, phase, verdict,
                   record, log, lateStart, restarts>>

\* The context is cancelled: Pause tries to write a checkpoint, and the error of
\* the context is returned.
LoopCancelled(a) ==
    /\ pc[a] = "loop" /\ stopped[a]
    /\ \E c \in {"safe", checkpoint[Id(a)]} : Returns(a, "stopped", "cancelled", c)

\* A step that leaves the run going.
StepOn(a) ==
    /\ pc[a] = "step"
    /\ Goto(a, "loop")
    /\ UNCHANGED <<mode, runs, idOf, lives, busy, stopped, phase, verdict, files, lateStart, restarts>>

\* A step that stops the run: it completes, parks with nothing left to do, or
\* stops on a permission request.  Each writes a checkpoint.
StepStops(a) ==
    /\ pc[a] = "step"
    /\ \/ Returns(a, "stopped", "complete", "safe")
       \/ Returns(a, "stopped", "yielded", "safe")
       \/ Returns(a, "ask", "awaiting_approval", "ask")

\* A step that returns an error.  Whether that is a failure or a cancellation
\* is read off the context afterwards.
StepErrs(a) ==
    /\ pc[a] = "step"
    /\ Returns(a, "stopped", IF stopped[a] THEN "cancelled" ELSE "failed",
               checkpoint[Id(a)])

\* A step that sees the cancelled context, at its start or in the model
\* stream: it pauses the run, the checkpoint may fail, and RunUntilDone swallows
\* the error of a run whose phase is yield.
StepCancelled(a) ==
    /\ pc[a] = "step" /\ stopped[a]
    /\ \E c \in {"safe", checkpoint[Id(a)]} : Returns(a, "stopped", "yielded", c)

\* Mutant: a cancelled run is not counted among those that finished.
LogStopUncancelled(a) ==
    /\ pc[a] = "event"
    /\ log' = [log EXCEPT ![Id(a)] =
                  IF verdict[a] \in {"complete", "failed"} THEN "finished" ELSE "paused"]
    /\ Goto(a, "record")
    /\ UNCHANGED <<mode, runs, idOf, lives, busy, stopped, phase, verdict,
                   record, checkpoint, lateStart, restarts>>

\* run.finished or run.paused goes to the log before the record is written.
LogStop(a) ==
    /\ pc[a] = "event"
    /\ log' = [log EXCEPT ![Id(a)] =
                  IF verdict[a] \in Terminal THEN "finished" ELSE "paused"]
    /\ Goto(a, "record")
    /\ UNCHANGED <<mode, runs, idOf, lives, busy, stopped, phase, verdict,
                   record, checkpoint, lateStart, restarts>>

\* Mutant: the record gets the runner's phase for its status.
RecordStopPhase(a) ==
    /\ pc[a] = "record"
    /\ record' = [record EXCEPT ![Id(a)] = phase[a]]
    /\ Goto(a, "leave")
    /\ UNCHANGED <<mode, runs, idOf, lives, busy, stopped, phase, verdict,
                   checkpoint, log, lateStart, restarts>>

RecordStop(a) ==
    /\ pc[a] = "record"
    /\ record' = [record EXCEPT ![Id(a)] = verdict[a]]
    /\ Goto(a, "leave")
    /\ UNCHANGED <<mode, runs, idOf, lives, busy, stopped, phase, verdict,
                   checkpoint, log, lateStart, restarts>>

\* Mutant: any paused run stays in the map.
LeavePaused(a) ==
    /\ pc[a] = "leave"
    /\ IF verdict[a] \in {"awaiting_approval", "yielded"}
       THEN busy' = [busy EXCEPT ![a] = FALSE] /\ UNCHANGED runs
       ELSE runs' = [runs EXCEPT ![Id(a)] = None] /\ UNCHANGED busy
    /\ Goto(a, "none")
    /\ UNCHANGED <<mode, idOf, lives, stopped, phase, verdict, files, lateStart, restarts>>

\* A life that waits for an answer stays in the map, idle; any other leaves it.
Leave(a) ==
    /\ pc[a] = "leave"
    /\ IF verdict[a] = "awaiting_approval"
       THEN busy' = [busy EXCEPT ![a] = FALSE] /\ UNCHANGED runs
       ELSE runs' = [runs EXCEPT ![Id(a)] = None] /\ UNCHANGED busy
    /\ Goto(a, "none")
    /\ UNCHANGED <<mode, idOf, lives, stopped, phase, verdict, files, lateStart, restarts>>

-----------------------------------------------------------------------------
(* opPermission and opCancel.                                              *)

\* The map lookup and the busy flag, under s.mu.
AnswerReserve(i) ==
    /\ Serving /\ runs[i] # None
    /\ LET a == runs[i] IN
          /\ phase[a] # "none" /\ ~busy[a]
          /\ busy' = [busy EXCEPT ![a] = TRUE]
          /\ Goto(a, "resolve")
    /\ UNCHANGED <<mode, runs, idOf, lives, stopped, phase, verdict, files, lateStart, restarts>>

\* Mutant: the answer is not checkpointed.
AnswerTakenUnsaved(a) ==
    /\ pc[a] = "resolve" /\ phase[a] = "ask"
    /\ phase' = [phase EXCEPT ![a] = "going"]
    /\ Goto(a, "loop")
    /\ UNCHANGED <<mode, runs, idOf, lives, busy, stopped, verdict, files, lateStart, restarts>>

\* ResolvePermission took the answer, allow or deny; observe goes on.
AnswerTaken(a) ==
    /\ pc[a] = "resolve" /\ phase[a] = "ask"
    /\ phase' = [phase EXCEPT ![a] = "going"]
    /\ checkpoint' = [checkpoint EXCEPT ![Id(a)] = "safe"]
    /\ Goto(a, "loop")
    /\ UNCHANGED <<mode, runs, idOf, lives, busy, stopped, verdict, record, log, lateStart, restarts>>

\* Mutant: the busy flag is not put back.
AnswerRefusedBusy(a) ==
    /\ pc[a] = "resolve"
    /\ Goto(a, "none")
    /\ UNCHANGED <<mode, runs, idOf, lives, busy, stopped, phase, verdict, files, lateStart, restarts>>

\* ResolvePermission refused the answer: a wrong request, a wrong fingerprint,
\* or nothing pending any more.
AnswerRefused(a) ==
    /\ pc[a] = "resolve"
    /\ busy' = [busy EXCEPT ![a] = FALSE]
    /\ Goto(a, "none")
    /\ UNCHANGED <<mode, runs, idOf, lives, stopped, phase, verdict, files, lateStart, restarts>>

\* ResolvePermission took the answer, moved the phase on and could not write
\* the checkpoint: the error is reported and nobody drives the run.
AnswerLost(a) ==
    /\ pc[a] = "resolve" /\ phase[a] = "ask"
    /\ phase' = [phase EXCEPT ![a] = "lost"]
    /\ busy' = [busy EXCEPT ![a] = FALSE]
    /\ Goto(a, "none")
    /\ UNCHANGED <<mode, runs, idOf, lives, stopped, verdict, files, lateStart, restarts>>

\* The context of whatever life holds the id; nothing else happens here.
Cancel(i) ==
    /\ Serving /\ runs[i] # None
    /\ ~stopped[runs[i]]
    /\ stopped' = [stopped EXCEPT ![runs[i]] = TRUE]
    /\ UNCHANGED <<mode, runs, idOf, lives, pc, busy, phase, verdict, files, lateStart, restarts>>

-----------------------------------------------------------------------------
(* drain: SIGTERM, grace, cancellation, release of parked runs, exit.      *)

Terminate ==
    /\ mode = "serving" /\ mode' = "draining"
    /\ UNCHANGED <<memory, idOf, lives, files, lateStart, restarts>>

\* Nothing advances any more, or drainGrace is over (it may be at any time):
\* every life in the map and, through the root context, every other is cancelled.
CancelAll ==
    /\ mode = "draining" /\ mode' = "cancelled"
    /\ stopped' = [a \in Lives |-> stopped[a] \/ a <= lives]
    /\ UNCHANGED <<runs, pc, busy, phase, verdict, idOf, lives, files, lateStart, restarts>>

\* Runs that are parked on a request leave the map.  The state is read without
\* waiting, so an answer being resolved may hide it.
ReleaseParked ==
    /\ mode = "cancelled" /\ mode' = "unwinding"
    /\ \E hidden \in SUBSET {a \in Lives : pc[a] = "resolve"} :
          runs' = [i \in RunIds |->
                     IF /\ runs[i] # None /\ runs[i] \notin hidden
                        /\ phase[runs[i]] = "ask"
                     THEN None ELSE runs[i]]
    /\ UNCHANGED <<pc, busy, stopped, phase, verdict, idOf, lives, files, lateStart, restarts>>

\* The process ends and every goroutine with it.
Die ==
    /\ mode' = "down"
    /\ pc' = [a \in Lives |-> "none"]
    /\ busy' = [a \in Lives |-> FALSE]
    /\ runs' = [i \in RunIds |-> None]
    /\ UNCHANGED <<stopped, phase, verdict, idOf, lives, files, lateStart, restarts>>

\* awaitUnwind: the map is empty, or cancelGrace is over.
Exit  == mode = "unwinding" /\ Die
Crash == mode # "down" /\ Die

\* Mutant: a running record without a request on disk is left as it is.
ReconciledAsking(i) ==
    IF checkpoint[i] = "ask" /\ record[i] \in {"running", "yielded", "awaiting_approval"}
    THEN "awaiting_approval" ELSE record[i]

\* New: reconcileStore over every record, then an empty map.
Reconciled(i) ==
    IF record[i] \in Terminal \cup {"interrupted", "absent"} THEN record[i]
    ELSE IF checkpoint[i] = "ask" THEN "awaiting_approval" ELSE "interrupted"

Restart ==
    /\ mode = "down" /\ restarts < MaxRestarts
    /\ restarts' = restarts + 1
    /\ mode' = "serving"
    /\ record' = [i \in RunIds |-> Reconciled(i)]
    /\ UNCHANGED <<memory, idOf, lives, checkpoint, log, lateStart>>

-----------------------------------------------------------------------------
Drive(a) ==
    \/ StartRecord(a) \/ StartEvent(a) \/ Execute(a)
    \/ LoopStep(a) \/ LoopCancelled(a) \/ StepCancelled(a)
    \/ LogStop(a) \/ RecordStop(a) \/ Leave(a)
    \/ AnswerTaken(a) \/ AnswerRefused(a) \/ AnswerLost(a)
Step(a)   == StepOn(a) \/ StepStops(a) \/ StepErrs(a)
Client(i) == StartReserve(i) \/ AnswerReserve(i) \/ Cancel(i)
Drain     == CancelAll \/ ReleaseParked \/ Exit

Next ==
    \/ \E i \in RunIds : Client(i)
    \/ \E a \in Lives : Drive(a) \/ Step(a)
    \/ Terminate \/ Drain \/ Crash \/ Restart

Spec == Init /\ [][Next]_vars

\* Goroutines are scheduled; a step whose context is cancelled returns; the
\* drain's deadlines pass.  Nothing makes a step that is not cancelled return.
FairSpec ==
    /\ Spec
    /\ \A a \in Lives : WF_vars(Drive(a))
    /\ WF_vars(Drain)
-----------------------------------------------------------------------------
(* Properties.                                                             *)

TypeOK ==
    /\ mode \in {"serving", "draining", "cancelled", "unwinding", "down"}
    /\ runs \in [RunIds -> Lives \cup {None}]
    /\ idOf \in [Lives -> RunIds \cup {None}]
    /\ lives \in 0..MaxLives
    /\ pc \in [Lives -> Locations]
    /\ busy \in [Lives -> BOOLEAN]
    /\ stopped \in [Lives -> BOOLEAN]
    /\ phase \in [Lives -> Phases]
    /\ verdict \in [Lives -> Verdicts]
    /\ record \in [RunIds -> RecordStatus]
    /\ checkpoint \in [RunIds -> {"none", "ask", "safe"}]
    /\ log \in [RunIds -> {"none", "started", "finished", "paused"}]
    /\ lateStart \in BOOLEAN
    /\ restarts \in 0..MaxRestarts

\* The life of i is in the map and no goroutine drives it.
Idle(i) == runs[i] # None /\ pc[runs[i]] = "none"

\* A life in the map is busy exactly while a goroutine drives it: a run that
\* stopped to ask can be answered, and a run that advances cannot.
BusyIsDriven ==
    \A i \in RunIds : runs[i] # None => (busy[runs[i]] <=> ~Idle(i))

\* A goroutine drives only the life its id names, so two never write the record,
\* the events and the checkpoints of one id.  (Until the drain releases lives
\* that ask; after that one may still be on its way out.)
DriverIsNamed ==
    mode # "unwinding" => \A a \in Lives : pc[a] # "none" => runs[Id(a)] = a

\* An answer never starts a second loop over a runner ("busy", daemon.go:199).
SingleDriver ==
    [][\A a \in Lives : pc[a] # "none" => (pc'[a] = "resolve" => pc[a] = "resolve")]_vars

\* While the daemon serves, a record that says running has a run behind it:
\* reconcileStore leaves no claim of an earlier process standing.
RunningIsReal ==
    mode = "serving" => \A i \in RunIds : record[i] = "running" => runs[i] # None

\* A terminal record is preceded by its run.finished: what status says, the
\* timeline a reconnecting client replays says too.  (A run started while the
\* drain unwinds may share its id with one that is still on its way out.)
TerminalIsLogged ==
    ~lateStart => \A i \in RunIds : record[i] \in Terminal => log[i] = "finished"

\* A record that is final is changed by nothing but a new start of the id, not
\* by a late driver and not by reconcileRun.
FinalStays ==
    [][\A i \in RunIds : ~lateStart /\ record[i] \in Terminal \cup {"interrupted"} =>
          record'[i] \in {record[i], "running"}]_vars

\* A life that waits idle asks something or has lost its answer, and its record,
\* its timeline and its checkpoint all say it asks (releaseParked: "Nothing is
\* lost").
ParkedIsDurable ==
    ~lateStart => \A i \in RunIds : Idle(i) =>
        /\ phase[runs[i]] \in {"ask", "lost"} /\ checkpoint[i] = "ask"
        /\ record[i] = "awaiting_approval" /\ log[i] = "paused"

\* A life whose answer was taken is not reported as waiting for it after a
\* restart, when it is the only life of its id.
AnswerStays ==
    mode = "serving" => \A a \in 1..lives :
        (/\ phase[a] \notin {"ask", "lost"} /\ runs[Id(a)] = None
         /\ \A b \in 1..lives : Id(b) = Id(a) => b = a)
        => record[Id(a)] # "awaiting_approval"

\* A driver whose run is cancelled comes to its end, wherever the cancellation
\* found it: before the run began, in a step, or while an answer was resolved.
CancelEnds == \A a \in Lives : (stopped[a] /\ pc[a] # "none") ~> pc[a] = "none"

\* The inductive invariant behind the proofs.  A life in the map is one that was
\* started under that id; a life that has a goroutine is named by its id, and so
\* is alone in writing the id's files, until a drain has released lives; what a
\* driver has already written is what it is about to build on.
Named ==
    \A i \in RunIds : runs[i] # None => runs[i] <= lives /\ Id(runs[i]) = i

DriverStarted ==
    \A a \in Lives : pc[a] # "none" => a <= lives /\ Id(a) \in RunIds

DownIsEmpty ==
    mode = "down" => /\ \A a \in Lives : pc[a] = "none"
                     /\ \A i \in RunIds : runs[i] = None

LeaveRecorded ==
    mode # "unwinding" =>
        \A a \in Lives : pc[a] = "leave" => record[Id(a)] = verdict[a]

DriverAlone ==
    \A a, b \in Lives : pc[a] # "none" /\ pc[b] # "none" /\ Id(a) = Id(b) => a = b

\* Past the reservation and before its own verdict is recorded, a driver finds a
\* record that is not final; past LogStop the timeline has its verdict.
DriverRecord ==
    \A a \in Lives :
        /\ pc[a] \notin {"none", "startRecord", "leave"}
              => record[Id(a)] \in {"running", "awaiting_approval"}
        /\ pc[a] = "resolve" => record[Id(a)] = "awaiting_approval"
        /\ pc[a] = "record" => (verdict[a] \in Terminal => log[Id(a)] = "finished")
        /\ pc[a] = "leave" => record[Id(a)] = verdict[a]

IdleRecord ==
    \A i \in RunIds : Idle(i) => record[i] = "awaiting_approval"

\* A life that is being driven and another that idles do not share an id.
IdleAlone ==
    \A i \in RunIds, a \in Lives : Idle(i) /\ pc[a] # "none" => Id(a) # i

\* An id as a client sees it (see RunLifecycle).
Hold(i) ==
    IF \E a \in Lives : pc[a] = "startRecord" /\ Id(a) = i THEN "begun"
    ELSE IF runs[i] # None \/ \E a \in Lives : pc[a] # "none" /\ Id(a) = i THEN "held"
    ELSE "free"

Lifecycle == INSTANCE RunLifecycle WITH
    status <- record, hold <- [i \in RunIds |-> Hold(i)], loose <- lateStart

\* The run table keeps the promise: an id has one life at a time, its status
\* follows that life, and a restart takes back only what is no longer true.
LifecycleSpec == Lifecycle!Spec

IInv ==
    /\ TypeOK /\ Named /\ DriverStarted /\ BusyIsDriven /\ DriverIsNamed
    /\ DownIsEmpty /\ LeaveRecorded /\ RunningIsReal
    /\ ~lateStart => DriverAlone /\ DriverRecord /\ IdleRecord /\ IdleAlone
    /\ TerminalIsLogged
=============================================================================
