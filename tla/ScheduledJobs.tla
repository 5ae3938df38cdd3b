---------------------------- MODULE ScheduledJobs ----------------------------
(***************************************************************************)
(* The schedule of the harness daemon (schedule.go): jobs.json, the client *)
(* operations that add and remove jobs, and the tick that starts what is   *)
(* due.  Each of them loads the whole file, changes its copy and writes    *)
(* the whole file back through one temporary file, and no lock is held     *)
(* in between.  The daemon may die anywhere and come back.                 *)
(*                                                                         *)
(* Time is relative: a job is due in so many units, and a unit that passes *)
(* brings every copy of every job one unit closer.                         *)
(***************************************************************************)
EXTENDS Integers

CONSTANTS
    JobIds,
    Hopeless,    \* jobs whose start is refused each time: provider, id, tools
    Clients,     \* connections; each carries out one operation at a time
    Every,       \* EverySecs, the same for all jobs
    MaxRetries,  \* the default of MaxRetries
    MaxOps,      \* bound on the client operations explored
    MaxFaults    \* bound on the crashes, failed saves and passing refusals

Ticker == "ticker"
Actors == Clients \cup {Ticker}

ASSUME JobsAssumption ==
    /\ JobIds # {} /\ Hopeless \subseteq JobIds
    /\ Ticker \notin Clients
    /\ Every \in Nat \ {0} /\ MaxRetries \in Nat \ {0}
    /\ MaxOps \in Nat /\ MaxFaults \in Nat

Longest == Every * MaxRetries
Job     == [due : 0..Longest, retries : 0..MaxRetries]
NoJob   == [due |-> 0, retries |-> -1]
New     == [due |-> Every, retries |-> 0]
NoJobs  == [j \in JobIds |-> NoJob]
Has(t)  == {j \in JobIds : t[j] \in Job}
\* A file that was just truncated, one that does not parse, and none at all.
Empty   == [j \in JobIds |-> [due |-> 0, retries |-> -4]]
Torn    == [j \in JobIds |-> [due |-> 0, retries |-> -2]]
Missing == [j \in JobIds |-> [due |-> 0, retries |-> -3]]

VARIABLES
    file, tmp,   \* jobs.json and jobs.json.tmp
    pc,          \* where each actor is
    want,        \* the operation a client has asked for
    copy,        \* what an actor has loaded, and then changed
    fd,          \* the file an actor has open for writing
    todo,        \* due jobs the tick has yet to start
    late,        \* units since the tick read the clock
    changed,     \* the tick has something to save
    ops, faults, \* so far (bounds)
    promised,    \* jobs that were saved and have not been given up (observer)
    rest,        \* units until a job may be started again (observer)
    failures,    \* refused starts of a job in a row (observer)
    stale,       \* actors whose copy is older than the file (observer)
    disturbed    \* a change was lost: see the saves and Crash (observer)

disk  == <<file, tmp>>
tick  == <<todo, late, changed>>
bound == <<ops, faults>>
watch == <<promised, rest, failures>>
vars  == <<disk, pc, want, copy, fd, tick, bound, watch, stale, disturbed>>

Nothing == [op |-> "none", job |-> CHOOSE j \in JobIds : TRUE]

Init ==
    /\ file = Missing /\ tmp = Missing
    /\ pc = [a \in Actors |-> "idle"]
    /\ want = [c \in Clients |-> Nothing]
    /\ copy = [a \in Actors |-> NoJobs]
    /\ fd = [a \in Actors |-> "none"]
    /\ todo = {} /\ late = 0 /\ changed = FALSE
    /\ ops = 0 /\ faults = 0
    /\ promised = {}
    /\ rest = [j \in JobIds |-> 0] /\ failures = [j \in JobIds |-> 0]
    /\ stale = {} /\ disturbed = FALSE

Goto(a, l)  == pc' = [pc EXCEPT ![a] = l]
After(n)    == IF n > late THEN n - late ELSE 0
\* loadJobs: a file that is missing or does not parse holds no jobs.
Loaded      == IF Has(file) = {} THEN NoJobs ELSE file

-----------------------------------------------------------------------------
(* opSchedule and opUnschedule: load, look, change the copy, save it.      *)

Operation(c, op, j) ==
    /\ pc[c] = "idle" /\ ops < MaxOps
    /\ ops' = ops + 1
    /\ want' = [want EXCEPT ![c] = [op |-> op, job |-> j]]
    /\ copy' = [copy EXCEPT ![c] = Loaded]
    /\ promised' = IF op = "unschedule" THEN promised \ {j} ELSE promised
    /\ stale' = stale \ {c}
    /\ Goto(c, "change")
    /\ UNCHANGED <<disk, fd, tick, faults, rest, failures, disturbed>>

\* A job that exists is not added again, one that does not is not removed.
Refused(c) ==
    /\ pc[c] = "change"
    /\ (want[c].op = "schedule") <=> (want[c].job \in Has(copy[c]))
    /\ want' = [want EXCEPT ![c] = Nothing]
    /\ copy' = [copy EXCEPT ![c] = NoJobs]
    /\ Goto(c, "idle")
    /\ UNCHANGED <<disk, fd, tick, bound, watch, stale, disturbed>>

Schedule(c) ==
    /\ pc[c] = "change" /\ want[c].op = "schedule"
    /\ want[c].job \notin Has(copy[c])
    /\ copy' = [copy EXCEPT ![c][want[c].job] = New]
    /\ Goto(c, "open")
    /\ UNCHANGED <<disk, want, fd, tick, bound, watch, stale, disturbed>>

Unschedule(c) ==
    /\ pc[c] = "change" /\ want[c].op = "unschedule"
    /\ want[c].job \in Has(copy[c])
    /\ copy' = [copy EXCEPT ![c][want[c].job] = NoJob]
    /\ Goto(c, "open")
    /\ UNCHANGED <<disk, want, fd, tick, bound, watch, stale, disturbed>>

-----------------------------------------------------------------------------
(* tickJobs: load, start what is due, save if anything changed.            *)

Tick ==
    /\ pc[Ticker] = "idle"
    /\ todo' = {j \in Has(Loaded) : Loaded[j].due = 0}
    /\ todo' # {}
    /\ copy' = [copy EXCEPT ![Ticker] = Loaded]
    /\ late' = 0 /\ changed' = FALSE
    /\ stale' = stale \ {Ticker}
    /\ Goto(Ticker, "tick")
    /\ UNCHANGED <<disk, want, fd, bound, watch, disturbed>>

\* Mutant: the job stays due.
StartOkDue(j) ==
    /\ pc[Ticker] = "tick" /\ j \in todo \ Hopeless
    /\ todo' = todo \ {j} /\ changed' = TRUE
    /\ copy' = [copy EXCEPT ![Ticker][j] = [due |-> 0, retries |-> 0]]
    /\ rest' = [rest EXCEPT ![j] = After(Every)]
    /\ failures' = [failures EXCEPT ![j] = 0]
    /\ UNCHANGED <<disk, pc, want, fd, late, bound, promised, stale, disturbed>>

\* dispatch(start) says ok; the next run counts from the clock the tick read.
StartOk(j) ==
    /\ pc[Ticker] = "tick" /\ j \in todo \ Hopeless
    /\ todo' = todo \ {j} /\ changed' = TRUE
    /\ copy' = [copy EXCEPT ![Ticker][j] = [due |-> After(Every), retries |-> 0]]
    /\ rest' = [rest EXCEPT ![j] = After(Every)]
    /\ failures' = [failures EXCEPT ![j] = 0]
    /\ UNCHANGED <<disk, pc, want, fd, late, bound, promised, stale, disturbed>>

\* dispatch(start) is refused: for ever, or this time.
StartFails(j) ==
    /\ pc[Ticker] = "tick" /\ j \in todo
    /\ \/ j \in Hopeless /\ faults' = faults
       \/ j \notin Hopeless /\ faults < MaxFaults /\ faults' = faults + 1
    /\ todo' = todo \ {j}
    /\ failures' = [failures EXCEPT ![j] = IF @ > MaxRetries THEN @ ELSE @ + 1]

\* Mutant: one retry too many.
RetryMore(j) ==
    LET n == copy[Ticker][j].retries + 1 IN
    /\ StartFails(j)
    /\ n <= MaxRetries + 1
    /\ copy' = [copy EXCEPT ![Ticker][j] = [due |-> After(Every * n), retries |-> n]]
    /\ changed' = TRUE
    /\ UNCHANGED <<disk, pc, want, fd, late, ops, promised, rest, stale, disturbed>>

Retry(j) ==
    LET n == copy[Ticker][j].retries + 1 IN
    /\ StartFails(j)
    /\ n <= MaxRetries
    /\ copy' = [copy EXCEPT ![Ticker][j] = [due |-> After(Every * n), retries |-> n]]
    /\ changed' = TRUE
    /\ UNCHANGED <<disk, pc, want, fd, late, ops, promised, rest, stale, disturbed>>

\* Mutant: the retries of one job are held against it too soon.
DropSoon(j) ==
    /\ StartFails(j)
    /\ copy[Ticker][j].retries + 1 >= MaxRetries
    /\ copy' = [copy EXCEPT ![Ticker][j] = NoJob]
    /\ promised' = IF failures'[j] > MaxRetries THEN promised \ {j} ELSE promised
    /\ changed' = TRUE
    /\ UNCHANGED <<disk, pc, want, fd, late, ops, rest, stale, disturbed>>

\* Mutant: fewer jobs kept is not taken for a change.
DropUnsaved(j) ==
    /\ StartFails(j)
    /\ copy[Ticker][j].retries + 1 > MaxRetries
    /\ copy' = [copy EXCEPT ![Ticker][j] = NoJob]
    /\ promised' = IF failures'[j] > MaxRetries THEN promised \ {j} ELSE promised
    /\ UNCHANGED <<disk, pc, want, fd, late, changed, ops, rest, stale, disturbed>>

\* More refusals than retries: the job is dropped from the file.
Drop(j) ==
    /\ StartFails(j)
    /\ copy[Ticker][j].retries + 1 > MaxRetries
    /\ copy' = [copy EXCEPT ![Ticker][j] = NoJob]
    /\ promised' = IF failures'[j] > MaxRetries THEN promised \ {j} ELSE promised
    /\ changed' = TRUE
    /\ UNCHANGED <<disk, pc, want, fd, late, ops, rest, stale, disturbed>>

TickDone ==
    /\ pc[Ticker] = "tick" /\ todo = {}
    /\ IF changed THEN Goto(Ticker, "open") /\ UNCHANGED copy
       ELSE Goto(Ticker, "idle") /\ copy' = [copy EXCEPT ![Ticker] = NoJobs]
    /\ UNCHANGED <<disk, want, fd, tick, bound, watch, stale, disturbed>>

-----------------------------------------------------------------------------
(* saveJobs: truncate the temporary file, write it, move it over the file. *)

\* A save that another is in the middle of shares its temporary file.
Open(a) ==
    /\ pc[a] = "open"
    /\ tmp' = Empty
    /\ fd' = [fd EXCEPT ![a] = "tmp"]
    /\ disturbed' = (disturbed \/ \E b \in Actors \ {a} : fd[b] # "none")
    /\ Goto(a, "fill")
    /\ UNCHANGED <<file, want, copy, tick, bound, watch, stale>>

\* A write over what another wrote leaves the other's tail, if that was longer.
Filled(a, old, new) ==
    \/ new = copy[a]
    \/ /\ old # Empty /\ new = Torn
       /\ old = Torn \/ Has(copy[a]) \subseteq Has(old)

Fill(a) ==
    /\ pc[a] = "fill"
    /\ \/ fd[a] = "tmp" /\ Filled(a, tmp, tmp') /\ UNCHANGED file
       \/ fd[a] = "file" /\ Filled(a, file, file') /\ UNCHANGED tmp
       \/ fd[a] = "gone" /\ UNCHANGED disk
    /\ Goto(a, "rename")
    /\ UNCHANGED <<want, copy, fd, tick, bound, watch, stale, disturbed>>

\* What a finished operation leaves behind.
Finish(a) ==
    /\ Goto(a, "idle")
    /\ copy' = [copy EXCEPT ![a] = NoJobs]
    /\ want' = IF a = Ticker THEN want ELSE [want EXCEPT ![a] = Nothing]
    /\ IF a = Ticker THEN todo' = {} /\ late' = 0 /\ changed' = FALSE
       ELSE UNCHANGED tick

\* The temporary file becomes the file, whoever wrote it; a client is told ok.
Rename(a) ==
    /\ pc[a] = "rename" /\ tmp # Missing
    /\ file' = tmp /\ tmp' = Missing
    /\ fd' = [b \in Actors |-> CASE b = a -> "none"
                                 [] b # a /\ fd[b] = "tmp" -> "file"
                                 [] b # a /\ fd[b] = "file" -> "gone"
                                 [] OTHER -> fd[b]]
    /\ disturbed' = (disturbed \/ a \in stale)
    /\ stale' = {b \in Actors \ {a} : pc[b] # "idle"}
    /\ promised' = IF a # Ticker /\ want[a].op = "schedule"
                   THEN promised \cup {want[a].job} ELSE promised
    /\ Finish(a)
    /\ UNCHANGED <<bound, rest, failures>>

\* saveJobs returns nothing: a failure goes unnoticed and the client is told
\* ok.  The rename fails when another save has taken the temporary file.
SaveFails(a) ==
    /\ \/ pc[a] \in {"open", "rename"} /\ faults < MaxFaults /\ faults' = faults + 1
       \/ pc[a] = "rename" /\ tmp = Missing /\ faults' = faults
    /\ fd' = [fd EXCEPT ![a] = "none"]
    /\ disturbed' = TRUE
    /\ stale' = stale \ {a}
    /\ Finish(a)
    /\ UNCHANGED <<disk, ops, watch>>

-----------------------------------------------------------------------------
(* The clock, and the end of a daemon.                                     *)

Closer(t) == [j \in JobIds |-> [t[j] EXCEPT !.due = IF @ > 0 THEN @ - 1 ELSE 0]]

Second ==
    /\ file' = Closer(file) /\ tmp' = Closer(tmp)
    /\ copy' = [a \in Actors |-> Closer(copy[a])]
    /\ rest' = [j \in JobIds |-> IF rest[j] > 0 THEN rest[j] - 1 ELSE 0]
    /\ late' = IF pc[Ticker] = "tick" /\ late < Longest THEN late + 1 ELSE late
    /\ UNCHANGED <<pc, want, fd, todo, changed, bound, promised, failures, stale, disturbed>>

\* The daemon dies and another serves the same store: the files stay.  What
\* the tick started and had not saved is forgotten.
Crash ==
    /\ faults < MaxFaults /\ faults' = faults + 1
    /\ \E a \in Actors : pc[a] # "idle"
    /\ pc' = [a \in Actors |-> "idle"]
    /\ want' = [c \in Clients |-> Nothing]
    /\ copy' = [a \in Actors |-> NoJobs]
    /\ fd' = [a \in Actors |-> "none"]
    /\ todo' = {} /\ late' = 0 /\ changed' = FALSE
    /\ stale' = {}
    /\ disturbed' = (disturbed \/ changed)
    /\ UNCHANGED <<disk, ops, watch>>

-----------------------------------------------------------------------------
Save(a) == Open(a) \/ Fill(a) \/ Rename(a) \/ SaveFails(a)

TickStep ==
    \/ Tick \/ TickDone \/ Save(Ticker)
    \/ \E j \in JobIds : StartOk(j) \/ Retry(j) \/ Drop(j)

ClientStep(c) == Refused(c) \/ Schedule(c) \/ Unschedule(c) \/ Save(c)

Next ==
    \/ \E c \in Clients, op \in {"schedule", "unschedule"}, j \in JobIds :
           Operation(c, op, j)
    \/ \E c \in Clients : ClientStep(c)
    \/ TickStep
    \/ Second
    \/ Crash

Spec == Init /\ [][Next]_vars

\* The ticker's goroutine and the connections' are scheduled, and time passes.
Fairness ==
    /\ WF_vars(TickStep)
    /\ \A c \in Clients : WF_vars(ClientStep(c))
    /\ WF_vars(Second)

FairSpec == Spec /\ Fairness

-----------------------------------------------------------------------------
(* Properties.                                                             *)

Table == [JobIds -> Job \cup {NoJob}]

\* Type correctness of the two files and of every copy of the schedule.
TypeOK ==
    /\ {file, tmp} \subseteq Table \cup {Empty, Torn, Missing}
    /\ pc \in [Actors -> {"idle", "change", "tick", "open", "fill", "rename"}]
    /\ want \in [Clients -> [op : {"none", "schedule", "unschedule"}, job : JobIds]]
    /\ copy \in [Actors -> Table]
    /\ fd \in [Actors -> {"none", "tmp", "file", "gone"}]
    /\ todo \subseteq JobIds /\ late \in 0..Longest /\ changed \in BOOLEAN
    /\ ops \in 0..MaxOps /\ faults \in 0..MaxFaults
    /\ promised \subseteq JobIds
    /\ rest \in [JobIds -> 0..Every] /\ failures \in [JobIds -> 0..(MaxRetries + 1)]
    /\ stale \subseteq Actors /\ disturbed \in BOOLEAN

\* A job that was saved stays in the file until a client takes it back or its
\* start has been refused more than MaxRetries times in a row (schedule.go,
\* opUnschedule and tickJobs), as long as no save was made from an old copy,
\* shared its temporary file or failed, and no crash undid a tick.
JobsKept == disturbed \/ promised \subseteq Has(file)

\* A due job is started once, not once per missed tick or per retry of its
\* neighbours: between two starts of a job lies its period, crashes of the
\* daemon between ticks included (schedule.go, tickJobs), under the same
\* exception as JobsKept.
SpacedStarts ==
    [][\A j \in JobIds : StartOk(j) => (disturbed \/ rest[j] = 0)]_vars

\* Whatever races, failed saves and crashes there were, the schedule recovers:
\* a job that stays in the file is started again and again, and one whose
\* start is always refused leaves it (tickJobs).
JobsServed ==
    \A j \in JobIds :
        \/ []<>(j \notin Has(file))
        \/ j \notin Hopeless /\ []<><<StartOk(j)>>_vars
====
