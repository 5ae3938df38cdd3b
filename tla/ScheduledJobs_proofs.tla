------------------------ MODULE ScheduledJobs_proofs ------------------------
(***************************************************************************)
(* Proofs about the schedule: the types of the files and copies, that a    *)
(* job is kept while no save raced or failed, and that its starts are a    *)
(* period apart.  The argument: while nothing disturbed the file there is  *)
(* one save at a time, what it publishes is the file as it is plus one     *)
(* change, and every copy that is older than the file is known to be so.   *)
(***************************************************************************)
EXTENDS ScheduledJobs, TLAPS

Files == Table \cup {Empty, Torn, Missing}

LEMMA Numbers ==
    /\ Every \in Nat \ {0} /\ MaxRetries \in Nat \ {0} /\ Longest \in Nat
    /\ Every <= Longest
    /\ \A n \in 0..MaxRetries : Every * n \in 0..Longest
<1>1. Every \in Nat \ {0} /\ MaxRetries \in Nat \ {0}  BY JobsAssumption
<1>2. \A x, y, z \in Nat : y <= z => x * y <= x * z /\ x * y \in Nat  BY SMT
<1>3. Longest \in Nat /\ Every <= Longest
  <2>1. Every * 1 <= Every * MaxRetries /\ Every * MaxRetries \in Nat  BY <1>1, <1>2
  <2> QED  BY <2>1, <1>1 DEF Longest
<1>4. ASSUME NEW n \in 0..MaxRetries PROVE Every * n \in 0..Longest
  <2>1. Every * n <= Every * MaxRetries /\ Every * n \in Nat  BY <1>1, <1>2
  <2> QED  BY <2>1, <1>3 DEF Longest
<1> QED  BY <1>1, <1>3, <1>4

\* NoJob is no job, and the marks of a file without a schedule are none either.
LEMMA Marks ==
    /\ NoJob \notin Job
    /\ \A j \in JobIds : Empty[j] \notin Job /\ Torn[j] \notin Job /\ Missing[j] \notin Job
    /\ Empty \notin Table /\ Torn \notin Table /\ Missing \notin Table
    /\ NoJobs \in Table
<1>1. NoJob \notin Job /\ \A j \in JobIds : Empty[j] \notin Job /\ Torn[j] \notin Job
                                            /\ Missing[j] \notin Job
  BY Numbers DEF NoJob, Job, Empty, Torn, Missing
<1>2. \A j \in JobIds : Empty[j] # NoJob /\ Torn[j] # NoJob /\ Missing[j] # NoJob
  BY DEF NoJob, Empty, Torn, Missing
<1>3. PICK j \in JobIds : TRUE  BY JobsAssumption
<1>4. Empty \notin Table /\ Torn \notin Table /\ Missing \notin Table
  BY <1>1, <1>2, <1>3 DEF Table
<1>5. NoJobs \in Table  BY DEF NoJobs, Table
<1> QED  BY <1>1, <1>4, <1>5

\* A job is in a schedule when its entry is not NoJob.
LEMMA HasInTable ==
    /\ \A t \in Table, j \in JobIds : j \in Has(t) <=> t[j] # NoJob
    /\ \A t \in Table, j \in JobIds : j \in Has(t) <=> t[j] \in Job
    /\ \A t \in Files : Has(t) \subseteq JobIds
    /\ Has(Empty) = {} /\ Has(Torn) = {} /\ Has(Missing) = {} /\ Has(NoJobs) = {}
<1>1. \A t \in Table, j \in JobIds : t[j] \in Job \/ t[j] = NoJob  BY DEF Table
<1>2. Has(NoJobs) = {}  BY Marks DEF Has, NoJobs
<1> QED  BY <1>1, <1>2, Marks DEF Has, Files

LEMMA LoadedIsFile ==
    ASSUME file \in Files
    PROVE  /\ Loaded \in Table
           /\ Has(Loaded) = Has(file)
           /\ \A j \in Has(file) : Loaded[j] = file[j]
<1>1. CASE Has(file) = {}  BY <1>1, Marks, HasInTable DEF Loaded
<1>2. CASE Has(file) # {}
  <2>1. file \in Table  BY <1>2, HasInTable DEF Files
  <2> QED  BY <1>2, <2>1 DEF Loaded
<1> QED  BY <1>1, <1>2

\* The clock changes no schedule's jobs and retries.
LEMMA CloserEntry ==
    ASSUME NEW t, NEW j \in JobIds
    PROVE  /\ t[j] = NoJob => Closer(t)[j] = NoJob
           /\ t[j] \in Job =>
                 /\ Closer(t)[j] \in Job
                 /\ Closer(t)[j].retries = t[j].retries
                 /\ Closer(t)[j].due = (IF t[j].due > 0 THEN t[j].due - 1 ELSE 0)
<1>1. Closer(t)[j] = [t[j] EXCEPT !.due = IF @ > 0 THEN @ - 1 ELSE 0]  BY DEF Closer
<1>2. ASSUME t[j] = NoJob PROVE Closer(t)[j] = NoJob  BY <1>1, <1>2 DEF NoJob
<1>3. ASSUME NEW e \in Job
      PROVE  /\ [e EXCEPT !.due = IF @ > 0 THEN @ - 1 ELSE 0] \in Job
             /\ [e EXCEPT !.due = IF @ > 0 THEN @ - 1 ELSE 0].retries = e.retries
             /\ [e EXCEPT !.due = IF @ > 0 THEN @ - 1 ELSE 0].due
                   = (IF e.due > 0 THEN e.due - 1 ELSE 0)
  BY Numbers DEF Job
<1>4. ASSUME t[j] \in Job
      PROVE  /\ Closer(t)[j] \in Job
             /\ Closer(t)[j].retries = t[j].retries
             /\ Closer(t)[j].due = (IF t[j].due > 0 THEN t[j].due - 1 ELSE 0)
  BY <1>1, <1>3, <1>4
<1> QED  BY <1>2, <1>4

LEMMA CloserMarks ==
    /\ Closer(Empty) = Empty /\ Closer(Torn) = Torn /\ Closer(Missing) = Missing
    /\ Closer(NoJobs) = NoJobs
BY DEF Closer, Empty, Torn, Missing, NoJobs, NoJob

LEMMA CloserTable ==
    ASSUME NEW t \in Table
    PROVE  /\ Closer(t) \in Table
           /\ Has(Closer(t)) = Has(t)
           /\ \A j \in Has(t) : /\ Closer(t)[j].retries = t[j].retries
                                /\ Closer(t)[j].due = (IF t[j].due > 0 THEN t[j].due - 1 ELSE 0)
           /\ \A j \in JobIds : t[j] = NoJob => Closer(t)[j] = NoJob
<1>1. \A j \in JobIds : t[j] = NoJob => Closer(t)[j] = NoJob  BY CloserEntry
<1>2. \A j \in JobIds : t[j] \in Job =>
         /\ Closer(t)[j] \in Job
         /\ Closer(t)[j].retries = t[j].retries
         /\ Closer(t)[j].due = (IF t[j].due > 0 THEN t[j].due - 1 ELSE 0)
  BY CloserEntry
<1>3. \A j \in JobIds : t[j] \in Job \/ t[j] = NoJob  BY DEF Table
<1>4. Closer(t) \in Table
  <2>1. Closer(t) = [j \in JobIds |-> Closer(t)[j]]  BY DEF Closer
  <2>2. \A j \in JobIds : Closer(t)[j] \in Job \cup {NoJob}  BY <1>1, <1>2, <1>3
  <2> QED  BY <2>1, <2>2 DEF Table
<1>5. \A j \in JobIds : j \in Has(Closer(t)) <=> j \in Has(t)
  BY <1>1, <1>2, <1>3, <1>4, HasInTable
<1>6. Has(Closer(t)) = Has(t)  BY <1>5 DEF Has
<1>7. \A j \in Has(t) : j \in JobIds /\ t[j] \in Job  BY DEF Has
<1> QED  BY <1>1, <1>2, <1>4, <1>6, <1>7

LEMMA CloserFile ==
    ASSUME NEW t \in Files
    PROVE  /\ Closer(t) \in Files
           /\ Has(Closer(t)) = Has(t)
           /\ \A j \in Has(t) : /\ Closer(t)[j].retries = t[j].retries
                                /\ Closer(t)[j].due = (IF t[j].due > 0 THEN t[j].due - 1 ELSE 0)
<1>1. CASE t \in Table  BY <1>1, CloserTable DEF Files
<1>2. CASE t \notin Table
  BY <1>2, CloserMarks, HasInTable DEF Files
<1> QED  BY <1>1, <1>2

-----------------------------------------------------------------------------
(* Types.                                                                  *)

\* Actors other than a client are the ticker.
LEMMA ActorIs == Ticker \in Actors /\ Clients \subseteq Actors /\ Ticker \notin Clients
BY JobsAssumption DEF Actors

\* Initially the types are right.
LEMMA TypeInit == Init => TypeOK
<1> SUFFICES ASSUME Init PROVE TypeOK  OBVIOUS
<1> USE DEF Init
<1>1. {file, tmp} \subseteq Table \cup {Empty, Torn, Missing}  OBVIOUS
<1>2. copy \in [Actors -> Table]  BY Marks
<1>3. Nothing.job \in JobIds /\ Nothing = [op |-> "none", job |-> Nothing.job]
  BY JobsAssumption DEF Nothing
<1>4. want \in [Clients -> [op : {"none", "schedule", "unschedule"}, job : JobIds]]
  BY <1>3
<1>5. rest \in [JobIds -> 0..Every] /\ failures \in [JobIds -> 0..(MaxRetries + 1)]
  BY Numbers
<1>6. /\ pc \in [Actors -> {"idle", "change", "tick", "open", "fill", "rename"}]
      /\ fd \in [Actors -> {"none", "tmp", "file", "gone"}]
  OBVIOUS
<1>7. late \in 0..Longest /\ ops \in 0..MaxOps /\ faults \in 0..MaxFaults
  BY Numbers, JobsAssumption
<1>8. /\ todo \subseteq JobIds /\ changed \in BOOLEAN /\ promised \subseteq JobIds
      /\ stale \subseteq Actors /\ disturbed \in BOOLEAN
  OBVIOUS
<1> QED  BY <1>1, <1>2, <1>4, <1>5, <1>6, <1>7, <1>8 DEF TypeOK

\* The types of the parts a step of the tick changes.
LEMMA DueType ==
    ASSUME TypeOK
    PROVE  /\ \A n \in 0..MaxRetries : After(Every * n) \in 0..Longest
           /\ After(Every) \in 0..Every
<1>1. late \in Nat  BY Numbers DEF TypeOK
<1>2. \A m \in Nat : After(m) \in 0..m  BY <1>1 DEF After
<1>3. ASSUME NEW n \in 0..MaxRetries PROVE After(Every * n) \in 0..Longest
  <2> DEFINE m == Every * n
  <2>1. m \in 0..Longest  BY Numbers
  <2> HIDE DEF m
  <2>2. After(m) \in 0..Longest  BY <1>2, <2>1, Numbers
  <2> QED  BY <2>2 DEF m
<1> QED  BY <1>2, <1>3, Numbers

LEMMA TypeStep == TypeOK /\ [Next]_vars => TypeOK'
<1> SUFFICES ASSUME TypeOK, [Next]_vars PROVE TypeOK'  OBVIOUS
<1> USE Numbers, ActorIs
<1> USE DEF disk, tick, bound, watch
<1>0. 0 \in 0..Longest  OBVIOUS
<1>1. ASSUME NEW c \in Clients, NEW op \in {"schedule", "unschedule"}, NEW j \in JobIds,
             Operation(c, op, j)
      PROVE  TypeOK'
  <2>1. Loaded \in Table  BY LoadedIsFile DEF TypeOK, Files
  <2>2. copy' \in [Actors -> Table]  BY <1>1, <2>1 DEF Operation, TypeOK
  <2>3. want' \in [Clients -> [op : {"none", "schedule", "unschedule"}, job : JobIds]]
    BY <1>1 DEF Operation, TypeOK
  <2>4. ops' \in 0..MaxOps  BY <1>1, JobsAssumption DEF Operation, TypeOK
  <2> QED  BY <1>1, <2>2, <2>3, <2>4 DEF Operation, Goto, TypeOK
<1>2. ASSUME NEW c \in Clients, Refused(c) PROVE TypeOK'
  <2>1. Nothing \in [op : {"none", "schedule", "unschedule"}, job : JobIds]
    BY JobsAssumption DEF Nothing
  <2> QED  BY <1>2, <2>1, Marks DEF Refused, Goto, TypeOK
<1>3. ASSUME NEW c \in Clients, Schedule(c) PROVE TypeOK'
  <2>1. want[c].job \in JobIds /\ New \in Job  BY DEF TypeOK, New, Job
  <2>2. copy' \in [Actors -> Table]  BY <1>3, <2>1 DEF Schedule, TypeOK, Table
  <2> QED  BY <1>3, <2>2 DEF Schedule, Goto, TypeOK
<1>4. ASSUME NEW c \in Clients, Unschedule(c) PROVE TypeOK'
  <2>1. want[c].job \in JobIds  BY DEF TypeOK
  <2>2. copy' \in [Actors -> Table]  BY <1>4, <2>1 DEF Unschedule, TypeOK, Table
  <2> QED  BY <1>4, <2>2 DEF Unschedule, Goto, TypeOK
<1>5. ASSUME Tick PROVE TypeOK'
  <2>1. Loaded \in Table /\ Has(Loaded) \subseteq JobIds
    BY LoadedIsFile, HasInTable DEF TypeOK, Files
  <2>2. copy' \in [Actors -> Table] /\ todo' \subseteq JobIds
    BY <1>5, <2>1 DEF Tick, TypeOK
  <2>3. late' \in 0..Longest  BY <1>5, <1>0 DEF Tick
  <2>5. changed' \in BOOLEAN  BY <1>5 DEF Tick
  <2>4. pc' \in [Actors -> {"idle", "change", "tick", "open", "fill", "rename"}]
    BY <1>5 DEF Tick, Goto, TypeOK
  <2> QED  BY <1>5, <2>2, <2>3, <2>4, <2>5 DEF Tick, TypeOK
<1>6. ASSUME NEW j \in JobIds, StartOk(j) PROVE TypeOK'
  <2> DEFINE e == [due |-> After(Every), retries |-> 0]
  <2>1. e \in Job /\ After(Every) \in 0..Every  BY DueType DEF Job
  <2>2. copy' = [copy EXCEPT ![Ticker][j] = e]  BY <1>6 DEF StartOk
  <2> HIDE DEF e
  <2>3. copy' \in [Actors -> Table]  BY <2>1, <2>2 DEF TypeOK, Table
  <2>4. rest' \in [JobIds -> 0..Every] /\ failures' \in [JobIds -> 0..(MaxRetries + 1)]
    BY <1>6, <2>1 DEF StartOk, TypeOK
  <2> QED  BY <1>6, <2>3, <2>4 DEF StartOk, TypeOK
<1>7. ASSUME NEW j \in JobIds, StartFails(j)
      PROVE  /\ failures' \in [JobIds -> 0..(MaxRetries + 1)]
             /\ todo' \subseteq JobIds /\ faults' \in 0..MaxFaults
  <2>1. failures' \in [JobIds -> 0..(MaxRetries + 1)]  BY <1>7 DEF StartFails, TypeOK
  <2>2. faults' \in 0..MaxFaults  BY <1>7, JobsAssumption DEF StartFails, TypeOK
  <2> QED  BY <1>7, <2>1, <2>2 DEF StartFails, TypeOK
<1>8. ASSUME NEW j \in JobIds, Retry(j) PROVE TypeOK'
  <2> DEFINE n == copy[Ticker][j].retries + 1
             e == [due |-> After(Every * n), retries |-> n]
  <2>1. copy[Ticker][j] \in Job \cup {NoJob}  BY DEF TypeOK, Table
  <2>2. n \in 0..MaxRetries  BY <1>8, <2>1 DEF Retry, Job, NoJob
  <2>3. copy' = [copy EXCEPT ![Ticker][j] = e]  BY <1>8 DEF Retry
  <2>4. e \in Job
    <3> HIDE DEF n
    <3> QED  BY <2>2, DueType DEF Job
  <2> HIDE DEF e, n
  <2>5. copy' \in [Actors -> Table]  BY <2>3, <2>4 DEF TypeOK, Table
  <2>6. StartFails(j)  BY <1>8 DEF Retry
  <2> QED  BY <1>8, <2>5, <2>6, <1>7 DEF Retry, TypeOK
<1>9. ASSUME NEW j \in JobIds, Drop(j) PROVE TypeOK'
  <2>1. StartFails(j)  BY <1>9 DEF Drop
  <2>2. copy' \in [Actors -> Table]  BY <1>9 DEF Drop, TypeOK, Table
  <2> QED  BY <1>9, <1>7, <2>1, <2>2 DEF Drop, TypeOK
<1>10. ASSUME TickDone PROVE TypeOK'
  BY <1>10, Marks DEF TickDone, Goto, TypeOK
<1>11. ASSUME NEW a \in Actors, Open(a) PROVE TypeOK'
  BY <1>11 DEF Open, Goto, TypeOK
<1>12. ASSUME NEW a \in Actors, Fill(a) PROVE TypeOK'
  <2>1. {file', tmp'} \subseteq Table \cup {Empty, Torn, Missing}
    BY <1>12 DEF Fill, Filled, TypeOK
  <2> QED  BY <1>12, <2>1 DEF Fill, Goto, TypeOK
<1>13. ASSUME NEW a \in Actors, Finish(a)
       PROVE  /\ copy' \in [Actors -> Table]
              /\ pc' \in [Actors -> {"idle", "change", "tick", "open", "fill", "rename"}]
              /\ want' \in [Clients -> [op : {"none", "schedule", "unschedule"}, job : JobIds]]
              /\ todo' \subseteq JobIds /\ late' \in 0..Longest /\ changed' \in BOOLEAN
  <2>1. Nothing \in [op : {"none", "schedule", "unschedule"}, job : JobIds]
    BY JobsAssumption DEF Nothing
  <2>2. copy' \in [Actors -> Table]  BY <1>13, Marks DEF Finish, TypeOK
  <2>3. want' \in [Clients -> [op : {"none", "schedule", "unschedule"}, job : JobIds]]
    BY <1>13, <2>1 DEF Finish, TypeOK
  <2>4. pc' \in [Actors -> {"idle", "change", "tick", "open", "fill", "rename"}]
    BY <1>13 DEF Finish, Goto, TypeOK
  <2>5. CASE a = Ticker
    <3>1. late' \in 0..Longest  BY <1>13, <1>0, <2>5 DEF Finish
    <3>2. todo' \subseteq JobIds /\ changed' \in BOOLEAN  BY <1>13, <2>5 DEF Finish
    <3> QED  BY <2>2, <2>3, <2>4, <3>1, <3>2
  <2>6. CASE a # Ticker
    BY <1>13, <2>2, <2>3, <2>4, <2>6 DEF Finish, TypeOK
  <2> QED  BY <2>5, <2>6
<1>14. ASSUME NEW a \in Actors, Rename(a) PROVE TypeOK'
  <2>1. fd' \in [Actors -> {"none", "tmp", "file", "gone"}]
    BY <1>14 DEF Rename, TypeOK
  <2>2. promised' \subseteq JobIds
    BY <1>14, a \in Clients \/ a = Ticker DEF Rename, TypeOK, Actors
  <2>3. Finish(a)  BY <1>14 DEF Rename
  <2> QED  BY <1>14, <1>13, <2>1, <2>2, <2>3 DEF Rename, TypeOK
<1>15. ASSUME NEW a \in Actors, SaveFails(a) PROVE TypeOK'
  <2>1. Finish(a)  BY <1>15 DEF SaveFails
  <2>2. faults' \in 0..MaxFaults  BY <1>15, JobsAssumption DEF SaveFails, TypeOK
  <2> QED  BY <1>15, <1>13, <2>1, <2>2 DEF SaveFails, TypeOK
<1>16. ASSUME Second PROVE TypeOK'
  <2>1. {file', tmp'} \subseteq Table \cup {Empty, Torn, Missing}
    BY <1>16, CloserFile DEF Second, TypeOK, Files
  <2>2. copy' \in [Actors -> Table]  BY <1>16, CloserTable DEF Second, TypeOK
  <2>3. rest' \in [JobIds -> 0..Every]  BY <1>16 DEF Second, TypeOK
  <2>4. late' \in 0..Longest  BY <1>16 DEF Second, TypeOK
  <2> QED  BY <1>16, <2>1, <2>2, <2>3, <2>4 DEF Second, TypeOK
<1>17. ASSUME Crash PROVE TypeOK'
  <2>1. Nothing \in [op : {"none", "schedule", "unschedule"}, job : JobIds]
    BY JobsAssumption DEF Nothing
  <2>2. faults' \in 0..MaxFaults  BY <1>17, JobsAssumption DEF Crash, TypeOK
  <2>3. /\ pc' \in [Actors -> {"idle", "change", "tick", "open", "fill", "rename"}]
        /\ want' \in [Clients -> [op : {"none", "schedule", "unschedule"}, job : JobIds]]
        /\ copy' \in [Actors -> Table] /\ fd' \in [Actors -> {"none", "tmp", "file", "gone"}]
    BY <1>17, <2>1, Marks DEF Crash
  <2>4. late' \in 0..Longest  BY <1>17, <1>0 DEF Crash
  <2>5. /\ todo' \subseteq JobIds /\ changed' \in BOOLEAN
        /\ stale' \subseteq Actors /\ disturbed' \in BOOLEAN
    BY <1>17 DEF Crash, TypeOK
  <2> QED  BY <1>17, <2>2, <2>3, <2>4, <2>5 DEF Crash, TypeOK
<1>18. ASSUME UNCHANGED vars PROVE TypeOK'
  BY <1>18 DEF vars, TypeOK
<1> QED
  BY <1>1, <1>2, <1>3, <1>4, <1>5, <1>6, <1>8, <1>9, <1>10, <1>11, <1>12, <1>14, <1>15,
     <1>16, <1>17, <1>18
  DEF Next, ClientStep, TickStep, Save

\* Every file, copy and counter of the schedule has its type.
THEOREM TypeCorrect == Spec => []TypeOK
<1>1. QED  BY TypeInit, TypeStep, PTL DEF Spec

-----------------------------------------------------------------------------
(* The inductive invariant.                                                *)

Saving == {"open", "fill", "rename"}

\* Who is where, and what that says of the tick and of open files.
Controlled ==
    /\ \A a \in Actors : fd[a] # "none" <=> pc[a] \in {"fill", "rename"}
    /\ pc[Ticker] # "change"
    /\ \A c \in Clients : pc[c] # "tick"
    /\ \A c \in Clients : pc[c] # "idle" => want[c].op \in {"schedule", "unschedule"}
    /\ pc[Ticker] = "idle" => ~changed
    /\ pc[Ticker] = "tick" => todo \subseteq Has(copy[Ticker])

\* Undisturbed, one actor saves at a time, through the temporary file.
SoleSaver ==
    ~disturbed =>
        \A a \in Actors : fd[a] # "none" =>
            fd[a] = "tmp" /\ \A b \in Actors : fd[b] # "none" => a = b

\* What it renames is what it holds.
Written ==
    ~disturbed =>
        \A a \in Actors :
            /\ pc[a] = "fill" => tmp = Empty
            /\ pc[a] = "rename" => tmp = copy[a]

\* A client that saves holds the file with its own change.
Changed(c) ==
    LET j == want[c].job IN
    /\ \A k \in JobIds \ {j} : copy[c][k] = Loaded[k]
    /\ want[c].op = "schedule" =>
          /\ copy[c][j] \in Job /\ copy[c][j].retries = 0
          /\ ~changed => rest[j] <= copy[c][j].due
    /\ want[c].op = "unschedule" => copy[c][j] = NoJob

ClientFits(c) ==
    /\ pc[c] = "change" => copy[c] = Loaded
    /\ pc[c] \in Saving => Changed(c)
    /\ pc[c] # "idle" /\ want[c].op = "unschedule" => want[c].job \notin promised

ClientCopy == ~disturbed => \A c \in Clients \ stale : ClientFits(c)

\* A job is held against no more refusals than it had, and its due time covers
\* what is left of its period.
Fits(t) == \A j \in Has(t) : t[j].retries <= failures[j] /\ rest[j] <= t[j].due

TickCopy ==
    ~disturbed /\ Ticker \notin stale /\ pc[Ticker] # "idle" =>
        promised \subseteq Has(copy[Ticker]) /\ Fits(copy[Ticker])

FileFits  == ~disturbed /\ ~changed => Fits(file)
DueRested == ~disturbed /\ pc[Ticker] = "tick" => \A j \in todo : rest[j] = 0

IInv ==
    /\ TypeOK /\ Controlled /\ SoleSaver /\ Written
    /\ ClientCopy /\ TickCopy /\ FileFits /\ DueRested /\ JobsKept

LEMMA IInvInit == Init => IInv
<1> SUFFICES ASSUME Init PROVE IInv  OBVIOUS
<1>1. TypeOK  BY TypeInit
<1>2. Controlled /\ SoleSaver /\ Written  BY ActorIs DEF Init, Controlled, SoleSaver, Written
<1>3. ClientCopy /\ TickCopy /\ DueRested /\ JobsKept
  BY ActorIs DEF Init, ClientCopy, ClientFits, Saving, TickCopy, DueRested, JobsKept
<1>4. FileFits  BY HasInTable DEF Init, FileFits, Fits
<1> QED  BY <1>1, <1>2, <1>3, <1>4 DEF IInv

\* The steps of Next, for the case distinctions below.
LEMMA Cases ==
    ASSUME [Next]_vars,
           NEW P,
           \A c \in Clients, op \in {"schedule", "unschedule"}, j \in JobIds :
              Operation(c, op, j) => P,
           \A c \in Clients : Refused(c) \/ Schedule(c) \/ Unschedule(c) => P,
           Tick => P, TickDone => P,
           \A j \in JobIds : StartOk(j) \/ Retry(j) \/ Drop(j) => P,
           \A a \in Actors : Open(a) \/ Fill(a) \/ Rename(a) \/ SaveFails(a) => P,
           Second => P, Crash => P, UNCHANGED vars => P
    PROVE  P
BY ActorIs DEF Next, ClientStep, TickStep, Save

\* An entry decides alone whether its job is there.
LEMMA EntryDecides ==
    ASSUME NEW t, NEW u, NEW k \in JobIds, t[k] = u[k]
    PROVE  (k \in Has(t) <=> k \in Has(u)) /\ Closer(t)[k] = Closer(u)[k]
BY DEF Has, Closer

\* The tick's steps on one job leave the other entries of its copy alone.
LEMMA TickEntry ==
    ASSUME TypeOK, NEW j \in JobIds, StartOk(j) \/ Retry(j) \/ Drop(j)
    PROVE  /\ \A k \in JobIds \ {j} : copy'[Ticker][k] = copy[Ticker][k]
           /\ \A a \in Clients : copy'[a] = copy[a]
           /\ pc' = pc /\ todo' = todo \ {j} /\ j \in todo /\ pc[Ticker] = "tick" /\ changed' = TRUE
<1>1. copy[Ticker] \in Table /\ copy \in [Actors -> Table]  BY ActorIs DEF TypeOK
<1>2. \E e : copy' = [copy EXCEPT ![Ticker][j] = e]  BY DEF StartOk, Retry, Drop
<1>3. PICK e : copy' = [copy EXCEPT ![Ticker][j] = e]  BY <1>2
<1>4. \A k \in JobIds \ {j} : copy'[Ticker][k] = copy[Ticker][k]
  BY <1>1, <1>3, ActorIs DEF Table
<1>5. \A a \in Clients : copy'[a] = copy[a]  BY <1>1, <1>3, ActorIs
<1> QED  BY <1>4, <1>5 DEF StartOk, Retry, Drop, StartFails

\* The places of the actors.
LEMMA ControlledStep == TypeOK /\ TypeOK' /\ Controlled /\ [Next]_vars => Controlled'
<1> SUFFICES ASSUME TypeOK, TypeOK', Controlled, [Next]_vars PROVE Controlled'  OBVIOUS
<1> USE ActorIs
<1> USE DEF disk, tick, bound, watch
<1>1. ASSUME NEW c \in Clients, NEW op \in {"schedule", "unschedule"}, NEW j \in JobIds,
             Operation(c, op, j)
      PROVE  Controlled'
  BY <1>1 DEF Operation, Goto, Controlled, TypeOK
<1>2. ASSUME NEW c \in Clients, Refused(c) \/ Schedule(c) \/ Unschedule(c) PROVE Controlled'
  <2>1. CASE Refused(c)  BY <2>1 DEF Refused, Goto, Controlled, TypeOK
  <2>2. CASE Schedule(c)  BY <2>2 DEF Schedule, Goto, Controlled, TypeOK
  <2>3. CASE Unschedule(c)  BY <2>3 DEF Unschedule, Goto, Controlled, TypeOK
  <2> QED  BY <1>2, <2>1, <2>2, <2>3
<1>3. ASSUME Tick PROVE Controlled'
  BY <1>3 DEF Tick, Goto, Controlled, TypeOK
<1>4. ASSUME TickDone PROVE Controlled'
  BY <1>4 DEF TickDone, Goto, Controlled, TypeOK
<1>5. ASSUME NEW j \in JobIds, StartOk(j) \/ Retry(j) \/ Drop(j) PROVE Controlled'
  <2>1. todo' \subseteq Has(copy'[Ticker])
    <3>1. todo \subseteq Has(copy[Ticker]) /\ todo \subseteq JobIds
      BY <1>5, TickEntry DEF Controlled, TypeOK
    <3>2. \A k \in JobIds \ {j} : k \in Has(copy[Ticker]) <=> k \in Has(copy'[Ticker])
      BY <1>5, TickEntry, EntryDecides
    <3> QED  BY <1>5, TickEntry, <3>1, <3>2
  <2>2. UNCHANGED <<pc, want, fd>>
    BY <1>5 DEF StartOk, Retry, Drop
  <2> QED  BY <1>5, TickEntry, <2>1, <2>2 DEF Controlled
<1>6. ASSUME NEW a \in Actors, Open(a) \/ Fill(a) \/ Rename(a) \/ SaveFails(a)
      PROVE  Controlled'
  <2>1. CASE Open(a)  BY <2>1 DEF Open, Goto, Controlled, TypeOK
  <2>2. CASE Fill(a)  BY <2>2 DEF Fill, Goto, Controlled, TypeOK
  <2>3. CASE Rename(a)  BY <2>3 DEF Rename, Finish, Goto, Controlled, TypeOK
  <2>4. CASE SaveFails(a)  BY <2>4 DEF SaveFails, Finish, Goto, Controlled, TypeOK
  <2> QED  BY <1>6, <2>1, <2>2, <2>3, <2>4
<1>7. ASSUME Second PROVE Controlled'
  <2>1. Has(copy'[Ticker]) = Has(copy[Ticker])  BY <1>7, CloserTable DEF Second, TypeOK
  <2> QED  BY <1>7, <2>1 DEF Second, Controlled
<1>8. ASSUME Crash PROVE Controlled'  BY <1>8 DEF Crash, Controlled
<1>9. ASSUME UNCHANGED vars PROVE Controlled'
  BY <1>9 DEF vars, Controlled
<1> QED  BY <1>1, <1>2, <1>3, <1>4, <1>5, <1>6, <1>7, <1>8, <1>9, Cases

\* The one save.
LEMMA SaverStep ==
    TypeOK /\ TypeOK' /\ Controlled /\ SoleSaver /\ Written /\ [Next]_vars
        => SoleSaver' /\ Written'
<1> SUFFICES ASSUME TypeOK, TypeOK', Controlled, SoleSaver, Written, [Next]_vars
             PROVE  SoleSaver' /\ Written'
  OBVIOUS
<1> DEFINE Goal == SoleSaver' /\ Written'
<1> USE ActorIs
<1> USE DEF disk, tick, bound, watch
<1>0. ASSUME disturbed' PROVE Goal  BY <1>0 DEF SoleSaver, Written
<1>1. ASSUME NEW c \in Clients, NEW op \in {"schedule", "unschedule"}, NEW j \in JobIds,
             Operation(c, op, j)
      PROVE  Goal
  BY <1>1 DEF Operation, Goto, SoleSaver, Written, TypeOK
<1>2. ASSUME NEW c \in Clients, Refused(c) \/ Schedule(c) \/ Unschedule(c) PROVE Goal
  <2>1. CASE Refused(c)  BY <2>1 DEF Refused, Goto, SoleSaver, Written, TypeOK
  <2>2. CASE Schedule(c)  BY <2>2 DEF Schedule, Goto, SoleSaver, Written, TypeOK
  <2>3. CASE Unschedule(c)  BY <2>3 DEF Unschedule, Goto, SoleSaver, Written, TypeOK
  <2> QED  BY <1>2, <2>1, <2>2, <2>3
<1>3. ASSUME Tick PROVE Goal  BY <1>3 DEF Tick, Goto, SoleSaver, Written, TypeOK
<1>4. ASSUME TickDone PROVE Goal  BY <1>4 DEF TickDone, Goto, SoleSaver, Written, TypeOK
<1>5. ASSUME NEW j \in JobIds, StartOk(j) \/ Retry(j) \/ Drop(j) PROVE Goal
  <2>1. UNCHANGED <<pc, fd, tmp, disturbed>>  BY <1>5 DEF StartOk, Retry, Drop
  <2>2. pc[Ticker] = "tick" /\ \A a \in Clients : copy'[a] = copy[a]  BY <1>5, TickEntry
  <2> QED  BY <2>1, <2>2 DEF SoleSaver, Written, Actors
<1>6. ASSUME NEW a \in Actors, Open(a) PROVE Goal
  <2> SUFFICES ASSUME ~disturbed' PROVE Goal  BY <1>0
  <2>1. ~disturbed /\ \A b \in Actors \ {a} : fd[b] = "none"  BY <1>6 DEF Open
  <2>2. \A b \in Actors \ {a} : pc[b] \notin {"fill", "rename"}  BY <2>1 DEF Controlled
  <2>3. fd' = [fd EXCEPT ![a] = "tmp"] /\ pc' = [pc EXCEPT ![a] = "fill"] /\ tmp' = Empty
    BY <1>6 DEF Open, Goto
  <2>4. SoleSaver'  BY <2>1, <2>3 DEF SoleSaver, TypeOK
  <2>5. Written'  BY <2>2, <2>3 DEF Written, TypeOK
  <2> QED  BY <2>4, <2>5
<1>7. ASSUME NEW a \in Actors, Fill(a) PROVE Goal
  <2> SUFFICES ASSUME ~disturbed' PROVE Goal  BY <1>0
  <2>1. ~disturbed  BY <1>7 DEF Fill
  <2>2. pc[a] = "fill" /\ fd[a] = "tmp" /\ tmp = Empty
    BY <1>7, <2>1 DEF Fill, Controlled, SoleSaver, Written
  <2>3. tmp' = copy[a]  BY <1>7, <2>2 DEF Fill, Filled
  <2>4. \A b \in Actors \ {a} : pc[b] \notin {"fill", "rename"}
    BY <2>1, <2>2 DEF Controlled, SoleSaver
  <2> QED  BY <1>7, <2>1, <2>3, <2>4 DEF Fill, Goto, SoleSaver, Written, TypeOK
<1>8. ASSUME NEW a \in Actors, Rename(a) PROVE Goal
  <2> SUFFICES ASSUME ~disturbed' PROVE Goal  BY <1>0
  <2>1. ~disturbed  BY <1>8 DEF Rename
  <2>2. fd[a] # "none"  BY <1>8 DEF Rename, Controlled
  <2>3. \A b \in Actors \ {a} : fd[b] = "none" /\ pc[b] \notin {"fill", "rename"}
    BY <2>1, <2>2 DEF Controlled, SoleSaver
  <2>4. \A b \in Actors : fd'[b] = "none"  BY <1>8, <2>3 DEF Rename, TypeOK
  <2>5. \A b \in Actors : pc'[b] \notin {"fill", "rename"}
    BY <1>8, <2>3 DEF Rename, Finish, Goto, TypeOK
  <2> QED  BY <2>4, <2>5 DEF SoleSaver, Written
<1>9. ASSUME NEW a \in Actors, SaveFails(a) PROVE Goal  BY <1>9, <1>0 DEF SaveFails
<1>10. ASSUME Second PROVE Goal
  <2>1. UNCHANGED <<pc, fd, disturbed>> /\ tmp' = Closer(tmp)
        /\ \A a \in Actors : copy'[a] = Closer(copy[a])
    BY <1>10 DEF Second
  <2> QED  BY <2>1, CloserMarks DEF SoleSaver, Written
<1>11. ASSUME Crash PROVE Goal  BY <1>11 DEF Crash, SoleSaver, Written
<1>12. ASSUME UNCHANGED vars PROVE Goal
  BY <1>12 DEF vars, SoleSaver, Written
<1> HIDE DEF Goal
<1>13. Goal
  <2>1. ASSUME NEW a \in Actors, Open(a) \/ Fill(a) \/ Rename(a) \/ SaveFails(a) PROVE Goal
    BY <1>6, <1>7, <1>8, <1>9, <2>1
  <2> QED
    BY <1>1, <1>2, <1>3, <1>4, <1>5, <1>10, <1>11, <1>12, <2>1, Cases
<1> QED  BY <1>13 DEF Goal

\* What a client holds stays right while its place, its copy and the file stay,
\* and its job's rest does or the tick has something to save.
LEMMA ClientFrame ==
    ASSUME NEW c \in Clients, ClientFits(c),
           pc'[c] = pc[c] \/ (pc[c] \in Saving /\ pc'[c] \in Saving),
           want'[c] = want[c], copy'[c] = copy[c], file' = file, promised' \subseteq promised,
           changed' \/ (changed' = changed /\ rest' = rest)
    PROVE  ClientFits(c)'
<1>1. Loaded' = Loaded  BY DEF Loaded, Has
<1>2. pc'[c] \in Saving => Changed(c)'
  <2>1. pc'[c] \in Saving => Changed(c)  BY DEF ClientFits
  <2> QED  BY <1>1, <2>1 DEF Changed
<1> QED  BY <1>1, <1>2 DEF ClientFits, Saving

\* A disturbed schedule stays so.
LEMMA DisturbedStays == ASSUME [Next]_vars, ~disturbed' PROVE ~disturbed
<1> DEFINE P == ~disturbed
<1>1. \A c \in Clients : Refused(c) \/ Schedule(c) \/ Unschedule(c) => P
  BY DEF Refused, Schedule, Unschedule
<1>2. \A j \in JobIds : StartOk(j) \/ Retry(j) \/ Drop(j) => P
  BY DEF StartOk, Retry, Drop
<1>3. \A a \in Actors : Open(a) \/ Fill(a) \/ Rename(a) \/ SaveFails(a) => P
  BY DEF Open, Fill, Rename, SaveFails
<1>4. \A c \in Clients, op \in {"schedule", "unschedule"}, j \in JobIds :
         Operation(c, op, j) => P
  BY DEF Operation
<1>5. Tick \/ TickDone => P  BY DEF Tick, TickDone
<1>6. Second \/ Crash => P  BY DEF Second, Crash
<1>7. UNCHANGED vars => P  BY DEF vars
<1> HIDE DEF P
<1>8. P  BY <1>1, <1>2, <1>3, <1>4, <1>5, <1>6, <1>7, Cases
<1> QED  BY <1>8 DEF P

\* What a client holds.
LEMMA ClientStepFits ==
    TypeOK /\ TypeOK' /\ Controlled /\ SoleSaver /\ ClientCopy /\ [Next]_vars => ClientCopy'
<1> SUFFICES ASSUME TypeOK, Controlled, SoleSaver, ClientCopy, [Next]_vars,
                    ~disturbed', NEW b \in Clients \ stale'
             PROVE  ClientFits(b)'
  BY DEF ClientCopy
<1> DEFINE Goal == ClientFits(b)'
<1> USE ActorIs
<1> USE DEF disk, tick, bound, watch
<1>0. ~disturbed  BY DisturbedStays
<1>1. b \notin stale => ClientFits(b)  BY <1>0 DEF ClientCopy
<1>2. ASSUME NEW c \in Clients, NEW op \in {"schedule", "unschedule"}, NEW j \in JobIds,
             Operation(c, op, j)
      PROVE  Goal
  <2>1. UNCHANGED <<file, changed, rest>>  BY <1>2 DEF Operation
  <2>2. CASE c = b
    <3>1. pc'[b] = "change" /\ copy'[b] = Loaded /\ want'[b] = [op |-> op, job |-> j]
      BY <1>2, <2>2 DEF Operation, Goto, TypeOK
    <3>2. Loaded' = Loaded  BY <2>1 DEF Loaded, Has
    <3>3. want'[b].op = "unschedule" => want'[b].job \notin promised'
      BY <1>2, <3>1 DEF Operation
    <3> QED  BY <3>1, <3>2, <3>3 DEF ClientFits, Saving
  <2>3. CASE c # b
    <3>1. /\ pc'[b] = pc[b] /\ want'[b] = want[b] /\ copy'[b] = copy[b]
          /\ promised' \subseteq promised /\ b \notin stale
      BY <1>2, <2>3 DEF Operation, Goto, TypeOK
    <3> QED  BY <1>1, <2>1, <3>1, ClientFrame
  <2> QED  BY <2>2, <2>3
<1>3. ASSUME NEW c \in Clients, Refused(c) \/ Schedule(c) \/ Unschedule(c) PROVE Goal
  <2>1. UNCHANGED <<file, changed, rest, promised, stale>>
    BY <1>3 DEF Refused, Schedule, Unschedule
  <2>2. CASE c # b
    <3>1. pc'[b] = pc[b] /\ want'[b] = want[b] /\ copy'[b] = copy[b]
      BY <1>3, <2>2 DEF Refused, Schedule, Unschedule, Goto, TypeOK
    <3> QED  BY <1>1, <2>1, <3>1, ClientFrame
  <2>3. CASE c = b /\ Refused(c)
    <3>1. pc'[b] = "idle"  BY <2>3 DEF Refused, Goto, TypeOK
    <3> QED  BY <3>1 DEF ClientFits, Saving
  <2>4. Loaded' = Loaded  BY <2>1 DEF Loaded, Has
  <2>5. want[b].job \in JobIds /\ copy[b] \in Table  BY DEF TypeOK
  <2>6. CASE c = b /\ Schedule(c)
    <3>1. /\ pc'[b] = "open" /\ want' = want /\ want[b].op = "schedule"
          /\ copy'[b] = [copy[b] EXCEPT ![want[b].job] = New] /\ copy[b] = Loaded
      BY <1>1, <2>1, <2>6 DEF Schedule, Goto, TypeOK, ClientFits
    <3>2. New \in Job /\ New.retries = 0 /\ rest[want[b].job] <= New.due
      BY <2>5, Numbers DEF TypeOK, New, Job
    <3>3. Changed(b)'  BY <2>1, <2>4, <2>5, <3>1, <3>2 DEF Changed, Table
    <3> QED  BY <3>1, <3>3 DEF ClientFits
  <2>7. CASE c = b /\ Unschedule(c)
    <3>1. /\ pc'[b] = "open" /\ pc[b] # "idle" /\ want' = want /\ want[b].op = "unschedule"
          /\ copy'[b] = [copy[b] EXCEPT ![want[b].job] = NoJob] /\ copy[b] = Loaded
      BY <1>1, <2>1, <2>7 DEF Unschedule, Goto, TypeOK, ClientFits
    <3>2. Changed(b)'  BY <2>4, <2>5, <3>1 DEF Changed, Table
    <3>3. want[b].job \notin promised  BY <1>1, <2>1, <3>1 DEF ClientFits
    <3> QED  BY <2>1, <3>1, <3>2, <3>3 DEF ClientFits
  <2> QED  BY <1>3, <2>2, <2>3, <2>6, <2>7
<1>4. ASSUME Tick PROVE Goal
  <2>1. /\ pc'[b] = pc[b] /\ want' = want /\ copy'[b] = copy[b] /\ b \notin stale
        /\ UNCHANGED <<file, rest, promised>>
    BY <1>4 DEF Tick, Goto, TypeOK
  <2>2. changed' = changed  BY <1>4 DEF Tick, Controlled, TypeOK
  <2> QED  BY <1>1, <2>1, <2>2, ClientFrame
<1>5. ASSUME TickDone PROVE Goal
  <2>1. /\ pc'[b] = pc[b] /\ want' = want /\ copy'[b] = copy[b]
        /\ UNCHANGED <<file, rest, promised, changed, stale>>
    BY <1>5 DEF TickDone, Goto, TypeOK
  <2> QED  BY <1>1, <2>1, ClientFrame
<1>6. ASSUME NEW j \in JobIds, StartOk(j) \/ Retry(j) \/ Drop(j) PROVE Goal
  <2>1. UNCHANGED <<pc, want, file, stale>> /\ changed' /\ copy'[b] = copy[b]
    BY <1>6, TickEntry DEF StartOk, Retry, Drop
  <2>2. promised' \subseteq promised  BY <1>6 DEF StartOk, Retry, Drop
  <2> QED  BY <1>1, <2>1, <2>2, ClientFrame
<1>7. ASSUME NEW a \in Actors, Open(a) PROVE Goal
  <2>1. pc'[b] = pc[b] \/ (pc[b] \in Saving /\ pc'[b] \in Saving)
    BY <1>7 DEF Open, Goto, TypeOK, Saving
  <2> QED  BY <1>1, <1>7, <2>1, ClientFrame DEF Open
<1>8. ASSUME NEW a \in Actors, Fill(a) PROVE Goal
  <2>1. pc'[b] = pc[b] \/ (pc[b] \in Saving /\ pc'[b] \in Saving)
    BY <1>8 DEF Fill, Goto, TypeOK, Saving
  <2>2. fd[a] = "tmp"  BY <1>0, <1>8 DEF Fill, Controlled, SoleSaver
  <2> QED  BY <1>1, <1>8, <2>1, <2>2, ClientFrame DEF Fill
<1>9. ASSUME NEW a \in Actors, Rename(a) PROVE Goal
  <2>1. pc'[b] = "idle"  BY <1>9 DEF Rename, Finish, Goto, TypeOK
  <2> QED  BY <2>1 DEF ClientFits, Saving
<1>10. ASSUME NEW a \in Actors, SaveFails(a) PROVE Goal  BY <1>10 DEF SaveFails
<1>11. ASSUME Second PROVE Goal
  <2>1. /\ UNCHANGED <<pc, want, stale, promised, changed>>
        /\ copy'[b] = Closer(copy[b]) /\ file' = Closer(file)
        /\ rest' = [j \in JobIds |-> IF rest[j] > 0 THEN rest[j] - 1 ELSE 0]
    BY <1>11 DEF Second
  <2>2. Loaded' = Closer(Loaded)
    <3>1. Has(file') = Has(file)  BY <2>1, CloserFile DEF TypeOK, Files
    <3> QED  BY <2>1, <3>1, CloserMarks DEF Loaded, Has
  <2>3. ClientFits(b)  BY <1>1, <2>1
  <2>4. ASSUME pc[b] \in Saving PROVE Changed(b)'
    <3> DEFINE j == want[b].job
    <3>1. Changed(b) /\ j \in JobIds  BY <2>3, <2>4 DEF ClientFits, TypeOK
    <3>2. \A k \in JobIds \ {j} : copy'[b][k] = Loaded'[k]
      BY <2>1, <2>2, <3>1, EntryDecides DEF Changed
    <3>3. ASSUME want[b].op = "schedule"
          PROVE  /\ copy'[b][j] \in Job /\ copy'[b][j].retries = 0
                 /\ ~changed => rest'[j] <= copy'[b][j].due
      <4>1. copy[b][j] \in Job /\ copy[b][j].retries = 0
            /\ (~changed => rest[j] <= copy[b][j].due)
        BY <3>1, <3>3 DEF Changed
      <4>2. /\ copy'[b][j] \in Job /\ copy'[b][j].retries = 0
            /\ copy'[b][j].due = IF copy[b][j].due > 0 THEN copy[b][j].due - 1 ELSE 0
        BY <2>1, <3>1, <4>1, CloserEntry
      <4>3. rest[j] \in 0..Every /\ copy[b][j].due \in 0..Longest
        BY <3>1, <4>1 DEF TypeOK, Job
      <4>4. rest'[j] = IF rest[j] > 0 THEN rest[j] - 1 ELSE 0  BY <2>1, <3>1
      <4> QED  BY <4>1, <4>2, <4>3, <4>4, Numbers
    <3>4. ASSUME want[b].op = "unschedule" PROVE copy'[b][j] = NoJob
      BY <2>1, <3>1, <3>4, CloserEntry DEF Changed
    <3> QED  BY <2>1, <3>2, <3>3, <3>4 DEF Changed
  <2> QED  BY <2>1, <2>2, <2>3, <2>4 DEF ClientFits
<1>12. ASSUME Crash PROVE Goal
  BY <1>12 DEF Crash, ClientFits, Saving
<1>13. ASSUME UNCHANGED vars PROVE Goal
  BY <1>1, <1>13, ClientFrame DEF vars
<1> HIDE DEF Goal
<1>14. Goal
  <2>1. ASSUME NEW a \in Actors, Open(a) \/ Fill(a) \/ Rename(a) \/ SaveFails(a) PROVE Goal
    BY <1>7, <1>8, <1>9, <1>10, <2>1
  <2> QED
    BY <1>2, <1>3, <1>4, <1>5, <1>6, <1>11, <1>12, <1>13, <2>1, Cases
<1> QED  BY <1>14 DEF Goal

\* A schedule fits as long as its entries and the two counts do not change.
LEMMA FitsFrame ==
    ASSUME NEW t, Fits(t), rest' = rest, failures' = failures
    PROVE  \A j \in Has(t) : t[j].retries <= failures'[j] /\ rest'[j] <= t[j].due
BY DEF Fits

\* It fits after a unit of time.
LEMMA FitsCloser ==
    ASSUME TypeOK, Second, NEW t \in Files, Fits(t)
    PROVE  \A j \in Has(Closer(t)) :
              Closer(t)[j].retries <= failures'[j] /\ rest'[j] <= Closer(t)[j].due
<1> SUFFICES ASSUME NEW j \in Has(t)
             PROVE  Closer(t)[j].retries <= failures'[j] /\ rest'[j] <= Closer(t)[j].due
  BY CloserFile
<1>1. j \in JobIds /\ t[j] \in Job  BY DEF Has
<1>2. t[j].retries <= failures[j] /\ rest[j] <= t[j].due  BY DEF Fits
<1>3. /\ Closer(t)[j].retries = t[j].retries
      /\ Closer(t)[j].due = IF t[j].due > 0 THEN t[j].due - 1 ELSE 0
  BY CloserFile
<1>4. failures' = failures /\ rest'[j] = IF rest[j] > 0 THEN rest[j] - 1 ELSE 0
  BY <1>1 DEF Second, watch
<1>5. rest[j] \in 0..Every /\ t[j].due \in 0..Longest  BY <1>1 DEF TypeOK, Job
<1> QED  BY <1>2, <1>3, <1>4, <1>5, Numbers

\* A refused start is counted.
LEMMA Counted ==
    ASSUME TypeOK, NEW j \in JobIds, StartFails(j)
    PROVE  /\ \A k \in JobIds \ {j} : failures'[k] = failures[k]
           /\ failures'[j] = IF failures[j] > MaxRetries THEN failures[j] ELSE failures[j] + 1
           /\ failures[j] \in Nat
BY Numbers DEF StartFails, TypeOK

\* A start changes the entry, the count and the rest of its job together.
LEMMA StartFits ==
    ASSUME TypeOK, TypeOK', Controlled, DueRested, ~disturbed, NEW j \in JobIds,
           StartOk(j) \/ Retry(j) \/ Drop(j),
           promised \subseteq Has(copy[Ticker]), Fits(copy[Ticker])
    PROVE  promised' \subseteq Has(copy'[Ticker]) /\ Fits(copy[Ticker])'
<1> USE ActorIs
<1> USE DEF tick, bound, watch
<1>1. /\ \A k \in JobIds \ {j} : copy'[Ticker][k] = copy[Ticker][k]
      /\ j \in todo /\ pc[Ticker] = "tick"
  BY TickEntry
<1>2. copy[Ticker] \in Table /\ copy'[Ticker] \in Table /\ promised \subseteq JobIds
  BY DEF TypeOK
<1>3. \A k \in JobIds \ {j} : k \in Has(copy[Ticker]) <=> k \in Has(copy'[Ticker])
  BY <1>1, EntryDecides
<1>4. j \in Has(copy[Ticker]) /\ copy[Ticker][j] \in Job /\ rest[j] = 0
      /\ copy[Ticker][j].retries <= failures[j]
  BY <1>1 DEF Controlled, DueRested, Has, Fits
<1>5. copy[Ticker][j].retries \in 0..MaxRetries  BY <1>4 DEF Job
<1>6. ASSUME \A k \in JobIds \ {j} : failures'[k] = failures[k] /\ rest'[k] = rest[k],
             j \in Has(copy'[Ticker]) =>
                copy'[Ticker][j].retries <= failures'[j] /\ rest'[j] <= copy'[Ticker][j].due
      PROVE  Fits(copy[Ticker])'
  <2> SUFFICES ASSUME NEW k \in Has(copy'[Ticker])
               PROVE  copy'[Ticker][k].retries <= failures'[k] /\ rest'[k] <= copy'[Ticker][k].due
    BY DEF Fits
  <2>1. k \in JobIds  BY DEF Has
  <2>2. CASE k = j  BY <1>6, <2>2
  <2>3. CASE k # j
    <3>1. k \in Has(copy[Ticker])  BY <1>3, <2>1, <2>3
    <3> QED  BY <1>1, <1>6, <2>1, <2>3, <3>1 DEF Fits
  <2> QED  BY <2>2, <2>3
<1>7. CASE StartOk(j)
  <2>1. copy'[Ticker][j] = [due |-> After(Every), retries |-> 0]
    BY <1>2, <1>7 DEF StartOk, TypeOK, Table
  <2>2. After(Every) \in 0..Every  BY DueType
  <2>3. rest' = [rest EXCEPT ![j] = After(Every)] /\ failures' = [failures EXCEPT ![j] = 0]
        /\ promised' = promised
    BY <1>7 DEF StartOk
  <2>4. /\ \A k \in JobIds \ {j} : failures'[k] = failures[k] /\ rest'[k] = rest[k]
        /\ failures'[j] = 0 /\ rest'[j] = After(Every)
    BY <2>3 DEF TypeOK
  <2>5. Fits(copy[Ticker])'  BY <1>6, <2>1, <2>2, <2>4, Numbers
  <2>6. j \in Has(copy'[Ticker])  BY <1>2, <2>1, HasInTable DEF NoJob
  <2> QED  BY <1>2, <1>3, <2>3, <2>5, <2>6
<1>8. CASE Retry(j)
  <2> DEFINE n == copy[Ticker][j].retries + 1
  <2>1. copy'[Ticker][j] = [due |-> After(Every * n), retries |-> n]
    BY <1>2, <1>8 DEF Retry, TypeOK, Table
  <2>2. n \in 0..MaxRetries  BY <1>5, <1>8, Numbers DEF Retry
  <2>3. After(Every * n) \in 0..Longest
    <3> HIDE DEF n
    <3> QED  BY <2>2, DueType
  <2>4. StartFails(j) /\ rest' = rest /\ promised' = promised  BY <1>8 DEF Retry
  <2>5. n <= failures'[j]  BY <1>4, <1>5, <2>2, <2>4, Counted, Numbers
  <2>6. Fits(copy[Ticker])'
    <3> HIDE DEF n
    <3>1. \A k \in JobIds \ {j} : failures'[k] = failures[k] /\ rest'[k] = rest[k]
      BY <2>4, Counted
    <3>2. copy'[Ticker][j].retries = n /\ copy'[Ticker][j].due = After(Every * n)  BY <2>1
    <3> DEFINE due == After(Every * n)
    <3>3. due \in 0..Longest /\ copy'[Ticker][j].due = due  BY <2>3, <3>2
    <3> HIDE DEF due
    <3>4. rest'[j] <= copy'[Ticker][j].due  BY <1>4, <2>4, <3>3, Numbers
    <3> QED  BY <1>6, <2>5, <3>1, <3>2, <3>4
  <2>7. j \in Has(copy'[Ticker])
    <3> HIDE DEF n
    <3>1. copy'[Ticker][j].retries # -1  BY <2>1, <2>2, Numbers
    <3> QED  BY <1>2, <3>1, HasInTable DEF NoJob
  <2> QED  BY <1>2, <1>3, <2>4, <2>6, <2>7
<1>9. CASE Drop(j)
  <2>1. copy'[Ticker][j] = NoJob /\ StartFails(j) /\ rest' = rest
    BY <1>2, <1>9 DEF Drop, TypeOK, Table
  <2>2. failures'[j] > MaxRetries
    <3>1. copy[Ticker][j].retries + 1 > MaxRetries  BY <1>9 DEF Drop
    <3> QED  BY <1>4, <1>5, <2>1, <3>1, Counted, Numbers
  <2>3. promised' = promised \ {j}  BY <1>9, <2>2 DEF Drop
  <2>4. j \notin Has(copy'[Ticker])  BY <1>2, <2>1, HasInTable
  <2>5. Fits(copy[Ticker])'  BY <1>6, <2>1, <2>4, Counted
  <2> QED  BY <1>2, <1>3, <2>3, <2>5
<1> QED  BY <1>7, <1>8, <1>9

\* What the tick holds.
LEMMA TickCopyStep ==
    TypeOK /\ TypeOK' /\ Controlled /\ DueRested /\ TickCopy /\ FileFits /\ JobsKept
        /\ [Next]_vars => TickCopy'
<1> SUFFICES ASSUME TypeOK, TypeOK', Controlled, DueRested, TickCopy, FileFits, JobsKept,
                    [Next]_vars, ~disturbed', Ticker \notin stale', pc'[Ticker] # "idle"
             PROVE  promised' \subseteq Has(copy'[Ticker]) /\ Fits(copy[Ticker])'
  BY DEF TickCopy
<1> DEFINE Goal == promised' \subseteq Has(copy'[Ticker]) /\ Fits(copy[Ticker])'
<1> USE ActorIs
<1> USE DEF disk, tick, bound, watch
<1>0. ~disturbed  BY DisturbedStays
<1>1. ASSUME Ticker \notin stale, pc[Ticker] # "idle", copy'[Ticker] = copy[Ticker],
             promised' \subseteq promised, rest' = rest, failures' = failures
      PROVE  Goal
  BY <1>0, <1>1, FitsFrame DEF TickCopy, Fits
<1>2. ASSUME NEW c \in Clients, NEW op \in {"schedule", "unschedule"}, NEW j \in JobIds,
             Operation(c, op, j)
      PROVE  Goal
  <2>1. Ticker \notin stale /\ pc'[Ticker] = pc[Ticker] /\ copy'[Ticker] = copy[Ticker]
        /\ rest' = rest /\ failures' = failures /\ promised' \subseteq promised
    BY <1>2 DEF Operation, Goto, TypeOK
  <2> QED  BY <1>1, <2>1
<1>3. ASSUME NEW c \in Clients, Refused(c) \/ Schedule(c) \/ Unschedule(c) PROVE Goal
  <2>1. UNCHANGED <<stale, rest, failures, promised>>
        /\ pc'[Ticker] = pc[Ticker] /\ copy'[Ticker] = copy[Ticker]
    BY <1>3 DEF Refused, Schedule, Unschedule, Goto, TypeOK
  <2> QED  BY <1>1, <2>1
<1>4. ASSUME Tick PROVE Goal
  <2>1. ~changed /\ copy'[Ticker] = Loaded /\ UNCHANGED <<rest, failures, promised>>
    BY <1>4 DEF Tick, Controlled, TypeOK
  <2>2. promised \subseteq Has(file) /\ Fits(file)  BY <1>0, <2>1 DEF JobsKept, FileFits
  <2>3. Has(Loaded) = Has(file) /\ \A j \in Has(file) : Loaded[j] = file[j]
    BY LoadedIsFile DEF TypeOK, Files
  <2> QED  BY <2>1, <2>2, <2>3 DEF Fits
<1>5. ASSUME TickDone PROVE Goal
  <2>1. changed /\ copy' = copy /\ UNCHANGED <<rest, failures, promised, stale>>
        /\ pc[Ticker] # "idle"
    BY <1>5 DEF TickDone, Goto, TypeOK
  <2> QED  BY <1>1, <2>1
<1>6. ASSUME NEW j \in JobIds, StartOk(j) \/ Retry(j) \/ Drop(j) PROVE Goal
  <2>1. stale' = stale /\ pc[Ticker] # "idle"  BY <1>6, TickEntry DEF StartOk, Retry, Drop
  <2>2. promised \subseteq Has(copy[Ticker]) /\ Fits(copy[Ticker])
    BY <1>0, <2>1 DEF TickCopy
  <2> QED  BY <1>0, <1>6, <2>2, StartFits
<1>7. ASSUME NEW a \in Actors, Open(a) PROVE Goal
  <2>1. UNCHANGED <<stale, rest, failures, promised, copy>> /\ pc[Ticker] # "idle"
    BY <1>7 DEF Open, Goto, TypeOK
  <2> QED  BY <1>1, <2>1
<1>8. ASSUME NEW a \in Actors, Fill(a) PROVE Goal
  <2>1. UNCHANGED <<stale, rest, failures, promised, copy>> /\ pc[Ticker] # "idle"
    BY <1>8 DEF Fill, Goto, TypeOK
  <2> QED  BY <1>1, <2>1
<1>9. ASSUME NEW a \in Actors, Rename(a) PROVE Goal
  <2>1. pc'[Ticker] = "idle"  BY <1>9 DEF Rename, Finish, Goto, TypeOK
  <2> QED  BY <2>1
<1>10. ASSUME NEW a \in Actors, SaveFails(a) PROVE Goal  BY <1>10 DEF SaveFails
<1>11. ASSUME Second PROVE Goal
  <2>1. UNCHANGED <<pc, stale, promised>> /\ copy'[Ticker] = Closer(copy[Ticker])
    BY <1>11 DEF Second
  <2>2. promised \subseteq Has(copy[Ticker]) /\ Fits(copy[Ticker])
    BY <1>0, <2>1 DEF TickCopy
  <2>3. copy[Ticker] \in Table /\ copy[Ticker] \in Files  BY DEF TypeOK, Files
  <2>4. Has(copy'[Ticker]) = Has(copy[Ticker])  BY <2>1, <2>3, CloserTable
  <2>5. Fits(copy[Ticker])'  BY <1>11, <2>1, <2>2, <2>3, FitsCloser DEF Fits
  <2> QED  BY <2>1, <2>2, <2>4, <2>5
<1>12. ASSUME Crash PROVE Goal  BY <1>12 DEF Crash
<1>13. ASSUME UNCHANGED vars PROVE Goal  BY <1>1, <1>13 DEF vars
<1> HIDE DEF Goal
<1>14. Goal
  <2>1. ASSUME NEW a \in Actors, Open(a) \/ Fill(a) \/ Rename(a) \/ SaveFails(a) PROVE Goal
    BY <1>7, <1>8, <1>9, <1>10, <2>1
  <2> QED
    BY <1>2, <1>3, <1>4, <1>5, <1>6, <1>11, <1>12, <1>13, <2>1, Cases
<1> QED  BY <1>14 DEF Goal

\* What an undisturbed save publishes, and who published it.
LEMMA Published ==
    ASSUME TypeOK, Controlled, SoleSaver, Written, ClientCopy, TickCopy,
           NEW a \in Actors, Rename(a), ~disturbed'
    PROVE  /\ file' = copy[a] /\ ~disturbed /\ a \notin stale
           /\ a = Ticker => promised' = promised /\ promised \subseteq Has(copy[Ticker])
                            /\ Fits(copy[Ticker])
           /\ a # Ticker => a \in Clients /\ ClientFits(a) /\ pc[a] = "rename" /\ Changed(a)
                            /\ want[a].op \in {"schedule", "unschedule"} /\ changed' = changed
<1> USE ActorIs
<1> USE DEF disk, tick, bound, watch
<1>1. ~disturbed /\ a \notin stale /\ pc[a] = "rename" /\ file' = tmp  BY DEF Rename
<1>2. file' = copy[a]  BY <1>1 DEF Written
<1>3. CASE a = Ticker
  BY <1>1, <1>2, <1>3 DEF Rename, TickCopy
<1>4. CASE a # Ticker
  <2>1. a \in Clients /\ ClientFits(a)  BY <1>1, <1>4 DEF Actors, ClientCopy
  <2>2. Changed(a)  BY <1>1, <2>1 DEF ClientFits, Saving
  <2> QED  BY <1>1, <1>2, <1>4, <2>1, <2>2 DEF Rename, Finish, Controlled
<1> QED  BY <1>3, <1>4

\* What the file says of each job.
LEMMA FileFitsStep ==
    TypeOK /\ TypeOK' /\ Controlled /\ SoleSaver /\ Written /\ ClientCopy /\ TickCopy
        /\ FileFits /\ [Next]_vars => FileFits'
<1> SUFFICES ASSUME TypeOK, TypeOK', Controlled, SoleSaver, Written, ClientCopy, TickCopy,
                    FileFits, [Next]_vars, ~disturbed', ~changed'
             PROVE  Fits(file)'
  BY DEF FileFits
<1> DEFINE Goal == Fits(file)'
<1> USE ActorIs
<1> USE DEF disk, tick, bound, watch
<1>0. ~disturbed  BY DisturbedStays
<1>1. ASSUME ~changed, UNCHANGED <<file, rest, failures>> PROVE Goal
  BY <1>0, <1>1 DEF FileFits, Fits, Has
<1>2. ASSUME NEW c \in Clients, NEW op \in {"schedule", "unschedule"}, NEW j \in JobIds,
             Operation(c, op, j)
      PROVE  Goal
  BY <1>1, <1>2 DEF Operation
<1>3. ASSUME NEW c \in Clients, Refused(c) \/ Schedule(c) \/ Unschedule(c) PROVE Goal
  BY <1>1, <1>3 DEF Refused, Schedule, Unschedule
<1>4. ASSUME Tick PROVE Goal  BY <1>1, <1>4 DEF Tick, Controlled
<1>5. ASSUME TickDone PROVE Goal  BY <1>1, <1>5 DEF TickDone
<1>6. ASSUME NEW j \in JobIds, StartOk(j) \/ Retry(j) \/ Drop(j) PROVE Goal
  BY <1>6, TickEntry
<1>7. ASSUME NEW a \in Actors, Open(a) PROVE Goal  BY <1>1, <1>7 DEF Open
<1>8. ASSUME NEW a \in Actors, Fill(a) PROVE Goal
  <2>1. fd[a] = "tmp"  BY <1>0, <1>8 DEF Fill, Controlled, SoleSaver
  <2> QED  BY <1>1, <1>8, <2>1 DEF Fill
<1>9. ASSUME NEW a \in Actors, Rename(a) PROVE Goal
  <2>1. rest' = rest /\ failures' = failures /\ file' = copy[a]
    BY <1>9, Published DEF Rename
  <2>2. CASE a = Ticker
    <3>1. Fits(copy[a])  BY <1>9, <2>2, Published
    <3> QED  BY <2>1, <3>1 DEF Fits, Has
  <2>3. CASE a # Ticker
    <3> DEFINE j == want[a].job
    <3>1. a \in Clients /\ Changed(a) /\ want[a].op \in {"schedule", "unschedule"} /\ ~changed
      BY <1>9, <2>3, Published
    <3>2. j \in JobIds /\ copy[a] \in Table  BY <3>1 DEF TypeOK
    <3>3. Fits(file)  BY <1>0, <3>1 DEF FileFits
    <3>4. /\ Loaded \in Table /\ Has(Loaded) = Has(file)
          /\ \A k \in Has(file) : Loaded[k] = file[k]
      BY LoadedIsFile DEF TypeOK, Files
    <3>5. ASSUME NEW k \in Has(copy[a])
          PROVE  copy[a][k].retries <= failures[k] /\ rest[k] <= copy[a][k].due
      <4>1. k \in JobIds  BY DEF Has
      <4>2. CASE k # j
        <5>1. copy[a][k] = Loaded[k] /\ k \in Has(Loaded)
          BY <3>1, <4>1, <4>2, EntryDecides DEF Changed
        <5> QED  BY <3>3, <3>4, <5>1 DEF Fits
      <4>3. CASE k = j
        <5>1. want[a].op = "schedule"  BY <3>1, <3>2, <4>3, HasInTable DEF Changed
        <5>2. copy[a][k].retries = 0 /\ rest[k] <= copy[a][k].due
          BY <3>1, <4>3, <5>1 DEF Changed
        <5>3. 0 <= failures[k]  BY <4>1, Numbers DEF TypeOK
        <5> QED  BY <5>2, <5>3
      <4> QED  BY <4>2, <4>3
    <3> QED  BY <2>1, <3>5 DEF Fits, Has
  <2> QED  BY <2>2, <2>3
<1>10. ASSUME NEW a \in Actors, SaveFails(a) PROVE Goal  BY <1>10 DEF SaveFails
<1>11. ASSUME Second PROVE Goal
  <2>1. file' = Closer(file) /\ changed' = changed  BY <1>11 DEF Second
  <2>2. Fits(file) /\ file \in Files  BY <1>0, <2>1 DEF FileFits, TypeOK, Files
  <2> QED  BY <1>11, <2>1, <2>2, FitsCloser DEF Fits
<1>12. ASSUME Crash PROVE Goal  BY <1>1, <1>12 DEF Crash
<1>13. ASSUME UNCHANGED vars PROVE Goal  BY <1>1, <1>13 DEF vars
<1> HIDE DEF Goal
<1>14. Goal
  <2>1. ASSUME NEW a \in Actors, Open(a) \/ Fill(a) \/ Rename(a) \/ SaveFails(a) PROVE Goal
    BY <1>7, <1>8, <1>9, <1>10, <2>1
  <2> QED
    BY <1>2, <1>3, <1>4, <1>5, <1>6, <1>11, <1>12, <1>13, <2>1, Cases
<1> QED  BY <1>14 DEF Goal

\* What the tick has yet to start has rested.
LEMMA DueRestedStep ==
    TypeOK /\ Controlled /\ FileFits /\ DueRested /\ [Next]_vars => DueRested'
<1> SUFFICES ASSUME TypeOK, Controlled, FileFits, DueRested, [Next]_vars,
                    ~disturbed', pc'[Ticker] = "tick", NEW i \in todo'
             PROVE  rest'[i] = 0
  BY DEF DueRested
<1> DEFINE Goal == rest'[i] = 0
<1> USE ActorIs
<1> USE DEF disk, tick, bound, watch
<1>0. ~disturbed  BY DisturbedStays
<1>1. ASSUME pc[Ticker] = "tick", todo' = todo, rest' = rest PROVE Goal
  BY <1>0, <1>1 DEF DueRested
<1>2. ASSUME NEW c \in Clients, NEW op \in {"schedule", "unschedule"}, NEW j \in JobIds,
             Operation(c, op, j)
      PROVE  Goal
  <2>1. pc'[Ticker] = pc[Ticker]  BY <1>2 DEF Operation, Goto, TypeOK
  <2> QED  BY <1>1, <1>2, <2>1 DEF Operation
<1>3. ASSUME NEW c \in Clients, Refused(c) \/ Schedule(c) \/ Unschedule(c) PROVE Goal
  <2>1. pc'[Ticker] = pc[Ticker] /\ todo' = todo /\ rest' = rest
    BY <1>3 DEF Refused, Schedule, Unschedule, Goto, TypeOK
  <2> QED  BY <1>1, <2>1
<1>4. ASSUME Tick PROVE Goal
  <2>1. i \in Has(Loaded) /\ Loaded[i].due = 0 /\ rest' = rest /\ ~changed
    BY <1>4 DEF Tick, Controlled
  <2>2. i \in Has(file) /\ file[i].due = 0 /\ Fits(file)
    BY <1>0, <2>1, LoadedIsFile DEF TypeOK, Files, FileFits
  <2>3. i \in JobIds /\ rest[i] <= 0  BY <2>2 DEF Fits, Has
  <2> QED  BY <2>1, <2>3, Numbers DEF TypeOK
<1>5. ASSUME TickDone PROVE Goal  BY <1>5 DEF TickDone, Goto, TypeOK
<1>6. ASSUME NEW j \in JobIds, StartOk(j) \/ Retry(j) \/ Drop(j) PROVE Goal
  <2>1. i \in todo /\ i # j /\ i \in JobIds /\ pc[Ticker] = "tick"
    BY <1>6, TickEntry DEF TypeOK
  <2>2. rest'[i] = rest[i]  BY <1>6, <2>1 DEF StartOk, Retry, Drop, TypeOK
  <2> QED  BY <1>0, <2>1, <2>2 DEF DueRested
<1>7. ASSUME NEW a \in Actors, Open(a) \/ Fill(a) \/ Rename(a) \/ SaveFails(a) PROVE Goal
  <2>1. CASE a = Ticker
    BY <1>7, <2>1 DEF Open, Fill, Rename, SaveFails, Finish, Goto, TypeOK
  <2>2. CASE a # Ticker
    BY <1>1, <1>7, <2>2 DEF Open, Fill, Rename, SaveFails, Finish, Goto, TypeOK
  <2> QED  BY <2>1, <2>2
<1>8. ASSUME Second PROVE Goal
  <2>1. rest[i] = 0 /\ i \in JobIds  BY <1>0, <1>8 DEF Second, DueRested, TypeOK
  <2> QED  BY <1>8, <2>1 DEF Second
<1>9. ASSUME Crash PROVE Goal  BY <1>9 DEF Crash
<1>10. ASSUME UNCHANGED vars PROVE Goal  BY <1>1, <1>10 DEF vars
<1> HIDE DEF Goal
<1>11. Goal  BY <1>2, <1>3, <1>4, <1>5, <1>6, <1>7, <1>8, <1>9, <1>10, Cases
<1> QED  BY <1>11 DEF Goal

\* The file keeps what was promised.
LEMMA KeptStep ==
    TypeOK /\ Controlled /\ SoleSaver /\ Written /\ ClientCopy /\ TickCopy /\ JobsKept
        /\ [Next]_vars => JobsKept'
<1> SUFFICES ASSUME TypeOK, Controlled, SoleSaver, Written, ClientCopy, TickCopy, JobsKept,
                    [Next]_vars, ~disturbed'
             PROVE  promised' \subseteq Has(file')
  BY DEF JobsKept, Has
<1> DEFINE Goal == promised' \subseteq Has(file')
<1> USE ActorIs
<1> USE DEF disk, tick, bound, watch
<1>0. ~disturbed /\ promised \subseteq Has(file)  BY DisturbedStays DEF JobsKept
<1>1. ASSUME file' = file, promised' \subseteq promised PROVE Goal  BY <1>0, <1>1
<1>2. ASSUME NEW c \in Clients, NEW op \in {"schedule", "unschedule"}, NEW j \in JobIds,
             Operation(c, op, j)
      PROVE  Goal
  BY <1>1, <1>2 DEF Operation
<1>3. ASSUME NEW c \in Clients, Refused(c) \/ Schedule(c) \/ Unschedule(c) PROVE Goal
  BY <1>1, <1>3 DEF Refused, Schedule, Unschedule
<1>4. ASSUME Tick \/ TickDone PROVE Goal  BY <1>1, <1>4 DEF Tick, TickDone
<1>5. ASSUME NEW j \in JobIds, StartOk(j) \/ Retry(j) \/ Drop(j) PROVE Goal
  BY <1>1, <1>5 DEF StartOk, Retry, Drop
<1>6. ASSUME NEW a \in Actors, Open(a) PROVE Goal  BY <1>1, <1>6 DEF Open
<1>7. ASSUME NEW a \in Actors, Fill(a) PROVE Goal
  <2>1. fd[a] = "tmp"  BY <1>0, <1>7 DEF Fill, Controlled, SoleSaver
  <2> QED  BY <1>1, <1>7, <2>1 DEF Fill
<1>8. ASSUME NEW a \in Actors, Rename(a) PROVE Goal
  <2>1. file' = copy[a]  BY <1>8, Published
  <2>2. CASE a = Ticker  BY <1>8, <2>1, <2>2, Published
  <2>3. CASE a # Ticker
    <3> DEFINE j == want[a].job
    <3>1. /\ a \in Clients /\ Changed(a) /\ ClientFits(a) /\ pc[a] = "rename"
          /\ want[a].op \in {"schedule", "unschedule"}
      BY <1>8, <2>3, Published
    <3>2. j \in JobIds  BY <3>1 DEF TypeOK
    <3>3. Has(Loaded) = Has(file)  BY LoadedIsFile DEF TypeOK, Files
    <3>4. \A k \in promised \ {j} : k \in Has(copy[a])
      <4>1. \A k \in promised : k \in JobIds /\ k \in Has(Loaded)
        BY <1>0, <3>3 DEF TypeOK
      <4> QED  BY <3>1, <4>1, EntryDecides DEF Changed
    <3>5. CASE want[a].op = "schedule"
      <4>1. j \in Has(copy[a])  BY <3>1, <3>2, <3>5 DEF Changed, Has
      <4>2. promised' = promised \cup {j}  BY <1>8, <2>3, <3>5 DEF Rename
      <4> QED  BY <2>1, <3>4, <4>1, <4>2
    <3>6. CASE want[a].op = "unschedule"
      <4>1. j \notin promised  BY <3>1, <3>6 DEF ClientFits
      <4>2. promised' = promised  BY <1>8, <3>6 DEF Rename
      <4> QED  BY <2>1, <3>4, <4>1, <4>2
    <3> QED  BY <3>1, <3>5, <3>6
  <2> QED  BY <2>2, <2>3
<1>9. ASSUME NEW a \in Actors, SaveFails(a) PROVE Goal  BY <1>9 DEF SaveFails
<1>10. ASSUME Second PROVE Goal
  BY <1>0, <1>10, CloserFile DEF Second, TypeOK, Files
<1>11. ASSUME Crash PROVE Goal  BY <1>1, <1>11 DEF Crash
<1>12. ASSUME UNCHANGED vars PROVE Goal  BY <1>1, <1>12 DEF vars
<1> HIDE DEF Goal
<1>13. Goal
  <2>1. ASSUME NEW a \in Actors, Open(a) \/ Fill(a) \/ Rename(a) \/ SaveFails(a) PROVE Goal
    BY <1>6, <1>7, <1>8, <1>9, <2>1
  <2> QED  BY <1>2, <1>3, <1>4, <1>5, <1>10, <1>11, <1>12, <2>1, Cases
<1> QED  BY <1>13 DEF Goal

-----------------------------------------------------------------------------
(* The theorems.                                                           *)

LEMMA IInvStep == IInv /\ [Next]_vars => IInv'
<1> SUFFICES ASSUME IInv, [Next]_vars PROVE IInv'  OBVIOUS
<1> USE DEF IInv
<1>1. TypeOK'  BY TypeStep
<1>2. Controlled' /\ SoleSaver' /\ Written'  BY <1>1, ControlledStep, SaverStep
<1>3. ClientCopy'  BY <1>1, ClientStepFits
<1>4. TickCopy'  BY <1>1, TickCopyStep
<1>5. FileFits'  BY <1>1, FileFitsStep
<1>6. DueRested' /\ JobsKept'  BY DueRestedStep, KeptStep
<1> QED  BY <1>1, <1>2, <1>3, <1>4, <1>5, <1>6

\* The inductive invariant holds of every reachable state.
THEOREM Inductive == Spec => []IInv
<1> QED  BY IInvInit, IInvStep, PTL DEF Spec

\* A job that was saved stays in the file until a client takes it back or its
\* retries are used up, unless a save raced, failed, or a crash undid a tick.
THEOREM SavedJobsStay == Spec => []JobsKept
<1>1. IInv => JobsKept  BY DEF IInv
<1> QED  BY <1>1, Inductive, PTL

\* Between two starts of a job lies its period, under the same exception.
THEOREM StartsAreSpaced == Spec => SpacedStarts
<1>1. IInv /\ [Next]_vars => [\A j \in JobIds : StartOk(j) => (disturbed \/ rest[j] = 0)]_vars
  <2> SUFFICES ASSUME IInv, NEW j \in JobIds, StartOk(j), ~disturbed PROVE rest[j] = 0
    OBVIOUS
  <2>1. pc[Ticker] = "tick" /\ j \in todo  BY DEF StartOk
  <2> QED  BY <2>1 DEF IInv, DueRested
<1> QED  BY <1>1, Inductive, PTL DEF Spec, SpacedStarts
=============================================================================
