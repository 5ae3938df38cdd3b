----------------------------- MODULE Checkpoints -----------------------------
(***************************************************************************)
(* The checkpoint store (checkpoint.go, retention.go): runs save numbered  *)
(* checkpoints through a temporary file, the newest is looked up by the    *)
(* text of its creation time, and whoever ends prunes every run of the     *)
(* directory, while others save.  `agent gc` prunes, too, and removes the  *)
(* aged files of runs that have no checkpoint.  Runs of the command line   *)
(* keep their checkpoints in the harness directory, runs of the daemon in  *)
(* a directory below it; all other files of a run lie in the former.       *)
(***************************************************************************)
EXTENDS Integers, FiniteSets

CONSTANTS
    Runs,
    Daemons,    \* the runs the daemon drives
    Keep,       \* checkpoints kept per run
    MaxRev,     \* bound on the revisions of a life
    MaxLives,   \* bound on the starts and resumes, of all runs
    MaxGcs,     \* bound on the calls of gc
    MaxFaults,  \* bound on the crashes and failed saves
    MaxSec, MaxFrac     \* bounds on the clock

Gc == "gc"

ASSUME StoreAssumption ==
    /\ IsFiniteSet(Runs) /\ Daemons \subseteq Runs /\ Gc \notin Runs
    /\ Keep \in Nat \ {0} /\ MaxRev \in Nat /\ MaxLives \in Nat /\ MaxGcs \in Nat
    /\ MaxFaults \in Nat
    /\ MaxSec \in Nat \ {0} /\ MaxFrac \in Nat

Actors == Runs \cup {Gc}
Revs   == 1..MaxRev
Names  == Runs \X Revs      \* checkpoint-<run>-r<revision>.json
\* The runs whose checkpoints are in the directory that a works on.
Near(a) == {r \in Runs : r \in Daemons <=> a \in Daemons}

\* Creation times.  CreatedAt is RFC3339Nano text, which drops the zeros at the
\* end of the fraction: a whole second ends in "Z" at once, and "Z" sorts behind
\* the "." of every other instant of that second.
Instants == [sec : 1..MaxSec, frac : 0..MaxFrac]
Absent   == [sec |-> 0, frac |-> 0]
Before(t, u) == t.sec < u.sec \/ (t.sec = u.sec /\ t.frac < u.frac)
TextBefore(t, u) ==
    \/ t.sec < u.sec
    \/ t.sec = u.sec /\ t.frac # 0 /\ (u.frac = 0 \/ t.frac < u.frac)

VARIABLES
    files, tmps,    \* by run and revision, when what is there was created
    now,            \* the last instant a checkpoint was created at
    pc,             \* where each actor is
    rev,            \* State.Revision of the runner of each run
    lives,          \* starts and resumes so far (bound)
    listed,         \* by actor, the names its prune has yet to sort
    doomed,         \* by actor, the names its prune is about to remove
    art,            \* the runs that have files besides checkpoints
    targets,        \* runs without checkpoints, as gc saw them
    gcs,            \* calls of gc so far (bound)
    faults,         \* crashes and failed saves so far (bound)
    saved,          \* by run and revision, the last completed Save (observer)
    raced,          \* names saved while a prune was about to remove them (observer)
    excused         \* runs gc may take by mistake, see Scan (observer)

disk  == <<files, tmps>>
prune == <<listed, doomed>>
gc    == <<targets, gcs>>
seen  == <<saved, raced, excused>>
vars  == <<files, tmps, now, pc, rev, lives, listed, doomed, art, targets, gcs, faults,
           saved, raced, excused>>

NoNames == [r \in Runs |-> {}]
Blank   == [r \in Runs |-> [v \in Revs |-> Absent]]

Init ==
    /\ files = Blank /\ tmps = Blank /\ now = Absent
    /\ pc = [a \in Actors |-> "idle"]
    /\ rev = [r \in Runs |-> 0] /\ lives = 0
    /\ listed = [a \in Actors |-> NoNames] /\ doomed = [a \in Actors |-> {}]
    /\ art = {} /\ targets = {} /\ gcs = 0 /\ faults = 0
    /\ saved = Blank /\ raced = {} /\ excused = {}

Goto(a, l)  == pc' = [pc EXCEPT ![a] = l]
Present(r)  == {v \in Revs : files[r][v] # Absent}
Complete(r) == {v \in Revs : saved[r][v] # Absent}

-----------------------------------------------------------------------------
(* A life of a run: it starts afresh or from its latest checkpoint, saves,   *)
(* and ends.                                                                 *)

\* A new runner counts its revisions from zero, also under an id that was used
\* before, whose checkpoints it then replaces one by one.
Begin(r) ==
    /\ pc[r] = "idle" /\ lives < MaxLives
    /\ lives' = lives + 1
    /\ rev' = [rev EXCEPT ![r] = 0]
    /\ art' = art \cup {r}
    /\ Goto(r, "run")
    /\ UNCHANGED <<disk, now, prune, gc, seen, faults>>

\* Latest reads every file whose name begins like a checkpoint's, temporary ones
\* included, and takes the greatest text.
Candidates(r) ==
    {c \in {[rev |-> v, at |-> files[r][v]] : v \in Revs} \cup
           {[rev |-> v, at |-> tmps[r][v]] : v \in Revs} : c.at # Absent}
\* Mutant: the first one found.
IsFirst(r, c) == c \in Candidates(r)
IsLatest(r, c) ==
    c \in Candidates(r) /\ \A d \in Candidates(r) : ~TextBefore(c.at, d.at)

\* `agent resume`, which looks in the harness directory only.
Resume(r) ==
    /\ r \notin Daemons /\ pc[r] = "idle" /\ lives < MaxLives
    /\ \E c \in Candidates(r) :
          /\ IsLatest(r, c)
          /\ rev' = [rev EXCEPT ![r] = c.rev]
    /\ lives' = lives + 1
    /\ art' = art \cup {r}
    /\ Goto(r, "run")
    /\ UNCHANGED <<disk, now, prune, gc, seen, faults>>

\* persist and the first half of Save: the temporary file is written.
Save(r) ==
    /\ pc[r] = "run" /\ rev[r] < MaxRev
    /\ \E t \in Instants :
          /\ Before(now, t)
          /\ now' = t
          /\ tmps' = [tmps EXCEPT ![r][rev[r] + 1] = t]
    /\ rev' = [rev EXCEPT ![r] = @ + 1]
    /\ Goto(r, "save")
    /\ UNCHANGED <<files, lives, prune, art, gc, seen, faults>>

\* The write fails and leaves the temporary file alone or cut short, which no
\* reader accepts; the revision is used up.
SaveFails(r) ==
    /\ faults < MaxFaults /\ faults' = faults + 1
    /\ pc[r] = "run" /\ rev[r] < MaxRev
    /\ tmps' \in {tmps, [tmps EXCEPT ![r][rev[r] + 1] = Absent]}
    /\ rev' = [rev EXCEPT ![r] = @ + 1]
    /\ UNCHANGED <<files, now, pc, lives, prune, art, gc, seen>>

\* The second half: the rename.
Publish(r) ==
    /\ pc[r] = "save"
    /\ LET v == rev[r]
           t == tmps[r][v]
       IN /\ files' = [files EXCEPT ![r][v] = t]
          /\ tmps' = [tmps EXCEPT ![r][v] = Absent]
          /\ saved' = [saved EXCEPT ![r][v] = t]
          /\ raced' = IF \E a \in Actors : <<r, v>> \in doomed[a]
                        THEN raced \cup {<<r, v>>} ELSE raced \ {<<r, v>>}
    /\ excused' = IF Complete(r) = {} THEN excused \cup {r} ELSE excused
    /\ Goto(r, "run")
    /\ UNCHANGED <<now, rev, lives, prune, art, gc, faults>>

PublishFails(r) ==
    /\ faults < MaxFaults /\ faults' = faults + 1
    /\ pc[r] = "save" /\ Goto(r, "run")
    /\ UNCHANGED <<disk, now, rev, lives, prune, art, gc, seen>>

\* The products of the run are written, and its prune begins.
Stop(r) ==
    /\ pc[r] = "run" /\ Goto(r, "list")
    /\ rev' = [rev EXCEPT ![r] = 0]
    /\ art' = art \cup {r}
    /\ UNCHANGED <<disk, now, lives, prune, gc, seen, faults>>

\* A run of the daemon that has to be answered writes its products, too, and
\* prunes; its runner stays, and goes on from the revision it has reached.
Park(r) ==
    /\ r \in Daemons /\ pc[r] = "run" /\ rev[r] # 0 /\ Goto(r, "list")
    /\ art' = art \cup {r}
    /\ UNCHANGED <<disk, now, rev, lives, prune, gc, seen, faults>>

Answer(r) ==
    /\ pc[r] = "parked" /\ Goto(r, "run")
    /\ art' = art \cup {r}
    /\ UNCHANGED <<disk, now, rev, lives, prune, gc, seen, faults>>

-----------------------------------------------------------------------------
(* Prune: list the directory, then run by run read the times of what was     *)
(* listed and remove the oldest.                                             *)

List(a) ==
    /\ pc[a] = "list" /\ Goto(a, "sort")
    /\ listed' = [listed EXCEPT ![a] =
          [r \in Runs |-> IF r \in Near(a) THEN Present(r) ELSE {}]]
    /\ UNCHANGED <<disk, now, rev, lives, doomed, art, gc, seen, faults>>

\* The names that sort first, as many as there are too many; the time of a name
\* that has gone reads as empty, which sorts before all others.
\* Mutant: one too many.
OldestMore(r, names, d) ==
    /\ d \subseteq names /\ Cardinality(d) = Cardinality(names) - Keep + 1
    /\ \A v \in d, w \in names \ d : ~TextBefore(files[r][w], files[r][v])
Oldest(r, names, d) ==
    /\ d \subseteq names /\ Cardinality(d) = Cardinality(names) - Keep
    /\ \A v \in d, w \in names \ d : ~TextBefore(files[r][w], files[r][v])

Sort(a) ==
    /\ pc[a] = "sort"
    /\ \E r \in Runs : \E d \in SUBSET listed[a][r] :
          /\ Cardinality(listed[a][r]) > Keep
          /\ Oldest(r, listed[a][r], d)
          /\ doomed' = [doomed EXCEPT ![a] = {r} \X d]
          /\ listed' = [listed EXCEPT ![a][r] = {}]
    /\ Goto(a, "remove")
    /\ UNCHANGED <<disk, now, rev, lives, art, gc, seen, faults>>

Remove(a) ==
    /\ pc[a] = "remove"
    /\ \E n \in doomed[a] :
          /\ files' = [files EXCEPT ![n[1]][n[2]] = Absent]
          /\ doomed' = [doomed EXCEPT ![a] = @ \ {n}]
          /\ Goto(a, IF doomed[a] = {n} THEN "sort" ELSE "remove")
    /\ UNCHANGED <<tmps, now, rev, lives, listed, art, gc, seen, faults>>

Pruned(a) ==
    /\ pc[a] = "sort" /\ \A r \in Runs : Cardinality(listed[a][r]) <= Keep
    /\ listed' = [listed EXCEPT ![a] = NoNames]
    /\ Goto(a, IF a = Gc THEN "scan" ELSE IF rev[a] = 0 THEN "idle" ELSE "parked")
    /\ UNCHANGED <<disk, now, rev, lives, doomed, art, gc, seen, faults>>

-----------------------------------------------------------------------------
(* `agent gc` works on the harness directory.                                *)

GcStart ==
    /\ pc[Gc] = "idle" /\ gcs < MaxGcs
    /\ gcs' = gcs + 1 /\ Goto(Gc, "list")
    /\ UNCHANGED <<disk, now, rev, lives, prune, art, targets, seen, faults>>

\* The directory is listed anew.
Look ==
    /\ pc[Gc] = "scan" /\ Goto(Gc, "read")
    /\ listed' = [listed EXCEPT ![Gc] = [r \in Runs |-> IF r \in Near(Gc) THEN Present(r) ELSE {}]]
    /\ UNCHANGED <<disk, now, rev, lives, doomed, art, gc, seen, faults>>

\* The save a run would be continued from.
Newest(r, v) == v \in Complete(r) /\ \A w \in Complete(r) : ~Before(saved[r][v], saved[r][w])
\* It went to a race with a prune, or is younger than the list.
Unlucky(r)   == \E v \in Revs : Newest(r, v) /\ (<<r, v>> \in raced \/ v \notin listed[Gc][r])
Live(r)      == listed[Gc][r] \cap Present(r) # {}

\* Mutant: live is whoever runs.
ScanRunning ==
    /\ pc[Gc] = "read" /\ Goto(Gc, "collect")
    /\ targets' = {r \in art : pc[r] = "idle"}
    /\ excused' = {r \in Runs : Unlucky(r)}
    /\ listed' = [listed EXCEPT ![Gc] = NoNames]
    /\ UNCHANGED <<disk, now, rev, lives, doomed, art, gcs, saved, raced, faults>>

\* Live is whoever has a checkpoint that was listed and can be read.
Scan ==
    /\ pc[Gc] = "read" /\ Goto(Gc, "collect")
    /\ targets' = {r \in art : ~Live(r)}
    /\ excused' = {r \in Runs : Unlucky(r)}
    /\ listed' = [listed EXCEPT ![Gc] = NoNames]
    /\ UNCHANGED <<disk, now, rev, lives, doomed, art, gcs, saved, raced, faults>>

\* The files go if they are old enough: the last write may be any time ago.
Collect(r) ==
    /\ pc[Gc] = "collect" /\ r \in targets
    /\ targets' = targets \ {r}
    /\ art' \in {art, art \ {r}}
    /\ UNCHANGED <<disk, now, pc, rev, lives, prune, gcs, seen, faults>>

GcDone ==
    /\ pc[Gc] = "collect" /\ targets = {} /\ Goto(Gc, "idle")
    /\ UNCHANGED <<disk, now, rev, lives, prune, art, gc, seen, faults>>

-----------------------------------------------------------------------------
\* The daemon is one process, every other actor has its own.
Dies(a)  == IF a \in Daemons THEN Daemons ELSE {a}
Crash(a) ==
    /\ faults < MaxFaults /\ faults' = faults + 1
    /\ pc[a] # "idle"
    /\ pc' = [b \in Actors |-> IF b \in Dies(a) THEN "idle" ELSE pc[b]]
    /\ rev' = [r \in Runs |-> IF r \in Dies(a) THEN 0 ELSE rev[r]]
    /\ listed' = [b \in Actors |-> IF b \in Dies(a) THEN NoNames ELSE listed[b]]
    /\ doomed' = [b \in Actors |-> IF b \in Dies(a) THEN {} ELSE doomed[b]]
    /\ targets' = IF a = Gc THEN {} ELSE targets
    /\ tmps' \in {tmps, [r \in Runs |-> [v \in Revs |->
          IF r \in Dies(a) /\ pc[r] = "save" /\ v = rev[r] THEN Absent ELSE tmps[r][v]]]}
    /\ UNCHANGED <<files, now, lives, art, gcs, seen>>

Life(r) == Begin(r) \/ Resume(r) \/ Save(r) \/ SaveFails(r) \/ Publish(r)
             \/ PublishFails(r) \/ Stop(r) \/ Park(r) \/ Answer(r)
Prune(a) == List(a) \/ Sort(a) \/ Remove(a) \/ Pruned(a)
Next ==
    \/ \E r \in Runs : Life(r) \/ Collect(r)
    \/ \E a \in Actors : Prune(a) \/ Crash(a)
    \/ GcStart \/ Look \/ Scan \/ GcDone

Spec == Init /\ [][Next]_vars

-----------------------------------------------------------------------------
Times == Instants \cup {Absent}
Labels == {"idle", "run", "save", "parked", "list", "sort", "remove", "scan", "read", "collect"}

\* Type correctness of the store.
TypeOK ==
    /\ files \in [Runs -> [Revs -> Times]] /\ tmps \in [Runs -> [Revs -> Times]]
    /\ now \in Times /\ pc \in [Actors -> Labels]
    /\ rev \in [Runs -> 0..MaxRev] /\ lives \in 0..MaxLives
    /\ listed \in [Actors -> [Runs -> SUBSET Revs]] /\ doomed \in [Actors -> SUBSET Names]
    /\ art \subseteq Runs /\ targets \subseteq Runs /\ gcs \in 0..MaxGcs /\ faults \in 0..MaxFaults
    /\ saved \in [Runs -> [Revs -> Times]] /\ raced \subseteq Names /\ excused \subseteq Runs

\* "Prune keeps the newest keep checkpoints per run" (checkpoint.go), whatever
\* other prunes, gc, saves and crashes come in between: a completed save is gone
\* only if as many sort behind it, or if it replaced a file of an earlier life
\* under a prune that had made up its mind about that file.
Surplus(r, v) == Cardinality({w \in Revs : TextBefore(saved[r][v], saved[r][w])}) >= Keep
NewestStay ==
    \A r \in Runs : \A v \in Complete(r) :
       files[r][v] = saved[r][v] \/ Surplus(r, v) \/ <<r, v>> \in raced

\* "Latest returns the most recently created checkpoint for a run": not an older
\* one than the last completed save, leftovers of crashes and earlier lives
\* notwithstanding, unless that save was raced by a prune or shares its second
\* with one taken at the whole second.
LatestIsFresh ==
    Keep > 1 =>
    \A r \in Runs : \A v \in Revs : Newest(r, v) /\ <<r, v>> \notin raced =>
       /\ Candidates(r) # {}
       /\ \A c \in Candidates(r) : IsLatest(r, c) =>
             \/ ~Before(c.at, saved[r][v])
             \/ c.at.sec = saved[r][v].sec /\ c.at.frac = 0

\* Of the runs whose checkpoints gc sees it takes the files of one only if that
\* run had not completed a save when gc looked, or had lost it to a race, or had
\* saved since the directory was listed (retention.go: "collected only when
\* their run keeps no checkpoints").
OrphansOnly ==
    [][Keep > 1 =>
          \A r \in Near(Gc) : r \in art \ art' => Complete(r) = {} \/ r \in excused]_vars
=============================================================================
