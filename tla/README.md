# Prumo: TLA+ models of the harness

Prumo (Go, with a terminal client in Go and a graphical one in Rust) runs coding
agents. This directory holds TLA+ models of the part that runs them, the
*harness*, the TLC configurations that check the models, and proofs of their
central properties. All paths below are relative to the repository; `daemon.go`,
`supervise.go` and `schedule.go` are in `internal/harness/daemon`, `runtime.go` in
`internal/harness/runtime`, `checkpoint.go` in `internal/harness/checkpoint`,
`runner.go` in `prumo-tui/internal/runtime`, `client.go` in `sdk/prumo`.

    tlc -config <run>.cfg <module>      # a run of the table below
    tlapm <module>_proofs.tla           # the proofs of a module

## 1. Inventory

One daemon process serves one store directory. It takes a lock file, listens on a
Unix socket (or TLS), and hosts *runs*. A run is a native runner driven by one
goroutine: plan, ask the model, execute the tool calls, ask for permission, verify.
The runner writes checkpoints and an effect journal; the daemon writes a record
and an event log per run. Clients start, answer, cancel, steer and list runs and
subscribe to their events; they may leave and come back, and so may the daemon.

| component | state it keeps | operations | talks to | hard behaviour | what makes it correct |
|---|---|---|---|---|---|
| effect journal (`checkpoint.go`, bracket in `runtime.go`) | `side-effects.json`, one entry per tool call id | `RecordIntent`, `RecordOutcome` around `Execute` | every run of the store; the tools | crash between effect and outcome; replay of a queue; several runs, one file, no lock | no effect without a durable intent; a repeat needs a reason; applied is final; the replay ends |
| run table (`daemon.go`) | the map of active runs, `busy`, contexts; `daemon-run-<id>.json` | `opStart`, `execute`, `observe`, `opPermission`, `opCancel`, drain, reconcile | runner, checkpoint store, event log | answers racing the run, cancellation in or between steps, drain, crash, ids used again | one driver per run; record, timeline and checkpoint agree; a cancelled driver ends; nothing claims to run that does not |
| lock (`supervise.go`) | `agentd.pid` | `AcquireLock`, `takeOver`, release, `Stop` | the process table, other daemons | two claims at once, stale locks, pids used again, stop racing a start | one owner; no lock left behind by a release; Stop tells the truth |
| event log and subscriptions (`daemon.go`, `supervise.go`) | `events-<id>.jsonl`, line counts, channels, what a subscription has sent | `appendEvent`, `noteEventWritten`, `RotateLog`, `handleSubscribe` | run table, clients | catch-up racing live events, rotation under a reader, full channels, the end of the run | nothing missed, nothing twice, the end is seen, the log stays capped |
| schedule (`schedule.go`) | `jobs.json` | schedule, unschedule, tick | run table | the tick and the operations load and save with no lock through one temporary file; crashes and failed saves | a job starts once per period, is kept unless a save raced, and the schedule recovers |
| native runner (`runtime.go`) | phase, messages, tool queue, pending permissions, injected input | `Step`, `RunUntilDone`, `Pause`, `ResolvePermission`, `Inject`, `RestoreFrom` | models, tools, journal, permission engine, budget | cancellation anywhere, steering while a step runs, resume in mid-queue | every call gets a result; a denial never executes; a resume continues where the checkpoint is |
| checkpoint store (`checkpoint.go`, `retention.go`) | `checkpoint-*.json` | `Save`, `Latest`, retention | runner, reconcile | order by creation time as text; retention racing a save | the latest is the last saved; a needed one is kept |
| permission engine (`perm`) | policy, trail, fingerprints | decide, record, restore | runner, daemon | a decision reused for another call; trails restored | an approval covers what was approved |
| budget (`internal/budget`, `runlayer`) | limits and use per scope | reserve, consume, restore | runner, daemon | crash before the trail is saved; scopes under scopes | what is spent is never forgotten; no scope exceeds its limit |
| goals and evidence (`internal/protocol/goals`) | goal files, lock digest, evidence | transitions, amendments, `AppendRunEvidence` | daemon, run layer | load, change, write without a lock | DONE only with evidence; a locked goal changes by amendment only |
| model gateway (`gateway`) | circuit state, account pool | `Select`, retries, `RecordFailure`, `RecordSuccess` | model providers | late successes, cooldowns, fallback in mid-stream | an available provider is used in the end; a failed one is left alone for its cooldown |
| team executor (`team`) | results of roles, delegation count | `Run`, `runBatch` | suggester, reviewer | roles in parallel, fail-fast, limits per batch | limits hold; the reviewer sees what was done |
| clients (`prumo-tui`, `prumo-viewer`, `sdk`, `acpserver`) | a cursor and the view it stands for | subscribe, poll, resume by cursor, answer | daemon | stream and poll share one cursor; lost connections; several lives of a run | every event is counted once; a follower of a run that is over stops |

The rest of the repository (document compilers, adoption, connectors, planning,
the command line and so on) is sequential file processing; `PROJECT.json` lists each
part with the reason it is left aside, and the largest files of each directory in
place of the directory.

## 2. Modules

| module | models | section |
|---|---|---|
| `EffectJournal` | the journal and the runner's bracket, any number of runs | 3 |
| `EffectJournalSerial` | the conditions under which the journal is right (`Serial`, `Owned`, `Solo`), and the inductive invariant | 3 |
| `MCEffectJournal` | instances for TLC | 3 |
| `DaemonRuns`, `MCDaemonRuns` | the run table | 4 |
| `DaemonLock`, `MCDaemonLock` | the lock | 5 |
| `EventStream` | one run's event log and one connection's subscriptions | 6 |
| `NativeAgent`, `MCNativeAgent` | the native runner of one run id over its lives | 7 |
| `ScheduledJobs` | the schedule's file, its operations and the tick | 8 |
| `RunFollower` | a client that follows a run, against the daemon's side of it | 9 |
| `Checkpoints` | the checkpoint store: save, look-up, pruning, gc | 10 |
| `RunLifecycle` | abstract: what the table promises about one life of a run | 11 |
| `RunnerContract` | abstract: what the daemon relies on of the runner | 11 |
| `*_proofs` | the proofs about each | 13 |

Each action is one stretch of code that runs without another goroutine, process or
crash in between that the properties could tell: a critical section under `s.mu`, a
file operation, a channel operation. Operators named "Mutant" in a comment are
faulty variants of the action that follows; no specification uses them, and each
makes the property `PROJECT.json` pairs it with fail.

## 3. Effect journal

`pc[r]` is where run `r` is between `RecordIntent` and `RecordOutcome`. `loadEffects`
and the decision that follows are one action (`IntentNew`, `IntentGoAhead`, `IntentSkip`,
`IntentRefuse`); `saveEffects` is two, the write of `side-effects.json.tmp` and the
rename (`WriteIntent`, `RenameIntent` and their outcome counterparts), because two
runs of a store share both names. The tool's own effect is `applied`, a count per
call; `ToolApplies`, `ToolFails` and `TransportFails` are the three ways `Execute`
returns, the last with or without the effect. `Resume` restarts the queue at its first
call: the checkpoint is written before the queue starts.

Any write and any rename may fail for a reason of its own, and a write that fails, or
that a crash interrupts, may leave a temporary file cut short, which reads as an empty
journal (`Torn`). A failed intent fails the run; a failed outcome is `finishEffect`'s:
its error becomes the event `side_effect_journal_failed` and the queue goes on
(`OutcomeLost`), so an entry may stay pending although its outcome was known.
`unrecorded` observes whom such an event named, `failedOnce` whom a failure was journalled
for. `QueueAccounted` says what is left when a queue is done all the same: an effect, a
journalled failure, or a pending entry that is to be passed over or that an event named.

Kinds and policies are `recoveryPolicyFor`'s: read-only and idempotent calls are
retried, destructive and side-effecting ones are passed over, anything else fails.

## 4. Run table

A *life* is one `activeRun`; an id may have several, one after another. `pc[a]` is
the place of the goroutine that drives life `a`: in `opStart` (`startRecord`,
`startEvent`), in `execute`, in `RunUntilDone` (`loop`, `step`), in the tail of `observe`
(`event`, `record`, `leave`), or in `opPermission` (`resolve`). `runs`, `busy` and `stopped`
are `s.runs`, `ar.busy` and the cancelled context; `record`, `checkpoint` and `log` are
the files, reduced to the status, to whether the latest checkpoint holds a request,
and to the last lifecycle event. A step of the runner is one of its outcomes:
`StepOn`, `StepStops` (complete, yielded or asking), `StepErrs`, `StepCancelled`.
`mode` follows `Serve` and `drain`; open connections stay served until the process
ends, so starts and answers go on while it drains. `Restart` is `New` with
`reconcileStore`. `lateStart` observes that a run was started after `releaseParked`.

## 5. Lock

A claim is one `AcquireLock`, a stop one `Stop`, a process runs once and has a pid
that may be used again after it. `lock` names the process whose record is in the
file, or is a bare pid (the format before records), garbage, or nothing. `Link` is
`os.Link` on the claim file; `Read`, `Check` and `Take` are the path taken when the lock
exists; the release is two actions, read and remove; `Stop` is five. `SameIdentity` is
`sameIdentity` with the record of the *claiming* process as its second argument, as
in the code. `replaced` observes that a lock was taken over or cleared by `Stop`.

## 6. Event log and subscriptions

`driver` is the one goroutine that appends to the log of a run: `Write`, `Count`, a
`Rotate` that truncates and a `Refill` that writes the kept half back (`os.WriteFile` is
not atomic for a reader), `Push`. `sub[s]` is the place of a `handleSubscribe`:
`Register`, `ReadLog`, `Replay` (one event each), `CheckActive`, `Receive`, `Gone`; `Subscribe`
and `CloseDone` are the `done` channel bookkeeping in `handle`. Events are numbered as
written; `IdOf` gives the events of one kind that share an id (`-ctx`, `-paused`) one
id. `AlreadySent` is the lookup by id and content. A client asks for the whole log
or for what follows a cursor; the cursor is an index into the log as it is now.

## 7. Native runner

One run id, driven by one goroutine; `pc` is where it is: in `RunUntilDone` (`loop`), in
`Step` (`step`), reading the model's stream (`stream`), in the tool queue (`execute`,
`tool`), or out of the loop (`returned`, then `parked`, `lost` or `gone`). `phase` is
`State.Phase` and each phase of `Step` is an action or, where it has outcomes, one each.
`Step` holds the runner's lock, so steering (`Inject`) finds the runner between steps;
cancellation is a context and comes anywhere.

* *The model* streams one of `Replies`, a sequence of tool calls, usage reports,
  completion or an error; `StreamPart`, `StreamUsage` and `StreamError` read one event.
* *The budget* is reserved by `Request` and settled by the first usage report, the end, an
  error or a cancellation (`Settle`). `charged` and `billed` observe what was charged
  and what the provider last reported.
* *Permissions.* Calls differ by content (`perm.Fingerprint`); several may have one id.
  `PolicyVerdict` is the policy's rule, `resolution` the engine's memory: of each id one
  decision and the content it was on (`Remember`). The queue is evaluated call by call up
  to the first that is not allowed, each on the memory the calls before it left
  (`Allowed`, `Judged`), so two contents of one id forget each other's decision. A
  question is written to the checkpoint, with its id (`perms`), before it is asked. An
  answer is taken to be about the first pending call with that id (`Asked`), which
  need not be the one the run stopped on; `answered` observes the content it was for.
* *Tools* run inside the journal of section 3, here one action per side of the bracket,
  and a replay follows the policy of the entry, not of the call; a call that is passed over leaves no observation. `RoundTrip` counts: each execution is
  reported to the model once, right behind the request that asked for it and in its order.
* *Lives.* `Crash` loses what was in memory; `Start` is `execute` of the daemon with a fresh
  runner over the permission trail and the budget envelope the id left.

`MCNativeAgent` has a harmless read, a write the policy asks about in two contents
under one id, and a look it allows under that same id, before or behind the write in one
queue; a provider that reports usage twice; one that fails.

## 8. Schedule

`file` and `tmp` are `jobs.json` and `jobs.json.tmp`, each a map of jobs, or missing,
just truncated (`Empty`), or unreadable (`Torn`). `opSchedule` and `opUnschedule` are
`Operation` (load), `Schedule`, `Unschedule` or `Refused`, and the save; `tickJobs` is `Tick`
(load, and the clock), one `StartOk`, `Retry` or `Drop` per due job, `TickDone`, and the
save. The save is `Open` (`os.WriteFile` truncates), `Fill`, `Rename` or `SaveFails`, each of
any two actors interleaved: `fd` says which file an open handle writes to after
another's rename. Time is relative: `due` is the time to `NextRun`, and `Second` brings
every copy of every job closer. `late` is what has passed since the tick read the
clock. A start is refused for ever (`Hopeless`: an unknown provider, an id the store
refuses) or this time. `disturbed` observes that a save was made from an old copy,
shared its temporary file or failed, or that a crash undid a tick.

## 9. Follower

The terminal interface's `observe` keeps one number per session, `cursor`: how many
events it has folded. `at` is where it is: about to subscribe, reading the stream,
polling the status, polling the events, or off. `Fold` folds one streamed event;
`Recheck` is what it does when the stream closes; `Poll` and `Events` are the two requests of
a poll, in that order. The daemon's side is `EventStream` made small: the log over all
lives of the run (`Run`, `Stop`, `Leave`, `Answer`), the subscription that replays and then
looks at the map (`Look`) and pushes (`Send`), a full channel, rotation, `Crash`,
`Restart`, `Disconnect`. `counted` is how often each report is in what is shown (the
token count, for one). `opEvents` serves the last `Window` events.

## 10. Checkpoint store

Runs of the command line keep their checkpoints in `.prumo/runtime/harness`, runs of
the daemon (`Daemons`) in `checkpoints` below it; `Near` gives the runs that share a
directory with an actor. An actor is a run or `gc`, and `pc` is where it is. `files` and
`tmps` hold, by run and revision, the creation time of what is there: a checkpoint is no
more than that here. `Save` is `persist` and the write of the temporary file, `Publish` the
rename. `TextBefore` is the order of RFC3339Nano texts, which differs from the clock's
(`Before`) in one place: a whole second sorts behind the rest of its second. `Candidates`
has what `Latest` reads, leftover temporary files included; `Begin` counts revisions from
zero, also under an id that has checkpoints; `Resume` goes on from the latest. A prune is
`List`, `Sort` per run, `Remove` per file; whoever ends prunes all runs of the directory. gc
prunes, lists again (`Look`), reads what it listed (`Scan`) and takes the files of the runs
that have none (`Collect`; whether they are old enough is left open). A run is one
process at a time, the daemon's runs are one process; `Crash` ends it anywhere.

`saved` observes the last completed save of each name, `raced` the names that were saved
while a prune was about to remove them, `excused` the runs gc could not see the newest
save of: it raced, or came after the listing.

## 11. Abstract specifications

`RunLifecycle` says what a client may rely on about a run id: one life holds it at a
time, the recorded status moves only along that life, an end is recorded before the
id is free, and a restart takes back nothing but a claim that is no longer true.
Nothing is promised once a run was started while a drain unwound (`loose`).
`DaemonRuns` implements it (`LifecycleSpec`, checked in `daemon_runs` and proved,
`LifecycleKept`).

`RunnerContract` says what the run table relies on of a runner. A return of
`RunUntilDone` is one step that bears a verdict and what the latest checkpoint then
holds: an end or a pause has saved, a question is on disk, a failure has written nothing,
and a cancelled run may or may not have written its pause. An answer is on disk before
the run goes on, or the run is lost. Two models meet in it:

* `NativeAgent` implements it (`ContractSpec`, checked in `agent_runs` and proved,
  `ContractKept`). The mapping takes a return as made as soon as the runner knows how it
  returns (`Concluded`), which is where the checkpoint is written.
* A life of `DaemonRuns` takes its runner through steps of it only (`RunnersKept`), from
  `execute` over answers, cancellations, drains and crashes to the end, other lives of the
  same id included; and every return it allows is a step the run table has
  (`ReturnsAreCovered`). So the run table leaves out no outcome of the runner and has none
  that the contract excludes.

## 12. Runs

| run | asks | instance and why it is enough |
|---|---|---|
| `journal_solo` | is every effect journalled first, repeated only for a reason, and accounted for? | one run, a queue of a side-effecting, a read-only and a custom call and a fourth with the first's id, 3 resumes, any save failing: each policy meets a crash and a lost outcome in each place, twice in the same place, and a reused id |
| `journal_shared` | does every run come to an end when two share the file and the name of its copy? | two runs with a call each, 1 resume: every overlap of two load-change-save cycles, the stolen rename and the torn copy included |
| `journal_lost_intent` (violation) | does every effect stay journalled with two runs? No. | the same |
| `daemon_runs` | do map, flags, records, timelines, checkpoints agree, do cancelled drivers end, does each id follow `RunLifecycle`? | 2 ids, 2 lives, 1 restart: two runs at once, one id twice, a life before and after a restart. The properties relate at most two lives |
| `lock_runs` | does link exclude, is a live lock backed by a holder, is Stop truthful? | 3 processes, two with one pid, 3 claims (two in one process), 1 stop, every first content of the file |
| `lock_exclusive` (violation) | do two processes never hold the lock together? They do. | the same |
| `events_runs` | does a subscription miss, repeat or hang, and does the log stay capped? | 4 events, cap 3, channel of 2, 1 leftover line (any number in `LogStaysCapped`): a rotation, a log exactly at its cap, a full channel, shared ids, an end in every place |
| `agent_runs` | does only what was granted run, does the model see each result once, can a question be rebuilt from disk, does the ceiling hold, does a run come to a stop, is the contract kept? | 4 calls under 2 ids, 2 turns, 2 starts, 1 steer, a limit of 2 tokens: a decision met again by another content of the same id, in the same queue, in the same life and in the next, and an answer about a call the run did not stop on; a hold refused; a crash, a cancellation and a steer in every place |
| `agent_uncharged` (violation) | is what the provider reported what is charged? No. | the same |
| `jobs_runs` | is a job kept, started once per period, and does the schedule recover from anything? | 2 jobs, one hopeless, 2 clients, 2 operations, 2 faults, a period of 2 units, 1 retry: two operations and a tick at once, a crash or failed save with a race, the last retry |
| `client_runs` | is each event counted once over streams, polls and lives, and does a follower stop? | 4 reports, window 4, channel of 1, 2 follows, 2 faults, 1 failed poll: two lives, each mode after each other, a log beyond the window, a dropped push |
| `checkpoints_runs` | do the newest checkpoints survive, does Latest find the last save, does gc spare the runs that have one? | a run of the command line and one of the daemon, 3 lives, 3 revisions, 2 kept, 1 gc, 1 fault, 2 seconds of two instants: a prune that removes, a name saved again under a prune, a whole second against a fraction, a crash in each place |

Deadlock checking is off throughout: each model really stops, when every run is done
and the bounds are used up.

Bounds: `MaxResumes`, `MaxLives`, `MaxRestarts`, `MaxEvents`, `MaxSubs`, `MaxReport`,
`MaxSteers`, `MaxStarts`, `MaxOps`, `MaxFaults`, `MaxReports`, `MaxFollows`, `MaxRev`, `MaxGcs`,
`MaxSec` and `MaxFrac` only limit how much
is explored; the code has no such limit, and the proofs hold for every value.
`LogMax` and `Cap` are `eventLogMax` (2000) and the channel's 128, `Window` is the 500 of
`opEvents`, `MaxFailures` is `MaxPollFailures`, `Keep` is 5, all made small; the code rounds a cap below
ten up, which 2000 never meets.

### What the violations show

* `journal_lost_intent`: `RecordIntent` loads, changes and saves with no lock, and
  the daemon gives all runs one journal. Of two concurrent intents one is lost and
  its effect happens with no record.
* `lock_exclusive`: the identity is compared with the claimant's own, so only a
  process that already holds the lock is refused.
* `agent_uncharged`: usage is cumulative and `settle` acts once, so a second report of
  one call (a provider that sends a running total) is not charged; `runtime.go:831` says
  that the next preflight sees the truth.

### Fairness

* Journal: `WF(Advance(r))`. A run that is neither crashed nor done takes its next
  straight-line step; `Execute` returns in the end, which the tools' own timeouts and
  the context provide.
* Run table: `WF(Drive(a))`, goroutines are scheduled, and a step whose context is
  cancelled returns (every blocking call in `Step` takes the context). Nothing is
  assumed of a step that is not cancelled: a model may never answer. `WF(Drain)`, its
  three waits have deadlines.
* Lock and checkpoint store: none, their properties are safety.
* Event log: `WF(Handle(s))`, the subscription's goroutine is scheduled. No fairness
  for the driver or for the client.
* Native runner: `WF(Drive)`, the goroutine is scheduled, and a model call ends because
  the providers' HTTP clients have a timeout. Nothing makes a tool return, so
  `DriveEnds` excepts a run inside one; nobody has to answer.
* Schedule: `WF(TickStep)`, `WF(ClientStep(c))`, `WF(Second)`: the ticker and the
  connections are scheduled, and time passes. No crash is ever forced or excluded.
* Follower: `WF(ClientStep)`, `WF(Leave)`, `WF(Look)`, `WF(Send)`: goroutines of both processes
  and the poll's ticker. Nothing makes a run end, a person answer or a daemon return.

## 13. Proofs

All are for every value of the constants that the named assumptions allow.

| module | theorems | argument |
|---|---|---|
| `EffectJournal_proofs` | `TypeCorrect`, `EachStepCounts`, `Inductive`, `RepeatsAreOwed`, `IntentFirst`, `AppliedStays`, `QueueIsAccounted`, `OneOwner` | For any number of runs: as long as saves do not overlap (`Serial`), the copy a run holds is the journal plus one entry (`Bracket`), a step of another run keeps it so, two runs execute one effect at once only when a repeat is allowed (`Shared`), and each status is borne out (`JournalIsTrue`): absent means no effect, applied means an effect, a second effect has a reason. On top of it, `Past`: what accounts for a call never goes away, so it is enough that each call is accounted for when the loop leaves it; a call whose outcome could not be saved is, by the event and by the entry the lost save left alone (`LostIsSeen`). That applied is final also needs one owner per effect id (`Owned`). A run alone keeps both conditions (`OneOwner`); nothing in the code keeps them for runs that share a store, and `journal_lost_intent` shows what happens then |
| `DaemonRuns_proofs` | `TypeCorrect`, `Inductive`, `DriversAreKnown`, `OneLoop`, `RunningHasRun`, `TimelineAgrees`, `FinalRecordsStay`, `ParkedRunsAreDurable`, `AnswersStay`, `LifecycleKept`, `CancelRunsDown`, `RunnersKept`, `ReturnsAreCovered` | Three layers. The map names every driver, so an id has one, until the drain releases lives. What a serving daemon records as running is in the map. If no run starts after that release, drivers are alone, and what a driver wrote (timeline, then record) is what it finds. For parked lives and answers: the latest checkpoint of an id with one life says what that life's memory says (`Phased`, `Answered`). The refinement is step by step from the types and the map. A cancelled driver is at most seven of its own steps from its end and nothing takes it back (`Distance`). A life that writes checkpoints is alone with its id, so to every other life of the id that is a step of the contract it takes while it has no runner (`RunnerOther`) |
| `DaemonLock_proofs` | `TypeCorrect`, `Inductive`, `LinkIsExclusive`, `LockHasHolder`, `StopSeesTheEnd` | A process runs once, so a name in the file or in a call's memory is a process already started; that is what makes "gone" final |
| `EventStream_proofs` | `TypeCorrect`, `Inductive`, `LogStaysCapped`, `NothingIsMissed`, `NothingIsRepeated`, `FinishIsReached` | The channel is registered before the log is read, so pushes alone cover what came since; lines keep the order of their events through rotations, so a replay cannot repeat; the channel's events are compared with everything sent. The count trails the file by the leftover lines at most, however many earlier processes, each counting from zero, left (more than the cap too). The end of a run that is in a channel stays there and each `Receive` takes it one place nearer (`Owed`, `Nears`) |
| `ScheduledJobs_proofs` | `TypeCorrect`, `Inductive`, `SavedJobsStay`, `StartsAreSpaced` | Undisturbed, one save runs at a time and publishes the file plus one change, so every other copy is the file as it was or is known to be stale; a job's retries are the refusals since its last start, and `rest`, the time its period still has to run, never exceeds `due` |
| `NativeAgent_proofs` | `TypeCorrect`, `Inductive`, `WaitingIsOnDisk`, `CeilingKept`, `RunsAreGranted`, `RoundTripsAreWhole`, `TurnsRunOut`, `ContractKept` | Where the runner stands fits its queue (`Placed`); the call a waiting request stopped on is the only decided content of its id, and the one an answer is about was granted before it or is that call (`Waits`, `Stopped`), so an answer is founded and with it every remembered decision (`Grants`): a content of a queue is first judged by the memory or the policy, whatever its id was decided on since (`JudgedFounded`); the envelope holds what was charged while no life ended unsaved (`Accounted`); only a cancelled run pauses with an error (`Erred`), which with `Placed` gives the refinement step by step. `RoundTrip` rests on `Relayed`: an execution is in `obs` or in the conversation (`Counted`), `obs` is a part of the queue in its order (`Observed`) and empty where a new queue comes (`Unobserved`), so what is appended is in order, and appending keeps what was there (`InOrder`). `TurnsRunOut` orders turn, phase, place in the queue and rest of the stream lexicographically |
| `Checkpoints_proofs` | `TypeCorrect`, `Inductive`, `NewestKept`, `LatestStaysFresh`, `OrphansAreAll` | A prune decides first and removes later. What it dooms is surplus (`Keep` saves sort behind it) or raced (`Meant`), and stays so: the clock has passed whatever was written (`Clocked`), so a later save sorts behind all that the file it replaces sorted behind (`TextFollows`). At most one save, at the whole second, sorts behind the newest (`NewestIsSpared`), so with `Keep` above 1 the newest is never surplus |
| `RunFollower_proofs` | `TypeCorrect`, `Inductive`, `CountIsExact`, `FollowRunsDown` | While the log fits the window it is never rotated, so it holds every report once (`LogIsWhole`), and while no push was dropped what is on its way continues it from the cursor (`StreamFits`); so the count is of what lies before the cursor (`CursorIsRead`), whichever way it moved. A life that goes on wrote last, and not its end (`LifeWritesLast`), so the end a follow reads is the log's last event (`NoEndBetween`). Once the run is over, what is left to deliver and to fold only shrinks (`Remaining`) |

An invariant is rarely inductive alone. `TerminalIsLogged` needs `DriverRecord` (a driver
about to write its record has logged its verdict) and `DriverAlone`; `RepeatNeedsCause`
needs `Executing`; `SentOnce` needs `ReplayInOrder`; `OrphansOnly` needs `NewestStay`, `Held` and `Apart`.

Only model-checked: the liveness properties `Settles`, `CancelEnds`, `FinishEnds`,
`DriveEnds`, `JobsServed` and `FollowEnds`, because the prover has neither fairness nor
ENABLED. Of all but `JobsServed` the safety half is proved: a measure that each step of the
actor lowers and no step of another raises, short of a new start, a resume or an
answer, for every value of the constants
(`EachStepCounts`, `CancelRunsDown`, `FinishIsReached`, `TurnsRunOut`, `FollowRunsDown`). What TLC
adds is that the actor keeps being able to step. `JobsServed` has no such measure: a
retry, another job's start, a fault and the clock each move a job's turn both ways. No
module a proof reaches uses a recursive operator.

Assumptions: `JournalAssumption`, `DaemonAssumption`, `LockAssumption`, `StreamAssumption`,
`AgentAssumption`, `JobsAssumption`, `FollowerAssumption`, `StoreAssumption`: the shape of the
constants. `Serial`, `Owned` and `Solo` are hypotheses of the journal's theorems, each stated
where it is used, and `~lateStart` (no run was started while a drain unwound) is one of
the run table's. In `LockAssumption` the first lock is no process record: such a
record is written in the run itself.

## 14. Divergences with no run of their own

Met while modelling; the models have the behaviour of the code.

* An unknown non-idempotent effect is passed over and the run goes on
  (`runtime.go:493-499`, `IntentSkip`); `docs/harness/specs/ch32.md:492` says it blocks
  automatic continuation.
* After a restart `reconcileRun` records a run as `awaiting_approval` (`daemon.go:1654`), but
  nothing puts it back into the map (`restoreRun` has no caller but a test), so approve and
  deny answer "run not active"; `docs/harness/daemon.md:35` says that such a run stays in
  the live map.
* Cancelling a parked run answers `"cancelled": true` and the run stays in the map
  as waiting until a drain (`daemon.go:1346`, `Cancel`).
* An answer whose checkpoint cannot be written is taken in memory; the run is no
  longer asking and nobody drives it (`runtime.go:676`, `AnswerLost`).
* A crash after `run.finished` and before the record (`daemon.go:866`) leaves a
  timeline that ended and a record reconciled to interrupted.
* The latest checkpoint of an id decides its reconciled record, also when it is an
  earlier life's (`daemon.go:1639`); `AnswerStays` is stated for ids with one life.
* `releaseParked` drops a run that asks while its driver is still writing its record
  (`daemon.go:509`), so the record may say running, although line 498 says a parked run
  persisted before it parked; and once the id is free again an open connection may
  start it and lose it from the map to the earlier driver (`daemon.go:875`).
* `Stop` signals whatever process has the recorded pid (`supervise.go:219`), although
  lines 22-27 explain why the pid alone is not enough; it and the release remove a
  lock they read earlier (`supervise.go:139`, `216`); two claims that find one dead lock
  both rename over it (`supervise.go:109`).
* A crash between truncation and rewrite in `RotateLog` (`supervise.go:273`) loses the
  run's timeline.
* A cursor is an index into a log that may have been rotated since
  (`daemon.go:1237`; `docs/harness/gap-register.md:157` lists it).
* A subscription that replays `run.finished` while the run is still in the map takes
  the live copy for a repeat and waits for ever; a run that yields leaves its live
  subscribers waiting (`daemon.go:1283`). Events that share an id (`-ctx`, `-paused`)
  may be sent again.
* An entry marked failed is executed again without being marked pending; if that
  attempt applies and the process dies before the outcome is written, the next replay
  applies it again (`checkpoint.go:224`; line 3 promises a duplicate rate of zero). The
  same when `Execute` returns an error after the effect.
* An outcome that cannot be saved leaves the entry pending (`runtime.go:484`), so a
  replay takes a call that ended for one whose end is unknown: it passes it over, repeats
  it or refuses it by the policy alone.
* A step that sees the cancelled context sets the phase to yield, and the run is
  recorded as yielded (`runtime.go:1149`; `docs/harness/daemon.md:12` says cancelled).
* A subscription whose run ends between the replay and the look at the map returns
  without `run.finished` (`daemon.go:1269`); a second subscribe on one connection closes
  the first's channel, and its end closes it again, which panics (`daemon.go:567`).

Of the native runner:

* A steer accepted after the last request of a run is in the conversation and never
  sent (`runtime.go:181`).
* A call under an id that is already applied is passed over and leaves no observation
  (`runtime.go:967`, "Already applied in an earlier life of this run"). An id the model
  uses twice in one life, or one another run of the store used, is taken for that
  case, and the model gets no result for it.
* A request carries the fingerprint of the call the run stopped on (`runtime.go:915`); the
  answer is compared with the first pending call of its id (`runtime.go:616`). When a
  queue has two contents under one id and asks about the second, quoting the
  fingerprint that was shown is refused, and the one that is accepted (the one
  `agent ps` lists) decides on the first content. The second is then asked about again:
  each evaluation of one forgets the other (`perm.go:157`), so no answer lets such a queue
  run, and a denial of a first content the policy allows is forgotten with it.
  `ResolvePermission`'s comment says the fingerprint "must be the one the approver was
  shown" (`runtime.go:629`).
* The trail keeps what the *policy* decided, too; in a later life it outranks a policy
  that has changed. The saved envelope replaces the limits of the new start.
* A crash loses the tokens spent and the decisions taken since the last stop: both
  files are written by `observe` only (`daemon.go:837`). `CeilingHolds` excepts it.

Of the schedule (`docs/harness/gap-register.md` lists the first two as GAP-120, GAP-121):

* `saveJobs` returns nothing, so a client is told ok for a job that was not saved.
* Two operations, or one and the tick, lose one's change; both write one temporary
  file, and what is published may not parse. `loadJobs` then returns no jobs and the
  next `schedule` overwrites the file with its one.
* A job's `max_turns` is passed on as an int and `opStart` looks for a `float64`, so it is
  ignored. An id that the store refuses is accepted by `opSchedule` and dropped by the
  tick.

Of the checkpoint store:

* `agent gc` looks for checkpoints in `.prumo/runtime/harness` only
  (`agent_commands.go:1147`), and the daemon's runs keep theirs in `checkpoints` below it
  (`daemon.go:753`): gc takes the aged evidence, budget and event files of runs of the
  daemon that own checkpoints, and prunes none of those. `agent_commands.go:1132` says
  "runs owning checkpoints keep everything". `OrphansOnly` is stated for the runs that gc
  sees; the model's run `b` is one of the others. `agent resume` looks in the same place.
* A run that starts again under its id saves under the names of its earlier life, and a
  prune under way may remove what it has just saved (`checkpoint.go:166`, `raced`).
* A run all of whose listed checkpoints are pruned between gc's listing and its reading
  counts as one without any, although it has saved since (`retention.go:75`, `excused`).
* `agent resume` restores the runner with a policy that allows everything and a budget
  without limits (`agent_commands.go:462-464`), whatever the run started with.

Of goals, which have no module yet:

* `AppendRunEvidence` adds `ev-run-<nanoseconds>` to the goal's evidence
  (`internal/protocol/goals/state.go:71`), while the record `WriteEvidence` writes has the id
  `ev-<run>-<phase>` (`runlayer.go:406`): a goal whose evidence has such an id finds no record for
  it. `daemon.go:850` says that the run's evidence satisfies the goal's DONE gate.

Of the follower:

* The daemon leaves the connection open when a subscription returns. A follower that
  attaches to a run that is over, that yields, or that ends between the replay and
  the look at the map reads nothing and stays: the session is busy for ever, and
  the next message is taken for steering and refused. `runner.go:584` says "a finished
  one is read once and closed out". `FollowEnds` excepts this case (`Unclosed`); the
  exception is reached by Run, Subscribe, Fold, Stop, Leave, Look.
* A stream that closes when the status is terminal ends the follow without reading
  the rest (`runner.go:715`); `docs/harness/reconnect-replay.md` says to replay first.
* A session with several runs has several `run.finished`: a follower that starts behind
  an earlier one stops there (`behind`).
* The cursor counts events of the log when streaming and is an index into the last
  500 when polling. Beyond 500 a poll starts over, then shows nothing new, and the
  next subscription counts events again (`overgrown`), which `streaming_test.go:194`
  excludes. A dropped push makes the cursor lag behind what was shown (`lost`).

## 15. Not modelled, and abstractions

Except in `ScheduledJobs`, the write of a temporary file is one step that succeeds or
leaves nothing; a failed `saveRecord` is not modelled (the daemon ignores it). A push
to several subscribers is one step. A process that is a zombie counts as gone. `NativeAgent`
starts an id afresh, as `execute` does; the resume in mid-queue that `agent resume` makes is in
`EffectJournal` (the replay) and `Checkpoints` (where it starts from), and not in `NativeAgent`.
Steering changes only the runner's messages. Subscriptions of
other connections touch the log only by reading it, so one connection is enough;
`EventStream` follows one life of a run.

`NativeAgent` leaves out the quality gate and its repair turn, compaction, the guard of
1000 steps, the directive firewall and a stream cut short in mid-event; the journal
bracket's crash points are `EffectJournal`'s. `RunFollower` leaves out the views, the
message store, permissions and the other clients (`prumo-viewer`, `acpserver`), whose
cursors work alike.

Left aside, with the reason: the model gateway's circuit and account pool and the team
executor (no caller outside tests: GAP-102, GAP-101); transports and remote access, MCP,
language server and model providers (I/O around library clients); the document
compilers, maps, linters, command line and terminal screens (sequential text
processing, whose properties are about wording and layout). They are most of the
repository's lines, which is why the models cover a small share of it.

## 16. Plan

In this order; a new run takes the place of a violation run documented above.

1. `Goals`: transitions, the lock digest, the evidence gate, concurrent appends, with the
   divergence above as its violation run.
2. `RunLayer`: budgets of scopes under scopes and the gates around a start.
3. A life of `NativeAgent` that starts from a checkpoint, as `agent resume` does.
