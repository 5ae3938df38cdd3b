--------------------------- MODULE EffectJournal ---------------------------
(***************************************************************************)
(* The effect journal of the harness (checkpoint.Store, side-effects.json) *)
(* and the part of the native runner that brackets every tool call with it *)
(* (Runner.Step, phase execute_tool).                                      *)
(*                                                                         *)
(* Several runs share one journal: the daemon hands every run of a store   *)
(* the same directory.  The journal is read, changed in memory, written to *)
(* a temporary file and renamed over side-effects.json, and no lock spans  *)
(* those steps, so each is an action of its own.  A run may crash between  *)
(* any two of them, and is resumed from the checkpoint written before its  *)
(* tool queue started: it replays the queue from the first call.  A write  *)
(* or a rename may fail for a reason of its own (a full disk, a permission) *)
(* at any time: an intent that cannot be saved fails the run, an outcome    *)
(* that cannot be saved is reported and the run goes on.                    *)
(***************************************************************************)
EXTENDS Naturals, Sequences

CONSTANTS
    Runs,          \* runs that share the store
    Calls,         \* tool calls, as the model asked for them
    Ids,           \* effect identifiers ("fx-" + tool call id)
    EffectId,      \* [Calls -> Ids]: the id the journal knows a call by
    Kind,          \* [Calls -> Kinds]: ToolExecutor.KindOf
    Queue,         \* [Runs -> Seq(Calls)]: the checkpointed tool queue
    MaxResumes     \* bound on the number of resumes explored

Kinds    == {"read-only", "idempotent", "destructive", "side-effecting", "other"}
Policies == {"retry", "skip", "fail"}
Statuses == {"absent", "pending", "applied", "failed"}

ASSUME JournalAssumption ==
    /\ EffectId \in [Calls -> Ids]
    /\ Kind \in [Calls -> Kinds]
    /\ Queue \in [Runs -> Seq(Calls)]
    /\ MaxResumes \in Nat

\* Mutant: the default arm of the switch returns the empty policy.
PolicyForUnset(c) ==
    CASE Kind[c] \in {"read-only", "idempotent"}       -> "retry"
      [] Kind[c] \in {"destructive", "side-effecting"} -> "skip"
      [] OTHER                                         -> ""

\* What a replay of the call should do (Runner.recoveryPolicyFor).
PolicyFor(c) ==
    CASE Kind[c] \in {"read-only", "idempotent"}       -> "retry"
      [] Kind[c] \in {"destructive", "side-effecting"} -> "skip"
      [] OTHER                                         -> "fail"

Entry    == [status : Statuses, policy : Policies]
NoEntry  == [status |-> "absent", policy |-> "fail"]
Journals == [Ids -> Entry]
Empty    == [i \in Ids |-> NoEntry]

VARIABLES
    disk,      \* side-effects.json; an id never recorded maps to NoEntry
    tmp,       \* the files named side-effects.json.tmp: none, or its one content
    pc,        \* where each run is in the bracket around a call
    pos,       \* index into the run's tool queue
    local,     \* the journal copy a run loaded and changed
    outcome,   \* what Execute reported, until RecordOutcome has been tried
    broken,    \* Execute returned an error: the step returns it afterwards
    applied,   \* how many times each call really took effect (observer)
    failedOnce,\* ids a failure was ever journalled for (observer)
    unrecorded,\* ids a side_effect_journal_failed event names (observer)
    resumes    \* resumes so far (bounds the model)

files == <<disk, tmp>>
steps == <<pc, pos, local, outcome, broken>>
vars  == <<disk, tmp, pc, pos, local, outcome, broken, applied, failedOnce, unrecorded,
           resumes>>

Locations == {"intent", "writeIntent", "renameIntent", "execute",
              "outcome", "writeOutcome", "renameOutcome",
              "done", "failed", "down"}

Init ==
    /\ disk = Empty
    /\ tmp = {}
    /\ pc = [r \in Runs |-> "intent"]
    /\ pos = [r \in Runs |-> 1]
    /\ local = [r \in Runs |-> Empty]
    /\ outcome = [r \in Runs |-> "failed"]
    /\ broken = [r \in Runs |-> FALSE]
    /\ applied = [c \in Calls |-> 0]
    /\ failedOnce = {}
    /\ unrecorded = {}
    /\ resumes = 0

HasCall(r) == pos[r] \in 1..Len(Queue[r])
Cur(r)     == Queue[r][pos[r]]
CurId(r)   == EffectId[Cur(r)]

Goto(r, l) == pc' = [pc EXCEPT ![r] = l]
\* The loop over the queue moves to its next call.
NextCall(r) == Goto(r, "intent") /\ pos' = [pos EXCEPT ![r] = @ + 1]

-----------------------------------------------------------------------------
(* RecordIntent: load, look the id up, and decide.                         *)

\* Mutant: the tool runs first and the intent is left for the outcome to save.
IntentNewUnsaved(r) ==
    /\ pc[r] = "intent" /\ HasCall(r)
    /\ disk[CurId(r)].status = "absent"
    /\ Goto(r, "execute")
    /\ UNCHANGED <<files, pos, local, outcome, broken, applied, failedOnce, unrecorded, resumes>>

\* No entry: append a pending one to the copy and go on to save it.
IntentNew(r) ==
    /\ pc[r] = "intent" /\ HasCall(r)
    /\ disk[CurId(r)].status = "absent"
    /\ local' = [local EXCEPT ![r] =
          [disk EXCEPT ![CurId(r)] =
              [status |-> "pending", policy |-> PolicyFor(Cur(r))]]]
    /\ Goto(r, "writeIntent")
    /\ UNCHANGED <<files, pos, outcome, broken, applied, failedOnce, unrecorded, resumes>>

\* Mutant: every pending entry is executed again, whatever its policy (GAP-126).
IntentGoAheadAlways(r) ==
    /\ pc[r] = "intent" /\ HasCall(r)
    /\ disk[CurId(r)].status \in {"failed", "pending"}
    /\ Goto(r, "execute")
    /\ UNCHANGED <<files, pos, local, outcome, broken, applied, failedOnce, unrecorded, resumes>>

\* Mutant: an applied entry under the retry policy is executed again.
IntentGoAheadApplied(r) ==
    /\ pc[r] = "intent" /\ HasCall(r)
    /\ disk[CurId(r)].status = "failed" \/ disk[CurId(r)].policy = "retry"
    /\ Goto(r, "execute")
    /\ UNCHANGED <<files, pos, local, outcome, broken, applied, failedOnce, unrecorded, resumes>>

\* A failed entry, or a pending one whose policy is retry: go ahead.  The
\* journal is left as it is in both cases.
IntentGoAhead(r) ==
    /\ pc[r] = "intent" /\ HasCall(r)
    /\ \/ disk[CurId(r)].status = "failed"
       \/ disk[CurId(r)] = [status |-> "pending", policy |-> "retry"]
    /\ Goto(r, "execute")
    /\ UNCHANGED <<files, pos, local, outcome, broken, applied, failedOnce, unrecorded, resumes>>

\* Mutant: a pending entry is passed over whatever its policy.
IntentSkipUnknown(r) ==
    /\ pc[r] = "intent" /\ HasCall(r)
    /\ disk[CurId(r)].status \in {"applied", "pending"}
    /\ NextCall(r)
    /\ UNCHANGED <<files, local, outcome, broken, applied, failedOnce, unrecorded, resumes>>

\* Applied already, or pending under the skip policy: the call is passed over
\* and the run carries on with the next one.
IntentSkip(r) ==
    /\ pc[r] = "intent" /\ HasCall(r)
    /\ \/ disk[CurId(r)].status = "applied"
       \/ disk[CurId(r)] = [status |-> "pending", policy |-> "skip"]
    /\ NextCall(r)
    /\ UNCHANGED <<files, local, outcome, broken, applied, failedOnce, unrecorded, resumes>>

\* Pending under the fail policy: the journal error fails the run.
IntentRefuse(r) ==
    /\ pc[r] = "intent" /\ HasCall(r)
    /\ disk[CurId(r)] = [status |-> "pending", policy |-> "fail"]
    /\ Goto(r, "failed")
    /\ UNCHANGED <<files, pos, local, outcome, broken, applied, failedOnce, unrecorded, resumes>>

-----------------------------------------------------------------------------
(* saveEffects: write side-effects.json.tmp, then rename it.               *)

\* The rename: side-effects.json becomes whatever the shared temporary file holds.
Publish ==
    /\ tmp # {} /\ disk' \in tmp /\ tmp' = {}
    /\ failedOnce' = failedOnce \cup {i \in Ids : disk'[i].status = "failed"}

\* A save that does not come through: nothing is written, or the temporary file is
\* left cut short (which loadEffects reads as an empty journal) or whole.
Torn(r) == tmp' \in {tmp, {Empty}, {local[r]}} /\ UNCHANGED disk

\* The error of a save reaches the step, and the run fails before the tool is called.
WriteIntent(r) ==
    /\ pc[r] = "writeIntent"
    /\ \/ tmp' = {local[r]} /\ UNCHANGED disk /\ Goto(r, "renameIntent")
       \/ Torn(r) /\ Goto(r, "failed")
    /\ UNCHANGED <<pos, local, outcome, broken, applied, failedOnce, unrecorded, resumes>>

\* The rename fails too when another run has already renamed the file away.
RenameIntent(r) ==
    /\ pc[r] = "renameIntent"
    /\ \/ Publish /\ Goto(r, "execute")
       \/ Goto(r, "failed") /\ UNCHANGED <<files, failedOnce>>
    /\ UNCHANGED <<pos, local, outcome, broken, applied, unrecorded, resumes>>

-----------------------------------------------------------------------------
(* Execute: the tool runs, and the runner maps the result to an outcome.   *)

\* Exit code zero.
ToolApplies(r) ==
    /\ pc[r] = "execute"
    /\ applied' = [applied EXCEPT ![Cur(r)] = @ + 1]
    /\ outcome' = [outcome EXCEPT ![r] = "applied"]
    /\ broken' = [broken EXCEPT ![r] = FALSE]
    /\ Goto(r, "outcome")
    /\ UNCHANGED <<files, pos, local, failedOnce, unrecorded, resumes>>

\* A non-zero exit code: the tool says it did not take.
ToolFails(r) ==
    /\ pc[r] = "execute"
    /\ outcome' = [outcome EXCEPT ![r] = "failed"]
    /\ broken' = [broken EXCEPT ![r] = FALSE]
    /\ Goto(r, "outcome")
    /\ UNCHANGED <<files, pos, local, applied, failedOnce, unrecorded, resumes>>

\* Execute returned an error (a cancelled context, a lost MCP server): the
\* effect may or may not have happened, the journal is told it failed, and the
\* step returns the error.
TransportFails(r) ==
    /\ pc[r] = "execute"
    /\ \E took \in {0, 1} : applied' = [applied EXCEPT ![Cur(r)] = @ + took]
    /\ outcome' = [outcome EXCEPT ![r] = "failed"]
    /\ broken' = [broken EXCEPT ![r] = TRUE]
    /\ Goto(r, "outcome")
    /\ UNCHANGED <<files, pos, local, failedOnce, unrecorded, resumes>>

-----------------------------------------------------------------------------
(* RecordOutcome, and what finishEffect makes of its error: an event only. *)

\* Mutant: a call the tool reported as failed is tried again in place.
AfterOutcomeRetry(r) ==
    IF broken[r] THEN Goto(r, "failed") /\ UNCHANGED pos
    ELSE IF outcome[r] = "failed" THEN Goto(r, "intent") /\ UNCHANGED pos
    ELSE NextCall(r)

\* After the outcome: the step returns the transport error, or the loop goes on.
AfterOutcome(r) ==
    IF broken[r] THEN Goto(r, "failed") /\ UNCHANGED pos ELSE NextCall(r)

\* Mutant: an outcome that could not be recorded is not reported.
OutcomeLostSilently(r) == AfterOutcome(r) /\ UNCHANGED <<failedOnce, unrecorded>>

\* finishEffect: the error of RecordOutcome becomes an event and nothing else.
OutcomeLost(r) ==
    /\ AfterOutcome(r)
    /\ unrecorded' = unrecorded \cup {CurId(r)}
    /\ UNCHANGED failedOnce

OutcomeKnown(r) ==
    /\ pc[r] = "outcome"
    /\ disk[CurId(r)].status # "absent"
    /\ local' = [local EXCEPT ![r] = [disk EXCEPT ![CurId(r)].status = outcome[r]]]
    /\ Goto(r, "writeOutcome")
    /\ UNCHANGED <<files, pos, outcome, broken, applied, failedOnce, unrecorded, resumes>>

\* "unknown effect": nothing is written, the run carries on.
OutcomeUnknown(r) ==
    /\ pc[r] = "outcome"
    /\ disk[CurId(r)].status = "absent"
    /\ OutcomeLost(r)
    /\ UNCHANGED <<files, local, outcome, broken, applied, resumes>>

WriteOutcome(r) ==
    /\ pc[r] = "writeOutcome"
    /\ \/ /\ tmp' = {local[r]} /\ Goto(r, "renameOutcome")
          /\ UNCHANGED <<disk, pos, failedOnce, unrecorded>>
       \/ Torn(r) /\ OutcomeLost(r)
    /\ UNCHANGED <<local, outcome, broken, applied, resumes>>

RenameOutcome(r) ==
    /\ pc[r] = "renameOutcome"
    /\ \/ Publish /\ AfterOutcome(r) /\ UNCHANGED unrecorded
       \/ OutcomeLost(r) /\ UNCHANGED files
    /\ UNCHANGED <<local, outcome, broken, applied, resumes>>

-----------------------------------------------------------------------------
QueueDone(r) ==
    /\ pc[r] = "intent" /\ ~HasCall(r)
    /\ Goto(r, "done")
    /\ UNCHANGED <<files, pos, local, outcome, broken, applied, failedOnce, unrecorded, resumes>>

\* The process dies, in the middle of a write too.  The files stay, a left-over
\* temporary file included.
Crash(r) ==
    /\ pc[r] \notin {"done", "failed", "down"}
    /\ Goto(r, "down")
    /\ IF pc[r] \in {"writeIntent", "writeOutcome"} THEN Torn(r) ELSE UNCHANGED files
    /\ UNCHANGED <<pos, local, outcome, broken, applied, failedOnce, unrecorded, resumes>>

\* RestoreFrom(cp) and RunUntilDone: the checkpoint was written before the
\* queue started, so the queue is replayed from its first call.
Resume(r) ==
    /\ pc[r] \in {"down", "failed"}
    /\ resumes < MaxResumes
    /\ resumes' = resumes + 1
    /\ Goto(r, "intent")
    /\ pos' = [pos EXCEPT ![r] = 1]
    /\ UNCHANGED <<files, local, outcome, broken, applied, failedOnce, unrecorded>>

\* What the run does by itself; a crash and a resume are the environment's.
Advance(r) ==
    \/ IntentNew(r) \/ IntentGoAhead(r) \/ IntentSkip(r) \/ IntentRefuse(r)
    \/ WriteIntent(r) \/ RenameIntent(r)
    \/ ToolApplies(r) \/ ToolFails(r) \/ TransportFails(r)
    \/ OutcomeKnown(r) \/ OutcomeUnknown(r) \/ WriteOutcome(r) \/ RenameOutcome(r)
    \/ QueueDone(r)

Next == \E r \in Runs : Advance(r) \/ Crash(r) \/ Resume(r)

Spec     == Init /\ [][Next]_vars
FairSpec == Spec /\ \A r \in Runs : WF_vars(Advance(r))
-----------------------------------------------------------------------------
(* Properties.                                                             *)

TypeOK ==
    /\ disk \in Journals
    /\ tmp \in SUBSET Journals
    /\ pc \in [Runs -> Locations]
    /\ pos \in [Runs -> Nat \ {0}]
    /\ local \in [Runs -> Journals]
    /\ outcome \in [Runs -> {"applied", "failed"}]
    /\ broken \in [Runs -> BOOLEAN]
    /\ applied \in [Calls -> Nat]
    /\ failedOnce \in SUBSET Ids
    /\ unrecorded \in SUBSET Ids
    /\ resumes \in 0..MaxResumes

\* Some call known to the journal as i has taken effect; two applications of i.
Hit(i) == \E c \in Calls : EffectId[c] = i /\ applied[c] > 0
HitTwice(i) ==
    \/ \E c \in Calls : EffectId[c] = i /\ applied[c] > 1
    \/ \E c, d \in Calls : /\ c # d /\ EffectId[c] = i /\ EffectId[d] = i
                          /\ applied[c] > 0 /\ applied[d] > 0

\* An effect the journal says is applied does not happen again, whatever
\* crashes, failures and resumes came before (RecordIntent: "applied already,
\* any policy -> false, skip").
AppliedIsFinal ==
    [][\A c \in Calls : disk[EffectId[c]].status = "applied" => applied'[c] = applied[c]]_vars

\* A second application of an effect is owed to a retry policy or to a failure
\* journalled at some point: a crash alone never repeats a change.
RepeatNeedsCause ==
    \A i \in Ids : HitTwice(i) => disk[i].policy = "retry" \/ i \in failedOnce

\* No effect without a durable record of it (RecordIntent "persists intent
\* BEFORE the side effect").
IntentIsDurable == \A i \in Ids : Hit(i) => disk[i].status # "absent"

Accounted(i) ==
    \/ Hit(i)
    \/ i \in failedOnce
    \/ /\ disk[i].status = "pending"
       /\ disk[i].policy = "skip" \/ i \in unrecorded

\* A finished queue accounts for every call: it took effect, or its failure was
\* journalled, or its entry still says that the outcome is unknown and it is one to
\* be passed over or one whose lost outcome was reported.  finishEffect: "The trace
\* is emitted instead, so the gap is visible."
QueueAccounted ==
    \A r \in Runs : pc[r] = "done" =>
        \A n \in 1..Len(Queue[r]) : Accounted(EffectId[Queue[r][n]])

\* A run's loop over its queue comes to an end: it never spins on one call.
Settles == \A r \in Runs : []<>(pc[r] \in {"done", "failed", "down"})
=============================================================================
