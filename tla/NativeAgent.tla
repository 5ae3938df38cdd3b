----------------------------- MODULE NativeAgent -----------------------------
(***************************************************************************)
(* The native runner (internal/harness/runtime) as the daemon hosts it:    *)
(* one run id, its phase machine, the stream of the model read event by    *)
(* event, the permission engine, the effect journal around each tool call, *)
(* the hard budget, steering, cancellation and checkpoints.  The daemon    *)
(* may die at any moment, and the id may then be started again: the run    *)
(* begins afresh over the files the earlier life left.                     *)
(*                                                                         *)
(* Step holds the runner's lock from "step" until it returns, so steering  *)
(* gets in between two steps only; cancellation is a context and gets in   *)
(* anywhere.                                                               *)
(***************************************************************************)
EXTENDS Integers, Sequences, FiniteSets

CONSTANTS
    Calls,       \* tool calls by content: what perm.Fingerprint tells apart
    Ids,         \* tool call ids; the request is "perm-"+id, the effect "fx-"+id
    CallId,      \* [Calls -> Ids]
    Kind,        \* [Calls -> tool kinds]: ToolExecutor.KindOf
    Default,     \* Policy.DefaultAction
    Listed,      \* calls whose action is in Policy.AllowActions
    Blocked,     \* calls whose resource matches Policy.DenyPrefixes
    AskKinds,    \* Policy.AskKinds
    Replies,     \* what the model may stream: sequences of Event
    MaxTurns,    \* Runner.MaxTurns
    TokenLimit, ToolLimit, \* the limits of the budget; zero is unlimited
    Allowance,   \* what reserveForCall holds for one call
    MaxReport,   \* bound on the tokens one usage event reports
    Earlier,     \* the journals other runs of the store may have left
    MaxSteers, MaxStarts   \* bounds on steering and on starts of the id

Decisions == {"allow", "ask", "deny"}
Tokens    == 1..MaxReport
Event     == [kind : {"call"}, call : Calls] \cup [kind : {"usage"}, tokens : Tokens]
             \cup [kind : {"completed", "error"}]
Effects   == [status : {"absent", "pending", "applied", "failed"},
              policy : {"retry", "skip", "fail"}]

ASSUME AgentAssumption ==
    /\ CallId \in [Calls -> Ids]
    /\ Default \in Decisions
    /\ Replies \subseteq Seq(Event)
    /\ MaxTurns \in Nat /\ MaxSteers \in Nat /\ MaxStarts \in Nat
    /\ TokenLimit \in Nat /\ ToolLimit \in Nat /\ Allowance \in Nat \ {0}
    /\ MaxReport \in Nat
    /\ Earlier \subseteq [Ids -> Effects]

VARIABLES
    pc,          \* where the goroutine that drives the run is
    phase,       \* State.Phase
    stop,        \* State.StopReason, as far as the phases look at it
    conv,        \* Messages
    toolQ,       \* ToolQ
    obs,         \* Obs: the calls that were observed
    got,         \* Events, as far as it is used: calls, last usage, completion
    stream,      \* what the model has yet to send of it
    pos,         \* the call of toolQ being executed
    pending,     \* State.PendingTools while a request is pending, or <<>>
    perms,       \* State.PendingPerms: the call id of the request, or <<>>
    turns,       \* TurnsDone
    err,         \* RunUntilDone returned an error
    verdict,     \* the status observe recorded, "none" while the run goes on
    cancelled,   \* the context of the run is cancelled
    resolution,  \* Engine.resolutions: of each id the decision and its content
    held, spent, tools, \* the Tracker: reserved tokens, tokens and tool calls used
    settled,     \* settle has been called for the current model call
    journal,     \* side-effects.json: of each effect its status and policy
    checkpoint,  \* the latest checkpoint of the id
    trail, ledger, \* permissions-<id>.jsonl and budget-<id>.json
    ran,         \* times a call was executed in this life (observer)
    answered,    \* the last decision a client gave on a call (observer)
    charged,     \* tokens charged in all lives (observer)
    billed,      \* tokens the provider reported for calls that ended (observer)
    crashed,     \* a life ended without saving its artifacts (observer)
    steers, starts

talk    == <<conv, toolQ, obs, pos, pending, perms, turns, ran>>
reply   == <<got, stream>>
outside == <<cancelled, verdict, answered, crashed, steers, starts>>
budget  == <<held, spent, tools, settled, charged, billed>>
files   == <<journal, checkpoint, trail, ledger>>
vars    == <<pc, phase, stop, err, talk, reply, outside, resolution, budget, files>>

Driving   == {"loop", "step", "stream", "execute", "tool"}
Locations == Driving \cup {"none", "returned", "parked", "lost", "gone", "down"}
Phases    == {"prepare", "compile_context", "request_model", "consume_model_event",
              "plan_tool_calls", "permission_check", "execute_tool",
              "record_observation", "evaluate_stop", "checkpoint",
              "yield", "complete", "failed"}
Said      == [role |-> "said", calls |-> <<>>]
NoReply   == [calls |-> <<>>, usage |-> 0, completed |-> FALSE]
Undecided == [c \in Calls |-> "none"]
NoLedger  == [tokens |-> 0, tools |-> 0]
NoCheckpoint == [phase |-> "none", conv |-> <<>>, toolQ |-> <<>>, obs |-> <<>>,
                 pending |-> <<>>, perms |-> <<>>]

Init ==
    /\ pc = "none" /\ phase = "prepare" /\ stop = "none"
    /\ conv = <<Said>> /\ toolQ = <<>> /\ obs = <<>>
    /\ got = NoReply /\ stream = <<>> /\ pos = 1
    /\ pending = <<>> /\ perms = <<>> /\ turns = 0
    /\ err = FALSE /\ cancelled = FALSE /\ verdict = "none"
    /\ resolution = Undecided /\ answered = Undecided
    /\ held = 0 /\ spent = 0 /\ tools = 0 /\ settled = TRUE
    /\ charged = 0 /\ billed = 0
    /\ journal \in Earlier
    /\ checkpoint = NoCheckpoint
    /\ trail = Undecided /\ ledger = NoLedger
    /\ ran = [c \in Calls |-> 0]
    /\ crashed = FALSE
    /\ steers = 0 /\ starts = 0

\* persist: the snapshot of the runner in phase p, with calls pend pending behind
\* the requests ids.
Persist(p, pend, ids) ==
    checkpoint' = [phase |-> p, conv |-> conv, toolQ |-> toolQ, obs |-> obs,
                   pending |-> pend, perms |-> ids]

\* Step returns nil in phase p, or an error in phase p; the lock is free again.
Advance(p) == phase' = p /\ pc' = "loop" /\ UNCHANGED err
Fail(p)    == phase' = p /\ pc' = "returned" /\ err' = TRUE
Asking     == phase = "yield" /\ pending # <<>>

-----------------------------------------------------------------------------
(* RunUntilDone.                                                           *)

Halted == phase \in {"complete", "failed", "yield"}

LoopDone ==
    /\ pc = "loop" /\ Halted
    /\ pc' = "returned" /\ err' = FALSE
    /\ UNCHANGED <<phase, stop, talk, reply, outside, resolution, budget, files>>

\* Pause.  Its own error is dropped.
LoopCancelled ==
    /\ pc = "loop" /\ ~Halted /\ cancelled
    /\ Fail("yield") /\ stop' = "paused"
    /\ Persist("yield", pending, perms) \/ UNCHANGED checkpoint
    /\ UNCHANGED <<talk, reply, outside, resolution, budget, journal, trail, ledger>>

LoopStep ==
    /\ pc = "loop" /\ ~Halted /\ ~cancelled
    /\ pc' = "step"
    /\ UNCHANGED <<phase, stop, err, talk, reply, outside, resolution, budget, files>>

-----------------------------------------------------------------------------
(* Step.                                                                   *)

\* The pause of a cancelled step.  RunUntilDone swallows the error of a run
\* whose phase is yield.
Yield ==
    /\ phase' = "yield" /\ stop' = "paused"
    /\ pc' = "returned" /\ err' = FALSE
    /\ Persist("yield", pending, perms) \/ UNCHANGED checkpoint
    /\ UNCHANGED <<talk, reply, outside, resolution, journal, trail, ledger>>

StepCancelled ==
    /\ pc = "step" /\ cancelled
    /\ Yield /\ UNCHANGED budget

At(p) == pc = "step" /\ ~cancelled /\ phase = p

\* The phases that only move on.
Onward == [prepare |-> "compile_context", compile_context |-> "request_model",
           consume_model_event |-> "plan_tool_calls", record_observation |-> "evaluate_stop"]

StepOnward ==
    /\ \E p \in DOMAIN Onward : At(p) /\ Advance(Onward[p])
    /\ UNCHANGED <<stop, talk, reply, outside, resolution, budget, files>>

-----------------------------------------------------------------------------
(* request_model: the preflight, the reservation and the stream.           *)

\* Tracker.Exhausted, and the headroom Tracker.Reserve asks for.
Affordable ==
    /\ TokenLimit > 0 => spent + held < TokenLimit /\ spent + held + Allowance <= TokenLimit
    /\ ToolLimit > 0  => tools < ToolLimit

\* The budget refuses the call, the references do not resolve, or the provider
\* does not open a stream.
RequestFails ==
    /\ At("request_model")
    /\ Fail("failed") /\ stop' = "error"
    /\ UNCHANGED <<talk, reply, outside, resolution, budget, files>>

Request ==
    /\ At("request_model") /\ Affordable
    /\ held' = held + Allowance /\ settled' = FALSE
    /\ stream' \in Replies /\ got' = NoReply
    /\ pc' = "stream"
    /\ UNCHANGED <<phase, stop, err, talk, outside, resolution, spent, tools, charged, billed,
                   files>>

\* Mutant: every report of usage settles.
SettleAgain(n) ==
    /\ held' = held - Allowance
    /\ spent' = spent + n /\ charged' = charged + n
    /\ settled' = TRUE /\ UNCHANGED <<tools, billed>>

\* settle: the first one for a call gives the reservation back and charges n.
Settle(n) ==
    IF settled THEN UNCHANGED budget
    ELSE /\ held' = held - Allowance
         /\ spent' = spent + n /\ charged' = charged + n
         /\ settled' = TRUE /\ UNCHANGED <<tools, billed>>

Reading == pc = "stream" /\ stream # <<>>
Next1   == Head(stream)
Read    ==
    /\ stream' = Tail(stream)
    /\ got' = CASE Next1.kind = "call"      -> [got EXCEPT !.calls = Append(@, Next1.call)]
                [] Next1.kind = "usage"     -> [got EXCEPT !.usage = Next1.tokens]
                [] Next1.kind = "completed" -> [got EXCEPT !.completed = TRUE]
                [] Next1.kind = "error"     -> got

\* The context is looked at before each event.
StreamCancelled ==
    /\ Reading /\ cancelled
    /\ Yield /\ Settle(0)

StreamPart ==
    /\ Reading /\ ~cancelled /\ Next1.kind \in {"call", "completed"}
    /\ Read
    /\ UNCHANGED <<pc, phase, stop, err, talk, outside, resolution, budget, files>>

StreamUsage ==
    /\ Reading /\ ~cancelled /\ Next1.kind = "usage"
    /\ Read /\ Settle(Next1.tokens)
    /\ UNCHANGED <<pc, phase, stop, err, talk, outside, resolution, files>>

\* Any error of the model ends the run.
StreamError ==
    /\ Reading /\ ~cancelled /\ Next1.kind = "error"
    /\ Read /\ Settle(0)
    /\ Fail("failed") /\ stop' = "error"
    /\ UNCHANGED <<talk, outside, resolution, files>>

\* The provider reports cumulative usage: the last report is the bill.
StreamEnd ==
    /\ pc = "stream" /\ stream = <<>>
    /\ IF settled THEN UNCHANGED <<held, settled>>
       ELSE held' = held - Allowance /\ settled' = TRUE
    /\ billed' = billed + got.usage
    /\ Advance("consume_model_event")
    /\ UNCHANGED <<stop, talk, reply, outside, resolution, spent, tools, charged, files>>

-----------------------------------------------------------------------------
(* plan_tool_calls and permission_check.                                   *)

PlanToolCalls ==
    /\ At("plan_tool_calls")
    /\ toolQ' = got.calls
    /\ Advance(IF got.calls = <<>> THEN "evaluate_stop" ELSE "permission_check")
    /\ UNCHANGED <<stop, conv, obs, pos, pending, perms, turns, ran, reply, outside, resolution,
                   budget, files>>

\* What the policy says of a call nobody has decided upon.
PolicyVerdict(c) ==
    LET listed == c \in Listed
        base   == IF c \in Blocked THEN "deny" ELSE IF listed THEN "allow" ELSE Default
    IN  IF base = "allow" /\ (Kind[c] \in AskKinds \/ (Kind[c] = "destructive" /\ ~listed))
        THEN "ask" ELSE base

\* Mutant: a decision answers whatever carries its request id (GAP-107).
VerdictById(memory, c) ==
    LET decided == {d \in Calls : CallId[d] = CallId[c] /\ memory[d] # "none"} IN
    IF decided # {} THEN memory[CHOOSE d \in decided : TRUE] ELSE PolicyVerdict(c)

\* A decision remembered on the same content outranks the policy.
Verdict(memory, c) == IF memory[c] # "none" THEN memory[c] ELSE PolicyVerdict(c)

\* Engine.remember: an id has one decision, the latest, on the content it was about.
Remember(memory, c, d) ==
    [x \in Calls |-> IF x = c THEN d ELSE IF CallId[x] = CallId[c] THEN "none" ELSE memory[x]]

\* The memory once the first n calls of the queue were evaluated in turn and all
\* allowed: of each of their ids the last content stays decided.
Carries(n, c) == CallId[toolQ[n]] = CallId[c]
Allowed(n) ==
    [c \in Calls |->
        IF \E m \in 1..n : toolQ[m] = c /\ \A k \in (m + 1)..n : ~Carries(k, c) THEN "allow"
        ELSE IF \E m \in 1..n : Carries(m, c) THEN "none"
        ELSE resolution[c]]

\* The queue is evaluated in order up to the first call that is not allowed.
Judged(n)  == Verdict(Allowed(n - 1), toolQ[n])
Barred     == {n \in 1..Len(toolQ) : Judged(n) # "allow"}
StopAt     == IF Barred = {} THEN 0 ELSE CHOOSE n \in Barred : \A m \in Barred : n <= m
Remembered == IF StopAt = 0 THEN Allowed(Len(toolQ))
              ELSE Remember(Allowed(StopAt - 1), toolQ[StopAt], Judged(StopAt))

PermissionAllowed ==
    /\ At("permission_check") /\ StopAt = 0
    /\ resolution' = Remembered
    /\ Advance("execute_tool")
    /\ UNCHANGED <<stop, talk, reply, outside, budget, files>>

PermissionDenied ==
    /\ At("permission_check") /\ StopAt # 0 /\ Judged(StopAt) = "deny"
    /\ resolution' = Remembered
    /\ Fail("failed") /\ stop' = "error"
    /\ UNCHANGED <<talk, reply, outside, budget, files>>

\* Mutant: the run keeps its phase and is evaluated over and over.
PermissionAskAgain ==
    /\ At("permission_check") /\ StopAt # 0 /\ Judged(StopAt) = "ask"
    /\ resolution' = Remembered
    /\ pending' = toolQ /\ perms' = <<CallId[toolQ[StopAt]]>>
    /\ Advance("permission_check") /\ UNCHANGED <<stop, checkpoint>>
    /\ UNCHANGED <<conv, toolQ, obs, pos, turns, ran, reply, outside, budget, journal, trail,
                   ledger>>

\* Mutant: the checkpoint is written before the pending calls are set.
PermissionAskEarly ==
    /\ At("permission_check") /\ StopAt # 0 /\ Judged(StopAt) = "ask"
    /\ resolution' = Remembered
    /\ pending' = toolQ /\ perms' = <<CallId[toolQ[StopAt]]>> /\ stop' = "asking"
    /\ Advance("yield")
    /\ Persist("yield", pending, perms)
    /\ UNCHANGED <<conv, toolQ, obs, pos, turns, ran, reply, outside, budget, journal, trail,
                   ledger>>

\* The request and everything the run needs to go on are on disk, or it fails.
PermissionAsk ==
    /\ At("permission_check") /\ StopAt # 0 /\ Judged(StopAt) = "ask"
    /\ resolution' = Remembered
    /\ pending' = toolQ /\ perms' = <<CallId[toolQ[StopAt]]>>
    /\ \/ Advance("yield") /\ stop' = "asking" /\ Persist("yield", toolQ, perms')
       \/ Fail("failed") /\ stop' = "error" /\ UNCHANGED checkpoint
    /\ UNCHANGED <<conv, toolQ, obs, pos, turns, ran, reply, outside, budget, journal, trail,
                   ledger>>

-----------------------------------------------------------------------------
(* execute_tool: the queue in order, each call inside the effect journal.  *)

StartQueue ==
    /\ At("execute_tool")
    /\ pc' = "execute" /\ pos' = 1
    /\ UNCHANGED <<phase, stop, err, conv, toolQ, obs, pending, perms, turns, ran, reply, outside,
                   resolution, budget, files>>

Executing == pc = "execute" /\ pos <= Len(toolQ)
Cur       == toolQ[pos]
Effect    == CallId[Cur]
\* recoveryPolicyFor: what a replay of the call is to do when its outcome is unknown.
Replay(c) ==
    IF Kind[c] \in {"read-only", "idempotent"} THEN "retry"
    ELSE IF Kind[c] \in {"destructive", "side-effecting"} THEN "skip" ELSE "fail"

\* The intent is on disk before the tool runs; a failed effect, or a pending one
\* whose entry says retry, is gone ahead with.  The entry keeps its first policy.
Intend ==
    /\ Executing
    /\ \/ journal[Effect].status \in {"absent", "failed"}
       \/ journal[Effect] = [status |-> "pending", policy |-> "retry"]
    /\ journal' = IF journal[Effect].status # "absent" THEN journal
                  ELSE [journal EXCEPT ![Effect] = [status |-> "pending", policy |-> Replay(Cur)]]
    /\ pc' = "tool"
    /\ UNCHANGED <<phase, stop, err, talk, reply, outside, resolution, budget, checkpoint,
                   trail, ledger>>

Skip ==
    /\ Executing
    /\ \/ journal[Effect].status = "applied"
       \/ journal[Effect] = [status |-> "pending", policy |-> "skip"]
    /\ pos' = pos + 1
    /\ UNCHANGED <<pc, phase, stop, err, conv, toolQ, obs, pending, perms, turns, ran, reply,
                   outside, resolution, budget, files>>

\* The journal refuses, or cannot be written.
Refuse ==
    /\ Executing
    /\ Fail("failed") /\ stop' = "error"
    /\ UNCHANGED <<talk, reply, outside, resolution, budget, files>>

Outcome(o) == \/ journal' = [journal EXCEPT ![Effect].status = o]
              \/ UNCHANGED journal      \* the trace of a journal that cannot be written

\* ConsumeTools has room for one more call.
Countable == ToolLimit > 0 => tools < ToolLimit

\* The call returns, with exit code zero or not.
ToolReturns ==
    /\ pc = "tool" /\ Countable
    /\ tools' = tools + 1
    /\ \E o \in {"applied", "failed"} : Outcome(o)
    /\ obs' = Append(obs, Cur)
    /\ ran' = [ran EXCEPT ![Cur] = @ + 1]
    /\ pc' = "execute" /\ pos' = pos + 1
    /\ UNCHANGED <<phase, stop, err, conv, toolQ, pending, perms, turns, reply, outside, resolution,
                   held, spent, settled, charged, billed, checkpoint, trail, ledger>>

\* Execute returns an error, or the budget of tool calls is used up: the step
\* returns it without moving the phase.
ToolBreaks ==
    /\ pc = "tool"
    /\ tools' = IF Countable THEN tools + 1 ELSE tools
    /\ Outcome("failed")
    /\ Fail(phase)
    /\ UNCHANGED <<stop, talk, reply, outside, resolution, held, spent, settled, charged,
                   billed, checkpoint, trail, ledger>>

QueueDone ==
    /\ pc = "execute" /\ pos > Len(toolQ)
    /\ Advance("record_observation")
    /\ UNCHANGED <<stop, talk, reply, outside, resolution, budget, files>>

-----------------------------------------------------------------------------
(* evaluate_stop and checkpoint.                                           *)

\* The run has used its turns, or the model had nothing more to do.
EvaluateStop ==
    /\ At("evaluate_stop")
    /\ turns' = turns + 1
    /\ turns' >= MaxTurns \/ toolQ = <<>>
    /\ stop' = IF turns' >= MaxTurns THEN "max turns"
               ELSE IF got.completed THEN "completed" ELSE "nothing to do"
    /\ Advance("checkpoint")
    /\ UNCHANGED <<conv, toolQ, obs, pos, pending, perms, ran, reply, outside, resolution, budget,
                   files>>

\* What the assistant asked for, then what each call returned.
Result(c)  == [role |-> "result", calls |-> <<c>>]
RoundTrips == <<[role |-> "request", calls |-> toolQ]>> \o [n \in 1..Len(obs) |-> Result(obs[n])]

\* Mutant: the observations are kept for the next turn.
EvaluateMoreKept ==
    /\ At("evaluate_stop")
    /\ turns' = turns + 1
    /\ turns' < MaxTurns /\ toolQ # <<>>
    /\ conv' = conv \o RoundTrips
    /\ Advance("request_model")
    /\ UNCHANGED <<stop, toolQ, obs, pos, pending, perms, ran, reply, outside, resolution, budget,
                   files>>

\* The round trip goes back to the model.
EvaluateMore ==
    /\ At("evaluate_stop")
    /\ turns' = turns + 1
    /\ turns' < MaxTurns /\ toolQ # <<>>
    /\ conv' = conv \o RoundTrips /\ obs' = <<>>
    /\ Advance("request_model")
    /\ UNCHANGED <<stop, toolQ, pos, pending, perms, ran, reply, outside, resolution, budget, files>>

Checkpoint ==
    /\ At("checkpoint")
    /\ \/ /\ Advance(IF stop = "completed" \/ turns >= MaxTurns THEN "complete" ELSE "yield")
          /\ Persist(phase, pending, perms)
       \/ Fail(phase) /\ UNCHANGED checkpoint
    /\ UNCHANGED <<stop, talk, reply, outside, resolution, budget, journal, trail, ledger>>

-----------------------------------------------------------------------------
(* observe: the verdict and the artifacts of the run.                      *)

RunVerdict ==
    IF err THEN IF cancelled THEN "cancelled" ELSE "failed"
    ELSE IF phase # "yield" THEN "complete"
    ELSE IF pending # <<>> THEN "awaiting_approval" ELSE "yielded"

\* The budget and the decisions are saved at every stop; a run that asks stays
\* in the map, any other leaves it.
Observe ==
    /\ pc = "returned"
    /\ trail' = resolution /\ ledger' = [tokens |-> spent, tools |-> tools]
    /\ verdict' = RunVerdict
    /\ pc' = IF RunVerdict = "awaiting_approval" THEN "parked" ELSE "gone"
    /\ UNCHANGED <<phase, stop, err, talk, reply, cancelled, answered, crashed, steers, starts,
                   resolution, budget, journal, checkpoint>>

-----------------------------------------------------------------------------
(* Clients: steering, cancelling and answering.                            *)

Unlocked == pc \in {"loop", "step", "returned", "parked", "lost"}

Inject ==
    /\ Unlocked /\ phase \notin {"complete", "failed"}
    /\ steers < MaxSteers /\ steers' = steers + 1
    /\ conv' = Append(conv, Said)
    /\ UNCHANGED <<pc, phase, stop, err, toolQ, obs, pos, pending, perms, turns, ran, reply,
                   cancelled, verdict, answered, crashed, starts, resolution, budget, files>>

Cancel ==
    /\ pc \notin {"none", "gone", "down"} /\ ~cancelled
    /\ cancelled' = TRUE
    /\ UNCHANGED <<pc, phase, stop, err, talk, reply, verdict, answered, crashed, steers,
                   starts, resolution, budget, files>>

\* pendingFingerprint: the first pending call that carries the request's id, not
\* always the content the run stopped on.
Asked ==
    LET carrying == {n \in 1..Len(pending) : perms = <<CallId[pending[n]]>>} IN
    pending[CHOOSE n \in carrying : \A m \in carrying : n <= m]

\* Mutant: the answer is not written to disk.
AnswerUnsaved(d) ==
    /\ pc = "parked"
    /\ resolution' = Remember(resolution, Asked, d)
    /\ answered' = [answered EXCEPT ![Asked] = d]
    /\ pending' = <<>> /\ perms' = <<>> /\ stop' = "none" /\ phase' = "permission_check"
    /\ pc' = "loop" /\ verdict' = "none"
    /\ UNCHANGED <<err, conv, toolQ, obs, pos, turns, ran, reply, cancelled, crashed,
                   steers, starts, budget, files>>

\* ResolvePermission with the fingerprint of the call it identifies; any other is
\* refused.  A decision that cannot be written leaves a run that nobody drives.
Answer(d) ==
    /\ pc = "parked"
    /\ resolution' = Remember(resolution, Asked, d)
    /\ answered' = [answered EXCEPT ![Asked] = d]
    /\ pending' = <<>> /\ perms' = <<>> /\ stop' = "none" /\ phase' = "permission_check"
    /\ \/ pc' = "loop" /\ verdict' = "none" /\ Persist("permission_check", <<>>, <<>>)
       \/ pc' = "lost" /\ UNCHANGED <<verdict, checkpoint>>
    /\ UNCHANGED <<err, conv, toolQ, obs, pos, turns, ran, reply, cancelled, crashed,
                   steers, starts, budget, journal, trail, ledger>>

-----------------------------------------------------------------------------
(* The daemon dies; the id is started again.                               *)

\* A runner as NewRunner and SeedMessages make it, with no call in flight.
Fresh ==
    /\ phase' = "prepare" /\ stop' = "none"
    /\ conv' = <<Said>> /\ toolQ' = <<>> /\ obs' = <<>>
    /\ got' = NoReply /\ stream' = <<>> /\ pos' = 1
    /\ pending' = <<>> /\ perms' = <<>> /\ turns' = 0
    /\ ran' = [c \in Calls |-> 0]
    /\ err' = FALSE /\ cancelled' = FALSE /\ verdict' = "none"
    /\ held' = 0 /\ settled' = TRUE

\* What was in memory is gone.
Crash ==
    /\ pc \notin {"none", "gone", "down"}
    /\ Fresh /\ pc' = "down"
    /\ resolution' = Undecided /\ spent' = 0 /\ tools' = 0
    /\ crashed' = (crashed \/ pc # "parked")
    /\ UNCHANGED <<answered, steers, starts, charged, billed, files>>

\* Mutant: the envelope on disk is not loaded (GAP-001).
StartUnloaded ==
    /\ pc \in {"none", "gone", "down"}
    /\ starts < MaxStarts /\ starts' = starts + 1
    /\ Fresh /\ pc' = "loop"
    /\ resolution' = trail
    /\ spent' = 0 /\ tools' = 0
    /\ UNCHANGED <<answered, crashed, steers, charged, billed, files>>

\* execute: a fresh runner over the trail and the envelope the id left.
Start ==
    /\ pc \in {"none", "gone", "down"}
    /\ starts < MaxStarts /\ starts' = starts + 1
    /\ Fresh /\ pc' = "loop"
    /\ resolution' = trail
    /\ spent' = ledger.tokens /\ tools' = ledger.tools
    /\ UNCHANGED <<answered, crashed, steers, charged, billed, files>>

-----------------------------------------------------------------------------
Drive ==
    \/ LoopDone \/ LoopCancelled \/ LoopStep \/ StepCancelled \/ StepOnward
    \/ RequestFails \/ Request
    \/ StreamCancelled \/ StreamPart \/ StreamUsage \/ StreamError \/ StreamEnd
    \/ PlanToolCalls \/ PermissionAllowed \/ PermissionDenied \/ PermissionAsk
    \/ StartQueue \/ Intend \/ Skip \/ Refuse \/ QueueDone
    \/ EvaluateStop \/ EvaluateMore \/ Checkpoint \/ Observe
Tool   == ToolReturns \/ ToolBreaks
Client == Inject \/ Cancel \/ Answer("allow") \/ Answer("deny")

Next == Drive \/ Tool \/ Client \/ Crash \/ Start

Spec == Init /\ [][Next]_vars

\* The goroutine is scheduled, and the provider's client gives a model call up
\* after its timeout.  Nothing makes a tool return.
FairSpec == Spec /\ WF_vars(Drive)
-----------------------------------------------------------------------------
(* Properties.                                                             *)

Roles    == {"said", "request", "result"}
Message  == [role : Roles, calls : Seq(Calls)]
Snapshot == [phase : Phases \cup {"none"}, conv : Seq(Message), toolQ : Seq(Calls),
             obs : Seq(Calls), pending : Seq(Calls), perms : Seq(Ids)]
Stops    == {"none", "paused", "error", "asking", "max turns", "completed", "nothing to do"}
Verdicts == {"none", "complete", "failed", "cancelled", "yielded", "awaiting_approval"}
Memory   == [Calls -> Decisions \cup {"none"}]

PlaceType   == pc \in Locations /\ phase \in Phases /\ stop \in Stops /\ err \in BOOLEAN
TalkType    == /\ conv \in Seq(Message) /\ toolQ \in Seq(Calls) /\ obs \in Seq(Calls)
               /\ pos \in Nat \ {0} /\ pending \in Seq(Calls) /\ perms \in Seq(Ids) /\ turns \in Nat
               /\ ran \in [Calls -> Nat]
ReplyType   == /\ got \in [calls : Seq(Calls), usage : Nat, completed : BOOLEAN]
               /\ stream \in Seq(Event)
OutsideType == /\ cancelled \in BOOLEAN /\ verdict \in Verdicts /\ answered \in Memory
               /\ crashed \in BOOLEAN /\ steers \in 0..MaxSteers /\ starts \in 0..MaxStarts
BudgetType  == /\ held \in Nat /\ spent \in Nat /\ tools \in Nat /\ settled \in BOOLEAN
               /\ charged \in Nat /\ billed \in Nat
FilesType   == /\ journal \in [Ids -> Effects] /\ checkpoint \in Snapshot /\ trail \in Memory
               /\ ledger \in [tokens : Nat, tools : Nat]

\* Type correctness, by the groups of variables.
TypeOK ==
    /\ PlaceType /\ TalkType /\ ReplyType /\ OutsideType /\ BudgetType /\ FilesType
    /\ resolution \in Memory

\* What the policy asks about was allowed as it is by the last answer a person gave
\* on it; of anything else the policy decides.
Granted(c) == PolicyVerdict(c) = "allow" \/ (PolicyVerdict(c) = "ask" /\ answered[c] = "allow")

\* Nothing of a turn runs before everything the turn wants was granted, and a
\* grant is for one content: it is inherited neither by another call under the
\* same id, of the same queue or of another, nor by another life of the run
\* (perm.go: "An approval is for one call").
RanWasGranted ==
    [][\A c \in Calls : ran'[c] > ran[c] => \A n \in 1..Len(toolQ) : Granted(toolQ[n])]_vars

\* The message n of the conversation q reports, with the results before it, calls
\* of the last request, in the order of the request.
Reports(q, n) ==
    \E m \in 1..(n - 1) :
        /\ q[m].role = "request"
        /\ \E asked \in [(m + 1)..n -> 1..Len(q[m].calls)] :
              /\ \A k \in (m + 1)..n : q[k] = Result(q[m].calls[asked[k]])
              /\ \A k, l \in (m + 1)..n : k < l => asked[k] < asked[l]

\* The conversation the model is sent reports every execution of a call once,
\* right behind the request that asked for it and in the order it was asked for,
\* whatever pauses, answers and steering came in between (runtime.go: "Feed the
\* round trip back").
Times(q, x) == Cardinality({n \in 1..Len(q) : q[n] = x})
RoundTrip ==
    /\ \A c \in Calls : ran[c] = Times(conv, Result(c)) + Times(obs, c)
    /\ \A n \in 1..Len(conv) : conv[n].role = "result" => Reports(conv, n)

\* A run that waits for a decision can be rebuilt from the disk as it stands: the
\* request, a pending call that carries it and that the trail says was asked about,
\* and the conversation up to it.
AskIsOnDisk ==
    pc = "parked" =>
        /\ Asking
        /\ \E n \in 1..Len(pending) :
              perms = <<CallId[pending[n]]>> /\ trail[pending[n]] = "ask"
        /\ checkpoint.phase = "yield"
        /\ checkpoint.pending = pending /\ checkpoint.perms = perms
        /\ checkpoint.toolQ = toolQ /\ checkpoint.obs = obs
        /\ checkpoint.conv = SubSeq(conv, 1, Len(checkpoint.conv))

\* A reservation lasts as long as its call, and over all the lives of an id the
\* ceiling is passed by what the last call reports beyond its reservation, as
\* long as no life ended without saving its envelope (GAP-001, GAP-098).
CeilingHolds ==
    /\ held # 0 => pc = "stream"
    /\ TokenLimit > 0 /\ ~crashed =>
          charged = 0 \/ charged + Allowance <= TokenLimit + MaxReport

\* The run comes to a stop by itself, unless a tool never returns: turns end it,
\* a request for a decision and a cancellation do.
DriveEnds == []<>(pc \notin Driving \/ pc = "tool")

\* The runner knows how RunUntilDone returns: only observe is left.
Concluded == pc \in {"loop", "returned"} /\ phase \in {"complete", "yield"}

Stage == CASE Concluded -> IF pending # <<>> THEN "ask" ELSE "stopped"
           [] ~Concluded /\ pc \in Driving \cup {"returned"} -> "going"
           [] pc \in {"none", "down"} -> "none"
           [] pc = "parked" -> "ask"
           [] pc = "lost"   -> "lost"
           [] pc = "gone"   -> "stopped"
Outlook == IF Concluded THEN RunVerdict ELSE verdict
Saved == IF checkpoint.phase = "none" THEN "none"
         ELSE IF checkpoint.pending # <<>> THEN "ask" ELSE "safe"

\* What the daemon relies on (see RunnerContract).
Contract == INSTANCE RunnerContract WITH
    stage <- Stage, verdict <- Outlook, saved <- Saved
ContractSpec == Contract!Spec

\* runtime.go:831 "the reservation becomes the real cost, so the next turn's
\* preflight sees the truth": what the provider reported is what was charged.
UsageIsCharged == charged >= billed
=============================================================================
