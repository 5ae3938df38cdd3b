------------------------- MODULE NativeAgent_proofs -------------------------
(***************************************************************************)
(* Proofs about the native runner.  Where the goroutine is says which      *)
(* phases are possible and what is reserved; a request that is pending is  *)
(* about a call of the queue, and no other content of its id is decided; a *)
(* decision that is remembered, in memory or in the trail, is the policy's *)
(* own or the last answer a person gave on the same content; what was      *)
(* charged is what the envelope says, unless a life ended without saving   *)
(* it.                                                                     *)
(***************************************************************************)
EXTENDS NativeAgent, TLAPS, SequenceTheorems, FiniteSetTheorems, WellFoundedInduction

\* Where the goroutine is, and what the phase and the pending calls are there.
Placed ==
    /\ pc \in {"execute", "tool"} => phase = "execute_tool"
    /\ pc = "tool" => pos <= Len(toolQ)
    /\ pc = "stream" => phase = "request_model"
    /\ pc = "step" => ~Halted
    /\ pc = "loop" => phase # "failed"
    /\ pc = "returned" /\ ~err => phase \in {"complete", "yield"}
    /\ pc = "parked" => phase = "yield" /\ pending # <<>> /\ ~err
    /\ pending # <<>> =>
          \/ phase = "yield" /\ pc \in {"loop", "parked"}
          \/ phase = "yield" /\ pc = "returned" /\ ~err
          \/ phase = "failed" /\ pc \in {"returned", "gone"} /\ err

\* A reservation is held while the stream is read and until it is settled.
Reserved == held = IF pc = "stream" /\ ~settled THEN Allowance ELSE 0

\* While no life ended without saving it, the envelope is what was charged, and a
\* call that is still to be settled was affordable.
Accounted == ~crashed =>
    /\ pc \in {"none", "gone", "down", "parked"} => ledger.tokens = charged
    /\ pc \notin {"none", "gone", "down"} => spent = charged
    /\ TokenLimit > 0 =>
          /\ pc = "stream" /\ ~settled => charged + Allowance <= TokenLimit
          /\ charged = 0 \/ charged + Allowance <= TokenLimit + MaxReport

\* What a decision that is remembered stands for.
Founded(memory) == \A c \in Calls :
    /\ memory[c] = "allow" => Granted(c)
    /\ memory[c] = "ask" => PolicyVerdict(c) = "ask"

\* What is remembered is founded, and the tools work on what was granted.
Grants ==
    /\ Founded(resolution) /\ Founded(trail)
    /\ pc = "parked" => trail = resolution
    /\ phase = "execute_tool" => \A n \in 1..Len(toolQ) : Granted(toolQ[n])

\* A pending request is about a call of the queue, the only content of its id with
\* a decision; it is on disk with all it needs, and what an answer is taken to be
\* about is nothing the policy denies.
Pended(n) ==
    /\ perms = <<CallId[toolQ[n]]>> /\ resolution[toolQ[n]] = "ask"
    /\ \A c \in Calls : CallId[c] = CallId[toolQ[n]] /\ c # toolQ[n] => resolution[c] = "none"
Waits == Asking =>
    /\ pending = toolQ
    /\ \E n \in 1..Len(toolQ) : Pended(n)
    /\ PolicyVerdict(Asked) # "deny"
    /\ checkpoint.phase = "yield"
    /\ checkpoint.pending = pending /\ checkpoint.perms = perms
    /\ checkpoint.toolQ = toolQ /\ checkpoint.obs = obs
    /\ Len(checkpoint.conv) <= Len(conv)
    /\ checkpoint.conv = SubSeq(conv, 1, Len(checkpoint.conv))

\* There is an error only when RunUntilDone returned one, and a run that paused
\* returns one only when it was cancelled.
Erred ==
    /\ pc \in Driving => ~err
    /\ pc = "returned" /\ err => phase # "complete" /\ (phase = "yield" => cancelled)

IInv == TypeOK /\ Placed /\ Reserved /\ Accounted /\ Grants /\ Waits /\ Erred

\* The steps of Next, for the case distinctions below.
LEMMA Cases ==
    ASSUME [Next]_vars,
           NEW P,
           LoopDone \/ LoopCancelled \/ LoopStep => P,
           StepCancelled => P, StepOnward => P, RequestFails \/ Request => P,
           StreamCancelled => P, StreamPart => P, StreamUsage => P, StreamError => P,
           StreamEnd => P, PlanToolCalls => P,
           PermissionAllowed => P, PermissionDenied => P, PermissionAsk => P,
           StartQueue \/ Intend \/ Skip \/ Refuse \/ QueueDone => P,
           EvaluateStop \/ EvaluateMore => P, Checkpoint => P, Observe => P,
           ToolReturns => P, ToolBreaks => P, Inject => P, Cancel => P,
           \A d \in {"allow", "deny"} : Answer(d) => P,
           Crash => P, Start => P, UNCHANGED vars => P
    PROVE  P
BY DEF Next, Drive, Tool, Client

\* An event of the stream.
LEMMA Reported ==
    ASSUME TypeOK, Reading
    PROVE  /\ Next1 \in Event /\ Tail(stream) \in Seq(Event)
           /\ Next1.kind = "call" => Next1.call \in Calls
           /\ Next1.kind = "usage" => Next1.tokens \in Nat /\ Next1.tokens <= MaxReport
<1>1. stream \in Seq(Event) /\ stream # <<>>  BY DEF TypeOK, ReplyType, Reading
<1>2. Next1 \in Event /\ Tail(stream) \in Seq(Event)  BY <1>1 DEF Next1
<1>3. MaxReport \in Nat  BY AgentAssumption
<1> HIDE DEF Next1
<1> QED  BY <1>2, <1>3 DEF Event, Tokens

LEMMA ReadTypes ==
    ASSUME TypeOK, Reading, Read
    PROVE  /\ got' \in [calls : Seq(Calls), usage : Nat, completed : BOOLEAN]
           /\ stream' \in Seq(Event)
<1>1. got \in [calls : Seq(Calls), usage : Nat, completed : BOOLEAN]  BY DEF TypeOK, ReplyType
<1>2. Next1.kind \in {"call", "usage", "completed", "error"}  BY Reported DEF Event
<1>3. CASE Next1.kind = "call"
  <2> DEFINE c == Next1.call
  <2>1. c \in Calls  BY <1>3, Reported
  <2>2. got' = [got EXCEPT !.calls = Append(@, c)] /\ stream' = Tail(stream)
    BY <1>3 DEF Read
  <2> HIDE DEF c
  <2>3. Append(got.calls, c) \in Seq(Calls)  BY <1>1, <2>1
  <2>4. got' = [got EXCEPT !.calls = Append(got.calls, c)]  BY <1>1, <2>2
  <2> DEFINE q == Append(got.calls, c)
  <2> HIDE DEF q
  <2>5. q \in Seq(Calls) /\ got' = [got EXCEPT !.calls = q]  BY <2>3, <2>4 DEF q
  <2> QED  BY <1>1, <2>2, <2>5, Reported
<1>4. CASE Next1.kind = "usage"  BY <1>1, <1>4, Reported DEF Read
<1>5. CASE Next1.kind = "completed"  BY <1>1, <1>5, Reported DEF Read
<1>6. CASE Next1.kind = "error"  BY <1>1, <1>6, Reported DEF Read
<1> QED  BY <1>2, <1>3, <1>4, <1>5, <1>6

LEMMA SettleTypes ==
    ASSUME TypeOK, Reserved, pc = "stream", NEW n \in Nat, Settle(n)
    PROVE  /\ held' = 0 /\ spent' \in Nat /\ charged' \in Nat /\ settled' = TRUE
           /\ tools' = tools /\ billed' = billed
<1>1. Allowance \in Nat /\ spent \in Nat /\ charged \in Nat  BY AgentAssumption DEF TypeOK, BudgetType
<1>2. CASE settled
  BY <1>1, <1>2 DEF Reserved, Settle, budget
<1>3. CASE ~settled
  <2>1. held = Allowance  BY <1>3 DEF Reserved
  <2>2. /\ held' = held - Allowance /\ spent' = spent + n /\ charged' = charged + n
        /\ settled' = TRUE /\ tools' = tools /\ billed' = billed
    BY <1>3 DEF Settle
  <2> QED  BY <1>1, <2>1, <2>2
<1> QED  BY <1>2, <1>3

\* What is written to disk has its type.
LEMMA PersistTypes ==
    ASSUME TypeOK, NEW p \in Phases, NEW q \in Seq(Calls), NEW i \in Seq(Ids),
           Persist(p, q, i) \/ UNCHANGED checkpoint
    PROVE  checkpoint' \in Snapshot
<1>1. CASE Persist(p, q, i)
  <2>1. conv \in Seq(Message) /\ toolQ \in Seq(Calls) /\ obs \in Seq(Calls)  BY DEF TypeOK, TalkType
  <2>2. checkpoint' = [phase |-> p, conv |-> conv, toolQ |-> toolQ, obs |-> obs,
                       pending |-> q, perms |-> i]
    BY <1>1 DEF Persist
  <2> QED  BY <2>1, <2>2 DEF Snapshot
<1>2. CASE UNCHANGED checkpoint  BY <1>2 DEF TypeOK, FilesType
<1> QED  BY <1>1, <1>2

LEMMA SaidIsMessage == Said \in Message
BY DEF Said, Message, Roles

\* The results of the turn, one for each observation.
Answers == [n \in 1..Len(obs) |-> Result(obs[n])]

LEMMA RoundTripTypes ==
    ASSUME TypeOK
    PROVE  /\ <<[role |-> "request", calls |-> toolQ]>> \in Seq(Message)
           /\ Answers \in Seq(Message) /\ Len(Answers) = Len(obs)
           /\ RoundTrips = <<[role |-> "request", calls |-> toolQ]>> \o Answers
           /\ RoundTrips \in Seq(Message)
<1>0. toolQ \in Seq(Calls)  BY DEF TypeOK, TalkType
<1>1. <<[role |-> "request", calls |-> toolQ]>> \in Seq(Message)  BY <1>0 DEF Message, Roles
<1>2. obs \in Seq(Calls) /\ Len(obs) \in Nat  BY DEF TypeOK, TalkType
<1>3. \A n \in 1..Len(obs) : obs[n] \in Calls  BY <1>2
<1>4. \A n \in 1..Len(obs) : <<obs[n]>> \in Seq(Calls)  BY <1>3
<1>5. \A n \in 1..Len(obs) : Result(obs[n]) \in Message  BY <1>4 DEF Message, Roles, Result
<1>6. Answers \in [1..Len(obs) -> Message]  BY <1>5 DEF Answers
<1>7. Answers \in Seq(Message)  BY <1>2, <1>6, SeqDef
<1>8. Len(Answers) = Len(obs)  BY <1>2, <1>6, <1>7, LenProperties
<1>9. RoundTrips = <<[role |-> "request", calls |-> toolQ]>> \o Answers
  BY DEF RoundTrips, Answers
<1> QED  BY <1>1, <1>7, <1>8, <1>9, ConcatProperties

LEMMA FreshTypes ==
    ASSUME Fresh
    PROVE  /\ TalkType' /\ ReplyType'
           /\ phase' = "prepare" /\ stop' = "none" /\ err' = FALSE /\ cancelled' = FALSE
           /\ verdict' = "none" /\ held' = 0 /\ settled' = TRUE
<1>1. conv' \in Seq(Message)  BY SaidIsMessage DEF Fresh
<1>2. toolQ' \in Seq(Calls) /\ obs' \in Seq(Calls)
      /\ pending' \in Seq(Calls) /\ perms' \in Seq(Ids)
  BY DEF Fresh
<1>3. pos' \in Nat \ {0} /\ turns' \in Nat /\ ran' \in [Calls -> Nat]  BY DEF Fresh
<1>4. TalkType'  BY <1>1, <1>2, <1>3 DEF TalkType
<1>5. ReplyType'  BY DEF Fresh, ReplyType, NoReply
<1> QED  BY <1>4, <1>5 DEF Fresh

LEMMA TypeInit == Init => TypeOK
<1> SUFFICES ASSUME Init PROVE TypeOK  OBVIOUS
<1> USE DEF Init
<1>1. PlaceType  BY DEF PlaceType, Locations, Phases, Stops
<1>2. TalkType
  <2>1. conv \in Seq(Message)  BY SaidIsMessage
  <2> QED  BY <2>1 DEF TalkType
<1>3. ReplyType  BY DEF ReplyType, NoReply
<1>4. OutsideType
  <2>1. answered \in Memory  BY DEF Memory, Undecided
  <2>2. steers \in 0..MaxSteers /\ starts \in 0..MaxStarts  BY AgentAssumption
  <2>3. cancelled \in BOOLEAN /\ crashed \in BOOLEAN /\ verdict \in Verdicts  BY DEF Verdicts
  <2> QED  BY <2>1, <2>2, <2>3 DEF OutsideType
<1>5. BudgetType  BY DEF BudgetType
<1>6. FilesType
  <2>1. checkpoint \in Snapshot /\ ledger \in [tokens : Nat, tools : Nat] /\ trail \in Memory
    BY DEF NoCheckpoint, NoLedger, Snapshot, Memory, Undecided
  <2> QED  BY <2>1, AgentAssumption DEF FilesType
<1>7. resolution \in Memory  BY DEF Memory, Undecided
<1> QED  BY <1>1, <1>2, <1>3, <1>4, <1>5, <1>6, <1>7 DEF TypeOK

\* A group of variables that does not change keeps its types.
LEMMA TypeFrame ==
    ASSUME TypeOK
    PROVE  /\ UNCHANGED <<pc, phase, stop, err>> => PlaceType'
           /\ UNCHANGED talk => TalkType'
           /\ UNCHANGED reply => ReplyType'
           /\ UNCHANGED outside => OutsideType'
           /\ UNCHANGED budget => BudgetType'
           /\ UNCHANGED files => FilesType'
           /\ UNCHANGED resolution => resolution' \in Memory
<1> USE DEF TypeOK
<1>1. UNCHANGED <<pc, phase, stop, err>> => PlaceType'  BY DEF PlaceType
<1>2. UNCHANGED talk => TalkType'  BY DEF talk, TalkType
<1>3. UNCHANGED reply => ReplyType'  BY DEF reply, ReplyType
<1>4. UNCHANGED outside => OutsideType'  BY DEF outside, OutsideType
<1>5. UNCHANGED budget => BudgetType'  BY DEF budget, BudgetType
<1>6. UNCHANGED files => FilesType'  BY DEF files, FilesType
<1> QED  BY <1>1, <1>2, <1>3, <1>4, <1>5, <1>6

\* A set of positions that is not empty has a first.
LEMMA First ==
    ASSUME NEW S, S \subseteq Nat, S # {}
    PROVE  \E n \in S : \A m \in S : n <= m
<1> DEFINE R == {ss \in Nat \X Nat : ss[1] < ss[2]}
<1>1. IsWellFoundedOn(R, Nat)  BY NatLessThanWellFounded DEF OpToRel
<1> HIDE DEF R
<1>2. PICK n \in S : \A m \in S : ~(<<m, n>> \in R)  BY <1>1, WFMin
<1>3. ASSUME NEW m \in S PROVE n <= m
  <2>1. m \in Nat /\ n \in Nat  OBVIOUS
  <2>2. ~(<<m, n>> \in R)  BY <1>2
  <2>3. ~(m < n)  BY <2>1, <2>2 DEF R
  <2> QED  BY <2>1, <2>3
<1> QED  BY <1>3

\* The first call that bars the queue.
LEMMA FirstBarred ==
    ASSUME TypeOK
    PROVE  /\ StopAt = 0 <=> Barred = {}
           /\ StopAt # 0 => StopAt \in Barred /\ \A m \in Barred : StopAt <= m
           /\ Barred \subseteq 1..Len(toolQ) /\ Len(toolQ) \in Nat
           /\ \A n \in 1..Len(toolQ) : toolQ[n] \in Calls
<1>1. toolQ \in Seq(Calls)  BY DEF TypeOK, TalkType
<1>2. Len(toolQ) \in Nat /\ \A n \in 1..Len(toolQ) : toolQ[n] \in Calls  BY <1>1
<1>3. Barred \subseteq 1..Len(toolQ)  BY DEF Barred
<1> HIDE DEF Barred
<1>4. CASE Barred = {}  BY <1>2, <1>3, <1>4 DEF StopAt
<1>5. CASE Barred # {}
  <2>1. StopAt = CHOOSE n \in Barred : \A m \in Barred : n <= m  BY <1>5 DEF StopAt
  <2>2. Barred \subseteq Nat  BY <1>2, <1>3
  <2>3. StopAt \in Barred /\ \A m \in Barred : StopAt <= m  BY <1>5, <2>1, <2>2, First
  <2>4. StopAt # 0  BY <1>2, <1>3, <2>3
  <2> QED  BY <1>2, <1>3, <1>5, <2>3, <2>4
<1> QED  BY <1>4, <1>5

\* Everything before the stop was allowed, or everything when there is none.
LEMMA AllowedBefore ==
    ASSUME TypeOK, NEW m \in 1..Len(toolQ), StopAt # 0 => m < StopAt
    PROVE  Judged(m) = "allow"
<1>1. m \notin Barred
  <2>1. CASE StopAt = 0  BY <2>1, FirstBarred
  <2>2. CASE StopAt # 0
    <3>1. StopAt \in Nat /\ m \in Nat  BY <2>2, FirstBarred
    <3> QED  BY <2>2, <3>1, FirstBarred
  <2> QED  BY <2>1, <2>2
<1> QED  BY <1>1 DEF Barred

\* What is left of the memory while calls are allowed.
LEMMA AllowedIs ==
    ASSUME NEW n, NEW c \in Calls
    PROVE  /\ Allowed(n)[c] \in {"allow", "none", resolution[c]}
           /\ (\A m \in 1..n : toolQ[m] # c) => Allowed(n)[c] \in {"none", resolution[c]}
BY DEF Allowed

LEMMA JudgedTypes ==
    ASSUME TypeOK, NEW n \in 1..Len(toolQ)
    PROVE  Judged(n) \in Decisions
<1> DEFINE c == toolQ[n]
           a == Allowed(n - 1)[c]
<1>1. c \in Calls  BY FirstBarred
<1>2. resolution[c] \in Decisions \cup {"none"}  BY <1>1 DEF TypeOK, Memory
<1>3. a \in Decisions \cup {"none"}  BY <1>1, <1>2, AllowedIs DEF Decisions
<1>4. PolicyVerdict(c) \in Decisions  BY AgentAssumption DEF PolicyVerdict, Decisions
<1>5. Judged(n) = IF a # "none" THEN a ELSE PolicyVerdict(c)  BY DEF Judged, Verdict
<1> HIDE DEF a, c
<1> QED  BY <1>3, <1>4, <1>5

LEMMA RememberedTypes == TypeOK => Remembered \in Memory
<1> SUFFICES ASSUME TypeOK PROVE Remembered \in Memory  OBVIOUS
<1>1. \A c \in Calls : resolution[c] \in Decisions \cup {"none"}  BY DEF TypeOK, Memory
<1>2. ASSUME NEW n PROVE Allowed(n) \in Memory
  <2>1. \A c \in Calls : Allowed(n)[c] \in Decisions \cup {"none"}
    BY <1>1, AllowedIs DEF Decisions
  <2>2. Allowed(n) = [c \in Calls |-> Allowed(n)[c]]  BY DEF Allowed
  <2> QED  BY <2>1, <2>2 DEF Memory
<1>3. ASSUME NEW memory \in Memory, NEW c, NEW d \in Decisions
      PROVE  Remember(memory, c, d) \in Memory
  BY <1>3 DEF Remember, Memory
<1>4. CASE StopAt = 0  BY <1>2, <1>4 DEF Remembered
<1>5. CASE StopAt # 0
  <2>1. Judged(StopAt) \in Decisions  BY <1>5, FirstBarred, JudgedTypes
  <2>2. Remembered = Remember(Allowed(StopAt - 1), toolQ[StopAt], Judged(StopAt))
    BY <1>5 DEF Remembered
  <2> QED  BY <1>2, <1>3, <2>1, <2>2
<1> QED  BY <1>4, <1>5

\* What the step touches keeps its types.
LEMMA TypeStep == TypeOK /\ Placed /\ Reserved /\ [Next]_vars => TypeOK'
<1> SUFFICES ASSUME TypeOK, Placed, Reserved, [Next]_vars PROVE TypeOK'  OBVIOUS
<1>0. /\ PlaceType /\ TalkType /\ ReplyType /\ OutsideType /\ BudgetType /\ FilesType
      /\ resolution \in Memory
  BY DEF TypeOK
<1>1. /\ \A l \in {"loop", "step", "stream", "execute", "tool", "returned", "parked", "lost",
                   "gone", "down"} : l \in Locations
      /\ \A p \in {"prepare", "request_model", "consume_model_event", "permission_check",
                   "execute_tool", "record_observation", "evaluate_stop", "checkpoint",
                   "yield", "complete", "failed"} : p \in Phases
      /\ \A p \in DOMAIN Onward : Onward[p] \in Phases
      /\ \A r \in {"none", "paused", "error", "asking", "max turns", "completed",
                   "nothing to do"} : r \in Stops
  BY DEF Phases, Locations, Driving, Onward, Stops
<1>2. pc \in Locations /\ phase \in Phases /\ stop \in Stops /\ err \in BOOLEAN
  BY <1>0 DEF PlaceType
<1>3. /\ pending \in Seq(Calls) /\ toolQ \in Seq(Calls) /\ <<>> \in Seq(Calls)
      /\ perms \in Seq(Ids) /\ <<>> \in Seq(Ids)
  BY <1>0 DEF TalkType
<1>4. ASSUME NEW p \in Phases, Advance(p), stop' \in Stops PROVE PlaceType'
  BY <1>1, <1>2, <1>4 DEF Advance, PlaceType
<1>5. ASSUME NEW p \in Phases, Fail(p), stop' \in Stops PROVE PlaceType'
  BY <1>1, <1>2, <1>5 DEF Fail, PlaceType
<1>6. ASSUME checkpoint' \in Snapshot, UNCHANGED <<journal, trail, ledger>> PROVE FilesType'
  BY <1>0, <1>6 DEF FilesType
<1>7. ASSUME journal' \in [Ids -> Effects], UNCHANGED <<checkpoint, trail, ledger>>
      PROVE  FilesType'
  BY <1>0, <1>7 DEF FilesType
<1>8. ASSUME LoopDone \/ LoopCancelled \/ LoopStep PROVE TypeOK'
  <2>1. CASE LoopDone
    <3>1. PlaceType'  BY <1>1, <1>2, <2>1 DEF LoopDone, PlaceType
    <3> QED  BY <2>1, <3>1, TypeFrame DEF LoopDone, TypeOK
  <2>2. CASE LoopCancelled
    <3>1. PlaceType'  BY <1>1, <1>5, <2>2 DEF LoopCancelled
    <3>2. checkpoint' \in Snapshot  BY <1>1, <1>3, <2>2, PersistTypes DEF LoopCancelled
    <3>3. FilesType'  BY <1>6, <2>2, <3>2 DEF LoopCancelled
    <3> QED  BY <2>2, <3>1, <3>3, TypeFrame DEF LoopCancelled, TypeOK
  <2>3. CASE LoopStep
    <3>1. PlaceType'  BY <1>1, <1>2, <2>3 DEF LoopStep, PlaceType
    <3> QED  BY <2>3, <3>1, TypeFrame DEF LoopStep, TypeOK
  <2> QED  BY <1>8, <2>1, <2>2, <2>3
<1>9. ASSUME Yield, BudgetType' PROVE TypeOK'
  <2>1. PlaceType'  BY <1>1, <1>9 DEF Yield, PlaceType
  <2>2. checkpoint' \in Snapshot  BY <1>1, <1>3, <1>9, PersistTypes DEF Yield
  <2>3. FilesType'  BY <1>6, <1>9, <2>2 DEF Yield
  <2> QED  BY <1>9, <2>1, <2>3, TypeFrame DEF Yield, TypeOK
<1>10. ASSUME NEW n \in Nat, pc = "stream", Settle(n) PROVE BudgetType'
  <2>1. /\ held' = 0 /\ spent' \in Nat /\ charged' \in Nat /\ settled' = TRUE
        /\ tools' = tools /\ billed' = billed
    BY <1>10, SettleTypes
  <2>2. tools' \in Nat /\ billed' \in Nat /\ held' \in Nat  BY <1>0, <2>1 DEF BudgetType
  <2>3. settled' \in BOOLEAN  BY <2>1
  <2> QED  BY <2>1, <2>2, <2>3 DEF BudgetType
<1>11. ASSUME StepCancelled PROVE TypeOK'  BY <1>9, <1>11, TypeFrame DEF StepCancelled
<1>12. ASSUME StepOnward PROVE TypeOK'
  <2>1. PlaceType'  BY <1>1, <1>2, <1>4, <1>12 DEF StepOnward
  <2> QED  BY <1>12, <2>1, TypeFrame DEF StepOnward, TypeOK
<1>13. ASSUME RequestFails \/ Request PROVE TypeOK'
  <2>1. CASE RequestFails
    <3>1. PlaceType'  BY <1>1, <1>5, <2>1 DEF RequestFails
    <3> QED  BY <2>1, <3>1, TypeFrame DEF RequestFails, TypeOK
  <2>2. CASE Request
    <3>1. PlaceType'  BY <1>1, <1>2, <2>2 DEF Request, PlaceType
    <3>2. stream' \in Seq(Event)
      <4>1. stream' \in Replies  BY <2>2 DEF Request
      <4> QED  BY <4>1, AgentAssumption
    <3>3. ReplyType'  BY <1>3, <2>2, <3>2 DEF Request, ReplyType, NoReply
    <3>4. held' \in Nat /\ settled' \in BOOLEAN
      <4>1. held' = held + Allowance /\ settled' = FALSE  BY <2>2 DEF Request
      <4>2. held \in Nat /\ Allowance \in Nat  BY <1>0, AgentAssumption DEF BudgetType
      <4>3. settled' \in BOOLEAN  BY <4>1
      <4>4. held' \in Nat  BY <4>1, <4>2
      <4> QED  BY <4>3, <4>4
    <3>5. BudgetType'  BY <1>0, <2>2, <3>4 DEF Request, BudgetType
    <3> QED  BY <2>2, <3>1, <3>3, <3>5, TypeFrame DEF Request, TypeOK
  <2> QED  BY <1>13, <2>1, <2>2
<1>14. ASSUME StreamCancelled PROVE TypeOK'
  <2>1. pc = "stream" /\ Settle(0) /\ Yield  BY <1>14 DEF StreamCancelled, Reading
  <2> QED  BY <1>9, <1>10, <2>1
<1>15. ASSUME Reading, Read PROVE ReplyType'  BY <1>15, ReadTypes DEF ReplyType
<1>16. ASSUME StreamPart PROVE TypeOK'
  BY <1>15, <1>16, TypeFrame DEF StreamPart, TypeOK
<1>17. ASSUME StreamUsage PROVE TypeOK'
  <2>1. pc = "stream" /\ Settle(Next1.tokens) /\ Next1.tokens \in Nat
    BY <1>17, Reported DEF StreamUsage, Reading
  <2>2. BudgetType'  BY <1>10, <2>1
  <2> QED  BY <1>15, <1>17, <2>2, TypeFrame DEF StreamUsage, TypeOK
<1>18. ASSUME StreamError PROVE TypeOK'
  <2>1. BudgetType'  BY <1>10, <1>18 DEF StreamError, Reading
  <2>2. PlaceType'  BY <1>1, <1>5, <1>18 DEF StreamError
  <2> QED  BY <1>15, <1>18, <2>1, <2>2, TypeFrame DEF StreamError, TypeOK
<1>19. ASSUME StreamEnd PROVE TypeOK'
  <2>1. held' \in Nat /\ settled' \in BOOLEAN
    <3>1. CASE settled
      <4>1. held' = held /\ settled' = settled  BY <1>19, <3>1 DEF StreamEnd
      <4> QED  BY <1>0, <4>1 DEF BudgetType
    <3>2. CASE ~settled
      <4>1. held = Allowance  BY <1>19, <3>2 DEF StreamEnd, Reserved
      <4>2. held' = held - Allowance /\ settled' = TRUE  BY <1>19, <3>2 DEF StreamEnd
      <4>3. held' \in Nat  BY <4>1, <4>2, AgentAssumption
      <4>4. settled' \in BOOLEAN  BY <4>2
      <4> QED  BY <4>3, <4>4
    <3> QED  BY <3>1, <3>2
  <2>2. billed' \in Nat  BY <1>0, <1>19 DEF StreamEnd, ReplyType, BudgetType
  <2>3. BudgetType'  BY <1>0, <1>19, <2>1, <2>2 DEF StreamEnd, BudgetType
  <2>4. PlaceType'  BY <1>1, <1>2, <1>4, <1>19 DEF StreamEnd
  <2> QED  BY <1>19, <2>3, <2>4, TypeFrame DEF StreamEnd, TypeOK
<1>20. ASSUME PlanToolCalls PROVE TypeOK'
  <2>1. PlaceType'
    <3>1. \A x : (IF x = <<>> THEN "evaluate_stop" ELSE "permission_check") \in Phases  BY <1>1
    <3> QED  BY <1>2, <1>4, <1>20, <3>1 DEF PlanToolCalls
  <2>2. TalkType'  BY <1>0, <1>20 DEF PlanToolCalls, TalkType, ReplyType
  <2> QED  BY <1>20, <2>1, <2>2, TypeFrame DEF PlanToolCalls, TypeOK
<1>21. Remembered \in Memory  BY RememberedTypes
<1>22. ASSUME PermissionAllowed PROVE TypeOK'
  <2>1. PlaceType'  BY <1>1, <1>2, <1>4, <1>22 DEF PermissionAllowed
  <2> QED  BY <1>21, <1>22, <2>1, TypeFrame DEF PermissionAllowed, TypeOK
<1>23. ASSUME PermissionDenied PROVE TypeOK'
  <2>1. PlaceType'  BY <1>1, <1>5, <1>23 DEF PermissionDenied
  <2> QED  BY <1>21, <1>23, <2>1, TypeFrame DEF PermissionDenied, TypeOK
<1>24. ASSUME PermissionAsk PROVE TypeOK'
  <2>1. PlaceType'  BY <1>1, <1>4, <1>5, <1>24 DEF PermissionAsk
  <2>2. perms' \in Seq(Ids)
    <3>1. StopAt # 0 /\ perms' = <<CallId[toolQ[StopAt]]>>  BY <1>24 DEF PermissionAsk
    <3> QED  BY <3>1, FirstBarred, AgentAssumption
  <2>3. FilesType'
    <3>1. checkpoint' \in Snapshot  BY <1>1, <1>3, <1>24, <2>2, PersistTypes DEF PermissionAsk
    <3> QED  BY <1>6, <1>24, <3>1 DEF PermissionAsk
  <2>4. TalkType'  BY <1>0, <1>24, <2>2 DEF PermissionAsk, TalkType
  <2> QED  BY <1>21, <1>24, <2>1, <2>3, <2>4, TypeFrame DEF PermissionAsk, TypeOK
<1>25. ASSUME StartQueue \/ Intend \/ Skip \/ Refuse \/ QueueDone PROVE TypeOK'
  <2>1. CASE StartQueue
    <3>1. PlaceType'  BY <1>1, <1>2, <2>1 DEF StartQueue, PlaceType
    <3>2. pos' \in Nat \ {0}  BY <2>1 DEF StartQueue
    <3>3. TalkType'  BY <1>0, <2>1, <3>2 DEF StartQueue, TalkType
    <3> QED  BY <2>1, <3>1, <3>3, TypeFrame DEF StartQueue, TypeOK
  <2>2. CASE Intend
    <3>1. journal' \in [Ids -> Effects]
      <4> DEFINE e == [status |-> "pending", policy |-> Replay(Cur)]
      <4>1. e \in Effects  BY DEF Effects, Replay
      <4>2. journal' = journal \/ journal' = [journal EXCEPT ![Effect] = e]  BY <2>2 DEF Intend
      <4> HIDE DEF e, Effect
      <4> QED  BY <1>0, <4>1, <4>2 DEF FilesType
    <3>2. PlaceType'  BY <1>1, <1>2, <2>2 DEF Intend, PlaceType
    <3>3. FilesType'  BY <1>7, <2>2, <3>1 DEF Intend
    <3> QED  BY <2>2, <3>2, <3>3, TypeFrame DEF Intend, TypeOK
  <2>3. CASE Skip
    <3>1. TalkType'  BY <1>0, <2>3 DEF Skip, TalkType
    <3>2. PlaceType'  BY <1>2, <2>3 DEF Skip, PlaceType
    <3> QED  BY <2>3, <3>1, <3>2, TypeFrame DEF Skip, TypeOK
  <2>4. CASE Refuse
    <3>1. PlaceType'  BY <1>1, <1>5, <2>4 DEF Refuse
    <3> QED  BY <2>4, <3>1, TypeFrame DEF Refuse, TypeOK
  <2>5. CASE QueueDone
    <3>1. PlaceType'  BY <1>1, <1>2, <1>4, <2>5 DEF QueueDone
    <3> QED  BY <2>5, <3>1, TypeFrame DEF QueueDone, TypeOK
  <2> QED  BY <1>25, <2>1, <2>2, <2>3, <2>4, <2>5
<1>26. ASSUME EvaluateStop \/ EvaluateMore PROVE TypeOK'
  <2>1. CASE EvaluateStop
    <3>1. stop' \in Stops  BY <1>1, <2>1 DEF EvaluateStop
    <3>2. PlaceType'  BY <1>1, <1>4, <2>1, <3>1 DEF EvaluateStop
    <3>3. turns' \in Nat
      <4>1. turns' = turns + 1  BY <2>1 DEF EvaluateStop
      <4> QED  BY <1>0, <4>1 DEF TalkType
    <3>4. TalkType'  BY <1>0, <2>1, <3>3 DEF EvaluateStop, TalkType
    <3> QED  BY <2>1, <3>2, <3>4, TypeFrame DEF EvaluateStop, TypeOK
  <2>2. CASE EvaluateMore
    <3>1. RoundTrips \in Seq(Message)  BY RoundTripTypes
    <3>2. conv \o RoundTrips \in Seq(Message)  BY <1>0, <3>1, ConcatProperties DEF TalkType
    <3>3. turns' \in Nat /\ conv' \in Seq(Message) /\ obs' = <<>>
      BY <1>0, <2>2, <3>2 DEF EvaluateMore, TalkType
    <3>4. TalkType'  BY <1>0, <1>3, <2>2, <3>3 DEF EvaluateMore, TalkType
    <3>5. PlaceType'  BY <1>1, <1>2, <1>4, <2>2 DEF EvaluateMore
    <3> QED  BY <2>2, <3>4, <3>5, TypeFrame DEF EvaluateMore, TypeOK
  <2> QED  BY <1>26, <2>1, <2>2
<1>27. ASSUME Checkpoint PROVE TypeOK'
  <2>1. PlaceType'
    <3>1. \A x : (IF x THEN "complete" ELSE "yield") \in Phases  BY <1>1
    <3> QED  BY <1>1, <1>2, <1>4, <1>5, <1>27 DEF Checkpoint
  <2>2. checkpoint' \in Snapshot  BY <1>2, <1>3, <1>27, PersistTypes DEF Checkpoint
  <2>3. FilesType'  BY <1>6, <1>27, <2>2 DEF Checkpoint
  <2> QED  BY <1>27, <2>1, <2>3, TypeFrame DEF Checkpoint, TypeOK
<1>28. ASSUME Observe PROVE TypeOK'
  <2>1. PlaceType'  BY <1>1, <1>2, <1>28 DEF Observe, PlaceType
  <2>2. verdict' \in Verdicts  BY <1>28 DEF Observe, RunVerdict, Verdicts
  <2>3. OutsideType'  BY <1>0, <1>28, <2>2 DEF Observe, OutsideType
  <2>4. FilesType'  BY <1>0, <1>28 DEF Observe, FilesType, BudgetType
  <2> QED  BY <1>28, <2>1, <2>3, <2>4, TypeFrame DEF Observe, TypeOK
<1>29. ASSUME NEW o \in {"applied", "failed"}, Outcome(o) PROVE journal' \in [Ids -> Effects]
  <2> DEFINE x == [journal[Effect] EXCEPT !.status = o]
  <2>1. journal \in [Ids -> Effects]  BY <1>0 DEF FilesType
  <2>2. journal' = journal \/ journal' = [journal EXCEPT ![Effect].status = o]
    BY <1>29 DEF Outcome
  <2> HIDE DEF Effect
  <2>3. \A i \in Ids : [journal[i] EXCEPT !.status = o] \in Effects  BY <2>1 DEF Effects
  <2> QED  BY <2>1, <2>2, <2>3
<1>30. ASSUME ToolReturns PROVE TypeOK'
  <2>1. pos \in Nat /\ Len(toolQ) \in Nat /\ pos # 0 /\ pos <= Len(toolQ)
    BY <1>0, <1>3, <1>30 DEF ToolReturns, Placed, TalkType
  <2>2. Cur \in Calls  BY <1>3, <2>1 DEF Cur
  <2>3. Append(obs, Cur) \in Seq(Calls)
    <3> HIDE DEF Cur
    <3> QED  BY <1>0, <2>2 DEF TalkType
  <2>4. ran' \in [Calls -> Nat] /\ pos' \in Nat \ {0}
    <3> HIDE DEF Cur
    <3> QED  BY <1>0, <1>30, <2>1, <2>2 DEF ToolReturns, TalkType
  <2>5. TalkType'  BY <1>0, <1>30, <2>3, <2>4 DEF ToolReturns, TalkType
  <2>6. BudgetType'  BY <1>0, <1>30 DEF ToolReturns, BudgetType
  <2>7. FilesType'  BY <1>7, <1>29, <1>30 DEF ToolReturns
  <2>8. PlaceType'  BY <1>1, <1>2, <1>30 DEF ToolReturns, PlaceType
  <2> QED  BY <1>30, <2>5, <2>6, <2>7, <2>8, TypeFrame DEF ToolReturns, TypeOK
<1>31. ASSUME ToolBreaks PROVE TypeOK'
  <2>1. FilesType'  BY <1>7, <1>29, <1>31 DEF ToolBreaks
  <2>2. BudgetType'  BY <1>0, <1>31 DEF ToolBreaks, BudgetType
  <2>3. PlaceType'  BY <1>2, <1>5, <1>31 DEF ToolBreaks
  <2> QED  BY <1>31, <2>1, <2>2, <2>3, TypeFrame DEF ToolBreaks, TypeOK
<1>32. ASSUME Inject PROVE TypeOK'
  <2>1. Append(conv, Said) \in Seq(Message)
    <3> HIDE DEF Said, Message
    <3> QED  BY <1>0, SaidIsMessage DEF TalkType
  <2>2. TalkType'  BY <1>0, <1>32, <2>1 DEF Inject, TalkType
  <2>3. steers' \in 0..MaxSteers  BY <1>0, <1>32, AgentAssumption DEF Inject, OutsideType
  <2>4. OutsideType'  BY <1>0, <1>32, <2>3 DEF Inject, OutsideType
  <2> QED  BY <1>32, <2>2, <2>4, TypeFrame DEF Inject, TypeOK
<1>33. ASSUME Cancel PROVE TypeOK'
  <2>1. OutsideType'  BY <1>0, <1>33 DEF Cancel, OutsideType
  <2> QED  BY <1>33, <2>1, TypeFrame DEF Cancel, TypeOK
<1>34. ASSUME NEW d \in {"allow", "deny"}, Answer(d) PROVE TypeOK'
  <2>1. resolution' \in Memory /\ answered' \in Memory
    BY <1>0, <1>34 DEF Answer, Remember, Decisions, Memory, OutsideType
  <2>2. checkpoint' \in Snapshot  BY <1>1, <1>3, <1>34, PersistTypes DEF Answer
  <2>3. FilesType'  BY <1>6, <1>34, <2>2 DEF Answer
  <2>4. PlaceType'  BY <1>1, <1>2, <1>34 DEF Answer, PlaceType
  <2>5. verdict' \in Verdicts  BY <1>0, <1>34 DEF Answer, Verdicts, OutsideType
  <2>6. OutsideType'  BY <1>0, <1>34, <2>1, <2>5 DEF Answer, OutsideType
  <2>7. TalkType'  BY <1>0, <1>3, <1>34 DEF Answer, TalkType
  <2> QED  BY <1>34, <2>1, <2>3, <2>4, <2>6, <2>7, TypeFrame DEF Answer, TypeOK
<1>35. ASSUME Crash PROVE TypeOK'
  <2>1. Fresh  BY <1>35 DEF Crash
  <2>2. PlaceType'  BY <1>1, <1>35, <2>1, FreshTypes DEF Crash, PlaceType
  <2>3. resolution' \in Memory  BY <1>35 DEF Crash, Undecided, Memory
  <2>4. verdict' \in Verdicts  BY <2>1, FreshTypes DEF Verdicts
  <2>5. OutsideType'  BY <1>0, <1>35, <2>1, <2>4, FreshTypes DEF Crash, OutsideType
  <2>6. BudgetType'  BY <1>0, <1>35, <2>1, FreshTypes DEF Crash, BudgetType
  <2> QED  BY <1>35, <2>1, <2>2, <2>3, <2>5, <2>6, FreshTypes, TypeFrame DEF Crash, TypeOK
<1>36. ASSUME Start PROVE TypeOK'
  <2>1. Fresh  BY <1>36 DEF Start
  <2>2. PlaceType'  BY <1>1, <1>36, <2>1, FreshTypes DEF Start, PlaceType
  <2>3. resolution' \in Memory  BY <1>0, <1>36 DEF Start, FilesType
  <2>4. verdict' \in Verdicts  BY <2>1, FreshTypes DEF Verdicts
  <2>5. starts' \in 0..MaxStarts  BY <1>0, <1>36, AgentAssumption DEF Start, OutsideType
  <2>6. OutsideType'  BY <1>0, <1>36, <2>1, <2>4, <2>5, FreshTypes DEF Start, OutsideType
  <2>7. BudgetType'
    <3>1. spent' \in Nat /\ tools' \in Nat  BY <1>0, <1>36 DEF Start, FilesType
    <3> QED  BY <1>0, <1>36, <2>1, <3>1, FreshTypes DEF Start, BudgetType
  <2> QED  BY <1>36, <2>1, <2>2, <2>3, <2>6, <2>7, FreshTypes, TypeFrame DEF Start, TypeOK
<1>37. ASSUME UNCHANGED vars PROVE TypeOK'
  BY <1>37, TypeFrame DEF vars, TypeOK
<1> QED
  BY <1>8, <1>11, <1>12, <1>13, <1>14, <1>16, <1>17, <1>18, <1>19, <1>20, <1>22, <1>23,
     <1>24, <1>25, <1>26, <1>27, <1>28, <1>30, <1>31, <1>32, <1>33, <1>34, <1>35, <1>36,
     <1>37, Cases

LEMMA ReservedStep == TypeOK /\ Reserved /\ [Next]_vars => Reserved'
<1> SUFFICES ASSUME TypeOK, Reserved, [Next]_vars PROVE Reserved'  OBVIOUS
<1> USE DEF Reserved
<1>0. Allowance \in Nat /\ held \in Nat  BY AgentAssumption DEF TypeOK, BudgetType
<1>1. ASSUME UNCHANGED budget, pc # "stream", pc' # "stream" PROVE Reserved'
  BY <1>1 DEF budget
<1>2. ASSUME NEW n, pc = "stream", Settle(n) PROVE held' = 0 /\ settled' = TRUE
  BY <1>0, <1>2 DEF Settle, budget
<1>3. ASSUME LoopDone \/ LoopCancelled \/ LoopStep PROVE Reserved'
  BY <1>1, <1>3 DEF LoopDone, LoopCancelled, LoopStep, Fail
<1>4. ASSUME StepCancelled PROVE Reserved'  BY <1>1, <1>4 DEF StepCancelled, Yield
<1>5. ASSUME StepOnward PROVE Reserved'  BY <1>1, <1>5 DEF StepOnward, At, Advance
<1>6. ASSUME RequestFails \/ Request PROVE Reserved'
  <2>1. CASE RequestFails  BY <1>1, <2>1 DEF RequestFails, At, Fail
  <2>2. CASE Request
    <3>1. held' = held + Allowance /\ settled' = FALSE /\ pc' = "stream" /\ pc = "step"
      BY <2>2 DEF Request, At
    <3>2. held = 0  BY <3>1
    <3> QED  BY <1>0, <3>1, <3>2
  <2> QED  BY <1>6, <2>1, <2>2
<1>7. ASSUME StreamCancelled PROVE Reserved'  BY <1>2, <1>7 DEF StreamCancelled, Reading, Yield
<1>8. ASSUME StreamPart PROVE Reserved'  BY <1>8 DEF StreamPart, budget
<1>9. ASSUME StreamUsage PROVE Reserved'  BY <1>2, <1>9 DEF StreamUsage, Reading
<1>10. ASSUME StreamError PROVE Reserved'  BY <1>2, <1>10 DEF StreamError, Reading
<1>11. ASSUME StreamEnd PROVE Reserved'
  <2>1. pc = "stream" /\ pc' = "loop"  BY <1>11 DEF StreamEnd, Advance
  <2>2. CASE settled  BY <1>11, <2>1, <2>2 DEF StreamEnd
  <2>3. CASE ~settled
    <3>1. held' = held - Allowance  BY <1>11, <2>3 DEF StreamEnd
    <3> QED  BY <1>0, <2>1, <2>3, <3>1
  <2> QED  BY <2>2, <2>3
<1>12. ASSUME PlanToolCalls PROVE Reserved'  BY <1>1, <1>12 DEF PlanToolCalls, At, Advance
<1>13. ASSUME PermissionAllowed PROVE Reserved'
  BY <1>1, <1>13 DEF PermissionAllowed, At, Advance
<1>14. ASSUME PermissionDenied PROVE Reserved'  BY <1>1, <1>14 DEF PermissionDenied, At, Fail
<1>15. ASSUME PermissionAsk PROVE Reserved'
  BY <1>1, <1>15 DEF PermissionAsk, At, Advance, Fail
<1>16. ASSUME StartQueue \/ Intend \/ Skip \/ Refuse \/ QueueDone PROVE Reserved'
  BY <1>1, <1>16 DEF StartQueue, Intend, Skip, Refuse, QueueDone, At, Executing, Fail, Advance
<1>17. ASSUME EvaluateStop \/ EvaluateMore PROVE Reserved'
  BY <1>1, <1>17 DEF EvaluateStop, EvaluateMore, At, Advance
<1>18. ASSUME Checkpoint PROVE Reserved'  BY <1>1, <1>18 DEF Checkpoint, At, Advance, Fail
<1>19. ASSUME Observe PROVE Reserved'  BY <1>1, <1>19 DEF Observe
<1>20. ASSUME ToolReturns PROVE Reserved'  BY <1>20 DEF ToolReturns
<1>21. ASSUME ToolBreaks PROVE Reserved'  BY <1>21 DEF ToolBreaks, Fail
<1>22. ASSUME Inject PROVE Reserved'  BY <1>22 DEF Inject, budget
<1>23. ASSUME Cancel PROVE Reserved'  BY <1>23 DEF Cancel, budget
<1>24. ASSUME NEW d \in {"allow", "deny"}, Answer(d) PROVE Reserved'
  BY <1>1, <1>24 DEF Answer
<1>25. ASSUME Crash \/ Start PROVE Reserved'
  BY <1>25 DEF Crash, Start, Fresh
<1>26. ASSUME UNCHANGED vars PROVE Reserved'  BY <1>26 DEF vars, budget
<1> QED
  BY <1>3, <1>4, <1>5, <1>6, <1>7, <1>8, <1>9, <1>10, <1>11, <1>12, <1>13, <1>14, <1>15,
     <1>16, <1>17, <1>18, <1>19, <1>20, <1>21, <1>22, <1>23, <1>24, <1>25, <1>26, Cases

LEMMA PlacedStep == TypeOK /\ Placed /\ [Next]_vars => Placed'
<1> SUFFICES ASSUME TypeOK, Placed, [Next]_vars PROVE Placed'  OBVIOUS
<1>0. /\ phase \in Phases /\ pending \in Seq(Calls) /\ toolQ \in Seq(Calls) /\ err \in BOOLEAN
      /\ pos \in Nat
  BY DEF TypeOK, PlaceType, TalkType
<1> USE DEF Placed
\* Nothing is pending while a step goes on.
<1>1. ASSUME pc \in {"step", "stream", "execute", "tool", "none", "lost", "down"}
      PROVE  pending = <<>>
  BY <1>1
<1>2. ASSUME LoopDone \/ LoopCancelled \/ LoopStep PROVE Placed'
  <2>1. CASE LoopDone  BY <2>1 DEF LoopDone, Halted, talk
  <2>2. CASE LoopCancelled  BY <2>2 DEF LoopCancelled, Fail, Halted, talk
  <2>3. CASE LoopStep  BY <2>3 DEF LoopStep, Halted, talk
  <2> QED  BY <1>2, <2>1, <2>2, <2>3
<1>3. ASSUME pending = <<>>, Yield PROVE Placed'  BY <1>3 DEF Yield, talk
<1>4. ASSUME StepCancelled PROVE Placed'  BY <1>1, <1>3, <1>4 DEF StepCancelled
<1>5. ASSUME StreamCancelled PROVE Placed'
  BY <1>1, <1>3, <1>5 DEF StreamCancelled, Reading
<1>6. ASSUME NEW p, Advance(p), p # "failed", UNCHANGED pending, pending = <<>>
      PROVE  Placed'
  BY <1>6 DEF Advance
<1>7. ASSUME NEW p, Fail(p), UNCHANGED pending, pending = <<>>
      PROVE  Placed'
  BY <1>7 DEF Fail
<1>8. ASSUME StepOnward PROVE Placed'
  BY <1>1, <1>6, <1>8 DEF StepOnward, At, Onward, talk
<1>9. ASSUME RequestFails \/ Request PROVE Placed'
  <2>1. CASE RequestFails  BY <1>1, <1>7, <2>1 DEF RequestFails, At, talk
  <2>2. CASE Request  BY <2>2 DEF Request, At, talk
  <2> QED  BY <1>9, <2>1, <2>2
<1>10. ASSUME StreamPart PROVE Placed'
  <2>1. pc = "stream" /\ UNCHANGED <<pc, phase, err, talk>>  BY <1>10 DEF StreamPart, Reading
  <2> QED  BY <2>1 DEF talk
<1>11. ASSUME StreamUsage PROVE Placed'
  <2>1. pc = "stream" /\ UNCHANGED <<pc, phase, err, talk>>  BY <1>11 DEF StreamUsage, Reading
  <2> QED  BY <2>1 DEF talk
<1>12. ASSUME StreamError PROVE Placed'
  BY <1>1, <1>7, <1>12 DEF StreamError, Reading, talk
<1>13. ASSUME StreamEnd PROVE Placed'  BY <1>1, <1>6, <1>13 DEF StreamEnd, talk
<1>14. ASSUME PlanToolCalls PROVE Placed'
  BY <1>1, <1>6, <1>14 DEF PlanToolCalls, At
<1>15. ASSUME PermissionAllowed PROVE Placed'
  BY <1>1, <1>6, <1>15 DEF PermissionAllowed, At, talk
<1>16. ASSUME PermissionDenied PROVE Placed'
  BY <1>1, <1>7, <1>16 DEF PermissionDenied, At, talk
<1>17. ASSUME PermissionAsk PROVE Placed'
  BY <1>17 DEF PermissionAsk, At, Advance, Fail
<1>18. ASSUME StartQueue \/ Intend \/ Skip \/ Refuse \/ QueueDone PROVE Placed'
  <2>1. CASE StartQueue  BY <2>1 DEF StartQueue, At
  <2>2. CASE Intend  BY <2>2 DEF Intend, Executing, talk
  <2>3. CASE Skip  BY <2>3 DEF Skip, Executing
  <2>4. CASE Refuse  BY <1>1, <1>7, <2>4 DEF Refuse, Executing, talk
  <2>5. CASE QueueDone  BY <1>1, <1>6, <2>5 DEF QueueDone, talk
  <2> QED  BY <1>18, <2>1, <2>2, <2>3, <2>4, <2>5
<1>19. ASSUME EvaluateStop \/ EvaluateMore PROVE Placed'
  BY <1>1, <1>6, <1>19 DEF EvaluateStop, EvaluateMore, At
<1>20. ASSUME Checkpoint PROVE Placed'
  <2>1. pending = <<>> /\ UNCHANGED pending  BY <1>1, <1>20 DEF Checkpoint, At, talk
  <2> QED  BY <1>6, <1>7, <1>20, <2>1 DEF Checkpoint
<1>21. ASSUME Observe PROVE Placed'
  <2>1. CASE RunVerdict = "awaiting_approval"
    BY <1>21, <2>1 DEF Observe, RunVerdict, talk
  <2>2. CASE RunVerdict # "awaiting_approval"
    BY <1>0, <1>21, <2>2 DEF Observe, RunVerdict, talk
  <2> QED  BY <2>1, <2>2
<1>22. ASSUME ToolReturns PROVE Placed'  BY <1>22 DEF ToolReturns
<1>23. ASSUME ToolBreaks PROVE Placed'
  <2>1. pending = <<>> /\ UNCHANGED pending  BY <1>1, <1>23 DEF ToolBreaks, talk
  <2> QED  BY <1>7, <1>23, <2>1 DEF ToolBreaks
<1>24. ASSUME Inject PROVE Placed'  BY <1>24 DEF Inject, Halted
<1>25. ASSUME Cancel PROVE Placed'  BY <1>25 DEF Cancel, Halted, talk
<1>26. ASSUME NEW d \in {"allow", "deny"}, Answer(d) PROVE Placed'
  BY <1>26 DEF Answer
<1>27. ASSUME Crash \/ Start PROVE Placed'  BY <1>27 DEF Crash, Start, Fresh
<1>28. ASSUME UNCHANGED vars PROVE Placed'  BY <1>28 DEF vars, talk, Halted
<1> QED
  BY <1>2, <1>4, <1>5, <1>8, <1>9, <1>10, <1>11, <1>12, <1>13, <1>14, <1>15, <1>16, <1>17,
     <1>18, <1>19, <1>20, <1>21, <1>22, <1>23, <1>24, <1>25, <1>26, <1>27, <1>28, Cases

LEMMA AccountedStep == TypeOK /\ Reserved /\ Accounted /\ [Next]_vars => Accounted'
<1> SUFFICES ASSUME TypeOK, Reserved, Accounted, [Next]_vars, ~crashed'
             PROVE  Accounted'
  BY DEF Accounted
<1>0. /\ TokenLimit \in Nat /\ Allowance \in Nat /\ MaxReport \in Nat
      /\ held \in Nat /\ spent \in Nat /\ charged \in Nat /\ ledger.tokens \in Nat
      /\ crashed \in BOOLEAN
  BY AgentAssumption DEF TypeOK, BudgetType, FilesType, OutsideType
<1> DEFINE Away == pc \in {"none", "gone", "down"}
\* A step within a life that charges nothing.
<1>1. ASSUME ~Away, ~Away', pc' \notin {"parked", "stream"}, UNCHANGED <<spent, charged, crashed>>
      PROVE  Accounted'
  BY <1>1 DEF Accounted
<1>2. ASSUME ~Away, ~Away', pc' # "parked", pc = "stream", pc' = "stream" => settled',
             crashed' = crashed, NEW n \in Nat, n <= MaxReport, Settle(n)
      PROVE  Accounted'
  <2>1. CASE settled
    <3>1. UNCHANGED <<spent, charged>>  BY <1>2, <2>1 DEF Settle, budget
    <3> QED  BY <1>2, <3>1 DEF Accounted
  <2>2. CASE ~settled
    <3>1. spent' = spent + n /\ charged' = charged + n  BY <1>2, <2>2 DEF Settle
    <3>2. spent' = charged'  BY <1>2, <3>1 DEF Accounted
    <3>3. TokenLimit > 0 => charged' + Allowance <= TokenLimit + MaxReport
      <4>1. TokenLimit > 0 => charged + Allowance <= TokenLimit  BY <1>2, <2>2 DEF Accounted
      <4> QED  BY <1>0, <1>2, <3>1, <4>1
    <3> QED  BY <1>2, <3>2, <3>3 DEF Accounted
  <2> QED  BY <2>1, <2>2
<1>3. ASSUME NEW n, Settle(n) PROVE settled'
  BY <1>3 DEF Settle, budget
<1>4. ASSUME LoopDone \/ LoopCancelled \/ LoopStep PROVE Accounted'
  BY <1>1, <1>4 DEF LoopDone, LoopCancelled, LoopStep, Fail, budget, outside
<1>5. ASSUME StepCancelled PROVE Accounted'
  BY <1>1, <1>5 DEF StepCancelled, Yield, budget, outside
<1>6. ASSUME StepOnward PROVE Accounted'
  BY <1>1, <1>6 DEF StepOnward, At, Advance, budget, outside
<1>7. ASSUME RequestFails \/ Request PROVE Accounted'
  <2>1. CASE RequestFails  BY <1>1, <2>1 DEF RequestFails, At, Fail, budget, outside
  <2>2. CASE Request
    <3>1. /\ pc = "step" /\ pc' = "stream" /\ UNCHANGED <<spent, charged, crashed>>
          /\ TokenLimit > 0 => spent + held + Allowance <= TokenLimit
      BY <2>2 DEF Request, At, Affordable, outside
    <3>2. held = 0 /\ spent = charged  BY <3>1 DEF Reserved, Accounted
    <3>3. TokenLimit > 0 => charged' + Allowance <= TokenLimit  BY <1>0, <3>1, <3>2
    <3> QED  BY <3>1, <3>2, <3>3 DEF Accounted
  <2> QED  BY <1>7, <2>1, <2>2
<1>8. ASSUME StreamCancelled PROVE Accounted'
  BY <1>0, <1>2, <1>8 DEF StreamCancelled, Reading, Yield, outside
<1>9. ASSUME StreamPart PROVE Accounted'
  <2>1. pc = "stream" /\ UNCHANGED <<pc, spent, charged, crashed, settled>>
    BY <1>9 DEF StreamPart, Reading, budget, outside
  <2> QED  BY <2>1 DEF Accounted
<1>10. ASSUME StreamUsage PROVE Accounted'
  <2>1. pc = "stream" /\ pc' = "stream" /\ crashed' = crashed /\ Settle(Next1.tokens)
    BY <1>10 DEF StreamUsage, Reading, outside
  <2>2. Next1.tokens \in Nat /\ Next1.tokens <= MaxReport
    BY <1>10, Reported DEF StreamUsage
  <2> QED  BY <1>2, <1>3, <2>1, <2>2
<1>11. ASSUME StreamError PROVE Accounted'
  BY <1>0, <1>2, <1>11 DEF StreamError, Reading, Fail, outside
<1>12. ASSUME StreamEnd PROVE Accounted'
  BY <1>1, <1>12 DEF StreamEnd, Advance, outside
<1>13. ASSUME PlanToolCalls PROVE Accounted'
  BY <1>1, <1>13 DEF PlanToolCalls, At, Advance, budget, outside
<1>14. ASSUME PermissionAllowed PROVE Accounted'
  BY <1>1, <1>14 DEF PermissionAllowed, At, Advance, budget, outside
<1>15. ASSUME PermissionDenied PROVE Accounted'
  BY <1>1, <1>15 DEF PermissionDenied, At, Fail, budget, outside
<1>16. ASSUME PermissionAsk PROVE Accounted'
  BY <1>1, <1>16 DEF PermissionAsk, At, Advance, Fail, budget, outside
<1>17. ASSUME StartQueue \/ Intend \/ Skip \/ Refuse \/ QueueDone PROVE Accounted'
  <2>1. CASE StartQueue  BY <1>1, <2>1 DEF StartQueue, At, budget, outside
  <2>2. CASE Intend  BY <1>1, <2>2 DEF Intend, Executing, budget, outside
  <2>3. CASE Skip  BY <1>1, <2>3 DEF Skip, Executing, budget, outside
  <2>4. CASE Refuse  BY <1>1, <2>4 DEF Refuse, Executing, Fail, budget, outside
  <2>5. CASE QueueDone  BY <1>1, <2>5 DEF QueueDone, Advance, budget, outside
  <2> QED  BY <1>17, <2>1, <2>2, <2>3, <2>4, <2>5
<1>18. ASSUME EvaluateStop \/ EvaluateMore PROVE Accounted'
  BY <1>1, <1>18 DEF EvaluateStop, EvaluateMore, At, Advance, budget, outside
<1>19. ASSUME Checkpoint PROVE Accounted'
  BY <1>1, <1>19 DEF Checkpoint, At, Advance, Fail, budget, outside
<1>20. ASSUME Observe PROVE Accounted'
  <2>1. /\ pc = "returned" /\ pc' \in {"parked", "gone"} /\ ledger'.tokens = spent
        /\ UNCHANGED <<spent, charged, crashed>>
    BY <1>20 DEF Observe, budget
  <2> QED  BY <2>1 DEF Accounted
<1>21. ASSUME ToolReturns PROVE Accounted'  BY <1>1, <1>21 DEF ToolReturns, outside
<1>22. ASSUME ToolBreaks PROVE Accounted'  BY <1>1, <1>22 DEF ToolBreaks, Fail, outside
<1>23. ASSUME Inject PROVE Accounted'
  <2>1. UNCHANGED <<pc, spent, charged, crashed, settled, ledger>>
    BY <1>23 DEF Inject, budget, files
  <2> QED  BY <2>1 DEF Accounted
<1>24. ASSUME Cancel PROVE Accounted'
  <2>1. UNCHANGED <<pc, spent, charged, crashed, settled, ledger>>
    BY <1>24 DEF Cancel, budget, files
  <2> QED  BY <2>1 DEF Accounted
<1>25. ASSUME NEW d \in {"allow", "deny"}, Answer(d) PROVE Accounted'
  BY <1>1, <1>25 DEF Answer, budget
<1>26. ASSUME Crash PROVE Accounted'
  <2>1. /\ pc = "parked" /\ pc' = "down" /\ ~crashed
        /\ UNCHANGED <<charged, ledger>>
    BY <1>26 DEF Crash, files
  <2> QED  BY <2>1 DEF Accounted
<1>27. ASSUME Start PROVE Accounted'
  <2>1. /\ Away /\ pc' = "loop" /\ spent' = ledger.tokens
        /\ UNCHANGED <<charged, crashed>>
    BY <1>27 DEF Start
  <2> QED  BY <2>1 DEF Accounted
<1>28. ASSUME UNCHANGED vars PROVE Accounted'
  <2>1. UNCHANGED <<pc, spent, charged, crashed, settled, ledger>>
    BY <1>28 DEF vars, budget, files, outside
  <2> QED  BY <2>1 DEF Accounted
<1> QED
  BY <1>4, <1>5, <1>6, <1>7, <1>8, <1>9, <1>10, <1>11, <1>12, <1>13, <1>14, <1>15, <1>16,
     <1>17, <1>18, <1>19, <1>20, <1>21, <1>22, <1>23, <1>24, <1>25, <1>26, <1>27, <1>28, Cases

\* What the verdict on a call stands for when those before it were allowed: the
\* first time the queue has a content, its verdict is that of the memory or of the
\* policy.
LEMMA JudgedFounded ==
    ASSUME TypeOK, Grants, NEW n \in 1..Len(toolQ), \A m \in 1..(n - 1) : Judged(m) = "allow"
    PROVE  /\ Judged(n) = "allow" => Granted(toolQ[n])
           /\ Judged(n) = "ask" => PolicyVerdict(toolQ[n]) = "ask"
<1> DEFINE c == toolQ[n]
           S == {m \in 1..n : toolQ[m] = c}
<1>1. n \in Nat /\ n \in 1..n /\ Len(toolQ) \in Nat /\ c \in Calls  BY FirstBarred
<1>2. /\ resolution[c] = "allow" => Granted(c)
      /\ resolution[c] = "ask" => PolicyVerdict(c) = "ask"
  BY <1>1 DEF Grants, Founded
<1>3. PICK k \in S : \A m \in S : k <= m
  <2>1. S \subseteq Nat /\ S # {}  BY <1>1
  <2> HIDE DEF S
  <2> QED  BY <2>1, First
<1>4. /\ k \in Nat /\ k \in 1..n /\ toolQ[k] = c
      /\ \A m \in 1..(k - 1) : toolQ[m] # c
  <2>1. k \in Nat /\ k \in 1..n /\ toolQ[k] = c  BY <1>1
  <2>2. ASSUME NEW m \in 1..(k - 1), toolQ[m] = c PROVE FALSE
    <3>1. m \in 1..n /\ m \in Nat /\ m < k  BY <1>1, <2>1
    <3>2. k <= m  BY <1>3, <2>2, <3>1
    <3> QED  BY <2>1, <3>1, <3>2
  <2> QED  BY <2>1, <2>2
<1> HIDE DEF S
<1>5. Allowed(k - 1)[c] \in {"none", resolution[c]}  BY <1>1, <1>4, AllowedIs
<1>6. Judged(k) = IF Allowed(k - 1)[c] # "none" THEN Allowed(k - 1)[c] ELSE PolicyVerdict(c)
  BY <1>4 DEF Judged, Verdict
<1>7. PolicyVerdict(c) = "allow" => Granted(c)  BY DEF Granted
<1>8. Judged(k) = "allow" => Granted(c)
  <2> DEFINE a == Allowed(k - 1)[c]
  <2> HIDE DEF a, c
  <2>1. a \in {"none", resolution[c]}  BY <1>5 DEF a
  <2>2. Judged(k) = IF a # "none" THEN a ELSE PolicyVerdict(c)  BY <1>6 DEF a
  <2> QED  BY <1>2, <1>7, <2>1, <2>2
<1>9. Judged(n) = "allow" => Judged(k) = "allow"
  <2>1. k = n \/ k \in 1..(n - 1)  BY <1>1, <1>4
  <2> QED  BY <2>1
<1>10. Judged(n) = "ask" => PolicyVerdict(c) = "ask"
  <2> DEFINE a == Allowed(n - 1)[c]
  <2>1. a \in {"allow", "none", resolution[c]}  BY <1>1, AllowedIs
  <2>2. Judged(n) = IF a # "none" THEN a ELSE PolicyVerdict(c)  BY DEF Judged, Verdict
  <2> HIDE DEF a, c
  <2> QED  BY <1>2, <2>1, <2>2
<1> QED  BY <1>8, <1>9, <1>10

\* While everything is allowed, the memory stays founded.
LEMMA AllowedFounded ==
    ASSUME TypeOK, Grants, NEW n \in 0..Len(toolQ), \A m \in 1..n : Judged(m) = "allow"
    PROVE  Founded(Allowed(n))
<1> SUFFICES ASSUME NEW c \in Calls
             PROVE  /\ Allowed(n)[c] = "allow" => Granted(c)
                    /\ Allowed(n)[c] = "ask" => PolicyVerdict(c) = "ask"
  BY DEF Founded
<1>1. /\ resolution[c] = "allow" => Granted(c)
      /\ resolution[c] = "ask" => PolicyVerdict(c) = "ask"
  BY DEF Grants, Founded
<1>2. CASE \E m \in 1..n : toolQ[m] = c
  <2>1. PICK m \in 1..n : toolQ[m] = c  BY <1>2
  <2>2. n \in Nat /\ Len(toolQ) \in Nat  BY FirstBarred
  <2>3. m \in 1..Len(toolQ) /\ \A k \in 1..(m - 1) : k \in 1..n  BY <2>2
  <2>4. \A k \in 1..(m - 1) : Judged(k) = "allow"  BY <2>3
  <2>5. Judged(m) = "allow"  OBVIOUS
  <2>6. Granted(c)  BY <2>1, <2>3, <2>4, <2>5, JudgedFounded
  <2>7. Allowed(n)[c] \in {"allow", "none", resolution[c]}  BY AllowedIs
  <2> QED  BY <1>1, <2>6, <2>7
<1>3. CASE \A m \in 1..n : toolQ[m] # c
  <2>1. Allowed(n)[c] \in {"none", resolution[c]}  BY <1>3, AllowedIs
  <2> QED  BY <1>1, <2>1
<1> QED  BY <1>2, <1>3

\* Where the queue stops, everything before it was allowed and the memory of it is
\* founded.
LEMMA StopFounded ==
    ASSUME TypeOK, Grants, StopAt # 0
    PROVE  /\ StopAt \in 1..Len(toolQ)
           /\ Founded(Allowed(StopAt - 1))
           /\ \A n \in 1..(StopAt - 1) : Granted(toolQ[n])
           /\ Judged(StopAt) = "ask" => PolicyVerdict(toolQ[StopAt]) = "ask"
           /\ Judged(StopAt) # "allow"
<1> DEFINE s == StopAt
<1>1. s \in Barred /\ s \in 1..Len(toolQ) /\ s \in Nat /\ Len(toolQ) \in Nat  BY FirstBarred
<1>2. Judged(s) # "allow"  BY <1>1 DEF Barred
<1>3. \A m \in 1..(s - 1) : m \in 1..Len(toolQ) /\ m \in Nat /\ m < s  BY <1>1
<1>4. \A m \in 1..(s - 1) : Judged(m) = "allow"  BY <1>3, AllowedBefore
<1>5. s - 1 \in 0..Len(toolQ)  BY <1>1
<1> HIDE DEF s
<1>6. Founded(Allowed(s - 1))  BY <1>4, <1>5, AllowedFounded
<1>7. ASSUME NEW n \in 1..(s - 1) PROVE Granted(toolQ[n])
  <2>1. n \in 1..Len(toolQ) /\ \A k \in 1..(n - 1) : k \in 1..(s - 1)  BY <1>1, <1>3
  <2>2. Judged(n) = "allow" /\ \A k \in 1..(n - 1) : Judged(k) = "allow"  BY <1>4, <2>1
  <2> QED  BY <2>1, <2>2, JudgedFounded
<1>8. Judged(s) = "ask" => PolicyVerdict(toolQ[s]) = "ask"  BY <1>1, <1>4, JudgedFounded
<1> QED  BY <1>1, <1>2, <1>6, <1>7, <1>8 DEF s

LEMMA RememberedFounded == TypeOK /\ Grants => Founded(Remembered)
<1> SUFFICES ASSUME TypeOK, Grants PROVE Founded(Remembered)  OBVIOUS
<1>1. CASE StopAt = 0
  <2>1. Len(toolQ) \in Nat  BY FirstBarred
  <2>2. \A m \in 1..Len(toolQ) : Judged(m) = "allow"  BY <1>1, AllowedBefore
  <2>3. Len(toolQ) \in 0..Len(toolQ)  BY <2>1
  <2> QED  BY <1>1, <2>2, <2>3, AllowedFounded DEF Remembered
<1>2. CASE StopAt # 0
  <2> DEFINE a == Allowed(StopAt - 1)
             x == toolQ[StopAt]
             d == Judged(StopAt)
  <2>1. Founded(a) /\ (d = "ask" => PolicyVerdict(x) = "ask") /\ d # "allow"
    BY <1>2, StopFounded
  <2>2. Remembered = Remember(a, x, d)  BY <1>2 DEF Remembered
  <2> HIDE DEF a, x, d
  <2>3. \A c \in Calls : Remembered[c] = IF c = x THEN d
                                        ELSE IF CallId[c] = CallId[x] THEN "none" ELSE a[c]
    BY <2>2 DEF Remember
  <2> QED  BY <2>1, <2>3 DEF Founded
<1> QED  BY <1>1, <1>2

\* The call an answer is taken to be about: the first of the queue with the id.
FirstWith(q, ids) ==
    LET carrying == {n \in 1..Len(q) : ids = <<CallId[q[n]]>>} IN
    q[CHOOSE n \in carrying : \A m \in carrying : n <= m]

LEMMA FirstCarrying ==
    ASSUME NEW q \in Seq(Calls), NEW n \in 1..Len(q), NEW ids, ids = <<CallId[q[n]]>>
    PROVE  /\ \E m \in 1..n : FirstWith(q, ids) = q[m]
           /\ CallId[FirstWith(q, ids)] = CallId[q[n]]
<1> DEFINE S == {m \in 1..Len(q) : ids = <<CallId[q[m]]>>}
           m == CHOOSE j \in S : \A k \in S : j <= k
<1>1. n \in S /\ S \subseteq Nat /\ n \in Nat  OBVIOUS
<1>2. m \in S /\ \A k \in S : m <= k
  <2> HIDE DEF S
  <2> QED  BY <1>1, First
<1>3. m <= n  BY <1>1, <1>2
<1>4. m \in 1..Len(q) /\ <<CallId[q[m]]>> = <<CallId[q[n]]>>  BY <1>2
<1>5. FirstWith(q, ids) = q[m]  BY DEF FirstWith
<1> HIDE DEF S, m
<1>6. m \in 1..n  BY <1>1, <1>3, <1>4
<1> QED  BY <1>4, <1>5, <1>6

\* What persons answered, and what the policy says, does not change under these.
LEMMA GrantsFrame ==
    ASSUME TypeOK, Grants, UNCHANGED answered, UNCHANGED trail,
           resolution' = resolution \/ resolution' = Remembered,
           pc' = "parked" => pc' = pc /\ UNCHANGED resolution,
           phase' = "execute_tool" => phase' = phase /\ UNCHANGED toolQ
    PROVE  Grants'
<1>1. \A c \in Calls : Granted(c)' <=> Granted(c)  BY DEF Granted, PolicyVerdict
<1>2. \A c \in Calls : PolicyVerdict(c)' = PolicyVerdict(c)  BY DEF PolicyVerdict
<1>3. Founded(resolution) /\ Founded(trail) /\ Founded(Remembered)
  BY RememberedFounded DEF Grants
<1>4. Founded(resolution)'
  <2>1. CASE resolution' = resolution
    BY <1>1, <1>2, <1>3, <2>1 DEF Founded
  <2>2. CASE resolution' = Remembered
    <3> DEFINE m == Remembered
    <3>1. \A c \in Calls : (m[c] = "allow" => Granted(c)) /\ (m[c] = "ask" => PolicyVerdict(c) = "ask")
      BY <1>3 DEF Founded
    <3>2. resolution' = m  BY <2>2
    <3> HIDE DEF m
    <3> QED  BY <1>1, <1>2, <3>1, <3>2 DEF Founded
  <2> QED  BY <2>1, <2>2
<1>5. Founded(trail)'  BY <1>1, <1>2, <1>3 DEF Founded
<1>6. pc' = "parked" => trail' = resolution'  BY DEF Grants
<1>7. phase' = "execute_tool" => \A n \in 1..Len(toolQ') : Granted(toolQ[n])'
  <2> SUFFICES ASSUME phase' = "execute_tool", NEW n \in 1..Len(toolQ')
               PROVE  Granted(toolQ[n])'
    OBVIOUS
  <2>1. phase = "execute_tool" /\ toolQ' = toolQ  OBVIOUS
  <2>2. Granted(toolQ[n])  BY <2>1 DEF Grants
  <2> QED  BY <2>1, <2>2 DEF Granted, PolicyVerdict
<1> QED  BY <1>4, <1>5, <1>6, <1>7 DEF Grants

LEMMA GrantsStep == TypeOK /\ Placed /\ Grants /\ Waits /\ [Next]_vars => Grants'
<1> SUFFICES ASSUME TypeOK, Placed, Grants, Waits, [Next]_vars PROVE Grants'  OBVIOUS
<1>1. ASSUME LoopDone \/ LoopCancelled \/ LoopStep PROVE Grants'
  BY <1>1, GrantsFrame DEF LoopDone, LoopCancelled, LoopStep, Fail, outside, talk, files
<1>2. ASSUME Yield PROVE Grants'
  BY <1>2, GrantsFrame DEF Yield, outside, talk
<1>3. ASSUME StepCancelled PROVE Grants'  BY <1>2, <1>3 DEF StepCancelled
<1>4. ASSUME StepOnward PROVE Grants'
  BY <1>4, GrantsFrame DEF StepOnward, At, Onward, Advance, outside, talk, files
<1>5. ASSUME RequestFails \/ Request PROVE Grants'
  BY <1>5, GrantsFrame DEF RequestFails, Request, Fail, outside, talk, files
<1>6. ASSUME StreamCancelled PROVE Grants'  BY <1>2, <1>6 DEF StreamCancelled
<1>7. ASSUME StreamPart \/ StreamUsage \/ StreamError \/ StreamEnd PROVE Grants'
  <2>1. /\ UNCHANGED <<answered, trail, resolution, toolQ>>
        /\ pc' # "parked" \/ pc' = pc
        /\ phase' # "execute_tool" \/ phase' = phase
    BY <1>7 DEF StreamPart, StreamUsage, StreamError, StreamEnd, Fail, Advance, outside, talk,
                files
  <2> QED  BY <2>1, GrantsFrame
<1>8. ASSUME PlanToolCalls PROVE Grants'
  BY <1>8, GrantsFrame DEF PlanToolCalls, Advance, outside, files
<1>9. ASSUME PermissionAllowed PROVE Grants'
  <2>1. /\ UNCHANGED <<answered, trail, toolQ>> /\ resolution' = Remembered
        /\ pc' = "loop" /\ phase' = "execute_tool" /\ StopAt = 0
    BY <1>9 DEF PermissionAllowed, Advance, outside, files, talk
  <2>2. \A n \in 1..Len(toolQ) : Judged(n) = "allow"  BY <2>1, AllowedBefore
  <2>3. ASSUME NEW n \in 1..Len(toolQ) PROVE Granted(toolQ[n])
    <3>1. Len(toolQ) \in Nat  BY FirstBarred
    <3>2. \A m \in 1..(n - 1) : m \in 1..Len(toolQ)  BY <3>1
    <3> QED  BY <2>2, <3>2, JudgedFounded
  <2>4. \A n \in 1..Len(toolQ') : Granted(toolQ[n])'
    BY <2>1, <2>3 DEF Granted, PolicyVerdict
  <2>5. Founded(Remembered)  BY RememberedFounded
  <2>6. Founded(resolution)' /\ Founded(trail)'
    <3> DEFINE m == Remembered
    <3>1. \A c \in Calls : (m[c] = "allow" => Granted(c)) /\ (m[c] = "ask" => PolicyVerdict(c) = "ask")
      BY <2>5 DEF Founded
    <3>2. resolution' = m  BY <2>1
    <3> HIDE DEF m
    <3> QED  BY <2>1, <3>1, <3>2 DEF Founded, Grants, Granted, PolicyVerdict
  <2> QED  BY <2>1, <2>4, <2>6 DEF Grants
<1>10. ASSUME PermissionDenied \/ PermissionAsk PROVE Grants'
  <2>1. /\ UNCHANGED <<answered, trail, toolQ>> /\ resolution' = Remembered
        /\ pc' # "parked" /\ phase' # "execute_tool"
    BY <1>10 DEF PermissionDenied, PermissionAsk, Advance, Fail, outside, files, talk
  <2> QED  BY <2>1, GrantsFrame
<1>11. ASSUME StartQueue \/ Intend \/ Skip \/ Refuse \/ QueueDone PROVE Grants'
  <2>1. /\ UNCHANGED <<answered, trail, resolution, toolQ>> /\ pc' # "parked"
        /\ phase' # "execute_tool" \/ phase' = phase
    BY <1>11 DEF StartQueue, Intend, Skip, Refuse, QueueDone, Executing, Fail, Advance,
                 outside, talk, files
  <2> QED  BY <2>1, GrantsFrame
<1>12. ASSUME EvaluateStop \/ EvaluateMore \/ Checkpoint PROVE Grants'
  <2>1. /\ UNCHANGED <<answered, trail, resolution, toolQ>> /\ pc' # "parked"
        /\ phase' # "execute_tool" \/ phase' = phase
    BY <1>12 DEF EvaluateStop, EvaluateMore, Checkpoint, Fail, Advance, outside, talk, files
  <2> QED  BY <2>1, GrantsFrame
<1>13. ASSUME Observe PROVE Grants'
  <2>1. UNCHANGED <<answered, resolution, toolQ, phase>> /\ trail' = resolution
    BY <1>13 DEF Observe, talk
  <2> QED  BY <2>1 DEF Grants, Founded, Granted, PolicyVerdict
<1>14. ASSUME ToolReturns \/ ToolBreaks PROVE Grants'
  <2>1. UNCHANGED <<answered, trail, resolution, toolQ, phase>> /\ pc' # "parked"
    BY <1>14 DEF ToolReturns, ToolBreaks, Fail, outside, talk
  <2> QED  BY <2>1, GrantsFrame
<1>15. ASSUME Inject \/ Cancel PROVE Grants'
  <2>1. UNCHANGED <<answered, trail, resolution, toolQ, phase, pc>>
    BY <1>15 DEF Inject, Cancel, talk, files
  <2> QED  BY <2>1, GrantsFrame
<1>16. ASSUME NEW d \in {"allow", "deny"}, Answer(d) PROVE Grants'
  <2>1. /\ pc = "parked" /\ pc' # "parked" /\ phase' = "permission_check" /\ UNCHANGED trail
        /\ resolution' = Remember(resolution, Asked, d)
        /\ answered' = [answered EXCEPT ![Asked] = d]
    BY <1>16 DEF Answer
  <2>2. Asking /\ pending = toolQ /\ PolicyVerdict(Asked) # "deny"
    BY <2>1 DEF Placed, Waits, Asking
  <2>3. PICK n \in 1..Len(toolQ) : Pended(n)  BY <2>2 DEF Waits
  <2>4. Asked \in Calls /\ CallId[Asked] = CallId[toolQ[n]]
    <3>1. toolQ \in Seq(Calls) /\ Len(toolQ) \in Nat  BY DEF TypeOK, TalkType
    <3>2. perms = <<CallId[toolQ[n]]>>  BY <2>3 DEF Pended
    <3>3. PICK m \in 1..n : Asked = toolQ[m] /\ CallId[Asked] = CallId[toolQ[n]]
      <4>1. Asked = FirstWith(toolQ, perms)  BY <2>2 DEF Asked, FirstWith
      <4> QED  BY <3>1, <3>2, <4>1, FirstCarrying
    <3>4. m \in 1..Len(toolQ)  BY <3>1
    <3> QED  BY <3>1, <3>3, <3>4
  <2>5. trail = resolution  BY <2>1 DEF Grants
  <2> DEFINE a == Asked
  <2>6. /\ a \in Calls /\ resolution[a] \in {"none", "ask"} /\ PolicyVerdict(a) # "deny"
        /\ PolicyVerdict(a) \in Decisions
        /\ answered' = [answered EXCEPT ![a] = d]
        /\ \A c \in Calls : resolution'[c] \in IF c = a THEN {d} ELSE {"none", resolution[c]}
    <3>1. resolution[a] \in {"none", "ask"}  BY <2>3, <2>4 DEF Pended
    <3>2. PolicyVerdict(a) \in Decisions  BY AgentAssumption DEF PolicyVerdict, Decisions
    <3>3. \A c \in Calls : resolution'[c] \in IF c = a THEN {d} ELSE {"none", resolution[c]}
      BY <2>1, <2>4 DEF Remember
    <3> HIDE DEF a
    <3> QED  BY <2>1, <2>2, <2>4, <3>1, <3>2, <3>3 DEF a
  <2> HIDE DEF a
  <2>7. answered \in [Calls -> Decisions \cup {"none"}]
    BY DEF TypeOK, OutsideType, Memory
  <2>8. \A c \in Calls : answered'[c] = IF c = a THEN d ELSE answered[c]  BY <2>6, <2>7
  <2>9. Founded(trail)'
    <3> SUFFICES ASSUME NEW c \in Calls
                 PROVE  /\ trail'[c] = "allow" => Granted(c)'
                        /\ trail'[c] = "ask" => PolicyVerdict(c)' = "ask"
      BY DEF Founded
    <3>1. trail'[c] = trail[c]  BY <2>1
    <3>2. CASE c = a
      <4>1. trail'[c] # "allow" /\ (trail'[c] = "ask" => trail[c] = "ask")
        BY <2>5, <2>6, <3>1, <3>2
      <4> QED  BY <4>1 DEF Grants, Founded, PolicyVerdict
    <3>3. CASE c # a
      <4>1. answered'[c] = answered[c]  BY <2>8, <3>3
      <4> QED  BY <3>1, <4>1 DEF Grants, Founded, Granted, PolicyVerdict
    <3> QED  BY <3>2, <3>3
  <2>10. Founded(resolution)'
    <3> SUFFICES ASSUME NEW c \in Calls
                 PROVE  /\ resolution'[c] = "allow" => Granted(c)'
                        /\ resolution'[c] = "ask" => PolicyVerdict(c)' = "ask"
      BY DEF Founded
    <3>1. CASE c = a
      <4>1. resolution'[c] = d /\ answered'[c] = d  BY <2>6, <2>8, <3>1
      <4>2. PolicyVerdict(c)' = PolicyVerdict(c)  BY DEF PolicyVerdict
      <4>3. PolicyVerdict(c) \in {"allow", "ask"}  BY <2>6, <3>1 DEF Decisions
      <4> QED  BY <4>1, <4>2, <4>3 DEF Granted
    <3>2. CASE c # a
      <4>1. answered'[c] = answered[c]  BY <2>8, <3>2
      <4>2. resolution'[c] \in {"none", resolution[c]}  BY <2>6, <3>2
      <4> QED  BY <4>1, <4>2 DEF Grants, Founded, Granted, PolicyVerdict
    <3> QED  BY <3>1, <3>2
  <2> QED  BY <2>1, <2>9, <2>10 DEF Grants
<1>17. ASSUME Crash PROVE Grants'
  <2>1. /\ UNCHANGED <<answered, trail>> /\ resolution' = Undecided
        /\ pc' = "down" /\ phase' = "prepare"
    BY <1>17 DEF Crash, Fresh, files
  <2>2. \A c \in Calls : resolution'[c] = "none"  BY <2>1 DEF Undecided
  <2> QED  BY <2>1, <2>2 DEF Grants, Founded, Granted, PolicyVerdict
<1>18. ASSUME Start PROVE Grants'
  <2>1. /\ UNCHANGED <<answered, trail>> /\ resolution' = trail
        /\ pc' = "loop" /\ phase' = "prepare"
    BY <1>18 DEF Start, Fresh, files
  <2> QED  BY <2>1 DEF Grants, Founded, Granted, PolicyVerdict
<1>19. ASSUME UNCHANGED vars PROVE Grants'
  <2>1. UNCHANGED <<answered, trail, resolution, toolQ, phase, pc>>
    BY <1>19 DEF vars, outside, talk, files
  <2> QED  BY <2>1, GrantsFrame
<1> QED
  BY <1>1, <1>3, <1>4, <1>5, <1>6, <1>7, <1>8, <1>9, <1>10, <1>11, <1>12, <1>13, <1>14,
     <1>15, <1>16, <1>17, <1>18, <1>19, Cases

\* What is added to a sequence leaves its beginning alone.
LEMMA PrefixStays ==
    ASSUME NEW S, NEW s \in Seq(S), NEW x \in S, NEW k \in Nat, k <= Len(s)
    PROVE  SubSeq(Append(s, x), 1, k) = SubSeq(s, 1, k)
<1>1. Len(s) \in Nat  OBVIOUS
<1>2. CASE k = 0
  <2>1. SubSeq(Append(s, x), 1, k) = << >>  BY <1>2, SubSeqEmpty
  <2>2. SubSeq(s, 1, k) = << >>  BY <1>2, SubSeqEmpty
  <2> QED  BY <2>1, <2>2
<1>3. CASE k # 0
  <2>1. 1 \in 1..Len(s) /\ k \in 1..Len(s)  BY <1>1, <1>3
  <2>2. <<x>> \in Seq(S) /\ Append(s, x) = s \o <<x>>  BY AppendIsConcat
  <2>3. SubSeq(s \o <<x>>, 1, k) = SubSeq(s, 1, k)  BY <2>1, <2>2, SubSeqOfConcat1
  <2> QED  BY <2>2, <2>3
<1> QED  BY <1>2, <1>3

\* The request of a queue that stopped is about the call it stopped on; what an
\* answer is taken to be about is that call or one that was granted before it.
LEMMA Stopped ==
    ASSUME TypeOK, Grants, StopAt # 0, Judged(StopAt) = "ask", resolution' = Remembered,
           pending' = toolQ, perms' = <<CallId[toolQ[StopAt]]>>, UNCHANGED toolQ
    PROVE  /\ StopAt \in 1..Len(toolQ) /\ \A n : n = StopAt => Pended(n)'
           /\ PolicyVerdict(Asked)' # "deny"
<1> DEFINE s == StopAt
           x == toolQ[StopAt]
<1>1. /\ s \in 1..Len(toolQ) /\ x \in Calls /\ toolQ \in Seq(Calls) /\ Len(toolQ) \in Nat
      /\ PolicyVerdict(x) = "ask" /\ \A n \in 1..(s - 1) : Granted(toolQ[n])
  BY StopFounded, FirstBarred DEF TypeOK, TalkType
<1>2. \A c \in Calls : /\ c = x => resolution'[c] = "ask"
                       /\ c # x /\ CallId[c] = CallId[x] => resolution'[c] = "none"
  BY DEF Remembered, Remember
<1>3. ASSUME NEW n, n = s PROVE Pended(n)'
  <2>1. toolQ'[n] = x /\ perms' = <<CallId[x]>>  BY <1>3
  <2> HIDE DEF x
  <2> QED  BY <1>1, <1>2, <2>1 DEF Pended
<1>4. PolicyVerdict(Asked)' # "deny"
  <2> DEFINE a == Asked'
  <2>1. a = FirstWith(toolQ, perms')  BY DEF Asked, FirstWith
  <2> HIDE DEF a
  <2>2. PICK m \in 1..s : a = toolQ[m]
    <3>1. perms' = <<CallId[toolQ[s]]>>  OBVIOUS
    <3> HIDE DEF s, x
    <3> QED  BY <1>1, <2>1, <3>1, FirstCarrying
  <2>3. PolicyVerdict(toolQ[m]) # "deny"
    <3>1. CASE m = s  BY <1>1, <3>1
    <3>2. CASE m # s
      <4>1. m \in 1..(s - 1)  BY <1>1, <3>2
      <4>2. Granted(toolQ[m])  BY <1>1, <4>1
      <4> QED  BY <4>2 DEF Granted
    <3> QED  BY <3>1, <3>2
  <2>4. PolicyVerdict(a) # "deny"  BY <2>2, <2>3
  <2>5. PolicyVerdict(Asked)' = PolicyVerdict(a)  BY DEF PolicyVerdict, a
  <2> QED  BY <2>4, <2>5
<1> QED  BY <1>1, <1>3, <1>4

LEMMA WaitsStep == TypeOK /\ Placed /\ Grants /\ Waits /\ [Next]_vars => Waits'
<1> SUFFICES ASSUME TypeOK, Placed, Grants, Waits, [Next]_vars PROVE Waits'  OBVIOUS
<1>0. pc \in {"step", "stream", "execute", "tool", "none", "lost", "down"} => pending = <<>>
  BY DEF Placed
<1>1. ASSUME pending' = <<>> \/ phase' # "yield" PROVE Waits'
  BY <1>1 DEF Waits, Asking
<1>2. ASSUME UNCHANGED <<pending, perms, toolQ, resolution, checkpoint, obs, conv, phase>>
      PROVE  Waits'
  <2>1. \A n : Pended(n)' <=> Pended(n)  BY <1>2 DEF Pended
  <2>2. PolicyVerdict(Asked)' = PolicyVerdict(Asked)  BY <1>2 DEF Asked, PolicyVerdict
  <2> QED  BY <1>2, <2>1, <2>2 DEF Waits, Asking
<1>3. ASSUME LoopDone \/ LoopCancelled \/ LoopStep PROVE Waits'
  <2>1. CASE LoopDone \/ LoopStep  BY <1>2, <2>1 DEF LoopDone, LoopStep, talk, files
  <2>2. CASE LoopCancelled
    <3>1. pending = <<>> /\ UNCHANGED pending  BY <2>2 DEF LoopCancelled, Halted, Placed, talk
    <3> QED  BY <1>1, <3>1
  <2> QED  BY <1>3, <2>1, <2>2
<1>4. ASSUME StepCancelled \/ StepOnward \/ RequestFails \/ Request PROVE Waits'
  BY <1>0, <1>1, <1>4 DEF StepCancelled, Yield, StepOnward, RequestFails, Request, At, talk
<1>5. ASSUME StreamCancelled \/ StreamPart \/ StreamUsage \/ StreamError \/ StreamEnd PROVE Waits'
  <2>1. pending = <<>> /\ UNCHANGED pending
    BY <1>0, <1>5 DEF StreamCancelled, Yield, StreamPart, StreamUsage, StreamError, StreamEnd,
                      Reading, talk
  <2> QED  BY <1>1, <2>1
<1>6. ASSUME PlanToolCalls \/ PermissionAllowed \/ PermissionDenied PROVE Waits'
  BY <1>0, <1>1, <1>6 DEF PlanToolCalls, PermissionAllowed, PermissionDenied, At, talk
<1>7. ASSUME PermissionAsk PROVE Waits'
  <2>1. CASE phase' # "yield"  BY <1>1, <2>1
  <2>2. CASE phase' = "yield"
    <3>1. /\ StopAt # 0 /\ Judged(StopAt) = "ask" /\ resolution' = Remembered
          /\ pending' = toolQ /\ perms' = <<CallId[toolQ[StopAt]]>>
          /\ UNCHANGED <<conv, toolQ, obs>> /\ Persist("yield", toolQ, perms')
      BY <1>7, <2>2 DEF PermissionAsk, Advance, Fail
    <3>2. checkpoint' = [phase |-> "yield", conv |-> conv, toolQ |-> toolQ, obs |-> obs,
                         pending |-> toolQ, perms |-> perms']
      BY <3>1 DEF Persist
    <3>3. /\ StopAt \in 1..Len(toolQ) /\ \A n : n = StopAt => Pended(n)'
          /\ PolicyVerdict(Asked)' # "deny"
      BY <3>1, Stopped
    <3>4. (\E n \in 1..Len(toolQ) : Pended(n))'  BY <3>1, <3>3
    <3>5. conv \in Seq(Message) /\ SubSeq(conv, 1, Len(conv)) = conv /\ Len(conv) \in Nat
      BY SubSeqFull DEF TypeOK, TalkType
    <3>6. /\ checkpoint'.phase = "yield" /\ checkpoint'.pending = pending'
          /\ checkpoint'.perms = perms'
          /\ checkpoint'.toolQ = toolQ' /\ checkpoint'.obs = obs' /\ checkpoint'.conv = conv
      BY <3>1, <3>2
    <3>7. /\ Len(checkpoint'.conv) <= Len(conv')
          /\ checkpoint'.conv = SubSeq(conv', 1, Len(checkpoint'.conv))
      BY <3>1, <3>5, <3>6
    <3> QED  BY <3>1, <3>3, <3>4, <3>6, <3>7 DEF Waits
  <2> QED  BY <2>1, <2>2
<1>8. ASSUME StartQueue \/ Intend \/ Skip \/ Refuse \/ QueueDone PROVE Waits'
  <2>1. pending = <<>> /\ UNCHANGED pending
    BY <1>0, <1>8 DEF StartQueue, Intend, Skip, Refuse, QueueDone, At, Executing, talk
  <2> QED  BY <1>1, <2>1
<1>9. ASSUME EvaluateStop \/ EvaluateMore \/ Checkpoint PROVE Waits'
  <2>1. pending = <<>> /\ UNCHANGED pending
    BY <1>0, <1>9 DEF EvaluateStop, EvaluateMore, Checkpoint, At, talk
  <2> QED  BY <1>1, <2>1
<1>10. ASSUME Observe PROVE Waits'  BY <1>2, <1>10 DEF Observe, talk
<1>11. ASSUME ToolReturns \/ ToolBreaks PROVE Waits'
  <2>1. pending = <<>> /\ UNCHANGED pending
    BY <1>0, <1>11 DEF ToolReturns, ToolBreaks, talk
  <2> QED  BY <1>1, <2>1
<1>12. ASSUME Inject PROVE Waits'
  <2>1. CASE ~Asking  BY <1>1, <1>12, <2>1 DEF Inject, Asking
  <2>2. CASE Asking
    <3>1. /\ UNCHANGED <<pending, perms, toolQ, resolution, checkpoint, obs, phase>>
          /\ conv' = Append(conv, Said)
      BY <1>12 DEF Inject, files
    <3> DEFINE cc == checkpoint.conv
    <3>2. /\ conv \in Seq(Message) /\ Len(conv) \in Nat /\ cc \in Seq(Message)
          /\ Len(cc) \in Nat
      <4>1. conv \in Seq(Message) /\ checkpoint \in Snapshot  BY DEF TypeOK, TalkType, FilesType
      <4>2. cc \in Seq(Message)  BY <4>1 DEF Snapshot
      <4> QED  BY <4>1, <4>2
    <3>3. Len(cc) <= Len(conv) /\ cc = SubSeq(conv, 1, Len(cc))  BY <2>2 DEF Waits
    <3> HIDE DEF cc
    <3>4. SubSeq(conv', 1, Len(cc)) = SubSeq(conv, 1, Len(cc))
      BY <3>1, <3>2, <3>3, SaidIsMessage, PrefixStays
    <3>5. Len(conv') = Len(conv) + 1  BY <3>1, <3>2, SaidIsMessage, AppendProperties
    <3>6. Len(cc) <= Len(conv') /\ cc = SubSeq(conv', 1, Len(cc))  BY <3>2, <3>3, <3>4, <3>5
    <3>7. checkpoint'.conv = cc  BY <3>1 DEF cc
    <3>8. Asking' /\ PolicyVerdict(Asked)' = PolicyVerdict(Asked) /\ \A n : Pended(n)' <=> Pended(n)
      BY <2>2, <3>1 DEF Asking, Asked, Pended, PolicyVerdict
    <3> QED  BY <2>2, <3>1, <3>6, <3>7, <3>8 DEF Waits
  <2> QED  BY <2>1, <2>2
<1>13. ASSUME Cancel PROVE Waits'  BY <1>2, <1>13 DEF Cancel, talk, files
<1>14. ASSUME NEW d \in {"allow", "deny"}, Answer(d) PROVE Waits'  BY <1>1, <1>14 DEF Answer
<1>15. ASSUME Crash \/ Start PROVE Waits'  BY <1>1, <1>15 DEF Crash, Start, Fresh
<1>16. ASSUME UNCHANGED vars PROVE Waits'  BY <1>2, <1>16 DEF vars, talk, files
<1> QED
  BY <1>3, <1>4, <1>5, <1>6, <1>7, <1>8, <1>9, <1>10, <1>11, <1>12, <1>13, <1>14, <1>15,
     <1>16, Cases

LEMMA ErredStep == TypeOK /\ Placed /\ Erred /\ [Next]_vars => Erred'
<1> SUFFICES ASSUME TypeOK, Placed, Erred, [Next]_vars PROVE Erred'  OBVIOUS
<1>0. phase \in Phases /\ err \in BOOLEAN /\ cancelled \in BOOLEAN
  BY DEF TypeOK, PlaceType, OutsideType
<1> USE DEF Erred, Driving
<1>1. ASSUME ~err, NEW p, Advance(p) PROVE Erred'  BY <1>1 DEF Advance
<1>2. ASSUME NEW p, Fail(p), p \notin {"complete", "yield"} PROVE Erred'  BY <1>2 DEF Fail
<1>3. ASSUME Yield PROVE Erred'  BY <1>3 DEF Yield
<1>4. ASSUME LoopDone \/ LoopCancelled \/ LoopStep PROVE Erred'
  <2>1. CASE LoopDone  BY <2>1 DEF LoopDone
  <2>2. CASE LoopCancelled  BY <2>2 DEF LoopCancelled, Fail, outside
  <2>3. CASE LoopStep  BY <2>3 DEF LoopStep
  <2> QED  BY <1>4, <2>1, <2>2, <2>3
<1>5. ASSUME StepCancelled PROVE Erred'  BY <1>3, <1>5 DEF StepCancelled
<1>6. ASSUME StreamCancelled PROVE Erred'  BY <1>3, <1>6 DEF StreamCancelled
<1>7. ASSUME StepOnward PROVE Erred'  BY <1>1, <1>7 DEF StepOnward, At
<1>8. ASSUME RequestFails \/ Request PROVE Erred'
  BY <1>2, <1>8 DEF RequestFails, Request, At
<1>9. ASSUME pc \in Driving, pc' \in Driving, UNCHANGED err PROVE Erred'  BY <1>9
<1>10. ASSUME StreamPart \/ StreamUsage PROVE Erred'
  BY <1>9, <1>10 DEF StreamPart, StreamUsage, Reading
<1>11. ASSUME StreamError PROVE Erred'  BY <1>2, <1>11 DEF StreamError
<1>12. ASSUME StreamEnd \/ PlanToolCalls PROVE Erred'
  BY <1>1, <1>12 DEF StreamEnd, PlanToolCalls, At
<1>13. ASSUME PermissionAllowed \/ PermissionDenied \/ PermissionAsk PROVE Erred'
  BY <1>1, <1>2, <1>13 DEF PermissionAllowed, PermissionDenied, PermissionAsk, At
<1>14. ASSUME StartQueue \/ Intend \/ Skip \/ Refuse \/ QueueDone PROVE Erred'
  BY <1>1, <1>2, <1>9, <1>14 DEF StartQueue, Intend, Skip, Refuse, QueueDone, At, Executing
<1>15. ASSUME EvaluateStop \/ EvaluateMore \/ Checkpoint PROVE Erred'
  BY <1>1, <1>2, <1>15 DEF EvaluateStop, EvaluateMore, Checkpoint, At
<1>16. ASSUME Observe PROVE Erred'
  BY <1>16 DEF Observe
<1>17. ASSUME ToolReturns PROVE Erred'  BY <1>9, <1>17 DEF ToolReturns
<1>18. ASSUME ToolBreaks PROVE Erred'  BY <1>2, <1>18 DEF ToolBreaks, Placed
<1>19. ASSUME Inject \/ Cancel PROVE Erred'  BY <1>19 DEF Inject, Cancel
<1>20. ASSUME NEW d \in {"allow", "deny"}, Answer(d) PROVE Erred'
  BY <1>20 DEF Answer, Placed
<1>21. ASSUME Crash \/ Start PROVE Erred'  BY <1>21 DEF Crash, Start, Fresh
<1>22. ASSUME UNCHANGED vars PROVE Erred'  BY <1>22 DEF vars, outside
<1> QED
  BY <1>4, <1>5, <1>6, <1>7, <1>8, <1>10, <1>11, <1>12, <1>13, <1>14, <1>15, <1>16, <1>17,
     <1>18, <1>19, <1>20, <1>21, <1>22, Cases

LEMMA InitInvariant == Init => IInv
<1> SUFFICES ASSUME Init PROVE IInv  OBVIOUS
<1>1. TypeOK  BY TypeInit
<1>2. Placed  BY DEF Init, Placed
<1>3. Reserved  BY DEF Init, Reserved
<1>4. Accounted  BY AgentAssumption DEF Init, Accounted, NoLedger
<1>5. Grants  BY DEF Init, Grants, Founded, Undecided
<1>6. Waits  BY DEF Init, Waits, Asking
<1>7. Erred  BY DEF Init, Erred, Driving
<1> QED  BY <1>1, <1>2, <1>3, <1>4, <1>5, <1>6, <1>7 DEF IInv

\* The parts of the invariant lean on one another: an answer is founded because
\* the request that waits is about what the policy asks, and that is so because
\* of where the goroutine is.
THEOREM Inductive == Spec => []IInv
<1>1. IInv /\ [Next]_vars => IInv'
  BY TypeStep, PlacedStep, ReservedStep, AccountedStep, GrantsStep, WaitsStep, ErredStep
     DEF IInv
<1> QED  BY <1>1, InitInvariant, PTL DEF Spec

\* Every variable keeps its type.
THEOREM TypeCorrect == Spec => []TypeOK
<1>1. IInv => TypeOK  BY DEF IInv
<1> QED  BY <1>1, Inductive, PTL

\* A run that waits for a decision can be rebuilt from the disk: the checkpoint
\* PermissionAsk wrote still has the request, its calls and the conversation.
THEOREM WaitingIsOnDisk == Spec => []AskIsOnDisk
<1>1. IInv => AskIsOnDisk
  <2> SUFFICES ASSUME IInv, pc = "parked"
               PROVE  /\ Asking
                      /\ \E n \in 1..Len(pending) :
                            perms = <<CallId[pending[n]]>> /\ trail[pending[n]] = "ask"
                      /\ checkpoint.phase = "yield"
                      /\ checkpoint.pending = pending /\ checkpoint.perms = perms
                      /\ checkpoint.toolQ = toolQ /\ checkpoint.obs = obs
                      /\ checkpoint.conv = SubSeq(conv, 1, Len(checkpoint.conv))
    BY DEF AskIsOnDisk
  <2>1. Asking  BY DEF IInv, Placed, Asking
  <2>2. trail = resolution  BY DEF IInv, Grants
  <2> QED  BY <2>1, <2>2 DEF IInv, Waits, Pended
<1> QED  BY <1>1, Inductive, PTL

\* The ceiling of an id holds over its lives, up to what the last call reports
\* beyond its reservation, and no reservation outlives its call.
THEOREM CeilingKept == Spec => []CeilingHolds
<1>1. IInv => CeilingHolds
  <2> SUFFICES ASSUME IInv PROVE CeilingHolds  OBVIOUS
  <2>1. held # 0 => pc = "stream"  BY DEF IInv, Reserved
  <2>2. TokenLimit > 0 /\ ~crashed => charged = 0 \/ charged + Allowance <= TokenLimit + MaxReport
    BY DEF IInv, Accounted
  <2> QED  BY <2>1, <2>2 DEF CeilingHolds
<1> QED  BY <1>1, Inductive, PTL

\* Nothing of a turn runs before everything the turn wants was granted.
THEOREM RunsAreGranted == Spec => RanWasGranted
<1>1. IInv /\ [Next]_vars =>
        \A c \in Calls : ran'[c] > ran[c] => \A n \in 1..Len(toolQ) : Granted(toolQ[n])
  <2> SUFFICES ASSUME IInv, [Next]_vars, NEW c \in Calls, ran'[c] > ran[c]
               PROVE  \A n \in 1..Len(toolQ) : Granted(toolQ[n])
    OBVIOUS
  <2> DEFINE P == pc = "tool"
  <2>1. ran[c] \in Nat  BY DEF IInv, TypeOK, TalkType
  <2>2. ASSUME UNCHANGED ran PROVE P  BY <2>1, <2>2
  <2>3. LoopDone \/ LoopCancelled \/ LoopStep => UNCHANGED ran
    BY DEF LoopDone, LoopCancelled, LoopStep, talk
  <2>4. Yield => UNCHANGED ran  BY DEF Yield, talk
  <2>5. StepCancelled => UNCHANGED ran  BY <2>4 DEF StepCancelled
  <2>6. StepOnward \/ RequestFails \/ Request => UNCHANGED ran
    BY DEF StepOnward, RequestFails, Request, talk
  <2>7. StreamCancelled => UNCHANGED ran  BY <2>4 DEF StreamCancelled
  <2>8. StreamPart \/ StreamUsage \/ StreamError \/ StreamEnd => UNCHANGED ran
    BY DEF StreamPart, StreamUsage, StreamError, StreamEnd, talk
  <2>9. PlanToolCalls \/ PermissionAllowed \/ PermissionDenied \/ PermissionAsk => UNCHANGED ran
    BY DEF PlanToolCalls, PermissionAllowed, PermissionDenied, PermissionAsk, talk
  <2>10. StartQueue \/ Intend \/ Skip \/ Refuse \/ QueueDone => UNCHANGED ran
    BY DEF StartQueue, Intend, Skip, Refuse, QueueDone, talk
  <2>11. EvaluateStop \/ EvaluateMore \/ Checkpoint \/ Observe => UNCHANGED ran
    BY DEF EvaluateStop, EvaluateMore, Checkpoint, Observe, talk
  <2>12. ToolReturns \/ ToolBreaks => P  BY DEF ToolReturns, ToolBreaks
  <2>13. Inject \/ Cancel => UNCHANGED ran  BY DEF Inject, Cancel, talk
  <2>14. \A d \in {"allow", "deny"} : Answer(d) => UNCHANGED ran  BY DEF Answer
  <2>15. Crash \/ Start => P
    <3>1. Fresh => ran'[c] = 0  BY DEF Fresh
    <3> QED  BY <2>1, <3>1 DEF Crash, Start
  <2>16. UNCHANGED vars => UNCHANGED ran  BY DEF vars, talk
  <2> HIDE DEF P
  <2>17. P
    BY <2>2, <2>3, <2>5, <2>6, <2>7, <2>8, <2>9, <2>10, <2>11, <2>12, <2>13, <2>14, <2>15,
       <2>16, Cases
  <2>18. phase = "execute_tool"  BY <2>17 DEF IInv, Placed, P
  <2> QED  BY <2>18 DEF IInv, Grants
<1> QED  BY <1>1, Inductive, PTL DEF Spec, RanWasGranted

-----------------------------------------------------------------------------
(* The contract: what the daemon may rely on when the run returns.         *)

LEMMA StageOf ==
    /\ ~Concluded /\ pc \in Driving \cup {"returned"} => Stage = "going" /\ Outlook = verdict
    /\ pc \in {"none", "down"} => Stage = "none" /\ Outlook = verdict
    /\ pc = "parked" => Stage = "ask" /\ Outlook = verdict
    /\ pc = "lost" => Stage = "lost" /\ Outlook = verdict
    /\ pc = "gone" => Stage = "stopped" /\ Outlook = verdict
    /\ Concluded /\ pending # <<>> => Stage = "ask" /\ Outlook = RunVerdict
    /\ Concluded /\ pending = <<>> => Stage = "stopped" /\ Outlook = RunVerdict
BY DEF Stage, Outlook, Concluded, Driving

LEMMA StageOfNext ==
    /\ ~Concluded' /\ pc' \in Driving \cup {"returned"} => Stage' = "going" /\ Outlook' = verdict'
    /\ pc' \in {"none", "down"} => Stage' = "none" /\ Outlook' = verdict'
    /\ pc' = "parked" => Stage' = "ask" /\ Outlook' = verdict'
    /\ pc' = "lost" => Stage' = "lost" /\ Outlook' = verdict'
    /\ pc' = "gone" => Stage' = "stopped" /\ Outlook' = verdict'
    /\ Concluded' /\ pending' # <<>> => Stage' = "ask" /\ Outlook' = RunVerdict'
    /\ Concluded' /\ pending' = <<>> => Stage' = "stopped" /\ Outlook' = RunVerdict'
BY DEF Stage, Outlook, Concluded, Driving

\* The steps of the contract, over its state here.
LEMMA ContractSteps ==
    /\ Stage = "none" /\ Outlook = "none" /\ Saved = "none" /\ cancelled = FALSE => Contract!Init
    /\ UNCHANGED <<Stage, Outlook, Saved, cancelled>> => UNCHANGED Contract!vars
    /\ /\ Stage \in {"none", "stopped"} /\ Stage' = "going" /\ Outlook' = "none"
       /\ cancelled' = FALSE /\ UNCHANGED Saved
       => Contract!Next
    /\ Stage # "none" /\ ~cancelled /\ cancelled' = TRUE /\ UNCHANGED <<Stage, Outlook, Saved>>
       => Contract!Next
    /\ /\ Stage = "going" /\ Stage' = "stopped"
       /\ \/ Outlook' \in {"complete", "yielded"} /\ Saved' = "safe"
          \/ cancelled /\ Outlook' \in {"cancelled", "yielded"} /\ Saved' \in {"safe", Saved}
          \/ Outlook' = (IF cancelled THEN "cancelled" ELSE "failed") /\ Saved' = Saved
       /\ UNCHANGED cancelled
       => Contract!Next
    /\ /\ Stage = "going" /\ Saved' = "ask" /\ Stage' = "ask" /\ Outlook' = "awaiting_approval"
       /\ UNCHANGED cancelled
       => Contract!Next
    /\ /\ Stage = "ask" /\ Stage' = "going" /\ Outlook' = "none" /\ Saved' = "safe"
       /\ UNCHANGED cancelled
       => Contract!Next
    /\ Stage = "ask" /\ Stage' = "lost" /\ UNCHANGED <<Outlook, Saved, cancelled>>
       => Contract!Next
    /\ Stage' = "none" /\ Outlook' = "none" /\ cancelled' = FALSE /\ UNCHANGED Saved
       => Contract!Next
<1> USE DEF Stage, Outlook, Saved
<1>1. Stage = "none" /\ Outlook = "none" /\ Saved = "none" /\ cancelled = FALSE => Contract!Init
  BY DEF Contract!Init
<1>2. UNCHANGED <<Stage, Outlook, Saved, cancelled>> => UNCHANGED Contract!vars
  BY DEF Contract!vars
<1>3. /\ Stage \in {"none", "stopped"} /\ Stage' = "going" /\ Outlook' = "none"
      /\ cancelled' = FALSE /\ UNCHANGED Saved
      => Contract!Begin
  BY DEF Contract!Begin
<1>4. Stage # "none" /\ ~cancelled /\ cancelled' = TRUE /\ UNCHANGED <<Stage, Outlook, Saved>>
      => Contract!Cancel
  BY DEF Contract!Cancel
<1>5. /\ Stage = "going" /\ Stage' = "stopped"
      /\ \/ Outlook' \in {"complete", "yielded"} /\ Saved' = "safe"
         \/ cancelled /\ Outlook' \in {"cancelled", "yielded"} /\ Saved' \in {"safe", Saved}
         \/ Outlook' = (IF cancelled THEN "cancelled" ELSE "failed") /\ Saved' = Saved
      /\ UNCHANGED cancelled
      => Contract!Stop
  BY DEF Contract!Stop
<1>6. /\ Stage = "going" /\ Saved' = "ask" /\ Stage' = "ask" /\ Outlook' = "awaiting_approval"
      /\ UNCHANGED cancelled
      => Contract!Ask
  BY DEF Contract!Ask
<1>7. /\ Stage = "ask" /\ Stage' = "going" /\ Outlook' = "none" /\ Saved' = "safe"
      /\ UNCHANGED cancelled
      => Contract!Answer
  BY DEF Contract!Answer
<1>8. Stage = "ask" /\ Stage' = "lost" /\ UNCHANGED <<Outlook, Saved, cancelled>>
      => Contract!Lose
  BY DEF Contract!Lose
<1>9. Stage' = "none" /\ Outlook' = "none" /\ cancelled' = FALSE /\ UNCHANGED Saved
      => Contract!End
  BY DEF Contract!End
<1> HIDE DEF Stage, Outlook, Saved
<1> QED
  BY <1>1, <1>2, <1>3, <1>4, <1>5, <1>6, <1>7, <1>8, <1>9 DEF Contract!Next, Contract!Return

\* A step that neither concludes nor ends the run nor writes its checkpoint.
LEMMA GoesOn ==
    ASSUME ~Concluded, ~Concluded', pc \in Driving \cup {"returned"},
           pc' \in Driving \cup {"returned"}, UNCHANGED <<verdict, cancelled, checkpoint>>
    PROVE  UNCHANGED Contract!vars
<1>1. UNCHANGED Saved  BY DEF Saved
<1> QED  BY <1>1, StageOf, StageOfNext, ContractSteps

\* A pause is taken only by a run that was cancelled, and may fail to be written.
LEMMA Pauses ==
    ASSUME TypeOK, Placed, ~Concluded, pc \in {"loop", "step", "stream"}, cancelled,
           UNCHANGED <<pending, cancelled>>, pc' = "returned", phase' = "yield",
           Persist("yield", pending, perms) \/ UNCHANGED checkpoint
    PROVE  Contract!Next
<1>1. pending = <<>>  BY DEF Placed, Concluded
<1>2. Concluded' /\ pending' = <<>>  BY <1>1 DEF Concluded
<1>3. Outlook' = RunVerdict'  BY <1>2, StageOfNext
<1>4. RunVerdict' \in {"cancelled", "yielded"}  BY <1>2 DEF RunVerdict
<1>5. Persist("yield", pending, perms) => Saved' = "safe"  BY <1>1 DEF Persist, Saved
<1>6. UNCHANGED checkpoint => Saved' = Saved  BY DEF Saved
<1>7. Stage = "going" /\ Stage' = "stopped"  BY <1>2, StageOf, StageOfNext DEF Driving
<1> QED  BY <1>3, <1>4, <1>5, <1>6, <1>7, ContractSteps

\* Every step of the runner is a step of the contract or none.
LEMMA ContractStep ==
    TypeOK /\ Placed /\ Erred /\ [Next]_vars => [Contract!Next]_(Contract!vars)
<1> SUFFICES ASSUME TypeOK, Placed, Erred, [Next]_vars
             PROVE  Contract!Next \/ UNCHANGED Contract!vars
  OBVIOUS
<1> DEFINE C == Contract!Next \/ UNCHANGED Contract!vars
           Going == Driving \cup {"returned"}
<1>0. /\ cancelled \in BOOLEAN /\ pc \in Locations /\ phase \in Phases /\ err \in BOOLEAN
      /\ toolQ \in Seq(Calls)
  BY DEF TypeOK, OutsideType, PlaceType, TalkType
\* A step in a phase that is not an end, to one that is not.
<1>1. ASSUME pc \in Driving, phase \notin {"complete", "yield"}, NEW p,
             Advance(p) \/ Fail(p), p \notin {"complete", "yield"},
             UNCHANGED <<verdict, cancelled, checkpoint>>
      PROVE  C
  <2>1. ~Concluded /\ ~Concluded'  BY <1>1 DEF Concluded, Advance, Fail
  <2>2. pc' \in Going  BY <1>1 DEF Advance, Fail, Driving
  <2> QED  BY <1>1, <2>1, <2>2, GoesOn
<1>2. ASSUME pc \in Driving \ {"loop"}, pc' \in Driving \ {"loop"},
             UNCHANGED <<verdict, cancelled, checkpoint>>
      PROVE  C
  <2>1. ~Concluded /\ ~Concluded'  BY <1>2 DEF Concluded, Driving
  <2> QED  BY <1>2, <2>1, GoesOn
<1>3. ASSUME LoopDone \/ LoopCancelled \/ LoopStep PROVE C
  <2>1. CASE LoopDone
    <3>1. phase \in {"complete", "yield"}  BY <1>0, <2>1 DEF LoopDone, Halted, Placed
    <3>2. Concluded /\ Concluded'  BY <2>1, <3>1 DEF LoopDone, Concluded
    <3>3. err = FALSE /\ err' = FALSE  BY <1>0, <2>1 DEF LoopDone, Erred, Driving
    <3>4. UNCHANGED <<phase, pending, checkpoint, cancelled>>
      BY <2>1 DEF LoopDone, talk, files, outside
    <3>5. RunVerdict' = RunVerdict  BY <3>3, <3>4 DEF RunVerdict
    <3>6. UNCHANGED Saved  BY <3>4 DEF Saved
    <3> QED  BY <3>2, <3>4, <3>5, <3>6, StageOf, StageOfNext, ContractSteps
  <2>2. CASE LoopCancelled
    <3>1. ~Concluded  BY <2>2 DEF LoopCancelled, Halted, Concluded
    <3> QED  BY <2>2, <3>1, Pauses DEF LoopCancelled, Fail, talk, outside
  <2>3. CASE LoopStep
    <3>1. ~Concluded /\ ~Concluded'  BY <2>3 DEF LoopStep, Halted, Concluded
    <3> QED  BY <2>3, <3>1, GoesOn DEF LoopStep, Driving, outside, files
  <2> QED  BY <1>3, <2>1, <2>2, <2>3
<1>4. ASSUME StepCancelled PROVE C
  <2>1. ~Concluded  BY <1>4 DEF StepCancelled, Concluded
  <2> QED  BY <1>4, <2>1, Pauses DEF StepCancelled, Yield, talk, outside
<1>5. ASSUME StepOnward PROVE C
  <2>1. PICK p \in DOMAIN Onward : At(p) /\ Advance(Onward[p])  BY <1>5 DEF StepOnward
  <2>2. p \notin {"complete", "yield"} /\ Onward[p] \notin {"complete", "yield"}
    BY DEF Onward
  <2> QED  BY <1>1, <1>5, <2>1, <2>2 DEF StepOnward, At, Driving, outside, files
<1>6. ASSUME RequestFails \/ Request PROVE C
  <2>1. CASE RequestFails  BY <1>1, <2>1 DEF RequestFails, At, Driving, outside, files
  <2>2. CASE Request  BY <1>2, <2>2 DEF Request, At, Driving, outside, files
  <2> QED  BY <1>6, <2>1, <2>2
<1>7. ASSUME StreamCancelled PROVE C
  <2>1. ~Concluded  BY <1>7 DEF StreamCancelled, Reading, Concluded
  <2> QED  BY <1>7, <2>1, Pauses DEF StreamCancelled, Reading, Yield, talk, outside
<1>8. ASSUME StreamPart \/ StreamUsage PROVE C
  BY <1>2, <1>8 DEF StreamPart, StreamUsage, Reading, Driving, outside, files
<1>9. ASSUME StreamError \/ StreamEnd PROVE C
  <2>1. pc = "stream" /\ phase = "request_model"
    BY <1>9 DEF StreamError, StreamEnd, Reading, Placed
  <2> QED  BY <1>1, <1>9, <2>1 DEF StreamError, StreamEnd, Driving, outside, files
<1>10. ASSUME PlanToolCalls \/ PermissionAllowed \/ PermissionDenied PROVE C
  BY <1>1, <1>10 DEF PlanToolCalls, PermissionAllowed, PermissionDenied, At, Driving,
                     outside, files
<1>11. ASSUME PermissionAsk PROVE C
  <2>1. pc = "step" /\ phase = "permission_check" /\ pending' = toolQ
        /\ UNCHANGED <<verdict, cancelled>>
    BY <1>11 DEF PermissionAsk, At, outside
  <2>2. CASE Advance("yield") /\ Persist("yield", toolQ, perms')
    <3>1. toolQ # <<>>  BY <1>11 DEF PermissionAsk, StopAt, Barred
    <3>2. Concluded' /\ pending' # <<>>  BY <2>1, <2>2, <3>1 DEF Concluded, Advance
    <3>3. err' = FALSE  BY <1>0, <2>1, <2>2 DEF Advance, Erred, Driving
    <3>4. RunVerdict' = "awaiting_approval"
      BY <2>2, <3>2, <3>3 DEF RunVerdict, Advance
    <3>5. Saved' = "ask"  BY <2>2, <3>1 DEF Persist, Saved
    <3>6. ~Concluded  BY <2>1 DEF Concluded
    <3> QED  BY <2>1, <3>2, <3>4, <3>5, <3>6, StageOf, StageOfNext, ContractSteps DEF Driving
  <2>3. CASE Fail("failed") /\ UNCHANGED checkpoint
    BY <1>1, <2>1, <2>3 DEF Driving
  <2> QED  BY <1>11, <2>2, <2>3 DEF PermissionAsk
<1>12. ASSUME StartQueue \/ Intend \/ Skip \/ Refuse \/ QueueDone PROVE C
  <2>1. pc \in {"execute", "tool"} => phase = "execute_tool"  BY DEF Placed
  <2>2. CASE StartQueue \/ Intend \/ Skip
    BY <1>2, <2>2 DEF StartQueue, Intend, Skip, At, Executing, Driving, outside, files
  <2>3. CASE Refuse \/ QueueDone
    BY <1>1, <2>1, <2>3 DEF Refuse, QueueDone, Executing, Driving, outside, files
  <2> QED  BY <1>12, <2>2, <2>3
<1>13. ASSUME EvaluateStop \/ EvaluateMore PROVE C
  BY <1>1, <1>13 DEF EvaluateStop, EvaluateMore, At, Driving, outside, files
<1>14. ASSUME Checkpoint PROVE C
  <2>1. pc = "step" /\ phase = "checkpoint" /\ UNCHANGED <<verdict, cancelled, pending>>
    BY <1>14 DEF Checkpoint, At, outside, talk
  <2>2. CASE /\ Advance(IF stop = "completed" \/ turns >= MaxTurns THEN "complete" ELSE "yield")
             /\ Persist(phase, pending, perms)
    <3>1. pending = <<>>  BY <2>1 DEF Placed
    <3>2. Concluded' /\ pending' = <<>>  BY <2>1, <2>2, <3>1 DEF Concluded, Advance
    <3>3. err' = FALSE  BY <1>0, <2>1, <2>2 DEF Advance, Erred, Driving
    <3>4. RunVerdict' \in {"complete", "yielded"}  BY <3>2, <3>3 DEF RunVerdict
    <3>5. Saved' = "safe"  BY <2>1, <2>2, <3>1 DEF Persist, Saved
    <3>6. ~Concluded  BY <2>1 DEF Concluded
    <3> QED  BY <2>1, <3>2, <3>4, <3>5, <3>6, StageOf, StageOfNext, ContractSteps DEF Driving
  <2>3. CASE Fail(phase) /\ UNCHANGED checkpoint  BY <1>1, <2>1, <2>3 DEF Driving
  <2> QED  BY <1>14, <2>2, <2>3 DEF Checkpoint
<1>15. ASSUME Observe PROVE C
  <2>1. /\ pc = "returned" /\ verdict' = RunVerdict /\ UNCHANGED <<cancelled, checkpoint>>
        /\ pc' = IF RunVerdict = "awaiting_approval" THEN "parked" ELSE "gone"
    BY <1>15 DEF Observe
  <2>2. UNCHANGED Saved  BY <2>1 DEF Saved
  <2>3. CASE ~Concluded
    <3>1. err  BY <2>1, <2>3 DEF Concluded, Placed
    <3>2. RunVerdict = IF cancelled THEN "cancelled" ELSE "failed"  BY <3>1 DEF RunVerdict
    <3>3. pc' = "gone"  BY <2>1, <3>2
    <3> QED  BY <2>1, <2>2, <2>3, <3>2, <3>3, StageOf, StageOfNext, ContractSteps
  <2>4. CASE Concluded /\ pending # <<>>
    <3>1. phase = "yield" /\ ~err  BY <2>1, <2>4 DEF Concluded, Placed
    <3>2. RunVerdict = "awaiting_approval"  BY <2>4, <3>1 DEF RunVerdict
    <3> QED  BY <2>1, <2>2, <2>4, <3>2, StageOf, StageOfNext, ContractSteps
  <2>5. CASE Concluded /\ pending = <<>>
    <3>1. RunVerdict # "awaiting_approval"  BY <2>5 DEF RunVerdict
    <3> QED  BY <2>1, <2>2, <2>5, <3>1, StageOf, StageOfNext, ContractSteps
  <2> QED  BY <2>3, <2>4, <2>5
<1>16. ASSUME ToolReturns PROVE C  BY <1>2, <1>16 DEF ToolReturns, Driving, outside
<1>17. ASSUME ToolBreaks PROVE C
  <2>1. pc = "tool" /\ phase = "execute_tool"  BY <1>17 DEF ToolBreaks, Placed
  <2> QED  BY <1>1, <1>17, <2>1 DEF ToolBreaks, Driving, outside
<1>18. ASSUME Inject PROVE C
  <2>1. UNCHANGED <<pc, phase, err, pending, verdict, cancelled, checkpoint>>
    BY <1>18 DEF Inject, files
  <2> QED  BY <2>1, ContractSteps DEF Stage, Outlook, Saved, Concluded, RunVerdict
<1>19. ASSUME Cancel PROVE C
  <2>1. /\ pc \notin {"none", "gone", "down"} /\ ~cancelled /\ cancelled' = TRUE
        /\ UNCHANGED <<pc, phase, err, pending, verdict, checkpoint>>
    BY <1>19 DEF Cancel, talk, files
  <2>2. UNCHANGED <<Stage, Saved>>  BY <2>1 DEF Stage, Saved, Concluded
  <2>3. Concluded => ~err  BY <1>0, <2>1 DEF Concluded, Erred, Driving
  <2>4. UNCHANGED Outlook  BY <2>1, <2>3 DEF Outlook, Concluded, RunVerdict
  <2>5. Stage # "none"  BY <1>0, <2>1, StageOf DEF Locations
  <2> QED  BY <2>1, <2>2, <2>4, <2>5, ContractSteps
<1>20. ASSUME NEW d \in {"allow", "deny"}, Answer(d) PROVE C
  <2>1. pc = "parked" /\ phase' = "permission_check" /\ UNCHANGED cancelled
    BY <1>20 DEF Answer
  <2>2. CASE pc' = "lost"
    <3>1. UNCHANGED <<verdict, checkpoint>>  BY <1>20, <2>2 DEF Answer
    <3>2. UNCHANGED Saved  BY <3>1 DEF Saved
    <3> QED  BY <2>1, <2>2, <3>1, <3>2, StageOf, StageOfNext, ContractSteps
  <2>3. CASE pc' # "lost"
    <3>1. pc' = "loop" /\ verdict' = "none" /\ Persist("permission_check", <<>>, <<>>)
      BY <1>20, <2>3 DEF Answer
    <3>2. Saved' = "safe"  BY <3>1 DEF Persist, Saved
    <3>3. ~Concluded'  BY <2>1 DEF Concluded
    <3> QED  BY <2>1, <3>1, <3>2, <3>3, StageOf, StageOfNext, ContractSteps DEF Driving
  <2> QED  BY <2>2, <2>3
<1>21. ASSUME Crash PROVE C
  <2>1. pc' = "down" /\ verdict' = "none" /\ cancelled' = FALSE /\ UNCHANGED checkpoint
    BY <1>21 DEF Crash, Fresh, files
  <2>2. UNCHANGED Saved  BY <2>1 DEF Saved
  <2> QED  BY <2>1, <2>2, StageOfNext, ContractSteps
<1>22. ASSUME Start PROVE C
  <2>1. /\ pc \in {"none", "gone", "down"} /\ pc' = "loop" /\ phase' = "prepare"
        /\ verdict' = "none" /\ cancelled' = FALSE /\ UNCHANGED checkpoint
    BY <1>22 DEF Start, Fresh, files
  <2>2. UNCHANGED Saved  BY <2>1 DEF Saved
  <2>3. ~Concluded'  BY <2>1 DEF Concluded
  <2>4. Stage \in {"none", "stopped"}  BY <2>1, StageOf
  <2> QED  BY <2>1, <2>2, <2>3, <2>4, StageOfNext, ContractSteps DEF Driving
<1>23. ASSUME UNCHANGED vars PROVE C
  <2>1. UNCHANGED <<pc, phase, err, pending, verdict, cancelled, checkpoint>>
    BY <1>23 DEF vars, talk, outside, files
  <2> QED  BY <2>1, ContractSteps DEF Stage, Outlook, Saved, Concluded, RunVerdict
<1> HIDE DEF C
<1>24. C
  BY <1>3, <1>4, <1>5, <1>6, <1>7, <1>8, <1>9, <1>10, <1>11, <1>12, <1>13, <1>14, <1>15,
     <1>16, <1>17, <1>18, <1>19, <1>20, <1>21, <1>22, <1>23, Cases
<1> QED  BY <1>24 DEF C

\* The runner keeps the contract the daemon relies on: as soon as it knows how it
\* returns, the latest checkpoint bears out what it will report, and an answer is
\* on disk before the run goes on.
THEOREM ContractKept == Spec => ContractSpec
<1>1. Init => Contract!Init
  BY StageOf, ContractSteps DEF Init, Saved, NoCheckpoint
<1>2. IInv => TypeOK /\ Placed /\ Erred  BY DEF IInv
<1> QED
  BY <1>1, <1>2, ContractStep, Inductive, PTL DEF Spec, ContractSpec, Contract!Spec

-----------------------------------------------------------------------------
(* The round trip: what ran is reported once, in the order it was asked for. *)

\* How often an element occurs in a sequence: in none, in one made longer by
\* one, and in two put together.
LEMMA TimesEmpty == \A x : Times(<<>>, x) = 0
<1> TAKE x
<1>1. {n \in 1..Len(<<>>) : <<>>[n] = x} = {}  OBVIOUS
<1> QED  BY <1>1, FS_EmptySet DEF Times

LEMMA TimesFinite ==
    ASSUME NEW S, NEW q \in Seq(S), NEW x
    PROVE  /\ IsFiniteSet({n \in 1..Len(q) : q[n] = x})
           /\ Times(q, x) \in Nat
<1>1. Len(q) \in Nat  BY LenProperties
<1>2. IsFiniteSet(1..Len(q))  BY <1>1, FS_Interval
<1>3. {n \in 1..Len(q) : q[n] = x} \in SUBSET (1..Len(q))  OBVIOUS
<1>4. IsFiniteSet({n \in 1..Len(q) : q[n] = x})  BY <1>2, <1>3, FS_Subset
<1> QED  BY <1>4, FS_CardinalityType DEF Times

LEMMA TimesAppend ==
    ASSUME NEW S, NEW q \in Seq(S), NEW e \in S, NEW x
    PROVE  Times(Append(q, e), x) = Times(q, x) + (IF e = x THEN 1 ELSE 0)
<1> DEFINE At0 == {n \in 1..Len(q) : q[n] = x}
           At1 == {n \in 1..Len(Append(q, e)) : Append(q, e)[n] = x}
<1>1. Len(q) \in Nat  BY LenProperties
<1>2. /\ Len(Append(q, e)) = Len(q) + 1
      /\ \A n \in 1..Len(q) : Append(q, e)[n] = q[n]
      /\ Append(q, e)[Len(q) + 1] = e
  BY AppendProperties
<1>3. IsFiniteSet(At0) /\ Cardinality(At0) \in Nat  BY TimesFinite, FS_CardinalityType
<1>4. 1..Len(Append(q, e)) = (1..Len(q)) \cup {Len(q) + 1}  BY <1>1, <1>2
<1>5. At1 = IF e = x THEN At0 \cup {Len(q) + 1} ELSE At0  BY <1>2, <1>4
<1>6. Len(q) + 1 \notin At0  BY <1>1
<1>8. Times(q, x) = Cardinality(At0) /\ Times(Append(q, e), x) = Cardinality(At1)
  BY DEF Times
<1> HIDE DEF At0, At1
<1>7. CASE e = x
  <2>1. At1 = At0 \cup {Len(q) + 1}  BY <1>5, <1>7
  <2>2. Cardinality(At1) = Cardinality(At0) + 1  BY <1>3, <1>6, <2>1, FS_AddElement
  <2> QED  BY <1>7, <1>8, <2>2
<1>9. CASE e # x  BY <1>3, <1>5, <1>8, <1>9
<1> QED  BY <1>7, <1>9

LEMMA TimesConcat ==
    ASSUME NEW S, NEW q \in Seq(S), NEW r \in Seq(S), NEW x
    PROVE  Times(q \o r, x) = Times(q, x) + Times(r, x)
<1> DEFINE AtQ == {n \in 1..Len(q) : q[n] = x}
           AtR == {n \in 1..Len(r) : r[n] = x}
           Moved == {n \in (Len(q) + 1)..(Len(q) + Len(r)) : r[n - Len(q)] = x}
           Both == {n \in 1..Len(q \o r) : (q \o r)[n] = x}
           Shift == [n \in AtR |-> n + Len(q)]
<1>1. Len(q) \in Nat /\ Len(r) \in Nat  BY LenProperties
<1>2. /\ Len(q \o r) = Len(q) + Len(r)
      /\ \A n \in 1..(Len(q) + Len(r)) :
            (q \o r)[n] = IF n <= Len(q) THEN q[n] ELSE r[n - Len(q)]
  BY ConcatProperties
<1>3. IsFiniteSet(AtQ) /\ IsFiniteSet(AtR)  BY TimesFinite
<1>4. Both = AtQ \cup Moved
  <2>1. ASSUME NEW n \in Both PROVE n \in AtQ \cup Moved
    <3>1. n \in 1..(Len(q) + Len(r)) /\ (q \o r)[n] = x  BY <1>2, <2>1
    <3>2. CASE n <= Len(q)  BY <1>1, <1>2, <3>1, <3>2
    <3>3. CASE ~(n <= Len(q))  BY <1>1, <1>2, <3>1, <3>3
    <3> QED  BY <3>2, <3>3
  <2>2. ASSUME NEW n \in AtQ PROVE n \in Both  BY <1>1, <1>2, <2>2
  <2>3. ASSUME NEW n \in Moved PROVE n \in Both  BY <1>1, <1>2, <2>3
  <2> QED  BY <2>1, <2>2, <2>3
<1>5. AtQ \cap Moved = {}  BY <1>1
<1>6. ExistsBijection(AtR, Moved)
  <2>1. Shift \in [AtR -> Moved]  BY <1>1
  <2>2. ASSUME NEW a \in AtR, NEW b \in AtR, Shift[a] = Shift[b] PROVE a = b
    <3>1. a \in Int /\ b \in Int /\ a + Len(q) = b + Len(q)  BY <2>2
    <3> QED  BY <1>1, <3>1
  <2>3. ASSUME NEW t \in Moved PROVE \E s \in AtR : Shift[s] = t
    <3>1. t - Len(q) \in AtR  BY <1>1, <2>3
    <3>2. Shift[t - Len(q)] = t  BY <1>1, <3>1
    <3> QED  BY <3>1, <3>2
  <2> HIDE DEF Shift, AtR, Moved
  <2>4. Shift \in Injection(AtR, Moved)  BY <2>1, <2>2 DEF Injection, IsInjective
  <2>5. Shift \in Surjection(AtR, Moved)  BY <2>1, <2>3 DEF Surjection
  <2> QED  BY <2>4, <2>5 DEF ExistsBijection, Bijection
<1>10. /\ Times(q, x) = Cardinality(AtQ) /\ Times(r, x) = Cardinality(AtR)
       /\ Times(q \o r, x) = Cardinality(Both)
  BY DEF Times
<1> HIDE DEF AtQ, AtR, Moved, Both, Shift
<1>7. IsFiniteSet(Moved) /\ Cardinality(Moved) = Cardinality(AtR)  BY <1>3, <1>6, FS_Bijection
<1>8. Cardinality(Both) = Cardinality(AtQ) + Cardinality(Moved) - 0
  BY <1>3, <1>4, <1>5, <1>7, FS_Union, FS_EmptySet
<1>9. Cardinality(AtQ) \in Nat /\ Cardinality(AtR) \in Nat  BY <1>3, FS_CardinalityType
<1> QED  BY <1>7, <1>8, <1>9, <1>10

\* What occurs nowhere.
LEMMA TimesZero ==
    ASSUME NEW q, NEW x, \A n \in 1..Len(q) : q[n] # x
    PROVE  Times(q, x) = 0
<1>1. {n \in 1..Len(q) : q[n] = x} = {}  OBVIOUS
<1> QED  BY <1>1, FS_EmptySet DEF Times

\* The results of the turn are as many as its observations.
LEMMA TimesAnswered ==
    ASSUME TypeOK, NEW c \in Calls
    PROVE  Times(Answers, Result(c)) = Times(obs, c)
<1>1. Len(Answers) = Len(obs)  BY RoundTripTypes
<1>2. \A n \in 1..Len(obs) : Answers[n] = Result(obs[n])  BY DEF Answers
<1>3. \A d : Result(d) = Result(c) <=> d = c
  <2> TAKE d
  <2>1. Result(d).calls = <<d>> /\ Result(c).calls = <<c>>  BY DEF Result
  <2>2. <<d>>[1] = d /\ <<c>>[1] = c  OBVIOUS
  <2> QED  BY <2>1, <2>2
<1>4. {n \in 1..Len(Answers) : Answers[n] = Result(c)} = {n \in 1..Len(obs) : obs[n] = c}
  BY <1>1, <1>2, <1>3
<1> QED  BY <1>4 DEF Times

LEMMA TimesRoundTrips ==
    ASSUME TypeOK, NEW c \in Calls
    PROVE  Times(RoundTrips, Result(c)) = Times(obs, c)
<1> DEFINE Request1 == <<[role |-> "request", calls |-> toolQ]>>
<1>1. /\ Request1 \in Seq(Message) /\ Answers \in Seq(Message)
      /\ RoundTrips = Request1 \o Answers
  BY RoundTripTypes
<1>2. Times(Request1, Result(c)) = 0
  <2>1. \A n \in 1..Len(Request1) : Request1[n] # Result(c)  BY DEF Result
  <2> QED  BY <2>1, TimesZero
<1>3. obs \in Seq(Calls)  BY DEF TypeOK, TalkType
<1>4. Times(obs, c) \in Nat  BY <1>3, TimesFinite
<1> HIDE DEF Request1
<1> QED  BY <1>1, <1>2, <1>4, TimesConcat, TimesAnswered

\* Each execution of a call is reported or about to be.
Counted == \A c \in Calls : ran[c] = Times(conv, Result(c)) + Times(obs, c)

\* Nothing is observed from the round trip of one turn to the tools of the next,
\* and nothing of a turn before a request of it has been answered.
Unobserved ==
    \/ phase \in {"prepare", "compile_context", "request_model", "consume_model_event",
                  "plan_tool_calls", "permission_check"}
    \/ pending # <<>>
    \/ phase = "execute_tool" /\ pc \in {"loop", "step"}
    => obs = <<>>

\* What was observed is a part of the queue, in its order, and behind the call
\* that is being executed.
Observed ==
    \E place \in [1..Len(obs) -> 1..Len(toolQ)] :
        /\ \A n \in 1..Len(obs) : obs[n] = toolQ[place[n]]
        /\ \A n, k \in 1..Len(obs) : n < k => place[n] < place[k]
        /\ pc \in {"execute", "tool"} => \A n \in 1..Len(obs) : place[n] < pos

Ordered(q) == \A n \in 1..Len(q) : q[n].role = "result" => Reports(q, n)
InOrder    == Ordered(conv)

Relayed == Counted /\ Unobserved /\ Observed /\ InOrder

\* The parts of it that look at the conversation do not look elsewhere.
LEMMA RelayedFrame ==
    ASSUME Relayed
    PROVE  /\ UNCHANGED <<ran, conv, obs>> => Counted'
           /\ UNCHANGED conv => InOrder'
           /\ UNCHANGED <<obs, toolQ, pos>> /\ (pc' \in {"execute", "tool"} => pc \in {"execute", "tool"})
              => Observed'
<1>1. UNCHANGED <<ran, conv, obs>> => Counted'  BY DEF Relayed, Counted
<1>2. UNCHANGED conv => InOrder'  BY DEF Relayed, InOrder
<1>3. UNCHANGED <<obs, toolQ, pos>> /\ (pc' \in {"execute", "tool"} => pc \in {"execute", "tool"})
      => Observed'
  BY DEF Relayed, Observed
<1> QED  BY <1>1, <1>2, <1>3

LEMMA NothingObserved == obs = <<>> => Observed
<1> SUFFICES ASSUME obs = <<>> PROVE Observed  OBVIOUS
<1> DEFINE place == [n \in 1..Len(obs) |-> n]
<1>1. 1..Len(obs) = {}  BY EmptySeq
<1>2. place \in [1..Len(obs) -> 1..Len(toolQ)]  BY <1>1
<1> HIDE DEF place
<1> QED  BY <1>1, <1>2 DEF Observed

LEMMA NothingObservedNext == (obs = <<>>)' => Observed'
BY NothingObserved, PTL

\* What is reported stays so when the conversation grows.
LEMMA ReportsStay ==
    ASSUME NEW q \in Seq(Message), NEW r \in Seq(Message), Len(q) <= Len(r),
           \A k \in 1..Len(q) : r[k] = q[k],
           NEW n \in 1..Len(q), Reports(q, n)
    PROVE  Reports(r, n)
<1>0. Len(q) \in Nat /\ Len(r) \in Nat  BY LenProperties
<1>1. PICK m \in 1..(n - 1) :
         /\ q[m].role = "request"
         /\ \E asked \in [(m + 1)..n -> 1..Len(q[m].calls)] :
               /\ \A k \in (m + 1)..n : q[k] = Result(q[m].calls[asked[k]])
               /\ \A k, l \in (m + 1)..n : k < l => asked[k] < asked[l]
  BY DEF Reports
<1>2. r[m] = q[m]  BY <1>0
<1>3. \A k \in (m + 1)..n : r[k] = q[k]  BY <1>0
<1>4. PICK asked \in [(m + 1)..n -> 1..Len(q[m].calls)] :
         /\ \A k \in (m + 1)..n : q[k] = Result(q[m].calls[asked[k]])
         /\ \A k, l \in (m + 1)..n : k < l => asked[k] < asked[l]
  BY <1>1
<1>5. /\ asked \in [(m + 1)..n -> 1..Len(r[m].calls)]
      /\ \A k \in (m + 1)..n : r[k] = Result(r[m].calls[asked[k]])
      /\ \A k, l \in (m + 1)..n : k < l => asked[k] < asked[l]
  BY <1>2, <1>3, <1>4
<1>6. r[m].role = "request"  BY <1>1, <1>2
<1> QED  BY <1>5, <1>6 DEF Reports

\* The conversation of a fresh life is what the person said.
LEMMA FreshRelayed ==
    ASSUME Fresh
    PROVE  Counted' /\ InOrder' /\ Unobserved' /\ Observed'
<1>1. conv' = <<Said>> /\ obs' = <<>> /\ ran' = [c \in Calls |-> 0]  BY DEF Fresh
<1>2. Counted'
  <2>1. ASSUME NEW c \in Calls PROVE Times(<<Said>>, Result(c)) = 0
    <3>1. \A n \in 1..Len(<<Said>>) : <<Said>>[n] # Result(c)  BY DEF Said, Result
    <3> QED  BY <3>1, TimesZero
  <2>2. \A c \in Calls : Times(<<>>, c) = 0  BY TimesEmpty
  <2> QED  BY <1>1, <2>1, <2>2 DEF Counted
<1>3. InOrder'
  <2>1. \A n \in 1..Len(<<Said>>) : <<Said>>[n].role # "result"  BY DEF Said
  <2>2. Ordered(<<Said>>)  BY <2>1 DEF Ordered
  <2> QED  BY <1>1, <2>2 DEF InOrder
<1>4. Unobserved'  BY <1>1 DEF Unobserved
<1>5. Observed'  BY <1>1, NothingObservedNext
<1> QED  BY <1>2, <1>3, <1>4, <1>5

LEMMA CountedStep == TypeOK /\ Placed /\ Counted /\ [Next]_vars => Counted'
<1> SUFFICES ASSUME TypeOK, Placed, Counted, [Next]_vars PROVE Counted'  OBVIOUS
<1>0. /\ conv \in Seq(Message) /\ obs \in Seq(Calls) /\ toolQ \in Seq(Calls)
      /\ ran \in [Calls -> Nat] /\ pos \in Nat \ {0}
  BY DEF TypeOK, TalkType
<1>f. ASSUME UNCHANGED <<ran, conv, obs>> PROVE Counted'  BY <1>f DEF Counted
<1>n. \A c \in Calls : /\ Times(conv, Result(c)) \in Nat /\ Times(obs, c) \in Nat
                       /\ ran[c] = Times(conv, Result(c)) + Times(obs, c)
  BY <1>0, TimesFinite DEF Counted
<1>1. ASSUME UNCHANGED talk PROVE Counted'  BY <1>f, <1>1 DEF talk
<1>2. ASSUME LoopDone \/ LoopCancelled \/ LoopStep PROVE Counted'
  BY <1>1, <1>2 DEF LoopDone, LoopCancelled, LoopStep
<1>3. ASSUME StepCancelled \/ StreamCancelled PROVE Counted'
  BY <1>1, <1>3 DEF StepCancelled, StreamCancelled, Yield
<1>4. ASSUME StepOnward \/ RequestFails \/ Request PROVE Counted'
  BY <1>1, <1>4 DEF StepOnward, RequestFails, Request
<1>5. ASSUME StreamPart \/ StreamUsage \/ StreamError \/ StreamEnd PROVE Counted'
  BY <1>1, <1>5 DEF StreamPart, StreamUsage, StreamError, StreamEnd
<1>6. ASSUME PlanToolCalls PROVE Counted'  BY <1>f, <1>6 DEF PlanToolCalls
<1>7. ASSUME PermissionAllowed \/ PermissionDenied PROVE Counted'
  BY <1>1, <1>7 DEF PermissionAllowed, PermissionDenied
<1>8. ASSUME PermissionAsk PROVE Counted'  BY <1>f, <1>8 DEF PermissionAsk
<1>9. ASSUME StartQueue \/ Intend \/ Skip \/ Refuse \/ QueueDone PROVE Counted'
  BY <1>f, <1>9 DEF StartQueue, Intend, Skip, Refuse, QueueDone, talk
<1>10. ASSUME EvaluateStop PROVE Counted'  BY <1>f, <1>10 DEF EvaluateStop
<1>11. ASSUME EvaluateMore PROVE Counted'
  <2>1. conv' = conv \o RoundTrips /\ obs' = <<>> /\ ran' = ran  BY <1>11 DEF EvaluateMore
  <2>2. RoundTrips \in Seq(Message)  BY RoundTripTypes
  <2>3. ASSUME NEW c \in Calls PROVE ran'[c] = Times(conv', Result(c)) + Times(obs', c)
    <3>1. Times(conv', Result(c)) = Times(conv, Result(c)) + Times(RoundTrips, Result(c))
      BY <1>0, <2>1, <2>2, TimesConcat
    <3>2. Times(RoundTrips, Result(c)) = Times(obs, c)  BY TimesRoundTrips
    <3>3. Times(obs', c) = 0  BY <2>1, TimesEmpty
    <3> QED  BY <1>n, <2>1, <3>1, <3>2, <3>3
  <2> QED  BY <2>3 DEF Counted
<1>12. ASSUME Checkpoint PROVE Counted'  BY <1>1, <1>12 DEF Checkpoint
<1>13. ASSUME Observe PROVE Counted'  BY <1>1, <1>13 DEF Observe
<1>14. ASSUME ToolReturns PROVE Counted'
  <2>1. obs' = Append(obs, Cur) /\ ran' = [ran EXCEPT ![Cur] = @ + 1] /\ conv' = conv /\ pc = "tool"
    BY <1>14 DEF ToolReturns
  <2>2. pos \in 1..Len(toolQ)  BY <1>0, <2>1 DEF Placed
  <2>3. Cur \in Calls  BY <1>0, <2>2 DEF Cur
  <2>4. ASSUME NEW c \in Calls PROVE ran'[c] = Times(conv', Result(c)) + Times(obs', c)
    <3>1. Times(obs', c) = Times(obs, c) + (IF Cur = c THEN 1 ELSE 0)
      BY <1>0, <2>1, <2>3, TimesAppend
    <3>2. CASE Cur = c
      <4>1. ran'[c] = ran[c] + 1  BY <1>0, <2>1, <3>2
      <4> QED  BY <1>n, <2>1, <3>1, <3>2, <4>1
    <3>3. CASE Cur # c
      <4>1. ran'[c] = ran[c]  BY <1>0, <2>1, <3>3
      <4> QED  BY <1>n, <2>1, <3>1, <3>3, <4>1
    <3> QED  BY <3>2, <3>3
  <2> QED  BY <2>4 DEF Counted
<1>15. ASSUME ToolBreaks PROVE Counted'  BY <1>1, <1>15 DEF ToolBreaks
<1>16. ASSUME Inject PROVE Counted'
  <2>1. conv' = Append(conv, Said) /\ obs' = obs /\ ran' = ran  BY <1>16 DEF Inject
  <2>2. ASSUME NEW c \in Calls PROVE Times(conv', Result(c)) = Times(conv, Result(c))
    <3>1. Said # Result(c)  BY DEF Said, Result
    <3>2. Times(conv', Result(c)) = Times(conv, Result(c)) + (IF Said = Result(c) THEN 1 ELSE 0)
      BY <1>0, <2>1, SaidIsMessage, TimesAppend
    <3> QED  BY <1>n, <3>1, <3>2
  <2> QED  BY <1>n, <2>1, <2>2 DEF Counted
<1>17. ASSUME Cancel PROVE Counted'  BY <1>1, <1>17 DEF Cancel
<1>18. ASSUME NEW d \in {"allow", "deny"}, Answer(d) PROVE Counted'  BY <1>f, <1>18 DEF Answer
<1>19. ASSUME Crash \/ Start PROVE Counted'  BY <1>19, FreshRelayed DEF Crash, Start
<1>20. ASSUME UNCHANGED vars PROVE Counted'  BY <1>1, <1>20 DEF vars
<1> QED
  BY <1>2, <1>3, <1>4, <1>5, <1>6, <1>7, <1>8, <1>9, <1>10, <1>11, <1>12, <1>13, <1>14, <1>15,
     <1>16, <1>17, <1>18, <1>19, <1>20, Cases

LEMMA UnobservedStep == TypeOK /\ Placed /\ Unobserved /\ [Next]_vars => Unobserved'
<1> SUFFICES ASSUME TypeOK, Placed, Unobserved, [Next]_vars PROVE Unobserved'  OBVIOUS
<1>1. ASSUME LoopDone \/ LoopCancelled \/ LoopStep PROVE Unobserved'
  BY <1>1 DEF LoopDone, LoopCancelled, LoopStep, talk, Fail, Unobserved
<1>2. ASSUME StepCancelled \/ StreamCancelled PROVE Unobserved'
  BY <1>2 DEF StepCancelled, StreamCancelled, Yield, talk, Unobserved
<1>3. ASSUME StepOnward PROVE Unobserved'
  BY <1>3 DEF StepOnward, Onward, At, Advance, talk, Unobserved
<1>4. ASSUME RequestFails \/ Request PROVE Unobserved'
  BY <1>4 DEF RequestFails, Request, At, Fail, talk, Unobserved
<1>5. ASSUME StreamPart \/ StreamUsage \/ StreamError PROVE Unobserved'
  BY <1>5 DEF StreamPart, StreamUsage, StreamError, Reading, Fail, talk, Unobserved
<1>6. ASSUME StreamEnd PROVE Unobserved'
  BY <1>6 DEF StreamEnd, Advance, talk, Unobserved, Placed
<1>7. ASSUME PlanToolCalls PROVE Unobserved'
  BY <1>7 DEF PlanToolCalls, At, Unobserved
<1>8. ASSUME PermissionAllowed \/ PermissionDenied PROVE Unobserved'
  BY <1>8 DEF PermissionAllowed, PermissionDenied, At, Advance, Fail, talk, Unobserved
<1>9. ASSUME PermissionAsk PROVE Unobserved'
  BY <1>9 DEF PermissionAsk, At, Unobserved
<1>10. ASSUME StartQueue \/ Intend \/ Skip \/ Refuse PROVE Unobserved'
  BY <1>10 DEF StartQueue, Intend, Skip, Refuse, Executing, At, Fail, talk, Unobserved, Placed
<1>11. ASSUME QueueDone PROVE Unobserved'
  BY <1>11 DEF QueueDone, Advance, talk, Unobserved, Placed
<1>12. ASSUME EvaluateStop PROVE Unobserved'
  BY <1>12 DEF EvaluateStop, At, Advance, Unobserved
<1>13. ASSUME EvaluateMore PROVE Unobserved'  BY <1>13 DEF EvaluateMore, Unobserved
<1>14. ASSUME Checkpoint PROVE Unobserved'
  BY <1>14 DEF Checkpoint, At, Advance, Fail, talk, Unobserved
<1>15. ASSUME Observe PROVE Unobserved'  BY <1>15 DEF Observe, talk, Unobserved
<1>16. ASSUME ToolReturns PROVE Unobserved'
  BY <1>16 DEF ToolReturns, Unobserved, Placed
<1>17. ASSUME ToolBreaks PROVE Unobserved'
  BY <1>17 DEF ToolBreaks, Fail, talk, Unobserved, Placed
<1>18. ASSUME Inject \/ Cancel PROVE Unobserved'  BY <1>18 DEF Inject, Cancel, talk, Unobserved
<1>19. ASSUME NEW d \in {"allow", "deny"}, Answer(d) PROVE Unobserved'
  BY <1>19 DEF Answer, Unobserved, Placed
<1>20. ASSUME Crash \/ Start PROVE Unobserved'  BY <1>20, FreshRelayed DEF Crash, Start
<1>21. ASSUME UNCHANGED vars PROVE Unobserved'  BY <1>21 DEF vars, talk, Unobserved
<1> QED
  BY <1>1, <1>2, <1>3, <1>4, <1>5, <1>6, <1>7, <1>8, <1>9, <1>10, <1>11, <1>12, <1>13, <1>14,
     <1>15, <1>16, <1>17, <1>18, <1>19, <1>20, <1>21, Cases

LEMMA ObservedStep ==
    TypeOK /\ Placed /\ Unobserved /\ Observed /\ [Next]_vars => Observed'
<1> SUFFICES ASSUME TypeOK, Placed, Unobserved, Observed, [Next]_vars PROVE Observed'  OBVIOUS
<1>0. /\ obs \in Seq(Calls) /\ toolQ \in Seq(Calls) /\ pos \in Nat \ {0}
      /\ Len(obs) \in Nat /\ Len(toolQ) \in Nat
  BY DEF TypeOK, TalkType
<1>f. ASSUME UNCHANGED <<obs, toolQ, pos>>, pc' \in {"execute", "tool"} => pc \in {"execute", "tool"}
      PROVE  Observed'
  BY <1>f DEF Observed
<1>1. ASSUME LoopDone \/ LoopCancelled \/ LoopStep PROVE Observed'
  BY <1>f, <1>1 DEF LoopDone, LoopCancelled, LoopStep, talk, Fail
<1>2. ASSUME StepCancelled \/ StreamCancelled PROVE Observed'
  BY <1>f, <1>2 DEF StepCancelled, StreamCancelled, Yield, talk
<1>3. ASSUME StepOnward \/ RequestFails \/ Request PROVE Observed'
  BY <1>f, <1>3 DEF StepOnward, RequestFails, Request, Advance, Fail, talk
<1>4. ASSUME StreamPart \/ StreamUsage \/ StreamError \/ StreamEnd PROVE Observed'
  BY <1>f, <1>4 DEF StreamPart, StreamUsage, StreamError, StreamEnd, Reading, Advance, Fail, talk
<1>5. ASSUME PlanToolCalls PROVE Observed'
  <2>1. obs = <<>> /\ obs' = obs  BY <1>5 DEF PlanToolCalls, At, Unobserved
  <2> QED  BY <2>1, NothingObservedNext
<1>6. ASSUME PermissionAllowed \/ PermissionDenied \/ PermissionAsk PROVE Observed'
  BY <1>f, <1>6 DEF PermissionAllowed, PermissionDenied, PermissionAsk, Advance, Fail, talk
<1>7. ASSUME StartQueue PROVE Observed'
  <2>1. obs = <<>> /\ obs' = obs  BY <1>7 DEF StartQueue, At, Unobserved
  <2> QED  BY <2>1, NothingObservedNext
<1>8. ASSUME Intend \/ Refuse \/ QueueDone PROVE Observed'
  BY <1>f, <1>8 DEF Intend, Refuse, QueueDone, Executing, Advance, Fail, talk
<1>p. PICK place \in [1..Len(obs) -> 1..Len(toolQ)] :
         /\ \A n \in 1..Len(obs) : obs[n] = toolQ[place[n]]
         /\ \A n, k \in 1..Len(obs) : n < k => place[n] < place[k]
         /\ pc \in {"execute", "tool"} => \A n \in 1..Len(obs) : place[n] < pos
  BY DEF Observed
<1>9. ASSUME Skip PROVE Observed'
  <2>1. pc = "execute" /\ pos' = pos + 1 /\ UNCHANGED <<obs, toolQ>>  BY <1>9 DEF Skip, Executing
  <2>2. \A n \in 1..Len(obs) : place[n] < pos'  BY <1>0, <1>p, <2>1
  <2> QED  BY <1>p, <2>1, <2>2 DEF Observed
<1>10. ASSUME EvaluateStop \/ Checkpoint \/ Observe PROVE Observed'
  BY <1>f, <1>10 DEF EvaluateStop, Checkpoint, Observe, Advance, Fail, talk
<1>11. ASSUME EvaluateMore PROVE Observed'
  <2>1. obs' = <<>>  BY <1>11 DEF EvaluateMore
  <2> QED  BY <2>1, NothingObservedNext
<1>12. ASSUME ToolReturns PROVE Observed'
  <2>1. pc = "tool" /\ obs' = Append(obs, Cur) /\ pos' = pos + 1 /\ toolQ' = toolQ
    BY <1>12 DEF ToolReturns
  <2>2. pos \in 1..Len(toolQ)  BY <1>0, <2>1 DEF Placed
  <2>3. Cur \in Calls  BY <1>0, <2>2 DEF Cur
  <2>4. /\ Len(obs') = Len(obs) + 1 /\ obs'[Len(obs) + 1] = toolQ[pos]
        /\ \A n \in 1..Len(obs) : obs'[n] = obs[n]
    BY <1>0, <2>1, <2>3, AppendProperties DEF Cur
  <2> DEFINE now == [n \in 1..(Len(obs) + 1) |-> IF n = Len(obs) + 1 THEN pos ELSE place[n]]
  <2>5. now \in [1..Len(obs') -> 1..Len(toolQ')]
    <3>1. \A n \in 1..(Len(obs) + 1) : n # Len(obs) + 1 => n \in 1..Len(obs)  BY <1>0
    <3>2. \A n \in 1..(Len(obs) + 1) :
             (IF n = Len(obs) + 1 THEN pos ELSE place[n]) \in 1..Len(toolQ)
      BY <1>p, <2>2, <3>1
    <3> QED  BY <2>1, <2>4, <3>2
  <2>6. ASSUME NEW n \in 1..Len(obs') PROVE obs'[n] = toolQ'[now[n]] /\ now[n] < pos'
    <3>1. CASE n = Len(obs) + 1
      <4>1. now[n] = pos  BY <1>0, <3>1
      <4> QED  BY <1>0, <2>1, <2>4, <3>1, <4>1
    <3>2. CASE n # Len(obs) + 1
      <4>1. n \in 1..Len(obs)  BY <1>0, <2>4, <3>2
      <4>2. now[n] = place[n]  BY <1>0, <3>2, <4>1
      <4>3. place[n] < pos /\ place[n] \in Int  BY <1>p, <2>1, <4>1
      <4> QED  BY <1>0, <1>p, <2>1, <2>4, <4>1, <4>2, <4>3
    <3> QED  BY <3>1, <3>2
  <2>7. ASSUME NEW n \in 1..Len(obs'), NEW k \in 1..Len(obs'), n < k PROVE now[n] < now[k]
    <3>1. n \in 1..Len(obs) /\ now[n] = place[n]  BY <1>0, <2>4, <2>7
    <3>2. CASE k = Len(obs) + 1
      <4>1. now[k] = pos  BY <1>0, <3>2
      <4>2. place[n] < pos  BY <1>p, <2>1, <3>1
      <4> QED  BY <3>1, <4>1, <4>2
    <3>3. CASE k # Len(obs) + 1
      <4>1. k \in 1..Len(obs)  BY <1>0, <2>4, <3>3
      <4>2. now[k] = place[k]  BY <1>0, <3>3, <4>1
      <4> QED  BY <1>p, <2>7, <3>1, <4>1, <4>2
    <3> QED  BY <3>2, <3>3
  <2> HIDE DEF now
  <2> QED  BY <2>5, <2>6, <2>7 DEF Observed
<1>13. ASSUME ToolBreaks PROVE Observed'  BY <1>f, <1>13 DEF ToolBreaks, Fail, talk
<1>14. ASSUME Inject \/ Cancel PROVE Observed'  BY <1>f, <1>14 DEF Inject, Cancel, talk
<1>15. ASSUME NEW d \in {"allow", "deny"}, Answer(d) PROVE Observed'  BY <1>f, <1>15 DEF Answer
<1>16. ASSUME Crash \/ Start PROVE Observed'  BY <1>16, FreshRelayed DEF Crash, Start
<1>17. ASSUME UNCHANGED vars PROVE Observed'  BY <1>f, <1>17 DEF vars, talk
<1> QED
  BY <1>1, <1>2, <1>3, <1>4, <1>5, <1>6, <1>7, <1>8, <1>9, <1>10, <1>11, <1>12, <1>13, <1>14,
     <1>15, <1>16, <1>17, Cases

\* A conversation grows by what keeps it in order.
LEMMA OrderedGrows ==
    ASSUME NEW q \in Seq(Message), NEW r \in Seq(Message), Len(q) <= Len(r),
           \A k \in 1..Len(q) : r[k] = q[k], Ordered(q),
           \A n \in (Len(q) + 1)..Len(r) : r[n].role = "result" => Reports(r, n)
    PROVE  Ordered(r)
<1>0. Len(q) \in Nat /\ Len(r) \in Nat  BY LenProperties
<1>1. ASSUME NEW n \in 1..Len(r), r[n].role = "result" PROVE Reports(r, n)
  <2>1. CASE n \in 1..Len(q)
    <3>1. q[n].role = "result"  BY <1>1, <2>1
    <3>2. Reports(q, n)  BY <2>1, <3>1 DEF Ordered
    <3> QED  BY <2>1, <3>2, ReportsStay
  <2>2. CASE n \notin 1..Len(q)
    <3>1. n \in (Len(q) + 1)..Len(r)  BY <1>0, <2>2
    <3> QED  BY <1>1, <3>1
  <2> QED  BY <2>1, <2>2
<1> QED  BY <1>1 DEF Ordered

\* The round trip of a turn keeps the conversation in order: the results are the
\* observations, and these are a part of the queue.
LEMMA RoundTripOrdered ==
    ASSUME TypeOK, Observed, InOrder
    PROVE  Ordered(conv \o RoundTrips)
<1> DEFINE Request1 == <<[role |-> "request", calls |-> toolQ]>>
           r == conv \o RoundTrips
           first == Len(conv) + 1
<1>0. /\ conv \in Seq(Message) /\ Len(conv) \in Nat
      /\ obs \in Seq(Calls) /\ Len(obs) \in Nat
      /\ toolQ \in Seq(Calls) /\ Len(toolQ) \in Nat
  BY DEF TypeOK, TalkType
<1>1. /\ Request1 \in Seq(Message) /\ Answers \in Seq(Message) /\ Len(Answers) = Len(obs)
      /\ RoundTrips = Request1 \o Answers /\ RoundTrips \in Seq(Message)
  BY RoundTripTypes
<1>2. /\ Len(RoundTrips) = Len(obs) + 1
      /\ RoundTrips[1] = [role |-> "request", calls |-> toolQ]
      /\ \A k \in 2..(Len(obs) + 1) : RoundTrips[k] = Result(obs[k - 1])
  <2>1. Len(Request1) = 1 /\ Request1[1] = [role |-> "request", calls |-> toolQ]  OBVIOUS
  <2> HIDE DEF Request1
  <2>2. /\ Len(RoundTrips) = 1 + Len(obs)
        /\ \A k \in 1..(1 + Len(obs)) :
              RoundTrips[k] = IF k <= 1 THEN Request1[k] ELSE Answers[k - 1]
    <3>1. /\ Len(Request1 \o Answers) = Len(Request1) + Len(Answers)
          /\ \A k \in 1..(Len(Request1) + Len(Answers)) :
                (Request1 \o Answers)[k] =
                    IF k <= Len(Request1) THEN Request1[k] ELSE Answers[k - Len(Request1)]
      BY <1>1, ConcatProperties
    <3> QED  BY <1>1, <2>1, <3>1
  <2>3. ASSUME NEW k \in 2..(Len(obs) + 1) PROVE RoundTrips[k] = Result(obs[k - 1])
    <3>1. k \in 1..(1 + Len(obs)) /\ ~(k <= 1) /\ k - 1 \in 1..Len(obs)  BY <1>0
    <3>2. Answers[k - 1] = Result(obs[k - 1])  BY <3>1 DEF Answers
    <3> QED  BY <2>2, <3>1, <3>2
  <2>4. RoundTrips[1] = Request1[1]  BY <1>0, <2>2
  <2> QED  BY <1>0, <2>1, <2>2, <2>3, <2>4
<1>3. /\ r \in Seq(Message) /\ Len(r) = Len(conv) + Len(obs) + 1
      /\ \A k \in 1..Len(conv) : r[k] = conv[k]
      /\ r[first] = [role |-> "request", calls |-> toolQ]
      /\ \A k \in (first + 1)..Len(r) : r[k] = Result(obs[k - first])
  <2>1. /\ r \in Seq(Message) /\ Len(r) = Len(conv) + Len(RoundTrips)
        /\ \A k \in 1..(Len(conv) + Len(RoundTrips)) :
              r[k] = IF k <= Len(conv) THEN conv[k] ELSE RoundTrips[k - Len(conv)]
    BY <1>0, <1>1, ConcatProperties
  <2> HIDE DEF r
  <2>2. Len(r) = Len(conv) + Len(obs) + 1  BY <1>0, <1>2, <2>1
  <2>3. \A k \in 1..Len(conv) : r[k] = conv[k]  BY <1>0, <1>2, <2>1
  <2>4. r[first] = RoundTrips[1]
    <3>1. /\ first \in 1..(Len(conv) + Len(RoundTrips)) /\ ~(first <= Len(conv))
          /\ first - Len(conv) = 1
      BY <1>0, <1>2
    <3> HIDE DEF first
    <3> QED  BY <2>1, <3>1
  <2>5. ASSUME NEW k \in (first + 1)..Len(r) PROVE r[k] = Result(obs[k - first])
    <3>1. k \in 1..(Len(conv) + Len(RoundTrips)) /\ ~(k <= Len(conv))  BY <1>0, <1>2, <2>2
    <3>2. r[k] = RoundTrips[k - Len(conv)]  BY <2>1, <3>1
    <3>3. k - Len(conv) \in 2..(Len(obs) + 1)  BY <1>0, <2>2
    <3>4. RoundTrips[k - Len(conv)] = Result(obs[(k - Len(conv)) - 1])  BY <1>2, <3>3
    <3>5. (k - Len(conv)) - 1 = k - first  BY <1>0
    <3> QED  BY <3>2, <3>4, <3>5
  <2> QED  BY <1>2, <2>1, <2>2, <2>3, <2>4, <2>5
<1> HIDE DEF r
<1>4. PICK place \in [1..Len(obs) -> 1..Len(toolQ)] :
         /\ \A n \in 1..Len(obs) : obs[n] = toolQ[place[n]]
         /\ \A n, k \in 1..Len(obs) : n < k => place[n] < place[k]
  BY DEF Observed
<1>5. ASSUME NEW n \in (Len(conv) + 1)..Len(r), r[n].role = "result" PROVE Reports(r, n)
  <2>1. n # first  BY <1>3, <1>5
  <2>2. n \in (first + 1)..Len(r)  BY <1>0, <1>3, <2>1
  <2> DEFINE asked == [k \in (first + 1)..n |-> place[k - first]]
  <2>3. \A k \in (first + 1)..n : k - first \in 1..Len(obs) /\ k \in (first + 1)..Len(r)
    BY <1>0, <1>3, <2>2
  <2>4. r[first].role = "request" /\ r[first].calls = toolQ  BY <1>3
  <2>5. asked \in [(first + 1)..n -> 1..Len(r[first].calls)]  BY <1>4, <2>3, <2>4
  <2>6. ASSUME NEW k \in (first + 1)..n PROVE r[k] = Result(r[first].calls[asked[k]])
    <3>1. r[k] = Result(obs[k - first])  BY <1>3, <2>3
    <3>2. obs[k - first] = toolQ[place[k - first]]  BY <1>4, <2>3
    <3>3. asked[k] = place[k - first]  OBVIOUS
    <3> QED  BY <2>4, <3>1, <3>2, <3>3
  <2>7. ASSUME NEW k \in (first + 1)..n, NEW l \in (first + 1)..n, k < l
        PROVE  asked[k] < asked[l]
    <3>1. k - first \in 1..Len(obs) /\ l - first \in 1..Len(obs)  BY <2>3
    <3>2. k - first < l - first  BY <1>0, <2>7
    <3> QED  BY <1>4, <3>1, <3>2
  <2>8. first \in 1..(n - 1)  BY <1>0, <1>3, <2>2
  <2> HIDE DEF asked, first
  <2> QED  BY <2>4, <2>5, <2>6, <2>7, <2>8 DEF Reports
<1>6. Ordered(conv) /\ Len(conv) <= Len(r)  BY <1>0, <1>3 DEF InOrder
<1>7. Ordered(r)  BY <1>0, <1>3, <1>5, <1>6, OrderedGrows
<1> QED  BY <1>7 DEF r

LEMMA InOrderStep ==
    TypeOK /\ Observed /\ InOrder /\ [Next]_vars => InOrder'
<1> SUFFICES ASSUME TypeOK, Observed, InOrder, [Next]_vars PROVE InOrder'  OBVIOUS
<1>0. conv \in Seq(Message) /\ Len(conv) \in Nat  BY DEF TypeOK, TalkType
<1>f. ASSUME UNCHANGED conv PROVE InOrder'  BY <1>f DEF InOrder
<1>1. ASSUME LoopDone \/ LoopCancelled \/ LoopStep PROVE InOrder'
  BY <1>f, <1>1 DEF LoopDone, LoopCancelled, LoopStep, talk
<1>2. ASSUME StepCancelled \/ StreamCancelled PROVE InOrder'
  BY <1>f, <1>2 DEF StepCancelled, StreamCancelled, Yield, talk
<1>3. ASSUME StepOnward \/ RequestFails \/ Request PROVE InOrder'
  BY <1>f, <1>3 DEF StepOnward, RequestFails, Request, talk
<1>4. ASSUME StreamPart \/ StreamUsage \/ StreamError \/ StreamEnd PROVE InOrder'
  BY <1>f, <1>4 DEF StreamPart, StreamUsage, StreamError, StreamEnd, talk
<1>5. ASSUME PlanToolCalls \/ PermissionAllowed \/ PermissionDenied \/ PermissionAsk PROVE InOrder'
  BY <1>f, <1>5 DEF PlanToolCalls, PermissionAllowed, PermissionDenied, PermissionAsk, talk
<1>6. ASSUME StartQueue \/ Intend \/ Skip \/ Refuse \/ QueueDone PROVE InOrder'
  BY <1>f, <1>6 DEF StartQueue, Intend, Skip, Refuse, QueueDone, talk
<1>7. ASSUME EvaluateStop \/ Checkpoint \/ Observe PROVE InOrder'
  BY <1>f, <1>7 DEF EvaluateStop, Checkpoint, Observe, talk
<1>8. ASSUME EvaluateMore PROVE InOrder'
  <2>1. conv' = conv \o RoundTrips  BY <1>8 DEF EvaluateMore
  <2> QED  BY <2>1, RoundTripOrdered DEF InOrder
<1>9. ASSUME ToolReturns \/ ToolBreaks PROVE InOrder'
  BY <1>f, <1>9 DEF ToolReturns, ToolBreaks, talk
<1>10. ASSUME Inject PROVE InOrder'
  <2>1. conv' = Append(conv, Said)  BY <1>10 DEF Inject
  <2> DEFINE r == Append(conv, Said)
  <2>2. /\ r \in Seq(Message) /\ Len(r) = Len(conv) + 1
        /\ \A k \in 1..Len(conv) : r[k] = conv[k]
        /\ r[Len(conv) + 1] = Said
    BY <1>0, SaidIsMessage, AppendProperties
  <2> HIDE DEF r
  <2>3. \A n \in (Len(conv) + 1)..Len(r) : r[n].role # "result"
    <3>1. \A n \in (Len(conv) + 1)..Len(r) : n = Len(conv) + 1  BY <1>0, <2>2
    <3>2. Said.role # "result"  BY DEF Said
    <3> QED  BY <2>2, <3>1, <3>2
  <2>4. Ordered(conv) /\ Len(conv) <= Len(r)  BY <1>0, <2>2 DEF InOrder
  <2>5. Ordered(r)  BY <1>0, <2>2, <2>3, <2>4, OrderedGrows
  <2> QED  BY <2>1, <2>5 DEF InOrder, r
<1>11. ASSUME Cancel PROVE InOrder'  BY <1>f, <1>11 DEF Cancel, talk
<1>12. ASSUME NEW d \in {"allow", "deny"}, Answer(d) PROVE InOrder'  BY <1>f, <1>12 DEF Answer
<1>13. ASSUME Crash \/ Start PROVE InOrder'  BY <1>13, FreshRelayed DEF Crash, Start
<1>14. ASSUME UNCHANGED vars PROVE InOrder'  BY <1>f, <1>14 DEF vars, talk
<1> QED
  BY <1>1, <1>2, <1>3, <1>4, <1>5, <1>6, <1>7, <1>8, <1>9, <1>10, <1>11, <1>12, <1>13, <1>14,
     Cases

LEMMA RelayedInit == Init => Relayed
<1> SUFFICES ASSUME Init PROVE Relayed  OBVIOUS
<1>1. conv = <<Said>> /\ obs = <<>> /\ ran = [c \in Calls |-> 0]  BY DEF Init
<1>2. Counted
  <2>1. ASSUME NEW c \in Calls PROVE Times(<<Said>>, Result(c)) = 0
    <3>1. \A n \in 1..Len(<<Said>>) : <<Said>>[n] # Result(c)  BY DEF Said, Result
    <3> QED  BY <3>1, TimesZero
  <2>2. \A c \in Calls : Times(<<>>, c) = 0  BY TimesEmpty
  <2> QED  BY <1>1, <2>1, <2>2 DEF Counted
<1>3. Ordered(<<Said>>)
  <2>1. \A n \in 1..Len(<<Said>>) : <<Said>>[n].role # "result"  BY DEF Said
  <2> QED  BY <2>1 DEF Ordered
<1>4. Unobserved  BY <1>1 DEF Unobserved
<1> QED  BY <1>1, <1>2, <1>3, <1>4, NothingObserved DEF Relayed, InOrder

\* For any replies, policies, restarts and any number of turns: what the model is
\* sent reports every execution of a call exactly once, right behind the request
\* that asked for it and in its order.
THEOREM RoundTripsAreWhole == Spec => []RoundTrip
<1>1. IInv /\ Relayed /\ [Next]_vars => Relayed'
  BY CountedStep, UnobservedStep, ObservedStep, InOrderStep DEF IInv, Relayed
<1>2. Relayed => RoundTrip  BY DEF Relayed, Counted, InOrder, Ordered, RoundTrip
<1> QED  BY <1>1, <1>2, RelayedInit, Inductive, PTL DEF Spec

-----------------------------------------------------------------------------
(* Progress: the safety half of DriveEnds.  What the driver has yet to do  *)
(* is a triple of numbers, compared from the left: turns, then phases,     *)
(* then events of the stream or calls of the queue.  Every step of the     *)
(* driver and every return of a tool leaves a smaller triple, so between   *)
(* a start or an answer and the next stop there are finitely many.         *)

PhaseLeft ==
    [prepare |-> 11, compile_context |-> 10, request_model |-> 9, consume_model_event |-> 8,
     plan_tool_calls |-> 7, permission_check |-> 6, execute_tool |-> 5,
     record_observation |-> 4, evaluate_stop |-> 3, checkpoint |-> 2,
     yield |-> 0, complete |-> 0, failed |-> 0]
PlaceLeft == [loop |-> 4, step |-> 3, stream |-> 2, execute |-> 2, tool |-> 2]

TurnsLeft == IF pc \in Driving \cup {"returned"} /\ turns < MaxTurns THEN MaxTurns - turns ELSE 0
StepLeft  == IF pc \in Driving THEN 4 * PhaseLeft[phase] + PlaceLeft[pc]
             ELSE IF pc = "returned" THEN 1 ELSE 0
WorkLeft  == IF pc = "stream" THEN Len(stream)
             ELSE IF pc = "execute" /\ pos <= Len(toolQ) THEN 2 * (Len(toolQ) + 1 - pos) + 1
             ELSE IF pc = "tool" /\ pos <= Len(toolQ) THEN 2 * (Len(toolQ) + 1 - pos)
             ELSE 0

Measured == TurnsLeft \in Nat /\ StepLeft \in Nat /\ WorkLeft \in Nat
Lower ==
    \/ TurnsLeft' < TurnsLeft
    \/ TurnsLeft' = TurnsLeft /\ StepLeft' < StepLeft
    \/ TurnsLeft' = TurnsLeft /\ StepLeft' = StepLeft /\ WorkLeft' < WorkLeft

\* Steering and cancelling add nothing to do; an answer and a start do.
Lowers ==
    [][/\ Drive \/ Tool => Lower
       /\ \/ Lower \/ UNCHANGED <<TurnsLeft, StepLeft, WorkLeft>>
          \/ Answer("allow") \/ Answer("deny") \/ Start]_vars

LEMMA MeasuredHolds == TypeOK => Measured
<1> SUFFICES ASSUME TypeOK PROVE Measured  OBVIOUS
<1>1. phase \in Phases /\ turns \in Nat /\ MaxTurns \in Nat /\ stream \in Seq(Event)
      /\ toolQ \in Seq(Calls) /\ pos \in Nat
  BY AgentAssumption DEF TypeOK, PlaceType, TalkType, ReplyType
<1>2. PhaseLeft[phase] \in Nat  BY <1>1 DEF PhaseLeft, Phases
<1>3. pc \in Driving => PlaceLeft[pc] \in Nat  BY DEF Driving, PlaceLeft
<1>4. Len(stream) \in Nat /\ Len(toolQ) \in Nat  BY <1>1
<1>5. TurnsLeft \in Nat  BY <1>1 DEF TurnsLeft
<1>6. StepLeft \in Nat
  <2>1. CASE pc \in Driving  BY <1>2, <1>3, <2>1 DEF StepLeft
  <2>2. CASE pc \notin Driving  BY <2>2 DEF StepLeft
  <2> QED  BY <2>1, <2>2
<1>7. WorkLeft \in Nat
  <2>1. CASE pos <= Len(toolQ)  BY <1>1, <1>4, <2>1 DEF WorkLeft
  <2>2. CASE ~(pos <= Len(toolQ))  BY <1>4, <2>2 DEF WorkLeft
  <2> QED  BY <2>1, <2>2
<1> QED  BY <1>5, <1>6, <1>7 DEF Measured

\* The turns left do not grow while the driver is at work.
LEMMA TurnsFall ==
    ASSUME TypeOK, pc \in Driving \cup {"returned"}, turns' \in {turns, turns + 1}
    PROVE  TurnsLeft' = TurnsLeft \/ TurnsLeft' < TurnsLeft
<1>1. turns \in Nat /\ MaxTurns \in Nat  BY AgentAssumption DEF TypeOK, TalkType
<1>2. CASE turns' = turns
  <2>1. CASE pc' \in Driving \cup {"returned"}  BY <1>1, <1>2, <2>1 DEF TurnsLeft
  <2>2. CASE pc' \notin Driving \cup {"returned"}  BY <1>1, <1>2, <2>2 DEF TurnsLeft
  <2> QED  BY <2>1, <2>2
<1>3. CASE turns' = turns + 1  BY <1>1, <1>3 DEF TurnsLeft
<1> QED  BY <1>2, <1>3

\* A step that keeps the turns and leaves less of the phases, or as much of them
\* and less of the work, is lower.
LEMMA LessToDo ==
    ASSUME TypeOK, pc \in Driving \cup {"returned"}, turns' \in {turns, turns + 1},
           \/ StepLeft' < StepLeft
           \/ StepLeft' = StepLeft /\ WorkLeft' < WorkLeft /\ TurnsLeft' = TurnsLeft
    PROVE  Lower
BY TurnsFall DEF Lower

\* The driver leaves the loop, or returns from a step in a later phase.
LEMMA StepsFall ==
    ASSUME TypeOK, pc \in Driving, turns' \in {turns, turns + 1}
    PROVE  /\ pc' \notin Driving => Lower
           /\ pc' \in Driving /\ phase' \in Phases /\ PhaseLeft[phase'] < PhaseLeft[phase] => Lower
           /\ pc' \in Driving /\ UNCHANGED phase /\ PlaceLeft[pc'] < PlaceLeft[pc] => Lower
<1>1. phase \in Phases  BY DEF TypeOK, PlaceType
<1>2. \A p \in Phases : PhaseLeft[p] \in 0..11  BY DEF PhaseLeft, Phases
<1>3. \A l \in Driving : PlaceLeft[l] \in 2..4  BY DEF Driving, PlaceLeft
<1>4. StepLeft = 4 * PhaseLeft[phase] + PlaceLeft[pc]  BY DEF StepLeft
<1>5. PhaseLeft[phase] \in 0..11 /\ PlaceLeft[pc] \in 2..4  BY <1>1, <1>2, <1>3
<1>6. ASSUME pc' \notin Driving PROVE Lower
  <2>1. StepLeft' \in {0, 1}  BY <1>6 DEF StepLeft
  <2>2. StepLeft' < StepLeft  BY <1>4, <1>5, <2>1
  <2> QED  BY <2>2, LessToDo
<1>7. ASSUME pc' \in Driving, phase' \in Phases, PhaseLeft[phase'] < PhaseLeft[phase] PROVE Lower
  <2>1. StepLeft' = 4 * PhaseLeft[phase'] + PlaceLeft[pc']  BY <1>7 DEF StepLeft
  <2>2. PhaseLeft[phase'] \in 0..11 /\ PlaceLeft[pc'] \in 2..4  BY <1>2, <1>3, <1>7
  <2>3. StepLeft' < StepLeft  BY <1>4, <1>5, <1>7, <2>1, <2>2
  <2> QED  BY <2>3, LessToDo
<1>8. ASSUME pc' \in Driving, UNCHANGED phase, PlaceLeft[pc'] < PlaceLeft[pc] PROVE Lower
  <2>1. StepLeft' = 4 * PhaseLeft[phase] + PlaceLeft[pc']  BY <1>8 DEF StepLeft
  <2>2. PlaceLeft[pc'] \in 2..4  BY <1>3, <1>8
  <2>3. StepLeft' < StepLeft  BY <1>4, <1>5, <1>8, <2>1, <2>2
  <2> QED  BY <2>3, LessToDo
<1> QED  BY <1>6, <1>7, <1>8

\* Within a phase: one event of the stream less, or one call of the queue.
LEMMA StreamFalls ==
    ASSUME TypeOK, Reading, UNCHANGED <<pc, phase, turns>>, stream' = Tail(stream)
    PROVE  Lower
<1>1. stream \in Seq(Event) /\ stream # <<>> /\ pc = "stream"
  BY DEF TypeOK, ReplyType, Reading
<1>2. Len(stream') < Len(stream)  BY <1>1
<1>3. WorkLeft' < WorkLeft  BY <1>1, <1>2 DEF WorkLeft
<1>4. StepLeft' = StepLeft /\ TurnsLeft' = TurnsLeft  BY DEF StepLeft, TurnsLeft
<1> QED  BY <1>1, <1>3, <1>4, LessToDo DEF Driving

LEMMA QueueFalls ==
    ASSUME TypeOK, pos <= Len(toolQ), UNCHANGED <<phase, turns, toolQ>>,
           \/ pc = "execute" /\ pc' = "tool" /\ pos' = pos
           \/ pc \in {"execute", "tool"} /\ pc' = "execute" /\ pos' = pos + 1
    PROVE  Lower
<1>1. toolQ \in Seq(Calls) /\ pos \in Nat  BY DEF TypeOK, TalkType
<1>2. Len(toolQ) \in Nat  BY <1>1
<1>3. \A n, p \in Nat : p <= n =>
         /\ 2 * (n + 1 - p) < 2 * (n + 1 - p) + 1
         /\ 0 < 2 * (n + 1 - p)
         /\ 2 * (n + 1 - (p + 1)) + 1 < 2 * (n + 1 - p)
         /\ 2 * (n + 1 - (p + 1)) + 1 < 2 * (n + 1 - p) + 1
  OBVIOUS
<1>4. WorkLeft' < WorkLeft
  <2> DEFINE n == Len(toolQ)
  <2>1. /\ 2 * (n + 1 - pos) < 2 * (n + 1 - pos) + 1
        /\ 0 < 2 * (n + 1 - pos) /\ 0 < 2 * (n + 1 - pos) + 1
        /\ 2 * (n + 1 - (pos + 1)) + 1 < 2 * (n + 1 - pos)
        /\ 2 * (n + 1 - (pos + 1)) + 1 < 2 * (n + 1 - pos) + 1
    BY <1>1, <1>2, <1>3
  <2>2. WorkLeft = IF pc = "execute" THEN 2 * (n + 1 - pos) + 1 ELSE 2 * (n + 1 - pos)
    BY DEF WorkLeft
  <2>3. CASE pc' = "tool"
    <3>1. WorkLeft' = 2 * (n + 1 - pos)  BY <2>3 DEF WorkLeft
    <3> QED  BY <2>1, <2>2, <2>3, <3>1
  <2>4. CASE pc' = "execute"
    <3>1. WorkLeft' \in {0, 2 * (n + 1 - (pos + 1)) + 1}  BY <2>4 DEF WorkLeft
    <3> QED  BY <2>1, <2>2, <3>1
  <2> QED  BY <2>3, <2>4
<1>5. StepLeft' = StepLeft /\ TurnsLeft' = TurnsLeft
  BY DEF StepLeft, TurnsLeft, Driving, PlaceLeft
<1> QED  BY <1>4, <1>5, LessToDo DEF Driving

LEMMA DriveLowers == ASSUME TypeOK, Placed, Drive \/ Tool PROVE Lower
<1>1. ASSUME pc \in Driving, pc' = "returned", UNCHANGED turns PROVE Lower
  BY <1>1, StepsFall DEF Driving
<1>2. ASSUME pc \in Driving, NEW p \in Phases, pc' = "loop", phase' = p,
             PhaseLeft[p] < PhaseLeft[phase], turns' \in {turns, turns + 1}
      PROVE  Lower
  <2>1. pc' \in Driving  BY <1>2 DEF Driving
  <2> QED  BY <1>2, <2>1, StepsFall
<1>3. ASSUME pc \in Driving, pc' \in Driving, UNCHANGED <<phase, turns>>,
             PlaceLeft[pc'] < PlaceLeft[pc]
      PROVE  Lower
  BY <1>3, StepsFall
<1>4. CASE LoopDone \/ LoopCancelled \/ StepCancelled \/ RequestFails \/ StreamCancelled
           \/ StreamError \/ PermissionDenied \/ Refuse \/ ToolBreaks
  <2>1. pc \in Driving /\ pc' = "returned" /\ UNCHANGED turns
    BY <1>4 DEF LoopDone, LoopCancelled, StepCancelled, RequestFails, StreamCancelled,
       StreamError, PermissionDenied, Refuse, ToolBreaks, At, Reading, Executing, Fail, Yield,
       Driving, talk
  <2> QED  BY <1>1, <2>1
<1>5. CASE LoopStep \/ Request \/ StartQueue
  <2>1. pc \in Driving /\ pc' \in Driving /\ UNCHANGED <<phase, turns>>
    BY <1>5 DEF LoopStep, Request, StartQueue, At, Driving, talk
  <2>2. PlaceLeft[pc'] < PlaceLeft[pc]
    BY <1>5 DEF LoopStep, Request, StartQueue, At, PlaceLeft
  <2> QED  BY <1>3, <2>1, <2>2
<1>6. CASE StepOnward \/ StreamEnd \/ PlanToolCalls \/ PermissionAllowed \/ QueueDone
           \/ EvaluateStop
  <2>1. pc \in Driving /\ pc' = "loop" /\ turns' \in {turns, turns + 1}
    BY <1>6 DEF StepOnward, StreamEnd, PlanToolCalls, PermissionAllowed, QueueDone,
       EvaluateStop, At, Advance, Driving, talk
  <2>2. phase' \in Phases /\ PhaseLeft[phase'] < PhaseLeft[phase]
    <3>1. CASE StepOnward  BY <3>1 DEF StepOnward, At, Advance, Onward, Phases, PhaseLeft
    <3>2. CASE StreamEnd  BY <3>2 DEF StreamEnd, Advance, Phases, PhaseLeft, Placed
    <3>3. CASE PlanToolCalls  BY <3>3 DEF PlanToolCalls, At, Advance, Phases, PhaseLeft
    <3>4. CASE PermissionAllowed  BY <3>4 DEF PermissionAllowed, At, Advance, Phases, PhaseLeft
    <3>5. CASE QueueDone
      <4>1. phase = "execute_tool" /\ phase' = "record_observation"
        BY <3>5 DEF QueueDone, Advance, Placed
      <4> QED  BY <4>1 DEF Phases, PhaseLeft
    <3>6. CASE EvaluateStop
      <4>1. phase = "evaluate_stop" /\ phase' = "checkpoint"
        BY <3>6 DEF EvaluateStop, At, Advance
      <4> QED  BY <4>1 DEF Phases, PhaseLeft
    <3> QED  BY <1>6, <3>1, <3>2, <3>3, <3>4, <3>5, <3>6
  <2> QED  BY <1>2, <2>1, <2>2
<1>7. CASE StreamPart \/ StreamUsage
  BY <1>7, StreamFalls DEF StreamPart, StreamUsage, Read, talk
<1>8. CASE PermissionAsk
  <2>1. pc \in Driving /\ phase = "permission_check" /\ UNCHANGED turns
    BY <1>8 DEF PermissionAsk, At, Driving
  <2>2. pc' = "returned" \/ (pc' = "loop" /\ phase' = "yield")
    BY <1>8 DEF PermissionAsk, Advance, Fail
  <2>3. PhaseLeft["yield"] < PhaseLeft["permission_check"] /\ "yield" \in Phases
    BY DEF PhaseLeft, Phases
  <2> QED  BY <1>1, <1>2, <2>1, <2>2, <2>3
<1>9. CASE Intend \/ Skip \/ ToolReturns
  <2>1. pos <= Len(toolQ) /\ UNCHANGED <<phase, turns, toolQ>>
    BY <1>9 DEF Intend, Skip, ToolReturns, Executing, Placed, talk
  <2>2. \/ pc = "execute" /\ pc' = "tool" /\ pos' = pos
        \/ pc \in {"execute", "tool"} /\ pc' = "execute" /\ pos' = pos + 1
    BY <1>9 DEF Intend, Skip, ToolReturns, Executing, talk
  <2> QED  BY <2>1, <2>2, QueueFalls
<1>10. CASE EvaluateMore
  <2>1. turns \in Nat /\ MaxTurns \in Nat  BY AgentAssumption DEF TypeOK, TalkType
  <2>2. /\ pc = "step" /\ pc' = "loop" /\ turns' = turns + 1 /\ turns + 1 < MaxTurns
    BY <1>10 DEF EvaluateMore, At, Advance
  <2>3. TurnsLeft' < TurnsLeft  BY <2>1, <2>2 DEF TurnsLeft, Driving
  <2> QED  BY <2>3 DEF Lower
<1>11. CASE Checkpoint
  <2>1. pc \in Driving /\ phase = "checkpoint" /\ UNCHANGED turns
    BY <1>11 DEF Checkpoint, At, Driving, talk
  <2>2. pc' = "returned" \/ (pc' = "loop" /\ phase' \in {"complete", "yield"})
    BY <1>11 DEF Checkpoint, Advance, Fail
  <2>3. \A p \in {"complete", "yield"} : PhaseLeft[p] < PhaseLeft["checkpoint"] /\ p \in Phases
    BY DEF PhaseLeft, Phases
  <2> QED  BY <1>1, <1>2, <2>1, <2>2, <2>3
<1>12. CASE Observe
  <2>1. pc = "returned" /\ pc' \in {"parked", "gone"} /\ UNCHANGED turns
    BY <1>12 DEF Observe, talk
  <2>2. StepLeft' < StepLeft  BY <2>1 DEF StepLeft, Driving
  <2> QED  BY <2>1, <2>2, LessToDo
<1> QED
  BY <1>4, <1>5, <1>6, <1>7, <1>8, <1>9, <1>10, <1>11, <1>12 DEF Drive, Tool

\* A crash ends what was under way; the clients' other steps leave it as it is.
LEMMA CrashLowers ==
    ASSUME TypeOK, Crash
    PROVE  Lower \/ UNCHANGED <<TurnsLeft, StepLeft, WorkLeft>>
<1>1. pc' = "down" /\ turns' = 0  BY DEF Crash, Fresh
<1>2. TurnsLeft' = 0 /\ StepLeft' = 0 /\ WorkLeft' = 0
  BY <1>1 DEF TurnsLeft, StepLeft, WorkLeft, Driving
<1>3. Measured  BY MeasuredHolds
<1> QED  BY <1>2, <1>3 DEF Measured, Lower

LEMMA OthersLower ==
    ASSUME TypeOK, Inject \/ Cancel \/ UNCHANGED vars
    PROVE  UNCHANGED <<TurnsLeft, StepLeft, WorkLeft>>
<1>1. UNCHANGED <<pc, phase, turns, stream, pos, toolQ>>
  BY DEF Inject, Cancel, vars, talk, reply
<1> QED  BY <1>1 DEF TurnsLeft, StepLeft, WorkLeft

\* RunUntilDone and Step (runtime.go): between a start or an answer and the next
\* stop the driver takes finitely many steps, whatever the model streams, the
\* tools return and the clients send, for every queue and every number of turns.
THEOREM TurnsRunOut == Spec => []Measured /\ Lowers
<1>1. IInv /\ [Next]_vars =>
        [/\ Drive \/ Tool => Lower
         /\ \/ Lower \/ UNCHANGED <<TurnsLeft, StepLeft, WorkLeft>>
            \/ Answer("allow") \/ Answer("deny") \/ Start]_vars
  <2> SUFFICES ASSUME IInv, [Next]_vars
               PROVE  /\ Drive \/ Tool => Lower
                      /\ \/ Lower \/ UNCHANGED <<TurnsLeft, StepLeft, WorkLeft>>
                         \/ Answer("allow") \/ Answer("deny") \/ Start
    OBVIOUS
  <2>1. TypeOK /\ Placed  BY DEF IInv
  <2>2. Drive \/ Tool => Lower  BY <2>1, DriveLowers
  <2>3. Crash => Lower \/ UNCHANGED <<TurnsLeft, StepLeft, WorkLeft>>  BY <2>1, CrashLowers
  <2>4. Inject \/ Cancel \/ UNCHANGED vars => UNCHANGED <<TurnsLeft, StepLeft, WorkLeft>>
    BY <2>1, OthersLower
  <2> QED  BY <2>2, <2>3, <2>4 DEF Next, Client
<1>2. IInv => Measured  BY MeasuredHolds DEF IInv
<1> QED  BY <1>1, <1>2, Inductive, PTL DEF Lowers, Spec

=============================================================================
