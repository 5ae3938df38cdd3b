----------------------------- MODULE EventStream -----------------------------
(***************************************************************************)
(* The event log of one run and the subscriptions of one connection to it  *)
(* (appendEvent, noteEventWritten, RotateLog, handle, handleSubscribe).    *)
(*                                                                         *)
(* One goroutine at a time appends to the log of a run: its driver.  For   *)
(* every event it writes the line, counts it, now and then rewrites the    *)
(* log, and pushes the event to the channels registered by then.  A        *)
(* subscription registers its channel, reads the log, sends what it read,  *)
(* looks whether the run is active, and goes on with the channel.  No lock *)
(* spans two of these steps.  Event e is the e-th event ever written, so   *)
(* two events differ in their content; some share an id all the same.      *)
(***************************************************************************)
EXTENDS Naturals, Sequences

CONSTANTS
    MaxEvents,  \* bound on the events explored
    LogMax,     \* eventLogMax
    MaxOld,     \* bound on the lines earlier processes left, each counting from 0
    Cap,        \* capacity of a subscriber's channel
    MaxSubs     \* bound on the subscribe requests on the connection

ASSUME StreamAssumption ==
    /\ MaxEvents \in Nat /\ Cap \in Nat /\ MaxOld \in Nat /\ MaxSubs \in Nat
    /\ LogMax \in Nat /\ LogMax >= 2

Subs == 1..MaxSubs   \* in the order of the requests

Kinds == {"delta", "context", "paused", "finished"}
\* Runner events count on; the daemon's own events have one id per kind.
IdOf(e, k) == CASE k[e] = "context" -> 0 [] k[e] = "paused" -> 1 [] OTHER -> e + 1

VARIABLES
    log,        \* events-<run>.jsonl
    kept,       \* the lines RotateLog is about to write back
    count,      \* s.eventLines of the log
    kind,       \* the kinds of the events written so far
    driver,     \* where the driver is
    inMap,      \* the run is in s.runs
    sub,        \* where each subscription is
    copy,       \* what is left to send of the log it read
    queue,      \* its channel
    delivered,  \* the events written to the connection for it
    registered, \* how many events were written when it registered
    dropped,    \* its channel was full at a push
    ended,      \* why it returned (observer)
    done,       \* its done channel is closed
    connected,  \* the connection is open
    up          \* the daemon has not panicked

stream == <<log, kept, count, kind, driver, inMap>>
client == <<copy, queue, delivered, registered, dropped, ended>>
vars   == <<stream, sub, client, done, connected, up>>

Written == Len(kind)

Init ==
    \* A daemon that was restarted finds the lines and not their count.
    /\ \E old \in 0..MaxOld :
          /\ log = [i \in 1..old |-> i]
          /\ kind = [i \in 1..old |-> "delta"]
    /\ kept = <<>>
    /\ count = 0
    /\ driver = "running"
    /\ inMap = TRUE
    /\ sub = [s \in Subs |-> "none"]
    /\ copy = [s \in Subs |-> <<>>]
    /\ queue = [s \in Subs |-> <<>>]
    /\ delivered = [s \in Subs |-> <<>>]
    /\ registered = [s \in Subs |-> 0]
    /\ dropped = [s \in Subs |-> FALSE]
    /\ ended = [s \in Subs |-> "no"]
    /\ done = [s \in Subs |-> FALSE]
    /\ connected = TRUE
    /\ up = TRUE

-----------------------------------------------------------------------------
(* The driver: appendEvent, and what observe does after its last event.    *)

Write ==
    /\ up /\ driver = "running" /\ Written < MaxEvents
    /\ \E k \in Kinds : kind' = Append(kind, k)
    /\ log' = Append(log, Written + 1)
    /\ driver' = "count"
    /\ UNCHANGED <<kept, count, inMap, sub, client, done, connected, up>>

\* Mutant: the cap is not looked at.
CountOn ==
    /\ up /\ driver = "count"
    /\ count' = count + 1 /\ driver' = "push"
    /\ UNCHANGED <<log, kept, kind, inMap, sub, client, done, connected, up>>

Count ==
    /\ up /\ driver = "count"
    /\ IF count + 1 < LogMax
       THEN count' = count + 1 /\ driver' = "push"
       ELSE driver' = "rotate" /\ UNCHANGED count
    /\ UNCHANGED <<log, kept, kind, inMap, sub, client, done, connected, up>>

\* Mutant: the count is set back although nothing was trimmed.
RotateAlways ==
    /\ up /\ driver = "rotate"
    /\ IF Len(log) <= LogMax
       THEN /\ count' = LogMax \div 2 /\ driver' = "push"
            /\ UNCHANGED <<log, kept>>
       ELSE /\ kept' = SubSeq(log, Len(log) - LogMax \div 2 + 1, Len(log))
            /\ log' = <<>>
            /\ driver' = "refill" /\ UNCHANGED count
    /\ UNCHANGED <<kind, inMap, sub, client, done, connected, up>>

\* RotateLog: a log over the cap is truncated ...
Rotate ==
    /\ up /\ driver = "rotate"
    /\ IF Len(log) <= LogMax
       THEN /\ count' = LogMax /\ driver' = "push"
            /\ UNCHANGED <<log, kept>>
       ELSE /\ kept' = SubSeq(log, Len(log) - LogMax \div 2 + 1, Len(log))
            /\ log' = <<>>
            /\ driver' = "refill" /\ UNCHANGED count
    /\ UNCHANGED <<kind, inMap, sub, client, done, connected, up>>

\* ... and its newest half written back, in place.
Refill ==
    /\ up /\ driver = "refill"
    /\ log' = kept /\ kept' = <<>>
    /\ count' = LogMax \div 2
    /\ driver' = "push"
    /\ UNCHANGED <<kind, inMap, sub, client, done, connected, up>>

\* Mutant: a subscription that still catches up is passed over.
PushLive ==
    /\ up /\ driver = "push"
    /\ LET open == {s \in Subs : sub[s] = "live"}
           full == {s \in open : Len(queue[s]) >= Cap} IN
          /\ queue' = [s \in Subs |-> IF s \in open \ full
                                      THEN Append(queue[s], Written) ELSE queue[s]]
          /\ dropped' = [s \in Subs |-> dropped[s] \/ s \in full]
    /\ driver' = CASE kind[Written] = "finished" -> "leave"
                   [] kind[Written] = "paused"   -> "pause"
                   [] OTHER                      -> "running"
    /\ UNCHANGED <<log, kept, count, kind, inMap, sub, copy, delivered, registered, ended,
                   done, connected, up>>

\* A send that does not block: a full channel misses the event.
Push ==
    /\ up /\ driver = "push"
    /\ LET open == {s \in Subs : sub[s] \in {"read", "replay", "check", "live"}}
           full == {s \in open : Len(queue[s]) >= Cap} IN
          /\ queue' = [s \in Subs |-> IF s \in open \ full
                                      THEN Append(queue[s], Written) ELSE queue[s]]
          /\ dropped' = [s \in Subs |-> dropped[s] \/ s \in full]
    /\ driver' = CASE kind[Written] = "finished" -> "leave"
                   [] kind[Written] = "paused"   -> "pause"
                   [] OTHER                      -> "running"
    /\ UNCHANGED <<log, kept, count, kind, inMap, sub, copy, delivered, registered, ended,
                   done, connected, up>>

\* A run that finished, or parked with nothing to ask, leaves the map.
LeaveMap ==
    /\ up /\ driver \in {"leave", "pause"}
    /\ inMap' = FALSE /\ driver' = "gone"
    /\ UNCHANGED <<log, kept, count, kind, sub, client, done, connected, up>>

\* A run that stopped to ask stays, and goes on when it is answered.
Ask ==
    /\ up /\ driver = "pause"
    /\ driver' = "asking"
    /\ UNCHANGED <<log, kept, count, kind, inMap, sub, client, done, connected, up>>

Answer ==
    /\ up /\ driver = "asking"
    /\ driver' = "running"
    /\ UNCHANGED <<log, kept, count, kind, inMap, sub, client, done, connected, up>>

-----------------------------------------------------------------------------
(* The connection and its subscriptions.                                   *)

\* handle: a request that follows another one closes the other's done channel;
\* closing a closed channel takes the whole daemon down.
Subscribe(s) ==
    /\ up /\ connected /\ sub[s] = "none"
    /\ \A t \in Subs : t < s => sub[t] # "none"
    /\ IF s > 1 /\ done[s - 1]
       THEN up' = FALSE /\ UNCHANGED <<sub, done>>
       ELSE /\ sub' = [sub EXCEPT ![s] = "start"]
            /\ done' = [t \in Subs |-> done[t] \/ t = s - 1]
            /\ UNCHANGED up
    /\ UNCHANGED <<stream, client, connected>>

Disconnect ==
    /\ up /\ connected /\ connected' = FALSE
    /\ UNCHANGED <<stream, sub, client, done, up>>

Register(s) ==
    /\ up /\ sub[s] = "start"
    /\ sub' = [sub EXCEPT ![s] = "read"]
    /\ registered' = [registered EXCEPT ![s] = Written]
    /\ UNCHANGED <<stream, copy, queue, delivered, dropped, ended, done, connected, up>>

\* handleSubscribe returns and takes its channel off the list.
Return(s, why) ==
    /\ sub' = [sub EXCEPT ![s] = "returned"]
    /\ ended' = [ended EXCEPT ![s] = why]
    /\ queue' = [queue EXCEPT ![s] = <<>>]
    /\ copy' = [copy EXCEPT ![s] = <<>>]

\* The client asked for the whole log, or for what follows the events it had; the
\* cursor is an index into the log as it is now.
ReadLog(s) ==
    /\ up /\ sub[s] = "read"
    /\ \E from \in {0, registered[s]} :
          IF from > Len(log)
          THEN Return(s, "error")
          ELSE /\ copy' = [copy EXCEPT ![s] = SubSeq(log, from + 1, Len(log))]
               /\ sub' = [sub EXCEPT ![s] = "replay"]
               /\ UNCHANGED <<ended, queue>>
    /\ UNCHANGED <<stream, delivered, registered, dropped, done, connected, up>>

Send(s, e) == delivered' = [delivered EXCEPT ![s] = Append(@, e)]

Replay(s) ==
    /\ up /\ connected /\ sub[s] = "replay"
    /\ IF copy[s] = <<>>
       THEN sub' = [sub EXCEPT ![s] = "check"] /\ UNCHANGED <<copy, delivered>>
       ELSE Send(s, Head(copy[s])) /\ copy' = [copy EXCEPT ![s] = Tail(@)] /\ UNCHANGED sub
    /\ UNCHANGED <<stream, queue, registered, dropped, ended, done, connected, up>>

CheckActive(s) ==
    /\ up /\ sub[s] = "check"
    /\ IF inMap THEN sub' = [sub EXCEPT ![s] = "live"] /\ UNCHANGED <<ended, queue, copy>>
                ELSE Return(s, "inactive")
    /\ UNCHANGED <<stream, delivered, registered, dropped, done, connected, up>>

\* Mutant: only the last event is compared.
AlreadySentLast(s, e) ==
    delivered[s] # <<>> /\ delivered[s][Len(delivered[s])] = e

\* sent keeps, for every id, the event it was last sent with.
AlreadySent(s, e) ==
    \E i \in DOMAIN delivered[s] :
        /\ delivered[s][i] = e
        /\ \A j \in DOMAIN delivered[s] : j > i => IdOf(delivered[s][j], kind) # IdOf(e, kind)

\* Mutant: the end of the run does not end the subscription.
ReceiveOn(s) ==
    /\ up /\ connected /\ sub[s] = "live" /\ queue[s] # <<>>
    /\ LET e == Head(queue[s]) IN
          IF AlreadySent(s, e) THEN UNCHANGED delivered ELSE Send(s, e)
    /\ queue' = [queue EXCEPT ![s] = Tail(@)]
    /\ UNCHANGED <<stream, sub, ended, copy, registered, dropped, done, connected, up>>

Receive(s) ==
    /\ up /\ connected /\ sub[s] = "live" /\ queue[s] # <<>>
    /\ LET e == Head(queue[s]) IN
          IF AlreadySent(s, e)
          THEN queue' = [queue EXCEPT ![s] = Tail(@)] /\ UNCHANGED <<delivered, sub, ended, copy>>
          ELSE /\ Send(s, e)
               /\ IF kind[e] = "finished" THEN Return(s, "finished")
                  ELSE queue' = [queue EXCEPT ![s] = Tail(@)] /\ UNCHANGED <<sub, ended, copy>>
    /\ UNCHANGED <<stream, registered, dropped, done, connected, up>>

\* The context of the connection is cancelled, or a write fails.
Gone(s) ==
    /\ up /\ ~connected /\ sub[s] \in {"read", "replay", "live"}
    /\ Return(s, "gone")
    /\ UNCHANGED <<stream, delivered, registered, dropped, done, connected, up>>

\* The goroutine's own close of done.
CloseDone(s) ==
    /\ up /\ sub[s] = "returned"
    /\ sub' = [sub EXCEPT ![s] = "closed"]
    /\ IF done[s] THEN up' = FALSE /\ UNCHANGED done
                  ELSE done' = [done EXCEPT ![s] = TRUE] /\ UNCHANGED up
    /\ UNCHANGED <<stream, client, connected>>

-----------------------------------------------------------------------------
Drive     == Write \/ Count \/ Rotate \/ Refill \/ Push \/ LeaveMap \/ Ask \/ Answer
Handle(s) == Register(s) \/ ReadLog(s) \/ Replay(s) \/ CheckActive(s)
             \/ Receive(s) \/ Gone(s) \/ CloseDone(s)

Next == Drive \/ Disconnect \/ \E s \in Subs : Subscribe(s) \/ Handle(s)

Spec == Init /\ [][Next]_vars

\* The goroutine of a subscription is scheduled.
FairSpec == Spec /\ \A s \in Subs : WF_vars(Handle(s))
-----------------------------------------------------------------------------
(* Properties.                                                             *)

SubLocations == {"none", "start", "read", "replay", "check", "live", "returned", "closed"}

\* appendEvent has written a line and not yet pushed the event.
Handling == driver \in {"count", "rotate", "refill", "push"}

TypeOK ==
    /\ kind \in Seq(Kinds)
    /\ log \in Seq(1..Written) /\ kept \in Seq(1..Written)
    /\ count \in 0..LogMax
    /\ driver \in {"running", "count", "rotate", "refill", "push", "leave", "pause",
                   "asking", "gone"}
    /\ Handling => Written > 0
    /\ inMap \in BOOLEAN
    /\ sub \in [Subs -> SubLocations]
    /\ copy \in [Subs -> Seq(1..Written)]
    /\ queue \in [Subs -> Seq(1..Written)]
    /\ delivered \in [Subs -> Seq(1..Written)]
    /\ registered \in [Subs -> Nat]
    /\ dropped \in [Subs -> BOOLEAN]
    /\ ended \in [Subs -> {"no", "error", "inactive", "finished", "gone"}]
    /\ done \in [Subs -> BOOLEAN]
    /\ connected \in BOOLEAN /\ up \in BOOLEAN

\* RotateLog's comment: a caller that assumes a trim that did not happen leaves
\* "the count permanently behind the file".  The count, which starts at 0 over the
\* lines an earlier process left and is set back by a rotation, is never further
\* behind the file than those lines and the one being counted, so the file holds
\* at most the cap and those.
LogIsCapped ==
    /\ Len(log) <= LogMax + MaxOld + 1
    /\ Len(log) <= count + MaxOld + (IF driver \in {"count", "rotate"} THEN 1 ELSE 0)

\* The events that have gone through appendEvent to its end.
Pushed == IF Handling THEN Written - 1 ELSE Written

InSeq(e, q) == \E i \in DOMAIN q : q[i] = e

\* daemon.go:1218 "Register subscriber first so no live events emitted during
\* catch-up are dropped": a subscription whose channel was never full has sent, or
\* has in its channel, every event pushed since it registered, wherever it is and
\* whatever the log was rotated into meanwhile.
HasAll(s) ==
    \A e \in (registered[s] + 1)..Pushed : InSeq(e, delivered[s]) \/ InSeq(e, queue[s])

NoGap ==
    \A s \in Subs : sub[s] \in {"read", "replay", "check", "live"} /\ ~dropped[s] => HasAll(s)

\* reconnect-replay.md:14 "Replay never duplicates": an event that has an id of
\* its own is sent once, also when it is in the log and in the channel.
SharesId(e) == \E f \in 1..Written : f # e /\ IdOf(f, kind) = IdOf(e, kind)

NoRepeat(s) ==
    \A i, j \in DOMAIN delivered[s] :
        i # j /\ delivered[s][i] = delivered[s][j] => SharesId(delivered[s][i])

SentOnce == \A s \in Subs : NoRepeat(s)

\* The inductive invariant behind the proofs: lines keep the order of their
\* events through every rotation, and a subscription that replays has sent
\* nothing but what comes before the rest of its copy.
Increasing(q) == \A i, j \in DOMAIN q : i < j => q[i] < q[j]

LinesInOrder == Increasing(log) /\ Increasing(kept)

HalfIsKept == driver = "refill" => Len(kept) = LogMax \div 2

SentInOrder(s) ==
    /\ sub[s] \in {"none", "start", "read"} => delivered[s] = <<>>
    /\ sub[s] = "replay" =>
          /\ Increasing(copy[s]) /\ Increasing(delivered[s])
          /\ \A i \in DOMAIN delivered[s], j \in DOMAIN copy[s] : delivered[s][i] < copy[s][j]

ReplayInOrder == \A s \in Subs : SentInOrder(s)

IInv ==
    /\ TypeOK /\ LogIsCapped /\ HalfIsKept /\ LinesInOrder /\ ReplayInOrder
    /\ NoGap /\ SentOnce

\* open-work.md:69: a live subscription that is pushed the end of the run ends.
FinishEnds ==
    \A s \in Subs :
        (sub[s] = "live" /\ \E i \in DOMAIN queue[s] :
             kind[queue[s][i]] = "finished" /\ ~InSeq(queue[s][i], delivered[s]))
        ~> (sub[s] \in {"returned", "closed"} \/ ~up)
=============================================================================
