----------------------------- MODULE RunFollower -----------------------------
(***************************************************************************)
(* A client that follows a run: observe and fold of the terminal           *)
(* interface's runner (prumo-tui/internal/runtime/runner.go) over the      *)
(* SDK's subscription, against what the daemon serves: the log of a        *)
(* session, which successive lives of the run extend, the subscription     *)
(* that replays it from a cursor and then pushes, and the two requests a   *)
(* poll makes, status and events.                                          *)
(*                                                                         *)
(* The client remembers one number, the cursor, over all of them.          *)
(***************************************************************************)
EXTENDS Integers, Sequences

CONSTANTS
    Window,      \* opEvents serves so many of the last events (500)
    LogMax,      \* the log is cut to its newest half beyond this (2000)
    ChanSize,    \* pushes a subscription holds before it drops one (128)
    MaxFailures, \* MaxPollFailures
    MaxReports,  \* bound on the events other than a run's last
    MaxFollows,  \* bound on Run and Attach
    MaxFaults    \* bound on lost connections and crashes

ASSUME FollowerAssumption ==
    /\ Window \in Nat \ {0} /\ LogMax \in Nat /\ Window < LogMax
    /\ ChanSize \in Nat \ {0} /\ MaxFailures \in Nat
    /\ MaxReports \in Nat /\ MaxFollows \in Nat /\ MaxFaults \in Nat

\* An event: one of the run's reports, from run.started on and all different,
\* or the last of a stretch of the run.
Report(n) == [kind |-> "report", n |-> n]
Finished  == [kind |-> "finished", n |-> 0]
Paused    == [kind |-> "paused", n |-> 0]
Event     == {Report(n) : n \in 1..MaxReports} \cup {Finished, Paused}

VARIABLES
    up,        \* the daemon runs
    run,       \* the session's life in the run map, and how far it is
    record,    \* what its record says when it is not in the map
    log, made, \* its timeline; reports so far
    sub,       \* the client's subscription, as the daemon has it
    chan, feed,\* pushes it holds, and what is on its way to the client
    at,        \* where observe is
    cursor,    \* Runner.cursors: events read
    counted,   \* how often each report is in what the client shows
    failures,  \* polls in a row that got no answer
    seen,      \* the status the poll read was terminal
    how,       \* how the last follow ended (observer)
    behind,    \* it began before the end of an earlier life (observer)
    lost,      \* a push was dropped (observer)
    overgrown, \* the log was longer than Window (observer)
    follows, faults   \* so far (bounds)

daemon == <<up, run, record>>
disk   == <<log, made>>
wire   == <<sub, chan, feed>>
view   == <<cursor, counted>>
poll   == <<failures, seen>>
notes  == <<how, behind>>
bound  == <<follows, faults>>
vars   == <<daemon, disk, wire, at, view, poll, notes, lost, overgrown, bound>>

Init ==
    /\ up = TRUE /\ run = "none" /\ record = "unknown"
    /\ log = << >> /\ made = 0
    /\ sub = "none" /\ chan = << >> /\ feed = << >>
    /\ at = "off" /\ cursor = 0 /\ counted = [n \in 1..MaxReports |-> 0]
    /\ failures = 0 /\ seen = FALSE
    /\ how = "none" /\ behind = FALSE /\ lost = FALSE /\ overgrown = FALSE
    /\ follows = 0 /\ faults = 0

From(s, i) == SubSeq(s, i, Len(s))
Newest(k)  == IF Len(log) > k THEN From(log, Len(log) - k + 1) ELSE log

-----------------------------------------------------------------------------
(* The daemon.                                                             *)

\* appendEvent: the line, the rotation, the push to a subscription with room.
Write(e) ==
    /\ log' = IF Len(log) < LogMax THEN Append(log, e)
              ELSE Append(Newest(LogMax \div 2 - 1), e)
    /\ overgrown' = (overgrown \/ Len(log') > Window)
    /\ IF sub \in {"new", "live"}
       THEN IF Len(chan) < ChanSize
            THEN chan' = Append(chan, e) /\ UNCHANGED <<sub, feed, lost>>
            ELSE lost' = TRUE /\ UNCHANGED wire
       ELSE UNCHANGED <<wire, lost>>

WriteReport ==
    /\ made < MaxReports /\ made' = made + 1
    /\ Write(Report(made'))

Advance ==
    /\ run = "live"
    /\ WriteReport
    /\ UNCHANGED <<daemon, at, view, poll, notes, bound>>

\* The end of a life's stretch: run.finished, or run.paused for one that
\* yielded and for one that asks.
Stop ==
    /\ run = "live"
    /\ \/ run' = "finishing" /\ Write(Finished)
       \/ run' \in {"yielding", "parking"} /\ Write(Paused)
    /\ UNCHANGED <<up, record, made, at, view, poll, notes, bound>>

\* The record, and the map: only a life that asks stays in it.
Leave ==
    /\ run \in {"finishing", "yielding", "parking"}
    /\ run' = IF run = "parking" THEN "asking" ELSE "none"
    /\ record' = IF run = "parking" THEN "asking" ELSE "terminal"
    /\ UNCHANGED <<up, disk, wire, at, view, poll, notes, lost, overgrown, bound>>

\* ResolvePermission reports the answer, and the life goes on.
Answer ==
    /\ run = "asking" /\ run' = "live"
    /\ WriteReport
    /\ UNCHANGED <<up, record, at, view, poll, notes, bound>>

\* handleSubscribe looks for the run after the replay.  When it is not there
\* the subscription returns, and the connection stays open.
Look ==
    /\ sub = "new"
    /\ IF run = "none" THEN sub' = "over" /\ chan' = << >>
       ELSE sub' = "live" /\ UNCHANGED chan
    /\ UNCHANGED <<daemon, disk, feed, at, view, poll, notes, lost, overgrown, bound>>

\* The live part of the subscription returns after run.finished.
Send ==
    /\ sub = "live" /\ chan # << >>
    /\ feed' = Append(feed, Head(chan)) /\ chan' = Tail(chan)
    /\ sub' = IF Head(chan) = Finished THEN "over" ELSE sub
    /\ UNCHANGED <<daemon, disk, at, view, poll, notes, lost, overgrown, bound>>

\* The process dies; reconcileStore of the next one calls what was running
\* interrupted, or waiting if its checkpoint asks.
Crash ==
    /\ up /\ faults < MaxFaults /\ faults' = faults + 1
    /\ up' = FALSE /\ run' = "none"
    /\ record' \in IF run = "none" THEN {record} ELSE {"terminal", "asking"}
    /\ chan' = << >>
    /\ sub' = IF sub \in {"new", "live", "over"} THEN "closed" ELSE sub
    /\ UNCHANGED <<disk, feed, at, view, poll, notes, lost, overgrown, follows>>

Restart ==
    /\ ~up /\ up' = TRUE
    /\ UNCHANGED <<run, record, disk, wire, at, view, poll, notes, lost, overgrown, bound>>

\* The connection ends: what was on its way arrives or does not.
Disconnect ==
    /\ sub \in {"new", "live", "over"}
    /\ faults < MaxFaults /\ faults' = faults + 1
    /\ sub' = "closed" /\ chan' = << >>
    /\ feed' \in {feed, << >>}
    /\ UNCHANGED <<daemon, disk, at, view, poll, notes, lost, overgrown, follows>>

-----------------------------------------------------------------------------
(* The client.                                                             *)

Hangup == sub' = "none" /\ chan' = << >> /\ feed' = << >>

\* A life that ended is still ahead of the cursor.
EndAhead(last) == \E i \in (cursor + 1)..last : log[i] = Finished

Follow ==
    /\ at = "off" /\ up
    /\ follows < MaxFollows /\ follows' = follows + 1
    /\ at' = "subscribe" /\ how' = "none"
    /\ failures' = 0 /\ seen' = FALSE

\* Start is refused while the map has the session; it reports run.started.
Run ==
    /\ Follow
    /\ run = "none" /\ run' = "live"
    /\ WriteReport
    /\ behind' = EndAhead(Len(log))
    /\ UNCHANGED <<up, record, view, faults>>

Attach ==
    /\ Follow
    /\ run # "none" \/ record # "unknown"
    /\ behind' = EndAhead(Len(log) - 1)
    /\ UNCHANGED <<daemon, disk, wire, view, lost, overgrown, faults>>

\* A cursor beyond the log is refused, and the client polls.
Subscribe ==
    /\ at = "subscribe"
    /\ IF up /\ cursor <= Len(log)
       THEN /\ sub' = "new" /\ chan' = << >> /\ feed' = From(log, cursor + 1)
            /\ at' = "stream"
       ELSE at' = "poll" /\ UNCHANGED wire
    /\ UNCHANGED <<daemon, disk, view, poll, notes, lost, overgrown, bound>>

Once(k) == IF k < 2 THEN k + 1 ELSE 2
Added(c, s) ==
    [n \in DOMAIN c |-> IF Report(n) \in {s[i] : i \in DOMAIN s} THEN Once(c[n]) ELSE c[n]]

Fold ==
    /\ at = "stream" /\ feed # << >>
    /\ cursor' = cursor + 1
    /\ counted' = Added(counted, << Head(feed) >>)
    /\ IF Head(feed) = Finished
       THEN at' = "off" /\ how' = "finish" /\ Hangup
       ELSE feed' = Tail(feed) /\ UNCHANGED <<at, how, sub, chan>>
    /\ UNCHANGED <<daemon, disk, poll, behind, lost, overgrown, bound>>

\* The stream closed: a run that ended is closed out unread.
Recheck ==
    /\ at = "stream" /\ feed = << >> /\ sub = "closed"
    /\ IF up /\ run = "none" /\ record = "terminal"
       THEN at' = "off" /\ how' = "closed"
       ELSE at' = "poll" /\ UNCHANGED how
    /\ Hangup
    /\ UNCHANGED <<daemon, disk, view, poll, behind, lost, overgrown, bound>>

\* Mutant: the client never gives up.
PollOn ==
    /\ at = "poll"
    /\ IF up THEN /\ failures' = 0 /\ at' = "events"
                  /\ seen' = (run = "none" /\ record = "terminal")
             ELSE failures' = failures + 1 /\ UNCHANGED <<at, seen>>
    /\ UNCHANGED <<daemon, disk, wire, view, notes, lost, overgrown, bound>>

Poll ==
    /\ at = "poll"
    /\ \/ /\ up
          /\ failures' = 0 /\ seen' = (run = "none" /\ record = "terminal")
          /\ at' = "events" /\ UNCHANGED how
       \/ /\ ~up /\ failures < MaxFailures
          /\ failures' = failures + 1
          /\ UNCHANGED <<at, how, seen>>
       \/ /\ ~up /\ failures = MaxFailures
          /\ at' = "off" /\ how' = "offline"
          /\ UNCHANGED <<failures, seen>>
    /\ UNCHANGED <<daemon, disk, wire, view, behind, lost, overgrown, bound>>

\* Mutant: the cursor stays where it was.
ReadWindowAgain ==
    LET events == Newest(Window)
        from   == IF cursor > Len(events) THEN 0 ELSE cursor
    IN  cursor' = from /\ counted' = Added(counted, From(events, from + 1))

\* The window the daemon serves is read as if it were the log: a cursor beyond
\* it starts over and forgets what was counted.
ReadWindow ==
    LET events == Newest(Window)
        rewind == cursor > Len(events)
        from   == IF rewind THEN 0 ELSE cursor
        base   == IF rewind THEN [n \in DOMAIN counted |-> 0] ELSE counted
    IN  cursor' = Len(events) /\ counted' = Added(base, From(events, from + 1))

\* Mutant: what was read does not end the follow.
EventsOn ==
    /\ at = "events"
    /\ IF up THEN ReadWindow ELSE UNCHANGED view
    /\ at' = "poll" /\ UNCHANGED how
    /\ UNCHANGED <<daemon, disk, wire, poll, behind, lost, overgrown, bound>>

\* The status was read first, so a terminal one means the log is complete.
Events ==
    /\ at = "events"
    /\ IF up THEN ReadWindow ELSE UNCHANGED view
    /\ IF seen THEN at' = "off" /\ how' = (IF up THEN "polled" ELSE "unread")
       ELSE at' = "poll" /\ UNCHANGED how
    /\ UNCHANGED <<daemon, disk, wire, poll, behind, lost, overgrown, bound>>

\* Cancel of the view: the follow ends where it is.
Abandon ==
    /\ at \in {"stream", "poll"}
    /\ at' = "off" /\ how' = "cancelled" /\ Hangup
    /\ UNCHANGED <<daemon, disk, view, poll, behind, lost, overgrown, bound>>

-----------------------------------------------------------------------------
DaemonStep == Advance \/ Stop \/ Leave \/ Answer \/ Look \/ Send
ClientStep == Subscribe \/ Fold \/ Recheck \/ Poll \/ Events

Next ==
    \/ DaemonStep \/ Crash \/ Restart \/ Disconnect
    \/ Run \/ Attach \/ ClientStep \/ Abandon

Spec == Init /\ [][Next]_vars

\* Goroutines of both processes are scheduled and the poll's ticker fires.
\* Nothing makes a run end, a person answer or a daemon come back.
FairSpec ==
    /\ Spec
    /\ WF_vars(ClientStep) /\ WF_vars(Leave) /\ WF_vars(Look) /\ WF_vars(Send)

-----------------------------------------------------------------------------
(* Properties.                                                             *)

\* Type correctness of the daemon's side, the connection and the client.
TypeOK ==
    /\ up \in BOOLEAN
    /\ run \in {"none", "live", "finishing", "yielding", "parking", "asking"}
    /\ record \in {"unknown", "terminal", "asking"}
    /\ log \in Seq(Event) /\ Len(log) <= LogMax /\ made \in 0..MaxReports
    /\ sub \in {"none", "new", "live", "over", "closed"}
    /\ chan \in Seq(Event) /\ Len(chan) <= ChanSize /\ feed \in Seq(Event)
    /\ at \in {"off", "subscribe", "stream", "poll", "events"}
    /\ cursor \in Nat /\ counted \in [1..MaxReports -> 0..2]
    /\ failures \in 0..MaxFailures /\ seen \in BOOLEAN
    /\ how \in {"none", "finish", "closed", "polled", "unread", "offline", "cancelled"}
    /\ behind \in BOOLEAN /\ lost \in BOOLEAN /\ overgrown \in BOOLEAN
    /\ follows \in 0..MaxFollows /\ faults \in 0..MaxFaults

\* Whatever mix of streams, polls, lost connections, crashes, lives and follows
\* led there, no report is counted twice (streaming_test.go:196), and a follow
\* that read run.finished, or a terminal status and the events after it, has
\* counted them all.  While the log fits the window and no push was dropped;
\* the second half needs that no earlier life's end was ahead of the cursor.
CountedExactly ==
    ~lost /\ ~overgrown =>
        /\ \A n \in 1..MaxReports : counted[n] <= 1
        /\ how \in {"finish", "polled"} /\ ~behind => \A n \in 1..made : counted[n] = 1

RunIsOver == run = "none" /\ record = "terminal"

\* The stream is open and nothing more will come from it.
Unclosed == at = "stream" /\ feed = << >> /\ sub \in {"over", "live"} /\ chan = << >>

\* A run that is over does not keep its follower, as long as its stream is
\* closed: the poll, the recheck and the offline limit all come to an end.
FollowEnds == []<>(at = "off" \/ ~RunIsOver \/ Unclosed)
====
