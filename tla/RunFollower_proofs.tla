------------------------- MODULE RunFollower_proofs -------------------------
(***************************************************************************)
(* Proofs about a client that follows a run, for any window, any length of *)
(* the log and of the channel, and any number of follows, lost connections *)
(* and crashes: type correctness, and that what the client counts is what  *)
(* the run reported.                                                       *)
(***************************************************************************)
EXTENDS RunFollower, SequenceTheorems, TLAPS

\* Every push had room and the log never outgrew the window.
Faithful == ~lost /\ ~overgrown

\* While it fits the window, the log is complete: every report is in it, once.
LogIsWhole ==
    ~overgrown =>
        /\ Len(log) <= Window
        /\ \A i \in 1..Len(log) : log[i].kind = "report" => log[i].n \in 1..made
        /\ \A n \in 1..made : \E i \in 1..Len(log) : log[i] = Report(n)
        /\ \A i, j \in 1..Len(log) : log[i] = log[j] /\ log[i].kind = "report" => i = j

\* The client has counted what lies before its cursor.
CursorIsRead ==
    Faithful =>
        /\ cursor <= Len(log)
        /\ \A n \in 1..MaxReports :
              counted[n] = IF \E i \in 1..cursor : log[i] = Report(n) THEN 1 ELSE 0

\* What is on its way is the log from the cursor on, and what the subscription
\* holds is the rest of it.
StreamFits ==
    Faithful /\ at = "stream" =>
        /\ cursor + Len(feed) <= Len(log)
        /\ \A i \in 1..Len(feed) : feed[i] = log[cursor + i]
        /\ sub \in {"new", "live"} =>
              /\ cursor + Len(feed) + Len(chan) = Len(log)
              /\ \A i \in 1..Len(chan) : chan[i] = log[cursor + Len(feed) + i]

\* Only a stream has a subscription, and only a follow that is over has an end.
Places ==
    /\ at # "stream" => sub = "none"
    /\ how # "none" => at = "off"
    /\ at = "events" /\ seen => run = "none"

\* A life that goes on has written last, and not that it finished.
LifeWritesLast ==
    run \in {"live", "yielding", "parking", "asking"} =>
        log # << >> /\ log[Len(log)] # Finished

\* No life ended between the cursor and the last event, unless the follow
\* began before one.
NoEndBetween ==
    Faithful /\ at # "off" /\ ~behind =>
        \A i \in (cursor + 1)..(Len(log) - 1) : log[i] # Finished

\* A follow that read its end has read everything, and no life goes on.
EndIsRead ==
    Faithful /\ how \in {"finish", "polled"} /\ ~behind =>
        cursor = Len(log) /\ run \in {"finishing", "none"}

IInv ==
    /\ TypeOK
    /\ LogIsWhole
    /\ CursorIsRead
    /\ StreamFits
    /\ Places
    /\ LifeWritesLast
    /\ NoEndBetween
    /\ EndIsRead

-----------------------------------------------------------------------------
(* Sequences of events.                                                    *)

\* Only a report's number tells it from another one.
LEMMA Reports ==
    /\ \A n \in 1..MaxReports : Report(n) \in Event /\ Report(n) # Finished /\ Report(n) # Paused
    /\ \A n : Report(n).kind = "report" /\ Report(n).n = n
    /\ Finished \in Event /\ Paused \in Event
    /\ Finished.kind # "report" /\ Paused.kind # "report" /\ Finished # Paused
    /\ \A e \in Event : e.kind = "report" => e.n \in 1..MaxReports /\ e = Report(e.n)
  BY DEF Report, Finished, Paused, Event

\* The end of a sequence from a position on.
LEMMA FromFacts ==
    ASSUME NEW s \in Seq(Event), NEW i \in 1..(Len(s) + 1)
    PROVE  /\ From(s, i) \in Seq(Event)
           /\ Len(From(s, i)) = Len(s) - i + 1
           /\ \A j \in 1..Len(From(s, i)) : From(s, i)[j] = s[i + j - 1]
<1>1. Len(s) \in Nat
  BY LenProperties
<1>2. \A j \in i..Len(s) : s[j] \in Event
  BY <1>1, ElementOfSeq
<1> QED
  BY <1>1, <1>2, SubSeqProperties DEF From

LEMMA NewestFacts ==
    ASSUME log \in Seq(Event), NEW k \in Nat
    PROVE  /\ Newest(k) \in Seq(Event)
           /\ Len(Newest(k)) <= k
           /\ Len(log) <= k => Newest(k) = log
<1>1. Len(log) \in Nat
  BY LenProperties
<1>2. CASE Len(log) > k
  <2>1. Len(log) - k + 1 \in 1..(Len(log) + 1)
    BY <1>1, <1>2
  <2> QED
    BY <1>1, <1>2, <2>1, FromFacts DEF Newest
<1>3. CASE ~(Len(log) > k)
  BY <1>1, <1>3 DEF Newest
<1> QED
  BY <1>2, <1>3

LEMMA AppendFacts ==
    ASSUME NEW s \in Seq(Event), NEW e \in Event
    PROVE  /\ Append(s, e) \in Seq(Event) /\ Append(s, e) # << >>
           /\ Len(s) \in Nat /\ Len(Append(s, e)) = Len(s) + 1
           /\ \A i \in 1..Len(s) : Append(s, e)[i] = s[i]
           /\ Append(s, e)[Len(s) + 1] = e
           /\ Append(s, e)[Len(Append(s, e))] = e
<1>1. /\ Append(s, e) \in Seq(Event) /\ Len(Append(s, e)) = Len(s) + 1
      /\ \A i \in 1..Len(s) : Append(s, e)[i] = s[i]
      /\ Append(s, e)[Len(s) + 1] = e
  BY AppendProperties
<1>2. Len(s) \in Nat
  BY LenProperties
<1>3. Append(s, e) # << >>
  BY <1>1, <1>2, EmptySeq
<1> QED
  BY <1>1, <1>2, <1>3

LEMMA TailFacts ==
    ASSUME NEW s \in Seq(Event), s # << >>
    PROVE  /\ Head(s) \in Event /\ Head(s) = s[1] /\ Tail(s) \in Seq(Event)
           /\ Len(s) \in Nat \ {0} /\ Len(Tail(s)) = Len(s) - 1
           /\ \A i \in 1..Len(Tail(s)) : Tail(s)[i] = s[i + 1]
<1>1. /\ Head(s) \in Event /\ Tail(s) \in Seq(Event) /\ Len(Tail(s)) = Len(s) - 1
      /\ \A i \in 1..Len(Tail(s)) : Tail(s)[i] = s[i + 1]
  BY HeadTailProperties
<1>2. Len(s) \in Nat \ {0} /\ Head(s) = s[1]
  BY EmptySeq, LenProperties
<1> QED
  BY <1>1, <1>2

\* Counting a sequence adds one to the reports in it and to no other.
LEMMA AddedFacts ==
    ASSUME NEW c \in [1..MaxReports -> 0..2], NEW s \in Seq(Event)
    PROVE  /\ Added(c, s) \in [1..MaxReports -> 0..2]
           /\ \A n \in 1..MaxReports :
                 Added(c, s)[n] = IF \E i \in 1..Len(s) : s[i] = Report(n)
                                  THEN Once(c[n]) ELSE c[n]
<1>1. DOMAIN s = 1..Len(s)
  BY LenProperties
<1>2. \A k \in 0..2 : Once(k) \in 0..2
  BY DEF Once
<1>3. \A n : Report(n) \in {s[i] : i \in DOMAIN s} <=> \E i \in 1..Len(s) : s[i] = Report(n)
  BY <1>1
<1> QED
  BY <1>2, <1>3 DEF Added

\* What one line does to the log, to the subscription and to the notes on them.
LEMMA WriteFacts ==
    ASSUME TypeOK, LogIsWhole, NEW e \in Event, Write(e)
    PROVE  /\ log' \in Seq(Event) /\ Len(log') <= LogMax
           /\ log' # << >> /\ log'[Len(log')] = e
           /\ chan' \in Seq(Event) /\ Len(chan') <= ChanSize
           /\ sub' = sub /\ feed' = feed
           /\ overgrown' \in BOOLEAN /\ lost' \in BOOLEAN
           /\ lost => lost'
           /\ ~overgrown' => ~overgrown /\ log' = Append(log, e) /\ Len(log') <= Window
           /\ sub \in {"new", "live"} /\ ~lost' => chan' = Append(chan, e)
           /\ sub \notin {"new", "live"} => chan' = chan
<1>1. /\ LogMax \in Nat /\ Window \in Nat \ {0} /\ Window < LogMax
      /\ LogMax \div 2 - 1 \in Nat /\ LogMax \div 2 <= LogMax
  BY FollowerAssumption
<1>2. log \in Seq(Event) /\ Len(log) \in Nat /\ Len(log) <= LogMax
  BY LenProperties DEF TypeOK
<1> DEFINE k == LogMax \div 2 - 1
           old == IF Len(log) < LogMax THEN log ELSE Newest(k)
<1>3. /\ old \in Seq(Event) /\ log' = Append(old, e)
      /\ Len(old) < LogMax
  <2>1. CASE Len(log) < LogMax
    BY <1>2, <2>1 DEF Write
  <2>2. CASE ~(Len(log) < LogMax)
    <3>1. Newest(k) \in Seq(Event) /\ Len(Newest(k)) <= k
      BY <1>1, <1>2, NewestFacts
    <3>2. Len(Newest(k)) \in Nat
      BY <3>1, LenProperties
    <3>3. log' = Append(Newest(k), e)
      BY <2>2 DEF Write
    <3> QED
      BY <1>1, <2>2, <3>1, <3>2, <3>3
  <2> QED
    BY <2>1, <2>2
<1> HIDE DEF old, k
<1>4. /\ log' \in Seq(Event) /\ Len(log') <= LogMax
      /\ log' # << >> /\ log'[Len(log')] = e
  BY <1>1, <1>3, AppendFacts
<1>5. /\ chan \in Seq(Event) /\ Len(chan) \in Nat /\ Len(chan) <= ChanSize
      /\ Append(chan, e) \in Seq(Event) /\ Len(Append(chan, e)) = Len(chan) + 1
  BY AppendFacts DEF TypeOK
<1>6. /\ chan' \in Seq(Event) /\ Len(chan') <= ChanSize
      /\ sub' = sub /\ feed' = feed /\ lost' \in BOOLEAN /\ (lost => lost')
      /\ sub \in {"new", "live"} /\ ~lost' => chan' = Append(chan, e)
      /\ sub \notin {"new", "live"} => chan' = chan
  <2>1. CASE sub \in {"new", "live"} /\ Len(chan) < ChanSize
    <3>1. chan' = Append(chan, e) /\ UNCHANGED <<sub, feed, lost>>
      BY <2>1 DEF Write
    <3> QED
      BY <1>5, <2>1, <3>1, FollowerAssumption DEF TypeOK
  <2>2. CASE sub \in {"new", "live"} /\ ~(Len(chan) < ChanSize)
    <3>1. lost' = TRUE /\ UNCHANGED wire
      BY <2>2 DEF Write
    <3> QED
      BY <1>5, <2>2, <3>1 DEF TypeOK, wire
  <2>3. CASE sub \notin {"new", "live"}
    <3>1. UNCHANGED <<wire, lost>>
      BY <2>3 DEF Write
    <3> QED
      BY <1>5, <2>3, <3>1 DEF TypeOK, wire
  <2> QED
    BY <2>1, <2>2, <2>3
<1>7. overgrown' = (overgrown \/ Len(log') > Window)
  BY DEF Write
<1>8. ~overgrown' => ~overgrown /\ log' = Append(log, e) /\ Len(log') <= Window
  <2> SUFFICES ASSUME ~overgrown' PROVE ~overgrown /\ log' = Append(log, e) /\ Len(log') <= Window
    OBVIOUS
  <2>1. ~overgrown /\ ~(Len(log') > Window) /\ Len(log') \in Nat
    BY <1>4, <1>7, LenProperties
  <2>2. Len(log) < LogMax
    BY <1>1, <1>2, <2>1 DEF LogIsWhole
  <2> QED
    BY <1>1, <1>3, <2>1, <2>2 DEF old
<1> QED
  BY <1>4, <1>6, <1>7, <1>8 DEF TypeOK

-----------------------------------------------------------------------------
(* What a line of the log does to the invariant.                           *)

\* The line is the run's next report, or the last of a stretch.
NextLine(e) ==
    \/ made < MaxReports /\ made' = made + 1 /\ e = Report(made')
    \/ made' = made /\ e \in {Finished, Paused}

\* A log within the window is the one before it and the line.
LEMMA LineAppends ==
    ASSUME IInv, NEW e \in Event, Write(e), ~overgrown'
    PROVE  /\ ~overgrown /\ Len(log') <= Window
           /\ Len(log) \in Nat /\ Len(log') = Len(log) + 1
           /\ log'[Len(log) + 1] = e
           /\ \A i \in 1..Len(log) : log'[i] = log[i]
<1>1. ~overgrown /\ log' = Append(log, e) /\ Len(log') <= Window
  BY WriteFacts DEF IInv
<1>2. log \in Seq(Event)
  BY DEF IInv, TypeOK
<1>3. /\ Len(log) \in Nat /\ Len(Append(log, e)) = Len(log) + 1
      /\ \A i \in 1..Len(log) : Append(log, e)[i] = log[i]
      /\ Append(log, e)[Len(log) + 1] = e
  BY <1>2, AppendFacts
<1> QED
  BY <1>1, <1>3

\* The log stays complete, and the client's count stays behind its cursor.
LEMMA LineKeepsLog ==
    ASSUME IInv, NEW e \in Event, Write(e), NextLine(e)
    PROVE  LogIsWhole' /\ made' \in 0..MaxReports
<1>1. made \in Nat /\ made \in 0..MaxReports /\ MaxReports \in Nat
  BY FollowerAssumption DEF IInv, TypeOK
<1>2. made' \in 0..MaxReports /\ made <= made'
  BY <1>1 DEF NextLine
<1>3. ASSUME ~overgrown' PROVE LogIsWhole'
  <2>1. /\ ~overgrown /\ Len(log') <= Window
        /\ Len(log) \in Nat /\ Len(log') = Len(log) + 1
        /\ log'[Len(log) + 1] = e
        /\ \A i \in 1..Len(log) : log'[i] = log[i]
    BY <1>3, LineAppends
  <2>2. /\ \A i \in 1..Len(log) : log[i].kind = "report" => log[i].n \in 1..made
        /\ \A n \in 1..made : \E i \in 1..Len(log) : log[i] = Report(n)
        /\ \A i, j \in 1..Len(log) : log[i] = log[j] /\ log[i].kind = "report" => i = j
    BY <2>1 DEF IInv, LogIsWhole
  <2>3. e.kind = "report" => made' = made + 1 /\ e = Report(made') /\ e.n = made'
    BY Reports DEF NextLine
  <2>4. ASSUME NEW i \in 1..Len(log'), log'[i].kind = "report"
        PROVE  log'[i].n \in 1..made'
    <3>1. CASE i \in 1..Len(log)
      <4>1. log[i].n \in 1..made
        BY <2>1, <2>2, <2>4, <3>1
      <4> QED
        BY <1>1, <1>2, <2>1, <3>1, <4>1
    <3>2. CASE i \notin 1..Len(log)
      <4>1. log'[i] = e
        BY <2>1, <3>2
      <4> QED
        BY <1>1, <2>3, <2>4, <4>1
    <3> QED
      BY <3>1, <3>2
  <2>5. ASSUME NEW n \in 1..made' PROVE \E i \in 1..Len(log') : log'[i] = Report(n)
    <3>1. CASE n \in 1..made
      BY <2>1, <2>2, <3>1
    <3>2. CASE n \notin 1..made
      <4>1. e = Report(n)
        BY <1>1, <3>2 DEF NextLine
      <4> QED
        BY <2>1, <4>1
    <3> QED
      BY <3>1, <3>2
  <2>6. ASSUME NEW i \in 1..Len(log'), NEW j \in 1..Len(log'),
               log'[i] = log'[j], log'[i].kind = "report"
        PROVE  i = j
    <3>1. \A l \in 1..Len(log) : log[l].kind = "report" /\ e.kind = "report" => log[l] # e
      BY <1>1, <2>2, <2>3
    <3> QED
      BY <2>1, <2>2, <2>6, <3>1
  <2> QED
    BY <2>1, <2>4, <2>5, <2>6 DEF LogIsWhole
<1> QED
  BY <1>2, <1>3 DEF LogIsWhole

LEMMA LineKeepsCursor ==
    ASSUME IInv, NEW e \in Event, Write(e), UNCHANGED view
    PROVE  CursorIsRead'
<1> SUFFICES ASSUME Faithful' PROVE CursorIsRead'
  BY DEF CursorIsRead
<1>1. /\ Faithful
      /\ Len(log) \in Nat /\ Len(log') = Len(log) + 1
      /\ \A i \in 1..Len(log) : log'[i] = log[i]
  BY WriteFacts, LineAppends DEF IInv, Faithful
<1>2. cursor \in Nat /\ cursor <= Len(log)
  BY <1>1 DEF IInv, TypeOK, CursorIsRead
<1>3. \A i \in 1..cursor : log'[i] = log[i]
  BY <1>1, <1>2
<1>4. \A n \in 1..MaxReports :
         counted[n] = IF \E i \in 1..cursor : log'[i] = Report(n) THEN 1 ELSE 0
  BY <1>1, <1>3 DEF IInv, CursorIsRead
<1> QED
  BY <1>1, <1>2, <1>4 DEF CursorIsRead, view

\* A subscription that is open is pushed the line; another does not get it.
LEMMA LineKeepsStream ==
    ASSUME IInv, NEW e \in Event, Write(e), UNCHANGED <<at, cursor>>
    PROVE  StreamFits'
<1> SUFFICES ASSUME Faithful', at = "stream" PROVE StreamFits'
  BY DEF StreamFits
<1>1. /\ Faithful /\ sub' = sub /\ feed' = feed
      /\ Len(log) \in Nat /\ Len(log') = Len(log) + 1
      /\ log'[Len(log) + 1] = e
      /\ \A i \in 1..Len(log) : log'[i] = log[i]
  BY WriteFacts, LineAppends DEF IInv, Faithful
<1>2. /\ cursor \in Nat /\ Len(feed) \in Nat
      /\ cursor + Len(feed) <= Len(log)
      /\ \A i \in 1..Len(feed) : feed[i] = log[cursor + i]
  BY <1>1, LenProperties DEF IInv, TypeOK, StreamFits
<1>3. \A i \in 1..Len(feed) : feed[i] = log'[cursor + i]
  BY <1>1, <1>2
<1>4. ASSUME sub \in {"new", "live"}
      PROVE  /\ cursor + Len(feed) + Len(chan') = Len(log')
             /\ \A i \in 1..Len(chan') : chan'[i] = log'[cursor + Len(feed) + i]
  <2>1. chan' = Append(chan, e)
    BY <1>4, WriteFacts DEF IInv, Faithful
  <2>2. /\ Len(chan) \in Nat /\ Len(chan') = Len(chan) + 1
        /\ chan'[Len(chan) + 1] = e
        /\ \A i \in 1..Len(chan) : chan'[i] = chan[i]
    BY <2>1, AppendFacts DEF IInv, TypeOK
  <2>3. /\ cursor + Len(feed) + Len(chan) = Len(log)
        /\ \A i \in 1..Len(chan) : chan[i] = log[cursor + Len(feed) + i]
    BY <1>1, <1>4 DEF IInv, StreamFits
  <2> DEFINE rest == cursor + Len(feed)
  <2>4. rest \in Nat /\ rest + Len(chan) = Len(log) /\ rest + Len(chan') = Len(log')
    BY <1>1, <1>2, <2>2, <2>3
  <2> HIDE DEF rest
  <2>5. ASSUME NEW i \in 1..Len(chan) PROVE chan[i] = log'[rest + i]
    <3>1. rest + i \in 1..Len(log) /\ chan[i] = log[rest + i]
      BY <2>2, <2>3, <2>4 DEF rest
    <3> QED
      BY <1>1, <3>1
  <2>6. ASSUME NEW i \in 1..Len(chan') PROVE chan'[i] = log'[rest + i]
    <3>1. CASE i = Len(chan) + 1
      <4>1. rest + i = Len(log) + 1
        BY <2>2, <2>4, <3>1
      <4> QED
        BY <1>1, <2>2, <3>1, <4>1
    <3>2. CASE i \in 1..Len(chan)
      BY <2>2, <2>5, <3>2
    <3> QED
      BY <2>2, <3>1, <3>2
  <2> QED
    BY <2>4, <2>6 DEF rest
<1> QED
  BY <1>1, <1>2, <1>3, <1>4 DEF StreamFits

\* A life that goes on leaves no end behind that was not the last event.
LEMMA LineKeepsEnd ==
    ASSUME IInv, NEW e \in Event, Write(e), UNCHANGED <<at, cursor, behind>>,
           run \in {"live", "asking"}
    PROVE  NoEndBetween'
<1> SUFFICES ASSUME Faithful', at # "off", ~behind,
                    NEW i \in (cursor + 1)..(Len(log') - 1)
             PROVE  log'[i] # Finished
  BY DEF NoEndBetween
<1>1. /\ Faithful
      /\ Len(log) \in Nat /\ Len(log') = Len(log) + 1
      /\ \A l \in 1..Len(log) : log'[l] = log[l]
  BY WriteFacts, LineAppends DEF IInv, Faithful
<1>2. cursor \in Nat /\ i \in 1..Len(log) /\ log'[i] = log[i]
  BY <1>1 DEF IInv, TypeOK
<1>3. log[Len(log)] # Finished
  BY DEF IInv, LifeWritesLast
<1>4. \A l \in (cursor + 1)..(Len(log) - 1) : log[l] # Finished
  BY <1>1 DEF IInv, NoEndBetween
<1> QED
  BY <1>1, <1>2, <1>3, <1>4

\* Together: a life that is in the run map writes, and does nothing else that
\* the client sees.
LEMMA LineKeeps ==
    ASSUME IInv, NEW e \in Event, Write(e), NextLine(e),
           UNCHANGED <<at, view, poll, notes>>,
           run \in {"live", "asking"}, run' # "none",
           e = Finished => run' = "finishing"
    PROVE  /\ LogIsWhole' /\ CursorIsRead' /\ StreamFits' /\ Places'
           /\ LifeWritesLast' /\ NoEndBetween' /\ EndIsRead'
<1>1. LogIsWhole' /\ CursorIsRead' /\ StreamFits' /\ NoEndBetween'
  BY LineKeepsLog, LineKeepsCursor, LineKeepsStream, LineKeepsEnd DEF view, notes
<1>2. sub' = sub /\ log' # << >> /\ log'[Len(log')] = e /\ (Faithful' => Faithful)
  BY WriteFacts DEF IInv, Faithful
<1>3. Places'
  BY <1>2 DEF IInv, Places, poll, notes
<1>4. LifeWritesLast'
  BY <1>2 DEF LifeWritesLast
<1>5. EndIsRead'
  BY <1>2 DEF IInv, EndIsRead, notes
<1> QED
  BY <1>1, <1>3, <1>4, <1>5

-----------------------------------------------------------------------------
(* Type correctness.                                                       *)

LEMMA Nothing == \A s : s = << >> => s \in Seq(Event) /\ Len(s) = 0
  BY EmptySeq

LEMMA TypeInit == Init => TypeOK
<1> SUFFICES ASSUME Init PROVE TypeOK
  OBVIOUS
<1>1. /\ log \in Seq(Event) /\ Len(log) = 0
      /\ chan \in Seq(Event) /\ Len(chan) = 0 /\ feed \in Seq(Event)
  BY Nothing DEF Init
<1>2. counted \in [1..MaxReports -> 0..2]
  BY DEF Init
<1>3. /\ Len(log) <= LogMax /\ Len(chan) <= ChanSize
      /\ made \in 0..MaxReports /\ failures \in 0..MaxFailures
      /\ follows \in 0..MaxFollows /\ faults \in 0..MaxFaults
  BY <1>1, FollowerAssumption DEF Init
<1> QED
  BY <1>1, <1>2, <1>3 DEF Init, TypeOK

\* What a write leaves has its type, if the rest of the step does.
LEMMA TypeLine ==
    ASSUME IInv, NEW e \in Event, Write(e), NextLine(e)
    PROVE  /\ log' \in Seq(Event) /\ Len(log') <= LogMax /\ made' \in 0..MaxReports
           /\ sub' = sub /\ chan' \in Seq(Event) /\ Len(chan') <= ChanSize
           /\ feed' \in Seq(Event)
           /\ lost' \in BOOLEAN /\ overgrown' \in BOOLEAN
  BY WriteFacts, LineKeepsLog DEF IInv, TypeOK

\* WriteReport writes the next report.
LEMMA ReportLine ==
    ASSUME IInv, WriteReport
    PROVE  /\ Report(made') \in Event /\ Report(made') # Finished
           /\ Write(Report(made')) /\ NextLine(Report(made'))
<1>1. made' \in 1..MaxReports
  BY FollowerAssumption DEF IInv, TypeOK, WriteReport
<1> QED
  BY <1>1, Reports DEF WriteReport, NextLine

\* What a poll reads has its type.
LEMMA TypeWindow ==
    ASSUME TypeOK, ReadWindow
    PROVE  cursor' \in Nat /\ counted' \in [1..MaxReports -> 0..2]
<1> DEFINE events == Newest(Window)
           rewind == cursor > Len(events)
           from   == IF rewind THEN 0 ELSE cursor
           base   == IF rewind THEN [n \in DOMAIN counted |-> 0] ELSE counted
<1>1. events \in Seq(Event) /\ Len(events) \in Nat
  BY NewestFacts, LenProperties, FollowerAssumption DEF TypeOK
<1>2. base \in [1..MaxReports -> 0..2] /\ from + 1 \in 1..(Len(events) + 1)
  BY <1>1 DEF TypeOK
<1>3. cursor' = Len(events) /\ counted' = Added(base, From(events, from + 1))
  BY DEF ReadWindow
<1> HIDE DEF events, from, base
<1> QED
  BY <1>1, <1>2, <1>3, FromFacts, AddedFacts

LEMMA TypeStep == IInv /\ [Next]_vars => TypeOK'
<1> SUFFICES ASSUME IInv, [Next]_vars PROVE TypeOK'
  OBVIOUS
<1> USE DEF daemon, disk, wire, view, poll, notes, bound
<1>0. ChanSize \in Nat /\ Len(log) \in Nat /\ TypeOK
  BY LenProperties, FollowerAssumption DEF IInv, TypeOK
<1>1. CASE Advance
  BY <1>0, <1>1, ReportLine, TypeLine DEF Advance, TypeOK
<1>2. CASE Stop
  <2>1. PICK e \in {Finished, Paused} : Write(e)
    BY <1>2 DEF Stop
  <2>2. e \in Event /\ NextLine(e)
    BY <1>2, <2>1, Reports DEF Stop, NextLine
  <2> QED
    BY <1>0, <1>2, <2>1, <2>2, TypeLine DEF Stop, TypeOK
<1>3. CASE Leave
  BY <1>0, <1>3 DEF Leave, TypeOK
<1>4. CASE Answer
  BY <1>0, <1>4, ReportLine, TypeLine DEF Answer, TypeOK
<1>5. CASE Look
  <2>1. chan' \in Seq(Event) /\ Len(chan') <= ChanSize
    BY <1>0, <1>5, Nothing DEF Look, TypeOK
  <2> QED
    BY <1>0, <1>5, <2>1 DEF Look, TypeOK
<1>6. CASE Send
  <2>1. /\ Append(feed, Head(chan)) \in Seq(Event) /\ Tail(chan) \in Seq(Event)
        /\ Len(Tail(chan)) <= ChanSize
    BY <1>0, <1>6, TailFacts, AppendFacts DEF Send, TypeOK
  <2> QED
    BY <1>0, <1>6, <2>1 DEF Send, TypeOK
<1>7. CASE Crash
  <2>1. chan' \in Seq(Event) /\ Len(chan') <= ChanSize
    BY <1>0, <1>7, Nothing DEF Crash
  <2>2. faults' \in 0..MaxFaults
    BY <1>7, FollowerAssumption DEF Crash, IInv, TypeOK
  <2>3. record' \in {"unknown", "terminal", "asking"}
    BY <1>0, <1>7 DEF Crash, TypeOK
  <2> QED
    BY <1>0, <1>7, <2>1, <2>2, <2>3 DEF Crash, TypeOK
<1>8. CASE Restart
  BY <1>0, <1>8 DEF Restart, TypeOK
<1>9. CASE Disconnect
  <2>1. chan' \in Seq(Event) /\ Len(chan') <= ChanSize /\ feed' \in Seq(Event)
    BY <1>0, <1>9, Nothing DEF Disconnect, TypeOK
  <2> QED
    BY <1>0, <1>9, <2>1, FollowerAssumption DEF Disconnect, TypeOK
<1>10. CASE Run
  <2>1. behind' \in BOOLEAN
    BY <1>10 DEF Run, EndAhead
  <2>2. follows' \in 0..MaxFollows /\ failures' \in 0..MaxFailures
    BY <1>10, FollowerAssumption DEF Run, Follow, IInv, TypeOK
  <2>3. /\ log' \in Seq(Event) /\ Len(log') <= LogMax /\ made' \in 0..MaxReports
        /\ sub' = sub /\ chan' \in Seq(Event) /\ Len(chan') <= ChanSize
        /\ feed' \in Seq(Event)
        /\ lost' \in BOOLEAN /\ overgrown' \in BOOLEAN
    BY <1>10, ReportLine, TypeLine DEF Run
  <2> QED
    BY <1>0, <1>10, <2>1, <2>2, <2>3 DEF Run, Follow, TypeOK
<1>11. CASE Attach
  <2>1. behind' \in BOOLEAN
    BY <1>11 DEF Attach, EndAhead
  <2>2. follows' \in 0..MaxFollows /\ failures' \in 0..MaxFailures
    BY <1>11, FollowerAssumption DEF Attach, Follow, IInv, TypeOK
  <2> QED
    BY <1>0, <1>11, <2>1, <2>2 DEF Attach, Follow, TypeOK
<1>12. CASE Subscribe
  <2>1. ASSUME cursor <= Len(log) PROVE From(log, cursor + 1) \in Seq(Event)
    <3>1. cursor + 1 \in 1..(Len(log) + 1)
      BY <1>0, <2>1 DEF TypeOK
    <3> QED
      BY <1>0, <3>1, FromFacts DEF TypeOK
  <2>2. chan' \in Seq(Event) /\ Len(chan') <= ChanSize /\ feed' \in Seq(Event)
    BY <1>0, <1>12, <2>1, Nothing DEF Subscribe, TypeOK
  <2> QED
    BY <1>0, <1>12, <2>2 DEF Subscribe, TypeOK
<1>13. CASE Fold
  <2>1. << Head(feed) >> \in Seq(Event) /\ Tail(feed) \in Seq(Event)
    BY <1>0, <1>13, TailFacts DEF Fold, TypeOK
  <2>2. counted' \in [1..MaxReports -> 0..2]
    BY <1>0, <1>13, <2>1, AddedFacts DEF Fold, TypeOK
  <2>3. chan' \in Seq(Event) /\ Len(chan') <= ChanSize /\ feed' \in Seq(Event)
    <3>1. CASE Head(feed) = Finished
      BY <1>0, <1>13, <3>1, Nothing DEF Fold, Hangup
    <3>2. CASE Head(feed) # Finished
      BY <1>0, <1>13, <2>1, <3>2 DEF Fold, TypeOK
    <3> QED
      BY <3>1, <3>2
  <2>4. /\ cursor' \in Nat
        /\ at' \in {"off", "stream"} /\ sub' \in {"none", sub} /\ how' \in {"finish", how}
    BY <1>0, <1>13 DEF Fold, Hangup, TypeOK
  <2> QED
    BY <1>0, <1>13, <2>2, <2>3, <2>4 DEF Fold, TypeOK
<1>14. CASE Recheck
  <2>1. chan' \in Seq(Event) /\ Len(chan') <= ChanSize /\ feed' \in Seq(Event)
    BY <1>0, <1>14, Nothing DEF Recheck, Hangup
  <2> QED
    BY <1>0, <1>14, <2>1 DEF Recheck, Hangup, TypeOK
<1>15. CASE Poll
  <2>1. failures' \in 0..MaxFailures
    BY <1>15, FollowerAssumption DEF Poll, IInv, TypeOK
  <2>2. seen' \in BOOLEAN
    BY <1>0, <1>15 DEF Poll, TypeOK
  <2>3. /\ at' \in {"poll", "events", "off"} /\ how' \in {how, "offline"}
        /\ UNCHANGED <<daemon, disk, wire, view, behind, lost, overgrown, bound>>
    BY <1>15 DEF Poll
  <2> QED
    BY <1>0, <2>1, <2>2, <2>3 DEF TypeOK
<1>16. CASE Events
  <2>1. cursor' \in Nat /\ counted' \in [1..MaxReports -> 0..2]
    BY <1>0, <1>16, TypeWindow DEF Events, TypeOK
  <2> QED
    BY <1>0, <1>16, <2>1 DEF Events, TypeOK
<1>17. CASE Abandon
  <2>1. chan' \in Seq(Event) /\ Len(chan') <= ChanSize /\ feed' \in Seq(Event)
    BY <1>0, <1>17, Nothing DEF Abandon, Hangup
  <2> QED
    BY <1>0, <1>17, <2>1 DEF Abandon, Hangup, TypeOK
<1>18. CASE UNCHANGED vars
  BY <1>0, <1>18 DEF vars, TypeOK
<1> QED
  BY <1>1, <1>2, <1>3, <1>4, <1>5, <1>6, <1>7, <1>8, <1>9, <1>10, <1>11, <1>12,
     <1>13, <1>14, <1>15, <1>16, <1>17, <1>18 DEF Next, DaemonStep, ClientStep

-----------------------------------------------------------------------------
(* The inductive invariant.                                                *)

LEMMA IInvInit == Init => IInv
<1> SUFFICES ASSUME Init PROVE IInv
  OBVIOUS
<1>1. TypeOK
  BY TypeInit
<1>2. Len(log) = 0
  BY Nothing DEF Init
<1>3. LogIsWhole /\ CursorIsRead
  BY <1>2, FollowerAssumption DEF Init, LogIsWhole, CursorIsRead
<1>4. StreamFits /\ Places /\ LifeWritesLast /\ NoEndBetween /\ EndIsRead
  BY DEF Init, StreamFits, Places, LifeWritesLast, NoEndBetween, EndIsRead
<1> QED
  BY <1>1, <1>3, <1>4 DEF IInv

\* Without a line and without a read, the log and the count agree as before.
LEMMA Unread ==
    ASSUME IInv, UNCHANGED <<log, made, view, lost, overgrown>>
    PROVE  LogIsWhole' /\ CursorIsRead'
  BY DEF IInv, LogIsWhole, CursorIsRead, Faithful, view

\* Reading the log up to a later position counts what lies between.
LEMMA ReadOn ==
    ASSUME IInv, Faithful, UNCHANGED <<log, made, lost, overgrown>>,
           NEW s \in Seq(Event), cursor' = cursor + Len(s), cursor' <= Len(log),
           \A i \in 1..Len(s) : s[i] = log[cursor + i],
           counted' = Added(counted, s)
    PROVE  CursorIsRead'
<1>1. /\ cursor \in Nat /\ Len(log) \in Nat /\ Len(s) \in Nat
      /\ counted \in [1..MaxReports -> 0..2]
  BY LenProperties DEF IInv, TypeOK
<1>2. ASSUME NEW n \in 1..MaxReports
      PROVE  counted'[n] = IF \E i \in 1..cursor' : log[i] = Report(n) THEN 1 ELSE 0
  <2>1. counted[n] = IF \E i \in 1..cursor : log[i] = Report(n) THEN 1 ELSE 0
    BY DEF IInv, CursorIsRead
  <2>2. counted'[n] = IF \E i \in 1..Len(s) : s[i] = Report(n) THEN Once(counted[n]) ELSE counted[n]
    BY <1>1, AddedFacts
  <2>3. (\E i \in 1..Len(s) : s[i] = Report(n)) <=> (\E i \in (cursor + 1)..cursor' : log[i] = Report(n))
    <3>1. ASSUME NEW i \in 1..Len(s), s[i] = Report(n)
          PROVE  \E j \in (cursor + 1)..cursor' : log[j] = Report(n)
      BY <1>1, <3>1
    <3>2. ASSUME NEW j \in (cursor + 1)..cursor', log[j] = Report(n)
          PROVE  \E i \in 1..Len(s) : s[i] = Report(n)
      <4>1. j - cursor \in 1..Len(s) /\ cursor + (j - cursor) = j
        BY <1>1
      <4>2. s[j - cursor] = log[cursor + (j - cursor)]
        BY <4>1
      <4> QED
        BY <3>2, <4>1, <4>2
    <3> QED
      BY <3>1, <3>2
  <2>4. ASSUME NEW i \in 1..cursor, NEW j \in (cursor + 1)..cursor',
               log[i] = Report(n), log[j] = Report(n)
        PROVE  FALSE
    <3>1. i \in 1..Len(log) /\ j \in 1..Len(log) /\ i # j
      BY <1>1, <2>4
    <3>2. log[i].kind = "report"
      BY <2>4, Reports
    <3> QED
      BY <2>4, <3>1, <3>2 DEF IInv, LogIsWhole, Faithful
  <2>5. 1..cursor' = (1..cursor) \cup ((cursor + 1)..cursor')
    BY <1>1
  <2>6. CASE \E i \in 1..Len(s) : s[i] = Report(n)
    <3>1. \E i \in (cursor + 1)..cursor' : log[i] = Report(n)
      BY <2>3, <2>6
    <3>2. counted[n] = 0
      BY <2>1, <2>4, <3>1
    <3>3. counted'[n] = 1
      BY <2>2, <2>6, <3>2 DEF Once
    <3> QED
      BY <2>5, <3>1, <3>3
  <2>7. CASE ~\E i \in 1..Len(s) : s[i] = Report(n)
    BY <2>1, <2>2, <2>3, <2>5, <2>7
  <2> QED
    BY <2>6, <2>7
<1> QED
  BY <1>1, <1>2 DEF CursorIsRead

\* A poll reads the rest of a log that fits the window.
LEMMA WindowRead ==
    ASSUME IInv, ReadWindow, UNCHANGED <<log, made, lost, overgrown>>
    PROVE  CursorIsRead' /\ (Faithful => cursor' = Len(log))
<1> SUFFICES ASSUME Faithful PROVE CursorIsRead' /\ cursor' = Len(log)
  BY DEF CursorIsRead, Faithful
<1>1. /\ log \in Seq(Event) /\ Len(log) \in Nat /\ cursor \in Nat
      /\ Len(log) <= Window /\ cursor <= Len(log)
  BY LenProperties DEF IInv, TypeOK, Faithful, LogIsWhole, CursorIsRead
<1>2. Newest(Window) = log
  BY <1>1, NewestFacts, FollowerAssumption
<1>3. ~(cursor > Len(log))
  BY <1>1
<1>4. cursor' = Len(log) /\ counted' = Added(counted, From(log, cursor + 1))
  BY <1>2, <1>3 DEF ReadWindow
<1> DEFINE s == From(log, cursor + 1)
<1>5. cursor + 1 \in 1..(Len(log) + 1)
  BY <1>1
<1>6. /\ s \in Seq(Event) /\ Len(s) = Len(log) - (cursor + 1) + 1
      /\ \A j \in 1..Len(s) : s[j] = log[(cursor + 1) + j - 1]
  BY <1>1, <1>5, FromFacts
<1>7. \A j \in 1..Len(s) : s[j] = log[cursor + j]
  <2>1. \A j \in 1..Len(s) : (cursor + 1) + j - 1 = cursor + j
    BY <1>1
  <2> QED
    BY <1>6, <2>1
<1>8. cursor' = cursor + Len(s) /\ cursor' <= Len(log)
  BY <1>1, <1>4, <1>6
<1> HIDE DEF s
<1> QED
  BY <1>4, <1>6, <1>7, <1>8, ReadOn DEF s

\* Every step keeps the invariant.
LEMMA IInvStep == IInv /\ [Next]_vars => IInv'
<1> SUFFICES ASSUME IInv, [Next]_vars PROVE IInv'
  OBVIOUS
<1> USE DEF daemon, disk, wire, view, poll, notes, bound
<1>0. TypeOK' /\ TypeOK /\ LogIsWhole /\ CursorIsRead /\ StreamFits /\ Places
      /\ LifeWritesLast /\ NoEndBetween /\ EndIsRead
  BY TypeStep DEF IInv
<1>1. CASE Advance
  <2>1. /\ Report(made') \in Event /\ Report(made') # Finished
        /\ Write(Report(made')) /\ NextLine(Report(made'))
    BY <1>1, ReportLine DEF Advance
  <2> QED
    BY <1>0, <1>1, <2>1, LineKeeps DEF Advance, IInv
<1>2. CASE Stop
  <2>1. CASE run' = "finishing" /\ Write(Finished)
    <3>1. Finished \in Event /\ NextLine(Finished)
      BY <1>2, Reports DEF Stop, NextLine
    <3> QED
      BY <1>0, <1>2, <2>1, <3>1, LineKeeps DEF Stop, IInv
  <2>2. CASE run' \in {"yielding", "parking"} /\ Write(Paused)
    <3>1. Paused \in Event /\ NextLine(Paused) /\ Paused # Finished
      BY <1>2, Reports DEF Stop, NextLine
    <3> QED
      BY <1>0, <1>2, <2>2, <3>1, LineKeeps DEF Stop, IInv
  <2> QED
    BY <1>2, <2>1, <2>2 DEF Stop
<1>3. CASE Leave
  <2>1. LogIsWhole' /\ CursorIsRead'
    BY <1>3, Unread DEF Leave
  <2> QED
    BY <1>0, <1>3, <2>1 DEF Leave, IInv, StreamFits, Places, LifeWritesLast, NoEndBetween,
       EndIsRead, Faithful
<1>4. CASE Answer
  <2>1. /\ Report(made') \in Event /\ Report(made') # Finished
        /\ Write(Report(made')) /\ NextLine(Report(made'))
    BY <1>4, ReportLine DEF Answer
  <2> QED
    BY <1>0, <1>4, <2>1, LineKeeps DEF Answer, IInv
<1>5. CASE Look
  <2>1. LogIsWhole' /\ CursorIsRead'
    BY <1>5, Unread DEF Look
  <2>2. StreamFits'
    BY <1>0, <1>5 DEF Look, StreamFits, Faithful
  <2> QED
    BY <1>0, <1>5, <2>1, <2>2 DEF Look, IInv, Places, LifeWritesLast, NoEndBetween,
       EndIsRead, Faithful
<1>6. CASE Send
  <2>1. LogIsWhole' /\ CursorIsRead'
    BY <1>6, Unread DEF Send
  <2>2. ASSUME Faithful, at = "stream" PROVE StreamFits'
    <3>1. /\ cursor \in Nat /\ cursor + Len(feed) + Len(chan) = Len(log)
          /\ \A i \in 1..Len(feed) : feed[i] = log[cursor + i]
          /\ \A i \in 1..Len(chan) : chan[i] = log[cursor + Len(feed) + i]
      BY <1>0, <1>6, <2>2 DEF Send, StreamFits, TypeOK
    <3>2. /\ Len(chan) \in Nat \ {0} /\ Head(chan) = chan[1] /\ Head(chan) \in Event
          /\ Len(chan') = Len(chan) - 1
          /\ \A i \in 1..Len(chan') : chan'[i] = chan[i + 1]
      BY <1>0, <1>6, TailFacts DEF Send, TypeOK
    <3>3. /\ Len(feed) \in Nat /\ Len(feed') = Len(feed) + 1
          /\ \A i \in 1..Len(feed) : feed'[i] = feed[i]
          /\ feed'[Len(feed) + 1] = chan[1]
      BY <1>0, <1>6, <3>2, AppendFacts DEF Send, TypeOK
    <3>4. Len(log) \in Nat
      BY <1>0, LenProperties DEF TypeOK
    <3>5. ASSUME NEW i \in 1..Len(feed') PROVE feed'[i] = log[cursor + i]
      <4>1. CASE i = Len(feed) + 1
        <5>1. chan[1] = log[cursor + Len(feed) + 1]
          BY <3>1, <3>2
        <5>2. cursor + Len(feed) + 1 = cursor + i
          BY <3>1, <3>3, <4>1
        <5> QED
          BY <3>3, <4>1, <5>1, <5>2
      <4>2. CASE i \in 1..Len(feed)
        BY <3>1, <3>3, <4>2
      <4> QED
        BY <3>3, <4>1, <4>2
    <3>6. ASSUME NEW i \in 1..Len(chan') PROVE chan'[i] = log[cursor + Len(feed') + i]
      <4>1. i + 1 \in 1..Len(chan) /\ chan'[i] = chan[i + 1]
        BY <3>2
      <4>2. chan[i + 1] = log[cursor + Len(feed) + (i + 1)]
        BY <3>1, <4>1
      <4>3. cursor + Len(feed) + (i + 1) = cursor + Len(feed') + i
        BY <3>1, <3>3
      <4> QED
        BY <4>1, <4>2, <4>3
    <3>7. cursor + Len(feed') <= Len(log) /\ cursor + Len(feed') + Len(chan') = Len(log)
      <4>1. /\ cursor \in Nat /\ Len(feed) \in Nat /\ Len(chan) \in Nat \ {0}
            /\ cursor + Len(feed) + Len(chan) = Len(log)
        BY <3>1, <3>2, <3>3
      <4>2. Len(feed') = Len(feed) + 1 /\ Len(chan') = Len(chan) - 1
        BY <3>2, <3>3
      <4> QED
        BY <3>4, <4>1, <4>2
    <3> QED
      BY <1>6, <3>5, <3>6, <3>7 DEF Send, StreamFits
  <2>3. StreamFits'
    BY <1>6, <2>2 DEF Send, StreamFits, Faithful
  <2> QED
    BY <1>0, <1>6, <2>1, <2>3 DEF Send, IInv, Places, LifeWritesLast, NoEndBetween,
       EndIsRead, Faithful
<1>7. CASE Crash
  <2>1. LogIsWhole' /\ CursorIsRead'
    BY <1>7, Unread DEF Crash
  <2>2. StreamFits'
    BY <1>0, <1>7 DEF Crash, StreamFits, Faithful
  <2> QED
    BY <1>0, <1>7, <2>1, <2>2 DEF Crash, IInv, Places, LifeWritesLast, NoEndBetween,
       EndIsRead, Faithful
<1>8. CASE Restart
  <2>1. LogIsWhole' /\ CursorIsRead'
    BY <1>8, Unread DEF Restart
  <2> QED
    BY <1>0, <1>8, <2>1 DEF Restart, IInv, StreamFits, Places, LifeWritesLast, NoEndBetween,
       EndIsRead, Faithful
<1>9. CASE Disconnect
  <2>1. LogIsWhole' /\ CursorIsRead'
    BY <1>9, Unread DEF Disconnect
  <2>2. ASSUME Faithful, at = "stream" PROVE StreamFits'
    <3>1. cursor + Len(feed) <= Len(log) /\ \A i \in 1..Len(feed) : feed[i] = log[cursor + i]
      BY <1>0, <2>2 DEF StreamFits
    <3>2. cursor <= Len(log) /\ cursor \in Nat
      BY <1>0, <2>2 DEF CursorIsRead, TypeOK
    <3>3. CASE feed' = feed
      BY <1>9, <3>1, <3>3 DEF Disconnect, StreamFits
    <3>4. CASE feed' = << >>
      <4>1. Len(feed') = 0
        BY <3>4, Nothing
      <4> QED
        BY <1>9, <3>2, <4>1 DEF Disconnect, StreamFits
    <3> QED
      BY <1>9, <3>3, <3>4 DEF Disconnect
  <2>3. StreamFits'
    BY <1>9, <2>2 DEF Disconnect, StreamFits, Faithful
  <2> QED
    BY <1>0, <1>9, <2>1, <2>3 DEF Disconnect, IInv, Places, LifeWritesLast, NoEndBetween,
       EndIsRead, Faithful
<1>10. CASE Run
  <2>1. /\ Report(made') \in Event /\ Report(made') # Finished
        /\ Write(Report(made')) /\ NextLine(Report(made'))
    BY <1>10, ReportLine DEF Run
  <2>2. LogIsWhole' /\ CursorIsRead'
    BY <1>10, <2>1, LineKeepsLog, LineKeepsCursor DEF Run
  <2>3. sub' = sub /\ log' # << >> /\ log'[Len(log')] # Finished
    BY <1>0, <2>1, WriteFacts
  <2>4. at = "off" /\ at' = "subscribe" /\ how' = "none" /\ cursor' = cursor
    BY <1>10 DEF Run, Follow
  <2>5. StreamFits' /\ Places' /\ LifeWritesLast' /\ EndIsRead'
    BY <1>0, <2>3, <2>4 DEF StreamFits, Places, LifeWritesLast, EndIsRead
  <2>6. ASSUME Faithful', ~behind', NEW i \in (cursor + 1)..(Len(log') - 1)
        PROVE  log'[i] # Finished
    <3>1. /\ Len(log) \in Nat /\ Len(log') = Len(log) + 1
          /\ \A l \in 1..Len(log) : log'[l] = log[l]
      BY <2>1, <2>6, LineAppends DEF Faithful
    <3>2. \A l \in (cursor + 1)..Len(log) : log[l] # Finished
      BY <1>10, <2>6 DEF Run, EndAhead
    <3>3. i \in (cursor + 1)..Len(log) /\ i \in 1..Len(log)
      BY <1>0, <3>1 DEF TypeOK
    <3> QED
      BY <3>1, <3>2, <3>3
  <2>7. NoEndBetween'
    BY <2>4, <2>6 DEF NoEndBetween
  <2> QED
    BY <1>0, <2>2, <2>5, <2>7 DEF IInv
<1>11. CASE Attach
  <2>1. LogIsWhole' /\ CursorIsRead'
    BY <1>11, Unread DEF Attach
  <2>2. at = "off" /\ at' = "subscribe" /\ how' = "none"
        /\ UNCHANGED <<cursor, log, run, sub, lost, overgrown>>
    BY <1>11 DEF Attach, Follow
  <2>3. StreamFits' /\ Places' /\ LifeWritesLast' /\ EndIsRead'
    BY <1>0, <2>2 DEF StreamFits, Places, LifeWritesLast, EndIsRead
  <2>4. NoEndBetween'
    BY <1>11, <2>2 DEF Attach, EndAhead, NoEndBetween
  <2> QED
    BY <1>0, <2>1, <2>3, <2>4 DEF IInv
<1>12. CASE Subscribe
  <2>1. LogIsWhole' /\ CursorIsRead'
    BY <1>12, Unread DEF Subscribe
  <2>2. ASSUME at' = "stream" PROVE StreamFits'
    <3>1. /\ cursor <= Len(log) /\ sub' = "new" /\ chan' = << >>
          /\ feed' = From(log, cursor + 1) /\ UNCHANGED <<cursor, log>>
      BY <1>12, <2>2 DEF Subscribe
    <3>2. log \in Seq(Event) /\ Len(log) \in Nat /\ cursor \in Nat /\ Len(chan') = 0
      BY <1>0, <3>1, LenProperties, Nothing DEF TypeOK
    <3>3. cursor + 1 \in 1..(Len(log) + 1)
      BY <3>1, <3>2
    <3>4. /\ Len(feed') = Len(log) - (cursor + 1) + 1
          /\ \A j \in 1..Len(feed') : feed'[j] = log[(cursor + 1) + j - 1]
      BY <3>1, <3>2, <3>3, FromFacts
    <3>5. \A j \in 1..Len(feed') : (cursor + 1) + j - 1 = cursor + j
      BY <3>2, <3>4
    <3>6. cursor + Len(feed') = Len(log) /\ cursor + Len(feed') + Len(chan') = Len(log)
      BY <3>2, <3>4
    <3> QED
      BY <3>1, <3>2, <3>4, <3>5, <3>6 DEF StreamFits
  <2>3. StreamFits'
    BY <2>2 DEF StreamFits
  <2> QED
    BY <1>0, <1>12, <2>1, <2>3 DEF Subscribe, IInv, Places, LifeWritesLast, NoEndBetween,
       EndIsRead, Faithful
<1>13. CASE Fold
  <2>1. /\ feed # << >> /\ at = "stream" /\ cursor' = cursor + 1
        /\ counted' = Added(counted, << Head(feed) >>)
        /\ UNCHANGED <<log, made, run, behind, lost, overgrown>>
    BY <1>13 DEF Fold
  <2>2. /\ Head(feed) \in Event /\ Head(feed) = feed[1] /\ Tail(feed) \in Seq(Event)
        /\ Len(feed) \in Nat \ {0} /\ Len(Tail(feed)) = Len(feed) - 1
        /\ \A i \in 1..Len(Tail(feed)) : Tail(feed)[i] = feed[i + 1]
    BY <1>0, <2>1, TailFacts DEF TypeOK
  <2>3. LogIsWhole'
    BY <1>0, <2>1 DEF LogIsWhole
  <2>4. cursor \in Nat /\ Len(log) \in Nat
    BY <1>0, LenProperties DEF TypeOK
  <2>5. ASSUME Faithful
        PROVE  /\ cursor + Len(feed) <= Len(log) /\ cursor' <= Len(log)
               /\ Head(feed) = log[cursor']
               /\ \A i \in 1..Len(feed) : feed[i] = log[cursor + i]
    <3>1. /\ cursor + Len(feed) <= Len(log)
          /\ \A i \in 1..Len(feed) : feed[i] = log[cursor + i]
      BY <1>0, <2>1, <2>5 DEF StreamFits
    <3>2. feed[1] = log[cursor + 1]
      BY <2>2, <3>1
    <3> QED
      BY <2>1, <2>2, <2>4, <3>1, <3>2
  <2>6. CursorIsRead'
    <3> SUFFICES ASSUME Faithful PROVE CursorIsRead'
      BY <2>1 DEF CursorIsRead, Faithful
    <3> DEFINE s == << Head(feed) >>
    <3>1. s \in Seq(Event) /\ Len(s) = 1 /\ s[1] = Head(feed)
      BY <2>2
    <3>2. \A i \in 1..Len(s) : s[i] = log[cursor + i]
      BY <2>1, <2>5, <3>1
    <3>3. cursor' = cursor + Len(s) /\ cursor' <= Len(log)
      BY <2>1, <2>5, <3>1
    <3> HIDE DEF s
    <3> QED
      BY <2>1, <3>1, <3>2, <3>3, ReadOn DEF s
  <2>7. CASE Head(feed) = Finished
    <3>1. at' = "off" /\ how' = "finish" /\ sub' = "none"
      BY <1>13, <2>7 DEF Fold, Hangup
    <3>2. ASSUME Faithful, ~behind
          PROVE  cursor' = Len(log) /\ run \in {"finishing", "none"}
      <4>1. cursor' \in (cursor + 1)..Len(log) /\ log[cursor'] = Finished
        BY <2>1, <2>4, <2>5, <2>7, <3>2
      <4>2. \A i \in (cursor + 1)..(Len(log) - 1) : log[i] # Finished
        BY <1>0, <2>1, <3>2 DEF NoEndBetween
      <4>3. cursor' = Len(log)
        BY <2>4, <4>1, <4>2
      <4>4. run \in {"finishing", "none"}
        BY <1>0, <4>1, <4>3 DEF LifeWritesLast, TypeOK
      <4> QED
        BY <4>3, <4>4
    <3>3. StreamFits' /\ Places' /\ NoEndBetween'
      BY <3>1 DEF StreamFits, Places, NoEndBetween
    <3>4. LifeWritesLast' /\ EndIsRead'
      BY <1>0, <2>1, <3>2 DEF LifeWritesLast, EndIsRead, Faithful
    <3> QED
      BY <1>0, <2>3, <2>6, <3>3, <3>4 DEF IInv
  <2>8. CASE Head(feed) # Finished
    <3>1. feed' = Tail(feed) /\ UNCHANGED <<at, how, sub, chan>>
      BY <1>13, <2>8 DEF Fold
    <3>2. ASSUME Faithful PROVE StreamFits'
      <4>1. \A i \in 1..Len(feed') : feed'[i] = log[cursor' + i]
        <5>1. ASSUME NEW i \in 1..Len(feed') PROVE feed'[i] = log[cursor' + i]
          <6>1. i + 1 \in 1..Len(feed) /\ feed'[i] = feed[i + 1]
            BY <2>2, <3>1
          <6>2. feed[i + 1] = log[cursor + (i + 1)]
            BY <2>5, <3>2, <6>1
          <6>3. cursor + (i + 1) = cursor' + i
            BY <2>1, <2>4
          <6> QED
            BY <6>1, <6>2, <6>3
        <5> QED
          BY <5>1
      <4>2. cursor' + Len(feed') = cursor + Len(feed)
        BY <2>1, <2>2, <2>4, <3>1
      <4>3. sub \in {"new", "live"} =>
              /\ cursor + Len(feed) + Len(chan) = Len(log)
              /\ \A i \in 1..Len(chan) : chan[i] = log[cursor + Len(feed) + i]
        BY <1>0, <2>1, <3>2 DEF StreamFits
      <4>4. cursor' + Len(feed') <= Len(log)
        BY <2>5, <3>2, <4>2
      <4> QED
        BY <2>1, <3>1, <4>1, <4>2, <4>3, <4>4 DEF StreamFits
    <3>3. StreamFits'
      BY <2>1, <3>2 DEF StreamFits, Faithful
    <3>4. NoEndBetween'
      <4>1. \A i \in (cursor' + 1)..(Len(log) - 1) : i \in (cursor + 1)..(Len(log) - 1)
        BY <2>1, <2>4
      <4> QED
        BY <1>0, <2>1, <3>1, <4>1 DEF NoEndBetween, Faithful
    <3>5. Places'
      BY <1>0, <2>1, <3>1 DEF Places
    <3>6. LifeWritesLast' /\ EndIsRead'
      BY <1>0, <2>1, <3>1 DEF LifeWritesLast, EndIsRead, Places
    <3> QED
      BY <1>0, <2>3, <2>6, <3>3, <3>4, <3>5, <3>6 DEF IInv
  <2> QED
    BY <2>7, <2>8
<1>14. CASE Recheck
  <2>1. LogIsWhole' /\ CursorIsRead'
    BY <1>14, Unread DEF Recheck
  <2>2. at' \in {"off", "poll"} /\ sub' = "none"
    BY <1>14 DEF Recheck, Hangup
  <2>3. StreamFits' /\ Places'
    BY <1>0, <1>14, <2>2 DEF Recheck, Hangup, StreamFits, Places
  <2> QED
    BY <1>0, <1>14, <2>1, <2>3 DEF Recheck, IInv, Places, LifeWritesLast, NoEndBetween,
       EndIsRead, Faithful
<1>15. CASE Poll
  <2>1. LogIsWhole' /\ CursorIsRead'
    BY <1>15, Unread DEF Poll
  <2>2. at' # "stream" /\ at = "poll"
        /\ UNCHANGED <<cursor, log, run, sub, lost, overgrown, behind>>
    BY <1>15 DEF Poll
  <2>3. Places' /\ how' \notin {"finish", "polled"}
    BY <1>0, <1>15 DEF Poll, Places
  <2> QED
    BY <1>0, <2>1, <2>2, <2>3 DEF IInv, StreamFits, LifeWritesLast, NoEndBetween,
       EndIsRead, Faithful
<1>16. CASE Events
  <2>1. at = "events" /\ at' \in {"off", "poll"}
        /\ UNCHANGED <<log, made, run, sub, seen, behind, lost, overgrown>>
    BY <1>16 DEF Events
  <2>2. LogIsWhole'
    BY <1>0, <2>1 DEF LogIsWhole
  <2>3. CursorIsRead' /\ (Faithful /\ up => cursor' = Len(log))
    <3>1. CASE up
      BY <1>16, <2>1, <3>1, WindowRead DEF Events
    <3>2. CASE ~up
      BY <1>16, <2>1, <3>2, Unread DEF Events
    <3> QED
      BY <3>1, <3>2
  <2>4. StreamFits' /\ Places' /\ LifeWritesLast'
    BY <1>0, <1>16, <2>1 DEF Events, StreamFits, Places, LifeWritesLast
  <2>5. NoEndBetween'
    <3>1. CASE up
      <4>1. Faithful => (cursor' + 1)..(Len(log) - 1) = {}
        <5>1. Len(log) \in Nat
          BY <1>0, LenProperties DEF TypeOK
        <5>2. Faithful => cursor' = Len(log)
          BY <2>3, <3>1
        <5> QED
          BY <5>1, <5>2
      <4> QED
        BY <2>1, <4>1 DEF NoEndBetween, Faithful
    <3>2. CASE ~up
      BY <1>0, <1>16, <2>1, <3>2 DEF Events, NoEndBetween, Faithful
    <3> QED
      BY <3>1, <3>2
  <2>6. EndIsRead'
    <3>1. how' = "polled" => seen /\ up
      BY <1>0, <1>16, <2>1 DEF Events, Places
    <3>2. how' # "finish"
      BY <1>0, <1>16, <2>1 DEF Events, Places
    <3>3. seen => run = "none"
      BY <1>0, <2>1 DEF Places
    <3> QED
      BY <2>1, <2>3, <3>1, <3>2, <3>3 DEF EndIsRead, Faithful
  <2> QED
    BY <1>0, <2>2, <2>3, <2>4, <2>5, <2>6 DEF IInv
<1>17. CASE Abandon
  <2>1. LogIsWhole' /\ CursorIsRead'
    BY <1>17, Unread DEF Abandon
  <2> QED
    BY <1>0, <1>17, <2>1 DEF Abandon, Hangup, IInv, StreamFits, Places, LifeWritesLast,
       NoEndBetween, EndIsRead, Faithful
<1>18. CASE UNCHANGED vars
  BY <1>0, <1>18 DEF vars, IInv, LogIsWhole, CursorIsRead, StreamFits, Places,
     LifeWritesLast, NoEndBetween, EndIsRead, Faithful
<1> QED
  BY <1>1, <1>2, <1>3, <1>4, <1>5, <1>6, <1>7, <1>8, <1>9, <1>10, <1>11, <1>12,
     <1>13, <1>14, <1>15, <1>16, <1>17, <1>18 DEF Next, DaemonStep, ClientStep

\* IInv holds in every state.
THEOREM Inductive == Spec => []IInv
  BY IInvInit, IInvStep, PTL DEF Spec

-----------------------------------------------------------------------------
(* The results.                                                            *)

\* Every variable keeps its type: the log, the channel and the cursor stay
\* within their bounds (runner.go, daemon.go, client.go).
THEOREM TypeCorrect == Spec => []TypeOK
<1>1. IInv => TypeOK
  BY DEF IInv
<1> QED
  BY <1>1, Inductive, PTL

\* One cursor over replays, pushes, polls and reconnections: nothing is folded
\* twice, and a follow that read its end has folded everything, while the log
\* fits the window and no push was dropped (runner.go: observe and fold).
THEOREM CountIsExact == Spec => []CountedExactly
<1>1. IInv => CountedExactly
  <2> SUFFICES ASSUME IInv, Faithful
               PROVE  /\ \A n \in 1..MaxReports : counted[n] <= 1
                      /\ how \in {"finish", "polled"} /\ ~behind =>
                            \A n \in 1..made : counted[n] = 1
    BY DEF CountedExactly, Faithful
  <2>1. \A n \in 1..MaxReports :
           counted[n] = IF \E i \in 1..cursor : log[i] = Report(n) THEN 1 ELSE 0
    BY DEF IInv, CursorIsRead
  <2>2. ASSUME how \in {"finish", "polled"}, ~behind, NEW n \in 1..made
        PROVE  counted[n] = 1
    <3>1. cursor = Len(log)
      BY <2>2 DEF IInv, EndIsRead
    <3>2. \E i \in 1..Len(log) : log[i] = Report(n)
      BY DEF IInv, LogIsWhole, Faithful
    <3>3. n \in 1..MaxReports
      BY FollowerAssumption DEF IInv, TypeOK
    <3> QED
      BY <2>1, <3>1, <3>2, <3>3
  <2> QED
    BY <2>1, <2>2
<1> QED
  BY <1>1, Inductive, PTL
-----------------------------------------------------------------------------
(* The safety half of FollowEnds.                                          *)

\* How many steps a follower is from its end, at most, once the run is over: what
\* the stream still holds, a recheck, and the polls before it gives up.
Remaining ==
    CASE at = "off" -> 0
      [] at = "events" /\ seen -> 1
      [] at = "poll" -> MaxFailures - failures + 2
      [] at = "events" /\ ~seen -> MaxFailures + 3
      [] at = "stream" -> MaxFailures + 3 + Len(feed) + 2 * Len(chan)
                             + (IF sub = "new" THEN 1 ELSE 0)
      [] OTHER -> MaxFailures + LogMax + 5

\* Where the follower is, in numbers.
Placed ==
    /\ Remaining \in Nat
    /\ at = "off" => Remaining = 0
    /\ at # "off" => Remaining >= 1
    /\ at = "events" /\ seen => Remaining = 1
    /\ at = "events" /\ ~seen => Remaining = MaxFailures + 3
    /\ at = "poll" => /\ Remaining = MaxFailures - failures + 2
                      /\ Remaining >= 2 /\ Remaining <= MaxFailures + 2
    /\ at = "stream" => /\ Remaining >= MaxFailures + 3
                        /\ Remaining = MaxFailures + 3 + Len(feed) + 2 * Len(chan)
                                         + (IF sub = "new" THEN 1 ELSE 0)
    /\ at = "subscribe" => Remaining = MaxFailures + LogMax + 5

LEMMA RemainingIs == TypeOK => Placed
<1> SUFFICES ASSUME TypeOK PROVE Placed
  OBVIOUS
<1>1. /\ Len(feed) \in Nat /\ Len(chan) \in Nat /\ failures \in 0..MaxFailures
      /\ MaxFailures \in Nat /\ LogMax \in Nat
  BY FollowerAssumption, LenProperties DEF TypeOK
<1>2. CASE at = "off"
  BY <1>2 DEF Remaining, Placed
<1>3. CASE at = "events" /\ seen
  BY <1>3 DEF Remaining, Placed
<1>4. CASE at = "events" /\ ~seen
  BY <1>1, <1>4 DEF Remaining, Placed
<1>5. CASE at = "poll"
  BY <1>1, <1>5 DEF Remaining, Placed
<1>6. CASE at = "stream"
  <2>1. Remaining = MaxFailures + 3 + Len(feed) + 2 * Len(chan)
                      + (IF sub = "new" THEN 1 ELSE 0)
    BY <1>6 DEF Remaining
  <2>2. Remaining \in Nat /\ Remaining >= MaxFailures + 3 /\ Remaining >= 1
    BY <1>1, <2>1
  <2> QED
    BY <1>6, <2>1, <2>2 DEF Placed
<1>7. CASE at = "subscribe"
  BY <1>1, <1>7 DEF Remaining, Placed
<1> QED
  BY <1>2, <1>3, <1>4, <1>5, <1>6, <1>7 DEF TypeOK

LEMMA RemainingNext == TypeOK' => Placed'
  BY RemainingIs, PTL

Shortens ==
    /\ RunIsOver'
    /\ Remaining' <= Remaining
    /\ ClientStep \/ Abandon \/ (at = "stream" /\ (Look \/ Send)) => Remaining' < Remaining

\* The steps of the follower itself.
LEMMA FollowerShortens ==
    ASSUME TypeOK, TypeOK', Placed, Placed', RunIsOver, at # "off", ClientStep \/ Abandon
    PROVE  RunIsOver' /\ Remaining' < Remaining
<1>0. /\ MaxFailures \in Nat /\ LogMax \in Nat
      /\ Len(feed) \in Nat /\ Len(chan) \in Nat /\ Len(log) \in Nat /\ Len(log) <= LogMax
      /\ Len(feed') \in Nat /\ Len(chan') \in Nat /\ failures \in 0..MaxFailures
      /\ cursor \in Nat /\ log \in Seq(Event) /\ feed \in Seq(Event)
      /\ seen \in BOOLEAN /\ seen' \in BOOLEAN
  BY FollowerAssumption, LenProperties DEF TypeOK
<1>1. RunIsOver'
  BY DEF RunIsOver, ClientStep, Subscribe, Fold, Recheck, Poll, Events, Abandon, daemon
<1>2. at' = "off" => Remaining' < Remaining
  <2>1. at' = "off" => Remaining' = 0
    BY DEF Placed
  <2>2. Remaining >= 1 /\ Remaining \in Nat
    BY DEF Placed
  <2> QED
    BY <2>1, <2>2, <1>0
<1>3. CASE Subscribe
  <2>1. CASE up /\ cursor <= Len(log)
    <3>1. cursor + 1 \in 1..(Len(log) + 1)
      BY <1>0, <2>1
    <3>2. Len(feed') <= LogMax /\ chan' = << >> /\ at' = "stream" /\ at = "subscribe"
      BY <1>0, <1>3, <2>1, <3>1, FromFacts DEF Subscribe
    <3>3. Len(chan') = 0
      BY <3>2
    <3>4. Remaining' <= MaxFailures + 3 + LogMax + 1 /\ Remaining' \in Nat
      <4>1. Remaining' = MaxFailures + 3 + Len(feed') + 2 * Len(chan')
                           + (IF sub' = "new" THEN 1 ELSE 0)
        BY <3>2 DEF Placed
      <4>2. Remaining' \in Nat
        BY DEF Placed
      <4> QED
        BY <1>0, <3>2, <3>3, <4>1, <4>2
    <3>5. Remaining = MaxFailures + LogMax + 5
      BY <3>2 DEF Placed
    <3> QED
      BY <1>0, <1>1, <3>4, <3>5
  <2>2. CASE ~(up /\ cursor <= Len(log))
    <3>1. at' = "poll" /\ at = "subscribe"
      BY <1>3, <2>2 DEF Subscribe
    <3>2. Remaining' <= MaxFailures + 2 /\ Remaining' \in Nat
      BY <3>1 DEF Placed
    <3>3. Remaining = MaxFailures + LogMax + 5
      BY <3>1 DEF Placed
    <3> QED
      BY <1>0, <1>1, <3>2, <3>3
  <2> QED
    BY <2>1, <2>2
<1>4. CASE Fold
  <2>1. CASE Head(feed) = Finished
    BY <1>1, <1>2, <1>4, <2>1 DEF Fold
  <2>2. CASE Head(feed) # Finished
    <3>1. /\ feed' = Tail(feed) /\ feed # << >> /\ chan' = chan /\ sub' = sub
          /\ at = "stream" /\ at' = "stream"
      BY <1>4, <2>2 DEF Fold
    <3>2. Len(feed') = Len(feed) - 1
      BY <1>0, <3>1, TailFacts
    <3>3. Remaining' = MaxFailures + 3 + Len(feed') + 2 * Len(chan)
                         + (IF sub = "new" THEN 1 ELSE 0)
      BY <3>1 DEF Placed
    <3>4. Remaining = MaxFailures + 3 + Len(feed) + 2 * Len(chan)
                         + (IF sub = "new" THEN 1 ELSE 0)
      BY <3>1 DEF Placed
    <3> QED
      BY <1>0, <1>1, <3>2, <3>3, <3>4
  <2> QED
    BY <2>1, <2>2
<1>5. CASE Recheck
  <2>1. at = "stream" /\ at' \in {"off", "poll"}
    BY <1>5 DEF Recheck
  <2>2. at' = "poll" => Remaining' <= MaxFailures + 2 /\ Remaining' \in Nat
    BY DEF Placed
  <2>3. Remaining >= MaxFailures + 3 /\ Remaining \in Nat
    BY <2>1 DEF Placed
  <2> QED
    BY <1>0, <1>1, <1>2, <2>1, <2>2, <2>3
<1>6. CASE Poll
  <2>1. Remaining = MaxFailures - failures + 2
    BY <1>6 DEF Poll, Placed
  <2>2. CASE at' = "events"
    <3>1. seen'
      BY <1>6, <2>2 DEF Poll, RunIsOver
    <3>2. Remaining' = 1
      BY <2>2, <3>1 DEF Placed
    <3> QED
      BY <1>0, <1>1, <2>1, <3>2
  <2>3. CASE at' = "poll"
    <3>1. failures' = failures + 1
      BY <1>6, <2>3 DEF Poll
    <3>2. Remaining' = MaxFailures - failures' + 2
      BY <2>3 DEF Placed
    <3> QED
      BY <1>0, <1>1, <2>1, <3>1, <3>2
  <2> QED
    BY <1>1, <1>2, <1>6, <2>2, <2>3 DEF Poll
<1>7. CASE Events
  <2>1. at = "events" /\ seen' = seen /\ (seen => at' = "off") /\ (~seen => at' = "poll")
    BY <1>7 DEF Events, poll
  <2>2. ~seen => Remaining = MaxFailures + 3
    BY <2>1 DEF Placed
  <2>3. at' = "poll" => Remaining' <= MaxFailures + 2 /\ Remaining' \in Nat
    BY DEF Placed
  <2> QED
    BY <1>0, <1>1, <1>2, <2>1, <2>2, <2>3
<1>8. CASE Abandon
  BY <1>1, <1>2, <1>8 DEF Abandon
<1> QED
  BY <1>3, <1>4, <1>5, <1>6, <1>7, <1>8 DEF ClientStep

\* The daemon's half of the stream.
LEMMA DeliveryShortens ==
    ASSUME TypeOK, TypeOK', Placed, Placed', RunIsOver, Look \/ Send
    PROVE  /\ RunIsOver' /\ at' = at
           /\ Remaining' <= Remaining
           /\ at = "stream" => Remaining' < Remaining
<1>0. /\ MaxFailures \in Nat /\ Len(feed) \in Nat /\ Len(chan) \in Nat
      /\ Len(feed') \in Nat /\ Len(chan') \in Nat
      /\ chan \in Seq(Event) /\ feed \in Seq(Event)
  BY FollowerAssumption, LenProperties DEF TypeOK
<1>1. RunIsOver' /\ at' = at /\ seen' = seen /\ failures' = failures
  BY DEF RunIsOver, Look, Send, daemon, poll
<1>2. at # "stream" => Remaining' = Remaining
  BY <1>1 DEF Remaining
<1>3. ASSUME at = "stream" PROVE Remaining' < Remaining
  <2>1. Remaining = MaxFailures + 3 + Len(feed) + 2 * Len(chan)
                       + (IF sub = "new" THEN 1 ELSE 0)
    BY <1>3 DEF Placed
  <2>2. Remaining' = MaxFailures + 3 + Len(feed') + 2 * Len(chan')
                       + (IF sub' = "new" THEN 1 ELSE 0)
    BY <1>1, <1>3 DEF Placed
  <2>3. CASE Look
    <3>1. sub = "new" /\ sub' # "new" /\ feed' = feed /\ chan' = << >>
      BY <2>3 DEF Look, RunIsOver
    <3>2. Len(chan') = 0
      BY <3>1
    <3> QED
      BY <1>0, <2>1, <2>2, <3>1, <3>2
  <2>4. CASE Send
    <3>1. /\ sub = "live" /\ sub' # "new" /\ chan # << >>
          /\ feed' = Append(feed, Head(chan)) /\ chan' = Tail(chan)
      BY <2>4 DEF Send
    <3>2. Len(chan') = Len(chan) - 1 /\ Head(chan) \in Event
      BY <1>0, <3>1, TailFacts
    <3>3. Len(feed') = Len(feed) + 1
      BY <1>0, <3>1, <3>2, AppendFacts
    <3> QED
      BY <1>0, <2>1, <2>2, <3>1, <3>2, <3>3
  <2> QED
    BY <2>3, <2>4
<1> QED
  BY <1>1, <1>2, <1>3 DEF Placed

\* A lost connection, a crash and a restart of the daemon.
LEMMA FaultKeeps ==
    ASSUME TypeOK, TypeOK', Placed, Placed', RunIsOver, Crash \/ Restart \/ Disconnect
    PROVE  RunIsOver' /\ Remaining' <= Remaining
<1>0. /\ MaxFailures \in Nat /\ Len(feed) \in Nat /\ Len(chan) \in Nat
      /\ Len(feed') \in Nat /\ Len(chan') \in Nat
  BY FollowerAssumption, LenProperties DEF TypeOK
<1>1. RunIsOver' /\ at' = at /\ seen' = seen /\ failures' = failures
  BY DEF RunIsOver, Crash, Restart, Disconnect, daemon, poll
<1>2. at # "stream" => Remaining' = Remaining
  BY <1>1 DEF Remaining
<1>3. ASSUME at = "stream" PROVE Remaining' <= Remaining
  <2>1. Remaining = MaxFailures + 3 + Len(feed) + 2 * Len(chan)
                       + (IF sub = "new" THEN 1 ELSE 0)
    BY <1>3 DEF Placed
  <2>2. Remaining' = MaxFailures + 3 + Len(feed') + 2 * Len(chan')
                       + (IF sub' = "new" THEN 1 ELSE 0)
    BY <1>1, <1>3 DEF Placed
  <2>3. /\ chan' = chan \/ chan' = << >>
        /\ feed' = feed \/ feed' = << >>
        /\ sub' = "new" => sub = "new"
    BY DEF Crash, Restart, Disconnect, wire
  <2>4. Len(chan') <= Len(chan) /\ Len(feed') <= Len(feed)
    BY <1>0, <2>3
  <2> QED
    BY <1>0, <2>1, <2>2, <2>3, <2>4
<1> QED
  BY <1>1, <1>2, <1>3 DEF Placed

\* What FollowEnds needs beside fairness.  Once the run is over nothing revives it
\* under a follower that still follows, and no lost connection, crash or restart
\* takes the follower back: every event sent or folded, every recheck and every
\* poll, answered or not, leaves fewer steps to its end (runner.go: observe).
THEOREM FollowRunsDown == Spec => [][RunIsOver /\ at # "off" => Shortens]_vars
<1>1. ASSUME TypeOK, TypeOK', Placed, Placed', [Next]_vars, RunIsOver, at # "off" PROVE Shortens
  <2>0. Remaining \in Nat /\ Remaining' \in Nat
    BY <1>1 DEF Placed
  <2>1. CASE ClientStep \/ Abandon
    BY <1>1, <2>0, <2>1, FollowerShortens DEF Shortens
  <2>2. CASE ~(ClientStep \/ Abandon) /\ (Look \/ Send)
    BY <1>1, <2>2, DeliveryShortens DEF Shortens
  <2>3. CASE ~(ClientStep \/ Abandon) /\ ~(Look \/ Send)
    <3>1. CASE Crash \/ Restart \/ Disconnect
      BY <1>1, <2>3, <3>1, FaultKeeps DEF Shortens
    <3>2. CASE UNCHANGED vars
      <4>1. Remaining' = Remaining /\ RunIsOver'
        BY <1>1, <3>2 DEF vars, daemon, wire, poll, Remaining, RunIsOver
      <4> QED
        BY <2>0, <2>3, <4>1 DEF Shortens
    <3>3. ~(Advance \/ Stop \/ Leave \/ Answer \/ Run \/ Attach)
      BY <1>1 DEF RunIsOver, Advance, Stop, Leave, Answer, Run, Attach, Follow
    <3> QED
      BY <1>1, <2>3, <3>1, <3>2, <3>3 DEF Next, DaemonStep
  <2> QED
    BY <2>1, <2>2, <2>3
<1> QED
  BY <1>1, TypeCorrect, RemainingIs, RemainingNext, PTL DEF Spec
=============================================================================
