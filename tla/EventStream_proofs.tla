------------------------- MODULE EventStream_proofs -------------------------
(***************************************************************************)
(* Proofs about the event log of a run and its subscriptions, for any      *)
(* number of events, any cap, any channel capacity and any number of       *)
(* subscriptions: type correctness, the cap of the log, that a             *)
(* subscription misses nothing its channel had room for, and that it sends *)
(* nothing twice.                                                          *)
(***************************************************************************)
EXTENDS EventStream, SequenceTheorems, TLAPS

-----------------------------------------------------------------------------
(* Sequences.                                                              *)

\* What is in a sequence stays in it when it grows, and the new element is in it.
LEMMA InAppend ==
    ASSUME NEW S, NEW q \in Seq(S), NEW x \in S
    PROVE  /\ InSeq(x, Append(q, x))
           /\ \A e : InSeq(e, q) => InSeq(e, Append(q, x))
<1>1. /\ DOMAIN q = 1..Len(q) /\ Len(q) \in Nat
      /\ Append(q, x) \in Seq(S)
      /\ DOMAIN Append(q, x) = 1..(Len(q) + 1)
  BY LenProperties, AppendProperties
<1>2. Append(q, x)[Len(q) + 1] = x /\ \A i \in 1..Len(q) : Append(q, x)[i] = q[i]
  BY AppendProperties
<1> QED
  BY <1>1, <1>2 DEF InSeq

\* What leaves a sequence with its head is its head.
LEMMA InTail ==
    ASSUME NEW S, NEW q \in Seq(S), q # <<>>, NEW e, InSeq(e, q)
    PROVE  e = Head(q) \/ InSeq(e, Tail(q))
<1>1. PICK i \in 1..Len(q) : q[i] = e
  BY LenProperties DEF InSeq
<1>2. CASE i = 1
  BY <1>1, <1>2
<1>3. CASE i > 1
  <2>1. /\ Tail(q) \in Seq(S) /\ Len(Tail(q)) = Len(q) - 1 /\ Len(q) \in Nat
        /\ \A j \in 1..Len(Tail(q)) : Tail(q)[j] = q[j + 1]
    BY HeadTailProperties, LenProperties
  <2>2. i - 1 \in 1..Len(Tail(q)) /\ Tail(q)[i - 1] = e
    BY <1>1, <1>3, <2>1
  <2>3. DOMAIN Tail(q) = 1..Len(Tail(q))
    BY <2>1, LenProperties
  <2> QED
    BY <2>2, <2>3 DEF InSeq
<1> QED
  BY <1>1, <1>2, <1>3, LenProperties

LEMMA IncreasingAppend ==
    ASSUME NEW q \in Seq(Nat), NEW x \in Nat, Increasing(q), \A i \in DOMAIN q : q[i] < x
    PROVE  Increasing(Append(q, x))
<1>1. /\ DOMAIN q = 1..Len(q) /\ Len(q) \in Nat
      /\ DOMAIN Append(q, x) = 1..(Len(q) + 1)
  BY LenProperties, AppendProperties
<1>2. Append(q, x)[Len(q) + 1] = x /\ \A i \in 1..Len(q) : Append(q, x)[i] = q[i]
  BY AppendProperties
<1> QED
  BY <1>1, <1>2 DEF Increasing

LEMMA IncreasingSubSeq ==
    ASSUME NEW n \in Nat, NEW q \in Seq(1..n), NEW m \in Nat \ {0}, Increasing(q)
    PROVE  /\ Increasing(SubSeq(q, m, Len(q)))
           /\ SubSeq(q, m, Len(q)) \in Seq(1..n)
           /\ Len(SubSeq(q, m, Len(q))) = IF m <= Len(q) THEN Len(q) - m + 1 ELSE 0
<1> DEFINE r == SubSeq(q, m, Len(q))
<1>1. DOMAIN q = 1..Len(q) /\ Len(q) \in Nat
  BY LenProperties
<1>2. \A i \in m..Len(q) : q[i] \in 1..n
  BY ElementOfSeq
<1>3. /\ r \in Seq(1..n)
      /\ Len(r) = IF m <= Len(q) THEN Len(q) - m + 1 ELSE 0
      /\ \A i \in 1..(Len(q) - m + 1) : r[i] = q[m + i - 1]
  BY <1>1, <1>2, SubSeqProperties
<1>4. DOMAIN r = 1..Len(r)
  BY <1>3, LenProperties
<1>. HIDE DEF r
<1>5. ASSUME NEW i \in 1..Len(r), NEW j \in 1..Len(r), i < j PROVE r[i] < r[j]
  <2>1. m <= Len(q) /\ Len(r) = Len(q) - m + 1
    BY <1>1, <1>3
  <2>2. r[i] = q[m + i - 1] /\ r[j] = q[m + j - 1]
    BY <1>1, <1>3, <2>1
  <2>3. m + i - 1 \in 1..Len(q) /\ m + j - 1 \in 1..Len(q) /\ m + i - 1 < m + j - 1
    BY <1>1, <1>5, <2>1
  <2> QED
    BY <1>1, <2>2, <2>3 DEF Increasing
<1>6. Increasing(r)
  BY <1>4, <1>5 DEF Increasing
<1> QED
  BY <1>3, <1>6 DEF r

LEMMA IncreasingTail ==
    ASSUME NEW n \in Nat, NEW q \in Seq(1..n), q # <<>>, Increasing(q)
    PROVE  /\ Increasing(Tail(q))
           /\ \A j \in DOMAIN Tail(q) : Head(q) < Tail(q)[j]
<1>1. /\ Tail(q) \in Seq(1..n) /\ Len(Tail(q)) = Len(q) - 1 /\ Len(q) \in Nat
      /\ \A j \in 1..Len(Tail(q)) : Tail(q)[j] = q[j + 1]
      /\ DOMAIN q = 1..Len(q)
  BY HeadTailProperties, LenProperties
<1>2. DOMAIN Tail(q) = 1..Len(Tail(q)) /\ Head(q) = q[1]
  BY <1>1, LenProperties
<1>3. ASSUME NEW i \in DOMAIN Tail(q), NEW j \in DOMAIN Tail(q), i < j
      PROVE  Tail(q)[i] < Tail(q)[j]
  <2>1. i + 1 \in DOMAIN q /\ j + 1 \in DOMAIN q /\ i + 1 < j + 1
    BY <1>1, <1>2, <1>3
  <2>2. q[i + 1] < q[j + 1]
    BY <2>1 DEF Increasing
  <2> QED
    BY <1>1, <1>2, <2>2
<1>4. ASSUME NEW j \in DOMAIN Tail(q) PROVE Head(q) < Tail(q)[j]
  <2>1. 1 \in DOMAIN q /\ j + 1 \in DOMAIN q /\ 1 < j + 1
    BY <1>1, <1>2
  <2>2. q[1] < q[j + 1]
    BY <2>1 DEF Increasing
  <2> QED
    BY <1>1, <1>2, <2>2
<1> QED
  BY <1>3, <1>4 DEF Increasing

-----------------------------------------------------------------------------
(* Type correctness.                                                       *)

LEMMA GrowSeq ==
    ASSUME NEW n \in Nat, NEW q \in Seq(1..n)
    PROVE  q \in Seq(1..(n + 1))
<1>1. 1..n \subseteq 1..(n + 1)
  OBVIOUS
<1> QED
  BY <1>1, SeqMonotonic

LEMMA WrittenType == ASSUME TypeOK PROVE Written \in Nat
BY LenProperties DEF TypeOK, Written

LEMMA TypeInit == Init => TypeOK
<1>. SUFFICES ASSUME Init PROVE TypeOK
  OBVIOUS
<1>. USE StreamAssumption DEF Init, Subs
<1>1. PICK old \in 0..MaxOld : /\ log = [i \in 1..old |-> i]
                               /\ kind = [i \in 1..old |-> "delta"]
  OBVIOUS
<1>2. kind \in Seq(Kinds) /\ Written = old
  BY <1>1 DEF Kinds, Written
<1>3. log \in Seq(1..Written) /\ kept \in Seq(1..Written)
  BY <1>1, <1>2
<1>4. /\ count \in 0..LogMax
      /\ driver \in {"running", "count", "rotate", "refill", "push", "leave", "pause",
                     "asking", "gone"}
      /\ inMap \in BOOLEAN /\ connected \in BOOLEAN /\ up \in BOOLEAN
  OBVIOUS
<1>5. /\ sub \in [Subs -> SubLocations]
      /\ registered \in [Subs -> Nat]
      /\ ended \in [Subs -> {"no", "error", "inactive", "finished", "gone"}]
  BY DEF SubLocations
<1>6. dropped \in [Subs -> BOOLEAN] /\ done \in [Subs -> BOOLEAN]
  OBVIOUS
<1>7. /\ copy \in [Subs -> Seq(1..Written)]
      /\ queue \in [Subs -> Seq(1..Written)]
      /\ delivered \in [Subs -> Seq(1..Written)]
  BY <1>2, EmptySeq
<1>8. Handling => Written > 0
  BY DEF Handling
<1> QED
  BY ONLY <1>2, <1>3, <1>4, <1>5, <1>6, <1>7, <1>8 DEF TypeOK

LEMMA TypeStep ==
    ASSUME TypeOK, [Next]_vars
    PROVE  TypeOK'
<1>0. Written \in Nat
  BY WrittenType
<1>. USE StreamAssumption, <1>0 DEF TypeOK, vars, stream, client, SubLocations, Handling
<1>1. CASE Write
  <2>1. PICK k \in Kinds : kind' = Append(kind, k)
    BY <1>1 DEF Write
  <2>2. kind' \in Seq(Kinds) /\ Written' = Written + 1
    BY <2>1, AppendProperties DEF Written
  <2>3. log \in Seq(1..Written') /\ kept \in Seq(1..Written')
    BY <2>2, GrowSeq
  <2>4. \A q \in Seq(1..Written) : q \in Seq(1..Written')
    BY <2>2, GrowSeq
  <2>5. Written + 1 \in 1..Written'
    BY <2>2
  <2>6. log' \in Seq(1..Written')
    BY <1>1, <2>3, <2>5, AppendProperties DEF Write
  <2>7. /\ copy' \in [Subs -> Seq(1..Written')]
        /\ queue' \in [Subs -> Seq(1..Written')]
        /\ delivered' \in [Subs -> Seq(1..Written')]
    BY <1>1, <2>4 DEF Write
  <2> QED
    BY <1>1, <2>2, <2>3, <2>6, <2>7 DEF Write
<1>2. ASSUME UNCHANGED kind PROVE Written' = Written
  BY <1>2 DEF Written
<1>3. CASE Count
  BY <1>2, <1>3 DEF Count
<1>4. CASE Rotate
  <2>1. CASE Len(log) <= LogMax
    BY <1>2, <1>4, <2>1 DEF Rotate
  <2>2. CASE ~(Len(log) <= LogMax)
    <3>1. Len(log) - LogMax \div 2 + 1 \in Nat \ {0}
      BY <2>2, LenProperties
    <3>2. \A i \in (Len(log) - LogMax \div 2 + 1)..Len(log) : log[i] \in 1..Written
      BY <3>1, LenProperties, ElementOfSeq
    <3>3. SubSeq(log, Len(log) - LogMax \div 2 + 1, Len(log)) \in Seq(1..Written)
      BY <3>1, <3>2, SubSeqProperties, LenProperties
    <3>4. kept' \in Seq(1..Written) /\ log' \in Seq(1..Written)
      BY <1>4, <2>2, <3>3, EmptySeq DEF Rotate
    <3> QED
      BY <1>2, <1>4, <2>2, <3>4 DEF Rotate
  <2> QED
    BY <2>1, <2>2
<1>5. CASE Refill
  BY <1>2, <1>5, EmptySeq DEF Refill
<1>6. CASE Push
  <2>1. Written \in 1..Written
    BY <1>6 DEF Push
  <2>2. \A s \in Subs : Append(queue[s], Written) \in Seq(1..Written)
    BY <2>1, AppendProperties
  <2>3. queue' \in [Subs -> Seq(1..Written)] /\ dropped' \in [Subs -> BOOLEAN]
    BY <1>6, <2>2 DEF Push
  <2> QED
    BY <1>2, <1>6, <2>3 DEF Push
<1>7. CASE LeaveMap \/ Ask \/ Answer
  BY <1>2, <1>7 DEF LeaveMap, Ask, Answer
<1>8. ASSUME NEW s \in Subs, Subscribe(s) PROVE TypeOK'
  BY <1>2, <1>8 DEF Subscribe
<1>9. CASE Disconnect
  BY <1>2, <1>9 DEF Disconnect
<1>10. ASSUME NEW s \in Subs, Register(s) PROVE TypeOK'
  BY <1>2, <1>10 DEF Register
<1>11. ASSUME NEW s \in Subs, NEW why \in {"no", "error", "inactive", "finished", "gone"}, Return(s, why)
       PROVE  /\ sub' \in [Subs -> SubLocations]
              /\ ended' \in [Subs -> {"no", "error", "inactive", "finished", "gone"}]
              /\ queue' \in [Subs -> Seq(1..Written)]
              /\ copy' \in [Subs -> Seq(1..Written)]
  BY <1>11, EmptySeq DEF Return
<1>12. ASSUME NEW s \in Subs, ReadLog(s) PROVE TypeOK'
  <2>1. PICK from \in {0, registered[s]} :
            IF from > Len(log) THEN Return(s, "error")
            ELSE /\ copy' = [copy EXCEPT ![s] = SubSeq(log, from + 1, Len(log))]
                 /\ sub' = [sub EXCEPT ![s] = "replay"]
                 /\ UNCHANGED <<ended, queue>>
    BY <1>12 DEF ReadLog
  <2>2. CASE from > Len(log)
    BY <1>2, <1>11, <1>12, <2>1, <2>2 DEF ReadLog
  <2>3. CASE ~(from > Len(log))
    <3>1. SubSeq(log, from + 1, Len(log)) \in Seq(1..Written)
      <4>1. from + 1 \in Nat \ {0} /\ Len(log) \in Nat
        BY LenProperties
      <4>2. \A i \in (from + 1)..Len(log) : log[i] \in 1..Written
        BY <4>1, ElementOfSeq
      <4> QED
        BY <4>1, <4>2, SubSeqProperties
    <3> QED
      BY <1>2, <1>12, <2>1, <2>3, <3>1 DEF ReadLog
  <2> QED
    BY <2>2, <2>3
<1>13. ASSUME NEW s \in Subs, NEW e \in 1..Written, Send(s, e)
       PROVE  delivered' \in [Subs -> Seq(1..Written)]
  BY <1>13, AppendProperties DEF Send
<1>14. ASSUME NEW s \in Subs, Replay(s) PROVE TypeOK'
  <2>1. CASE copy[s] = <<>>
    BY <1>2, <1>14, <2>1 DEF Replay
  <2>2. CASE copy[s] # <<>>
    <3>1. Head(copy[s]) \in 1..Written /\ Tail(copy[s]) \in Seq(1..Written)
      BY <2>2, HeadTailProperties
    <3> QED
      BY <1>2, <1>13, <1>14, <2>2, <3>1 DEF Replay
  <2> QED
    BY <2>1, <2>2
<1>15. ASSUME NEW s \in Subs, CheckActive(s) PROVE TypeOK'
  BY <1>2, <1>11, <1>15 DEF CheckActive
<1>16. ASSUME NEW s \in Subs, Receive(s) PROVE TypeOK'
  <2>1. Head(queue[s]) \in 1..Written /\ Tail(queue[s]) \in Seq(1..Written)
    BY <1>16, HeadTailProperties DEF Receive
  <2>2. /\ sub' \in [Subs -> SubLocations]
        /\ ended' \in [Subs -> {"no", "error", "inactive", "finished", "gone"}]
        /\ queue' \in [Subs -> Seq(1..Written)]
        /\ copy' \in [Subs -> Seq(1..Written)]
    BY <1>11, <1>16, <2>1 DEF Receive
  <2>3. delivered' \in [Subs -> Seq(1..Written)]
    BY <1>13, <1>16, <2>1 DEF Receive
  <2> QED
    BY <1>2, <1>16, <2>2, <2>3 DEF Receive
<1>17. ASSUME NEW s \in Subs, Gone(s) PROVE TypeOK'
  BY <1>2, <1>11, <1>17 DEF Gone
<1>18. ASSUME NEW s \in Subs, CloseDone(s) PROVE TypeOK'
  BY <1>2, <1>18 DEF CloseDone
<1>19. CASE UNCHANGED vars
  BY <1>2, <1>19
<1> QED
  BY <1>1, <1>3, <1>4, <1>5, <1>6, <1>7, <1>8, <1>9, <1>10, <1>12, <1>14, <1>15, <1>16,
     <1>17, <1>18, <1>19 DEF Next, Drive, Handle

-----------------------------------------------------------------------------
(* The inductive invariant.                                                *)

LEMMA InitIInv == Init => IInv
<1>. SUFFICES ASSUME Init PROVE IInv
  OBVIOUS
<1>0. TypeOK
  BY TypeInit
<1>1. PICK old \in 0..MaxOld : /\ log = [i \in 1..old |-> i]
                               /\ kind = [i \in 1..old |-> "delta"]
  BY DEF Init
<1>2. Len(log) = old /\ Written = old
  BY <1>1, StreamAssumption DEF Written
<1>3. LogIsCapped /\ HalfIsKept
  BY <1>2, StreamAssumption DEF Init, LogIsCapped, HalfIsKept
<1>4. LinesInOrder
  BY <1>1, StreamAssumption DEF Init, LinesInOrder, Increasing
<1>5. ReplayInOrder /\ NoGap
  BY DEF Init, ReplayInOrder, SentInOrder, NoGap
<1>6. SentOnce
  BY DEF Init, SentOnce, NoRepeat
<1> QED
  BY <1>0, <1>3, <1>4, <1>5, <1>6 DEF IInv

\* The cap: only the driver changes the log and its count.
LEMMA CapStep ==
    ASSUME TypeOK, LogIsCapped, HalfIsKept, [Next]_vars
    PROVE  LogIsCapped' /\ HalfIsKept'
<1>0. /\ count \in Nat /\ count <= LogMax /\ Len(log) \in Nat /\ Len(kept) \in Nat
      /\ LogMax \div 2 \in Nat /\ LogMax \div 2 <= LogMax /\ MaxOld \in Nat /\ LogMax \in Nat
  BY StreamAssumption, LenProperties DEF TypeOK
<1>. USE <1>0 DEF LogIsCapped, HalfIsKept
<1>1. CASE Write
  <2>1. Len(log') = Len(log) + 1
    <3>1. log \in Seq(1..Written) /\ 1..Written \subseteq Nat /\ Written + 1 \in Nat
      BY WrittenType DEF TypeOK
    <3>2. log \in Seq(Nat)
      BY <3>1, SeqMonotonic
    <3> QED
      BY <1>1, <3>1, <3>2, AppendProperties DEF Write
  <2> QED
    BY <1>1, <2>1 DEF Write
<1>2. CASE Count
  BY <1>2 DEF Count
<1>3. CASE Rotate
  <2>1. CASE Len(log) <= LogMax
    BY <1>3, <2>1 DEF Rotate
  <2>2. CASE ~(Len(log) <= LogMax)
    <3>1. Len(SubSeq(log, Len(log) - LogMax \div 2 + 1, Len(log))) = LogMax \div 2
      <4>0. log \in Seq(1..Written) /\ Len(log) - LogMax \div 2 + 1 \in Nat \ {0}
        BY <2>2 DEF TypeOK
      <4>1. \A i \in (Len(log) - LogMax \div 2 + 1)..Len(log) : log[i] \in 1..Written
        <5>1. \A i \in (Len(log) - LogMax \div 2 + 1)..Len(log) : i \in 1..Len(log)
          BY <4>0
        <5> QED
          BY <4>0, <5>1, ElementOfSeq
      <4> QED
        BY <2>2, <4>0, <4>1, SubSeqProperties, StreamAssumption
    <3> QED
      BY <1>3, <2>2, <3>1 DEF Rotate
  <2> QED
    BY <2>1, <2>2
<1>4. CASE Refill
  BY <1>4 DEF Refill
<1>5. CASE Push
  BY <1>5 DEF Push
<1>6. CASE LeaveMap \/ Ask \/ Answer
  BY <1>6 DEF LeaveMap, Ask, Answer
<1>7. CASE UNCHANGED stream
  BY <1>7 DEF stream
<1>8. CASE UNCHANGED vars
  BY <1>8 DEF vars, stream
<1>9. ASSUME NEW s \in Subs, Subscribe(s) \/ Handle(s) PROVE UNCHANGED stream
  BY <1>9 DEF Subscribe, Handle, Register, ReadLog, Replay, CheckActive, Receive, Gone, CloseDone
<1>10. CASE Disconnect
  BY <1>7, <1>10 DEF Disconnect
<1> QED
  BY <1>1, <1>2, <1>3, <1>4, <1>5, <1>6, <1>7, <1>8, <1>9, <1>10 DEF Next, Drive

\* A rotation keeps the order of the lines.
LEMMA OrderStep ==
    ASSUME TypeOK, LinesInOrder, [Next]_vars
    PROVE  LinesInOrder'
<1>0. Written \in Nat /\ log \in Seq(1..Written) /\ kept \in Seq(1..Written)
  BY WrittenType DEF TypeOK
<1>. USE <1>0 DEF LinesInOrder
<1>1. CASE Write
  <2>1. log \in Seq(Nat) /\ \A i \in DOMAIN log : log[i] < Written + 1
    BY SeqMonotonic, ElementOfSeq, LenProperties
  <2>2. Increasing(Append(log, Written + 1))
    BY <2>1, IncreasingAppend
  <2> QED
    BY <1>1, <2>2 DEF Write
<1>2. CASE Rotate
  <2>1. CASE Len(log) <= LogMax
    BY <1>2, <2>1 DEF Rotate
  <2>2. CASE ~(Len(log) <= LogMax)
    <3>1. Len(log) - LogMax \div 2 + 1 \in Nat \ {0}
      BY <2>2, LenProperties, StreamAssumption
    <3>2. Increasing(SubSeq(log, Len(log) - LogMax \div 2 + 1, Len(log)))
      BY <3>1, IncreasingSubSeq
    <3>3. Increasing(<<>>)
      BY DEF Increasing
    <3> QED
      BY <1>2, <2>2, <3>2, <3>3 DEF Rotate
  <2> QED
    BY <2>1, <2>2
<1>3. CASE Refill
  BY <1>3 DEF Refill, Increasing
<1>4. CASE Count \/ Push \/ LeaveMap \/ Ask \/ Answer \/ Disconnect
  BY <1>4 DEF Count, Push, LeaveMap, Ask, Answer, Disconnect, stream
<1>5. ASSUME NEW s \in Subs, Subscribe(s) \/ Handle(s) PROVE LinesInOrder'
  BY <1>5 DEF stream, Subscribe, Handle, Register, ReadLog, Replay, CheckActive, Receive, Gone,
     CloseDone
<1>6. CASE UNCHANGED vars
  BY <1>6 DEF vars, stream
<1> QED
  BY <1>1, <1>2, <1>3, <1>4, <1>5, <1>6 DEF Next, Drive

\* What a subscription replays comes in the order of the log, and after what it sent.
LEMMA ReplayStep ==
    ASSUME TypeOK, LinesInOrder, ReplayInOrder, [Next]_vars
    PROVE  ReplayInOrder'
<1>0. Written \in Nat
  BY WrittenType
<1>1. ASSUME UNCHANGED <<sub, copy, delivered>> PROVE ReplayInOrder'
  BY <1>1 DEF ReplayInOrder, SentInOrder
<1>2. CASE Drive \/ Disconnect \/ UNCHANGED vars
  BY <1>1, <1>2 DEF Drive, Disconnect, Write, Count, Rotate, Refill, Push, LeaveMap, Ask, Answer,
     client, vars
\* The subscription that takes the step; the others keep all they have.
<1>. SUFFICES ASSUME NEW s \in Subs, Subscribe(s) \/ Handle(s) PROVE ReplayInOrder'
  BY <1>2 DEF Next
<1>3. \A t \in Subs : SentInOrder(t)
  BY DEF ReplayInOrder
<1>4. \A t \in Subs \ {s} : UNCHANGED <<sub[t], copy[t], delivered[t]>>
  BY DEF TypeOK, client, Subscribe, Handle, Register, ReadLog, Replay, CheckActive, Receive, Gone,
     CloseDone, Return, Send
<1>5. SUFFICES SentInOrder(s)'
  BY <1>3, <1>4 DEF ReplayInOrder, SentInOrder
<1>6. CASE Subscribe(s) \/ Register(s)
  BY <1>3, <1>6 DEF TypeOK, Subscribe, Register, client, SentInOrder
<1>7. CASE CheckActive(s) \/ Gone(s) \/ CloseDone(s) \/ Receive(s)
  <2>1. sub'[s] \in {"live", "returned", "closed"}
    BY <1>7 DEF TypeOK, CheckActive, Gone, CloseDone, Receive, Return
  <2> QED
    BY <2>1 DEF SentInOrder
<1>8. CASE ReadLog(s)
  <2>1. delivered'[s] = <<>>
    BY <1>3, <1>8 DEF ReadLog, SentInOrder
  <2>2. CASE sub'[s] = "returned"
    BY <2>1, <2>2 DEF SentInOrder
  <2>3. CASE sub'[s] # "returned"
    <3>1. PICK from \in {0, registered[s]} : /\ copy' = [copy EXCEPT ![s] = SubSeq(log, from + 1, Len(log))]
                                             /\ sub' = [sub EXCEPT ![s] = "replay"]
      BY <1>8, <2>3 DEF TypeOK, ReadLog, Return
    <3>2. copy'[s] = SubSeq(log, from + 1, Len(log)) /\ sub'[s] = "replay"
      BY <3>1 DEF TypeOK
    <3>3. from + 1 \in Nat \ {0}
      BY DEF TypeOK
    <3>4. Increasing(copy'[s])
      BY <1>0, <3>2, <3>3, IncreasingSubSeq DEF TypeOK, LinesInOrder
    <3>5. Increasing(<<>>)
      BY DEF Increasing
    <3> QED
      BY <2>1, <3>2, <3>4, <3>5 DEF SentInOrder
  <2> QED
    BY <2>2, <2>3
<1>9. CASE Replay(s)
  <2>1. CASE copy[s] = <<>>
    BY <1>9, <2>1 DEF TypeOK, Replay, SentInOrder
  <2>2. CASE copy[s] # <<>>
    <3> DEFINE h == Head(copy[s])
    <3>1. /\ delivered'[s] = Append(delivered[s], h) /\ copy'[s] = Tail(copy[s])
          /\ sub'[s] = "replay" /\ sub[s] = "replay"
      BY <1>9, <2>2 DEF TypeOK, Replay, Send
    <3>2. /\ copy[s] \in Seq(1..Written) /\ delivered[s] \in Seq(1..Written)
          /\ h \in 1..Written /\ Tail(copy[s]) \in Seq(1..Written)
      BY <2>2, HeadTailProperties DEF TypeOK
    <3>3. 1 \in DOMAIN copy[s] /\ h = copy[s][1]
      BY <2>2, <3>2, LenProperties, EmptySeq
    <3>4. \A i \in DOMAIN delivered[s] : delivered[s][i] < h
      BY <1>3, <3>1, <3>3 DEF SentInOrder
    <3>5. /\ Increasing(Tail(copy[s]))
          /\ \A j \in DOMAIN Tail(copy[s]) : h < Tail(copy[s])[j]
      BY <1>0, <1>3, <2>2, <3>1, <3>2, IncreasingTail DEF SentInOrder
    <3>. HIDE DEF h
    <3>6. delivered[s] \in Seq(Nat) /\ h \in Nat
      <4>1. 1..Written \subseteq Nat
        BY <1>0
      <4> QED
        BY <3>2, <4>1, SeqMonotonic
    <3>7. Increasing(Append(delivered[s], h))
      BY <1>3, <3>1, <3>4, <3>6, IncreasingAppend DEF SentInOrder
    <3>8. \A i \in DOMAIN Append(delivered[s], h) :
              Append(delivered[s], h)[i] \in Nat /\ Append(delivered[s], h)[i] <= h
      <4>1. /\ DOMAIN delivered[s] = 1..Len(delivered[s]) /\ Len(delivered[s]) \in Nat
            /\ \A i \in 1..Len(delivered[s]) : delivered[s][i] \in Nat
        BY <3>6, LenProperties, ElementOfSeq
      <4>2. /\ DOMAIN Append(delivered[s], h) = 1..(Len(delivered[s]) + 1)
            /\ \A i \in 1..Len(delivered[s]) : Append(delivered[s], h)[i] = delivered[s][i]
            /\ Append(delivered[s], h)[Len(delivered[s]) + 1] = h
        BY <3>6, AppendProperties, LenProperties
      <4> QED
        BY <3>4, <3>6, <4>1, <4>2
    <3>9. \A j \in DOMAIN Tail(copy[s]) : Tail(copy[s])[j] \in Nat
      BY <1>0, <3>2, LenProperties, ElementOfSeq
    <3>10. \A i \in DOMAIN Append(delivered[s], h), j \in DOMAIN Tail(copy[s]) :
              Append(delivered[s], h)[i] < Tail(copy[s])[j]
      BY <3>5, <3>6, <3>8, <3>9
    <3> QED
      BY <3>1, <3>5, <3>7, <3>10 DEF SentInOrder
  <2> QED
    BY <2>1, <2>2
<1> QED
  BY <1>6, <1>7, <1>8, <1>9 DEF Handle

\* What is pushed lands in every registered channel that has room, and leaves a
\* channel only for the connection.
LEMMA GapStep ==
    ASSUME TypeOK, NoGap, [Next]_vars
    PROVE  NoGap'
<1>0. Written \in Nat /\ (Handling => Written > 0)
  BY WrittenType DEF TypeOK
<1> DEFINE Open(t) == sub[t] \in {"read", "replay", "check", "live"}
<1>1. ASSUME UNCHANGED client, UNCHANGED sub, Pushed' = Pushed PROVE NoGap'
  BY <1>1 DEF NoGap, HasAll, InSeq, client
<1>2. CASE Write
  <2>1. Written' = Written + 1
    BY <1>2, AppendProperties DEF Write, Written, TypeOK
  <2> QED
    BY <1>0, <1>1, <1>2, <2>1 DEF Write, Pushed, Handling
<1>3. CASE Count \/ Rotate \/ Refill \/ LeaveMap \/ Ask \/ Answer
  BY <1>1, <1>3 DEF Count, Rotate, Refill, LeaveMap, Ask, Answer, Pushed, Handling, Written
<1>4. CASE Push
  <2>1. Pushed = Written - 1 /\ Pushed' = Written
    BY <1>4 DEF Push, Pushed, Handling, Written
  <2>2. SUFFICES ASSUME NEW s \in Subs, Open(s), ~dropped'[s] PROVE HasAll(s)'
    BY <1>4 DEF Push, NoGap
  <2>3. ~dropped[s] /\ queue'[s] = Append(queue[s], Written)
    BY <1>4, <2>2 DEF Push, TypeOK
  <2>4. HasAll(s)
    BY <2>2, <2>3 DEF NoGap
  <2>5. /\ InSeq(Written, queue'[s])
        /\ \A e : InSeq(e, queue[s]) => InSeq(e, queue'[s])
    <3>1. queue[s] \in Seq(1..Written) /\ Written \in 1..Written
      BY <1>0, <1>4 DEF TypeOK, Push, Handling
    <3> QED
      BY <2>3, <3>1, InAppend
  <2>6. registered[s] \in Nat /\ registered'[s] = registered[s] /\ delivered'[s] = delivered[s]
    BY <1>4 DEF Push, TypeOK
  <2>7. ASSUME NEW e \in (registered[s] + 1)..Written
        PROVE  InSeq(e, delivered[s]) \/ InSeq(e, queue'[s])
    <3>1. e = Written \/ e \in (registered[s] + 1)..Pushed
      BY <1>0, <2>1, <2>6, <2>7
    <3> QED
      BY <2>4, <2>5, <3>1 DEF HasAll
  <2> QED
    BY <2>1, <2>6, <2>7 DEF HasAll, InSeq
<1>5. CASE Disconnect \/ UNCHANGED vars
  BY <1>1, <1>5 DEF Disconnect, vars, stream, Pushed, Handling, Written
<1>6. ASSUME NEW s \in Subs, Subscribe(s) \/ Handle(s) PROVE NoGap'
  <2>1. Pushed' = Pushed
    BY <1>6 DEF Subscribe, Handle, Register, ReadLog, Replay, CheckActive, Receive, Gone,
       CloseDone, stream, Pushed, Handling, Written
  <2>2. \A t \in Subs \ {s} :
            UNCHANGED <<sub[t], queue[t], delivered[t], registered[t], dropped[t]>>
    BY <1>6 DEF TypeOK, client, Subscribe, Handle, Register, ReadLog, Replay, CheckActive,
       Receive, Gone, CloseDone, Return, Send
  <2>3. SUFFICES ASSUME Open(s)', ~dropped'[s] PROVE HasAll(s)'
    BY <2>1, <2>2 DEF NoGap, HasAll, InSeq
  <2>4. SUFFICES ASSUME registered'[s] = registered[s], HasAll(s),
                        NEW e, InSeq(e, delivered[s]) \/ InSeq(e, queue[s])
                 PROVE  InSeq(e, delivered'[s]) \/ InSeq(e, queue'[s])
    <3>1. CASE Register(s)
      BY <1>0, <2>1, <3>1 DEF Register, HasAll, Pushed, TypeOK, Handling
    <3>2. CASE ~Register(s)
      <4>1. Open(s) /\ ~dropped[s] /\ registered'[s] = registered[s]
        BY <1>6, <2>3, <3>2 DEF TypeOK, client, Subscribe, Handle, ReadLog, Replay, CheckActive,
           Receive, Gone, CloseDone, Return
      <4>2. HasAll(s)
        BY <4>1 DEF NoGap
      <4> QED
        BY <2>1, <4>1, <4>2 DEF HasAll, InSeq
    <3> QED
      BY <3>1, <3>2
  <2>5. ASSUME NEW x \in 1..Written, delivered'[s] = Append(delivered[s], x)
        PROVE  /\ InSeq(x, delivered'[s])
               /\ \A y : InSeq(y, delivered[s]) => InSeq(y, delivered'[s])
    <3>1. delivered[s] \in Seq(1..Written)
      BY DEF TypeOK
    <3> QED
      BY <2>5, <3>1, InAppend
  <2>6. CASE Replay(s)
    <3>1. CASE copy[s] = <<>>
      BY <2>4, <2>6, <3>1 DEF Replay
    <3>2. CASE copy[s] # <<>>
      <4>1. Head(copy[s]) \in 1..Written
        BY <3>2, HeadTailProperties DEF TypeOK
      <4>2. delivered'[s] = Append(delivered[s], Head(copy[s])) /\ queue' = queue
        BY <2>6, <3>2 DEF Replay, Send, TypeOK
      <4> QED
        BY <2>4, <2>5, <4>1, <4>2
    <3> QED
      BY <3>1, <3>2
  <2>7. CASE Receive(s)
    <3>1. /\ queue[s] \in Seq(1..Written) /\ queue[s] # <<>>
          /\ queue'[s] = Tail(queue[s])
      BY <2>3, <2>7 DEF Receive, Return, TypeOK
    <3>2. Head(queue[s]) \in 1..Written
      BY <3>1, HeadTailProperties
    <3>3. InSeq(e, queue[s]) => e = Head(queue[s]) \/ InSeq(e, queue'[s])
      BY <3>1, InTail
    <3>4. CASE AlreadySent(s, Head(queue[s]))
      <4>1. delivered' = delivered /\ InSeq(Head(queue[s]), delivered[s])
        BY <2>7, <3>4 DEF Receive, AlreadySent, InSeq
      <4> QED
        BY <2>4, <3>3, <4>1
    <3>5. CASE ~AlreadySent(s, Head(queue[s]))
      <4>1. delivered'[s] = Append(delivered[s], Head(queue[s]))
        BY <2>7, <3>5 DEF Receive, Send, TypeOK
      <4> QED
        BY <2>4, <2>5, <3>2, <3>3, <4>1
    <3> QED
      BY <3>4, <3>5
  <2>8. CASE ReadLog(s) \/ CheckActive(s)
    BY <2>3, <2>4, <2>8 DEF ReadLog, CheckActive, Return, TypeOK
  <2>9. CASE Subscribe(s) \/ Register(s) \/ Gone(s) \/ CloseDone(s)
    BY <2>3, <2>4, <2>9 DEF Subscribe, Register, Gone, CloseDone, Return, TypeOK, client
  <2> QED
    BY <1>6, <2>6, <2>7, <2>8, <2>9 DEF Handle
<1> QED
  BY <1>2, <1>3, <1>4, <1>5, <1>6 DEF Next, Drive

\* A copy is sent in order, and what comes from the channel is compared with
\* everything sent before.
LEMMA OnceStep ==
    ASSUME TypeOK, SentOnce, ReplayInOrder', [Next]_vars
    PROVE  SentOnce'
<1>0. Written \in Nat
  BY WrittenType
<1>1. ASSUME UNCHANGED <<kind, delivered>> PROVE SentOnce'
  BY <1>1 DEF SentOnce, NoRepeat, SharesId, Written
<1>2. CASE Write
  <2>1. PICK k \in Kinds : kind' = Append(kind, k)
    BY <1>2 DEF Write
  <2>2. Written' = Written + 1 /\ \A e \in 1..Written : kind'[e] = kind[e]
    BY <2>1, AppendProperties DEF Written, TypeOK
  <2>3. \A e \in 1..Written : IdOf(e, kind') = IdOf(e, kind)
    BY <2>2 DEF IdOf
  <2>4. \A e \in 1..Written : SharesId(e) => SharesId(e)'
    BY <1>0, <2>2, <2>3 DEF SharesId
  <2>5. \A s \in Subs : \A i \in DOMAIN delivered[s] : delivered[s][i] \in 1..Written
    BY LenProperties, ElementOfSeq DEF TypeOK
  <2>6. delivered' = delivered
    BY <1>2 DEF Write, client
  <2>7. ASSUME NEW s \in Subs PROVE NoRepeat(s)'
    BY <2>4, <2>5, <2>6 DEF SentOnce, NoRepeat
  <2> QED
    BY <2>7 DEF SentOnce
<1>3. CASE Count \/ Rotate \/ Refill \/ Push \/ LeaveMap \/ Ask \/ Answer \/ Disconnect
           \/ UNCHANGED vars
  BY <1>1, <1>3 DEF Count, Rotate, Refill, Push, LeaveMap, Ask, Answer, Disconnect, client, stream,
     vars
<1>4. ASSUME NEW s \in Subs, Subscribe(s) \/ Handle(s) PROVE SentOnce'
  <2>1. kind' = kind /\ \A t \in Subs \ {s} : delivered'[t] = delivered[t]
    BY <1>4 DEF TypeOK, client, stream, Subscribe, Handle, Register, ReadLog, Replay, CheckActive,
       Receive, Gone, CloseDone, Send
  <2>2. SUFFICES NoRepeat(s)'
    BY <2>1 DEF SentOnce, NoRepeat, SharesId, Written
  <2>3. CASE delivered'[s] = delivered[s]
    BY <2>1, <2>3 DEF SentOnce, NoRepeat, SharesId, Written
  <2>4. CASE Replay(s) /\ delivered'[s] # delivered[s]
    <3>1. sub'[s] = "replay"
      BY <2>4 DEF Replay, TypeOK
    <3>2. Increasing(delivered'[s])
      BY <3>1 DEF ReplayInOrder, SentInOrder
    <3>3. delivered'[s] \in Seq(1..Written)
      <4>1. copy[s] # <<>>
        BY <2>4 DEF Replay
      <4>2. Head(copy[s]) \in 1..Written /\ delivered[s] \in Seq(1..Written)
        BY <4>1, HeadTailProperties DEF TypeOK
      <4>3. delivered'[s] = Append(delivered[s], Head(copy[s]))
        BY <2>4, <4>1 DEF Replay, Send, TypeOK
      <4> QED
        BY <4>2, <4>3, AppendProperties
    <3>4. ASSUME NEW i \in DOMAIN delivered'[s], NEW j \in DOMAIN delivered'[s], i # j
          PROVE  delivered'[s][i] # delivered'[s][j]
      <4>1. /\ i \in Nat /\ j \in Nat
            /\ delivered'[s][i] \in Nat /\ delivered'[s][j] \in Nat
        BY <1>0, <3>3, LenProperties, ElementOfSeq
      <4> QED
        BY <3>2, <3>4, <4>1 DEF Increasing
    <3> QED
      BY <3>4 DEF NoRepeat
  <2>5. CASE Receive(s) /\ delivered'[s] # delivered[s]
    <3>0. PICK h, d : h = Head(queue[s]) /\ d = delivered[s]
      OBVIOUS
    <3>1. h \in 1..Written /\ d \in Seq(1..Written)
      BY <2>5, <3>0, HeadTailProperties DEF Receive, TypeOK
    <3>2. delivered'[s] = Append(d, h) /\ ~AlreadySent(s, h)
      BY <2>5, <3>0 DEF Receive, Send, TypeOK
    <3>3. \A i \in DOMAIN d : d[i] = h =>
              \E j \in DOMAIN d : j > i /\ IdOf(d[j], kind) = IdOf(h, kind)
      BY <3>0, <3>2 DEF AlreadySent
    <3>4. \A i, j \in DOMAIN d : i # j /\ d[i] = d[j] => SharesId(d[i])
      BY <3>0 DEF SentOnce, NoRepeat
    <3>5. ASSUME NEW i \in DOMAIN d, d[i] = h PROVE SharesId(h)
      <4>1. PICK j \in DOMAIN d : j > i /\ IdOf(d[j], kind) = IdOf(h, kind)
        BY <3>3, <3>5
      <4>2. CASE d[j] = h
        <5>1. i # j
          BY <3>1, <4>1, LenProperties
        <5> QED
          BY <3>4, <3>5, <4>2, <5>1
      <4>3. CASE d[j] # h
        BY <3>1, <4>1, <4>3, LenProperties, ElementOfSeq DEF SharesId
      <4> QED
        BY <4>2, <4>3
    <3>6. /\ DOMAIN d = 1..Len(d) /\ Len(d) \in Nat
          /\ DOMAIN delivered'[s] = 1..(Len(d) + 1)
          /\ \A i \in 1..Len(d) : delivered'[s][i] = d[i]
          /\ delivered'[s][Len(d) + 1] = h
      BY <3>1, <3>2, LenProperties, AppendProperties
    <3>7. ASSUME NEW i \in 1..(Len(d) + 1), NEW j \in 1..(Len(d) + 1), i # j,
                 delivered'[s][i] = delivered'[s][j]
          PROVE  SharesId(delivered'[s][i])
      <4>1. CASE i \in 1..Len(d) /\ j \in 1..Len(d)
        BY <3>4, <3>6, <3>7, <4>1
      <4>2. CASE i = Len(d) + 1
        <5>1. j \in 1..Len(d) /\ d[j] = h /\ delivered'[s][i] = h
          BY <3>6, <3>7, <4>2
        <5> QED
          BY <3>5, <3>6, <5>1
      <4>3. CASE j = Len(d) + 1
        <5>1. i \in 1..Len(d) /\ d[i] = h /\ delivered'[s][i] = h
          BY <3>6, <3>7, <4>3
        <5> QED
          BY <3>5, <3>6, <5>1
      <4> QED
        BY <3>6, <4>1, <4>2, <4>3
    <3> QED
      BY <2>1, <3>6, <3>7 DEF NoRepeat, SharesId, Written
  <2> QED
    BY <1>4, <2>3, <2>4, <2>5 DEF Handle, Subscribe, Register, ReadLog, CheckActive, Gone, CloseDone,
       client
<1> QED
  BY <1>2, <1>3, <1>4 DEF Next, Drive

LEMMA StepIInv ==
    ASSUME IInv, [Next]_vars
    PROVE  IInv'
<1>1. TypeOK'
  BY TypeStep DEF IInv
<1>2. LogIsCapped' /\ HalfIsKept'
  BY CapStep DEF IInv
<1>3. LinesInOrder'
  BY OrderStep DEF IInv
<1>4. ReplayInOrder'
  BY ReplayStep DEF IInv
<1>5. NoGap'
  BY GapStep DEF IInv
<1>6. SentOnce'
  BY <1>4, OnceStep DEF IInv
<1> QED
  BY <1>1, <1>2, <1>3, <1>4, <1>5, <1>6 DEF IInv

-----------------------------------------------------------------------------
(* The results.                                                            *)

\* The inductive invariant holds in every state.
THEOREM Inductive == Spec => []IInv
<1>1. Init => IInv
  BY InitIInv
<1>2. IInv /\ [Next]_vars => IInv'
  BY StepIInv
<1> QED
  BY <1>1, <1>2, PTL DEF Spec

\* Type correctness of the log and its subscriptions.
THEOREM TypeCorrect == Spec => []TypeOK
<1>1. IInv => TypeOK
  BY DEF IInv
<1> QED
  BY <1>1, Inductive, PTL

\* noteEventWritten and RotateLog: for any cap and any length of the run, the file
\* holds at most the cap, the lines an earlier process left and the one counted.
THEOREM LogStaysCapped == Spec => []LogIsCapped
<1>1. IInv => LogIsCapped
  BY DEF IInv
<1> QED
  BY <1>1, Inductive, PTL

\* handleSubscribe registers before it reads: a subscription whose channel had room
\* for every push misses no event pushed since, whatever was rotated meanwhile.
THEOREM NothingIsMissed == Spec => []NoGap
<1>1. IInv => NoGap
  BY DEF IInv
<1> QED
  BY <1>1, Inductive, PTL

\* alreadySent: an event with an id of its own reaches the connection once, from
\* the log or from the channel.
THEOREM NothingIsRepeated == Spec => []SentOnce
<1>1. IInv => SentOnce
  BY DEF IInv
<1> QED
  BY <1>1, Inductive, PTL
-----------------------------------------------------------------------------
(* The safety half of FinishEnds.                                          *)

\* The i-th event in the channel of s ends the run, and s has not sent it.
Owed(s, i) ==
    /\ sub[s] = "live" /\ i \in DOMAIN queue[s]
    /\ kind[queue[s][i]] = "finished" /\ ~InSeq(queue[s][i], delivered[s])

Nears(s, i) ==
    \/ sub'[s] = "returned"
    \/ ~up'
    \/ Owed(s, i)' /\ ~Receive(s)
    \/ Owed(s, i - 1)' /\ Receive(s)

LEMMA TailIndices ==
    ASSUME NEW n \in Nat, NEW q \in Seq(1..n), q # <<>>
    PROVE  /\ Head(q) = q[1] /\ Head(q) \in 1..n
           /\ DOMAIN Tail(q) = 1..(Len(q) - 1)
           /\ \A j \in 1..(Len(q) - 1) : Tail(q)[j] = q[j + 1]
<1>1. /\ Tail(q) \in Seq(1..n) /\ Len(Tail(q)) = Len(q) - 1 /\ Len(q) \in Nat
      /\ \A j \in 1..Len(Tail(q)) : Tail(q)[j] = q[j + 1]
      /\ Head(q) \in 1..n
  BY HeadTailProperties, LenProperties
<1>2. DOMAIN Tail(q) = 1..Len(Tail(q)) /\ Head(q) = q[1]
  BY <1>1, LenProperties
<1> QED
  BY <1>1, <1>2

LEMMA ReceiveNears ==
    ASSUME TypeOK, NEW s \in Subs, NEW i, Owed(s, i), Receive(s)
    PROVE  sub'[s] = "returned" \/ Owed(s, i - 1)'
<1> DEFINE q == queue[s]
           d == delivered[s]
           e == q[i]
<1>0. Written \in Nat /\ q \in Seq(1..Written) /\ d \in Seq(1..Written) /\ i \in 1..Len(q)
      /\ q # <<>> /\ Len(q) \in Nat
  BY WrittenType, LenProperties DEF TypeOK, Owed, Receive
<1>1. /\ Head(q) = q[1] /\ Head(q) \in 1..Written
      /\ DOMAIN Tail(q) = 1..(Len(q) - 1)
      /\ \A j \in 1..(Len(q) - 1) : Tail(q)[j] = q[j + 1]
  BY <1>0, TailIndices
<1>2. SUFFICES ASSUME sub'[s] # "returned" PROVE Owed(s, i - 1)'
  OBVIOUS
<1>3. /\ queue' = [queue EXCEPT ![s] = Tail(@)] /\ sub' = sub /\ kind' = kind
      /\ \/ AlreadySent(s, Head(q)) /\ delivered' = delivered
         \/ /\ ~AlreadySent(s, Head(q)) /\ kind[Head(q)] # "finished"
            /\ delivered' = [delivered EXCEPT ![s] = Append(@, Head(q))]
  BY <1>2 DEF TypeOK, Receive, Return, Send, stream
<1>4. Head(q) # e
  <2>1. AlreadySent(s, Head(q)) => InSeq(Head(q), d)
    BY DEF AlreadySent, InSeq
  <2> QED
    BY <1>3, <2>1 DEF Owed
<1>5. i - 1 \in 1..(Len(q) - 1) /\ (i - 1) + 1 = i
  BY <1>0, <1>1, <1>4
<1>6. queue'[s] = Tail(q) /\ queue'[s][i - 1] = e /\ i - 1 \in DOMAIN queue'[s]
  BY <1>1, <1>3, <1>5 DEF TypeOK
<1>7. ~InSeq(e, delivered'[s])
  <2>1. CASE delivered' = delivered
    BY <2>1 DEF Owed
  <2>2. CASE delivered' = [delivered EXCEPT ![s] = Append(@, Head(q))]
    <3>1. delivered'[s] = Append(d, Head(q))
      BY <2>2 DEF TypeOK
    <3>2. /\ DOMAIN Append(d, Head(q)) = 1..(Len(d) + 1) /\ DOMAIN d = 1..Len(d)
          /\ Len(d) \in Nat
          /\ Append(d, Head(q))[Len(d) + 1] = Head(q)
          /\ \A j \in 1..Len(d) : Append(d, Head(q))[j] = d[j]
      BY <1>0, <1>1, AppendProperties, LenProperties
    <3>3. ASSUME NEW j \in 1..(Len(d) + 1), Append(d, Head(q))[j] = e PROVE FALSE
      <4>1. j \in 1..Len(d)
        BY <1>4, <3>2, <3>3
      <4> QED
        BY <3>2, <3>3, <4>1 DEF Owed, InSeq
    <3> QED
      BY <3>1, <3>2, <3>3 DEF InSeq
  <2> QED
    BY <1>3, <2>1, <2>2
<1> QED
  BY <1>3, <1>6, <1>7 DEF Owed, InSeq

\* Whatever leaves s live, what it has sent and what is in its channel so far.
LEMMA OwedFrame ==
    ASSUME TypeOK, NEW s \in Subs, NEW i, Owed(s, i), sub'[s] = sub[s],
           delivered'[s] = delivered[s], i \in DOMAIN queue'[s], queue'[s][i] = queue[s][i],
           \A e \in 1..Written : kind'[e] = kind[e]
    PROVE  Owed(s, i)'
<1>1. queue[s][i] \in 1..Written
  <2>1. queue[s] \in Seq(1..Written) /\ i \in 1..Len(queue[s])
    BY LenProperties DEF TypeOK, Owed
  <2> QED
    BY <2>1, ElementOfSeq
<1> QED
  BY <1>1 DEF Owed, InSeq

\* What FinishEnds needs beside fairness: handleSubscribe cannot lose the event
\* that ends its subscription.  Once it is in the channel of a live subscription
\* that has not sent it, no step of the driver, of another subscription or of the
\* rotation takes it away; each event the subscription receives brings it one
\* place nearer, and alreadySent does not pass over it when its turn comes.
THEOREM FinishIsReached ==
    Spec => [][\A s \in Subs : \A i \in DOMAIN queue[s] : Owed(s, i) => Nears(s, i)]_vars
<1>1. ASSUME TypeOK, [Next]_vars, NEW s \in Subs, NEW i \in DOMAIN queue[s], Owed(s, i)
      PROVE  Nears(s, i)
  <2>0. Written \in Nat /\ kind \in Seq(Kinds) /\ sub[s] = "live"
        /\ DOMAIN queue[s] = 1..Len(queue[s]) /\ Len(queue[s]) \in Nat
    BY <1>1, WrittenType, LenProperties DEF TypeOK, Owed
  <2>1. CASE Receive(s)
    BY <1>1, <2>1, ReceiveNears DEF Nears
  <2>2. SUFFICES ASSUME ~Receive(s), sub'[s] # "returned", up'
                 PROVE  Owed(s, i)'
    BY <2>1 DEF Nears
  <2>3. ASSUME sub'[s] = sub[s], delivered'[s] = delivered[s], queue'[s] = queue[s], kind' = kind
        PROVE  Owed(s, i)'
    BY <1>1, <2>3, OwedFrame
  <2>4. CASE Write
    <3>1. PICK k \in Kinds : kind' = Append(kind, k)
      BY <2>4 DEF Write
    <3>2. \A e \in 1..Written : kind'[e] = kind[e]
      BY <2>0, <3>1, AppendProperties DEF Written
    <3> QED
      BY <1>1, <2>4, <3>2, OwedFrame DEF Write, client
  <2>5. CASE Push
    <3>1. queue'[s] = queue[s] \/ queue'[s] = Append(queue[s], Written)
      BY <2>5 DEF Push
    <3>2. Written \in 1..Written
      BY <1>1, <2>0, <2>5 DEF Push, TypeOK, Handling
    <3>3. i \in DOMAIN queue'[s] /\ queue'[s][i] = queue[s][i]
      <4>1. CASE queue'[s] = queue[s]
        BY <4>1
      <4>2. CASE queue'[s] = Append(queue[s], Written)
        <5>1. queue[s] \in Seq(1..Written)
          BY <1>1 DEF TypeOK
        <5>2. /\ DOMAIN Append(queue[s], Written) = 1..(Len(queue[s]) + 1)
              /\ \A j \in 1..Len(queue[s]) : Append(queue[s], Written)[j] = queue[s][j]
          BY <5>1, <2>0, <3>2, AppendProperties, LenProperties
        <5> QED
          BY <2>0, <4>2, <5>2
      <4> QED
        BY <3>1, <4>1, <4>2
    <3> QED
      BY <1>1, <2>5, <3>3, OwedFrame DEF Push
  <2>6. CASE Count \/ Rotate \/ Refill \/ LeaveMap \/ Ask \/ Answer \/ Disconnect
    BY <2>3, <2>6 DEF Count, Rotate, Refill, LeaveMap, Ask, Answer, Disconnect, client, stream
  <2>7. ASSUME NEW t \in Subs, Subscribe(t) \/ CloseDone(t) PROVE Owed(s, i)'
    <3>1. sub'[s] = sub[s]
      BY <1>1, <2>0, <2>7 DEF TypeOK, Subscribe, CloseDone
    <3> QED
      BY <2>3, <2>7, <3>1 DEF Subscribe, CloseDone, stream, client
  <2>8. ASSUME NEW t \in Subs, Register(t) \/ Replay(t) PROVE Owed(s, i)'
    <3>1. t # s
      BY <2>0, <2>8 DEF Register, Replay
    <3> QED
      BY <1>1, <2>3, <2>8, <3>1 DEF TypeOK, Register, Replay, Send, stream
  <2>9. ASSUME NEW t \in Subs, ReadLog(t) \/ CheckActive(t) \/ Gone(t) PROVE Owed(s, i)'
    <3>1. t # s
      BY <1>1, <2>0, <2>2, <2>9 DEF ReadLog, CheckActive, Gone, Return, TypeOK
    <3> QED
      BY <1>1, <2>3, <2>9, <3>1 DEF TypeOK, ReadLog, CheckActive, Gone, Return, stream
  <2>10. ASSUME NEW t \in Subs, Receive(t) PROVE Owed(s, i)'
    <3>1. t # s
      BY <2>2, <2>10
    <3> QED
      BY <1>1, <2>3, <2>10, <3>1 DEF TypeOK, Receive, Return, Send, stream
  <2>11. CASE UNCHANGED vars
    BY <2>3, <2>11 DEF vars, stream, client
  <2> QED
    BY <1>1, <2>4, <2>5, <2>6, <2>7, <2>8, <2>9, <2>10, <2>11 DEF Next, Drive, Handle
<1>2. TypeOK /\ [Next]_vars
        => (\A s \in Subs : \A i \in DOMAIN queue[s] : Owed(s, i) => Nears(s, i))
  BY <1>1
<1> QED
  BY <1>2, TypeCorrect, PTL DEF Spec
=============================================================================
