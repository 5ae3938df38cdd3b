-------------------------- MODULE Checkpoints_proofs --------------------------
(***************************************************************************)
(* Proofs about the checkpoint store.  A prune decides from what it reads  *)
(* and removes later.  What it decides about, a save that is complete and  *)
(* that enough saves sort behind, is still true when it removes, because   *)
(* the clock only moves forward: a name that is saved again sorts behind   *)
(* whatever its old content sorted behind.  The exception is the name that *)
(* is itself saved again in between (raced).                               *)
(***************************************************************************)
EXTENDS Checkpoints, FiniteSetTheorems, WellFoundedInduction, TLAPS

-----------------------------------------------------------------------------
(* Types.                                                                    *)

LEMMA TypeInit == Init => TypeOK
BY StoreAssumption DEF Init, TypeOK, Blank, NoNames, Times, Labels, Actors, Names

LEMMA LifeType == ASSUME TypeOK, NEW r \in Runs, Life(r) PROVE TypeOK'
<1>0. r \in Actors /\ Gc \notin Runs /\ MaxRev \in Nat  BY StoreAssumption DEF Actors
<1>1. CASE Begin(r)
  BY <1>0, <1>1, StoreAssumption DEF Begin, TypeOK, Goto, Labels, disk, prune, gc, seen
<1>2. CASE Resume(r)
  <2>1. PICK c \in Candidates(r) : rev' = [rev EXCEPT ![r] = c.rev]  BY <1>2 DEF Resume
  <2>2. c.rev \in 0..MaxRev  BY <1>0, <2>1 DEF Candidates, Revs
  <2>3. rev' \in [Runs -> 0..MaxRev]  BY <2>1, <2>2 DEF TypeOK
  <2>4. lives' \in 0..MaxLives /\ art' \subseteq Runs /\ pc' \in [Actors -> Labels]
    BY <1>0, <1>2, StoreAssumption DEF Resume, TypeOK, Goto, Labels
  <2> QED  BY <1>2, <2>3, <2>4 DEF Resume, TypeOK, disk, prune, gc, seen
<1>3. CASE Save(r)
  <2>1. PICK t \in Instants : now' = t /\ tmps' = [tmps EXCEPT ![r][rev[r] + 1] = t]
    BY <1>3 DEF Save
  <2>2. now' \in Times /\ tmps' \in [Runs -> [Revs -> Times]]
    BY <2>1 DEF TypeOK, Times
  <2>3. rev' \in [Runs -> 0..MaxRev] /\ pc' \in [Actors -> Labels]
    BY <1>0, <1>3 DEF Save, TypeOK, Goto, Labels
  <2> QED  BY <1>3, <2>2, <2>3 DEF Save, TypeOK, prune, gc, seen
<1>4. CASE SaveFails(r)
  <2> DEFINE cut == [tmps EXCEPT ![r][rev[r] + 1] = Absent]
  <2>0. tmps' \in {tmps, cut}  BY <1>4 DEF SaveFails
  <2>1. tmps' = tmps \/ tmps' = cut  BY <2>0, Zenon
  <2>4. tmps \in [Runs -> [Revs -> Times]] /\ cut \in [Runs -> [Revs -> Times]]
    BY DEF TypeOK, Times
  <2> HIDE DEF cut
  <2>3. tmps' \in [Runs -> [Revs -> Times]]  BY <2>1, <2>4
  <2>2. rev' \in [Runs -> 0..MaxRev] /\ faults' \in 0..MaxFaults
    BY <1>0, <1>4, StoreAssumption DEF SaveFails, TypeOK
  <2> QED  BY <1>4, <2>2, <2>3 DEF SaveFails, TypeOK, prune, gc, seen
<1>5. CASE Publish(r)
  <2> DEFINE t == tmps[r][rev[r]]
  <2>1. files' = [files EXCEPT ![r][rev[r]] = t] /\ saved' = [saved EXCEPT ![r][rev[r]] = t]
        /\ tmps' = [tmps EXCEPT ![r][rev[r]] = Absent]
    BY <1>5 DEF Publish
  <2>2. files' \in [Runs -> [Revs -> Times]] /\ saved' \in [Runs -> [Revs -> Times]]
    <3>1. CASE rev[r] \in Revs  BY <2>1, <3>1 DEF TypeOK
    <3>2. CASE rev[r] \notin Revs  BY <2>1, <3>2 DEF TypeOK
    <3> QED  BY <3>1, <3>2
  <2>3. tmps' \in [Runs -> [Revs -> Times]]  BY <2>1 DEF TypeOK, Times
  <2>4. raced' \subseteq Names
    <3>1. CASE <<r, rev[r]>> \in Names
      BY <1>5, <3>1 DEF Publish, TypeOK
    <3>2. CASE <<r, rev[r]>> \notin Names
      BY <1>5, <3>2 DEF Publish, TypeOK
    <3> QED  BY <3>1, <3>2
  <2>5. excused' \subseteq Runs /\ pc' \in [Actors -> Labels]
    BY <1>0, <1>5 DEF Publish, TypeOK, Goto, Labels
  <2> QED  BY <1>5, <2>2, <2>3, <2>4, <2>5 DEF Publish, TypeOK, prune, gc
<1>6. CASE PublishFails(r)
  BY <1>0, <1>6, StoreAssumption DEF PublishFails, TypeOK, Goto, Labels, disk, prune, gc, seen
<1>7. CASE Stop(r)
  BY <1>0, <1>7 DEF Stop, TypeOK, Goto, Labels, disk, prune, gc, seen
<1>8. CASE Park(r)
  BY <1>0, <1>8 DEF Park, TypeOK, Goto, Labels, disk, prune, gc, seen
<1>9. CASE Answer(r)
  BY <1>0, <1>9 DEF Answer, TypeOK, Goto, Labels, disk, prune, gc, seen
<1> QED
  BY <1>1, <1>2, <1>3, <1>4, <1>5, <1>6, <1>7, <1>8, <1>9 DEF Life

LEMMA PruneType == ASSUME TypeOK, NEW a \in Actors, Prune(a) PROVE TypeOK'
<1>1. CASE List(a)
  <2>1. [r \in Runs |-> IF r \in Near(a) THEN Present(r) ELSE {}] \in [Runs -> SUBSET Revs]
    BY DEF Present
  <2>2. listed' \in [Actors -> [Runs -> SUBSET Revs]]  BY <1>1, <2>1 DEF List, TypeOK
  <2> QED  BY <1>1, <2>2 DEF List, TypeOK, Goto, Labels, disk, gc, seen
<1>2. CASE Sort(a)
  <2>0. PICK r \in Runs : \E d \in SUBSET listed[a][r] :
          /\ doomed' = [doomed EXCEPT ![a] = {r} \X d]
          /\ listed' = [listed EXCEPT ![a][r] = {}]
    BY <1>2 DEF Sort
  <2>1. PICK d \in SUBSET listed[a][r] :
          /\ doomed' = [doomed EXCEPT ![a] = {r} \X d]
          /\ listed' = [listed EXCEPT ![a][r] = {}]
    BY <2>0
  <2>2. {r} \X d \subseteq Names  BY <2>1 DEF TypeOK, Names
  <2>3. doomed' \in [Actors -> SUBSET Names]  BY <2>1, <2>2 DEF TypeOK
  <2>4. listed' \in [Actors -> [Runs -> SUBSET Revs]]  BY <2>1 DEF TypeOK
  <2> QED  BY <1>2, <2>3, <2>4 DEF Sort, TypeOK, Goto, Labels, disk, gc, seen
<1>3. CASE Remove(a)
  <2>1. PICK n \in doomed[a] :
          /\ files' = [files EXCEPT ![n[1]][n[2]] = Absent]
          /\ doomed' = [doomed EXCEPT ![a] = @ \ {n}]
          /\ pc' = [pc EXCEPT ![a] = IF doomed[a] = {n} THEN "sort" ELSE "remove"]
    BY <1>3 DEF Remove, Goto
  <2>2. files' \in [Runs -> [Revs -> Times]]  BY <2>1 DEF TypeOK, Times, Names
  <2>3. doomed' \in [Actors -> SUBSET Names] /\ pc' \in [Actors -> Labels]
    BY <2>1 DEF TypeOK, Labels
  <2> QED  BY <1>3, <2>2, <2>3 DEF Remove, TypeOK, gc, seen
<1>4. CASE Pruned(a)
  <2>1. listed' \in [Actors -> [Runs -> SUBSET Revs]]  BY <1>4 DEF Pruned, TypeOK, NoNames
  <2>2. pc' \in [Actors -> Labels]  BY <1>4 DEF Pruned, TypeOK, Goto, Labels
  <2> QED  BY <1>4, <2>1, <2>2 DEF Pruned, TypeOK, disk, gc, seen
<1> QED  BY <1>1, <1>2, <1>3, <1>4 DEF Prune

GcStep == GcStart \/ Look \/ Scan \/ GcDone \/ \E r \in Runs : Collect(r)

LEMMA GcType == TypeOK /\ GcStep => TypeOK'
<1> SUFFICES ASSUME TypeOK, GcStep PROVE TypeOK'  OBVIOUS
<1>0. Gc \in Actors  BY DEF Actors
<1>1. CASE GcStart
  BY <1>0, <1>1, StoreAssumption DEF GcStart, TypeOK, Goto, Labels, disk, prune, seen
<1>2. CASE Scan
  <2>1. [r \in Runs |-> {}] \in [Runs -> SUBSET Revs]  OBVIOUS
  <2>2. listed' \in [Actors -> [Runs -> SUBSET Revs]]  BY <1>2, <2>1 DEF Scan, TypeOK, NoNames
  <2> QED  BY <1>0, <1>2, <2>2 DEF Scan, TypeOK, Goto, Labels, disk
<1>5. CASE Look
  <2>1. [r \in Runs |-> IF r \in Near(Gc) THEN Present(r) ELSE {}] \in [Runs -> SUBSET Revs]
    BY DEF Present
  <2>2. listed' \in [Actors -> [Runs -> SUBSET Revs]]  BY <1>5, <2>1 DEF Look, TypeOK
  <2> QED  BY <1>0, <1>5, <2>2 DEF Look, TypeOK, Goto, Labels, disk, gc, seen
<1>3. CASE GcDone
  BY <1>0, <1>3 DEF GcDone, TypeOK, Goto, Labels, disk, prune, gc, seen
<1>4. ASSUME NEW r \in Runs, Collect(r) PROVE TypeOK'
  BY <1>4 DEF Collect, TypeOK, disk, prune, seen
<1> QED  BY <1>1, <1>2, <1>3, <1>4, <1>5 DEF GcStep

LEMMA CrashType == ASSUME TypeOK, NEW a \in Actors, Crash(a) PROVE TypeOK'
<1>1. pc' \in [Actors -> Labels] /\ rev' \in [Runs -> 0..MaxRev]
  BY StoreAssumption DEF Crash, TypeOK, Labels
<1>2. listed' \in [Actors -> [Runs -> SUBSET Revs]] /\ doomed' \in [Actors -> SUBSET Names]
  BY DEF Crash, TypeOK, NoNames
<1>3. tmps' \in [Runs -> [Revs -> Times]]  BY DEF Crash, TypeOK, Times
<1>4. targets' \subseteq Runs /\ faults' \in 0..MaxFaults
  BY StoreAssumption DEF Crash, TypeOK
<1> QED  BY <1>1, <1>2, <1>3, <1>4 DEF Crash, TypeOK, seen

LEMMA Cases ==
    ASSUME [Next]_vars
    PROVE  \/ \E r \in Runs : Life(r)
           \/ \E a \in Actors : Prune(a)
           \/ GcStep
           \/ \E a \in Actors : Crash(a)
           \/ UNCHANGED vars
BY DEF Next, GcStep

LEMMA TypeStep == TypeOK /\ [Next]_vars => TypeOK'
<1>1. ASSUME TypeOK, UNCHANGED vars PROVE TypeOK'
  BY <1>1 DEF vars, TypeOK
<1> QED  BY <1>1, Cases, LifeType, PruneType, GcType, CrashType

\* Type correctness of the store, for any runs, clock and number of faults.
THEOREM TypeCorrect == Spec => []TypeOK
BY TypeInit, TypeStep, PTL DEF Spec
-----------------------------------------------------------------------------
(* The inductive invariant.                                                  *)

\* The clock has passed whatever was written.
Clocked ==
    \A r \in Runs, v \in Revs : ~Before(now, saved[r][v]) /\ ~Before(now, tmps[r][v])

\* A save under way is newer than all completed saves of its run.
Pending ==
    \A r \in Runs : pc[r] = "save" =>
       /\ rev[r] \in Revs /\ tmps[r][rev[r]] \in Instants
       /\ \A w \in Revs : Before(saved[r][w], tmps[r][rev[r]])

\* No two completed saves of a run have one creation time.
Apart ==
    \A r \in Runs : \A v, w \in Complete(r) : saved[r][v] = saved[r][w] => v = w

\* What is there is what was saved last under the name.
Held ==
    \A r \in Runs : \A v \in Revs : files[r][v] # Absent => files[r][v] = saved[r][v]

\* Whoever is to be removed may be.
Spare(r, v) == Surplus(r, v) \/ <<r, v>> \in raced
Meant ==
    \A a \in Actors :
       /\ \A r \in Runs : listed[a][r] \subseteq Complete(r)
       /\ \A r \in Runs : \A v \in Revs :
             <<r, v>> \in doomed[a] => v \in Complete(r) /\ Spare(r, v)

\* What gc holds for an orphan is one, or may be taken for one.
Scanned ==
    Keep > 1 => \A r \in targets \cap Near(Gc) : Complete(r) = {} \/ r \in excused

IInv == TypeOK /\ Clocked /\ Pending /\ Apart /\ Held /\ Meant /\ NewestStay /\ Scanned
-----------------------------------------------------------------------------
(* Instants: what is later sorts behind, except the whole second.            *)

LEMMA Clock == Instants \subseteq Times /\ Absent \in Times /\ Absent \notin Instants
BY DEF Instants, Times, Absent

LEMMA TimeFields ==
    \A t \in Times : t.sec \in Nat /\ t.frac \in Nat /\ t = [sec |-> t.sec, frac |-> t.frac]
                   /\ t.sec <= MaxSec /\ t.frac <= MaxFrac
                   /\ (t # Absent <=> t.sec # 0) /\ (t = Absent => t.frac = 0)
BY StoreAssumption DEF Times, Instants, Absent

LEMMA TextTotal ==
    ASSUME NEW t \in Times, NEW u \in Times, t # u, ~TextBefore(u, t)
    PROVE  TextBefore(t, u)
BY TimeFields DEF TextBefore

LEMMA TextFollows ==
    ASSUME NEW t \in Times, NEW u \in Times, NEW n \in Times,
           TextBefore(t, u), Before(t, n), Before(u, n)
    PROVE  TextBefore(t, n)
BY TimeFields DEF TextBefore, Before

LEMMA AbsentFirst == \A t \in Times : t # Absent => TextBefore(Absent, t)
BY TimeFields DEF TextBefore, Absent

LEMMA BeforeOrder ==
    ASSUME NEW t \in Times, NEW u \in Times, NEW n \in Times
    PROVE  /\ ~Before(n, t) /\ Before(n, u) => Before(t, u)
           /\ ~Before(n, t) /\ Before(n, u) => ~Before(u, t)
           /\ ~Before(t, t) /\ ~Before(n, Absent)
           /\ Before(t, u) => t # u
           /\ ~Before(t, u) /\ ~Before(u, t) => t = u
BY TimeFields DEF Before, Absent

\* Only the whole second of its own second sorts behind the newest.
LEMMA Behind ==
    ASSUME NEW t \in Times, NEW u \in Times, TextBefore(t, u), ~Before(t, u)
    PROVE  u.sec = t.sec /\ u.frac = 0
BY TimeFields DEF TextBefore, Before

-----------------------------------------------------------------------------
(* The newest save.                                                          *)

LEMMA Least ==
    ASSUME NEW S, S \subseteq Nat, S # {}
    PROVE  \E n \in S : \A m \in S : n <= m
<1> DEFINE R == {ss \in Nat \X Nat : ss[1] < ss[2]}
<1>1. IsWellFoundedOn(R, Nat)  BY NatLessThanWellFounded DEF OpToRel
<1> HIDE DEF R
<1>2. PICK n \in S : \A m \in S : ~(<<m, n>> \in R)  BY <1>1, WFMin
<1>3. ASSUME NEW m \in S PROVE n <= m
  <2>1. ~(<<m, n>> \in R) /\ m \in Nat /\ n \in Nat  BY <1>2
  <2>2. ~(m < n)  BY <2>1 DEF R
  <2> QED  BY <2>1, <2>2
<1> QED  BY <1>3

LEMMA NewestExists ==
    ASSUME TypeOK, NEW r \in Runs, Complete(r) # {}
    PROVE  \E v \in Revs : Newest(r, v)
<1> DEFINE C == Complete(r)
           at(v) == saved[r][v]
           Secs == {MaxSec - at(v).sec : v \in C}
<1>0. C \subseteq Revs /\ C # {}  BY DEF Complete
<1>1. \A v \in C : at(v) \in Times  BY <1>0 DEF TypeOK
<1>2. \A v \in C : at(v).sec \in Nat /\ at(v).frac \in Nat /\ at(v).sec <= MaxSec /\ at(v).frac <= MaxFrac
  BY <1>1, TimeFields
<1>3. MaxSec \in Nat /\ MaxFrac \in Nat  BY StoreAssumption
<1> HIDE DEF C, at
<1>4. Secs \subseteq Nat /\ Secs # {}  BY <1>0, <1>2, <1>3
<1>5. PICK s \in Secs : \A m \in Secs : s <= m  BY <1>4, Least
<1> DEFINE Last == {v \in C : MaxSec - at(v).sec = s}
           Fracs == {MaxFrac - at(v).frac : v \in Last}
<1>6. Fracs \subseteq Nat /\ Fracs # {}  BY <1>2, <1>3, <1>5
<1>7. PICK f \in Fracs : \A m \in Fracs : f <= m  BY <1>6, Least
<1>8. PICK v \in Last : f = MaxFrac - at(v).frac  BY <1>7
<1>9. ASSUME NEW w \in C PROVE ~Before(at(v), at(w))
  <2>1. v \in C /\ s = MaxSec - at(v).sec  BY <1>8
  <2>2. s <= MaxSec - at(w).sec  BY <1>5
  <2>3. at(w).sec <= at(v).sec  BY <1>2, <1>3, <2>1, <2>2
  <2>4. ASSUME at(w).sec = at(v).sec PROVE at(w).frac <= at(v).frac
    <3>1. w \in Last  BY <2>1, <2>4
    <3>2. f <= MaxFrac - at(w).frac  BY <1>7, <3>1
    <3> QED  BY <1>2, <1>3, <1>8, <2>1, <3>2
  <2> QED  BY <1>2, <2>1, <2>3, <2>4 DEF Before
<1> QED  BY <1>0, <1>8, <1>9 DEF Newest, C, at

LEMMA RevsFinite == IsFiniteSet(Revs) /\ \A S \in SUBSET Revs : IsFiniteSet(S) /\ Cardinality(S) \in Nat
<1>1. IsFiniteSet(Revs)  BY StoreAssumption, FS_Interval DEF Revs
<1> QED  BY <1>1, FS_Subset, FS_CardinalityType

\* At most one save sorts behind the newest.
LEMMA NewestIsSpared ==
    ASSUME TypeOK, Apart, Keep > 1, NEW r \in Runs, NEW v \in Revs, Newest(r, v)
    PROVE  ~Surplus(r, v)
<1> DEFINE B == {w \in Revs : TextBefore(saved[r][v], saved[r][w])}
<1>0. \A w \in Revs : saved[r][w] \in Times  BY DEF TypeOK
<1>1. v \in Complete(r) /\ saved[r][v] # Absent  BY DEF Newest, Complete
<1>2. ASSUME NEW w \in B
      PROVE  w \in Complete(r) /\ saved[r][w] = [sec |-> saved[r][v].sec, frac |-> 0]
  <2>1. saved[r][w] # Absent  BY <1>0, <1>1, TimeFields, StoreAssumption DEF TextBefore
  <2>2. w \in Complete(r)  BY <2>1 DEF Complete
  <2>3. ~Before(saved[r][v], saved[r][w])  BY <2>2 DEF Newest
  <2>4. saved[r][w].sec = saved[r][v].sec /\ saved[r][w].frac = 0  BY <1>0, <2>3, Behind
  <2> QED  BY <1>0, <2>2, <2>4, TimeFields
<1>3. \A w, x \in B : w = x  BY <1>2 DEF Apart
<1> HIDE DEF B
<1>4. Cardinality(B) <= 1
  <2>1. CASE B = {}  BY <2>1, FS_EmptySet
  <2>2. CASE B # {}
    <3>1. PICK w : B = {w}  BY <1>3, <2>2
    <3> QED  BY <3>1, FS_Singleton
  <2> QED  BY <2>1, <2>2
<1>5. Cardinality(B) \in Nat
  <2>1. B \in SUBSET Revs  BY DEF B
  <2> QED  BY <2>1, RevsFinite
<1> QED  BY <1>4, <1>5, StoreAssumption DEF Surplus, B

-----------------------------------------------------------------------------
(* The steps.                                                                *)

Claims == Clocked /\ Pending /\ Apart /\ Held /\ Meant /\ NewestStay /\ Scanned

LEMMA InitClaims == Init => Claims
<1> SUFFICES ASSUME Init PROVE Claims  OBVIOUS
<1>1. \A r \in Runs, v \in Revs : saved[r][v] = Absent /\ tmps[r][v] = Absent /\ files[r][v] = Absent
  BY DEF Init, Blank
<1>2. \A r \in Runs : Complete(r) = {}  BY <1>1 DEF Complete
<1>3. \A a \in Actors : doomed[a] = {} /\ \A r \in Runs : listed[a][r] = {}
  BY DEF Init, NoNames
<1>4. \A r \in Runs : pc[r] # "save"  BY DEF Init, Actors
<1>5. Clocked  BY <1>1 DEF Clocked, Before, Init, Absent
<1>6. Pending /\ Apart /\ Held /\ Meant /\ NewestStay
  BY <1>1, <1>2, <1>3, <1>4 DEF Pending, Apart, Held, Meant, NewestStay
<1>7. Scanned  BY DEF Scanned, Init
<1> QED  BY <1>5, <1>6, <1>7 DEF Claims

\* Steps that complete no save and remove nothing.
LEMMA Frame ==
    ASSUME TypeOK, TypeOK', Claims,
           UNCHANGED <<files, now, saved, raced, excused>>,
           \A r \in Runs, v \in Revs : tmps'[r][v] \in {tmps[r][v], Absent},
           \A r \in Runs : pc'[r] = "save" =>
              pc[r] = "save" /\ rev'[r] = rev[r] /\ tmps'[r][rev[r]] = tmps[r][rev[r]],
           \A a \in Actors : /\ doomed'[a] \subseteq doomed[a]
                             /\ \A r \in Runs : listed'[a][r] \subseteq listed[a][r],
           targets' \subseteq targets
    PROVE  Claims'
<1>1. \A r \in Runs : Complete(r)' = Complete(r)  BY DEF Complete
<1>2. \A r \in Runs, v \in Revs : Surplus(r, v)' <=> Surplus(r, v)  BY DEF Surplus
<1>3. Clocked'
  <2>1. ASSUME NEW r \in Runs, NEW v \in Revs
        PROVE  ~Before(now, saved[r][v]) /\ ~Before(now, tmps'[r][v])
    <3>1. ~Before(now, saved[r][v]) /\ ~Before(now, tmps[r][v])  BY DEF Claims, Clocked
    <3>2. now \in Times  BY DEF TypeOK
    <3>3. ~Before(now, Absent)  BY <3>2, Clock, BeforeOrder
    <3> QED  BY <3>1, <3>3
  <2> QED  BY <2>1 DEF Clocked, Before
<1>4. Pending'  BY DEF Claims, Pending, Before
<1>5. Apart'  BY <1>1 DEF Claims, Apart
<1>6. Held'  BY DEF Claims, Held
<1>7. Meant'  BY <1>1, <1>2 DEF Claims, Meant, Spare
<1>8. NewestStay'  BY <1>1, <1>2 DEF Claims, NewestStay, Complete
<1>9. Scanned'  BY <1>1 DEF Claims, Scanned, Near
<1> QED  BY <1>3, <1>4, <1>5, <1>6, <1>7, <1>8, <1>9 DEF Claims

LEMMA SaveClaims == ASSUME TypeOK, TypeOK', Claims, NEW r \in Runs, Save(r) PROVE Claims'
<1>1. PICK t \in Instants :
        Before(now, t) /\ now' = t /\ tmps' = [tmps EXCEPT ![r][rev[r] + 1] = t]
  BY DEF Save
<1>2. /\ UNCHANGED <<files, saved, raced, excused, listed, doomed, targets>>
      /\ rev' = [rev EXCEPT ![r] = @ + 1] /\ pc' = [pc EXCEPT ![r] = "save"]
  BY DEF Save, Goto, prune, gc, seen
<1>3. \A q \in Runs : Complete(q)' = Complete(q)  BY <1>2 DEF Complete
<1>4. \A q \in Runs, v \in Revs : Surplus(q, v)' <=> Surplus(q, v)  BY <1>2 DEF Surplus
<1>5. rev[r] + 1 \in Revs  BY DEF Save, TypeOK, Revs
<1>6. t \in Times /\ now \in Times  BY <1>1, Clock DEF TypeOK
<1>7. \A q \in Runs, v \in Revs :
        saved[q][v] \in Times /\ tmps[q][v] \in Times /\ ~Before(now, saved[q][v]) /\ ~Before(now, tmps[q][v])
  BY DEF Claims, Clocked, TypeOK
<1>8. \A u \in Times : ~Before(now, u) => Before(u, t) /\ ~Before(t, u)
  BY <1>1, <1>6, BeforeOrder
<1>9. Clocked'
  <2>1. ASSUME NEW q \in Runs, NEW v \in Revs
        PROVE  ~Before(t, saved[q][v]) /\ ~Before(t, tmps'[q][v])
    <3>1. tmps'[q][v] = tmps[q][v] \/ tmps'[q][v] = t  BY <1>1 DEF TypeOK
    <3>2. ~Before(t, t)  BY <1>6, BeforeOrder
    <3> QED  BY <1>7, <1>8, <3>1, <3>2
  <2> QED  BY <1>1, <1>2, <2>1 DEF Clocked, Before
<1>10. Pending'
  <2>1. ASSUME NEW q \in Runs, pc'[q] = "save"
        PROVE  /\ rev'[q] \in Revs /\ tmps'[q][rev'[q]] \in Instants
               /\ \A w \in Revs : Before(saved[q][w], tmps'[q][rev'[q]])
    <3>1. CASE q = r
      <4>1. rev'[q] = rev[r] + 1 /\ tmps'[q][rev'[q]] = t
        BY <1>1, <1>2, <1>5, <3>1 DEF TypeOK
      <4> QED  BY <1>1, <1>5, <1>7, <1>8, <3>1, <4>1
    <3>2. CASE q # r
      <4>1. rev'[q] = rev[q] /\ tmps'[q] = tmps[q] /\ pc[q] = "save"
        BY <1>1, <1>2, <2>1, <3>2 DEF TypeOK, Actors
      <4> QED  BY <4>1 DEF Claims, Pending
    <3> QED  BY <3>1, <3>2
  <2> QED  BY <1>2, <2>1 DEF Pending, Before
<1>11. Apart' /\ Held'  BY <1>2, <1>3 DEF Claims, Apart, Held
<1>12. Meant'  BY <1>2, <1>3, <1>4 DEF Claims, Meant, Spare
<1>13. NewestStay'  BY <1>2, <1>3, <1>4 DEF Claims, NewestStay, Complete
<1>14. Scanned'  BY <1>2, <1>3 DEF Claims, Scanned, Near
<1> QED  BY <1>9, <1>10, <1>11, <1>12, <1>13, <1>14 DEF Claims

\* A save that completes sorts behind whatever its file's old content sorted
\* behind, so that what was surplus stays so.
LEMMA PublishClaims == ASSUME TypeOK, TypeOK', Claims, NEW r \in Runs, Publish(r) PROVE Claims'
<1> DEFINE x == rev[r]
           t == tmps[r][x]
<1>1. /\ pc[r] = "save" /\ pc' = [pc EXCEPT ![r] = "run"]
      /\ files' = [files EXCEPT ![r][x] = t] /\ saved' = [saved EXCEPT ![r][x] = t]
      /\ tmps' = [tmps EXCEPT ![r][x] = Absent]
      /\ UNCHANGED <<now, rev, listed, doomed, targets>>
  BY DEF Publish, Goto, prune, gc
<1>2. x \in Revs /\ t \in Instants /\ \A w \in Revs : Before(saved[r][w], t)
  BY <1>1 DEF Claims, Pending
<1>3. t \in Times /\ t # Absent  BY <1>2, Clock
<1>4. \A q \in Runs, v \in Revs :
        /\ saved[q][v] \in Times /\ tmps[q][v] \in Times /\ files[q][v] \in Times
        /\ saved'[q][v] = IF q = r /\ v = x THEN t ELSE saved[q][v]
        /\ files'[q][v] = IF q = r /\ v = x THEN t ELSE files[q][v]
        /\ tmps'[q][v] = IF q = r /\ v = x THEN Absent ELSE tmps[q][v]
  BY <1>1, <1>2 DEF TypeOK
<1> HIDE DEF x, t
<1>5. \A q \in Runs, v \in Revs : v \in Complete(q)' <=> v \in Complete(q) \/ (q = r /\ v = x)
  BY <1>3, <1>4 DEF Complete
<1>6. \A q \in Runs, v \in Revs : (q # r \/ v # x) /\ Surplus(q, v) => Surplus(q, v)'
  <2> SUFFICES ASSUME NEW q \in Runs, NEW v \in Revs, q # r \/ v # x, Surplus(q, v)
               PROVE  Surplus(q, v)'
    OBVIOUS
  <2> DEFINE A == {w \in Revs : TextBefore(saved[q][v], saved[q][w])}
             B == {w \in Revs : TextBefore(saved'[q][v], saved'[q][w])}
  <2>1. ASSUME NEW w \in A PROVE w \in B
    <3>1. w \in Revs /\ TextBefore(saved[q][v], saved[q][w]) /\ saved'[q][v] = saved[q][v]
      BY <1>4
    <3>2. CASE q = r /\ w = x
      <4>1. TextBefore(saved[q][v], t)
        BY <1>2, <1>3, <1>4, <3>1, <3>2, TextFollows
      <4> QED  BY <1>4, <3>1, <3>2, <4>1
    <3>3. CASE ~(q = r /\ w = x)  BY <1>4, <3>1, <3>3
    <3> QED  BY <3>2, <3>3
  <2>2. A \subseteq B /\ B \in SUBSET Revs  BY <2>1
  <2>3. Cardinality(A) >= Keep  BY DEF Surplus
  <2> HIDE DEF A, B
  <2>4. Cardinality(A) <= Cardinality(B) /\ Cardinality(A) \in Nat /\ Cardinality(B) \in Nat
    BY <2>2, RevsFinite, FS_Subset
  <2>5. Cardinality(B) >= Keep  BY <2>3, <2>4, StoreAssumption
  <2> QED  BY <2>5 DEF Surplus, TextBefore, B
<1>7. \A q \in Runs, v \in Revs : (q # r \/ v # x) => (<<q, v>> \in raced' <=> <<q, v>> \in raced)
  BY DEF Publish, x
<1>8. (\E a \in Actors : <<r, x>> \in doomed[a]) => <<r, x>> \in raced'
  BY DEF Publish, x
<1>9. Clocked'
  <2>1. now \in Times /\ ~Before(now, t) /\ ~Before(now, Absent)
    <3>1. now \in Times  BY DEF TypeOK
    <3>2. ~Before(now, t)  BY <1>2 DEF Claims, Clocked, t
    <3> QED  BY <3>1, <3>2, Clock, BeforeOrder
  <2>2. ASSUME NEW q \in Runs, NEW v \in Revs
        PROVE  ~Before(now, saved'[q][v]) /\ ~Before(now, tmps'[q][v])
    BY <1>4, <2>1 DEF Claims, Clocked
  <2> QED  BY <1>1, <2>2 DEF Clocked, Before
<1>10. Pending'
  <2>1. ASSUME NEW q \in Runs, pc'[q] = "save"
        PROVE  /\ rev[q] \in Revs /\ tmps'[q][rev[q]] \in Instants
               /\ \A w \in Revs : Before(saved'[q][w], tmps'[q][rev[q]])
    <3>1. q # r /\ pc[q] = "save"  BY <1>1, <2>1 DEF TypeOK, Actors
    <3> QED  BY <1>4, <3>1 DEF Claims, Pending
  <2> QED  BY <1>1, <2>1 DEF Pending, Before
<1>11. Apart'
  <2>1. ASSUME NEW q \in Runs, NEW v \in Revs, NEW w \in Revs, v \in Complete(q)', w \in Complete(q)',
               saved'[q][v] = saved'[q][w]
        PROVE  v = w
    <3>1. \A y \in Revs : saved[r][y] # t  BY <1>2, <1>3, <1>4, BeforeOrder
    <3>2. CASE q = r /\ (v = x \/ w = x)  BY <1>4, <2>1, <3>1, <3>2
    <3>3. CASE ~(q = r /\ (v = x \/ w = x))
      <4>1. v \in Complete(q) /\ w \in Complete(q)  BY <1>5, <2>1, <3>3
      <4> QED  BY <1>4, <2>1, <3>3, <4>1 DEF Claims, Apart
    <3> QED  BY <3>2, <3>3
  <2>2. \A q \in Runs : Complete(q)' \subseteq Revs  BY DEF Complete
  <2> QED  BY <2>1, <2>2 DEF Apart
<1>12. Held'  BY <1>4 DEF Claims, Held
<1>13. Meant'
  <2>1. ASSUME NEW a \in Actors, NEW q \in Runs
        PROVE  listed'[a][q] \subseteq Complete(q)'
    BY <1>1, <1>5 DEF Claims, Meant, Complete
  <2>2. ASSUME NEW a \in Actors, NEW q \in Runs, NEW v \in Revs, <<q, v>> \in doomed'[a]
        PROVE  v \in Complete(q)' /\ (Surplus(q, v)' \/ <<q, v>> \in raced')
    <3>1. v \in Complete(q) /\ (Surplus(q, v) \/ <<q, v>> \in raced)
      BY <1>1, <2>2 DEF Claims, Meant, Spare
    <3>2. CASE q = r /\ v = x  BY <1>1, <1>5, <1>8, <2>2, <3>2
    <3>3. CASE ~(q = r /\ v = x)  BY <1>5, <1>6, <1>7, <3>1, <3>3
    <3> QED  BY <3>2, <3>3
  <2> QED  BY <2>1, <2>2 DEF Meant, Spare
<1>14. NewestStay'
  <2>1. ASSUME NEW q \in Runs, NEW v \in Revs, v \in Complete(q)'
        PROVE  files'[q][v] = saved'[q][v] \/ Surplus(q, v)' \/ <<q, v>> \in raced'
    <3>1. CASE q = r /\ v = x  BY <1>4, <3>1
    <3>2. CASE ~(q = r /\ v = x)
      <4>1. v \in Complete(q)  BY <1>5, <2>1, <3>2
      <4> QED  BY <1>4, <1>6, <1>7, <3>2, <4>1 DEF Claims, NewestStay
    <3> QED  BY <3>1, <3>2
  <2>2. \A q \in Runs : Complete(q)' \subseteq Revs  BY DEF Complete
  <2> QED  BY <2>1, <2>2 DEF NewestStay
<1>15. Scanned'
  <2>1. excused' = IF Complete(r) = {} THEN excused \cup {r} ELSE excused
    BY DEF Publish
  <2>2. ASSUME NEW q \in targets \cap Near(Gc), Keep > 1
        PROVE  Complete(q)' = {} \/ q \in excused'
    <3>1. q \in Runs /\ (Complete(q) = {} \/ q \in excused)
      BY <2>2 DEF Claims, Scanned, TypeOK
    <3>2. q # r => Complete(q)' = Complete(q)
      BY <1>5, <3>1 DEF Complete
    <3> QED  BY <2>1, <3>1, <3>2
  <2> QED  BY <1>1, <2>2 DEF Scanned, Near
<1> QED  BY <1>9, <1>10, <1>11, <1>12, <1>13, <1>14, <1>15 DEF Claims

LEMMA ListClaims ==
    ASSUME TypeOK, TypeOK', Claims, NEW a \in Actors, List(a) \/ (a = Gc /\ Look)
    PROVE  Claims'
<1>1. /\ UNCHANGED <<files, tmps, now, saved, raced, excused, rev, doomed, targets>>
      /\ \E l \in {"sort", "read"} : pc' = [pc EXCEPT ![a] = l]
      /\ listed' = [listed EXCEPT ![a] = [r \in Runs |-> IF r \in Near(a) THEN Present(r) ELSE {}]]
  BY DEF List, Look, Goto, disk, gc, seen
<1>2. \A r \in Runs : Complete(r)' = Complete(r)  BY <1>1 DEF Complete
<1>3. \A r \in Runs, v \in Revs : Surplus(r, v)' <=> Surplus(r, v)  BY <1>1 DEF Surplus
<1>4. \A r \in Runs : Present(r) \subseteq Complete(r)
  BY DEF Claims, Held, Present, Complete
<1>5. \A b \in Actors, r \in Runs : listed'[b][r] \subseteq Complete(r)
  BY <1>1, <1>4 DEF Claims, Meant, TypeOK
<1>6. Meant'  BY <1>1, <1>2, <1>3, <1>5 DEF Claims, Meant, Spare
<1>7. Clocked'  BY <1>1 DEF Claims, Clocked, Before
<1>8. Pending'  BY <1>1 DEF Claims, Pending, Before, TypeOK
<1>9. Apart' /\ Held'  BY <1>1, <1>2 DEF Claims, Apart, Held
<1>10. NewestStay'  BY <1>1, <1>2, <1>3 DEF Claims, NewestStay, Complete
<1>11. Scanned'  BY <1>1, <1>2 DEF Claims, Scanned, Near
<1> QED  BY <1>6, <1>7, <1>8, <1>9, <1>10, <1>11 DEF Claims

\* Whatever a prune picks is spare: the names it leaves are as many as it keeps,
\* and sort behind.
LEMMA OldestAreSpare ==
    ASSUME TypeOK, Claims, NEW r \in Runs, NEW names, names \subseteq Complete(r),
           NEW d, Oldest(r, names, d), NEW v \in d
    PROVE  v \in Complete(r) /\ Spare(r, v)
<1>0. Complete(r) \subseteq Revs  BY DEF Complete
<1>1. v \in names /\ v \in Complete(r) /\ v \in Revs /\ names \subseteq Revs /\ d \subseteq names
  BY <1>0 DEF Oldest
<1>2. saved[r][v] # Absent /\ saved[r][v] \in Times  BY <1>1 DEF Complete, TypeOK
<1>3. CASE files[r][v] = Absent
  BY <1>1, <1>2, <1>3 DEF Claims, NewestStay, Spare
<1>4. CASE files[r][v] # Absent
  <2> DEFINE B == {w \in Revs : TextBefore(saved[r][v], saved[r][w])}
  <2>1. files[r][v] = saved[r][v]  BY <1>1, <1>4 DEF Claims, Held
  <2>2. ASSUME NEW w \in names \ d PROVE w \in B
    <3>1. w \in Revs /\ w \in Complete(r) /\ w # v  BY <1>1, <2>2
    <3>2. saved[r][w] \in Times /\ files[r][w] \in Times  BY <3>1 DEF TypeOK
    <3>3. ~TextBefore(files[r][w], saved[r][v])  BY <2>1 DEF Oldest
    <3>4. files[r][w] # Absent  BY <1>2, <3>3, AbsentFirst
    <3>5. files[r][w] = saved[r][w]  BY <3>1, <3>4 DEF Claims, Held
    <3>6. saved[r][w] # saved[r][v]  BY <1>1, <3>1 DEF Claims, Apart
    <3>7. TextBefore(saved[r][v], saved[r][w])  BY <1>2, <3>2, <3>3, <3>5, <3>6, TextTotal
    <3> QED  BY <3>1, <3>7
  <2>3. names \ d \subseteq B /\ B \in SUBSET Revs  BY <2>2
  <2> HIDE DEF B
  <2>4. /\ Cardinality(names \ d) <= Cardinality(B) /\ Cardinality(B) \in Nat
        /\ Cardinality(names \ d) \in Nat
    BY <2>3, RevsFinite, FS_Subset
  <2>5. Cardinality(names \ d) = Keep
    <3>1. IsFiniteSet(names) /\ Cardinality(names) \in Nat /\ Cardinality(d) \in Nat
      BY <1>1, RevsFinite
    <3>2. names \cap d = d  BY <1>1
    <3>3. Cardinality(names \ d) = Cardinality(names) - Cardinality(d)
      BY <3>1, <3>2, FS_Difference
    <3>4. Cardinality(d) = Cardinality(names) - Keep  BY DEF Oldest
    <3> QED  BY <3>1, <3>3, <3>4, StoreAssumption
  <2>6. Cardinality(B) >= Keep  BY <2>4, <2>5, StoreAssumption
  <2> QED  BY <1>1, <2>6 DEF B, Surplus, Spare
<1> QED  BY <1>3, <1>4

LEMMA SortClaims == ASSUME TypeOK, TypeOK', Claims, NEW a \in Actors, Sort(a) PROVE Claims'
<1>0. PICK r \in Runs : \E d \in SUBSET listed[a][r] :
        /\ Oldest(r, listed[a][r], d)
        /\ doomed' = [doomed EXCEPT ![a] = {r} \X d]
        /\ listed' = [listed EXCEPT ![a][r] = {}]
  BY DEF Sort
<1>1. PICK d \in SUBSET listed[a][r] :
        /\ Oldest(r, listed[a][r], d)
        /\ doomed' = [doomed EXCEPT ![a] = {r} \X d]
        /\ listed' = [listed EXCEPT ![a][r] = {}]
  BY <1>0
<1>2. /\ UNCHANGED <<files, tmps, now, saved, raced, excused, rev, targets>>
      /\ pc' = [pc EXCEPT ![a] = "remove"]
  BY DEF Sort, Goto, disk, gc, seen
<1>3. \A q \in Runs : Complete(q)' = Complete(q)  BY <1>2 DEF Complete
<1>4. \A q \in Runs, v \in Revs : Surplus(q, v)' <=> Surplus(q, v)  BY <1>2 DEF Surplus
<1>5. listed[a][r] \subseteq Complete(r)  BY DEF Claims, Meant
<1>6. \A v \in d : v \in Complete(r) /\ Spare(r, v)
  BY <1>1, <1>5, OldestAreSpare
<1>7. ASSUME NEW b \in Actors, NEW q \in Runs, NEW v \in Revs, <<q, v>> \in doomed'[b]
      PROVE  v \in Complete(q) /\ Spare(q, v)
  <2>1. CASE b = a
    <3>1. q = r /\ v \in d  BY <1>1, <1>7, <2>1 DEF TypeOK
    <3> QED  BY <1>6, <3>1
  <2>2. CASE b # a
    <3>1. <<q, v>> \in doomed[b]  BY <1>1, <1>7, <2>2 DEF TypeOK
    <3> QED  BY <3>1 DEF Claims, Meant
  <2> QED  BY <2>1, <2>2
<1>8. ASSUME NEW b \in Actors, NEW q \in Runs PROVE listed'[b][q] \subseteq Complete(q)
  <2>1. listed'[b][q] \subseteq listed[b][q]  BY <1>1 DEF TypeOK
  <2> QED  BY <2>1 DEF Claims, Meant
<1>9. Meant'  BY <1>2, <1>3, <1>4, <1>7, <1>8 DEF Meant, Spare
<1>10. Clocked'  BY <1>2 DEF Claims, Clocked, Before
<1>11. Pending'  BY <1>2 DEF Claims, Pending, Before, TypeOK
<1>12. Apart' /\ Held'  BY <1>2, <1>3 DEF Claims, Apart, Held
<1>13. NewestStay'  BY <1>2, <1>3, <1>4 DEF Claims, NewestStay, Complete
<1>14. Scanned'  BY <1>2, <1>3 DEF Claims, Scanned, Near
<1> QED  BY <1>9, <1>10, <1>11, <1>12, <1>13, <1>14 DEF Claims

LEMMA RemoveClaims == ASSUME TypeOK, TypeOK', Claims, NEW a \in Actors, Remove(a) PROVE Claims'
<1>1. PICK n \in doomed[a] :
        /\ files' = [files EXCEPT ![n[1]][n[2]] = Absent]
        /\ doomed' = [doomed EXCEPT ![a] = @ \ {n}]
  BY DEF Remove
<1>2. /\ UNCHANGED <<tmps, now, saved, raced, excused, rev, listed, targets>>
      /\ \E l \in {"sort", "remove"} : pc' = [pc EXCEPT ![a] = l]
  BY DEF Remove, Goto, gc, seen
<1>3. \A q \in Runs : Complete(q)' = Complete(q)  BY <1>2 DEF Complete
<1>4. \A q \in Runs, v \in Revs : Surplus(q, v)' <=> Surplus(q, v)  BY <1>2 DEF Surplus
<1>5. n[1] \in Runs /\ n[2] \in Revs /\ n = <<n[1], n[2]>>  BY <1>1 DEF TypeOK, Names
<1>6. \A q \in Runs, v \in Revs :
        files'[q][v] = IF <<q, v>> = n THEN Absent ELSE files[q][v]
  BY <1>1, <1>5 DEF TypeOK
<1>7. n[2] \in Complete(n[1]) /\ Spare(n[1], n[2])  BY <1>1, <1>5 DEF Claims, Meant
<1>8. NewestStay'
  <2>1. ASSUME NEW q \in Runs, NEW v \in Revs, v \in Complete(q)
        PROVE  files'[q][v] = saved[q][v] \/ Spare(q, v)
    BY <1>5, <1>6, <1>7, <2>1 DEF Claims, NewestStay, Spare
  <2>2. \A q \in Runs : Complete(q) \subseteq Revs  BY DEF Complete
  <2> QED  BY <1>2, <1>3, <1>4, <2>1, <2>2 DEF NewestStay, Spare
<1>9. Held'  BY <1>2, <1>6 DEF Claims, Held
<1>10. \A b \in Actors : doomed'[b] \subseteq doomed[b]  BY <1>1 DEF TypeOK
<1>11. Meant'  BY <1>2, <1>3, <1>4, <1>10 DEF Claims, Meant, Spare
<1>12. Clocked'  BY <1>2 DEF Claims, Clocked, Before
<1>13. Pending'
  <2>1. \A q \in Runs : pc'[q] = "save" => pc[q] = "save"  BY <1>2 DEF TypeOK, Actors
  <2> QED  BY <1>2, <2>1 DEF Claims, Pending, Before
<1>14. Apart'  BY <1>2, <1>3 DEF Claims, Apart
<1>15. Scanned'  BY <1>2, <1>3 DEF Claims, Scanned, Near
<1> QED  BY <1>8, <1>9, <1>11, <1>12, <1>13, <1>14, <1>15 DEF Claims

LEMMA PruneClaims == ASSUME TypeOK, TypeOK', Claims, NEW a \in Actors, Prune(a) PROVE Claims'
<1>1. CASE Pruned(a)
  <2>1. /\ UNCHANGED <<files, tmps, now, saved, raced, excused, rev, doomed, targets>>
        /\ listed' = [listed EXCEPT ![a] = NoNames]
        /\ \E l \in {"scan", "idle", "parked"} : pc' = [pc EXCEPT ![a] = l]
    BY <1>1 DEF Pruned, Goto, disk, gc, seen
  <2>2. \A r \in Runs : pc'[r] = "save" => pc[r] = "save"  BY <2>1 DEF TypeOK, Actors
  <2>3. \A b \in Actors, r \in Runs : listed'[b][r] \subseteq listed[b][r]
    BY <2>1 DEF TypeOK, NoNames
  <2> QED  BY <2>1, <2>2, <2>3, Frame
<1> QED  BY <1>1, ListClaims, SortClaims, RemoveClaims DEF Prune

\* The steps of a life that only move it.
Moves(r) == Begin(r) \/ Resume(r) \/ SaveFails(r) \/ PublishFails(r) \/ Stop(r) \/ Park(r) \/ Answer(r)

LEMMA LifeClaims == ASSUME TypeOK, TypeOK', Claims, NEW r \in Runs, Life(r) PROVE Claims'
<1>1. ASSUME Moves(r) PROVE Claims'
  <2>1. UNCHANGED <<files, now, saved, raced, excused, listed, doomed, targets>>
    BY <1>1 DEF Moves, Begin, Resume, SaveFails, PublishFails, Stop, Park, Answer,
                disk, prune, gc, seen
  <2>2. /\ \A q \in Runs : pc'[q] = "save" => pc[q] = "save" /\ q # r
        /\ \A q \in Runs : q # r => rev'[q] = rev[q]
    <3>1. CASE SaveFails(r)
      <4>1. pc' = pc /\ pc[r] = "run" /\ rev' = [rev EXCEPT ![r] = @ + 1]
        BY <3>1 DEF SaveFails
      <4> QED  BY <4>1 DEF TypeOK
    <3>2. CASE PublishFails(r) \/ Park(r) \/ Answer(r)
      <4>1. rev' = rev /\ \E l \in {"run", "list"} : pc' = [pc EXCEPT ![r] = l]
        BY <3>2 DEF PublishFails, Park, Answer, Goto
      <4> QED  BY <4>1 DEF TypeOK, Actors
    <3>3. CASE Begin(r) \/ Resume(r) \/ Stop(r)
      <4>1. (\E l \in {"run", "list"} : pc' = [pc EXCEPT ![r] = l])
            /\ \E v : rev' = [rev EXCEPT ![r] = v]
        BY <3>3 DEF Begin, Resume, Stop, Goto
      <4> QED  BY <4>1 DEF TypeOK, Actors
    <3> QED  BY <1>1, <3>1, <3>2, <3>3 DEF Moves
  <2>3. \A q \in Runs : /\ q # r => tmps'[q] = tmps[q]
                        /\ \A v \in Revs : tmps'[q][v] \in {tmps[q][v], Absent}
    <3>1. CASE SaveFails(r)
      <4> DEFINE cut == [tmps EXCEPT ![r][rev[r] + 1] = Absent]
      <4>0. tmps' \in {tmps, cut}  BY <3>1 DEF SaveFails
      <4>1. tmps' = tmps \/ tmps' = cut  BY <4>0, Zenon
      <4>2. \A q \in Runs : /\ q # r => cut[q] = tmps[q]
                            /\ \A v \in Revs : cut[q][v] \in {tmps[q][v], Absent}
        BY DEF TypeOK
      <4> HIDE DEF cut
      <4> QED  BY <4>1, <4>2
    <3>2. CASE ~SaveFails(r)
      <4>1. tmps' = tmps
        BY <1>1, <3>2 DEF Moves, Begin, Resume, PublishFails, Stop, Park, Answer, disk
      <4> QED  BY <4>1
    <3> QED  BY <3>1, <3>2
  <2> QED  BY <2>1, <2>2, <2>3, Frame
<1> QED  BY <1>1, SaveClaims, PublishClaims DEF Life, Moves

\* A run that gc finds no checkpoint of has completed no save, or was unlucky.
LEMMA GcClaims == TypeOK /\ TypeOK' /\ Claims /\ GcStep => Claims'
<1> SUFFICES ASSUME TypeOK, TypeOK', Claims, GcStep PROVE Claims'  OBVIOUS
<1>0. Gc \notin Runs  BY StoreAssumption
<1>1. CASE GcStart \/ GcDone
  <2>1. /\ UNCHANGED <<files, tmps, now, saved, raced, excused, rev, listed, doomed, targets>>
        /\ \E l \in {"list", "idle"} : pc' = [pc EXCEPT ![Gc] = l]
    BY <1>1 DEF GcStart, GcDone, Goto, disk, prune, gc, seen
  <2>2. \A r \in Runs : pc'[r] = pc[r]  BY <1>0, <2>1 DEF TypeOK
  <2> QED  BY <2>1, <2>2, Frame
<1>2. ASSUME NEW r \in Runs, Collect(r) PROVE Claims'
  <2>1. /\ UNCHANGED <<files, tmps, now, saved, raced, excused, rev, listed, doomed, pc>>
        /\ targets' \subseteq targets
    BY <1>2 DEF Collect, disk, prune, seen
  <2> QED  BY <2>1, Frame
<1>3. CASE Scan
  <2>1. /\ UNCHANGED <<files, tmps, now, saved, raced, rev, doomed>>
        /\ targets' = {r \in art : ~Live(r)}
        /\ excused' = {r \in Runs : Unlucky(r)}
        /\ listed' = [listed EXCEPT ![Gc] = NoNames]
        /\ pc' = [pc EXCEPT ![Gc] = "collect"]
    BY <1>3 DEF Scan, Goto, disk
  <2>2. \A r \in Runs : pc'[r] = pc[r]  BY <1>0, <2>1 DEF TypeOK
  <2>3. \A r \in Runs : Complete(r)' = Complete(r)  BY <2>1 DEF Complete
  <2>4. \A r \in Runs, v \in Revs : Surplus(r, v)' <=> Surplus(r, v)  BY <2>1 DEF Surplus
  <2>5. ASSUME Keep > 1, NEW r \in targets' \cap Near(Gc)
        PROVE  Complete(r) = {} \/ r \in excused'
    <3>1. r \in Runs /\ ~Live(r)  BY <2>1, <2>5 DEF Near
    <3>2. ASSUME Complete(r) # {} PROVE Unlucky(r)
      <4>1. PICK v \in Revs : Newest(r, v)  BY <3>1, <3>2, NewestExists
      <4>2. CASE files[r][v] = Absent
        <5>1. ~Surplus(r, v)  BY <2>5, <3>1, <4>1, NewestIsSpared DEF Claims
        <5>2. v \in Complete(r) /\ files[r][v] # saved[r][v]  BY <4>1, <4>2 DEF Newest, Complete
        <5>3. <<r, v>> \in raced  BY <3>1, <5>1, <5>2 DEF Claims, NewestStay
        <5> QED  BY <4>1, <5>3 DEF Unlucky
      <4>3. CASE files[r][v] # Absent
        <5>1. v \notin listed[Gc][r]  BY <3>1, <4>1, <4>3 DEF Live, Present
        <5> QED  BY <4>1, <5>1 DEF Unlucky
      <4> QED  BY <4>2, <4>3
    <3> QED  BY <2>1, <3>1, <3>2
  <2>6. Scanned'  BY <2>3, <2>5 DEF Scanned, Near
  <2>7. Clocked' /\ Pending'  BY <2>1, <2>2 DEF Claims, Clocked, Pending, Before
  <2>8. Apart' /\ Held'  BY <2>1, <2>3 DEF Claims, Apart, Held
  <2>11. \A a \in Actors, r \in Runs : listed'[a][r] \subseteq listed[a][r]
    BY <2>1 DEF TypeOK, NoNames
  <2>9. Meant'  BY <2>1, <2>3, <2>4, <2>11 DEF Claims, Meant, Spare
  <2>10. NewestStay'  BY <2>1, <2>3, <2>4 DEF Claims, NewestStay, Complete
  <2> QED  BY <2>6, <2>7, <2>8, <2>9, <2>10 DEF Claims
<1> QED  BY <1>0, <1>1, <1>2, <1>3, ListClaims DEF GcStep, Actors

LEMMA CrashClaims == ASSUME TypeOK, TypeOK', Claims, NEW a \in Actors, Crash(a) PROVE Claims'
<1>1. UNCHANGED <<files, now, saved, raced, excused>>  BY DEF Crash, seen
<1>2. targets' \subseteq targets  BY DEF Crash
<1>3. \A b \in Actors : /\ doomed'[b] \subseteq doomed[b]
                        /\ \A r \in Runs : listed'[b][r] \subseteq listed[b][r]
  BY DEF Crash, NoNames
<1>4. \A r \in Runs : pc'[r] = "save" => pc[r] = "save" /\ r \notin Dies(a) /\ rev'[r] = rev[r]
  BY DEF Crash, Actors
<1>5. /\ \A r \in Runs, v \in Revs : tmps'[r][v] \in {tmps[r][v], Absent}
      /\ \A r \in Runs : r \notin Dies(a) => \A v \in Revs : tmps'[r][v] = tmps[r][v]
  <2> DEFINE cut == [r \in Runs |-> [v \in Revs |->
          IF r \in Dies(a) /\ pc[r] = "save" /\ v = rev[r] THEN Absent ELSE tmps[r][v]]]
  <2>1. tmps' \in {tmps, cut}  BY DEF Crash
  <2>2. tmps' = tmps \/ tmps' = cut  BY <2>1, Zenon
  <2>3. /\ \A r \in Runs, v \in Revs : cut[r][v] \in {tmps[r][v], Absent}
        /\ \A r \in Runs : r \notin Dies(a) => \A v \in Revs : cut[r][v] = tmps[r][v]
    OBVIOUS
  <2> HIDE DEF cut
  <2> QED  BY <2>2, <2>3
<1>6. \A r \in Runs : pc'[r] = "save" => tmps'[r][rev[r]] = tmps[r][rev[r]]
  BY <1>4, <1>5 DEF Claims, Pending
<1> QED  BY <1>1, <1>2, <1>3, <1>4, <1>5, <1>6, Frame

LEMMA Step == IInv /\ [Next]_vars => IInv'
<1> SUFFICES ASSUME TypeOK, Claims, [Next]_vars PROVE TypeOK' /\ Claims'
  BY DEF IInv, Claims
<1>1. TypeOK'  BY TypeStep
<1>2. ASSUME UNCHANGED vars PROVE Claims'
  <2>1. UNCHANGED <<files, tmps, now, saved, raced, excused, rev, pc, listed, doomed, targets>>
    BY <1>2 DEF vars
  <2> QED  BY <1>1, <2>1, Frame
<1> QED  BY <1>1, <1>2, Cases, LifeClaims, PruneClaims, GcClaims, CrashClaims

\* What prunes have doomed is spare, what is there is what was saved last, and the
\* clock has passed it all, whatever the order of saves, prunes and crashes.
THEOREM Inductive == Spec => []IInv
<1>1. Init => IInv  BY TypeInit, InitClaims DEF IInv, Claims
<1> QED  BY <1>1, Step, PTL DEF Spec

\* A completed save goes only when as many sort behind it as are kept, or when it
\* raced a prune for its name.
THEOREM NewestKept == Spec => []NewestStay
<1>1. IInv => NewestStay  BY DEF IInv
<1> QED  BY <1>1, Inductive, PTL

\* Latest finds the newest completed save, or what sorts like it.
THEOREM LatestStaysFresh == Spec => []LatestIsFresh
<1>1. IInv => LatestIsFresh
  <2> SUFFICES ASSUME IInv, Keep > 1, NEW r \in Runs, NEW v \in Revs, Newest(r, v),
                      <<r, v>> \notin raced
               PROVE  /\ Candidates(r) # {}
                      /\ \A c \in Candidates(r) : IsLatest(r, c) =>
                            \/ ~Before(c.at, saved[r][v])
                            \/ c.at.sec = saved[r][v].sec /\ c.at.frac = 0
    BY DEF LatestIsFresh
  <2>1. v \in Complete(r) /\ saved[r][v] # Absent /\ saved[r][v] \in Times
    BY DEF Newest, Complete, IInv, TypeOK
  <2>2. ~Surplus(r, v)  BY NewestIsSpared DEF IInv
  <2>3. files[r][v] = saved[r][v]  BY <2>1, <2>2 DEF IInv, NewestStay
  <2> DEFINE d == [rev |-> v, at |-> files[r][v]]
  <2>4. d \in Candidates(r) /\ d.at = saved[r][v]  BY <2>1, <2>3 DEF Candidates
  <2>5. ASSUME NEW c \in Candidates(r), IsLatest(r, c)
        PROVE  ~Before(c.at, saved[r][v]) \/ (c.at.sec = saved[r][v].sec /\ c.at.frac = 0)
    <3>1. c.at \in Times  BY DEF Candidates, IInv, TypeOK
    <3>2. ~TextBefore(c.at, saved[r][v])  BY <2>4, <2>5 DEF IsLatest
    <3> QED  BY <2>1, <3>1, <3>2, TimeFields DEF Before, TextBefore
  <2> QED  BY <2>4, <2>5
<1> QED  BY <1>1, Inductive, PTL

\* gc takes the files of a run of its directory only when that had no completed
\* save, or had lost its newest to a race.
THEOREM OrphansAreAll == Spec => OrphansOnly
<1> DEFINE A == Keep > 1 =>
          \A r \in Near(Gc) : r \in art \ art' => Complete(r) = {} \/ r \in excused
<1>1. IInv /\ [Next]_vars => [A]_vars
  <2> SUFFICES ASSUME IInv, Next, Keep > 1, NEW r \in Near(Gc), r \in art, r \notin art'
               PROVE  Complete(r) = {} \/ r \in excused
    OBVIOUS
  <2>1. ASSUME NEW q \in Runs, Collect(q) PROVE Complete(r) = {} \/ r \in excused
    <3>1. r = q /\ r \in targets  BY <2>1 DEF Collect
    <3> QED  BY <3>1 DEF IInv, Scanned
  <2>2. ASSUME NEW q \in Runs, Life(q) PROVE FALSE
    BY <2>2 DEF Life, Begin, Resume, Save, SaveFails, Publish, PublishFails, Stop, Park, Answer
  <2>3. ASSUME NEW a \in Actors, Prune(a) \/ Crash(a) PROVE FALSE
    BY <2>3 DEF Prune, List, Sort, Remove, Pruned, Crash
  <2>4. CASE GcStart \/ Look \/ Scan \/ GcDone  BY <2>4 DEF GcStart, Look, Scan, GcDone
  <2> QED  BY <2>1, <2>2, <2>3, <2>4 DEF Next
<1>2. [][A]_vars <=> OrphansOnly  BY PTL DEF OrphansOnly
<1> QED  BY <1>1, <1>2, Inductive, PTL DEF Spec
=============================================================================
