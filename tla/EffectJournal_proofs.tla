----------------------- MODULE EffectJournal_proofs -----------------------
(***************************************************************************)
(* Proofs about the effect journal, for every queue, every assignment of   *)
(* effect ids and tool kinds, any number of runs over one store and any    *)
(* number of crashes and resumes: type correctness and the progress of     *)
(* each run without a condition; what the journal promises under the       *)
(* condition that saves do not overlap (Serial), and that an applied       *)
(* effect stays so if it also has one owner (Owned).  Both hold of a run   *)
(* that is alone.                                                          *)
(***************************************************************************)
EXTENDS EffectJournalSerial, TLAPS

-----------------------------------------------------------------------------
(* Facts about the data.                                                   *)

\* A run inside the bracket has a current call with a known id.
LEMMA CurrentCall ==
    ASSUME NEW r \in Runs, HasCall(r)
    PROVE  /\ Cur(r) \in Calls
           /\ CurId(r) \in Ids
           /\ PolicyFor(Cur(r)) \in Policies
<1>1. Queue[r] \in Seq(Calls)
  BY JournalAssumption
<1>2. Cur(r) \in Calls
  BY <1>1 DEF HasCall, Cur
<1>3. CurId(r) \in Ids
  BY <1>2, JournalAssumption DEF CurId
<1>4. PolicyFor(Cur(r)) \in Policies
  BY <1>2, JournalAssumption DEF PolicyFor, Policies, Kinds
<1> QED
  BY <1>2, <1>3, <1>4

\* What running the tool once does to the set of hit effects: k is 1 when the
\* call took effect.
LEMMA HitStep ==
    ASSUME applied \in [Calls -> Nat], NEW c \in Calls, NEW k \in {0, 1},
           applied' = [applied EXCEPT ![c] = @ + k]
    PROVE  /\ \A i \in Ids : Hit(i) => Hit(i)'
           /\ \A i \in Ids : Hit(i)' => Hit(i) \/ i = EffectId[c]
           /\ k = 1 => Hit(EffectId[c])'
           /\ \A i \in Ids : HitTwice(i)' =>
                 HitTwice(i) \/ (i = EffectId[c] /\ Hit(i))
<1>1. \A d \in Calls : /\ applied[d] \in Nat /\ applied'[d] \in Nat
                       /\ applied'[d] = IF d = c THEN applied[d] + k ELSE applied[d]
  OBVIOUS
<1>2. \A d \in Calls : applied'[d] > 0 => applied[d] > 0 \/ d = c
  BY <1>1
<1>3. \A d \in Calls : applied[d] > 0 => applied'[d] > 0
  BY <1>1
<1>4. k = 1 => applied'[c] > 0
  BY <1>1
<1>5. \A d \in Calls : applied'[d] > 1 => applied[d] > 1 \/ (d = c /\ applied[d] > 0)
  BY <1>1
<1>6. \A i \in Ids : HitTwice(i)' => HitTwice(i) \/ (i = EffectId[c] /\ Hit(i))
  BY <1>2, <1>5 DEF Hit, HitTwice
<1> QED
  BY <1>2, <1>3, <1>4, <1>6 DEF Hit

\* The two ways a run edits the copy of the journal it loaded.
LEMMA CopyType ==
    ASSUME disk \in Journals, NEW i \in Ids,
           NEW s \in Statuses, NEW p \in Policies
    PROVE  /\ [disk EXCEPT ![i] = [status |-> s, policy |-> p]] \in Journals
           /\ [disk EXCEPT ![i].status = s] \in Journals
           /\ Empty \in Journals
  BY DEF Journals, Entry, Empty, NoEntry, Statuses, Policies

-----------------------------------------------------------------------------
(* Type correctness, for any number of runs.                               *)

\* Whoever is inside the bracket has a current call.
InCall == \A r \in Runs :
    pc[r] \in {"writeIntent", "renameIntent", "execute",
               "outcome", "writeOutcome", "renameOutcome"} => HasCall(r)

\* A save that does not come through leaves a temporary file of some journal.
LEMMA TornType ==
    ASSUME TypeOK, NEW r \in Runs, Torn(r)
    PROVE  tmp' \in SUBSET Journals /\ disk' \in Journals
<1>1. Empty \in Journals /\ local[r] \in Journals
  BY DEF TypeOK, Journals, Entry, Empty, NoEntry, Statuses, Policies
<1> QED
  BY <1>1 DEF TypeOK, Torn

LEMMA TypeInit == Init => TypeOK
<1> SUFFICES ASSUME Init PROVE TypeOK
  OBVIOUS
<1>1. Empty \in Journals
  BY DEF Journals, Entry, Empty, NoEntry, Statuses, Policies
<1> QED
  BY <1>1, JournalAssumption DEF Init, TypeOK, Locations

LEMMA TypeStep == TypeOK /\ InCall /\ [Next]_vars => TypeOK'
<1> SUFFICES ASSUME TypeOK, InCall, [Next]_vars PROVE TypeOK'
  OBVIOUS
<1> USE DEF TypeOK, Goto, NextCall, AfterOutcome, OutcomeLost, files, Publish
<1>1. ASSUME NEW r \in Runs, IntentNew(r) PROVE TypeOK'
  <2>1. PolicyFor(Cur(r)) \in Policies /\ CurId(r) \in Ids
    BY <1>1, CurrentCall DEF IntentNew
  <2>2. local'[r] \in Journals
    BY <1>1, <2>1, CopyType DEF IntentNew, Statuses
  <2> QED
    BY <1>1, <2>2 DEF IntentNew, Locations
<1>2. ASSUME NEW r \in Runs, IntentGoAhead(r) PROVE TypeOK'
  BY <1>2 DEF IntentGoAhead, Locations
<1>3. ASSUME NEW r \in Runs, IntentSkip(r) PROVE TypeOK'
  BY <1>3 DEF IntentSkip, Locations
<1>4. ASSUME NEW r \in Runs, IntentRefuse(r) PROVE TypeOK'
  BY <1>4 DEF IntentRefuse, Locations
<1>5. ASSUME NEW r \in Runs, WriteIntent(r) PROVE TypeOK'
  <2>1. tmp' \in SUBSET Journals /\ disk' \in Journals
    BY <1>5, TornType DEF WriteIntent
  <2> QED
    BY <1>5, <2>1 DEF WriteIntent, Locations
<1>6. ASSUME NEW r \in Runs, RenameIntent(r) PROVE TypeOK'
  BY <1>6 DEF RenameIntent, Locations
<1>7. ASSUME NEW r \in Runs, ToolApplies(r) PROVE TypeOK'
  <2>1. Cur(r) \in Calls
    BY <1>7, CurrentCall DEF ToolApplies, InCall
  <2>2. applied' \in [Calls -> Nat]
    BY <1>7, <2>1 DEF ToolApplies
  <2> QED
    BY <1>7, <2>2 DEF ToolApplies, Locations
<1>8. ASSUME NEW r \in Runs, ToolFails(r) PROVE TypeOK'
  BY <1>8 DEF ToolFails, Locations
<1>9. ASSUME NEW r \in Runs, TransportFails(r) PROVE TypeOK'
  <2>1. Cur(r) \in Calls
    BY <1>9, CurrentCall DEF TransportFails, InCall
  <2>2. PICK k \in {0, 1} : applied' = [applied EXCEPT ![Cur(r)] = @ + k]
    BY <1>9 DEF TransportFails
  <2>3. applied' \in [Calls -> Nat]
    BY <2>1, <2>2
  <2> QED
    BY <1>9, <2>3 DEF TransportFails, Locations
<1>10. ASSUME NEW r \in Runs, OutcomeKnown(r) PROVE TypeOK'
  <2>1. CurId(r) \in Ids /\ outcome[r] \in Statuses
    BY <1>10, CurrentCall DEF OutcomeKnown, InCall, Statuses
  <2>2. local'[r] \in Journals
    BY <1>10, <2>1, CopyType DEF OutcomeKnown, Policies
  <2> QED
    BY <1>10, <2>2 DEF OutcomeKnown, Locations
<1>11. ASSUME NEW r \in Runs, OutcomeUnknown(r) PROVE TypeOK'
  <2>1. CurId(r) \in Ids
    BY <1>11, CurrentCall DEF OutcomeUnknown, InCall
  <2> QED
    BY <1>11, <2>1 DEF OutcomeUnknown, Locations
<1>12. ASSUME NEW r \in Runs, WriteOutcome(r) PROVE TypeOK'
  <2>1. CurId(r) \in Ids
    BY <1>12, CurrentCall DEF WriteOutcome, InCall
  <2>2. tmp' \in SUBSET Journals /\ disk' \in Journals
    BY <1>12, TornType DEF WriteOutcome
  <2>3. unrecorded' \in SUBSET Ids
    BY <1>12, <2>1 DEF WriteOutcome
  <2> QED
    BY <1>12, <2>2, <2>3 DEF WriteOutcome, Locations
<1>13. ASSUME NEW r \in Runs, RenameOutcome(r) PROVE TypeOK'
  <2>1. CurId(r) \in Ids
    BY <1>13, CurrentCall DEF RenameOutcome, InCall
  <2>2. unrecorded' \in SUBSET Ids
    BY <1>13, <2>1 DEF RenameOutcome
  <2> QED
    BY <1>13, <2>2 DEF RenameOutcome, Locations
<1>14. ASSUME NEW r \in Runs, QueueDone(r) PROVE TypeOK'
  BY <1>14 DEF QueueDone, Locations
<1>15. ASSUME NEW r \in Runs, Crash(r) PROVE TypeOK'
  <2>1. tmp' \in SUBSET Journals /\ disk' \in Journals
    BY <1>15, TornType DEF Crash
  <2> QED
    BY <1>15, <2>1 DEF Crash, Locations
<1>16. ASSUME NEW r \in Runs, Resume(r) PROVE TypeOK'
  BY <1>16, JournalAssumption DEF Resume, Locations
<1>17. CASE UNCHANGED vars
  BY <1>17 DEF vars
<1> QED
  BY <1>1, <1>2, <1>3, <1>4, <1>5, <1>6, <1>7, <1>8, <1>9, <1>10, <1>11,
     <1>12, <1>13, <1>14, <1>15, <1>16, <1>17 DEF Next, Advance

\* A run stays inside the bracket of the call it entered it for.
LEMMA InCallStep == TypeOK /\ InCall /\ [Next]_vars => InCall'
<1> SUFFICES ASSUME TypeOK, InCall, [Next]_vars PROVE InCall'
  OBVIOUS
<1> DEFINE Inside == {"writeIntent", "renameIntent", "execute",
                      "outcome", "writeOutcome", "renameOutcome"}
<1>1. ASSUME NEW r \in Runs, Advance(r) \/ Crash(r) \/ Resume(r)
      PROVE  /\ pc'[r] \in Inside => HasCall(r) /\ pos'[r] = pos[r]
             /\ \A s \in Runs \ {r} : pc'[s] = pc[s] /\ pos'[s] = pos[s]
  BY <1>1 DEF TypeOK, InCall, Advance, Goto, NextCall, AfterOutcome, OutcomeLost, Torn,
     IntentNew, IntentGoAhead,
     IntentSkip, IntentRefuse, WriteIntent, RenameIntent, ToolApplies, ToolFails,
     TransportFails, OutcomeKnown, OutcomeUnknown, WriteOutcome, RenameOutcome, QueueDone,
     Crash, Resume
<1>2. ASSUME NEW r \in Runs, Advance(r) \/ Crash(r) \/ Resume(r) PROVE InCall'
  <2>1. ASSUME NEW s \in Runs, pc'[s] \in Inside PROVE HasCall(s)'
    <3>1. CASE s = r
      BY <1>1, <1>2, <2>1, <3>1 DEF HasCall
    <3>2. CASE s # r
      BY <1>1, <1>2, <2>1, <3>2 DEF HasCall, InCall
    <3> QED
      BY <3>1, <3>2
  <2> QED
    BY <2>1 DEF InCall
<1>3. CASE UNCHANGED vars
  BY <1>3 DEF vars, InCall, HasCall
<1> QED
  BY <1>2, <1>3 DEF Next

LEMMA TypesHold == Spec => [](TypeOK /\ InCall)
<1>1. Init => InCall
  BY DEF Init, InCall
<1> QED
  BY <1>1, TypeInit, TypeStep, InCallStep, PTL DEF Spec

\* Every variable keeps its type, whatever the runs do to each other's saves
\* (checkpoint.go, runtime.go).
THEOREM TypeCorrect == Spec => []TypeOK
BY TypesHold, PTL

-----------------------------------------------------------------------------
(* The inductive invariant.                                                *)

LEMMA InCallHolds == IInv => InCall
  BY DEF IInv, InCall, Bracket, SavingIntent, Executing, SavingOutcome

LEMMA IInvInit == Init => IInv
<1> SUFFICES ASSUME Init PROVE IInv
  OBVIOUS
<1>1. TypeOK
  BY TypeInit
<1>2. JournalIsTrue
  BY DEF Init, JournalIsTrue, Hit, HitTwice, Cause, Empty, NoEntry
<1> QED
  BY <1>1, <1>2 DEF Init, IInv, Bracket, Shared, SavingIntent, Executing, SavingOutcome

\* Steps that change neither the world nor the journal keep JournalIsTrue.
LEMMA SameJournal ==
    ASSUME JournalIsTrue, UNCHANGED <<disk, applied, failedOnce>>
    PROVE  JournalIsTrue'
  BY DEF JournalIsTrue, Hit, HitTwice, Cause

\* Publishing a copy that differs from the journal at one entry.
LEMMA PublishOne ==
    ASSUME TypeOK, JournalIsTrue, NEW i \in Ids, NEW e \in Entry,
           disk' = [disk EXCEPT ![i] = e], UNCHANGED applied,
           failedOnce' = failedOnce \cup {j \in Ids : disk'[j].status = "failed"},
           e.status # "absent",
           e.status = "applied" => Hit(i),
           HitTwice(i) => e.policy = "retry" \/ i \in failedOnce
    PROVE  JournalIsTrue'
<1> SUFFICES ASSUME NEW j \in Ids
             PROVE  /\ disk'[j].status = "absent" => ~Hit(j)' /\ j \notin failedOnce'
                    /\ disk'[j].status = "failed" => j \in failedOnce'
                    /\ disk'[j].status = "applied" => Hit(j)'
                    /\ HitTwice(j)' => disk'[j].policy = "retry" \/ j \in failedOnce'
  BY DEF JournalIsTrue, Cause
<1>1. (Hit(j)' <=> Hit(j)) /\ (HitTwice(j)' <=> HitTwice(j))
  BY DEF Hit, HitTwice
<1>2. disk'[j] = IF j = i THEN e ELSE disk[j]
  BY DEF TypeOK, Journals
<1> QED
  BY <1>1, <1>2 DEF JournalIsTrue, Cause

\* Running the tool under an entry that allows it.
LEMMA RunTool ==
    ASSUME TypeOK, JournalIsTrue, NEW c \in Calls, NEW k \in {0, 1},
           applied' = [applied EXCEPT ![c] = @ + k], UNCHANGED <<disk, failedOnce>>,
           disk[EffectId[c]].status # "absent", Hit(EffectId[c]) => Cause(EffectId[c])
    PROVE  JournalIsTrue'
<1>1. /\ \A i \in Ids : Hit(i) => Hit(i)'
      /\ \A i \in Ids : Hit(i)' => Hit(i) \/ i = EffectId[c]
      /\ \A i \in Ids : HitTwice(i)' => HitTwice(i) \/ (i = EffectId[c] /\ Hit(i))
  BY HitStep DEF TypeOK
<1> QED
  BY <1>1 DEF JournalIsTrue, Cause

\* What a rename of an intent, and of an outcome, does to the journal: the one
\* entry of the current call changes.
LEMMA RenamedIntent ==
    ASSUME IInv, NEW r \in Runs, RenameIntent(r)
    PROVE  \/ UNCHANGED <<disk, applied, failedOnce>> /\ pc' = [pc EXCEPT ![r] = "failed"]
           \/ /\ HasCall(r) /\ CurId(r) \in Ids /\ disk[CurId(r)].status = "absent"
              /\ pc' = [pc EXCEPT ![r] = "execute"]
              /\ \E e \in Entry :
                    /\ e.status = "pending"
                    /\ disk' = [disk EXCEPT ![CurId(r)] = e]
              /\ failedOnce' = failedOnce \cup {k \in Ids : disk'[k].status = "failed"}
              /\ UNCHANGED <<applied, pos>>
<1> DEFINE e == [status |-> "pending", policy |-> PolicyFor(Cur(r))]
<1>1. /\ HasCall(r) /\ disk[CurId(r)].status = "absent" /\ tmp = {local[r]}
      /\ local[r] = [disk EXCEPT ![CurId(r)] = e]
  BY DEF IInv, Bracket, SavingIntent, CopyIsIntent, RenameIntent
<1>2. CurId(r) \in Ids /\ e \in Entry
  BY <1>1, CurrentCall DEF Entry, Statuses
<1>3. CASE Publish
  <2>1. /\ disk' = [disk EXCEPT ![CurId(r)] = e]
        /\ failedOnce' = failedOnce \cup {k \in Ids : disk'[k].status = "failed"}
        /\ UNCHANGED <<applied, pos>>
    BY <1>1, <1>3 DEF RenameIntent, Publish
  <2>2. pc' = [pc EXCEPT ![r] = "execute"] \/ pc' = [pc EXCEPT ![r] = "failed"]
    BY DEF RenameIntent, Goto
  <2>3. CASE pc' = [pc EXCEPT ![r] = "execute"]
    BY <1>1, <1>2, <2>1, <2>3
  <2> QED
    BY <1>1, <1>2, <1>3, <2>1, <2>3 DEF RenameIntent, Goto, files
<1>4. CASE ~Publish
  BY <1>4 DEF RenameIntent, Goto, files
<1> QED
  BY <1>3, <1>4

\* A rename of an outcome that comes through; one that does not leaves the journal.
LEMMA RenamedOutcome ==
    ASSUME IInv, NEW r \in Runs, RenameOutcome(r)
    PROVE  /\ HasCall(r) /\ CurId(r) \in Ids /\ disk[CurId(r)].status # "absent"
           /\ UNCHANGED applied
           /\ \/ UNCHANGED <<disk, failedOnce>> /\ OutcomeLost(r)
              \/ /\ \E e \in Entry :
                       /\ e.status \in {"applied", "failed"}
                       /\ e.policy = disk[CurId(r)].policy
                       /\ e.status = "failed" \/ Hit(CurId(r))
                       /\ disk' = [disk EXCEPT ![CurId(r)] = e]
                 /\ failedOnce' = failedOnce \cup {k \in Ids : disk'[k].status = "failed"}
                 /\ UNCHANGED unrecorded
<1> DEFINE e == [disk[CurId(r)] EXCEPT !.status = outcome[r]]
<1>1. /\ HasCall(r) /\ disk[CurId(r)].status # "absent" /\ tmp = {local[r]}
      /\ local[r] = [disk EXCEPT ![CurId(r)].status = outcome[r]]
      /\ outcome[r] = "applied" => Hit(CurId(r))
  BY DEF IInv, Bracket, SavingOutcome, CopyIsOutcome, RenameOutcome
<1>2. CurId(r) \in Ids
  BY <1>1, CurrentCall
<1>3. /\ e \in Entry /\ e.status = outcome[r] /\ outcome[r] \in {"applied", "failed"}
      /\ e.policy = disk[CurId(r)].policy
  BY <1>2 DEF IInv, TypeOK, Journals, Entry, Statuses
<1>4. UNCHANGED applied
  BY DEF RenameOutcome
<1>5. CASE Publish /\ UNCHANGED unrecorded
  <2>1. /\ disk' = [disk EXCEPT ![CurId(r)] = e]
        /\ failedOnce' = failedOnce \cup {k \in Ids : disk'[k].status = "failed"}
    BY <1>1, <1>5 DEF Publish
  <2> QED
    BY <1>1, <1>2, <1>3, <1>4, <1>5, <2>1
<1>6. CASE OutcomeLost(r) /\ UNCHANGED files
  BY <1>1, <1>2, <1>4, <1>6 DEF OutcomeLost, files
<1> QED
  BY <1>5, <1>6 DEF RenameOutcome

\* A step is one run's.
LEMMA OneMoves ==
    ASSUME TypeOK, NEW r \in Runs, Advance(r) \/ Crash(r) \/ Resume(r),
           NEW s \in Runs, s # r
    PROVE  UNCHANGED <<pc[s], pos[s], local[s], outcome[s]>>
BY DEF TypeOK, Advance, Goto, NextCall, AfterOutcome, OutcomeLost, Torn, IntentNew,
   IntentGoAhead, IntentSkip,
   IntentRefuse, WriteIntent, RenameIntent, ToolApplies, ToolFails, TransportFails,
   OutcomeKnown, OutcomeUnknown, WriteOutcome, RenameOutcome, QueueDone, Crash, Resume

\* What a step may do to the world and to the files: an effect happens to the
\* call that is executed, an entry keeps its policy and does not disappear, and
\* only a save touches the files.
LEMMA StepIsLocal ==
    ASSUME IInv, NEW r \in Runs, Advance(r) \/ Crash(r) \/ Resume(r), NEW i \in Ids
    PROVE  /\ UNCHANGED <<disk, tmp>> \/ pc[r] \in Saving
           /\ failedOnce \subseteq failedOnce'
           /\ Hit(i) => Hit(i)'
           /\ Hit(i)' => Hit(i) \/ (pc[r] = "execute" /\ i = CurId(r))
           /\ disk[i].status # "absent" =>
                 disk'[i].status # "absent" /\ disk'[i].policy = disk[i].policy
<1> DEFINE Goal == /\ UNCHANGED <<disk, tmp>> \/ pc[r] \in Saving
                   /\ failedOnce \subseteq failedOnce'
                   /\ Hit(i) => Hit(i)'
                   /\ Hit(i)' => Hit(i) \/ (pc[r] = "execute" /\ i = CurId(r))
                   /\ disk[i].status # "absent" =>
                         disk'[i].status # "absent" /\ disk'[i].policy = disk[i].policy
<1>1. ASSUME UNCHANGED <<disk, tmp, applied, failedOnce>> PROVE Goal
  BY <1>1 DEF Hit
<1>2. ASSUME UNCHANGED <<disk, applied, failedOnce>>, pc[r] \in Saving PROVE Goal
  BY <1>2 DEF Hit
<1>3. ASSUME NEW k \in {0, 1}, pc[r] = "execute",
             applied' = [applied EXCEPT ![Cur(r)] = @ + k], UNCHANGED <<disk, tmp, failedOnce>>
      PROVE  Goal
  <2>1. Cur(r) \in Calls /\ CurId(r) = EffectId[Cur(r)]
    BY <1>3, CurrentCall DEF IInv, Bracket, Executing, CurId
  <2>2. (Hit(i) => Hit(i)') /\ (Hit(i)' => Hit(i) \/ i = CurId(r))
    BY <1>3, <2>1, HitStep DEF IInv, TypeOK
  <2> QED
    BY <1>3, <2>2
<1>4. CASE RenameIntent(r)
  <2>1. pc[r] \in Saving
    BY <1>4 DEF RenameIntent, Saving
  <2>2. CASE UNCHANGED <<disk, applied, failedOnce>>
    BY <1>2, <2>1, <2>2
  <2>3. CASE ~UNCHANGED <<disk, applied, failedOnce>>
    <3>1. PICK e \in Entry : disk' = [disk EXCEPT ![CurId(r)] = e]
      BY <1>4, <2>3, RenamedIntent
    <3>2. disk[CurId(r)].status = "absent" /\ UNCHANGED applied /\ failedOnce \subseteq failedOnce'
      BY <1>4, <2>3, RenamedIntent
    <3>3. i # CurId(r) => disk'[i] = disk[i]
      BY <3>1 DEF IInv, TypeOK, Journals
    <3> QED
      BY <2>1, <3>2, <3>3 DEF Hit
  <2> QED
    BY <2>2, <2>3
<1>5. CASE RenameOutcome(r)
  <2>1. pc[r] \in Saving
    BY <1>5 DEF RenameOutcome, Saving
  <2>2. UNCHANGED applied /\ failedOnce \subseteq failedOnce'
    BY <1>5, RenamedOutcome
  <2>3. CASE UNCHANGED <<disk, failedOnce>>
    BY <1>2, <2>1, <2>2, <2>3
  <2>4. CASE ~UNCHANGED <<disk, failedOnce>>
    <3>1. PICK e \in Entry : /\ e.status \in {"applied", "failed"}
                             /\ e.policy = disk[CurId(r)].policy
                             /\ disk' = [disk EXCEPT ![CurId(r)] = e]
      BY <1>5, <2>4, RenamedOutcome
    <3>2. disk'[i] = IF i = CurId(r) THEN e ELSE disk[i]
      BY <3>1 DEF IInv, TypeOK, Journals
    <3> QED
      BY <2>1, <2>2, <3>1, <3>2 DEF Hit
  <2> QED
    BY <2>3, <2>4
<1>6. CASE ToolApplies(r)
  BY <1>3, <1>6 DEF ToolApplies, files
<1>7. CASE TransportFails(r)
  BY <1>3, <1>7 DEF TransportFails, files
<1>8. CASE WriteIntent(r) \/ WriteOutcome(r)
  BY <1>2, <1>8 DEF WriteIntent, WriteOutcome, OutcomeLost, Torn, Saving
<1>9. CASE Crash(r)
  <2>1. UNCHANGED <<disk, applied, failedOnce>>
    BY <1>9 DEF Crash, Torn, files
  <2>2. CASE pc[r] \in Saving
    BY <1>2, <2>1, <2>2
  <2>3. CASE pc[r] \notin Saving
    BY <1>1, <1>9, <2>3 DEF Crash, Torn, files, Saving
  <2> QED
    BY <2>2, <2>3
<1>10. CASE \/ IntentNew(r) \/ IntentGoAhead(r) \/ IntentSkip(r) \/ IntentRefuse(r)
            \/ ToolFails(r) \/ OutcomeKnown(r) \/ OutcomeUnknown(r) \/ QueueDone(r)
            \/ Resume(r)
  <2>1. UNCHANGED <<disk, tmp, applied, failedOnce>>
    BY <1>10 DEF files, IntentNew, IntentGoAhead, IntentSkip, IntentRefuse, ToolFails,
       OutcomeKnown, OutcomeUnknown, OutcomeLost, QueueDone, Resume
  <2> QED
    BY <1>1, <2>1
<1> QED
  BY <1>4, <1>5, <1>6, <1>7, <1>8, <1>9, <1>10 DEF Advance

\* What allows a repeat goes on doing so.
LEMMA CauseStays ==
    ASSUME IInv, NEW r \in Runs, Advance(r) \/ Crash(r) \/ Resume(r), NEW i \in Ids,
           disk[i].status # "absent", Cause(i)
    PROVE  Cause(i)'
BY StepIsLocal DEF Cause

\* The step of one run leaves the brackets of the others as they are, if no two
\* save at once.
LEMMA OthersKeep ==
    ASSUME IInv, Serial, NEW r \in Runs, Advance(r) \/ Crash(r) \/ Resume(r),
           NEW s \in Runs, s # r
    PROVE  Bracket(s)'
<1>1. UNCHANGED <<pc[s], pos[s], local[s], outcome[s]>>
  BY OneMoves DEF IInv
<1>2. (HasCall(s)' <=> HasCall(s)) /\ CurId(s)' = CurId(s) /\ Cur(s)' = Cur(s)
  BY <1>1 DEF HasCall, CurId, Cur
<1>3. HasCall(s) => CurId(s) \in Ids
  BY CurrentCall
<1>4. Bracket(s)
  BY DEF IInv
<1>5. pc[s] \in Saving => UNCHANGED <<disk, tmp>>
  <2>2. CASE pc[s] \in Saving
    <3>1. pc[r] \notin Saving
      BY <2>2 DEF Serial
    <3>2. CurId(s) \in Ids
      BY <1>3, <1>4, <2>2 DEF Bracket, SavingIntent, SavingOutcome, Saving
    <3> QED
      BY <3>1, <3>2, StepIsLocal
  <2> QED
    BY <2>2
<1>6. SavingIntent(s)'
  BY <1>1, <1>2, <1>4, <1>5 DEF Bracket, SavingIntent, CopyIsIntent, Saving
<1>7. Executing(s)'
  <2>1. SUFFICES ASSUME pc[s] = "execute"
                 PROVE  /\ HasCall(s) /\ disk'[CurId(s)].status # "absent"
                        /\ Hit(CurId(s))' => Cause(CurId(s))'
    BY <1>1, <1>2 DEF Executing, Hit, Cause
  <2>2. HasCall(s) /\ disk[CurId(s)].status # "absent" /\ (Hit(CurId(s)) => Cause(CurId(s)))
    BY <1>4, <2>1 DEF Bracket, Executing
  <2>3. CurId(s) \in Ids
    BY <1>3, <2>2
  <2>4. disk'[CurId(s)].status # "absent"
    BY <2>2, <2>3, StepIsLocal
  <2>5. ASSUME Hit(CurId(s))' PROVE Cause(CurId(s))'
    <3>1. Hit(CurId(s)) \/ (pc[r] = "execute" /\ CurId(s) = CurId(r))
      BY <1>2, <2>3, <2>5, StepIsLocal DEF Hit
    <3>2. Cause(CurId(s))
      BY <2>1, <2>2, <3>1 DEF IInv, Shared
    <3> QED
      BY <1>2, <2>2, <2>3, <3>2, CauseStays DEF Cause
  <2> QED
    BY <2>2, <2>4, <2>5
<1>8. SavingOutcome(s)'
  <2>1. pc[s] \in {"outcome", "writeOutcome", "renameOutcome"} =>
           HasCall(s) /\ disk[CurId(s)].status # "absent" /\ CurId(s) \in Ids
    BY <1>3, <1>4 DEF Bracket, SavingOutcome
  <2>2. pc[s] \in {"outcome", "writeOutcome", "renameOutcome"} =>
           disk'[CurId(s)].status # "absent" /\ (Hit(CurId(s)) => Hit(CurId(s))')
    BY <1>2, <2>1, StepIsLocal DEF Hit
  <2> QED
    BY <1>1, <1>2, <1>4, <1>5, <2>1, <2>2 DEF Bracket, SavingOutcome, CopyIsOutcome, Saving, Hit
<1> QED
  BY <1>6, <1>7, <1>8 DEF Bracket

LEMMA SharedStep ==
    ASSUME IInv, NEW r \in Runs, Advance(r) \/ Crash(r) \/ Resume(r)
    PROVE  Shared'
<1> SUFFICES ASSUME NEW s \in Runs, NEW t \in Runs, pc'[s] = "execute", pc'[t] = "execute",
                    CurId(s)' = CurId(t)', s # t
             PROVE  Cause(CurId(s))'
  BY DEF Shared
<1>1. \A q \in Runs \ {r} : UNCHANGED <<pc[q], pos[q]>>
  BY OneMoves DEF IInv
<1>2. ASSUME NEW q \in Runs \ {r}, NEW i \in Ids, pc[q] = "execute", CurId(q) = i, Cause(i)
      PROVE  Cause(i)'
  <2>1. disk[i].status # "absent"
    BY <1>2 DEF IInv, Bracket, Executing
  <2> QED
    BY <1>2, <2>1, CauseStays
<1>3. ASSUME NEW q \in Runs \ {r}, pc'[q] = "execute"
      PROVE  pc[q] = "execute" /\ CurId(q)' = CurId(q) /\ CurId(q) \in Ids
  <2>1. pc[q] = "execute" /\ CurId(q)' = CurId(q)
    BY <1>1, <1>3 DEF CurId, Cur
  <2> QED
    BY <2>1, CurrentCall DEF IInv, Bracket, Executing
<1>4. CASE s # r /\ t # r
  <2>1. Cause(CurId(s))
    BY <1>3, <1>4 DEF IInv, Shared
  <2> QED
    BY <1>2, <1>3, <1>4, <2>1 DEF Cause
<1>5. ASSUME NEW q \in Runs \ {r}, pc'[q] = "execute", pc'[r] = "execute", CurId(q)' = CurId(r)'
      PROVE  Cause(CurId(q))'
  <2>1. pc[q] = "execute" /\ CurId(q)' = CurId(q) /\ CurId(q) \in Ids
    BY <1>3, <1>5
  <2>2. disk[CurId(q)].status # "absent"
    BY <2>1 DEF IInv, Bracket, Executing
  <2>3. CASE IntentGoAhead(r)
    <3>1. CurId(r)' = CurId(r) /\ UNCHANGED <<disk, failedOnce>>
      BY <2>3 DEF IntentGoAhead, files, CurId, Cur
    <3>2. Cause(CurId(r))
      <4>1. CurId(r) \in Ids
        BY <2>3, CurrentCall DEF IntentGoAhead
      <4> QED
        BY <2>3, <4>1 DEF IntentGoAhead, IInv, JournalIsTrue, Cause
    <3> QED
      BY <1>5, <2>1, <3>1, <3>2 DEF Cause
  <2>4. CASE RenameIntent(r)
    <3>1. pc' = [pc EXCEPT ![r] = "execute"] /\ disk[CurId(r)].status = "absent" /\ UNCHANGED pos
      BY <1>5, <2>4, RenamedIntent DEF IInv, TypeOK
    <3>2. CurId(r)' = CurId(r)
      BY <3>1 DEF CurId, Cur
    <3> QED
      BY <1>5, <2>1, <2>2, <3>1, <3>2
  <2> QED
    BY <1>5, <2>3, <2>4 DEF IInv, TypeOK, Advance, Goto, NextCall, AfterOutcome, OutcomeLost, Torn,
       IntentNew, IntentSkip, IntentRefuse, WriteIntent, ToolApplies, ToolFails, TransportFails,
       OutcomeKnown, OutcomeUnknown, WriteOutcome, RenameOutcome, QueueDone, Crash, Resume
<1>6. CASE s = r
  <2>1. Cause(CurId(t))'
    BY <1>5, <1>6
  <2> QED
    BY <2>1 DEF Cause
<1>7. CASE t = r
  BY <1>5, <1>7
<1> QED
  BY <1>4, <1>6, <1>7


\* The step of a run keeps its own bracket, and the journal true.
LEMMA OwnStep ==
    ASSUME IInv, NEW r \in Runs, Advance(r) \/ Crash(r) \/ Resume(r)
    PROVE  Bracket(r)' /\ JournalIsTrue'
<1>0. Bracket(r) /\ JournalIsTrue /\ TypeOK
  BY DEF IInv
<1> USE <1>0 DEF Goto, files, Bracket
<1>1. CASE IntentNew(r)
  <2>1. JournalIsTrue'
    BY <1>1, SameJournal DEF IntentNew
  <2>2. pc'[r] = "writeIntent" /\ HasCall(r)' /\ CurId(r)' = CurId(r)
        /\ Cur(r)' = Cur(r) /\ local'[r] = [disk EXCEPT ![CurId(r)] =
              [status |-> "pending", policy |-> PolicyFor(Cur(r))]]
    BY <1>1 DEF TypeOK, IntentNew, HasCall, CurId, Cur
  <2>3. Bracket(r)'
    BY <1>1, <2>2
    DEF SavingIntent, Executing, SavingOutcome, CopyIsIntent, IntentNew
  <2> QED
    BY <2>1, <2>3
<1>2. CASE IntentGoAhead(r)
  <2>1. JournalIsTrue'
    BY <1>2, SameJournal DEF IntentGoAhead
  <2>2. pc'[r] = "execute" /\ HasCall(r)' /\ CurId(r)' = CurId(r)
    BY <1>2 DEF TypeOK, IntentGoAhead, HasCall, CurId, Cur
  <2>3. CurId(r) \in Ids
    BY <1>2, CurrentCall DEF IntentGoAhead
  <2>4. Hit(CurId(r))' <=> Hit(CurId(r))
    BY <1>2, <2>2 DEF IntentGoAhead, Hit
  <2>5. Bracket(r)'
    BY <1>2, <2>2, <2>3, <2>4
    DEF JournalIsTrue, Cause, SavingIntent, Executing, SavingOutcome, IntentGoAhead
  <2> QED
    BY <2>1, <2>5
<1>3. CASE IntentSkip(r)
  <2>1. JournalIsTrue'
    BY <1>3, SameJournal DEF IntentSkip, NextCall
  <2>2. pc'[r] = "intent"
    BY <1>3 DEF TypeOK, IntentSkip, NextCall
  <2> QED
    BY <2>1, <2>2 DEF SavingIntent, Executing, SavingOutcome
<1>4. CASE IntentRefuse(r)
  <2>1. JournalIsTrue'
    BY <1>4, SameJournal DEF IntentRefuse
  <2>2. pc'[r] = "failed"
    BY <1>4 DEF TypeOK, IntentRefuse
  <2> QED
    BY <2>1, <2>2 DEF SavingIntent, Executing, SavingOutcome
<1>5. CASE WriteIntent(r)
  <2>1. JournalIsTrue'
    BY <1>5, SameJournal DEF WriteIntent, Torn
  <2>2. CASE tmp' = {local[r]} /\ UNCHANGED disk /\ pc' = [pc EXCEPT ![r] = "renameIntent"]
    <3>1. /\ pc'[r] = "renameIntent" /\ HasCall(r)' /\ CurId(r)' = CurId(r)
          /\ Cur(r)' = Cur(r) /\ tmp' = {local[r]} /\ UNCHANGED <<disk, local>>
      BY <1>5, <2>2 DEF TypeOK, SavingIntent, WriteIntent, HasCall, CurId, Cur
    <3>2. Bracket(r)'
      BY <1>5, <3>1
      DEF SavingIntent, Executing, SavingOutcome, CopyIsIntent, WriteIntent
    <3> QED
      BY <2>1, <3>2
  <2>3. CASE pc' = [pc EXCEPT ![r] = "failed"]
    BY <2>1, <2>3 DEF TypeOK, SavingIntent, Executing, SavingOutcome
  <2> QED
    BY <1>5, <2>2, <2>3 DEF WriteIntent
<1>6. CASE RenameIntent(r)
  <2>1. CASE UNCHANGED <<disk, applied, failedOnce>> /\ pc' = [pc EXCEPT ![r] = "failed"]
    <3>1. JournalIsTrue'
      BY <2>1, SameJournal
    <3> QED
      BY <2>1, <3>1 DEF TypeOK, SavingIntent, Executing, SavingOutcome
  <2>2. CASE ~(UNCHANGED <<disk, applied, failedOnce>> /\ pc' = [pc EXCEPT ![r] = "failed"])
    <3>1. PICK e \in Entry : e.status = "pending" /\ disk' = [disk EXCEPT ![CurId(r)] = e]
      BY <1>6, <2>2, RenamedIntent
    <3>2. /\ HasCall(r) /\ CurId(r) \in Ids /\ disk[CurId(r)].status = "absent"
          /\ pc' = [pc EXCEPT ![r] = "execute"]
          /\ failedOnce' = failedOnce \cup {k \in Ids : disk'[k].status = "failed"}
          /\ UNCHANGED <<applied, pos>>
      BY <1>6, <2>2, RenamedIntent
    <3>3. ~Hit(CurId(r)) /\ ~HitTwice(CurId(r))
      BY <3>2 DEF JournalIsTrue, TypeOK, Hit, HitTwice
    <3>4. JournalIsTrue'
      BY <3>1, <3>2, <3>3, PublishOne
    <3>5. /\ pc'[r] = "execute" /\ HasCall(r)' /\ CurId(r)' = CurId(r)
          /\ ~Hit(CurId(r))' /\ disk'[CurId(r)].status = "pending"
      BY <3>1, <3>2, <3>3 DEF HasCall, CurId, Cur, Hit, TypeOK, Journals
    <3> QED
      BY <3>4, <3>5 DEF SavingIntent, Executing, SavingOutcome
  <2> QED
    BY <2>1, <2>2
<1>7. CASE ToolApplies(r)
  <2>1. /\ HasCall(r) /\ disk[CurId(r)].status # "absent"
        /\ Hit(CurId(r)) => Cause(CurId(r))
    BY <1>7 DEF Executing, ToolApplies
  <2>2. Cur(r) \in Calls /\ CurId(r) = EffectId[Cur(r)]
    BY <2>1, CurrentCall DEF CurId
  <2>3. applied' = [applied EXCEPT ![Cur(r)] = @ + 1] /\ UNCHANGED <<disk, failedOnce>>
    BY <1>7 DEF ToolApplies
  <2>4. JournalIsTrue'
    BY <2>1, <2>2, <2>3, RunTool
  <2>5. pc'[r] = "outcome" /\ HasCall(r)' /\ CurId(r)' = CurId(r)
    BY <1>7, <2>1 DEF ToolApplies, TypeOK, HasCall, CurId, Cur
  <2>6. applied'[Cur(r)] > 0
    BY <2>2, <2>3 DEF TypeOK
  <2>7. Hit(CurId(r))'
    BY <2>2, <2>5, <2>6 DEF Hit
  <2>8. Bracket(r)'
    BY <2>1, <2>3, <2>5, <2>7 DEF SavingIntent, Executing, SavingOutcome
  <2> QED
    BY <2>4, <2>8
<1>8. CASE ToolFails(r)
  <2>1. JournalIsTrue'
    BY <1>8, SameJournal DEF ToolFails
  <2>2. /\ pc'[r] = "outcome" /\ HasCall(r)' /\ CurId(r)' = CurId(r)
        /\ disk'[CurId(r)].status # "absent"
        /\ outcome'[r] = "failed"
    BY <1>8 DEF TypeOK, Executing, ToolFails, HasCall, CurId, Cur
  <2>3. Bracket(r)'
    BY <2>2 DEF SavingIntent, Executing, SavingOutcome
  <2> QED
    BY <2>1, <2>3
<1>9. CASE TransportFails(r)
  <2>1. /\ HasCall(r) /\ disk[CurId(r)].status # "absent"
        /\ Hit(CurId(r)) => Cause(CurId(r))
    BY <1>9 DEF Executing, TransportFails
  <2>2. Cur(r) \in Calls /\ CurId(r) = EffectId[Cur(r)]
    BY <2>1, CurrentCall DEF CurId
  <2>3. PICK k \in {0, 1} : applied' = [applied EXCEPT ![Cur(r)] = @ + k]
    BY <1>9 DEF TransportFails
  <2>4. UNCHANGED <<disk, failedOnce>>
    BY <1>9 DEF TransportFails
  <2>5. JournalIsTrue'
    BY <2>1, <2>2, <2>3, <2>4, RunTool
  <2>6. /\ pc'[r] = "outcome" /\ HasCall(r)' /\ CurId(r)' = CurId(r)
        /\ outcome'[r] = "failed"
    BY <1>9, <2>1 DEF TransportFails, TypeOK, HasCall, CurId, Cur
  <2>7. Bracket(r)'
    BY <2>1, <2>4, <2>6 DEF SavingIntent, Executing, SavingOutcome
  <2> QED
    BY <2>5, <2>7
<1>10. CASE OutcomeKnown(r)
  <2>1. JournalIsTrue'
    BY <1>10, SameJournal DEF OutcomeKnown
  <2>2. /\ pc'[r] = "writeOutcome" /\ HasCall(r)' /\ CurId(r)' = CurId(r)
        /\ local'[r] = [disk EXCEPT ![CurId(r)].status = outcome[r]]
        /\ UNCHANGED <<disk, outcome, applied>>
        /\ disk[CurId(r)].status # "absent"
        /\ outcome[r] = "applied" => Hit(CurId(r))
    BY <1>10 DEF TypeOK, SavingOutcome, OutcomeKnown, HasCall, CurId, Cur
  <2>3. Hit(CurId(r))' <=> Hit(CurId(r))
    BY <2>2 DEF Hit
  <2>4. Bracket(r)'
    BY <2>2, <2>3
    DEF SavingIntent, Executing, SavingOutcome, CopyIsOutcome
  <2> QED
    BY <2>1, <2>4
<1>11. CASE OutcomeUnknown(r)
  BY <1>11 DEF SavingOutcome, OutcomeUnknown
<1>12. CASE WriteOutcome(r)
  <2>1. JournalIsTrue'
    BY <1>12, SameJournal DEF WriteOutcome, OutcomeLost, Torn
  <2>2. CASE tmp' = {local[r]} /\ pc' = [pc EXCEPT ![r] = "renameOutcome"]
             /\ UNCHANGED <<disk, pos>>
    <3>1. /\ pc'[r] = "renameOutcome" /\ HasCall(r)' /\ CurId(r)' = CurId(r)
          /\ tmp' = {local[r]} /\ UNCHANGED <<disk, local, outcome, applied>>
          /\ disk[CurId(r)].status # "absent"
          /\ CopyIsOutcome(r)
          /\ outcome[r] = "applied" => Hit(CurId(r))
      BY <1>12, <2>2 DEF TypeOK, SavingOutcome, WriteOutcome, HasCall, CurId, Cur
    <3>2. Hit(CurId(r))' <=> Hit(CurId(r))
      BY <3>1 DEF Hit
    <3>3. Bracket(r)'
      BY <3>1, <3>2 DEF SavingIntent, Executing, SavingOutcome, CopyIsOutcome
    <3> QED
      BY <2>1, <3>3
  <2>3. CASE OutcomeLost(r)
    <3>1. pc'[r] \in {"intent", "failed"}
      BY <2>3 DEF OutcomeLost, AfterOutcome, NextCall, TypeOK
    <3> QED
      BY <2>1, <3>1 DEF SavingIntent, Executing, SavingOutcome
  <2> QED
    BY <1>12, <2>2, <2>3 DEF WriteOutcome
<1>13. CASE RenameOutcome(r)
  <2>1. pc'[r] \in {"intent", "failed"}
    BY <1>13 DEF RenameOutcome, OutcomeLost, AfterOutcome, NextCall, TypeOK
  <2>2. CurId(r) \in Ids /\ UNCHANGED applied
    BY <1>13, RenamedOutcome
  <2>3. CASE UNCHANGED <<disk, failedOnce>>
    BY <2>1, <2>2, <2>3, SameJournal DEF SavingIntent, Executing, SavingOutcome
  <2>4. CASE ~UNCHANGED <<disk, failedOnce>>
    <3>1. PICK e \in Entry :
             /\ e.status \in {"applied", "failed"} /\ e.policy = disk[CurId(r)].policy
             /\ e.status = "failed" \/ Hit(CurId(r))
             /\ disk' = [disk EXCEPT ![CurId(r)] = e]
      BY <1>13, <2>4, RenamedOutcome
    <3>2. failedOnce' = failedOnce \cup {k \in Ids : disk'[k].status = "failed"}
      BY <1>13, <2>4, RenamedOutcome
    <3>3. HitTwice(CurId(r)) => e.policy = "retry" \/ CurId(r) \in failedOnce
      BY <2>2, <3>1 DEF JournalIsTrue, Cause
    <3>4. JournalIsTrue'
      BY <2>2, <3>1, <3>2, <3>3, PublishOne
    <3> QED
      BY <2>1, <3>4 DEF SavingIntent, Executing, SavingOutcome
  <2> QED
    BY <2>3, <2>4
<1>14. CASE QueueDone(r)
  <2>1. JournalIsTrue'
    BY <1>14, SameJournal DEF QueueDone
  <2>2. pc'[r] = "done"
    BY <1>14 DEF TypeOK, QueueDone
  <2> QED
    BY <2>1, <2>2 DEF SavingIntent, Executing, SavingOutcome
<1>15. CASE Crash(r)
  <2>1. JournalIsTrue'
    BY <1>15, SameJournal DEF Crash, Torn
  <2>2. pc'[r] = "down"
    BY <1>15 DEF TypeOK, Crash
  <2> QED
    BY <2>1, <2>2 DEF SavingIntent, Executing, SavingOutcome
<1>16. CASE Resume(r)
  <2>1. JournalIsTrue'
    BY <1>16, SameJournal DEF Resume
  <2>2. pc'[r] = "intent"
    BY <1>16 DEF TypeOK, Resume
  <2> QED
    BY <2>1, <2>2 DEF SavingIntent, Executing, SavingOutcome
<1> QED
  BY <1>1, <1>2, <1>3, <1>4, <1>5, <1>6, <1>7, <1>8, <1>9, <1>10, <1>11,
     <1>12, <1>13, <1>14, <1>15, <1>16 DEF Advance


LEMMA IInvStep == IInv /\ Serial /\ [Next]_vars => IInv'
<1> SUFFICES ASSUME IInv, Serial, [Next]_vars PROVE IInv'
  OBVIOUS
<1>1. TypeOK'
  BY InCallHolds, TypeStep DEF IInv
<1>2. ASSUME NEW r \in Runs, Advance(r) \/ Crash(r) \/ Resume(r) PROVE IInv'
  <2>1. Bracket(r)' /\ JournalIsTrue'
    BY <1>2, OwnStep
  <2>2. \A s \in Runs \ {r} : Bracket(s)'
    BY <1>2, OthersKeep
  <2>3. \A s \in Runs : Bracket(s)'
    <3> SUFFICES ASSUME NEW s \in Runs PROVE Bracket(s)'
      OBVIOUS
    <3>1. CASE s = r
      BY <2>1, <3>1 DEF Bracket, SavingIntent, Executing, SavingOutcome, HasCall, CurId, Cur,
         CopyIsIntent, CopyIsOutcome
    <3> QED
      BY <2>2, <3>1
  <2>4. Shared'
    BY <1>2, SharedStep
  <2> QED
    BY <1>1, <2>1, <2>3, <2>4 DEF IInv
<1>3. CASE UNCHANGED vars
  BY <1>1, <1>3 DEF vars, IInv, Bracket, Shared, SavingIntent, Executing, SavingOutcome, Cause,
     JournalIsTrue, CopyIsIntent, CopyIsOutcome, HasCall, CurId, Cur, Hit, HitTwice
<1> QED
  BY <1>2, <1>3 DEF Next

\* IInv holds in every state, as long as no two saves overlap.
THEOREM Inductive == Spec /\ []Serial => []IInv
  BY IInvInit, IInvStep, PTL DEF Spec

-----------------------------------------------------------------------------
(* The results for runs whose saves do not overlap.                        *)

\* RecordIntent's table (checkpoint.go:188-240): an effect is applied a second
\* time only under a retry policy or after a journalled failure, so a crash
\* alone never repeats a change, whichever run replays it.
THEOREM RepeatsAreOwed == Spec /\ []Serial => []RepeatNeedsCause
<1>1. IInv => RepeatNeedsCause
  BY DEF IInv, JournalIsTrue, Cause, RepeatNeedsCause
<1> QED
  BY <1>1, Inductive, PTL

\* RecordIntent "persists intent BEFORE the side effect": nothing takes effect
\* that side-effects.json does not know.
THEOREM IntentFirst == Spec /\ []Serial => []IntentIsDurable
<1>1. IInv => IntentIsDurable
  BY DEF IInv, JournalIsTrue, IntentIsDurable
<1> QED
  BY <1>1, Inductive, PTL

\* Where the effects of the runs are their own, a run about to run its tool is
\* not overtaken by another run's outcome for the same effect.
LEMMA UnappliedStep ==
    ASSUME Owned, IInv, Unapplied, [Next]_vars
    PROVE  Unapplied'
<1>1. ASSUME NEW r \in Runs, Advance(r) \/ Crash(r) \/ Resume(r),
             NEW s \in Runs, pc'[s] = "execute"
      PROVE  disk'[CurId(s)'].status # "applied"
  <2>1. CASE s # r
    <3>1. UNCHANGED <<pc[s], pos[s]>>
      BY <1>1, <2>1, OneMoves DEF IInv
    <3>2. pc[s] = "execute" /\ CurId(s)' = CurId(s) /\ HasCall(s)
      BY <1>1, <3>1 DEF CurId, Cur, IInv, Bracket, Executing
    <3>3. CurId(s) \in Ids /\ disk[CurId(s)].status # "applied"
      BY <3>2, CurrentCall DEF Unapplied
    <3>4. HasCall(r) => CurId(r) # CurId(s)
      BY <2>1, <3>2 DEF Owned, HasCall, CurId, Cur
    <3>5. CASE RenameIntent(r)
      <4>1. disk' = disk \/ (HasCall(r) /\ \E e \in Entry : disk' = [disk EXCEPT ![CurId(r)] = e])
        BY <3>5, RenamedIntent
      <4> QED
        BY <3>2, <3>3, <3>4, <4>1 DEF IInv, TypeOK, Journals
    <3>6. CASE RenameOutcome(r)
      <4>1. /\ HasCall(r)
            /\ disk' = disk \/ \E e \in Entry : disk' = [disk EXCEPT ![CurId(r)] = e]
        BY <3>6, RenamedOutcome
      <4> QED
        BY <3>2, <3>3, <3>4, <4>1 DEF IInv, TypeOK, Journals
    <3>7. CASE ~RenameIntent(r) /\ ~RenameOutcome(r)
      <4>1. UNCHANGED disk
        BY <1>1, <3>7 DEF files, Torn, Advance, IntentNew, IntentGoAhead, IntentSkip,
           IntentRefuse, WriteIntent, ToolApplies, ToolFails, TransportFails, OutcomeKnown, OutcomeUnknown,
           WriteOutcome, QueueDone, Crash, Resume
      <4> QED
        BY <3>2, <3>3, <4>1
    <3> QED
      BY <3>5, <3>6, <3>7
  <2>2. CASE s = r /\ IntentGoAhead(r)
    BY <2>2 DEF IntentGoAhead, files, CurId, Cur
  <2>3. CASE s = r /\ RenameIntent(r)
    <3>1. ~(pc' = [pc EXCEPT ![r] = "failed"])
      BY <1>1, <2>3 DEF IInv, TypeOK
    <3>2. /\ CurId(r) \in Ids /\ UNCHANGED pos
          /\ \E e \in Entry : e.status = "pending" /\ disk' = [disk EXCEPT ![CurId(r)] = e]
      BY <2>3, <3>1, RenamedIntent
    <3>3. disk'[CurId(r)].status = "pending" /\ CurId(r)' = CurId(r)
      BY <3>2 DEF IInv, TypeOK, Journals, CurId, Cur
    <3> QED
      BY <2>3, <3>3
  <2>4. CASE s = r /\ ~IntentGoAhead(r) /\ ~RenameIntent(r)
    BY <1>1, <2>4 DEF IInv, TypeOK, Advance, Goto, NextCall, AfterOutcome, OutcomeLost, Torn,
       IntentNew, IntentSkip, IntentRefuse, WriteIntent, ToolApplies, ToolFails, TransportFails,
       OutcomeKnown, OutcomeUnknown, WriteOutcome, RenameOutcome, QueueDone, Crash, Resume
  <2> QED
    BY <2>1, <2>2, <2>3, <2>4
<1>2. CASE UNCHANGED vars
  BY <1>2 DEF vars, Unapplied, CurId, Cur
<1>3. CASE Next
  <2>1. \A s \in Runs : pc'[s] = "execute" => disk'[CurId(s)'].status # "applied"
    BY <1>1, <1>3 DEF Next
  <2> QED
    BY <2>1 DEF Unapplied
<1> QED
  BY <1>2, <1>3

\* "applied already, any policy -> false, skip": an effect journalled as
\* applied is never run again, through any crashes and resumes, if it is in
\* the queue of one run.  Without Owned the property fails: two runs may both
\* have been told to go ahead with a retry effect before either ran it.
THEOREM AppliedStays == ASSUME Owned PROVE Spec /\ []Serial => AppliedIsFinal
<1> DEFINE Keeps == \A c \in Calls :
              disk[EffectId[c]].status = "applied" => applied'[c] = applied[c]
<1>1. IInv /\ Unapplied /\ [Next]_vars => [Keeps]_vars
  <2> SUFFICES ASSUME IInv, Unapplied, [Next]_vars, NEW c \in Calls,
                      disk[EffectId[c]].status = "applied"
               PROVE  applied'[c] = applied[c]
    OBVIOUS
  <2>1. CASE UNCHANGED applied
    BY <2>1
  <2>2. ASSUME NEW r \in Runs, pc[r] = "execute",
               NEW k \in {0, 1}, applied' = [applied EXCEPT ![Cur(r)] = @ + k]
        PROVE  applied'[c] = applied[c]
    <3>1. HasCall(r) /\ disk[CurId(r)].status # "applied"
      BY <2>2 DEF IInv, Bracket, Executing, Unapplied
    <3>2. Cur(r) \in Calls /\ Cur(r) # c
      BY <3>1, CurrentCall DEF CurId
    <3> QED
      BY <2>2, <3>2 DEF IInv, TypeOK
  <2>3. ASSUME NEW r \in Runs, ToolApplies(r) PROVE applied'[c] = applied[c]
    BY <2>2, <2>3 DEF ToolApplies
  <2>4. ASSUME NEW r \in Runs, TransportFails(r) PROVE applied'[c] = applied[c]
    BY <2>2, <2>4 DEF TransportFails
  <2> QED
    BY <2>1, <2>3, <2>4 DEF Next, Advance, vars, IntentNew, IntentGoAhead, IntentSkip,
       IntentRefuse, WriteIntent, RenameIntent, ToolFails, OutcomeKnown,
       OutcomeUnknown, WriteOutcome, RenameOutcome, QueueDone, Crash, Resume
<1>2. Init => Unapplied
  BY DEF Init, Unapplied
<1>3. IInv /\ Unapplied /\ [Next]_vars => Unapplied'
  BY UnappliedStep
<1> QED
  BY <1>1, <1>2, <1>3, Inductive, PTL DEF Spec, AppliedIsFinal

-----------------------------------------------------------------------------
(* The queue.  What accounts for a call never goes away, so it is enough   *)
(* that each call is accounted for when the loop leaves it: Past, proved   *)
(* on top of IInv.                                                         *)

\* An account stays as long as the world and the journal do.
LEMMA SameAccount ==
    ASSUME NEW i \in Ids, Accounted(i), UNCHANGED <<disk, applied, failedOnce>>,
           unrecorded \subseteq unrecorded'
    PROVE  Accounted(i)'
  BY DEF Accounted, Hit

\* Publishing one entry keeps every account, if the entry was absent before,
\* or is failed, or is of an effect that happened.
LEMMA PublishAccount ==
    ASSUME TypeOK, NEW i \in Ids, NEW e \in Entry, NEW j \in Ids,
           disk' = [disk EXCEPT ![i] = e], UNCHANGED applied,
           failedOnce' = failedOnce \cup {k \in Ids : disk'[k].status = "failed"},
           disk[i].status = "absent" \/ e.status = "failed" \/ Hit(i),
           UNCHANGED unrecorded, Accounted(j)
    PROVE  Accounted(j)'
<1>1. disk'[j] = IF j = i THEN e ELSE disk[j]
  BY DEF TypeOK, Journals
<1>2. Hit(j)' <=> Hit(j)
  BY DEF Hit
<1>3. e.status = "failed" => i \in failedOnce'
  BY DEF TypeOK, Journals
<1> QED
  BY <1>1, <1>2, <1>3 DEF Accounted

\* Running the tool keeps every account.
LEMMA ToolAccount ==
    ASSUME TypeOK, NEW c \in Calls, NEW k \in {0, 1},
           applied' = [applied EXCEPT ![c] = @ + k],
           UNCHANGED <<disk, failedOnce, unrecorded>>, NEW j \in Ids, Accounted(j)
    PROVE  Accounted(j)'
<1>1. Hit(j) => Hit(j)'
  BY HitStep DEF TypeOK
<1> QED
  BY <1>1 DEF Accounted

\* No step takes an account away.
LEMMA AccountStays ==
    ASSUME IInv, [Next]_vars, NEW i \in Ids, Accounted(i)
    PROVE  Accounted(i)'
<1>1. unrecorded \subseteq unrecorded'
  BY DEF Next, Advance, vars, files, IntentNew, IntentGoAhead, IntentSkip, IntentRefuse,
     WriteIntent, RenameIntent, ToolApplies, ToolFails, TransportFails, OutcomeKnown,
     OutcomeUnknown, WriteOutcome, RenameOutcome, OutcomeLost, QueueDone, Crash, Resume
<1>2. CASE UNCHANGED <<disk, applied, failedOnce>>
  BY <1>1, <1>2, SameAccount
<1>3. ASSUME NEW r \in Runs, NEW k \in {0, 1}, pc[r] = "execute",
             applied' = [applied EXCEPT ![Cur(r)] = @ + k],
             UNCHANGED <<disk, failedOnce, unrecorded>>
      PROVE  Accounted(i)'
  <2>1. Cur(r) \in Calls
    BY <1>3, CurrentCall DEF IInv, Bracket, Executing
  <2> QED
    BY <1>3, <2>1, ToolAccount DEF IInv
<1>4. ASSUME NEW r \in Runs, ToolApplies(r) PROVE Accounted(i)'
  BY <1>3, <1>4 DEF ToolApplies, files
<1>5. ASSUME NEW r \in Runs, TransportFails(r) PROVE Accounted(i)'
  BY <1>3, <1>5 DEF TransportFails, files
<1>6. ASSUME NEW r \in Runs, RenameIntent(r) PROVE Accounted(i)'
  <2>1. UNCHANGED unrecorded
    BY <1>6 DEF RenameIntent
  <2> QED
    BY <1>2, <1>6, <2>1, RenamedIntent, PublishAccount DEF IInv
<1>7. ASSUME NEW r \in Runs, RenameOutcome(r) PROVE Accounted(i)'
  <2>1. CASE UNCHANGED <<disk, failedOnce>>
    BY <1>2, <1>7, <2>1, RenamedOutcome
  <2>2. CASE ~UNCHANGED <<disk, failedOnce>>
    <3>1. PICK e \in Entry : /\ e.status = "failed" \/ Hit(CurId(r))
                             /\ disk' = [disk EXCEPT ![CurId(r)] = e]
      BY <1>7, <2>2, RenamedOutcome
    <3>2. /\ CurId(r) \in Ids /\ UNCHANGED <<applied, unrecorded>>
          /\ failedOnce' = failedOnce \cup {k \in Ids : disk'[k].status = "failed"}
      BY <1>7, <2>2, RenamedOutcome
    <3> QED
      BY <3>1, <3>2, PublishAccount DEF IInv
  <2> QED
    BY <2>1, <2>2
<1>8. CASE \/ UNCHANGED <<disk, applied, failedOnce>>
           \/ \E r \in Runs :
                 RenameIntent(r) \/ RenameOutcome(r) \/ ToolApplies(r) \/ TransportFails(r)
  BY <1>2, <1>4, <1>5, <1>6, <1>7, <1>8
<1> QED
  BY <1>8 DEF Next, Advance, vars, files, Torn, IntentNew, IntentGoAhead, IntentSkip,
     IntentRefuse, WriteIntent, ToolFails, OutcomeKnown, OutcomeUnknown, WriteOutcome,
     OutcomeLost, QueueDone, Crash, Resume

\* A call whose outcome could not be recorded is named in an event, and its entry
\* is as it was: pending, or of a failure or an effect before.
LEMMA LostIsSeen ==
    ASSUME IInv, NEW r \in Runs, OutcomeLost(r), UNCHANGED <<disk, applied>>,
           NEW i \in Ids, i = CurId(r), disk[i].status # "absent"
    PROVE  Accounted(i)'
<1>1. disk[i].status \in {"pending", "applied", "failed"}
  BY DEF IInv, TypeOK, Journals, Entry, Statuses
<1>2. i \in unrecorded' /\ UNCHANGED failedOnce
  BY DEF OutcomeLost
<1>3. CASE disk[i].status = "pending"
  BY <1>2, <1>3 DEF Accounted
<1>4. CASE disk[i].status \in {"applied", "failed"}
  <2>1. Hit(i) \/ i \in failedOnce
    BY <1>4 DEF IInv, JournalIsTrue
  <2> QED
    BY <1>2, <2>1 DEF Accounted, Hit
<1> QED
  BY <1>1, <1>3, <1>4

\* The call the loop leaves is accounted for.
LEMMA LeftBehind ==
    ASSUME IInv, [Next]_vars, NEW r \in Runs, pos'[r] # pos[r], pos'[r] # 1,
           NEW i, i = CurId(r)
    PROVE  pos'[r] = pos[r] + 1 /\ i \in Ids /\ Accounted(i)'
<1>1. CASE IntentSkip(r)
  <2>1. pos'[r] = pos[r] + 1 /\ HasCall(r)
    BY <1>1 DEF IntentSkip, NextCall, IInv, TypeOK
  <2>2. i \in Ids
    BY <2>1, CurrentCall
  <2>3. Accounted(i)
    BY <1>1, <2>2 DEF IntentSkip, Accounted, IInv, JournalIsTrue
  <2> QED
    BY <2>1, <2>2, <2>3, AccountStays
<1>2. CASE OutcomeLost(r) /\ UNCHANGED <<disk, applied>>
           /\ pc[r] \in {"writeOutcome", "renameOutcome"}
  <2>1. pos'[r] = pos[r] + 1
    BY <1>2 DEF OutcomeLost, AfterOutcome, NextCall, IInv, TypeOK
  <2>2. i \in Ids /\ disk[i].status # "absent"
    BY <1>2, CurrentCall DEF IInv, Bracket, SavingOutcome
  <2> QED
    BY <1>2, <2>1, <2>2, LostIsSeen
<1>3. CASE RenameOutcome(r) /\ ~(OutcomeLost(r) /\ UNCHANGED disk)
  <2>1. pos'[r] = pos[r] + 1
    BY <1>3 DEF RenameOutcome, OutcomeLost, AfterOutcome, NextCall, IInv, TypeOK
  <2>2. PICK e \in Entry :
              /\ CurId(r) \in Ids
              /\ e.status = "failed" \/ Hit(CurId(r))
              /\ disk' = [disk EXCEPT ![CurId(r)] = e]
              /\ failedOnce' = failedOnce \cup {k \in Ids : disk'[k].status = "failed"}
              /\ UNCHANGED applied
    BY <1>3, RenamedOutcome
  <2>3. i \in Ids
    BY <1>3, CurrentCall DEF IInv, Bracket, SavingOutcome, RenameOutcome
  <2>4. CASE Hit(i)
    BY <2>1, <2>3, <2>4, AccountStays DEF Accounted
  <2>5. CASE e.status = "failed"
    <3>1. disk'[i] = e
      BY <2>2, <2>3 DEF IInv, TypeOK, Journals
    <3>2. i \in failedOnce'
      BY <2>2, <2>3, <2>5, <3>1
    <3> QED
      BY <2>1, <2>3, <3>2 DEF Accounted
  <2> QED
    BY <2>2, <2>4, <2>5
<1>4. CASE RenameOutcome(r) \/ WriteOutcome(r)
  <2>1. CASE OutcomeLost(r) /\ UNCHANGED disk
    <3>1. pc[r] \in {"writeOutcome", "renameOutcome"} /\ UNCHANGED applied
      BY <1>4 DEF RenameOutcome, WriteOutcome
    <3> QED
      BY <1>2, <2>1, <3>1
  <2>2. CASE WriteOutcome(r)
    <3>1. UNCHANGED pos \/ (OutcomeLost(r) /\ UNCHANGED disk)
      BY <2>2 DEF WriteOutcome, Torn
    <3> QED
      BY <2>1, <3>1
  <2>3. CASE RenameOutcome(r)
    BY <1>3, <2>1, <2>3
  <2> QED
    BY <1>4, <2>2, <2>3
<1>5. ~OutcomeUnknown(r)
  BY DEF IInv, Bracket, SavingOutcome, OutcomeUnknown
<1>6. Advance(r) \/ Crash(r) \/ Resume(r)
  BY OneMoves DEF Next, vars, IInv
<1> QED
  BY <1>1, <1>4, <1>5, <1>6 DEF Advance, files, IInv, TypeOK,
     IntentNew, IntentGoAhead, IntentRefuse, WriteIntent, RenameIntent, ToolApplies,
     ToolFails, TransportFails, OutcomeKnown, QueueDone, Crash, Resume

\* A run is done only by finding no further call, and does not move after that.
LEMMA DoneStep ==
    ASSUME IInv, Past, [Next]_vars, NEW r \in Runs, pc'[r] = "done"
    PROVE  ~HasCall(r)'
<1>1. CASE QueueDone(r)
  BY <1>1 DEF QueueDone, HasCall
<1>2. CASE UNCHANGED <<pc[r], pos[r]>>
  BY <1>2 DEF Past, HasCall
<1>3. CASE Advance(r) \/ Crash(r) \/ Resume(r)
  BY <1>1, <1>3 DEF Advance, Goto, AfterOutcome, OutcomeLost, Torn, NextCall, IInv,
     TypeOK, IntentNew, IntentGoAhead, IntentSkip, IntentRefuse, WriteIntent,
     RenameIntent, ToolApplies, ToolFails, TransportFails, OutcomeKnown,
     OutcomeUnknown, WriteOutcome, RenameOutcome, Crash, Resume
<1> QED
  BY <1>2, <1>3, OneMoves DEF Next, vars, IInv

\* Past is kept by every step.
LEMMA PastStep == IInv /\ Past /\ [Next]_vars => Past'
<1> SUFFICES ASSUME IInv, Past, [Next]_vars, NEW r \in Runs
             PROVE  /\ \A n \in 1..Len(Queue[r]) :
                          n < pos'[r] => Accounted(EffectId[Queue[r][n]])'
                    /\ pc'[r] = "done" => ~HasCall(r)'
  BY DEF Past
<1>1. ASSUME NEW n \in 1..Len(Queue[r]), n < pos'[r]
      PROVE  Accounted(EffectId[Queue[r][n]])'
  <2>1. EffectId[Queue[r][n]] \in Ids
    BY JournalAssumption
  <2>2. CASE n < pos[r]
    BY <2>1, <2>2, AccountStays DEF Past
  <2>3. CASE ~(n < pos[r])
    <3>1. pos[r] \in Nat \ {0} /\ pos'[r] # pos[r] /\ pos'[r] # 1
      BY <1>1, <2>3 DEF IInv, TypeOK
    <3>2. pos'[r] = pos[r] + 1
      BY <3>1, LeftBehind
    <3>3. n = pos[r]
      BY <1>1, <2>3, <3>1, <3>2
    <3>4. EffectId[Queue[r][n]] = CurId(r)
      BY <3>3 DEF CurId, Cur
    <3> QED
      BY <2>1, <3>1, <3>4, LeftBehind
  <2> QED
    BY <2>2, <2>3
<1> QED
  BY <1>1, DoneStep

\* The loop of execute_tool over its queue: a run that reports its queue done
\* has left no call without an effect, a journalled failure or a skip record,
\* through any crashes and replays.
THEOREM QueueIsAccounted == Spec /\ []Serial => []QueueAccounted
<1>1. Init => Past
  <2>1. \A r \in Runs : \A n \in 1..Len(Queue[r]) : ~(n < 1)
    BY JournalAssumption
  <2> QED
    BY <2>1 DEF Init, Past
<1>2. IInv /\ Past => QueueAccounted
  <2> SUFFICES ASSUME IInv, Past, NEW r \in Runs, pc[r] = "done",
                      NEW n \in 1..Len(Queue[r])
               PROVE  Accounted(EffectId[Queue[r][n]])
    BY DEF QueueAccounted
  <2>1. pos[r] \in Nat \ {0} /\ ~(pos[r] \in 1..Len(Queue[r]))
    BY DEF IInv, TypeOK, Past, HasCall
  <2>2. Len(Queue[r]) \in Nat
    BY JournalAssumption
  <2>3. n < pos[r]
    BY <2>1, <2>2
  <2> QED
    BY <2>3 DEF Past
<1>3. IInv /\ Past /\ [Next]_vars => Past'
  BY PastStep
<1> QED
  BY <1>1, <1>2, <1>3, Inductive, PTL DEF Spec

-----------------------------------------------------------------------------
\* A run that has the store to itself keeps both conditions, so the journal
\* promises it everything.
THEOREM OneOwner ==
    ASSUME Solo
    PROVE  Spec => /\ [](RepeatNeedsCause /\ IntentIsDurable /\ QueueAccounted)
                   /\ AppliedIsFinal
<1>1. Serial
  BY DEF Solo, Serial
<1>2. Owned
  BY DEF Solo, Owned
<1> QED
  BY <1>1, <1>2, RepeatsAreOwed, IntentFirst, QueueIsAccounted, AppliedStays, PTL

-----------------------------------------------------------------------------
(* Progress, for any number of runs and however their saves overlap: the   *)
(* safety half of Settles.  What remains of a run's loop is a number that  *)
(* every step of the run makes smaller, and only a resume makes larger.    *)

\* The steps left in the bracket of the current call.
Left == [intent |-> 7, writeIntent |-> 6, renameIntent |-> 5, execute |-> 4,
         outcome |-> 3, writeOutcome |-> 2, renameOutcome |-> 1]
Ended == {"done", "failed", "down"}
Rank(r) == IF pc[r] \in Ended THEN 0 ELSE 8 * (Len(Queue[r]) + 1 - pos[r]) + Left[pc[r]]

\* The loop leaves the queue one past its end.
InQueue == \A r \in Runs : pos[r] \in 1..(Len(Queue[r]) + 1)

\* Every step of a run, its crash included, leaves less to do; what another run
\* does leaves it as it is; a resume is the only way back.
StepsDown ==
    [][\A r \in Runs : /\ Advance(r) \/ Crash(r) => Rank(r)' < Rank(r)
                       /\ Rank(r)' <= Rank(r) \/ Resume(r)]_vars

\* The rank of the n-long queue at its p-th call: within bounds, smaller at the
\* next call than anywhere in this one, smaller at a later stage of the call.
LEMMA Weight ==
    ASSUME NEW n \in Nat, NEW p \in 1..(n + 1), NEW k \in 1..7, NEW l \in 1..7
    PROVE  /\ 8 * (n + 1 - p) + k \in 0..(8 * n + 7)
           /\ 8 * (n + 1 - p) + k > 0
           /\ p <= n => 8 * (n + 1 - (p + 1)) + 7 < 8 * (n + 1 - p) + k
           /\ l < k => 8 * (n + 1 - p) + l < 8 * (n + 1 - p) + k
OBVIOUS

LEMMA RankBounds ==
    ASSUME TypeOK, InQueue, NEW r \in Runs
    PROVE  /\ Rank(r) \in 0..(8 * Len(Queue[r]) + 7)
           /\ pc[r] \notin Ended => Rank(r) > 0
<1>1. Len(Queue[r]) \in Nat /\ pos[r] \in 1..(Len(Queue[r]) + 1) /\ pc[r] \in Locations
  BY JournalAssumption DEF InQueue, TypeOK
<1>2. CASE pc[r] \in Ended
  BY <1>1, <1>2 DEF Rank
<1>3. CASE pc[r] \notin Ended
  <2>1. Left[pc[r]] \in 1..7
    BY <1>1, <1>3 DEF Left, Ended, Locations
  <2>2. Rank(r) = 8 * (Len(Queue[r]) + 1 - pos[r]) + Left[pc[r]]
    BY <1>3 DEF Rank
  <2> QED
    BY <1>1, <2>1, <2>2, Weight
<1> QED
  BY <1>2, <1>3

LEMMA RankBoundsNext ==
    (TypeOK /\ InQueue)' => (\A r \in Runs : Rank(r) \in 0..(8 * Len(Queue[r]) + 7))'
<1>1. TypeOK /\ InQueue => \A r \in Runs : Rank(r) \in 0..(8 * Len(Queue[r]) + 7)
  BY RankBounds
<1> QED
  BY <1>1, PTL

\* The loop's step to its next call: from a call the queue has, to one less.
LEMMA RankNext ==
    ASSUME TypeOK, InQueue, InCall, NEW r \in Runs, HasCall(r), pc[r] \notin Ended, NextCall(r)
    PROVE  pos'[r] \in 1..(Len(Queue[r]) + 1) /\ Rank(r)' < Rank(r)
<1>1. /\ Len(Queue[r]) \in Nat /\ pos[r] \in 1..Len(Queue[r])
      /\ pc'[r] = "intent" /\ pos'[r] = pos[r] + 1
  BY JournalAssumption DEF HasCall, TypeOK, NextCall, Goto
<1>2. Left[pc[r]] \in 1..7
  BY DEF Left, Ended, Locations, TypeOK
<1>3. Rank(r) = 8 * (Len(Queue[r]) + 1 - pos[r]) + Left[pc[r]]
  BY DEF Rank
<1>4. Rank(r)' = 8 * (Len(Queue[r]) + 1 - (pos[r] + 1)) + 7
  BY <1>1 DEF Rank, Left, Ended
<1>5. \A k \in 1..7 : 8 * (Len(Queue[r]) + 1 - (pos[r] + 1)) + 7
                      < 8 * (Len(Queue[r]) + 1 - pos[r]) + k
  <2>1. pos[r] \in 1..(Len(Queue[r]) + 1) /\ pos[r] <= Len(Queue[r])
    BY <1>1
  <2> QED
    BY <1>1, <2>1, Weight
<1>6. pos'[r] \in 1..(Len(Queue[r]) + 1)
  BY <1>1
<1> QED
  BY <1>2, <1>3, <1>4, <1>5, <1>6

LEMMA RankStep ==
    ASSUME TypeOK, InQueue, InCall, NEW r \in Runs, Advance(r) \/ Crash(r)
    PROVE  pos'[r] \in 1..(Len(Queue[r]) + 1) /\ Rank(r)' < Rank(r)
<1> USE DEF TypeOK
<1>1. Len(Queue[r]) \in Nat /\ pos[r] \in 1..(Len(Queue[r]) + 1)
  BY JournalAssumption DEF InQueue
<1>2. pc[r] \notin Ended
  BY DEF Ended, Advance, IntentNew, IntentGoAhead, IntentSkip, IntentRefuse, WriteIntent,
     RenameIntent, ToolApplies, ToolFails, TransportFails, OutcomeKnown, OutcomeUnknown,
     WriteOutcome, RenameOutcome, QueueDone, Crash
<1>3. ASSUME UNCHANGED pos, pc'[r] \in Ended
      PROVE  pos'[r] \in 1..(Len(Queue[r]) + 1) /\ Rank(r)' < Rank(r)
  <2>1. Rank(r)' = 0
    BY <1>3 DEF Rank
  <2> QED
    BY <1>1, <1>2, <1>3, <2>1, RankBounds
<1>4. ASSUME UNCHANGED pos, pc[r] \in DOMAIN Left, pc'[r] \in DOMAIN Left,
             Left[pc'[r]] < Left[pc[r]]
      PROVE  pos'[r] \in 1..(Len(Queue[r]) + 1) /\ Rank(r)' < Rank(r)
  <2>1. pc[r] \notin Ended /\ pc'[r] \notin Ended
    BY <1>4 DEF Left, Ended
  <2>2. Left[pc[r]] \in 1..7 /\ Left[pc'[r]] \in 1..7
    BY <1>4 DEF Left
  <2>3. /\ Rank(r) = 8 * (Len(Queue[r]) + 1 - pos[r]) + Left[pc[r]]
        /\ Rank(r)' = 8 * (Len(Queue[r]) + 1 - pos[r]) + Left[pc'[r]]
    BY <1>4, <2>1 DEF Rank
  <2>4. \A k, l \in 1..7 : l < k => 8 * (Len(Queue[r]) + 1 - pos[r]) + l
                                   < 8 * (Len(Queue[r]) + 1 - pos[r]) + k
    BY <1>1, Weight
  <2> QED
    BY <1>1, <1>4, <2>2, <2>3, <2>4
<1>5. CASE \/ IntentRefuse(r) \/ QueueDone(r) \/ Crash(r)
           \/ ((WriteIntent(r) \/ RenameIntent(r)) /\ pc'[r] = "failed")
  BY <1>3, <1>5 DEF Goto, Ended, IntentRefuse, QueueDone, Crash, WriteIntent, RenameIntent
<1>6. CASE IntentNew(r) \/ IntentGoAhead(r)
  BY <1>4, <1>6 DEF Goto, Left, IntentNew, IntentGoAhead
<1>7. CASE (WriteIntent(r) \/ RenameIntent(r)) /\ pc'[r] # "failed"
  BY <1>4, <1>7 DEF Goto, Left, WriteIntent, RenameIntent
<1>8. CASE ToolApplies(r) \/ ToolFails(r) \/ TransportFails(r)
  BY <1>4, <1>8 DEF Goto, Left, ToolApplies, ToolFails, TransportFails
<1>9. CASE OutcomeKnown(r) \/ (WriteOutcome(r) /\ ~OutcomeLost(r))
  BY <1>4, <1>9 DEF Goto, Left, OutcomeKnown, WriteOutcome
<1>10. CASE IntentSkip(r)
  BY <1>2, <1>10, RankNext DEF IntentSkip
<1>11. CASE OutcomeUnknown(r) \/ RenameOutcome(r) \/ (WriteOutcome(r) /\ OutcomeLost(r))
  <2>1. HasCall(r) /\ AfterOutcome(r)
    BY <1>11 DEF InCall, OutcomeUnknown, WriteOutcome, RenameOutcome, OutcomeLost
  <2>2. CASE broken[r]
    BY <1>3, <2>1, <2>2 DEF AfterOutcome, Goto, Ended
  <2>3. CASE ~broken[r]
    BY <1>2, <2>1, <2>3, RankNext DEF AfterOutcome
  <2> QED
    BY <2>2, <2>3
<1> QED
  BY <1>5, <1>6, <1>7, <1>8, <1>9, <1>10, <1>11 DEF Advance

LEMMA InQueueStep == TypeOK /\ InQueue /\ InCall /\ [Next]_vars => InQueue'
<1> SUFFICES ASSUME TypeOK, InQueue, InCall, [Next]_vars, NEW s \in Runs
             PROVE  pos'[s] \in 1..(Len(Queue[s]) + 1)
  BY DEF InQueue
<1>1. CASE UNCHANGED pos[s]
  BY <1>1 DEF InQueue
<1>2. CASE Advance(s) \/ Crash(s)
  BY <1>2, RankStep
<1>3. CASE Resume(s)
  <2>1. pos'[s] = 1 /\ Len(Queue[s]) \in Nat
    BY <1>3, JournalAssumption DEF Resume, TypeOK
  <2> QED
    BY <2>1
<1> QED
  BY <1>1, <1>2, <1>3, OneMoves DEF Next, vars

\* execute_tool's loop over its queue (runtime.go): each run, whatever the other
\* runs do to its saves, makes at most 8 * Len(Queue[r]) + 7 steps between two
\* resumes, for every step of it leaves less of the rank.  It never spins.
THEOREM EachStepCounts ==
    Spec => /\ [](\A r \in Runs : Rank(r) \in 0..(8 * Len(Queue[r]) + 7))
            /\ StepsDown
<1> DEFINE Down == \A r \in Runs : /\ Advance(r) \/ Crash(r) => Rank(r)' < Rank(r)
                                   /\ Rank(r)' <= Rank(r) \/ Resume(r)
           In == \A r \in Runs : Rank(r) \in 0..(8 * Len(Queue[r]) + 7)
<1>1. Init => InQueue
  <2> SUFFICES ASSUME Init, NEW r \in Runs PROVE 1 \in 1..(Len(Queue[r]) + 1)
    BY DEF Init, InQueue
  <2>1. Len(Queue[r]) \in Nat
    BY JournalAssumption
  <2> QED
    BY <2>1
<1>2. TypeOK /\ InQueue /\ InCall /\ [Next]_vars => InQueue'
  BY InQueueStep
<1>3. TypeOK /\ InQueue => In
  BY RankBounds
<1>4. TypeOK /\ InQueue /\ InCall /\ [Next]_vars => [Down]_vars
  <2> SUFFICES ASSUME TypeOK, InQueue, InCall, Next, NEW s \in Runs
               PROVE  /\ Advance(s) \/ Crash(s) => Rank(s)' < Rank(s)
                      /\ Rank(s)' <= Rank(s) \/ Resume(s)
    OBVIOUS
  <2>1. Advance(s) \/ Crash(s) => Rank(s)' < Rank(s)
    BY RankStep
  <2>2. Rank(s) \in Nat
    BY RankBounds, JournalAssumption
  <2>3. CASE Advance(s) \/ Crash(s)
    <3>1. Rank(s)' \in Nat
      <4>1. Rank(s)' \in 0..(8 * Len(Queue[s]) + 7)
        BY InQueueStep, TypeStep, RankBoundsNext
      <4> QED
        BY <4>1, JournalAssumption
    <3> QED
      BY <2>1, <2>2, <2>3, <3>1
  <2>4. CASE UNCHANGED <<pc[s], pos[s]>>
    <3>1. Rank(s)' = Rank(s)
      BY <2>4 DEF Rank
    <3>2. Rank(s)' <= Rank(s)
      BY <2>2, <3>1
    <3> QED
      BY <2>1, <3>2
  <2>5. CASE Resume(s)
    BY <2>1, <2>5
  <2> QED
    BY <2>1, <2>3, <2>4, <2>5, OneMoves DEF Next
<1> QED
  BY <1>1, <1>2, <1>3, <1>4, TypesHold, PTL DEF Spec, StepsDown
=============================================================================
