----------------------- MODULE EffectJournalSerial -----------------------
(***************************************************************************)
(* The effect journal as its store was written to be used: one save at a   *)
(* time is under way, and an effect has one owner.  A run alone keeps both *)
(* conditions by itself; several runs over one store do not, for nothing   *)
(* in the code keeps their saves apart.  The module states the conditions  *)
(* and the inductive invariant the safety of the journal rests on.         *)
(***************************************************************************)
EXTENDS EffectJournal

\* Between a load of the journal and the rename that saves it there is no other
\* save: what a mutex around RecordIntent and RecordOutcome would give.
Saving == {"writeIntent", "renameIntent", "writeOutcome", "renameOutcome"}
Serial == \A r, s \in Runs : pc[r] \in Saving /\ pc[s] \in Saving => r = s

\* An effect id stands in the queue of one run only.
Owned ==
    \A r, s \in Runs : \A m \in 1..Len(Queue[r]), n \in 1..Len(Queue[s]) :
        EffectId[Queue[r][m]] = EffectId[Queue[s][n]] => r = s

\* One run owns the journal.
Solo == \A r, s \in Runs : r = s

\* The copy a run holds is the journal plus the one entry it changed.
CopyIsIntent(r) ==
    local[r] = [disk EXCEPT ![CurId(r)] =
                    [status |-> "pending", policy |-> PolicyFor(Cur(r))]]
CopyIsOutcome(r) ==
    local[r] = [disk EXCEPT ![CurId(r)].status = outcome[r]]

\* While a new intent is being saved, the journal does not know the effect.
SavingIntent(r) ==
    /\ pc[r] \in {"writeIntent", "renameIntent"} =>
          /\ HasCall(r)
          /\ disk[CurId(r)].status = "absent"
          /\ CopyIsIntent(r)
    /\ pc[r] = "renameIntent" => tmp = {local[r]}

\* The tool runs under an entry, and the effect has not happened before unless
\* the entry allows a repeat.
Cause(i) == disk[i].policy = "retry" \/ i \in failedOnce
Executing(r) ==
    pc[r] = "execute" =>
        /\ HasCall(r)
        /\ disk[CurId(r)].status # "absent"
        /\ Hit(CurId(r)) => Cause(CurId(r))

\* The outcome goes to the entry the tool ran under.
SavingOutcome(r) ==
    /\ pc[r] \in {"outcome", "writeOutcome", "renameOutcome"} =>
          /\ HasCall(r)
          /\ disk[CurId(r)].status # "absent"
          /\ outcome[r] = "applied" => Hit(CurId(r))
    /\ pc[r] \in {"writeOutcome", "renameOutcome"} => CopyIsOutcome(r)
    /\ pc[r] = "renameOutcome" => tmp = {local[r]}

Bracket(r) == SavingIntent(r) /\ Executing(r) /\ SavingOutcome(r)

\* Two runs run the tool for one effect at once only if a repeat is allowed.
Shared ==
    \A r, s \in Runs :
        pc[r] = "execute" /\ pc[s] = "execute" /\ CurId(r) = CurId(s) =>
            r = s \/ Cause(CurId(r))

\* What the journal says of an effect is borne out by the world.
JournalIsTrue ==
    \A i \in Ids :
        /\ disk[i].status = "absent" => ~Hit(i) /\ i \notin failedOnce
        /\ disk[i].status = "failed" => i \in failedOnce
        /\ disk[i].status = "applied" => Hit(i)
        /\ HitTwice(i) => Cause(i)

IInv ==
    /\ TypeOK
    /\ \A r \in Runs : Bracket(r)
    /\ Shared
    /\ JournalIsTrue

\* The loop has accounted for every call it left behind, and only a loop that
\* left all of them behind is done.
Past ==
    \A r \in Runs :
        /\ \A n \in 1..Len(Queue[r]) : n < pos[r] => Accounted(EffectId[Queue[r][n]])
        /\ pc[r] = "done" => ~HasCall(r)

\* With one owner, the tool does not run under an entry that says it is applied.
Unapplied == \A r \in Runs : pc[r] = "execute" => disk[CurId(r)].status # "applied"
=============================================================================
