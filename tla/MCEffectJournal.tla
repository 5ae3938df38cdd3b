-------------------------- MODULE MCEffectJournal --------------------------
(* Instances of EffectJournal for TLC: one run replaying a queue that mixes  *)
(* the recovery policies and reuses a tool call id, and two runs that share  *)
(* the store.                                                               *)
EXTENDS EffectJournalSerial

CONSTANTS r1, r2, edit, delete, read, custom, again, fxEdit, fxDelete, fxRead, fxCustom

MCKind == [c \in Calls |->
    CASE c = read   -> "read-only"
      [] c = delete -> "destructive"
      [] c = custom -> "other"
      [] OTHER      -> "side-effecting"]

\* "again" is a later call that came back from the model with edit's id.
MCEffectId == [c \in Calls |->
    CASE c = read   -> fxRead
      [] c = delete -> fxDelete
      [] c = custom -> fxCustom
      [] OTHER      -> fxEdit]

SoloQueue == [r \in Runs |-> <<edit, read, custom, again>>]
PairQueue == [r \in Runs |-> IF r = r1 THEN <<edit>> ELSE <<delete>>]

=============================================================================
