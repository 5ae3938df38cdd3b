---------------------------- MODULE RunLifecycle ----------------------------
(***************************************************************************)
(* What the daemon promises the clients of a run id, whatever its map, its *)
(* goroutines and its locks do: an id is held by one life at a time, the   *)
(* recorded status moves only along the life that holds it, an end is      *)
(* recorded before the id is free, and a restart takes back nothing but a  *)
(* claim that is no longer true.  DaemonRuns implements it.                *)
(***************************************************************************)
CONSTANT RunIds

VARIABLES
    status,   \* the status of each run record
    hold,     \* "free", "begun" (reserved, not recorded yet) or "held"
    loose     \* a run was started while a drain unwound: nothing is promised

vars == <<status, hold, loose>>

Final    == {"complete", "failed", "cancelled", "interrupted"}
Verdicts == {"complete", "failed", "cancelled", "yielded", "awaiting_approval"}

Init ==
    /\ status = [i \in RunIds |-> "absent"]
    /\ hold = [i \in RunIds |-> "free"]
    /\ loose = FALSE

Begin(i) ==
    /\ hold[i] = "free"
    /\ hold' = [hold EXCEPT ![i] = "begun"]
    /\ UNCHANGED status

Run(i) ==
    /\ hold[i] = "begun"
    /\ hold' = [hold EXCEPT ![i] = "held"]
    /\ status' = [status EXCEPT ![i] = "running"]

\* A life stops, or stops again after an answer.
Settle(i) ==
    /\ hold[i] = "held" /\ status[i] \in {"running", "awaiting_approval"}
    /\ \E v \in Verdicts : status' = [status EXCEPT ![i] = v]
    /\ UNCHANGED hold

\* An id is given up once its status says what became of it.
Leave ==
    /\ \E left \in SUBSET {i \in RunIds : hold[i] = "held" /\ status[i] \in Verdicts} :
          hold' = [i \in RunIds |-> IF i \in left THEN "free" ELSE hold[i]]
    /\ UNCHANGED status

Crash ==
    /\ hold' = [i \in RunIds |-> "free"]
    /\ UNCHANGED status

\* Statuses that are final stay; any other becomes one that is true.
Reconcile ==
    /\ \A i \in RunIds : hold[i] = "free"
    /\ status' \in [RunIds -> Final \cup {"absent", "awaiting_approval"}]
    /\ \A i \in RunIds :
          IF status[i] \in Final \cup {"absent"} THEN status'[i] = status[i]
          ELSE status'[i] \in {"awaiting_approval", "interrupted"}
    /\ UNCHANGED hold

Strict == \/ \E i \in RunIds : Begin(i) \/ Run(i) \/ Settle(i)
          \/ Leave \/ Crash \/ Reconcile

Next == (Strict /\ UNCHANGED loose) \/ loose'

Spec == Init /\ [][Next]_vars
=============================================================================
