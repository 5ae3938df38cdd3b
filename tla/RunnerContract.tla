--------------------------- MODULE RunnerContract ---------------------------
(***************************************************************************)
(* What the daemon's run table relies on in a runner: RunUntilDone returns *)
(* with a verdict, and the latest checkpoint of the run bears the verdict  *)
(* out.  NativeAgent implements these steps, as soon as the runner knows   *)
(* how it returns; a life of DaemonRuns takes no other steps, and has      *)
(* every return there is here.                                             *)
(***************************************************************************)
VARIABLES
    stage,      \* "none", "going", "ask", "stopped" or "lost"
    verdict,    \* what observe makes of the last return
    saved,      \* the latest checkpoint of the id: "none", "ask" or "safe"
    cancelled   \* the context of the run is cancelled

vars == <<stage, verdict, saved, cancelled>>

Init ==
    /\ stage = "none" /\ verdict = "none"
    /\ saved = "none" /\ cancelled = FALSE

\* A new life of the id, which may be cancelled before it begins.  The
\* checkpoints of an earlier one stay.
Begin ==
    /\ stage \in {"none", "stopped"}
    /\ stage' = "going" /\ verdict' = "none" /\ cancelled' \in BOOLEAN
    /\ UNCHANGED saved

Cancel ==
    /\ stage # "none" /\ ~cancelled
    /\ cancelled' = TRUE
    /\ UNCHANGED <<stage, verdict, saved>>

\* RunUntilDone returns.  A run that reports an end or a pause has a checkpoint
\* that does not ask, unless it was cancelled: the error of that checkpoint is
\* dropped.  A run that fails has written nothing.
Stop ==
    /\ stage = "going" /\ stage' = "stopped"
    /\ \/ verdict' \in {"complete", "yielded"} /\ saved' = "safe"
       \/ cancelled /\ verdict' \in {"cancelled", "yielded"} /\ saved' \in {"safe", saved}
       \/ verdict' = (IF cancelled THEN "cancelled" ELSE "failed") /\ saved' = saved
    /\ UNCHANGED cancelled

\* It returns to ask, and the request is on disk.
Ask ==
    /\ stage = "going" /\ stage' = "ask"
    /\ verdict' = "awaiting_approval" /\ saved' = "ask"
    /\ UNCHANGED cancelled

\* The answer is on disk before the run goes on.
Answer ==
    /\ stage = "ask" /\ stage' = "going"
    /\ verdict' = "none" /\ saved' = "safe"
    /\ UNCHANGED cancelled

\* The answer was taken and could not be written.
Lose ==
    /\ stage = "ask" /\ stage' = "lost"
    /\ UNCHANGED <<verdict, saved, cancelled>>

\* The process ends, or the life is given up.
End ==
    /\ stage' = "none" /\ verdict' = "none" /\ cancelled' = FALSE
    /\ UNCHANGED saved

\* While no runner of this life goes, another life writes the id's checkpoints.
Other ==
    /\ stage = "none" /\ saved' \in {"none", "ask", "safe"}
    /\ UNCHANGED <<stage, verdict, cancelled>>

Return == Stop \/ Ask

Next == Begin \/ Cancel \/ Return \/ Answer \/ Lose \/ End \/ Other

Spec == Init /\ [][Next]_vars
=============================================================================
