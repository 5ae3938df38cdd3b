---------------------------- MODULE MCNativeAgent ----------------------------
(* Instances of NativeAgent for TLC: a harmless read, a write that the       *)
(* policy asks about, in two contents under one tool call id, and a look that *)
(* the policy allows under that same id.                                     *)
EXTENDS NativeAgent, TLC

CONSTANTS read, look, write, rewrite, t1, t2

MCCallId == (read :> t1) @@ (look :> t2) @@ (write :> t2) @@ (rewrite :> t2)
MCKind   == (read :> "read-only") @@ (look :> "read-only")
            @@ (write :> "side-effecting") @@ (rewrite :> "side-effecting")

Want(c) == [kind |-> "call", call |-> c]
Use(n)  == [kind |-> "usage", tokens |-> n]
Done    == [kind |-> "completed"]
Broken  == [kind |-> "error"]

\* Usage is cumulative, some providers report it twice, a model may ask for the
\* same call twice in one reply, and for two contents under one id.
MCReplies ==
    {<<Use(1), Want(read), Want(write), Use(2)>>, <<Want(rewrite), Use(2)>>,
     <<Want(look), Want(write), Use(2)>>, <<Want(write), Want(look), Use(2)>>,
     <<Want(read), Want(read), Use(2)>>,
     <<Use(1), Done>>, <<Broken>>}

\* The journal as it is before the id is first started.
MCEarlier == {[i \in Ids |-> [status |-> "absent", policy |-> "fail"]]}
=============================================================================
