---------------------------- MODULE RunLifecycle ----------------------------
(***************************************************************************)
(* What the service promises about one benchmark run, as a client and an   *)
(* operator see it: the class of the run, its outcome, and whether         *)
(* anything of it is left in the cluster.  Attempts, saves, observations   *)
(* and the order of calls are all hidden; RunController shows how they are *)
(* arranged to keep this promise, and Service what it means for capacity   *)
(* and retention.                                                          *)
(***************************************************************************)

VARIABLES
    status,  \* "none", "active", "canceling" (terminal, cleanup pending),
             \* "over" (terminal and clean) or "gone" (deleted by retention)
    outcome, \* the terminal state, once there is one
    live     \* does a Job of this run, or a Pod of one, exist?

promise == <<status, outcome, live>>

Init ==
    /\ status = "none"
    /\ outcome = "none"
    /\ live = FALSE

Accept ==
    /\ status = "none"
    /\ status' = "active"
    /\ UNCHANGED <<outcome, live>>

\* A Job is created for an active run only.
Start ==
    /\ status = "active"
    /\ ~live
    /\ live' = TRUE
    /\ UNCHANGED <<status, outcome>>

\* The last trace of a Job disappears while the run still holds capacity.
Stop ==
    /\ status \in {"active", "canceling"}
    /\ live
    /\ live' = FALSE
    /\ UNCHANGED <<status, outcome>>

Cancel ==
    /\ status = "active"
    /\ status' = "canceling"
    /\ outcome' = "canceled"
    /\ UNCHANGED live

\* The sweep ends, or a run without an attempt is canceled.
Finish ==
    /\ status = "active"
    /\ ~live
    /\ status' = "over"
    /\ outcome' \in {"completed", "partial", "failed", "canceled"}
    /\ UNCHANGED live

\* The cleanup of a canceled run ends.
Close ==
    /\ status = "canceling"
    /\ ~live
    /\ status' = "over"
    /\ UNCHANGED <<outcome, live>>

\* Retention deletes runs that are over, and nothing else does.
Forget ==
    /\ status = "over"
    /\ status' = "gone"
    /\ UNCHANGED <<outcome, live>>

Next == Accept \/ Start \/ Stop \/ Cancel \/ Finish \/ Close \/ Forget

Spec == Init /\ [][Next]_promise
=============================================================================
