---------------------------- MODULE JobLifecycle ----------------------------
(***************************************************************************)
(* The Job of one attempt as RunController sees it: one state, moved by    *)
(* the cluster, by a create that takes effect at any time, and by the      *)
(* deletion; what one look at the Job may show; and the two looks, for the *)
(* Job and for its Pods, behind the answer that both are gone.             *)
(* RunController takes each of these for one step.  JobBackend shows that  *)
(* the kubectl calls and the Pods behind them allow it.                    *)
(***************************************************************************)
VARIABLES
    state,   \* a JobState of RunController
    seen,    \* what the last look at the Job showed
    checked  \* "no", "job" (the Job was not found) or "gone" (nor a Pod)

view == <<state, seen, checked>>

\* The states in which each answer can be given (the guards of RunController's
\* Observe actions); an error teaches nothing and is given at any time.
Shows ==
    [missing |-> {"absent", "draining"},
     admission_pending |-> {"suspended", "deleting"},
     runtime_pending |-> {"pending", "deleting"},
     running |-> {"running", "deleting"},
     failed |-> {"failed", "deleting"},
     succeeded |-> {"succeeded", "deleting"}]

Init == state = "absent" /\ seen = "nothing" /\ checked = "no"

Moves(from, to) ==
    /\ state \in from
    /\ state' = to
    /\ UNCHANGED <<seen, checked>>

\* What was seen before is used up, unless the create was given up long ago.
Create ==
    /\ state \in {"absent", "draining"}
    /\ state' = "suspended"
    /\ seen' \in {seen, "nothing"}
    /\ UNCHANGED checked

Admit == Moves({"suspended"}, "pending")
StartPods == Moves({"pending"}, "running")
EndJob == \E to \in {"succeeded", "failed"} : Moves({"pending", "running"}, to)
Evict == Moves({"pending", "running"}, "suspended")
Delete == Moves({"suspended", "pending", "running", "succeeded", "failed"}, "deleting")
OutsideDelete ==
    \E to \in {"draining", "absent"} :
        Moves({"suspended", "pending", "running", "succeeded", "failed", "deleting"}, to)
PodsGone == Moves({"draining"}, "absent")

Look ==
    /\ seen' \in {"nothing"} \cup {answer \in DOMAIN Shows : state \in Shows[answer]}
    /\ UNCHANGED <<state, checked>>

CheckJob ==
    /\ state \in {"absent", "draining"}
    /\ checked' = "job"
    /\ UNCHANGED <<state, seen>>

CheckPods ==
    /\ checked = "job"
    /\ state \in {"absent", "suspended", "pending"}
    /\ checked' = "gone"
    /\ UNCHANGED <<state, seen>>

\* The call ended, or the service did, before both looks were taken.
CheckAgain ==
    /\ checked # "gone"
    /\ checked' = "no"
    /\ seen' \in {seen, "nothing"}
    /\ UNCHANGED state

Next ==
    \/ Create \/ Admit \/ StartPods \/ EndJob \/ Evict \/ Delete \/ OutsideDelete
    \/ PodsGone \/ Look \/ CheckJob \/ CheckPods \/ CheckAgain

Spec == Init /\ [][Next]_view
=============================================================================
