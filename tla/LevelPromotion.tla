--------------------------- MODULE LevelPromotion ---------------------------
(***************************************************************************)
(* The promotion of one concurrency level as RunController sees it: which  *)
(* attempt is canonical, which is the latest one, and its phase on disk.   *)
(* RunController publishes, and removes, a canonical directory in one      *)
(* step.  Promotion shows that the file system effects behind it, cut      *)
(* anywhere, allow it.                                                     *)
(***************************************************************************)
EXTENDS Naturals

CONSTANT Retries  \* request.retries

VARIABLES
    last,     \* the latest attempt of the level
    outcome,  \* its phase: "open", "succeeded" or "failed"
    promoted  \* the attempt whose whole tree is canonical, or 0

level == <<last, outcome, promoted>>

Init == last = 1 /\ outcome = "open" /\ promoted = 0

\* RunController's Promote: nothing is put in the place of another attempt.
Promote ==
    /\ outcome = "open"
    /\ promoted \in {0, last}
    /\ promoted' = last
    /\ UNCHANGED <<last, outcome>>

\* The failures that remove what is canonical, before they are saved
Purge ==
    /\ outcome = "open"
    /\ promoted' = 0
    /\ UNCHANGED <<last, outcome>>

Succeed ==
    /\ outcome = "open"
    /\ promoted = last
    /\ outcome' = "succeeded"
    /\ UNCHANGED <<last, promoted>>

Fail ==
    /\ outcome = "open"
    /\ \/ last <= Retries /\ last' = last + 1 /\ UNCHANGED outcome
       \/ last = Retries + 1 /\ outcome' = "failed" /\ UNCHANGED last
    /\ UNCHANGED promoted

Next == Promote \/ Purge \/ Succeed \/ Fail

Spec == Init /\ [][Next]_level
=============================================================================
