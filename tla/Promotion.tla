------------------------------ MODULE Promotion ------------------------------
(***************************************************************************)
(* How the artifacts of one concurrency level become its canonical result  *)
(* (controller.py: the SUCCEEDED and FAILED branches of _reconcile,        *)
(* _persist_job_log, _promote_artifacts, _bounded_artifact_hashes and      *)
(* _replace_oversized_attempt).  RunController takes a promotion for one   *)
(* step; here it is a sequence of file system effects, and a restart may   *)
(* come between any two of them.  One thread works on a level at a time:   *)
(* the run's lock is held throughout.                                      *)
(*                                                                         *)
(* A tree of files is abstracted to what hashing it can tell: the attempt  *)
(* and the execution of its Job that wrote it, the log that was added,     *)
(* whether promotion accepts it, and whether any of it has been removed.   *)
(***************************************************************************)
EXTENDS Naturals

CONSTANTS
    Retries,     \* request.retries
    Logs,        \* what kubectl logs may return for one finished Job
    NoLog,
    MaxInterruptions, \* bound on restarts and on saves that raise
    MaxErrors         \* bound on failed promotions, lost logs, outside deletions

ASSUME RetriesAssumption == Retries \in Nat
ASSUME BoundsAssumption == MaxInterruptions \in Nat /\ MaxErrors \in Nat
ASSUME LogsAssumption == Logs # {} /\ NoLog \notin Logs

Attempts == 1 .. Retries + 1

\* "good" has a valid profile within the limits, "malformed" has not,
\* "oversized" exceeds a limit; "replaced" holds artifact-limit-error.json only.
Kind == {"good", "malformed", "oversized", "replaced"}
Tree == [attempt : Attempts, execution : 0 .. MaxErrors + 1,
         log : Logs \cup {NoLog}, kind : Kind, whole : BOOLEAN]

\* A directory of the run: absent, a part of a tree (a copy or a removal that
\* was cut short), or a tree with the marker of its promotion.
Absent == [is |-> "absent"]
Partial == [is |-> "partial"]
Sealed(tree) == [is |-> "sealed", tree |-> tree]
Directory == {Absent, Partial} \cup {Sealed(tree) : tree \in Tree}

VARIABLES
    attempt,   \* the latest attempt of the level, on disk
    phase,     \* its phase on disk
    job,       \* its Job: "running", "succeeded" or "failed"
    source,    \* the attempt directories
    staging,   \* the directories .cN.promoting-a
    canonical, \* the canonical directory of the level
    pc,        \* where the reconciling thread is
    interruptions, errors

vars == <<attempt, phase, job, source, staging, canonical, pc, interruptions, errors>>
files == <<source, staging, canonical>>
disk == <<attempt, phase>>
faults == <<interruptions, errors>>

PC == {"idle", "log", "check", "stage", "seal", "publish",
       "purge_canonical", "purge_source", "succeed", "fail"}

TypeOK ==
    /\ attempt \in Attempts
    /\ phase \in {"open", "succeeded", "failed"}
    /\ job \in {"running", "succeeded", "failed"}
    /\ source \in [Attempts -> Tree]
    /\ staging \in [Attempts -> Directory]
    /\ canonical \in Directory
    /\ pc \in PC
    /\ interruptions \in 0..MaxInterruptions
    /\ errors \in 0..MaxErrors

EmptyTree(a) ==
    [attempt |-> a, execution |-> 0, log |-> NoLog, kind |-> "malformed", whole |-> TRUE]

Init ==
    /\ attempt = 1
    /\ phase = "open"
    /\ job = "running"
    /\ source = [a \in Attempts |-> EmptyTree(a)]
    /\ staging = [a \in Attempts |-> Absent]
    /\ canonical = Absent
    /\ pc = "idle"
    /\ interruptions = 0
    /\ errors = 0

Interrupted ==
    /\ interruptions < MaxInterruptions
    /\ interruptions' = interruptions + 1
    /\ UNCHANGED errors
Failed ==
    /\ errors < MaxErrors
    /\ errors' = errors + 1
    /\ UNCHANGED interruptions

Goto(from, to) == pc = from /\ pc' = to

-----------------------------------------------------------------------------
(* The Job *)

\* The Job writes its artifacts into the attempt directory and ends.
JobEnds ==
    /\ job = "running"
    /\ job' \in {"succeeded", "failed"}
    /\ \E kind \in Kind \ {"replaced"} :
           source' = [source EXCEPT ![attempt].kind = kind,
                                    ![attempt].execution = @ + 1,
                                    ![attempt].whole = TRUE]
    /\ UNCHANGED <<disk, staging, canonical, pc, faults>>

\* Somebody else deletes the Job, and _recreate_missing_job runs it again.
JobRerun ==
    /\ phase = "open"
    /\ pc = "idle"
    /\ job # "running"
    /\ job' = "running"
    /\ Failed
    /\ UNCHANGED <<disk, files, pc>>

-----------------------------------------------------------------------------
(* An observation of the Job that has ended *)

Observe ==
    /\ phase = "open"
    /\ job # "running"
    /\ Goto("idle", "log")
    /\ UNCHANGED <<disk, job, files, faults>>

\* _persist_job_log, for every observation anew; an error is a warning.
PersistLog ==
    /\ Goto("log", "check")
    /\ \/ /\ \E log \in Logs : source' = [source EXCEPT ![attempt].log = log]
          /\ UNCHANGED faults
       \/ UNCHANGED source /\ Failed
    /\ UNCHANGED <<disk, job, staging, canonical>>

Check(to) ==
    /\ Goto("check", to)
    /\ UNCHANGED <<disk, job, files, faults>>

\* ArtifactLimitError from the hashes of the attempt directory
CheckOversized ==
    /\ source[attempt].kind = "oversized"
    /\ Check("purge_canonical")

CheckFailedJob ==
    /\ job = "failed"
    /\ source[attempt].kind # "oversized"
    /\ Check("fail")

\* The profile is missing or too large, or has no measurement window.
CheckMalformed ==
    /\ job = "succeeded"
    /\ source[attempt].kind \in {"malformed", "replaced"}
    /\ Check("fail")

Promotable == job = "succeeded" /\ source[attempt].kind = "good"

\* Mutant: what another attempt has left is replaced.
CheckReplacing ==
    /\ Promotable
    /\ canonical # Sealed(source[attempt])
    /\ Check("stage")

CheckNew ==
    /\ Promotable
    /\ canonical = Absent
    /\ Check("stage")

\* Mutant: only the numbers in the marker are compared.
AcceptSameNumber ==
    /\ Promotable
    /\ canonical.is = "sealed"
    /\ canonical.tree.attempt = attempt
    /\ Check("succeed")

\* The canonical directory is there already: it must carry the marker of this
\* attempt, and every hash in it must be that of the attempt directory.
AcceptExisting ==
    /\ Promotable
    /\ canonical = Sealed(source[attempt])
    /\ Check("succeed")

RefuseExisting ==
    /\ Promotable
    /\ canonical \notin {Absent, Sealed(source[attempt])}
    /\ Check("fail")

-----------------------------------------------------------------------------
(* The promotion of a verified attempt *)

\* Mutant: what a promotion that was cut short left behind is in the way.
StageOnce ==
    /\ pc = "stage"
    /\ pc' = IF staging[attempt] = Absent THEN "seal" ELSE "fail"
    /\ staging' = [staging EXCEPT ![attempt] = Partial]
    /\ UNCHANGED <<disk, job, source, canonical, faults>>

\* rmtree of an earlier staging directory, copytree, monitoring capture
Stage ==
    /\ Goto("stage", "seal")
    /\ staging' = [staging EXCEPT ![attempt] = Partial]
    /\ UNCHANGED <<disk, job, source, canonical, faults>>

\* Mutant: the canonical directory is filled in place.
SealInPlace ==
    /\ Goto("seal", "publish")
    /\ canonical' = Partial
    /\ staging' = [staging EXCEPT ![attempt] = Sealed(source[attempt])]
    /\ UNCHANGED <<disk, job, source, faults>>

\* The dashboard and the marker with all hashes are written.
Seal ==
    /\ Goto("seal", "publish")
    /\ staging' = [staging EXCEPT ![attempt] = Sealed(source[attempt])]
    /\ UNCHANGED <<disk, job, source, canonical, faults>>

\* os.replace
Publish ==
    /\ Goto("publish", "succeed")
    /\ canonical' = staging[attempt]
    /\ staging' = [staging EXCEPT ![attempt] = Absent]
    /\ UNCHANGED <<disk, job, source, faults>>

\* A step raised: the staging directory is removed and the attempt has failed,
\* or, when generated files exceed the limits, is replaced as well.
PromotionFails ==
    /\ pc \in {"stage", "seal", "publish"}
    /\ pc' \in {"fail", "purge_canonical"}
    /\ staging' = [staging EXCEPT ![attempt] = Absent]
    /\ Failed
    /\ UNCHANGED <<disk, job, source, canonical>>

-----------------------------------------------------------------------------
(* _replace_oversized_attempt *)

PurgeCanonical ==
    /\ Goto("purge_canonical", "purge_source")
    /\ canonical' = Absent
    /\ UNCHANGED <<disk, job, source, staging, faults>>

PurgeSource ==
    /\ Goto("purge_source", "fail")
    /\ source' = [source EXCEPT ![attempt].kind = "replaced",
                                ![attempt].log = NoLog,
                                ![attempt].whole = FALSE]
    /\ UNCHANGED <<disk, job, staging, canonical, faults>>

-----------------------------------------------------------------------------
(* _queue_cleanup, and what follows it once the Job is gone *)

SaveSucceeded ==
    /\ Goto("succeed", "idle")
    /\ phase' = "succeeded"
    /\ UNCHANGED <<attempt, job, files, faults>>

\* Mutant: one retry too many.
SaveFailedOnceMore ==
    /\ Goto("fail", "idle")
    /\ IF attempt <= Retries + 1
       THEN attempt' = attempt + 1 /\ job' = "running" /\ UNCHANGED phase
       ELSE phase' = "failed" /\ UNCHANGED <<attempt, job>>
    /\ UNCHANGED <<files, faults>>

SaveFailed ==
    /\ Goto("fail", "idle")
    /\ IF attempt <= Retries
       THEN attempt' = attempt + 1 /\ job' = "running" /\ UNCHANGED phase
       ELSE phase' = "failed" /\ UNCHANGED <<attempt, job>>
    /\ UNCHANGED <<files, faults>>

\* The service restarts, or a save or the replacement of an oversized attempt
\* raises.
Interrupt ==
    /\ pc # "idle"
    /\ pc' = "idle"
    /\ Interrupted
    /\ UNCHANGED <<disk, job, files>>

\* The same within rmtree, which removes one file after another.  What is left
\* of the attempt directory may be within the limits.
InterruptRemoval ==
    /\ pc' = "idle"
    /\ Interrupted
    /\ \/ /\ pc = "purge_canonical"
          /\ canonical # Absent
          /\ canonical' = Partial
          /\ UNCHANGED source
       \/ /\ pc = "purge_source"
          /\ \E kind \in {"good", "malformed", source[attempt].kind},
                log \in {NoLog, source[attempt].log} :
                 source' = [source EXCEPT ![attempt].kind = kind,
                                          ![attempt].log = log,
                                          ![attempt].whole = FALSE]
          /\ UNCHANGED canonical
    /\ UNCHANGED <<disk, job, staging>>

Over == phase # "open" /\ pc = "idle" /\ UNCHANGED vars

Next ==
    \/ JobEnds \/ JobRerun
    \/ Observe \/ PersistLog
    \/ CheckOversized \/ CheckFailedJob \/ CheckMalformed \/ CheckNew
    \/ AcceptExisting \/ RefuseExisting
    \/ Stage \/ Seal \/ Publish \/ PromotionFails
    \/ PurgeCanonical \/ PurgeSource
    \/ SaveSucceeded \/ SaveFailed
    \/ Interrupt \/ InterruptRemoval \/ Over

Spec == Init /\ [][Next]_vars

-----------------------------------------------------------------------------
(* Properties *)

\* A level whose attempt is recorded as succeeded has a canonical directory
\* that is complete and holds exactly the files of that attempt, whatever was
\* there before and wherever earlier promotions were cut short ("atomically
\* promoted ... accepted only when its marker and recomputed hashes match the
\* same attempt", docs/agentx-service.md, Lifecycle).
Published == phase = "succeeded" => canonical = Sealed(source[attempt])

\* Unless it is interrupted, a failed promotion leaves nothing in the way of the next
\* attempt (test_postprocessing_failure_does_not_poison_retry_promotion): the
\* staging directories are gone, and nothing is canonical but a success.
NothingLeftBehind ==
    pc = "idle" /\ interruptions = 0 =>
        /\ \A a \in Attempts : staging[a] = Absent
        /\ canonical # Absent => phase = "succeeded"

\* An attempt whose Job succeeded with good artifacts is not given up because
\* the service was interrupted, provided nothing else went wrong ("immutable
\* attempt trees, canonical successful artifacts, and reports, so a replacement
\* Pod reconstructs all non-terminal runs", docs/agentx-service.md, Operator
\* configuration).
InterruptionIsHarmless == errors = 0 /\ pc = "fail" => ~Promotable

\* An attempt that succeeds has lost none of its files ("an oversized attempt is
\* replaced by a small durable error manifest", docs/agentx-service.md, MCP contract).
NothingMissing == phase = "succeeded" => source[attempt].whole

\* A directory that is half there, which only a removal leaves, is nobody's.
Canonical == IF canonical.is = "sealed" THEN canonical.tree.attempt ELSE 0
Level == INSTANCE LevelPromotion WITH
    last <- attempt, outcome <- phase, promoted <- Canonical

\* The file system effects, in the order of _promote_artifacts and
\* _replace_oversized_attempt and cut anywhere, come to the single steps of
\* RunController's promotion: nothing is published over another attempt's
\* result, and what is canonical changes no more once the level is settled.
FitsLevel == Level!Spec
=============================================================================
