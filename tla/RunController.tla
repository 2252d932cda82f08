---------------------------- MODULE RunController ----------------------------
(***************************************************************************)
(* One benchmark run, driven by BenchmarkController (controller.py).       *)
(*                                                                         *)
(* The record of the run lives in a JSON file on a volume; its Jobs live   *)
(* in Kubernetes; everything else is memory of the threads of the service. *)
(* Submitter is the request thread inside submit().  Reconcilers are the   *)
(* background loop of server.py (and the startup pass of reconstruct);     *)
(* Cancelers are request threads inside cancel().  Reconcilers and         *)
(* Cancelers hold the run's lock from entry to return, Submitter does not. *)
(*                                                                         *)
(* An action is the code between two effects that another thread, the      *)
(* cluster or a restart can see: a save, a kubectl call, a promotion.      *)
(***************************************************************************)
EXTENDS RunRecord

CONSTANTS
    Submitter, Reconcilers, Cancelers,
    NoThread,
    Overlap,    \* may another thread enter while submit() is still running?
    MaxFaults   \* bound on restarts, failed writes, evictions, outside deletions

Workers == Reconcilers \cup Cancelers
Threads == {Submitter} \cup Workers

ASSUME ThreadsAssumption ==
    /\ Submitter \notin Workers
    /\ NoThread \notin Threads
ASSUME OverlapAssumption == Overlap \in BOOLEAN
ASSUME MaxFaultsAssumption == MaxFaults \in Nat

VARIABLES
    disk,       \* the record in the run's state file
    rec,        \* the copy of the record each thread works on
    pc,         \* where each thread is
    lock,       \* holder of the run's lock
    jobs,       \* the Job and the Pods of each attempt, in the cluster
    overdue,    \* has admission_timeout_seconds passed since the last attempt
                \* on disk was submitted?
    canonical,  \* attempt promoted as the canonical result of each level, or 0
    report,     \* report.json: absent, or the report of this or of an earlier
                \* record of the run
    faults      \* faults so far

vars == <<disk, rec, pc, lock, jobs, overdue, canonical, report, faults>>

\* "deleting" is a Job marked for deletion; "draining" is a Job that is gone
\* while Pods of it remain.
JobState == {"absent", "suspended", "pending", "running", "succeeded",
             "failed", "deleting", "draining"}
PC == {"begin", "idle", "start", "create", "recreate", "observe", "promote",
       "queue_cleanup", "delete", "confirm", "pods", "save", "report"}

TypeOK ==
    /\ disk \in Record \cup {NoRecord}
    /\ rec \in [Threads -> Record \cup {NoRecord}]
    /\ pc \in [Threads -> PC]
    /\ lock \in Threads \cup {NoThread}
    /\ jobs \in [AttemptIds -> JobState]
    /\ overdue \in BOOLEAN
    /\ canonical \in [Levels -> 0 .. Retries + 1]
    /\ report \in {"none", "current", "stale"}
    /\ faults \in 0..MaxFaults

Init ==
    /\ disk = NoRecord
    /\ rec = [t \in Threads |-> NoRecord]
    /\ pc = [t \in Threads |-> IF t = Submitter THEN "begin" ELSE "idle"]
    /\ lock = NoThread
    /\ jobs = [a \in AttemptIds |-> "absent"]
    /\ overdue = FALSE
    /\ canonical = [c \in Levels |-> 0]
    /\ report = "none"
    /\ faults = 0

-----------------------------------------------------------------------------
(* Control flow of a thread *)

At(t, label) == pc[t] = label

\* Go on with record r at the given label.
Goto(t, r, label) ==
    /\ rec' = [rec EXCEPT ![t] = r]
    /\ pc' = [pc EXCEPT ![t] = label]
    /\ UNCHANGED lock

Return(t) ==
    /\ rec' = [rec EXCEPT ![t] = NoRecord]
    /\ pc' = [pc EXCEPT ![t] = "idle"]
    /\ lock' = IF lock = t THEN NoThread ELSE lock

\* with self._run_lock(run_id): record = self.get(run_id) ...
Enter(t, r, label) ==
    /\ At(t, "idle")
    /\ lock = NoThread
    /\ Overlap \/ pc[Submitter] \in {"begin", "idle"}
    /\ lock' = t
    /\ rec' = [rec EXCEPT ![t] = r]
    /\ pc' = [pc EXCEPT ![t] = label]

\* self.store.save(record): a report written earlier is no longer up to date.
Saved(r) ==
    /\ disk' = r
    /\ report' = IF report = "none" THEN "none" ELSE "stale"

-----------------------------------------------------------------------------
(* submit, and the start of an attempt *)

\* submit: the record is first saved without an attempt.
Submit ==
    /\ At(Submitter, "begin")
    /\ Saved(NewRecord)
    /\ Goto(Submitter, StartAttempt(NewRecord, 1, 1), "start")
    /\ UNCHANGED <<jobs, overdue, canonical, faults>>

\* Mutant: the Job is created before the attempt is saved.
StartUnsaved(t) ==
    /\ At(t, "start")
    /\ overdue' = FALSE
    /\ Goto(t, rec[t], "create")
    /\ UNCHANGED <<disk, report, jobs, canonical, faults>>

\* _start_attempt: the new attempt is saved before its Job is created.
SaveStarted(t) ==
    /\ At(t, "start")
    /\ Saved(rec[t])
    /\ overdue' = FALSE
    /\ Goto(t, rec[t], "create")
    /\ UNCHANGED <<jobs, canonical, faults>>

\* kubectl create: refused when the Job object exists.
Created(a) ==
    /\ jobs[a] \in {"absent", "draining"}
    /\ jobs' = [jobs EXCEPT ![a] = "suspended"]

\* _start_attempt, the create that went through.  Only a first attempt is
\* started by submit() or by a reconcile that found no attempt, and both
\* return at once; any other is started by _complete_cleanup, which saves.
CreateJob(t) ==
    /\ At(t, "create")
    /\ Created(LastId(rec[t]))
    /\ IF Len(rec[t].attempts) = 1
       THEN Return(t)
       ELSE Goto(t, rec[t], "save")
    /\ UNCHANGED <<disk, report, overdue, canonical, faults>>

\* _start_attempt, an error from create: it may have been applied or not, or
\* the Job was already there.
CreateUncertain(t) ==
    /\ At(t, "create")
    /\ Created(LastId(rec[t])) \/ UNCHANGED jobs
    /\ Goto(t, rec[t], "save")
    /\ UNCHANGED <<disk, report, overdue, canonical, faults>>

\* _recreate_missing_job before the deadline: whatever create answers, the
\* attempt is left to a later reconcile.
RecreateJob(t) ==
    /\ At(t, "recreate")
    /\ Created(LastId(rec[t])) \/ UNCHANGED jobs
    /\ Goto(t, [rec[t] EXCEPT !.state = "admission_pending"], "save")
    /\ UNCHANGED <<disk, report, overdue, canonical, faults>>

-----------------------------------------------------------------------------
(* reconcile *)

\* Mutant: a terminal run is left alone even when its cleanup is pending.
ReconcileTerminalFirst(t) ==
    /\ disk # NoRecord
    /\ ~Terminal(disk)
    /\ CASE HasCleanup(disk) -> Enter(t, disk, "delete")
         [] ~HasCleanup(disk) /\ HasActive(disk) -> Enter(t, disk, "observe")
         [] OTHER -> Enter(t, Advance(disk), "start")
    /\ UNCHANGED <<disk, report, jobs, overdue, canonical, faults>>

\* _reconcile up to its first effect.
Reconcile(t) ==
    /\ disk # NoRecord
    /\ HoldsCapacity(disk)
    /\ CASE HasCleanup(disk) -> Enter(t, disk, "delete")
         [] ~HasCleanup(disk) /\ HasActive(disk) -> Enter(t, disk, "observe")
         [] OTHER -> Enter(t, Advance(disk), "start")
    /\ UNCHANGED <<disk, report, jobs, overdue, canonical, faults>>

\* The active attempt of the record the thread works on.
Active(t) == ActiveAttempt(rec[t])

\* The API failed: nothing is learned, the record is saved as it was.
ObserveError(t) ==
    /\ At(t, "observe")
    /\ Goto(t, rec[t], "save")
    /\ UNCHANGED <<disk, report, jobs, overdue, canonical, faults>>

ObserveMissing(t) ==
    /\ At(t, "observe")
    /\ jobs[LastId(rec[t])] \in {"absent", "draining"}
    /\ IF overdue
       THEN Goto(t, QueueCleanup(rec[t], Active(t), "failed"), "queue_cleanup")
       ELSE Goto(t, rec[t], "recreate")
    /\ UNCHANGED <<disk, report, jobs, overdue, canonical, faults>>

\* A Job that waits for Kueue; a Job being deleted still shows the status
\* it had.
ObserveSuspended(t) ==
    /\ At(t, "observe")
    /\ jobs[LastId(rec[t])] \in {"suspended", "deleting"}
    /\ IF overdue
       THEN Goto(t, QueueCleanup(Observed(rec[t], Active(t), "admission_pending"),
                                 Active(t), "failed"), "queue_cleanup")
       ELSE Goto(t, Observed(rec[t], Active(t), "admission_pending"), "save")
    /\ UNCHANGED <<disk, report, jobs, overdue, canonical, faults>>

ObserveAdmitted(t) ==
    /\ At(t, "observe")
    /\ \/ /\ jobs[LastId(rec[t])] \in {"pending", "deleting"}
          /\ Goto(t, Observed(rec[t], Active(t), "runtime_pending"), "save")
       \/ /\ jobs[LastId(rec[t])] \in {"running", "deleting"}
          /\ Goto(t, Observed(rec[t], Active(t), "running"), "save")
    /\ UNCHANGED <<disk, report, jobs, overdue, canonical, faults>>

\* _replace_oversized_attempt removes the level's canonical result as well.
Purge(c) == canonical' = [canonical EXCEPT ![c] = 0]

\* A failed Job: its log is kept and its artifacts are hashed, or replaced
\* when they exceed the limits.
ObserveFailed(t) ==
    /\ At(t, "observe")
    /\ jobs[LastId(rec[t])] \in {"failed", "deleting"}
    /\ Purge(LastAttempt(rec[t]).concurrency) \/ UNCHANGED canonical
    /\ Goto(t, QueueCleanup(rec[t], Active(t), "failed"), "queue_cleanup")
    /\ UNCHANGED <<disk, report, jobs, overdue, faults>>

ObserveSucceeded(t) ==
    /\ At(t, "observe")
    /\ jobs[LastId(rec[t])] \in {"succeeded", "deleting"}
    /\ Goto(t, rec[t], "promote")
    /\ UNCHANGED <<disk, report, jobs, overdue, canonical, faults>>

\* Mutant: a canonical directory that is already there is taken for this
\* attempt's without a look at its marker and hashes.
PromoteUnverified(t) ==
    /\ At(t, "promote")
    /\ LET a == LastAttempt(rec[t])
       IN  canonical' = [canonical EXCEPT ![a.concurrency] =
                             IF @ = 0 THEN a.attempt ELSE @]
    /\ Goto(t, QueueCleanup(rec[t], Active(t), "succeeded"), "queue_cleanup")
    /\ UNCHANGED <<disk, report, jobs, overdue, faults>>

\* _promote_artifacts returned: the canonical directory was published, or it
\* already held this very attempt.
Promote(t) ==
    /\ At(t, "promote")
    /\ LET a == LastAttempt(rec[t])
       IN  /\ canonical[a.concurrency] \in {0, a.attempt}
           /\ canonical' = [canonical EXCEPT ![a.concurrency] = a.attempt]
    /\ Goto(t, QueueCleanup(rec[t], Active(t), "succeeded"), "queue_cleanup")
    /\ UNCHANGED <<disk, report, jobs, overdue, faults>>

\* _promote_artifacts raised: artifacts missing, malformed, too large, or not
\* those of the canonical directory that is already there.
PromoteFailed(t) ==
    /\ At(t, "promote")
    /\ Purge(LastAttempt(rec[t]).concurrency) \/ UNCHANGED canonical
    /\ Goto(t, QueueCleanup(rec[t], Active(t), "failed"), "queue_cleanup")
    /\ UNCHANGED <<disk, report, jobs, overdue, faults>>

-----------------------------------------------------------------------------
(* cancel *)

\* Mutant: cancel does not look whether the run is over.
CancelAlways(t) ==
    /\ disk # NoRecord
    /\ CASE HasCleanup(disk) -> Enter(t, disk, "delete")
         [] ~HasCleanup(disk) /\ HasActive(disk) ->
                Enter(t, CancelActive(disk, ActiveAttempt(disk)), "queue_cleanup")
         [] OTHER -> Enter(t, CancelIdle(disk), "save")
    /\ UNCHANGED <<disk, report, jobs, overdue, canonical, faults>>

\* _cancel up to its first effect.  A pending cleanup is completed instead.
Cancel(t) ==
    /\ disk # NoRecord
    /\ HoldsCapacity(disk)
    /\ CASE HasCleanup(disk) -> Enter(t, disk, "delete")
         [] ~HasCleanup(disk) /\ HasActive(disk) ->
                Enter(t, CancelActive(disk, ActiveAttempt(disk)), "queue_cleanup")
         [] OTHER -> Enter(t, CancelIdle(disk), "save")
    /\ UNCHANGED <<disk, report, jobs, overdue, canonical, faults>>

\* reconcile or cancel of a run that is over and clean returns its record.
AlreadyOver(t) ==
    /\ disk # NoRecord
    /\ ~HoldsCapacity(disk)
    /\ At(t, "idle")
    /\ lock = NoThread
    /\ UNCHANGED vars

-----------------------------------------------------------------------------
(* cleanup *)

\* The final phase and the pending cleanup are saved before the deletion.
SaveCleanup(t) ==
    /\ At(t, "queue_cleanup")
    /\ Saved(rec[t])
    /\ Goto(t, rec[t], "delete")
    /\ UNCHANGED <<jobs, overdue, canonical, faults>>

CleanupId(t) == Id(rec[t].attempts[CleanupAttempt(rec[t])])

\* kubectl delete --ignore-not-found --wait=false
Deleted(a) ==
    jobs' = [jobs EXCEPT ![a] =
                IF @ \in {"absent", "draining"} THEN @ ELSE "deleting"]

\* Mutant: the deletion takes what the attempt published along.
DeleteJobAndResult(t) ==
    /\ At(t, "delete")
    /\ Deleted(CleanupId(t))
    /\ Purge(LastAttempt(rec[t]).concurrency)
    /\ Goto(t, rec[t], "confirm")
    /\ UNCHANGED <<disk, report, overdue, faults>>

DeleteJob(t) ==
    /\ At(t, "delete")
    /\ Deleted(CleanupId(t))
    /\ Goto(t, rec[t], "confirm")
    /\ UNCHANGED <<disk, report, overdue, canonical, faults>>

\* The call failed, perhaps after it was applied: the cleanup stays pending.
DeleteError(t) ==
    /\ At(t, "delete")
    /\ Deleted(CleanupId(t)) \/ UNCHANGED jobs
    /\ Goto(t, rec[t], "save")
    /\ UNCHANGED <<disk, report, overdue, canonical, faults>>

\* The Job or a Pod of it is still listed, or a listing failed.
ConfirmPending(t) ==
    /\ At(t, "confirm") \/ At(t, "pods")
    /\ Goto(t, rec[t], "save")
    /\ UNCHANGED <<disk, report, jobs, overdue, canonical, faults>>

\* Mutant: a Job marked for deletion counts as gone.
ConfirmJobMarked(t) ==
    /\ At(t, "confirm")
    /\ jobs[CleanupId(t)] \in {"absent", "draining", "deleting"}
    /\ Goto(t, rec[t], "pods")
    /\ UNCHANGED <<disk, report, jobs, overdue, canonical, faults>>

\* kubectl get job finds nothing; the Pods are listed next.
ConfirmJob(t) ==
    /\ At(t, "confirm")
    /\ jobs[CleanupId(t)] \in {"absent", "draining"}
    /\ Goto(t, rec[t], "pods")
    /\ UNCHANGED <<disk, report, jobs, overdue, canonical, faults>>

\* What runs after the cleanup: a new attempt, or the save that ends the call.
AfterConfirm(t) ==
    LET next == AfterCleanup(rec[t], CleanupAttempt(rec[t]))
    IN  Goto(t, next, IF HasActive(next) THEN "start" ELSE "save")

\* Mutant: the Pods are not looked for.
ConfirmNoPodCheck(t) ==
    /\ At(t, "pods")
    /\ AfterConfirm(t)
    /\ UNCHANGED <<disk, report, jobs, overdue, canonical, faults>>

\* kubectl get pods lists none (a Job that was created in between need not have
\* Pods yet): the attempt is settled and the run moves on.
ConfirmGone(t) ==
    /\ At(t, "pods")
    /\ jobs[CleanupId(t)] \in {"absent", "suspended", "pending"}
    /\ AfterConfirm(t)
    /\ UNCHANGED <<disk, report, jobs, overdue, canonical, faults>>

\* The save that ends a call; a run that is over and clean gets its report.
Save(t) ==
    /\ At(t, "save")
    /\ Saved(rec[t])
    /\ IF HoldsCapacity(rec[t])
       THEN Return(t)
       ELSE Goto(t, rec[t], "report")
    /\ UNCHANGED <<jobs, overdue, canonical, faults>>

\* Mutant: a report that is there is kept.
WriteMissingReport(t) ==
    /\ At(t, "report")
    /\ report' = IF report = "none" THEN "current" ELSE report
    /\ Return(t)
    /\ UNCHANGED <<disk, jobs, overdue, canonical, faults>>

\* _write_report replaces the file.
WriteReport(t) ==
    /\ At(t, "report")
    /\ report' = "current"
    /\ Return(t)
    /\ UNCHANGED <<disk, jobs, overdue, canonical, faults>>

\* get_report under the run's lock: a report that is there is served as it is,
\* and only a missing one is written.
GetReport ==
    /\ disk # NoRecord
    /\ lock = NoThread
    /\ report = "none"
    /\ report' = "current"
    /\ UNCHANGED <<disk, rec, pc, lock, jobs, overdue, canonical, faults>>

-----------------------------------------------------------------------------
(* Faults and the cluster *)

Fault == faults < MaxFaults /\ faults' = faults + 1

\* A write to the volume fails and its exception unwinds the call: a save, an
\* attempt directory, the report, or the replacement of oversized artifacts.
WriteFails(t) ==
    /\ \/ pc[t] \in {"start", "create", "recreate", "promote", "queue_cleanup",
                    "save", "report"}
       \/ At(t, "observe") /\ jobs[LastId(rec[t])] \in {"failed", "deleting"}
    /\ Return(t)
    /\ Fault
    /\ UNCHANGED <<disk, report, jobs, overdue, canonical>>

\* The service stops and starts again: memory is lost, the file is not.
Restart ==
    /\ rec' = [t \in Threads |-> NoRecord]
    /\ pc' = [t \in Threads |-> IF At(t, "begin") THEN "begin" ELSE "idle"]
    /\ lock' = NoThread
    /\ Fault
    /\ UNCHANGED <<disk, report, jobs, overdue, canonical>>

\* The cluster moves Job a from one of the given states to another.
JobMoves(a, from, to) ==
    /\ jobs[a] \in from
    /\ jobs' = [jobs EXCEPT ![a] = to]
    /\ UNCHANGED <<disk, report, rec, pc, lock, overdue, canonical>>

Admit(a) == JobMoves(a, {"suspended"}, "pending") /\ UNCHANGED faults
StartPods(a) == JobMoves(a, {"pending"}, "running") /\ UNCHANGED faults
\* activeDeadlineSeconds ends a Job that does not end by itself.
EndJob(a) ==
    /\ \E to \in {"succeeded", "failed"} : JobMoves(a, {"pending", "running"}, to)
    /\ UNCHANGED faults
JobGone(a) ==
    /\ \E to \in {"draining", "absent"} : JobMoves(a, {"deleting"}, to)
    /\ UNCHANGED faults
PodsGone(a) == JobMoves(a, {"draining"}, "absent") /\ UNCHANGED faults

\* Kueue takes the admission back.
Evict(a) == JobMoves(a, {"pending", "running"}, "suspended") /\ Fault

\* Somebody else deletes the Job (the Justfile's wipe does).
OutsideDelete(a) ==
    /\ JobMoves(a, {"suspended", "pending", "running", "succeeded", "failed"},
                "draining")
    /\ Fault

DeadlinePasses ==
    /\ disk # NoRecord
    /\ disk.attempts # <<>>
    /\ ~overdue
    /\ overdue' = TRUE
    /\ UNCHANGED <<disk, report, rec, pc, lock, jobs, canonical, faults>>

-----------------------------------------------------------------------------
Observe(t) ==
    \/ ObserveMissing(t) \/ ObserveSuspended(t) \/ ObserveAdmitted(t)
    \/ ObserveFailed(t) \/ ObserveSucceeded(t)

\* What the thread does by itself once inside a call.
Continue(t) ==
    \/ SaveStarted(t) \/ CreateJob(t) \/ CreateUncertain(t) \/ RecreateJob(t)
    \/ ObserveError(t) \/ Observe(t) \/ Promote(t) \/ PromoteFailed(t)
    \/ SaveCleanup(t) \/ DeleteJob(t) \/ DeleteError(t)
    \/ ConfirmPending(t) \/ ConfirmJob(t) \/ ConfirmGone(t)
    \/ Save(t) \/ WriteReport(t)

Cluster(a) ==
    \/ Admit(a) \/ StartPods(a) \/ EndJob(a) \/ JobGone(a) \/ PodsGone(a)
    \/ Evict(a) \/ OutsideDelete(a)

Next ==
    \/ Submit
    \/ \E t \in Reconcilers : Reconcile(t)
    \/ \E t \in Cancelers : Cancel(t)
    \/ \E t \in Workers : AlreadyOver(t)
    \/ \E t \in Threads : Continue(t) \/ WriteFails(t)
    \/ \E a \in AttemptIds : Cluster(a)
    \/ GetReport
    \/ Restart
    \/ DeadlinePasses

Spec == Init /\ [][Next]_vars

-----------------------------------------------------------------------------
(***************************************************************************)
(* Fairness.  Threads run (WF of Continue); a thread that keeps asking for *)
(* the run's lock gets it (SF of Reconcile); reconcile_loop never stops    *)
(* visiting a run that holds capacity; the API server does not fail every  *)
(* call (SF of the calls that answer); Kubernetes ends a Job at its        *)
(* activeDeadlineSeconds and carries a deletion out; clocks advance.       *)
(* Nothing is assumed of Kueue: a Job may wait for admission for ever.     *)
(***************************************************************************)
Fairness ==
    /\ \A t \in Threads : WF_vars(Continue(t))
    /\ \A t \in Reconcilers : SF_vars(Reconcile(t)) /\ SF_vars(Observe(t))
    /\ SF_vars(\E t \in Workers : DeleteJob(t))
    /\ SF_vars(\E t \in Workers : ConfirmJob(t))
    /\ SF_vars(\E t \in Workers : ConfirmGone(t))
    /\ WF_vars(\E a \in AttemptIds : EndJob(a) \/ JobGone(a) \/ PodsGone(a))
    /\ WF_vars(DeadlinePasses)

FairSpec == Spec /\ Fairness

-----------------------------------------------------------------------------
(* Properties *)

\* The record on disk, and every copy a thread works on, tells a possible
\* story of the sweep: attempts numbered in order and within the retries, only
\* the last one unsettled, levels decided one after the other by the attempts
\* made for them, a run state that agrees with all of it (_fail_attempt,
\* _advance, _complete_cleanup, _cancel).
RecordsWellFormed ==
    \A r \in {disk} \cup {rec[t] : t \in Threads} :
        r # NoRecord => WellFormed(r)

\* What plan_benchmark promises as maximum_attempt_count.
MaximumAttemptCount == LevelCount * (Retries + 1)

\* A run never starts more attempts than its plan announced to the client, from
\* which estimated_deadline_seconds is computed as well: no restart, cancel or
\* repeated cleanup makes _fail_attempt or _advance start one again that was
\* settled.
AttemptsWithinPlan ==
    disk # NoRecord => Len(disk.attempts) <= MaximumAttemptCount

\* Whatever exists in the cluster for this run, a Job or Pods left by one,
\* belongs to the last attempt of the record on disk, and that attempt is
\* still active or still to be cleaned up: the run counts against
\* maximum_active_runs and reconcile_all keeps visiting it.  In particular no
\* two attempts run side by side, and no Job outlives its run unseen.
JobsOwned ==
    \A a \in AttemptIds :
        jobs[a] # "absent" =>
            /\ disk # NoRecord
            /\ disk.attempts # <<>>
            /\ a = LastId(disk)
            /\ IsOpen(LastAttempt(disk)) \/ LastAttempt(disk).cleanup_pending

\* A level is reported completed only while the canonical directory holds the
\* attempt that succeeded (_promote_artifacts before _queue_cleanup, and
\* _replace_oversized_attempt never touching a decided level).
CompletedIsPromoted ==
    disk # NoRecord =>
        \A c \in disk.completed : \E i \in AttemptsOf(disk, c) :
            /\ disk.attempts[i].phase = "succeeded"
            /\ disk.attempts[i].attempt = canonical[c]

\* Once a call that ended a run has returned, report.json is the report of the
\* final record, whatever was reported before ("Reports contain ... every
\* attempt and exact unpadded measurement window", docs/agentx-service.md,
\* Lifecycle).  A fault between the last save and the report is excluded here.
FinalReport ==
    /\ disk # NoRecord
    /\ ~HoldsCapacity(disk)
    /\ \A t \in Threads : At(t, "idle")
    /\ faults = 0
    => report = "current"

\* No report of an earlier record is served for a run that is over.
NoStaleReport ==
    /\ disk # NoRecord
    /\ ~HoldsCapacity(disk)
    /\ \A t \in Threads : At(t, "idle")
    => report # "stale"

\* A run that is over and clean never changes again, whichever call, restart
\* or late answer follows ("terminal runs are unchanged", mcp.py:118).
TerminalIsFinal ==
    [][disk # NoRecord /\ ~HoldsCapacity(disk) => disk' = disk]_vars

\* Saves never lose or rewrite history: attempts stay in the record in order,
\* a final phase stays what it is, a settled attempt is not unsettled, decided
\* levels stay decided and a terminal state, canceled included, is kept while
\* its cleanup completes.
HistoryIsKept ==
    [][disk # NoRecord =>
        /\ disk' # NoRecord
        /\ Len(disk'.attempts) >= Len(disk.attempts)
        /\ \A i \in DOMAIN disk.attempts :
              /\ Id(disk'.attempts[i]) = Id(disk.attempts[i])
              /\ ~IsOpen(disk.attempts[i]) =>
                     /\ disk'.attempts[i].phase = disk.attempts[i].phase
                     /\ disk'.attempts[i].cleanup_pending =>
                            disk.attempts[i].cleanup_pending
        /\ disk.completed \subseteq disk'.completed
        /\ disk.failed \subseteq disk'.failed
        /\ Terminal(disk) => disk'.state = disk.state]_vars

\* A Job is created only for an attempt that the record on disk shows as
\* active, and deleted by the service only when the record already shows the
\* attempt's final phase and its pending cleanup: after a restart the deletion
\* is completed "rather than rerunning a terminal attempt"
\* (docs/agentx-service.md, Lifecycle).
JobsFollowRecord ==
    [][\A a \in AttemptIds : jobs'[a] # jobs[a] =>
        /\ jobs[a] \in {"absent", "draining"} /\ jobs'[a] = "suspended" =>
              \E i \in OpenAttempts(disk) : Id(disk.attempts[i]) = a
        /\ jobs'[a] = "deleting" =>
              \E i \in CleanupAttempts(disk) : Id(disk.attempts[i]) = a]_vars

\* The run as its clients see it.
Status ==
    IF disk = NoRecord THEN "none"
    ELSE IF ~HoldsCapacity(disk) THEN "over"
    ELSE IF Terminal(disk) THEN "canceling"
    ELSE "active"
Outcome ==
    IF disk # NoRecord /\ Terminal(disk) THEN disk.state ELSE "none"
Live == \E a \in AttemptIds : jobs[a] # "absent"

Promise == INSTANCE RunLifecycle WITH status <- Status, outcome <- Outcome, live <- Live

\* Saves, kubectl calls, faults and restarts add up to the life of a run that
\* RunLifecycle promises: nothing is created for a run that is canceled or
\* over, it is over only when nothing of it is left in the cluster, and its
\* outcome, once there is one, stays.
KeepsPromise == Promise!Spec

-----------------------------------------------------------------------------
(* The parts of a run that have a model of their own                       *)

\* A level as LevelPromotion sees it: its latest attempt in the record, whether
\* an attempt succeeded or the level is among the failed, and what is canonical.
TriesOf(r, c) == IF r = NoRecord THEN {} ELSE AttemptsOf(r, c)
LatestTry(r, c) == IF TriesOf(r, c) = {} THEN 1 ELSE Cardinality(TriesOf(r, c))
LevelOutcome(r, c) ==
    IF \E i \in TriesOf(r, c) : r.attempts[i].phase = "succeeded" THEN "succeeded"
    ELSE IF r # NoRecord /\ c \in r.failed THEN "failed"
    ELSE "open"

Level(c) == INSTANCE LevelPromotion WITH
    last <- LatestTry(disk, c), outcome <- LevelOutcome(disk, c), promoted <- canonical[c]

\* Every level goes through promotions as LevelPromotion allows, which Promotion
\* implements: nothing is published or removed once the level is settled, a level
\* succeeds only while its latest attempt is the canonical one, and fails only after
\* the last retry (_promote_artifacts, _replace_oversized_attempt, _fail_attempt).
LevelsFit ==
    /\ \A c \in Levels : Level(c)!Init
    /\ [][\A c \in Levels : [Level(c)!Next]_(Level(c)!level)]_vars

\* A Job as JobLifecycle sees it: what the thread inside a call found at its last
\* look, and how far the looks behind a settled attempt came.
IsGone(r, a) ==
    \E i \in DOMAIN r.attempts :
        Id(r.attempts[i]) = a /\ ~IsOpen(r.attempts[i]) /\ ~r.attempts[i].cleanup_pending
SeenOf(a) ==
    IF \E t \in Threads : At(t, "recreate") /\ LastId(rec[t]) = a THEN "missing"
    ELSE IF \E t \in Threads : At(t, "promote") /\ LastId(rec[t]) = a THEN "succeeded"
    ELSE "nothing"
FoundGone(t, a) ==
    \/ At(t, "pods") /\ LastId(rec[t]) = a
    \/ pc[t] \in {"start", "save"} /\ IsGone(rec[t], a)
CheckedOf(a) ==
    IF disk # NoRecord /\ IsGone(disk, a) THEN "gone"
    ELSE IF \E t \in Threads : FoundGone(t, a) THEN "job"
    ELSE "no"

Job(a) == INSTANCE JobLifecycle WITH
    state <- jobs[a], seen <- SeenOf(a), checked <- CheckedOf(a)

\* Every Job is created, looked at and deleted as JobLifecycle allows, which
\* JobBackend implements: an attempt is settled on disk only after a look found
\* the Job gone and a later one its Pods, in the same call, and neither is left
\* by then (_complete_cleanup, whatever fails or restarts in between).
JobsFit ==
    /\ \A a \in AttemptIds : Job(a)!Init
    /\ [][\A a \in AttemptIds : [Job(a)!Next]_(Job(a)!view)]_vars

-----------------------------------------------------------------------------
\* A run that was accepted ends, with nothing left in the cluster, whatever
\* Kueue does, as long as calls do not fail for ever.
RunEnds == disk # NoRecord ~> (disk # NoRecord /\ ~HoldsCapacity(disk))

\* A call of cancel creates no Job, whatever it finds ("Cancellation deletes only
\* the active owned Job and is idempotent.", docs/agentx-service.md:194).  One that
\* finds the cleanup of a failed attempt pending, and completes it, goes on to start
\* the next attempt.
CancelCreatesNothing ==
    [][\A t \in Cancelers, a \in AttemptIds :
          At(t, "create") /\ jobs[a] = "absent" => jobs'[a] = "absent"]_vars
=============================================================================
