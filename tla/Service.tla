------------------------------- MODULE Service -------------------------------
(***************************************************************************)
(* Many runs in one service process (controller.py, server.py): how        *)
(* submissions, the reconcile pass, cancellations and retention share the  *)
(* state directory, and what the submit lock, the retention lock and the   *)
(* run locks protect.                                                      *)
(*                                                                         *)
(* A run is in one of the states of RunLifecycle.  What a call may do with *)
(* it under its lock is what RunController shows such calls to do; submit  *)
(* works on the run it accepts without that lock.  Runs are numbered in    *)
(* the order of their creation.                                            *)
(*                                                                         *)
(* One assumption on time: a run does not grow too old while submit() is   *)
(* still at work on it.  terminal_retention_seconds is at least an hour    *)
(* (models.py:190); submit() makes directories, saves, and waits for one   *)
(* kubectl create, which times out after 30 seconds.                       *)
(***************************************************************************)
EXTENDS Naturals, FiniteSets

CONSTANTS
    RunCount,    \* runs that are ever accepted, a bound
    Submitters,  \* request threads inside submit()
    Reconciler,  \* the thread of reconcile_loop, and of reconstruct at startup
    Cancelers,   \* request threads inside cancel()
    NoThread,
    MaxActive,   \* limits.maximum_active_runs
    MaxRetained, \* limits.maximum_retained_terminal_runs
    Unlisted,    \* runs whose LocalQueue a restart may drop from the config
    MaxFaults    \* bound on restarts and calls that raise

Runs == 1..RunCount
Threads == Submitters \cup Cancelers \cup {Reconciler}

ASSUME LimitsAssumption ==
    /\ RunCount \in Nat /\ MaxActive \in Nat \ {0} /\ MaxRetained \in Nat \ {0}
    /\ MaxFaults \in Nat
ASSUME RolesAssumption ==
    /\ Submitters \cap Cancelers = {}
    /\ Reconciler \notin Submitters \cup Cancelers
    /\ NoThread \notin Threads
ASSUME UnlistedAssumption == Unlisted \subseteq Runs

VARIABLES
    status,         \* the status of each run (RunLifecycle)
    aged,           \* runs that ended more than terminal_retention_seconds ago
    serving,        \* has reconstruct() returned, so that requests are served?
    dropped,        \* runs whose queue is not in the config of this process
    pc,             \* where each thread is
    target,         \* the run each thread works on, or 0
    unread,         \* state files the thread's listing has still to read
    seen,           \* runs the listing keeps; then, the runs retention removes
    todo,           \* runs the pass has still to visit
    submit_lock, retention_lock, run_lock,
    faults

locks == <<submit_lock, retention_lock, run_lock>>
listing == <<unread, seen, todo>>
vars == <<status, aged, serving, dropped, pc, target, unread, seen, todo,
          submit_lock, retention_lock, run_lock, faults>>

PC == {"idle", "counting", "save", "create", "listing", "visiting", "work",
       "prune", "surveying", "pruning", "deleting"}

TypeOK ==
    /\ status \in [Runs -> {"none", "active", "canceling", "over", "gone"}]
    /\ aged \subseteq Runs
    /\ serving \in BOOLEAN
    /\ dropped \subseteq Unlisted
    /\ pc \in [Threads -> PC]
    /\ target \in [Threads -> 0..RunCount]
    /\ unread \in [Threads -> SUBSET Runs]
    /\ seen \in [Threads -> SUBSET Runs]
    /\ todo \subseteq Runs
    /\ submit_lock \in Threads \cup {NoThread}
    /\ retention_lock \in Threads \cup {NoThread}
    /\ run_lock \in [Runs -> Threads \cup {NoThread}]
    /\ faults \in 0..MaxFaults

Init ==
    /\ status = [r \in Runs |-> "none"]
    /\ aged = {}
    /\ serving = FALSE
    /\ dropped = {}
    /\ pc = [t \in Threads |-> "idle"]
    /\ target = [t \in Threads |-> 0]
    /\ unread = [t \in Threads |-> {}]
    /\ seen = [t \in Threads |-> {}]
    /\ todo = {}
    /\ submit_lock = NoThread
    /\ retention_lock = NoThread
    /\ run_lock = [r \in Runs |-> NoThread]
    /\ faults = 0

-----------------------------------------------------------------------------
At(t, label) == pc[t] = label
Fault == faults < MaxFaults /\ faults' = faults + 1
Goto(t, label) == pc' = [pc EXCEPT ![t] = label]

OnDisk == {r \in Runs : status[r] \notin {"none", "gone"}}
HoldsCapacity(r) == status[r] \in {"active", "canceling"}

\* FileRunStore.list: the directory is listed at once, the files are then
\* read one by one; one that is gone meanwhile is skipped.
StartListing(t) ==
    /\ unread' = [unread EXCEPT ![t] = OnDisk]
    /\ seen' = [seen EXCEPT ![t] = {}]

ReadFile(t, label, keep(_)) ==
    \E r \in unread[t] :
        /\ At(t, label)
        /\ unread' = [unread EXCEPT ![t] = @ \ {r}]
        /\ seen' = [seen EXCEPT ![t] = IF keep(r) THEN @ \cup {r} ELSE @]
        /\ UNCHANGED <<status, aged, serving, dropped, pc, target, todo,
                       locks, faults>>

Listed(t, label) == At(t, label) /\ unread[t] = {}

-----------------------------------------------------------------------------
(* submit *)

\* Mutant: the submit lock is not taken.
BeginSubmitUnlocked(t) ==
    /\ serving
    /\ At(t, "idle")
    /\ \E r \in Runs : status[r] = "none"
    /\ StartListing(t)
    /\ Goto(t, "counting")
    /\ UNCHANGED <<status, aged, serving, dropped, target, todo, locks, faults>>

BeginSubmit(t) ==
    /\ serving
    /\ At(t, "idle")
    /\ \E r \in Runs : status[r] = "none"
    /\ submit_lock = NoThread
    /\ submit_lock' = t
    /\ StartListing(t)
    /\ Goto(t, "counting")
    /\ UNCHANGED <<status, aged, serving, dropped, target, todo,
                   retention_lock, run_lock, faults>>

Count(t) == ReadFile(t, "counting", HoldsCapacity)

\* "maximum active benchmark run count has been reached", or the plan is
\* refused.
Refuse(t) ==
    /\ Listed(t, "counting")
    /\ submit_lock' = NoThread
    /\ seen' = [seen EXCEPT ![t] = {}]
    /\ Goto(t, "idle")
    /\ UNCHANGED <<status, aged, serving, dropped, target, unread, todo,
                   retention_lock, run_lock, faults>>

\* Mutant: the attempt is started when the submit lock is released.
AcceptAndUnlock(t) ==
    /\ Listed(t, "counting")
    /\ Cardinality(seen[t]) < MaxActive
    /\ \E r \in Runs :
           /\ status[r] = "none"
           /\ \A q \in 1 .. r - 1 : status[q] # "none"
           /\ status' = [status EXCEPT ![r] = "active"]
           /\ target' = [target EXCEPT ![t] = r]
    /\ seen' = [seen EXCEPT ![t] = {}]
    /\ submit_lock' = NoThread
    /\ Goto(t, "save")
    /\ UNCHANGED <<aged, serving, dropped, unread, todo, retention_lock, run_lock,
                   faults>>

Accept(t) ==
    /\ Listed(t, "counting")
    /\ Cardinality(seen[t]) < MaxActive
    /\ \E r \in Runs :
           /\ status[r] = "none"
           /\ \A q \in 1 .. r - 1 : status[q] # "none"
           /\ status' = [status EXCEPT ![r] = "active"]
           /\ target' = [target EXCEPT ![t] = r]
    /\ seen' = [seen EXCEPT ![t] = {}]
    /\ Goto(t, "save")
    /\ UNCHANGED <<aged, serving, dropped, unread, todo, locks, faults>>

\* Mutant: the phase of the attempt is saved where the state of the run goes.
SaveAttemptPhase(t) ==
    /\ At(t, "save")
    /\ status' = [status EXCEPT ![target[t]] = "submitting"]
    /\ Goto(t, "create")
    /\ UNCHANGED <<aged, serving, dropped, target, listing, locks, faults>>

\* _start_attempt saves the copy of the record submit() holds.
SaveAttempt(t) ==
    /\ At(t, "save")
    /\ status' = [status EXCEPT ![target[t]] = "active"]
    /\ Goto(t, "create")
    /\ UNCHANGED <<aged, serving, dropped, target, listing, locks, faults>>

\* Out of the submit lock
LeaveSubmit(t, label) ==
    /\ submit_lock' = NoThread
    /\ target' = [target EXCEPT ![t] = 0]
    /\ Goto(t, label)
    /\ UNCHANGED <<aged, serving, dropped, listing, retention_lock, run_lock>>

\* The attempt directory and the Job are created.
CreateJob(t) ==
    /\ At(t, "create")
    /\ LeaveSubmit(t, "prune")
    /\ UNCHANGED <<status, faults>>

\* The create raises, and whether the Job exists is not certain: submit()
\* saves its copy once more.
CreateUncertain(t) ==
    /\ At(t, "create")
    /\ status' = [status EXCEPT ![target[t]] = "active"]
    /\ LeaveSubmit(t, "prune")
    /\ UNCHANGED faults

-----------------------------------------------------------------------------
(* The pass over all runs: reconcile_all, and reconstruct before serving *)

BeginPass ==
    /\ At(Reconciler, "idle")
    /\ StartListing(Reconciler)
    /\ Goto(Reconciler, "listing")
    /\ UNCHANGED <<status, aged, serving, dropped, target, todo, locks, faults>>

\* Mutant: a run is passed over once it is canceled.
ListActive == ReadFile(Reconciler, "listing", LAMBDA r : status[r] = "active")

List == ReadFile(Reconciler, "listing", HoldsCapacity)

StartVisits ==
    /\ Listed(Reconciler, "listing")
    /\ todo' = seen[Reconciler]
    /\ seen' = [seen EXCEPT ![Reconciler] = {}]
    /\ Goto(Reconciler, "visiting")
    /\ UNCHANGED <<status, aged, serving, dropped, target, unread, locks, faults>>

EndPass ==
    /\ At(Reconciler, "visiting")
    /\ todo = {}
    /\ serving' = TRUE
    /\ Goto(Reconciler, "idle")
    /\ UNCHANGED <<status, aged, dropped, target, listing, locks, faults>>

-----------------------------------------------------------------------------
(* A call on one run, under its lock *)

Lock(t, r) ==
    /\ run_lock[r] = NoThread
    /\ run_lock' = [run_lock EXCEPT ![r] = t]
    /\ target' = [target EXCEPT ![t] = r]
    /\ Goto(t, "work")
    /\ UNCHANGED <<status, aged, serving, dropped, unread, seen,
                   submit_lock, retention_lock, faults>>

\* Newest first, the order of the listing.
Visit ==
    /\ At(Reconciler, "visiting")
    /\ \E r \in todo :
           /\ \A q \in todo : q <= r
           /\ Lock(Reconciler, r)
           /\ todo' = todo \ {r}

BeginCancel(t) ==
    /\ serving
    /\ At(t, "idle")
    /\ \E r \in OnDisk : Lock(t, r)
    /\ UNCHANGED todo

Works(t, r, from, to) ==
    /\ At(t, "work")
    /\ target[t] = r
    /\ status[r] = from
    /\ status' = [status EXCEPT ![r] = to]
    /\ UNCHANGED <<aged, serving, dropped, pc, target, listing, locks, faults>>

\* The sweep has ended, or the cleanup of the canceled run is complete: what
\* RunController's calls come to after enough visits.
Finish(t, r) ==
    /\ r \notin dropped
    /\ Works(t, r, "active", "over") \/ Works(t, r, "canceling", "over")

\* _cancel of a run with an active attempt, and without one
CancelRun(t, r) ==
    /\ t \in Cancelers
    /\ Works(t, r, "active", "canceling") \/ Works(t, r, "active", "over")

\* Where a thread goes on when a call on a run, or its retention, is done.
After(t) == IF t = Reconciler THEN "visiting" ELSE "idle"

Unlock(t, label) ==
    /\ run_lock' = [run_lock EXCEPT ![target[t]] = NoThread]
    /\ target' = [target EXCEPT ![t] = 0]
    /\ Goto(t, label)
    /\ UNCHANGED <<status, aged, serving, dropped, unread, seen,
                   submit_lock, retention_lock>>

\* Mutant: retention begins before the run's lock is released.
LeaveWaiting(t) ==
    /\ At(t, "work")
    /\ retention_lock = NoThread
    /\ status[target[t]] # "gone"
    /\ Unlock(t, "prune")
    /\ UNCHANGED <<todo, faults>>

\* reconcile calls enforce_retention for a run that is over, cancel for one
\* whose state is terminal.
Leave(t) ==
    /\ At(t, "work")
    /\ LET r == target[t]
       IN  /\ status[r] # "gone"
           /\ r \in dropped => status[r] = "over"
           /\ Unlock(t, IF \/ status[r] = "over"
                           \/ t \in Cancelers /\ status[r] = "canceling"
                        THEN "prune" ELSE After(t))
    /\ UNCHANGED <<todo, faults>>

\* The call raises: the run is gone (BenchmarkNotFound), its queue is not in
\* the config (KeyError), or a write failed.  An exception ends the whole pass.
Raise(t) ==
    /\ At(t, "work")
    /\ \/ status[target[t]] = "gone" /\ UNCHANGED faults
       \/ /\ target[t] \in dropped
          /\ HoldsCapacity(target[t])
          /\ UNCHANGED faults
       \/ Fault
    /\ Unlock(t, "idle")
    /\ todo' = IF t = Reconciler THEN {} ELSE todo

-----------------------------------------------------------------------------
(* enforce_retention *)

BeginRetention(t) ==
    /\ At(t, "prune")
    /\ retention_lock = NoThread
    /\ retention_lock' = t
    /\ StartListing(t)
    /\ Goto(t, "surveying")
    /\ UNCHANGED <<status, aged, serving, dropped, target, todo,
                   submit_lock, run_lock, faults>>

Survey(t) == ReadFile(t, "surveying", LAMBDA r : status[r] = "over")

\* Mutants: the oldest runs are retained; one run too many is.
ExpiredNewest(runs) ==
    {r \in runs : \/ r \in aged
                  \/ Cardinality({q \in runs \ aged : q < r}) >= MaxRetained}
ExpiredButOne(runs) ==
    {r \in runs : \/ r \in aged
                  \/ Cardinality({q \in runs \ aged : q > r}) > MaxRetained}

\* Too old, or beyond the newest MaxRetained of the others
Expired(runs) ==
    {r \in runs : \/ r \in aged
                  \/ Cardinality({q \in runs \ aged : q > r}) >= MaxRetained}

ChooseExpired(t) ==
    /\ Listed(t, "surveying")
    /\ seen' = [seen EXCEPT ![t] = Expired(@)]
    /\ Goto(t, "pruning")
    /\ UNCHANGED <<status, aged, serving, dropped, target, unread, todo,
                   locks, faults>>

\* The record is read again under the run's lock: a run that is over will be
\* deleted, another one is passed over.
LookAgain(t) ==
    /\ At(t, "pruning")
    /\ \E r \in seen[t] :
           /\ run_lock[r] = NoThread
           /\ IF status[r] = "over"
              THEN /\ run_lock' = [run_lock EXCEPT ![r] = t]
                   /\ target' = [target EXCEPT ![t] = r]
                   /\ Goto(t, "deleting")
                   /\ UNCHANGED seen
              ELSE /\ seen' = [seen EXCEPT ![t] = @ \ {r}]
                   /\ UNCHANGED <<run_lock, target, pc>>
    /\ UNCHANGED <<status, aged, serving, dropped, unread, todo, submit_lock,
                   retention_lock, faults>>

\* Whatever is on disk by now is deleted: submit() saves without this lock.
Delete(t) ==
    /\ At(t, "deleting")
    /\ status' = [status EXCEPT ![target[t]] = "gone"]
    /\ seen' = [seen EXCEPT ![t] = @ \ {target[t]}]
    /\ run_lock' = [run_lock EXCEPT ![target[t]] = NoThread]
    /\ target' = [target EXCEPT ![t] = 0]
    /\ Goto(t, "pruning")
    /\ UNCHANGED <<aged, serving, dropped, unread, todo, submit_lock,
                   retention_lock, faults>>

EndRetention(t) ==
    /\ At(t, "pruning")
    /\ seen[t] = {}
    /\ retention_lock' = NoThread
    /\ Goto(t, After(t))
    /\ UNCHANGED <<status, aged, serving, dropped, target, listing,
                   submit_lock, run_lock, faults>>

-----------------------------------------------------------------------------
(* Faults, the cluster and time *)

\* A save or a mkdir of submit() raises: the run stays as it was saved.
SubmitFails(t) ==
    /\ At(t, "save") \/ At(t, "create")
    /\ Fault
    /\ LeaveSubmit(t, "idle")
    /\ UNCHANGED status

\* A deletion raises, before the record is gone or after it, and with it the
\* call or the pass retention is part of.
RetentionFails(t) ==
    /\ At(t, "deleting")
    /\ Fault
    /\ status' \in {status, [status EXCEPT ![target[t]] = "gone"]}
    /\ retention_lock' = NoThread
    /\ run_lock' = [run_lock EXCEPT ![target[t]] = NoThread]
    /\ target' = [target EXCEPT ![t] = 0]
    /\ seen' = [seen EXCEPT ![t] = {}]
    /\ todo' = IF t = Reconciler THEN {} ELSE todo
    /\ Goto(t, "idle")
    /\ UNCHANGED <<aged, serving, dropped, unread, submit_lock>>

\* The process stops and starts again, perhaps with queues dropped from its
\* config.
Restart ==
    /\ Fault
    /\ serving' = FALSE
    /\ dropped' \in {dropped, Unlisted}
    /\ pc' = [t \in Threads |-> "idle"]
    /\ target' = [t \in Threads |-> 0]
    /\ unread' = [t \in Threads |-> {}]
    /\ seen' = [t \in Threads |-> {}]
    /\ todo' = {}
    /\ submit_lock' = NoThread
    /\ retention_lock' = NoThread
    /\ run_lock' = [r \in Runs |-> NoThread]
    /\ UNCHANGED <<status, aged>>

InSubmission(r) ==
    \E t \in Threads : (At(t, "save") \/ At(t, "create")) /\ target[t] = r

Age(r) ==
    /\ status[r] = "over"
    /\ r \notin aged
    /\ ~InSubmission(r)
    /\ aged' = aged \cup {r}
    /\ UNCHANGED <<status, serving, dropped, pc, target, listing, locks, faults>>

-----------------------------------------------------------------------------
Submission(t) ==
    \/ Count(t) \/ Refuse(t) \/ Accept(t) \/ SaveAttempt(t) \/ CreateJob(t)
    \/ CreateUncertain(t)
Pass == List \/ StartVisits \/ Visit \/ EndPass
Work(t) == \E r \in Runs : Finish(t, r) \/ CancelRun(t, r)
Retention(t) ==
    \/ BeginRetention(t) \/ Survey(t) \/ ChooseExpired(t) \/ LookAgain(t)
    \/ Delete(t) \/ EndRetention(t)

Next ==
    \/ \E t \in Submitters : BeginSubmit(t) \/ Submission(t)
    \/ BeginPass \/ Pass
    \/ \E t \in Cancelers : BeginCancel(t)
    \/ \E t \in Threads : Work(t) \/ Leave(t) \/ Raise(t) \/ Retention(t)
    \/ \E t \in Submitters : SubmitFails(t)
    \/ \E t \in Threads : RetentionFails(t)
    \/ \E r \in Runs : Age(r)
    \/ Restart

Spec == Init /\ [][Next]_vars

(***************************************************************************)
(* Fairness.  Threads go on with what they do, and get the locks they wait *)
(* for; reconcile_loop never stops making passes; a run whose queue is in  *)
(* the config ends after enough visits (RunEnds of RunController).         *)
(* Requests need not come.                                                 *)
(***************************************************************************)
Fairness ==
    /\ \A t \in Submitters : WF_vars(Submission(t))
    /\ WF_vars(BeginPass) /\ SF_vars(Pass)
    /\ \A t \in Threads : WF_vars(Leave(t) \/ Raise(t)) /\ SF_vars(Retention(t))
    /\ \A r \in Runs : SF_vars(Finish(Reconciler, r))

FairSpec == Spec /\ Fairness

-----------------------------------------------------------------------------
(* Properties *)

\* However many requests and passes run at once, and although listings are
\* read file by file while runs end, at most maximum_active_runs hold
\* capacity (submit counts and accepts under one lock).
CapacityRespected == Cardinality({r \in Runs : HoldsCapacity(r)}) <= MaxActive

\* Retention deletes a run that is over, never one that holds capacity, and a
\* deleted run does not come back: the saves submit() makes without the run's
\* lock, after a cancel has ended its run, land neither between retention's
\* second look and the deletion (controller.py:353-360) nor after it.
OnlyOverDeleted ==
    [][\A r \in Runs :
           /\ status'[r] = "gone" => status[r] \in {"over", "gone"}
           /\ status[r] = "gone" => status'[r] = "gone"]_vars

\* A run is deleted only when it is too old or when MaxRetained newer runs stay
\* on disk, whoever else deletes at the same time
\* (maximum_retained_terminal_runs).
NewestKept ==
    [][\A r \in Runs : status[r] = "over" /\ status'[r] = "gone" =>
          \/ r \in aged
          \/ Cardinality({q \in OnDisk : q > r}) >= MaxRetained]_vars

\* When no call is under way, no more than MaxRetained ended runs are kept:
\* every call that ends a run looks at all of them afterwards.  A call that
\* raised, or a restart, may leave more until the next run ends.
RetentionBounded ==
    (\A t \in Threads : At(t, "idle")) /\ faults = 0 =>
        Cardinality({r \in Runs : status[r] = "over"}) <= MaxRetained

\* Every call returns: no order of the submit, retention and run locks makes
\* threads wait for one another for ever.
CallsReturn == \A t \in Threads : ~At(t, "idle") ~> At(t, "idle")

\* Every run the service holds on to is brought to its end by some pass ("a
\* replacement Pod reconstructs all non-terminal runs from Kubernetes",
\* docs/agentx-service.md, Operator configuration).
EveryRunEnds == \A r \in Runs : HoldsCapacity(r) ~> ~HoldsCapacity(r)

\* The same for the runs whose queue is in the config.
ListedRunsEnd ==
    \A r \in Runs \ Unlisted : HoldsCapacity(r) ~> ~HoldsCapacity(r)
=============================================================================
