# A verification project for agentx-service

agentx-service runs AIPerf benchmark sweeps as Kubernetes Jobs that Kueue
admits. A request names the concurrency values to try and how often a failed
attempt may be retried; the service keeps one JSON record per run on a volume,
creates one Job at a time for it, watches it, collects and publishes its
artifacts, deletes it, and goes on until every value is decided. Everything
that matters happens between a file, a cluster that moves by itself, and threads
that share locks, and any of it may be cut short by a restart. This project
models that part of the program in TLA+, and the way requests take to it and its
answers back, checks it with TLC and proves its most important properties with
TLAPS.

## The system and its parts

Paths are below `src/src/agentx_service/`.

| Part | State | Operations | Modelled in |
|---|---|---|---|
| `BenchmarkRecord` (models.py) and the edits of it (controller.py) | state of the run, list of attempts, decided levels | `_start_attempt`, `_advance`, `_fail_attempt`, `_queue_cleanup`, `_complete_cleanup`, `_active_attempt` | `RunRecord` |
| `BenchmarkController`, one run | the state file, the copies threads work on, the run's lock, `report.json` | `submit`, `reconcile`, `cancel`, `get_report` | `RunController`; promise: `RunLifecycle` |
| `BenchmarkController`, all runs | submit lock, retention lock, run locks, the state directory | `submit`, `reconcile_all`, `reconstruct`, `cancel`, `enforce_retention` | `Service` |
| Artifact promotion (controller.py) | attempt, staging and canonical directories | `_persist_job_log`, `_promote_artifacts`, `_bounded_artifact_hashes`, `_replace_oversized_attempt` | `Promotion`; as a single step, `LevelPromotion` |
| `FileRunStore` (store.py) | one file per run | `save`, `get`, `list`, `delete`, `check_writable` | the saves and listings of `RunController` and `Service`; `Readiness` |
| `KubectlBackend`, Jobs (backend.py) | none; the Job, its Pods, the attempt's directory | `build_job_manifest` and its script, `create`, `observe`, `delete`, `logs` | `JobBackend`; as single steps: `JobLifecycle`, `RunController` |
| `KubectlBackend`, queues | none | `inspect_queue`, `ready` | `Planner`, `Gateway`, `Readiness` |
| Kubernetes and Kueue | Jobs, Pods, probe | admission, start, end, deletion, eviction, flavors | external, in `RunController`, `JobBackend`, `Readiness`, `Planner` |
| `serve` (server.py) | `readiness`, `reconciliation` | startup, `do_POST`, `do_GET`, `reconcile_loop`, `readiness_loop` | `Gateway`, `Readiness`, `Service` |
| `AgentXMcp` (mcp.py) | none | two protocol profiles, seven tools | `Protocol` (what a message is), `Gateway` (what becomes of it) |
| Planner (planner.py) | none | `plan_benchmark`, `_quantity` | `Planner` |
| Monitoring (monitoring.py) | none | `preflight`, `warmup`, `ready`, `capture` | `Planner`, `Gateway`, `Readiness`; `capture` is a part of `Promotion`'s `Stage` |
| Command line (cli.py) | none | `submit-http` | a client of `Gateway` |
| Reporting, config, other commands | none | pure functions and input/output | not, see the end |

How they interact. A request thread of the HTTP server calls the controller and
returns (`Gateway` is that thread up to the accepted run); `reconcile_loop` visits every run that holds capacity, newest first, every
ten seconds; at startup `reconstruct` does the same once before anything listens,
so that neither a request nor the livenessProbe is answered while it runs. Threads share the state directory and three kinds of locks: the submit
lock (one submission counts, plans and starts at a time), the retention lock,
and one lock per run, held by `reconcile`, `cancel`, the readers of artifacts
and reports, and retention for each run it deletes. **`submit` does not hold the
lock of the run it accepts.** The cluster is only asked, through `kubectl`; each
answer may be out of date when it is used.

What is hard. A save and a kubectl call are two effects, and a restart or
another thread may come between them; `create` and `delete` may have been
applied although they raised; `delete` is three calls while Pods drain; a
listing is read file by file while runs end and disappear; a copy of a record is
edited while another thread saves the same record; a promotion is a copy, a
marker and a rename; retries, cancellation and pending cleanups meet in every
order; an evicted Pod's script runs again over its own results; an answer may be
lost, late or replaced although the tool has run; what the service depends on
breaks and recovers between the reads of one check. `PROJECT.json` lists each hazard with its line and its properties.

What makes each part correct:

- the record: attempts are numbered in order and within the retries, only the
  last one is unsettled, levels are decided in turn by the attempts made for
  them, the state of the run agrees with all that, and nothing final is undone;
- one run: a Job exists only for the last attempt on disk and only while the
  run holds capacity; a Job follows its record, in creation and in deletion; a
  run that is over never changes; a completed level has its attempt published;
  the report is that of the final record; every run ends;
- all runs: never more than `maximum_active_runs`; retention deletes only what
  is over and only the oldest or too old; passes reach every run; calls return;
- promotion: what is recorded as succeeded is published whole; a failed
  promotion leaves nothing in the way; an interruption loses no good attempt;
- one Job: a success is whole, a confirmed deletion final, an attempt's directory
  bounded, and each answer fits a moment of the Job's life;
- requests: a tool runs exactly for what the contract allows, what is accepted can
  be admitted and measured, and what a client is told fits what is on disk;
- readiness: ready means looked at and in order; bad is noticed, recovery too.

## The modules

### RunRecord: the record and its edits

No variables: operators on records, one per method that edits one, used by
`RunController` and proved about in `RunRecordProofs`. A concurrency value is its
position in the request (`Levels`): values are unique (models.py, 63-70) and the
controller only compares them. `completed` and `failed` are sets, as only
membership is read. `active_concurrency_index` is left out: nothing reads it.
Timestamps, error texts, hashes and provenance are left out. `WellFormed` is the
conjunction of what every record must satisfy.

### RunController: one run, call by call

| Variable | Code |
|---|---|
| `disk` | the state file (`FileRunStore.save` replaces it atomically) |
| `rec[t]` | the copy of the record the thread works on |
| `pc[t]` | where it is: the next effect that others can see |
| `lock` | holder of the run's lock |
| `jobs` | Job and Pods of each attempt: `deleting` is a Job marked for deletion, `draining` Pods whose Job is gone |
| `overdue` | `_age_seconds(submitted_at) > admission_timeout_seconds` |
| `canonical` | the attempt published for each level |
| `report` | `report.json`: absent, of the current record, or of an earlier one |
| `faults` | a counter for the bound |

An action is the code from one visible effect up to the next: `SaveStarted` is the
save of `_start_attempt`, `CreateJob` and `CreateUncertain` its `create`,
`Observe...` the answers of `observe` and the branch of `_reconcile` each takes,
`SaveCleanup`, `DeleteJob`, `ConfirmJob`, `ConfirmGone` the save of
`_queue_cleanup` and the three kubectl calls of `delete`, `Save` and `WriteReport`
the end of a call. `Reconcile` and `Cancel` are the two entries under the lock.
`_advance` of a run without an attempt (a stop between submit's two saves) starts
the first attempt and returns without another save, which the model tells by the
length of the list of attempts. The second save after an uncertain create is one
with the save that ends the call: nothing differs on disk but an error text.
A Job being deleted still shows the status it had, so it may be observed as
anything. An uncertain create has been applied or never will be; one that is
applied later is modelled in `JobBackend` (`LateCreate`).

`Promote` takes a promotion for one step, and what happens to a Job comes in single
steps too. That these are the steps the detailed models come to is shown from
both sides: `RunController` implements `LevelPromotion` for every level
(`LevelsFit`) and `JobLifecycle` for every attempt (`JobsFit`); `Promotion` and
`JobBackend` implement one level and one attempt each. A level's latest attempt is
read from the record, its outcome from the phases and the failed levels; how far
the two looks of a deletion came is read from where the thread inside the call
stands. What the two interfaces say together is not composed any further: each
detailed model has its own abstraction of the rest of the run. `Restart` loses
`rec`, `pc` and `lock`; `WriteFails` is an exception out of a save, a `mkdir` or
the replacement of oversized artifacts; `OutsideDelete` and `Evict` are what
others may do to the Job. The cluster's own moves (`Admit`, `StartPods`, `EndJob`,
`JobGone`, `PodsGone`) are external.

The constant `Overlap` says whether another thread may enter while `submit` is
still running. With `Overlap = FALSE` the properties hold; with `TRUE` some of
them, `TerminalIsFinal` and `JobsOwned`, do not: the run `resurrected` shows how.

### RunLifecycle: the promise

What a client and an operator may rely on for one run: `status` (none, active,
canceling, over, gone), `outcome`, and whether anything of it is `live` in the
cluster. A Job is created for an active run only, a run is over only when nothing
is left, an outcome stays. `RunController` implements it under the mapping at the
end of that module (`Status`, `Outcome`, `Live`), checked as `KeepsPromise` and
proved as `ImplementsLifecycle`. `gone` is reached only in `Service`.

### Service: many runs

A run is its status in `RunLifecycle`; what a call may do with it is what
`RunController` shows (`Finish`, `CancelRun`), and a submission works on the run it
accepts without its lock: `Accept` is the first save, `SaveAttempt` the second one,
and `CreateUncertain` the third, after a create that raised. The second and the
third write "active" whatever happened in between. Runs are numbered by
creation, as `created_at` orders them. Modelled in full are the listing
(`StartListing`, one `ReadFile` per file), the three kinds of locks, the pass
(`BeginPass`, `List`, `StartVisits`, `Visit`, `EndPass`; a raising visit ends it),
the calls under a run's lock (`Lock`, `Leave`, `Raise`), retention in its two
phases (`Survey` and `ChooseExpired`; then, under each run's lock, `LookAgain`, the
second look at the record, and `Delete`), restarts with
another config (`dropped`), and startup (`serving`). Reading calls hold a run's
lock like a canceler that changes nothing.

Between `LookAgain` and `Delete` a save of `submit`, which takes no run lock, is
possible in the model, and `Delete` deletes what it finds. That it finds nothing
active is a property (`OnlyOverDeleted`), and it is not for the run's lock that it
holds: a run still in `submit` is the newest one, so that retention can have
chosen it for its age only, and a run does not reach that age while `submit` is at
work on it. This is the model's one assumption on time (`InSubmission` in `Age`):
`terminal_retention_seconds` is at least an hour, and `submit` makes directories,
saves and waits for one `kubectl create` of at most 30 seconds. Within one process
the second look then finds what the survey found; its other branch, the run that
is passed over, would be needed with a second process on the volume.

### LevelPromotion and Promotion: one level's artifacts

`LevelPromotion` is what `RunController` takes for granted: publication, removal and
the save of the outcome are a step each, and nothing is put in another attempt's
place. `Promotion` implements it (`FitsLevel`; a canonical directory that is only
half there counts as none).

The directories of one level, effect by effect: the log (`PersistLog`), the checks
(`CheckOversized` ... `RefuseExisting`), the copy (`Stage`), dashboard and marker
(`Seal`), `os.replace` (`Publish`), the save. A tree of files is abstracted to
what its hashes tell apart: the attempt, the execution of the Job that wrote it
(a deleted Job is run again in the same directory), the log that was added, and
whether promotion accepts it (good, malformed, oversized, replaced), and whether
a removal has taken part of it away. A canonical
directory is accepted when its marker and hashes are those of the attempt
directory as it is now. `Interrupt` is a restart or a raising save anywhere,
`InterruptRemoval` one within `rmtree`, which removes file after file.
Markers without `promotion_complete`, which only earlier versions wrote, are left
out.

### JobLifecycle and JobBackend: the Job of one attempt

`JobLifecycle` is what `RunController` takes for granted about one Job: its state,
what one look may show in which state (`Shows`, the guards of the `Observe...`
actions), and the two looks of a deletion. `JobBackend` is what happens behind
it, one kubectl call and one Pod at a time:

| Variable | Code |
|---|---|
| `job`, `deleting` | the Job object as `build_job_manifest` makes it: suspended, admitted, with a condition; marked for deletion |
| `pods` | the Pods started for it: where each one's script is, what AIPerf left, what `cp -a` has still to copy |
| `tree` | the attempt's directory: which Pod wrote each file |
| `at`, `said`, `jobSeen`, `confirmed` | the call under way and what it has answered |
| `closing` | the cleanup is on disk: the controller will not create this Job again |
| `late`, `stray` | a create whose kubectl was given up after 30 s; whether it took effect after the attempt was decided |
| `log` | what `logs` returned: its length and its mark |

`AiperfEnds`, `CopyFile`, `PodFails`, `ScriptExits` are the script (checks before the
copy, `set -e`, the exit status last); `Conclude`, `DeadlineExceeded` what
`backoffLimit: 0` and `activeDeadlineSeconds` make of it; `GetJob`, `Diagnose`,
`ObserveError` are `observe` with the diagnostics it asks for before it answers;
`DeleteJob`, `ConfirmJob`, `ConfirmPods` are `delete`. Assumed of Kubernetes and
Kueue, and named in the module: Pods deleted by a suspension do not count as
ended, a Pod that has ended is not evicted, a benchmark (60 s at least) outlives
the grace period of the Pods before it, and the deadline (two minutes at least)
does not pass between `delete`'s look for the Job and its look for the Pods.

### Planner, Protocol and Gateway: requests

`Planner` and `Protocol` have no variables. `Planner` is `plan_benchmark`: a
ClusterQueue is a list of groups of flavors, `Listed` and `Index` are the two lists
per resource that `inspect_queue` flattens and the planner matches by position,
quantities are a number and a suffix. Beside it stands `Admissible`, what Kueue
needs on nominal quota: for each group that covers something of the Job, one
flavor with enough of all of that (what a cohort lends is left out). What is
accepted can be admitted (`PlanIsSound`). The other direction is claimed for less:
`OneFlavorSuffices` is the part of `Admissible` in which one flavor of one group
has enough of everything, and such a queue is accepted (`PlanIsComplete`). The
planner requires one flavor for all three resources, and so refuses a queue that
shares them out over groups although Kueue would admit the Job.
Likewise `ValidTargets` (the checks of a target list) and `AllThere` (what they are
to mean).

`Protocol` is the checks of `do_POST` and `handle` in the order of the code, as lists
of a condition and a verdict, for the two profiles; a message is a record with
the few values each check tells apart. Two checks raise what nobody catches (a
header with characters outside ASCII, in the name or in the authorization): the
connection drops, the verdict `Drop`. `Contract` states in one formula, without
order and without the code's cases, when a tool may run.

`Gateway` composes them with clients and threads. A thread takes a message
(`Send`), decides it (`Dispatch`), runs the tool under the submit lock
(`BeginSubmit`, `CountActive`, `Inspect`, `Preflight`, `Check`, `Warmup`, `SaveRun`,
`StartAttempt`, `Retain`) and answers (`Reply`, with `Bounded` for
`_bounded_response`). A client may give up (`GiveUp`) and send again; a tool may
raise at every call it makes, before the run is saved and after; the service may
restart. `runs` remembers the request each run came of. What becomes of a run is
abstracted to `RunEnds`.

### Readiness: in and out of traffic

`check` is where `readiness_loop` is in `controller.readiness` (storage, Kubernetes,
each queue, Prometheus), `pass` the place of the run that the pass under way visits
next: the first pass is that of `reconstruct`, and `serving` begins with its end;
the others are those of `reconcile_loop`. Runs are visited newest first, each at a
moment of its own, and the first whose reconcile raises ends the pass
(`VisitRaises`), and in `reconstruct` the process. `published` and `reconciled` are the two flags `/readyz` answers with, `routed` and `misses` are the
kubelet's. `good` is what is in order at the moment, and changes between any two
reads; `hung` is a volume that does not answer, the one call without a timeout.
`since` and `verified` are history variables: what was in order at some time of the
current check or pass, and whether the last one that ended found nothing wrong
and that was everything.

The container may be restarted at any time: `Restart` while it serves, `CutStart`
before. The second one is not only a crash. The livenessProbe
(deploy/agentx-service.yaml, 109-111) asks `/healthz`, which nothing answers before
`reconstruct` returns, so that a start with a promotion or slow kubectl calls in it
may be killed and begun anew, as often as it takes that long. Neither how long it
takes nor how long the kubelet waits is in the model; a start may be cut whenever
it has not ended.

## What the runs check

Each property of a passing run has a mutant, an operator next to the one it
replaces with the bug it stands for named in its comment, that TLC finds with the
same configuration. Deadlock checking is on except in `jobbackend` and `gateway`,
where everything really may come to rest: an attempt whose Job is deleted, and
clients that have sent what they had to send.

| Run | Bounds | Result |
|---|---|---|
| `quiet` | 2 levels, 1 retry, loop and canceler, 2 faults, no overlap with submit, fairness | 142,519 states; record, Jobs, canonical results, report, history and the promise of `RunLifecycle` hold, no more attempts are made than planned, levels and Jobs go through what `LevelPromotion` and `JobLifecycle` allow, and every accepted run ends |
| `service` | 3 runs, 2 submitters, 1 canceler, the loop, capacity 1, 1 run retained, 1 fault | 1,209,678 states; capacity, retention and deletion hold |
| `passes` | 2 runs, 1 submitter, 1 canceler, capacity 1, 1 fault, fairness | 30,777 states; every run ends, every call returns |
| `promotion` | 2 retries, one log, 2 interruptions, 2 errors | 314,117 states; publication and retry hold, and `LevelPromotion` is implemented |
| `jobbackend` | 5 kinds of output, at most 2 files, 2 Pods, 2 faults | 1,944,985 states; success, deletion and bounds hold, and `JobLifecycle` is implemented |
| `gateway` | every message that differs in one field from a good one of either profile, 2 threads, a client that sends once beside a command line that sends twice, capacity 1, 2 runs, 1 restart | 2,258,066 states; contract and answers hold, plans accept only what can be admitted and measured, and all that one flavor has enough for |
| `readiness` | 2 queues, 2 runs, failure threshold 2, fairness | 1,024,696 states; ready was verified, bad is taken out, good is taken in once the container is left alone |
| `resurrected` | 1 level, 1 retry, overlap, no fault | `TerminalIsFinal` violated |
| `cancel_ignored` | 1 level, 1 retry, no overlap, no fault | `CancelCreatesNothing` violated |
| `stale_report` | the same with 1 fault | `NoStaleReport` violated |
| `dropped_queue` | 2 runs, capacity 2, a restart drops the newer one's queue | `ListedRunsEnd` violated |
| `half_removed` | 1 retry, one log, 1 interruption, no error | `NothingMissing` violated |

Why these bounds are enough to show the interesting cases. Two levels give an
advance from one to another and all four verdicts (completed, partial, failed,
canceled); one retry gives a first and a last attempt of each level, and every
safety property of `quiet` is proved for any number of them. One canceler is
enough for one run, as cancels exclude one another under the lock. Two faults
give a crash during the recovery from a crash, or an outside deletion before
one. Three runs with one slot and one retained give a run that is submitted while
one ends and a third is deleted; two submitters race for the slot. In `Promotion`
two interruptions and two errors cover a promotion cut twice, or cut and then
run again after its Job was deleted. Two Pods give an execution and the one
that repeats it after an eviction; five files give a link, one over the limit,
and one more than allowed. In `gateway` a good message and a single difference
reach every check of both profiles with all earlier ones passed, and the
two sends of the command line give a retry of what was accepted already; the
ClusterQueues have enough of all or lack one resource in each of two flavors, lack a quota,
or spread the resources over groups, and the target lists miss one, repeat one,
or hold one that is down or nameless. Two queues give a readiness loop that
reads one while the other changes, two runs a pass that visits one while the
other changes, a threshold of two a single missed probe that
must not count.

`MaxFaults`, `MaxInterruptions`, `MaxErrors` and `Gateway`'s `MaxRestarts` bound faults,
`RunCount` and `MaxRuns` the runs ever accepted, `MaxSends` the messages of a
client, `MaxPods` the Pods started for an attempt; nothing else is bounded
artificially. No theorem depends on the value of a bound.

What the violations show about the code:

- `resurrected`: `submit` works on the run without its lock. A
  cancel after its first save is overwritten by its second one; a cancel after
  its second save finds no Job, ends the run, and the Job is created afterwards,
  without an owner (the same cause; it is not a run of its own).
  Capacity as the service counts it is still respected (`CapacityRespected` holds
  and is proved with overlap, since the submitter keeps the submit lock): what is
  lost is the link from that Job to a run that counts.
- `cancel_ignored`: a cancel that finds a cleanup pending completes it. When it was
  that of a failed attempt with a retry left, the cancel saves the next attempt,
  creates its Job and returns the run active.
- `stale_report`: a report read during the run is kept when the service stops
  between the last save and the final report.
- `dropped_queue`: one run that raises hides all older ones from the pass, and at
  startup keeps the service from serving.
- `half_removed`: the directory of an oversized attempt is removed before the
  verdict is saved. What a stop within the removal leaves may be within the limits,
  and the next visit promotes it: a success with files missing.

`InterruptionIsHarmless` is checked and proved for one log only. The log of an ended
Job is fetched anew at each observation and written into the attempt directory;
with two different logs TLC finds that a stop between publication and save makes
the hashes differ from the marker, and the good attempt is refused.

## Fairness

Safety runs use `Spec` and assume none. `RunController!Fairness`: threads inside a
call go on (weak fairness of `Continue`); the loop keeps visiting the run
(`reconcile_loop` never stops) and gets its lock among others that ask for it
(strong fairness of `Reconcile`); observation, deletion and confirmation are
answered now and then if they are tried for ever (strong fairness of those
steps: the API server does not fail every single call); Kubernetes ends a Job,
at the latest at the `activeDeadlineSeconds` of the manifest, and carries a
deletion out; clocks advance. Kueue promises nothing: a Job may stay suspended,
and the admission timeout must end it. `Service!Fairness`: threads go on and get
the locks they wait for, the loop keeps making passes, and a run visited again
and again ends, which is what `RunEnds` shows of `RunController`; requests need
not come. `Readiness!FairSpec`: the loops' threads run and each read but those of
the volume answers in time (the backend's and the monitoring's timeouts), and the
readiness probe asks. That a start is ever left to its end is not assumed, as the
livenessProbe does not promise it: `BadIsTakenOut` holds however often the container
is restarted, and `GoodIsTakenIn` has as a premise that from some time on it is not.
A volume that hangs for ever leaves the last answer
for ever, so `BadIsTakenOut` has as a premise that it does not; `GoodIsTakenIn` needs
everything to stay in order from some time on as well. `JobBackend` and `Gateway` claim
safety only.

## What is proved

TLAPS checks the following for every value of the constants that satisfies the
named assumptions (`LevelCountAssumption`, `RetriesAssumption`,
`NoRecordAssumption`, `ThreadsAssumption`, ... in the modules that declare them).

`RunRecordProofs` shows that every edit takes a well-formed record to a
well-formed one. The hardest is `AfterCleanupWellFormed`: settling the last
attempt may start a retry, advance to another level, or end the run. It rests on
`OnlyLastUnsettled` (the active attempt, and the one whose cleanup is pending, is
the last one) and on counting: the number of a new attempt is one more than the
attempts of its level, shown with cardinalities of intervals.

`RunControllerProofs`, first part, with or without overlap: `TypeCorrect` and
`WellFormedAlways`. The invariant `TInv` adds to well-formedness what the code
at each label relies on in its copy (`Fits`): at `start` and `create` the last
attempt is open, at `queue_cleanup` ... `pods` a cleanup is pending. From it also
`AttemptsBounded`: no two attempts of a run have the same number of the same level
(`IdsDistinct`), so there are at most as many as the plan announced to the client.

Second part, under `~Overlap`: `JobsAreOwned`, `TerminalStaysFinal`,
`RecordComesFirst` and `ImplementsLifecycle`. None of these is inductive: the
step that creates a Job knows nothing of the other Jobs. The invariant `CInv`
adds that one thread at a time is inside a call (`Alone`), that what exists
belongs to the last attempt on disk while it is unfinished (`Owned`), and for
each label how the thread's copy relates to the disk and to the cluster
(`Follows`): at `create` the disk holds the copy and no Job exists, at `pods` the
Job is gone, after the confirmation nothing is left. The refinement is
shown step by step: a save maps to Accept, Cancel, Finish, Close or a stutter
(`SavePromise`), a cluster step to Start, Stop or a stutter (`JobPromise`).

Three more rest on `CInv`. `CompletedStaysPromoted`: `PInv` says that every
succeeded attempt, on disk and in each copy, is the canonical one of its level.
`ReportIsFinal`: `RInv` says that a run that is over, without faults, has its
report or a thread about to write it. `HistoryStays`: `HInv` says that a thread
about to save holds a record that extends the one on disk (`Extends`: what was
settled stays so, and an attempt that is new is open); a thread that has just read
the record extends it trivially, and each edit keeps that.

Third part, the two interfaces. `LevelsFollow`, from `CInv`, `PInv` and `HInv`: a save
either leaves a level as it is, adds a retry of it, completes it while its latest
attempt is the canonical one, or fails it after the last retry; promotions happen to
the latest attempt only, and while the level is open. `JobsFollow`, from `CInv` and
`HInv`: one thread at most is inside a call, so what was seen of a Job is where that
thread stands (`ThreadView`); an attempt is gone on disk only by a save of a thread
that found Job and Pods gone before in the same call (`ConfirmedJobs`), and once gone
it stays gone (`StaysGone`), as no attempt is numbered again.

`ServiceProofs`: `ServiceTyped`, `CapacityIsRespected`, `OnlyOverRunsDeleted`,
with overlap of submissions and calls. The invariant `SInv`: who is inside
submit's transaction holds the submit lock; while files are counted, every run
that holds capacity is among the files kept or still to be read (no run begins
to hold capacity meanwhile, so the count errs on the safe side only); and once a
run is accepted there is room for it *even if it is over by now*, as the second
or the third save may make it active again. `OnlyOverRunsDeleted` rests on `DInv`: who
is at `deleting` has the run's lock (`RunLockHeld`), the run `submit` is at work on is
the newest and has not aged (`SubmittedIsNewest`), and what retention has chosen
has aged or a newer run after it (`ChosenOutlived`): so no save of `submit` concerns a
run that is about to be deleted (`DeletedIsOver`).
`NewestAreKept` and `RetentionIsBounded` follow from `RInv`: the thread that
retains has the lock to itself (`RetentionAlone`); what it is about to delete is too
old or has `MaxRetained` newer runs on disk that it will not delete (`NewerRemain`);
and, without faults, either few runs are over, or some thread has retention still
to begin, or the one at it will have read, or is deleting, the surplus
(`SurplusSeen`). That a listing loses all but the newest (`ExpiredLeaves`) is proved
from the existence of a newest and an oldest run in a finite set.

`PromotionProofs`: `PromotionTyped`, `SuccessIsPublished`, `FailureLeavesNothing`,
`InterruptionsHarmNothing` and the refinement `PromotionFitsLevel`. The invariant
`PInv` says that at `publish` the staged tree is the source, and that at `succeed`, and
once the phase is succeeded, the canonical directory is the sealed source. `NInv`
says that, uninterrupted, only the promotion under way has a staging directory;
`HInv`, for one log and no errors, that what is canonical before the attempt is
settled is that very attempt, so that it is accepted when it is seen again; `LInv`
that nothing is canonical while a promotion is staged.

`JobBackendProofs`: `JobBackendTyped`, `SuccessIsWhole`, `DirectoryIsBounded`,
`DeletionIsFinal` and the refinement `JobBackendFits`. `PodInv` says that a Pod is
started when none before it may go on, that a Pod that copies is alone with the
directory (`Alone`), that what it has copied lies there as it made it (`Written`),
and that what is made passed the checks (`Bounded`). `CallInv` ties the answers to
it: a Job that is complete has a whole execution and no writer, and what `delete`
saw of the Job stays so while it looks for the Pods. `LInv` adds what the
refinement needs: an ended Job still holds its Pod while `delete` looks for it.

`ProtocolProofs`: `VerdictIsContract`, for every message: no check of either list
fails exactly where `Contract` holds.

`GatewayProofs`: `GatewayTyped`. `EligibleIsAdmissible`, for every ClusterQueue Kueue accepts (no
resource and no flavor in two groups, `WellFormedQueue`): the positions at which
the planner finds quotas are all one group and flavor, and no other group covers
any of it; and back, `OneFlavorIsEligible`: where one flavor of one group has enough
of everything it is found, whatever the queue lists before it. `ValidIsAllThere` and `AllThereIsValid`, for lists of any length, by
counting. From them `PlansAreSound` and `PlansAreComplete`;
and `AnswersFitDisk` and `CallsAreContract` from an invariant that says that no two
threads serve one request, that a request whose run is not saved has none, and
that who was told is served by nobody any more. `MessagesAssumption`,
`QueuesAssumption` and `AnswersAssumption` say that messages, queues and answers
are of the shapes described, and `NoneAssumption` that what stands for the absence of
a thread, a request or an answer is none of them.

`ReadinessProofs`: `ReadinessTyped` and `ReadyIsVerified`; the invariant `VInv` says
that what the check has read so far, and the runs the pass has visited, were in
order at some time since it began.

Only checked by TLC: liveness (`RunEnds`, `EveryRunEnds`, `CallsReturn`,
`BadIsTakenOut`, `GoodIsTakenIn`), which TLAPS does not prove under fairness. Every
invariant, action property and refinement of the passing runs is proved.

## What is not modelled, and why

- Names, labels and arguments in the manifest, JSON schemas and their texts,
  dashboards, report contents, error texts: data that no property of the control
  depends on. Arguments of a tool are valid or not; a record's fields are what the
  checks tell apart.
- `capture` of monitoring, and the bounds of HTTP responses: a capture that fails
  is a warning. `list_owned`, which nothing calls. `/healthz`, which answers whenever the process
  serves; that it does not before is `CutStart`.
- Config loading and the commands of cli.py beside `submit-http`: they run a
  controller of their own, whose locks are not those of the service; this is
  listed as a hazard.
- The legacy recipes, the chart and dashboard tools: sequential scripts over
  finished results, which keep no state.
- Unreadable state files, the two halves of `FileRunStore.delete`, a Workload
  diagnostic that raises for ever, and monitoring profiles other than the first
  in readiness: see the notes of the hazards.

What a tool's error tells a client is left open on purpose: the code may raise
after the run is accepted, so it says nothing about acceptance
(`SubmitAnswersFitDisk`).

## Plan

Done, from the behaviour that matters most outwards: `RunRecord`, `RunController`
with `RunLifecycle`, `Service`, `Promotion`; then `JobBackend` under `RunController`,
`Gateway` with `Protocol` and `Planner` before it, and `Readiness` beside it; and their
proofs.

Next: a second process on the same volume, with locks of its own (the commands of
cli.py).
