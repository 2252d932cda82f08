----------------------------- MODULE JobBackend -----------------------------
(***************************************************************************)
(* The Job of one attempt, call by call and Pod by Pod (backend.py).       *)
(*                                                                         *)
(* build_job_manifest fixes what the Job is: suspended until Kueue admits  *)
(* it, one Pod at a time, no second try (backoffLimit 0), a deadline, and  *)
(* a script that runs AIPerf into a scratch volume, checks what it left    *)
(* and copies it into the attempt's directory on the PVC.  KubectlBackend  *)
(* creates, observes and deletes it through kubectl, one API request per   *)
(* step, and reads its log.  The caller is the controller with the run's   *)
(* lock: one call at a time, over restarts.                                *)
(*                                                                         *)
(* Kubernetes and Kueue are outside src/ and modelled as far as these      *)
(* calls and this manifest use them.  Assumed of them: Pods deleted by a   *)
(* suspension do not count as ended; a Pod that has ended is not evicted;  *)
(* a Pod's benchmark (60 s at least) outlives the grace period of the Pods *)
(* deleted before it.                                                      *)
(***************************************************************************)
EXTENDS Integers, FiniteSets

CONSTANTS
    Files,          \* what AIPerf may leave behind: names,
    Links, Huge,    \*   those that are symbolic links, or files over
                    \*   ARTIFACT_MAX_FILE_BYTES
    MaxFiles,       \* ARTIFACT_MAX_FILES
    MaxLog, Marker, \* maximum_log_bytes, and the length of the text that marks
                    \*   a truncated log
    MaxPods,        \* bound on the Pods started for the attempt
    MaxFaults       \* bound on evictions, outside deletions, restarts and
                    \*   creates that time out

ASSUME KindsAssumption ==
    Links \subseteq Files /\ Huge \subseteq Files /\ IsFiniteSet(Files)
ASSUME LimitsAssumption ==
    /\ MaxFiles \in Nat
    /\ MaxLog \in Nat /\ Marker \in Nat /\ Marker <= MaxLog
ASSUME BoundsAssumption == MaxPods \in Nat /\ MaxFaults \in Nat

VARIABLES
    job,       \* "none", or the Job object's spec and conditions
    deleting,  \* is the Job object marked for deletion?
    pods,      \* the Pods started for the attempt, in order
    tree,      \* the attempt's directory: the Pod that wrote each file, or 0
    late,      \* is a create under way whose kubectl was given up?
    stray,     \* did such a create take effect after the attempt was decided?
    at,        \* where the caller is
    said,      \* the last answer of observe
    jobSeen,   \* delete: was the Job still there?
    closing,   \* is the attempt's cleanup pending on disk, or done?
    confirmed, \* did delete answer that Job and Pods are gone?
    log,       \* the log returned: bytes, and whether it ends with the marker
    faults

jobVars == <<job, deleting>>
callVars == <<at, said, jobSeen, closing, confirmed>>
vars == <<job, deleting, pods, tree, late, stray, at, said, jobSeen, closing,
          confirmed, log, faults>>

PodIds == 1..MaxPods
PodStage == {"unborn", "aiperf", "copy", "succeeded", "failed", "gone"}
Pod == [stage: PodStage, ending: BOOLEAN, status: {0, 1},
        made: SUBSET Files, left: SUBSET Files]
NoPod == [stage |-> "unborn", ending |-> FALSE, status |-> 0, made |-> {}, left |-> {}]

Answers == {"none", "error", "missing", "admission_pending", "runtime_pending",
            "running", "succeeded", "failed"}
NoLog == [size |-> 0, marked |-> FALSE]

TypeOK ==
    /\ job \in {"none", "suspended", "admitted", "Complete", "Failed"}
    /\ deleting \in BOOLEAN
    /\ pods \in [PodIds -> Pod]
    /\ tree \in [Files -> 0..MaxPods]
    /\ late \in BOOLEAN /\ stray \in BOOLEAN
    /\ at \in {"idle", "pod_detail", "workload", "confirm", "pods"}
    /\ said \in Answers
    /\ jobSeen \in BOOLEAN /\ closing \in BOOLEAN /\ confirmed \in BOOLEAN
    /\ log \in [size: 0 .. MaxLog, marked: BOOLEAN]
    /\ faults \in 0..MaxFaults

Init ==
    /\ job = "none" /\ deleting = FALSE
    /\ pods = [i \in PodIds |-> NoPod]
    /\ tree = [f \in Files |-> 0]
    /\ late = FALSE /\ stray = FALSE
    /\ at = "idle" /\ said = "none" /\ jobSeen = FALSE
    /\ closing = FALSE /\ confirmed = FALSE
    /\ log = NoLog
    /\ faults = 0

Fault == faults < MaxFaults /\ faults' = faults + 1

-----------------------------------------------------------------------------
(* The script of the Job's container *)

Exists(i) == pods[i].stage \notin {"unborn", "gone"}
Live(i) == Exists(i) /\ ~pods[i].ending
Runs(i) == pods[i].stage \in {"aiperf", "copy"}

\* Mutant: the size check is missing.
RefusedButSize(output) ==
    \/ output \cap Links # {}
    \/ Cardinality(output \ Links) > MaxFiles

\* exit 90, 91 and 92.
Refused(output) ==
    \/ output \cap Links # {}
    \/ Cardinality(output \ Links) > MaxFiles
    \/ output \cap Huge # {}

Script(i) == UNCHANGED <<job, deleting, late, stray, callVars, log, faults>>

\* AIPerf ends with some status and some output, which is checked before
\* anything is copied.
AiperfEnds(i) ==
    /\ pods[i].stage = "aiperf"
    /\ \A j \in 1 .. i - 1 : ~Exists(j)
    /\ \E output \in SUBSET Files, status \in {0, 1} :
          pods' = [pods EXCEPT ![i] =
              IF Refused(output)
              THEN [@ EXCEPT !.stage = "failed"]
              ELSE [@ EXCEPT !.stage = "copy", !.status = status,
                             !.made = output, !.left = output]]
    /\ UNCHANGED tree
    /\ Script(i)

\* cp -a: file by file, over what an earlier execution left there.
CopyFile(i) ==
    /\ pods[i].stage = "copy"
    /\ \E f \in pods[i].left :
          /\ tree' = [tree EXCEPT ![f] = i]
          /\ pods' = [pods EXCEPT ![i].left = @ \ {f}]
    /\ Script(i)

\* Mutant: without set -e a copy that fails does not end the script.
PodFailsQuietly(i) ==
    /\ Runs(i)
    /\ pods' = [pods EXCEPT ![i].stage =
                    IF @ = "copy" /\ pods[i].status = 0 THEN "succeeded" ELSE "failed"]
    /\ UNCHANGED tree
    /\ Script(i)

\* The copy fails (set -e), or the node ends the Pod: out of memory, over the
\* size of its scratch volume.
PodFails(i) ==
    /\ Runs(i)
    /\ pods' = [pods EXCEPT ![i].stage = "failed"]
    /\ UNCHANGED tree
    /\ Script(i)

\* exit "$status"
ScriptExits(i) ==
    /\ pods[i].stage = "copy"
    /\ pods[i].left = {}
    /\ pods' = [pods EXCEPT ![i].stage =
                    IF pods[i].status = 0 THEN "succeeded" ELSE "failed"]
    /\ UNCHANGED tree
    /\ Script(i)

-----------------------------------------------------------------------------
(* Kubernetes and Kueue *)

\* bash, as process 1, does not react to SIGTERM: a Pod that is to go runs on
\* until it is killed at the end of its grace period.
PodRemoved(i) ==
    /\ Exists(i) /\ pods[i].ending
    /\ pods' = [pods EXCEPT ![i].stage = "gone"]
    /\ UNCHANGED tree
    /\ Script(i)

AllEnding == [i \in PodIds |->
                IF Exists(i) THEN [pods[i] EXCEPT !.ending = TRUE] ELSE pods[i]]

Quiet == UNCHANGED <<tree, late, stray, callVars, log>>

Admit ==
    /\ job = "suspended" /\ ~deleting
    /\ job' = "admitted"
    /\ UNCHANGED <<deleting, pods, faults>> /\ Quiet

\* The next Pod, when none of the Job's own is there.
StartPod(i) ==
    /\ job = "admitted" /\ ~deleting
    /\ pods[i].stage = "unborn"
    /\ \A j \in PodIds : ~Live(j)
    /\ \A j \in 1 .. i - 1 : pods[j].stage # "unborn"
    /\ pods' = [pods EXCEPT ![i].stage = "aiperf"]
    /\ UNCHANGED <<job, deleting, faults>> /\ Quiet

\* completions 1, backoffLimit 0: the Job ends as its Pod does.
Conclude(i) ==
    /\ job = "admitted"
    /\ Live(i) /\ ~Runs(i)
    /\ job' = IF pods[i].stage = "succeeded" THEN "Complete" ELSE "Failed"
    /\ UNCHANGED <<deleting, pods, faults>> /\ Quiet

\* activeDeadlineSeconds: two minutes at least, and so not within delete's look
\* at the Pods of a Job it did not find.
DeadlineExceeded ==
    /\ job = "admitted" /\ ~deleting
    /\ at = "pods" => jobSeen
    /\ \A i \in PodIds : Live(i) => Runs(i)
    /\ job' = "Failed"
    /\ pods' = AllEnding
    /\ UNCHANGED <<deleting, faults>> /\ Quiet

\* Kueue takes the admission back; the next Pod will run everything again.
Evict ==
    /\ job = "admitted" /\ ~deleting
    /\ \A i \in PodIds : Live(i) => Runs(i)
    /\ job' = "suspended"
    /\ pods' = AllEnding
    /\ Fault
    /\ UNCHANGED deleting /\ Quiet

\* A marked Job goes, or somebody else deletes it (the Justfile's wipe does);
\* its Pods are left to the garbage collector.
JobRemoved ==
    /\ job # "none"
    /\ \/ deleting /\ UNCHANGED faults
       \/ ~deleting /\ Fault
    /\ job' = "none" /\ deleting' = FALSE
    /\ pods' = AllEnding
    /\ Quiet

-----------------------------------------------------------------------------
(* create *)

Undecided == ~closing /\ said \in {"none", "missing"}

\* kubectl create, applied whether or not its answer arrives.  (Refused, when
\* the Job exists, or failed, it only raises.)  The next thing done with the
\* attempt is a look at the Job.
Create ==
    /\ at = "idle" /\ Undecided
    /\ job = "none"
    /\ job' = "suspended"
    /\ said' = "error"
    /\ UNCHANGED <<deleting, pods, tree, late, stray, at, jobSeen, closing, confirmed,
                   log, faults>>

\* subprocess.run gives kubectl up after 30 s; the request may go on.
CreateTimesOut ==
    /\ at = "idle" /\ Undecided
    /\ ~late /\ Fault
    /\ late' = TRUE
    /\ said' = "error"
    /\ UNCHANGED <<jobVars, pods, tree, stray, at, jobSeen, closing, confirmed, log>>

\* It takes effect, is refused because the Job exists, or is lost.
LateCreate ==
    /\ late
    /\ late' = FALSE
    /\ \/ /\ job = "none"
          /\ job' = "suspended"
          /\ stray' = (stray \/ closing \/ said \in {"succeeded", "failed"})
       \/ UNCHANGED <<job, stray>>
    /\ UNCHANGED <<deleting, pods, tree, callVars, log, faults>>

-----------------------------------------------------------------------------
(* observe *)

Running == \E i \in PodIds : Live(i)

\* Mutant: an admitted Job is taken for running before it has a Pod.
ShownOnAdmission ==
    CASE job = "none" -> "missing"
      [] job = "Complete" -> "succeeded"
      [] job = "Failed" -> "failed"
      [] job = "suspended" -> "admission_pending"
      [] job = "admitted" -> "running"

\* What the Job shows, in the order in which observe looks.
Shown ==
    CASE job = "none" -> "missing"
      [] job = "Complete" -> "succeeded"
      [] job = "Failed" -> "failed"
      [] job = "suspended" -> "admission_pending"
      [] job = "admitted" /\ Running -> "running"
      [] job = "admitted" /\ ~Running -> "runtime_pending"

Caller == UNCHANGED <<jobVars, pods, tree, late, stray, log, faults>>

\* kubectl get job.  A failed Job's Pods, and a suspended Job's Workload, are
\* asked for before observe answers.
GetJob ==
    /\ at = "idle" /\ ~confirmed
    /\ CASE Shown = "failed" -> at' = "pod_detail" /\ UNCHANGED said
         [] Shown = "admission_pending" -> at' = "workload" /\ UNCHANGED said
         [] OTHER -> said' = Shown /\ UNCHANGED at
    /\ UNCHANGED <<jobSeen, closing, confirmed>> /\ Caller

\* A diagnostic that fails is left out of a failure; one that times out, and
\* any failure to read a Workload, is raised instead of the answer.
Diagnose ==
    /\ \/ at = "pod_detail" /\ said' \in {"failed", "error"}
       \/ at = "workload" /\ said' \in {"admission_pending", "error"}
    /\ at' = "idle"
    /\ UNCHANGED <<jobSeen, closing, confirmed>> /\ Caller

\* The first call itself fails.
ObserveError ==
    /\ at = "idle" /\ ~confirmed
    /\ said' = "error"
    /\ UNCHANGED <<at, jobSeen, closing, confirmed>> /\ Caller

-----------------------------------------------------------------------------
(* logs *)

\* Mutant: the marker is added to what was read.
MarkedWhole(size) ==
    [size |-> IF size > MaxLog THEN MaxLog + Marker ELSE size, marked |-> size > MaxLog]

\* What logs returns: cut to leave room for the marker when it passed the limit.
LogValue(size) ==
    [size |-> IF size > MaxLog THEN (MaxLog - Marker) + Marker ELSE size,
     marked |-> size > MaxLog]

\* An ended Job's log is read chunk by chunk, each no longer than what is left
\* up to one byte over the limit, until the stream ends, that byte is read, or
\* 30 s are over (then with what there is); or kubectl cannot be ended in time
\* and there is no log.
Logs ==
    /\ at = "idle" /\ ~closing /\ said \in {"succeeded", "failed"}
    /\ \E size \in 0 .. MaxLog + 1 : log' = LogValue(size)
    /\ UNCHANGED <<jobVars, pods, tree, late, stray, callVars, faults>>

-----------------------------------------------------------------------------
(* delete *)

\* The controller has saved the attempt's end and its pending cleanup (and its
\* log, if there is one).
Close ==
    /\ at = "idle" /\ ~closing
    /\ closing' = TRUE
    /\ log' = NoLog
    /\ UNCHANGED <<jobVars, pods, tree, late, stray, at, said, jobSeen, confirmed, faults>>

\* kubectl delete --wait=false
DeleteJob ==
    /\ at = "idle" /\ closing /\ ~confirmed
    /\ deleting' = (job # "none")
    /\ at' = "confirm"
    /\ UNCHANGED <<job, pods, tree, late, stray, said, jobSeen, closing, confirmed,
                   log, faults>>

ConfirmJob ==
    /\ at = "confirm"
    /\ jobSeen' = (job # "none")
    /\ at' = "pods"
    /\ UNCHANGED <<said, closing, confirmed>> /\ Caller

\* Mutant: Pods that are already being deleted are taken for gone.
ConfirmLivePods ==
    /\ at = "pods"
    /\ confirmed' = (~jobSeen /\ \A i \in PodIds : ~Live(i))
    /\ at' = "idle"
    /\ UNCHANGED <<said, jobSeen, closing>> /\ Caller

\* Pods are looked for by the Job's name, whichever Job they were started for.
ConfirmPods ==
    /\ at = "pods"
    /\ confirmed' = (~jobSeen /\ \A i \in PodIds : ~Exists(i))
    /\ at' = "idle"
    /\ UNCHANGED <<said, jobSeen, closing>> /\ Caller

\* A call of delete raises: the cleanup stays pending.
CallFails ==
    /\ at \in {"confirm", "pods"}
    /\ at' = "idle"
    /\ UNCHANGED <<jobVars, pods, tree, late, stray, said, jobSeen, closing, confirmed,
                   log, faults>>

\* The service stops; what it had been told is lost.
Restart ==
    /\ Fault
    /\ at' = "idle"
    /\ said' = IF said = "none" THEN "none" ELSE "error"
    /\ UNCHANGED <<jobVars, pods, tree, late, stray, jobSeen, closing, confirmed, log>>

-----------------------------------------------------------------------------
Cluster ==
    \/ \E i \in PodIds :
          \/ AiperfEnds(i) \/ CopyFile(i) \/ PodFails(i) \/ ScriptExits(i)
          \/ PodRemoved(i) \/ StartPod(i) \/ Conclude(i)
    \/ Admit \/ DeadlineExceeded \/ Evict \/ JobRemoved \/ LateCreate

Backend ==
    \/ Create \/ CreateTimesOut
    \/ GetJob \/ Diagnose \/ ObserveError
    \/ Logs \/ Close \/ DeleteJob \/ ConfirmJob \/ ConfirmPods \/ CallFails

Next == Cluster \/ Backend \/ Restart

Spec == Init /\ [][Next]_vars

-----------------------------------------------------------------------------
(* Properties *)

\* An attempt that is told to have succeeded is whole when the controller goes
\* on to promote it: its directory holds every file of an execution that ended
\* well, as that execution wrote it, and no Pod of the attempt, evicted or not,
\* can still write there.  (The checks, cp under set -e, the exit status last,
\* and Complete before anything else in observe.)  Excepted is the Job that
\* comes of a create given up earlier.
SucceededIsWhole ==
    said = "succeeded" /\ ~stray =>
        /\ \E i \in PodIds :
              /\ pods[i].status = 0 /\ pods[i].left = {}
              /\ pods[i].stage \in {"succeeded", "gone"}
              /\ \A f \in pods[i].made : tree[f] = i
        /\ \A i \in PodIds : ~Runs(i)

\* Whatever Pods were started, evicted, or killed in the middle of a copy, the
\* directory never holds a link or a file over the limit, nor more files of
\* one execution than allowed (exit 90 to 92 come before the copy).
TreeIsBounded ==
    /\ \A f \in Links \cup Huge : tree[f] = 0
    /\ \A i \in PodIds : Cardinality({f \in Files : tree[f] = i}) <= MaxFiles

\* Once delete has answered that Job and Pods are gone they are, for good: the
\* Job is looked for before its Pods, nothing but the controller creates it,
\* and the controller no longer does.  The one exception is a create given up
\* after 30 s that takes effect later: such a Job has no owner.
ConfirmedIsGone ==
    confirmed /\ ~stray => job = "none" /\ \A i \in PodIds : ~Exists(i)

\* The Job of one attempt as RunController has it.
State ==
    CASE job = "none" /\ (\E i \in PodIds : Exists(i)) -> "draining"
      [] job = "none" /\ (\A i \in PodIds : ~Exists(i)) -> "absent"
      [] job # "none" /\ deleting -> "deleting"
      [] job = "suspended" /\ ~deleting -> "suspended"
      [] job = "admitted" /\ ~deleting /\ ~Running -> "pending"
      [] job = "admitted" /\ ~deleting /\ Running -> "running"
      [] job = "Complete" /\ ~deleting -> "succeeded"
      [] job = "Failed" /\ ~deleting -> "failed"

Seen ==
    CASE at = "pod_detail" -> "failed"
      [] at = "workload" -> "admission_pending"
      [] at \notin {"pod_detail", "workload"} /\ said \in {"none", "error"} -> "nothing"
      [] OTHER -> said

Checked ==
    CASE confirmed -> "gone"
      [] ~confirmed /\ at = "pods" /\ ~jobSeen -> "job"
      [] OTHER -> "no"

Lifecycle == INSTANCE JobLifecycle WITH state <- State, seen <- Seen, checked <- Checked

\* Every step of the calls, the Pods and the cluster is one RunController
\* allows for its Job, an answer that Job could give, or one of the two looks
\* of a deletion at a moment when it may succeed: what RunController takes for
\* single steps is what the kubectl calls do.
FitsRunController == Lifecycle!Spec
=============================================================================
