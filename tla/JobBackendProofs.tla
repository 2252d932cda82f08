-------------------------- MODULE JobBackendProofs --------------------------
(***************************************************************************)
(* JobBackend, for any files, limits, number of Pods and number of faults: *)
(* types, bounded directories, whole successes and final deletions.        *)
(***************************************************************************)
EXTENDS JobBackend, FiniteSetTheorems, TLAPS

-----------------------------------------------------------------------------
(* Types                                                                   *)

\* The steps that leave Pods and files alone, or only mark Pods for the end.
StillPods == UNCHANGED <<pods, tree>> \/ (pods' = AllEnding /\ tree' = tree)

\* The one Pod that changes, and what becomes of it.
Becomes(i, q) ==
    /\ pods' = [pods EXCEPT ![i] = q]
    /\ q \in Pod

LEMMA NoLogTyped == NoLog \in [size : 0..MaxLog, marked : BOOLEAN]
BY LimitsAssumption DEF NoLog

LEMMA TypeInit == Init => TypeOK
<1> SUFFICES ASSUME Init PROVE TypeOK
  OBVIOUS
<1>1. NoPod \in Pod
  BY DEF NoPod, Pod, PodStage
<1>2. pods \in [PodIds -> Pod] /\ tree \in [Files -> 0..MaxPods] /\ faults \in 0..MaxFaults
  BY <1>1, BoundsAssumption DEF Init
<1>3. log \in [size : 0..MaxLog, marked : BOOLEAN]
  BY NoLogTyped DEF Init
<1> QED
  BY <1>2, <1>3 DEF Init, TypeOK, Answers

LEMMA StillTyped ==
    ASSUME TypeOK, StillPods
    PROVE  /\ pods' \in [PodIds -> Pod] /\ tree' \in [Files -> 0..MaxPods]
           /\ \A i \in PodIds :
                 /\ pods'[i].stage = pods[i].stage /\ pods'[i].status = pods[i].status
                 /\ pods'[i].made = pods[i].made /\ pods'[i].left = pods[i].left
                 /\ pods[i].ending => pods'[i].ending
<1>1. CASE UNCHANGED <<pods, tree>>
  BY <1>1 DEF TypeOK
<1>2. CASE pods' = AllEnding /\ tree' = tree
  <2>1. \A i \in PodIds : [pods[i] EXCEPT !.ending = TRUE] \in Pod
    BY DEF TypeOK, Pod
  <2>2. \A i \in PodIds : pods'[i] = IF Exists(i) THEN [pods[i] EXCEPT !.ending = TRUE]
                                     ELSE pods[i]
    BY <1>2 DEF AllEnding
  <2>3. pods' \in [PodIds -> Pod]
    BY <1>2, <2>1 DEF AllEnding, TypeOK
  <2>4. \A i \in PodIds :
                 /\ pods'[i].stage = pods[i].stage /\ pods'[i].status = pods[i].status
                 /\ pods'[i].made = pods[i].made /\ pods'[i].left = pods[i].left
                 /\ pods[i].ending => pods'[i].ending
    BY <2>2 DEF TypeOK, Pod
  <2> QED
    BY <1>2, <2>3, <2>4 DEF TypeOK
<1> QED
  BY <1>1, <1>2 DEF StillPods

\* What each of the Pods' own actions does.
LEMMA PodActions ==
    ASSUME TypeOK, NEW i \in PodIds
    PROVE  /\ AiperfEnds(i) =>
                 /\ pods[i].stage = "aiperf" /\ tree' = tree
                 /\ \A j \in 1 .. i - 1 : ~Exists(j)
                 /\ \/ Becomes(i, [pods[i] EXCEPT !.stage = "failed"])
                    \/ \E output \in SUBSET Files, status \in {0, 1} :
                          /\ ~Refused(output)
                          /\ Becomes(i, [pods[i] EXCEPT !.stage = "copy", !.status = status,
                                                        !.made = output, !.left = output])
           /\ CopyFile(i) =>
                 /\ pods[i].stage = "copy"
                 /\ \E f \in pods[i].left :
                       /\ tree' = [tree EXCEPT ![f] = i]
                       /\ Becomes(i, [pods[i] EXCEPT !.left = @ \ {f}])
           /\ PodFails(i) => /\ Runs(i) /\ tree' = tree
                             /\ Becomes(i, [pods[i] EXCEPT !.stage = "failed"])
           /\ ScriptExits(i) =>
                 /\ pods[i].stage = "copy" /\ pods[i].left = {} /\ tree' = tree
                 /\ \/ pods[i].status = 0 /\ Becomes(i, [pods[i] EXCEPT !.stage = "succeeded"])
                    \/ pods[i].status # 0 /\ Becomes(i, [pods[i] EXCEPT !.stage = "failed"])
           /\ PodRemoved(i) => /\ Exists(i) /\ pods[i].ending /\ tree' = tree
                               /\ Becomes(i, [pods[i] EXCEPT !.stage = "gone"])
           /\ StartPod(i) =>
                 /\ pods[i].stage = "unborn" /\ tree' = tree
                 /\ \A j \in PodIds : ~Live(j)
                 /\ \A j \in 1 .. i - 1 : pods[j].stage # "unborn"
                 /\ Becomes(i, [pods[i] EXCEPT !.stage = "aiperf"])
<1>1. pods[i] \in Pod
  BY DEF TypeOK
<1>2. \A s \in PodStage : [pods[i] EXCEPT !.stage = s] \in Pod
  BY <1>1 DEF Pod
<1>3. ASSUME AiperfEnds(i)
      PROVE  /\ pods[i].stage = "aiperf" /\ tree' = tree
             /\ \A j \in 1 .. i - 1 : ~Exists(j)
             /\ \/ Becomes(i, [pods[i] EXCEPT !.stage = "failed"])
                \/ \E output \in SUBSET Files, status \in {0, 1} :
                      /\ ~Refused(output)
                      /\ Becomes(i, [pods[i] EXCEPT !.stage = "copy", !.status = status,
                                                    !.made = output, !.left = output])
  <2>1. PICK output \in SUBSET Files, status \in {0, 1} :
          pods' = [pods EXCEPT ![i] =
              IF Refused(output)
              THEN [@ EXCEPT !.stage = "failed"]
              ELSE [@ EXCEPT !.stage = "copy", !.status = status,
                             !.made = output, !.left = output]]
    BY <1>3 DEF AiperfEnds
  <2>2. [pods[i] EXCEPT !.stage = "copy", !.status = status, !.made = output, !.left = output]
            \in Pod
    BY <1>1 DEF Pod, PodStage
  <2>3. CASE Refused(output)
    BY <1>2, <1>3, <2>1, <2>3 DEF AiperfEnds, Becomes, PodStage
  <2>4. CASE ~Refused(output)
    BY <1>3, <2>1, <2>2, <2>4 DEF AiperfEnds, Becomes
  <2> QED
    BY <2>3, <2>4
<1>4. ASSUME CopyFile(i)
      PROVE  /\ pods[i].stage = "copy"
             /\ \E f \in pods[i].left :
                   /\ tree' = [tree EXCEPT ![f] = i]
                   /\ Becomes(i, [pods[i] EXCEPT !.left = @ \ {f}])
  <2>1. \A f : [pods[i] EXCEPT !.left = @ \ {f}] \in Pod
    BY <1>1 DEF Pod
  <2> QED
    BY <1>4, <2>1 DEF CopyFile, Becomes
<1>5. ASSUME ScriptExits(i)
      PROVE  /\ pods[i].stage = "copy" /\ pods[i].left = {} /\ tree' = tree
             /\ \/ pods[i].status = 0 /\ Becomes(i, [pods[i] EXCEPT !.stage = "succeeded"])
                \/ pods[i].status # 0 /\ Becomes(i, [pods[i] EXCEPT !.stage = "failed"])
  BY <1>2, <1>5 DEF ScriptExits, Becomes, PodStage
<1> QED
  BY <1>2, <1>3, <1>4, <1>5 DEF PodFails, PodRemoved, StartPod, Quiet, Becomes, PodStage

\* A Pod's action changes nothing but Pods and files.
LEMMA PodsAlone ==
    ASSUME NEW i,
           AiperfEnds(i) \/ CopyFile(i) \/ PodFails(i) \/ ScriptExits(i) \/ PodRemoved(i)
             \/ StartPod(i)
    PROVE  UNCHANGED <<job, deleting, late, stray, callVars, log, faults>>
BY DEF AiperfEnds, CopyFile, PodFails, ScriptExits, PodRemoved, StartPod, Script, Quiet

LEMMA PodActionsTyped ==
    ASSUME TypeOK, NEW i \in PodIds,
           AiperfEnds(i) \/ CopyFile(i) \/ PodFails(i) \/ ScriptExits(i) \/ PodRemoved(i)
             \/ StartPod(i)
    PROVE  TypeOK'
<1>1. ASSUME NEW q, Becomes(i, q) PROVE pods' \in [PodIds -> Pod]
  BY <1>1 DEF Becomes, TypeOK
<1>2. \E q : Becomes(i, q)
  BY PodActions
<1>3. tree' \in [Files -> 0..MaxPods]
  <2>1. i \in 0..MaxPods
    BY BoundsAssumption DEF PodIds
  <2>2. tree' = tree \/ \E f : tree' = [tree EXCEPT ![f] = i]
    BY PodActions
  <2> QED
    BY <2>1, <2>2 DEF TypeOK
<1> QED
  BY <1>1, <1>2, <1>3, PodsAlone DEF TypeOK, callVars

LEMMA JobActions ==
    /\ Admit => StillPods /\ UNCHANGED <<late, stray, callVars, log>>
                /\ job = "suspended" /\ ~deleting /\ job' = "admitted"
    /\ \A i \in PodIds : Conclude(i) =>
          /\ StillPods /\ UNCHANGED <<deleting, late, stray, callVars, log>>
          /\ job = "admitted" /\ Live(i) /\ ~Runs(i) /\ UNCHANGED <<pods, tree>>
          /\ job' = IF pods[i].stage = "succeeded" THEN "Complete" ELSE "Failed"
    /\ DeadlineExceeded =>
          /\ StillPods /\ UNCHANGED <<late, stray, callVars, log>>
          /\ job = "admitted" /\ job' = "Failed"
    /\ Evict => StillPods /\ UNCHANGED <<late, stray, callVars, log>>
                /\ job = "admitted" /\ job' = "suspended"
    /\ JobRemoved => StillPods /\ UNCHANGED <<late, stray, callVars, log>> /\ job' = "none"
BY DEF Admit, Conclude, DeadlineExceeded, Evict, JobRemoved, Quiet, StillPods

LEMMA CallActions ==
    Backend \/ LateCreate \/ Restart => UNCHANGED <<pods, tree>>
BY DEF Backend, LateCreate, Restart, Create, CreateTimesOut, GetJob, Diagnose, ObserveError,
       Logs, Close, DeleteJob, ConfirmJob, ConfirmPods, CallFails, Caller

LEMMA FaultTyped ==
    ASSUME TypeOK, UNCHANGED faults \/ Fault
    PROVE  faults' \in 0..MaxFaults
BY BoundsAssumption DEF TypeOK, Fault

LEMMA JobActionsTyped ==
    ASSUME TypeOK,
           \/ Admit \/ DeadlineExceeded \/ Evict \/ JobRemoved
           \/ \E i \in PodIds : Conclude(i)
    PROVE  TypeOK'
<1>1. StillPods /\ UNCHANGED <<late, stray, callVars, log>>
  BY JobActions
<1>2. faults' \in 0..MaxFaults
  BY FaultTyped DEF Admit, DeadlineExceeded, Evict, JobRemoved, Conclude
<1>3. /\ job' \in {"none", "suspended", "admitted", "Complete", "Failed"}
      /\ deleting' \in BOOLEAN
  BY DEF Admit, DeadlineExceeded, Evict, JobRemoved, Conclude, TypeOK
<1> QED
  BY <1>1, <1>2, <1>3, StillTyped DEF TypeOK, callVars

LEMMA LogTyped ==
    ASSUME NEW size \in 0..MaxLog + 1
    PROVE  LogValue(size) \in [size : 0..MaxLog, marked : BOOLEAN]
<1> DEFINE n == IF size > MaxLog THEN (MaxLog - Marker) + Marker ELSE size
           marked == size > MaxLog
<1>1. n \in 0..MaxLog
  BY LimitsAssumption
<1>2. marked \in BOOLEAN
  OBVIOUS
<1>3. LogValue(size) = [size |-> n, marked |-> marked]
  BY DEF LogValue
<1> HIDE DEF n, marked
<1> QED
  BY <1>1, <1>2, <1>3

LEMMA CallActionsTyped ==
    ASSUME TypeOK, Backend \/ LateCreate \/ Restart
    PROVE  TypeOK'
<1>1. UNCHANGED <<pods, tree>>
  BY CallActions
<1> USE DEF callVars, jobVars
<1>2. CASE Create
  BY <1>1, <1>2 DEF Create, TypeOK, Answers
<1>3. CASE CreateTimesOut
  BY <1>1, <1>3, FaultTyped DEF CreateTimesOut, TypeOK, Answers
<1>4. CASE LateCreate
  <2> DEFINE lost == stray \/ closing \/ said \in {"succeeded", "failed"}
  <2>1. lost \in BOOLEAN
    BY DEF TypeOK
  <2>2. stray' \in BOOLEAN
    BY <1>4, <2>1, Zenon DEF LateCreate, TypeOK
  <2>3. /\ job' \in {job, "suspended"} /\ late' = FALSE
        /\ UNCHANGED <<deleting, callVars, log, faults>>
    BY <1>4 DEF LateCreate
  <2> QED
    BY <1>1, <2>2, <2>3 DEF TypeOK
<1>5. CASE GetJob
  <2>1. Shown \in Answers
    BY DEF TypeOK, Shown, Answers
  <2> QED
    BY <1>5, <2>1 DEF GetJob, Caller, TypeOK
<1>6. CASE Diagnose \/ ObserveError
  BY <1>6 DEF Diagnose, ObserveError, Caller, TypeOK, Answers
<1>7. CASE Logs
  BY <1>7, LogTyped DEF Logs, TypeOK
<1>8. CASE Close \/ CallFails
  BY <1>8, NoLogTyped DEF Close, CallFails, TypeOK
<1>9. CASE DeleteJob
  <2> DEFINE there == job # "none"
  <2>1. there \in BOOLEAN
    OBVIOUS
  <2>2. deleting' \in BOOLEAN
    BY <1>9, <2>1, Zenon DEF DeleteJob
  <2>3. at' = "confirm" /\ UNCHANGED <<job, late, stray, said, jobSeen, closing, confirmed,
                                       log, faults>>
    BY <1>9 DEF DeleteJob
  <2> QED
    BY <1>1, <2>2, <2>3 DEF TypeOK
<1>10. CASE ConfirmJob
  <2> DEFINE there == job # "none"
  <2>1. there \in BOOLEAN
    OBVIOUS
  <2>2. jobSeen' \in BOOLEAN
    BY <1>10, <2>1, Zenon DEF ConfirmJob
  <2>3. at' = "pods" /\ UNCHANGED <<said, closing, confirmed>> /\ Caller
    BY <1>10 DEF ConfirmJob
  <2> QED
    BY <2>2, <2>3 DEF Caller, TypeOK
<1>11. CASE ConfirmPods
  <2> DEFINE none == ~jobSeen /\ \A i \in PodIds : ~Exists(i)
  <2>1. none \in BOOLEAN
    OBVIOUS
  <2>2. confirmed' \in BOOLEAN
    BY <1>11, <2>1, Zenon DEF ConfirmPods
  <2>3. at' = "idle" /\ UNCHANGED <<said, jobSeen, closing>> /\ Caller
    BY <1>11 DEF ConfirmPods
  <2> QED
    BY <2>2, <2>3 DEF Caller, TypeOK
<1>12. CASE Restart
  BY <1>12, FaultTyped DEF Restart, TypeOK, Answers
<1> QED
  BY <1>2, <1>3, <1>4, <1>5, <1>6, <1>7, <1>8, <1>9, <1>10, <1>11, <1>12 DEF Backend

LEMMA TypeStep == TypeOK /\ [Next]_vars => TypeOK'
<1> SUFFICES ASSUME TypeOK, [Next]_vars PROVE TypeOK'
  OBVIOUS
<1>1. CASE UNCHANGED vars
  BY <1>1 DEF vars, TypeOK
<1>2. CASE Cluster
  BY <1>2, PodActionsTyped, JobActionsTyped, CallActionsTyped DEF Cluster
<1>3. CASE Backend \/ Restart
  BY <1>3, CallActionsTyped
<1> QED
  BY <1>1, <1>2, <1>3 DEF Next

\* Every value a variable of JobBackend takes is one of its type; in particular
\* the log returned is never over the limit, its marker included (backend.py
\* logs).
THEOREM JobBackendTyped == Spec => []TypeOK
BY TypeInit, TypeStep, PTL DEF Spec

-----------------------------------------------------------------------------
(* Pods and files                                                          *)

Whole(i) ==
    /\ pods[i].status = 0 /\ pods[i].left = {}
    /\ \A f \in pods[i].made : tree[f] = i

\* Pods start one after the other, the next when none is left that may go on.
Ordered == \A i, j \in PodIds :
    j < i /\ pods[i].stage # "unborn" => pods[j].stage # "unborn" /\ ~Live(j)

\* Who copies, or has copied well, is alone but for Pods started later.
Alone == \A i, j \in PodIds :
    j < i /\ pods[i].stage \in {"copy", "succeeded"} => ~Exists(j)

\* What a Pod has written is what it made, and lies as it left it while it copies
\* and until it is gone.
Written == \A i \in PodIds :
    /\ pods[i].stage \in {"unborn", "aiperf"} => pods[i].made = {}
    /\ pods[i].stage = "copy" => \A f \in pods[i].made \ pods[i].left : tree[f] = i
    /\ pods[i].stage = "succeeded" => Whole(i)

\* What is made passed the checks, and what lies there was made.
Bounded ==
    /\ \A i \in PodIds :
          /\ pods[i].left \subseteq pods[i].made
          /\ pods[i].made # {} => ~Refused(pods[i].made)
    /\ \A f \in Files : tree[f] # 0 => f \in pods[tree[f]].made

PodInv == Ordered /\ Alone /\ Written /\ Bounded

LEMMA PodInvInit == Init => PodInv
BY DEF Init, PodInv, Ordered, Alone, Written, Bounded, NoPod, Exists

LEMMA TreeOfPods ==
    ASSUME TypeOK
    PROVE  \A f \in Files : tree[f] # 0 => tree[f] \in PodIds
BY BoundsAssumption DEF TypeOK, PodIds

LEMMA PodInvStill ==
    ASSUME TypeOK, PodInv, StillPods
    PROVE  PodInv'
<1>1. \A i \in PodIds : /\ pods'[i].stage = pods[i].stage /\ pods'[i].status = pods[i].status
                        /\ pods'[i].made = pods[i].made /\ pods'[i].left = pods[i].left
                        /\ pods[i].ending => pods'[i].ending
  BY StillTyped
<1>2. tree' = tree
  BY DEF StillPods
<1>3. \A i \in PodIds : Exists(i)' = Exists(i) /\ (Live(i)' => Live(i)) /\ Whole(i)' = Whole(i)
  BY <1>1, <1>2 DEF Exists, Live, Whole
<1>4. Ordered' /\ Alone' /\ Written'
  BY <1>1, <1>2, <1>3 DEF PodInv, Ordered, Alone, Written
<1>5. Bounded'
  BY <1>1, <1>2, TreeOfPods DEF PodInv, Bounded
<1> QED
  BY <1>4, <1>5 DEF PodInv

\* Where one Pod changes.
LEMMA OnePod ==
    ASSUME TypeOK, NEW i \in PodIds, NEW q, Becomes(i, q)
    PROVE  /\ pods'[i] = q
           /\ \A j \in PodIds : j # i => pods'[j] = pods[j]
           /\ i \in Int /\ PodIds \subseteq Int /\ i # 0
BY DEF TypeOK, Becomes, PodIds

\* A Pod that ends, or goes: not well, unless it was done with its copy.
LEMMA PodInvEnds ==
    ASSUME TypeOK, PodInv, NEW i \in PodIds,
           NEW s \in {"failed", "succeeded", "gone"}, pods[i].stage # "unborn",
           s = "succeeded" =>
              pods[i].stage = "copy" /\ pods[i].left = {} /\ pods[i].status = 0,
           Becomes(i, [pods[i] EXCEPT !.stage = s]), tree' = tree,
           s = "gone" => Exists(i) /\ pods[i].ending,
           s = "failed" => Runs(i)
    PROVE  PodInv'
<1> DEFINE q == [pods[i] EXCEPT !.stage = s]
<1>1. /\ pods'[i] = q /\ \A j \in PodIds : j # i => pods'[j] = pods[j]
      /\ i \in Int /\ PodIds \subseteq Int /\ i # 0
  BY OnePod
<1>2. /\ q.stage = s /\ q.ending = pods[i].ending /\ q.status = pods[i].status
      /\ q.made = pods[i].made /\ q.left = pods[i].left
  BY DEF TypeOK, Pod
<1> HIDE DEF q
<1>3. \A j \in PodIds : /\ Exists(j)' => Exists(j)
                        /\ Live(j)' => Live(j)
                        /\ pods'[j].stage = "unborn" <=> pods[j].stage = "unborn"
                        /\ Whole(j)' = Whole(j)
  BY <1>1, <1>2 DEF Exists, Live, Runs, Whole
<1>4. Ordered'
  BY <1>1, <1>3 DEF PodInv, Ordered
<1>5. Alone'
  <2>1. \A j \in PodIds : pods'[j].stage \in {"copy", "succeeded"} =>
            pods[j].stage \in {"copy", "succeeded"}
    BY <1>1, <1>2
  <2> QED
    BY <1>3, <2>1 DEF PodInv, Alone
<1>6. Written'
  BY <1>1, <1>2, <1>3 DEF PodInv, Written, Whole
<1>7. Bounded'
  BY <1>1, <1>2, TreeOfPods DEF PodInv, Bounded
<1> QED
  BY <1>4, <1>5, <1>6, <1>7 DEF PodInv

LEMMA PodInvStarts ==
    ASSUME TypeOK, PodInv, NEW i \in PodIds, StartPod(i)
    PROVE  PodInv'
<1> DEFINE q == [pods[i] EXCEPT !.stage = "aiperf"]
<1>1. /\ pods[i].stage = "unborn" /\ tree' = tree /\ Becomes(i, q)
      /\ \A j \in PodIds : ~Live(j)
      /\ \A j \in 1 .. i - 1 : pods[j].stage # "unborn"
  BY PodActions
<1>2. /\ pods'[i] = q /\ \A j \in PodIds : j # i => pods'[j] = pods[j]
      /\ i \in Int /\ PodIds \subseteq Int
  BY <1>1, OnePod
<1>3. q.stage = "aiperf" /\ q.made = pods[i].made /\ q.left = pods[i].left
  BY DEF TypeOK, Pod
<1> HIDE DEF q
<1>4. \A j \in PodIds : j < i => pods[j].stage # "unborn"
  BY <1>1, <1>2 DEF PodIds
<1>5. \A k \in PodIds : k > i => pods[k].stage = "unborn"
  BY <1>1, <1>2 DEF PodInv, Ordered
<1>6. \A j \in PodIds : j # i => Exists(j)' = Exists(j) /\ ~Live(j)' /\ Whole(j)' = Whole(j)
  BY <1>1, <1>2 DEF Exists, Live, Whole
<1>7. Ordered'
  <2> SUFFICES ASSUME NEW k \in PodIds, NEW j \in PodIds, j < k, pods'[k].stage # "unborn"
               PROVE  pods'[j].stage # "unborn" /\ ~Live(j)'
    BY DEF Ordered
  <2>1. CASE k = i
    BY <1>2, <1>4, <1>6, <2>1
  <2>2. CASE k # i
    <3>1. pods[k].stage # "unborn"
      BY <1>2, <2>2
    <3>2. ~(k > i)
      BY <1>5, <3>1
    <3>3. j < i
      BY <1>2, <2>2, <3>2
    <3> QED
      BY <1>2, <1>4, <1>6, <3>3
  <2> QED
    BY <2>1, <2>2
<1>8. Alone'
  <2> SUFFICES ASSUME NEW k \in PodIds, NEW j \in PodIds, j < k,
                      pods'[k].stage \in {"copy", "succeeded"}
               PROVE  ~Exists(j)'
    BY DEF Alone
  <2>1. k # i
    BY <1>2, <1>3
  <2>2. k < i /\ j # i
    BY <1>2, <1>5, <2>1
  <2> QED
    BY <1>2, <1>6, <2>1, <2>2 DEF PodInv, Alone
<1>9. Written'
  BY <1>1, <1>2, <1>3, <1>6 DEF PodInv, Written
<1>10. Bounded'
  BY <1>1, <1>2, <1>3, TreeOfPods DEF PodInv, Bounded
<1> QED
  BY <1>7, <1>8, <1>9, <1>10 DEF PodInv

\* AIPerf ended well enough for its output to be copied.
LEMMA PodInvMakes ==
    ASSUME TypeOK, PodInv, NEW i \in PodIds, pods[i].stage = "aiperf", tree' = tree,
           \A j \in 1 .. i - 1 : ~Exists(j),
           NEW output \in SUBSET Files, NEW status \in {0, 1}, ~Refused(output),
           Becomes(i, [pods[i] EXCEPT !.stage = "copy", !.status = status,
                                      !.made = output, !.left = output])
    PROVE  PodInv'
<1> DEFINE q == [pods[i] EXCEPT !.stage = "copy", !.status = status,
                                !.made = output, !.left = output]
<1>1. /\ pods'[i] = q /\ \A j \in PodIds : j # i => pods'[j] = pods[j]
      /\ i \in Int /\ PodIds \subseteq Int /\ i # 0
  BY OnePod
<1>2. /\ q.stage = "copy" /\ q.ending = pods[i].ending
      /\ q.made = output /\ q.left = output
  BY DEF TypeOK, Pod
<1> HIDE DEF q
<1>3. \A j \in PodIds : j < i => ~Exists(j)
  BY <1>1 DEF PodIds
<1>4. \A j \in PodIds : /\ Exists(j)' = Exists(j) /\ Live(j)' = Live(j)
                        /\ pods'[j].stage = "unborn" <=> pods[j].stage = "unborn"
  BY <1>1, <1>2 DEF Exists, Live
<1>5. Ordered'
  BY <1>1, <1>4 DEF PodInv, Ordered
<1>6. Alone'
  BY <1>1, <1>3, <1>4 DEF PodInv, Alone
<1>7. Written'
  BY <1>1, <1>2 DEF PodInv, Written, Whole
<1>8. Bounded'
  <2>1. \A f \in Files : tree[f] # i
    BY <1>1 DEF PodInv, Bounded, Written
  <2> QED
    BY <1>1, <1>2, <2>1, TreeOfPods DEF PodInv, Bounded
<1> QED
  BY <1>5, <1>6, <1>7, <1>8 DEF PodInv

\* One file is copied: only over files of Pods that are no longer there.
LEMMA PodInvCopies ==
    ASSUME TypeOK, PodInv, NEW i \in PodIds, pods[i].stage = "copy",
           NEW f \in pods[i].left, tree' = [tree EXCEPT ![f] = i],
           Becomes(i, [pods[i] EXCEPT !.left = @ \ {f}])
    PROVE  PodInv'
<1> DEFINE q == [pods[i] EXCEPT !.left = @ \ {f}]
<1>1. /\ pods'[i] = q /\ \A j \in PodIds : j # i => pods'[j] = pods[j]
      /\ i \in Int /\ PodIds \subseteq Int /\ i # 0
  BY OnePod
<1>2. /\ q.stage = "copy" /\ q.ending = pods[i].ending /\ q.status = pods[i].status
      /\ q.made = pods[i].made /\ q.left = pods[i].left \ {f}
  BY DEF TypeOK, Pod
<1>3. f \in Files /\ f \in pods[i].made /\ pods[i].made \subseteq Files
  BY DEF TypeOK, Pod, PodInv, Bounded
<1> HIDE DEF q
<1>4. tree'[f] = i /\ \A g \in Files : g # f => tree'[g] = tree[g]
  BY <1>3 DEF TypeOK
<1>5. \A j \in PodIds : Exists(j)' = Exists(j) /\ Live(j)' = Live(j)
                        /\ pods'[j].stage = pods[j].stage
  BY <1>1, <1>2 DEF Exists, Live
<1>6. \A j \in PodIds : j # i => pods[j].stage \notin {"copy", "succeeded"}
  BY <1>1 DEF PodInv, Alone, Exists
<1>7. Ordered' /\ Alone'
  BY <1>1, <1>5 DEF PodInv, Ordered, Alone
<1>8. Written'
  BY <1>1, <1>2, <1>3, <1>4, <1>6 DEF PodInv, Written
<1>9. Bounded'
  <2>1. \A g \in Files : tree'[g] # 0 => g \in pods'[tree'[g]].made
    BY <1>1, <1>2, <1>3, <1>4, TreeOfPods DEF PodInv, Bounded
  <2>2. \A j \in PodIds : pods'[j].made = pods[j].made /\ pods'[j].left \subseteq pods[j].left
    BY <1>1, <1>2
  <2> QED
    BY <2>1, <2>2 DEF PodInv, Bounded
<1> QED
  BY <1>7, <1>8, <1>9 DEF PodInv

LEMMA PodInvStep ==
    ASSUME TypeOK, PodInv, [Next]_vars
    PROVE  PodInv'
<1>1. ASSUME StillPods PROVE PodInv'
  BY <1>1, PodInvStill
<1>2. ASSUME NEW i \in PodIds, AiperfEnds(i) PROVE PodInv'
  <2>1. CASE Becomes(i, [pods[i] EXCEPT !.stage = "failed"])
    BY <1>2, <2>1, PodActions, PodInvEnds DEF Runs
  <2>2. CASE ~Becomes(i, [pods[i] EXCEPT !.stage = "failed"])
    BY <1>2, <2>2, PodActions, PodInvMakes
  <2> QED
    BY <2>1, <2>2
<1>3. ASSUME NEW i \in PodIds, CopyFile(i) PROVE PodInv'
  BY <1>3, PodActions, PodInvCopies
<1>4. ASSUME NEW i \in PodIds, PodFails(i) PROVE PodInv'
  BY <1>4, PodActions, PodInvEnds DEF Runs
<1>5. ASSUME NEW i \in PodIds, ScriptExits(i) PROVE PodInv'
  BY <1>5, PodActions, PodInvEnds DEF Runs
<1>6. ASSUME NEW i \in PodIds, PodRemoved(i) PROVE PodInv'
  BY <1>6, PodActions, PodInvEnds DEF Exists
<1>7. ASSUME NEW i \in PodIds, StartPod(i) PROVE PodInv'
  BY <1>7, PodInvStarts
<1>8. CASE Admit \/ DeadlineExceeded \/ Evict \/ JobRemoved
           \/ \E i \in PodIds : Conclude(i)
  BY <1>1, <1>8, JobActions
<1>9. CASE Backend \/ LateCreate \/ Restart
  BY <1>1, <1>9, CallActions DEF StillPods
<1>10. CASE UNCHANGED vars
  BY <1>1, <1>10 DEF vars, StillPods
<1> QED
  BY <1>2, <1>3, <1>4, <1>5, <1>6, <1>7, <1>8, <1>9, <1>10 DEF Next, Cluster

-----------------------------------------------------------------------------
(* The answers                                                             *)

\* An execution ended well, and no Pod can write any more.
Finished ==
    /\ \E i \in PodIds : Whole(i) /\ pods[i].stage \in {"succeeded", "gone"}
    /\ \A i \in PodIds : ~Runs(i)

CallInv ==
    /\ job = "Complete" => Finished
    /\ said = "succeeded" /\ ~stray => Finished /\ job \in {"none", "Complete"}
    /\ at \in {"confirm", "pods"} => closing
    /\ confirmed => closing
    /\ at = "pods" /\ ~jobSeen /\ ~stray => job = "none"
    /\ ConfirmedIsGone

JInv == TypeOK /\ PodInv /\ CallInv

LEMMA CallInvInit == Init => CallInv
BY DEF Init, CallInv, ConfirmedIsGone

LEMMA FinishedStill ==
    ASSUME TypeOK, Finished, StillPods
    PROVE  Finished'
<1>1. \A i \in PodIds : /\ pods'[i].stage = pods[i].stage /\ pods'[i].status = pods[i].status
                        /\ pods'[i].made = pods[i].made /\ pods'[i].left = pods[i].left
  BY StillTyped
<1>2. tree' = tree
  BY DEF StillPods
<1> QED
  BY <1>1, <1>2 DEF Finished, Whole, Runs

LEMMA ExistStill ==
    ASSUME TypeOK, StillPods
    PROVE  \A i \in PodIds : Exists(i)' = Exists(i)
BY StillTyped DEF Exists

\* No Pod comes into being but by StartPod.
LEMMA ExistFewer ==
    ASSUME TypeOK, NEW i \in PodIds,
           AiperfEnds(i) \/ CopyFile(i) \/ PodFails(i) \/ ScriptExits(i) \/ PodRemoved(i)
    PROVE  \A j \in PodIds : Exists(j)' => Exists(j)
<1>1. PICK q : Becomes(i, q)
  BY PodActions
<1>2. \A j \in PodIds : j # i => Exists(j)' = Exists(j)
  BY <1>1, OnePod DEF Exists
<1>3. Exists(i)
  BY DEF AiperfEnds, CopyFile, PodFails, ScriptExits, PodRemoved, Runs, Exists
<1> QED
  BY <1>2, <1>3

LEMMA FinishedStays ==
    ASSUME TypeOK, Finished, NEW i \in PodIds,
           AiperfEnds(i) \/ CopyFile(i) \/ PodFails(i) \/ ScriptExits(i) \/ PodRemoved(i)
    PROVE  Finished'
<1>1. PodRemoved(i)
  BY DEF Finished, Runs, AiperfEnds, CopyFile, PodFails, ScriptExits
<1> DEFINE q == [pods[i] EXCEPT !.stage = "gone"]
<1>2. tree' = tree /\ Becomes(i, q)
  BY <1>1, PodActions
<1>3. pods'[i] = q /\ \A j \in PodIds : j # i => pods'[j] = pods[j]
  BY <1>2, OnePod
<1>4. /\ q.stage = "gone" /\ q.status = pods[i].status
      /\ q.made = pods[i].made /\ q.left = pods[i].left
  BY DEF TypeOK, Pod
<1> HIDE DEF q
<1>5. \A j \in PodIds : Whole(j) => Whole(j)'
  BY <1>2, <1>3, <1>4 DEF Whole
<1>6. \A j \in PodIds : pods[j].stage \in {"succeeded", "gone"} =>
                           pods'[j].stage \in {"succeeded", "gone"}
  BY <1>3, <1>4
<1>7. \A j \in PodIds : ~Runs(j)'
  BY <1>3, <1>4 DEF Finished, Runs
<1> QED
  BY <1>5, <1>6, <1>7 DEF Finished

\* A Job completes when its one live Pod ended well: the others are gone or
\* never came.
LEMMA CompletedIsFinished ==
    ASSUME JInv, NEW i \in PodIds, Live(i), pods[i].stage = "succeeded"
    PROVE  Finished
<1>1. Whole(i)
  BY DEF JInv, PodInv, Written
<1>2. ASSUME NEW j \in PodIds, j < i PROVE ~Runs(j)
  BY <1>2 DEF JInv, PodInv, Alone, Exists, Runs
<1>3. ASSUME NEW j \in PodIds, i < j PROVE ~Runs(j)
  BY <1>3 DEF JInv, PodInv, Ordered, Runs
<1>4. PodIds \subseteq Int
  BY DEF PodIds
<1>5. ASSUME NEW j \in PodIds PROVE ~Runs(j)
  <2>1. j < i \/ j = i \/ i < j
    BY <1>4
  <2> QED
    BY <1>2, <1>3, <2>1 DEF Runs
<1> QED
  BY <1>1, <1>5 DEF Finished

LEMMA CallInvStep == JInv /\ [Next]_vars => CallInv'
<1> SUFFICES ASSUME JInv, [Next]_vars PROVE CallInv'
  OBVIOUS
<1>t. TypeOK /\ PodInv /\ CallInv
  BY DEF JInv
<1> USE DEF callVars, jobVars
<1>1. ASSUME NEW i \in PodIds,
             AiperfEnds(i) \/ CopyFile(i) \/ PodFails(i) \/ ScriptExits(i) \/ PodRemoved(i)
      PROVE  CallInv'
  <2>1. UNCHANGED <<job, deleting, late, stray, callVars, log, faults>>
    BY <1>1, PodsAlone
  <2>2. Finished => Finished'
    BY <1>t, <1>1, FinishedStays
  <2>3. \A j \in PodIds : Exists(j)' => Exists(j)
    BY <1>t, <1>1, ExistFewer
  <2> QED
    BY <1>t, <2>1, <2>2, <2>3 DEF CallInv, ConfirmedIsGone
<1>2. ASSUME NEW i \in PodIds, StartPod(i) PROVE CallInv'
  <2>1. UNCHANGED <<job, deleting, late, stray, callVars, log, faults>>
    BY <1>2, PodsAlone
  <2>2. job = "admitted"
    BY <1>2 DEF StartPod
  <2> QED
    BY <1>t, <2>1, <2>2 DEF CallInv, ConfirmedIsGone
<1>3. ASSUME StillPods, UNCHANGED <<late, stray, callVars, log>>, job # "none",
             job' # "Complete", job \in {"none", "Complete"} => job' \in {"none", "Complete"}
      PROVE  CallInv'
  <2>1. Finished => Finished'
    BY <1>t, <1>3, FinishedStill
  <2>2. \A j \in PodIds : Exists(j)' = Exists(j)
    BY <1>t, <1>3, ExistStill
  <2> QED
    BY <1>t, <1>3, <2>1, <2>2 DEF CallInv, ConfirmedIsGone
<1>4. CASE Admit \/ DeadlineExceeded \/ Evict
  BY <1>3, <1>4, JobActions
<1>5. CASE JobRemoved
  BY <1>3, <1>5, JobActions DEF JobRemoved
<1>6. ASSUME NEW i \in PodIds, Conclude(i) PROVE CallInv'
  <2>1. /\ UNCHANGED <<deleting, late, stray, callVars, log>>
        /\ job = "admitted" /\ Live(i) /\ UNCHANGED <<pods, tree>>
        /\ job' = IF pods[i].stage = "succeeded" THEN "Complete" ELSE "Failed"
    BY <1>6, JobActions
  <2>2. job' = "Complete" => Finished
    BY <2>1, CompletedIsFinished
  <2>3. Finished' = Finished
    BY <2>1 DEF Finished, Whole, Runs
  <2> QED
    BY <1>t, <2>1, <2>2, <2>3 DEF CallInv, ConfirmedIsGone
<1>7. ASSUME UNCHANGED <<pods, tree>>
      PROVE  /\ Finished' = Finished
             /\ \A j \in PodIds : Exists(j)' = Exists(j)
  BY <1>7 DEF Finished, Whole, Runs, Exists
<1>8. CASE Create
  <2>1. UNCHANGED <<pods, tree>>
    BY <1>8, CallActions DEF Backend
  <2> QED
    BY <1>t, <1>7, <1>8, <2>1 DEF Create, Undecided, CallInv, ConfirmedIsGone
<1>9. CASE CreateTimesOut
  <2>1. UNCHANGED <<pods, tree>>
    BY <1>9, CallActions DEF Backend
  <2> QED
    BY <1>t, <1>7, <1>9, <2>1 DEF CreateTimesOut, CallInv, ConfirmedIsGone
<1>10. CASE LateCreate
  <2>1. UNCHANGED <<pods, tree>>
    BY <1>10, CallActions
  <2>2. CASE UNCHANGED <<job, stray>>
    BY <1>t, <1>7, <1>10, <2>1, <2>2 DEF LateCreate, CallInv, ConfirmedIsGone
  <2>3. CASE job' = "suspended" /\ stray' = (stray \/ closing \/ said \in {"succeeded", "failed"})
    BY <1>t, <1>7, <1>10, <2>1, <2>3 DEF LateCreate, CallInv, ConfirmedIsGone
  <2> QED
    BY <1>10, <2>2, <2>3 DEF LateCreate
<1>11. CASE GetJob
  <2>1. UNCHANGED <<pods, tree>>
    BY <1>11, CallActions DEF Backend
  <2>2. Shown = "succeeded" => job = "Complete"
    BY <1>t DEF Shown, TypeOK
  <2>3. said' = said \/ said' = Shown
    BY <1>11 DEF GetJob
  <2>4. ~confirmed /\ ~confirmed' /\ at' \notin {"confirm", "pods"} /\ UNCHANGED <<job, stray, closing>>
    BY <1>11 DEF GetJob, Caller
  <2> QED
    BY <1>t, <1>7, <2>1, <2>2, <2>3, <2>4 DEF CallInv, ConfirmedIsGone
<1>12. CASE Diagnose \/ ObserveError
  <2>1. UNCHANGED <<pods, tree>>
    BY <1>12, CallActions DEF Backend
  <2> QED
    BY <1>t, <1>7, <1>12, <2>1 DEF Diagnose, ObserveError, Caller, CallInv, ConfirmedIsGone
<1>13. CASE Logs
  <2>1. UNCHANGED <<pods, tree>>
    BY <1>13, CallActions DEF Backend
  <2> QED
    BY <1>t, <1>7, <1>13, <2>1 DEF Logs, CallInv, ConfirmedIsGone
<1>14. CASE Close \/ DeleteJob \/ CallFails
  <2>1. UNCHANGED <<pods, tree>>
    BY <1>14, CallActions DEF Backend
  <2> QED
    BY <1>t, <1>7, <1>14, <2>1 DEF Close, DeleteJob, CallFails, CallInv, ConfirmedIsGone
<1>15. CASE ConfirmJob
  <2>1. UNCHANGED <<pods, tree>>
    BY <1>15, CallActions DEF Backend
  <2>2. ~jobSeen' => job = "none"
    BY <1>15 DEF ConfirmJob
  <2> QED
    BY <1>t, <1>7, <1>15, <2>1, <2>2 DEF ConfirmJob, Caller, CallInv, ConfirmedIsGone
<1>16. CASE ConfirmPods
  <2>1. UNCHANGED <<pods, tree>>
    BY <1>16, CallActions DEF Backend
  <2>2. confirmed' => ~jobSeen /\ \A i \in PodIds : ~Exists(i)
    BY <1>16 DEF ConfirmPods
  <2>3. at = "pods" /\ at' = "idle" /\ UNCHANGED <<said, jobSeen, closing, job, stray>>
    BY <1>16 DEF ConfirmPods, Caller
  <2> QED
    BY <1>t, <1>7, <2>1, <2>2, <2>3 DEF CallInv, ConfirmedIsGone
<1>17. CASE Restart
  <2>1. UNCHANGED <<pods, tree>>
    BY <1>17, CallActions
  <2> QED
    BY <1>t, <1>7, <1>17, <2>1 DEF Restart, CallInv, ConfirmedIsGone
<1>18. CASE UNCHANGED vars
  BY <1>t, <1>7, <1>18 DEF vars, CallInv, ConfirmedIsGone
<1> QED
  BY <1>1, <1>2, <1>4, <1>5, <1>6, <1>8, <1>9, <1>10, <1>11, <1>12, <1>13, <1>14, <1>15, <1>16,
     <1>17, <1>18 DEF Next, Cluster, Backend

LEMMA JInvAlways == Spec => []JInv
<1>1. Init => JInv
  BY TypeInit, PodInvInit, CallInvInit DEF JInv
<1>2. JInv /\ [Next]_vars => JInv'
  BY TypeStep, PodInvStep, CallInvStep DEF JInv
<1> QED
  BY <1>1, <1>2, PTL DEF Spec

\* A success is whole and nothing can spoil it, for any number of Pods, evictions
\* and restarts (backend.py build_job_manifest, observe).
THEOREM SuccessIsWhole == Spec => []SucceededIsWhole
<1>1. JInv => SucceededIsWhole
  <2> SUFFICES ASSUME JInv, said = "succeeded", ~stray
               PROVE  /\ \E i \in PodIds :
                            /\ pods[i].status = 0 /\ pods[i].left = {}
                            /\ pods[i].stage \in {"succeeded", "gone"}
                            /\ \A f \in pods[i].made : tree[f] = i
                      /\ \A i \in PodIds : ~Runs(i)
    BY DEF SucceededIsWhole
  <2> QED
    BY DEF JInv, CallInv, Finished, Whole
<1> QED
  BY JInvAlways, <1>1, PTL

\* What delete confirmed is gone for good, for any number of Pods and faults; the
\* exception, a create that was given up and came late, is part of the property
\* (backend.py delete).
THEOREM DeletionIsFinal == Spec => []ConfirmedIsGone
<1>1. JInv => ConfirmedIsGone
  BY DEF JInv, CallInv
<1> QED
  BY JInvAlways, <1>1, PTL

\* The attempt's directory stays within the limits, for any files and limits
\* (backend.py, the script in build_job_manifest).
THEOREM DirectoryIsBounded == Spec => []TreeIsBounded
<1>1. ASSUME JInv PROVE TreeIsBounded
  <2>0. TypeOK /\ Bounded
    BY <1>1 DEF JInv, PodInv
  <2>1. ASSUME NEW f \in Links \cup Huge PROVE tree[f] = 0
    <3>1. f \in Files
      BY KindsAssumption
    <3>2. tree[f] # 0 => f \in pods[tree[f]].made /\ ~Refused(pods[tree[f]].made)
      BY <2>0, <3>1, TreeOfPods DEF Bounded
    <3> QED
      BY <3>2 DEF Refused
  <2>2. ASSUME NEW i \in PodIds PROVE Cardinality({f \in Files : tree[f] = i}) <= MaxFiles
    <3> DEFINE mine == {f \in Files : tree[f] = i}
               made == pods[i].made
    <3>1. mine \subseteq made
      BY <2>0 DEF Bounded, PodIds
    <3>2. made \subseteq Files
      BY <2>0 DEF TypeOK, Pod
    <3>3. IsFiniteSet(made)
      BY <3>2, KindsAssumption, FS_Subset
    <3>4. Cardinality(mine) <= Cardinality(made) /\ Cardinality(mine) \in Nat
                /\ Cardinality(made) \in Nat
      BY <3>1, <3>3, FS_Subset, FS_CardinalityType
    <3>5. CASE made = {}
      BY <3>4, <3>5, FS_EmptySet, LimitsAssumption
    <3>6. CASE made # {}
      <4>1. ~Refused(made)
        BY <2>0, <3>6 DEF Bounded
      <4>2. made \ Links = made
        BY <4>1 DEF Refused
      <4> QED
        BY <3>4, <4>1, <4>2, LimitsAssumption DEF Refused
    <3> QED
      BY <3>5, <3>6
  <2> QED
    BY <2>1, <2>2 DEF TreeIsBounded
<1> QED
  BY JInvAlways, <1>1, PTL

-----------------------------------------------------------------------------
(* JobBackend implements JobLifecycle                                      *)

\* A Pod has ended and its Job still has it.
Held == \E i \in PodIds : Live(i) /\ ~Runs(i)

LInv ==
    /\ job = "none" => ~deleting
    /\ job \in {"none", "suspended"} => ~Running
    /\ at \in {"confirm", "pods"} => closing /\ ~confirmed
    /\ at = "pods" /\ ~jobSeen => ~deleting
    /\ job = "Complete" => Held
    /\ at = "pods" /\ ~jobSeen /\ job = "Failed" => Held

LEMMA LInvInit == Init => LInv
BY DEF Init, LInv, Running, Live, Exists, NoPod

LEMMA NoneRuns ==
    ASSUME TypeOK, pods' = AllEnding
    PROVE  ~Running'
BY DEF TypeOK, Pod, AllEnding, Running, Live, Exists

\* The Pods' own actions but the start: who is there and live stays so, and who
\* has ended stays so, but for Pods that were to go.
LEMMA PodsMove ==
    ASSUME TypeOK, NEW i \in PodIds,
           AiperfEnds(i) \/ CopyFile(i) \/ PodFails(i) \/ ScriptExits(i) \/ PodRemoved(i)
    PROVE  /\ \A j \in PodIds : Live(j)' = Live(j)
           /\ Held => Held'
           /\ ~PodRemoved(i) => \A j \in PodIds : Exists(j)' = Exists(j)
<1>1. PICK q : /\ Becomes(i, q) /\ q.ending = pods[i].ending
               /\ \/ PodRemoved(i) /\ pods[i].ending /\ q.stage = "gone"
                  \/ ~PodRemoved(i) /\ Runs(i) /\ q.stage \in {"copy", "failed", "succeeded"}
  <2> DEFINE staged(s) == [pods[i] EXCEPT !.stage = s]
             copying(output, status) == [pods[i] EXCEPT !.stage = "copy", !.status = status,
                                                        !.made = output, !.left = output]
             leaving(f) == [pods[i] EXCEPT !.left = @ \ {f}]
  <2>1. /\ \A s : staged(s).stage = s /\ staged(s).ending = pods[i].ending
        /\ \A o, s : copying(o, s).stage = "copy" /\ copying(o, s).ending = pods[i].ending
        /\ \A f : leaving(f).stage = pods[i].stage /\ leaving(f).ending = pods[i].ending
    BY DEF TypeOK, Pod
  <2>2. /\ PodRemoved(i) => Becomes(i, staged("gone"))
        /\ PodFails(i) => Becomes(i, staged("failed"))
        /\ ScriptExits(i) => Becomes(i, staged("succeeded")) \/ Becomes(i, staged("failed"))
        /\ AiperfEnds(i) => Becomes(i, staged("failed")) \/
                            \E o, s : Becomes(i, copying(o, s))
        /\ CopyFile(i) => \E f : Becomes(i, leaving(f))
    BY PodActions
  <2>3. /\ PodRemoved(i) => pods[i].ending
        /\ PodFails(i) \/ ScriptExits(i) \/ AiperfEnds(i) \/ CopyFile(i) => Runs(i)
        /\ CopyFile(i) => pods[i].stage = "copy"
    BY DEF PodRemoved, PodFails, ScriptExits, AiperfEnds, CopyFile, Runs
  <2> HIDE DEF staged, copying, leaving
  <2> QED
    BY <2>1, <2>2, <2>3
<1>2. /\ pods'[i] = q /\ \A j \in PodIds : j # i => pods'[j] = pods[j]
  BY <1>1, OnePod
<1>3. Exists(i)
  BY DEF AiperfEnds, CopyFile, PodFails, ScriptExits, PodRemoved, Runs, Exists
<1>4. \A j \in PodIds : Live(j)' = Live(j)
  BY <1>1, <1>2, <1>3 DEF Live, Exists
<1>5. ASSUME NEW j \in PodIds, Live(j), ~Runs(j) PROVE Live(j)' /\ ~Runs(j)'
  <2>1. j # i
    BY <1>1, <1>5 DEF Live
  <2> QED
    BY <1>2, <1>5, <2>1 DEF Live, Exists, Runs
<1>6. Held => Held'
  BY <1>5 DEF Held
<1>7. ~PodRemoved(i) => \A j \in PodIds : Exists(j)' = Exists(j)
  BY <1>1, <1>2, <1>3 DEF Exists
<1> QED
  BY <1>4, <1>6, <1>7

LEMMA LInvStep == TypeOK /\ LInv /\ [Next]_vars => LInv'
<1> SUFFICES ASSUME TypeOK, LInv, [Next]_vars PROVE LInv'
  OBVIOUS
<1> USE DEF callVars, jobVars
<1>1. ASSUME NEW i \in PodIds,
             AiperfEnds(i) \/ CopyFile(i) \/ PodFails(i) \/ ScriptExits(i) \/ PodRemoved(i)
      PROVE  LInv'
  BY <1>1, PodsAlone, PodsMove DEF LInv, Running
<1>2. ASSUME NEW i \in PodIds, StartPod(i) PROVE LInv'
  <2>1. UNCHANGED <<job, deleting, late, stray, callVars, log, faults>> /\ job = "admitted"
    BY <1>2, PodsAlone DEF StartPod
  <2> QED
    BY <2>1 DEF LInv
<1>3. ASSUME UNCHANGED <<pods, tree>> PROVE Running' = Running /\ Held' = Held
  BY <1>3 DEF Running, Held, Live, Runs, Exists
<1>4. CASE Admit
  BY <1>4 DEF Admit, Quiet, LInv
<1>5. CASE DeadlineExceeded
  BY <1>5 DEF DeadlineExceeded, Quiet, LInv
<1>6. CASE Evict
  BY <1>6, NoneRuns DEF Evict, Quiet, LInv
<1>7. CASE JobRemoved
  BY <1>7, NoneRuns DEF JobRemoved, Quiet, LInv
<1>8. ASSUME NEW i \in PodIds, Conclude(i) PROVE LInv'
  <2>1. UNCHANGED <<pods, tree>> /\ Held
    BY <1>8 DEF Conclude, Quiet, Held
  <2> QED
    BY <1>8, <1>3, <2>1 DEF Conclude, Quiet, LInv
<1>9. CASE Backend \/ LateCreate \/ Restart
  <2>1. Running' = Running /\ Held' = Held
    BY <1>3, <1>9, CallActions
  <2>2. CASE Create \/ CreateTimesOut \/ LateCreate
    BY <2>1, <2>2 DEF Create, CreateTimesOut, LateCreate, Undecided, LInv
  <2>3. CASE GetJob
    BY <2>1, <2>3 DEF GetJob, Caller, LInv
  <2>4. CASE Diagnose \/ ObserveError \/ Logs \/ Close
    BY <2>1, <2>4 DEF Diagnose, ObserveError, Logs, Close, Caller, LInv
  <2>5. CASE DeleteJob
    BY <2>1, <2>5 DEF DeleteJob, LInv
  <2>6. CASE ConfirmJob
    BY <2>1, <2>6 DEF ConfirmJob, Caller, LInv
  <2>7. CASE ConfirmPods
    <3>1. at' = "idle" /\ UNCHANGED <<job, deleting>>
      BY <2>7 DEF ConfirmPods, Caller
    <3> QED
      BY <2>1, <3>1 DEF LInv
  <2>8. CASE CallFails \/ Restart
    BY <2>1, <2>8 DEF CallFails, Restart, LInv
  <2> QED
    BY <1>9, <2>2, <2>3, <2>4, <2>5, <2>6, <2>7, <2>8 DEF Backend
<1>10. CASE UNCHANGED vars
  BY <1>3, <1>10 DEF vars, LInv
<1> QED
  BY <1>1, <1>2, <1>4, <1>5, <1>6, <1>7, <1>8, <1>9, <1>10 DEF Next, Cluster

Present == \E i \in PodIds : Exists(i)

\* The mapping, case by case.
LEMMA Mapping ==
    /\ job = "none" => State = IF Present THEN "draining" ELSE "absent"
    /\ job # "none" /\ deleting => State = "deleting"
    /\ job = "suspended" /\ ~deleting => State = "suspended"
    /\ job = "admitted" /\ ~deleting => State = IF Running THEN "running" ELSE "pending"
    /\ job = "Complete" /\ ~deleting => State = "succeeded"
    /\ job = "Failed" /\ ~deleting => State = "failed"
    /\ Checked = IF confirmed THEN "gone" ELSE IF at = "pods" /\ ~jobSeen THEN "job" ELSE "no"
    /\ at = "pod_detail" => Seen = "failed"
    /\ at = "workload" => Seen = "admission_pending"
    /\ at \notin {"pod_detail", "workload"} =>
          Seen = IF said \in {"none", "error"} THEN "nothing" ELSE said
BY DEF State, Present, Checked, Seen

\* The same after a step.
LEMMA MappingNext ==
    /\ job' = "none" => State' = IF Present' THEN "draining" ELSE "absent"
    /\ job' # "none" /\ deleting' => State' = "deleting"
    /\ job' = "suspended" /\ ~deleting' => State' = "suspended"
    /\ job' = "admitted" /\ ~deleting' => State' = IF Running' THEN "running" ELSE "pending"
    /\ job' = "Complete" /\ ~deleting' => State' = "succeeded"
    /\ job' = "Failed" /\ ~deleting' => State' = "failed"
    /\ Checked' = IF confirmed' THEN "gone" ELSE IF at' = "pods" /\ ~jobSeen' THEN "job" ELSE "no"
    /\ at' = "pod_detail" => Seen' = "failed"
    /\ at' = "workload" => Seen' = "admission_pending"
    /\ at' \notin {"pod_detail", "workload"} =>
          Seen' = IF said' \in {"none", "error"} THEN "nothing" ELSE said'
BY DEF State, Present, Checked, Seen

\* The state moves with the Job and the Pods only, the rest with the call only.
LEMMA StateFollows ==
    /\ UNCHANGED <<job, deleting, Running, Present>> => State' = State
    /\ UNCHANGED <<at, said, jobSeen, confirmed>> => Seen' = Seen /\ Checked' = Checked
<1>1. ASSUME UNCHANGED <<job, deleting, Running, Present>> PROVE State' = State
  BY <1>1 DEF State, Present
<1>2. ASSUME UNCHANGED <<at, said, jobSeen, confirmed>>
      PROVE  Seen' = Seen /\ Checked' = Checked
  BY <1>2 DEF Seen, Checked
<1> QED
  BY <1>1, <1>2

LEMMA SamePods ==
    UNCHANGED pods => UNCHANGED <<Running, Present>>
BY DEF Running, Present, Live, Exists

LEMMA LifecycleInit == Init => Lifecycle!Init
<1> SUFFICES ASSUME Init PROVE Lifecycle!Init
  OBVIOUS
<1>1. ~Present
  BY DEF Init, Present, Exists, NoPod
<1>2. State = "absent" /\ Seen = "nothing" /\ Checked = "no"
  BY <1>1, Mapping DEF Init
<1> QED
  BY <1>2 DEF Lifecycle!Init

\* Steps of the Pods and of the cluster.
LEMMA ClusterImplements ==
    ASSUME TypeOK, LInv, Cluster, ~LateCreate
    PROVE  [Lifecycle!Next]_Lifecycle!view
<1> USE DEF callVars, jobVars
<1>1. ASSUME UNCHANGED <<State, Seen, Checked>> PROVE [Lifecycle!Next]_Lifecycle!view
  BY <1>1 DEF Lifecycle!view
<1>2. ASSUME UNCHANGED <<at, said, jobSeen, confirmed>> PROVE UNCHANGED <<Seen, Checked>>
  BY <1>2, StateFollows
<1>3. ASSUME NEW from, NEW to, State \in from, State' = to, UNCHANGED <<Seen, Checked>>
      PROVE  Lifecycle!Moves(from, to)
  BY <1>3 DEF Lifecycle!Moves
<1>4. ASSUME NEW i \in PodIds,
             AiperfEnds(i) \/ CopyFile(i) \/ PodFails(i) \/ ScriptExits(i) \/ PodRemoved(i)
      PROVE  [Lifecycle!Next]_Lifecycle!view
  <2>1. UNCHANGED <<job, deleting, at, said, jobSeen, confirmed>>
    BY <1>4, PodsAlone
  <2>2. Running' = Running
    BY <1>4, PodsMove DEF Running
  <2>3. UNCHANGED <<Seen, Checked>>
    BY <1>2, <2>1
  <2>4. CASE UNCHANGED Present
    BY <1>1, <2>1, <2>2, <2>3, <2>4, StateFollows
  <2>5. CASE ~UNCHANGED Present /\ job # "none"
    <3>1. State' = State
      BY <2>1, <2>2, <2>5, Mapping, MappingNext DEF TypeOK
    <3> QED
      BY <1>1, <2>3, <3>1
  <2>6. CASE ~UNCHANGED Present /\ job = "none"
    <3>1. PodRemoved(i) /\ Present
      BY <1>4, <2>6, PodsMove DEF Present, PodRemoved
    <3>2. ~Present'
      BY <2>6, <3>1 DEF Present
    <3>3. State = "draining" /\ State' = "absent"
      BY <2>1, <2>6, <3>1, <3>2, Mapping, MappingNext
    <3>4. Lifecycle!PodsGone
      BY <1>3, <2>3, <3>3 DEF Lifecycle!PodsGone
    <3> QED
      BY <3>4 DEF Lifecycle!Next
  <2> QED
    BY <2>4, <2>5, <2>6
<1>5. ASSUME NEW i \in PodIds, StartPod(i) PROVE [Lifecycle!Next]_Lifecycle!view
  <2>1. UNCHANGED <<job, deleting, at, said, jobSeen, confirmed>> /\ job = "admitted" /\ ~deleting
    BY <1>5, PodsAlone DEF StartPod
  <2>2. ~Running
    BY <1>5 DEF StartPod, Running
  <2>3. State = "pending" /\ State' \in {"pending", "running"}
    BY <2>1, <2>2, Mapping, MappingNext
  <2>4. UNCHANGED <<Seen, Checked>>
    BY <1>2, <2>1
  <2>5. State' = "running" => Lifecycle!StartPods
    BY <1>3, <2>3, <2>4 DEF Lifecycle!StartPods
  <2> QED
    BY <1>1, <2>3, <2>4, <2>5 DEF Lifecycle!Next
<1>6. CASE Admit
  <2>1. /\ job = "suspended" /\ job' = "admitted" /\ ~deleting /\ ~deleting'
        /\ UNCHANGED <<pods, at, said, jobSeen, confirmed>>
    BY <1>6 DEF Admit, Quiet
  <2>2. ~Running /\ ~Running'
    BY <2>1, SamePods DEF LInv
  <2>3. State = "suspended" /\ State' = "pending"
    BY <2>1, <2>2, Mapping, MappingNext
  <2>4. Lifecycle!Admit
    BY <1>2, <1>3, <2>1, <2>3 DEF Lifecycle!Admit
  <2> QED
    BY <2>4 DEF Lifecycle!Next
<1>7. ASSUME job = "admitted", job' \in {"Complete", "Failed"}, deleting' = deleting,
             UNCHANGED <<at, said, jobSeen, confirmed>>
      PROVE  [Lifecycle!Next]_Lifecycle!view
  <2>1. UNCHANGED <<Seen, Checked>>
    BY <1>2, <1>7
  <2>2. CASE deleting
    <3>1. State' = State
      BY <1>7, <2>2, Mapping, MappingNext
    <3> QED
      BY <1>1, <2>1, <3>1
  <2>3. CASE ~deleting
    <3>1. State \in {"pending", "running"} /\ State' \in {"succeeded", "failed"}
      BY <1>7, <2>3, Mapping, MappingNext
    <3>2. Lifecycle!EndJob
      BY <1>3, <2>1, <3>1 DEF Lifecycle!EndJob
    <3> QED
      BY <3>2 DEF Lifecycle!Next
  <2>4. QED
    BY <2>2, <2>3
<1>8. CASE DeadlineExceeded \/ \E i \in PodIds : Conclude(i)
  BY <1>7, <1>8 DEF DeadlineExceeded, Conclude, Quiet
<1>9. CASE Evict
  <2>1. /\ job = "admitted" /\ job' = "suspended" /\ ~deleting /\ ~deleting'
        /\ UNCHANGED <<at, said, jobSeen, confirmed>>
    BY <1>9 DEF Evict, Quiet
  <2>2. State \in {"pending", "running"} /\ State' = "suspended"
    BY <2>1, Mapping, MappingNext
  <2>3. Lifecycle!Evict
    BY <1>2, <1>3, <2>1, <2>2 DEF Lifecycle!Evict
  <2> QED
    BY <2>3 DEF Lifecycle!Next
<1>10. CASE JobRemoved
  <2>1. /\ job # "none" /\ job' = "none" /\ UNCHANGED <<at, said, jobSeen, confirmed>>
    BY <1>10 DEF JobRemoved, Quiet
  <2>2. /\ State \in {"suspended", "pending", "running", "succeeded", "failed", "deleting"}
        /\ State' \in {"draining", "absent"}
    BY <2>1, Mapping, MappingNext DEF TypeOK
  <2>3. Lifecycle!OutsideDelete
    BY <1>2, <1>3, <2>1, <2>2 DEF Lifecycle!OutsideDelete
  <2> QED
    BY <2>3 DEF Lifecycle!Next
<1> QED
  BY <1>4, <1>5, <1>6, <1>8, <1>9, <1>10 DEF Cluster

\* Steps of the calls, the late create and the restart.
LEMMA CallImplements ==
    ASSUME TypeOK, LInv, Backend \/ LateCreate \/ Restart
    PROVE  [Lifecycle!Next]_Lifecycle!view
<1> USE DEF callVars, jobVars
<1>0. UNCHANGED pods /\ UNCHANGED <<Running, Present>>
  BY CallActions, SamePods
<1>1. ASSUME UNCHANGED <<State, Seen, Checked>> PROVE [Lifecycle!Next]_Lifecycle!view
  BY <1>1 DEF Lifecycle!view
<1>2. ASSUME UNCHANGED <<job, deleting>> PROVE State' = State
  BY <1>0, <1>2, StateFollows
<1>3. ASSUME Seen' = "nothing", UNCHANGED <<State, Checked>> PROVE Lifecycle!Look
  BY <1>3 DEF Lifecycle!Look
<1>4. CASE Create
  <2>1. /\ job = "none" /\ job' = "suspended" /\ ~deleting /\ ~deleting'
        /\ at = "idle" /\ at' = "idle" /\ said' = "error" /\ UNCHANGED <<jobSeen, confirmed>>
    BY <1>4 DEF Create, LInv
  <2>2. /\ State \in {"absent", "draining"} /\ State' = "suspended"
        /\ Seen' = "nothing" /\ Checked' = Checked
    BY <2>1, Mapping, MappingNext
  <2>3. Lifecycle!Create
    BY <2>2 DEF Lifecycle!Create
  <2> QED
    BY <2>3 DEF Lifecycle!Next
<1>5. CASE CreateTimesOut
  <2>1. at = "idle" /\ at' = "idle" /\ said' = "error" /\ UNCHANGED <<job, deleting, jobSeen, confirmed>>
    BY <1>5 DEF CreateTimesOut
  <2>2. Seen' = "nothing" /\ Checked' = Checked
    BY <2>1, Mapping, MappingNext
  <2> QED
    BY <1>2, <1>3, <2>1, <2>2 DEF Lifecycle!Next
<1>6. CASE LateCreate
  <2>1. UNCHANGED <<deleting, at, said, jobSeen, confirmed>>
    BY <1>6 DEF LateCreate
  <2>2. Seen' = Seen /\ Checked' = Checked
    BY <2>1, StateFollows
  <2>3. CASE UNCHANGED job
    BY <1>1, <1>2, <2>1, <2>2, <2>3
  <2>4. CASE job = "none" /\ job' = "suspended"
    <3>1. State \in {"absent", "draining"} /\ State' = "suspended"
      BY <2>1, <2>4, Mapping, MappingNext DEF LInv
    <3>2. Lifecycle!Create
      BY <2>2, <3>1 DEF Lifecycle!Create
    <3> QED
      BY <3>2 DEF Lifecycle!Next
  <2> QED
    BY <1>6, <2>3, <2>4 DEF LateCreate
<1>7. CASE GetJob
  <2>1. at = "idle" /\ ~confirmed /\ ~confirmed' /\ UNCHANGED <<job, deleting, jobSeen>>
    BY <1>7 DEF GetJob, Caller
  <2>2. at' # "pods" /\ State' = State
    BY <1>2, <1>7, <2>1 DEF GetJob
  <2>3. Checked' = Checked
    BY <2>1, <2>2, Mapping, MappingNext
  <2>4. /\ Shown \in {"missing", "succeeded", "failed", "admission_pending", "running",
                     "runtime_pending"}
        /\ State \in Lifecycle!Shows[Shown]
    BY <2>1, Mapping DEF TypeOK, Shown, Lifecycle!Shows
  <2>5. Seen' = Shown
    BY <1>7, <2>1, <2>4, MappingNext DEF GetJob
  <2>6. Shown \in DOMAIN Lifecycle!Shows
    BY <2>4 DEF Lifecycle!Shows
  <2>7. Lifecycle!Look
    BY <2>2, <2>3, <2>4, <2>5, <2>6 DEF Lifecycle!Look
  <2> QED
    BY <2>7 DEF Lifecycle!Next
<1>8. CASE Diagnose
  <2>1. UNCHANGED <<job, deleting, jobSeen, confirmed>> /\ at' = "idle" /\ at # "pods"
    BY <1>8 DEF Diagnose, Caller
  <2>2. Checked' = Checked /\ State' = State
    BY <1>2, <2>1, Mapping, MappingNext
  <2>3. Seen' = Seen \/ Seen' = "nothing"
    BY <1>8, Mapping, MappingNext DEF Diagnose
  <2> QED
    BY <1>1, <1>3, <2>2, <2>3 DEF Lifecycle!Next
<1>9. CASE ObserveError
  <2>1. UNCHANGED <<job, deleting, jobSeen, confirmed, at>> /\ at = "idle" /\ said' = "error"
    BY <1>9 DEF ObserveError, Caller
  <2>2. Checked' = Checked /\ State' = State /\ Seen' = "nothing"
    BY <1>2, <2>1, Mapping, MappingNext
  <2> QED
    BY <1>3, <2>2 DEF Lifecycle!Next
<1>10. CASE Logs \/ Close
  <2>1. UNCHANGED <<job, deleting, at, said, jobSeen, confirmed>>
    BY <1>10 DEF Logs, Close
  <2> QED
    BY <1>1, <1>2, <2>1, StateFollows
<1>11. CASE DeleteJob
  <2>1. /\ at = "idle" /\ ~confirmed /\ at' = "confirm" /\ UNCHANGED <<job, said, jobSeen, confirmed>>
        /\ deleting' = (job # "none")
    BY <1>11 DEF DeleteJob
  <2>2. Checked' = Checked /\ Seen' = Seen
    BY <2>1, Mapping, MappingNext
  <2>3. CASE job = "none"
    BY <1>1, <2>1, <2>2, <2>3, <1>0, Mapping, MappingNext
  <2>4. CASE job # "none" /\ deleting
    BY <1>1, <2>1, <2>2, <2>4, Mapping, MappingNext
  <2>5. CASE job # "none" /\ ~deleting
    <3>1. /\ State \in {"suspended", "pending", "running", "succeeded", "failed"}
          /\ State' = "deleting"
      BY <2>1, <2>5, Mapping, MappingNext DEF TypeOK
    <3>2. Lifecycle!Delete
      BY <2>2, <3>1 DEF Lifecycle!Delete, Lifecycle!Moves
    <3> QED
      BY <3>2 DEF Lifecycle!Next
  <2> QED
    BY <2>3, <2>4, <2>5
<1>12. CASE ConfirmJob
  <2>1. /\ at = "confirm" /\ at' = "pods" /\ UNCHANGED <<job, deleting, said, confirmed>>
        /\ ~confirmed /\ jobSeen' = (job # "none")
    BY <1>12 DEF ConfirmJob, Caller, LInv
  <2>2. State' = State /\ Seen' = Seen
    BY <1>2, <2>1, Mapping, MappingNext
  <2>3. CASE job # "none"
    <3>1. Checked' = Checked
      BY <2>1, <2>3, Mapping, MappingNext
    <3> QED
      BY <1>1, <2>2, <3>1
  <2>4. CASE job = "none"
    <3>1. State \in {"absent", "draining"} /\ Checked' = "job"
      BY <2>1, <2>4, Mapping, MappingNext
    <3>2. Lifecycle!CheckJob
      BY <2>2, <3>1 DEF Lifecycle!CheckJob
    <3> QED
      BY <3>2 DEF Lifecycle!Next
  <2> QED
    BY <2>3, <2>4
<1>13. CASE ConfirmPods
  <2>1. /\ at = "pods" /\ at' = "idle" /\ ~confirmed /\ UNCHANGED <<job, deleting, said, jobSeen>>
        /\ confirmed' = (~jobSeen /\ \A i \in PodIds : ~Exists(i))
    BY <1>13 DEF ConfirmPods, Caller, LInv
  <2>2. State' = State /\ Seen' = Seen
    BY <1>2, <2>1, Mapping, MappingNext
  <2>3. CASE ~confirmed'
    <3>1. Checked' = "no" /\ Checked # "gone"
      BY <2>1, <2>3, Mapping, MappingNext
    <3>2. Lifecycle!CheckAgain
      BY <2>2, <3>1 DEF Lifecycle!CheckAgain
    <3> QED
      BY <3>2 DEF Lifecycle!Next
  <2>4. CASE confirmed'
    <3>1. ~jobSeen /\ ~Present /\ ~Running /\ ~Held /\ ~deleting
      BY <2>1, <2>4 DEF Present, Running, Held, Live, LInv
    <3>2. job \in {"none", "suspended", "admitted"}
      BY <2>1, <3>1 DEF LInv, TypeOK
    <3>3. State \in {"absent", "suspended", "pending"}
      BY <3>1, <3>2, Mapping
    <3>4. Checked = "job" /\ Checked' = "gone"
      BY <2>1, <2>4, <3>1, Mapping, MappingNext
    <3>5. Lifecycle!CheckPods
      BY <2>2, <3>3, <3>4 DEF Lifecycle!CheckPods
    <3> QED
      BY <3>5 DEF Lifecycle!Next
  <2> QED
    BY <2>3, <2>4
<1>14. CASE CallFails
  <2>1. /\ at \in {"confirm", "pods"} /\ at' = "idle" /\ ~confirmed
        /\ UNCHANGED <<job, deleting, said, jobSeen, confirmed>>
    BY <1>14 DEF CallFails, LInv
  <2>2. State' = State /\ Seen' = Seen /\ Checked # "gone" /\ Checked' = "no"
    BY <1>2, <2>1, Mapping, MappingNext
  <2>3. Lifecycle!CheckAgain
    BY <2>2 DEF Lifecycle!CheckAgain
  <2> QED
    BY <2>3 DEF Lifecycle!Next
<1>15. CASE Restart
  <2>1. /\ at' = "idle" /\ said' \in {"none", "error"}
        /\ UNCHANGED <<job, deleting, jobSeen, confirmed>>
    BY <1>15 DEF Restart
  <2>2. State' = State /\ Seen' = "nothing"
    BY <1>2, <2>1, MappingNext
  <2>3. CASE Checked' = Checked
    BY <1>3, <2>2, <2>3 DEF Lifecycle!Next
  <2>4. CASE Checked' # Checked
    <3>1. Checked # "gone" /\ Checked' = "no"
      BY <2>1, <2>4, Mapping, MappingNext
    <3>2. Lifecycle!CheckAgain
      BY <2>2, <3>1 DEF Lifecycle!CheckAgain
    <3> QED
      BY <3>2 DEF Lifecycle!Next
  <2> QED
    BY <2>3, <2>4
<1> QED
  BY <1>4, <1>5, <1>6, <1>7, <1>8, <1>9, <1>10, <1>11, <1>12, <1>13, <1>14, <1>15 DEF Backend

\* The kubectl calls, the Pods and the cluster implement the Job that RunController
\* works with, for any number of Pods and faults.
THEOREM JobBackendFits == Spec => FitsRunController
<1>1. Init => TypeOK /\ LInv /\ Lifecycle!Init
  BY TypeInit, LInvInit, LifecycleInit
<1>2. TypeOK /\ LInv /\ [Next]_vars => TypeOK' /\ LInv'
  BY TypeStep, LInvStep
<1>3. TypeOK /\ LInv /\ [Next]_vars => [Lifecycle!Next]_Lifecycle!view
  <2>1. ASSUME UNCHANGED vars PROVE UNCHANGED Lifecycle!view
    <3>1. UNCHANGED <<job, deleting, at, said, jobSeen, confirmed, pods>>
      BY <2>1 DEF vars
    <3> QED
      BY <3>1, SamePods, StateFollows DEF Lifecycle!view
  <2> QED
    BY <2>1, ClusterImplements, CallImplements DEF Next
<1> QED
  BY <1>1, <1>2, <1>3, PTL DEF Spec, FitsRunController, Lifecycle!Spec
=============================================================================
