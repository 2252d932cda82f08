------------------------- MODULE RunControllerProofs -------------------------
(***************************************************************************)
(* Theorems about RunController, for any number of levels, retries,        *)
(* threads and faults.                                                     *)
(*                                                                         *)
(* The first part holds whether or not submit() overlaps with other calls. *)
(* The second part assumes that it does not, and its invariant CInv says   *)
(* for each label of a thread how its copy relates to the disk and to the  *)
(* cluster.  On CInv rest the parts after it: what is completed is         *)
(* published (PInv), the report is the final one (RInv), no save loses     *)
(* history (HInv), and levels and Jobs go through what LevelPromotion and  *)
(* JobLifecycle allow.  The last part bounds the attempts.                 *)
(***************************************************************************)
EXTENDS RunController, RunRecordProofs

-----------------------------------------------------------------------------
(* Types and well-formed records *)

\* What the code between two effects relies on in the record it holds.
Fits(label, r) ==
    /\ label \in {"begin", "idle"} => r = NoRecord
    /\ label \notin {"begin", "idle"} => r \in Record /\ WellFormed(r)
    /\ label \in {"start", "create"} =>
           r.attempts # <<>> /\ IsOpen(LastAttempt(r))
    /\ label \in {"recreate", "observe", "promote"} => HasActive(r)
    /\ label \in {"queue_cleanup", "delete", "confirm", "pods"} => HasCleanup(r)

ThreadsOK ==
    /\ rec \in [Threads -> Record \cup {NoRecord}]
    /\ pc \in [Threads -> PC]
    /\ lock \in Threads \cup {NoThread}
    /\ \A t \in Threads : Fits(pc[t], rec[t])

DiskOK == disk \in Record \cup {NoRecord} /\ (disk # NoRecord => WellFormed(disk))

WorldOK ==
    /\ jobs \in [AttemptIds -> JobState]
    /\ overdue \in BOOLEAN
    /\ canonical \in [Levels -> 0 .. Retries + 1]
    /\ report \in {"none", "current", "stale"}
    /\ faults \in 0..MaxFaults

TInv == ThreadsOK /\ DiskOK /\ WorldOK

LEMMA TInvImplies == TInv => TypeOK /\ RecordsWellFormed
<1> SUFFICES ASSUME TInv PROVE TypeOK /\ RecordsWellFormed
  OBVIOUS
<1>1. TypeOK
  BY DEF TInv, ThreadsOK, DiskOK, WorldOK, TypeOK
<1>2. ASSUME NEW t \in Threads, rec[t] # NoRecord PROVE WellFormed(rec[t])
  BY <1>2 DEF TInv, ThreadsOK, Fits
<1>3. QED
  BY <1>1, <1>2 DEF TInv, DiskOK, RecordsWellFormed

\* The three ways a step moves a thread.
LEMMA GotoKeeps ==
    ASSUME ThreadsOK, NEW t \in Threads, NEW r, NEW label \in PC \ {"begin", "idle"},
           Fits(label, r), Goto(t, r, label)
    PROVE  ThreadsOK'
BY DEF ThreadsOK, Goto, Fits

LEMMA ReturnKeeps ==
    ASSUME ThreadsOK, NEW t \in Threads, Return(t)
    PROVE  ThreadsOK'
<1>1. Fits("idle", NoRecord)
  BY DEF Fits
<1>2. "idle" \in PC
  BY DEF PC
<1>3. QED
  BY <1>1, <1>2 DEF ThreadsOK, Return

LEMMA EnterKeeps ==
    ASSUME ThreadsOK, NEW t \in Threads, NEW r, NEW label \in PC \ {"begin", "idle"},
           Fits(label, r), Enter(t, r, label)
    PROVE  ThreadsOK'
BY DEF ThreadsOK, Enter, Fits

\* An attempt id read from a record a thread holds.
LEMMA LastIdType ==
    ASSUME NEW r \in Record, r.attempts # <<>>
    PROVE  LastId(r) \in AttemptIds /\ LastAttempt(r).concurrency \in Levels
           /\ LastAttempt(r).attempt \in 0 .. Retries + 1
BY RecordParts, RetriesAssumption DEF LastId, LastAttempt

\* The Job a cleanup is about is the last attempt's.
LEMMA CleanupIdIsLast ==
    ASSUME NEW t \in Threads, rec[t] \in Record, WellFormed(rec[t]), HasCleanup(rec[t])
    PROVE  CleanupId(t) = LastId(rec[t])
BY OnlyLastUnsettled DEF CleanupId, LastId, LastAttempt

\* _queue_cleanup and _cancel leave a record with a pending cleanup.
LEMMA QueuedFits ==
    ASSUME NEW r \in Record, WellFormed(r), HasActive(r)
    PROVE  /\ \A phase \in {"succeeded", "failed"} :
                  Fits("queue_cleanup", QueueCleanup(r, ActiveAttempt(r), phase))
           /\ Fits("queue_cleanup", CancelActive(r, ActiveAttempt(r)))
<1>1. ASSUME NEW q \in Record, WellFormed(q), q.attempts # <<>>,
             LastAttempt(q).cleanup_pending
      PROVE  Fits("queue_cleanup", q)
  BY <1>1, OnlyLastUnsettled DEF Fits
<1>2. QED
  BY <1>1, QueueCleanupWellFormed, CancelActiveWellFormed

LEMMA TInvInit == Init => TInv
<1> SUFFICES ASSUME Init PROVE TInv
  OBVIOUS
<1>1. \A t \in Threads : Fits(pc[t], rec[t])
  BY DEF Init, Fits
<1>2. ThreadsOK
  BY <1>1 DEF Init, ThreadsOK, PC
<1>3. DiskOK
  BY DEF Init, DiskOK
<1>4. WorldOK
  <2>1. jobs \in [AttemptIds -> JobState]
    BY DEF Init, JobState
  <2>2. canonical \in [Levels -> 0 .. Retries + 1]
    BY RetriesAssumption DEF Init
  <2>3. overdue \in BOOLEAN /\ faults = 0 /\ report = "none"
    BY DEF Init
  <2>4. 0 \in 0..MaxFaults
    BY MaxFaultsAssumption
  <2>5. QED
    BY <2>1, <2>2, <2>3, <2>4, Zenon DEF WorldOK
<1>5. QED
  BY <1>2, <1>3, <1>4 DEF TInv

\* A Job that moves to a state Jobs have.
LEMMA JobsType ==
    ASSUME jobs \in [AttemptIds -> JobState]
    PROVE  /\ \A a : Created(a) => jobs' \in [AttemptIds -> JobState]
           /\ \A a : Deleted(a) => jobs' \in [AttemptIds -> JobState]
           /\ \A a, from : \A to \in JobState :
                 JobMoves(a, from, to) => jobs' \in [AttemptIds -> JobState]
BY DEF Created, Deleted, JobMoves, JobState

\* Every step keeps the types and the well-formedness of every record.
LEMMA TInvStep == TInv /\ [Next]_vars => TInv'
<1> SUFFICES ASSUME TInv, [Next]_vars PROVE TInv'
  OBVIOUS
<1> USE DEF TInv
<1>1. CASE Submit
  <2>1. Submitter \in Threads
    BY DEF Threads
  <2>2. Fits("start", StartAttempt(NewRecord, 1, 1))
    BY NewRecordWellFormed DEF Fits
  <2>3. ThreadsOK'
    BY <1>1, <2>1, <2>2, GotoKeeps DEF Saved, Submit, PC
  <2>4. QED
    BY <1>1, <2>3, NewRecordWellFormed DEF Saved, Submit, DiskOK, WorldOK
<1>2. ASSUME NEW t \in Threads, SaveStarted(t) PROVE TInv'
  <2>1. pc[t] = "start" /\ rec[t] \in Record /\ WellFormed(rec[t])
    BY <1>2 DEF Saved, SaveStarted, At, ThreadsOK, Fits
  <2>2. Fits("create", rec[t])
    BY <2>1 DEF ThreadsOK, Fits
  <2>3. ThreadsOK'
    BY <1>2, <2>2, GotoKeeps DEF Saved, SaveStarted, PC
  <2>4. QED
    BY <1>2, <2>1, <2>3 DEF Saved, SaveStarted, DiskOK, WorldOK
<1>3. ASSUME NEW t \in Threads, CreateJob(t) \/ CreateUncertain(t) PROVE TInv'
  <2>1. pc[t] = "create"
    BY <1>3 DEF CreateJob, CreateUncertain, At
  <2>2. Fits("save", rec[t])
    BY <2>1 DEF ThreadsOK, Fits
  <2>3. Goto(t, rec[t], "save") \/ Return(t)
    BY <1>3 DEF CreateJob, CreateUncertain
  <2>4. ThreadsOK'
    BY <2>2, <2>3, GotoKeeps, ReturnKeeps DEF PC
  <2>5. DiskOK'
    BY <1>3 DEF CreateJob, CreateUncertain, DiskOK
  <2>6. WorldOK'
    BY <1>3, JobsType DEF CreateJob, CreateUncertain, WorldOK
  <2>7. QED
    BY <2>4, <2>5, <2>6
<1>4. ASSUME NEW t \in Threads, RecreateJob(t) PROVE TInv'
  <2>1. rec[t] \in Record /\ WellFormed(rec[t]) /\ HasActive(rec[t])
    BY <1>4 DEF RecreateJob, At, ThreadsOK, Fits
  <2>2. Fits("save", [rec[t] EXCEPT !.state = "admission_pending"])
    BY <2>1, RecreatedWellFormed DEF Fits
  <2>3. ThreadsOK'
    BY <1>4, <2>2, GotoKeeps DEF RecreateJob, PC
  <2>4. WorldOK'
    BY <1>4, JobsType DEF RecreateJob, WorldOK
  <2>5. QED
    BY <1>4, <2>3, <2>4 DEF RecreateJob, DiskOK
<1>5. ASSUME NEW t \in Workers, Reconcile(t) PROVE TInv'
  <2>1. t \in Threads
    BY DEF Threads
  <2>2. disk \in Record /\ WellFormed(disk) /\ HoldsCapacity(disk)
    BY <1>5 DEF Reconcile, DiskOK
  <2>3. ThreadsOK'
    <3>1. CASE HasCleanup(disk)
      <4>1. Fits("delete", disk)
        BY <2>2, <3>1 DEF Fits
      <4>2. QED
        BY <1>5, <2>1, <3>1, <4>1, EnterKeeps DEF Reconcile, PC
    <3>2. CASE ~HasCleanup(disk) /\ HasActive(disk)
      <4>1. Fits("observe", disk)
        BY <2>2, <3>2 DEF Fits
      <4>2. QED
        BY <1>5, <2>1, <3>2, <4>1, EnterKeeps DEF Reconcile, PC
    <3>3. CASE ~HasCleanup(disk) /\ ~HasActive(disk)
      <4>1. Fits("start", Advance(disk))
        BY <2>2, <3>3, FirstAdvanceWellFormed DEF Fits
      <4>2. Enter(t, Advance(disk), "start")
        BY <1>5, <3>3 DEF Reconcile
      <4>3. QED
        BY <2>1, <4>1, <4>2, EnterKeeps DEF PC
    <3>4. QED
      BY <3>1, <3>2, <3>3
  <2>4. QED
    BY <1>5, <2>3 DEF Reconcile, DiskOK, WorldOK
<1>6. ASSUME NEW t \in Threads, ObserveError(t) PROVE TInv'
  <2>1. Fits("save", rec[t])
    BY <1>6 DEF ObserveError, At, ThreadsOK, Fits
  <2>2. QED
    BY <1>6, <2>1, GotoKeeps DEF ObserveError, PC, DiskOK, WorldOK
<1>7. ASSUME NEW t \in Threads, Observe(t) PROVE TInv'
  <2>1. /\ rec[t] \in Record
        /\ WellFormed(rec[t])
        /\ HasActive(rec[t])
        /\ rec[t].attempts # <<>>
    BY <1>7, OnlyLastUnsettled
       DEF Observe, ObserveMissing, ObserveSuspended, ObserveAdmitted,
           ObserveFailed, ObserveSucceeded, At, ThreadsOK, Fits
  <2>2. ThreadsOK'
    <3> DEFINE Seen(phase) == Observed(rec[t], Active(t), phase)
    <3>1. \A phase \in PendingPhases : Fits("save", Seen(phase))
      BY <2>1, ObservedWellFormed DEF Fits, Active
    <3>2. Fits("recreate", rec[t]) /\ Fits("promote", rec[t])
      BY <2>1 DEF Fits
    <3>3. Fits("queue_cleanup", QueueCleanup(rec[t], Active(t), "failed"))
      BY <2>1, QueuedFits DEF Active
    <3>4. Fits("queue_cleanup", QueueCleanup(Seen("admission_pending"), Active(t), "failed"))
      <4> DEFINE q == Seen("admission_pending")
      <4>1. q \in Record /\ WellFormed(q) /\ HasActive(q) /\ ActiveAttempt(q) = Active(t)
        BY <2>1, ObservedWellFormed DEF PendingPhases, Active
      <4> HIDE DEF q
      <4>2. Fits("queue_cleanup", QueueCleanup(q, Active(t), "failed"))
        BY <4>1, QueuedFits
      <4>3. QED
        BY <4>2 DEF q
    <3> HIDE DEF Seen
    <3>5. \E r, label :
             /\ label \in {"save", "recreate", "promote", "queue_cleanup"}
             /\ Fits(label, r)
             /\ Goto(t, r, label)
      <4>1. CASE ObserveMissing(t)
        BY <4>1, <3>2, <3>3 DEF ObserveMissing
      <4>2. CASE ObserveSuspended(t)
        BY <4>2, <3>1, <3>4 DEF ObserveSuspended, Seen, PendingPhases
      <4>3. CASE ObserveAdmitted(t)
        BY <4>3, <3>1 DEF ObserveAdmitted, Seen, PendingPhases
      <4>4. CASE ObserveFailed(t)
        BY <4>4, <3>3 DEF ObserveFailed
      <4>5. CASE ObserveSucceeded(t)
        BY <4>5, <3>2 DEF ObserveSucceeded
      <4>6. QED
        BY <1>7, <4>1, <4>2, <4>3, <4>4, <4>5 DEF Observe
    <3>6. {"save", "recreate", "promote", "queue_cleanup"} \subseteq PC \ {"begin", "idle"}
      BY DEF PC
    <3>7. QED
      BY <3>5, <3>6, GotoKeeps
  <2>3. DiskOK'
    BY <1>7 DEF Observe, ObserveMissing, ObserveSuspended, ObserveAdmitted,
                ObserveFailed, ObserveSucceeded, DiskOK
  <2>4. WorldOK'
    <3>1. canonical' \in [Levels -> 0 .. Retries + 1]
      BY <1>7, RetriesAssumption
         DEF Observe, ObserveMissing, ObserveSuspended, ObserveAdmitted,
             ObserveFailed, ObserveSucceeded, WorldOK, Purge
    <3>2. QED
      BY <1>7, <3>1 DEF Observe, ObserveMissing, ObserveSuspended, ObserveAdmitted,
                        ObserveFailed, ObserveSucceeded, WorldOK
  <2>5. QED
    BY <2>2, <2>3, <2>4
<1>8. ASSUME NEW t \in Threads, Promote(t) \/ PromoteFailed(t) PROVE TInv'
  <2>1. /\ rec[t] \in Record
        /\ WellFormed(rec[t])
        /\ HasActive(rec[t])
        /\ rec[t].attempts # <<>>
    BY <1>8, OnlyLastUnsettled DEF Promote, PromoteFailed, At, ThreadsOK, Fits
  <2>2. PICK phase \in {"succeeded", "failed"} :
            Goto(t, QueueCleanup(rec[t], Active(t), phase), "queue_cleanup")
    BY <1>8 DEF Promote, PromoteFailed
  <2>3. Fits("queue_cleanup", QueueCleanup(rec[t], Active(t), phase))
    BY <2>1, QueuedFits DEF Active
  <2>4. ThreadsOK'
    BY <2>2, <2>3, GotoKeeps DEF PC
  <2>5. canonical' \in [Levels -> 0 .. Retries + 1]
    BY <1>8, <2>1, LastIdType, RetriesAssumption
       DEF Promote, PromoteFailed, Purge, WorldOK
  <2>6. QED
    BY <1>8, <2>4, <2>5 DEF Promote, PromoteFailed, DiskOK, WorldOK
<1>9. ASSUME NEW t \in Workers, Cancel(t) PROVE TInv'
  <2>1. t \in Threads
    BY DEF Threads
  <2>2. disk \in Record /\ WellFormed(disk) /\ HoldsCapacity(disk)
    BY <1>9 DEF Cancel, DiskOK
  <2>3. ThreadsOK'
    <3>1. CASE HasCleanup(disk)
      <4>1. Fits("delete", disk)
        BY <2>2, <3>1 DEF Fits
      <4>2. QED
        BY <1>9, <2>1, <3>1, <4>1, EnterKeeps DEF Cancel, PC
    <3>2. CASE ~HasCleanup(disk) /\ HasActive(disk)
      <4>1. Fits("queue_cleanup", CancelActive(disk, ActiveAttempt(disk)))
        BY <2>2, <3>2, QueuedFits
      <4>2. Enter(t, CancelActive(disk, ActiveAttempt(disk)), "queue_cleanup")
        BY <1>9, <3>2 DEF Cancel
      <4>3. QED
        BY <2>1, <4>1, <4>2, EnterKeeps DEF PC
    <3>3. CASE ~HasCleanup(disk) /\ ~HasActive(disk)
      <4>1. Fits("save", CancelIdle(disk))
        BY <2>2, <3>3, CancelIdleWellFormed DEF Fits
      <4>2. Enter(t, CancelIdle(disk), "save")
        BY <1>9, <3>3 DEF Cancel
      <4>3. QED
        BY <2>1, <4>1, <4>2, EnterKeeps DEF PC
    <3>4. QED
      BY <3>1, <3>2, <3>3
  <2>4. QED
    BY <1>9, <2>3 DEF Cancel, DiskOK, WorldOK
<1>10. ASSUME NEW t \in Threads, SaveCleanup(t) PROVE TInv'
  <2>1. pc[t] = "queue_cleanup" /\ rec[t] \in Record /\ WellFormed(rec[t])
    BY <1>10 DEF Saved, SaveCleanup, At, ThreadsOK, Fits
  <2>2. Fits("delete", rec[t])
    BY <2>1 DEF ThreadsOK, Fits
  <2>3. ThreadsOK'
    BY <1>10, <2>2, GotoKeeps DEF Saved, SaveCleanup, PC
  <2>4. QED
    BY <1>10, <2>1, <2>3 DEF Saved, SaveCleanup, DiskOK, WorldOK
<1>11. ASSUME NEW t \in Threads, DeleteJob(t) \/ DeleteError(t) PROVE TInv'
  <2>1. pc[t] = "delete"
    BY <1>11 DEF DeleteJob, DeleteError, At
  <2>2. Fits("confirm", rec[t]) /\ Fits("save", rec[t])
    BY <2>1 DEF ThreadsOK, Fits
  <2>3. ThreadsOK'
    BY <1>11, <2>2, GotoKeeps DEF DeleteJob, DeleteError, PC
  <2>4. WorldOK'
    BY <1>11, JobsType DEF DeleteJob, DeleteError, WorldOK
  <2>5. QED
    BY <1>11, <2>3, <2>4 DEF DeleteJob, DeleteError, DiskOK
<1>12. ASSUME NEW t \in Threads, ConfirmPending(t) \/ ConfirmJob(t) PROVE TInv'
  <2>1. pc[t] \in {"confirm", "pods"}
    BY <1>12 DEF ConfirmPending, ConfirmJob, At
  <2>2. Fits("save", rec[t]) /\ Fits("pods", rec[t])
    BY <2>1 DEF ThreadsOK, Fits
  <2>3. ThreadsOK'
    BY <1>12, <2>2, GotoKeeps DEF ConfirmPending, ConfirmJob, PC
  <2>4. QED
    BY <1>12, <2>3 DEF ConfirmPending, ConfirmJob, DiskOK, WorldOK
<1>13. ASSUME NEW t \in Threads, ConfirmGone(t) PROVE TInv'
  <2> DEFINE next == AfterCleanup(rec[t], CleanupAttempt(rec[t]))
  <2>1. rec[t] \in Record /\ WellFormed(rec[t]) /\ HasCleanup(rec[t])
    BY <1>13 DEF ConfirmGone, At, ThreadsOK, Fits
  <2>2. Goto(t, next, IF HasActive(next) THEN "start" ELSE "save")
    BY <1>13 DEF ConfirmGone, AfterConfirm
  <2>3. /\ next \in Record
        /\ WellFormed(next)
        /\ next.attempts # <<>>
    BY <2>1, AfterCleanupWellFormed
  <2> HIDE DEF next
  <2>4. HasActive(next) => IsOpen(LastAttempt(next))
    BY <2>3, OnlyLastUnsettled
  <2>5. Fits(IF HasActive(next) THEN "start" ELSE "save", next)
    BY <2>3, <2>4 DEF Fits
  <2>6. ThreadsOK'
    BY <2>2, <2>5, GotoKeeps DEF PC
  <2>7. QED
    BY <1>13, <2>6 DEF ConfirmGone, DiskOK, WorldOK
<1>14. ASSUME NEW t \in Threads, Save(t) PROVE TInv'
  <2>1. rec[t] \in Record /\ WellFormed(rec[t])
    BY <1>14 DEF Saved, Save, At, ThreadsOK, Fits
  <2>2. Fits("report", rec[t])
    BY <2>1 DEF Fits
  <2>3. ThreadsOK'
    BY <1>14, <2>2, GotoKeeps, ReturnKeeps DEF Saved, Save, PC
  <2>4. QED
    BY <1>14, <2>1, <2>3 DEF Saved, Save, DiskOK, WorldOK
<1>15. ASSUME NEW t \in Threads, WriteReport(t) \/ WriteFails(t) PROVE TInv'
  <2>1. ThreadsOK'
    BY <1>15, ReturnKeeps DEF WriteReport, WriteFails
  <2>2. faults' \in 0..MaxFaults
    BY <1>15, MaxFaultsAssumption DEF WriteReport, WriteFails, WorldOK, Fault
  <2>3. QED
    BY <1>15, <2>1, <2>2 DEF WriteReport, WriteFails, DiskOK, WorldOK
<1>16. CASE Restart
  <2>1. Fits("begin", NoRecord) /\ Fits("idle", NoRecord)
    BY DEF Fits
  <2>2. ThreadsOK'
    BY <1>16, <2>1 DEF Restart, ThreadsOK, PC, At
  <2>3. faults' \in 0..MaxFaults
    BY <1>16, MaxFaultsAssumption DEF Restart, WorldOK, Fault
  <2>4. QED
    BY <1>16, <2>2, <2>3 DEF Restart, DiskOK, WorldOK
<1>17. ASSUME NEW a \in AttemptIds, Cluster(a) PROVE TInv'
  <2>1. PICK from : \E to \in JobState : JobMoves(a, from, to)
    <3>1. {"suspended", "pending", "running", "succeeded", "failed", "draining", "absent"}
             \subseteq JobState
      BY DEF JobState
    <3>2. CASE Admit(a) \/ StartPods(a) \/ PodsGone(a)
      BY <3>1, <3>2 DEF Admit, StartPods, PodsGone
    <3>3. CASE EndJob(a) \/ JobGone(a)
      BY <3>1, <3>3 DEF EndJob, JobGone
    <3>4. CASE Evict(a) \/ OutsideDelete(a)
      BY <3>1, <3>4 DEF Evict, OutsideDelete
    <3>5. QED
      BY <1>17, <3>2, <3>3, <3>4 DEF Cluster
  <2>2. faults' \in 0..MaxFaults
    BY <1>17, MaxFaultsAssumption
       DEF Cluster, Admit, StartPods, EndJob, JobGone, PodsGone, Evict,
           OutsideDelete, WorldOK, Fault
  <2>3. ThreadsOK'
    BY <2>1 DEF JobMoves, ThreadsOK
  <2>4. WorldOK'
    BY <2>1, <2>2, JobsType DEF JobMoves, WorldOK
  <2>5. QED
    BY <2>1, <2>3, <2>4 DEF JobMoves, DiskOK
<1>18. CASE DeadlinePasses \/ GetReport
  BY <1>18 DEF DeadlinePasses, GetReport, ThreadsOK, DiskOK, WorldOK
<1>19. CASE UNCHANGED vars
  BY <1>19 DEF vars, ThreadsOK, DiskOK, WorldOK
<1>20. ASSUME NEW t \in Workers, AlreadyOver(t) PROVE TInv'
  BY <1>19, <1>20 DEF AlreadyOver
<1>21. ASSUME NEW t \in Threads, Continue(t) PROVE TInv'
  BY <1>2, <1>3, <1>4, <1>6, <1>7, <1>8, <1>10, <1>11, <1>12, <1>13, <1>14,
     <1>15, <1>21 DEF Continue
<1>22. Reconcilers \subseteq Workers /\ Cancelers \subseteq Workers
  BY DEF Workers
<1>23. QED
  BY <1>1, <1>5, <1>9, <1>15, <1>16, <1>17, <1>18, <1>19, <1>20, <1>21, <1>22
     DEF Next

\* Every variable keeps its type.
THEOREM TypeCorrect == Spec => []TypeOK
<1>1. TInv => TypeOK
  BY TInvImplies
<1>2. QED
  BY <1>1, TInvInit, TInvStep, PTL DEF Spec

\* The record on disk, and every copy of it a thread works on, tells a
\* possible story of the sweep, whatever the threads, the cluster and the
\* faults do, and even when other calls enter while submit() is running.
THEOREM WellFormedAlways == Spec => []RecordsWellFormed
<1>1. TInv => RecordsWellFormed
  BY TInvImplies
<1>2. QED
  BY <1>1, TInvInit, TInvStep, PTL DEF Spec

-----------------------------------------------------------------------------
(* One call at a time: what each label knows of the disk and the cluster *)

Busy(t) == pc[t] \notin {"begin", "idle"}

\* At most one thread is inside a call.
Alone ==
    /\ \A t, u \in Threads : Busy(t) /\ Busy(u) => t = u
    /\ \A t \in Threads : Busy(t) => disk # NoRecord
    /\ \A t \in Workers : pc[t] # "begin" /\ (Busy(t) => lock = t)
    /\ pc[Submitter] = "begin" => disk = NoRecord

NoJobs(js) == \A a \in AttemptIds : js[a] = "absent"

Unfinished(r) ==
    /\ r.attempts # <<>>
    /\ IsOpen(LastAttempt(r)) \/ LastAttempt(r).cleanup_pending

\* JobsOwned, of a disk d and a cluster js
Owned(d, js) ==
    \A a \in AttemptIds :
        js[a] # "absent" => d # NoRecord /\ Unfinished(d) /\ a = LastId(d)

\* A thread at label with record r, over disk d and cluster js
Follows(label, r, d, js) ==
    /\ label = "start" => HoldsCapacity(d) /\ ~Terminal(d) /\ NoJobs(js)
    /\ label \in {"create", "recreate", "observe", "promote", "delete",
                  "confirm", "pods", "report"} => r = d
    /\ label = "pods" => js[LastId(r)] \in {"absent", "draining"}
    /\ label = "queue_cleanup" => HasActive(d) /\ LastId(r) = LastId(d)
    /\ label = "save" =>
           /\ HoldsCapacity(d)
           /\ d.state = "canceled" => r.state = "canceled"
           /\ NoJobs(js) \/ (Unfinished(r) /\ LastId(r) = LastId(d))

AllFollow == \A t \in Threads : Follows(pc[t], rec[t], disk, jobs)

CInv == TInv /\ Alone /\ Owned(disk, jobs) /\ AllFollow

LEMMA OwnedIsJobsOwned == Owned(disk, jobs) <=> JobsOwned
BY DEF Owned, JobsOwned, Unfinished

\* A record with an active attempt, or a pending cleanup, is unfinished.
LEMMA UnfinishedWhen ==
    ASSUME NEW r \in Record, WellFormed(r)
    PROVE  /\ HasActive(r) => Unfinished(r) /\ HoldsCapacity(r)
           /\ HasCleanup(r) => Unfinished(r) /\ HoldsCapacity(r)
           /\ Unfinished(r) => HoldsCapacity(r)
<1>1. HasActive(r) => Unfinished(r) /\ HoldsCapacity(r)
  BY OnlyLastUnsettled DEF Unfinished, HoldsCapacity
<1>2. HasCleanup(r) => Unfinished(r) /\ HoldsCapacity(r)
  BY OnlyLastUnsettled DEF Unfinished, HoldsCapacity
<1>3. Unfinished(r) => HasActive(r) \/ HasCleanup(r)
  BY OnlyLastUnsettled DEF Unfinished
<1>4. QED
  BY <1>1, <1>2, <1>3

\* The busy thread goes on, returns, or a worker enters.
LEMMA GotoAlone ==
    ASSUME TInv, Alone, NEW t \in Threads, Busy(t), disk' # NoRecord,
           NEW r, NEW label \in PC \ {"begin", "idle"},
           Goto(t, r, label), Follows(label, r, disk', jobs')
    PROVE  Alone' /\ AllFollow'
<1>1. pc \in [Threads -> PC] /\ rec \in [Threads -> Record \cup {NoRecord}]
  BY DEF TInv, ThreadsOK
<1>2. pc'[t] = label /\ rec'[t] = r /\ lock' = lock
  BY <1>1 DEF Goto
<1>3. ASSUME NEW u \in Threads, u # t
      PROVE  pc'[u] = pc[u] /\ pc[u] \in {"begin", "idle"}
  BY <1>1, <1>3 DEF Goto, Alone, Busy
<1>4. disk # NoRecord
  BY DEF Alone
<1>5. pc[Submitter] # "begin" /\ Submitter \in Threads
  BY <1>4 DEF Alone, Threads
<1>6. pc'[Submitter] # "begin"
  BY <1>2, <1>3, <1>5
<1>7. Alone'
  <2>1. \A u, v \in Threads : Busy(u)' /\ Busy(v)' => u = v
    BY <1>3 DEF Busy
  <2>2. \A u \in Workers : u \in Threads
    BY DEF Threads
  <2>3. \A u \in Workers : pc'[u] # "begin" /\ (Busy(u)' => lock' = u)
    BY <1>2, <1>3, <2>2 DEF Alone, Busy
  <2>4. QED
    BY <1>6, <2>1, <2>3 DEF Alone
<1>8. \A u \in Threads : Follows(pc'[u], rec'[u], disk', jobs')
  BY <1>2, <1>3 DEF Follows
<1>9. QED
  BY <1>7, <1>8 DEF AllFollow

LEMMA ReturnAlone ==
    ASSUME TInv, Alone, NEW t \in Threads, Busy(t), Return(t)
    PROVE  Alone' /\ AllFollow'
<1>1. pc \in [Threads -> PC] /\ rec \in [Threads -> Record \cup {NoRecord}]
  BY DEF TInv, ThreadsOK
<1>2. disk # NoRecord
  BY DEF Alone
<1>3. pc[Submitter] # "begin" /\ Submitter \in Threads
  BY <1>2 DEF Alone, Threads
<1>4. \A u \in Threads : pc'[u] \in {"begin", "idle"}
  BY <1>1 DEF Return, Alone, Busy
<1>5. \A u \in Threads : pc[u] # "begin" => pc'[u] # "begin"
  BY <1>1 DEF Return
<1>6. \A u \in Workers : u \in Threads
  BY DEF Threads
<1>7. Alone'
  BY <1>3, <1>4, <1>5, <1>6 DEF Alone, Busy
<1>8. \A u \in Threads : Follows(pc'[u], rec'[u], disk', jobs')
  BY <1>4 DEF Follows
<1>9. QED
  BY <1>7, <1>8 DEF AllFollow

LEMMA EnterAlone ==
    ASSUME TInv, Alone, ~Overlap, NEW t \in Workers, disk # NoRecord, disk' = disk,
           NEW r, NEW label \in PC \ {"begin", "idle"},
           Enter(t, r, label), Follows(label, r, disk', jobs')
    PROVE  Alone' /\ AllFollow'
<1>1. pc \in [Threads -> PC] /\ rec \in [Threads -> Record \cup {NoRecord}]
  BY DEF TInv, ThreadsOK
<1>2. t \in Threads /\ Submitter \in Threads
  BY DEF Threads
<1>3. pc[Submitter] = "idle"
  BY DEF Enter, Alone
<1>4. ASSUME NEW u \in Threads
      PROVE  pc[u] = "idle"
  <2>1. u = Submitter \/ u \in Workers
    BY DEF Threads
  <2>2. u # NoThread
    BY ThreadsAssumption
  <2>3. u \in Workers => pc[u] = "idle"
    BY <2>2 DEF Enter, Alone, Busy
  <2>4. QED
    BY <1>3, <2>1, <2>3
<1>5. pc'[t] = label /\ rec'[t] = r /\ lock' = t
  BY <1>1, <1>2 DEF Enter
<1>6. \A u \in Threads : u # t => pc'[u] = "idle"
  BY <1>1, <1>4 DEF Enter
<1>7. Alone'
  <2>1. \A u, v \in Threads : Busy(u)' /\ Busy(v)' => u = v
    BY <1>6 DEF Busy
  <2>2. \A u \in Workers : u \in Threads
    BY DEF Threads
  <2>3. \A u \in Workers : pc'[u] # "begin" /\ (Busy(u)' => lock' = u)
    BY <1>5, <1>6, <2>2 DEF Busy
  <2>4. pc'[Submitter] # "begin"
    BY <1>2, <1>5, <1>6
  <2>5. QED
    BY <2>1, <2>3, <2>4 DEF Alone
<1>8. \A u \in Threads : Follows(pc'[u], rec'[u], disk', jobs')
  BY <1>2, <1>5, <1>6 DEF Follows
<1>9. QED
  BY <1>7, <1>8 DEF AllFollow

LEMMA CInvInit == Init => CInv
<1> SUFFICES ASSUME Init PROVE CInv
  OBVIOUS
<1>1. \A t \in Threads : pc[t] = IF t = Submitter THEN "begin" ELSE "idle"
  BY DEF Init
<1>2. \A t \in Workers : t # Submitter /\ t \in Threads
  BY ThreadsAssumption DEF Threads
<1>3. disk = NoRecord
  BY DEF Init
<1>4. Alone
  BY <1>1, <1>2, <1>3 DEF Alone, Busy
<1>5. AllFollow
  BY <1>1 DEF AllFollow, Follows
<1>6. Owned(disk, jobs)
  BY DEF Init, Owned
<1>7. QED
  BY <1>4, <1>5, <1>6, TInvInit DEF CInv

\* The Job of the last attempt on disk is the only one that changes.
LEMMA OwnedJobs ==
    ASSUME TInv, NEW d \in Record, NEW js, NEW a \in AttemptIds,
           Unfinished(d), a = LastId(d), Owned(d, jobs),
           \A b \in AttemptIds : b # a => js[b] = jobs[b]
    PROVE  Owned(d, js)
BY NoRecordAssumption DEF Owned

\* create and delete touch one Job.
LEMMA OneJob ==
    ASSUME TInv, NEW a \in AttemptIds
    PROVE  /\ Created(a) => \A b \in AttemptIds : b # a => jobs'[b] = jobs[b]
           /\ Deleted(a) => \A b \in AttemptIds : b # a => jobs'[b] = jobs[b]
           /\ UNCHANGED jobs => \A b \in AttemptIds : b # a => jobs'[b] = jobs[b]
BY DEF TInv, WorldOK, Created, Deleted

\* No Job, no claim.
LEMMA NothingOwned == ASSUME NEW d, NEW js, NoJobs(js) PROVE Owned(d, js)
BY DEF NoJobs, Owned

LEMMA NotUnfinishedNoJobs ==
    ASSUME Owned(disk, jobs), disk # NoRecord => ~Unfinished(disk)
    PROVE  NoJobs(jobs)
BY DEF Owned, NoJobs

\* The records that edits of an unfinished record leave.
LEMMA StillUnfinished ==
    ASSUME NEW r \in Record, WellFormed(r), HasActive(r)
    PROVE  /\ \A phase \in {"succeeded", "failed"} :
                 LET q == QueueCleanup(r, ActiveAttempt(r), phase)
                 IN  q \in Record /\ WellFormed(q) /\ Unfinished(q) /\ LastId(q) = LastId(r)
           /\ LET q == CancelActive(r, ActiveAttempt(r))
              IN  q \in Record /\ WellFormed(q) /\ Unfinished(q) /\ LastId(q) = LastId(r)
           /\ \A phase \in PendingPhases :
                 LET q == Observed(r, ActiveAttempt(r), phase)
                 IN  /\ q \in Record /\ WellFormed(q) /\ HasActive(q)
                     /\ Unfinished(q) /\ LastId(q) = LastId(r)
                     /\ ActiveAttempt(q) = ActiveAttempt(r)
           /\ LET q == [r EXCEPT !.state = "admission_pending"]
              IN  q \in Record /\ WellFormed(q) /\ Unfinished(q) /\ LastId(q) = LastId(r)
<1>1. r.attempts # <<>>
  BY OnlyLastUnsettled
<1>2. ASSUME NEW q \in Record, EditsLast(r, q)
      PROVE  q.attempts # <<>> /\ LastId(q) = LastId(r)
  BY <1>1, <1>2, EditsLastKeeps
<1>3. ASSUME NEW phase \in {"succeeded", "failed"}
      PROVE  LET q == QueueCleanup(r, ActiveAttempt(r), phase)
             IN  q \in Record /\ WellFormed(q) /\ Unfinished(q) /\ LastId(q) = LastId(r)
  <2> DEFINE q == QueueCleanup(r, ActiveAttempt(r), phase)
  <2>1. /\ q \in Record
        /\ WellFormed(q)
        /\ EditsLast(r, q)
        /\ LastAttempt(q).cleanup_pending
    BY <1>3, QueueCleanupWellFormed
  <2> HIDE DEF q
  <2>2. q \in Record /\ WellFormed(q) /\ Unfinished(q) /\ LastId(q) = LastId(r)
    BY <1>2, <2>1 DEF Unfinished
  <2>3. QED
    BY <2>2 DEF q
<1>4. LET q == CancelActive(r, ActiveAttempt(r))
      IN  q \in Record /\ WellFormed(q) /\ Unfinished(q) /\ LastId(q) = LastId(r)
  <2> DEFINE q == CancelActive(r, ActiveAttempt(r))
  <2>1. /\ q \in Record
        /\ WellFormed(q)
        /\ EditsLast(r, q)
        /\ LastAttempt(q).cleanup_pending
    BY CancelActiveWellFormed
  <2> HIDE DEF q
  <2>2. q \in Record /\ WellFormed(q) /\ Unfinished(q) /\ LastId(q) = LastId(r)
    BY <1>2, <2>1 DEF Unfinished
  <2>3. QED
    BY <2>2 DEF q
<1>5. ASSUME NEW phase \in PendingPhases
      PROVE  LET q == Observed(r, ActiveAttempt(r), phase)
             IN  /\ q \in Record /\ WellFormed(q) /\ HasActive(q)
                 /\ Unfinished(q) /\ LastId(q) = LastId(r)
                 /\ ActiveAttempt(q) = ActiveAttempt(r)
  <2> DEFINE q == Observed(r, ActiveAttempt(r), phase)
  <2>1. /\ q \in Record
        /\ WellFormed(q)
        /\ EditsLast(r, q)
        /\ HasActive(q)
        /\ ActiveAttempt(q) = ActiveAttempt(r)
    BY <1>5, ObservedWellFormed
  <2> HIDE DEF q
  <2>2. Unfinished(q) /\ LastId(q) = LastId(r)
    BY <1>2, <2>1, UnfinishedWhen
  <2>3. QED
    BY <2>1, <2>2 DEF q
<1>6. LET q == [r EXCEPT !.state = "admission_pending"]
      IN  q \in Record /\ WellFormed(q) /\ Unfinished(q) /\ LastId(q) = LastId(r)
  <2> DEFINE q == [r EXCEPT !.state = "admission_pending"]
  <2>1. /\ q \in Record
        /\ WellFormed(q)
        /\ EditsLast(r, q)
        /\ q.attempts = r.attempts
    BY RecreatedWellFormed
  <2> HIDE DEF q
  <2>2. HasActive(q)
    BY <2>1 DEF HasActive, OpenAttempts
  <2>3. Unfinished(q) /\ LastId(q) = LastId(r)
    BY <1>2, <2>1, <2>2, UnfinishedWhen
  <2>4. QED
    BY <2>1, <2>3 DEF q
<1>7. QED
  BY <1>3, <1>4, <1>5, <1>6

\* What a thread inside a call knows.
LEMMA Inside ==
    ASSUME CInv, NEW t \in Threads, Busy(t)
    PROVE  /\ rec[t] \in Record /\ WellFormed(rec[t])
           /\ disk \in Record /\ WellFormed(disk) /\ disk # NoRecord
           /\ Follows(pc[t], rec[t], disk, jobs)
           /\ pc[t] \in {"start", "create"} => HasActive(rec[t])
           /\ pc[t] \in {"recreate", "observe", "promote"} => HasActive(rec[t])
           /\ pc[t] \in {"queue_cleanup", "delete", "confirm", "pods"} =>
                 HasCleanup(rec[t])
           /\ (HasActive(rec[t]) \/ HasCleanup(rec[t])) =>
                 Unfinished(rec[t]) /\ HoldsCapacity(rec[t])
           /\ Unfinished(rec[t]) => LastId(rec[t]) \in AttemptIds
<1>1. rec[t] \in Record /\ WellFormed(rec[t])
  BY DEF CInv, TInv, ThreadsOK, Fits, Busy
<1>2. disk \in Record /\ WellFormed(disk) /\ disk # NoRecord
  BY DEF CInv, TInv, DiskOK, Alone
<1>3. Follows(pc[t], rec[t], disk, jobs)
  BY DEF CInv, AllFollow
<1>4. /\ pc[t] \in {"recreate", "observe", "promote"} => HasActive(rec[t])
      /\ pc[t] \in {"queue_cleanup", "delete", "confirm", "pods"} => HasCleanup(rec[t])
  BY DEF CInv, TInv, ThreadsOK, Fits
<1>5. pc[t] \in {"start", "create"} => HasActive(rec[t])
  BY <1>1, OnlyLastUnsettled DEF CInv, TInv, ThreadsOK, Fits
<1>6. (HasActive(rec[t]) \/ HasCleanup(rec[t])) => Unfinished(rec[t]) /\ HoldsCapacity(rec[t])
  BY <1>1, UnfinishedWhen
<1>7. Unfinished(rec[t]) => LastId(rec[t]) \in AttemptIds
  BY <1>1, LastIdType DEF Unfinished
<1>8. QED
  BY <1>1, <1>2, <1>3, <1>4, <1>5, <1>6, <1>7

\* A step that goes on from one label to another.
LEMMA GoesOn ==
    ASSUME CInv, NEW t \in Threads, Busy(t), disk' # NoRecord,
           NEW r, NEW label \in PC \ {"begin", "idle"},
           Goto(t, r, label), Follows(label, r, disk', jobs'), Owned(disk', jobs')
    PROVE  Alone' /\ AllFollow' /\ Owned(disk', jobs')
BY GotoAlone DEF CInv

LEMMA Returns ==
    ASSUME CInv, NEW t \in Threads, Busy(t), Return(t), Owned(disk', jobs')
    PROVE  Alone' /\ AllFollow' /\ Owned(disk', jobs')
BY ReturnAlone DEF CInv

LEMMA Enters ==
    ASSUME CInv, ~Overlap, NEW t \in Workers, disk # NoRecord, UNCHANGED <<disk, jobs>>,
           NEW r, NEW label \in PC \ {"begin", "idle"},
           Enter(t, r, label), Follows(label, r, disk, jobs)
    PROVE  Alone' /\ AllFollow' /\ Owned(disk', jobs')
BY EnterAlone DEF CInv

\* The steps that start an attempt.
LEMMA StartSteps ==
    ASSUME CInv, NEW t \in Threads,
           SaveStarted(t) \/ CreateJob(t) \/ CreateUncertain(t) \/ RecreateJob(t)
    PROVE  Alone' /\ AllFollow' /\ Owned(disk', jobs')
<1>1. Busy(t)
  BY DEF Saved, SaveStarted, CreateJob, CreateUncertain, RecreateJob, At, Busy
<1> DEFINE a == LastId(rec[t])
<1>2. /\ rec[t] \in Record /\ WellFormed(rec[t]) /\ rec[t] # NoRecord
      /\ HasActive(rec[t]) /\ Unfinished(rec[t]) /\ HoldsCapacity(rec[t])
      /\ a \in AttemptIds
      /\ disk # NoRecord
      /\ Follows(pc[t], rec[t], disk, jobs)
  BY <1>1, Inside, NoRecordAssumption
     DEF Saved, SaveStarted, CreateJob, CreateUncertain, RecreateJob, At
<1>3. TInv /\ Owned(disk, jobs)
  BY DEF CInv
<1>4. CASE SaveStarted(t)
  <2>1. NoJobs(jobs) /\ disk' = rec[t] /\ jobs' = jobs
    BY <1>2, <1>4 DEF Saved, SaveStarted, At, Follows
  <2>2. Owned(disk', jobs')
    BY <2>1, NothingOwned
  <2>3. Follows("create", rec[t], disk', jobs')
    BY <2>1 DEF Follows
  <2>4. QED
    BY <1>1, <1>2, <1>4, <2>1, <2>2, <2>3, GoesOn DEF Saved, SaveStarted, PC
<1>5. CASE CreateJob(t) \/ CreateUncertain(t)
  <2>1. disk = rec[t] /\ disk' = disk /\ (Created(a) \/ UNCHANGED jobs)
    BY <1>2, <1>5 DEF CreateJob, CreateUncertain, At, Follows
  <2>2. Owned(disk', jobs')
    <3>1. \A b \in AttemptIds : b # a => jobs'[b] = jobs[b]
      BY <1>2, <1>3, <2>1, OneJob
    <3>2. QED
      BY <1>2, <1>3, <2>1, <3>1, OwnedJobs
  <2>3. Follows("save", rec[t], disk', jobs')
    BY <1>2, <2>1 DEF Follows
  <2>4. Goto(t, rec[t], "save") \/ Return(t)
    BY <1>5 DEF CreateJob, CreateUncertain
  <2>5. QED
    BY <1>1, <1>2, <2>1, <2>2, <2>3, <2>4, GoesOn, Returns DEF PC
<1>6. CASE RecreateJob(t)
  <2> DEFINE q == [rec[t] EXCEPT !.state = "admission_pending"]
  <2>1. disk = rec[t] /\ disk' = disk /\ (Created(a) \/ UNCHANGED jobs)
    BY <1>2, <1>6 DEF RecreateJob, At, Follows
  <2>2. Owned(disk', jobs')
    <3>1. \A b \in AttemptIds : b # a => jobs'[b] = jobs[b]
      BY <1>2, <1>3, <2>1, OneJob
    <3>2. QED
      BY <1>2, <1>3, <2>1, <3>1, OwnedJobs
  <2>3. Unfinished(q) /\ LastId(q) = LastId(rec[t])
    BY <1>2, StillUnfinished
  <2>4. Goto(t, q, "save")
    BY <1>6 DEF RecreateJob
  <2> HIDE DEF q
  <2>5. disk.state # "canceled"
    BY <1>2, <2>1, OnlyLastUnsettled, NotTerminalNotCanceled
  <2>6. Follows("save", q, disk', jobs')
    BY <1>2, <2>1, <2>3, <2>5 DEF Follows
  <2>7. QED
    BY <1>1, <1>2, <2>1, <2>2, <2>4, <2>6, GoesOn DEF PC
<1>7. QED
  BY <1>4, <1>5, <1>6

\* The steps between the observation of the Job and the first save after it.
LEMMA ObserveSteps ==
    ASSUME CInv, NEW t \in Threads,
           ObserveError(t) \/ Observe(t) \/ Promote(t) \/ PromoteFailed(t)
    PROVE  Alone' /\ AllFollow' /\ Owned(disk', jobs')
<1> USE DEF Observe
<1>1. Busy(t) /\ pc[t] \in {"observe", "promote"}
  BY DEF ObserveError, ObserveMissing, ObserveSuspended, ObserveAdmitted,
         ObserveFailed, ObserveSucceeded, Promote, PromoteFailed, At, Busy
<1>2. disk' = disk /\ jobs' = jobs
  BY DEF ObserveError, ObserveMissing, ObserveSuspended, ObserveAdmitted,
         ObserveFailed, ObserveSucceeded, Promote, PromoteFailed
<1>3. /\ rec[t] \in Record /\ WellFormed(rec[t]) /\ HasActive(rec[t])
      /\ Unfinished(rec[t]) /\ HoldsCapacity(rec[t])
      /\ disk # NoRecord
      /\ disk = rec[t]
  BY <1>1, Inside DEF Follows
<1>4. Owned(disk', jobs')
  BY <1>2 DEF CInv
<1> DEFINE Seen(phase) == Observed(rec[t], Active(t), phase)
           SameLast(q) == Unfinished(q) /\ LastId(q) = LastId(rec[t])
<1>5. \A phase \in PendingPhases : SameLast(Seen(phase))
  BY <1>3, StillUnfinished DEF Active
<1>6. \A phase \in {"succeeded", "failed"} :
          SameLast(QueueCleanup(rec[t], Active(t), phase))
  BY <1>3, StillUnfinished DEF Active
<1>7. SameLast(QueueCleanup(Seen("admission_pending"), Active(t), "failed"))
  <2> DEFINE q == Seen("admission_pending")
  <2>1. /\ q \in Record /\ WellFormed(q) /\ HasActive(q)
        /\ LastId(q) = LastId(rec[t])
        /\ ActiveAttempt(q) = Active(t)
    BY <1>3, StillUnfinished DEF Active, PendingPhases
  <2> HIDE DEF q
  <2>2. SameLast(QueueCleanup(q, Active(t), "failed"))
    BY <2>1, StillUnfinished
  <2>3. QED
    BY <2>2 DEF q
<1>8. SameLast(rec[t])
  BY <1>3
<1>9. ASSUME NEW q, SameLast(q), NEW label \in {"save", "queue_cleanup"}
      PROVE  Follows(label, q, disk', jobs')
  <2>1. disk.state # "canceled"
    BY <1>3, OnlyLastUnsettled, NotTerminalNotCanceled
  <2>2. QED
    BY <1>2, <1>3, <1>9, <2>1 DEF Follows
<1>10. ASSUME NEW label \in {"recreate", "promote"}
       PROVE  Follows(label, rec[t], disk', jobs')
  BY <1>2, <1>3, <1>10 DEF Follows
<1> HIDE DEF Seen, SameLast
<1>11. \E q, label : /\ label \in {"save", "queue_cleanup", "recreate", "promote"}
                     /\ Follows(label, q, disk', jobs')
                     /\ Goto(t, q, label)
  <2>1. CASE ObserveError(t)
    BY <1>8, <1>9, <2>1 DEF ObserveError
  <2>2. CASE ObserveMissing(t)
    BY <1>6, <1>9, <1>10, <2>2 DEF ObserveMissing
  <2>3. CASE ObserveSuspended(t)
    BY <1>5, <1>7, <1>9, <2>3 DEF ObserveSuspended, Seen, PendingPhases
  <2>4. CASE ObserveAdmitted(t)
    BY <1>5, <1>9, <2>4 DEF ObserveAdmitted, Seen, PendingPhases
  <2>5. CASE ObserveFailed(t)
    BY <1>6, <1>9, <2>5 DEF ObserveFailed
  <2>6. CASE ObserveSucceeded(t)
    BY <1>10, <2>6 DEF ObserveSucceeded
  <2>7. CASE Promote(t) \/ PromoteFailed(t)
    BY <1>6, <1>9, <2>7 DEF Promote, PromoteFailed
  <2>8. QED
    BY <2>1, <2>2, <2>3, <2>4, <2>5, <2>6, <2>7
<1>12. {"save", "queue_cleanup", "recreate", "promote"} \subseteq PC \ {"begin", "idle"}
  BY DEF PC
<1>13. disk' # NoRecord
  BY <1>2, <1>3
<1>14. QED
  BY <1>1, <1>4, <1>11, <1>12, <1>13, GoesOn

\* The steps of a cleanup.
LEMMA CleanupSteps ==
    ASSUME CInv, NEW t \in Threads,
           \/ SaveCleanup(t) \/ DeleteJob(t) \/ DeleteError(t)
           \/ ConfirmPending(t) \/ ConfirmJob(t) \/ ConfirmGone(t)
    PROVE  Alone' /\ AllFollow' /\ Owned(disk', jobs')
<1>1. Busy(t) /\ pc[t] \in {"queue_cleanup", "delete", "confirm", "pods"}
  BY DEF Saved, SaveCleanup, DeleteJob, DeleteError, ConfirmPending, ConfirmJob,
         ConfirmGone, At, Busy
<1> DEFINE a == LastId(rec[t])
<1>2. /\ rec[t] \in Record /\ WellFormed(rec[t]) /\ rec[t] # NoRecord
      /\ HasCleanup(rec[t]) /\ Unfinished(rec[t]) /\ HoldsCapacity(rec[t])
      /\ a \in AttemptIds
      /\ disk # NoRecord
      /\ Follows(pc[t], rec[t], disk, jobs)
  BY <1>1, Inside, NoRecordAssumption
<1>3. TInv /\ Owned(disk, jobs)
  BY DEF CInv
<1>4. CleanupId(t) = a
  BY <1>2, CleanupIdIsLast
<1>5. CASE SaveCleanup(t)
  <2>1. disk' = rec[t] /\ jobs' = jobs /\ a = LastId(disk)
    BY <1>2, <1>5 DEF Saved, SaveCleanup, At, Follows
  <2>2. Owned(disk', jobs')
    BY <1>2, <1>3, <2>1 DEF Owned
  <2>3. Follows("delete", rec[t], disk', jobs')
    BY <2>1 DEF Follows
  <2>4. QED
    BY <1>1, <1>2, <1>5, <2>1, <2>2, <2>3, GoesOn DEF Saved, SaveCleanup, PC
<1>6. CASE DeleteJob(t) \/ DeleteError(t)
  <2>1. disk = rec[t] /\ disk' = disk /\ (Deleted(a) \/ UNCHANGED jobs)
    BY <1>2, <1>4, <1>6 DEF DeleteJob, DeleteError, At, Follows
  <2>2. Owned(disk', jobs')
    <3>1. \A b \in AttemptIds : b # a => jobs'[b] = jobs[b]
      BY <1>2, <1>3, <2>1, OneJob
    <3>2. QED
      BY <1>2, <1>3, <2>1, <3>1, OwnedJobs
  <2>3. Follows("save", rec[t], disk', jobs') /\ Follows("confirm", rec[t], disk', jobs')
    BY <1>2, <2>1 DEF Follows
  <2>4. Goto(t, rec[t], "save") \/ Goto(t, rec[t], "confirm")
    BY <1>6 DEF DeleteJob, DeleteError
  <2>5. QED
    BY <1>1, <1>2, <2>1, <2>2, <2>3, <2>4, GoesOn DEF PC
<1>7. CASE ConfirmPending(t) \/ ConfirmJob(t)
  <2>1. disk = rec[t] /\ disk' = disk /\ jobs' = jobs
    BY <1>2, <1>7 DEF ConfirmPending, ConfirmJob, At, Follows
  <2>2. Owned(disk', jobs')
    BY <1>3, <2>1
  <2>3. Follows("save", rec[t], disk', jobs')
    BY <1>2, <2>1 DEF Follows
  <2>4. ConfirmJob(t) => Follows("pods", rec[t], disk', jobs')
    BY <1>4, <2>1 DEF Follows, ConfirmJob
  <2>5. Goto(t, rec[t], "save") \/ (ConfirmJob(t) /\ Goto(t, rec[t], "pods"))
    BY <1>7 DEF ConfirmPending, ConfirmJob
  <2>6. QED
    BY <1>1, <1>2, <2>1, <2>2, <2>3, <2>4, <2>5, GoesOn DEF PC
<1>8. CASE ConfirmGone(t)
  <2> DEFINE next == AfterCleanup(rec[t], CleanupAttempt(rec[t]))
  <2>1. disk = rec[t] /\ disk' = disk /\ jobs' = jobs
    BY <1>2, <1>8 DEF ConfirmGone, At, Follows
  <2>2. jobs[a] = "absent"
    BY <1>2, <1>4, <1>8 DEF ConfirmGone, At, Follows
  <2>3. NoJobs(jobs)
    BY <1>3, <2>1, <2>2 DEF Owned, NoJobs
  <2>4. Goto(t, next, IF HasActive(next) THEN "start" ELSE "save")
    BY <1>8 DEF ConfirmGone, AfterConfirm
  <2>5. /\ Terminal(rec[t]) => rec[t].state = "canceled"
        /\ rec[t].state = "canceled" => next.state = "canceled" /\ ~HasActive(next)
    BY <1>2, CancelSticks
  <2> HIDE DEF next
  <2>6. HasActive(next) => Follows("start", next, disk', jobs')
    BY <1>2, <2>1, <2>3, <2>5 DEF Follows
  <2>7. Follows("save", next, disk', jobs')
    BY <1>2, <2>1, <2>3, <2>5 DEF Follows
  <2>8. Owned(disk', jobs')
    BY <1>3, <2>1
  <2>9. QED
    BY <1>1, <1>2, <2>1, <2>4, <2>6, <2>7, <2>8, GoesOn DEF PC
<1>9. QED
  BY <1>5, <1>6, <1>7, <1>8

\* The last save of a call, the report, and a write that fails.
LEMMA LastSteps ==
    ASSUME CInv, NEW t \in Threads, Save(t) \/ WriteReport(t) \/ WriteFails(t)
    PROVE  Alone' /\ AllFollow' /\ Owned(disk', jobs')
<1>1. Busy(t)
  BY DEF Saved, Save, WriteReport, WriteFails, At, Busy
<1>2. /\ rec[t] \in Record /\ rec[t] # NoRecord
      /\ Follows(pc[t], rec[t], disk, jobs)
  BY <1>1, Inside, NoRecordAssumption
<1>3. Owned(disk, jobs)
  BY DEF CInv
<1>4. CASE Save(t)
  <2>1. disk' = rec[t] /\ jobs' = jobs
    BY <1>4 DEF Saved, Save
  <2>2. NoJobs(jobs) \/ (Unfinished(rec[t]) /\ LastId(rec[t]) = LastId(disk))
    BY <1>2, <1>4 DEF Saved, Save, At, Follows
  <2>3. Owned(disk', jobs')
    BY <1>2, <1>3, <2>1, <2>2 DEF Owned, NoJobs
  <2>4. Follows("report", rec[t], disk', jobs')
    BY <2>1 DEF Follows
  <2>5. Return(t) \/ Goto(t, rec[t], "report")
    BY <1>4 DEF Saved, Save
  <2>6. QED
    BY <1>1, <1>2, <2>1, <2>3, <2>4, <2>5, GoesOn, Returns DEF PC
<1>5. CASE WriteReport(t) \/ WriteFails(t)
  <2>1. disk' = disk /\ jobs' = jobs /\ Return(t)
    BY <1>5 DEF WriteReport, WriteFails
  <2>2. QED
    BY <1>1, <1>3, <2>1, Returns
<1>6. QED
  BY <1>4, <1>5

\* Entering reconcile or cancel.
LEMMA EntrySteps ==
    ASSUME CInv, ~Overlap, NEW t \in Workers, Reconcile(t) \/ Cancel(t)
    PROVE  Alone' /\ AllFollow' /\ Owned(disk', jobs')
<1>1. /\ disk \in Record /\ WellFormed(disk) /\ disk # NoRecord
      /\ HoldsCapacity(disk)
      /\ Owned(disk, jobs)
      /\ UNCHANGED <<disk, jobs>>
  BY DEF Reconcile, Cancel, CInv, TInv, DiskOK
<1>2. CASE HasCleanup(disk)
  <2>1. Follows("delete", disk, disk, jobs)
    BY DEF Follows
  <2>2. Enter(t, disk, "delete")
    BY <1>2 DEF Reconcile, Cancel
  <2>3. QED
    BY <1>1, <2>1, <2>2, Enters DEF PC
<1>3. CASE ~HasCleanup(disk) /\ HasActive(disk)
  <2> DEFINE q == CancelActive(disk, ActiveAttempt(disk))
  <2>1. Follows("observe", disk, disk, jobs)
    BY DEF Follows
  <2>2. LastId(q) = LastId(disk)
    BY <1>1, <1>3, StillUnfinished
  <2>3. Enter(t, disk, "observe") \/ Enter(t, q, "queue_cleanup")
    BY <1>3 DEF Reconcile, Cancel
  <2> HIDE DEF q
  <2>4. Follows("queue_cleanup", q, disk, jobs)
    BY <1>3, <2>2 DEF Follows
  <2>5. QED
    BY <1>1, <2>1, <2>3, <2>4, Enters DEF PC
<1>4. CASE ~HasCleanup(disk) /\ ~HasActive(disk)
  <2> DEFINE q == Advance(disk)
             k == CancelIdle(disk)
  <2>1. disk.attempts = <<>> /\ ~Terminal(disk) /\ disk.state # "canceled"
    BY <1>1, <1>4, NotStarted, NotTerminalNotCanceled
  <2>2. NoJobs(jobs)
    BY <1>1, <2>1, NotUnfinishedNoJobs DEF Unfinished
  <2>3. Enter(t, q, "start") \/ Enter(t, k, "save")
    BY <1>4 DEF Reconcile, Cancel
  <2> HIDE DEF q, k
  <2>4. Follows("start", q, disk, jobs) /\ Follows("save", k, disk, jobs)
    BY <1>1, <2>1, <2>2 DEF Follows
  <2>5. QED
    BY <1>1, <2>3, <2>4, Enters DEF PC
<1>5. QED
  BY <1>2, <1>3, <1>4

\* submit saves a run with no Job to its name.
LEMMA SubmitStep ==
    ASSUME CInv, Submit
    PROVE  Alone' /\ AllFollow' /\ Owned(disk', jobs')
<1> DEFINE r == StartAttempt(NewRecord, 1, 1)
<1>1. pc[Submitter] = "begin" /\ Submitter \in Threads
  BY DEF Saved, Submit, At, Threads
<1>2. disk = NoRecord /\ disk' = NewRecord /\ jobs' = jobs
  BY <1>1 DEF Saved, Submit, CInv, Alone
<1>3. \A t \in Threads : ~Busy(t)
  BY <1>2 DEF CInv, Alone
<1>4. NoJobs(jobs)
  BY <1>2, NotUnfinishedNoJobs DEF CInv
<1>5. Goto(Submitter, r, "start")
  BY DEF Saved, Submit
<1> HIDE DEF r
<1>6. pc \in [Threads -> PC] /\ rec \in [Threads -> Record \cup {NoRecord}]
  BY DEF CInv, TInv, ThreadsOK
<1>7. /\ pc'[Submitter] = "start"
      /\ \A t \in Threads : t # Submitter => pc'[t] = pc[t]
  BY <1>1, <1>5, <1>6 DEF Goto
<1>8. disk' # NoRecord
  BY <1>2, NewRecordWellFormed, NoRecordAssumption
<1>9. \A t \in Workers : t \in Threads /\ t # Submitter
  BY ThreadsAssumption DEF Threads
<1>10. Alone'
  BY <1>3, <1>7, <1>8, <1>9 DEF Busy, Alone, CInv
<1>11. Follows("start", rec'[Submitter], disk', jobs')
  BY <1>2, <1>4, NewRecordWellFormed DEF Follows, Terminal, TERMINAL_STATES, NewRecord
<1>12. \A t \in Threads : Follows(pc'[t], rec'[t], disk', jobs')
  <2>1. \A t \in Threads : t # Submitter => pc'[t] \in {"begin", "idle"}
    BY <1>3, <1>7 DEF Busy
  <2>2. QED
    BY <1>7, <1>11, <2>1 DEF Follows
<1>13. QED
  BY <1>2, <1>4, <1>10, <1>12, NothingOwned DEF AllFollow

\* The cluster never makes a Job, and a Job that is gone does not come back.
LEMMA ClusterSteps ==
    ASSUME CInv, NEW a \in AttemptIds, Cluster(a)
    PROVE  Alone' /\ AllFollow' /\ Owned(disk', jobs')
<1>1. PICK from : \E to : /\ JobMoves(a, from, to)
                          /\ "absent" \notin from
                          /\ "draining" \in from => to = "absent"
  <2>1. CASE Admit(a) \/ StartPods(a) \/ PodsGone(a)
    BY <2>1 DEF Admit, StartPods, PodsGone
  <2>2. CASE EndJob(a) \/ JobGone(a)
    BY <2>2 DEF EndJob, JobGone
  <2>3. CASE Evict(a) \/ OutsideDelete(a)
    BY <2>3 DEF Evict, OutsideDelete
  <2>4. QED
    BY <2>1, <2>2, <2>3 DEF Cluster
<1>2. /\ UNCHANGED <<disk, rec, pc, lock>>
      /\ jobs \in [AttemptIds -> JobState]
  BY <1>1 DEF JobMoves, CInv, TInv, WorldOK
<1>3. \A b \in AttemptIds : /\ jobs[b] = "absent" => jobs'[b] = "absent"
                            /\ jobs[b] = "draining" =>
                                  jobs'[b] \in {"absent", "draining"}
  BY <1>1, <1>2 DEF JobMoves
<1>4. Owned(disk', jobs')
  BY <1>2, <1>3 DEF CInv, Owned
<1>5. Alone'
  BY <1>2 DEF CInv, Alone, Busy
<1>6. ASSUME NEW t \in Threads PROVE Follows(pc'[t], rec'[t], disk', jobs')
  <2>1. CASE ~Busy(t)
    BY <1>2, <2>1 DEF Busy, Follows
  <2>2. CASE Busy(t)
    <3>1. Follows(pc[t], rec[t], disk, jobs)
      BY <2>2, Inside
    <3>2. pc[t] = "pods" => LastId(rec[t]) \in AttemptIds
      BY <2>2, Inside
    <3>3. NoJobs(jobs) => NoJobs(jobs')
      BY <1>3 DEF NoJobs
    <3>4. pc[t] = "pods" => jobs'[LastId(rec[t])] \in {"absent", "draining"}
      BY <1>3, <3>1, <3>2 DEF Follows
    <3>5. QED
      BY <1>2, <3>1, <3>3, <3>4 DEF Follows
  <2>3. QED
    BY <2>1, <2>2
<1>7. QED
  BY <1>4, <1>5, <1>6 DEF AllFollow

\* A restart, a report, a deadline, and a step of nobody.
LEMMA OtherSteps ==
    ASSUME CInv, Restart \/ DeadlinePasses \/ GetReport \/ UNCHANGED vars
    PROVE  Alone' /\ AllFollow' /\ Owned(disk', jobs')
<1>1. disk' = disk /\ jobs' = jobs /\ Owned(disk', jobs')
  BY DEF Restart, DeadlinePasses, GetReport, vars, CInv
<1>2. CASE Restart
  <2>1. \A t \in Threads : pc'[t] = IF pc[t] = "begin" THEN "begin" ELSE "idle"
    BY <1>2 DEF Restart, At
  <2>2. \A t \in Workers : t \in Threads
    BY DEF Threads
  <2>3. Submitter \in Threads
    BY DEF Threads
  <2>4. Alone'
    BY <1>1, <2>1, <2>2, <2>3 DEF CInv, Alone, Busy
  <2>5. AllFollow'
    BY <2>1 DEF AllFollow, Follows
  <2>6. QED
    BY <1>1, <2>4, <2>5
<1>3. CASE DeadlinePasses \/ GetReport \/ UNCHANGED vars
  <2>1. UNCHANGED <<disk, rec, pc, lock, jobs>>
    BY <1>3 DEF DeadlinePasses, GetReport, vars
  <2>2. Alone'
    BY <2>1 DEF CInv, Alone, Busy
  <2>3. AllFollow'
    BY <2>1 DEF CInv, AllFollow
  <2>4. QED
    BY <1>1, <2>2, <2>3
<1>4. QED
  BY <1>2, <1>3

LEMMA CInvStep == ~Overlap /\ CInv /\ [Next]_vars => CInv'
<1> SUFFICES ASSUME ~Overlap, CInv, [Next]_vars PROVE CInv'
  OBVIOUS
<1>1. TInv'
  BY TInvStep DEF CInv
<1> DEFINE Goal == Alone' /\ AllFollow' /\ Owned(disk', jobs')
<1>2. ASSUME NEW t \in Threads, Continue(t) PROVE Goal
  BY <1>2, StartSteps, ObserveSteps, CleanupSteps, LastSteps DEF Continue
<1>3. ASSUME NEW t \in Workers, Reconcile(t) \/ Cancel(t) PROVE Goal
  BY <1>3, EntrySteps
<1>4. ASSUME NEW t \in Workers, AlreadyOver(t) PROVE Goal
  BY <1>4, OtherSteps DEF AlreadyOver
<1>5. ASSUME NEW t \in Threads, WriteFails(t) PROVE Goal
  BY <1>5, LastSteps
<1>6. ASSUME NEW a \in AttemptIds, Cluster(a) PROVE Goal
  BY <1>6, ClusterSteps
<1>7. Reconcilers \subseteq Workers /\ Cancelers \subseteq Workers
  BY DEF Workers
<1>8. Goal
  BY <1>2, <1>3, <1>4, <1>5, <1>6, <1>7, SubmitStep, OtherSteps DEF Next
<1>9. QED
  BY <1>1, <1>8 DEF CInv

\* Whatever exists in the cluster for a run belongs to the last attempt of its
\* record, which is active or still to be cleaned up, provided no call enters
\* while submit() is running.
THEOREM JobsAreOwned == ~Overlap => (Spec => []JobsOwned)
<1>1. CInv => JobsOwned
  BY OwnedIsJobsOwned DEF CInv
<1>2. ASSUME ~Overlap PROVE Spec => []JobsOwned
  BY <1>1, <1>2, CInvInit, CInvStep, PTL DEF Spec
<1>3. QED
  BY <1>2

\* A save happens only while the run still holds capacity.
LEMMA SavesWhileHeld ==
    ASSUME CInv, [Next]_vars, disk # NoRecord, ~HoldsCapacity(disk)
    PROVE  disk' = disk
<1>1. ASSUME NEW t \in Threads, Busy(t), pc[t] \in {"start", "queue_cleanup", "save"}
      PROVE  FALSE
  <2>1. Follows(pc[t], rec[t], disk, jobs) /\ disk \in Record /\ WellFormed(disk)
    BY <1>1, Inside
  <2>2. HoldsCapacity(disk)
    BY <1>1, <2>1, UnfinishedWhen DEF Follows
  <2>3. QED
    BY <2>2
<1>2. ~Submit
  BY DEF Saved, Submit, At, CInv, Alone
<1>3. ASSUME NEW t \in Threads PROVE ~SaveStarted(t) /\ ~SaveCleanup(t) /\ ~Save(t)
  BY <1>1 DEF Saved, SaveStarted, SaveCleanup, Save, At, Busy
<1>4. ASSUME NEW t \in Threads, Continue(t) PROVE disk' = disk
  BY <1>3, <1>4
     DEF Continue, CreateJob, CreateUncertain, RecreateJob, ObserveError, Observe,
         ObserveMissing, ObserveSuspended, ObserveAdmitted, ObserveFailed,
         ObserveSucceeded, Promote, PromoteFailed, DeleteJob, DeleteError,
         ConfirmPending, ConfirmJob, ConfirmGone, WriteReport
<1>5. ASSUME NEW a \in AttemptIds, Cluster(a) PROVE disk' = disk
  BY <1>5 DEF Cluster, Admit, StartPods, EndJob, JobGone, PodsGone, Evict,
              OutsideDelete, JobMoves
<1>6. QED
  BY <1>2, <1>4, <1>5
     DEF Next, Reconcile, Cancel, AlreadyOver, WriteFails, Restart,
         GetReport, DeadlinePasses, vars

\* A run that is over and clean never changes again, provided no call enters
\* while submit() is running.
THEOREM TerminalStaysFinal == ~Overlap => (Spec => TerminalIsFinal)
<1>1. CInv /\ [Next]_vars =>
          [disk # NoRecord /\ ~HoldsCapacity(disk) => disk' = disk]_vars
  BY SavesWhileHeld
<1>2. ASSUME ~Overlap PROVE Spec => TerminalIsFinal
  BY <1>1, <1>2, CInvInit, CInvStep, PTL DEF Spec, TerminalIsFinal
<1>3. QED
  BY <1>2

\* The service creates the Job of the active attempt on disk, and deletes the
\* Job of the attempt on disk whose cleanup is pending.
LEMMA JobsAfterRecord ==
    ASSUME CInv, [Next]_vars, NEW a \in AttemptIds, jobs'[a] # jobs[a]
    PROVE  /\ jobs[a] \in {"absent", "draining"} /\ jobs'[a] = "suspended" =>
                 \E i \in OpenAttempts(disk) : Id(disk.attempts[i]) = a
           /\ jobs'[a] = "deleting" =>
                 \E i \in CleanupAttempts(disk) : Id(disk.attempts[i]) = a
<1> DEFINE Goal == /\ jobs[a] \in {"absent", "draining"} /\ jobs'[a] = "suspended" =>
                         \E i \in OpenAttempts(disk) : Id(disk.attempts[i]) = a
                   /\ jobs'[a] = "deleting" =>
                         \E i \in CleanupAttempts(disk) : Id(disk.attempts[i]) = a
<1>1. jobs \in [AttemptIds -> JobState] /\ TInv
  BY DEF CInv, TInv, WorldOK
<1>2. ASSUME NEW t \in Threads, CreateJob(t) \/ CreateUncertain(t) \/ RecreateJob(t)
      PROVE  Goal
  <2>1. Busy(t) /\ pc[t] \in {"create", "recreate"}
    BY <1>2 DEF CreateJob, CreateUncertain, RecreateJob, At, Busy
  <2>2. disk = rec[t] /\ HasActive(disk) /\ disk \in Record /\ WellFormed(disk)
        /\ LastId(disk) \in AttemptIds
    BY <2>1, Inside DEF Follows
  <2>3. Created(LastId(disk))
    BY <1>2, <2>2 DEF CreateJob, CreateUncertain, RecreateJob
  <2>4. a = LastId(disk) /\ jobs'[a] = "suspended"
    BY <1>1, <2>2, <2>3 DEF Created
  <2>5. \E i \in OpenAttempts(disk) : Id(disk.attempts[i]) = a
    <3>1. PICK i : i \in OpenAttempts(disk)
      BY <2>2 DEF HasActive
    <3>2. i = Len(disk.attempts)
      BY <2>2, <3>1, OnlyLastUnsettled
    <3>3. QED
      BY <2>4, <3>1, <3>2 DEF LastId, LastAttempt
  <2>6. QED
    BY <2>4, <2>5
<1>3. ASSUME NEW t \in Threads, DeleteJob(t) \/ DeleteError(t) PROVE Goal
  <2>1. Busy(t) /\ pc[t] = "delete"
    BY <1>3 DEF DeleteJob, DeleteError, At, Busy
  <2>2. disk = rec[t] /\ HasCleanup(disk) /\ disk \in Record /\ WellFormed(disk)
    BY <2>1, Inside DEF Follows
  <2>3. CleanupId(t) = LastId(disk)
    BY <2>2, CleanupIdIsLast
  <2>4. Deleted(LastId(disk))
    BY <1>3, <2>3 DEF DeleteJob, DeleteError
  <2>5. a = LastId(disk) /\ jobs'[a] = "deleting"
    BY <1>1, <2>4 DEF Deleted
  <2>6. \E i \in CleanupAttempts(disk) : Id(disk.attempts[i]) = a
    <3>1. PICK i : i \in CleanupAttempts(disk)
      BY <2>2 DEF HasCleanup
    <3>2. i = Len(disk.attempts)
      BY <2>2, <3>1, OnlyLastUnsettled
    <3>3. QED
      BY <2>5, <3>1, <3>2 DEF LastId, LastAttempt
  <2>7. QED
    BY <2>5, <2>6
<1>4. ASSUME NEW b \in AttemptIds, Cluster(b) PROVE Goal
  <2>1. \E from, to : /\ JobMoves(b, from, to)
                      /\ to # "deleting"
                      /\ to = "suspended" => from = {"pending", "running"}
    BY <1>4 DEF Cluster, Admit, StartPods, EndJob, JobGone, PodsGone, Evict,
                OutsideDelete
  <2>2. QED
    BY <1>1, <2>1 DEF JobMoves
<1>5. ASSUME NEW t \in Threads, Continue(t) PROVE Goal
  BY <1>2, <1>3, <1>5
     DEF Saved, Continue, SaveStarted, ObserveError, Observe, ObserveMissing,
         ObserveSuspended, ObserveAdmitted, ObserveFailed, ObserveSucceeded,
         Promote, PromoteFailed, SaveCleanup, ConfirmPending, ConfirmJob,
         ConfirmGone, Save, WriteReport
<1>6. QED
  BY <1>4, <1>5
     DEF Saved, Next, Submit, Reconcile, Cancel, AlreadyOver, WriteFails, Restart,
         GetReport, DeadlinePasses, vars

\* Saves come before the creation and before the deletion of a Job, provided no
\* call enters while submit() is running.
THEOREM RecordComesFirst == ~Overlap => (Spec => JobsFollowRecord)
<1>1. CInv /\ [Next]_vars =>
        [\A a \in AttemptIds : jobs'[a] # jobs[a] =>
            /\ jobs[a] \in {"absent", "draining"} /\ jobs'[a] = "suspended" =>
                  \E i \in OpenAttempts(disk) : Id(disk.attempts[i]) = a
            /\ jobs'[a] = "deleting" =>
                  \E i \in CleanupAttempts(disk) : Id(disk.attempts[i]) = a]_vars
  BY JobsAfterRecord
<1>2. ASSUME ~Overlap PROVE Spec => JobsFollowRecord
  BY <1>1, <1>2, CInvInit, CInvStep, PTL DEF Spec, JobsFollowRecord
<1>3. QED
  BY <1>2

-----------------------------------------------------------------------------
(* RunController implements RunLifecycle *)

\* The mapping, as functions of the disk and of the cluster
StatusOf(d) ==
    IF d = NoRecord THEN "none"
    ELSE IF ~HoldsCapacity(d) THEN "over"
    ELSE IF Terminal(d) THEN "canceling"
    ELSE "active"
OutcomeOf(d) == IF d # NoRecord /\ Terminal(d) THEN d.state ELSE "none"

LEMMA Mapping ==
    /\ Status = StatusOf(disk)
    /\ Outcome = OutcomeOf(disk)
    /\ Live <=> ~NoJobs(jobs)
    /\ Live \in BOOLEAN
BY DEF Status, StatusOf, Outcome, OutcomeOf, Live, NoJobs

LEMMA PromiseInit == Init => Promise!Init
<1> SUFFICES ASSUME Init PROVE Promise!Init
  OBVIOUS
<1>1. disk = NoRecord /\ \A a \in AttemptIds : jobs[a] = "absent"
  BY DEF Init
<1>2. Status = "none" /\ Outcome = "none"
  BY <1>1 DEF Status, Outcome
<1>3. Live = FALSE
  BY <1>1 DEF Live
<1>4. QED
  BY <1>2, <1>3 DEF Promise!Init

\* The records a run with capacity can be replaced by
LEMMA StatusFacts ==
    ASSUME NEW d \in Record, WellFormed(d)
    PROVE  /\ StatusOf(d) \in {"active", "canceling", "over"}
           /\ StatusOf(d) = "active" <=> ~Terminal(d)
           /\ StatusOf(d) = "active" => OutcomeOf(d) = "none"
           /\ StatusOf(d) = "canceling" =>
                 d.state = "canceled" /\ OutcomeOf(d) = "canceled"
           /\ StatusOf(d) = "over" =>
                 OutcomeOf(d) = d.state /\ ~Unfinished(d)
                 /\ OutcomeOf(d) \in {"completed", "partial", "failed", "canceled"}
<1>1. d # NoRecord
  BY NoRecordAssumption
<1>2. Terminal(d) /\ HoldsCapacity(d) => d.state = "canceled"
  BY CancelSticks DEF HoldsCapacity
<1>3. ~HoldsCapacity(d) => ~Unfinished(d) /\ Terminal(d)
  BY UnfinishedWhen DEF HoldsCapacity
<1>4. Terminal(d) => d.state \in {"completed", "partial", "failed", "canceled"}
  BY DEF Terminal, TERMINAL_STATES
<1>5. ~Terminal(d) => HoldsCapacity(d)
  BY DEF HoldsCapacity
<1>6. QED
  BY <1>1, <1>2, <1>3, <1>4, <1>5 DEF StatusOf, OutcomeOf

\* A save moves the run along its life.
LEMMA SavePromise ==
    ASSUME CInv, NEW t \in Threads, Busy(t),
           pc[t] \in {"start", "queue_cleanup", "save"},
           disk' = rec[t], jobs' = jobs, Owned(disk', jobs')
    PROVE  [Promise!Next]_Promise!promise
<1> DEFINE d == disk
           r == rec[t]
<1>1. /\ r \in Record /\ WellFormed(r)
      /\ d \in Record /\ WellFormed(d) /\ d # NoRecord
      /\ Follows(pc[t], r, d, jobs)
      /\ r # NoRecord
  BY Inside, NoRecordAssumption
<1>2. HoldsCapacity(d)
  BY <1>1, UnfinishedWhen DEF Follows
<1>3. d.state = "canceled" => r.state = "canceled"
  BY <1>1, OnlyLastUnsettled, NotTerminalNotCanceled DEF Follows
<1>4. Live' <=> Live
  BY DEF Live
<1>5. StatusOf(d) \in {"active", "canceling"}
  BY <1>1, <1>2 DEF StatusOf
<1>6. StatusOf(r) = "over" => ~Live
  BY <1>1, <1>4, StatusFacts DEF Owned, Live
<1>7. /\ Status = StatusOf(d) /\ Status' = StatusOf(r)
      /\ Outcome = OutcomeOf(d) /\ Outcome' = OutcomeOf(r)
  BY DEF Status, StatusOf, Outcome, OutcomeOf
<1>8. Live' = Live
  BY <1>4 DEF Live
<1> HIDE DEF d, r
<1>9. CASE StatusOf(d) = "active"
  <2>1. OutcomeOf(d) = "none"
    BY <1>1, <1>9, StatusFacts
  <2>2. CASE StatusOf(r) = "active"
    <3>1. OutcomeOf(r) = "none"
      BY <1>1, <2>2, StatusFacts
    <3>2. QED
      BY <1>7, <1>8, <1>9, <2>1, <2>2, <3>1 DEF Promise!promise
  <2>3. CASE StatusOf(r) = "canceling"
    <3>1. OutcomeOf(r) = "canceled"
      BY <1>1, <2>3, StatusFacts
    <3>2. Promise!Cancel
      BY <1>7, <1>8, <1>9, <2>3, <3>1 DEF Promise!Cancel
    <3>3. QED
      BY <3>2 DEF Promise!Next
  <2>4. CASE StatusOf(r) = "over"
    <3>1. OutcomeOf(r) \in {"completed", "partial", "failed", "canceled"}
      BY <1>1, <2>4, StatusFacts
    <3>2. Promise!Finish
      BY <1>6, <1>7, <1>8, <1>9, <2>4, <3>1 DEF Promise!Finish
    <3>3. QED
      BY <3>2 DEF Promise!Next
  <2>5. QED
    BY <1>1, <2>2, <2>3, <2>4, StatusFacts
<1>10. CASE StatusOf(d) = "canceling"
  <2>1. d.state = "canceled" /\ OutcomeOf(d) = "canceled"
    BY <1>1, <1>10, StatusFacts
  <2>2. r.state = "canceled" /\ Terminal(r)
    BY <1>3, <2>1 DEF Terminal, TERMINAL_STATES
  <2>3. OutcomeOf(r) = "canceled"
    BY <1>1, <2>2 DEF OutcomeOf
  <2>4. CASE StatusOf(r) = "canceling"
    BY <1>7, <1>8, <1>10, <2>1, <2>3, <2>4 DEF Promise!promise
  <2>5. CASE StatusOf(r) = "over"
    <3>1. Promise!Close
      BY <1>6, <1>7, <1>8, <1>10, <2>1, <2>3, <2>5 DEF Promise!Close
    <3>2. QED
      BY <3>1 DEF Promise!Next
  <2>6. QED
    BY <1>1, <2>2, <2>4, <2>5, StatusFacts
<1>11. QED
  BY <1>5, <1>9, <1>10

\* A call to the cluster starts or stops the run's Job.
LEMMA JobPromise ==
    ASSUME CInv, disk # NoRecord, disk' = disk, Owned(disk', jobs'),
           NoJobs(jobs) /\ ~NoJobs(jobs') => ~Terminal(disk)
    PROVE  [Promise!Next]_Promise!promise
<1>1. disk \in Record /\ WellFormed(disk)
  BY DEF CInv, TInv, DiskOK
<1>2. Owned(disk, jobs)
  BY DEF CInv
<1>3. Status' = Status /\ Outcome' = Outcome
  BY DEF Status, Outcome
<1>4. Status = StatusOf(disk)
  BY Mapping
<1>5. /\ Live <=> ~NoJobs(jobs)
      /\ Live' <=> ~NoJobs(jobs')
      /\ Live \in BOOLEAN /\ Live' \in BOOLEAN
  BY DEF Live, NoJobs
<1>6. CASE Live' = Live
  BY <1>3, <1>6 DEF Promise!promise
<1>7. CASE ~Live /\ Live'
  <2>1. Status = "active"
    BY <1>1, <1>4, <1>5, <1>7, StatusFacts
  <2>2. Promise!Start
    BY <1>3, <1>5, <1>7, <2>1 DEF Promise!Start
  <2>3. QED
    BY <2>2 DEF Promise!Next
<1>8. CASE Live /\ ~Live'
  <2>1. Unfinished(disk)
    BY <1>2, <1>8 DEF Live, Owned
  <2>2. Status \in {"active", "canceling"}
    BY <1>1, <1>4, <2>1, StatusFacts
  <2>3. Promise!Stop
    BY <1>3, <1>5, <1>8, <2>2 DEF Promise!Stop
  <2>4. QED
    BY <2>3 DEF Promise!Next
<1>9. QED
  BY <1>5, <1>6, <1>7, <1>8

\* A step that touches neither the disk nor the cluster changes nothing a
\* client sees.
LEMMA NothingSeen ==
    ASSUME disk' = disk, jobs' = jobs
    PROVE  [Promise!Next]_Promise!promise
BY DEF Promise!promise, Status, Outcome, Live

\* A run with an active attempt is not over.
LEMMA ActiveNotTerminal ==
    ASSUME NEW d \in Record, WellFormed(d), HasActive(d)
    PROVE  ~Terminal(d)
<1>1. d.attempts # <<>> /\ IsOpen(LastAttempt(d))
  BY OnlyLastUnsettled
<1>2. d.state # "canceled"
  BY <1>1 DEF WellFormed, StateMatchesHistory, IsOpen, FinalPhases
<1>3. QED
  BY <1>2 DEF WellFormed, StateMatchesHistory, Terminal, TERMINAL_STATES

LEMMA SubmitPromise ==
    ASSUME CInv, Submit
    PROVE  [Promise!Next]_Promise!promise
<1>1. pc[Submitter] = "begin" /\ Submitter \in Threads
  BY DEF Submit, At, Threads
<1>2. disk = NoRecord /\ disk' = NewRecord /\ jobs' = jobs
  BY <1>1 DEF Saved, Submit, CInv, Alone
<1>3. NoJobs(jobs)
  BY <1>2, NotUnfinishedNoJobs DEF CInv
<1>4. NewRecord # NoRecord /\ ~Terminal(NewRecord)
  BY NewRecordWellFormed, NoRecordAssumption
     DEF Terminal, TERMINAL_STATES, NewRecord
<1>5. Status = "none" /\ Outcome = "none"
  BY <1>2 DEF Status, Outcome
<1>6. Status' = "active" /\ Outcome' = "none"
  BY <1>2, <1>4 DEF Status, Outcome, HoldsCapacity
<1>7. Live' = Live
  BY <1>2 DEF Live
<1>8. QED
  BY <1>5, <1>6, <1>7 DEF Promise!Next, Promise!Accept

\* What a thread does inside a call keeps the promise.
LEMMA ThreadPromise ==
    ASSUME CInv, NEW t \in Threads, Continue(t), Owned(disk', jobs')
    PROVE  [Promise!Next]_Promise!promise
<1>1. jobs \in [AttemptIds -> JobState]
  BY DEF CInv, TInv, WorldOK
<1>2. CASE SaveStarted(t) \/ SaveCleanup(t) \/ Save(t)
  <2>1. pc[t] \in {"start", "queue_cleanup", "save"} /\ Busy(t)
    BY <1>2 DEF SaveStarted, SaveCleanup, Save, At, Busy
  <2>2. disk' = rec[t] /\ jobs' = jobs
    BY <1>2 DEF SaveStarted, SaveCleanup, Save, Saved
  <2>3. QED
    BY <2>1, <2>2, SavePromise
<1>3. CASE CreateJob(t) \/ CreateUncertain(t) \/ RecreateJob(t)
  <2>1. Busy(t) /\ pc[t] \in {"create", "recreate"} /\ disk' = disk
    BY <1>3 DEF CreateJob, CreateUncertain, RecreateJob, At, Busy
  <2>2. disk = rec[t] /\ HasActive(disk) /\ disk \in Record /\ WellFormed(disk)
    BY <2>1, Inside DEF Follows
  <2>3. ~Terminal(disk) /\ disk # NoRecord
    BY <2>2, ActiveNotTerminal, NoRecordAssumption
  <2>4. QED
    BY <2>1, <2>3, JobPromise
<1>4. CASE DeleteJob(t) \/ DeleteError(t)
  <2>1. Busy(t) /\ pc[t] = "delete" /\ disk' = disk
    BY <1>4 DEF DeleteJob, DeleteError, At, Busy
  <2>2. disk # NoRecord
    BY <2>1, Inside, NoRecordAssumption DEF Follows
  <2>3. NoJobs(jobs) => NoJobs(jobs')
    BY <1>1, <1>4 DEF DeleteJob, DeleteError, Deleted, NoJobs
  <2>4. QED
    BY <2>1, <2>2, <2>3, JobPromise
<1>5. CASE ~ \/ SaveStarted(t) \/ SaveCleanup(t) \/ Save(t)
             \/ CreateJob(t) \/ CreateUncertain(t) \/ RecreateJob(t)
             \/ DeleteJob(t) \/ DeleteError(t)
  <2>1. disk' = disk /\ jobs' = jobs
    BY <1>5 DEF Continue, ObserveError, Observe, ObserveMissing, ObserveSuspended,
                ObserveAdmitted, ObserveFailed, ObserveSucceeded, Promote,
                PromoteFailed, ConfirmPending, ConfirmJob, ConfirmGone, WriteReport
  <2>2. QED
    BY <2>1, NothingSeen
<1>6. QED
  BY <1>2, <1>3, <1>4, <1>5

LEMMA ClusterPromise ==
    ASSUME CInv, NEW a \in AttemptIds, Cluster(a), Owned(disk', jobs')
    PROVE  [Promise!Next]_Promise!promise
<1>1. PICK from : \E to : JobMoves(a, from, to) /\ "absent" \notin from
  <2>1. CASE Admit(a) \/ StartPods(a) \/ PodsGone(a)
    BY <2>1 DEF Admit, StartPods, PodsGone
  <2>2. CASE EndJob(a) \/ JobGone(a)
    BY <2>2 DEF EndJob, JobGone
  <2>3. CASE Evict(a) \/ OutsideDelete(a)
    BY <2>3 DEF Evict, OutsideDelete
  <2>4. QED
    BY <2>1, <2>2, <2>3 DEF Cluster
<1>2. disk' = disk /\ jobs \in [AttemptIds -> JobState]
  BY <1>1 DEF JobMoves, CInv, TInv, WorldOK
<1>3. ~NoJobs(jobs)
  BY <1>1, <1>2 DEF JobMoves, NoJobs
<1>4. disk # NoRecord
  BY <1>3, NotUnfinishedNoJobs DEF CInv
<1>5. QED
  BY <1>2, <1>3, <1>4, JobPromise

LEMMA PromiseStep == ~Overlap /\ CInv /\ [Next]_vars => [Promise!Next]_Promise!promise
<1> SUFFICES ASSUME ~Overlap, CInv, [Next]_vars
             PROVE  [Promise!Next]_Promise!promise
  OBVIOUS
<1>1. Owned(disk', jobs')
  BY CInvStep DEF CInv
<1>2. ASSUME NEW t \in Threads, Continue(t) PROVE [Promise!Next]_Promise!promise
  BY <1>1, <1>2, ThreadPromise
<1>3. ASSUME NEW a \in AttemptIds, Cluster(a) PROVE [Promise!Next]_Promise!promise
  BY <1>1, <1>3, ClusterPromise
<1>4. CASE Submit
  BY <1>4, SubmitPromise
<1>5. CASE \/ \E t \in Reconcilers : Reconcile(t)
           \/ \E t \in Cancelers : Cancel(t)
           \/ \E t \in Workers : AlreadyOver(t)
           \/ \E t \in Threads : WriteFails(t)
           \/ GetReport \/ Restart \/ DeadlinePasses \/ UNCHANGED vars
  <2>1. disk' = disk /\ jobs' = jobs
    BY <1>5 DEF Reconcile, Cancel, AlreadyOver, WriteFails, GetReport, Restart,
                DeadlinePasses, vars
  <2>2. QED
    BY <2>1, NothingSeen
<1>6. QED
  BY <1>2, <1>3, <1>4, <1>5 DEF Next

\* A run keeps the promise of RunLifecycle, provided no call enters while
\* submit() is running: its Jobs are started while it is active, it is over
\* only when nothing of it is left in the cluster, and its outcome stays.
THEOREM ImplementsLifecycle == ~Overlap => (Spec => KeepsPromise)
<1>1. ASSUME ~Overlap PROVE Spec => KeepsPromise
  BY <1>1, PromiseInit, PromiseStep, CInvInit, CInvStep, PTL
     DEF Spec, KeepsPromise, Promise!Spec
<1>2. QED
  BY <1>1
-----------------------------------------------------------------------------
(* What succeeded is canonical, and what is over is reported *)

\* The attempts that succeeded are those of the canonical directories.
Canonical(attempts, can) ==
    \A i \in DOMAIN attempts :
        attempts[i].phase = "succeeded" =>
            can[attempts[i].concurrency] = attempts[i].attempt

PInv ==
    /\ disk # NoRecord => Canonical(disk.attempts, canonical)
    /\ \A t \in Threads : rec[t] # NoRecord => Canonical(rec[t].attempts, canonical)

LEMMA PInvInit == Init => PInv
BY DEF Init, PInv

\* An edit of the last attempt, which is only called succeeded when canonical.
LEMMA EditCanonical ==
    ASSUME NEW r \in Record, NEW q \in Record, NEW can, EditsLast(r, q),
           \A i \in DOMAIN r.attempts : i # Len(r.attempts) /\ r.attempts[i].phase = "succeeded"
               => can[r.attempts[i].concurrency] = r.attempts[i].attempt,
           r.attempts # <<>>,
           LastAttempt(q).phase = "succeeded" =>
               can[LastAttempt(r).concurrency] = LastAttempt(r).attempt
    PROVE  Canonical(q.attempts, can)
<1>1. /\ DOMAIN q.attempts = DOMAIN r.attempts
      /\ Len(r.attempts) \in DOMAIN r.attempts
      /\ Len(q.attempts) = Len(r.attempts)
  BY RecordParts DEF EditsLast
<1>2. \A i \in DOMAIN r.attempts : i # Len(r.attempts) => q.attempts[i] = r.attempts[i]
  BY DEF EditsLast
<1>3. /\ q.attempts[Len(r.attempts)].concurrency = LastAttempt(r).concurrency
      /\ q.attempts[Len(r.attempts)].attempt = LastAttempt(r).attempt
      /\ q.attempts[Len(r.attempts)] = LastAttempt(q)
  BY <1>1 DEF EditsLast, LastAttempt
<1> QED
  BY <1>1, <1>2, <1>3 DEF Canonical

\* A new attempt has not succeeded.
LEMMA StartCanonical ==
    ASSUME NEW r \in Record, NEW c, NEW n, NEW can, Canonical(r.attempts, can)
    PROVE  Canonical(StartAttempt(r, c, n).attempts, can)
<1> DEFINE new == [concurrency |-> c, attempt |-> n, phase |-> "admission_pending",
                   cleanup_pending |-> FALSE]
<1>1. /\ StartAttempt(r, c, n).attempts = Append(r.attempts, new)
      /\ r.attempts \in Seq(Attempt)
  BY DEF StartAttempt, Record
<1>2. new.phase # "succeeded"
  OBVIOUS
<1> HIDE DEF new
<1>3. \A i \in DOMAIN Append(r.attempts, new) :
          \/ i \in DOMAIN r.attempts /\ Append(r.attempts, new)[i] = r.attempts[i]
          \/ Append(r.attempts, new)[i] = new
  BY <1>1
<1> QED
  BY <1>1, <1>2, <1>3 DEF Canonical

LEMMA AdvanceCanonical ==
    ASSUME NEW r \in Record, NEW can, Canonical(r.attempts, can)
    PROVE  Canonical(Advance(r).attempts, can)
<1>1. CASE Undecided(r) # {}
  BY <1>1, StartCanonical DEF Advance
<1>2. CASE Undecided(r) = {}
  <2>1. Advance(r).attempts = r.attempts
    BY <1>2 DEF Advance, Record
  <2> QED
    BY <2>1
<1> QED
  BY <1>1, <1>2

\* What follows a cleanup calls nothing succeeded that was not.
LEMMA AfterCleanupCanonical ==
    ASSUME NEW r \in Record, WellFormed(r), HasCleanup(r), NEW can,
           Canonical(r.attempts, can)
    PROVE  Canonical(AfterCleanup(r, CleanupAttempt(r)).attempts, can)
<1> DEFINE k == Cleaned(r)
           i == CleanupAttempt(r)
           c == r.attempts[i].concurrency
<1>1. i = Len(r.attempts) /\ r.attempts # <<>>
  BY OnlyLastUnsettled
<1>2. /\ k \in Record /\ EditsLast(r, k) /\ LastAttempt(k).phase = LastAttempt(r).phase
  BY CleanedEdits
<1>3. Canonical(k.attempts, can)
  <2>1. Len(r.attempts) \in DOMAIN r.attempts
    BY <1>1, RecordParts
  <2>2. LastAttempt(r).phase = "succeeded" =>
            can[LastAttempt(r).concurrency] = LastAttempt(r).attempt
    BY <2>1 DEF Canonical, LastAttempt
  <2> HIDE DEF k
  <2> QED
    BY <1>1, <1>2, <2>2, EditCanonical DEF Canonical
<1>4. k = [r EXCEPT !.attempts[i].cleanup_pending = FALSE]
  BY <1>1 DEF Cleaned
<1>5. c \in Levels
  BY <1>1, RecordParts
<1> DEFINE kc == [k EXCEPT !.completed = @ \cup {c}]
           kf == [k EXCEPT !.failed = @ \cup {c}]
<1>6. /\ kc \in Record /\ kc.attempts = k.attempts
      /\ kf \in Record /\ kf.attempts = k.attempts
  <2> HIDE DEF k, c
  <2> QED
    BY <1>2, <1>5 DEF Record
<1>7. Canonical(Advance(kc).attempts, can) /\ Canonical(Advance(kf).attempts, can)
  <2> HIDE DEF kc, kf
  <2> QED
    BY <1>3, <1>6, AdvanceCanonical
<1>8. Canonical(FailAttempt(k, c).attempts, can)
  <2> DEFINE n == Cardinality(AttemptsOf(k, c)) + 1
  <2>1. Canonical(StartAttempt(k, c, n).attempts, can)
    <3> HIDE DEF k, c, n
    <3> QED
      BY <1>2, <1>3, StartCanonical
  <2>2. FailAttempt(k, c) = StartAttempt(k, c, n) \/ FailAttempt(k, c) = Advance(kf)
    BY DEF FailAttempt
  <2> QED
    BY <1>7, <2>1, <2>2
<1>9. \/ AfterCleanup(r, i) = k
      \/ AfterCleanup(r, i) = Advance(kc)
      \/ AfterCleanup(r, i) = FailAttempt(k, c)
  <2> DEFINE phase == r.attempts[i].phase
  <2>1. AfterCleanup(r, i) =
           CASE r.state = "canceled" -> k
             [] r.state # "canceled" /\ phase = "succeeded" -> Advance(kc)
             [] r.state # "canceled" /\ phase = "failed" -> FailAttempt(k, c)
             [] OTHER -> k
    BY <1>4 DEF AfterCleanup
  <2> HIDE DEF k, c, kc, kf, phase
  <2> QED
    BY <2>1
<1> QED
  BY <1>3, <1>7, <1>8, <1>9

\* The level of an active attempt has no attempt that succeeded: whatever its
\* canonical directory becomes concerns no other.
LEMMA ActiveLevelIsOpen ==
    ASSUME NEW r \in Record, WellFormed(r), HasActive(r), NEW can,
           Canonical(r.attempts, canonical),
           \A c \in Levels : c # LastAttempt(r).concurrency => can[c] = canonical[c]
    PROVE  Canonical(r.attempts, can)
<1>1. /\ r.attempts # <<>> /\ IsOpen(LastAttempt(r)) /\ ~Terminal(r)
  BY OnlyLastUnsettled
<1>2. /\ Len(r.attempts) \in DOMAIN r.attempts
      /\ \A i \in DOMAIN r.attempts : r.attempts[i].concurrency \in Levels
  BY <1>1, RecordParts
<1>3. LastAttempt(r).concurrency \notin r.completed
  BY <1>1 DEF WellFormed, StateMatchesHistory, Decided
<1>4. ASSUME NEW i \in DOMAIN r.attempts, r.attempts[i].phase = "succeeded"
      PROVE  r.attempts[i].concurrency # LastAttempt(r).concurrency
  <2>1. i # Len(r.attempts)
    BY <1>1, <1>4 DEF IsOpen, LastAttempt, FinalPhases
  <2>2. ~r.attempts[i].cleanup_pending
    BY <2>1 DEF WellFormed, EarlierSettled, IsSettled
  <2>3. r.attempts[i].concurrency \in r.completed
    BY <1>4, <2>2 DEF WellFormed, DecidedByAttempts
  <2> QED
    BY <1>3, <2>3
<1> QED
  BY <1>2, <1>4 DEF Canonical

\* What the record of the active attempt becomes: seen again, recreated, failed
\* or canceled; succeeded only when its directory is the canonical one.
LEMMA ActiveCanonical ==
    ASSUME NEW r \in Record, WellFormed(r), HasActive(r), NEW can,
           Canonical(r.attempts, can)
    PROVE  /\ \A phase \in PendingPhases :
                 LET q == Observed(r, ActiveAttempt(r), phase)
                 IN  /\ Canonical(q.attempts, can)
                     /\ Canonical(QueueCleanup(q, ActiveAttempt(r), "failed").attempts, can)
           /\ Canonical([r EXCEPT !.state = "admission_pending"].attempts, can)
           /\ Canonical(QueueCleanup(r, ActiveAttempt(r), "failed").attempts, can)
           /\ Canonical(CancelActive(r, ActiveAttempt(r)).attempts, can)
           /\ can[LastAttempt(r).concurrency] = LastAttempt(r).attempt =>
                 Canonical(QueueCleanup(r, ActiveAttempt(r), "succeeded").attempts, can)
<1>1. /\ r.attempts # <<>> /\ ActiveAttempt(r) = Len(r.attempts)
  BY OnlyLastUnsettled
<1>2. ASSUME NEW q \in Record, EditsLast(r, q),
             LastAttempt(q).phase = "succeeded" =>
                 can[LastAttempt(r).concurrency] = LastAttempt(r).attempt
      PROVE  Canonical(q.attempts, can)
  BY <1>1, <1>2, EditCanonical DEF Canonical
<1>3. ASSUME NEW q \in Record, WellFormed(q), HasActive(q), Canonical(q.attempts, can)
      PROVE  Canonical(QueueCleanup(q, ActiveAttempt(q), "failed").attempts, can)
  <2> DEFINE p == QueueCleanup(q, ActiveAttempt(q), "failed")
  <2>1. p \in Record /\ EditsLast(q, p) /\ LastAttempt(p).phase = "failed"
    BY <1>3, QueueCleanupWellFormed
  <2>2. q.attempts # <<>>
    BY <1>3, OnlyLastUnsettled
  <2> HIDE DEF p
  <2>3. Canonical(p.attempts, can)
    BY <1>3, <2>1, <2>2, EditCanonical DEF Canonical
  <2> QED
    BY <2>3 DEF p
<1>4. ASSUME NEW phase \in PendingPhases
      PROVE  LET q == Observed(r, ActiveAttempt(r), phase)
             IN  /\ Canonical(q.attempts, can)
                 /\ Canonical(QueueCleanup(q, ActiveAttempt(r), "failed").attempts, can)
  <2> DEFINE q == Observed(r, ActiveAttempt(r), phase)
  <2>1. /\ q \in Record /\ WellFormed(q) /\ EditsLast(r, q) /\ IsOpen(LastAttempt(q))
        /\ HasActive(q) /\ ActiveAttempt(q) = ActiveAttempt(r)
    BY <1>4, ObservedWellFormed
  <2> HIDE DEF q
  <2>2. LastAttempt(q).phase # "succeeded"
    BY <2>1 DEF IsOpen, FinalPhases
  <2>3. Canonical(q.attempts, can)
    BY <1>2, <2>1, <2>2
  <2>4. Canonical(QueueCleanup(q, ActiveAttempt(r), "failed").attempts, can)
    BY <1>3, <2>1, <2>3
  <2> QED
    BY <2>3, <2>4 DEF q
<1>5. Canonical([r EXCEPT !.state = "admission_pending"].attempts, can)
  BY RecreatedWellFormed
<1>6. Canonical(QueueCleanup(r, ActiveAttempt(r), "failed").attempts, can)
  BY <1>3
<1>7. Canonical(CancelActive(r, ActiveAttempt(r)).attempts, can)
  <2> DEFINE p == QueueCleanup(r, Len(r.attempts), "canceled")
  <2>1. p \in Record /\ EditsLast(r, p) /\ LastAttempt(p).phase = "canceled"
    BY <1>1, QueueCleanupEdits DEF FinalPhases
  <2> HIDE DEF p
  <2>2. Canonical(p.attempts, can)
    BY <1>2, <2>1
  <2>3. CancelActive(r, ActiveAttempt(r)).attempts = p.attempts
    BY <1>1, <2>1 DEF CancelActive, p, Record
  <2> QED
    BY <2>2, <2>3
<1>8. ASSUME can[LastAttempt(r).concurrency] = LastAttempt(r).attempt
      PROVE  Canonical(QueueCleanup(r, ActiveAttempt(r), "succeeded").attempts, can)
  <2> DEFINE p == QueueCleanup(r, ActiveAttempt(r), "succeeded")
  <2>1. p \in Record /\ EditsLast(r, p)
    BY QueueCleanupWellFormed
  <2> HIDE DEF p
  <2>2. Canonical(p.attempts, can)
    BY <1>2, <1>8, <2>1
  <2> QED
    BY <2>2 DEF p
<1> QED
  BY <1>4, <1>5, <1>6, <1>7, <1>8

\* A step that saves a record some thread holds, if any, and leaves each thread
\* with a record it or the disk had, with none, or with a canonical one.
LEMMA KeepsCanonical ==
    ASSUME PInv, UNCHANGED canonical,
           disk' = disk \/ \E t \in Threads : disk' = rec[t],
           \A t \in Threads :
               \/ rec'[t] \in {rec[t], disk, NoRecord}
               \/ Canonical(rec'[t].attempts, canonical)
    PROVE  PInv'
<1>1. disk' # NoRecord => Canonical(disk'.attempts, canonical')
  BY DEF PInv
<1>2. ASSUME NEW t \in Threads, rec'[t] # NoRecord
      PROVE  Canonical(rec'[t].attempts, canonical')
  BY <1>2 DEF PInv
<1> QED
  BY <1>1, <1>2 DEF PInv

\* The thread t alone gets another record.
LEMMA GotoCanonical ==
    ASSUME CInv, PInv, UNCHANGED canonical, NEW t \in Threads, NEW q, NEW label,
           Goto(t, q, label), disk' = disk \/ disk' = rec[t],
           q \in {rec[t], disk} \/ Canonical(q.attempts, canonical)
    PROVE  PInv'
<1>1. rec' = [rec EXCEPT ![t] = q] /\ DOMAIN rec = Threads
  BY DEF Goto, CInv, TInv, ThreadsOK
<1> QED
  BY <1>1, KeepsCanonical

LEMMA ReturnCanonical ==
    ASSUME CInv, PInv, UNCHANGED canonical, NEW t \in Threads, Return(t),
           disk' = disk \/ disk' = rec[t]
    PROVE  PInv'
<1>1. rec' = [rec EXCEPT ![t] = NoRecord] /\ DOMAIN rec = Threads
  BY DEF Return, CInv, TInv, ThreadsOK
<1> QED
  BY <1>1, KeepsCanonical

LEMMA EnterCanonical ==
    ASSUME CInv, PInv, UNCHANGED <<canonical, disk>>, NEW t \in Threads, NEW q, NEW label,
           Enter(t, q, label), q = disk \/ Canonical(q.attempts, canonical)
    PROVE  PInv'
<1>1. rec' = [rec EXCEPT ![t] = q] /\ DOMAIN rec = Threads
  BY DEF Enter, CInv, TInv, ThreadsOK
<1> QED
  BY <1>1, KeepsCanonical

\* The steps that change the canonical directory of the active attempt's level.
LEMMA PromotionSteps ==
    ASSUME CInv, PInv, NEW t \in Threads,
           Promote(t) \/ PromoteFailed(t) \/ ObserveFailed(t)
    PROVE  PInv'
<1> DEFINE r == rec[t]
           c == LastAttempt(r).concurrency
<1>1. Busy(t) /\ pc[t] \in {"observe", "promote"}
  BY DEF Promote, PromoteFailed, ObserveFailed, At, Busy
<1>2. /\ r \in Record /\ WellFormed(r) /\ HasActive(r) /\ disk = r /\ r # NoRecord
  BY <1>1, Inside, NoRecordAssumption DEF Follows
<1>3. Canonical(r.attempts, canonical)
  BY <1>2 DEF PInv
<1>4. /\ canonical \in [Levels -> 0 .. Retries + 1] /\ DOMAIN rec = Threads
  BY DEF CInv, TInv, WorldOK, ThreadsOK
<1>5. \A d \in Levels : d # c => canonical'[d] = canonical[d]
  BY <1>4 DEF Promote, PromoteFailed, ObserveFailed, Purge
<1>6. Canonical(r.attempts, canonical')
  BY <1>2, <1>3, <1>5, ActiveLevelIsOpen
<1>7. Promote(t) => canonical'[LastAttempt(r).concurrency] = LastAttempt(r).attempt
  <2>1. c \in Levels
    BY <1>2, OnlyLastUnsettled, RecordParts DEF LastAttempt
  <2> QED
    BY <1>4, <2>1 DEF Promote
<1>8. \E q : Canonical(q.attempts, canonical') /\ rec' = [rec EXCEPT ![t] = q]
  <2>1. CASE Promote(t)
    BY <1>2, <1>6, <1>7, <2>1, ActiveCanonical DEF Promote, Goto, Active
  <2>2. CASE PromoteFailed(t) \/ ObserveFailed(t)
    BY <1>2, <1>6, <2>2, ActiveCanonical DEF PromoteFailed, ObserveFailed, Goto, Active
  <2> QED
    BY <2>1, <2>2
<1>9. \A u \in Threads : u # t => rec[u] = NoRecord
  <2>1. \A u \in Threads : u # t => pc[u] \in {"begin", "idle"}
    BY <1>1 DEF CInv, Alone, Busy
  <2> QED
    BY <2>1 DEF CInv, TInv, ThreadsOK, Fits
<1>10. disk' = disk
  BY DEF Promote, PromoteFailed, ObserveFailed
<1>11. \A u \in Threads : rec'[u] # NoRecord => Canonical(rec'[u].attempts, canonical')
  BY <1>4, <1>8, <1>9
<1> QED
  BY <1>2, <1>6, <1>10, <1>11 DEF PInv

\* The other steps of a thread inside a call.
LEMMA ContinueCanonical ==
    ASSUME CInv, PInv, NEW t \in Threads, Continue(t)
    PROVE  PInv'
<1> DEFINE r == rec[t]
<1>1. Busy(t)
  BY DEF Continue, SaveStarted, CreateJob, CreateUncertain, RecreateJob, ObserveError,
         Observe, ObserveMissing, ObserveSuspended, ObserveAdmitted, ObserveFailed,
         ObserveSucceeded, Promote, PromoteFailed, SaveCleanup, DeleteJob, DeleteError,
         ConfirmPending, ConfirmJob, ConfirmGone, Save, WriteReport, At, Busy
<1>2. r \in Record /\ WellFormed(r) /\ r # NoRecord /\ Canonical(r.attempts, canonical)
  BY <1>1, Inside, NoRecordAssumption DEF PInv
<1>3. pc[t] \in {"observe", "recreate"} => HasActive(r)
  BY <1>1, Inside
<1>4. CASE SaveStarted(t) \/ CreateJob(t) \/ CreateUncertain(t) \/ ObserveError(t)
           \/ ObserveSucceeded(t) \/ SaveCleanup(t) \/ DeleteJob(t) \/ DeleteError(t)
           \/ ConfirmPending(t) \/ ConfirmJob(t) \/ Save(t) \/ WriteReport(t)
  <2>1. /\ UNCHANGED canonical /\ (disk' = disk \/ disk' = r)
        /\ Return(t) \/ \E label : Goto(t, r, label)
    BY <1>4 DEF SaveStarted, CreateJob, CreateUncertain, ObserveError, ObserveSucceeded,
                SaveCleanup, DeleteJob, DeleteError, ConfirmPending, ConfirmJob, Save,
                WriteReport, Saved
  <2> QED
    BY <2>1, GotoCanonical, ReturnCanonical
<1>5. CASE RecreateJob(t)
  BY <1>2, <1>3, <1>5, ActiveCanonical, GotoCanonical DEF RecreateJob, At
<1>6. CASE ObserveMissing(t)
  <2>1. pc[t] = "observe" /\ UNCHANGED <<canonical, disk>>
    BY <1>6 DEF ObserveMissing, At
  <2>2. \/ Goto(t, r, "recreate")
        \/ Goto(t, QueueCleanup(r, ActiveAttempt(r), "failed"), "queue_cleanup")
    BY <1>6 DEF ObserveMissing, Active
  <2> QED
    BY <1>2, <1>3, <2>1, <2>2, ActiveCanonical, GotoCanonical
<1>7. CASE ObserveSuspended(t) \/ ObserveAdmitted(t)
  <2>1. pc[t] = "observe" /\ UNCHANGED <<canonical, disk>>
    BY <1>7 DEF ObserveSuspended, ObserveAdmitted, At
  <2>2. \E phase \in PendingPhases : \E label :
          LET q == Observed(r, ActiveAttempt(r), phase)
          IN  Goto(t, q, label) \/ Goto(t, QueueCleanup(q, ActiveAttempt(r), "failed"), label)
    BY <1>7 DEF ObserveSuspended, ObserveAdmitted, Active, PendingPhases
  <2> QED
    BY <1>2, <1>3, <2>1, <2>2, ActiveCanonical, GotoCanonical
<1>8. CASE Promote(t) \/ PromoteFailed(t) \/ ObserveFailed(t)
  BY <1>8, PromotionSteps
<1>9. CASE ConfirmGone(t)
  <2> DEFINE q == AfterCleanup(r, CleanupAttempt(r))
  <2>1. pc[t] = "pods" /\ UNCHANGED <<canonical, disk>> /\ \E label : Goto(t, q, label)
    BY <1>9 DEF ConfirmGone, AfterConfirm, At
  <2>2. HasCleanup(r)
    BY <1>1, <2>1, Inside
  <2>3. Canonical(q.attempts, canonical)
    BY <1>2, <2>2, AfterCleanupCanonical
  <2> HIDE DEF q
  <2> QED
    BY <2>1, <2>3, GotoCanonical
<1> QED
  BY <1>4, <1>5, <1>6, <1>7, <1>8, <1>9 DEF Continue, Observe

\* Entering reconcile or cancel.
LEMMA EntryCanonical ==
    ASSUME CInv, PInv, NEW t \in Workers, Reconcile(t) \/ Cancel(t)
    PROVE  PInv'
<1>1. /\ disk \in Record /\ WellFormed(disk) /\ disk # NoRecord /\ HoldsCapacity(disk)
      /\ UNCHANGED <<disk, canonical>> /\ t \in Threads
      /\ Canonical(disk.attempts, canonical)
  BY DEF Reconcile, Cancel, CInv, TInv, DiskOK, PInv, Threads
<1>2. CASE HasCleanup(disk)
  <2>1. Enter(t, disk, "delete")
    BY <1>2 DEF Reconcile, Cancel
  <2> QED
    BY <1>1, <2>1, EnterCanonical
<1>3. CASE ~HasCleanup(disk) /\ HasActive(disk)
  <2>1. \/ Enter(t, disk, "observe")
        \/ Enter(t, CancelActive(disk, ActiveAttempt(disk)), "queue_cleanup")
    BY <1>3 DEF Reconcile, Cancel
  <2> QED
    BY <1>1, <1>3, <2>1, ActiveCanonical, EnterCanonical
<1>4. CASE ~HasCleanup(disk) /\ ~HasActive(disk)
  <2>1. Enter(t, Advance(disk), "start") \/ Enter(t, CancelIdle(disk), "save")
    BY <1>4 DEF Reconcile, Cancel
  <2>2. CancelIdle(disk).attempts = disk.attempts
    BY <1>1 DEF CancelIdle, Record
  <2>3. Canonical(CancelIdle(disk).attempts, canonical)
    BY <1>1, <2>2
  <2> QED
    BY <1>1, <2>1, <2>3, AdvanceCanonical, EnterCanonical
<1> QED
  BY <1>2, <1>3, <1>4

LEMMA SubmitCanonical ==
    ASSUME CInv, PInv, Submit
    PROVE  PInv'
<1>1. /\ disk' = NewRecord /\ UNCHANGED canonical
      /\ rec' = [rec EXCEPT ![Submitter] = StartAttempt(NewRecord, 1, 1)]
  BY DEF Submit, Saved, Goto
<1>2. Canonical(NewRecord.attempts, canonical)
  BY DEF Canonical, NewRecord
<1>3. Canonical(StartAttempt(NewRecord, 1, 1).attempts, canonical)
  BY <1>2, NewRecordWellFormed, StartCanonical
<1>4. \A t \in Threads :
          rec'[t] = rec[t] \/ Canonical(rec'[t].attempts, canonical)
  BY <1>1, <1>3 DEF CInv, TInv, ThreadsOK
<1> QED
  BY <1>1, <1>2, <1>4 DEF PInv

LEMMA PInvStep == CInv /\ PInv /\ [Next]_vars => PInv'
<1> SUFFICES ASSUME CInv, PInv, [Next]_vars PROVE PInv'
  OBVIOUS
<1>1. ASSUME UNCHANGED <<disk, canonical>>,
             \A t \in Threads : rec'[t] \in {rec[t], NoRecord}
      PROVE  PInv'
  BY <1>1, KeepsCanonical
<1>2. ASSUME NEW t \in Workers, Reconcile(t) \/ Cancel(t) PROVE PInv'
  BY <1>2, EntryCanonical
<1>3. ASSUME NEW t \in Threads, Continue(t) PROVE PInv'
  BY <1>3, ContinueCanonical
<1>4. ASSUME NEW t \in Threads, WriteFails(t) PROVE PInv'
  BY <1>4, ReturnCanonical DEF WriteFails
<1>5. ASSUME NEW a \in AttemptIds, Cluster(a) PROVE PInv'
  <2>1. UNCHANGED <<disk, canonical, rec>>
    BY <1>5 DEF Cluster, Admit, StartPods, EndJob, JobGone, PodsGone, Evict,
                OutsideDelete, JobMoves
  <2> QED
    BY <1>1, <2>1
<1>6. CASE Restart
  BY <1>1, <1>6 DEF Restart
<1>7. CASE DeadlinePasses \/ GetReport \/ UNCHANGED vars \/ \E t \in Workers : AlreadyOver(t)
  BY <1>1, <1>7 DEF DeadlinePasses, GetReport, AlreadyOver, vars
<1> QED
  BY <1>2, <1>3, <1>4, <1>5, <1>6, <1>7, SubmitCanonical DEF Next, Workers

\* A level is reported completed only while the canonical directory holds the
\* attempt that succeeded, provided no call enters while submit() is running.
THEOREM CompletedStaysPromoted == ~Overlap => (Spec => []CompletedIsPromoted)
<1>1. CInv /\ PInv => CompletedIsPromoted
  <2> SUFFICES ASSUME CInv, PInv, disk # NoRecord, NEW c \in disk.completed
               PROVE  \E i \in AttemptsOf(disk, c) :
                         /\ disk.attempts[i].phase = "succeeded"
                         /\ disk.attempts[i].attempt = canonical[c]
    BY DEF CompletedIsPromoted
  <2>1. WellFormed(disk) /\ Canonical(disk.attempts, canonical)
    BY DEF CInv, TInv, DiskOK, PInv
  <2>2. PICK i \in AttemptsOf(disk, c) : disk.attempts[i].phase = "succeeded"
    BY <2>1 DEF WellFormed, DecidedByAttempts
  <2> QED
    BY <2>1, <2>2 DEF AttemptsOf, Canonical
<1>2. ASSUME ~Overlap PROVE Spec => []CompletedIsPromoted
  <2>1. Init => CInv /\ PInv
    BY CInvInit, PInvInit
  <2>2. CInv /\ PInv /\ [Next]_vars => (CInv /\ PInv)'
    BY <1>2, CInvStep, PInvStep
  <2> QED
    BY <1>1, <2>1, <2>2, PTL DEF Spec
<1> QED
  BY <1>2

\* A run that is over is reported, or about to be, unless something failed.
RInv ==
    disk # NoRecord /\ ~HoldsCapacity(disk) /\ faults = 0 =>
        report = "current" \/ \E t \in Threads : At(t, "report")

LEMMA RInvStep == CInv /\ RInv /\ [Next]_vars => RInv'
<1> SUFFICES ASSUME CInv, RInv, [Next]_vars, disk' # NoRecord, ~HoldsCapacity(disk'),
                    faults' = 0
             PROVE  report' = "current" \/ \E t \in Threads : At(t, "report")'
  BY DEF RInv
<1>1. pc \in [Threads -> PC] /\ faults \in 0..MaxFaults /\ MaxFaults \in Nat
  BY MaxFaultsAssumption DEF CInv, TInv, ThreadsOK, WorldOK
<1>2. ~Fault
  BY <1>1 DEF Fault
<1>3. ASSUME NEW t \in Threads, Save(t) PROVE \E u \in Threads : At(u, "report")'
  <2>1. disk' = rec[t] /\ pc' = [pc EXCEPT ![t] = "report"]
    BY <1>3 DEF Save, Saved, Goto
  <2> QED
    BY <1>1, <2>1 DEF At
<1>4. ASSUME NEW t \in Threads PROVE ~SaveStarted(t) /\ ~SaveCleanup(t)
  <2>1. SaveStarted(t) \/ SaveCleanup(t) =>
           /\ Busy(t) /\ pc[t] \in {"start", "queue_cleanup"} /\ disk' = rec[t]
    BY DEF SaveStarted, SaveCleanup, Saved, At, Busy
  <2> QED
    BY <2>1, Inside
<1>5. ~Submit
  BY NewRecordWellFormed DEF Submit, Saved
<1>6. ASSUME NEW t \in Threads, WriteReport(t) PROVE report' = "current"
  BY <1>6 DEF WriteReport
<1>7. ASSUME UNCHANGED <<disk, report, faults>>,
             \A t \in Threads : At(t, "report") => At(t, "report")'
      PROVE  report' = "current" \/ \E t \in Threads : At(t, "report")'
  BY <1>7 DEF RInv
<1>8. ASSUME NEW t \in Threads, Continue(t), ~Save(t), ~WriteReport(t)
      PROVE  report' = "current" \/ \E u \in Threads : At(u, "report")'
  <2>1. UNCHANGED <<disk, report, faults>> /\ pc[t] # "report"
    BY <1>4, <1>8
       DEF Continue, CreateJob, CreateUncertain, RecreateJob, ObserveError, Observe,
           ObserveMissing, ObserveSuspended, ObserveAdmitted, ObserveFailed,
           ObserveSucceeded, Promote, PromoteFailed, DeleteJob, DeleteError,
           ConfirmPending, ConfirmJob, ConfirmGone, At
  <2>2. \A u \in Threads : u # t => pc'[u] = pc[u]
    BY <1>1, <1>4, <1>8
       DEF Continue, CreateJob, CreateUncertain, RecreateJob, ObserveError, Observe,
           ObserveMissing, ObserveSuspended, ObserveAdmitted, ObserveFailed,
           ObserveSucceeded, Promote, PromoteFailed, DeleteJob, DeleteError,
           ConfirmPending, ConfirmJob, ConfirmGone, AfterConfirm, Goto, Return
  <2> QED
    BY <1>7, <2>1, <2>2 DEF At
<1>9. ASSUME NEW t \in Workers, Reconcile(t) \/ Cancel(t)
       PROVE  report' = "current" \/ \E u \in Threads : At(u, "report")'
  <2>1. /\ UNCHANGED <<disk, report, faults>> /\ pc[t] = "idle"
        /\ \A u \in Threads : u # t => pc'[u] = pc[u]
    BY <1>1, <1>9 DEF Reconcile, Cancel, Enter, At
  <2> QED
    BY <1>7, <2>1 DEF At
<1>10. ASSUME NEW a \in AttemptIds, Cluster(a)
       PROVE  report' = "current" \/ \E u \in Threads : At(u, "report")'
  <2>1. UNCHANGED <<disk, report, pc, faults>>
    BY <1>2, <1>10 DEF Cluster, Admit, StartPods, EndJob, JobGone, PodsGone, Evict,
                       OutsideDelete, JobMoves
  <2> QED
    BY <1>7, <2>1 DEF At
<1>11. CASE GetReport
  BY <1>11 DEF GetReport
<1>12. CASE DeadlinePasses \/ UNCHANGED vars \/ \E t \in Workers : AlreadyOver(t)
  <2>1. UNCHANGED <<disk, report, pc, faults>>
    BY <1>12 DEF DeadlinePasses, AlreadyOver, vars
  <2> QED
    BY <1>7, <2>1 DEF At
<1>13. ~Restart /\ \A t \in Threads : ~WriteFails(t)
  BY <1>2 DEF Restart, WriteFails
<1> QED
  BY <1>3, <1>5, <1>6, <1>8, <1>9, <1>10, <1>11, <1>12, <1>13 DEF Next, Workers

\* Without a fault, a run that is over once all calls returned has the report of
\* its final record, provided no call enters while submit() is running.
THEOREM ReportIsFinal == ~Overlap => (Spec => []FinalReport)
<1>1. Init => CInv /\ RInv
  BY CInvInit DEF Init, RInv
<1>2. RInv => FinalReport
  BY DEF RInv, FinalReport, At
<1>3. ASSUME ~Overlap PROVE Spec => []FinalReport
  <2>1. CInv /\ RInv /\ [Next]_vars => (CInv /\ RInv)'
    BY <1>3, CInvStep, RInvStep
  <2> QED
    BY <1>1, <1>2, <2>1, PTL DEF Spec
<1> QED
  BY <1>3
-----------------------------------------------------------------------------
(* Saves keep history *)

\* Record q tells the story of d further: HistoryIsKept, of a save of q over d,
\* and an attempt that d does not have is open.
Extends(d, q) ==
    /\ Len(q.attempts) >= Len(d.attempts)
    /\ \A i \in DOMAIN d.attempts :
          /\ Id(q.attempts[i]) = Id(d.attempts[i])
          /\ ~IsOpen(d.attempts[i]) =>
                 /\ q.attempts[i].phase = d.attempts[i].phase
                 /\ q.attempts[i].cleanup_pending => d.attempts[i].cleanup_pending
    /\ \A i \in DOMAIN q.attempts : i \in DOMAIN d.attempts \/ IsOpen(q.attempts[i])
    /\ d.completed \subseteq q.completed
    /\ d.failed \subseteq q.failed
    /\ Terminal(d) => q.state = d.state

\* A thread that is about to save holds a record that extends the one on disk.
HInv ==
    \A t \in Threads : pc[t] \in {"start", "queue_cleanup", "save"} => Extends(disk, rec[t])

LEMMA ExtendsItself == ASSUME NEW r \in Record PROVE Extends(r, r)
BY RecordParts DEF Extends

LEMMA EditExtends ==
    ASSUME NEW r \in Record, NEW q \in Record, r.attempts # <<>>, EditsLast(r, q),
           \/ IsOpen(LastAttempt(r))
           \/ /\ LastAttempt(q).phase = LastAttempt(r).phase
              /\ LastAttempt(q).cleanup_pending => LastAttempt(r).cleanup_pending,
           Terminal(r) => q.state = r.state
    PROVE  Extends(r, q)
<1>1. /\ Len(r.attempts) \in Nat /\ Len(q.attempts) = Len(r.attempts)
      /\ DOMAIN q.attempts = DOMAIN r.attempts
      /\ Len(r.attempts) \in DOMAIN r.attempts
  BY RecordParts DEF EditsLast
<1>2. \A i \in DOMAIN r.attempts : Id(q.attempts[i]) = Id(r.attempts[i])
  BY DEF EditsLast, Id
<1>3. ASSUME NEW i \in DOMAIN r.attempts, ~IsOpen(r.attempts[i])
      PROVE  /\ q.attempts[i].phase = r.attempts[i].phase
             /\ q.attempts[i].cleanup_pending => r.attempts[i].cleanup_pending
  <2>1. CASE i # Len(r.attempts)
    BY <2>1 DEF EditsLast
  <2>2. CASE i = Len(r.attempts)
    <3>1. LastAttempt(r) = r.attempts[i] /\ LastAttempt(q) = q.attempts[i]
      BY <1>1, <2>2 DEF LastAttempt
    <3> QED
      BY <1>3, <3>1
  <2> QED
    BY <2>1, <2>2
<1>4. q.completed = r.completed /\ q.failed = r.failed
  BY DEF EditsLast
<1> QED
  BY <1>1, <1>2, <1>3, <1>4 DEF Extends

\* The parts of Extends that a further edit of decided levels or a new attempt
\* keeps, for a record that is not over.
LEMMA GrowExtends ==
    ASSUME NEW d \in Record, NEW r \in Record, Extends(d, r), ~Terminal(d), NEW q \in Record,
           q.attempts = r.attempts \/ \E a : IsOpen(a) /\ q.attempts = Append(r.attempts, a),
           r.completed \subseteq q.completed, r.failed \subseteq q.failed
    PROVE  Extends(d, q)
<1>1. /\ r.attempts \in Seq(Attempt) /\ Len(r.attempts) \in Nat /\ Len(d.attempts) \in Nat
      /\ DOMAIN r.attempts = 1..Len(r.attempts) /\ DOMAIN d.attempts = 1..Len(d.attempts)
  BY RecordParts
<1>2. /\ Len(q.attempts) >= Len(r.attempts) /\ Len(q.attempts) \in Nat
      /\ \A i \in DOMAIN r.attempts : q.attempts[i] = r.attempts[i]
      /\ \A i \in DOMAIN q.attempts : i \in DOMAIN r.attempts \/ IsOpen(q.attempts[i])
  <2>1. CASE q.attempts = r.attempts
    BY <1>1, <2>1
  <2>2. ASSUME NEW a, IsOpen(a), q.attempts = Append(r.attempts, a)
        PROVE  /\ Len(q.attempts) >= Len(r.attempts) /\ Len(q.attempts) \in Nat
               /\ \A i \in DOMAIN r.attempts : q.attempts[i] = r.attempts[i]
               /\ \A i \in DOMAIN q.attempts :
                     i \in DOMAIN r.attempts \/ IsOpen(q.attempts[i])
    <3>1. /\ Len(q.attempts) = Len(r.attempts) + 1
          /\ DOMAIN q.attempts = 1 .. Len(r.attempts) + 1
          /\ \A i \in DOMAIN r.attempts : q.attempts[i] = r.attempts[i]
          /\ q.attempts[Len(r.attempts) + 1] = a
      BY <1>1, <2>2
    <3>2. \A i \in DOMAIN q.attempts : i \in DOMAIN r.attempts \/ i = Len(r.attempts) + 1
      BY <1>1, <3>1
    <3> QED
      BY <1>1, <2>2, <3>1, <3>2
  <2> QED
    BY <2>1, <2>2
<1>3. DOMAIN d.attempts \subseteq DOMAIN r.attempts
  BY <1>1 DEF Extends
<1> QED
  BY <1>1, <1>2, <1>3 DEF Extends

\* A new attempt is appended, and open.
LEMMA StartIsOpen ==
    ASSUME NEW r \in Record, NEW c, NEW n
    PROVE  \E a : IsOpen(a) /\ StartAttempt(r, c, n).attempts = Append(r.attempts, a)
<1> DEFINE a == [concurrency |-> c, attempt |-> n, phase |-> "admission_pending",
                 cleanup_pending |-> FALSE]
<1>1. IsOpen(a)
  BY DEF IsOpen, FinalPhases
<1>2. StartAttempt(r, c, n).attempts = Append(r.attempts, a)
  BY DEF StartAttempt, Record
<1> QED
  BY <1>1, <1>2

LEMMA AdvanceExtends ==
    ASSUME NEW d \in Record, NEW r \in Record, Extends(d, r), ~Terminal(d),
           Advance(r) \in Record
    PROVE  Extends(d, Advance(r))
<1>1. /\ Advance(r).completed = r.completed /\ Advance(r).failed = r.failed
      /\ \/ Advance(r).attempts = r.attempts
         \/ \E a : IsOpen(a) /\ Advance(r).attempts = Append(r.attempts, a)
  BY StartIsOpen DEF Advance, StartAttempt, Record
<1> QED
  BY <1>1, GrowExtends

\* What follows a cleanup extends the record of the cleanup.
LEMMA AfterCleanupExtends ==
    ASSUME NEW r \in Record, WellFormed(r), HasCleanup(r)
    PROVE  Extends(r, AfterCleanup(r, CleanupAttempt(r)))
<1> DEFINE k == Cleaned(r)
           i == CleanupAttempt(r)
           c == r.attempts[i].concurrency
           q == AfterCleanup(r, i)
<1>1. i = Len(r.attempts) /\ r.attempts # <<>>
  BY OnlyLastUnsettled
<1>2. /\ k \in Record /\ EditsLast(r, k) /\ LastAttempt(k).phase = LastAttempt(r).phase
      /\ ~LastAttempt(k).cleanup_pending /\ k.state = r.state
  BY CleanedEdits
<1>3. Extends(r, k)
  <2> HIDE DEF k
  <2> QED
    BY <1>1, <1>2, EditExtends
<1>4. k = [r EXCEPT !.attempts[i].cleanup_pending = FALSE]
  BY <1>1 DEF Cleaned
<1>5. c \in Levels
  BY <1>1, RecordParts
<1>6. q \in Record
  BY AfterCleanupWellFormed
<1>7. Terminal(r) <=> r.state = "canceled"
  BY CancelSticks
<1> DEFINE kc == [k EXCEPT !.completed = @ \cup {c}]
           kf == [k EXCEPT !.failed = @ \cup {c}]
<1>8. /\ kc \in Record /\ kc.attempts = k.attempts /\ k.completed \subseteq kc.completed
      /\ kc.failed = k.failed
      /\ kf \in Record /\ kf.attempts = k.attempts /\ k.failed \subseteq kf.failed
      /\ kf.completed = k.completed
  <2> HIDE DEF k, c
  <2> QED
    BY <1>2, <1>5 DEF Record
<1>9. ASSUME ~Terminal(r) PROVE Extends(r, kc) /\ Extends(r, kf)
  <2> HIDE DEF k, c, kc, kf
  <2> QED
    BY <1>2, <1>3, <1>8, <1>9, GrowExtends
<1>10. \/ q = k
       \/ r.state # "canceled" /\ (q = Advance(kc) \/ q = FailAttempt(k, c))
  <2> DEFINE phase == r.attempts[i].phase
  <2>1. q =
           CASE r.state = "canceled" -> k
             [] r.state # "canceled" /\ phase = "succeeded" -> Advance(kc)
             [] r.state # "canceled" /\ phase = "failed" -> FailAttempt(k, c)
             [] OTHER -> k
    BY <1>4 DEF AfterCleanup
  <2> HIDE DEF k, c, kc, kf, phase, q
  <2> QED
    BY <2>1
<1>11. q = k => Extends(r, q)
  BY <1>3
<1>12. ASSUME r.state # "canceled", q = Advance(kc) PROVE Extends(r, q)
  <2> HIDE DEF k, c, kc, q
  <2> QED
    BY <1>6, <1>7, <1>8, <1>9, <1>12, AdvanceExtends
<1>13. ASSUME r.state # "canceled", q = FailAttempt(k, c) PROVE Extends(r, q)
  <2> DEFINE n == Cardinality(AttemptsOf(k, c)) + 1
  <2>1. q = StartAttempt(k, c, n) \/ q = Advance(kf)
    BY <1>13 DEF FailAttempt
  <2>2. ASSUME q = StartAttempt(k, c, n) PROVE Extends(r, q)
    <3> HIDE DEF k, c, n, q
    <3>1. q.completed = k.completed /\ q.failed = k.failed
      BY <1>2, <2>2 DEF StartAttempt, Record
    <3>2. \E a : IsOpen(a) /\ q.attempts = Append(k.attempts, a)
      BY <1>2, <2>2, StartIsOpen
    <3> QED
      BY <1>2, <1>3, <1>6, <1>7, <1>13, <3>1, <3>2, GrowExtends
  <2>3. ASSUME q = Advance(kf) PROVE Extends(r, q)
    <3> HIDE DEF k, c, kf, q
    <3> QED
      BY <1>6, <1>7, <1>8, <1>9, <1>13, <2>3, AdvanceExtends
  <2> QED
    BY <2>1, <2>2, <2>3
<1> QED
  BY <1>10, <1>11, <1>12, <1>13

\* Whatever the record of the active attempt becomes extends it.
LEMMA ActiveExtends ==
    ASSUME NEW r \in Record, WellFormed(r), HasActive(r)
    PROVE  /\ \A phase \in PendingPhases :
                 LET q == Observed(r, ActiveAttempt(r), phase)
                 IN  /\ Extends(r, q)
                     /\ Extends(r, QueueCleanup(q, ActiveAttempt(r), "failed"))
           /\ Extends(r, [r EXCEPT !.state = "admission_pending"])
           /\ \A phase \in {"failed", "succeeded"} :
                 Extends(r, QueueCleanup(r, ActiveAttempt(r), phase))
           /\ Extends(r, CancelActive(r, ActiveAttempt(r)))
<1>1. r.attempts # <<>> /\ IsOpen(LastAttempt(r)) /\ ~Terminal(r)
  BY OnlyLastUnsettled
<1>2. ASSUME NEW q \in Record, EditsLast(r, q) PROVE Extends(r, q)
  BY <1>1, <1>2, EditExtends
<1>3. ASSUME NEW phase \in PendingPhases
      PROVE  LET q == Observed(r, ActiveAttempt(r), phase)
             IN  /\ Extends(r, q)
                 /\ Extends(r, QueueCleanup(q, ActiveAttempt(r), "failed"))
  <2> DEFINE q == Observed(r, ActiveAttempt(r), phase)
             p == QueueCleanup(q, ActiveAttempt(r), "failed")
  <2>1. /\ q \in Record /\ WellFormed(q) /\ EditsLast(r, q)
        /\ HasActive(q) /\ ActiveAttempt(q) = ActiveAttempt(r)
    BY <1>3, ObservedWellFormed
  <2>2. p \in Record /\ EditsLast(q, p)
    <3> HIDE DEF q
    <3> QED
      BY <2>1, QueueCleanupWellFormed
  <2> HIDE DEF q, p
  <2>3. EditsLast(r, p)
    BY <2>1, <2>2 DEF EditsLast
  <2>4. Extends(r, q) /\ Extends(r, p)
    BY <1>2, <2>1, <2>2, <2>3
  <2> QED
    BY <2>4 DEF q, p
<1>4. Extends(r, [r EXCEPT !.state = "admission_pending"])
  <2> DEFINE q == [r EXCEPT !.state = "admission_pending"]
  <2>1. q \in Record /\ EditsLast(r, q)
    BY RecreatedWellFormed
  <2> HIDE DEF q
  <2>2. Extends(r, q)
    BY <1>2, <2>1
  <2> QED
    BY <2>2 DEF q
<1>5. ASSUME NEW phase \in {"failed", "succeeded"}
      PROVE  Extends(r, QueueCleanup(r, ActiveAttempt(r), phase))
  <2> DEFINE q == QueueCleanup(r, ActiveAttempt(r), phase)
  <2>1. q \in Record /\ EditsLast(r, q)
    BY <1>5, QueueCleanupWellFormed
  <2> HIDE DEF q
  <2>2. Extends(r, q)
    BY <1>2, <2>1
  <2> QED
    BY <2>2 DEF q
<1>6. Extends(r, CancelActive(r, ActiveAttempt(r)))
  <2> DEFINE q == CancelActive(r, ActiveAttempt(r))
  <2>1. q \in Record /\ EditsLast(r, q)
    BY CancelActiveWellFormed
  <2> HIDE DEF q
  <2>2. Extends(r, q)
    BY <1>2, <2>1
  <2> QED
    BY <2>2 DEF q
<1> QED
  BY <1>3, <1>4, <1>5, <1>6

Saving == {"start", "queue_cleanup", "save"}

\* A thread that goes on inside a call comes to a save only with such a record.
LEMMA ContinueExtends ==
    ASSUME CInv, NEW t \in Threads, Continue(t), pc'[t] \in Saving
    PROVE  disk' = disk /\ Extends(disk, rec'[t])
<1> DEFINE r == rec[t]
<1>1. Busy(t)
  BY DEF Continue, SaveStarted, CreateJob, CreateUncertain, RecreateJob, ObserveError,
         Observe, ObserveMissing, ObserveSuspended, ObserveAdmitted, ObserveFailed,
         ObserveSucceeded, Promote, PromoteFailed, SaveCleanup, DeleteJob, DeleteError,
         ConfirmPending, ConfirmJob, ConfirmGone, Save, WriteReport, At, Busy
<1>2. /\ r \in Record /\ WellFormed(r) /\ disk \in Record
      /\ pc[t] \in {"create", "recreate", "observe", "promote", "delete", "confirm", "pods"}
            => disk = r
      /\ pc[t] \in {"recreate", "observe", "promote"} => HasActive(r)
      /\ pc[t] = "pods" => HasCleanup(r)
  BY <1>1, Inside DEF Follows
<1>3. pc \in [Threads -> PC] /\ DOMAIN rec = Threads
  BY DEF CInv, TInv, ThreadsOK
<1>4. ASSUME NEW q, NEW label, Goto(t, q, label)
      PROVE  rec'[t] = q /\ pc'[t] = label
  BY <1>3, <1>4 DEF Goto
<1>5. ~Return(t)
  BY <1>3 DEF Return, Saving
<1>6. Extends(r, r)
  BY <1>2, ExtendsItself
<1>7. CASE SaveStarted(t) \/ SaveCleanup(t) \/ Save(t) \/ WriteReport(t)
           \/ DeleteJob(t) \/ ConfirmJob(t) \/ ObserveSucceeded(t)
  <2>1. \E label \in PC \ Saving : Goto(t, r, label)
    BY <1>5, <1>7 DEF SaveStarted, SaveCleanup, Save, WriteReport, DeleteJob, ConfirmJob,
                      ObserveSucceeded, PC, Saving
  <2> QED
    BY <1>4, <2>1
<1>8. CASE CreateJob(t) \/ CreateUncertain(t) \/ ObserveError(t) \/ DeleteError(t)
           \/ ConfirmPending(t)
  <2>1. /\ disk' = disk /\ Goto(t, r, "save")
        /\ pc[t] \in {"create", "observe", "delete", "confirm", "pods"}
    BY <1>5, <1>8 DEF CreateJob, CreateUncertain, ObserveError, DeleteError, ConfirmPending, At
  <2> QED
    BY <1>2, <1>4, <1>6, <2>1
<1>9. CASE RecreateJob(t)
  BY <1>2, <1>4, <1>9, ActiveExtends DEF RecreateJob, At
<1>10. CASE ObserveMissing(t) \/ ObserveFailed(t)
  <2>1. disk' = disk /\ pc[t] = "observe"
    BY <1>10 DEF ObserveMissing, ObserveFailed, At
  <2>2. \/ Goto(t, r, "recreate")
        \/ Goto(t, QueueCleanup(r, ActiveAttempt(r), "failed"), "queue_cleanup")
    BY <1>10 DEF ObserveMissing, ObserveFailed, Active
  <2>3. ~Goto(t, r, "recreate")
    BY <1>4 DEF Saving
  <2> QED
    BY <1>2, <1>4, <2>1, <2>2, <2>3, ActiveExtends
<1>11. CASE ObserveSuspended(t) \/ ObserveAdmitted(t)
  <2>1. disk' = disk /\ pc[t] = "observe"
    BY <1>11 DEF ObserveSuspended, ObserveAdmitted, At
  <2>2. \E phase \in PendingPhases : \E label :
          LET q == Observed(r, ActiveAttempt(r), phase)
          IN  Goto(t, q, label) \/ Goto(t, QueueCleanup(q, ActiveAttempt(r), "failed"), label)
    BY <1>11 DEF ObserveSuspended, ObserveAdmitted, Active, PendingPhases
  <2> QED
    BY <1>2, <1>4, <2>1, <2>2, ActiveExtends
<1>12. CASE Promote(t) \/ PromoteFailed(t)
  <2>1. disk' = disk /\ pc[t] = "promote"
    BY <1>12 DEF Promote, PromoteFailed, At
  <2>2. \E phase \in {"failed", "succeeded"} :
          Goto(t, QueueCleanup(r, ActiveAttempt(r), phase), "queue_cleanup")
    BY <1>12 DEF Promote, PromoteFailed, Active
  <2> QED
    BY <1>2, <1>4, <2>1, <2>2, ActiveExtends
<1>13. CASE ConfirmGone(t)
  <2>1. /\ disk' = disk /\ pc[t] = "pods"
        /\ \E label : Goto(t, AfterCleanup(r, CleanupAttempt(r)), label)
    BY <1>13 DEF ConfirmGone, AfterConfirm, At
  <2> QED
    BY <1>2, <1>4, <2>1, AfterCleanupExtends
<1> QED
  BY <1>7, <1>8, <1>9, <1>10, <1>11, <1>12, <1>13 DEF Continue, Observe

\* A call enters with such a record.
LEMMA EntryExtends ==
    ASSUME CInv, NEW t \in Workers, Reconcile(t) \/ Cancel(t), pc'[t] \in Saving
    PROVE  disk' = disk /\ Extends(disk, rec'[t])
<1>1. /\ disk \in Record /\ WellFormed(disk) /\ HoldsCapacity(disk)
      /\ disk' = disk /\ t \in Threads
      /\ pc \in [Threads -> PC] /\ DOMAIN rec = Threads
  BY DEF Reconcile, Cancel, CInv, TInv, DiskOK, ThreadsOK, Threads
<1>2. ASSUME NEW q, NEW label, Enter(t, q, label)
      PROVE  rec'[t] = q /\ pc'[t] = label
  BY <1>1, <1>2 DEF Enter
<1>3. Extends(disk, disk)
  BY <1>1, ExtendsItself
<1>4. CASE HasCleanup(disk)
  <2>1. Enter(t, disk, "delete")
    BY <1>4 DEF Reconcile, Cancel
  <2> QED
    BY <1>1, <1>2, <1>3, <2>1
<1>5. CASE ~HasCleanup(disk) /\ HasActive(disk)
  <2>1. \/ Enter(t, disk, "observe")
        \/ Enter(t, CancelActive(disk, ActiveAttempt(disk)), "queue_cleanup")
    BY <1>5 DEF Reconcile, Cancel
  <2> QED
    BY <1>1, <1>2, <1>3, <1>5, <2>1, ActiveExtends
<1>6. CASE ~HasCleanup(disk) /\ ~HasActive(disk)
  <2>1. Enter(t, Advance(disk), "start") \/ Enter(t, CancelIdle(disk), "save")
    BY <1>6 DEF Reconcile, Cancel
  <2>2. ~Terminal(disk)
    BY <1>1, <1>6, NotStarted
  <2>3. Extends(disk, Advance(disk))
    BY <1>1, <1>3, <1>6, <2>2, AdvanceExtends, FirstAdvanceWellFormed
  <2>4. Extends(disk, CancelIdle(disk))
    <3>1. /\ CancelIdle(disk) \in Record
          /\ CancelIdle(disk).attempts = disk.attempts
          /\ CancelIdle(disk).completed = disk.completed
          /\ CancelIdle(disk).failed = disk.failed
      BY <1>1, <1>6, CancelIdleWellFormed DEF CancelIdle, Record
    <3> QED
      BY <1>1, <1>3, <2>2, <3>1, GrowExtends
  <2> QED
    BY <1>1, <1>2, <2>1, <2>3, <2>4
<1> QED
  BY <1>4, <1>5, <1>6

LEMMA SubmitExtends ==
    ASSUME CInv, Submit
    PROVE  Extends(disk', rec'[Submitter])
<1>1. disk' = NewRecord /\ rec'[Submitter] = StartAttempt(NewRecord, 1, 1)
  BY DEF Submit, Saved, Goto, CInv, TInv, ThreadsOK, Threads
<1>2. NewRecord \in Record /\ StartAttempt(NewRecord, 1, 1) \in Record
  BY NewRecordWellFormed
<1>3. Extends(NewRecord, NewRecord) /\ ~Terminal(NewRecord)
  BY <1>2, ExtendsItself DEF NewRecord, Terminal, TERMINAL_STATES
<1>4. /\ StartAttempt(NewRecord, 1, 1).completed = NewRecord.completed
      /\ StartAttempt(NewRecord, 1, 1).failed = NewRecord.failed
  BY <1>2 DEF StartAttempt, Record
<1>5. \E a : IsOpen(a) /\ StartAttempt(NewRecord, 1, 1).attempts = Append(NewRecord.attempts, a)
  BY <1>2, StartIsOpen
<1>6. Extends(NewRecord, StartAttempt(NewRecord, 1, 1))
  BY <1>2, <1>3, <1>4, <1>5, GrowExtends
<1> QED
  BY <1>1, <1>6

\* Only its own steps take a thread through a call.
LEMMA StepOfOthers ==
    ASSUME CInv, CInv', [Next]_vars, NEW t \in Threads, Busy(t)'
    PROVE  \/ UNCHANGED <<disk, rec, pc>>
           \/ Submit /\ t = Submitter
           \/ Continue(t)
           \/ t \in Workers /\ (Reconcile(t) \/ Cancel(t))
<1>1. /\ pc \in [Threads -> PC]
      /\ \A u, v \in Threads : Busy(u) /\ Busy(v) => u = v
      /\ \A u, v \in Threads : Busy(u)' /\ Busy(v)' => u = v
      /\ pc[Submitter] = "begin" => disk = NoRecord
      /\ \A u \in Threads : Busy(u) => disk # NoRecord
  BY DEF CInv, Alone, TInv, ThreadsOK
<1>2. ASSUME NEW u \in Threads, Continue(u) PROVE u = t
  <2>1. Busy(u)
    BY <1>2 DEF Continue, SaveStarted, CreateJob, CreateUncertain, RecreateJob, ObserveError,
         Observe, ObserveMissing, ObserveSuspended, ObserveAdmitted, ObserveFailed,
         ObserveSucceeded, Promote, PromoteFailed, SaveCleanup, DeleteJob, DeleteError,
         ConfirmPending, ConfirmJob, ConfirmGone, Save, WriteReport, At, Busy
  <2>2. \A v \in Threads : v # u => pc'[v] = pc[v]
    BY <1>1, <1>2 DEF Continue, SaveStarted, CreateJob, CreateUncertain, RecreateJob,
         ObserveError, Observe, ObserveMissing, ObserveSuspended, ObserveAdmitted,
         ObserveFailed, ObserveSucceeded, Promote, PromoteFailed, SaveCleanup, DeleteJob,
         DeleteError, ConfirmPending, ConfirmJob, ConfirmGone, AfterConfirm, Save,
         WriteReport, Goto, Return
  <2> QED
    BY <1>1, <2>1, <2>2 DEF Busy
<1>3. ASSUME NEW u \in Threads, WriteFails(u) PROVE FALSE
  <2>1. Busy(u) /\ Return(u)
    BY <1>3 DEF WriteFails, At, Busy
  <2> QED
    BY <1>1, <2>1 DEF Return, Busy
<1>4. ASSUME NEW u \in Workers, Reconcile(u) \/ Cancel(u) PROVE u = t
  <2>1. u \in Threads
    BY DEF Threads
  <2>2. \E q : \E label \in {"delete", "observe", "start", "queue_cleanup", "save"} :
            Enter(u, q, label)
    BY <1>4 DEF Reconcile, Cancel
  <2>3. Busy(u)'
    BY <1>1, <2>1, <2>2 DEF Enter, Busy
  <2> QED
    BY <1>1, <2>1, <2>3
<1>5. ASSUME Submit PROVE t = Submitter
  <2>1. Busy(Submitter)' /\ Submitter \in Threads
    BY <1>1, <1>5 DEF Submit, Goto, Busy, Threads
  <2> QED
    BY <1>1, <2>1
<1>6. ~Restart
  <2>1. Restart => pc'[t] \in {"begin", "idle"}
    BY DEF Restart
  <2> QED
    BY <2>1 DEF Busy
<1>7. ASSUME NEW a \in AttemptIds, Cluster(a) PROVE UNCHANGED <<disk, rec, pc>>
  BY <1>7 DEF Cluster, Admit, StartPods, EndJob, JobGone, PodsGone, Evict,
              OutsideDelete, JobMoves
<1>8. ASSUME DeadlinePasses \/ GetReport \/ UNCHANGED vars \/ \E u \in Workers : AlreadyOver(u)
      PROVE  UNCHANGED <<disk, rec, pc>>
  BY <1>8 DEF DeadlinePasses, GetReport, AlreadyOver, vars
<1>9. Reconcilers \subseteq Workers /\ Cancelers \subseteq Workers
  BY DEF Workers
<1> QED
  BY <1>2, <1>3, <1>4, <1>5, <1>6, <1>7, <1>8, <1>9 DEF Next

LEMMA HInvStep == CInv /\ CInv' /\ HInv /\ [Next]_vars => HInv'
<1> SUFFICES ASSUME CInv, CInv', HInv, [Next]_vars, NEW t \in Threads, pc'[t] \in Saving
             PROVE  Extends(disk', rec'[t])
  BY DEF HInv, Saving
<1>1. Busy(t)'
  BY DEF Busy, Saving
<1>2. CASE UNCHANGED <<disk, rec, pc>>
  BY <1>2 DEF HInv, Saving
<1> QED
  BY <1>1, <1>2, StepOfOthers, SubmitExtends, ContinueExtends, EntryExtends

\* What a save writes is the record of a thread that had it to extend the disk.
LEMMA SaveExtends ==
    ASSUME CInv, HInv, [Next]_vars, disk # NoRecord
    PROVE  disk' # NoRecord /\ Extends(disk, disk')
<1>1. disk \in Record
  BY DEF CInv, TInv, DiskOK
<1>2. disk' = disk => disk' # NoRecord /\ Extends(disk, disk')
  BY <1>1, ExtendsItself
<1>3. ~Submit
  BY DEF Submit, At, CInv, Alone
<1>4. ASSUME NEW t \in Threads, SaveStarted(t) \/ SaveCleanup(t) \/ Save(t)
      PROVE  disk' # NoRecord /\ Extends(disk, disk')
  <2>1. disk' = rec[t] /\ pc[t] \in Saving /\ Busy(t)
    BY <1>4 DEF SaveStarted, SaveCleanup, Save, Saved, At, Saving, Busy
  <2>2. rec[t] # NoRecord
    BY <2>1, Inside, NoRecordAssumption
  <2> QED
    BY <2>1, <2>2 DEF HInv, Saving
<1>5. ASSUME NEW t \in Threads, Continue(t), ~SaveStarted(t), ~SaveCleanup(t), ~Save(t)
      PROVE  disk' = disk
  BY <1>5
     DEF Continue, CreateJob, CreateUncertain, RecreateJob, ObserveError, Observe,
         ObserveMissing, ObserveSuspended, ObserveAdmitted, ObserveFailed,
         ObserveSucceeded, Promote, PromoteFailed, DeleteJob, DeleteError,
         ConfirmPending, ConfirmJob, ConfirmGone, WriteReport
<1>6. ASSUME NEW a \in AttemptIds, Cluster(a) PROVE disk' = disk
  BY <1>6 DEF Cluster, Admit, StartPods, EndJob, JobGone, PodsGone, Evict,
              OutsideDelete, JobMoves
<1>7. \/ disk' = disk
      \/ \E t \in Threads : SaveStarted(t) \/ SaveCleanup(t) \/ Save(t)
  BY <1>3, <1>5, <1>6
     DEF Next, Reconcile, Cancel, AlreadyOver, WriteFails, Restart,
         GetReport, DeadlinePasses, vars
<1> QED
  BY <1>2, <1>4, <1>7

\* Saves never lose or rewrite history, whatever fails and whenever the service
\* restarts, provided no call enters while submit() is running.
THEOREM HistoryStays == ~Overlap => (Spec => HistoryIsKept)
<1>1. Init => CInv /\ HInv
  <2>1. Init => HInv
    BY DEF Init, HInv
  <2> QED
    BY <2>1, CInvInit
<1>2. CInv /\ HInv /\ [Next]_vars =>
         [disk # NoRecord =>
             /\ disk' # NoRecord
             /\ Len(disk'.attempts) >= Len(disk.attempts)
             /\ \A i \in DOMAIN disk.attempts :
                   /\ Id(disk'.attempts[i]) = Id(disk.attempts[i])
                   /\ ~IsOpen(disk.attempts[i]) =>
                          /\ disk'.attempts[i].phase = disk.attempts[i].phase
                          /\ disk'.attempts[i].cleanup_pending =>
                                 disk.attempts[i].cleanup_pending
             /\ disk.completed \subseteq disk'.completed
             /\ disk.failed \subseteq disk'.failed
             /\ Terminal(disk) => disk'.state = disk.state]_vars
  BY SaveExtends DEF Extends
<1>3. ASSUME ~Overlap PROVE Spec => HistoryIsKept
  <2>1. CInv /\ HInv /\ [Next]_vars => (CInv /\ HInv)'
    BY <1>3, CInvStep, HInvStep
  <2> QED
    BY <1>1, <1>2, <2>1, PTL DEF Spec, HistoryIsKept
<1> QED
  BY <1>3
-----------------------------------------------------------------------------
(* Levels are promoted as LevelPromotion allows *)

\* The level of an active attempt is open, and the attempt is its latest.
LEMMA OpenLevel ==
    ASSUME NEW r \in Record, WellFormed(r), r.attempts # <<>>, IsOpen(LastAttempt(r))
    PROVE  LET c == LastAttempt(r).concurrency
           IN  /\ c \in Levels
               /\ Len(r.attempts) \in TriesOf(r, c)
               /\ LatestTry(r, c) = LastAttempt(r).attempt
               /\ LevelOutcome(r, c) = "open"
               /\ \A i \in TriesOf(r, c) : r.attempts[i].phase # "succeeded"
               /\ c \notin r.failed
<1> DEFINE c == LastAttempt(r).concurrency
           n == Len(r.attempts)
<1>1. /\ n \in Nat /\ n \in DOMAIN r.attempts /\ DOMAIN r.attempts = 1..n
      /\ c \in Levels /\ LastAttempt(r) = r.attempts[n] /\ r # NoRecord
  BY RecordParts, NoRecordAssumption DEF LastAttempt
<1>2. /\ HasActive(r) /\ ~Terminal(r)
  BY OnlyLastUnsettled
<1>3. c \notin r.failed /\ c \notin r.completed
  BY <1>2 DEF WellFormed, StateMatchesHistory, Decided
<1>4. ASSUME NEW i \in TriesOf(r, c) PROVE r.attempts[i].phase # "succeeded"
  <2>1. i \in DOMAIN r.attempts /\ r.attempts[i].concurrency = c
    BY <1>1, <1>4 DEF TriesOf, AttemptsOf
  <2>2. CASE i = n
    BY <1>1, <2>2 DEF IsOpen, FinalPhases
  <2>3. CASE i # n
    <3>1. ~r.attempts[i].cleanup_pending
      BY <2>1, <2>3 DEF WellFormed, EarlierSettled, IsSettled
    <3> QED
      BY <1>3, <2>1, <3>1 DEF WellFormed, DecidedByAttempts
  <2> QED
    BY <2>2, <2>3
<1>5. LevelOutcome(r, c) = "open"
  BY <1>3, <1>4 DEF LevelOutcome
<1>6. TriesOf(r, c) = {j \in 1..n : r.attempts[j].concurrency = r.attempts[n].concurrency}
  BY <1>1 DEF TriesOf, AttemptsOf
<1>7. n \in TriesOf(r, c)
  BY <1>1, <1>6
<1>8. LatestTry(r, c) = LastAttempt(r).attempt
  <2>1. r.attempts[n].attempt =
           Cardinality({j \in 1..n : r.attempts[j].concurrency = r.attempts[n].concurrency})
    BY <1>1 DEF WellFormed, NumberedInOrder
  <2> QED
    BY <1>1, <1>6, <1>7, <2>1 DEF LatestTry
<1> QED
  BY <1>1, <1>3, <1>4, <1>5, <1>7, <1>8

\* The attempts of a level that a save adds: none, or the one that is now active.
LEMMA NewTries ==
    ASSUME NEW d \in Record, NEW q \in Record, WellFormed(q), Extends(d, q), NEW c \in Levels
    PROVE  \/ TriesOf(q, c) = TriesOf(d, c)
           \/ /\ q.attempts # <<>> /\ IsOpen(LastAttempt(q))
              /\ LastAttempt(q).concurrency = c
              /\ Len(q.attempts) \notin TriesOf(d, c)
              /\ TriesOf(q, c) = TriesOf(d, c) \cup {Len(q.attempts)}
<1> DEFINE m == Len(d.attempts)
           k == Len(q.attempts)
<1>1. /\ m \in Nat /\ DOMAIN d.attempts = 1..m /\ k \in Nat /\ DOMAIN q.attempts = 1..k
      /\ q.attempts = <<>> <=> k = 0
      /\ d # NoRecord /\ q # NoRecord
  BY RecordParts, NoRecordAssumption
<1>2. /\ k >= m
      /\ \A i \in 1..m : q.attempts[i].concurrency = d.attempts[i].concurrency
      /\ \A i \in 1..k : i \in 1..m \/ IsOpen(q.attempts[i])
  BY <1>1 DEF Extends, Id
<1>3. \A i \in 1..k : i \in 1..m \/ i = k
  <2>1. \A i \in 1..k : IsOpen(q.attempts[i]) => i = k
    BY <1>1, OnlyLastUnsettled DEF OpenAttempts
  <2> QED
    BY <1>2, <2>1
<1>4. CASE k = m
  BY <1>1, <1>2, <1>4 DEF TriesOf, AttemptsOf
<1>5. CASE k # m
  <2>1. /\ k \in 1..k /\ k \notin 1..m /\ 1..k = 1..m \cup {k}
    BY <1>1, <1>2, <1>3, <1>5
  <2>2. /\ q.attempts # <<>> /\ IsOpen(LastAttempt(q)) /\ LastAttempt(q) = q.attempts[k]
    BY <1>1, <1>2, <2>1 DEF LastAttempt
  <2>3. /\ TriesOf(d, c) = {i \in 1..m : d.attempts[i].concurrency = c}
        /\ TriesOf(q, c) = {i \in 1..k : q.attempts[i].concurrency = c}
    BY <1>1 DEF TriesOf, AttemptsOf
  <2>4. CASE q.attempts[k].concurrency = c
    BY <1>2, <2>1, <2>2, <2>3, <2>4
  <2>5. CASE q.attempts[k].concurrency # c
    BY <1>2, <2>1, <2>3, <2>5
  <2> QED
    BY <2>4, <2>5
<1> QED
  BY <1>4, <1>5

\* The attempts of a level are counted.
LEMMA TriesCount ==
    ASSUME NEW r \in Record, NEW c \in Levels
    PROVE  /\ TriesOf(r, c) \subseteq DOMAIN r.attempts
           /\ TriesOf(r, c) = AttemptsOf(r, c)
           /\ IsFiniteSet(TriesOf(r, c))
           /\ Cardinality(TriesOf(r, c)) \in Nat
           /\ TriesOf(r, c) = {} <=> Cardinality(TriesOf(r, c)) = 0
           /\ LatestTry(r, c) \in Nat \ {0}
<1>1. /\ TriesOf(r, c) = AttemptsOf(r, c) /\ AttemptsOf(r, c) \in SUBSET (1..Len(r.attempts))
      /\ Len(r.attempts) \in Nat /\ DOMAIN r.attempts = 1..Len(r.attempts)
  BY RecordParts, NoRecordAssumption DEF TriesOf, AttemptsOf
<1>2. IsFiniteSet(TriesOf(r, c)) /\ Cardinality(TriesOf(r, c)) \in Nat
  BY <1>1, PartOfInterval
<1>3. TriesOf(r, c) = {} <=> Cardinality(TriesOf(r, c)) = 0
  BY <1>2, FS_EmptySet
<1> QED
  BY <1>1, <1>2, <1>3 DEF LatestTry

\* What a save does to a level: nothing, a retry, a success, a failure.
LEMMA SavedLevel ==
    ASSUME NEW d \in Record, NEW q \in Record, WellFormed(d), WellFormed(q), Extends(d, q),
           NEW c \in Levels, NEW can, Canonical(q.attempts, can)
    PROVE  \/ /\ LatestTry(q, c) = LatestTry(d, c)
              /\ LevelOutcome(q, c) = LevelOutcome(d, c)
           \/ /\ LevelOutcome(d, c) = "open"
              /\ \/ /\ LatestTry(d, c) <= Retries
                    /\ LatestTry(q, c) = LatestTry(d, c) + 1
                    /\ LevelOutcome(q, c) = "open"
                 \/ /\ LatestTry(q, c) = LatestTry(d, c)
                    /\ \/ LevelOutcome(q, c) = "succeeded" /\ can[c] = LatestTry(d, c)
                       \/ LevelOutcome(q, c) = "failed" /\ LatestTry(d, c) = Retries + 1
<1> DEFINE T == TriesOf(d, c)
           U == TriesOf(q, c)
<1>1. /\ T \subseteq DOMAIN d.attempts /\ U \subseteq DOMAIN q.attempts
      /\ T = AttemptsOf(d, c) /\ U = AttemptsOf(q, c)
      /\ IsFiniteSet(T) /\ Cardinality(T) \in Nat
      /\ T = {} <=> Cardinality(T) = 0
      /\ d # NoRecord /\ q # NoRecord
  BY TriesCount, NoRecordAssumption
<1>2. d.failed \subseteq q.failed
  BY DEF Extends
<1>3. \A i \in T : ~IsOpen(d.attempts[i]) => q.attempts[i].phase = d.attempts[i].phase
  BY <1>1 DEF Extends
<1>4. \A i \in T : d.attempts[i].phase = "succeeded" => q.attempts[i].phase = "succeeded"
  BY <1>3 DEF IsOpen, FinalPhases
<1>5. CASE U = T
  <2>1. LatestTry(q, c) = LatestTry(d, c)
    BY <1>5 DEF LatestTry
  <2>2. ASSUME NEW i \in T, d.attempts[i].phase = "succeeded"
        PROVE  LevelOutcome(q, c) = LevelOutcome(d, c)
    BY <1>4, <1>5, <2>2 DEF LevelOutcome
  <2>3. ASSUME \A i \in T : d.attempts[i].phase # "succeeded", c \in d.failed
        PROVE  LevelOutcome(q, c) = LevelOutcome(d, c)
    <3>1. \A i \in U : q.attempts[i].phase = "failed"
      BY <1>1, <1>2, <2>3 DEF WellFormed, DecidedByAttempts
    <3> QED
      BY <1>1, <1>2, <2>3, <3>1 DEF LevelOutcome
  <2>4. ASSUME \A i \in T : d.attempts[i].phase # "succeeded", c \notin d.failed,
               NEW i \in U, q.attempts[i].phase = "succeeded"
        PROVE  /\ LevelOutcome(d, c) = "open" /\ LevelOutcome(q, c) = "succeeded"
               /\ can[c] = LatestTry(d, c)
    <3>1. LevelOutcome(d, c) = "open" /\ LevelOutcome(q, c) = "succeeded"
      BY <2>4 DEF LevelOutcome
    <3>2. i \in T /\ i \in DOMAIN d.attempts /\ IsOpen(d.attempts[i])
      BY <1>1, <1>3, <1>5, <2>4
    <3>3. i = Len(d.attempts)
      BY <3>2, OnlyLastUnsettled DEF OpenAttempts
    <3>4. d.attempts # <<>> /\ IsOpen(LastAttempt(d)) /\ LastAttempt(d).concurrency = c
      BY <1>1, <3>2, <3>3, RecordParts DEF LastAttempt, AttemptsOf
    <3>5. LatestTry(d, c) = d.attempts[i].attempt
      BY <3>3, <3>4, OpenLevel DEF LastAttempt
    <3>6. q.attempts[i].attempt = d.attempts[i].attempt /\ q.attempts[i].concurrency = c
      BY <1>1, <2>4, <3>2 DEF Extends, Id, AttemptsOf
    <3>7. can[q.attempts[i].concurrency] = q.attempts[i].attempt
      BY <1>1, <2>4 DEF Canonical
    <3> QED
      BY <3>1, <3>5, <3>6, <3>7
  <2>5. ASSUME \A i \in T : d.attempts[i].phase # "succeeded", c \notin d.failed,
               \A i \in U : q.attempts[i].phase # "succeeded"
        PROVE  /\ LevelOutcome(d, c) = "open"
               /\ \/ LevelOutcome(q, c) = "open"
                  \/ LevelOutcome(q, c) = "failed" /\ LatestTry(d, c) = Retries + 1
    <3>1. LevelOutcome(d, c) = "open"
      BY <2>5 DEF LevelOutcome
    <3>2. c \notin q.failed => LevelOutcome(q, c) = "open"
      BY <2>5 DEF LevelOutcome
    <3>3. ASSUME c \in q.failed
          PROVE  LevelOutcome(q, c) = "failed" /\ LatestTry(d, c) = Retries + 1
      <4>1. LevelOutcome(q, c) = "failed"
        BY <1>1, <2>5, <3>3 DEF LevelOutcome
      <4>2. Cardinality(T) = Retries + 1
        BY <1>1, <1>5, <3>3 DEF WellFormed, DecidedByAttempts
      <4>3. T # {}
        BY <1>1, <4>2, RetriesAssumption
      <4> QED
        BY <4>1, <4>2, <4>3 DEF LatestTry
    <3> QED
      BY <3>1, <3>2, <3>3
  <2> QED
    BY <2>1, <2>2, <2>3, <2>4, <2>5
<1>6. CASE /\ q.attempts # <<>> /\ IsOpen(LastAttempt(q)) /\ LastAttempt(q).concurrency = c
           /\ Len(q.attempts) \notin T /\ U = T \cup {Len(q.attempts)}
  <2>1. /\ LatestTry(q, c) = LastAttempt(q).attempt /\ LevelOutcome(q, c) = "open"
        /\ \A i \in U : q.attempts[i].phase # "succeeded"
        /\ c \notin q.failed
    BY <1>6, OpenLevel
  <2>2. LevelOutcome(d, c) = "open"
    BY <1>2, <1>4, <1>6, <2>1 DEF LevelOutcome
  <2>3. Cardinality(U) = Cardinality(T) + 1
    <3>1. IsFiniteSet(T)
      BY <1>1
    <3>2. Len(q.attempts) \notin T /\ U = T \cup {Len(q.attempts)}
      BY <1>6
    <3> HIDE DEF T, U
    <3> QED
      BY <3>1, <3>2, FS_AddElement
  <2>4. LatestTry(q, c) = Cardinality(T) + 1
    BY <1>6, <2>3 DEF LatestTry
  <2>5. LatestTry(q, c) \in 1 .. Retries + 1
    BY <1>6, <2>1, RecordParts DEF LastAttempt
  <2>6. CASE T = {}
    BY <1>1, <2>1, <2>2, <2>4, <2>6 DEF LatestTry
  <2>7. CASE T # {}
    <3>1. LatestTry(d, c) = Cardinality(T)
      BY <2>7 DEF LatestTry
    <3>2. LatestTry(d, c) <= Retries /\ LatestTry(q, c) = LatestTry(d, c) + 1
      BY <1>1, <2>4, <2>5, <3>1, RetriesAssumption
    <3> QED
      BY <2>1, <2>2, <3>2
  <2> QED
    BY <2>6, <2>7
<1> QED
  BY <1>5, <1>6, NewTries
\* RunController implements LevelPromotion, at every level.
LEMMA LevelInit == Init => \A c \in Levels : Level(c)!Init
BY DEF Init, Level!Init, LatestTry, LevelOutcome, TriesOf

LEMMA LevelStays ==
    ASSUME NEW c \in Levels, canonical'[c] = canonical[c],
           LatestTry(disk', c) = LatestTry(disk, c), LevelOutcome(disk', c) = LevelOutcome(disk, c)
    PROVE  [Level(c)!Next]_(Level(c)!level)
BY DEF Level!Next, Level!level, LatestTry, LevelOutcome, TriesOf

\* A save is a step of every level.
LEMMA SaveLevel ==
    ASSUME NEW d \in Record, d = disk, NEW q \in Record, q = disk', canonical' = canonical,
           WellFormed(d), WellFormed(q), Extends(d, q), Canonical(q.attempts, canonical),
           NEW c \in Levels
    PROVE  [Level(c)!Next]_(Level(c)!level)
<1>1. LatestTry(disk', c) = LatestTry(q, c) /\ LevelOutcome(disk', c) = LevelOutcome(q, c)
  OBVIOUS
<1>2. \/ /\ LatestTry(q, c) = LatestTry(d, c)
         /\ LevelOutcome(q, c) = LevelOutcome(d, c)
      \/ /\ LevelOutcome(d, c) = "open"
         /\ \/ /\ LatestTry(d, c) <= Retries
               /\ LatestTry(q, c) = LatestTry(d, c) + 1
               /\ LevelOutcome(q, c) = "open"
            \/ /\ LatestTry(q, c) = LatestTry(d, c)
               /\ \/ LevelOutcome(q, c) = "succeeded" /\ canonical[c] = LatestTry(d, c)
                  \/ LevelOutcome(q, c) = "failed" /\ LatestTry(d, c) = Retries + 1
  BY SavedLevel
<1> QED
  BY <1>1, <1>2, LevelStays
     DEF Level!Next, Level!level, Level!Succeed, Level!Fail

\* A promotion, and a removal, is a step of the level of the active attempt.
LEMMA PromoteLevel ==
    ASSUME CInv, NEW t \in Threads, Promote(t) \/ PromoteFailed(t) \/ ObserveFailed(t),
           NEW c \in Levels
    PROVE  [Level(c)!Next]_(Level(c)!level)
<1> DEFINE r == rec[t]
           a == LastAttempt(r)
<1>1. Busy(t) /\ pc[t] \in {"observe", "promote"} /\ disk' = disk
  BY DEF Promote, PromoteFailed, ObserveFailed, At, Busy
<1>2. /\ r \in Record /\ WellFormed(r) /\ HasActive(r) /\ disk = r
  BY <1>1, Inside DEF Follows
<1>3. /\ a.concurrency \in Levels /\ LatestTry(disk, a.concurrency) = a.attempt
      /\ LevelOutcome(disk, a.concurrency) = "open"
  BY <1>2, OnlyLastUnsettled, OpenLevel
<1>4. canonical \in [Levels -> 0 .. Retries + 1]
  BY DEF CInv, TInv, WorldOK
<1>5. /\ LatestTry(disk', c) = LatestTry(disk, c)
      /\ LevelOutcome(disk', c) = LevelOutcome(disk, c)
  BY <1>1
<1>6. CASE c # a.concurrency
  <2>1. canonical'[c] = canonical[c]
    BY <1>4, <1>6 DEF Promote, PromoteFailed, ObserveFailed, Purge
  <2> QED
    BY <1>5, <2>1, LevelStays
<1>7. CASE c = a.concurrency
  <2>1. CASE Promote(t)
    <3>1. canonical[c] \in {0, a.attempt} /\ canonical'[c] = a.attempt
      BY <1>4, <1>7, <2>1 DEF Promote
    <3> QED
      BY <1>3, <1>5, <1>7, <3>1 DEF Level!Next, Level!level, Level!Promote
  <2>2. CASE PromoteFailed(t) \/ ObserveFailed(t)
    <3>1. canonical'[c] = 0 \/ canonical'[c] = canonical[c]
      BY <1>4, <1>7, <2>2 DEF PromoteFailed, ObserveFailed, Purge
    <3> QED
      BY <1>3, <1>5, <1>7, <3>1, LevelStays DEF Level!Next, Level!level, Level!Purge
  <2> QED
    BY <2>1, <2>2
<1> QED
  BY <1>6, <1>7

\* Canonical directories change in these steps only.
LEMMA SaveOrPromote ==
    ASSUME [Next]_vars
    PROVE  \/ canonical' = canonical
           \/ \E t \in Threads : Promote(t) \/ PromoteFailed(t) \/ ObserveFailed(t)
<1>1. ASSUME NEW t \in Threads, Continue(t)
      PROVE  canonical' = canonical \/ Promote(t) \/ PromoteFailed(t) \/ ObserveFailed(t)
  BY <1>1 DEF Continue, SaveStarted, CreateJob, CreateUncertain, RecreateJob, ObserveError,
       Observe, ObserveMissing, ObserveSuspended, ObserveAdmitted, ObserveSucceeded,
       SaveCleanup, DeleteJob, DeleteError, ConfirmPending, ConfirmJob, ConfirmGone, Save,
       WriteReport
<1>2. ASSUME NEW a \in AttemptIds, Cluster(a) PROVE canonical' = canonical
  BY <1>2 DEF Cluster, Admit, StartPods, EndJob, JobGone, PodsGone, Evict,
              OutsideDelete, JobMoves
<1> QED
  BY <1>1, <1>2 DEF Next, Submit, Reconcile, Cancel, AlreadyOver, WriteFails, Restart,
                    GetReport, DeadlinePasses, vars

LEMMA LevelStep ==
    ASSUME CInv, CInv', PInv', HInv, [Next]_vars, NEW c \in Levels
    PROVE  [Level(c)!Next]_(Level(c)!level)
<1>1. CASE \E t \in Threads : Promote(t) \/ PromoteFailed(t) \/ ObserveFailed(t)
  BY <1>1, PromoteLevel
<1>2. CASE canonical' = canonical /\ disk' = disk
  BY <1>2, LevelStays
<1>3. CASE canonical' = canonical /\ disk # NoRecord
  <2>1. /\ disk \in Record /\ WellFormed(disk) /\ disk' # NoRecord
        /\ disk' \in Record /\ WellFormed(disk') /\ Extends(disk, disk')
    BY <1>3, SaveExtends DEF CInv, TInv, DiskOK
  <2>2. Canonical(disk'.attempts, canonical)
    BY <1>3, <2>1 DEF PInv
  <2> QED
    BY <1>3, <2>1, <2>2, SaveLevel
<1>4. CASE canonical' = canonical /\ disk = NoRecord /\ disk' # disk
  <2>1. disk' = NewRecord
    <3>1. ~\E t \in Threads : Busy(t)
      BY <1>4 DEF CInv, Alone
    <3>2. \A t \in Threads : ~Continue(t)
      BY <3>1 DEF Continue, SaveStarted, CreateJob, CreateUncertain, RecreateJob, ObserveError,
         Observe, ObserveMissing, ObserveSuspended, ObserveAdmitted, ObserveFailed,
         ObserveSucceeded, Promote, PromoteFailed, SaveCleanup, DeleteJob, DeleteError,
         ConfirmPending, ConfirmJob, ConfirmGone, Save, WriteReport, At, Busy
    <3>3. ASSUME NEW a \in AttemptIds, Cluster(a) PROVE disk' = disk
      BY <3>3 DEF Cluster, Admit, StartPods, EndJob, JobGone, PodsGone, Evict,
                  OutsideDelete, JobMoves
    <3> QED
      BY <1>4, <3>2, <3>3 DEF Next, Submit, Saved, Reconcile, Cancel, AlreadyOver, WriteFails,
                  Restart, GetReport, DeadlinePasses, vars
  <2>2. \A r : r \in {NoRecord, NewRecord} => LatestTry(r, c) = 1 /\ LevelOutcome(r, c) = "open"
    BY DEF LatestTry, LevelOutcome, TriesOf, AttemptsOf, NewRecord
  <2> QED
    BY <1>4, <2>1, <2>2, LevelStays
<1> QED
  BY <1>1, <1>2, <1>3, <1>4, SaveOrPromote

\* Every level is promoted, retried and decided as LevelPromotion allows, provided
\* no call enters while submit() is running.
THEOREM LevelsFollow == ~Overlap => (Spec => LevelsFit)
<1> DEFINE I == CInv /\ PInv /\ HInv
<1>1. Init => I /\ \A c \in Levels : Level(c)!Init
  <2>1. Init => HInv
    BY DEF Init, HInv
  <2> QED
    BY <2>1, CInvInit, PInvInit, LevelInit
<1>2. ASSUME ~Overlap PROVE I /\ [Next]_vars => I'
  BY <1>2, CInvStep, PInvStep, HInvStep
<1>3. I /\ I' /\ [Next]_vars => [\A c \in Levels : [Level(c)!Next]_(Level(c)!level)]_vars
  BY LevelStep
<1>4. ASSUME ~Overlap PROVE Spec => LevelsFit
  <2>1. I /\ [Next]_vars => I'
    BY <1>2, <1>4
  <2> HIDE DEF I
  <2> QED
    BY <1>1, <1>3, <2>1, PTL DEF Spec, LevelsFit
<1> QED
  BY <1>4

-----------------------------------------------------------------------------
(* Jobs are created, seen and found gone as JobLifecycle allows *)

\* The mapping, for the one thread that is inside a call.
SeenAt(label, r, a) ==
    IF label = "recreate" /\ LastId(r) = a THEN "missing"
    ELSE IF label = "promote" /\ LastId(r) = a THEN "succeeded"
    ELSE "nothing"
FoundAt(label, r, a) ==
    \/ label = "pods" /\ LastId(r) = a
    \/ label \in {"start", "save"} /\ IsGone(r, a)
CheckedAt(label, r, d, a) ==
    IF d # NoRecord /\ IsGone(d, a) THEN "gone"
    ELSE IF FoundAt(label, r, a) THEN "job"
    ELSE "no"

LEMMA OnlyThisView ==
    ASSUME NEW t \in Threads, NEW a \in AttemptIds,
           \A u \in Threads : u # t => ~Busy(u)
    PROVE  /\ SeenOf(a) = SeenAt(pc[t], rec[t], a)
           /\ CheckedOf(a) = CheckedAt(pc[t], rec[t], disk, a)
<1>1. \A u \in Threads : u # t => pc[u] \in {"begin", "idle"}
  BY DEF Busy
<1>2. SeenOf(a) = SeenAt(pc[t], rec[t], a)
  BY <1>1 DEF SeenOf, SeenAt, At
<1>3. (\E u \in Threads : FoundGone(u, a)) <=> FoundAt(pc[t], rec[t], a)
  BY <1>1 DEF FoundGone, FoundAt, At
<1> QED
  BY <1>2, <1>3 DEF CheckedOf, CheckedAt

LEMMA OnlyThisViewNext ==
    ASSUME NEW t \in Threads, NEW a \in AttemptIds,
           \A u \in Threads : u # t => ~Busy(u)'
    PROVE  /\ SeenOf(a)' = SeenAt(pc'[t], rec'[t], a)
           /\ CheckedOf(a)' = CheckedAt(pc'[t], rec'[t], disk', a)
<1>1. \A u \in Threads : u # t => pc'[u] \in {"begin", "idle"}
  BY DEF Busy
<1>2. SeenOf(a)' = SeenAt(pc'[t], rec'[t], a)
  BY <1>1 DEF SeenOf, SeenAt, At
<1>3. (\E u \in Threads : FoundGone(u, a)') <=> FoundAt(pc'[t], rec'[t], a)
  BY <1>1 DEF FoundGone, FoundAt, At
<1> QED
  BY <1>2, <1>3 DEF CheckedOf, CheckedAt

\* Before and after a step of a thread, the view is that thread's.
LEMMA ThreadView ==
    ASSUME CInv, CInv', NEW t \in Threads, Busy(t) \/ Busy(t)',
           \A u \in Threads : u # t => pc'[u] = pc[u],
           NEW a \in AttemptIds
    PROVE  /\ SeenOf(a) = SeenAt(pc[t], rec[t], a)
           /\ CheckedOf(a) = CheckedAt(pc[t], rec[t], disk, a)
           /\ SeenOf(a)' = SeenAt(pc'[t], rec'[t], a)
           /\ CheckedOf(a)' = CheckedAt(pc'[t], rec'[t], disk', a)
<1>1. \A u \in Threads : u # t => (Busy(u)' <=> Busy(u))
  BY DEF Busy
<1>2. \A u \in Threads : u # t => ~Busy(u) /\ ~Busy(u)'
  BY <1>1 DEF CInv, Alone
<1> QED
  BY <1>2, OnlyThisView, OnlyThisViewNext

\* RunController implements JobLifecycle, for every attempt: a step that changes
\* nothing of the view
LEMMA JobStays ==
    ASSUME NEW a \in AttemptIds, jobs'[a] = jobs[a],
           SeenOf(a)' = SeenOf(a), CheckedOf(a)' = CheckedOf(a)
    PROVE  [Job(a)!Next]_(Job(a)!view)
BY DEF Job!view

\* No two attempts of a run have the same Job.
LEMMA IdsDistinct ==
    ASSUME NEW r \in Record, WellFormed(r), NEW i \in DOMAIN r.attempts,
           NEW j \in DOMAIN r.attempts, Id(r.attempts[i]) = Id(r.attempts[j])
    PROVE  i = j
<1> DEFINE c == r.attempts[i].concurrency
           Upto(k) == {l \in 1..k : r.attempts[l].concurrency = c}
<1>1. /\ Len(r.attempts) \in Nat /\ DOMAIN r.attempts = 1..Len(r.attempts)
  BY RecordParts
<1>2. /\ r.attempts[j].concurrency = c
      /\ r.attempts[i].attempt = r.attempts[j].attempt
  BY DEF Id
<1>3. /\ Cardinality(Upto(i)) = r.attempts[i].attempt
      /\ Cardinality(Upto(j)) = r.attempts[j].attempt
  BY <1>2 DEF WellFormed, NumberedInOrder
<1>4. \A k, m \in 1..Len(r.attempts) :
         k < m /\ r.attempts[m].concurrency = c => Cardinality(Upto(k)) < Cardinality(Upto(m))
  <2> SUFFICES ASSUME NEW k \in 1..Len(r.attempts), NEW m \in 1..Len(r.attempts),
                      k < m, r.attempts[m].concurrency = c
               PROVE  Cardinality(Upto(k)) < Cardinality(Upto(m))
    OBVIOUS
  <2>1. Upto(k) \subseteq Upto(m) /\ m \in Upto(m) /\ m \notin Upto(k)
    BY <1>1
  <2>2. IsFiniteSet(Upto(m))
    BY <1>1, PartOfInterval, Upto(m) \in SUBSET (1..m), m \in Nat
  <2> HIDE DEF Upto
  <2> QED
    BY <2>1, <2>2, FS_Subset, Upto(k) # Upto(m), FS_CardinalityType
<1>5. \A k \in 1..Len(r.attempts) : Cardinality(Upto(k)) \in Nat
  BY <1>1, PartOfInterval
<1>6. i \in Nat /\ j \in Nat /\ i \in 1..Len(r.attempts) /\ j \in 1..Len(r.attempts)
  BY <1>1
<1> HIDE DEF Upto, c
<1>7. ~(i < j)
  <2>1. i < j => Cardinality(Upto(i)) < Cardinality(Upto(j))
    BY <1>2, <1>4, <1>6
  <2> QED
    BY <1>2, <1>3, <1>5, <1>6, <2>1
<1>8. ~(j < i)
  <2>1. j < i => Cardinality(Upto(j)) < Cardinality(Upto(i))
    BY <1>4, <1>6 DEF c
  <2> QED
    BY <1>2, <1>3, <1>5, <1>6, <2>1
<1> QED
  BY <1>6, <1>7, <1>8

\* A record that goes on has the gone attempts of the one it extends.
LEMMA StaysGone ==
    ASSUME NEW d \in Record, NEW r \in Record, Extends(d, r), NEW a, IsGone(d, a)
    PROVE  IsGone(r, a)
<1>1. PICK i \in DOMAIN d.attempts :
         Id(d.attempts[i]) = a /\ ~IsOpen(d.attempts[i]) /\ ~d.attempts[i].cleanup_pending
  BY DEF IsGone
<1>2. i \in DOMAIN r.attempts
  BY RecordParts DEF Extends
<1>3. /\ Id(r.attempts[i]) = a /\ r.attempts[i].phase = d.attempts[i].phase
      /\ r.attempts[i].cleanup_pending => d.attempts[i].cleanup_pending
  BY <1>1 DEF Extends
<1> QED
  BY <1>1, <1>2, <1>3 DEF IsGone, IsOpen

\* The last attempt is not gone while it is unfinished.
LEMMA NotGoneYet ==
    ASSUME NEW r \in Record, WellFormed(r), Unfinished(r)
    PROVE  ~IsGone(r, LastId(r))
<1>1. Len(r.attempts) \in DOMAIN r.attempts /\ LastAttempt(r) = r.attempts[Len(r.attempts)]
  BY RecordParts DEF Unfinished, LastAttempt
<1>2. ASSUME NEW i \in DOMAIN r.attempts, Id(r.attempts[i]) = LastId(r)
      PROVE  IsOpen(r.attempts[i]) \/ r.attempts[i].cleanup_pending
  <2>1. i = Len(r.attempts)
    BY <1>1, <1>2, IdsDistinct DEF LastId
  <2> QED
    BY <1>1, <2>1 DEF Unfinished
<1> QED
  BY <1>2 DEF IsGone

\* While the last attempt is unfinished, nothing else is gone than before.
LEMMA GoneSame ==
    ASSUME NEW d \in Record, NEW r \in Record, WellFormed(d), WellFormed(r), Extends(d, r),
           Unfinished(r), d.attempts # <<>>, LastId(r) = LastId(d), NEW a
    PROVE  IsGone(r, a) <=> IsGone(d, a)
<1>1. ASSUME IsGone(r, a) PROVE IsGone(d, a)
  <2>1. PICK i \in DOMAIN r.attempts :
           Id(r.attempts[i]) = a /\ ~IsOpen(r.attempts[i]) /\ ~r.attempts[i].cleanup_pending
    BY <1>1 DEF IsGone
  <2>2. i \in DOMAIN d.attempts /\ Id(d.attempts[i]) = a
    BY <2>1 DEF Extends
  <2>3. a # LastId(d)
    BY <1>1, NotGoneYet
  <2>4. i # Len(d.attempts)
    BY <2>2, <2>3 DEF LastId, LastAttempt
  <2>5. IsSettled(d.attempts[i])
    BY <2>2, <2>4 DEF WellFormed, EarlierSettled
  <2> QED
    BY <2>2, <2>5 DEF IsGone, IsSettled, IsOpen, FinalPhases
<1> QED
  BY <1>1, StaysGone
\* The facts about a step of thread t that the steps below need.
LEMMA OwnStep ==
    ASSUME CInv, NEW t \in Threads, Continue(t) \/ WriteFails(t)
    PROVE  /\ Busy(t)
           /\ \A u \in Threads : u # t => pc'[u] = pc[u]
           /\ rec[t] \in Record /\ WellFormed(rec[t])
           /\ disk \in Record /\ WellFormed(disk) /\ disk # NoRecord
           /\ Follows(pc[t], rec[t], disk, jobs)
           /\ \A q, label : Goto(t, q, label) => rec'[t] = q /\ pc'[t] = label
           /\ Return(t) => pc'[t] = "idle"
<1>1. pc \in [Threads -> PC] /\ DOMAIN rec = Threads
  BY DEF CInv, TInv, ThreadsOK
<1>2. Busy(t)
  BY DEF Continue, WriteFails, SaveStarted, CreateJob, CreateUncertain, RecreateJob,
         ObserveError, Observe, ObserveMissing, ObserveSuspended, ObserveAdmitted,
         ObserveFailed, ObserveSucceeded, Promote, PromoteFailed, SaveCleanup, DeleteJob,
         DeleteError, ConfirmPending, ConfirmJob, ConfirmGone, Save, WriteReport, At, Busy
<1>3. ASSUME Continue(t) PROVE \A u \in Threads : u # t => pc'[u] = pc[u]
  BY <1>1, <1>3 DEF Continue, SaveStarted, CreateJob, CreateUncertain, RecreateJob,
         ObserveError, Observe, ObserveMissing, ObserveSuspended, ObserveAdmitted,
         ObserveFailed, ObserveSucceeded, Promote, PromoteFailed, SaveCleanup, DeleteJob,
         DeleteError, ConfirmPending, ConfirmJob, ConfirmGone, AfterConfirm, Save,
         WriteReport, Goto, Return
<1>4. ASSUME WriteFails(t) PROVE \A u \in Threads : u # t => pc'[u] = pc[u]
  BY <1>1, <1>4 DEF WriteFails, Return
<1>5. \A q, label : Goto(t, q, label) => rec'[t] = q /\ pc'[t] = label
  BY <1>1 DEF Goto
<1>6. Return(t) => pc'[t] = "idle"
  BY <1>1 DEF Return
<1> QED
  BY <1>2, <1>3, <1>4, <1>5, <1>6, Inside

\* A save settles an attempt, or leaves every Job as it was seen.
LEMMA SaveJob ==
    ASSUME CInv, CInv', HInv, NEW t \in Threads,
           SaveStarted(t) \/ SaveCleanup(t) \/ Save(t),
           NEW a \in AttemptIds
    PROVE  [Job(a)!Next]_(Job(a)!view)
<1> DEFINE r == rec[t]
<1>0. Continue(t)
  BY DEF Continue
<1>1. /\ Busy(t) /\ \A u \in Threads : u # t => pc'[u] = pc[u]
      /\ r \in Record /\ WellFormed(r) /\ r # NoRecord
      /\ disk \in Record /\ WellFormed(disk) /\ disk # NoRecord
      /\ Follows(pc[t], r, disk, jobs)
  BY <1>0, OwnStep, NoRecordAssumption
<1>2. /\ pc[t] \in {"start", "queue_cleanup", "save"} /\ disk' = r /\ jobs' = jobs
  BY DEF SaveStarted, SaveCleanup, Save, Saved, At
<1>3. pc'[t] \in {"create", "delete", "idle", "report"}
  BY <1>0, OwnStep DEF SaveStarted, SaveCleanup, Save
<1>4. Extends(disk, r)
  BY <1>2 DEF HInv
<1>5. IsGone(disk, a) => IsGone(r, a)
  BY <1>1, <1>4, StaysGone
<1>6. /\ SeenOf(a) = "nothing" /\ SeenOf(a)' = "nothing"
      /\ CheckedOf(a) = IF IsGone(disk, a) THEN "gone"
                        ELSE IF pc[t] \in {"start", "save"} /\ IsGone(r, a) THEN "job"
                        ELSE "no"
      /\ CheckedOf(a)' = IF IsGone(r, a) THEN "gone" ELSE "no"
  BY <1>1, <1>2, <1>3, ThreadView DEF SeenAt, CheckedAt, FoundAt
<1>7. CASE IsGone(r, a) <=> IsGone(disk, a)
  BY <1>2, <1>6, <1>7, JobStays
<1>8. CASE NoJobs(jobs) /\ pc[t] \in {"start", "save"}
  <2>1. jobs[a] = "absent"
    BY <1>8 DEF NoJobs
  <2>2. CASE IsGone(r, a) /\ ~IsGone(disk, a)
    BY <1>2, <1>6, <1>8, <2>1, <2>2 DEF Job!Next, Job!CheckPods
  <2> QED
    BY <1>5, <1>7, <2>2
<1>9. CASE ~(NoJobs(jobs) /\ pc[t] \in {"start", "save"})
  <2>1. Unfinished(r) /\ LastId(r) = LastId(disk) /\ disk.attempts # <<>>
    <3>1. CASE pc[t] = "queue_cleanup"
      BY <1>1, <3>1, Inside, OnlyLastUnsettled DEF Follows
    <3>2. CASE pc[t] = "save"
      <4>1. Unfinished(r) /\ LastId(r) = LastId(disk) /\ ~NoJobs(jobs)
        BY <1>1, <1>9, <3>2 DEF Follows
      <4>2. Unfinished(disk)
        BY <4>1, NotUnfinishedNoJobs DEF CInv
      <4> QED
        BY <4>1, <4>2 DEF Unfinished
    <3>3. pc[t] # "start"
      BY <1>1, <1>9 DEF Follows
    <3> QED
      BY <1>2, <3>1, <3>2, <3>3
  <2>2. IsGone(r, a) <=> IsGone(disk, a)
    BY <1>1, <1>4, <2>1, GoneSame
  <2> QED
    BY <1>7, <2>2
<1> QED
  BY <1>8, <1>9

\* A call that fails, or that was for nothing, is started again from the Job.
LEMMA GivenUp ==
    ASSUME CInv, CInv', NEW t \in Threads, Busy(t),
           \A u \in Threads : u # t => pc'[u] = pc[u],
           pc'[t] \in {"idle", "save"}, pc'[t] = "save" => rec'[t] = disk,
           disk # NoRecord, UNCHANGED <<disk, jobs>>, NEW a \in AttemptIds
    PROVE  [Job(a)!Next]_(Job(a)!view)
<1>1. /\ SeenOf(a)' = "nothing"
      /\ CheckedOf(a)' = IF IsGone(disk, a) THEN "gone" ELSE "no"
      /\ CheckedOf(a) = "gone" <=> IsGone(disk, a)
  BY ThreadView DEF SeenAt, CheckedAt, FoundAt
<1>2. CASE IsGone(disk, a)
  BY <1>1, <1>2 DEF Job!Next, Job!Look
<1>3. CASE ~IsGone(disk, a)
  BY <1>1, <1>3 DEF Job!Next, Job!CheckAgain
<1> QED
  BY <1>2, <1>3

\* A look at the Job that leaves what is gone as it is.
LEMMA LookJob ==
    ASSUME CInv, CInv', NEW t \in Threads, Busy(t),
           \A u \in Threads : u # t => pc'[u] = pc[u],
           UNCHANGED <<disk, jobs>>, NEW a \in AttemptIds,
           FoundAt(pc'[t], rec'[t], a) <=> FoundAt(pc[t], rec[t], a),
           \/ SeenAt(pc'[t], rec'[t], a) = "nothing"
           \/ SeenAt(pc'[t], rec'[t], a) = "missing" /\ jobs[a] \in {"absent", "draining"}
           \/ SeenAt(pc'[t], rec'[t], a) = "succeeded" /\ jobs[a] \in {"succeeded", "deleting"}
    PROVE  [Job(a)!Next]_(Job(a)!view)
<1>1. /\ CheckedOf(a)' = CheckedOf(a)
      /\ SeenOf(a)' = SeenAt(pc'[t], rec'[t], a)
  BY ThreadView DEF CheckedAt
<1>2. /\ {"missing", "succeeded"} \subseteq DOMAIN Job(a)!Shows
      /\ Job(a)!Shows["missing"] = {"absent", "draining"}
      /\ Job(a)!Shows["succeeded"] = {"succeeded", "deleting"}
  BY DEF Job!Shows
<1> QED
  BY <1>1, <1>2 DEF Job!Next, Job!Look

\* The creates.
LEMMA CreateJobs ==
    ASSUME CInv, CInv', NEW t \in Threads,
           CreateJob(t) \/ CreateUncertain(t) \/ RecreateJob(t), NEW a \in AttemptIds
    PROVE  [Job(a)!Next]_(Job(a)!view)
<1> DEFINE r == rec[t]
<1>0. Continue(t)
  BY DEF Continue
<1>1. /\ Busy(t) /\ \A u \in Threads : u # t => pc'[u] = pc[u]
      /\ r \in Record /\ WellFormed(r) /\ r # NoRecord
  BY <1>0, OwnStep, NoRecordAssumption
<1>2. disk = r /\ disk' = disk /\ pc[t] \in {"create", "recreate"}
  BY <1>0, OwnStep DEF CreateJob, CreateUncertain, RecreateJob, At, Follows
<1>3. /\ pc'[t] \in {"idle", "save"}
      /\ pc'[t] = "save" => rec'[t].attempts = r.attempts
  <2>1. CASE CreateJob(t) \/ CreateUncertain(t)
    BY <1>0, <2>1, OwnStep DEF CreateJob, CreateUncertain
  <2>2. CASE RecreateJob(t)
    BY <1>0, <1>1, <2>2, OwnStep DEF RecreateJob, Record
  <2> QED
    BY <2>1, <2>2
<1>4. pc'[t] = "save" => (IsGone(rec'[t], a) <=> IsGone(disk, a))
  BY <1>2, <1>3 DEF IsGone
<1>5. /\ CheckedOf(a)' = CheckedOf(a)
      /\ SeenOf(a)' = "nothing"
  BY <1>1, <1>2, <1>3, <1>4, ThreadView DEF SeenAt, CheckedAt, FoundAt
<1>6. CASE jobs'[a] = jobs[a]
  BY <1>5, <1>6 DEF Job!Next, Job!Look
<1>7. CASE jobs'[a] # jobs[a]
  <2>1. Created(LastId(r))
    BY <1>7 DEF CreateJob, CreateUncertain, RecreateJob
  <2>2. jobs[a] \in {"absent", "draining"} /\ jobs'[a] = "suspended"
    BY <1>7, <2>1 DEF Created, CInv, TInv, WorldOK
  <2> QED
    BY <1>5, <2>2 DEF Job!Next, Job!Create
<1> QED
  BY <1>6, <1>7

\* The looks at the Job, and what a promotion makes of a Job that succeeded.
LEMMA ObserveJob ==
    ASSUME CInv, CInv', NEW t \in Threads,
           ObserveError(t) \/ Observe(t) \/ Promote(t) \/ PromoteFailed(t),
           NEW a \in AttemptIds
    PROVE  [Job(a)!Next]_(Job(a)!view)
<1> DEFINE r == rec[t]
<1>0. Continue(t)
  BY DEF Continue
<1>1. /\ Busy(t) /\ \A u \in Threads : u # t => pc'[u] = pc[u]
      /\ r \in Record /\ WellFormed(r) /\ r # NoRecord
  BY <1>0, OwnStep, NoRecordAssumption
<1>2. pc[t] \in {"observe", "promote"} /\ UNCHANGED <<disk, jobs>>
  BY DEF ObserveError, Observe, ObserveMissing, ObserveSuspended, ObserveAdmitted,
         ObserveFailed, ObserveSucceeded, Promote, PromoteFailed, At
<1>3. disk = r /\ HasActive(r) /\ ~FoundAt(pc[t], r, a)
  BY <1>1, <1>2, Inside DEF Follows, FoundAt
<1>4. CASE ObserveError(t)
  BY <1>0, <1>1, <1>2, <1>3, <1>4, OwnStep, GivenUp DEF ObserveError
<1>5. CASE pc'[t] = "queue_cleanup"
  BY <1>1, <1>2, <1>3, <1>5, LookJob DEF SeenAt, FoundAt
<1>6. CASE ObserveMissing(t) /\ pc'[t] # "queue_cleanup"
  <2>1. pc'[t] = "recreate" /\ rec'[t] = r /\ jobs[LastId(r)] \in {"absent", "draining"}
    BY <1>0, <1>6, OwnStep DEF ObserveMissing
  <2> QED
    BY <1>1, <1>2, <1>3, <2>1, LookJob DEF SeenAt, FoundAt
<1>7. CASE ObserveSucceeded(t)
  <2>1. pc'[t] = "promote" /\ rec'[t] = r /\ jobs[LastId(r)] \in {"succeeded", "deleting"}
    BY <1>0, <1>7, OwnStep DEF ObserveSucceeded
  <2> QED
    BY <1>1, <1>2, <1>3, <2>1, LookJob DEF SeenAt, FoundAt
<1>8. CASE (ObserveSuspended(t) \/ ObserveAdmitted(t)) /\ pc'[t] # "queue_cleanup"
  <2>1. PICK phase \in PendingPhases :
           rec'[t] = Observed(r, ActiveAttempt(r), phase) /\ pc'[t] = "save"
    BY <1>0, <1>8, OwnStep DEF ObserveSuspended, ObserveAdmitted, Active, PendingPhases
  <2> DEFINE q == Observed(r, ActiveAttempt(r), phase)
  <2>2. /\ q \in Record /\ WellFormed(q) /\ Unfinished(q) /\ LastId(q) = LastId(r)
        /\ Extends(r, q) /\ r.attempts # <<>>
    BY <1>1, <1>3, StillUnfinished, ActiveExtends, OnlyLastUnsettled
  <2> HIDE DEF q
  <2>3. IsGone(q, a) <=> IsGone(r, a)
    BY <1>1, <2>2, GoneSame
  <2>4. /\ SeenOf(a) = "nothing" /\ SeenOf(a)' = "nothing"
        /\ CheckedOf(a)' = CheckedOf(a)
    <3>1. rec'[t] = q
      BY <2>1 DEF q
    <3>2. pc[t] = "observe"
      BY <1>8 DEF ObserveSuspended, ObserveAdmitted, At
    <3> QED
      BY <1>1, <1>2, <1>3, <2>1, <2>3, <3>1, <3>2, ThreadView DEF SeenAt, CheckedAt, FoundAt
  <2> QED
    BY <1>2, <2>4, JobStays
<1>9. ObserveFailed(t) \/ Promote(t) \/ PromoteFailed(t) => pc'[t] = "queue_cleanup"
  BY <1>0, OwnStep DEF ObserveFailed, Promote, PromoteFailed
<1> QED
  BY <1>4, <1>5, <1>6, <1>7, <1>8, <1>9 DEF Observe

\* The deletion
LEMMA DeleteJobs ==
    ASSUME CInv, CInv', NEW t \in Threads, DeleteJob(t) \/ DeleteError(t),
           NEW a \in AttemptIds
    PROVE  [Job(a)!Next]_(Job(a)!view)
<1> DEFINE r == rec[t]
<1>0. Continue(t)
  BY DEF Continue
<1>1. /\ Busy(t) /\ \A u \in Threads : u # t => pc'[u] = pc[u]
      /\ r \in Record /\ WellFormed(r) /\ r # NoRecord
  BY <1>0, OwnStep, NoRecordAssumption
<1>2. pc[t] = "delete" /\ disk' = disk /\ disk = r
  BY <1>0, OwnStep DEF DeleteJob, DeleteError, At, Follows
<1>3. rec'[t] = r /\ pc'[t] \in {"confirm", "save"}
  BY <1>0, OwnStep DEF DeleteJob, DeleteError
<1>4. /\ SeenOf(a)' = SeenOf(a) /\ CheckedOf(a)' = CheckedOf(a)
  BY <1>1, <1>2, <1>3, ThreadView DEF SeenAt, CheckedAt, FoundAt
<1>5. CASE jobs'[a] = jobs[a]
  BY <1>4, <1>5, JobStays
<1>6. CASE jobs'[a] # jobs[a]
  <2>1. Deleted(CleanupId(t))
    BY <1>6 DEF DeleteJob, DeleteError
  <2>2. jobs \in [AttemptIds -> JobState]
    BY DEF CInv, TInv, WorldOK
  <2>3. /\ jobs[a] \in {"suspended", "pending", "running", "succeeded", "failed"}
        /\ jobs'[a] = "deleting"
    BY <1>6, <2>1, <2>2 DEF Deleted, JobState
  <2> QED
    BY <1>4, <2>3 DEF Job!Next, Job!Delete, Job!Moves
<1> QED
  BY <1>5, <1>6

\* The look for the Job behind a deletion
LEMMA ConfirmJobs ==
    ASSUME CInv, CInv', NEW t \in Threads, ConfirmPending(t) \/ ConfirmJob(t),
           NEW a \in AttemptIds
    PROVE  [Job(a)!Next]_(Job(a)!view)
<1> DEFINE r == rec[t]
<1>0. Continue(t)
  BY DEF Continue
<1>1. /\ Busy(t) /\ \A u \in Threads : u # t => pc'[u] = pc[u]
      /\ r \in Record /\ WellFormed(r) /\ r # NoRecord
  BY <1>0, OwnStep, NoRecordAssumption
<1>2. /\ pc[t] \in {"confirm", "pods"} /\ UNCHANGED <<disk, jobs>> /\ disk = r /\ HasCleanup(r)
      /\ rec'[t] = r
  <2>1. pc[t] \in {"confirm", "pods"} /\ UNCHANGED <<disk, jobs>>
    BY DEF ConfirmPending, ConfirmJob, At
  <2>2. rec'[t] = r
    BY <1>0, OwnStep DEF ConfirmPending, ConfirmJob
  <2> QED
    BY <1>1, <2>1, <2>2, Inside DEF Follows
<1>3. CASE ConfirmPending(t)
  <2>1. pc'[t] = "save"
    BY <1>0, <1>3, OwnStep DEF ConfirmPending
  <2> QED
    BY <1>1, <1>2, <2>1, GivenUp
<1>4. CASE ConfirmJob(t)
  <2>1. pc[t] = "confirm" /\ pc'[t] = "pods" /\ jobs[LastId(r)] \in {"absent", "draining"}
    BY <1>0, <1>1, <1>2, <1>4, OwnStep, CleanupIdIsLast DEF ConfirmJob, At
  <2>2. ~IsGone(disk, LastId(r))
    BY <1>1, <1>2, NotGoneYet, Inside
  <2>3. /\ SeenOf(a) = "nothing" /\ SeenOf(a)' = "nothing"
        /\ a # LastId(r) => CheckedOf(a)' = CheckedOf(a)
        /\ a = LastId(r) => CheckedOf(a)' = "job"
    BY <1>1, <1>2, <2>1, <2>2, ThreadView DEF SeenAt, CheckedAt, FoundAt
  <2>4. CASE a = LastId(r)
    BY <1>2, <2>1, <2>3, <2>4 DEF Job!Next, Job!CheckJob
  <2>5. CASE a # LastId(r)
    BY <1>2, <2>3, <2>5, JobStays
  <2> QED
    BY <2>4, <2>5
<1> QED
  BY <1>3, <1>4

\* What follows a cleanup has that attempt gone, and no other.
LEMMA AfterCleanupGone ==
    ASSUME NEW r \in Record, WellFormed(r), HasCleanup(r), NEW a
    PROVE  IsGone(AfterCleanup(r, CleanupAttempt(r)), a) <=> IsGone(r, a) \/ a = LastId(r)
<1> DEFINE q == AfterCleanup(r, CleanupAttempt(r))
           n == Len(r.attempts)
<1>1. /\ q \in Record /\ WellFormed(q) /\ q.attempts # <<>>
      /\ IsOpen(LastAttempt(q)) \/ ~HoldsCapacity(q)
      /\ Extends(r, q)
  BY AfterCleanupWellFormed, AfterCleanupExtends
<1>2. /\ r.attempts # <<>> /\ n \in DOMAIN r.attempts /\ LastAttempt(r) = r.attempts[n]
      /\ ~IsOpen(r.attempts[n])
  BY OnlyLastUnsettled, RecordParts DEF LastAttempt
<1> HIDE DEF q, n
<1>3. ~HasCleanup(q)
  BY <1>1, OnlyLastUnsettled DEF HoldsCapacity
<1>4. \A i \in DOMAIN q.attempts : ~q.attempts[i].cleanup_pending
  BY <1>3 DEF HasCleanup, CleanupAttempts
<1>5. IsGone(r, a) => IsGone(q, a)
  BY <1>1, StaysGone
<1>6. a = LastId(r) => IsGone(q, a)
  <2>1. n \in DOMAIN q.attempts
    BY <1>1, <1>2, RecordParts DEF Extends
  <2>2. /\ Id(q.attempts[n]) = LastId(r) /\ ~IsOpen(q.attempts[n])
    BY <1>1, <1>2 DEF Extends, LastId, IsOpen
  <2> QED
    BY <1>4, <2>1, <2>2 DEF IsGone
<1>7. ASSUME IsGone(q, a) PROVE IsGone(r, a) \/ a = LastId(r)
  <2>1. PICK i \in DOMAIN q.attempts : Id(q.attempts[i]) = a /\ ~IsOpen(q.attempts[i])
    BY <1>7 DEF IsGone
  <2>2. i \in DOMAIN r.attempts /\ Id(r.attempts[i]) = a
    BY <1>1, <2>1 DEF Extends
  <2>3. CASE i = n
    BY <1>2, <2>2, <2>3 DEF LastId
  <2>4. CASE i # n
    <3>1. IsSettled(r.attempts[i])
      BY <2>2, <2>4 DEF WellFormed, EarlierSettled, n
    <3> QED
      BY <2>2, <3>1 DEF IsGone, IsSettled, IsOpen, FinalPhases
  <2> QED
    BY <2>3, <2>4
<1>8. IsGone(q, a) <=> IsGone(r, a) \/ a = LastId(r)
  BY <1>5, <1>6, <1>7
<1> QED
  BY <1>8 DEF q

\* The look for its Pods
LEMMA ConfirmedJobs ==
    ASSUME CInv, CInv', NEW t \in Threads, ConfirmGone(t), NEW a \in AttemptIds
    PROVE  [Job(a)!Next]_(Job(a)!view)
<1> DEFINE r == rec[t]
           q == AfterCleanup(r, CleanupAttempt(r))
<1>0. Continue(t)
  BY DEF Continue
<1>1. /\ Busy(t) /\ \A u \in Threads : u # t => pc'[u] = pc[u]
      /\ r \in Record /\ WellFormed(r) /\ r # NoRecord
  BY <1>0, OwnStep, NoRecordAssumption
<1>2. pc[t] = "pods" /\ UNCHANGED <<disk, jobs>>
  BY DEF ConfirmGone, At
<1>3. disk = r /\ HasCleanup(r)
  BY <1>1, <1>2, Inside DEF Follows
<1>4. rec'[t] = q /\ pc'[t] \in {"start", "save"}
  BY <1>0, OwnStep DEF ConfirmGone, AfterConfirm
<1>5. IsGone(q, a) <=> IsGone(r, a) \/ a = LastId(r)
  BY <1>1, <1>3, AfterCleanupGone
<1> HIDE DEF q
<1>6. SeenOf(a)' = SeenOf(a) /\ CheckedOf(a)' = CheckedOf(a)
  BY <1>1, <1>2, <1>3, <1>4, <1>5, ThreadView DEF SeenAt, CheckedAt, FoundAt
<1> QED
  BY <1>2, <1>6, JobStays

\* A call enters with nothing seen and nothing found gone.
LEMMA EntryJobs ==
    ASSUME CInv, CInv', NEW t \in Workers, Reconcile(t) \/ Cancel(t), NEW a \in AttemptIds
    PROVE  [Job(a)!Next]_(Job(a)!view)
<1>1. /\ disk \in Record /\ WellFormed(disk) /\ HoldsCapacity(disk)
      /\ UNCHANGED <<disk, jobs>> /\ t \in Threads /\ disk # NoRecord
      /\ pc \in [Threads -> PC] /\ DOMAIN rec = Threads
  BY DEF Reconcile, Cancel, CInv, TInv, DiskOK, ThreadsOK, Threads
<1>2. ASSUME NEW q, NEW label, Enter(t, q, label)
      PROVE  rec'[t] = q /\ pc'[t] = label /\ pc[t] = "idle"
  BY <1>1, <1>2 DEF Enter, At
<1>3. /\ pc[t] = "idle"
      /\ \/ pc'[t] \in {"delete", "observe", "queue_cleanup"}
         \/ pc'[t] \in {"start", "save"} /\ ~HasCleanup(disk) /\ ~HasActive(disk)
  <2>1. \E q : \/ \E label \in {"delete", "observe", "queue_cleanup"} : Enter(t, q, label)
               \/ /\ ~HasCleanup(disk) /\ ~HasActive(disk)
                  /\ \E label \in {"start", "save"} : Enter(t, q, label)
    BY DEF Reconcile, Cancel
  <2> QED
    BY <1>2, <2>1
<1>4. \A u \in Threads : u # t => pc'[u] = pc[u]
  BY <1>1 DEF Reconcile, Cancel, Enter
<1>5. pc'[t] \in {"start", "save"} => ~IsGone(rec'[t], a)
  <2> SUFFICES ASSUME pc'[t] \in {"start", "save"} PROVE ~IsGone(rec'[t], a)
    OBVIOUS
  <2>1. disk.attempts = <<>>
    BY <1>1, <1>3, NotStarted
  <2>2. Extends(disk, rec'[t])
    BY EntryExtends DEF Saving
  <2>3. \A i \in DOMAIN rec'[t].attempts : IsOpen(rec'[t].attempts[i])
    BY <2>1, <2>2 DEF Extends
  <2> QED
    BY <2>3 DEF IsGone
<1>6. Busy(t)'
  BY <1>3 DEF Busy
<1>7. SeenOf(a)' = SeenOf(a) /\ CheckedOf(a)' = CheckedOf(a)
  BY <1>1, <1>3, <1>4, <1>5, <1>6, ThreadView DEF SeenAt, CheckedAt, FoundAt
<1> QED
  BY <1>1, <1>7, JobStays

\* So does submit.
LEMMA SubmitJobs ==
    ASSUME CInv, CInv', Submit, NEW a \in AttemptIds
    PROVE  [Job(a)!Next]_(Job(a)!view)
<1>1. /\ pc[Submitter] = "begin" /\ pc'[Submitter] = "start" /\ Submitter \in Threads
      /\ \A u \in Threads : u # Submitter => pc'[u] = pc[u]
      /\ rec'[Submitter] = StartAttempt(NewRecord, 1, 1)
      /\ disk' = NewRecord /\ jobs' = jobs /\ disk = NoRecord
  BY DEF Submit, Saved, Goto, At, CInv, Alone, TInv, ThreadsOK, Threads
<1>2. Busy(Submitter)'
  BY <1>1 DEF Busy
<1>3. ~IsGone(NewRecord, a)
  BY DEF IsGone, NewRecord
<1>4. ~IsGone(rec'[Submitter], a)
  <2>1. Extends(NewRecord, rec'[Submitter])
    BY <1>1, SubmitExtends
  <2>2. \A i \in DOMAIN rec'[Submitter].attempts : IsOpen(rec'[Submitter].attempts[i])
    BY <2>1 DEF Extends, NewRecord
  <2> QED
    BY <2>2 DEF IsGone
<1>5. SeenOf(a)' = SeenOf(a) /\ CheckedOf(a)' = CheckedOf(a)
  BY <1>1, <1>2, <1>3, <1>4, ThreadView DEF SeenAt, CheckedAt, FoundAt
<1> QED
  BY <1>1, <1>5, JobStays

\* A call that fails, and one that ends in the report
LEMMA EndedJobs ==
    ASSUME CInv, CInv', NEW t \in Threads, WriteFails(t) \/ WriteReport(t),
           NEW a \in AttemptIds
    PROVE  [Job(a)!Next]_(Job(a)!view)
<1>1. Continue(t) \/ WriteFails(t)
  BY DEF Continue
<1>2. /\ Busy(t) /\ \A u \in Threads : u # t => pc'[u] = pc[u]
      /\ disk # NoRecord
  BY <1>1, OwnStep
<1>3. pc'[t] = "idle" /\ UNCHANGED <<disk, jobs>>
  BY <1>1, OwnStep DEF WriteFails, WriteReport
<1> QED
  BY <1>2, <1>3, GivenUp

\* What the cluster does with a Job
LEMMA ClusterJobs ==
    ASSUME CInv, NEW b \in AttemptIds, Cluster(b), NEW a \in AttemptIds
    PROVE  [Job(a)!Next]_(Job(a)!view)
<1>1. UNCHANGED <<disk, rec, pc>>
  BY DEF Cluster, Admit, StartPods, EndJob, JobGone, PodsGone, Evict, OutsideDelete, JobMoves
<1>2. SeenOf(a)' = SeenOf(a) /\ CheckedOf(a)' = CheckedOf(a)
  BY <1>1 DEF SeenOf, CheckedOf, FoundGone, At
<1>3. jobs \in [AttemptIds -> JobState]
  BY DEF CInv, TInv, WorldOK
<1>4. CASE a # b
  <2>1. jobs'[a] = jobs[a]
    BY <1>3, <1>4 DEF Cluster, Admit, StartPods, EndJob, JobGone, PodsGone, Evict,
                      OutsideDelete, JobMoves
  <2> QED
    BY <1>2, <2>1, JobStays
<1>5. CASE a = b
  <2>1. \/ jobs[a] = "suspended" /\ jobs'[a] = "pending"
        \/ jobs[a] = "pending" /\ jobs'[a] = "running"
        \/ jobs[a] \in {"pending", "running"} /\ jobs'[a] \in {"succeeded", "failed", "suspended"}
        \/ /\ jobs[a] \in {"suspended", "pending", "running", "succeeded", "failed", "deleting"}
           /\ jobs'[a] \in {"draining", "absent"}
        \/ jobs[a] = "draining" /\ jobs'[a] = "absent"
    BY <1>3, <1>5 DEF Cluster, Admit, StartPods, EndJob, JobGone, PodsGone, Evict,
                      OutsideDelete, JobMoves
  <2> QED
    BY <1>2, <2>1 DEF Job!Next, Job!Moves, Job!Admit, Job!StartPods, Job!EndJob, Job!Evict,
                      Job!OutsideDelete, Job!PodsGone
<1> QED
  BY <1>4, <1>5

\* A restart forgets what was seen.
LEMMA RestartJobs ==
    ASSUME CInv, Restart, NEW a \in AttemptIds
    PROVE  [Job(a)!Next]_(Job(a)!view)
<1>1. /\ \A u \in Threads : pc'[u] \in {"begin", "idle"}
      /\ UNCHANGED <<disk, jobs>>
  BY DEF Restart
<1>2. SeenOf(a)' = "nothing"
  BY <1>1 DEF SeenOf, At
<1>3. CheckedOf(a)' = IF disk # NoRecord /\ IsGone(disk, a) THEN "gone" ELSE "no"
  BY <1>1 DEF CheckedOf, FoundGone, At
<1>4. CheckedOf(a) = "gone" <=> disk # NoRecord /\ IsGone(disk, a)
  BY DEF CheckedOf
<1>5. CASE CheckedOf(a) = "gone"
  BY <1>1, <1>2, <1>3, <1>4, <1>5 DEF Job!Next, Job!Look
<1>6. CASE CheckedOf(a) # "gone"
  BY <1>1, <1>2, <1>3, <1>4, <1>6 DEF Job!Next, Job!CheckAgain
<1> QED
  BY <1>5, <1>6

LEMMA JobInit == Init => \A a \in AttemptIds : Job(a)!Init
<1> SUFFICES ASSUME Init, NEW a \in AttemptIds PROVE Job(a)!Init
  OBVIOUS
<1>1. disk = NoRecord /\ jobs[a] = "absent"
  BY DEF Init
<1>2. \A t \in Threads : pc[t] \in {"begin", "idle"}
  BY DEF Init
<1>3. SeenOf(a) = "nothing" /\ CheckedOf(a) = "no"
  BY <1>1, <1>2 DEF SeenOf, CheckedOf, FoundGone, At
<1> QED
  BY <1>1, <1>3 DEF Job!Init

LEMMA JobStep ==
    ASSUME CInv, CInv', HInv, [Next]_vars, NEW a \in AttemptIds
    PROVE  [Job(a)!Next]_(Job(a)!view)
<1>1. ASSUME NEW t \in Threads, Continue(t) PROVE [Job(a)!Next]_(Job(a)!view)
  BY <1>1, SaveJob, CreateJobs, ObserveJob, DeleteJobs, ConfirmJobs, ConfirmedJobs, EndedJobs
     DEF Continue
<1>2. ASSUME NEW t \in Workers, Reconcile(t) \/ Cancel(t) PROVE [Job(a)!Next]_(Job(a)!view)
  BY <1>2, EntryJobs
<1>3. CASE DeadlinePasses \/ GetReport \/ UNCHANGED vars \/ \E u \in Workers : AlreadyOver(u)
  <2>1. UNCHANGED <<disk, rec, pc, jobs>>
    BY <1>3 DEF DeadlinePasses, GetReport, AlreadyOver, vars
  <2>2. SeenOf(a)' = SeenOf(a) /\ CheckedOf(a)' = CheckedOf(a)
    BY <2>1 DEF SeenOf, CheckedOf, FoundGone, At
  <2> QED
    BY <2>1, <2>2, JobStays
<1>4. CASE \/ Submit \/ Restart \/ \E t \in Threads : WriteFails(t)
           \/ \E b \in AttemptIds : Cluster(b)
  BY <1>4, SubmitJobs, RestartJobs, EndedJobs, ClusterJobs
<1>5. Reconcilers \subseteq Workers /\ Cancelers \subseteq Workers
  BY DEF Workers
<1> QED
  BY <1>1, <1>2, <1>3, <1>4, <1>5 DEF Next

\* Every Job is created, looked at, deleted and found gone as JobLifecycle allows,
\* provided no call enters while submit() is running.
THEOREM JobsFollow == ~Overlap => (Spec => JobsFit)
<1> DEFINE I == CInv /\ HInv
<1>1. Init => I /\ \A a \in AttemptIds : Job(a)!Init
  <2>1. Init => HInv
    BY DEF Init, HInv
  <2> QED
    BY <2>1, CInvInit, JobInit
<1>2. ASSUME ~Overlap PROVE I /\ [Next]_vars => I'
  BY <1>2, CInvStep, HInvStep
<1>3. I /\ I' /\ [Next]_vars => [\A a \in AttemptIds : [Job(a)!Next]_(Job(a)!view)]_vars
  BY JobStep
<1>4. ASSUME ~Overlap PROVE Spec => JobsFit
  <2>1. I /\ [Next]_vars => I'
    BY <1>2, <1>4
  <2> HIDE DEF I
  <2> QED
    BY <1>1, <1>3, <2>1, PTL DEF Spec, JobsFit
<1> QED
  BY <1>4

-----------------------------------------------------------------------------
(* The bound of the plan *)

\* A possible story has at most as many attempts as there are numbers for them.
LEMMA StoryWithinPlan ==
    ASSUME NEW r \in Record, WellFormed(r)
    PROVE  Len(r.attempts) <= MaximumAttemptCount
<1> DEFINE n == Len(r.attempts)
           ids == [i \in 1..n |-> Id(r.attempts[i])]
<1>1. n \in Nat /\ DOMAIN r.attempts = 1..n
  BY RecordParts
<1>2. ids \in [1..n -> AttemptIds]
  <2>1. \A i \in 1..n : r.attempts[i] \in Attempt
    BY RecordParts DEF Record
  <2> QED
    BY <2>1 DEF Id, Attempt, AttemptIds
<1>3. \A i, j \in 1..n : ids[i] = ids[j] => i = j
  BY <1>1, IdsDistinct
<1>4. IsFiniteSet(AttemptIds) /\ Cardinality(AttemptIds) = MaximumAttemptCount
  <2>1. LevelCount \in Nat /\ LevelCount > 0 /\ Retries + 1 \in Nat /\ Retries + 1 > 0
    BY LevelCountAssumption, RetriesAssumption
  <2>2. IsFiniteSet(1..LevelCount) /\ Cardinality(1..LevelCount) = LevelCount
    BY <2>1, FS_Interval
  <2>3. IsFiniteSet(1..(Retries + 1)) /\ Cardinality(1..(Retries + 1)) = Retries + 1
    BY <2>1, FS_Interval
  <2> QED
    BY <2>2, <2>3, FS_Product DEF AttemptIds, Levels, MaximumAttemptCount
<1>5. IsFiniteSet(1..n) /\ Cardinality(1..n) = n
  BY <1>1, FS_Interval
<1>6. MaximumAttemptCount \in Nat
  BY <1>4, FS_CardinalityType
<1>7. ~(MaximumAttemptCount < n)
  <2> HIDE DEF ids, n
  <2> SUFFICES ASSUME MaximumAttemptCount < n PROVE FALSE
    OBVIOUS
  <2>1. \E i, j \in 1..n : i # j /\ ids[i] = ids[j]
    BY <1>2, <1>4, <1>5, FS_PigeonHole
  <2> QED
    BY <1>3, <2>1
<1> QED
  BY <1>1, <1>6, <1>7

\* However often a run is interrupted, repeated or canceled, and even when other
\* calls enter while submit() is running, it starts no more attempts than its plan
\* announced.
THEOREM AttemptsBounded == Spec => []AttemptsWithinPlan
<1>1. TInv => AttemptsWithinPlan
  BY StoryWithinPlan DEF TInv, DiskOK, AttemptsWithinPlan
<1>2. QED
  BY <1>1, TInvInit, TInvStep, PTL DEF Spec

=============================================================================
