--------------------------- MODULE PromotionProofs ---------------------------
(***************************************************************************)
(* Theorems about Promotion, for any number of retries, any logs, and any  *)
(* number of interruptions and errors.                                     *)
(***************************************************************************)
EXTENDS Promotion, TLAPS

\* A Job runs once, and once more after each error.
Executions ==
    /\ \A a \in Attempts : source[a].execution <= errors + 1
    /\ \A a \in Attempts : a > attempt => source[a].execution = 0
    /\ job = "running" => source[attempt].execution <= errors

\* What each point of a promotion relies on.
PInv ==
    /\ TypeOK
    /\ Executions
    /\ pc # "idle" => phase = "open" /\ job # "running"
    /\ pc = "publish" => staging[attempt] = Sealed(source[attempt])
    /\ pc = "succeed" => canonical = Sealed(source[attempt])
    /\ phase # "open" => job # "running"
    /\ Published

LEMMA SealedIsDirectory ==
    /\ \A tree \in Tree : Sealed(tree) \in Directory
    /\ Absent \in Directory /\ Partial \in Directory
BY DEF Directory

LEMMA SourceTyped ==
    ASSUME TypeOK
    PROVE  /\ attempt \in Attempts
           /\ source[attempt] \in Tree
           /\ Sealed(source[attempt]) \in Directory
BY SealedIsDirectory DEF TypeOK

LEMMA PInvInit == Init => PInv
<1> SUFFICES ASSUME Init PROVE PInv
  OBVIOUS
<1>1. 1 \in Attempts
  BY RetriesAssumption DEF Attempts
<1>2. \A a \in Attempts : EmptyTree(a) \in Tree
  BY BoundsAssumption DEF EmptyTree, Tree, Kind
<1>3. source \in [Attempts -> Tree] /\ staging \in [Attempts -> Directory]
  BY <1>2, SealedIsDirectory DEF Init
<1>4. interruptions \in 0..MaxInterruptions /\ errors \in 0..MaxErrors
  BY BoundsAssumption DEF Init
<1>5. TypeOK
  BY <1>1, <1>3, <1>4, SealedIsDirectory DEF Init, TypeOK, PC
<1>6. Executions
  BY <1>1 DEF Init, Executions, EmptyTree
<1>7. QED
  BY <1>5, <1>6 DEF Init, PInv, Published

LEMMA FaultTypes ==
    ASSUME TypeOK, UNCHANGED faults \/ Failed \/ Interrupted
    PROVE  /\ interruptions' \in 0..MaxInterruptions
           /\ errors' \in 0..MaxErrors
           /\ errors' >= errors
           /\ Failed => errors' = errors + 1
BY BoundsAssumption DEF TypeOK, faults, Failed, Interrupted

\* What each step costs: an error, an interruption, or nothing.
LEMMA FaultSteps ==
    [Next]_vars => \/ UNCHANGED faults
                   \/ Failed
                   \/ Interrupted /\ (Interrupt \/ InterruptRemoval)
<1>1. JobEnds \/ JobRerun \/ Observe \/ PersistLog => UNCHANGED faults \/ Failed
  BY DEF JobEnds, JobRerun, Observe, PersistLog
<1>2. \/ CheckOversized \/ CheckFailedJob \/ CheckMalformed \/ CheckNew
      \/ AcceptExisting \/ RefuseExisting
      => UNCHANGED faults
  BY DEF CheckOversized, CheckFailedJob, CheckMalformed, CheckNew, AcceptExisting,
         RefuseExisting, Check
<1>3. Stage \/ Seal \/ Publish \/ PromotionFails => UNCHANGED faults \/ Failed
  BY DEF Stage, Seal, Publish, PromotionFails
<1>4. PurgeCanonical \/ PurgeSource \/ SaveSucceeded \/ SaveFailed => UNCHANGED faults
  BY DEF PurgeCanonical, PurgeSource, SaveSucceeded, SaveFailed
<1>5. Interrupt \/ InterruptRemoval => Interrupted
  BY DEF Interrupt, InterruptRemoval
<1>6. Over \/ UNCHANGED vars => UNCHANGED faults
  BY DEF Over, vars, faults
<1> QED
  BY <1>1, <1>2, <1>3, <1>4, <1>5, <1>6 DEF Next

\* The steps that touch neither the files nor the record.
LEMMA ControlSteps ==
    ASSUME PInv, UNCHANGED <<disk, files>>,
           UNCHANGED faults \/ Failed \/ Interrupted,
           pc' \in PC, job' \in {"running", "succeeded", "failed"},
           job' = "running" => job = "running" \/ Failed,
           pc' # "idle" => phase = "open" /\ job' # "running",
           phase # "open" => job' # "running",
           pc' # "publish",
           pc' = "succeed" => canonical = Sealed(source[attempt])
    PROVE  PInv'
<1> USE DEF disk, files
<1>1. TypeOK /\ Executions
  BY DEF PInv
<1>2. TypeOK'
  BY <1>1, FaultTypes DEF TypeOK
<1>3. \A a \in Attempts : source[a].execution \in 0 .. MaxErrors + 1
  BY <1>1 DEF TypeOK, Tree
<1>4. errors \in Nat /\ errors' \in Nat /\ attempt \in Attempts
  BY <1>1, FaultTypes, BoundsAssumption DEF TypeOK
<1>5. Executions'
  BY <1>1, <1>3, <1>4, FaultTypes, BoundsAssumption DEF Executions
<1>6. QED
  BY <1>2, <1>5 DEF PInv, Published

LEMMA JobEndsStep == ASSUME PInv, JobEnds PROVE PInv'
<1>1. TypeOK /\ Executions /\ attempt \in Attempts
  BY DEF PInv, TypeOK
<1>2. PICK kind \in Kind \ {"replaced"} :
          source' = [source EXCEPT ![attempt].kind = kind,
                                   ![attempt].execution = @ + 1,
                                   ![attempt].whole = TRUE]
  BY DEF JobEnds
<1>3. \A a \in Attempts : source[a] \in Tree /\ source[a].execution \in Nat
  BY <1>1, BoundsAssumption DEF TypeOK, Tree
<1>4. source[attempt].execution <= errors /\ errors \in 0..MaxErrors
  BY <1>1 DEF JobEnds, Executions, TypeOK
<1>5. source[attempt].execution + 1 \in 0 .. MaxErrors + 1
  BY <1>1, <1>3, <1>4, BoundsAssumption
<1> DEFINE tree == [source[attempt] EXCEPT !.kind = kind, !.execution = @ + 1,
                                           !.whole = TRUE]
<1>6. tree \in Tree /\ tree.execution = source[attempt].execution + 1
  <2>1. \A old \in Tree, n \in 0 .. MaxErrors + 1 :
            /\ [old EXCEPT !.kind = kind, !.execution = n, !.whole = TRUE] \in Tree
            /\ [old EXCEPT !.kind = kind, !.execution = n, !.whole = TRUE].execution = n
    BY DEF Tree
  <2>2. source[attempt] \in Tree
    BY <1>1, <1>3
  <2> HIDE DEF Tree
  <2>3. tree = [source[attempt] EXCEPT !.kind = kind,
                                       !.execution = source[attempt].execution + 1,
                                       !.whole = TRUE]
    OBVIOUS
  <2>4. QED
    BY <1>5, <2>1, <2>2, <2>3
<1>7. source' = [source EXCEPT ![attempt] = tree]
  BY <1>1, <1>2, <1>3 DEF TypeOK, Tree
<1> HIDE DEF tree
<1>8. pc = "idle" /\ phase = "open"
  BY DEF PInv, JobEnds
<1>9. TypeOK'
  BY <1>1, <1>6, <1>7 DEF JobEnds, TypeOK, disk, faults
<1>10. Executions'
  BY <1>1, <1>3, <1>4, <1>6, <1>7, BoundsAssumption
     DEF JobEnds, Executions, TypeOK, disk, faults, Attempts
<1>11. QED
  BY <1>8, <1>9, <1>10 DEF PInv, Published, JobEnds, disk

\* The steps on the files of an observed attempt leave its execution alone.
LEMMA PersistLogStep == ASSUME PInv, PersistLog PROVE PInv'
<1>1. TypeOK /\ attempt \in Attempts
  BY DEF PInv, TypeOK
<1>2. pc' = "check" /\ pc = "log"
  BY DEF PersistLog, Goto
<1>3. CASE UNCHANGED source
  BY <1>2, <1>3, ControlSteps, <1>1 DEF PersistLog, PC, PInv, TypeOK, files
<1>4. ASSUME NEW log \in Logs, UNCHANGED faults,
             source' = [source EXCEPT ![attempt].log = log]
      PROVE  PInv'
  <2>1. \A a \in Attempts : source[a] \in Tree
    BY <1>1 DEF TypeOK
  <2> DEFINE tree == [source[attempt] EXCEPT !.log = log]
  <2>2. tree \in Tree /\ tree.execution = source[attempt].execution
    BY <1>1, <2>1 DEF Tree
  <2>3. source' = [source EXCEPT ![attempt] = tree]
    BY <1>1, <1>4 DEF TypeOK
  <2> HIDE DEF tree
  <2>4. TypeOK'
    BY <1>1, <1>2, <1>4, <2>2, <2>3 DEF PersistLog, TypeOK, disk, faults, PC
  <2>5. Executions'
    BY <1>1, <1>4, <2>2, <2>3 DEF PersistLog, PInv, TypeOK, Executions, disk, faults
  <2>6. QED
    BY <1>2, <2>4, <2>5 DEF PInv, Published, PersistLog, disk
<1>5. QED
  BY <1>3, <1>4 DEF PersistLog

LEMMA CheckStep ==
    ASSUME PInv,
           \/ CheckOversized \/ CheckFailedJob \/ CheckMalformed \/ CheckNew
           \/ AcceptExisting \/ RefuseExisting
    PROVE  PInv'
<1>1. \E to \in {"purge_canonical", "fail", "stage", "succeed"} :
          Check(to) /\ (to = "succeed" => canonical = Sealed(source[attempt]))
  BY DEF CheckOversized, CheckFailedJob, CheckMalformed, CheckNew, AcceptExisting,
         RefuseExisting
<1>2. pc = "check" /\ UNCHANGED <<disk, job, files, faults>>
  BY <1>1 DEF Check, Goto
<1>3. pc' \in {"purge_canonical", "fail", "stage", "succeed"}
  BY <1>1 DEF Check, Goto
<1>4. pc' = "succeed" => canonical = Sealed(source[attempt])
  BY <1>1 DEF Check, Goto
<1>5. phase = "open" /\ job # "running" /\ job \in {"running", "succeeded", "failed"}
  BY <1>2 DEF PInv, TypeOK
<1>6. QED
  BY <1>2, <1>3, <1>4, <1>5, ControlSteps DEF PC

\* The steps on the staging and the canonical directory.
LEMMA DirectorySteps ==
    ASSUME PInv, Stage \/ Seal \/ Publish \/ PromotionFails \/ PurgeCanonical
    PROVE  PInv'
<1>1. TypeOK /\ Executions /\ Sealed(source[attempt]) \in Directory
      /\ attempt \in Attempts
  BY SourceTyped DEF PInv
<1>2. phase = "open" /\ job # "running"
  BY DEF PInv, Stage, Seal, Publish, PromotionFails, PurgeCanonical, Goto
<1>3. UNCHANGED <<attempt, phase, job, source>>
  BY DEF Stage, Seal, Publish, PromotionFails, PurgeCanonical, disk
<1>4. UNCHANGED faults \/ Failed
  BY DEF Stage, Seal, Publish, PromotionFails, PurgeCanonical
<1>5. /\ staging' \in [Attempts -> Directory]
      /\ canonical' \in Directory
      /\ pc' \in {"seal", "publish", "succeed", "fail", "purge_canonical",
                  "purge_source"}
      /\ pc' = "publish" => staging'[attempt] = Sealed(source[attempt])
      /\ pc' = "succeed" => canonical' = Sealed(source[attempt])
  <2>1. CASE Stage \/ Seal
    BY <1>1, <2>1, SealedIsDirectory DEF Stage, Seal, Goto, TypeOK
  <2>2. CASE Publish
    <3>1. staging[attempt] = Sealed(source[attempt])
      BY <2>2 DEF Publish, Goto, PInv
    <3>2. QED
      BY <1>1, <2>2, <3>1, SealedIsDirectory DEF Publish, Goto, TypeOK
  <2>3. CASE PromotionFails \/ PurgeCanonical
    BY <1>1, <2>3, SealedIsDirectory DEF PromotionFails, PurgeCanonical, Goto, TypeOK
  <2>4. QED
    BY <2>1, <2>2, <2>3
<1>6. TypeOK'
  BY <1>1, <1>3, <1>4, <1>5, FaultTypes DEF TypeOK, PC
<1>7. Executions'
  <2>1. \A a \in Attempts : source[a].execution \in 0 .. MaxErrors + 1
    BY <1>1 DEF TypeOK, Tree
  <2>2. errors \in Nat /\ errors' \in Nat /\ errors' >= errors
    BY <1>1, <1>4, FaultTypes, BoundsAssumption DEF TypeOK
  <2>3. QED
    BY <1>1, <1>2, <1>3, <2>1, <2>2, BoundsAssumption DEF Executions
<1>8. QED
  BY <1>2, <1>3, <1>5, <1>6, <1>7 DEF PInv, Published

LEMMA PurgeSourceStep == ASSUME PInv, PurgeSource PROVE PInv'
<1>1. TypeOK /\ attempt \in Attempts /\ source[attempt] \in Tree
  BY SourceTyped DEF PInv
<1>2. pc = "purge_source" /\ pc' = "fail" /\ phase = "open" /\ job # "running"
  BY DEF PurgeSource, Goto, PInv
<1> DEFINE tree == [source[attempt] EXCEPT !.kind = "replaced", !.log = NoLog,
                                           !.whole = FALSE]
<1>3. tree \in Tree /\ tree.execution = source[attempt].execution
  BY <1>1 DEF Tree, Kind
<1>4. source' = [source EXCEPT ![attempt] = tree]
  BY <1>1 DEF PurgeSource, TypeOK, Tree
<1> HIDE DEF tree
<1>5. TypeOK'
  BY <1>1, <1>2, <1>3, <1>4 DEF PurgeSource, TypeOK, disk, faults, PC
<1>6. Executions'
  BY <1>1, <1>3, <1>4 DEF PurgeSource, PInv, TypeOK, Executions, disk, faults
<1>7. QED
  BY <1>2, <1>5, <1>6 DEF PInv, Published, PurgeSource, disk

LEMMA SaveSteps == ASSUME PInv, SaveSucceeded \/ SaveFailed PROVE PInv'
<1>1. TypeOK /\ Executions /\ attempt \in Attempts
  BY DEF PInv, TypeOK
<1>2. pc' = "idle" /\ job # "running" /\ phase = "open"
  BY DEF SaveSucceeded, SaveFailed, Goto, PInv
<1>3. CASE SaveSucceeded
  <2>1. canonical = Sealed(source[attempt])
    BY <1>3 DEF SaveSucceeded, Goto, PInv
  <2>2. QED
    BY <1>1, <1>2, <1>3, <2>1
       DEF SaveSucceeded, TypeOK, Executions, PInv, Published, files, faults, PC
<1>4. CASE SaveFailed
  <2>1. attempt <= Retries => attempt + 1 \in Attempts
    BY <1>1, RetriesAssumption DEF Attempts
  <2>2. TypeOK'
    BY <1>1, <1>2, <1>4, <2>1 DEF SaveFailed, TypeOK, files, faults, PC
  <2>3. \A a \in Attempts : a > attempt + 1 => a > attempt
    BY <1>1, RetriesAssumption DEF Attempts
  <2>4. attempt + 1 > attempt
    BY <1>1, RetriesAssumption DEF Attempts
  <2>5. errors >= 0
    BY <1>1, BoundsAssumption DEF TypeOK
  <2>6. Executions'
    BY <1>1, <1>2, <1>4, <2>1, <2>3, <2>4, <2>5
       DEF SaveFailed, Executions, files, faults
  <2>7. phase' # "succeeded" /\ (phase' # "open" => job' # "running")
    BY <1>2, <1>4 DEF SaveFailed
  <2>8. QED
    BY <1>2, <2>2, <2>6, <2>7 DEF PInv, Published
<1>5. QED
  BY <1>3, <1>4

LEMMA InterruptStep == ASSUME PInv, Interrupt PROVE PInv'
<1>1. /\ UNCHANGED <<disk, files, job>> /\ Interrupted /\ pc' = "idle"
      /\ job # "running" /\ job \in {"running", "succeeded", "failed"}
  BY DEF Interrupt, PInv, TypeOK
<1>2. QED
  BY <1>1, ControlSteps DEF PC

\* A removal that is cut short leaves a canonical directory that is not sealed,
\* or an attempt directory that is not published.
LEMMA InterruptRemovalStep == ASSUME PInv, InterruptRemoval PROVE PInv'
<1>1. TypeOK /\ Executions /\ attempt \in Attempts /\ source[attempt] \in Tree
  BY SourceTyped DEF PInv
<1>2. /\ pc \in {"purge_canonical", "purge_source"}
      /\ pc' = "idle" /\ phase = "open" /\ job # "running"
      /\ UNCHANGED <<attempt, phase, job, staging>>
      /\ Interrupted
  BY DEF InterruptRemoval, PInv, disk
<1>3. /\ canonical' \in Directory
      /\ \/ source' = source
         \/ \E tree \in Tree : /\ tree.execution = source[attempt].execution
                               /\ source' = [source EXCEPT ![attempt] = tree]
  <2>1. CASE pc = "purge_canonical"
    BY <1>2, <2>1, SealedIsDirectory DEF InterruptRemoval
  <2>2. CASE pc = "purge_source"
    <3>1. PICK kind \in {"good", "malformed", source[attempt].kind},
               log \in {NoLog, source[attempt].log} :
              /\ source' = [source EXCEPT ![attempt].kind = kind,
                                          ![attempt].log = log,
                                          ![attempt].whole = FALSE]
              /\ canonical' = canonical
      BY <2>2 DEF InterruptRemoval
    <3> DEFINE tree == [source[attempt] EXCEPT !.kind = kind, !.log = log,
                                               !.whole = FALSE]
    <3>2. tree \in Tree /\ tree.execution = source[attempt].execution
      BY <1>1, <3>1 DEF Tree, Kind
    <3>3. source' = [source EXCEPT ![attempt] = tree]
      BY <1>1, <3>1 DEF TypeOK, Tree
    <3> HIDE DEF tree
    <3>4. QED
      BY <1>1, <3>1, <3>2, <3>3 DEF TypeOK
  <2>3. QED
    BY <1>2, <2>1, <2>2
<1>4. source' \in [Attempts -> Tree]
      /\ \A a \in Attempts : source'[a].execution = source[a].execution
  BY <1>1, <1>3 DEF TypeOK
<1>5. TypeOK' /\ errors' = errors
  BY <1>1, <1>2, <1>3, <1>4, FaultTypes DEF Interrupted, TypeOK, PC
<1>6. Executions'
  BY <1>1, <1>2, <1>4, <1>5 DEF Executions
<1>7. QED
  BY <1>2, <1>5, <1>6 DEF PInv, Published

LEMMA PInvStep == PInv /\ [Next]_vars => PInv'
<1> SUFFICES ASSUME PInv, [Next]_vars PROVE PInv'
  OBVIOUS
<1>1. CASE JobRerun \/ Observe
  <2>1. /\ UNCHANGED <<disk, files>>
        /\ UNCHANGED faults \/ Failed
        /\ phase = "open"
        /\ pc' \in {"idle", "log"}
        /\ job' \in {"running", "succeeded", "failed"}
        /\ job' = "running" => Failed
        /\ pc' = "log" => job' # "running"
    BY <1>1 DEF JobRerun, Observe, Goto, PInv, TypeOK
  <2>2. QED
    BY <2>1, ControlSteps DEF PC
<1>2. CASE Over \/ UNCHANGED vars
  BY <1>2 DEF Over, vars, PInv, TypeOK, Executions, Published
<1>3. QED
  BY <1>1, <1>2, JobEndsStep, PersistLogStep, CheckStep, DirectorySteps,
     PurgeSourceStep, SaveSteps, InterruptStep, InterruptRemovalStep DEF Next

\* Types
THEOREM PromotionTyped == Spec => []TypeOK
<1>1. PInv => TypeOK
  BY DEF PInv
<1>2. QED
  BY <1>1, PInvInit, PInvStep, PTL DEF Spec

\* A level recorded as succeeded has a complete canonical directory with exactly
\* the files of the attempt that succeeded, however often promotions were cut
\* short or failed before.
THEOREM SuccessIsPublished == Spec => []Published
<1>1. PInv => Published
  BY DEF PInv
<1>2. QED
  BY <1>1, PInvInit, PInvStep, PTL DEF Spec

-----------------------------------------------------------------------------
(* What promotions leave behind                                            *)

\* Without an interruption: only the promotion under way has a staging
\* directory, and only a success is, or is about to be saved as, canonical.
NInv ==
    interruptions = 0 =>
        /\ \A a \in Attempts :
              staging[a] # Absent => a = attempt /\ pc \in {"seal", "publish"}
        /\ canonical # Absent => phase = "succeeded" \/ pc = "succeed"

LEMMA NInvInit == Init => NInv
BY DEF Init, NInv

LEMMA NInvStep == PInv /\ NInv /\ [Next]_vars => NInv'
<1> SUFFICES ASSUME PInv, NInv, [Next]_vars, interruptions' = 0 PROVE NInv'
  BY DEF NInv
<1>1. /\ attempt \in Attempts /\ staging \in [Attempts -> Directory]
      /\ interruptions \in Nat
      /\ pc # "idle" => phase = "open" /\ job # "running"
  BY BoundsAssumption DEF PInv, TypeOK
<1>2. ~Interrupt /\ ~InterruptRemoval /\ interruptions = 0
  BY <1>1, FaultSteps DEF Interrupt, InterruptRemoval, Interrupted, Failed, faults
<1>3. CASE JobEnds \/ JobRerun \/ Observe \/ PersistLog \/ Over \/ UNCHANGED vars
  BY <1>1, <1>2, <1>3
     DEF NInv, JobEnds, JobRerun, Observe, PersistLog, Over, vars, Goto, disk, files
<1>4. CASE \/ CheckOversized \/ CheckFailedJob \/ CheckMalformed \/ CheckNew
           \/ AcceptExisting \/ RefuseExisting
  BY <1>1, <1>2, <1>4
     DEF NInv, CheckOversized, CheckFailedJob, CheckMalformed, CheckNew, AcceptExisting,
         RefuseExisting, Check, Goto, disk, files
<1>5. CASE Stage \/ Seal \/ Publish \/ PromotionFails
  BY <1>1, <1>2, <1>5 DEF NInv, Stage, Seal, Publish, PromotionFails, Goto, disk
<1>6. CASE PurgeCanonical \/ PurgeSource \/ SaveSucceeded \/ SaveFailed
  BY <1>1, <1>2, <1>6
     DEF NInv, PurgeCanonical, PurgeSource, SaveSucceeded, SaveFailed, Goto, disk, files
<1> QED
  BY <1>2, <1>3, <1>4, <1>5, <1>6 DEF Next

\* Unless it is interrupted, a failed promotion leaves nothing in the way of the
\* next attempt, however many promotions failed before.
THEOREM FailureLeavesNothing == Spec => []NothingLeftBehind
<1>1. PInv /\ NInv => NothingLeftBehind
  BY DEF PInv, NInv, NothingLeftBehind
<1> QED
  BY <1>1, PInvInit, PInvStep, NInvInit, NInvStep, PTL DEF Spec

-----------------------------------------------------------------------------
(* What an interruption may cost                                           *)

\* Without errors and with one log: what is canonical before the attempt is
\* settled is this very attempt, good and with its log, and an attempt that fails
\* is not one that could be promoted.
HInv ==
    errors = 0 /\ phase = "open" =>
        /\ canonical # Absent =>
              /\ canonical = Sealed(source[attempt])
              /\ source[attempt].log \in Logs
              /\ Promotable
        /\ pc \notin {"idle", "log", "fail"} => source[attempt].log \in Logs
        /\ pc \in {"stage", "seal", "publish"} => Promotable
        /\ pc \in {"purge_canonical", "purge_source"} => source[attempt].kind = "oversized"
        /\ pc = "succeed" => canonical # Absent
        /\ pc = "fail" => ~Promotable

LEMMA HInvInit == Init => HInv
BY DEF Init, HInv

LEMMA SealedIsThere == \A tree : Sealed(tree) # Absent
BY DEF Sealed, Absent

LEMMA HInvStep ==
    (\A l, m \in Logs : l = m) /\ PInv /\ HInv /\ [Next]_vars => HInv'
<1> SUFFICES ASSUME \A l, m \in Logs : l = m, PInv, HInv, [Next]_vars,
                    errors' = 0, phase' = "open"
             PROVE  HInv'
  BY DEF HInv
<1>1. /\ attempt \in Attempts /\ source \in [Attempts -> Tree]
      /\ staging \in [Attempts -> Directory]
      /\ source[attempt] \in Tree /\ errors \in Nat
      /\ pc # "idle" => phase = "open" /\ job # "running"
      /\ pc = "publish" => staging[attempt] = Sealed(source[attempt])
  BY BoundsAssumption DEF PInv, TypeOK
<1>2. phase = "open"
  BY DEF Next, vars, Interrupt, InterruptRemoval, JobEnds, JobRerun, Observe,
         PersistLog, Check,
         CheckOversized, CheckFailedJob, CheckMalformed, CheckNew, AcceptExisting,
         RefuseExisting, Stage, Seal, Publish, PromotionFails, PurgeCanonical, PurgeSource,
         SaveSucceeded, SaveFailed, Over, disk, PInv
<1>3. errors = 0 /\ ~Failed
  BY <1>1, FaultSteps DEF Interrupted, Failed, faults
<1>4. CASE JobEnds
  <2>1. canonical = Absent /\ pc = "idle"
    BY <1>1, <1>2, <1>3, <1>4 DEF HInv, JobEnds, Promotable
  <2> QED
    BY <1>4, <2>1 DEF HInv, JobEnds
<1>5. CASE PersistLog
  <2>1. PICK log \in Logs : source' = [source EXCEPT ![attempt].log = log]
    BY <1>3, <1>5 DEF PersistLog
  <2>2. /\ UNCHANGED <<attempt, phase, job, canonical>> /\ pc' = "check"
    BY <1>5 DEF PersistLog, Goto, disk
  <2>3. source'[attempt] = [source[attempt] EXCEPT !.log = log]
    BY <1>1, <2>1
  <2>4. source'[attempt].log = log /\ source'[attempt].kind = source[attempt].kind
    BY <1>1, <2>3 DEF Tree
  <2>5. source[attempt].log \in Logs => source'[attempt] = source[attempt]
    <3>1. source[attempt].log \in Logs => source[attempt].log = log
      BY <2>1
    <3> QED
      BY <1>1, <2>3, <3>1 DEF Tree
  <2> QED
    BY <1>2, <1>3, <2>2, <2>4, <2>5 DEF HInv, Promotable
<1>6. CASE JobRerun \/ Observe \/ Over \/ UNCHANGED vars
  BY <1>2, <1>3, <1>6 DEF HInv, JobRerun, Observe, Over, vars, Goto, disk, files, Promotable
<1>7. CASE \/ CheckOversized \/ CheckFailedJob \/ CheckMalformed \/ CheckNew
           \/ AcceptExisting \/ RefuseExisting
  <2>1. pc = "check" /\ UNCHANGED <<disk, job, files, faults>>
    BY <1>7 DEF CheckOversized, CheckFailedJob, CheckMalformed, CheckNew, AcceptExisting,
                RefuseExisting, Check, Goto
  <2>2. ~RefuseExisting
    BY <1>2, <1>3, SealedIsThere DEF HInv, RefuseExisting
  <2>3. \/ pc' = "purge_canonical" /\ source[attempt].kind = "oversized"
        \/ pc' = "fail" /\ ~Promotable
        \/ pc' = "stage" /\ Promotable
        \/ pc' = "succeed" /\ canonical # Absent
    BY <1>7, <2>2, SealedIsThere
       DEF CheckOversized, CheckFailedJob, CheckMalformed, CheckNew, AcceptExisting,
           Check, Goto, Promotable
  <2> QED
    BY <1>2, <1>3, <2>1, <2>3 DEF HInv, Promotable, disk, files, faults
<1>8. CASE Stage \/ Seal \/ Publish \/ PromotionFails
  <2>1. ~PromotionFails
    BY <1>3 DEF PromotionFails
  <2>2. /\ UNCHANGED <<attempt, job, source>>
        /\ pc \in {"stage", "seal", "publish"} /\ pc' \in {"seal", "publish", "succeed"}
        /\ \/ pc' # "succeed" /\ UNCHANGED canonical
           \/ pc' = "succeed" /\ canonical' = Sealed(source[attempt])
    BY <1>1, <1>8, <2>1 DEF Stage, Seal, Publish, Goto, disk
  <2> QED
    BY <1>2, <1>3, <2>2, SealedIsThere DEF HInv, Promotable
<1>9. CASE PurgeCanonical
  BY <1>2, <1>3, <1>9 DEF HInv, PurgeCanonical, Goto, Promotable, disk
<1>10. CASE PurgeSource
  <2>1. canonical = Absent
    BY <1>2, <1>3, <1>10 DEF HInv, PurgeSource, Goto, Promotable
  <2>2. source'[attempt].kind = "replaced"
    BY <1>1, <1>10 DEF PurgeSource, Tree
  <2> QED
    BY <1>10, <2>1, <2>2 DEF HInv, PurgeSource, Goto, Promotable, disk
<1>11. CASE SaveSucceeded \/ SaveFailed
  <2>1. pc = "fail" /\ pc' = "idle" /\ UNCHANGED canonical
    BY <1>11 DEF SaveSucceeded, SaveFailed, Goto, files
  <2>2. canonical = Absent
    BY <1>2, <1>3, <2>1 DEF HInv
  <2> QED
    BY <2>1, <2>2 DEF HInv
<1>12. CASE Interrupt
  BY <1>2, <1>3, <1>12 DEF HInv, Interrupt, Promotable, disk, files
<1>13. CASE InterruptRemoval
  <2>1. /\ pc \in {"purge_canonical", "purge_source"} /\ pc' = "idle"
        /\ \/ pc = "purge_canonical" /\ canonical # Absent
           \/ UNCHANGED canonical
    BY <1>13 DEF InterruptRemoval
  <2>2. canonical = Absent
    BY <1>2, <1>3, <2>1 DEF HInv, Promotable
  <2> QED
    BY <2>1, <2>2 DEF HInv
<1> QED
  BY <1>4, <1>5, <1>6, <1>7, <1>8, <1>9, <1>10, <1>11, <1>12, <1>13 DEF Next

\* If the log of an ended Job is always the same, no interruption, however many
\* there are and wherever they come, makes an attempt fail that succeeded with
\* good artifacts.
THEOREM InterruptionsHarmNothing ==
    (\A l, m \in Logs : l = m) /\ Spec => []InterruptionIsHarmless
<1>1. PInv /\ HInv => InterruptionIsHarmless
  BY DEF PInv, HInv, InterruptionIsHarmless
<1> SUFFICES ASSUME \A l, m \in Logs : l = m PROVE Spec => []InterruptionIsHarmless
  OBVIOUS
<1>2. PInv /\ HInv /\ [Next]_vars => HInv'
  BY HInvStep
<1> QED
  BY <1>1, <1>2, PInvInit, PInvStep, HInvInit, PTL DEF Spec

-----------------------------------------------------------------------------
(* The single steps of RunController                                        *)

\* An attempt directory keeps its number; nothing is canonical while a promotion
\* is under way, and what is canonical carries the number of an attempt.
LInv ==
    /\ \A a \in Attempts : source[a].attempt = a
    /\ pc \in {"stage", "seal", "publish"} => canonical = Absent

LEMMA LInvInit == Init => LInv
BY DEF Init, LInv, EmptyTree

LEMMA LInvStep == PInv /\ LInv /\ [Next]_vars => LInv'
<1> SUFFICES ASSUME PInv, LInv, [Next]_vars PROVE LInv'
  OBVIOUS
<1>1. source \in [Attempts -> Tree]
  BY DEF PInv, TypeOK
<1>2. \A a \in Attempts : source'[a].attempt = a
  <2>1. CASE UNCHANGED source
    BY <2>1 DEF LInv
  <2>2. CASE JobEnds \/ PersistLog \/ PurgeSource \/ InterruptRemoval
    <3>1. ASSUME NEW a \in Attempts PROVE source'[a].attempt = source[a].attempt
      <4>1. source[a] \in Tree
        BY <1>1
      <4>2. CASE JobEnds
        BY <1>1, <4>1, <4>2 DEF JobEnds, Tree
      <4>3. CASE PersistLog
        BY <1>1, <4>1, <4>3 DEF PersistLog, Tree
      <4>4. CASE PurgeSource
        BY <1>1, <4>1, <4>4 DEF PurgeSource, Tree
      <4>5. CASE InterruptRemoval
        BY <1>1, <4>1, <4>5 DEF InterruptRemoval, Tree
      <4> QED
        BY <2>2, <4>2, <4>3, <4>4, <4>5
    <3> QED
      BY <3>1 DEF LInv
  <2>3. QED
    BY <2>1, <2>2
       DEF Next, vars, files, JobRerun, Observe, Check, CheckOversized, CheckFailedJob,
           CheckMalformed, CheckNew, AcceptExisting, RefuseExisting, Stage, Seal, Publish,
           PromotionFails, PurgeCanonical, SaveSucceeded, SaveFailed, Interrupt, Over
<1>3. pc' \in {"stage", "seal", "publish"} => canonical' = Absent
  BY DEF Next, vars, files, JobEnds, JobRerun, Observe, PersistLog, Check, CheckOversized,
         CheckFailedJob, CheckMalformed, CheckNew, AcceptExisting, RefuseExisting, Stage,
         Seal, Publish, PromotionFails, PurgeCanonical, PurgeSource, SaveSucceeded,
         SaveFailed, Interrupt, InterruptRemoval, Over, Goto, LInv, PInv
<1>4. QED
  BY <1>2, <1>3 DEF LInv

LEMMA CanonicalOf ==
    /\ Absent.is # "sealed" /\ Partial.is # "sealed"
    /\ \A tree \in Tree : /\ Sealed(tree).is = "sealed"
                         /\ Sealed(tree).tree.attempt = tree.attempt
BY DEF Absent, Partial, Sealed

LEMMA LevelStep == PInv /\ LInv /\ [Next]_vars => [Level!Next]_Level!level
<1> SUFFICES ASSUME PInv, LInv, [Next]_vars PROVE [Level!Next]_Level!level
  OBVIOUS
<1>1. /\ attempt \in Attempts /\ source[attempt] \in Tree
      /\ source[attempt].attempt = attempt
      /\ pc # "idle" => phase = "open"
  BY SourceTyped DEF PInv, LInv
<1>2. canonical' = canonical => Canonical' = Canonical
  BY DEF Canonical
<1>3. CASE UNCHANGED <<attempt, phase, canonical>>
  BY <1>2, <1>3 DEF Level!level
<1>4. CASE Publish
  <2>1. /\ canonical = Absent /\ canonical' = Sealed(source[attempt])
        /\ phase = "open" /\ UNCHANGED <<attempt, phase>>
    BY <1>1, <1>4 DEF Publish, Goto, PInv, LInv, disk
  <2>2. Canonical = 0 /\ Canonical' = attempt
    BY <1>1, <2>1, CanonicalOf DEF Canonical
  <2>3. QED
    BY <2>1, <2>2 DEF Level!Next, Level!Promote
<1>5. CASE PurgeCanonical \/ (InterruptRemoval /\ canonical' = Partial)
  <2>1. /\ canonical' \in {Absent, Partial}
        /\ phase = "open" /\ UNCHANGED <<attempt, phase>>
    BY <1>1, <1>5 DEF PurgeCanonical, InterruptRemoval, Goto, disk
  <2>2. Canonical' = 0
    BY <2>1, CanonicalOf DEF Canonical
  <2>3. QED
    BY <2>1, <2>2 DEF Level!Next, Level!Purge
<1>6. CASE SaveSucceeded
  <2>1. /\ canonical = Sealed(source[attempt]) /\ UNCHANGED <<attempt, canonical>>
        /\ phase = "open" /\ phase' = "succeeded"
    BY <1>1, <1>6 DEF SaveSucceeded, Goto, PInv, files
  <2>2. Canonical = attempt
    BY <1>1, <2>1, CanonicalOf DEF Canonical
  <2>3. QED
    BY <1>2, <2>1, <2>2 DEF Level!Next, Level!Succeed
<1>7. CASE SaveFailed
  <2>1. phase = "open" /\ UNCHANGED canonical
    BY <1>1, <1>7 DEF SaveFailed, Goto, files
  <2>2. attempt <= Retries \/ attempt = Retries + 1
    BY <1>1, RetriesAssumption DEF Attempts
  <2>3. attempt = Retries + 1 => ~(attempt <= Retries)
    BY RetriesAssumption
  <2>4. QED
    BY <1>2, <1>7, <2>1, <2>2, <2>3 DEF SaveFailed, Level!Next, Level!Fail
<1>8. QED
  BY <1>3, <1>4, <1>5, <1>6, <1>7
     DEF Next, vars, disk, files, JobEnds, JobRerun, Observe, PersistLog, Check,
         CheckOversized, CheckFailedJob, CheckMalformed, CheckNew, AcceptExisting,
         RefuseExisting, Stage, Seal, PromotionFails, PurgeSource, Interrupt,
         InterruptRemoval, Over

\* The effects on the file system, cut anywhere, implement the promotion that
\* RunController takes for one step.
THEOREM PromotionFitsLevel == Spec => FitsLevel
<1>1. Init => Level!Init
  BY CanonicalOf DEF Init, Level!Init, Canonical
<1>2. QED
  BY <1>1, PInvInit, PInvStep, LInvInit, LInvStep, LevelStep, PTL
     DEF Spec, FitsLevel, Level!Spec
=============================================================================
