---------------------------- MODULE ServiceProofs ----------------------------
(***************************************************************************)
(* Theorems about Service, for any number of runs, request threads and     *)
(* faults, and any limits.                                                 *)
(***************************************************************************)
EXTENDS Service, FiniteSetTheorems, WellFoundedInduction, TLAPS

Holding == {r \in Runs : HoldsCapacity(r)}

\* The labels of submit() at which the submit lock is held.
Submitting == {"counting", "save", "create"}

SubmitHoldsLock ==
    \A t \in Threads : pc[t] \in Submitting => submit_lock = t

\* No run begins to hold capacity while the listing is read.
ListingCoversHolding ==
    \A t \in Threads : pc[t] = "counting" => Holding \subseteq seen[t] \cup unread[t]

\* There is room for the run that was accepted, even if it is over by now and
\* submit() is about to save it as active again.
RoomForAccepted ==
    \A t \in Threads : pc[t] \in {"save", "create"} =>
        /\ target[t] \in Runs
        /\ Cardinality(Holding \cup {target[t]}) <= MaxActive

SInv ==
    /\ TypeOK
    /\ SubmitHoldsLock
    /\ ListingCoversHolding
    /\ RoomForAccepted
    /\ CapacityRespected

LEMMA RunsFinite ==
    /\ IsFiniteSet(Runs)
    /\ \A S \in SUBSET Runs :
           /\ IsFiniteSet(S)
           /\ Cardinality(S) \in Nat
           /\ \A T \in SUBSET S : Cardinality(T) <= Cardinality(S)
<1>1. IsFiniteSet(Runs)
  BY FS_Interval, LimitsAssumption DEF Runs
<1>2. ASSUME NEW S \in SUBSET Runs
      PROVE  IsFiniteSet(S) /\ Cardinality(S) \in Nat
  BY <1>1, <1>2, FS_Subset, FS_CardinalityType
<1>3. ASSUME NEW S \in SUBSET Runs, NEW T \in SUBSET S
      PROVE  Cardinality(T) <= Cardinality(S)
  BY <1>2, <1>3, FS_Subset
<1>4. QED
  BY <1>1, <1>2, <1>3

LEMMA SInvInit == Init => SInv
<1> SUFFICES ASSUME Init PROVE SInv
  OBVIOUS
<1>1. TypeOK
  <2>1. 0 \in 0..RunCount /\ 0 \in 0..MaxFaults
    BY LimitsAssumption
  <2>2. serving \in BOOLEAN
    BY DEF Init
  <2>3. status \in [Runs -> {"none", "active", "canceling", "over", "gone"}]
    BY DEF Init
  <2>4. pc \in [Threads -> PC] /\ target \in [Threads -> 0..RunCount]
    BY <2>1 DEF Init, PC
  <2>5. /\ aged \subseteq Runs /\ dropped \subseteq Unlisted /\ todo \subseteq Runs
        /\ unread \in [Threads -> SUBSET Runs] /\ seen \in [Threads -> SUBSET Runs]
        /\ submit_lock \in Threads \cup {NoThread}
        /\ retention_lock \in Threads \cup {NoThread}
        /\ run_lock \in [Runs -> Threads \cup {NoThread}]
        /\ faults \in 0..MaxFaults
    BY <2>1 DEF Init
  <2>6. QED
    BY <2>2, <2>3, <2>4, <2>5, Zenon DEF TypeOK
<1>2. Holding = {}
  BY DEF Init, Holding, HoldsCapacity
<1>3. CapacityRespected
  BY <1>2, FS_EmptySet, LimitsAssumption DEF CapacityRespected, Holding
<1>4. QED
  BY <1>1, <1>3 DEF Init, SInv, SubmitHoldsLock, ListingCoversHolding,
                    RoomForAccepted, Submitting

\* A step by which no run begins to hold capacity, and no thread enters the part
\* of submit() that is under the submit lock or moves within it.
LEMMA OthersKeep ==
    ASSUME SInv, TypeOK', Holding' \subseteq Holding,
           \A t \in Threads : pc'[t] \in Submitting =>
               /\ pc[t] = pc'[t]
               /\ submit_lock' = submit_lock
               /\ seen'[t] = seen[t] /\ unread'[t] = unread[t]
               /\ target'[t] = target[t]
    PROVE  SInv'
<1>1. Holding \subseteq Runs
  BY DEF Holding
<1>2. SubmitHoldsLock' /\ ListingCoversHolding'
  BY DEF SInv, SubmitHoldsLock, ListingCoversHolding, Submitting
<1>3. RoomForAccepted'
  <2> SUFFICES ASSUME NEW t \in Threads, pc'[t] \in {"save", "create"}
               PROVE  /\ target'[t] \in Runs
                      /\ Cardinality(Holding' \cup {target'[t]}) <= MaxActive
    BY DEF RoomForAccepted
  <2>1. /\ target'[t] = target[t] /\ target[t] \in Runs
        /\ Cardinality(Holding \cup {target[t]}) <= MaxActive
    BY DEF SInv, RoomForAccepted, Submitting
  <2>2. Holding \cup {target[t]} \in SUBSET Runs
    BY <1>1, <2>1
  <2>3. Holding' \cup {target[t]} \in SUBSET (Holding \cup {target[t]})
    OBVIOUS
  <2>4. /\ Cardinality(Holding' \cup {target[t]}) <= Cardinality(Holding \cup {target[t]})
        /\ Cardinality(Holding \cup {target[t]}) \in Nat
        /\ Cardinality(Holding' \cup {target[t]}) \in Nat
    BY <1>1, <2>2, <2>3, RunsFinite
  <2>5. QED
    BY <2>1, <2>4, LimitsAssumption
<1>4. CapacityRespected'
  <2>1. Cardinality(Holding) <= MaxActive
    BY DEF SInv, CapacityRespected, Holding
  <2>2. Cardinality(Holding') <= Cardinality(Holding)
        /\ Cardinality(Holding) \in Nat /\ Cardinality(Holding') \in Nat
    BY <1>1, RunsFinite
  <2>3. Cardinality(Holding') <= MaxActive
    BY <2>1, <2>2, LimitsAssumption
  <2>4. QED
    BY <2>3 DEF CapacityRespected, Holding
<1>5. QED
  BY <1>2, <1>3, <1>4 DEF SInv

LEMMA BeginSubmitStep ==
    ASSUME SInv, NEW t \in Submitters, BeginSubmit(t)
    PROVE  SInv'
<1>1. t \in Threads /\ TypeOK
  BY DEF Threads, SInv
<1>2. TypeOK'
  BY <1>1 DEF BeginSubmit, StartListing, Goto, TypeOK, OnDisk, PC
<1>3. \A s \in Threads : pc[s] \notin Submitting
  BY RolesAssumption DEF BeginSubmit, SInv, SubmitHoldsLock
<1>4. \A s \in Threads : pc'[s] = IF s = t THEN "counting" ELSE pc[s]
  BY <1>1 DEF BeginSubmit, Goto, TypeOK
<1>5. SubmitHoldsLock' /\ RoomForAccepted'
  BY <1>3, <1>4 DEF BeginSubmit, SubmitHoldsLock, RoomForAccepted, Submitting
<1>6. Holding' = Holding /\ Holding \subseteq OnDisk
  BY DEF BeginSubmit, Holding, HoldsCapacity, OnDisk
<1>7. unread'[t] = OnDisk
  BY <1>1 DEF BeginSubmit, StartListing, TypeOK
<1>8. ListingCoversHolding'
  BY <1>3, <1>4, <1>6, <1>7 DEF ListingCoversHolding, Submitting
<1>9. CapacityRespected'
  BY DEF BeginSubmit, SInv, CapacityRespected, HoldsCapacity
<1>10. QED
  BY <1>2, <1>5, <1>8, <1>9 DEF SInv

LEMMA CountStep ==
    ASSUME SInv, NEW t \in Submitters, Count(t)
    PROVE  SInv'
<1>1. t \in Threads /\ TypeOK
  BY DEF Threads, SInv
<1>2. PICK r \in unread[t] :
          /\ unread' = [unread EXCEPT ![t] = @ \ {r}]
          /\ seen' = [seen EXCEPT ![t] = IF HoldsCapacity(r) THEN @ \cup {r} ELSE @]
  BY DEF Count, ReadFile
<1>3. UNCHANGED <<status, aged, serving, dropped, pc, target, todo, locks, faults>>
  BY DEF Count, ReadFile
<1>4. r \in Runs
  BY <1>1, <1>2 DEF TypeOK
<1>5. TypeOK'
  BY <1>1, <1>2, <1>3, <1>4 DEF TypeOK, locks
<1>6. Holding' = Holding
  BY <1>3 DEF Holding, HoldsCapacity
<1>7. ListingCoversHolding'
  BY <1>1, <1>2, <1>3, <1>4, <1>6
     DEF SInv, ListingCoversHolding, TypeOK, Holding
<1>8. SubmitHoldsLock' /\ RoomForAccepted' /\ CapacityRespected'
  BY <1>3, <1>6 DEF SInv, SubmitHoldsLock, RoomForAccepted, CapacityRespected,
                    HoldsCapacity, locks
<1>9. QED
  BY <1>5, <1>7, <1>8 DEF SInv

\* A run is accepted only when the listing, which covers every run that holds
\* capacity, shows fewer than MaxActive.
LEMMA AcceptStep ==
    ASSUME SInv, NEW t \in Submitters, Accept(t)
    PROVE  SInv'
<1>1. t \in Threads /\ TypeOK
  BY DEF Threads, SInv
<1>2. PICK r \in Runs : /\ status' = [status EXCEPT ![r] = "active"]
                        /\ target' = [target EXCEPT ![t] = r]
  BY DEF Accept
<1>3. TypeOK'
  BY <1>1, <1>2 DEF Accept, Goto, TypeOK, PC, Runs, locks
<1>4. submit_lock = t
  BY <1>1 DEF Accept, Listed, At, SInv, SubmitHoldsLock, Submitting
<1>5. \A s \in Threads : s # t => pc[s] \notin Submitting
  BY <1>4 DEF SInv, SubmitHoldsLock
<1>6. \A s \in Threads : pc'[s] = IF s = t THEN "save" ELSE pc[s]
  BY <1>1 DEF Accept, Goto, TypeOK
<1>7. SubmitHoldsLock' /\ ListingCoversHolding'
  BY <1>4, <1>5, <1>6
     DEF Accept, SubmitHoldsLock, ListingCoversHolding, Submitting, locks
<1>8. Holding \subseteq seen[t] /\ seen[t] \in SUBSET Runs
  BY <1>1 DEF Accept, Listed, At, SInv, ListingCoversHolding, TypeOK
<1>9. Holding' = Holding \cup {r}
  BY <1>1, <1>2 DEF Holding, HoldsCapacity, TypeOK
<1>10. Cardinality(Holding \cup {r}) <= MaxActive
  <2>1. Cardinality(Holding) <= Cardinality(seen[t])
        /\ IsFiniteSet(Holding) /\ Cardinality(Holding) \in Nat
        /\ Cardinality(seen[t]) \in Nat
    BY <1>8, RunsFinite
  <2>2. Cardinality(Holding \cup {r}) <= Cardinality(Holding) + 1
    <3>1. Cardinality(Holding \cup {r}) = IF r \in Holding THEN Cardinality(Holding)
                                                         ELSE Cardinality(Holding) + 1
      BY <2>1, FS_AddElement, Zenon
    <3>2. QED
      BY <2>1, <3>1
  <2>3. Cardinality(Holding \cup {r}) \in Nat
    BY <1>8, RunsFinite
  <2>4. QED
    BY <2>1, <2>2, <2>3, LimitsAssumption DEF Accept
<1>11. RoomForAccepted'
  <2>1. target'[t] = r
    BY <1>1, <1>2 DEF TypeOK
  <2>2. Holding' \cup {r} = Holding \cup {r}
    BY <1>9
  <2>3. QED
    BY <1>5, <1>6, <1>10, <2>1, <2>2 DEF RoomForAccepted, Submitting
<1>12. CapacityRespected'
  BY <1>9, <1>10 DEF CapacityRespected, Holding
<1>13. QED
  BY <1>3, <1>7, <1>11, <1>12 DEF SInv

LEMMA SaveAttemptStep ==
    ASSUME SInv, NEW t \in Submitters, SaveAttempt(t)
    PROVE  SInv'
<1>1. t \in Threads /\ TypeOK
  BY DEF Threads, SInv
<1>2. TypeOK'
  BY <1>1 DEF SaveAttempt, Goto, TypeOK, PC, listing, locks
<1>3. submit_lock = t
  BY <1>1 DEF SaveAttempt, At, SInv, SubmitHoldsLock, Submitting
<1>4. \A s \in Threads : s # t => pc[s] \notin Submitting
  BY <1>3 DEF SInv, SubmitHoldsLock
<1>5. \A s \in Threads : pc'[s] = IF s = t THEN "create" ELSE pc[s]
  BY <1>1 DEF SaveAttempt, Goto, TypeOK
<1>6. SubmitHoldsLock' /\ ListingCoversHolding'
  BY <1>3, <1>4, <1>5
     DEF SaveAttempt, SubmitHoldsLock, ListingCoversHolding, Submitting, locks
<1>7. target[t] \in Runs /\ Cardinality(Holding \cup {target[t]}) <= MaxActive
  BY <1>1 DEF SaveAttempt, At, SInv, RoomForAccepted
<1>8. Holding' = Holding \cup {target[t]}
  BY <1>1, <1>7 DEF SaveAttempt, Holding, HoldsCapacity, TypeOK
<1>9. Holding' \cup {target[t]} = Holding \cup {target[t]} /\ target' = target
  BY <1>8 DEF SaveAttempt
<1>10. RoomForAccepted'
  BY <1>4, <1>5, <1>7, <1>9 DEF RoomForAccepted, Submitting
<1>11. CapacityRespected'
  BY <1>7, <1>8 DEF CapacityRespected, Holding
<1>12. QED
  BY <1>2, <1>6, <1>10, <1>11 DEF SInv

\* What a thread does to its label, target and listing in all other steps.
Elsewhere(t) ==
    /\ \A s \in Threads : s # t =>
           /\ pc'[s] = pc[s] /\ target'[s] = target[s]
           /\ unread'[s] = unread[s] /\ seen'[s] = seen[s]
    /\ pc'[t] \notin Submitting
    /\ submit_lock # t => submit_lock' = submit_lock

LEMMA ElsewhereKeeps ==
    ASSUME SInv, TypeOK', Holding' \subseteq Holding, NEW t \in Threads, Elsewhere(t)
    PROVE  SInv'
<1>1. ASSUME NEW s \in Threads, pc'[s] \in Submitting
      PROVE  /\ pc[s] = pc'[s] /\ submit_lock' = submit_lock
             /\ seen'[s] = seen[s] /\ unread'[s] = unread[s]
             /\ target'[s] = target[s]
  <2>1. s # t
    BY <1>1 DEF Elsewhere
  <2>2. submit_lock = s
    BY <1>1, <2>1 DEF Elsewhere, SInv, SubmitHoldsLock
  <2>3. QED
    BY <2>1, <2>2 DEF Elsewhere
<1>2. QED
  BY <1>1, OthersKeep

LEMMA LeaveSubmitSteps ==
    ASSUME SInv, NEW t \in Submitters, Refuse(t) \/ CreateJob(t) \/ SubmitFails(t)
    PROVE  SInv'
<1>1. t \in Threads /\ TypeOK
  BY DEF Threads, SInv
<1>2. /\ pc' = [pc EXCEPT ![t] = "idle"] \/ pc' = [pc EXCEPT ![t] = "prune"]
      /\ target' = target \/ target' = [target EXCEPT ![t] = 0]
      /\ seen' = seen \/ seen' = [seen EXCEPT ![t] = {}]
      /\ submit_lock' = NoThread
      /\ UNCHANGED <<status, aged, serving, dropped, unread, todo, retention_lock, run_lock>>
      /\ faults' \in 0..MaxFaults
  BY <1>1, LimitsAssumption
     DEF Refuse, CreateJob, SubmitFails, LeaveSubmit, Goto, listing, Fault, TypeOK
<1>3. TypeOK'
  <2>1. 0 \in 0..RunCount
    BY LimitsAssumption
  <2>2. /\ pc' \in [Threads -> PC] /\ target' \in [Threads -> 0..RunCount]
        /\ seen' \in [Threads -> SUBSET Runs]
    BY <1>1, <1>2, <2>1 DEF TypeOK, PC
  <2>3. QED
    BY <1>1, <1>2, <2>2 DEF TypeOK
<1>4. submit_lock = t
  BY <1>1 DEF Refuse, CreateJob, SubmitFails, Listed, At, SInv, SubmitHoldsLock,
              Submitting
<1>5. Elsewhere(t)
  BY <1>1, <1>2, <1>4 DEF Elsewhere, TypeOK, Submitting
<1>6. Holding' = Holding
  BY <1>2 DEF Holding, HoldsCapacity
<1>7. QED
  BY <1>1, <1>3, <1>5, <1>6, ElsewhereKeeps

LEMMA CreateUncertainStep ==
    ASSUME SInv, NEW t \in Submitters, CreateUncertain(t)
    PROVE  SInv'
<1>1. t \in Threads /\ TypeOK
  BY DEF Threads, SInv
<1>2. /\ pc[t] = "create" /\ submit_lock' = NoThread
      /\ status' = [status EXCEPT ![target[t]] = "active"]
      /\ pc' = [pc EXCEPT ![t] = "prune"] /\ target' = [target EXCEPT ![t] = 0]
      /\ UNCHANGED <<aged, serving, dropped, unread, seen, todo, retention_lock,
                     run_lock, faults>>
  BY DEF CreateUncertain, LeaveSubmit, Goto, At, listing
<1>3. target[t] \in Runs /\ Cardinality(Holding \cup {target[t]}) <= MaxActive
  BY <1>1, <1>2 DEF SInv, RoomForAccepted
<1>4. TypeOK'
  <2>1. 0 \in 0..RunCount
    BY LimitsAssumption
  <2>2. /\ pc' \in [Threads -> PC] /\ target' \in [Threads -> 0..RunCount]
        /\ status' \in [Runs -> {"none", "active", "canceling", "over", "gone"}]
    BY <1>1, <1>2, <2>1 DEF TypeOK, PC
  <2>3. QED
    BY <1>1, <1>2, <2>2 DEF TypeOK
<1>5. submit_lock = t
  BY <1>1, <1>2 DEF SInv, SubmitHoldsLock, Submitting
<1>6. \A s \in Threads : pc'[s] \notin Submitting
  BY <1>1, <1>2, <1>5 DEF SInv, SubmitHoldsLock, Submitting, TypeOK
<1>7. SubmitHoldsLock' /\ ListingCoversHolding' /\ RoomForAccepted'
  BY <1>6 DEF SubmitHoldsLock, ListingCoversHolding, RoomForAccepted, Submitting
<1>8. Holding' = Holding \cup {target[t]}
  BY <1>1, <1>2, <1>3 DEF Holding, HoldsCapacity, TypeOK
<1>9. CapacityRespected'
  BY <1>3, <1>8 DEF CapacityRespected, Holding
<1>10. QED
  BY <1>4, <1>7, <1>9 DEF SInv

LEMMA PassSteps ==
    ASSUME SInv, BeginPass \/ List \/ StartVisits \/ EndPass
    PROVE  SInv'
<1>1. Reconciler \in Threads /\ TypeOK
  BY DEF Threads, SInv
<1>2. UNCHANGED <<status, aged, dropped, target, locks, faults>>
  BY DEF BeginPass, List, StartVisits, EndPass, ReadFile
<1>3. /\ \A s \in Threads : s # Reconciler =>
             pc'[s] = pc[s] /\ unread'[s] = unread[s] /\ seen'[s] = seen[s]
      /\ pc'[Reconciler] \in {"idle", "listing", "visiting"}
  BY <1>1 DEF BeginPass, List, StartVisits, EndPass, ReadFile, StartListing, Goto,
              TypeOK, At, listing
<1>4. TypeOK'
  <2>1. CASE BeginPass
    BY <1>1, <2>1 DEF BeginPass, StartListing, OnDisk, Goto, TypeOK, PC, locks
  <2>2. CASE List
    BY <1>1, <2>2 DEF List, ReadFile, TypeOK, locks
  <2>3. CASE StartVisits
    BY <1>1, <2>3 DEF StartVisits, Goto, TypeOK, PC, locks
  <2>4. CASE EndPass
    BY <1>1, <2>4 DEF EndPass, Goto, TypeOK, PC, locks, listing
  <2>5. QED
    BY <2>1, <2>2, <2>3, <2>4
<1>5. Elsewhere(Reconciler)
  BY <1>2, <1>3 DEF Elsewhere, Submitting, locks
<1>6. Holding' = Holding
  BY <1>2 DEF Holding, HoldsCapacity
<1>7. QED
  BY <1>1, <1>4, <1>5, <1>6, ElsewhereKeeps

\* Entering and leaving a call on a run.
LEMMA CallSteps ==
    ASSUME SInv, NEW t \in Threads,
           \/ t = Reconciler /\ Visit
           \/ BeginCancel(t)
           \/ Leave(t) \/ Raise(t)
    PROVE  SInv'
<1>1. TypeOK
  BY DEF SInv
<1>2. \/ \E r \in Runs : Lock(t, r)
      \/ \E label \in {"idle", "visiting", "prune"} : Unlock(t, label)
  <2>1. CASE Visit /\ t = Reconciler
    BY <1>1, <2>1 DEF Visit, TypeOK
  <2>2. CASE BeginCancel(t)
    BY <2>2 DEF BeginCancel, OnDisk
  <2>3. CASE Leave(t)
    BY <2>3 DEF Leave, After
  <2>4. CASE Raise(t)
    BY <2>4 DEF Raise
  <2>5. QED
    BY <2>1, <2>2, <2>3, <2>4
<1>3. todo' \subseteq Runs /\ faults' \in 0..MaxFaults
  BY <1>1, LimitsAssumption
     DEF Visit, BeginCancel, Leave, Raise, Fault, Lock, TypeOK
<1>4. UNCHANGED <<status, aged, serving, dropped, unread, seen, submit_lock,
                  retention_lock>>
  BY <1>2 DEF Lock, Unlock
<1>5. /\ pc' \in [Threads -> PC] /\ target' \in [Threads -> 0..RunCount]
      /\ run_lock' \in [Runs -> Threads \cup {NoThread}]
      /\ pc'[t] \notin Submitting
      /\ \A s \in Threads : s # t => pc'[s] = pc[s] /\ target'[s] = target[s]
  <2>1. 0 \in 0..RunCount /\ Runs \subseteq 0..RunCount
    BY LimitsAssumption DEF Runs
  <2>2. CASE \E r \in Runs : Lock(t, r)
    BY <1>1, <2>1, <2>2 DEF Lock, Goto, TypeOK, PC, Submitting
  <2>3. CASE \E label \in {"idle", "visiting", "prune"} : Unlock(t, label)
    <3>1. PICK label \in {"idle", "visiting", "prune"} : Unlock(t, label)
      BY <2>3
    <3>2. /\ pc' = [pc EXCEPT ![t] = label]
          /\ target' = [target EXCEPT ![t] = 0]
          /\ run_lock' = [run_lock EXCEPT ![target[t]] = NoThread]
      BY <3>1 DEF Unlock, Goto
    <3>3. label \in PC \ Submitting
      BY DEF PC, Submitting
    <3>4. run_lock' \in [Runs -> Threads \cup {NoThread}]
      BY <1>1, <3>2 DEF TypeOK
    <3>5. QED
      BY <1>1, <2>1, <3>2, <3>3, <3>4 DEF TypeOK
  <2>4. QED
    BY <1>2, <2>2, <2>3
<1>6. TypeOK'
  BY <1>1, <1>3, <1>4, <1>5 DEF TypeOK
<1>7. Elsewhere(t)
  BY <1>4, <1>5 DEF Elsewhere
<1>8. Holding' = Holding
  BY <1>4 DEF Holding, HoldsCapacity
<1>9. QED
  BY <1>6, <1>7, <1>8, ElsewhereKeeps

LEMMA WorkSteps ==
    ASSUME SInv, NEW t \in Threads, Work(t)
    PROVE  SInv'
<1>1. TypeOK
  BY DEF SInv
<1>2. PICK r \in Runs, from \in {"active", "canceling"}, to \in {"canceling", "over"} :
          Works(t, r, from, to)
  BY DEF Work, Finish, CancelRun
<1>3. TypeOK' /\ pc'[t] \notin Submitting
  BY <1>1, <1>2 DEF Works, At, TypeOK, listing, locks, Submitting
<1>4. Elsewhere(t)
  BY <1>2, <1>3 DEF Elsewhere, Works, listing, locks
<1>5. Holding' \subseteq Holding
  BY <1>1, <1>2 DEF Works, Holding, HoldsCapacity, TypeOK
<1>6. QED
  BY <1>3, <1>4, <1>5, ElsewhereKeeps

\* The two outcomes of the second look
TakeUp(t) ==
    /\ At(t, "pruning")
    /\ \E r \in seen[t] :
           /\ run_lock[r] = NoThread
           /\ status[r] = "over"
           /\ run_lock' = [run_lock EXCEPT ![r] = t]
           /\ target' = [target EXCEPT ![t] = r]
    /\ Goto(t, "deleting")
    /\ UNCHANGED <<status, aged, serving, dropped, listing, submit_lock,
                   retention_lock, faults>>

PassOver(t) ==
    /\ At(t, "pruning")
    /\ \E r \in seen[t] :
           /\ status[r] # "over"
           /\ seen' = [seen EXCEPT ![t] = @ \ {r}]
    /\ UNCHANGED <<status, aged, serving, dropped, pc, target, unread, todo,
                   locks, faults>>

LEMMA TwoOutcomes == \A t : LookAgain(t) => TakeUp(t) \/ PassOver(t)
<1> SUFFICES ASSUME NEW t, LookAgain(t) PROVE TakeUp(t) \/ PassOver(t)
  OBVIOUS
<1>1. PICK r \in seen[t] :
          /\ run_lock[r] = NoThread
          /\ IF status[r] = "over"
             THEN /\ run_lock' = [run_lock EXCEPT ![r] = t]
                  /\ target' = [target EXCEPT ![t] = r]
                  /\ Goto(t, "deleting")
                  /\ UNCHANGED seen
             ELSE /\ seen' = [seen EXCEPT ![t] = @ \ {r}]
                  /\ UNCHANGED <<run_lock, target, pc>>
  BY DEF LookAgain
<1>2. QED
  BY <1>1 DEF LookAgain, TakeUp, PassOver, listing, locks

LEMMA RetentionSteps ==
    ASSUME SInv, NEW t \in Threads, Retention(t) \/ RetentionFails(t)
    PROVE  SInv'
<1>1. TypeOK
  BY DEF SInv
<1>2. UNCHANGED <<aged, serving, dropped, submit_lock>>
  BY TwoOutcomes DEF Retention, BeginRetention, Survey, ReadFile, ChooseExpired, TakeUp,
         PassOver, Delete, EndRetention, RetentionFails, listing, locks
<1>3. /\ \/ pc' = pc /\ pc[t] \in {"surveying", "pruning"}
         \/ \E label \in {"surveying", "pruning", "deleting", "idle", "visiting"} :
                pc' = [pc EXCEPT ![t] = label]
      /\ target' = target \/ \E r \in 0..RunCount : target' = [target EXCEPT ![t] = r]
      /\ run_lock' \in [Runs -> Threads \cup {NoThread}]
      /\ unread' = unread \/ \E S \in SUBSET Runs : unread' = [unread EXCEPT ![t] = S]
      /\ seen' = seen \/ \E S \in SUBSET Runs : seen' = [seen EXCEPT ![t] = S]
      /\ todo' \subseteq Runs
      /\ retention_lock' \in Threads \cup {NoThread}
      /\ faults' \in 0..MaxFaults
      /\ status' \in [Runs -> {"none", "active", "canceling", "over", "gone"}]
      /\ Holding' \subseteq Holding
  <2>1. CASE BeginRetention(t)
    BY <1>1, <2>1
       DEF BeginRetention, StartListing, OnDisk, Goto, TypeOK, Holding, HoldsCapacity,
           locks
  <2>2. CASE Survey(t)
    <3>1. PICK r \in unread[t] : /\ unread' = [unread EXCEPT ![t] = @ \ {r}]
                                 /\ seen' = [seen EXCEPT ![t] = seen'[t]]
                                 /\ seen'[t] \in {seen[t], seen[t] \cup {r}}
      BY <1>1, <2>2 DEF Survey, ReadFile, TypeOK
    <3>2. unread[t] \ {r} \in SUBSET Runs /\ seen'[t] \in SUBSET Runs
      BY <1>1, <3>1 DEF TypeOK
    <3>3. /\ pc' = pc /\ pc[t] = "surveying"
          /\ UNCHANGED <<status, target, todo, retention_lock, run_lock, faults>>
      BY <2>2 DEF Survey, ReadFile, At, locks
    <3>4. Holding' = Holding
      BY <3>3 DEF Holding, HoldsCapacity
    <3>5. QED
      BY <1>1, <3>1, <3>2, <3>3, <3>4 DEF TypeOK
  <2>3. CASE ChooseExpired(t)
    <3>1. Expired(seen[t]) \in SUBSET Runs
      BY <1>1 DEF Expired, TypeOK
    <3>2. /\ seen' = [seen EXCEPT ![t] = Expired(seen[t])]
          /\ pc' = [pc EXCEPT ![t] = "pruning"]
          /\ UNCHANGED <<status, target, unread, todo, retention_lock, run_lock, faults>>
      BY <2>3 DEF ChooseExpired, Goto, locks
    <3>3. Holding' = Holding
      BY <3>2 DEF Holding, HoldsCapacity
    <3>4. QED
      BY <1>1, <3>1, <3>2, <3>3 DEF TypeOK
  <2>4. CASE TakeUp(t)
    <3>1. PICK r \in seen[t] : /\ run_lock' = [run_lock EXCEPT ![r] = t]
                               /\ target' = [target EXCEPT ![t] = r]
      BY <2>4 DEF TakeUp
    <3>2. r \in Runs /\ r \in 0..RunCount
      BY <1>1, <3>1, LimitsAssumption DEF TypeOK, Runs
    <3>3. /\ pc' = [pc EXCEPT ![t] = "deleting"]
          /\ UNCHANGED <<status, unread, seen, todo, retention_lock, faults>>
      BY <2>4 DEF TakeUp, Goto, listing
    <3>4. Holding' = Holding
      BY <3>3 DEF Holding, HoldsCapacity
    <3>5. QED
      BY <1>1, <3>1, <3>2, <3>3, <3>4 DEF TypeOK
  <2>5. CASE PassOver(t)
    <3>1. PICK r \in seen[t] : seen' = [seen EXCEPT ![t] = @ \ {r}]
      BY <2>5 DEF PassOver
    <3>2. seen[t] \ {r} \in SUBSET Runs
      BY <1>1 DEF TypeOK
    <3>3. /\ pc' = pc /\ pc[t] = "pruning"
          /\ UNCHANGED <<status, target, unread, todo, retention_lock, run_lock, faults>>
      BY <2>5 DEF PassOver, At, locks
    <3>4. Holding' = Holding
      BY <3>3 DEF Holding, HoldsCapacity
    <3>5. QED
      BY <1>1, <3>1, <3>2, <3>3, <3>4 DEF TypeOK
  <2>6. CASE Delete(t) \/ RetentionFails(t)
    <3>1. /\ status' = status \/ status' = [status EXCEPT ![target[t]] = "gone"]
          /\ run_lock' = [run_lock EXCEPT ![target[t]] = NoThread]
          /\ target' = [target EXCEPT ![t] = 0]
          /\ \/ seen' = [seen EXCEPT ![t] = @ \ {target[t]}]
             \/ seen' = [seen EXCEPT ![t] = {}]
          /\ pc' = [pc EXCEPT ![t] = "pruning"] \/ pc' = [pc EXCEPT ![t] = "idle"]
          /\ unread' = unread
          /\ retention_lock' \in {retention_lock, NoThread}
          /\ todo' \in {todo, {}}
      BY <2>6 DEF Delete, RetentionFails, Goto
    <3>2. seen[t] \ {target[t]} \in SUBSET Runs /\ {} \in SUBSET Runs
          /\ 0 \in 0..RunCount
      BY <1>1, LimitsAssumption DEF TypeOK
    <3>3. faults' \in 0..MaxFaults
      BY <1>1, <2>6, LimitsAssumption DEF Delete, RetentionFails, Fault, TypeOK
    <3>4. Holding' \subseteq Holding
      BY <1>1, <3>1 DEF Holding, HoldsCapacity, TypeOK
    <3>5. /\ status' \in [Runs -> {"none", "active", "canceling", "over", "gone"}]
          /\ run_lock' \in [Runs -> Threads \cup {NoThread}]
      BY <1>1, <3>1 DEF TypeOK
    <3>6. /\ todo' \subseteq Runs /\ retention_lock' \in Threads \cup {NoThread}
      BY <1>1, <3>1 DEF TypeOK
    <3>7. \E S \in SUBSET Runs : seen' = [seen EXCEPT ![t] = S]
      BY <3>1, <3>2
    <3>8. QED
      BY <3>1, <3>2, <3>3, <3>4, <3>5, <3>6, <3>7
  <2>7. CASE EndRetention(t)
    BY <1>1, <2>7
       DEF EndRetention, After, Goto, listing, TypeOK, Holding, HoldsCapacity
  <2>8. QED
    BY <2>1, <2>2, <2>3, <2>4, <2>5, <2>6, <2>7, TwoOutcomes DEF Retention
<1>4. TypeOK'
  BY <1>1, <1>2, <1>3 DEF TypeOK, PC
<1>5. Elsewhere(t)
  <2>1. \A s \in Threads : s # t =>
            /\ pc'[s] = pc[s] /\ unread'[s] = unread[s] /\ seen'[s] = seen[s]
            /\ target'[s] = target[s]
    BY <1>1, <1>3 DEF TypeOK
  <2>2. pc'[t] \notin Submitting
    BY <1>1, <1>3 DEF TypeOK, Submitting
  <2>3. QED
    BY <1>2, <2>1, <2>2 DEF Elsewhere
<1>6. QED
  BY <1>3, <1>4, <1>5, ElsewhereKeeps

LEMMA RestartStep == ASSUME SInv, Restart PROVE SInv'
<1>1. TypeOK
  BY DEF SInv
<1>2. faults' \in 0..MaxFaults /\ 0 \in 0..RunCount
  BY <1>1, LimitsAssumption DEF Restart, Fault, TypeOK
<1>3. TypeOK'
  <2>1. /\ status' = status /\ aged' = aged /\ dropped' \subseteq Unlisted
        /\ todo' \subseteq Runs
    BY <1>1 DEF Restart, TypeOK
  <2>2. /\ pc' \in [Threads -> PC] /\ target' \in [Threads -> 0..RunCount]
        /\ unread' \in [Threads -> SUBSET Runs] /\ seen' \in [Threads -> SUBSET Runs]
    BY <1>2 DEF Restart, PC
  <2>3. /\ submit_lock' \in Threads \cup {NoThread}
        /\ retention_lock' \in Threads \cup {NoThread}
        /\ run_lock' \in [Runs -> Threads \cup {NoThread}]
    BY DEF Restart
  <2>4. serving' \in BOOLEAN
    BY Zenon DEF Restart
  <2>5. QED
    BY <1>1, <1>2, <2>1, <2>2, <2>3, <2>4, Zenon DEF TypeOK
<1>4. Holding' = Holding
  BY DEF Restart, Holding, HoldsCapacity
<1>5. \A s \in Threads : pc'[s] \notin Submitting
  BY DEF Restart, Submitting
<1>6. QED
  BY <1>3, <1>4, <1>5, OthersKeep

LEMMA AgeStep == ASSUME SInv, NEW r \in Runs, Age(r) PROVE SInv'
<1>1. UNCHANGED <<status, serving, dropped, pc, target, listing, locks, faults>>
  BY DEF Age
<1>2. TypeOK'
  BY <1>1 DEF Age, SInv, TypeOK, listing, locks
<1>3. Holding' = Holding
  BY <1>1 DEF Holding, HoldsCapacity
<1>4. QED
  BY <1>1, <1>2, <1>3, OthersKeep DEF listing, locks

LEMMA SInvStep == SInv /\ [Next]_vars => SInv'
<1> SUFFICES ASSUME SInv, [Next]_vars PROVE SInv'
  OBVIOUS
<1>1. Submitters \subseteq Threads /\ Cancelers \subseteq Threads /\ Reconciler \in Threads
  BY DEF Threads
<1>2. CASE UNCHANGED vars
  <2>1. TypeOK'
    BY <1>2 DEF vars, SInv, TypeOK
  <2>2. Holding' = Holding
    BY <1>2 DEF vars, Holding, HoldsCapacity
  <2>3. QED
    BY <1>2, <2>1, <2>2, OthersKeep DEF vars
<1>3. ASSUME NEW t \in Submitters, BeginSubmit(t) \/ Submission(t) \/ SubmitFails(t)
      PROVE  SInv'
  BY <1>3, BeginSubmitStep, CountStep, AcceptStep, SaveAttemptStep,
     LeaveSubmitSteps, CreateUncertainStep DEF Submission
<1>4. CASE BeginPass \/ Pass
  BY <1>1, <1>4, PassSteps, CallSteps DEF Pass
<1>5. ASSUME NEW t \in Threads,
             BeginCancel(t) \/ Work(t) \/ Leave(t) \/ Raise(t)
             \/ Retention(t) \/ RetentionFails(t)
      PROVE  SInv'
  BY <1>5, CallSteps, WorkSteps, RetentionSteps
<1>6. QED
  BY <1>1, <1>2, <1>3, <1>4, <1>5, RestartStep, AgeStep DEF Next

\* Types
THEOREM ServiceTyped == Spec => []TypeOK
<1>1. SInv => TypeOK
  BY DEF SInv
<1>2. QED
  BY <1>1, SInvInit, SInvStep, PTL DEF Spec

\* At most maximum_active_runs hold capacity, however submissions, passes,
\* cancellations and retention interleave.
THEOREM CapacityIsRespected == Spec => []CapacityRespected
<1>1. SInv => CapacityRespected
  BY DEF SInv
<1>2. QED
  BY <1>1, SInvInit, SInvStep, PTL DEF Spec

-----------------------------------------------------------------------------
(* Retention *)

\* A set of runs has a newest and an oldest member.
LEMMA NewestAndOldest ==
    ASSUME NEW S \in SUBSET Runs, S # {}
    PROVE  /\ \E m \in S : \A p \in S : p <= m
           /\ \E m \in S : \A p \in S : m <= p
<1> DEFINE Newer(m) == {p \in S : p > m}
<1> DEFINE Older(m) == {p \in S : p < m}
<1>1. S \subseteq Nat
  BY LimitsAssumption DEF Runs
<1>2. IsWellFoundedOn(StrictSubsetOrdering(S), FiniteSubsetsOf(S))
  BY FS_StrictSubsetOrderingWellFounded
<1>3. \A T \in SUBSET S : T \in FiniteSubsetsOf(S)
  BY RunsFinite DEF FiniteSubsetsOf
<1>4. \E m \in S : \A p \in S : p <= m
  <2> DEFINE F == {Newer(m) : m \in S}
  <2>1. F \subseteq FiniteSubsetsOf(S) /\ F # {}
    BY <1>3
  <2> HIDE DEF F
  <2>2. PICK X \in F : \A Y \in F : ~(<<Y, X>> \in StrictSubsetOrdering(S))
    BY <1>2, <2>1, WFMin
  <2>3. PICK m \in S : X = Newer(m)
    BY <2>2 DEF F
  <2>4. ASSUME NEW p \in S PROVE p <= m
    <3> SUFFICES ASSUME p > m PROVE FALSE
      BY <1>1
    <3>1. Newer(p) \in F
      BY DEF F
    <3>2. Newer(p) \subseteq Newer(m) /\ p \in Newer(m) /\ p \notin Newer(p)
      <4>1. p \in Nat /\ m \in Nat
        BY <1>1
      <4>2. ASSUME NEW q \in S, q > p PROVE q > m
        <5>1. q \in Nat
          BY <1>1
        <5>2. QED
          BY <4>1, <4>2, <5>1
      <4>3. ~(p > p)
        BY <4>1
      <4>4. QED
        BY <4>2, <4>3
    <3>3. Newer(p) \in SUBSET S /\ Newer(m) \in SUBSET S /\ Newer(p) # Newer(m)
      BY <3>2
    <3> HIDE DEF Newer
    <3>4. <<Newer(p), Newer(m)>> \in StrictSubsetOrdering(S)
      BY <3>2, <3>3 DEF StrictSubsetOrdering
    <3>5. QED
      BY <2>2, <2>3, <3>1, <3>4
  <2>5. QED
    BY <2>4
<1>5. \E m \in S : \A p \in S : m <= p
  <2> DEFINE F == {Older(m) : m \in S}
  <2>1. F \subseteq FiniteSubsetsOf(S) /\ F # {}
    BY <1>3
  <2> HIDE DEF F
  <2>2. PICK X \in F : \A Y \in F : ~(<<Y, X>> \in StrictSubsetOrdering(S))
    BY <1>2, <2>1, WFMin
  <2>3. PICK m \in S : X = Older(m)
    BY <2>2 DEF F
  <2>4. ASSUME NEW p \in S PROVE m <= p
    <3> SUFFICES ASSUME p < m PROVE FALSE
      BY <1>1
    <3>1. Older(p) \in F
      BY DEF F
    <3>2. Older(p) \subseteq Older(m) /\ p \in Older(m) /\ p \notin Older(p)
      <4>1. p \in Nat /\ m \in Nat
        BY <1>1
      <4>2. ASSUME NEW q \in S, q < p PROVE q < m
        <5>1. q \in Nat
          BY <1>1
        <5>2. QED
          BY <4>1, <4>2, <5>1
      <4>3. ~(p < p)
        BY <4>1
      <4>4. QED
        BY <4>2, <4>3
    <3>3. Older(p) \in SUBSET S /\ Older(m) \in SUBSET S /\ Older(p) # Older(m)
      BY <3>2
    <3> HIDE DEF Older
    <3>4. <<Older(p), Older(m)>> \in StrictSubsetOrdering(S)
      BY <3>2, <3>3 DEF StrictSubsetOrdering
    <3>5. QED
      BY <2>2, <2>3, <3>1, <3>4
  <2>5. QED
    BY <2>4
<1>6. QED
  BY <1>4, <1>5

\* What retention keeps of a listing: the newest of the runs that are not too
\* old, and at most MaxRetained of them.
LEMMA ExpiredLeaves ==
    ASSUME NEW S \in SUBSET Runs
    PROVE  /\ \A r \in Expired(S) \ aged :
                  Cardinality({q \in S \ Expired(S) : q > r}) >= MaxRetained
           /\ Cardinality(S \ Expired(S)) <= MaxRetained
<1> DEFINE A == S \ aged
           K == S \ Expired(S)
           Newer(r) == {q \in A : q > r}
<1>1. S \subseteq Nat /\ MaxRetained \in Nat \ {0}
  BY LimitsAssumption DEF Runs
<1>2. /\ \A r \in A : r \in K <=> ~(Cardinality(Newer(r)) >= MaxRetained)
      /\ K \subseteq A
  BY DEF Expired
<1>3. /\ \A r \in S : Newer(r) \in SUBSET Runs
      /\ \A r \in S : {q \in K : q > r} \in SUBSET Runs
      /\ K \in SUBSET Runs /\ A \in SUBSET Runs
  OBVIOUS
<1>4. \A T \in SUBSET Runs : Cardinality(T) \in Nat /\ IsFiniteSet(T)
  BY RunsFinite
<1>5. ASSUME NEW r \in Expired(S) \ aged
      PROVE  Cardinality({q \in K : q > r}) >= MaxRetained
  <2>1. r \in A /\ r \notin K
    BY DEF Expired
  <2>2. CASE Newer(r) \subseteq K
    <3>1. {q \in K : q > r} = Newer(r)
      BY <1>2, <2>2
    <3>2. Cardinality(Newer(r)) \in Nat
      BY <1>3, <1>4, <2>1
    <3>3. QED
      BY <1>1, <1>2, <2>1, <3>1, <3>2
  <2>3. CASE Newer(r) \ K # {}
    <3>1. Newer(r) \ K \in SUBSET Runs
      OBVIOUS
    <3>2. PICK m \in Newer(r) \ K : \A p \in Newer(r) \ K : p <= m
      BY <2>3, <3>1, NewestAndOldest
    <3>3. m \in A /\ m > r /\ m \notin K
      BY <3>2
    <3>4. Newer(m) \subseteq {q \in K : q > r}
      <4>1. ASSUME NEW q \in Newer(m) PROVE q > r /\ q \in K
        <5>1. q \in Nat /\ m \in Nat /\ r \in Nat /\ q \in A /\ q > m
          BY <1>1, <2>1, <3>3
        <5>2. q > r /\ ~(q <= m)
          BY <3>3, <5>1
        <5>3. q \in Newer(r)
          BY <5>1, <5>2
        <5> HIDE DEF Newer, K, A
        <5>4. QED
          BY <3>2, <5>2, <5>3
      <4>2. QED
        BY <4>1
    <3>5. /\ Cardinality(Newer(m)) >= MaxRetained
          /\ Cardinality(Newer(m)) \in Nat
      BY <1>1, <1>2, <1>3, <1>4, <3>3
    <3>6. {q \in K : q > r} \in SUBSET Runs
      OBVIOUS
    <3>7. Cardinality(Newer(m)) <= Cardinality({q \in K : q > r})
      BY <3>4, <3>6, RunsFinite
    <3>8. Cardinality({q \in K : q > r}) \in Nat
      BY <3>6, <1>4
    <3> HIDE DEF Newer, K, A
    <3>9. QED
      BY <1>1, <3>5, <3>7, <3>8
  <2>4. QED
    BY <2>2, <2>3
<1>6. Cardinality(K) <= MaxRetained
  <2>1. CASE K = {}
    BY <1>1, <2>1, FS_EmptySet
  <2>2. CASE K # {}
    <3>1. PICK m \in K : \A p \in K : m <= p
      BY <1>3, <2>2, NewestAndOldest
    <3>2. m \in A /\ m \in S
      BY <3>1, <1>2
    <3>3. K \ {m} \subseteq Newer(m)
      <4>1. ASSUME NEW q \in K \ {m} PROVE q \in Newer(m)
        <5>1. q \in Nat /\ m \in Nat /\ q # m /\ q \in A /\ m <= q
          BY <1>1, <1>2, <3>1, <3>2
        <5>2. QED
          BY <5>1
      <4>2. QED
        BY <4>1
    <3>4. Newer(m) \in SUBSET Runs
      OBVIOUS
    <3>5. ~(Cardinality(Newer(m)) >= MaxRetained)
      BY <1>2, <3>1, <3>2
    <3> HIDE DEF Newer, K, A
    <3>6. /\ Cardinality(K \ {m}) <= Cardinality(Newer(m))
          /\ Cardinality(Newer(m)) \in Nat
      BY <3>3, <3>4, RunsFinite
    <3>7. IsFiniteSet(K) /\ Cardinality(K) \in Nat
      BY <1>3, <1>4
    <3>8. Cardinality(K \ {m}) = Cardinality(K) - 1
      BY <3>1, <3>7, FS_RemoveElement
    <3>9. QED
      BY <1>1, <3>5, <3>6, <3>7, <3>8
  <2>3. QED
    BY <2>1, <2>2
<1>7. QED
  BY <1>5, <1>6

-----------------------------------------------------------------------------
(* What is deleted *)

\* A thread at work on a run, or deleting it, holds its lock.
RunLockHeld ==
    \A t \in Threads : pc[t] \in {"work", "deleting"} =>
        target[t] \in Runs /\ run_lock[target[t]] = t

\* Runs are created in order.
NumberedInOrder ==
    \A r \in Runs : status[r] # "none" => \A q \in Runs : q < r => status[q] # "none"

AgedExist == \A r \in aged : status[r] # "none"

\* The run submit() is still at work on is on disk, young, and the newest.
SubmittedIsNewest ==
    \A t \in Threads : pc[t] \in {"save", "create"} =>
        /\ target[t] \notin aged
        /\ status[target[t]] \in {"active", "canceling", "over"}
        /\ \A q \in Runs : q > target[t] => status[q] = "none"

\* Retention deletes no run that is young and the newest.
Outlived(r) == r \in aged \/ \E q \in Runs : q > r /\ status[q] # "none"

ListedExist ==
    \A t \in Threads : pc[t] = "surveying" => \A r \in seen[t] : status[r] # "none"

ChosenOutlived ==
    \A t \in Threads : pc[t] \in {"pruning", "deleting"} =>
        \A r \in seen[t] : Outlived(r)

\* Nothing undoes what the second look has seen.
DeletedIsOver ==
    \A t \in Threads : pc[t] = "deleting" =>
        target[t] \in seen[t] /\ status[target[t]] = "over"

DInv == /\ SInv
        /\ RunLockHeld
        /\ NumberedInOrder
        /\ AgedExist
        /\ SubmittedIsNewest
        /\ ListedExist
        /\ ChosenOutlived
        /\ DeletedIsOver

LEMMA DInvInit == Init => DInv
<1> SUFFICES ASSUME Init PROVE DInv
  OBVIOUS
<1>1. /\ \A t \in Threads : pc[t] = "idle"
      /\ \A r \in Runs : status[r] = "none"
  BY DEF Init
<1>2. QED
  BY <1>1, SInvInit DEF Init, DInv, RunLockHeld, NumberedInOrder, AgedExist,
                        SubmittedIsNewest, ListedExist, ChosenOutlived, DeletedIsOver

\* A step by which no run is created
LEMMA NoneCreatedKeeps ==
    ASSUME DInv, SInv', RunLockHeld', DeletedIsOver',
           \A r \in Runs : status'[r] = "none" <=> status[r] = "none",
           aged \subseteq aged', \A r \in aged' \ aged : status[r] # "none",
           \A t \in Threads : pc'[t] \in {"save", "create"} =>
               /\ pc[t] \in {"save", "create"} /\ target'[t] = target[t]
               /\ target[t] \notin aged'
               /\ status'[target[t]] \in {"active", "canceling", "over"},
           \A t \in Threads : pc'[t] = "surveying" =>
               \A r \in seen'[t] : status[r] # "none",
           \A t \in Threads : pc'[t] \in {"pruning", "deleting"} =>
               \A r \in seen'[t] : Outlived(r)
    PROVE  DInv'
<1>1. /\ \A t \in Threads : seen'[t] \subseteq Runs
      /\ aged' \subseteq Runs
  BY DEF SInv, TypeOK
<1>2. NumberedInOrder'
  BY DEF DInv, NumberedInOrder
<1>3. SubmittedIsNewest'
  BY DEF DInv, SubmittedIsNewest
<1>4. ListedExist'
  BY <1>1 DEF ListedExist
<1>5. \A r \in Runs : Outlived(r) => Outlived(r)'
  BY DEF Outlived
<1>6. ChosenOutlived'
  BY <1>1, <1>5 DEF ChosenOutlived
<1>7. AgedExist'
  BY <1>1 DEF DInv, AgedExist
<1>8. QED
  BY <1>2, <1>3, <1>4, <1>6, <1>7 DEF DInv

\* A step that leaves the runs alone and goes on with no submission or retention.
LEMMA CalmKeeps ==
    ASSUME DInv, SInv', RunLockHeld', status' = status, aged' = aged,
           \A t \in Threads : pc'[t] \in {"save", "create"} =>
               pc[t] = pc'[t] /\ target'[t] = target[t],
           \A t \in Threads : pc'[t] \in {"surveying", "pruning", "deleting"} =>
               /\ pc[t] = pc'[t] /\ seen'[t] = seen[t]
               /\ target'[t] = target[t]
    PROVE  DInv'
<1>1. DeletedIsOver'
  BY DEF DInv, DeletedIsOver
<1>2. \A t \in Threads : pc'[t] \in {"save", "create"} =>
          /\ pc[t] \in {"save", "create"} /\ target'[t] = target[t]
          /\ target[t] \notin aged'
          /\ status'[target[t]] \in {"active", "canceling", "over"}
  BY DEF DInv, SubmittedIsNewest
<1>3. /\ \A t \in Threads : pc'[t] = "surveying" =>
             \A r \in seen'[t] : status[r] # "none"
      /\ \A t \in Threads : pc'[t] \in {"pruning", "deleting"} =>
             \A r \in seen'[t] : Outlived(r)
  BY DEF DInv, ListedExist, ChosenOutlived
<1>4. QED
  BY <1>1, <1>2, <1>3, NoneCreatedKeeps

\* Only thread t moves, and to no label the invariant speaks of.
MovesAside(t) ==
    /\ \A s \in Threads : s # t =>
           pc'[s] = pc[s] /\ seen'[s] = seen[s] /\ target'[s] = target[s]
    /\ \/ pc'[t] \in {"idle", "counting", "prune", "listing", "visiting"}
       \/ pc'[t] = pc[t] /\ seen'[t] = seen[t] /\ target'[t] = target[t]

LEMMA CalmSteps ==
    ASSUME DInv, SInv',
           \/ \E t \in Submitters : \/ BeginSubmit(t) \/ Count(t) \/ Refuse(t)
                                    \/ CreateJob(t) \/ SubmitFails(t)
           \/ BeginPass \/ List \/ StartVisits \/ EndPass
           \/ \E t \in Threads : EndRetention(t)
           \/ UNCHANGED vars
    PROVE  DInv'
<1>1. TypeOK /\ Submitters \subseteq Threads /\ Reconciler \in Threads
  BY DEF DInv, SInv, Threads
<1>2. /\ UNCHANGED <<status, aged, run_lock>>
      /\ \E t \in Threads : MovesAside(t)
  <2>1. ASSUME NEW t \in Submitters,
               BeginSubmit(t) \/ Count(t) \/ Refuse(t) \/ CreateJob(t) \/ SubmitFails(t)
        PROVE  \E s \in Threads : MovesAside(s)
    <3>1. t \in Threads
      BY <1>1
    <3>2. /\ \A s \in Threads : s # t => /\ pc'[s] = pc[s] /\ seen'[s] = seen[s]
                                         /\ target'[s] = target[s]
          /\ pc'[t] \in {"idle", "counting", "prune"}
      BY <1>1, <2>1, <3>1
         DEF TypeOK, BeginSubmit, StartListing, Count, ReadFile, Refuse, CreateJob,
             SubmitFails, LeaveSubmit, Goto, At, listing
    <3>3. QED
      BY <3>1, <3>2 DEF MovesAside
  <2>2. ASSUME BeginPass \/ List \/ StartVisits \/ EndPass
        PROVE  \E s \in Threads : MovesAside(s)
    <3>1. /\ \A s \in Threads : s # Reconciler =>
                 /\ pc'[s] = pc[s] /\ seen'[s] = seen[s] /\ target'[s] = target[s]
          /\ pc'[Reconciler] \in {"idle", "listing", "visiting"}
      BY <1>1, <2>2 DEF TypeOK, BeginPass, StartListing, List, ReadFile, StartVisits,
                        EndPass, Goto, At, listing
    <3>2. QED
      BY <1>1, <3>1 DEF MovesAside
  <2>3. ASSUME NEW t \in Threads, EndRetention(t)
        PROVE  \E s \in Threads : MovesAside(s)
    BY <1>1, <2>3 DEF TypeOK, EndRetention, After, Goto, listing, MovesAside
  <2>4. ASSUME UNCHANGED vars
        PROVE  \E s \in Threads : MovesAside(s)
    BY <1>1, <2>4 DEF vars, MovesAside
  <2>5. UNCHANGED <<status, aged, run_lock>>
    BY DEF BeginSubmit, Count, ReadFile, Refuse, CreateJob, SubmitFails, LeaveSubmit,
           BeginPass, List, StartVisits, EndPass, EndRetention, vars, locks
  <2>6. QED
    BY <2>1, <2>2, <2>3, <2>4, <2>5
<1>3. RunLockHeld'
  BY <1>2 DEF DInv, RunLockHeld, MovesAside
<1>4. QED
  BY <1>2, <1>3, CalmKeeps DEF MovesAside

LEMMA RestartCalm == ASSUME DInv, SInv', Restart PROVE DInv'
<1>1. /\ \A t \in Threads : pc'[t] = "idle"
      /\ status' = status /\ aged' = aged
  BY DEF Restart
<1>2. QED
  BY <1>1, CalmKeeps DEF RunLockHeld

LEMMA CallsCalm ==
    ASSUME DInv, SInv', NEW t \in Threads,
           (t = Reconciler /\ Visit) \/ BeginCancel(t) \/ Leave(t) \/ Raise(t)
    PROVE  DInv'
<1>1. TypeOK
  BY DEF DInv, SInv
<1>2. \/ \E r \in Runs : Lock(t, r)
      \/ \E label \in {"idle", "visiting", "prune"} : Unlock(t, label) /\ At(t, "work")
  BY <1>1 DEF Visit, BeginCancel, OnDisk, Leave, After, Raise, TypeOK
<1>3. CASE \E r \in Runs : Lock(t, r)
  <2>1. PICK r \in Runs : Lock(t, r)
    BY <1>3
  <2>2. /\ run_lock[r] = NoThread /\ run_lock'[r] = t
        /\ pc'[t] = "work" /\ target'[t] = r
        /\ \A q \in Runs : q # r => run_lock'[q] = run_lock[q]
        /\ \A s \in Threads : s # t => pc'[s] = pc[s] /\ target'[s] = target[s]
        /\ UNCHANGED <<status, aged, seen>>
    BY <1>1, <2>1 DEF Lock, Goto, TypeOK
  <2>3. RunLockHeld'
    <3>1. ASSUME NEW s \in Threads, pc'[s] \in {"work", "deleting"}, s # t
          PROVE  target'[s] \in Runs /\ run_lock'[target'[s]] = s
      <4>1. target[s] \in Runs /\ run_lock[target[s]] = s
        BY <2>2, <3>1 DEF DInv, RunLockHeld
      <4>2. target[s] # r
        BY <2>2, <4>1, RolesAssumption
      <4>3. QED
        BY <2>2, <3>1, <4>1, <4>2
    <3>2. QED
      BY <2>2, <3>1 DEF RunLockHeld
  <2>4. QED
    BY <2>2, <2>3, CalmKeeps
<1>4. CASE \E label \in {"idle", "visiting", "prune"} : Unlock(t, label) /\ At(t, "work")
  <2>1. /\ pc[t] = "work" /\ pc'[t] \in {"idle", "visiting", "prune"}
        /\ target[t] \in Runs /\ run_lock[target[t]] = t
        /\ \A q \in Runs : q # target[t] => run_lock'[q] = run_lock[q]
        /\ \A s \in Threads : s # t => pc'[s] = pc[s] /\ target'[s] = target[s]
        /\ UNCHANGED <<status, aged, seen>>
    BY <1>1, <1>4 DEF Unlock, Goto, At, TypeOK, DInv, RunLockHeld
  <2>2. RunLockHeld'
    BY <2>1 DEF DInv, RunLockHeld
  <2>3. QED
    BY <2>1, <2>2, CalmKeeps
<1>5. QED
  BY <1>2, <1>3, <1>4

LEMMA AcceptCreates ==
    ASSUME DInv, SInv', NEW t \in Submitters, Accept(t)
    PROVE  DInv'
<1>1. TypeOK /\ t \in Threads
  BY DEF DInv, SInv, Threads
<1>2. PICK r \in Runs : /\ status[r] = "none"
                        /\ \A q \in 1 .. r - 1 : status[q] # "none"
                        /\ status' = [status EXCEPT ![r] = "active"]
                        /\ target' = [target EXCEPT ![t] = r]
  BY DEF Accept
<1>3. /\ pc[t] = "counting" /\ pc'[t] = "save" /\ target'[t] = r
      /\ \A s \in Threads : s # t => /\ pc'[s] = pc[s] /\ target'[s] = target[s]
                                     /\ seen'[s] = seen[s]
      /\ status'[r] = "active"
      /\ \A q \in Runs : q # r => status'[q] = status[q]
      /\ UNCHANGED <<aged, run_lock>>
  BY <1>1, <1>2 DEF Accept, Listed, At, Goto, TypeOK, locks
<1>4. \A q \in Runs : q < r => status[q] # "none"
  <2>1. \A q \in Runs : q < r => q \in 1 .. r - 1
    BY LimitsAssumption DEF Runs
  <2>2. QED
    BY <1>2, <2>1
<1>5. \A q \in Runs : q > r => status[q] = "none"
  <2>1. \A q \in Runs : q > r => r < q
    BY LimitsAssumption DEF Runs
  <2>2. QED
    BY <1>2, <2>1 DEF DInv, NumberedInOrder
<1>6. r \notin Runs \/ ~(r > r)
  BY LimitsAssumption DEF Runs
<1>7. \A s \in Threads : s # t => pc[s] \notin {"save", "create"}
  BY <1>1, <1>3 DEF DInv, SInv, SubmitHoldsLock, Submitting
<1>8. RunLockHeld'
  BY <1>3 DEF DInv, RunLockHeld
<1>9. NumberedInOrder'
  BY <1>3, <1>4 DEF DInv, NumberedInOrder
<1>10. SubmittedIsNewest'
  <2>1. r \notin aged
    BY <1>2 DEF DInv, AgedExist
  <2>2. QED
    BY <1>3, <1>5, <1>6, <1>7, <2>1 DEF SubmittedIsNewest
<1>11. ListedExist' /\ ChosenOutlived'
  <2>1. \A s \in Threads : seen[s] \subseteq Runs
    BY <1>1 DEF TypeOK
  <2>2. \A q \in Runs : status[q] # "none" => status'[q] # "none"
    BY <1>3
  <2>3. \A q \in Runs : Outlived(q) => Outlived(q)'
    BY <1>3, <2>2 DEF Outlived
  <2>4. ListedExist'
    BY <1>3, <2>1, <2>2 DEF DInv, ListedExist
  <2>5. ChosenOutlived'
    BY <1>3, <2>1, <2>3 DEF DInv, ChosenOutlived
  <2>6. QED
    BY <2>4, <2>5
<1>12. DeletedIsOver'
  BY <1>1, <1>2, <1>3 DEF DInv, DeletedIsOver, TypeOK
<1>13. AgedExist'
  BY <1>1, <1>3 DEF DInv, AgedExist, TypeOK
<1>14. QED
  BY <1>8, <1>9, <1>10, <1>11, <1>12, <1>13 DEF DInv

\* submit() makes its run active again, whatever became of it: it is the newest
\* and young, so no thread is deleting it.
LEMMA SavesKeep ==
    ASSUME DInv, SInv', NEW t \in Submitters, SaveAttempt(t) \/ CreateUncertain(t)
    PROVE  DInv'
<1>1. TypeOK /\ t \in Threads
  BY DEF DInv, SInv, Threads
<1>2. /\ pc[t] \in {"save", "create"} /\ pc'[t] \in {"create", "prune"}
      /\ pc'[t] = "create" => target'[t] = target[t]
      /\ status' = [status EXCEPT ![target[t]] = "active"]
      /\ \A s \in Threads : s # t => pc'[s] = pc[s] /\ target'[s] = target[s]
      /\ UNCHANGED <<aged, seen, run_lock>>
  BY <1>1 DEF SaveAttempt, CreateUncertain, LeaveSubmit, At, Goto, TypeOK, listing, locks
<1>3. target[t] \in Runs
  BY <1>1, <1>2 DEF DInv, SInv, RoomForAccepted
<1>4. /\ status'[target[t]] = "active" /\ status[target[t]] # "none"
      /\ target[t] \notin aged
      /\ \A q \in Runs : q > target[t] => status[q] = "none"
      /\ \A q \in Runs : q # target[t] => status'[q] = status[q]
  BY <1>1, <1>2, <1>3 DEF DInv, SubmittedIsNewest, TypeOK
<1>5. \A s \in Threads : s # t => pc[s] \notin {"save", "create"}
  BY <1>1, <1>2 DEF DInv, SInv, SubmitHoldsLock, Submitting
<1>6. RunLockHeld'
  BY <1>2 DEF DInv, RunLockHeld
<1>7. DeletedIsOver'
  <2>1. ASSUME NEW s \in Threads, pc'[s] = "deleting"
        PROVE  target'[s] \in seen'[s] /\ status'[target'[s]] = "over"
    <3>1. /\ s # t /\ pc[s] = "deleting" /\ target'[s] = target[s]
          /\ target[s] \in seen[s] /\ status[target[s]] = "over"
          /\ target[s] \in Runs
      BY <1>2, <2>1 DEF DInv, DeletedIsOver, RunLockHeld
    <3>2. Outlived(target[s])
      BY <3>1 DEF DInv, ChosenOutlived
    <3>3. target[s] # target[t]
      BY <1>4, <3>2 DEF Outlived
    <3>4. QED
      BY <1>2, <1>4, <3>1, <3>3
  <2>2. QED
    BY <2>1 DEF DeletedIsOver
<1>8. /\ \A s \in Threads : pc'[s] = "surveying" => pc[s] = "surveying"
      /\ \A s \in Threads : pc'[s] \in {"pruning", "deleting"} => pc'[s] = pc[s]
  BY <1>2
<1>9. /\ \A s \in Threads : pc'[s] = "surveying" =>
             \A r \in seen'[s] : status[r] # "none"
      /\ \A s \in Threads : pc'[s] \in {"pruning", "deleting"} =>
             \A r \in seen'[s] : Outlived(r)
  BY <1>2, <1>8 DEF DInv, ListedExist, ChosenOutlived
<1>10. \A s \in Threads : pc'[s] \in {"save", "create"} =>
          /\ pc[s] \in {"save", "create"} /\ target'[s] = target[s]
          /\ target[s] \notin aged'
          /\ status'[target[s]] \in {"active", "canceling", "over"}
  BY <1>2, <1>4, <1>5
<1>11. \A r \in Runs : status'[r] = "none" <=> status[r] = "none"
  BY <1>4
<1>12. QED
  BY <1>2, <1>6, <1>7, <1>9, <1>10, <1>11, NoneCreatedKeeps

LEMMA WorkKeeps ==
    ASSUME DInv, SInv', NEW t \in Threads, Work(t)
    PROVE  DInv'
<1>1. TypeOK
  BY DEF DInv, SInv
<1>2. PICK r \in Runs, from \in {"active", "canceling"}, to \in {"canceling", "over"} :
          Works(t, r, from, to)
  BY DEF Work, Finish, CancelRun
<1>3. /\ pc[t] = "work" /\ target[t] = r /\ status[r] \in {"active", "canceling"}
      /\ status'[r] \in {"canceling", "over"}
      /\ \A q \in Runs : q # r => status'[q] = status[q]
      /\ UNCHANGED <<aged, pc, target, seen, run_lock>>
  BY <1>1, <1>2 DEF Works, At, TypeOK, listing, locks
<1>4. RunLockHeld'
  BY <1>3 DEF DInv, RunLockHeld
<1>5. DeletedIsOver'
  <2>1. ASSUME NEW s \in Threads, pc[s] = "deleting"
        PROVE  status'[target[s]] = "over"
    <3>1. target[s] \in Runs /\ run_lock[target[s]] = s /\ status[target[s]] = "over"
      BY <2>1 DEF DInv, RunLockHeld, DeletedIsOver
    <3>2. target[s] # r
      BY <1>3, <3>1
    <3>3. QED
      BY <1>3, <3>1, <3>2
  <2>2. QED
    BY <1>3, <2>1 DEF DInv, DeletedIsOver
<1>6. \A s \in Threads : pc'[s] \in {"save", "create"} =>
          /\ pc[s] \in {"save", "create"} /\ target'[s] = target[s]
          /\ target[s] \notin aged'
          /\ status'[target[s]] \in {"active", "canceling", "over"}
  <2>1. ASSUME NEW s \in Threads, pc[s] \in {"save", "create"}
        PROVE  /\ target[s] \notin aged
               /\ status'[target[s]] \in {"active", "canceling", "over"}
    <3>1. /\ target[s] \in Runs /\ target[s] \notin aged
          /\ status[target[s]] \in {"active", "canceling", "over"}
      BY <2>1 DEF DInv, SInv, RoomForAccepted, SubmittedIsNewest
    <3>2. QED
      BY <1>3, <3>1
  <2>2. QED
    BY <1>3, <2>1
<1>7. /\ \A s \in Threads : pc'[s] = "surveying" =>
             \A q \in seen'[s] : status[q] # "none"
      /\ \A s \in Threads : pc'[s] \in {"pruning", "deleting"} =>
             \A q \in seen'[s] : Outlived(q)
  BY <1>3 DEF DInv, ListedExist, ChosenOutlived
<1>8. \A q \in Runs : status'[q] = "none" <=> status[q] = "none"
  BY <1>3
<1>9. QED
  BY <1>3, <1>4, <1>5, <1>6, <1>7, <1>8, NoneCreatedKeeps

LEMMA AgeKeeps ==
    ASSUME DInv, SInv', NEW r \in Runs, Age(r)
    PROVE  DInv'
<1>1. /\ status[r] = "over" /\ aged' = aged \cup {r}
      /\ \A t \in Threads : pc[t] \in {"save", "create"} => target[t] # r
      /\ UNCHANGED <<status, pc, target, seen, run_lock>>
  BY DEF Age, InSubmission, At, listing, locks
<1>2. RunLockHeld' /\ DeletedIsOver'
  BY <1>1 DEF DInv, RunLockHeld, DeletedIsOver
<1>3. \A s \in Threads : pc[s] \in {"save", "create"} => target[s] \notin aged'
  BY <1>1 DEF DInv, SubmittedIsNewest
<1>4. \A s \in Threads : pc'[s] \in {"save", "create"} =>
          /\ pc[s] \in {"save", "create"} /\ target'[s] = target[s]
          /\ target[s] \notin aged'
          /\ status'[target[s]] \in {"active", "canceling", "over"}
  BY <1>1, <1>3 DEF DInv, SubmittedIsNewest
<1>5. /\ \A s \in Threads : pc'[s] = "surveying" =>
             \A q \in seen'[s] : status[q] # "none"
      /\ \A s \in Threads : pc'[s] \in {"pruning", "deleting"} =>
             \A q \in seen'[s] : Outlived(q)
  BY <1>1 DEF DInv, ListedExist, ChosenOutlived
<1>6. QED
  BY <1>1, <1>2, <1>4, <1>5, NoneCreatedKeeps

\* Where retention takes a thread
LEMMA RetentionMoves ==
    ASSUME TypeOK, NEW t \in Threads,
           Retention(t) \/ TakeUp(t) \/ PassOver(t) \/ RetentionFails(t)
    PROVE  /\ \A s \in Threads : s # t =>
                  pc'[s] = pc[s] /\ seen'[s] = seen[s] /\ target'[s] = target[s]
           /\ pc'[t] \in {"surveying", "pruning", "deleting", "idle", "visiting"}
           /\ aged' = aged
<1>1. CASE BeginRetention(t) \/ Survey(t) \/ ChooseExpired(t)
  BY <1>1 DEF BeginRetention, StartListing, Survey, ReadFile, ChooseExpired, At, Goto,
              TypeOK
<1>2. CASE TakeUp(t) \/ PassOver(t) \/ Delete(t)
  BY <1>2 DEF TakeUp, PassOver, Delete, At, Goto, TypeOK, listing
<1>3. CASE EndRetention(t) \/ RetentionFails(t)
  BY <1>3 DEF EndRetention, RetentionFails, After, Goto, TypeOK, listing
<1>4. QED
  BY <1>1, <1>2, <1>3, TwoOutcomes DEF Retention

\* The steps of retention that delete nothing
LEMMA ChoosingKeeps ==
    ASSUME DInv, SInv', NEW t \in Threads,
           \/ BeginRetention(t) \/ Survey(t) \/ ChooseExpired(t)
           \/ TakeUp(t) \/ PassOver(t)
    PROVE  DInv'
<1>1. TypeOK
  BY DEF DInv, SInv
<1>2. /\ \A s \in Threads : s # t =>
             pc'[s] = pc[s] /\ seen'[s] = seen[s] /\ target'[s] = target[s]
      /\ pc'[t] \in {"surveying", "pruning", "deleting", "idle", "visiting"}
      /\ aged' = aged
  BY <1>1, RetentionMoves DEF Retention
<1>3. status' = status
  BY DEF BeginRetention, Survey, ReadFile, ChooseExpired, TakeUp, PassOver
<1>4. \A s \in Threads : pc'[s] \in {"save", "create"} =>
          /\ pc[s] \in {"save", "create"} /\ target'[s] = target[s]
          /\ target[s] \notin aged'
          /\ status'[target[s]] \in {"active", "canceling", "over"}
  BY <1>2, <1>3 DEF DInv, SubmittedIsNewest
<1>5. /\ \A s \in Threads : s # t /\ pc'[s] = "surveying" =>
             \A r \in seen'[s] : status[r] # "none"
      /\ \A s \in Threads : s # t /\ pc'[s] \in {"pruning", "deleting"} =>
             \A r \in seen'[s] : Outlived(r)
  BY <1>2 DEF DInv, ListedExist, ChosenOutlived
<1>6. /\ \A s \in Threads : s # t /\ pc'[s] = "deleting" =>
             target'[s] \in seen'[s] /\ status'[target'[s]] = "over"
  BY <1>2, <1>3 DEF DInv, DeletedIsOver
<1>7. CASE BeginRetention(t)
  <2>1. pc'[t] = "surveying" /\ seen'[t] = {} /\ run_lock' = run_lock
    BY <1>1, <1>7 DEF BeginRetention, StartListing, Goto, TypeOK
  <2>2. RunLockHeld' /\ DeletedIsOver'
    BY <1>2, <1>6, <2>1 DEF DInv, RunLockHeld, DeletedIsOver
  <2>3. /\ \A s \in Threads : pc'[s] = "surveying" =>
               \A r \in seen'[s] : status[r] # "none"
        /\ \A s \in Threads : pc'[s] \in {"pruning", "deleting"} =>
               \A r \in seen'[s] : Outlived(r)
    BY <1>5, <2>1
  <2>4. QED
    BY <1>2, <1>3, <1>4, <2>2, <2>3, NoneCreatedKeeps
<1>8. CASE Survey(t)
  <2>1. PICK r \in unread[t] :
            seen' = [seen EXCEPT ![t] = IF status[r] = "over" THEN @ \cup {r} ELSE @]
    BY <1>8 DEF Survey, ReadFile
  <2>2. /\ pc' = pc /\ pc[t] = "surveying" /\ run_lock' = run_lock
        /\ target' = target
        /\ seen'[t] \subseteq seen[t] \cup {q \in {r} : status[q] = "over"}
    BY <1>1, <1>8, <2>1 DEF Survey, ReadFile, At, TypeOK, locks
  <2>3. \A q \in seen'[t] : status[q] # "none"
    BY <2>2 DEF DInv, ListedExist
  <2>4. RunLockHeld' /\ DeletedIsOver'
    BY <1>2, <1>6, <2>2 DEF DInv, RunLockHeld, DeletedIsOver
  <2>5. /\ \A s \in Threads : pc'[s] = "surveying" =>
               \A q \in seen'[s] : status[q] # "none"
        /\ \A s \in Threads : pc'[s] \in {"pruning", "deleting"} =>
               \A q \in seen'[s] : Outlived(q)
    BY <1>5, <2>2, <2>3
  <2>6. QED
    BY <1>2, <1>3, <1>4, <2>4, <2>5, NoneCreatedKeeps
<1>9. CASE ChooseExpired(t)
  <2>1. /\ pc[t] = "surveying" /\ pc'[t] = "pruning" /\ run_lock' = run_lock
        /\ seen'[t] = Expired(seen[t]) /\ seen[t] \in SUBSET Runs
    BY <1>1, <1>9 DEF ChooseExpired, Listed, At, Goto, TypeOK, locks
  <2>2. RunLockHeld' /\ DeletedIsOver'
    BY <1>2, <1>6, <2>1 DEF DInv, RunLockHeld, DeletedIsOver
  <2>3. ASSUME NEW r \in Expired(seen[t]), r \notin aged
        PROVE  Outlived(r)
    <3> DEFINE Newer == {q \in seen[t] \ Expired(seen[t]) : q > r}
    <3>1. Cardinality(Newer) >= MaxRetained
      BY <2>1, <2>3, ExpiredLeaves
    <3>2. Newer # {}
      BY <3>1, FS_EmptySet, LimitsAssumption
    <3>3. PICK q \in seen[t] : q > r
      BY <3>2
    <3>4. q \in Runs /\ status[q] # "none"
      BY <2>1 DEF DInv, ListedExist
    <3>5. QED
      BY <3>3, <3>4 DEF Outlived
  <2>4. \A r \in seen'[t] : Outlived(r)
    BY <2>1, <2>3 DEF Outlived
  <2>5. /\ \A s \in Threads : pc'[s] = "surveying" =>
               \A q \in seen'[s] : status[q] # "none"
        /\ \A s \in Threads : pc'[s] \in {"pruning", "deleting"} =>
               \A q \in seen'[s] : Outlived(q)
    BY <1>5, <2>1, <2>4
  <2>6. QED
    BY <1>2, <1>3, <1>4, <2>2, <2>5, NoneCreatedKeeps
<1>10. CASE TakeUp(t)
  <2>1. PICK r \in seen[t] : /\ run_lock[r] = NoThread /\ status[r] = "over"
                             /\ run_lock' = [run_lock EXCEPT ![r] = t]
                             /\ target' = [target EXCEPT ![t] = r]
    BY <1>10 DEF TakeUp
  <2>2. /\ r \in Runs /\ pc[t] = "pruning" /\ pc'[t] = "deleting" /\ seen' = seen
        /\ target'[t] = r /\ run_lock'[r] = t
        /\ \A q \in Runs : q # r => run_lock'[q] = run_lock[q]
    BY <1>1, <1>10, <2>1 DEF TakeUp, At, Goto, TypeOK, listing
  <2>3. RunLockHeld'
    <3>1. ASSUME NEW s \in Threads, pc'[s] \in {"work", "deleting"}, s # t
          PROVE  target'[s] \in Runs /\ run_lock'[target'[s]] = s
      <4>1. target[s] \in Runs /\ run_lock[target[s]] = s
        BY <1>2, <3>1 DEF DInv, RunLockHeld
      <4>2. target[s] # r
        BY <2>1, <4>1, RolesAssumption
      <4>3. QED
        BY <1>2, <2>2, <3>1, <4>1, <4>2
    <3>2. QED
      BY <2>2, <3>1 DEF RunLockHeld
  <2>4. DeletedIsOver'
    BY <1>3, <1>6, <2>1, <2>2 DEF DeletedIsOver
  <2>5. /\ \A s \in Threads : pc'[s] = "surveying" =>
               \A q \in seen'[s] : status[q] # "none"
        /\ \A s \in Threads : pc'[s] \in {"pruning", "deleting"} =>
               \A q \in seen'[s] : Outlived(q)
    BY <1>5, <2>2 DEF DInv, ChosenOutlived
  <2>6. QED
    BY <1>2, <1>3, <1>4, <2>3, <2>4, <2>5, NoneCreatedKeeps
<1>11. CASE PassOver(t)
  <2>1. /\ pc' = pc /\ pc[t] = "pruning" /\ run_lock' = run_lock /\ target' = target
        /\ seen'[t] \subseteq seen[t]
    BY <1>1, <1>11 DEF PassOver, At, TypeOK, locks
  <2>2. RunLockHeld' /\ DeletedIsOver'
    BY <1>2, <1>6, <2>1 DEF DInv, RunLockHeld, DeletedIsOver
  <2>3. /\ \A s \in Threads : pc'[s] = "surveying" =>
               \A q \in seen'[s] : status[q] # "none"
        /\ \A s \in Threads : pc'[s] \in {"pruning", "deleting"} =>
               \A q \in seen'[s] : Outlived(q)
    BY <1>5, <2>1 DEF DInv, ChosenOutlived
  <2>4. QED
    BY <1>2, <1>3, <1>4, <2>2, <2>3, NoneCreatedKeeps
<1>12. QED
  BY <1>7, <1>8, <1>9, <1>10, <1>11

\* A deletion meets neither a run submit() is at work on nor one another thread
\* is deleting.
LEMMA DeleteKeeps ==
    ASSUME DInv, SInv', NEW t \in Threads, Delete(t) \/ RetentionFails(t)
    PROVE  DInv'
<1> DEFINE r == target[t]
<1>1. TypeOK
  BY DEF DInv, SInv
<1>2. /\ \A s \in Threads : s # t =>
             pc'[s] = pc[s] /\ seen'[s] = seen[s] /\ target'[s] = target[s]
      /\ aged' = aged
  BY <1>1, RetentionMoves DEF Retention
<1>3. pc[t] = "deleting"
  BY DEF Delete, RetentionFails, At
<1>4. /\ r \in Runs /\ run_lock[r] = t /\ r \in seen[t] /\ status[r] = "over"
      /\ Outlived(r)
  BY <1>3 DEF DInv, RunLockHeld, DeletedIsOver, ChosenOutlived
<1>5. /\ status'[r] \in {"over", "gone"}
      /\ \A q \in Runs : q # r => status'[q] = status[q] /\ run_lock'[q] = run_lock[q]
      /\ pc'[t] \in {"pruning", "idle"} /\ seen'[t] \subseteq seen[t]
  BY <1>1, <1>4 DEF Delete, RetentionFails, Goto, TypeOK
<1>6. ASSUME NEW s \in Threads, s # t, pc[s] \in {"work", "deleting"}
      PROVE  target[s] # r /\ target[s] \in Runs /\ run_lock[target[s]] = s
  BY <1>4, <1>6 DEF DInv, RunLockHeld
<1>7. RunLockHeld'
  BY <1>2, <1>5, <1>6 DEF RunLockHeld
<1>8. DeletedIsOver'
  <2>1. ASSUME NEW s \in Threads, pc'[s] = "deleting"
        PROVE  target'[s] \in seen'[s] /\ status'[target'[s]] = "over"
    <3>1. s # t /\ pc[s] = "deleting"
      BY <1>2, <1>5, <2>1
    <3>2. target[s] \in seen[s] /\ status[target[s]] = "over"
      BY <3>1 DEF DInv, DeletedIsOver
    <3>3. target[s] # r /\ target[s] \in Runs
      BY <1>6, <3>1
    <3>4. QED
      BY <1>2, <1>5, <3>1, <3>2, <3>3
  <2>2. QED
    BY <2>1 DEF DeletedIsOver
<1>9. ASSUME NEW s \in Threads, pc'[s] \in {"save", "create"}
      PROVE  /\ pc[s] \in {"save", "create"} /\ target'[s] = target[s]
             /\ target[s] \notin aged'
             /\ status'[target[s]] \in {"active", "canceling", "over"}
  <2>1. pc[s] = pc'[s] /\ s # t
    BY <1>2, <1>5, <1>9
  <2>2. /\ target[s] \in Runs /\ target[s] \notin aged
        /\ status[target[s]] \in {"active", "canceling", "over"}
        /\ \A q \in Runs : q > target[s] => status[q] = "none"
    BY <1>9, <2>1 DEF DInv, SInv, RoomForAccepted, SubmittedIsNewest
  <2>3. target[s] # r
    BY <1>4, <2>2 DEF Outlived
  <2>4. QED
    BY <1>2, <1>5, <1>9, <2>1, <2>2, <2>3
<1>10. /\ \A s \in Threads : pc'[s] = "surveying" =>
              \A q \in seen'[s] : status[q] # "none"
       /\ \A s \in Threads : pc'[s] \in {"pruning", "deleting"} =>
              \A q \in seen'[s] : Outlived(q)
  BY <1>2, <1>3, <1>5 DEF DInv, ListedExist, ChosenOutlived
<1>11. \A q \in Runs : status'[q] = "none" <=> status[q] = "none"
  BY <1>4, <1>5
<1> HIDE DEF r
<1>12. QED
  BY <1>2, <1>7, <1>8, <1>9, <1>10, <1>11, NoneCreatedKeeps

LEMMA DInvStep == DInv /\ [Next]_vars => DInv'
<1> SUFFICES ASSUME DInv, [Next]_vars PROVE DInv'
  OBVIOUS
<1>1. /\ SInv' /\ Submitters \subseteq Threads /\ Cancelers \subseteq Threads
      /\ Reconciler \in Threads
  BY SInvStep DEF DInv, Threads
<1>2. ASSUME NEW t \in Submitters, BeginSubmit(t) \/ Submission(t) \/ SubmitFails(t)
      PROVE  DInv'
  BY <1>1, <1>2, CalmSteps, AcceptCreates, SavesKeep DEF Submission
<1>3. CASE BeginPass \/ Pass \/ UNCHANGED vars
  BY <1>1, <1>3, CalmSteps, CallsCalm DEF Pass
<1>4. ASSUME NEW t \in Threads,
             BeginCancel(t) \/ Work(t) \/ Leave(t) \/ Raise(t)
             \/ Retention(t) \/ RetentionFails(t)
      PROVE  DInv'
  BY <1>1, <1>4, CallsCalm, WorkKeeps, CalmSteps, ChoosingKeeps, DeleteKeeps, TwoOutcomes
     DEF Retention
<1>5. QED
  BY <1>1, <1>2, <1>3, <1>4, RestartCalm, AgeKeeps DEF Next

\* The steps that delete a run, and what they find
LEMMA Deletions ==
    ASSUME DInv, [Next]_vars, NEW r \in Runs, status'[r] = "gone", status[r] # "gone"
    PROVE  /\ status[r] = "over"
           /\ \E t \in Threads : pc[t] = "deleting" /\ r \in seen[t]
<1>1. /\ TypeOK /\ Submitters \subseteq Threads /\ Cancelers \subseteq Threads
      /\ Reconciler \in Threads
  BY DEF DInv, SInv, Threads
<1>2. ASSUME NEW t \in Threads, Work(t)
      PROVE  FALSE
  <2>1. PICK q \in Runs, from \in {"active", "canceling"}, to \in {"canceling", "over"} :
            Works(t, q, from, to)
    BY <1>2 DEF Work, Finish, CancelRun
  <2>2. QED
    BY <1>1, <2>1 DEF Works, TypeOK
<1>3. ASSUME NEW t \in Submitters, Accept(t) \/ SaveAttempt(t) \/ CreateUncertain(t)
      PROVE  FALSE
  BY <1>1, <1>3 DEF Accept, SaveAttempt, CreateUncertain, TypeOK
<1>4. ASSUME NEW t \in Submitters,
             BeginSubmit(t) \/ Count(t) \/ Refuse(t) \/ CreateJob(t) \/ SubmitFails(t)
      PROVE  FALSE
  BY <1>4 DEF BeginSubmit, Count, ReadFile, Refuse, CreateJob, SubmitFails
<1>5. ASSUME NEW t \in Threads,
             \/ BeginCancel(t) \/ Leave(t) \/ Raise(t) \/ BeginRetention(t)
             \/ Survey(t) \/ ChooseExpired(t) \/ TakeUp(t) \/ PassOver(t)
             \/ EndRetention(t)
      PROVE  FALSE
  BY <1>5 DEF BeginCancel, Lock, Leave, Raise, Unlock, BeginRetention, Survey, ReadFile,
              ChooseExpired, TakeUp, PassOver, EndRetention
<1>6. CASE BeginPass \/ Pass \/ Restart \/ UNCHANGED vars \/ \E q \in Runs : Age(q)
  BY <1>6 DEF BeginPass, Pass, List, ReadFile, StartVisits, Visit, Lock, EndPass,
              Restart, vars, Age
<1>7. ASSUME NEW t \in Threads, Delete(t) \/ RetentionFails(t)
      PROVE  /\ status[r] = "over"
             /\ pc[t] = "deleting" /\ r \in seen[t]
  <2>1. pc[t] = "deleting" /\ target[t] \in seen[t] /\ status[target[t]] = "over"
    BY <1>7 DEF Delete, RetentionFails, At, DInv, DeletedIsOver
  <2>2. r = target[t]
    BY <1>1, <1>7 DEF Delete, RetentionFails, TypeOK
  <2>3. QED
    BY <2>1, <2>2
<1>8. CASE \E t \in Submitters : BeginSubmit(t) \/ Submission(t) \/ SubmitFails(t)
  BY <1>3, <1>4, <1>8 DEF Submission
<1>9. CASE \E t \in Threads : \/ BeginCancel(t) \/ Work(t) \/ Leave(t) \/ Raise(t)
                              \/ Retention(t) \/ RetentionFails(t)
  BY <1>2, <1>5, <1>7, <1>9, TwoOutcomes DEF Retention
<1>10. QED
  BY <1>1, <1>6, <1>8, <1>9 DEF Next

\* A deleted run stays deleted: no save of submit(), and no call, finds it.
LEMMA GoneStays ==
    ASSUME DInv, [Next]_vars, NEW r \in Runs, status[r] = "gone"
    PROVE  status'[r] = "gone"
<1>1. /\ TypeOK /\ Submitters \subseteq Threads /\ Cancelers \subseteq Threads
      /\ Reconciler \in Threads
  BY DEF DInv, SInv, Threads
<1>2. ASSUME NEW t \in Threads, Work(t)
      PROVE  status'[r] = "gone"
  <2>1. PICK q \in Runs, from \in {"active", "canceling"}, to \in {"canceling", "over"} :
            Works(t, q, from, to)
    BY <1>2 DEF Work, Finish, CancelRun
  <2>2. QED
    BY <1>1, <2>1 DEF Works, TypeOK
<1>3. ASSUME NEW t \in Submitters, Accept(t)
      PROVE  status'[r] = "gone"
  BY <1>1, <1>3 DEF Accept, TypeOK
<1>4. ASSUME NEW t \in Submitters, SaveAttempt(t) \/ CreateUncertain(t)
      PROVE  status'[r] = "gone"
  <2>1. pc[t] \in {"save", "create"} /\ t \in Threads
    BY <1>1, <1>4 DEF SaveAttempt, CreateUncertain, At
  <2>2. status[target[t]] # "gone"
    BY <2>1 DEF DInv, SubmittedIsNewest
  <2>3. status' = [status EXCEPT ![target[t]] = "active"]
    BY <1>4 DEF SaveAttempt, CreateUncertain
  <2>4. QED
    BY <1>1, <2>2, <2>3 DEF TypeOK
<1>5. ASSUME NEW t \in Submitters,
             BeginSubmit(t) \/ Count(t) \/ Refuse(t) \/ CreateJob(t) \/ SubmitFails(t)
      PROVE  status' = status
  BY <1>5 DEF BeginSubmit, Count, ReadFile, Refuse, CreateJob, SubmitFails
<1>6. ASSUME NEW t \in Threads,
             \/ BeginCancel(t) \/ Leave(t) \/ Raise(t) \/ BeginRetention(t)
             \/ Survey(t) \/ ChooseExpired(t) \/ TakeUp(t) \/ PassOver(t)
             \/ EndRetention(t)
      PROVE  status' = status
  BY <1>6 DEF BeginCancel, Lock, Leave, Raise, Unlock, BeginRetention, Survey, ReadFile,
              ChooseExpired, TakeUp, PassOver, EndRetention
<1>7. CASE BeginPass \/ Pass \/ Restart \/ UNCHANGED vars \/ \E q \in Runs : Age(q)
  BY <1>7 DEF BeginPass, Pass, List, ReadFile, StartVisits, Visit, Lock, EndPass,
              Restart, vars, Age
<1>8. ASSUME NEW t \in Threads, Delete(t) \/ RetentionFails(t)
      PROVE  status'[r] = "gone"
  BY <1>1, <1>8 DEF Delete, RetentionFails, TypeOK
<1>9. CASE \E t \in Submitters : BeginSubmit(t) \/ Submission(t) \/ SubmitFails(t)
  BY <1>3, <1>4, <1>5, <1>9 DEF Submission
<1>10. CASE \E t \in Threads : \/ BeginCancel(t) \/ Work(t) \/ Leave(t) \/ Raise(t)
                               \/ Retention(t) \/ RetentionFails(t)
  BY <1>2, <1>6, <1>8, <1>10, TwoOutcomes DEF Retention
<1>11. QED
  BY <1>1, <1>7, <1>9, <1>10 DEF Next

\* A run is deleted only when it is over, and stays deleted, although submit()
\* saves its run without the run's lock (OnlyOverDeleted).
THEOREM OnlyOverRunsDeleted == Spec => OnlyOverDeleted
<1>1. DInv /\ [Next]_vars =>
          [\A r \in Runs :
               /\ status'[r] = "gone" => status[r] \in {"over", "gone"}
               /\ status[r] = "gone" => status'[r] = "gone"]_vars
  <2> SUFFICES ASSUME DInv, [Next]_vars, NEW r \in Runs
               PROVE  /\ status'[r] = "gone" => status[r] \in {"over", "gone"}
                      /\ status[r] = "gone" => status'[r] = "gone"
    OBVIOUS
  <2>1. QED
    BY Deletions, GoneStays
<1>2. QED
  BY <1>1, DInvInit, DInvStep, PTL DEF Spec, OnlyOverDeleted

-----------------------------------------------------------------------------
(* What retention keeps *)

\* Only the thread in enforce_retention holds the retention lock.
RetentionAlone ==
    \A t \in Threads : pc[t] \in {"surveying", "pruning", "deleting"} => retention_lock = t

\* What is about to be deleted is too old, or enough newer runs are on disk that
\* are not about to be deleted.
NewerRemain ==
    \A t \in Threads :
        /\ pc[t] = "surveying" => seen[t] \subseteq OnDisk
        /\ pc[t] \in {"pruning", "deleting"} =>
               \A r \in seen[t] :
                   \/ r \in aged
                   \/ Cardinality({q \in OnDisk \ seen[t] : q > r}) >= MaxRetained

\* Ended runs that no call is at work on
Left ==
    {r \in Runs : /\ status[r] = "over"
                  /\ \A t \in Threads : ~(pc[t] = "work" /\ target[t] = r)}

\* Unless a call failed, the ended runs are few, or retention is still to begin,
\* is reading them, or is deleting all but a few.
SurplusSeen ==
    \/ \E t \in Threads : pc[t] = "prune"
    \/ Cardinality(Left) <= MaxRetained
    \/ \E t \in Threads : pc[t] = "surveying" /\ Left \subseteq seen[t] \cup unread[t]
    \/ \E t \in Threads :
           /\ pc[t] \in {"pruning", "deleting"}
           /\ Cardinality(Left \ seen[t]) <= MaxRetained

RInv == /\ DInv
        /\ RetentionAlone
        /\ NewerRemain
        /\ faults = 0 => SurplusSeen

LEMMA SubsetCards ==
    ASSUME NEW S \in SUBSET Runs, NEW T \in SUBSET S
    PROVE  /\ Cardinality(S) <= MaxRetained => Cardinality(T) <= MaxRetained
           /\ Cardinality(T) >= MaxRetained => Cardinality(S) >= MaxRetained
<1>1. Cardinality(T) <= Cardinality(S) /\ Cardinality(S) \in Nat
      /\ Cardinality(T) \in Nat
  BY RunsFinite
<1>2. QED
  BY <1>1, LimitsAssumption

LEMMA RInvInit == Init => RInv
<1> SUFFICES ASSUME Init PROVE RInv
  OBVIOUS
<1>1. Left = {} /\ RetentionAlone /\ NewerRemain
  BY DEF Init, Left, RetentionAlone, NewerRemain
<1>2. SurplusSeen
  BY <1>1, FS_EmptySet, LimitsAssumption DEF SurplusSeen
<1>3. QED
  BY <1>1, <1>2, DInvInit DEF RInv

\* A step that is not one of retention: it deletes nothing, and a run it leaves
\* behind has retention still to come.
Apart ==
    /\ faults' = 0 => faults = 0
    /\ OnDisk \subseteq OnDisk' /\ aged \subseteq aged'
    /\ Left' \subseteq Left \/ \E t \in Threads : pc'[t] = "prune"
    /\ retention_lock' = retention_lock
    /\ \A t \in Threads :
           /\ pc'[t] \in {"surveying", "pruning", "deleting"} => pc[t] = pc'[t]
           /\ pc[t] \in {"prune", "surveying", "pruning", "deleting"} =>
                  pc'[t] = pc[t] /\ seen'[t] = seen[t] /\ unread'[t] = unread[t]

LEMMA ApartKeeps == ASSUME RInv, DInv', Apart PROVE RInv'
<1>1. RetentionAlone'
  BY DEF RInv, RetentionAlone, Apart
<1>2. NewerRemain'
  <2>1. ASSUME NEW t \in Threads, pc'[t] = "surveying"
        PROVE  seen'[t] \subseteq OnDisk'
    <3>1. pc[t] = "surveying" /\ seen'[t] = seen[t] /\ OnDisk \subseteq OnDisk'
      BY <2>1 DEF Apart
    <3>2. seen[t] \subseteq OnDisk
      BY <3>1 DEF RInv, NewerRemain
    <3>3. QED
      BY <3>1, <3>2
  <2>2. ASSUME NEW t \in Threads, pc'[t] \in {"pruning", "deleting"}, NEW r \in seen'[t]
        PROVE  \/ r \in aged'
               \/ Cardinality({q \in OnDisk' \ seen'[t] : q > r}) >= MaxRetained
    <3>1. /\ pc[t] \in {"pruning", "deleting"} /\ seen'[t] = seen[t]
          /\ OnDisk \subseteq OnDisk' /\ aged \subseteq aged'
      BY <2>2 DEF Apart
    <3>2. r \in aged \/ Cardinality({q \in OnDisk \ seen[t] : q > r}) >= MaxRetained
      BY <2>2, <3>1 DEF RInv, NewerRemain
    <3>3. /\ {q \in OnDisk \ seen[t] : q > r} \subseteq {q \in OnDisk' \ seen'[t] : q > r}
          /\ {q \in OnDisk' \ seen'[t] : q > r} \in SUBSET Runs
      BY <3>1 DEF OnDisk
    <3>4. QED
      BY <3>1, <3>2, <3>3, SubsetCards
  <2>3. QED
    BY <2>1, <2>2 DEF NewerRemain
<1>3. ASSUME faults' = 0 PROVE SurplusSeen'
  <2>1. SurplusSeen
    BY <1>3 DEF RInv, Apart
  <2>2. CASE \E t \in Threads : pc'[t] = "prune"
    BY <2>2 DEF SurplusSeen
  <2>3. CASE Left' \subseteq Left
    <3>1. CASE \E t \in Threads : pc[t] = "prune"
      BY <3>1 DEF SurplusSeen, Apart
    <3>2. CASE Cardinality(Left) <= MaxRetained
      <4>1. Left \in SUBSET Runs
        BY DEF Left
      <4>2. Cardinality(Left') <= MaxRetained
        BY <2>3, <3>2, <4>1, SubsetCards
      <4>3. QED
        BY <4>2 DEF SurplusSeen
    <3>3. ASSUME NEW t \in Threads,
                 pc[t] = "surveying", Left \subseteq seen[t] \cup unread[t]
          PROVE  SurplusSeen'
      BY <2>3, <3>3 DEF SurplusSeen, Apart
    <3>4. ASSUME NEW t \in Threads,
                 pc[t] \in {"pruning", "deleting"},
                 Cardinality(Left \ seen[t]) <= MaxRetained
          PROVE  SurplusSeen'
      <4>1. pc'[t] \in {"pruning", "deleting"} /\ seen'[t] = seen[t]
        BY <3>4 DEF Apart
      <4>2. Left \ seen[t] \in SUBSET Runs /\ Left' \ seen'[t] \subseteq Left \ seen[t]
        BY <2>3, <4>1 DEF Left
      <4>3. Cardinality(Left' \ seen'[t]) <= MaxRetained
        BY <3>4, <4>2, SubsetCards
      <4>4. QED
        BY <4>1, <4>3 DEF SurplusSeen
    <3>5. QED
      BY <2>1, <3>1, <3>2, <3>3, <3>4 DEF SurplusSeen
  <2>4. QED
    BY <2>2, <2>3 DEF Apart
<1>4. QED
  BY <1>1, <1>2, <1>3 DEF RInv

LEMMA SubmissionsApart ==
    ASSUME SInv, NEW t \in Submitters,
           BeginSubmit(t) \/ Count(t) \/ Refuse(t) \/ Accept(t) \/ SaveAttempt(t)
           \/ CreateJob(t) \/ CreateUncertain(t) \/ SubmitFails(t)
    PROVE  Apart \/ (SubmitFails(t) /\ faults' # 0)
<1>1. TypeOK /\ t \in Threads
  BY DEF SInv, Threads
<1>2. faults \in Nat
  BY <1>1, LimitsAssumption DEF TypeOK
<1>3. /\ pc[t] \in {"idle", "counting", "save", "create"}
      /\ pc' = [pc EXCEPT ![t] = pc'[t]]
      /\ pc'[t] \in {"idle", "counting", "save", "create", "prune"}
      /\ \A s \in Threads : s # t => seen'[s] = seen[s] /\ unread'[s] = unread[s]
      /\ \A s \in Threads : s # t => target'[s] = target[s]
  BY <1>1 DEF BeginSubmit, Count, ReadFile, Refuse, Accept, SaveAttempt, CreateJob,
              CreateUncertain, SubmitFails, LeaveSubmit, Goto, At, Listed, StartListing, listing, TypeOK
<1>4. /\ aged' = aged /\ retention_lock' = retention_lock
      /\ \A r \in Runs : status'[r] = status[r] \/ status'[r] = "active"
  BY <1>1 DEF BeginSubmit, Count, ReadFile, Refuse, Accept, SaveAttempt, CreateJob,
              CreateUncertain, SubmitFails, LeaveSubmit, locks, TypeOK
<1>5. Left' \subseteq Left /\ OnDisk \subseteq OnDisk'
  BY <1>1, <1>3, <1>4 DEF Left, OnDisk, TypeOK
<1>6. faults' = faults \/ (SubmitFails(t) /\ faults' # 0)
  BY <1>2 DEF BeginSubmit, Count, ReadFile, Refuse, Accept, SaveAttempt, CreateJob,
              CreateUncertain, SubmitFails, LeaveSubmit, Fault, locks
<1>7. \A s \in Threads :
           /\ pc'[s] \in {"surveying", "pruning", "deleting"} => pc[s] = pc'[s]
           /\ pc[s] \in {"prune", "surveying", "pruning", "deleting"} =>
                  pc'[s] = pc[s] /\ seen'[s] = seen[s] /\ unread'[s] = unread[s]
  <2> TAKE s \in Threads
  <2>1. CASE s = t
    BY <1>3, <2>1
  <2>2. CASE s # t
    <3>1. pc'[s] = pc[s]
      BY <1>1, <1>3, <2>2 DEF TypeOK
    <3>2. QED
      BY <1>3, <2>2, <3>1
  <2>3. QED
    BY <2>1, <2>2
<1>8. QED
  BY <1>4, <1>5, <1>6, <1>7 DEF Apart

LEMMA PassesApart ==
    ASSUME SInv, BeginPass \/ List \/ StartVisits \/ EndPass
    PROVE  Apart
<1>1. Reconciler \in Threads /\ TypeOK
  BY DEF Threads, SInv
<1>2. UNCHANGED <<status, aged, target, locks, faults>>
  BY DEF BeginPass, List, StartVisits, EndPass, ReadFile
<1>3. /\ \A s \in Threads : s # Reconciler =>
             pc'[s] = pc[s] /\ unread'[s] = unread[s] /\ seen'[s] = seen[s]
      /\ pc[Reconciler] \in {"idle", "listing", "visiting"}
      /\ pc'[Reconciler] \in {"idle", "listing", "visiting"}
  BY <1>1 DEF BeginPass, List, StartVisits, EndPass, ReadFile, StartListing, Goto,
              TypeOK, At, Listed, listing
<1>4. Left' = Left /\ OnDisk' = OnDisk
  <2>1. \A s \in Threads : pc'[s] = "work" <=> pc[s] = "work"
    BY <1>3
  <2>2. QED
    BY <1>2, <2>1 DEF Left, OnDisk
<1>5. QED
  BY <1>2, <1>3, <1>4 DEF Apart, locks

LEMMA CallsApart ==
    ASSUME SInv, NEW t \in Threads,
           (t = Reconciler /\ Visit) \/ BeginCancel(t) \/ Leave(t) \/ Raise(t)
    PROVE  Apart \/ (Raise(t) /\ faults' # 0)
<1>1. TypeOK /\ faults \in Nat
  BY LimitsAssumption DEF SInv, TypeOK
<1>2. UNCHANGED <<status, aged, unread, seen, retention_lock>>
  BY DEF Visit, BeginCancel, Leave, Raise, Lock, Unlock
<1>3. /\ pc[t] \in {"visiting", "idle", "work"}
      /\ pc' = [pc EXCEPT ![t] = pc'[t]]
      /\ pc'[t] \in {"visiting", "idle", "work", "prune"}
      /\ \A s \in Threads : s # t => target'[s] = target[s]
  BY <1>1 DEF Visit, BeginCancel, Leave, Raise, Lock, Unlock, Goto, At, After, TypeOK
<1>4. \A s \in Threads : s # t => pc'[s] = pc[s]
  BY <1>1, <1>3 DEF TypeOK
<1>5. \A s \in Threads :
           /\ pc'[s] \in {"surveying", "pruning", "deleting"} => pc[s] = pc'[s]
           /\ pc[s] \in {"prune", "surveying", "pruning", "deleting"} =>
                  pc'[s] = pc[s] /\ seen'[s] = seen[s] /\ unread'[s] = unread[s]
  <2> TAKE s \in Threads
  <2>1. CASE s = t
    BY <1>3, <2>1
  <2>2. CASE s # t
    BY <1>2, <1>4, <2>2
  <2>3. QED
    BY <2>1, <2>2
<1>6. OnDisk' = OnDisk
  BY <1>2 DEF OnDisk
<1>7. CASE (t = Reconciler /\ Visit) \/ BeginCancel(t)
  <2>1. pc[t] # "work" /\ faults' = faults
    BY <1>7 DEF Visit, BeginCancel, At, Lock
  <2>2. Left' \subseteq Left
    BY <1>2, <1>3, <1>4, <2>1 DEF Left
  <2>3. QED
    BY <1>2, <1>5, <1>6, <2>1, <2>2 DEF Apart
<1>8. CASE Leave(t)
  <2>1. faults' = faults
    BY <1>8 DEF Leave
  <2>2. CASE status[target[t]] = "over"
    <3>1. pc'[t] = "prune"
      BY <1>1, <1>8, <2>2 DEF Leave, Unlock, Goto, TypeOK
    <3>2. QED
      BY <1>2, <1>5, <1>6, <2>1, <3>1 DEF Apart
  <2>3. CASE status[target[t]] # "over"
    <3>1. Left' \subseteq Left
      BY <1>2, <1>3, <1>4, <2>3 DEF Left
    <3>2. QED
      BY <1>2, <1>5, <1>6, <2>1, <3>1 DEF Apart
  <2>4. QED
    BY <2>2, <2>3
<1>9. CASE Raise(t)
  <2>1. CASE Fault
    BY <1>1, <1>9, <2>1 DEF Fault
  <2>2. CASE ~Fault
    <3>1. faults' = faults /\ status[target[t]] # "over"
      BY <1>9, <2>2 DEF Raise, HoldsCapacity
    <3>2. Left' \subseteq Left
      BY <1>2, <1>3, <1>4, <3>1 DEF Left
    <3>3. QED
      BY <1>2, <1>5, <1>6, <3>1, <3>2 DEF Apart
  <2>3. QED
    BY <2>1, <2>2
<1>10. QED
  BY <1>7, <1>8, <1>9

\* A run ends, or is canceled, while the call that ends it is at work on it; runs
\* become too old.
LEMMA WorkApart ==
    ASSUME SInv,
           \/ \E t \in Threads : Work(t)
           \/ \E r \in Runs : Age(r)
           \/ UNCHANGED vars
    PROVE  Apart
<1>1. TypeOK
  BY DEF SInv
<1>2. CASE \E t \in Threads : Work(t)
  <2>1. PICK t \in Threads : Work(t)
    BY <1>2
  <2>2. PICK r \in Runs, from \in {"active", "canceling"}, to \in {"canceling", "over"} :
            Works(t, r, from, to)
    BY <2>1 DEF Work, Finish, CancelRun
  <2>3. /\ pc[t] = "work" /\ target[t] = r
        /\ status' = [status EXCEPT ![r] = to]
        /\ UNCHANGED <<aged, pc, target, unread, seen, retention_lock, faults>>
    BY <2>2 DEF Works, At, listing, locks
  <2>4. Left' \subseteq Left
    BY <1>1, <2>3 DEF Left, TypeOK
  <2>5. OnDisk \subseteq OnDisk'
    BY <1>1, <2>3 DEF OnDisk, TypeOK
  <2>6. QED
    BY <2>3, <2>4, <2>5 DEF Apart
<1>3. CASE (\E r \in Runs : Age(r)) \/ UNCHANGED vars
  <2>1. /\ UNCHANGED <<status, pc, target, unread, seen, retention_lock, faults>>
        /\ aged \subseteq aged'
    BY <1>3 DEF Age, vars, listing, locks
  <2>2. Left' = Left /\ OnDisk' = OnDisk
    BY <2>1 DEF Left, OnDisk
  <2>3. QED
    BY <2>1, <2>2 DEF Apart
<1>4. QED
  BY <1>2, <1>3

\* The steps of retention: the thread that takes them has the retention lock to
\* itself.
LEMMA RetentionKeeps ==
    ASSUME RInv, DInv', NEW t \in Threads, Retention(t)
    PROVE  RInv'
<1>1. TypeOK /\ TypeOK'
  BY DEF RInv, DInv, SInv
<1>2. CASE BeginRetention(t)
  <2>1. /\ pc' = [pc EXCEPT ![t] = "surveying"]
        /\ retention_lock = NoThread /\ retention_lock' = t
        /\ unread' = [unread EXCEPT ![t] = OnDisk]
        /\ seen' = [seen EXCEPT ![t] = {}]
        /\ UNCHANGED <<status, aged, target, faults>>
        /\ pc[t] = "prune"
    BY <1>2 DEF BeginRetention, StartListing, Goto, At
  <2>2. \A s \in Threads : pc[s] \notin {"surveying", "pruning", "deleting"}
    BY <2>1, RolesAssumption DEF RInv, RetentionAlone
  <2>3. /\ pc'[t] = "surveying" /\ seen'[t] = {} /\ unread'[t] = OnDisk
        /\ \A s \in Threads : s # t => pc'[s] = pc[s]
    BY <1>1, <2>1 DEF TypeOK
  <2>4. RetentionAlone' /\ NewerRemain'
    BY <2>1, <2>2, <2>3 DEF RetentionAlone, NewerRemain
  <2>5. Left' \subseteq OnDisk
    BY <2>1 DEF Left, OnDisk
  <2>6. SurplusSeen'
    BY <2>3, <2>5 DEF SurplusSeen
  <2>7. QED
    BY <2>4, <2>6 DEF RInv
<1>3. CASE Survey(t)
  <2>1. PICK r \in unread[t] :
            /\ pc[t] = "surveying"
            /\ unread' = [unread EXCEPT ![t] = @ \ {r}]
            /\ seen' = [seen EXCEPT ![t] =
                            IF status[r] = "over" THEN @ \cup {r} ELSE @]
            /\ UNCHANGED <<status, aged, pc, target, retention_lock, faults>>
    BY <1>3 DEF Survey, ReadFile, At, locks
  <2>2. /\ r \in Runs
        /\ unread'[t] = unread[t] \ {r}
        /\ seen'[t] = IF status[r] = "over" THEN seen[t] \cup {r} ELSE seen[t]
        /\ \A s \in Threads : s # t => seen'[s] = seen[s] /\ unread'[s] = unread[s]
    BY <1>1, <2>1 DEF TypeOK
  <2>3. Left' = Left /\ OnDisk' = OnDisk
    BY <2>1 DEF Left, OnDisk
  <2>4. \A s \in Threads : s # t => pc[s] \notin {"surveying", "pruning", "deleting"}
    BY <2>1 DEF RInv, RetentionAlone
  <2>5. RetentionAlone'
    BY <2>1 DEF RInv, RetentionAlone
  <2>6. NewerRemain'
    <3>1. seen[t] \subseteq OnDisk
      BY <2>1 DEF RInv, NewerRemain
    <3>2. status[r] = "over" => r \in OnDisk
      BY <2>2 DEF OnDisk
    <3>3. seen'[t] \subseteq OnDisk'
      BY <2>2, <2>3, <3>1, <3>2
    <3>4. QED
      BY <2>1, <2>4, <3>3 DEF NewerRemain
  <2>7. ASSUME faults' = 0 PROVE SurplusSeen'
    <3>1. SurplusSeen
      BY <2>1, <2>7 DEF RInv
    <3>2. ASSUME Left \subseteq seen[t] \cup unread[t]
          PROVE  Left' \subseteq seen'[t] \cup unread'[t]
      BY <2>2, <2>3, <3>2 DEF Left
    <3>3. CASE (\E s \in Threads : pc[s] = "prune") \/ Cardinality(Left) <= MaxRetained
      BY <2>1, <2>3, <3>3 DEF SurplusSeen
    <3>4. CASE \E s \in Threads : pc[s] = "surveying" /\ Left \subseteq seen[s] \cup unread[s]
      BY <2>1, <2>4, <3>2, <3>4 DEF SurplusSeen
    <3>5. QED
      BY <2>1, <2>4, <3>1, <3>3, <3>4 DEF SurplusSeen
  <2>8. QED
    BY <2>5, <2>6, <2>7 DEF RInv
<1>4. CASE ChooseExpired(t)
  <2>1. /\ pc[t] = "surveying" /\ unread[t] = {}
        /\ seen' = [seen EXCEPT ![t] = Expired(@)]
        /\ pc' = [pc EXCEPT ![t] = "pruning"]
        /\ UNCHANGED <<status, aged, target, unread, retention_lock, faults>>
    BY <1>4 DEF ChooseExpired, Listed, At, Goto, locks
  <2>2. /\ pc'[t] = "pruning" /\ seen'[t] = Expired(seen[t])
        /\ seen[t] \in SUBSET Runs
        /\ \A s \in Threads : s # t => pc'[s] = pc[s] /\ seen'[s] = seen[s]
    BY <1>1, <2>1 DEF TypeOK
  <2>3. \A s \in Threads : s # t => pc[s] \notin {"surveying", "pruning", "deleting"}
    BY <2>1 DEF RInv, RetentionAlone
  <2>4. \A s \in Threads : pc'[s] = "work" <=> pc[s] = "work"
    BY <2>1, <2>2
  <2>5. Left' = Left /\ OnDisk' = OnDisk
    BY <2>1, <2>4 DEF Left, OnDisk
  <2>6. RetentionAlone'
    BY <2>1, <2>2, <2>3 DEF RInv, RetentionAlone
  <2>7. NewerRemain'
    <3>1. seen[t] \subseteq OnDisk
      BY <2>1 DEF RInv, NewerRemain
    <3>2. ASSUME NEW r \in Expired(seen[t]) \ aged
          PROVE  Cardinality({q \in OnDisk' \ seen'[t] : q > r}) >= MaxRetained
      <4>1. Cardinality({q \in seen[t] \ Expired(seen[t]) : q > r}) >= MaxRetained
        BY <2>2, ExpiredLeaves
      <4>2. /\ {q \in seen[t] \ Expired(seen[t]) : q > r}
                   \subseteq {q \in OnDisk' \ seen'[t] : q > r}
            /\ {q \in OnDisk' \ seen'[t] : q > r} \in SUBSET Runs
        BY <2>2, <2>5, <3>1 DEF OnDisk
      <4>3. QED
        BY <4>1, <4>2, SubsetCards
    <3>3. QED
      BY <2>1, <2>2, <2>3, <3>2 DEF NewerRemain
  <2>8. ASSUME faults' = 0 PROVE SurplusSeen'
    <3>1. SurplusSeen
      BY <2>1, <2>8 DEF RInv
    <3>2. CASE \E s \in Threads : pc[s] = "prune"
      BY <2>1, <2>2, <3>2 DEF SurplusSeen
    <3>3. CASE Cardinality(Left) <= MaxRetained
      BY <2>5, <3>3 DEF SurplusSeen
    <3>4. CASE Left \subseteq seen[t] \cup unread[t]
      <4>1. Left' \ seen'[t] \subseteq seen[t] \ Expired(seen[t])
        BY <2>1, <2>2, <2>5, <3>4
      <4>2. Cardinality(seen[t] \ Expired(seen[t])) <= MaxRetained
        BY <2>2, ExpiredLeaves
      <4>3. seen[t] \ Expired(seen[t]) \in SUBSET Runs
        BY <2>2
      <4>4. Cardinality(Left' \ seen'[t]) <= MaxRetained
        BY <4>1, <4>2, <4>3, SubsetCards
      <4>5. QED
        BY <2>2, <4>4 DEF SurplusSeen
    <3>5. QED
      BY <2>1, <2>3, <3>1, <3>2, <3>3, <3>4 DEF SurplusSeen
  <2>9. QED
    BY <2>6, <2>7, <2>8 DEF RInv
<1>5. CASE TakeUp(t)
  <2>1. /\ pc[t] = "pruning" /\ pc' = [pc EXCEPT ![t] = "deleting"]
        /\ \E r \in Runs : target' = [target EXCEPT ![t] = r]
        /\ UNCHANGED <<status, aged, unread, seen, retention_lock, faults>>
    BY <1>1, <1>5 DEF TakeUp, At, Goto, TypeOK, listing
  <2>2. /\ pc'[t] = "deleting"
        /\ \A s \in Threads : s # t => pc'[s] = pc[s] /\ target'[s] = target[s]
    BY <1>1, <2>1 DEF TypeOK
  <2>3. \A s \in Threads : s # t => pc[s] \notin {"surveying", "pruning", "deleting"}
    BY <2>1 DEF RInv, RetentionAlone
  <2>4. Left' = Left /\ OnDisk' = OnDisk
    BY <2>1, <2>2 DEF Left, OnDisk
  <2>5. RetentionAlone' /\ NewerRemain'
    BY <2>1, <2>2, <2>3, <2>4 DEF RInv, RetentionAlone, NewerRemain
  <2>6. ASSUME faults' = 0 PROVE SurplusSeen'
    <3>1. SurplusSeen
      BY <2>1, <2>6 DEF RInv
    <3>2. QED
      BY <2>1, <2>2, <2>3, <2>4, <3>1 DEF SurplusSeen
  <2>7. QED
    BY <2>5, <2>6 DEF RInv
<1>6. ASSUME PassOver(t) \/ Delete(t)
      PROVE  RInv'
  <2>1. PICK r \in seen[t] :
            /\ r \in Runs /\ pc[t] \in {"pruning", "deleting"}
            /\ status' = [status EXCEPT ![r] = IF @ = "over" THEN "gone" ELSE @]
            /\ seen' = [seen EXCEPT ![t] = @ \ {r}]
            /\ pc' = [pc EXCEPT ![t] = "pruning"]
            /\ target' = target \/ target' = [target EXCEPT ![t] = 0]
            /\ UNCHANGED <<aged, unread, retention_lock, faults>>
    <3>1. CASE PassOver(t)
      <4>1. PICK r \in seen[t] : status[r] # "over" /\ seen' = [seen EXCEPT ![t] = @ \ {r}]
        BY <3>1 DEF PassOver
      <4>2. r \in Runs
        BY <1>1, <4>1 DEF TypeOK
      <4>3. /\ pc[t] = "pruning" /\ pc' = pc /\ status' = status /\ target' = target
            /\ UNCHANGED <<aged, unread, retention_lock, faults>>
        BY <3>1 DEF PassOver, At, locks
      <4>4. /\ status' = [status EXCEPT ![r] = IF @ = "over" THEN "gone" ELSE @]
            /\ pc' = [pc EXCEPT ![t] = "pruning"]
        BY <1>1, <4>1, <4>2, <4>3 DEF TypeOK
      <4>5. QED
        BY <4>1, <4>2, <4>3, <4>4
    <3>2. CASE Delete(t)
      <4>1. pc[t] = "deleting"
        BY <3>2 DEF Delete, At
      <4>2. /\ target[t] \in Runs /\ target[t] \in seen[t]
            /\ status[target[t]] = "over"
        BY <4>1 DEF RInv, DInv, RunLockHeld, DeletedIsOver
      <4>3. status' = [status EXCEPT ![target[t]] = IF @ = "over" THEN "gone" ELSE @]
        BY <3>2, <4>2 DEF Delete
      <4>4. QED
        BY <3>2, <4>1, <4>2, <4>3 DEF Delete, Goto
    <3>3. QED
      BY <1>6, <3>1, <3>2
  <2>2. /\ seen'[t] = seen[t] \ {r} /\ seen[t] \in SUBSET Runs
        /\ pc'[t] = "pruning"
        /\ \A s \in Threads : s # t =>
               seen'[s] = seen[s] /\ pc'[s] = pc[s] /\ target'[s] = target[s]
        /\ \A q \in Runs : q # r => status'[q] = status[q]
        /\ status'[r] = IF status[r] = "over" THEN "gone" ELSE status[r]
    BY <1>1, <2>1 DEF TypeOK
  <2>3. \A s \in Threads : s # t => pc[s] \notin {"surveying", "pruning", "deleting"}
    BY <2>1 DEF RInv, RetentionAlone
  <2>4. /\ OnDisk \ seen[t] \subseteq OnDisk' \ seen'[t]
        /\ Left' \subseteq Left
        /\ Left' \ seen'[t] \subseteq Left \ seen[t]
    <3>1. OnDisk \ seen[t] \subseteq OnDisk' \ seen'[t]
      BY <2>2 DEF OnDisk
    <3>2. Left' \subseteq Left /\ r \notin Left'
      BY <2>1, <2>2 DEF Left
    <3>3. QED
      BY <2>2, <3>1, <3>2
  <2>5. RetentionAlone'
    BY <2>1, <2>2, <2>3 DEF RInv, RetentionAlone
  <2>6. NewerRemain'
    <3>1. ASSUME NEW p \in seen'[t]
          PROVE  \/ p \in aged
                 \/ Cardinality({q \in OnDisk' \ seen'[t] : q > p}) >= MaxRetained
      <4>1. p \in aged \/ Cardinality({q \in OnDisk \ seen[t] : q > p}) >= MaxRetained
        BY <2>1, <2>2, <3>1 DEF RInv, NewerRemain
      <4>2. /\ {q \in OnDisk \ seen[t] : q > p} \subseteq {q \in OnDisk' \ seen'[t] : q > p}
            /\ {q \in OnDisk' \ seen'[t] : q > p} \in SUBSET Runs
        BY <2>4 DEF OnDisk
      <4>3. QED
        BY <4>1, <4>2, SubsetCards
    <3>2. QED
      BY <2>1, <2>2, <2>3, <3>1 DEF NewerRemain
  <2>7. ASSUME faults' = 0 PROVE SurplusSeen'
    <3>1. SurplusSeen
      BY <2>1, <2>7 DEF RInv
    <3>2. CASE \E s \in Threads : pc[s] = "prune"
      BY <2>1, <2>2, <3>2 DEF SurplusSeen
    <3>3. Left \in SUBSET Runs /\ Left \ seen[t] \in SUBSET Runs
      BY DEF Left
    <3>4. CASE Cardinality(Left) <= MaxRetained
      <4>1. Cardinality(Left') <= MaxRetained
        BY <2>4, <3>3, <3>4, SubsetCards
      <4>2. QED
        BY <4>1 DEF SurplusSeen
    <3>5. CASE Cardinality(Left \ seen[t]) <= MaxRetained
      <4>1. Cardinality(Left' \ seen'[t]) <= MaxRetained
        BY <2>4, <3>3, <3>5, SubsetCards
      <4>2. QED
        BY <2>2, <4>1 DEF SurplusSeen
    <3>6. QED
      BY <2>1, <2>3, <3>1, <3>2, <3>4, <3>5 DEF SurplusSeen
  <2>8. QED
    BY <2>5, <2>6, <2>7 DEF RInv
<1>7. CASE EndRetention(t)
  <2>1. /\ pc[t] = "pruning" /\ seen[t] = {}
        /\ pc' = [pc EXCEPT ![t] = After(t)]
        /\ retention_lock' = NoThread
        /\ UNCHANGED <<status, aged, target, unread, seen, faults>>
    BY <1>7 DEF EndRetention, At, Goto, listing
  <2>2. /\ pc'[t] \in {"visiting", "idle"}
        /\ \A s \in Threads : s # t => pc'[s] = pc[s]
    BY <1>1, <2>1 DEF TypeOK, After
  <2>3. \A s \in Threads : pc'[s] \notin {"surveying", "pruning", "deleting"}
    BY <2>1, <2>2 DEF RInv, RetentionAlone
  <2>4. \A s \in Threads : pc'[s] = "work" <=> pc[s] = "work"
    BY <2>1, <2>2
  <2>5. Left' = Left
    BY <2>1, <2>4 DEF Left
  <2>6. ASSUME faults' = 0 PROVE SurplusSeen'
    <3>1. SurplusSeen
      BY <2>1, <2>6 DEF RInv
    <3>2. CASE \E s \in Threads : pc[s] = "prune"
      BY <2>1, <2>2, <3>2 DEF SurplusSeen
    <3>3. CASE Cardinality(Left) <= MaxRetained
      BY <2>5, <3>3 DEF SurplusSeen
    <3>4. \A s \in Threads : s # t => pc[s] \notin {"surveying", "pruning", "deleting"}
      BY <2>1 DEF RInv, RetentionAlone
    <3>5. CASE Cardinality(Left \ seen[t]) <= MaxRetained
      <4>1. Left \ seen[t] = Left
        BY <2>1
      <4>2. QED
        BY <2>5, <3>5, <4>1 DEF SurplusSeen
    <3>6. QED
      BY <2>1, <3>1, <3>2, <3>3, <3>4, <3>5 DEF SurplusSeen
  <2>7. QED
    BY <2>3, <2>6 DEF RInv, RetentionAlone, NewerRemain
<1>8. QED
  BY <1>2, <1>3, <1>4, <1>5, <1>6, <1>7, TwoOutcomes DEF Retention

\* After a fault only the lock and the listing count.
LEMMA FaultsKeep ==
    ASSUME RInv, DInv', faults' # 0,
           \/ Restart
           \/ \E t \in Threads : RetentionFails(t) \/ Raise(t)
           \/ \E t \in Submitters : SubmitFails(t)
    PROVE  RInv'
<1>1. TypeOK /\ Submitters \subseteq Threads
  BY DEF RInv, DInv, SInv, Threads
<1>2. CASE Restart
  BY <1>2 DEF Restart, RInv, RetentionAlone, NewerRemain
<1>3. ASSUME NEW t \in Threads, RetentionFails(t)
      PROVE  RInv'
  <2>1. /\ pc[t] = "deleting" /\ pc' = [pc EXCEPT ![t] = "idle"]
        /\ retention_lock' = NoThread
    BY <1>3 DEF RetentionFails, At, Goto
  <2>2. \A s \in Threads : pc'[s] \notin {"surveying", "pruning", "deleting"}
    BY <1>1, <2>1 DEF RInv, RetentionAlone, TypeOK
  <2>3. QED
    BY <2>2 DEF RInv, RetentionAlone, NewerRemain
<1>4. ASSUME NEW t \in Threads, Raise(t) \/ SubmitFails(t)
      PROVE  RInv'
  <2>1. /\ UNCHANGED <<status, aged, unread, seen, retention_lock>>
        /\ pc' = [pc EXCEPT ![t] = "idle"]
    BY <1>4 DEF Raise, SubmitFails, LeaveSubmit, Unlock, Goto, listing
  <2>2. OnDisk' = OnDisk
    BY <2>1 DEF OnDisk
  <2>3. \A s \in Threads : pc'[s] \in {"surveying", "pruning", "deleting"} => pc[s] = pc'[s]
    BY <1>1, <2>1 DEF TypeOK
  <2>4. RetentionAlone' /\ NewerRemain'
    BY <2>1, <2>2, <2>3 DEF RInv, RetentionAlone, NewerRemain
  <2>5. QED
    BY <2>4 DEF RInv
<1>5. QED
  BY <1>1, <1>2, <1>3, <1>4

LEMMA RInvStep == RInv /\ [Next]_vars => RInv'
<1> SUFFICES ASSUME RInv, [Next]_vars PROVE RInv'
  OBVIOUS
<1>1. /\ SInv /\ DInv'
      /\ Submitters \subseteq Threads /\ Cancelers \subseteq Threads
      /\ Reconciler \in Threads
  BY DInvStep DEF RInv, DInv, Threads
<1>2. faults \in Nat
  BY <1>1, LimitsAssumption DEF SInv, TypeOK
<1>3. ASSUME NEW t \in Submitters, BeginSubmit(t) \/ Submission(t) \/ SubmitFails(t)
      PROVE  RInv'
  <2>1. Apart \/ (SubmitFails(t) /\ faults' # 0)
    BY <1>1, <1>3, SubmissionsApart DEF Submission
  <2>2. QED
    BY <1>1, <2>1, ApartKeeps, FaultsKeep
<1>4. CASE BeginPass \/ List \/ StartVisits \/ EndPass
  BY <1>1, <1>4, PassesApart, ApartKeeps
<1>5. ASSUME NEW t \in Threads,
             (t = Reconciler /\ Visit) \/ BeginCancel(t) \/ Leave(t) \/ Raise(t)
      PROVE  RInv'
  <2>1. Apart \/ (Raise(t) /\ faults' # 0)
    BY <1>1, <1>5, CallsApart
  <2>2. QED
    BY <1>1, <2>1, ApartKeeps, FaultsKeep
<1>6. CASE (\E t \in Threads : Work(t)) \/ (\E r \in Runs : Age(r)) \/ UNCHANGED vars
  BY <1>1, <1>6, WorkApart, ApartKeeps
<1>7. ASSUME NEW t \in Threads, Retention(t)
      PROVE  RInv'
  BY <1>1, <1>7, RetentionKeeps
<1>8. CASE Restart \/ \E t \in Threads : RetentionFails(t)
  <2>1. faults' # 0
    BY <1>2, <1>8 DEF Restart, RetentionFails, Fault
  <2>2. QED
    BY <1>1, <1>8, <2>1, FaultsKeep
<1>9. QED
  BY <1>1, <1>3, <1>4, <1>5, <1>6, <1>7, <1>8 DEF Next, Pass

\* A run is deleted only if it is too old or MaxRetained newer ones stay, however
\* many threads end runs, submit and delete at once (NewestKept).
THEOREM NewestAreKept == Spec => NewestKept
<1>1. ASSUME RInv, [Next]_vars, NEW r \in Runs,
             status[r] = "over", status'[r] = "gone"
      PROVE  r \in aged \/ Cardinality({q \in OnDisk : q > r}) >= MaxRetained
  <2>1. PICK t \in Threads : pc[t] = "deleting" /\ r \in seen[t]
    BY <1>1, Deletions DEF RInv
  <2>2. r \in aged \/ Cardinality({q \in OnDisk \ seen[t] : q > r}) >= MaxRetained
    BY <1>1, <2>1 DEF RInv, NewerRemain
  <2>3. /\ {q \in OnDisk \ seen[t] : q > r} \subseteq {q \in OnDisk : q > r}
        /\ {q \in OnDisk : q > r} \in SUBSET Runs
    BY DEF OnDisk
  <2>4. QED
    BY <2>2, <2>3, SubsetCards
<1>2. RInv /\ [Next]_vars =>
          [\A r \in Runs : status[r] = "over" /\ status'[r] = "gone" =>
               \/ r \in aged
               \/ Cardinality({q \in OnDisk : q > r}) >= MaxRetained]_vars
  BY <1>1
<1>3. QED
  BY <1>2, RInvInit, RInvStep, PTL DEF Spec, NewestKept

\* Between calls no more than MaxRetained ended runs are on disk, unless a call
\* has raised or the process was restarted (RetentionBounded).
THEOREM RetentionIsBounded == Spec => []RetentionBounded
<1>1. RInv => RetentionBounded
  <2> SUFFICES ASSUME RInv, \A t \in Threads : pc[t] = "idle", faults = 0
               PROVE  Cardinality({r \in Runs : status[r] = "over"}) <= MaxRetained
    BY DEF RetentionBounded, At
  <2>1. SurplusSeen
    BY DEF RInv
  <2>2. Cardinality(Left) <= MaxRetained
    BY <2>1 DEF SurplusSeen
  <2>3. Left = {r \in Runs : status[r] = "over"}
    BY DEF Left
  <2>4. QED
    BY <2>2, <2>3
<1>2. QED
  BY <1>1, RInvInit, RInvStep, PTL DEF Spec
=============================================================================
