--------------------------- MODULE RunRecordProofs ---------------------------
(***************************************************************************)
(* Lemmas about the edits of RunRecord: every edit the controller makes    *)
(* turns a well-formed record into a well-formed record, for any number of *)
(* levels and retries.                                                     *)
(***************************************************************************)
EXTENDS RunRecord, FiniteSetTheorems, WellFoundedInduction, TLAPS

-----------------------------------------------------------------------------
(* Sets of positions and of levels *)

\* Positions and levels are finite intervals, so their subsets can be counted.
LEMMA PartOfInterval ==
    ASSUME NEW n \in Nat, NEW S \in SUBSET (1..n)
    PROVE  IsFiniteSet(S) /\ Cardinality(S) \in Nat /\ Cardinality(S) <= n
<1>1. IsFiniteSet(1..n) /\ Cardinality(1..n) = n
  BY FS_Interval
<1>2. QED
  BY <1>1, FS_Subset, FS_CardinalityType

\* A set of naturals that is not empty has a least element.
LEMMA LeastElement ==
    ASSUME NEW S \in SUBSET Nat, S # {}
    PROVE  \E c \in S : \A d \in S : c <= d
<1> DEFINE LT == OpToRel(<, Nat)
<1>1. IsWellFoundedOn(LT, Nat)
  BY NatLessThanWellFounded
<1>2. ASSUME NEW x \in Nat, NEW y \in Nat, <<x, y>> \notin LT
      PROVE  y <= x
  <2>1. ~(x < y)
    BY <1>2 DEF OpToRel
  <2>2. QED
    BY <2>1
<1> HIDE DEF LT
<1>3. \E c \in S : \A d \in S : <<d, c>> \notin LT
  BY <1>1, WFMin
<1>4. QED
  BY <1>2, <1>3, Zenon

\* The level NextLevel chooses is a level, and an undecided one.
LEMMA NextLevelUndecided ==
    ASSUME NEW r \in Record, Undecided(r) # {}
    PROVE  NextLevel(r) \in Levels /\ NextLevel(r) \notin Decided(r)
<1>1. Undecided(r) \in SUBSET Nat
  BY LevelCountAssumption DEF Undecided, Levels
<1>2. \E c \in Undecided(r) : \A d \in Undecided(r) : c <= d
  BY <1>1, LeastElement
<1>3. QED
  BY <1>2 DEF NextLevel, Undecided

\* What a record is made of.
LEMMA RecordParts ==
    ASSUME NEW r \in Record
    PROVE  /\ r.attempts \in Seq(Attempt)
           /\ Len(r.attempts) \in Nat
           /\ DOMAIN r.attempts = 1..Len(r.attempts)
           /\ r.attempts = <<>> <=> Len(r.attempts) = 0
           /\ r.attempts # <<>> => Len(r.attempts) \in DOMAIN r.attempts
           /\ \A i \in DOMAIN r.attempts :
                 /\ r.attempts[i] \in Attempt
                 /\ r.attempts[i].concurrency \in Levels
                 /\ r.attempts[i].attempt \in 1 .. Retries + 1
                 /\ r.attempts[i].phase \in AttemptPhase
                 /\ r.attempts[i].cleanup_pending \in BOOLEAN
                 /\ Id(r.attempts[i]) \in AttemptIds
<1>1. r.attempts \in Seq(Attempt)
  BY DEF Record
<1>2. \A a \in Attempt :
          /\ a.concurrency \in Levels
          /\ a.attempt \in 1 .. Retries + 1
          /\ a.phase \in AttemptPhase
          /\ a.cleanup_pending \in BOOLEAN
          /\ Id(a) \in AttemptIds
  BY DEF Attempt, Id, AttemptIds
<1>3. QED
  BY <1>1, <1>2

-----------------------------------------------------------------------------
(* Records between two attempts *)

\* Every attempt is over and cleaned up, and what it decided is written down.
Settled(r) ==
    /\ NumberedInOrder(r)
    /\ \A i \in DOMAIN r.attempts : IsSettled(r.attempts[i])
    /\ r.completed \cap r.failed = {}
    /\ DecidedByAttempts(r)

\* A new attempt of an undecided level, with the next number, may follow when
\* all other levels attempted so far are decided.
LEMMA StartAttemptWellFormed ==
    ASSUME NEW r \in Record, NEW c \in Levels, NEW n \in 1 .. Retries + 1,
           Settled(r), c \notin Decided(r),
           n = Cardinality(AttemptsOf(r, c)) + 1,
           \A i \in DOMAIN r.attempts :
               r.attempts[i].concurrency \in Decided(r) \cup {c}
    PROVE  /\ StartAttempt(r, c, n) \in Record
           /\ WellFormed(StartAttempt(r, c, n))
           /\ StartAttempt(r, c, n).attempts # <<>>
           /\ IsOpen(LastAttempt(StartAttempt(r, c, n)))
           /\ ~Terminal(StartAttempt(r, c, n))
<1> DEFINE q == StartAttempt(r, c, n)
           new == [concurrency |-> c, attempt |-> n,
                   phase |-> "admission_pending", cleanup_pending |-> FALSE]
           L == Len(r.attempts)
<1>1. /\ r.attempts \in Seq(Attempt)
      /\ L \in Nat
      /\ DOMAIN r.attempts = 1..L
  BY DEF Record
<1>2. new \in Attempt
  BY DEF Attempt, AttemptPhase, PendingPhases
<1>3. /\ q.attempts = Append(r.attempts, new)
      /\ q.state = "admission_pending"
      /\ q.completed = r.completed
      /\ q.failed = r.failed
      /\ q \in Record
  <2>1. q = [state |-> "admission_pending", attempts |-> Append(r.attempts, new),
             completed |-> r.completed, failed |-> r.failed]
    <3>1. q = [r EXCEPT !.attempts = Append(r.attempts, new),
                        !.state = "admission_pending"]
      BY DEF StartAttempt
    <3> HIDE DEF new, q
    <3>2. QED
      BY <3>1 DEF Record
  <2>2. Append(r.attempts, new) \in Seq(Attempt)
    BY <1>1, <1>2
  <2> HIDE DEF new, q
  <2>3. QED
    BY <2>1, <2>2 DEF Record, RunState, PendingPhases
<1>4. /\ q.attempts \in Seq(Attempt)
      /\ Len(q.attempts) = L + 1
      /\ DOMAIN q.attempts = 1 .. L + 1
      /\ \A i \in 1..L : q.attempts[i] = r.attempts[i]
      /\ q.attempts[L + 1] = new
  BY <1>1, <1>2, <1>3
<1>5. LastAttempt(q) = new /\ IsOpen(LastAttempt(q)) /\ q.attempts # <<>>
  BY <1>1, <1>4 DEF LastAttempt, IsOpen, FinalPhases
<1>6. ~Terminal(q)
  BY <1>3 DEF Terminal, TERMINAL_STATES
<1>7. Decided(q) = Decided(r)
  BY <1>3 DEF Decided
<1> HIDE DEF q, new, L
<1>8. NumberedInOrder(q)
  <2>1. ASSUME NEW i \in 1..L
        PROVE  q.attempts[i].attempt =
                 Cardinality({j \in 1..i :
                     q.attempts[j].concurrency = q.attempts[i].concurrency})
    <3>1. \A j \in 1..i : q.attempts[j] = r.attempts[j]
      BY <1>1, <1>4
    <3>2. {j \in 1..i : q.attempts[j].concurrency = q.attempts[i].concurrency}
          = {j \in 1..i : r.attempts[j].concurrency = r.attempts[i].concurrency}
      BY <1>4, <3>1
    <3>3. QED
      BY <1>1, <1>4, <3>2 DEF Settled, NumberedInOrder
  <2>2. q.attempts[L + 1].attempt =
            Cardinality({j \in 1 .. L + 1 :
                q.attempts[j].concurrency = q.attempts[L + 1].concurrency})
    <3>1. {j \in 1 .. L + 1 :
              q.attempts[j].concurrency = q.attempts[L + 1].concurrency}
          = AttemptsOf(r, c) \cup {L + 1}
      BY <1>1, <1>4 DEF AttemptsOf, new
    <3>2. /\ AttemptsOf(r, c) \in SUBSET (1..L)
          /\ L + 1 \notin AttemptsOf(r, c)
      BY <1>1 DEF AttemptsOf
    <3>3. IsFiniteSet(AttemptsOf(r, c))
      BY <1>1, <3>2, PartOfInterval
    <3>4. Cardinality(AttemptsOf(r, c) \cup {L + 1})
          = Cardinality(AttemptsOf(r, c)) + 1
      BY <3>2, <3>3, FS_AddElement
    <3>5. Cardinality({j \in 1 .. L + 1 :
              q.attempts[j].concurrency = q.attempts[L + 1].concurrency}) = n
      BY <3>1, <3>4, Zenon
    <3>6. q.attempts[L + 1].attempt = n
      BY <1>4 DEF new
    <3>7. QED
      BY <3>5, <3>6, Zenon
  <2>3. SUFFICES ASSUME NEW i \in DOMAIN q.attempts
                 PROVE  q.attempts[i].attempt =
                          Cardinality({j \in 1..i :
                              q.attempts[j].concurrency = q.attempts[i].concurrency})
    BY Zenon DEF NumberedInOrder
  <2>4. i \in 1..L \/ i = L + 1
    BY <1>1, <1>4
  <2>5. QED
    BY <2>1, <2>2, <2>4, Zenon
<1>9. EarlierSettled(q) /\ CleanupIsFinal(q)
  BY <1>1, <1>4 DEF EarlierSettled, CleanupIsFinal, Settled, IsSettled, new
<1>10. DecidedInTurn(q)
  BY <1>1, <1>3, <1>4, <1>5, <1>7 DEF DecidedInTurn, Settled, new
<1>11. DecidedByAttempts(q)
  <2>1. \A d \in Levels : d # c => AttemptsOf(q, d) = AttemptsOf(r, d)
    BY <1>1, <1>4 DEF AttemptsOf, new
  <2>2. \A d \in q.completed \cup q.failed : d \in Levels /\ d # c
    BY <1>3 DEF Decided, Record
  <2>3. \A d \in Levels : AttemptsOf(r, d) \subseteq 1..L
    BY <1>1 DEF AttemptsOf
  <2>4. QED
    BY <1>1, <1>3, <1>4, <2>1, <2>2, <2>3
    DEF DecidedByAttempts, Settled, new
<1>12. StateMatchesHistory(q)
  BY <1>3, <1>5, <1>6, <1>7
  DEF StateMatchesHistory, Terminal, TERMINAL_STATES, new
<1>13. QED
  BY <1>3, <1>5, <1>6, <1>8, <1>9, <1>10, <1>11, <1>12 DEF WellFormed, q

\* Going on from a settled record whose attempted levels are all decided: the
\* next level starts, or the run ends with the verdict its history gives.
LEMMA AdvanceWellFormed ==
    ASSUME NEW r \in Record, Settled(r),
           \A i \in DOMAIN r.attempts : r.attempts[i].concurrency \in Decided(r)
    PROVE  /\ Advance(r) \in Record
           /\ WellFormed(Advance(r))
           /\ Advance(r).attempts # <<>>
           /\ IsOpen(LastAttempt(Advance(r))) \/ ~HoldsCapacity(Advance(r))
<1>1. CASE Undecided(r) # {}
  <2> DEFINE c == NextLevel(r)
  <2>1. c \in Levels /\ c \notin Decided(r)
    BY <1>1, NextLevelUndecided
  <2>2. AttemptsOf(r, c) = {}
    BY <2>1 DEF AttemptsOf
  <2>3. 1 = Cardinality(AttemptsOf(r, c)) + 1
    BY <2>2, FS_EmptySet
  <2>4. 1 \in 1 .. Retries + 1
    BY RetriesAssumption
  <2>5. Advance(r) = StartAttempt(r, c, 1)
    BY <1>1 DEF Advance
  <2> HIDE DEF c
  <2>6. QED
    BY <2>1, <2>3, <2>4, <2>5, StartAttemptWellFormed
<1>2. CASE Undecided(r) = {}
  <2> DEFINE q == Advance(r)
  <2>1. /\ q \in Record
        /\ q.attempts = r.attempts
        /\ q.completed = r.completed
        /\ q.failed = r.failed
        /\ q.state = Verdict(r)
        /\ q.state \in {"completed", "partial", "failed"}
    BY <1>2 DEF Advance, Record, Verdict, RunState, TERMINAL_STATES
  <2> HIDE DEF q
  <2>2. r.attempts # <<>>
    <3>1. PICK d \in Levels : d \in Decided(r)
      BY <1>2, LevelCountAssumption DEF Undecided, Levels
    <3>2. AttemptsOf(r, d) # {}
      <4>1. CASE d \in r.completed
        BY <4>1 DEF Settled, DecidedByAttempts
      <4>2. CASE d \in r.failed
        <5>1. Cardinality(AttemptsOf(r, d)) = Retries + 1
          BY <4>2 DEF Settled, DecidedByAttempts
        <5>2. QED
          BY <5>1, FS_EmptySet, RetriesAssumption
      <4>3. QED
        BY <3>1, <4>1, <4>2 DEF Decided
    <3>3. QED
      BY <3>2 DEF AttemptsOf
  <2>3. ~HasCleanup(q) /\ ~HasActive(q)
    BY <2>1
    DEF HasCleanup, CleanupAttempts, HasActive, OpenAttempts, IsOpen,
        FinalPhases, Settled, IsSettled
  <2>4. Terminal(q) /\ ~HoldsCapacity(q)
    BY <2>1, <2>3 DEF Terminal, TERMINAL_STATES, HoldsCapacity
  <2>5. NumberedInOrder(q)
    BY <2>1 DEF Settled, NumberedInOrder
  <2>6. EarlierSettled(q) /\ CleanupIsFinal(q)
    BY <2>1 DEF Settled, IsSettled, EarlierSettled, CleanupIsFinal
  <2>7. DecidedInTurn(q)
    BY <2>1 DEF Settled, DecidedInTurn, Decided
  <2>8. DecidedByAttempts(q)
    BY <2>1 DEF Settled, DecidedByAttempts, AttemptsOf
  <2>9. StateMatchesHistory(q)
    BY <1>2, <2>1, <2>2, <2>3, <2>4
    DEF StateMatchesHistory, Undecided, Decided, Verdict
  <2>10. QED
    BY <2>1, <2>2, <2>4, <2>5, <2>6, <2>7, <2>8, <2>9 DEF WellFormed, q
<1>3. QED
  BY <1>1, <1>2

-----------------------------------------------------------------------------
(* Records with an unsettled attempt *)

\* Only the last attempt can be active or wait for its cleanup.
LEMMA OnlyLastUnsettled ==
    ASSUME NEW r \in Record, WellFormed(r)
    PROVE  /\ OpenAttempts(r) \subseteq {Len(r.attempts)}
           /\ CleanupAttempts(r) \subseteq {Len(r.attempts)}
           /\ HasActive(r) => /\ ActiveAttempt(r) = Len(r.attempts)
                              /\ r.attempts # <<>>
                              /\ IsOpen(LastAttempt(r))
                              /\ ~LastAttempt(r).cleanup_pending
                              /\ ~Terminal(r)
           /\ HasCleanup(r) => /\ CleanupAttempt(r) = Len(r.attempts)
                               /\ r.attempts # <<>>
                               /\ ~IsOpen(LastAttempt(r))
                               /\ LastAttempt(r).cleanup_pending
           /\ r.attempts # <<>> /\ IsOpen(LastAttempt(r)) => HasActive(r)
           /\ r.attempts # <<>> /\ LastAttempt(r).cleanup_pending => HasCleanup(r)
<1> DEFINE L == Len(r.attempts)
<1>1. /\ L \in Nat
      /\ DOMAIN r.attempts = 1..L
      /\ r.attempts = <<>> <=> L = 0
      /\ r.attempts \in Seq(Attempt)
  BY DEF Record
<1>3. OpenAttempts(r) \subseteq {L} /\ CleanupAttempts(r) \subseteq {L}
  BY <1>1
  DEF WellFormed, EarlierSettled, IsSettled, OpenAttempts, CleanupAttempts,
      IsOpen, FinalPhases
<1> HIDE DEF L
<1>4. ASSUME HasActive(r)
      PROVE  /\ ActiveAttempt(r) = L
             /\ r.attempts # <<>>
             /\ IsOpen(r.attempts[L])
             /\ ~r.attempts[L].cleanup_pending
             /\ ~Terminal(r)
  <2>1. OpenAttempts(r) = {L}
    BY <1>3, <1>4 DEF HasActive
  <2>2. ActiveAttempt(r) = L
    BY <1>1, <2>1 DEF ActiveAttempt
  <2>3. L \in DOMAIN r.attempts /\ IsOpen(r.attempts[L])
    BY <2>1 DEF OpenAttempts
  <2>4. r.attempts # <<>> /\ ~r.attempts[L].cleanup_pending
    BY <1>1, <2>3 DEF WellFormed, CleanupIsFinal
  <2>5. LastAttempt(r) = r.attempts[L]
    BY DEF LastAttempt, L
  <2>6. ~Terminal(r)
    BY <1>4, <2>3, <2>4, <2>5
    DEF WellFormed, StateMatchesHistory, Terminal, TERMINAL_STATES, IsOpen,
        FinalPhases
  <2>7. QED
    BY <2>2, <2>3, <2>4, <2>6
<1>5. ASSUME HasCleanup(r)
      PROVE  /\ CleanupAttempt(r) = L
             /\ r.attempts # <<>>
             /\ ~IsOpen(r.attempts[L])
             /\ r.attempts[L].cleanup_pending
  <2>1. CleanupAttempts(r) = {L}
    BY <1>3, <1>5 DEF HasCleanup
  <2>2. CleanupAttempt(r) = L
    BY <1>1, <2>1 DEF CleanupAttempt
  <2>3. L \in DOMAIN r.attempts /\ r.attempts[L].cleanup_pending
    BY <2>1 DEF CleanupAttempts
  <2>4. r.attempts # <<>> /\ ~IsOpen(r.attempts[L])
    BY <1>1, <2>3 DEF WellFormed, CleanupIsFinal
  <2>5. QED
    BY <2>2, <2>3, <2>4
<1>6. r.attempts # <<>> => L \in DOMAIN r.attempts
  BY <1>1
<1>7. LastAttempt(r) = r.attempts[L]
  BY DEF LastAttempt, L
<1>8. QED
  BY <1>3, <1>4, <1>5, <1>6, <1>7
  DEF L, HasActive, HasCleanup, OpenAttempts, CleanupAttempts

\* q is r with only the phase and the pending cleanup of its last attempt, and
\* the state of the run, changed.
EditsLast(r, q) ==
    /\ Len(q.attempts) = Len(r.attempts)
    /\ \A i \in DOMAIN r.attempts :
           /\ q.attempts[i].concurrency = r.attempts[i].concurrency
           /\ q.attempts[i].attempt = r.attempts[i].attempt
           /\ i # Len(r.attempts) => q.attempts[i] = r.attempts[i]
    /\ q.completed = r.completed
    /\ q.failed = r.failed

\* What such an edit cannot disturb.
LEMMA EditsLastKeeps ==
    ASSUME NEW r \in Record, NEW q \in Record,
           WellFormed(r), r.attempts # <<>>, EditsLast(r, q)
    PROVE  /\ NumberedInOrder(q)
           /\ EarlierSettled(q)
           /\ DecidedInTurn(q)
           /\ q.attempts # <<>>
           /\ q.completed = r.completed
           /\ q.failed = r.failed
           /\ Decided(q) = Decided(r)
           /\ Len(q.attempts) = Len(r.attempts)
           /\ LastAttempt(q).concurrency = LastAttempt(r).concurrency
           /\ LastId(q) = LastId(r)
           /\ \A c \in Levels : AttemptsOf(q, c) = AttemptsOf(r, c)
           /\ \A i \in 1..Len(r.attempts) :
                 i # Len(r.attempts) => q.attempts[i] = r.attempts[i]
<1> DEFINE L == Len(r.attempts)
<1>1. /\ L \in Nat /\ L # 0
      /\ L \in DOMAIN r.attempts
      /\ DOMAIN r.attempts = 1..L
      /\ DOMAIN q.attempts = 1..L
      /\ Len(q.attempts) = L
  BY RecordParts DEF EditsLast
<1>2. \A i \in 1..L :
          /\ q.attempts[i].concurrency = r.attempts[i].concurrency
          /\ q.attempts[i].attempt = r.attempts[i].attempt
          /\ i # L => q.attempts[i] = r.attempts[i]
  BY <1>1 DEF EditsLast
<1>3. LastAttempt(q) = q.attempts[L] /\ LastAttempt(r) = r.attempts[L]
  BY <1>1 DEF LastAttempt
<1>4. /\ q.completed = r.completed
      /\ q.failed = r.failed
      /\ Decided(q) = Decided(r)
  BY DEF EditsLast, Decided
<1> HIDE DEF L
<1>5. NumberedInOrder(q)
  <2>1. SUFFICES ASSUME NEW i \in 1..L
                 PROVE  q.attempts[i].attempt =
                          Cardinality({j \in 1..i :
                              q.attempts[j].concurrency = q.attempts[i].concurrency})
    BY <1>1, Zenon DEF NumberedInOrder
  <2>2. \A j \in 1..i : q.attempts[j].concurrency = r.attempts[j].concurrency
    BY <1>1, <1>2
  <2>3. {j \in 1..i : q.attempts[j].concurrency = q.attempts[i].concurrency}
        = {j \in 1..i : r.attempts[j].concurrency = r.attempts[i].concurrency}
    BY <1>2, <2>2
  <2>4. r.attempts[i].attempt =
            Cardinality({j \in 1..i :
                r.attempts[j].concurrency = r.attempts[i].concurrency})
    BY <1>1, Zenon DEF WellFormed, NumberedInOrder
  <2>5. QED
    BY <1>2, <2>3, <2>4, Zenon
<1>6. EarlierSettled(q)
  BY <1>1, <1>2 DEF WellFormed, EarlierSettled
<1>7. DecidedInTurn(q)
  BY <1>1, <1>2, <1>3, <1>4 DEF WellFormed, DecidedInTurn
<1>8. \A c \in Levels : AttemptsOf(q, c) = AttemptsOf(r, c)
  BY <1>1, <1>2 DEF AttemptsOf
<1>9. /\ LastId(q) = LastId(r)
      /\ LastAttempt(q).concurrency = LastAttempt(r).concurrency
  BY <1>1, <1>2, <1>3 DEF LastId, Id
<1>10. q.attempts # <<>>
  BY <1>1
<1>11. QED
  BY <1>1, <1>2, <1>4, <1>5, <1>6, <1>7, <1>8, <1>9, <1>10 DEF L

\* The last attempt is active or waits for its cleanup, and the run is
\* canceled exactly if the attempt is.
Unsettled(q) ==
    /\ LastAttempt(q).cleanup_pending = ~IsOpen(LastAttempt(q))
    /\ q.state = "canceled" <=> LastAttempt(q).phase = "canceled"
    /\ q.state \in PendingPhases \cup {"canceled"}

\* Editing the last attempt of a run that goes on keeps the record well-formed.
LEMMA EditLastWellFormed ==
    ASSUME NEW r \in Record, NEW q \in Record,
           WellFormed(r), ~Terminal(r), r.attempts # <<>>,
           EditsLast(r, q), Unsettled(q)
    PROVE  WellFormed(q)
<1> DEFINE L == Len(r.attempts)
<1>1. /\ NumberedInOrder(q)
      /\ EarlierSettled(q)
      /\ DecidedInTurn(q)
      /\ q.attempts # <<>>
      /\ q.completed = r.completed
      /\ q.failed = r.failed
      /\ Decided(q) = Decided(r)
      /\ LastAttempt(q).concurrency = LastAttempt(r).concurrency
      /\ \A c \in Levels : AttemptsOf(q, c) = AttemptsOf(r, c)
      /\ \A i \in 1..L : i # L => q.attempts[i] = r.attempts[i]
  BY EditsLastKeeps
<1>2. /\ L \in Nat /\ L # 0
      /\ L \in DOMAIN r.attempts
      /\ DOMAIN r.attempts = 1..L
      /\ DOMAIN q.attempts = 1..L
      /\ Len(q.attempts) = L
  BY RecordParts DEF EditsLast
<1>3. LastAttempt(q) = q.attempts[L] /\ LastAttempt(r) = r.attempts[L]
  BY DEF LastAttempt, EditsLast
<1>4. LastAttempt(r).concurrency \notin Decided(r)
  BY DEF WellFormed, StateMatchesHistory
<1> HIDE DEF L
<1>5. CleanupIsFinal(q)
  BY <1>1, <1>2, <1>3
  DEF CleanupIsFinal, EarlierSettled, IsSettled, Unsettled
<1>6. DecidedByAttempts(q)
  <2>1. \A c \in Decided(r) :
            /\ c \in Levels
            /\ \A i \in AttemptsOf(r, c) : q.attempts[i] = r.attempts[i]
    BY <1>1, <1>2, <1>3, <1>4 DEF AttemptsOf, Decided, Record
  <2>2. \A i \in 1..L :
            q.attempts[i].phase = "succeeded" /\ ~q.attempts[i].cleanup_pending
                => i # L
    BY <1>3 DEF Unsettled, IsOpen, FinalPhases
  <2>3. QED
    BY <1>1, <1>2, <2>1, <2>2
    DEF WellFormed, DecidedByAttempts, Decided
<1>7. StateMatchesHistory(q)
  <2>1. q.state \notin {"completed", "partial", "failed"}
    BY DEF Unsettled, PendingPhases
  <2>2. Terminal(q) => LastAttempt(q).phase = "canceled"
    BY <2>1 DEF Unsettled, Terminal, TERMINAL_STATES
  <2>3. ASSUME ~Terminal(q)
        PROVE  /\ LastAttempt(q).concurrency \notin Decided(q)
               /\ LastAttempt(q).phase # "canceled"
               /\ IsOpen(LastAttempt(q)) \/ LastAttempt(q).cleanup_pending
    BY <2>3, <1>1, <1>4 DEF Unsettled, Terminal, TERMINAL_STATES
  <2>4. QED
    BY <1>1, <2>1, <2>2, <2>3
    DEF StateMatchesHistory, Terminal, TERMINAL_STATES
<1>8. QED
  BY <1>1, <1>5, <1>6, <1>7 DEF WellFormed

\* What _queue_cleanup writes into the record, whatever the phase.
LEMMA QueueCleanupEdits ==
    ASSUME NEW r \in Record, r.attempts # <<>>, NEW phase \in FinalPhases
    PROVE  LET q == QueueCleanup(r, Len(r.attempts), phase)
           IN  /\ q \in Record
               /\ EditsLast(r, q)
               /\ q.attempts # <<>>
               /\ q.state = r.state
               /\ LastAttempt(q).phase = phase
               /\ LastAttempt(q).cleanup_pending = TRUE
<1> DEFINE q == QueueCleanup(r, Len(r.attempts), phase)
           L == Len(r.attempts)
           a == [r.attempts[L] EXCEPT !.phase = phase, !.cleanup_pending = TRUE]
<1>1. /\ r.attempts \in Seq(Attempt)
      /\ L \in Nat
      /\ L \in DOMAIN r.attempts
      /\ DOMAIN r.attempts = 1..L
      /\ r.attempts[L] \in Attempt
  BY RecordParts
<1>2. a \in Attempt
  BY <1>1 DEF Attempt, AttemptPhase
<1>3. /\ a.phase = phase
      /\ a.cleanup_pending = TRUE
      /\ a.concurrency = r.attempts[L].concurrency
      /\ a.attempt = r.attempts[L].attempt
  BY <1>1 DEF Attempt
<1>4. q = [r EXCEPT !.attempts = [r.attempts EXCEPT ![L] = a]]
  BY <1>1 DEF Record, QueueCleanup
<1> HIDE DEF a, q
<1>5. [r.attempts EXCEPT ![L] = a] \in Seq(Attempt)
  BY <1>1, <1>2
<1>6. /\ q \in Record
      /\ q.attempts = [r.attempts EXCEPT ![L] = a]
      /\ q.state = r.state
      /\ q.completed = r.completed
      /\ q.failed = r.failed
  BY <1>4, <1>5 DEF Record
<1>7. /\ Len(q.attempts) = L
      /\ q.attempts[L] = a
      /\ \A i \in 1..L : i # L => q.attempts[i] = r.attempts[i]
  BY <1>1, <1>6
<1>8. EditsLast(r, q)
  BY <1>1, <1>3, <1>6, <1>7 DEF EditsLast
<1>9. LastAttempt(q) = a
  BY <1>7 DEF LastAttempt
<1>10. q.attempts # <<>>
  BY <1>1, <1>7
<1>11. QED
  BY <1>3, <1>6, <1>8, <1>9, <1>10 DEF q

\* A final phase, not a cancellation, queued for the active attempt.
LEMMA QueueCleanupWellFormed ==
    ASSUME NEW r \in Record, WellFormed(r), HasActive(r),
           NEW phase \in {"succeeded", "failed"}
    PROVE  LET q == QueueCleanup(r, ActiveAttempt(r), phase)
           IN  /\ q \in Record
               /\ WellFormed(q)
               /\ EditsLast(r, q)
               /\ q.attempts # <<>>
               /\ LastAttempt(q).cleanup_pending
               /\ LastAttempt(q).phase = phase
               /\ ~Terminal(q)
<1> DEFINE q == QueueCleanup(r, ActiveAttempt(r), phase)
<1>1. /\ ActiveAttempt(r) = Len(r.attempts)
      /\ r.attempts # <<>>
      /\ ~Terminal(r)
  BY OnlyLastUnsettled
<1>2. phase \in FinalPhases
  BY DEF FinalPhases
<1>3. /\ q \in Record
      /\ EditsLast(r, q)
      /\ q.attempts # <<>>
      /\ q.state = r.state
      /\ LastAttempt(q).phase = phase
      /\ LastAttempt(q).cleanup_pending = TRUE
  BY <1>1, <1>2, QueueCleanupEdits
<1> HIDE DEF q
<1>4. r.state \in PendingPhases
  BY <1>1 DEF Record, RunState, Terminal
<1>5. Unsettled(q)
  BY <1>2, <1>3, <1>4 DEF Unsettled, IsOpen, PendingPhases
<1>6. WellFormed(q)
  BY <1>1, <1>3, <1>5, EditLastWellFormed
<1>7. QED
  BY <1>1, <1>3, <1>6 DEF q, Terminal

\* Canceling a run with an active attempt.
LEMMA CancelActiveWellFormed ==
    ASSUME NEW r \in Record, WellFormed(r), HasActive(r)
    PROVE  LET q == CancelActive(r, ActiveAttempt(r))
           IN  /\ q \in Record
               /\ WellFormed(q)
               /\ EditsLast(r, q)
               /\ q.attempts # <<>>
               /\ LastAttempt(q).cleanup_pending
               /\ Terminal(q)
<1> DEFINE p == QueueCleanup(r, ActiveAttempt(r), "canceled")
           q == CancelActive(r, ActiveAttempt(r))
<1>1. /\ ActiveAttempt(r) = Len(r.attempts)
      /\ r.attempts # <<>>
      /\ ~Terminal(r)
  BY OnlyLastUnsettled
<1>2. "canceled" \in FinalPhases
  BY DEF FinalPhases
<1>3. /\ p \in Record
      /\ EditsLast(r, p)
      /\ p.attempts # <<>>
      /\ LastAttempt(p).phase = "canceled"
      /\ LastAttempt(p).cleanup_pending = TRUE
  BY <1>1, <1>2, QueueCleanupEdits
<1>4. q = [p EXCEPT !.state = "canceled"]
  BY DEF CancelActive
<1> HIDE DEF p, q
<1>5. /\ q \in Record
      /\ q.attempts = p.attempts
      /\ q.completed = p.completed
      /\ q.failed = p.failed
      /\ q.state = "canceled"
  BY <1>3, <1>4 DEF Record, RunState, TERMINAL_STATES
<1>6. EditsLast(r, q) /\ LastAttempt(q) = LastAttempt(p)
  BY <1>3, <1>5 DEF EditsLast, LastAttempt
<1>7. Unsettled(q)
  BY <1>2, <1>3, <1>5, <1>6 DEF Unsettled, IsOpen
<1>8. WellFormed(q)
  BY <1>1, <1>5, <1>6, <1>7, EditLastWellFormed
<1>9. QED
  BY <1>3, <1>5, <1>6, <1>8 DEF q, Terminal, TERMINAL_STATES

\* A run that holds capacity without an unsettled attempt was never started.
LEMMA NotStarted ==
    ASSUME NEW r \in Record, WellFormed(r), HoldsCapacity(r),
           ~HasCleanup(r), ~HasActive(r)
    PROVE  r.attempts = <<>> /\ Decided(r) = {} /\ ~Terminal(r)
<1>1. ~Terminal(r)
  BY DEF HoldsCapacity
<1>2. r.attempts = <<>>
  BY <1>1, OnlyLastUnsettled DEF WellFormed, StateMatchesHistory
<1>3. QED
  BY <1>1, <1>2 DEF WellFormed, StateMatchesHistory

\* A record without attempts is well-formed when nothing is decided.
LEMMA EmptyWellFormed ==
    ASSUME NEW r \in Record, r.attempts = <<>>, Decided(r) = {},
           r.state \in {"admission_pending", "canceled"}
    PROVE  WellFormed(r) /\ Settled(r) /\ ~HasActive(r) /\ ~HasCleanup(r)
<1>1. DOMAIN r.attempts = {}
  BY RecordParts
<1>2. r.completed = {} /\ r.failed = {}
  BY DEF Decided
<1>3. QED
  BY <1>1, <1>2
  DEF WellFormed, Settled, NumberedInOrder, EarlierSettled, CleanupIsFinal,
      DecidedInTurn, DecidedByAttempts, StateMatchesHistory, AttemptsOf,
      HasActive, HasCleanup, OpenAttempts, CleanupAttempts

\* The record submit saves first, and what it starts from it.
LEMMA NewRecordWellFormed ==
    /\ NewRecord \in Record
    /\ WellFormed(NewRecord)
    /\ ~HasActive(NewRecord) /\ ~HasCleanup(NewRecord) /\ HoldsCapacity(NewRecord)
    /\ StartAttempt(NewRecord, 1, 1) \in Record
    /\ WellFormed(StartAttempt(NewRecord, 1, 1))
    /\ StartAttempt(NewRecord, 1, 1).attempts # <<>>
    /\ IsOpen(LastAttempt(StartAttempt(NewRecord, 1, 1)))
    /\ ~Terminal(StartAttempt(NewRecord, 1, 1))
<1>1. /\ NewRecord \in Record
      /\ NewRecord.attempts = <<>>
      /\ Decided(NewRecord) = {}
      /\ NewRecord.state = "admission_pending"
  BY DEF NewRecord, Record, RunState, PendingPhases, Decided
<1>2. /\ WellFormed(NewRecord) /\ Settled(NewRecord)
      /\ ~HasActive(NewRecord) /\ ~HasCleanup(NewRecord)
  BY <1>1, EmptyWellFormed
<1>3. HoldsCapacity(NewRecord)
  BY <1>1 DEF HoldsCapacity, Terminal, TERMINAL_STATES
<1>4. DOMAIN NewRecord.attempts = {}
  BY <1>1, RecordParts
<1>5. AttemptsOf(NewRecord, 1) = {}
  BY <1>4 DEF AttemptsOf
<1>6. 1 = Cardinality(AttemptsOf(NewRecord, 1)) + 1
  BY <1>5, FS_EmptySet
<1>7. 1 \in Levels /\ 1 \in 1 .. Retries + 1
  BY LevelCountAssumption, RetriesAssumption DEF Levels
<1>8. QED
  BY <1>1, <1>2, <1>3, <1>4, <1>6, <1>7, StartAttemptWellFormed

\* A reconcile that finds no attempt starts the first one.
LEMMA FirstAdvanceWellFormed ==
    ASSUME NEW r \in Record, WellFormed(r), HoldsCapacity(r),
           ~HasCleanup(r), ~HasActive(r)
    PROVE  /\ Advance(r) \in Record
           /\ WellFormed(Advance(r))
           /\ Advance(r).attempts # <<>>
           /\ IsOpen(LastAttempt(Advance(r)))
<1>1. r.attempts = <<>> /\ Decided(r) = {} /\ ~Terminal(r)
  BY NotStarted
<1>2. DOMAIN r.attempts = {}
  BY <1>1, RecordParts
<1>3. r.state \in {"admission_pending", "canceled"}
  BY <1>1 DEF WellFormed, StateMatchesHistory
<1>4. Settled(r)
  BY <1>1, <1>3, EmptyWellFormed
<1>5. Undecided(r) # {}
  BY <1>1, LevelCountAssumption DEF Undecided, Levels
<1>6. Advance(r) = StartAttempt(r, NextLevel(r), 1)
  BY <1>5 DEF Advance
<1>7. NextLevel(r) \in Levels /\ NextLevel(r) \notin Decided(r)
  BY <1>5, NextLevelUndecided
<1>8. AttemptsOf(r, NextLevel(r)) = {}
  BY <1>2 DEF AttemptsOf
<1>9. 1 = Cardinality(AttemptsOf(r, NextLevel(r))) + 1
  BY <1>8, FS_EmptySet
<1>10. 1 \in 1 .. Retries + 1
  BY RetriesAssumption
<1>11. QED
  BY <1>2, <1>4, <1>6, <1>7, <1>9, <1>10, StartAttemptWellFormed

\* Canceling a run that was never started.
LEMMA CancelIdleWellFormed ==
    ASSUME NEW r \in Record, WellFormed(r), HoldsCapacity(r),
           ~HasCleanup(r), ~HasActive(r)
    PROVE  /\ CancelIdle(r) \in Record
           /\ WellFormed(CancelIdle(r))
           /\ CancelIdle(r).attempts = <<>>
           /\ ~HoldsCapacity(CancelIdle(r))
<1>1. r.attempts = <<>> /\ Decided(r) = {}
  BY NotStarted
<1>2. /\ CancelIdle(r) \in Record
      /\ CancelIdle(r).attempts = <<>>
      /\ Decided(CancelIdle(r)) = {}
      /\ CancelIdle(r).state = "canceled"
  BY <1>1 DEF CancelIdle, Record, RunState, TERMINAL_STATES, Decided
<1>3. WellFormed(CancelIdle(r)) /\ ~HasCleanup(CancelIdle(r))
  BY <1>2, EmptyWellFormed
<1>4. QED
  BY <1>2, <1>3 DEF HoldsCapacity, Terminal, TERMINAL_STATES

\* An observation of a Job that has not finished.
LEMMA ObservedWellFormed ==
    ASSUME NEW r \in Record, WellFormed(r), HasActive(r),
           NEW phase \in PendingPhases
    PROVE  LET q == Observed(r, ActiveAttempt(r), phase)
           IN  /\ q \in Record
               /\ WellFormed(q)
               /\ EditsLast(r, q)
               /\ q.attempts # <<>>
               /\ IsOpen(LastAttempt(q))
               /\ HasActive(q)
               /\ ActiveAttempt(q) = ActiveAttempt(r)
<1> DEFINE q == Observed(r, ActiveAttempt(r), phase)
           L == Len(r.attempts)
           a == [r.attempts[L] EXCEPT !.phase = phase]
<1>1. /\ ActiveAttempt(r) = L
      /\ r.attempts # <<>>
      /\ r.attempts \in Seq(Attempt)
      /\ L \in Nat
      /\ L \in DOMAIN r.attempts
      /\ DOMAIN r.attempts = 1..L
      /\ r.attempts[L] \in Attempt
      /\ r.attempts[L].cleanup_pending = FALSE
      /\ ~Terminal(r)
  BY RecordParts, OnlyLastUnsettled DEF LastAttempt
<1>2. a \in Attempt
  BY <1>1 DEF Attempt, AttemptPhase
<1>3. /\ a.phase = phase
      /\ a.cleanup_pending = FALSE
      /\ a.concurrency = r.attempts[L].concurrency
      /\ a.attempt = r.attempts[L].attempt
  BY <1>1 DEF Attempt
<1>4. q = [r EXCEPT !.attempts = [r.attempts EXCEPT ![L] = a], !.state = phase]
  BY <1>1 DEF Record, Observed
<1> HIDE DEF a, q
<1>5. [r.attempts EXCEPT ![L] = a] \in Seq(Attempt)
  BY <1>1, <1>2
<1>6. /\ q \in Record
      /\ q.attempts = [r.attempts EXCEPT ![L] = a]
      /\ q.state = phase
      /\ q.completed = r.completed
      /\ q.failed = r.failed
  BY <1>4, <1>5 DEF Record, RunState
<1>7. /\ Len(q.attempts) = L
      /\ q.attempts[L] = a
      /\ \A i \in 1..L : i # L => q.attempts[i] = r.attempts[i]
  BY <1>1, <1>6
<1>8. EditsLast(r, q)
  BY <1>1, <1>3, <1>6, <1>7 DEF EditsLast
<1>9. LastAttempt(q) = a /\ q.attempts # <<>>
  BY <1>1, <1>7 DEF LastAttempt
<1>10. IsOpen(a) /\ phase # "canceled"
  BY <1>3 DEF IsOpen, PendingPhases, FinalPhases
<1>11. Unsettled(q)
  BY <1>3, <1>6, <1>9, <1>10 DEF Unsettled
<1>12. WellFormed(q)
  BY <1>1, <1>6, <1>8, <1>11, EditLastWellFormed
<1>13. HasActive(q) /\ ActiveAttempt(q) = ActiveAttempt(r)
  BY <1>1, <1>6, <1>7, <1>9, <1>10, <1>12, OnlyLastUnsettled
<1>14. QED
  BY <1>6, <1>8, <1>9, <1>10, <1>12, <1>13 DEF q

\* _recreate_missing_job leaves the attempt alone.
LEMMA RecreatedWellFormed ==
    ASSUME NEW r \in Record, WellFormed(r), HasActive(r)
    PROVE  LET q == [r EXCEPT !.state = "admission_pending"]
           IN  /\ q \in Record
               /\ WellFormed(q)
               /\ EditsLast(r, q)
               /\ q.attempts = r.attempts
<1> DEFINE q == [r EXCEPT !.state = "admission_pending"]
<1>1. /\ r.attempts # <<>>
      /\ IsOpen(LastAttempt(r))
      /\ LastAttempt(r).cleanup_pending = FALSE
      /\ ~Terminal(r)
  <2>1. r.attempts # <<>> => LastAttempt(r).cleanup_pending \in BOOLEAN
    BY RecordParts DEF LastAttempt
  <2>2. QED
    BY <2>1, OnlyLastUnsettled
<1>2. /\ q \in Record
      /\ q.attempts = r.attempts
      /\ q.completed = r.completed
      /\ q.failed = r.failed
      /\ q.state = "admission_pending"
  BY DEF Record, RunState, PendingPhases
<1> HIDE DEF q
<1>3. EditsLast(r, q) /\ LastAttempt(q) = LastAttempt(r)
  BY <1>2 DEF EditsLast, LastAttempt
<1>4. Unsettled(q)
  BY <1>1, <1>2, <1>3 DEF Unsettled, IsOpen, FinalPhases, PendingPhases
<1>5. QED
  BY <1>1, <1>2, <1>3, <1>4, EditLastWellFormed DEF q

-----------------------------------------------------------------------------
(* The end of an attempt *)

\* Clearing the pending cleanup of the last attempt.
Cleaned(r) == [r EXCEPT !.attempts[Len(r.attempts)].cleanup_pending = FALSE]

LEMMA CleanedEdits ==
    ASSUME NEW r \in Record, WellFormed(r), HasCleanup(r)
    PROVE  LET q == Cleaned(r)
           IN  /\ q \in Record
               /\ EditsLast(r, q)
               /\ q.attempts # <<>>
               /\ q.state = r.state
               /\ LastAttempt(q).phase = LastAttempt(r).phase
               /\ ~IsOpen(LastAttempt(q))
               /\ ~LastAttempt(q).cleanup_pending
<1> DEFINE q == Cleaned(r)
           L == Len(r.attempts)
           a == [r.attempts[L] EXCEPT !.cleanup_pending = FALSE]
<1>1. /\ r.attempts # <<>>
      /\ r.attempts \in Seq(Attempt)
      /\ L \in Nat
      /\ L \in DOMAIN r.attempts
      /\ DOMAIN r.attempts = 1..L
      /\ r.attempts[L] \in Attempt
      /\ ~IsOpen(r.attempts[L])
  BY RecordParts, OnlyLastUnsettled DEF LastAttempt
<1>2. a \in Attempt
  BY <1>1 DEF Attempt
<1>3. /\ a.phase = r.attempts[L].phase
      /\ a.cleanup_pending = FALSE
      /\ a.concurrency = r.attempts[L].concurrency
      /\ a.attempt = r.attempts[L].attempt
  BY <1>1 DEF Attempt
<1>4. q = [r EXCEPT !.attempts = [r.attempts EXCEPT ![L] = a]]
  BY <1>1 DEF Record, Cleaned
<1> HIDE DEF a, q
<1>5. [r.attempts EXCEPT ![L] = a] \in Seq(Attempt)
  BY <1>1, <1>2
<1>6. /\ q \in Record
      /\ q.attempts = [r.attempts EXCEPT ![L] = a]
      /\ q.state = r.state
      /\ q.completed = r.completed
      /\ q.failed = r.failed
  BY <1>4, <1>5 DEF Record
<1>7. /\ Len(q.attempts) = L
      /\ q.attempts[L] = a
      /\ \A i \in 1..L : i # L => q.attempts[i] = r.attempts[i]
  BY <1>1, <1>6
<1>8. EditsLast(r, q)
  BY <1>1, <1>3, <1>6, <1>7 DEF EditsLast
<1>9. LastAttempt(q) = a /\ LastAttempt(r) = r.attempts[L] /\ q.attempts # <<>>
  BY <1>1, <1>7 DEF LastAttempt
<1>10. QED
  BY <1>1, <1>3, <1>6, <1>8, <1>9 DEF q, IsOpen

\* The cleanup of the last attempt of a canceled run.
LEMMA CanceledCleaned ==
    ASSUME NEW r \in Record, WellFormed(r), HasCleanup(r), r.state = "canceled"
    PROVE  WellFormed(Cleaned(r)) /\ ~HoldsCapacity(Cleaned(r))
<1> DEFINE q == Cleaned(r)
           L == Len(r.attempts)
<1>1. /\ q \in Record
      /\ EditsLast(r, q)
      /\ q.state = "canceled"
      /\ LastAttempt(q).phase = LastAttempt(r).phase
      /\ ~LastAttempt(q).cleanup_pending
      /\ r.attempts # <<>>
  BY CleanedEdits, OnlyLastUnsettled
<1> HIDE DEF q
<1>2. LastAttempt(r).phase = "canceled"
  BY <1>1 DEF WellFormed, StateMatchesHistory
<1>3. /\ NumberedInOrder(q)
      /\ EarlierSettled(q)
      /\ DecidedInTurn(q)
      /\ q.attempts # <<>>
      /\ q.completed = r.completed
      /\ q.failed = r.failed
      /\ Decided(q) = Decided(r)
      /\ \A c \in Levels : AttemptsOf(q, c) = AttemptsOf(r, c)
      /\ \A i \in 1..L : i # L => q.attempts[i] = r.attempts[i]
  BY <1>1, EditsLastKeeps
<1>4. /\ L \in Nat
      /\ DOMAIN r.attempts = 1..L
      /\ DOMAIN q.attempts = 1..L
  BY <1>1, RecordParts DEF EditsLast
<1>5. LastAttempt(q) = q.attempts[L] /\ LastAttempt(r) = r.attempts[L]
  BY <1>1 DEF LastAttempt, EditsLast
<1> HIDE DEF L
<1>6. CleanupIsFinal(q) /\ ~HasCleanup(q)
  BY <1>1, <1>3, <1>4, <1>5
  DEF CleanupIsFinal, EarlierSettled, IsSettled, HasCleanup, CleanupAttempts
<1>7. DecidedByAttempts(q)
  <2>1. \A c \in Levels : AttemptsOf(r, c) \subseteq 1..L
    BY <1>4 DEF AttemptsOf
  <2>2. r.completed \subseteq Levels /\ r.failed \subseteq Levels
    BY DEF Record
  <2>3. r.attempts[L].phase = "canceled" /\ q.attempts[L].phase = "canceled"
    BY <1>1, <1>2, <1>5
  <2>4. QED
    BY <1>3, <1>4, <2>1, <2>2, <2>3 DEF WellFormed, DecidedByAttempts
<1>8. StateMatchesHistory(q)
  BY <1>1, <1>2, <1>3 DEF StateMatchesHistory, Terminal, TERMINAL_STATES
<1>9. QED
  BY <1>1, <1>3, <1>6, <1>7, <1>8
  DEF q, WellFormed, HoldsCapacity, Terminal, TERMINAL_STATES

\* The cleanup of an attempt that succeeded or failed, before its outcome is
\* counted: everything is settled except that its level is not decided yet.
LEMMA GoesOnCleaned ==
    ASSUME NEW r \in Record, WellFormed(r), HasCleanup(r), r.state # "canceled"
    PROVE  LET q == Cleaned(r)
               c == LastAttempt(r).concurrency
           IN  /\ q \in Record
               /\ q.attempts # <<>>
               /\ q.state # "canceled"
               /\ LastAttempt(q).phase = LastAttempt(r).phase
               /\ LastAttempt(r).phase \in {"succeeded", "failed"}
               /\ c \in Levels
               /\ c \notin Decided(q)
               /\ Len(q.attempts) \in AttemptsOf(q, c)
               /\ NumberedInOrder(q)
               /\ \A i \in DOMAIN q.attempts :
                     /\ IsSettled(q.attempts[i])
                     /\ q.attempts[i].concurrency \in Decided(q) \cup {c}
                     /\ i # Len(q.attempts) /\ q.attempts[i].phase = "succeeded"
                           => q.attempts[i].concurrency \in q.completed
               /\ q.completed \cap q.failed = {}
               /\ \A d \in q.completed : \E i \in AttemptsOf(q, d) :
                     /\ q.attempts[i].phase = "succeeded"
                     /\ ~q.attempts[i].cleanup_pending
               /\ \A d \in q.failed :
                     /\ Cardinality(AttemptsOf(q, d)) = Retries + 1
                     /\ \A i \in AttemptsOf(q, d) : q.attempts[i].phase = "failed"
<1> DEFINE q == Cleaned(r)
           c == LastAttempt(r).concurrency
           L == Len(r.attempts)
<1>1. /\ q \in Record
      /\ EditsLast(r, q)
      /\ q.state = r.state
      /\ LastAttempt(q).phase = LastAttempt(r).phase
      /\ ~LastAttempt(q).cleanup_pending
      /\ r.attempts # <<>>
      /\ ~IsOpen(LastAttempt(r))
  BY CleanedEdits, OnlyLastUnsettled
<1> HIDE DEF q
<1>2. /\ NumberedInOrder(q)
      /\ EarlierSettled(q)
      /\ DecidedInTurn(q)
      /\ q.attempts # <<>>
      /\ q.completed = r.completed
      /\ q.failed = r.failed
      /\ Decided(q) = Decided(r)
      /\ LastAttempt(q).concurrency = c
      /\ \A d \in Levels : AttemptsOf(q, d) = AttemptsOf(r, d)
      /\ \A i \in 1..L : i # L => q.attempts[i] = r.attempts[i]
  BY <1>1, EditsLastKeeps
<1>3. /\ L \in Nat /\ L # 0
      /\ L \in DOMAIN r.attempts
      /\ DOMAIN r.attempts = 1..L
      /\ DOMAIN q.attempts = 1..L
      /\ Len(q.attempts) = L
      /\ c \in Levels
  BY <1>1, RecordParts DEF EditsLast, LastAttempt
<1>4. LastAttempt(q) = q.attempts[L] /\ LastAttempt(r) = r.attempts[L]
  BY <1>1 DEF LastAttempt, EditsLast
<1>5. ~Terminal(r)
  BY DEF WellFormed, StateMatchesHistory, Terminal, TERMINAL_STATES
<1>6. c \notin Decided(r) /\ LastAttempt(r).phase # "canceled"
  BY <1>1, <1>5 DEF WellFormed, StateMatchesHistory
<1>7. LastAttempt(r).phase \in {"succeeded", "failed"}
  BY <1>1, <1>6 DEF IsOpen, FinalPhases
<1>8. \A i \in 1..L : IsSettled(q.attempts[i])
  BY <1>1, <1>2, <1>3, <1>4, <1>7 DEF EarlierSettled, IsSettled
<1> HIDE DEF L, c
<1>9. L \in AttemptsOf(q, c)
  BY <1>2, <1>3, <1>4 DEF AttemptsOf
<1>10. \A i \in 1..L : q.attempts[i].concurrency \in Decided(q) \cup {c}
  BY <1>2, <1>3 DEF DecidedInTurn
<1>11. \A i \in 1..L : i # L /\ q.attempts[i].phase = "succeeded"
                         => q.attempts[i].concurrency \in q.completed
  BY <1>2, <1>3, <1>8 DEF WellFormed, DecidedByAttempts, IsSettled
<1>12. q.completed \cap q.failed = {}
  BY <1>2 DEF DecidedInTurn
<1>13. \A d \in Decided(r) :
           /\ d \in Levels
           /\ AttemptsOf(r, d) \subseteq 1..L
           /\ \A i \in AttemptsOf(r, d) : q.attempts[i] = r.attempts[i]
  <2>1. \A d \in Decided(r) : d \in Levels /\ d # c
    BY <1>6 DEF Decided, Record, c
  <2>2. r.attempts[L].concurrency = c
    BY <1>4 DEF c
  <2>3. QED
    BY <1>2, <1>3, <2>1, <2>2 DEF AttemptsOf
<1>14. \A d \in q.completed : \E i \in AttemptsOf(q, d) :
          /\ q.attempts[i].phase = "succeeded"
          /\ ~q.attempts[i].cleanup_pending
  BY <1>2, <1>13 DEF WellFormed, DecidedByAttempts, Decided
<1>15. \A d \in q.failed :
          /\ Cardinality(AttemptsOf(q, d)) = Retries + 1
          /\ \A i \in AttemptsOf(q, d) : q.attempts[i].phase = "failed"
  BY <1>2, <1>13 DEF WellFormed, DecidedByAttempts, Decided
<1>16. QED
  BY <1>1, <1>2, <1>3, <1>6, <1>7, <1>8, <1>9, <1>10, <1>11, <1>12, <1>14, <1>15
  DEF q, c

\* The numbering depends on the attempts only.
LEMMA SameAttemptsNumbered ==
    ASSUME NEW r, NEW q, NumberedInOrder(r), q.attempts = r.attempts
    PROVE  NumberedInOrder(q)
BY Zenon DEF NumberedInOrder

\* Once the Job and its Pods are gone the attempt is settled, and the run
\* either has a new active attempt or is over and clean.
THEOREM AfterCleanupWellFormed ==
    ASSUME NEW r \in Record, WellFormed(r), HasCleanup(r)
    PROVE  LET q == AfterCleanup(r, CleanupAttempt(r))
           IN  /\ q \in Record
               /\ WellFormed(q)
               /\ q.attempts # <<>>
               /\ \/ IsOpen(LastAttempt(q))
                  \/ ~HoldsCapacity(q)
<1> DEFINE k == Cleaned(r)
           c == LastAttempt(r).concurrency
           q == AfterCleanup(r, CleanupAttempt(r))
<1>1. /\ CleanupAttempt(r) = Len(r.attempts)
      /\ r.attempts # <<>>
      /\ r.attempts[Len(r.attempts)] = LastAttempt(r)
  BY OnlyLastUnsettled DEF LastAttempt
<1>2. q = CASE r.state = "canceled" -> k
            [] r.state # "canceled" /\ LastAttempt(r).phase = "succeeded" ->
                   Advance([k EXCEPT !.completed = @ \cup {c}])
            [] r.state # "canceled" /\ LastAttempt(r).phase = "failed" ->
                   FailAttempt(k, c)
            [] OTHER -> k
  BY <1>1 DEF AfterCleanup, Cleaned
<1> SUFFICES /\ q \in Record
             /\ WellFormed(q)
             /\ q.attempts # <<>>
             /\ \/ IsOpen(LastAttempt(q))
                \/ ~HoldsCapacity(q)
  OBVIOUS
<1> HIDE DEF q
<1>3. CASE r.state = "canceled"
  <2>1. q = k
    BY <1>2, <1>3
  <2>2. QED
    BY <1>3, <2>1, CleanedEdits, CanceledCleaned
<1>4. CASE r.state # "canceled"
  <2> HIDE DEF k, c
  <2>1. /\ k \in Record
        /\ k.attempts # <<>>
        /\ LastAttempt(k).phase = LastAttempt(r).phase
        /\ LastAttempt(r).phase \in {"succeeded", "failed"}
        /\ c \in Levels
        /\ c \notin Decided(k)
        /\ Len(k.attempts) \in AttemptsOf(k, c)
        /\ NumberedInOrder(k)
        /\ k.completed \cap k.failed = {}
        /\ \A i \in DOMAIN k.attempts :
              /\ IsSettled(k.attempts[i])
              /\ k.attempts[i].concurrency \in Decided(k) \cup {c}
              /\ i # Len(k.attempts) /\ k.attempts[i].phase = "succeeded"
                    => k.attempts[i].concurrency \in k.completed
        /\ \A d \in k.completed : \E i \in AttemptsOf(k, d) :
              /\ k.attempts[i].phase = "succeeded"
              /\ ~k.attempts[i].cleanup_pending
        /\ \A d \in k.failed :
              /\ Cardinality(AttemptsOf(k, d)) = Retries + 1
              /\ \A i \in AttemptsOf(k, d) : k.attempts[i].phase = "failed"
    BY <1>4, GoesOnCleaned DEF k, c
  <2>2. /\ Len(k.attempts) \in Nat
        /\ DOMAIN k.attempts = 1..Len(k.attempts)
        /\ Len(k.attempts) \in DOMAIN k.attempts
        /\ LastAttempt(k) = k.attempts[Len(k.attempts)]
    BY <2>1, RecordParts DEF LastAttempt
  <2>3. CASE LastAttempt(r).phase = "succeeded"
    <3> DEFINE p == [k EXCEPT !.completed = @ \cup {c}]
    <3>1. q = Advance(p)
      BY <1>2, <1>4, <2>3
    <3>2. /\ p \in Record
          /\ p.attempts = k.attempts
          /\ p.completed = k.completed \cup {c}
          /\ p.failed = k.failed
      BY <2>1 DEF Record
    <3> HIDE DEF p
    <3>3. \A d \in Levels : AttemptsOf(p, d) = AttemptsOf(k, d)
      BY <3>2 DEF AttemptsOf
    <3>4. NumberedInOrder(p)
      BY <2>1, <3>2, SameAttemptsNumbered
    <3>5. p.completed \cap p.failed = {}
      BY <2>1, <3>2 DEF Decided
    <3>6. DecidedByAttempts(p)
      <4>1. p.completed \subseteq Levels /\ p.failed \subseteq Levels
        BY <3>2 DEF Record
      <4>2. k.attempts[Len(k.attempts)].concurrency = c
        BY <2>1 DEF AttemptsOf
      <4>3. \E i \in AttemptsOf(k, c) : /\ k.attempts[i].phase = "succeeded"
                                        /\ ~k.attempts[i].cleanup_pending
        BY <2>1, <2>2, <2>3 DEF IsSettled
      <4>4. QED
        BY <2>1, <2>2, <3>2, <3>3, <4>1, <4>2, <4>3 DEF DecidedByAttempts
    <3>7. Settled(p)
      BY <2>1, <3>2, <3>4, <3>5, <3>6 DEF Settled
    <3>8. \A i \in DOMAIN p.attempts : p.attempts[i].concurrency \in Decided(p)
      BY <2>1, <3>2 DEF Decided
    <3>9. QED
      BY <3>1, <3>2, <3>7, <3>8, AdvanceWellFormed
  <2>4. CASE LastAttempt(r).phase = "failed"
    <3> DEFINE n == Cardinality(AttemptsOf(k, c))
    <3>1. q = FailAttempt(k, c)
      BY <1>2, <1>4, <2>4
    <3>2. /\ AttemptsOf(k, c) \in SUBSET (1..Len(k.attempts))
          /\ n \in Nat
      <4>1. AttemptsOf(k, c) \in SUBSET (1..Len(k.attempts))
        BY <2>2 DEF AttemptsOf
      <4>2. QED
        BY <2>2, <4>1, PartOfInterval
    <3>3. n <= Retries + 1
      <4>1. k.attempts[Len(k.attempts)].concurrency = c
        BY <2>1 DEF AttemptsOf
      <4>2. k.attempts[Len(k.attempts)].attempt =
                Cardinality({j \in 1..Len(k.attempts) :
                    k.attempts[j].concurrency =
                        k.attempts[Len(k.attempts)].concurrency})
        BY <2>1, <2>2, Zenon DEF NumberedInOrder
      <4>3. AttemptsOf(k, c) =
                {j \in 1..Len(k.attempts) :
                    k.attempts[j].concurrency =
                        k.attempts[Len(k.attempts)].concurrency}
        BY <2>2, <4>1 DEF AttemptsOf
      <4>4. k.attempts[Len(k.attempts)].attempt = n
        BY <4>2, <4>3, Zenon
      <4>5. k.attempts[Len(k.attempts)].attempt \in 1 .. Retries + 1
        BY <2>1, <2>2, RecordParts
      <4>6. QED
        BY <4>4, <4>5, RetriesAssumption
    <3>4. \A i \in AttemptsOf(k, c) : k.attempts[i].phase = "failed"
      <4>1. \A i \in AttemptsOf(k, c) : /\ i \in DOMAIN k.attempts
                                        /\ k.attempts[i].concurrency = c
        BY DEF AttemptsOf
      <4>2. c \notin k.completed
        BY <2>1 DEF Decided
      <4>3. QED
        BY <2>1, <2>2, <2>4, <4>1, <4>2 DEF IsSettled
    <3> HIDE DEF n
    <3>5. DecidedByAttempts(k)
      <4>1. \A i \in DOMAIN k.attempts :
                k.attempts[i].phase = "succeeded" => i # Len(k.attempts)
        BY <2>1, <2>2, <2>4
      <4>2. QED
        BY <2>1, <4>1 DEF DecidedByAttempts
    <3>6. Settled(k)
      BY <2>1, <3>5 DEF Settled
    <3>7. CASE n <= Retries
      <4>1. q = StartAttempt(k, c, n + 1)
        BY <3>1, <3>7 DEF FailAttempt, n
      <4>2. n + 1 \in 1 .. Retries + 1
        BY <3>2, <3>7, RetriesAssumption
      <4>3. QED
        BY <2>1, <3>6, <4>1, <4>2, StartAttemptWellFormed DEF n
    <3>8. CASE ~(n <= Retries)
      <4> DEFINE p == [k EXCEPT !.failed = @ \cup {c}]
      <4>1. q = Advance(p)
        BY <3>1, <3>8 DEF FailAttempt, n
      <4>2. n = Retries + 1
        BY <3>2, <3>3, <3>8, RetriesAssumption
      <4>3. /\ p \in Record
            /\ p.attempts = k.attempts
            /\ p.completed = k.completed
            /\ p.failed = k.failed \cup {c}
        BY <2>1 DEF Record
      <4> HIDE DEF p
      <4>4. \A d \in Levels : AttemptsOf(p, d) = AttemptsOf(k, d)
        BY <4>3 DEF AttemptsOf
      <4>5. NumberedInOrder(p)
        BY <2>1, <4>3, SameAttemptsNumbered
      <4>6. p.completed \cap p.failed = {}
        BY <2>1, <4>3 DEF Decided
      <4>7. DecidedByAttempts(p)
        <5>1. p.completed \subseteq Levels /\ p.failed \subseteq Levels
          BY <4>3 DEF Record
        <5>2. Cardinality(AttemptsOf(k, c)) = Retries + 1
          BY <4>2 DEF n
        <5>3. QED
          BY <2>1, <3>4, <3>5, <4>3, <4>4, <5>1, <5>2 DEF DecidedByAttempts
      <4>8. Settled(p)
        BY <2>1, <4>3, <4>5, <4>6, <4>7 DEF Settled
      <4>9. \A i \in DOMAIN p.attempts : p.attempts[i].concurrency \in Decided(p)
        BY <2>1, <4>3 DEF Decided
      <4>10. QED
        BY <4>1, <4>3, <4>8, <4>9, AdvanceWellFormed
    <3>9. QED
      BY <3>7, <3>8
  <2>5. QED
    BY <2>1, <2>3, <2>4
<1>5. QED
  BY <1>3, <1>4 DEF q

\* The only terminal run with a pending cleanup is a canceled one, and the end
\* of its cleanup leaves it canceled, with nothing to run.
LEMMA CancelSticks ==
    ASSUME NEW r \in Record, WellFormed(r), HasCleanup(r)
    PROVE  /\ Terminal(r) => r.state = "canceled"
           /\ r.state = "canceled" =>
                 /\ Terminal(r)
                 /\ AfterCleanup(r, CleanupAttempt(r)).state = "canceled"
                 /\ ~HasActive(AfterCleanup(r, CleanupAttempt(r)))
<1>1. Terminal(r) => r.state = "canceled"
  BY DEF WellFormed, StateMatchesHistory, Terminal, TERMINAL_STATES
<1>2. ASSUME r.state = "canceled"
      PROVE  /\ Terminal(r)
             /\ AfterCleanup(r, CleanupAttempt(r)).state = "canceled"
             /\ ~HasActive(AfterCleanup(r, CleanupAttempt(r)))
  <2> DEFINE q == AfterCleanup(r, CleanupAttempt(r))
  <2>1. CleanupAttempt(r) = Len(r.attempts)
    BY OnlyLastUnsettled
  <2>2. q = Cleaned(r)
    BY <1>2, <2>1 DEF AfterCleanup, Cleaned
  <2>3. /\ q \in Record
        /\ q.attempts # <<>>
        /\ q.state = "canceled"
        /\ ~IsOpen(LastAttempt(q))
        /\ WellFormed(q)
    BY <1>2, <2>2, CleanedEdits, CanceledCleaned
  <2> HIDE DEF q
  <2>4. ~HasActive(q)
    BY <2>3, OnlyLastUnsettled
  <2>5. Terminal(r)
    BY <1>2 DEF Terminal, TERMINAL_STATES
  <2>6. QED
    BY <2>3, <2>4, <2>5 DEF q
<1>3. QED
  BY <1>1, <1>2

LEMMA NotTerminalNotCanceled ==
    ASSUME NEW r, ~Terminal(r)
    PROVE  r.state # "canceled"
BY DEF Terminal, TERMINAL_STATES
=============================================================================
