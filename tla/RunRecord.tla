----------------------------- MODULE RunRecord -----------------------------
(***************************************************************************)
(* The durable record of one benchmark run (models.py, BenchmarkRecord)    *)
(* and the pure part of controller.py that edits it: which attempt is      *)
(* active, what a settled attempt decides, what runs next.                 *)
(*                                                                         *)
(* A run sweeps the concurrency values of its request in order.  Requests  *)
(* with repeated values are refused (models.py, validate_concurrencies),   *)
(* so a value is named here by its position in the request: Levels.        *)
(***************************************************************************)
EXTENDS Naturals, Sequences, FiniteSets

CONSTANTS
    LevelCount, \* length of request.concurrencies (1 through 8 in the code)
    Retries,    \* request.retries (0 through 5 in the code)
    NoRecord    \* the absence of a record: no file, or nothing in memory

ASSUME LevelCountAssumption == LevelCount \in Nat \ {0}
ASSUME RetriesAssumption == Retries \in Nat

Levels == 1..LevelCount

PendingPhases == {"admission_pending", "runtime_pending", "running"}
FinalPhases == {"succeeded", "failed", "canceled"}
AttemptPhase == PendingPhases \cup FinalPhases

TERMINAL_STATES == {"completed", "partial", "failed", "canceled"}
RunState == PendingPhases \cup TERMINAL_STATES

AttemptIds == Levels \X (1 .. Retries + 1)

Attempt == [concurrency : Levels, attempt : 1 .. Retries + 1,
            phase : AttemptPhase, cleanup_pending : BOOLEAN]

\* completed and failed are lists in the code; only membership is ever read.
Record == [state : RunState, attempts : Seq(Attempt),
           completed : SUBSET Levels, failed : SUBSET Levels]

ASSUME NoRecordAssumption == NoRecord \notin Record

-----------------------------------------------------------------------------
(* Reading a record *)

Id(attempt) == <<attempt.concurrency, attempt.attempt>>
LastAttempt(r) == r.attempts[Len(r.attempts)]

\* A Job name is a function of the run and these two numbers.
LastId(r) == Id(LastAttempt(r))

IsOpen(attempt) == attempt.phase \notin FinalPhases

CleanupAttempts(r) == {i \in DOMAIN r.attempts : r.attempts[i].cleanup_pending}
OpenAttempts(r) == {i \in DOMAIN r.attempts : IsOpen(r.attempts[i])}

HasCleanup(r) == CleanupAttempts(r) # {}
HasActive(r) == OpenAttempts(r) # {}

\* next(item for item in attempts if item.cleanup_pending)
CleanupAttempt(r) ==
    CHOOSE i \in CleanupAttempts(r) : \A j \in CleanupAttempts(r) : i <= j

\* _active_attempt: the latest attempt whose phase is not final
ActiveAttempt(r) ==
    CHOOSE i \in OpenAttempts(r) : \A j \in OpenAttempts(r) : j <= i

Terminal(r) == r.state \in TERMINAL_STATES

\* What submit counts against maximum_active_runs, and what reconcile_all
\* still visits.
HoldsCapacity(r) == ~Terminal(r) \/ HasCleanup(r)

Decided(r) == r.completed \cup r.failed
Undecided(r) == Levels \ Decided(r)
AttemptsOf(r, c) == {i \in DOMAIN r.attempts : r.attempts[i].concurrency = c}

-----------------------------------------------------------------------------
(* Editing a record *)

NewRecord == [state |-> "admission_pending", attempts |-> <<>>,
              completed |-> {}, failed |-> {}]

StartAttempt(r, c, n) ==
    [r EXCEPT !.attempts = Append(@, [concurrency |-> c, attempt |-> n,
                                      phase |-> "admission_pending",
                                      cleanup_pending |-> FALSE]),
              !.state = "admission_pending"]

\* remaining[0]
NextLevel(r) == CHOOSE c \in Undecided(r) : \A d \in Undecided(r) : c <= d

Verdict(r) ==
    IF r.failed = {} THEN "completed"
    ELSE IF r.completed = {} THEN "failed"
    ELSE "partial"

\* Mutant: a level whose attempts all failed still counts as remaining.
AdvanceForgetsFailed(r) ==
    IF Levels \ r.completed # {}
    THEN StartAttempt(r, CHOOSE c \in Levels \ r.completed : TRUE, 1)
    ELSE [r EXCEPT !.state = Verdict(r)]

Advance(r) ==
    IF Undecided(r) # {}
    THEN StartAttempt(r, NextLevel(r), 1)
    ELSE [r EXCEPT !.state = Verdict(r)]

\* Mutants: one retry too many; a retry under the number of the attempt that
\* failed.
FailAttemptOnceMore(r, c) ==
    IF Cardinality(AttemptsOf(r, c)) <= Retries + 1
    THEN StartAttempt(r, c, Cardinality(AttemptsOf(r, c)) + 1)
    ELSE Advance([r EXCEPT !.failed = @ \cup {c}])
FailAttemptSameNumber(r, c) ==
    IF Cardinality(AttemptsOf(r, c)) <= Retries
    THEN StartAttempt(r, c, Cardinality(AttemptsOf(r, c)))
    ELSE Advance([r EXCEPT !.failed = @ \cup {c}])

FailAttempt(r, c) ==
    IF Cardinality(AttemptsOf(r, c)) <= Retries
    THEN StartAttempt(r, c, Cardinality(AttemptsOf(r, c)) + 1)
    ELSE Advance([r EXCEPT !.failed = @ \cup {c}])

\* Mutant: the attempt's phase alone decides, as if no run were ever canceled.
AfterCleanupForgetsCancel(r, i) ==
    LET clean == [r EXCEPT !.attempts[i].cleanup_pending = FALSE]
        c == r.attempts[i].concurrency
    IN  IF r.attempts[i].phase = "succeeded"
        THEN Advance([clean EXCEPT !.completed = @ \cup {c}])
        ELSE FailAttempt(clean, c)

\* _complete_cleanup once the Job and its Pods are gone.  The attempt's final
\* phase decides what the run does next, unless the run was canceled.
AfterCleanup(r, i) ==
    LET clean == [r EXCEPT !.attempts[i].cleanup_pending = FALSE]
        c == r.attempts[i].concurrency
        phase == r.attempts[i].phase
    IN  CASE r.state = "canceled" -> clean
          [] r.state # "canceled" /\ phase = "succeeded" ->
                 Advance([clean EXCEPT !.completed = @ \cup {c}])
          [] r.state # "canceled" /\ phase = "failed" -> FailAttempt(clean, c)
          [] OTHER -> clean

\* _queue_cleanup
QueueCleanup(r, i, phase) ==
    [r EXCEPT !.attempts[i].phase = phase,
              !.attempts[i].cleanup_pending = TRUE]

\* _cancel with an active attempt, and without one
CancelActive(r, i) == [QueueCleanup(r, i, "canceled") EXCEPT !.state = "canceled"]
CancelIdle(r) == [r EXCEPT !.state = "canceled"]

\* An observation that is not final moves the attempt and the run together.
Observed(r, i, phase) == [r EXCEPT !.attempts[i].phase = phase, !.state = phase]

-----------------------------------------------------------------------------
(* What every record, on disk or in memory, must satisfy *)

\* Attempts of one level are numbered 1, 2, ... in order, without a gap, and
\* never past the request's retries.
NumberedInOrder(r) ==
    \A i \in DOMAIN r.attempts :
        r.attempts[i].attempt =
            Cardinality({j \in 1..i :
                r.attempts[j].concurrency = r.attempts[i].concurrency})

\* Over, with its Job gone, and without ending the run.
IsSettled(attempt) ==
    attempt.phase \in {"succeeded", "failed"} /\ ~attempt.cleanup_pending

\* Every attempt but the last is settled.
EarlierSettled(r) ==
    \A i \in DOMAIN r.attempts :
        i # Len(r.attempts) => IsSettled(r.attempts[i])

CleanupIsFinal(r) ==
    \A i \in DOMAIN r.attempts :
        r.attempts[i].cleanup_pending => ~IsOpen(r.attempts[i])

\* No level is attempted after it was decided, and none is left undecided
\* behind the one being attempted.
DecidedInTurn(r) ==
    /\ r.completed \cap r.failed = {}
    /\ \A i \in DOMAIN r.attempts :
           r.attempts[i].concurrency \in
               Decided(r) \cup {LastAttempt(r).concurrency}

\* A level is completed exactly when an attempt of it succeeded and was
\* cleaned up, and failed only after its first try and all retries failed.
DecidedByAttempts(r) ==
    /\ \A c \in r.completed :
           \E i \in AttemptsOf(r, c) : /\ r.attempts[i].phase = "succeeded"
                                       /\ ~r.attempts[i].cleanup_pending
    /\ \A i \in DOMAIN r.attempts :
           r.attempts[i].phase = "succeeded" /\ ~r.attempts[i].cleanup_pending
               => r.attempts[i].concurrency \in r.completed
    /\ \A c \in r.failed :
           /\ Cardinality(AttemptsOf(r, c)) = Retries + 1
           /\ \A i \in AttemptsOf(r, c) : r.attempts[i].phase = "failed"

\* The run's state agrees with its history.
StateMatchesHistory(r) ==
    /\ r.state \in {"completed", "partial", "failed"} =>
           /\ Undecided(r) = {} /\ r.state = Verdict(r)
           /\ ~HasCleanup(r) /\ ~HasActive(r)
    /\ r.state = "canceled" /\ r.attempts # <<>> =>
           LastAttempt(r).phase = "canceled"
    /\ r.attempts = <<>> =>
           Decided(r) = {} /\ r.state \in {"admission_pending", "canceled"}
    /\ ~Terminal(r) /\ r.attempts # <<>> =>
           /\ LastAttempt(r).concurrency \notin Decided(r)
           /\ LastAttempt(r).phase # "canceled"
           /\ IsOpen(LastAttempt(r)) \/ LastAttempt(r).cleanup_pending

WellFormed(r) ==
    /\ NumberedInOrder(r)
    /\ EarlierSettled(r)
    /\ CleanupIsFinal(r)
    /\ DecidedInTurn(r)
    /\ DecidedByAttempts(r)
    /\ StateMatchesHistory(r)
=============================================================================
