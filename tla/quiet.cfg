SPECIFICATION FairSpec
CONSTANTS
    LevelCount = 2
    Retries = 1
    NoRecord = NoRecord
    Submitter = s
    Reconcilers = {r}
    Cancelers = {c}
    NoThread = NoThread
    Overlap = FALSE
    MaxFaults = 2
INVARIANTS TypeOK RecordsWellFormed AttemptsWithinPlan JobsOwned CompletedIsPromoted FinalReport
PROPERTIES TerminalIsFinal HistoryIsKept JobsFollowRecord KeepsPromise LevelsFit JobsFit RunEnds
