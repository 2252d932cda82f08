SPECIFICATION FairSpec
CONSTANTS
    Queues <- MCQueues
    Runs <- MCRuns
    FailureThreshold = 2
INVARIANTS TypeOK ReadyWasVerified
PROPERTIES BadIsTakenOut GoodIsTakenIn
