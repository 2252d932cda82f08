SPECIFICATION Spec
CONSTANTS
    LevelCount = 1
    Retries = 1
    NoRecord = NoRecord
    Submitter = s
    Reconcilers = {r}
    Cancelers = {c}
    NoThread = NoThread
    Overlap = FALSE
    MaxFaults = 1
INVARIANTS NoStaleReport
