SPECIFICATION FairSpec
CONSTANTS
    RunCount = 2
    Submitters = {s1}
    Reconciler = rc
    Cancelers = {c}
    NoThread = NoThread
    MaxActive = 2
    MaxRetained = 1
    Unlisted = {2}
    MaxFaults = 1
PROPERTIES ListedRunsEnd
