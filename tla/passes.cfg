SPECIFICATION FairSpec
CONSTANTS
    RunCount = 2
    Submitters = {s1}
    Reconciler = rc
    Cancelers = {c}
    NoThread = NoThread
    MaxActive = 1
    MaxRetained = 1
    Unlisted = {}
    MaxFaults = 1
PROPERTIES EveryRunEnds CallsReturn
