SPECIFICATION Spec
CONSTANTS
    RunCount = 3
    Submitters = {s1, s2}
    Reconciler = rc
    Cancelers = {c}
    NoThread = NoThread
    MaxActive = 1
    MaxRetained = 1
    Unlisted = {}
    MaxFaults = 1
INVARIANTS TypeOK CapacityRespected RetentionBounded
PROPERTIES OnlyOverDeleted NewestKept
