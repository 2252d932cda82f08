SPECIFICATION Spec
CONSTANTS
    Retries = 1
    Logs = {log}
    NoLog = NoLog
    MaxInterruptions = 1
    MaxErrors = 0
INVARIANTS NothingMissing
