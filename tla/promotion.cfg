SPECIFICATION Spec
CONSTANTS
    Retries = 2
    Logs = {log}
    NoLog = NoLog
    MaxInterruptions = 2
    MaxErrors = 2
INVARIANTS TypeOK Published NothingLeftBehind InterruptionIsHarmless
PROPERTIES FitsLevel
