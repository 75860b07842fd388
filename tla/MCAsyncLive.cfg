SPECIFICATION LiveSpec
CONSTANTS
    Records = {r1, r2}
    Workers = {w1}
    Callers = {c1, c2}
    Coordinator = coordinator
    NoRecord = NoRecord
    Ops = {"Close", "Shutdown", "AbortCtx"}
    DropMode = "drop_oldest"
    QueueSize = 1
    BatchSize = 2
    HasFlushTimeout = FALSE
PROPERTIES
    EverythingSettles
    LogSafety
