SPECIFICATION FairSpec
CONSTANTS
    Records = {r1, r2}
    Workers = {w1}
    Callers = {c1, c2}
    Coordinator = coordinator
    NoRecord = NoRecord
    Ops = {"Close", "ShutdownCtx", "AbortCtx"}
    DropMode = "block"
    QueueSize = 0
    BatchSize = 2
    HasFlushTimeout = TRUE
PROPERTIES
    NobodyHangs
