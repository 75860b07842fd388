SPECIFICATION Spec
CONSTANTS
    Records = {r1, r2, r3}
    Workers = {w1, w2}
    Callers = {c1, c2}
    Coordinator = coordinator
    NoRecord = NoRecord
    Ops = {"Close", "Shutdown", "ShutdownCtx", "Abort", "AbortCtx"}
    DropMode = "block"
    QueueSize = 1
    BatchSize = 2
    HasFlushTimeout = TRUE
SYMMETRY Symmetry
INVARIANTS
    TypeOK
    NoSendOnClosedQueue
    Conservation
    CloserRunsLast
    NilMeansNoAbortDrop
    ReturnMeansDrained
