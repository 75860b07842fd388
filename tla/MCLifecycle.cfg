SPECIFICATION FairSpec
CONSTANTS
    Records = {r1, r2}
    Callers = {c1, c2}
    None = None
    Discard = Discard
    MaxFiles = 3
    Ops = {"Close", "Shutdown", "ShutdownCtx", "Abort", "AbortCtx", "Reopen"}
INVARIANTS
    NoWriteToClosedFile
    NoLeakedFile
    NothingLostInSilence
PROPERTIES
    FileIsReleased
