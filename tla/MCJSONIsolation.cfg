SPECIFICATION Spec
CONSTANTS
    Procs = {p1, p2}
    Records = {1, 2}
    Configs <- MCBase
    Loggers <- CollidingLoggers
    Inputs <- CollidingInputs
    MaxStackFrames = 4
INVARIANTS
    EntryIsolation
