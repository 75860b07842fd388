SPECIFICATION Spec
CONSTANTS
    Procs = {p1, p2}
    Records = {1, 2}
    Configs <- MCConfigs
    Loggers <- MCLoggers
    Inputs <- MCInputs
    MaxStackFrames = 4
INVARIANTS
    EntryIsRight
    CallsStayApart
    MapsStayApart
    HTTPRequestIsWhole
