SPECIFICATION Spec
CONSTANTS
    Readers = {g1, g2}
    Codes = {103, 204, 404}
    HandlerOps = {"WriteHeader", "Write", "Flush", "Hijack", "panic"}
    MaxOps = 3
    MaxChunk = 1
    Durations <- ClockSteps
    Requests <- MCRequests
    Options <- MCOptions
    Enriched = {"tenant", "token"}
    Redacted = {"token", "httpRequest", "http.query"}
INVARIANTS
    PayloadIsWhole
    ReportIsSent
    LoggerIsRight
PROPERTIES
    EndsFinal
