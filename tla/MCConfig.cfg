SPECIFICATION Spec
CONSTANTS
    MaxSteps = 3
    Plain <- PlainSettings
CHECK_DEADLOCK FALSE
INVARIANTS
    OutputIsRight
    RefusalsAreRight
    AsyncIsRight
    DerivationKeeps
