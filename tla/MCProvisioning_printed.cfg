SPECIFICATION Spec
CONSTANTS
    Missing = Missing
    Torn = Torn
    NoKey = NoKey
    Commands <- PrintedCommand
    AuthImports = TRUE
    MaxRuns = 2
INVARIANT ReadyForUse
CHECK_DEADLOCK FALSE
