SPECIFICATION Spec
CONSTANTS
    Missing = Missing
    Torn = Torn
    NoKey = NoKey
    Commands <- ReadmeCommands
    AuthImports = TRUE
    MaxRuns = 3
INVARIANTS
    TypeOK
    DiskIsWhole
    EnrolledInWholeDomain
    TokensFollowTls
    FreshStartWorks
CHECK_DEADLOCK FALSE
