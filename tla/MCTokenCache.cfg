SPECIFICATION FairSpec
CONSTANTS
    Processes = {p1, p2}
    Lengths = {1, 2}
    token_lifetime = 4
    Buffer = 2
    Skew = 1
    MaxLatency = 1
    Kills = TRUE
    NoToken = NoToken
    MaxTime = 6
INVARIANTS
    TypeOK
    NeverAnsweredExpired
    ReadableOnlyIfInterrupted
    SaveSticksIfAlone
PROPERTIES
    EveryCommandEnds
