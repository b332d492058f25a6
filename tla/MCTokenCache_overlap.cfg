SPECIFICATION Spec
CONSTANTS
    Processes = {p1, p2}
    Lengths = {1, 2}
    token_lifetime = 4
    Buffer = 2
    Skew = 1
    MaxLatency = 1
    Kills = FALSE
    NoToken = NoToken
    MaxTime = 5
INVARIANTS
    PersistedForReuse
SYMMETRY Symmetry
