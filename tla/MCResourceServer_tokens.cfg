SPECIFICATION Spec
CONSTANTS
    as_key = as_key
    other_key = other_key
    NoToken = NoToken
    as_url = as_url
    rs_url = rs_url
    as_public_key <- as_key
    Requests <- TokenRequests
    Workers = {w1, w2}
    SharedProcess = TRUE
    Preemptive = FALSE
    MaxLog = 1
    MaxTime = 3
INVARIANTS
    TypeOK
    ServedOnlyIfActive
    RefusalIsFinal
    RefusedLeaveNoTrace
SYMMETRY Symmetry
