SPECIFICATION Spec
CONSTANTS
    as_key = as_key
    other_key = other_key
    NoToken = NoToken
    as_url = as_url
    rs_url = rs_url
    as_public_key <- as_key
    Requests <- MountRequests
    Workers = {w1, w2, w3}
    SharedProcess = FALSE
    Preemptive = FALSE
    MaxLog = 1
    MaxTime = 0
INVARIANTS
    NoMixedPosition
    NoServerError
PROPERTIES
    MountIsAtomic
SYMMETRY Symmetry
