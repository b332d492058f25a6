SPECIFICATION FairSpec
CONSTANTS
    as_key = as_key
    other_key = other_key
    NoToken = NoToken
    as_url = as_url
    rs_url = rs_url
    as_public_key <- as_key
    Requests <- ThreadRequests
    Workers = {w1, w2}
    SharedProcess = FALSE
    Preemptive = TRUE
    MaxLog = 2
    MaxTime = 0
INVARIANTS
    SlewingOnlyDuringSlew
    NoServerError
    LogKeepsTheLatest
PROPERTIES
    ListingIsTheLog
    EveryRequestAnswered
