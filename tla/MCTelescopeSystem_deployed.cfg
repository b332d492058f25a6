SPECIFICATION Spec
CONSTANTS
    k1 = k1
    WrongSecret = WrongSecret
    NoToken = NoToken
    as_url = as_url
    rs_url = rs_url
    as_public_key <- k1
    Clients <- MCClients
    secret <- MCSecret
    allowed_scopes <- MCScopes
    TokenRequests <- MCTokenRequests
    OtherTokens <- MCOtherTokens
    Requests <- MCRequests
    Jtis = {j1}
    Keys = {k1, k2}
    token_lifetime = 2
    AsWorkers = {a1}
    RsWorkers = {w1}
    SharedProcess = FALSE
    Preemptive = FALSE
    MaxLog = 1
    Skew <- Behind
    MaxTime = 3
    MaxRestarts = 1
INVARIANTS
    LeastPrivilege
PROPERTIES
    ExposureIsBounded
