SPECIFICATION Spec
CONSTANTS
    k1 = k1
    WrongSecret = WrongSecret
    NoToken = NoToken
    as_url = as_url
    rs_url = rs_url
    as_public_key <- k1
    Clients <- MCClients
    secret <- MCSecret
    allowed_scopes <- MCScopes
    TokenRequests <- MCTokenRequests
    OtherTokens <- MCOtherTokens
    Requests <- MCRequests
    Jtis = {j1}
    Keys = {k1}
    token_lifetime = 1
    AsWorkers = {a1}
    RsWorkers = {w1}
    SharedProcess = FALSE
    Preemptive = FALSE
    MaxLog = 1
    Skew = 0
    MaxTime = 1
    MaxRestarts = 1
INVARIANTS
    RevocationIsEnforced
