SPECIFICATION Spec
CONSTANTS
    OtherKey = OtherKey
    WrongSecret = WrongSecret
    NoToken = NoToken
    as_url = as_url
    rs_url = rs_url
    Clients <- MCClients
    secret <- MCSecret
    allowed_scopes <- MCScopes
    TokenRequests <- MCRequests
    OtherTokens <- MCOtherTokens
    Jtis = {j1, j2}
    Keys = {k1, k2}
    token_lifetime = 2
    Workers = {w1, w2}
    MaxTime = 3
    MaxRestarts = 1
INVARIANTS
    TypeOK
    ScopesWithinRegistry
    RevokedOnlyIfPosted
    RevokeAnswerIsFinal
    IntrospectionIsAtomic
PROPERTIES
    InactiveIsForever
    IsTokenAuthority
SYMMETRY Symmetry
